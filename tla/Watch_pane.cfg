\* Three inputs (output, readings, handoffs) in any mix; the journal holds everything.
SPECIFICATION WatchSpec
CONSTANTS
    IdleAfter = 2
    QuestionAfter = 2
    BlockedAfter = 3
    Window = 1
    Cap = 3
    MaxInputs = 3
    Loads = {0, 1, 2, 4}
    Racing = FALSE
    StoreOpens = {TRUE}
    None = None
INVARIANTS
    AlertOnce

    
    
CHECK_DEADLOCK FALSE
