SPECIFICATION FairSpec
CONSTANTS
    Output <- Ascii
    MaxStream = 4
    TtyCap = 2
    ChunkCap = 2
    MaxHandoffs = 2
    Capacity = 1
    MaxLine = 2
    MaxJournal = 3
INVARIANTS
    NoByteLost
    
    SnapshotExact
PROPERTIES
    ChildUnblocked
    ExitSeen
CHECK_DEADLOCK FALSE
