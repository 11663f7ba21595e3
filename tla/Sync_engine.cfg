SPECIFICATION Spec
CONSTANTS
    alpha = alpha
    beta = beta
    gamma = gamma
    Machine <- Two
    Absent = Absent
    Documents <- MCDocuments
    Clean <- MCClean
    Resolves <- MCResolves
    Neutral <- MCNeutral
    Native <- MCNative
    Siblings = {beta}
    SiblingDoc <- MCSibling
    Overlaps = {FALSE}
    MaxCounter = 2
    MaxEdits = 2
    MaxHistory = 3
    MaxWire = 2
    MaxCrashes = 1
INVARIANTS
    HonestCounters
    ReplacesOnlySeen

    
CHECK_DEADLOCK FALSE
