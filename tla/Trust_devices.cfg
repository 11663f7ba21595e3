\* Two keys, one command at a time, two deaths.
SPECIFICATION Spec
CONSTANTS
    d1 = d1
    d2 = d2
    o1 = o1
    NoRow = NoRow
    Devices = {d1, d2}
    Operators = {o1}
    MaxIssued = 3
    MaxDeaths = 2
    FreshKeys = TRUE
    Overlaps = FALSE
INVARIANTS
    
    NeverLockedOut
PROPERTIES
    CutStaysCut
    OpenSessionCut
CHECK_DEADLOCK FALSE
