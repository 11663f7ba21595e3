\* A daemon starts only between verbs; every process may die at every step.
SPECIFICATION Spec
CONSTANTS
    v0 = v0
    v1 = v1
    v2 = v2
    p1 = p1
    Version = {v0, v1, v2}
    First = v0
    Elsewhere = v0
    Panes = {p1}
    NoFile = NoFile
    NoMarker = NoMarker
    Torn = Torn
    Overlaps = FALSE
    MaxVerbs = 3
    MaxDeaths = 2
INVARIANTS
    CurrentRunnable
PROPERTIES
    NoDowngrade
    
CHECK_DEADLOCK FALSE
