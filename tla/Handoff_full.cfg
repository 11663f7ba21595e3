\* Everything the environment may do, at once.
SPECIFICATION Spec
CONSTANTS
    d1 = d1
    d2 = d2
    d3 = d3
    p1 = p1
    Daemons = {d1, d2, d3}
    Panes = {p1}
    None = None
    MaxCrashes = 1
    Env = {"slow", "rerequest", "chained", "sigterm", "midspawn"}
SYMMETRY Symmetry
INVARIANTS
    NoSplitBrain
    SocketNeverDead
PROPERTIES
    NeverUnlinksLive
CHECK_DEADLOCK FALSE
