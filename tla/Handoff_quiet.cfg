\* Prompt peers: no deadline passes before a live peer commits, and no request
\* reaches a daemon in the middle of another handoff.
SPECIFICATION FairSpec
CONSTANTS
    d1 = d1
    d2 = d2
    d3 = d3
    p1 = p1
    Daemons = {d1, d2, d3}
    Panes = {p1}
    None = None
    MaxCrashes = 1
    Env = {}
INVARIANTS
    OneOwner
PROPERTIES
    ImplementsService
    AgentNeverStuck
    HandoffEnds
CHECK_DEADLOCK FALSE
