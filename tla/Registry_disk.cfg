\* Two sessions of the daemon, two pane ids, and a restart.
SPECIFICATION Spec
CONSTANTS
    p = p
    q = q
    t1 = t1
    c1 = c1
    c2 = c2
    Ids = {p, q}
    Requests <- Mixed
    Trees = {t1}
    Clients = {c1, c2}
    None = None
    Last = Last
    MaxChildren = 4
    MaxVerbs = 3
    MaxTasks = 2
    MaxEnds = 1
SYMMETRY Alike
INVARIANTS
    DiskConverges
    

    
CHECK_DEADLOCK FALSE
