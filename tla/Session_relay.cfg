\* One peer that sends, leaves and is probed; one chunk and one request out.
SPECIFICATION Spec
CONSTANTS
    a = a
    r = r
    None = None
    Peers = {a}
    Probed = {a}
    Callers = {r}
    PeerQueue = 1
    NewPeers = 4
    MaxEnvelopes = 3
    MaxSent = 1
    ProbeAttempts = 1
    MaxGone = 1
    Backlog = 2
INVARIANTS
    NoGapWithin
    ReplyFindsCaller
PROPERTIES
    
    StreamsEnd
CHECK_DEADLOCK FALSE
