\* Two phones, two pairings, two joins, two faults.
SPECIFICATION PairSpec
CONSTANTS
    None = None
    Phones = {p1, p2}
    MaxSessions = 2
    MaxTries = 2
    MaxFaults = 2
INVARIANTS
    CertMeansAccess
    OnlyTheCode
PROPERTIES
    PairingEnds
CHECK_DEADLOCK FALSE
