CONSTANTS
    a = a
    b = b
    m1 = m1
    m2 = m2
    Devices = {a, b}
    Messages = {m1}
    From <- MCFrom
    To <- MCTo
    Size <- MCSize
    MaxMessages = 2
    MaxBytes = 2
    Ttl = 1
    DrainLimit = 2
    Times = {0}
    MaxSessions <- MCSessions
    MaxHangUps = 1
    MaxCrashes = 0
    OutboundQueue = 1
    Receivers = {b}
    Consumer = "daemon"
SPECIFICATION Spec
PROPERTIES
    SessionsEnd
CHECK_DEADLOCK FALSE
