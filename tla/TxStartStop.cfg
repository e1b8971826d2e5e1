CONSTANTS
    N = 4
    Opened = {0, 1}
    Sending = {0, 1}
    Polite = TRUE
    MayStall = FALSE
    MaxWords = 1
SPECIFICATION Spec
INVARIANTS
    TypeOK
    FrameWhole
    NoRequestLost
    StatusPortExclusive
    EnabledMatchesStatus
PROPERTIES
    StopDrained
    ImplementsLifecycle
CHECK_DEADLOCK TRUE
