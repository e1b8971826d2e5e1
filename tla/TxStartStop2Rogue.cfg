CONSTANTS
    N = 2
    Opened = {0}
    Sending = {0}
    Polite = FALSE
    MayStall = TRUE
SPECIFICATION Spec
INVARIANTS
    NoRequestLost
PROPERTIES
    ImplementsLifecycle
CHECK_DEADLOCK TRUE
