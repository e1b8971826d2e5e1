CONSTANTS
    N = 2
    Opened = {0}
    Sending = {0, 1}
    Polite = TRUE
    MayStall = FALSE
SPECIFICATION Spec
INVARIANTS
    TypeOK
    FrameWhole
    LongDiscardCounted
PROPERTIES
    ImplementsLifecycle
CHECK_DEADLOCK TRUE
