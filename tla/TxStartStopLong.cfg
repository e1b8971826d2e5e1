CONSTANTS
    N = 2
    Opened = {0}
    Sending = {0, 1}
    Polite = TRUE
    MayStall = FALSE
    MaxWords = 2
SPECIFICATION Spec
INVARIANTS
    FrameWhole
    DiscardCounted
CHECK_DEADLOCK TRUE
