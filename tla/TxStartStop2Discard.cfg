CONSTANTS
    N = 2
    Opened = {0}
    Sending = {0}
    Polite = TRUE
    MayStall = FALSE
SPECIFICATION Spec
INVARIANTS
    DiscardCounted
CHECK_DEADLOCK TRUE
