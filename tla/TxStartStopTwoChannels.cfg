CONSTANTS
    N = 2
    Opened = {0, 1}
    Sending = {0}
    Polite = TRUE
    MayStall = FALSE
    MaxWords = 1
SPECIFICATION Spec
PROPERTIES
    StopDrained
CHECK_DEADLOCK TRUE
