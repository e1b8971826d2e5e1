CONSTANTS
    N = 2
    Opened = {0, 1}
    Sending = {0}
    Polite = TRUE
    MayStall = FALSE
    MaxWords = 1
SPECIFICATION FairSpec
PROPERTIES
    StartServed
    StopServed
CHECK_DEADLOCK TRUE
