CONSTANTS
    Endpoints = 1
    Words = 3
    MaxReads = 2
    None = None
SPECIFICATION Spec
INVARIANT
    DtbAsStored
CHECK_DEADLOCK FALSE
