CONSTANTS
    Items = 5
    Data = {d1, d2}
SPECIFICATION FairSpec
INVARIANTS
    TypeOK
    StatusExact
PROPERTIES
    ImplementsFifo
    EventuallyOffered
CHECK_DEADLOCK TRUE
