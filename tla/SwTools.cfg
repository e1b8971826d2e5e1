CONSTANTS
    None = None
    Miss = Miss
    NoUpload = NoUpload
    NoFile = NoFile
    Partial = Partial
    KeyWidth = 2
    DataWidth = 1
    HashWidth = 1
    HashKeyWidth = 2
    TableData = {1, 2, Text}
    HandFiles <- HashFiles
    HashKeys = {2}
    MaxCommands = 4
    TicksPerSec = 8
    MinSpeed = 2
    IntervalCount = 2
    Sections = {2, 5, 7, 9}
    SpeedLists <- SpeedsAsked
    DefaultRegs <- IdleLimiter
    Queues = {0, 1}
    MeterTicks = 2
    MaxMethods = 3
    Implemented = "8x25G-1"
    ChannelCount <- TwoChannels
    MaxSwaps = 2
    LaneCount = 2
    Media = {20, 10}
    MaxPmaCalls = 3
SPECIFICATION Spec
INVARIANTS
    TypeOK
    
    
PROPERTIES
    StaysConsistent
CHECK_DEADLOCK FALSE
