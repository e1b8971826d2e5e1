CONSTANTS
    None = None
    Beyond = Beyond
    Text = Text
    NoFile = NoFile
    NoSetting = NoSetting
    default = default
    Simulator = Simulator
    ByName = ByName
    DATA_WIDTH = DATA_WIDTH
    small = small
    large = large
SPECIFICATION Spec
INVARIANTS
    TypeOK
    PcieServed
    HostServed
    
    
    
    
PROPERTIES
    ReadsBounded
CHECK_DEADLOCK FALSE
