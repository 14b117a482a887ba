CONSTANTS
    None = None
    Unknown = Unknown
    antd = antd
    ele = ele
    r1 = r1
    LogPath = LogPath
SPECIFICATION MCSpec
INVARIANTS
    OperatorsHold
    ServicesHold
PROPERTIES
    ChoiceFixed
CHECK_DEADLOCK FALSE
