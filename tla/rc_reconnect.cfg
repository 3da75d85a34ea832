SPECIFICATION FairSpec
CONSTANTS
    N = 2
    Self = 1
    Worker = {w1}
    None = none
    MaxCalls = 1
    Window = 1
    MaxQueue = 1
    MaxCrashes = 1
CHECK_DEADLOCK FALSE
PROPERTY NoMessageLost
