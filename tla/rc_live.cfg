SPECIFICATION FairSpec
CONSTANTS
    N = 2
    Self = 2
    Worker = {w1, w2}
    None = none
    MaxCalls = 2
    Window = 1
    MaxQueue = 1
    MaxCrashes = 1
CHECK_DEADLOCK FALSE
INVARIANT TypeOK
INVARIANT InOrder
PROPERTY ArrivesOnOpenLink
PROPERTY RepeatsForever
