SPECIFICATION Spec
CONSTANTS
    A = a
    T = t
    D = d
    Base = 2
    SectorSize = 4
    ClientKey = ck
    SystemKey = sk
    Uuid = {u}
    Command <- MCCommand
    MaxMessages = 2
    MaxStray = 4
    u = u
CHECK_DEADLOCK FALSE
INVARIANT ReturnsWhatWasSent
INVARIANT NothingSkipped
 
