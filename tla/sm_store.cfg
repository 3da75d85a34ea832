SPECIFICATION Spec
CONSTANTS
    a = a
    b = b
    Sector = {s0, s1}
    Copy <- MCCopy
    Zero = zero
    Partial = partial
    None = none
    Rising = {s0}
    MaxCrashes = 2
    MaxLag = 2
CHECK_DEADLOCK FALSE
INVARIANT TypeOK
PROPERTY ImplementsStore
PROPERTY WriteIsOneStep
INVARIANT QuietDirectory
INVARIANT LoadFindsFile
