SPECIFICATION Spec
CONSTANTS
    a = a
    b = b
    N = 2
    Value = {a, b}
    Zero = zero
    ReadAt = {1, 2}
    WriteAt = {1, 2}
    InitialFiles <- FreshDirectories
    MaxOps = 3
    MaxPending = 2
    MaxAnswers = 1
    MaxCrashes = 0
CHECK_DEADLOCK FALSE
INVARIANT VersionsFollowRealTime
INVARIANT LinearizableIfHighest
SYMMETRY ValueSymmetry
