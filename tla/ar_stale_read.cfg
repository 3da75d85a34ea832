SPECIFICATION Spec
CONSTANTS
    a = a
    b = b
    N = 3
    Value = {a, b}
    Zero = zero
    ReadAt = {2}
    WriteAt = {1}
    InitialFiles <- AgreeingDirectories
    MaxOps = 2
    MaxPending = 1
    MaxAnswers = 1
    MaxCrashes = 0
CHECK_DEADLOCK FALSE
INVARIANT Linearizable
