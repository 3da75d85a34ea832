SPECIFICATION FairSpec
CONSTANTS
    a = a
    b = b
    N = 3
    Value = {a}
    Zero = zero
    ReadAt = {1}
    WriteAt = {1}
    InitialFiles <- LaggingDirectories
    MaxOps = 1
    MaxPending = 1
    MaxAnswers = 2
    MaxCrashes = 2
CHECK_DEADLOCK FALSE
PROPERTY OperationsReturn
