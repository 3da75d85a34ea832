SPECIFICATION Spec
CONSTANTS
    a = a
    b = b
    N = 3
    Value = {a}
    Zero = zero
    ReadAt = {}
    WriteAt = {1}
    InitialFiles <- AgreeingDirectories
    MaxOps = 2
    MaxPending = 2
    MaxAnswers = 1
    MaxCrashes = 1
CHECK_DEADLOCK FALSE
INVARIANT RestartKeepsCopy
CONSTRAINT LinksInOrder
