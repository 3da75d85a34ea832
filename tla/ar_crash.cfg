SPECIFICATION Spec
CONSTANTS
    a = a
    b = b
    N = 3
    Value = {a}
    Zero = zero
    ReadAt = {1}
    WriteAt = {1}
    InitialFiles <- FreshDirectories
    MaxOps = 2
    MaxPending = 2
    MaxAnswers = 1
    MaxCrashes = 1
CHECK_DEADLOCK FALSE
INVARIANT TypeOK
INVARIANT DurableQuorum
INVARIANT OneProposalPerOperation
INVARIANT Provenance
INVARIANT RestartKeepsCopyIfHighest
PROPERTY NeverRegresses
INVARIANT VersionsFollowRealTime
INVARIANT LinearizableIfHighest
