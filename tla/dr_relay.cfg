SPECIFICATION FairSpec
CONSTANTS
    Size = 4
    MaxRequests = 6
    MaxBreaks = 1
CHECK_DEADLOCK FALSE
INVARIANT TypeOK
INVARIANT RingHoldsOpenRequests
PROPERTY ForwardsOpenRequests
PROPERTY EveryRequestEnds
