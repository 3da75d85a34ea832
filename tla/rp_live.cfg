SPECIFICATION FairSpec
CONSTANTS
    Client = {c1, c2}
    Peer = {q}
    Self = self
    NSectors = 2
    None = none
    Closing = {c1}
    Room = 1
    MaxCommands = 2
    MaxLoad = 3
    MaxRequests = 1
CHECK_DEADLOCK FALSE
INVARIANT TypeOK
INVARIANT PermitPerCallback
INVARIANT RespondedOnce
 
PROPERTY AnsweredWhileOpen
