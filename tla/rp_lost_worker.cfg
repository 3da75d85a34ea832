SPECIFICATION FairSpec
CONSTANTS
    Client = {c1, c2}
    Peer = {q}
    Self = self
    NSectors = 1
    None = none
    Closing = {c1}
    Room = 1
    MaxCommands = 1
    MaxLoad = 2
    MaxRequests = 0
CHECK_DEADLOCK FALSE
PROPERTY EveryCommandAnswered
