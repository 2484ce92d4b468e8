SPECIFICATION FairSpec
CONSTANTS
    Clients = {c1}
    NoClient = none
    MaxConnections = 1
    HighWater = 1
    Policy = "continue"
    WaitClosedBlocks = {TRUE, FALSE}
PROPERTIES
    SilentSessionEnds
    StopIsBounded
CHECK_DEADLOCK FALSE
