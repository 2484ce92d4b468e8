SPECIFICATION Spec
CONSTANTS
    Clients = {c1, c2}
    NoClient = none
    MaxConnections = 2
    HighWater = 1
    Policy = "abort"
    WaitClosedBlocks = {FALSE}
INVARIANTS
    CompleteIsForwarded
    AbortBoundsUnrecorded
    FailedWriteLeavesNoTail
    FinalizerOnlyLostInShutdown
SYMMETRY Symmetry
CHECK_DEADLOCK FALSE
