SPECIFICATION Spec
CONSTANTS
    s1 = s1
    Sessions = {s1}
    NoSession = none
    QueueMax = 2
    ChunkSizes = {2}
    MaxObserved <- OneReads3
    MaxCrashes = 1
INVARIANTS
    CaptureInv
    CompleteIsHonest
    TimelineIsPrefix
    NoSpuriousOrderError
    ReadyBindsFiles
    CompleteIsImportable
    RefusedOnlyForFailedWrites
PROPERTIES
    PublishedIsImmutable
    ImplementsJobEvidence
CHECK_DEADLOCK FALSE
