SPECIFICATION FairSpec
CONSTANTS
    s1 = s1
    Sessions = {s1}
    NoSession = none
    QueueMax = 2
    ChunkSizes = {2}
    MaxObserved <- OneReads2
    MaxCrashes = 1
CHECK_DEADLOCK FALSE
PROPERTIES CrashedJobIsPublished FinalizerReturnsEventually
