SPECIFICATION SourcesSpec
CONSTANTS
    Jobs = {1, 2, 3}
    Maximum = 2
    MaxRestarts = 1
    PpJobs = {1, 2}
    MaxRecords = 3
    NoWrite = NoWrite
    RchTimelines <- MCTimelines
    RchRacing <- MCRacing
    RchPublications = 2
INVARIANTS
    PpEnvelopeIsCommitted
    PpRefusalHasCause
    RchEnvelopeIsOnePublication
    RchTimelineTilesRaw
PROPERTIES
    PublishedOutsideScanIsOffered
    PpQuietJobIsDelivered
