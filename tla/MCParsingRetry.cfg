SPECIFICATION MCSpec
CONSTANTS
    BeepJobs = {1, 2}
    QueueSize = 1
    RecentLimit = 2
    Builds = {1, 2}
    Limit = 1
    MaxAttempts = 2
    MaxTroubles = 2
    MaxFailures = 1
PROPERTY
    RetryIsRetried
