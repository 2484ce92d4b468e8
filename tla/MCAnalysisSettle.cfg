SPECIFICATION FairSpec
CONSTANTS
    MinimumScore = 60
    TimeWindow = 7200
    MinimumPercent = 20
    MinimumCount = 3
    MaximumCopies = 1
    MinimumTransactions = 1
    Lookback = 2
    Limit = 3
    Scenarios <- MCChain
PROPERTY
    EpisodesSettle
