SPECIFICATION FairSpec
CONSTANTS
    Jobs = {1}
    Maximum = 1
    MaxRestarts = 0
PROPERTY
    PublishedIsOffered
