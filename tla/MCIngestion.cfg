SPECIFICATION FairSpec
CONSTANTS
    Jobs = {1, 2, 3}
    NoBatch = NoBatch
    Service = service
    Importer = importer
    DeviceOf <- MCDeviceOf
    SessionOf <- MCSessionOf
    WithDocuments = {3}
    Invalid = {1}
    Published = {2, 3}
    Moving = {}
    MaxVersion = 1
    Window = 1
    RetryAttempts = 2
    MaxPasses = 3
    MaxFaults = 2
INVARIANTS ImportedOnce ImporterDrainsQuietTree
PROPERTIES RaceLoserIsDuplicate BacklogDrains
