SPECIFICATION FairSpec
CONSTANTS
    Jobs = {1, 2}
    NoBatch = NoBatch
    Service = service
    Importer = importer
    DeviceOf <- MCDeviceOf
    SessionOf <- MCSessionOf
    WithDocuments = {}
    Invalid = {}
    Published = {1}
    Moving = {1}
    MaxVersion = 2
    Window = 2
    RetryAttempts = 2
    MaxPasses = 3
    MaxFaults = 0
PROPERTIES EveryJobIsImported
