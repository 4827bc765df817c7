SPECIFICATION SourcesSpec
CONSTANTS
    Lookups = {1, 2}
    MaxTracks = 2
    MaxItems = 3
    Workers = 2
    Streams = {1, 2, 3}
    Configs <- MCConfigs
    Shared <- MCShared
    Life = 3
    Timeout = 1
    MaxNow = 5
    FileSize = 9
    Stripe = 2
    HighWater = 3
    Pieces = {1, 3}
    RetryLimit = 1
    MaxCuts = 2
CHECK_DEADLOCK FALSE
INVARIANTS CollectionInOrder RoutesEndRightly StreamIsWhole
PROPERTIES  EverythingSettles
