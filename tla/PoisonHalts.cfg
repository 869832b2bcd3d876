CONSTANTS
    MaxHead = 6
    ReorgDepth = 0
    MaxForks = 0
    NumKinds = 2
    NumFuncs = 1
    StartBlock = 1
    Interval = 2
    IndexerStartBlock = 1
    ChunkSize = 1
    Poison <- PoisonAtFour
    FaultKinds = {}
    MaxFaults = 0
    MaxForced = 0
    MaxTries = 1
SPECIFICATION FairSpec
PROPERTIES
    EventuallyIndexed
