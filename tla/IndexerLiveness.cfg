CONSTANTS
    MaxHead = 4
    ReorgDepth = 1
    MaxForks = 1
    NumKinds = 2
    NumFuncs = 1
    StartBlock = 1
    Interval = 2
    IndexerStartBlock = 1
    ChunkSize = 1
    Poison = {}
    FaultKinds = {"crash", "raise", "commit_ack_lost"}
    MaxFaults = 2
    MaxForced = 1
    MaxTries = 1
SPECIFICATION FairSpec
INVARIANTS
    AtMostOnce
    WaitHonest
PROPERTIES
    EventuallyIndexed
