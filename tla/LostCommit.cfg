CONSTANTS
    MaxHead = 5
    ReorgDepth = 1
    MaxForks = 1
    NumKinds = 2
    NumFuncs = 1
    StartBlock = 1
    Interval = 2
    IndexerStartBlock = 1
    ChunkSize = 1
    Poison = {}
    FaultKinds = {"commit_lost"}
    MaxFaults = 1
    MaxForced = 0
    MaxTries = 1
SPECIFICATION Spec
INVARIANTS
    WaitHonest
