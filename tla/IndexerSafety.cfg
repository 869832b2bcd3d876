CONSTANTS
    MaxHead = 5
    ReorgDepth = 1
    MaxForks = 1
    NumKinds = 2
    NumFuncs = 1
    StartBlock = 1
    Interval = 2
    IndexerStartBlock = 1
    ChunkSize = 1
    Poison <- PoisonAtFour
    FaultKinds = {"crash", "raise", "commit_lost", "commit_ack_lost"}
    MaxFaults = 1
    MaxForced = 1
    MaxTries = 1
SPECIFICATION Spec
INVARIANTS
    TypeOK
    WholeBlocks
    OnlyCanonical
    IntervalsOnTime
PROPERTIES
    ImplementsBlockIndex
