CONSTANTS
    MaxBlock = 3
    MaxRange = 1
    MaxDb = 3
    ArgsBlock = 1
    FirstClaim = 2
    MaxMishaps = 2
SPECIFICATION FairSpec
INVARIANTS
    TypeOK
    NoGaps
    AppliedOnce
    ServedIsLevel
PROPERTIES
    Finishes
CHECK_DEADLOCK FALSE
