CONSTANTS
    MaxBlock = 3
    MaxRange = 1
    MaxDb = 3
    ArgsBlock = 1
    FirstClaim = 2
    MaxMishaps = 1
SPECIFICATION FairSpec
INVARIANT
    UpToDateWithLive
CHECK_DEADLOCK FALSE
