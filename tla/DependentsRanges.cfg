CONSTANTS
    Buyer = {b1}
    Distributor = {d1, d2}
    Importer = {i1, i2}
    MaxClaims = 2
    MaxBlock = 4
    MaxRange = 2
SPECIFICATION FairSpec
INVARIANTS
    TypeOK
    ViewTellsTheStates
    OnlyImportsAreMissing
    FundraiseMatches
    AirdropsMatch
    DuplicatesFromOverlapOnly
PROPERTY
    ImportedThenIndexed
CHECK_DEADLOCK FALSE
