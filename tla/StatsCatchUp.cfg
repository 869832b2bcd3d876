CONSTANTS
    Interval = 2
    IndexerStartBlock = 1
    MaxBlock = 9
    MaxRange = 4
    Value <- Worth
    Tvl <- Locked
    Premium <- Premiums
    Year = 1
    Protocols <- Spreadsheet
    Active <- Insured
    Strategy = {s1, s2}
    Balance <- Invested
    MaxFaults = 1
SPECIFICATION Spec
INVARIANTS
    ApyUpToDate
CHECK_DEADLOCK FALSE
