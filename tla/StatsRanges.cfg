CONSTANTS
    Interval = 1
    IndexerStartBlock = 1
    MaxBlock = 4
    MaxRange = 2
    Value <- Worth
    Tvl <- Locked
    Premium <- Premiums
    Year = 1
    Protocols <- Spreadsheet
    Active <- Insured
    Strategy = {s1, s2}
    Balance <- Invested
    MaxFaults = 1
    Limit = 1
SPECIFICATION PagesSpec
INVARIANTS
    TypeOK
    RowsEveryPeriod
    PremiumsWithinApy
    SinglePeriodUpToDate
    TvlsAsNewAsTvc
    StrategiesListed
    PagesMissNothing
    TvlRowsHaveApy
CHECK_DEADLOCK FALSE
