CONSTANTS
    Id = {t1, t2}
    Owner = {u1, u2}
    MaxBlock = 5
    Day = 2
    Price <- GrowingPrice
    Periods = {2}
    SafeTime = 1
    MaxRange = 1
    Interval = 3
SPECIFICATION ViewsSpec
SYMMETRY Symmetry
INVARIANTS
    TypeOK
    TableMatchesContract
    ValuesStayExact
    StakingAnswerExact
    StatusNotBehind
    StampNotAhead
    PointsMatchContract
CHECK_DEADLOCK FALSE
