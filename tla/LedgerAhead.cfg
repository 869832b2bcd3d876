CONSTANTS
    Id = {t1, t2}
    Owner = {u1, u2}
    MaxBlock = 6
    Price <- GrowingPrice
    Periods = {2}
    SafeTime = 1
    MaxRange = 1
    Interval = 3
SPECIFICATION Spec
SYMMETRY Symmetry
INVARIANTS
    SameHeight
CHECK_DEADLOCK FALSE
