CONSTANTS
    Protocol = {p1}
    Agent = {a1, a2}
    Amount = {1, 2}
    Share = {1}
    MaxBlock = 5
    MaxRange = 2
    Window = 2
SPECIFICATION Spec
SYMMETRY Symmetry
INVARIANTS
    TypeOK
    DetailsMatchContract
    PremiumsHaveNonstakers
    OldCoveragesClosed
    StatusMatchesUnlessFlapped
CHECK_DEADLOCK FALSE
