CONSTANTS
    c1 = c1
    c2 = c2
    c3 = c3
    c4 = c4
    Checks = {c1, c2, c3}
    Window = 1
    DefaultLimit = 1
    Overrides <- MCOverrides
    MaxTries = 2
    FailOpen = TRUE
    RedisMayFail = TRUE
    MaxTime = 2
SPECIFICATION LimiterSpec
SYMMETRY CheckSymmetry
INVARIANTS
    LimiterTypeOK
    BudgetUnlessRegressed
    ContentionMeansProgress
