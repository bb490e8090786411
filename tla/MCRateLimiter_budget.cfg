CONSTANTS
    c1 = c1
    c2 = c2
    c3 = c3
    c4 = c4
    Checks = {c1, c2, c3, c4}
    Window = 2
    DefaultLimit = 1
    Overrides = {0}
    MaxTries = 2
    FailOpen = TRUE
    RedisMayFail = FALSE
    MaxTime = 2
SPECIFICATION LimiterSpec
SYMMETRY CheckSymmetry
INVARIANTS
    WithinBudget
