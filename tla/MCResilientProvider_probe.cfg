CONSTANTS
    p1 = p1
    c1 = c1
    c2 = c2
    c3 = c3
    Providers = {p1}
    Calls = {c1, c2, c3}
    FailureThreshold = 2
    Cooldown = 1
    MaxRetries = 1
    MaxChunks = 1
SPECIFICATION ProviderSpec
INVARIANT SingleProbe
