CONSTANTS
    t1 = t1
    t2 = t2
    hi = hi
    hello = hello
    howdy = howdy
    warm = warm
    cold = cold
    r1 = r1
    r2 = r2
    r3 = r3
    Nobody = Nobody
    Requests = {r1, r2}
    Tenants = {t1}
    Prompts = {hi, hello}
    Params = {cold}
    Similar <- MCSimilar
    Workload <- KindsWorkload
    RedisMayFail = TRUE
    FallbackServes = FALSE
    StoresMayHang = {"redis", "postgres"}
SPECIFICATION FairGatewaySpec
INVARIANT OneWinnerUnlessSlipped
PROPERTIES
    LockFreed
    RequestEnds
