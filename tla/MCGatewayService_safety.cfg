CONSTANTS
    t1 = t1
    t2 = t2
    hi = hi
    hello = hello
    howdy = howdy
    warm = warm
    cold = cold
    r1 = r1
    r2 = r2
    r3 = r3
    Nobody = Nobody
    Requests = {r1, r2, r3}
    Tenants = {t1, t2}
    Prompts = {hi, hello, howdy}
    Params = {warm, cold}
    Similar <- MCSimilar
    Workload <- MixedWorkload
    RedisMayFail = FALSE
    FallbackServes = FALSE
    StoresMayHang = {}
SPECIFICATION GatewaySpec
SYMMETRY RequestSymmetry
INVARIANTS
    GatewayTypeOK
    HitsSuitRequest
    ChargedOnce
    AccountedFor
    OneWinnerUnlessSlipped
