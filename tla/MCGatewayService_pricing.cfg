CONSTANTS
    t1 = t1
    t2 = t2
    hi = hi
    hello = hello
    howdy = howdy
    warm = warm
    cold = cold
    r1 = r1
    r2 = r2
    r3 = r3
    Nobody = Nobody
    Requests = {r1}
    Tenants = {t1, t2}
    Prompts = {hi, hello, howdy}
    Params = {warm, cold}
    Similar <- MCSimilar
    Workload <- KindsWorkload
    RedisMayFail = FALSE
    FallbackServes = TRUE
    StoresMayHang = {}
SPECIFICATION GatewaySpec
INVARIANT PricedAsServed
