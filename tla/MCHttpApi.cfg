CONSTANTS
    r1 = r1
    r2 = r2
    a1 = a1
    a2 = a2
    base1 = base1
    base2 = base2
    lora1 = lora1
    lora2 = lora2
    cheap = cheap
    dear = dear
    NoRow = NoRow
    NoPrice = NoPrice
    Requests = {r1, r2}
    Admins = {a1, a2}
    StoresMayFail = TRUE
    Models = {base1, base2}
    Adapters = {lora1, lora2}
    Percents = {0, 50}
    Buckets = {0, 49, 50}
    Prices = {cheap, dear}
    MaxDay = 1
    Scenarios <- MCScenarios
SPECIFICATION FairApiSpec
INVARIANTS
    ApiTypeOK
    RevokedServedOnlyByRace
    AnswerFromOneMoment
    MixedRouteOnlyByClash
    FreeOnlyForAReason
PROPERTIES
    RevocationTakesEffect
    PriceChangeArrives
    AllAnswered
