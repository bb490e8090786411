--------------------------- MODULE HttpApiProofs ---------------------------
(***************************************************************************)
(* The composition implements each of its components: what is proved of    *)
(* AuthService and AdapterRoutes alone holds behind the HTTP interface.    *)
(* CostService is proved about here as well, as are the types of all.      *)
(***************************************************************************)
EXTENDS HttpApi, AuthServiceProofs, AdapterRoutesProofs

-----------------------------------------------------------------------------
(* The composition.                                                        *)

\* The scenario is chosen once.
LEMMA ScenarioFixed == ApiSpec => [](scenario \in Scenarios)
<1>1. ApiInit => scenario \in Scenarios
  BY DEF ApiInit
<1>2. scenario \in Scenarios /\ [ApiNext]_apiVars => (scenario \in Scenarios)'
  <2> SUFFICES ASSUME scenario \in Scenarios, [ApiNext]_apiVars
               PROVE  scenario' = scenario
    OBVIOUS
  <2>1. ASSUME NEW r, RequestStep(r)
        PROVE  scenario' = scenario
    BY <2>1 DEF RequestStep, AuthOnly, RouteOnly, CostOnly, LoginReturns, PassLimiter,
                LookupReturns, CallReturns, QuoteReturns
  <2>2. ASSUME NEW a, StartDuty(a) \/ AdminStep(a)
        PROVE  scenario' = scenario
    BY <2>2 DEF StartDuty, AdminStep, AuthOnly, RouteOnly, FinishDuty
  <2>3. CASE Elapse
    BY <2>3 DEF Elapse, AuthOnly, CostOnly
  <2>4. QED
    BY <2>1, <2>2, <2>3 DEF ApiNext, Arrive, apiVars
<1>3. QED
  BY <1>1, <1>2, PTL DEF ApiSpec

LEMMA ScenarioFacts ==
    ASSUME scenario \in Scenarios
    PROVE  /\ scenario.clients \subseteq Requests
           /\ scenario.preferences \subseteq Stages \union {"any"}
           /\ \A a \in Admins : DutyOf(a) \in Duty
  BY ApiAssumption DEF ApiAssumption, DutyOf

\* Every step of the interface is one of AuthService or leaves it alone.
LEMMA StepOfAuth ==
    ASSUME scenario \in Scenarios, [ApiNext]_apiVars
    PROVE  [AuthNext]_authVars
<1>1. ASSUME NEW r \in Requests, RequestStep(r)
      PROVE  [AuthNext]_authVars
  <2>1. CASE AuthOnly(LoginStep(r)) \/ LoginReturns(r)
    BY <2>1 DEF AuthOnly, LoginReturns, AuthNext
  <2>2. CASE ~(AuthOnly(LoginStep(r)) \/ LoginReturns(r))
    BY <1>1, <2>2 DEF RequestStep, RouteOnly, CostOnly, PassLimiter, LookupReturns,
                      CallReturns, QuoteReturns
  <2>3. QED
    BY <2>1, <2>2
<1>2. ASSUME NEW r \in Requests, NEW ask \in scenario.asks,
             Arrive(r, ask.endpoint, ask.credential)
      PROVE  [AuthNext]_authVars
  <2>1. CASE UNCHANGED authVars
    BY <2>1
  <2>2. CASE Authenticate(r, ask.credential = "key")
    <3>1. (ask.credential = "key") \in BOOLEAN
      OBVIOUS
    <3>2. QED
      BY <2>2, <3>1 DEF AuthNext
  <2>3. QED
    BY <1>2, <2>1, <2>2 DEF Arrive
<1>3. ASSUME NEW a \in Admins, StartDuty(a) \/ AdminStep(a)
      PROVE  [AuthNext]_authVars
  BY <1>3 DEF StartDuty, AdminStep, AuthOnly, RouteOnly, FinishDuty, AuthNext
<1>4. CASE Elapse
  BY <1>4 DEF Elapse, AuthOnly, CostOnly, AuthNext
<1>5. CASE UNCHANGED apiVars
  BY <1>5 DEF apiVars
<1>6. QED
  BY <1>1, <1>2, <1>3, <1>4, <1>5, ScenarioFacts DEF ApiNext

\* Whatever the interface does, it does to keys what AuthService does.
THEOREM ApiImplementsAuth == ApiSpec => AuthSpec
<1>1. ApiInit => AuthInit
  BY DEF ApiInit
<1>2. QED
  BY <1>1, StepOfAuth, ScenarioFixed, PTL DEF ApiSpec, AuthSpec

\* Likewise for AdapterRoutes; what admins ask for are well formed routes.
LEMMA StepOfRoutes ==
    ASSUME scenario \in Scenarios, [ApiNext]_apiVars
    PROVE  [RouteNext]_routeVars
<1>1. ASSUME NEW r \in Requests, RequestStep(r)
      PROVE  [RouteNext]_routeVars
  <2>1. CASE RouteOnly(LookupStep(r)) \/ LookupReturns(r)
    BY <2>1 DEF RouteOnly, LookupReturns, RouteNext
  <2>2. CASE PassLimiter(r)
    BY <2>2, ScenarioFacts DEF PassLimiter, RouteNext
  <2>3. CASE AuthOnly(LoginStep(r)) \/ CostOnly(QuoteStep(r)) \/ LoginReturns(r)
             \/ CallReturns(r) \/ QuoteReturns(r)
    BY <2>3 DEF AuthOnly, CostOnly, LoginReturns, CallReturns, QuoteReturns
  <2>4. QED
    BY <1>1, <2>1, <2>2, <2>3 DEF RequestStep
<1>2. ASSUME NEW r \in Requests, NEW ask \in scenario.asks,
             Arrive(r, ask.endpoint, ask.credential)
      PROVE  [RouteNext]_routeVars
  BY <1>2 DEF Arrive
<1>3. ASSUME NEW a \in Admins, StartDuty(a)
      PROVE  [RouteNext]_routeVars
  <2> DEFINE d == DutyOf(a)
  <2>1. d \in Duty
    BY ScenarioFacts
  <2>2. CASE d.kind = "upsert" /\ StartUpsert(a, d.stage, d.row.base, d.row.adapter,
                                              d.row.enabled, d.row.canary)
    <3>1. d.stage \in Stages /\ d.row \in Row /\ d.row.canary \in Percents
      BY <2>1, <2>2 DEF Duty
    <3>2. d.row.base \in Models /\ d.row.adapter \in Adapters /\ d.row.enabled \in BOOLEAN
      BY <3>1 DEF Row
    <3>3. QED
      BY <2>2, <3>1, <3>2 DEF RouteNext
  <2>3. CASE d.kind = "disable" /\ StartDisable(a, d.stage)
    <3>1. d.stage \in Stages
      BY <2>1, <2>3 DEF Duty
    <3>2. QED
      BY <2>3, <3>1 DEF RouteNext
  <2>4. CASE UNCHANGED routeVars
    BY <2>4
  <2>5. QED
    BY <1>3, <2>2, <2>3, <2>4 DEF StartDuty
<1>4. ASSUME NEW a \in Admins, AdminStep(a)
      PROVE  [RouteNext]_routeVars
  BY <1>4 DEF AdminStep, AuthOnly, RouteOnly, FinishDuty, RouteNext
<1>5. CASE Elapse
  BY <1>5 DEF Elapse, AuthOnly, CostOnly
<1>6. CASE UNCHANGED apiVars
  BY <1>6 DEF apiVars
<1>7. QED
  BY <1>1, <1>2, <1>3, <1>4, <1>5, <1>6, ScenarioFacts DEF ApiNext

\* Whatever the interface does, it does to routes what AdapterRoutes does.
THEOREM ApiImplementsRoutes == ApiSpec => RouteSpec
<1>1. ApiInit => RouteInit
  BY DEF ApiInit
<1>2. QED
  BY <1>1, StepOfRoutes, ScenarioFixed, PTL DEF ApiSpec, RouteSpec

-----------------------------------------------------------------------------
(* The price list.                                                         *)

QuoteRec == [pc : {"idle", "looking", "loading", "storing", "done"},
             price : Prices \union {NoPrice}]

LEMMA ActiveTyped ==
    ASSUME NEW rows \in SUBSET [from : 0..MaxDay, price : Prices], NEW at
    PROVE  ActivePrices(rows, at) \subseteq Prices
  BY DEF ActivePrices

\* What a price can be that was cached or quoted: one that has been effective,
\* or nothing if there is a reason for that.
Accounted(price, known, reason) ==
    IF price = NoPrice THEN reason ELSE price \in known
Now(price) == Accounted(price, effective, unpriced \/ blamed)
Next(price) == Accounted(price, effective', unpriced' \/ blamed')

\* The inductive invariant: the history knows the price of now, and whatever is
\* cached or loaded is accounted for, not only what is quoted at last.
PriceInv ==
    /\ quote \in [Requests -> QuoteRec]
    /\ tariff \subseteq [from : 0..MaxDay, price : Prices]
    /\ day \in 0..MaxDay
    /\ priceCache \in Prices \union {NoPrice, "none"}
    /\ ActivePrices(tariff, day) \subseteq effective
    /\ ActivePrices(tariff, day) = {} => unpriced
    /\ priceCache # "none" => Now(priceCache)
    /\ \A r \in Requests : quote[r].pc \in {"storing", "done"} => Now(quote[r].price)

\* The history only grows, so that what it accounts for stays accounted for.
LEMMA StaysAccounted ==
    ASSUME effective \subseteq effective', unpriced => unpriced', blamed => blamed'
    PROVE  \A price : Now(price) => Next(price)
  BY DEF Now, Next, Accounted

\* A step of one quote: what it writes to the cache and what it takes along must
\* be accounted for.
LEMMA QuoteMoves ==
    ASSUME PriceInv, NEW r \in Requests, NEW from,
           NEW to \in {"idle", "looking", "loading", "storing", "done"},
           NEW price \in Prices \union {NoPrice}, Quoting(r, from, to, price),
           to \in {"storing", "done"} => Next(price),
           UNCHANGED priceCache \/ (priceCache' = price /\ Next(price)),
           blamed => blamed', UNCHANGED <<day, tariff, effective, unpriced>>
    PROVE  PriceInv'
<1>1. quote \in [Requests -> QuoteRec]
  BY DEF PriceInv
<1>2. /\ quote' \in [Requests -> QuoteRec]
      /\ \A q \in Requests :
            quote'[q] = IF q = r THEN [pc |-> to, price |-> price] ELSE quote[q]
  BY <1>1 DEF Quoting, QuoteRec
<1>3. \A x : Now(x) => Next(x)
  BY StaysAccounted
<1>4. \A q \in Requests : quote'[q].pc \in {"storing", "done"} => Next(quote'[q].price)
  <2> TAKE q \in Requests
  <2>1. CASE q = r
    BY <1>2, <2>1
  <2>2. CASE q # r
    BY <1>2, <1>3, <2>2 DEF PriceInv
  <2>3. QED
    BY <2>1, <2>2
<1>5. /\ priceCache' # "none" => Next(priceCache')
      /\ priceCache' \in Prices \union {NoPrice, "none"}
  BY <1>3 DEF PriceInv
<1>6. PriceInv' = /\ quote' \in [Requests -> QuoteRec]
                  /\ tariff' \subseteq [from : 0..MaxDay, price : Prices]
                  /\ day' \in 0..MaxDay
                  /\ priceCache' \in Prices \union {NoPrice, "none"}
                  /\ ActivePrices(tariff', day') \subseteq effective'
                  /\ ActivePrices(tariff', day') = {} => unpriced'
                  /\ priceCache' # "none" => Next(priceCache')
                  /\ \A q \in Requests :
                        quote'[q].pc \in {"storing", "done"} => Next(quote'[q].price)
  BY DEF PriceInv, Now, Next, ActivePrices
<1>7. QED
  BY <1>2, <1>4, <1>5, <1>6 DEF PriceInv

\* A new row, or a new day: the prices of now are recorded.
LEMMA TariffMoves ==
    ASSUME PriceInv, tariff' \subseteq [from : 0..MaxDay, price : Prices],
           day' \in 0..MaxDay, Record(tariff', day'), UNCHANGED <<priceCache, quote, blamed>>
    PROVE  PriceInv'
<1>1. unpriced => unpriced'
  BY Zenon DEF Record
<1>2. ActivePrices(tariff', day') = {} => unpriced'
  BY Zenon DEF Record
<1>3. effective \subseteq effective' /\ ActivePrices(tariff', day') \subseteq effective'
  BY DEF Record
<1>4. \A x : Now(x) => Next(x)
  BY <1>1, <1>3, StaysAccounted
<1>5. /\ ActivePrices(tariff, day)' = ActivePrices(tariff', day')
      /\ \A x : Next(x) <=> Accounted(x, effective', unpriced' \/ blamed')
  BY DEF ActivePrices, Next
<1>6. QED
  BY <1>2, <1>3, <1>4, <1>5 DEF PriceInv, Now

LEMMA PriceStep == PriceInv /\ [CostNext]_costVars => PriceInv'
<1> SUFFICES ASSUME PriceInv, [CostNext]_costVars
             PROVE  PriceInv'
  OBVIOUS
<1>1. ASSUME NEW r \in Requests, StartQuote(r) \/ LeaveQuote(r)
      PROVE  PriceInv'
  BY <1>1, QuoteMoves DEF StartQuote, LeaveQuote, costHistory
<1>2. ASSUME NEW r \in Requests, GetCachedPrice(r)
      PROVE  PriceInv'
  <2>1. CASE priceCache # "none" /\ Quoting(r, "looking", "done", priceCache)
    <3>1. priceCache \in Prices \union {NoPrice} /\ Now(priceCache)
      BY <2>1 DEF PriceInv
    <3>2. UNCHANGED <<day, tariff, priceCache, blamed, effective, unpriced>>
      BY <1>2 DEF GetCachedPrice, costHistory
    <3>3. Next(priceCache)
      BY <3>1, <3>2 DEF Now, Next, Accounted
    <3>4. QED
      BY <2>1, <3>1, <3>2, <3>3, QuoteMoves
  <2>2. CASE Quoting(r, "looking", "loading", NoPrice)
    BY <1>2, <2>2, QuoteMoves DEF GetCachedPrice, costHistory
  <2>3. QED
    BY <1>2, <2>1, <2>2 DEF GetCachedPrice
<1>3. ASSUME NEW r \in Requests, LoadPrice(r)
      PROVE  PriceInv'
  <2> DEFINE active == ActivePrices(tariff, day)
  <2>1. active \subseteq Prices
    BY ActiveTyped DEF PriceInv
  <2>2. UNCHANGED <<day, tariff, priceCache, effective, unpriced>>
    BY <1>3 DEF LoadPrice
  <2>3. active \subseteq effective /\ (active = {} => unpriced)
    BY DEF PriceInv
  <2> HIDE DEF active
  <2>4. ASSUME NEW price \in IF active = {} THEN {NoPrice} ELSE active,
               Quoting(r, "loading", "storing", price), UNCHANGED blamed
        PROVE  PriceInv'
    <3>1. price \in Prices \union {NoPrice} /\ Now(price)
      BY <2>1, <2>3, <2>4, CostAssumption DEF CostAssumption, Now, Accounted
    <3>2. Next(price)
      BY <2>2, <2>4, <3>1 DEF Now, Next, Accounted
    <3>3. QED
      BY <2>2, <2>4, <3>1, <3>2, QuoteMoves
  <2>5. ASSUME Quoting(r, "loading", "storing", NoPrice), blamed' = (blamed \/ active # {})
        PROVE  PriceInv'
    <3>1. (blamed => blamed') /\ (active # {} => blamed')
      BY <2>5, Zenon
    <3>2. Next(NoPrice)
      BY <2>2, <2>3, <3>1 DEF Now, Next, Accounted
    <3>3. QED
      BY <2>2, <2>5, <3>1, <3>2, QuoteMoves
  <2>6. QED
    BY <1>3, <2>4, <2>5 DEF LoadPrice, active
<1>4. ASSUME NEW r \in Requests, StorePrice(r)
      PROVE  PriceInv'
  <2> DEFINE price == quote[r].price
  <2>1. price \in Prices \union {NoPrice} /\ Now(price)
    BY <1>4 DEF StorePrice, Quoting, PriceInv, QuoteRec
  <2>2. /\ Quoting(r, "storing", "done", price)
        /\ UNCHANGED <<day, tariff, blamed, effective, unpriced>>
        /\ priceCache' = price \/ priceCache' = priceCache
    BY <1>4 DEF StorePrice, costHistory
  <2>3. Next(price)
    BY <2>1, <2>2 DEF Now, Next, Accounted
  <2> HIDE DEF price
  <2>4. QED
    BY <2>1, <2>2, <2>3, QuoteMoves
<1>5. ASSUME NEW from \in 0..MaxDay, NEW price \in Prices, CreatePricing(from, price)
      PROVE  PriceInv'
  <2>1. /\ tariff' \subseteq [from : 0..MaxDay, price : Prices]
        /\ day' = day /\ day \in 0..MaxDay
    BY <1>5 DEF CreatePricing, PriceInv
  <2>2. QED
    BY <1>5, <2>1, TariffMoves DEF CreatePricing
<1>6. CASE NextDay
  <2>1. day' \in 0..MaxDay /\ tariff' = tariff
    BY <1>6, CostAssumption DEF NextDay, PriceInv, CostAssumption
  <2>2. QED
    BY <1>6, <2>1, TariffMoves DEF NextDay, PriceInv
<1>7. CASE ExpirePrice \/ UNCHANGED costVars
  BY <1>7 DEF ExpirePrice, costVars, costHistory, PriceInv, Now, ActivePrices
<1>8. QED
  BY <1>1, <1>2, <1>3, <1>4, <1>5, <1>6, <1>7 DEF CostNext, QuoteStep

LEMMA PriceInit == CostInit => PriceInv
<1> SUFFICES ASSUME CostInit
             PROVE  PriceInv
  OBVIOUS
<1>1. NotQuoted \in QuoteRec /\ NotQuoted.pc = "idle"
  BY DEF NotQuoted, QuoteRec
<1>2. ActivePrices(tariff, day) = {} => unpriced
  BY Zenon DEF CostInit
<1>3. QED
  BY <1>1, <1>2 DEF CostInit, PriceInv

\* A request is priced by a price that has been effective, or at nothing because
\* none was or a failed read was taken for that.
THEOREM PricedWithReason == CostSpec => []FreeOnlyForAReason
<1>1. PriceInv => FreeOnlyForAReason
  BY DEF PriceInv, Now, Accounted, FreeOnlyForAReason
<1>2. QED
  BY <1>1, PriceInit, PriceStep, PTL DEF CostSpec

-----------------------------------------------------------------------------
(* CostService in the composition, and what holds behind the interface.    *)

LEMMA StepOfCosts ==
    ASSUME scenario \in Scenarios, [ApiNext]_apiVars
    PROVE  [CostNext]_costVars
<1>1. ASSUME NEW r \in Requests, RequestStep(r)
      PROVE  [CostNext]_costVars
  <2>1. CASE CostOnly(QuoteStep(r)) \/ CallReturns(r) \/ QuoteReturns(r)
    BY <2>1 DEF CostOnly, CallReturns, QuoteReturns, CostNext
  <2>2. CASE AuthOnly(LoginStep(r)) \/ RouteOnly(LookupStep(r)) \/ LoginReturns(r)
             \/ PassLimiter(r) \/ LookupReturns(r)
    BY <2>2 DEF AuthOnly, RouteOnly, LoginReturns, PassLimiter, LookupReturns
  <2>3. QED
    BY <1>1, <2>1, <2>2 DEF RequestStep
<1>2. ASSUME NEW r \in Requests, NEW ask \in scenario.asks,
             Arrive(r, ask.endpoint, ask.credential)
      PROVE  [CostNext]_costVars
  BY <1>2 DEF Arrive
<1>3. ASSUME NEW a \in Admins, StartDuty(a)
      PROVE  [CostNext]_costVars
  <2> DEFINE d == DutyOf(a)
  <2>1. CASE d.kind = "price" /\ CreatePricing(d.from, d.price)
    <3>1. d.from \in 0..MaxDay /\ d.price \in Prices
      BY <2>1, ScenarioFacts DEF Duty
    <3>2. QED
      BY <2>1, <3>1 DEF CostNext
  <2>2. CASE UNCHANGED costVars
    BY <2>2
  <2>3. QED
    BY <1>3, <2>1, <2>2 DEF StartDuty
<1>4. ASSUME NEW a \in Admins, AdminStep(a)
      PROVE  [CostNext]_costVars
  BY <1>4 DEF AdminStep, AuthOnly, RouteOnly, FinishDuty
<1>5. CASE Elapse
  BY <1>5 DEF Elapse, AuthOnly, CostOnly, CostNext
<1>6. CASE UNCHANGED apiVars
  BY <1>6 DEF apiVars
<1>7. QED
  BY <1>1, <1>2, <1>3, <1>4, <1>5, <1>6, ScenarioFacts DEF ApiNext

\* Whatever the interface does, it does to prices what CostService does.
THEOREM ApiImplementsCosts == ApiSpec => CostSpec
<1>1. ApiInit => CostInit
  BY DEF ApiInit
<1>2. QED
  BY <1>1, StepOfCosts, ScenarioFixed, PTL DEF ApiSpec, CostSpec

\* The history of prices is of its types too.
CostHistoryOK == blamed \in BOOLEAN /\ effective \subseteq Prices /\ unpriced \in BOOLEAN

LEMMA CostHistoryStep ==
    PriceInv /\ CostHistoryOK /\ [CostNext]_costVars => CostHistoryOK'
<1> SUFFICES ASSUME PriceInv, CostHistoryOK, [CostNext]_costVars
             PROVE  CostHistoryOK'
  OBVIOUS
<1>1. CASE UNCHANGED costHistory
  BY <1>1 DEF costHistory, CostHistoryOK
<1>2. ASSUME NEW r \in Requests, LoadPrice(r)
      PROVE  CostHistoryOK'
  <2>1. UNCHANGED <<effective, unpriced>>
    BY <1>2 DEF LoadPrice
  <2>2. blamed' \in BOOLEAN
    BY <1>2, Zenon DEF LoadPrice, CostHistoryOK
  <2>3. QED
    BY <2>1, <2>2 DEF CostHistoryOK
<1>3. ASSUME NEW rows \in SUBSET [from : 0..MaxDay, price : Prices], NEW at,
             Record(rows, at), UNCHANGED blamed
      PROVE  CostHistoryOK'
  <2>1. effective' \subseteq Prices
    BY <1>3, ActiveTyped DEF Record, CostHistoryOK
  <2>2. unpriced' \in BOOLEAN
    BY <1>3, Zenon DEF Record, CostHistoryOK
  <2>3. QED
    BY <1>3, <2>1, <2>2 DEF CostHistoryOK
<1>4. ASSUME NEW from \in 0..MaxDay, NEW price \in Prices, CreatePricing(from, price)
      PROVE  CostHistoryOK'
  <2>1. tariff' \in SUBSET [from : 0..MaxDay, price : Prices]
    BY <1>4 DEF CreatePricing, PriceInv
  <2>2. QED
    BY <1>3, <1>4, <2>1 DEF CreatePricing
<1>5. CASE NextDay
  BY <1>3, <1>5 DEF NextDay, PriceInv
<1>6. QED
  BY <1>1, <1>2, <1>4, <1>5
  DEF CostNext, QuoteStep, StartQuote, LeaveQuote, GetCachedPrice, StorePrice, ExpirePrice,
      costVars

\* Every step keeps the price list, the cached price, the quotes and their
\* history of their types.
THEOREM CostTyping == CostSpec => []CostTypeOK
<1>1. CostInit => CostHistoryOK
  BY ActiveTyped, Zenon DEF CostInit, CostHistoryOK
<1>2. PriceInv /\ CostHistoryOK => CostTypeOK
  BY DEF PriceInv, CostHistoryOK, CostTypeOK, QuoteRec
<1>3. QED
  BY <1>1, <1>2, PriceInit, PriceStep, CostHistoryStep, PTL DEF CostSpec

\* How far the chain has come and what the admins wait for.
ChainPC == {"idle", "authenticating", "limiting", "resolving", "calling", "pricing"}
ChainRec == [pc : ChainPC, endpoint : Endpoints \union {"none"}]
ChainOK ==
    /\ request \in [Requests -> ChainRec]
    /\ admin \in [Admins -> {"waiting", "working", "answered"}]

LEMMA ChainMoves ==
    ASSUME request \in [Requests -> ChainRec], NEW r \in Requests,
           \/ Answer(r)
           \/ \E pc \in ChainPC : Advance(r, pc)
           \/ \E pc \in ChainPC, endpoint \in Endpoints : Admit(r, endpoint, pc)
    PROVE  request' \in [Requests -> ChainRec]
<1>1. NoRequest \in ChainRec
  BY DEF NoRequest, ChainRec, ChainPC
<1>2. \A pc \in ChainPC : [request[r] EXCEPT !.pc = pc] \in ChainRec
  BY DEF ChainRec
<1>3. \A pc \in ChainPC, endpoint \in Endpoints : [pc |-> pc, endpoint |-> endpoint] \in ChainRec
  BY DEF ChainRec
<1>4. CASE Answer(r)
  BY <1>1, <1>4 DEF Answer
<1>5. ASSUME NEW pc \in ChainPC, Advance(r, pc)
      PROVE  request' \in [Requests -> ChainRec]
  <2> DEFINE rec == [request[r] EXCEPT !.pc = pc]
  <2>1. request' = [request EXCEPT ![r] = rec] /\ rec \in ChainRec
    BY <1>2, <1>5 DEF Advance
  <2> HIDE DEF rec
  <2>2. QED
    BY <2>1
<1>6. ASSUME NEW pc \in ChainPC, NEW endpoint \in Endpoints, Admit(r, endpoint, pc)
      PROVE  request' \in [Requests -> ChainRec]
  BY <1>3, <1>6 DEF Admit
<1>7. QED
  BY <1>4, <1>5, <1>6

LEMMA ChainStep ==
    ASSUME scenario \in Scenarios, ChainOK, [ApiNext]_apiVars
    PROVE  ChainOK'
<1>1. CASE UNCHANGED <<request, admin>>
  BY <1>1 DEF ChainOK
<1>2. ASSUME NEW r \in Requests, NEW ask \in scenario.asks,
             Arrive(r, ask.endpoint, ask.credential)
      PROVE  ChainOK'
  <2>1. ask.endpoint \in Endpoints
    BY ApiAssumption DEF ApiAssumption
  <2>2. \E pc \in ChainPC : Admit(r, ask.endpoint, pc)
    BY <1>2 DEF Arrive, ChainPC
  <2>3. QED
    BY <1>2, <2>1, <2>2, ChainMoves DEF Arrive, ChainOK
<1>3. ASSUME NEW r \in Requests,
             \/ LoginReturns(r) \/ PassLimiter(r) \/ LookupReturns(r)
             \/ CallReturns(r) \/ QuoteReturns(r)
      PROVE  ChainOK'
  <2>1. Answer(r) \/ \E pc \in ChainPC : Advance(r, pc)
    BY <1>3 DEF LoginReturns, PassLimiter, LookupReturns, CallReturns, QuoteReturns, ChainPC
  <2>2. admin' = admin
    BY <1>3 DEF LoginReturns, PassLimiter, LookupReturns, CallReturns, QuoteReturns
  <2>3. QED
    BY <2>1, <2>2, ChainMoves DEF ChainOK
<1>4. ASSUME NEW a \in Admins, StartDuty(a) \/ FinishDuty(a)
      PROVE  ChainOK'
  BY <1>4 DEF StartDuty, FinishDuty, AdminGoes, ChainOK
<1>5. QED
  BY <1>1, <1>2, <1>3, <1>4, ScenarioFacts
  DEF ApiNext, RequestStep, AdminStep, Elapse, AuthOnly, RouteOnly, CostOnly, apiVars

\* Types of the whole interface: whatever clients ask and admins do, every
\* component and the chain of middleware stay within their types.
THEOREM ApiTyping == ApiSpec => []ApiTypeOK
<1>1. ApiInit => ChainOK
  BY DEF ApiInit, ChainOK, NoRequest, ChainRec, ChainPC
<1>2. ApiSpec => []ChainOK
  BY <1>1, ScenarioFixed, ChainStep, PTL DEF ApiSpec
<1>3. AuthTypeOK /\ RouteTypeOK /\ CostTypeOK /\ ChainOK => ApiTypeOK
  BY DEF ApiTypeOK, ChainOK, ChainRec, ChainPC
<1>4. QED
  BY <1>2, <1>3, ApiImplementsAuth, ApiImplementsRoutes, ApiImplementsCosts,
     AuthTyping, RouteTyping, CostTyping, PTL

\* The safety of the components, for whatever clients and admins do through the
\* interface.
THEOREM ApiSafety ==
    ApiSpec => [](RevokedServedOnlyByRace /\ AnswerFromOneMoment /\ FreeOnlyForAReason
                  /\ MixedRouteOnlyByClash)
  BY ApiImplementsAuth, ApiImplementsRoutes, ApiImplementsCosts,
     RevocationRace, OneMoment, PricedWithReason, WholeRows, PTL
=============================================================================
