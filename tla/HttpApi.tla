------------------------------ MODULE HttpApi ------------------------------
(***************************************************************************)
(* The HTTP interface: the middleware chain of main.py, the chat endpoint  *)
(* up to the parts modelled by GatewayService, and the admin endpoints,    *)
(* over AuthService, AdapterRoutes and CostService.                        *)
(*                                                                         *)
(* A client sends one request after the other; each goes through           *)
(* authentication, the rate limit, the adapter lookup and, if an upstream  *)
(* provider answers it, the price list.  The verdict of the limiter and    *)
(* the outcome of cache and routing are what those modules allow.          *)
(***************************************************************************)
EXTENDS AuthService, AdapterRoutes, CostService

CONSTANT
    Scenarios   \* settings, what is stored at first, what clients and admins do

Duty ==
    [kind : {"rest", "revoke", "create"}]
    \union {d \in [kind : {"upsert"}, stage : Stages, row : Row] : d.row.canary \in Percents}
    \union [kind : {"disable"}, stage : Stages]
    \union [kind : {"price"}, from : 0..MaxDay, price : Prices]

Endpoints == {"health", "chat", "embeddings", "admin_read", "admin_write", "other"}

ASSUME ApiAssumption ==
    \A s \in Scenarios :
        /\ s.authRequired \in BOOLEAN
        /\ s.asks \subseteq [endpoint : Endpoints, credential : {"none", "malformed", "key"}]
        /\ s.clients \subseteq Requests
        /\ s.preferences \subseteq Stages \union {"any"}
        /\ s.duties \in [Admins -> Duty]

VARIABLES
    scenario,   \* never changes
    request,    \* request[r] : how far the middleware chain has come
    admin       \* admin[a]   : waiting, working or answered

apiVars == <<authVars, routeVars, costVars, scenario, request, admin>>

NoRequest == [pc |-> "idle", endpoint |-> "none"]

ApiTypeOK ==
    /\ AuthTypeOK /\ RouteTypeOK /\ CostTypeOK
    /\ request \in [Requests ->
          [pc : {"idle", "authenticating", "limiting", "resolving", "calling", "pricing"},
           endpoint : Endpoints \union {"none"}]]
    /\ admin \in [Admins -> {"waiting", "working", "answered"}]

ApiInit ==
    \E s \in Scenarios :
        /\ scenario = s
        /\ keyRow = s.keyRow /\ AuthInit
        /\ routes = s.routes /\ RouteInit
        /\ tariff = s.tariff /\ day = s.day /\ CostInit
        /\ request = [r \in Requests |-> NoRequest]
        /\ admin = [a \in Admins |-> "waiting"]

-----------------------------------------------------------------------------
(* exempt_paths.py and scopes.py; an endpoint is a path and a method. *)
Exempt == {"health"}

RequiredScopes(endpoint) ==
    CASE endpoint = "chat" -> {"chat:write"}
      [] endpoint = "embeddings" -> {"embeddings:write"}
      [] endpoint = "admin_read" -> {"admin:read", "admin:write"}
      [] endpoint = "admin_write" -> {"admin:write"}
      [] OTHER -> {}

HasAnyScope(scopes, required) ==
    "*" \in scopes \/ required = {} \/ scopes \intersect required # {}

\* _auth_middleware_impl once authenticate() has returned a principal.
Refused(principal, endpoint) ==
    \/ principal.status # "active"
    \/ ~HasAnyScope(principal.scopes, RequiredScopes(endpoint))

At(r, pc) == request[r].pc = pc
Advance(r, pc) == request' = [request EXCEPT ![r].pc = pc]

\* The client gets its answer, which is not kept, and may ask again.
Answer(r) == request' = [request EXCEPT ![r] = NoRequest]

Admit(r, endpoint, pc) ==
    request' = [request EXCEPT ![r] = [pc |-> pc, endpoint |-> endpoint]]

\* An exempt path is answered, and a request without the header is a 401, in
\* the step in which it arrives.
Arrive(r, endpoint, credential) ==
    /\ At(r, "idle")
    /\ endpoint \notin Exempt
    /\ \/ ~scenario.authRequired /\ Admit(r, endpoint, "limiting") /\ UNCHANGED authVars
       \/ /\ scenario.authRequired /\ credential # "none"
          /\ Admit(r, endpoint, "authenticating")
          /\ Authenticate(r, credential = "key")
    /\ UNCHANGED <<routeVars, costVars, scenario, admin>>

\* 401, 500 if Postgres fails, 403, or on to the rate limit.
LoginReturns(r) ==
    /\ At(r, "authenticating")
    /\ \/ login[r] \in {"rejected", "failed"} /\ Answer(r)
       \/ /\ login[r] = "accepted"
          /\ IF Refused(scenario.principal, request[r].endpoint)
             THEN Answer(r) ELSE Advance(r, "limiting")
    /\ LeaveLogin(r)
    /\ UNCHANGED <<routeVars, costVars, scenario, admin>>

\* The limiter refuses (429), fails (500, with fail_open off) or lets the request
\* pass.  Chat requests start with the adapter lookup, the others are answered.
PassLimiter(r) ==
    /\ At(r, "limiting")
    /\ \/ Answer(r) /\ UNCHANGED routeVars
       \/ /\ request[r].endpoint = "chat" /\ Advance(r, "resolving")
          /\ \/ SkipLookup(r)
             \/ \E preferred \in scenario.preferences, bucket \in Buckets :
                   StartLookup(r, preferred, bucket)
    /\ UNCHANGED <<authVars, costVars, scenario, admin>>

LookupReturns(r) ==
    /\ At(r, "resolving")
    /\ LeaveLookup(r)
    /\ Advance(r, "calling")
    /\ UNCHANGED <<authVars, costVars, scenario, admin>>

\* A cache hit is free; providers may fail (502) or be exhausted (503).
CallReturns(r) ==
    /\ At(r, "calling")
    /\ \/ Answer(r) /\ UNCHANGED costVars
       \/ Advance(r, "pricing") /\ StartQuote(r)
    /\ UNCHANGED <<authVars, routeVars, scenario, admin>>

QuoteReturns(r) ==
    /\ At(r, "pricing")
    /\ LeaveQuote(r)
    /\ Answer(r)
    /\ UNCHANGED <<authVars, routeVars, scenario, admin>>

-----------------------------------------------------------------------------
DutyOf(a) == scenario.duties[a]
AdminGoes(a, from, to) ==
    admin[a] = from /\ admin' = [admin EXCEPT ![a] = to]

\* Creations are one transaction with one statement; the others have steps.
StartDuty(a) ==
    LET d == DutyOf(a) IN
    /\ \/ /\ d.kind = "revoke" /\ StartRevocation(a)
          /\ AdminGoes(a, "waiting", "working")
          /\ UNCHANGED <<routeVars, costVars>>
       \/ /\ d.kind = "upsert"
          /\ StartUpsert(a, d.stage, d.row.base, d.row.adapter, d.row.enabled, d.row.canary)
          /\ AdminGoes(a, "waiting", "working")
          /\ UNCHANGED <<authVars, costVars>>
       \/ /\ d.kind = "disable" /\ StartDisable(a, d.stage)
          /\ AdminGoes(a, "waiting", "working")
          /\ UNCHANGED <<authVars, costVars>>
       \/ /\ d.kind = "create" /\ CreateApiKey
          /\ AdminGoes(a, "waiting", "answered")
          /\ UNCHANGED <<routeVars, costVars>>
       \/ /\ d.kind = "price" /\ CreatePricing(d.from, d.price)
          /\ AdminGoes(a, "waiting", "answered")
          /\ UNCHANGED <<authVars, routeVars>>
    /\ UNCHANGED <<scenario, request>>

FinishDuty(a) ==
    /\ \/ revocation[a] \in {"done", "notfound", "failed"}
       \/ change[a].pc \in {"done", "notfound", "failed"}
    /\ AdminGoes(a, "working", "answered")
    /\ UNCHANGED <<authVars, routeVars, costVars, scenario, request>>

-----------------------------------------------------------------------------
AuthOnly(step) == step /\ UNCHANGED <<routeVars, costVars, scenario, request, admin>>
RouteOnly(step) == step /\ UNCHANGED <<authVars, costVars, scenario, request, admin>>
CostOnly(step) == step /\ UNCHANGED <<authVars, routeVars, scenario, request, admin>>

RequestStep(r) ==
    \/ AuthOnly(LoginStep(r)) \/ RouteOnly(LookupStep(r)) \/ CostOnly(QuoteStep(r))
    \/ LoginReturns(r) \/ PassLimiter(r) \/ LookupReturns(r)
    \/ CallReturns(r) \/ QuoteReturns(r)

AdminStep(a) ==
    AuthOnly(RevocationStep(a)) \/ RouteOnly(ChangeStep(a)) \/ FinishDuty(a)

Elapse == AuthOnly(ExpireCached) \/ CostOnly(ExpirePrice) \/ CostOnly(NextDay)

ApiNext ==
    \/ \E r \in scenario.clients :
          \/ \E ask \in scenario.asks : Arrive(r, ask.endpoint, ask.credential)
          \/ RequestStep(r)
    \/ \E a \in Admins : StartDuty(a) \/ AdminStep(a)
    \/ Elapse

ApiSpec == ApiInit /\ [][ApiNext]_apiVars

\* Redis and Postgres answer or fail, the TTLs end and the clock runs.  Clients
\* and admins need not do anything.
ApiFairness ==
    /\ \A r \in Requests : WF_apiVars(RequestStep(r))
    /\ \A a \in Admins : WF_apiVars(AdminStep(a))
    /\ WF_apiVars(AuthOnly(ExpireCached))
    /\ WF_apiVars(CostOnly(ExpirePrice))
    /\ WF_apiVars(CostOnly(NextDay))

FairApiSpec == ApiSpec /\ ApiFairness

-----------------------------------------------------------------------------
(* Properties *)

\* Nobody waits for ever: a request whatever fails on its way is answered, and
\* an admin call too, although revocations of the key wait for each other's row
\* lock while they talk to Redis (auth_service.py:73-80).
AllAnswered ==
    /\ \A r \in Requests : ~At(r, "idle") ~> At(r, "idle")
    /\ \A a \in Admins : admin[a] = "working" ~> admin[a] = "answered"
=============================================================================
