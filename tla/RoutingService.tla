--------------------------- MODULE RoutingService ---------------------------
(***************************************************************************)
(* RoutingService of services/routing_service.py with the lookups it makes *)
(* in providers/registry.py: a request is resolved to an ordered list of   *)
(* attempts, each a provider and the model to ask it for, and the list is  *)
(* walked until a provider answers.  The calls are those of                *)
(* ResilientProvider, one per request and provider, so that requests meet  *)
(* in the circuit breakers.                                                *)
(*                                                                         *)
(* Nothing suspends between a provider's raise and the next call; the      *)
(* model lets other requests run there, which the code does not.           *)
(***************************************************************************)
EXTENDS ResilientProvider, SequencesExt

CONSTANTS
    Models,
    Registry,           \* registered providers in the order of the dict
    FallbackChain,      \* provider_fallback_chain
    Serves,             \* the pairs supports_model() accepts
    EquivalentModel,    \* provider_model_fallback_map
    NoProvider, NoModel,\* Python's None
    Inbound             \* what clients may ask for

ChatRequest == [model : Models, override : Providers \union {NoProvider}]

ASSUME RoutingAssumption ==
    /\ Inbound \subseteq ChatRequest
    /\ Registry \in Seq(Providers) /\ IsInjective(Registry)
    /\ FallbackChain \in Seq(Providers)
    /\ Serves \subseteq Providers \X Models
    /\ DOMAIN EquivalentModel \subseteq Providers \X Models
    /\ \A k \in DOMAIN EquivalentModel : EquivalentModel[k] \in Providers \X Models
    /\ NoProvider \notin Providers /\ NoModel \notin Models

Requests == Calls

VARIABLES
    route,      \* route[r]     : where complete()/stream() of request r stands
    selected    \* selected[r]  : history of on_provider_selected's arguments

routingVars == <<providerVars, route, selected>>

Attempt == [provider : Providers, model : Models]
RouteRec ==
    [pc       : {"new", "routing", "returned", "raised", "exhausted",
                 "rejected", "aborted"},
     mode     : Modes,
     attempts : Seq(Attempt),
     errors   : Seq(Providers)]     \* the providers that raised, in order

-----------------------------------------------------------------------------
(* Resolution of the attempts.                                             *)

Registered(p) == Contains(Registry, p)
Supports(p, m) == <<p, m>> \in Serves

\* The first registered provider that serves m natively.
FindSupporting(m) ==
    LET serving == {i \in DOMAIN Registry : Supports(Registry[i], m)}
    IN  IF serving = {} THEN NoProvider
        ELSE Registry[CHOOSE i \in serving : \A j \in serving : i <= j]

ResolveEquivalentModel(m, target) ==
    LET key == <<FindSupporting(m), m>>
    IN  IF key \in DOMAIN EquivalentModel /\ EquivalentModel[key][1] = target
        THEN EquivalentModel[key][2]
        ELSE NoModel

\* Mutant of AddName: the chain is appended as it is.
AddNameAgain(names, p) == Append(names, p)

AddName(names, p) == IF Contains(names, p) THEN names ELSE Append(names, p)

\* ordered_names after i entries of the chain have been looked at.
NamesAfter(m) ==
    LET primary == FindSupporting(m)
        names[i \in 0..Len(FallbackChain)] ==
            IF i = 0 THEN IF primary = NoProvider THEN <<>> ELSE <<primary>>
            ELSE AddName(names[i - 1], FallbackChain[i])
    IN  names

OrderedNames(m) == NamesAfter(m)[Len(FallbackChain)]

AttemptModel(p, m) ==
    IF Supports(p, m) THEN m ELSE ResolveEquivalentModel(m, p)

\* Mutant of AddAttempt: a provider without an equivalent model is kept.
AddAttemptUnmapped(attempts, p, m) ==
    IF Registered(p)
    THEN Append(attempts, [provider |-> p, model |-> AttemptModel(p, m)])
    ELSE attempts

AddAttempt(attempts, p, m) ==
    IF Registered(p) /\ AttemptModel(p, m) # NoModel
    THEN Append(attempts, [provider |-> p, model |-> AttemptModel(p, m)])
    ELSE attempts

\* attempts after i of the ordered names have been looked up.
AttemptsAfter(m) ==
    LET names == OrderedNames(m)
        attempts[i \in 0..Len(names)] ==
            IF i = 0 THEN <<>> ELSE AddAttempt(attempts[i - 1], names[i], m)
    IN  attempts

ResolveAttempts(q) ==
    IF q.override # NoProvider
    THEN <<[provider |-> q.override, model |-> q.model]>>
    ELSE AttemptsAfter(q.model)[Len(OrderedNames(q.model))]

-----------------------------------------------------------------------------
RoutingTypeOK ==
    /\ TypeOK
    /\ route \in [Requests -> RouteRec]
    /\ selected \in [Requests -> Seq(Attempt)]

RoutingInit ==
    /\ ProviderInit
    /\ route = [r \in Requests |->
            [pc |-> "new", mode |-> "complete", attempts |-> <<>>, errors |-> <<>>]]
    /\ selected = [r \in Requests |-> <<>>]

Routing(r) == route[r].pc = "routing"
MoreAttempts(r) == Len(route[r].errors) < Len(route[r].attempts)
Current(r) == route[r].attempts[Len(route[r].errors) + 1]
AtAttempt(r) == Routing(r) /\ MoreAttempts(r)
CurrentCall(r) == call[Current(r).provider][r]

End(r, pc) ==
    /\ route' = [route EXCEPT ![r].pc = pc]
    /\ UNCHANGED <<providerVars, selected>>

\* A request comes in.  An override that is not registered raises ValueError.
Arrive(r, q, mode) ==
    /\ route[r].pc = "new"
    /\ route' = [route EXCEPT ![r] =
          IF q.override # NoProvider /\ ~Registered(q.override)
          THEN [@ EXCEPT !.pc = "rejected", !.mode = mode]
          ELSE [@ EXCEPT !.pc = "routing", !.mode = mode,
                         !.attempts = ResolveAttempts(q)]]
    /\ UNCHANGED <<providerVars, selected>>

CallProvider(r) ==
    /\ AtAttempt(r)
    /\ LET p == Current(r).provider
       IN  Admit(p, r, route[r].mode) \/ Refuse(p, r, route[r].mode)
    /\ UNCHANGED <<route, selected>>

\* A chunk passes through; the first one of a provider announces it.
Deliver(r) ==
    /\ AtAttempt(r)
    /\ Chunk(Current(r).provider, r)
    /\ selected' = [selected EXCEPT ![r] =
          IF CurrentCall(r).emitted = {} THEN Append(@, Current(r)) ELSE @]
    /\ UNCHANGED route

UpstreamStep(r) ==
    /\ AtAttempt(r)
    /\ Progress(Current(r).provider, r)
    /\ UNCHANGED <<route, selected>>

Answer(r) ==
    /\ AtAttempt(r) /\ CurrentCall(r).pc = "returned"
    /\ End(r, "returned")

\* Mutant of HandleError: a stream falls back after output has left.
HandleErrorAlwaysNext(r) ==
    /\ AtAttempt(r) /\ CurrentCall(r).pc = "raised"
    /\ route' = [route EXCEPT ![r].errors = Append(@, Current(r).provider)]
    /\ UNCHANGED <<providerVars, selected>>

\* except ProviderError: on to the next attempt, unless output has left.
HandleError(r) ==
    /\ AtAttempt(r) /\ CurrentCall(r).pc = "raised"
    /\ route' = [route EXCEPT
          ![r].errors = Append(@, Current(r).provider),
          ![r].pc = IF CurrentCall(r).emitted # {} THEN "raised" ELSE @]
    /\ UNCHANGED <<providerVars, selected>>

\* AllProvidersExhaustedError, also when there was nothing to attempt.
Exhaust(r) == Routing(r) /\ ~MoreAttempts(r) /\ End(r, "exhausted")

\* Cancellation or an exception that is not a ProviderError.
Cancel(r) ==
    /\ AtAttempt(r)
    /\ Abort(Current(r).provider, r)
    /\ route' = [route EXCEPT ![r].pc = "aborted"]
    /\ UNCHANGED selected

ClockTick == Tick /\ UNCHANGED <<route, selected>>

Advance(r) ==
    CallProvider(r) \/ UpstreamStep(r) \/ Answer(r) \/ HandleError(r) \/ Exhaust(r)

Ended(r) == route[r].pc \notin {"new", "routing"}

AllEnded == (\A r \in Requests : Ended(r)) /\ UNCHANGED routingVars

RoutingNext ==
    \/ \E r \in Requests :
          \/ \E q \in Inbound, mode \in Modes : Arrive(r, q, mode)
          \/ Advance(r) \/ Deliver(r) \/ Cancel(r)
    \/ ClockTick
    \/ AllEnded

RoutingSpec == RoutingInit /\ [][RoutingNext]_routingVars

\* As for the providers: sleeps end and every upstream exchange ends.
FairRoutingSpec ==
    RoutingSpec /\ \A r \in Requests : WF_routingVars(Advance(r))

-----------------------------------------------------------------------------
(* Properties.                                                             *)

\* The providers that produced any part of what request r was given.
Producers(r) ==
    {p \in Providers : call[p][r].emitted # {} \/ call[p][r].pc = "returned"}

\* RoutingService refines RoutingContract: the verdict is the control state,
\* the source is the provider whose output or response the caller got.
Verdict ==
    [r \in Requests |->
        CASE route[r].pc = "routing"  -> "pending"
          [] route[r].pc = "returned" -> "answered"
          [] route[r].pc = "raised"   -> "broken"
          [] OTHER                    -> route[r].pc]

OneOf(ps) == IF ps = {} THEN NoProvider ELSE CHOOSE p \in ps : TRUE

Source == [r \in Requests |-> OneOf(Producers(r))]

Contract == INSTANCE RoutingContract WITH
    Requests <- Requests, Sources <- Providers, NoSource <- NoProvider,
    verdict <- Verdict, source <- Source

\* RoutingService.complete and .stream: the contract, liveness included.
ImplementsContract == Contract!ContractSpec

\* Output comes from one provider, the one on_provider_selected was told of,
\* and it was told before anything was delivered, never of a second one.
SelectionNamesProducer ==
    \A r \in Requests :
        LET told == selected[r] IN
        /\ Len(told) <= 1
        /\ \A p \in Providers : call[p][r].emitted # {} <=>
              told # <<>> /\ told[1].provider = p

\* Fallback walks the attempts in order: a provider is called only for a
\* request that resolved to it, once, after all earlier providers raised
\* without having delivered anything; exhaustion means that all of them did.
FallbackInOrder ==
    \A r \in Requests :
        LET attempts == route[r].attempts
            FailedClean(i) ==
                LET k == call[attempts[i].provider][r]
                IN  k.pc = "raised" /\ k.emitted = {}
        IN  /\ \A p \in Providers : call[p][r].pc # "idle" =>
                  \E i \in DOMAIN attempts :
                      attempts[i].provider = p /\ \A j \in 1..(i - 1) : FailedClean(j)
            /\ \A i, j \in DOMAIN attempts :
                  attempts[i].provider = attempts[j].provider => i = j
            /\ route[r].pc = "exhausted" => \A i \in DOMAIN attempts : FailedClean(i)

=============================================================================
