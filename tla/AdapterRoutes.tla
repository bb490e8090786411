--------------------------- MODULE AdapterRoutes ---------------------------
(***************************************************************************)
(* AdapterRouteRepository, the admin endpoints over it and the lookup in   *)
(* GatewayService._apply_adapter_route: the adapter routes of one tenant   *)
(* and alias, one row per stage, under Postgres' READ COMMITTED.           *)
(*                                                                         *)
(* Between its flush and its commit a change holds the row's lock and no   *)
(* one sees it, so that the two are one action.  An UPDATE carries only    *)
(* the columns whose value differs from the one that was loaded.           *)
(***************************************************************************)
EXTENDS Integers, ApiBase

CONSTANTS
    Models, Adapters,
    Percents,           \* values of canary_percent
    Buckets,            \* values of hash(routing_key) % 100
    NoRow

Stages == {"Production", "Staging"}
Row == [base : Models, adapter : Adapters, enabled : BOOLEAN, canary : 0..100]
Route == [stage : Stages, row : Row]

ASSUME RouteAssumption ==
    /\ Percents \subseteq Int
    /\ Buckets \subseteq 0..99
    /\ NoRow \notin Row \union Route

VARIABLES
    routes,     \* routes[s] : the committed row of stage s, or NoRow
    change,     \* change[a] : an upsert or a disable under way
    lookup,     \* lookup[r] : where resolve_with_canary of request r stands
    moments,    \* history: the right answers, at each instant of r's lookup
    tear,       \* history: what was changed between r's two reads
    intended,   \* history: the rows that were asked for at each stage
    clashed     \* history: stages where a change overwrote a row it had not seen

routeHistory == <<moments, tear, intended, clashed>>
routeVars == <<routes, change, lookup, routeHistory>>

\* goal: the row an upsert asks for, NoRow for a disable.
ChangeRec ==
    [pc    : {"idle", "selecting", "writing", "done", "notfound", "failed"},
     stage : Stages,
     goal  : Row \union {NoRow},
     seen  : Row \union {NoRow}]

LookupRec ==
    [pc         : {"idle", "first", "second", "done", "skipped", "failed"},
     preferred  : Stages \union {"any"},
     bucket     : 0..99,
     production : Row \union {NoRow},
     answer     : Route \union {NoRow}]

RouteTypeOK ==
    /\ routes \in [Stages -> Row \union {NoRow}]
    /\ change \in [Admins -> ChangeRec]
    /\ lookup \in [Requests -> LookupRec]
    /\ moments \in [Requests -> SUBSET (Route \union {NoRow})]
    /\ tear \in [Requests -> {"whole", "shifted", "torn"}]
    /\ intended \in [Stages -> SUBSET Row]
    /\ clashed \subseteq Stages

NoChange == [pc |-> "idle", stage |-> "Production", goal |-> NoRow, seen |-> NoRow]
NoLookup == [pc |-> "idle", preferred |-> "any", bucket |-> 0,
             production |-> NoRow, answer |-> NoRow]

RouteInit ==
    /\ routes \in [Stages -> Row \union {NoRow}]
    /\ change = [a \in Admins |-> NoChange]
    /\ lookup = [r \in Requests |-> NoLookup]
    /\ moments = [r \in Requests |-> {}]
    /\ tear = [r \in Requests |-> "whole"]
    /\ intended = [s \in Stages |-> {routes[s]} \ {NoRow}]
    /\ clashed = {}

-----------------------------------------------------------------------------
(* Resolution *)

\* get_active: the row of the stage if there is one and it is enabled.
GetActive(row) == IF row # NoRow /\ row.enabled THEN row ELSE NoRow
RouteAt(stage, row) == IF row = NoRow THEN NoRow ELSE [stage |-> stage, row |-> row]

InCanary(staging, bucket) ==
    staging # NoRow /\ staging.canary > 0 /\ bucket < staging.canary

\* Mutant of Resolve: a canary of 0 percent still takes bucket 0.
ResolveInclusive(production, staging, bucket) ==
    IF (staging # NoRow /\ bucket <= staging.canary) \/ production = NoRow
    THEN RouteAt("Staging", staging)
    ELSE RouteAt("Production", production)

Resolve(production, staging, bucket) ==
    IF InCanary(staging, bucket) \/ production = NoRow
    THEN RouteAt("Staging", staging)
    ELSE RouteAt("Production", production)

\* What the docstring promises for the rows p and s, as one look would see them.
Promised(preferred, p, s, bucket) ==
    LET active == {x \in {RouteAt("Production", p), RouteAt("Staging", s)} :
                      x # NoRow /\ x.row.enabled}
        share  == 0 .. (s.canary - 1)
    IN  IF preferred # "any"
        THEN IF \E x \in active : x.stage = preferred
             THEN CHOOSE x \in active : x.stage = preferred ELSE NoRow
        ELSE IF active = {} THEN NoRow
        ELSE CHOOSE x \in active :
                \A y \in active \ {x} : (x.stage = "Staging") <=> (bucket \in share)

Looking(r) == lookup[r].pc \in {"first", "second"}
SetLookup(r, rec) == lookup' = [lookup EXCEPT ![r] = rec]

\* _apply_adapter_route: nothing is looked up for a request that names its
\* adapter, without a database, or for a tenant whose id is not a UUID.
StartLookup(r, preferred, bucket) ==
    /\ lookup[r].pc = "idle"
    /\ SetLookup(r, [pc |-> "first", preferred |-> preferred, bucket |-> bucket,
                     production |-> NoRow, answer |-> NoRow])
    /\ moments' = [moments EXCEPT ![r] =
          {Promised(preferred, routes["Production"], routes["Staging"], bucket)}]
    /\ tear' = [tear EXCEPT ![r] = "whole"]
    /\ UNCHANGED <<routes, change, intended, clashed>>

SkipLookup(r) ==
    /\ lookup[r].pc = "idle"
    /\ SetLookup(r, [NoLookup EXCEPT !.pc = "skipped"])
    /\ UNCHANGED <<routes, change, routeHistory>>

Select(r) ==
    /\ LET l == lookup[r] IN
       \/ /\ l.pc = "first" /\ l.preferred # "any"
          /\ SetLookup(r, [l EXCEPT !.pc = "done",
                !.answer = RouteAt(l.preferred, GetActive(routes[l.preferred]))])
       \/ /\ l.pc = "first" /\ l.preferred = "any"
          /\ SetLookup(r, [l EXCEPT !.pc = "second",
                !.production = GetActive(routes["Production"])])
       \/ /\ l.pc = "second"
          /\ SetLookup(r, [l EXCEPT !.pc = "done",
                !.answer = Resolve(l.production, GetActive(routes["Staging"]), l.bucket)])
    /\ UNCHANGED <<routes, change, routeHistory>>

\* A database error leaves the request as it came.
SelectFails(r) ==
    /\ StoresMayFail /\ Looking(r)
    /\ SetLookup(r, [lookup[r] EXCEPT !.pc = "failed"])
    /\ UNCHANGED <<routes, change, routeHistory>>

LeaveLookup(r) ==
    /\ lookup[r].pc \in {"done", "skipped", "failed"}
    /\ SetLookup(r, NoLookup)
    /\ moments' = [moments EXCEPT ![r] = {}]
    /\ tear' = [tear EXCEPT ![r] = "whole"]
    /\ UNCHANGED <<routes, change, intended, clashed>>

-----------------------------------------------------------------------------
(* Changes *)

Clamp(percent) == IF percent < 0 THEN 0 ELSE IF percent > 100 THEN 100 ELSE percent
Disabled(row) == [row EXCEPT !.enabled = FALSE]

StartUpsert(a, stage, base, adapter, enabled, percent) ==
    /\ change[a].pc = "idle"
    /\ LET goal == [base |-> base, adapter |-> adapter, enabled |-> enabled,
                    canary |-> Clamp(percent)]
       IN  /\ change' = [change EXCEPT ![a] =
                 [pc |-> "selecting", stage |-> stage, goal |-> goal, seen |-> NoRow]]
           /\ intended' = [intended EXCEPT ![stage] = @ \union {goal}]
    /\ UNCHANGED <<routes, lookup, moments, tear, clashed>>

StartDisable(a, stage) ==
    /\ change[a].pc = "idle"
    /\ change' = [change EXCEPT ![a] =
          [pc |-> "selecting", stage |-> stage, goal |-> NoRow, seen |-> NoRow]]
    /\ UNCHANGED <<routes, lookup, routeHistory>>

\* get_by_unique
SelectRow(a) ==
    /\ change[a].pc = "selecting"
    /\ LET row == routes[change[a].stage] IN
       change' = [change EXCEPT
          ![a].seen = row,
          ![a].pc = IF row = NoRow /\ change[a].goal = NoRow THEN "notfound"
                    ELSE "writing"]
    /\ UNCHANGED <<routes, lookup, routeHistory>>

\* The row after an UPDATE by a session that loaded seen and assigned goal.
Merged(current, seen, goal) ==
    [base    |-> IF goal.base = seen.base THEN current.base ELSE goal.base,
     adapter |-> IF goal.adapter = seen.adapter THEN current.adapter ELSE goal.adapter,
     enabled |-> IF goal.enabled = seen.enabled THEN current.enabled ELSE goal.enabled,
     canary  |-> IF goal.canary = seen.canary THEN current.canary ELSE goal.canary]

\* Mutant of Assigned: an upsert of an existing row leaves enabled alone.
AssignedButEnabled(c) ==
    IF c.goal = NoRow THEN Disabled(c.seen)
    ELSE IF c.seen = NoRow THEN c.goal
    ELSE [c.goal EXCEPT !.enabled = c.seen.enabled]

Assigned(c) == IF c.goal = NoRow THEN Disabled(c.seen) ELSE c.goal

\* What commits, put to every lookup under way.
Publish(stage, row) ==
    LET p == IF stage = "Production" THEN row ELSE routes["Production"]
        s == IF stage = "Staging" THEN row ELSE routes["Staging"]
    IN  /\ routes' = [routes EXCEPT ![stage] = row]
        /\ moments' = [r \in Requests |->
              IF Looking(r)
              THEN moments[r] \union
                     {Promised(lookup[r].preferred, p, s, lookup[r].bucket)}
              ELSE moments[r]]
        /\ tear' = [r \in Requests |->
              IF lookup[r].pc # "second" THEN tear[r]
              ELSE IF stage = "Production" /\ tear[r] = "whole" THEN "shifted"
              ELSE IF stage = "Staging" /\ tear[r] = "shifted" THEN "torn"
              ELSE tear[r]]

\* INSERT; the unique constraint refuses a second row for the stage.
Insert(a) ==
    LET c == change[a] IN
    /\ c.pc = "writing" /\ c.seen = NoRow
    /\ \/ /\ routes[c.stage] = NoRow
          /\ Publish(c.stage, Assigned(c))
          /\ change' = [change EXCEPT ![a].pc = "done"]
       \/ /\ routes[c.stage] # NoRow
          /\ change' = [change EXCEPT ![a].pc = "failed"]
          /\ UNCHANGED <<routes, moments, tear>>
    /\ UNCHANGED <<lookup, intended, clashed>>

Update(a) ==
    LET c == change[a] IN
    /\ c.pc = "writing" /\ c.seen # NoRow
    /\ Publish(c.stage, Merged(routes[c.stage], c.seen, Assigned(c)))
    /\ change' = [change EXCEPT ![a].pc = "done"]
    /\ clashed' = IF routes[c.stage] = c.seen THEN clashed ELSE clashed \union {c.stage}
    /\ UNCHANGED <<lookup, intended>>

ChangeFails(a) ==
    /\ StoresMayFail /\ change[a].pc \in {"selecting", "writing"}
    /\ change' = [change EXCEPT ![a].pc = "failed"]
    /\ UNCHANGED <<routes, lookup, routeHistory>>

-----------------------------------------------------------------------------
LookupStep(r) == Select(r) \/ SelectFails(r)
ChangeStep(a) == SelectRow(a) \/ Insert(a) \/ Update(a) \/ ChangeFails(a)

RouteNext ==
    \/ \E r \in Requests :
          \/ \E preferred \in Stages \union {"any"}, bucket \in Buckets :
                StartLookup(r, preferred, bucket)
          \/ SkipLookup(r) \/ LookupStep(r) \/ LeaveLookup(r)
    \/ \E a \in Admins :
          \/ \E stage \in Stages, base \in Models, adapter \in Adapters,
                enabled \in BOOLEAN, percent \in Percents :
                StartUpsert(a, stage, base, adapter, enabled, percent)
          \/ \E stage \in Stages : StartDisable(a, stage)
          \/ ChangeStep(a)

RouteSpec == RouteInit /\ [][RouteNext]_routeVars

-----------------------------------------------------------------------------
(* Properties *)

\* The two SELECTs of resolve_with_canary (adapter_route_repository.py:57-62)
\* are not one snapshot.  Still a lookup answers what was right at some instant
\* while it ran, unless Production and after it Staging changed between them.
AnswerFromOneMoment ==
    \A r \in Requests :
        lookup[r].pc = "done" => lookup[r].answer \in moments[r] \/ tear[r] = "torn"

DisableAsked(s) ==
    \E a \in Admins :
        change[a].pc # "idle" /\ change[a].stage = s /\ change[a].goal = NoRow

\* A stored row is what some upsert asked for, or that row disabled if someone
\* asked to disable the stage; only where an update overwrote a row it had not
\* seen may columns of several be mixed (adapter_route_repository.py:94-100,
\* :146-147).
MixedRouteOnlyByClash ==
    \A s \in Stages :
        \/ routes[s] \in {NoRow} \union intended[s]
        \/ DisableAsked(s) /\ routes[s] \in {Disabled(row) : row \in intended[s]}
        \/ s \in clashed
=============================================================================
