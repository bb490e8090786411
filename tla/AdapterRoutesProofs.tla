------------------------ MODULE AdapterRoutesProofs ------------------------
(***************************************************************************)
(* Proofs about AdapterRoutes, for any number of requests and admin calls, *)
(* any models, adapters and canary shares.                                 *)
(***************************************************************************)
EXTENDS AdapterRoutes, TLAPS

MaybeRow == Row \union {NoRow}
MaybeRoute == Route \union {NoRow}

-----------------------------------------------------------------------------
(* Resolution against its promise.                                         *)

LEMMA NoRowFacts == NoRow \notin Row /\ NoRow \notin Route
  BY RouteAssumption DEF RouteAssumption

LEMMA ActiveFacts ==
    ASSUME NEW row \in MaybeRow
    PROVE  /\ GetActive(row) \in MaybeRow
           /\ GetActive(row) # NoRow => GetActive(row) = row /\ row.enabled
  BY DEF MaybeRow, GetActive

LEMMA RouteAtFacts ==
    ASSUME NEW stage \in Stages, NEW row \in MaybeRow
    PROVE  /\ RouteAt(stage, row) \in MaybeRoute
           /\ RouteAt(stage, row) = NoRow <=> row = NoRow
           /\ row # NoRow => RouteAt(stage, row).stage = stage
                             /\ RouteAt(stage, row).row = row
<1>1. CASE row = NoRow
  BY <1>1 DEF RouteAt, MaybeRoute
<1>2. CASE row # NoRow
  <2>1. row \in Row
    BY <1>2 DEF MaybeRow
  <2>2. RouteAt(stage, row) = [stage |-> stage, row |-> row]
    BY <1>2 DEF RouteAt
  <2>3. [stage |-> stage, row |-> row] \in Route
    BY <2>1 DEF Route
  <2>4. QED
    BY <1>2, <2>2, <2>3, NoRowFacts DEF MaybeRoute
<1>3. QED
  BY <1>1, <1>2

LEMMA ResolveFacts ==
    ASSUME NEW p \in MaybeRow, NEW s \in MaybeRow, NEW bucket
    PROVE  Resolve(p, s, bucket) \in MaybeRoute
  BY RouteAtFacts DEF Resolve, Stages

\* Where two SELECTs see the rows that one look would have seen, they find what
\* the docstring of resolve_with_canary promises.
THEOREM PromiseKept ==
    ASSUME NEW p \in MaybeRow, NEW s \in MaybeRow, NEW bucket \in 0..99
    PROVE  Promised("any", p, s, bucket) = Resolve(GetActive(p), GetActive(s), bucket)
<1> DEFINE P == RouteAt("Production", p)
           S == RouteAt("Staging", s)
           active == {x \in {P, S} : x # NoRow /\ x.row.enabled}
           share == 0 .. (s.canary - 1)
           Chosen == CHOOSE x \in active :
                        \A y \in active \ {x} : (x.stage = "Staging") <=> (bucket \in share)
<1>1. Promised("any", p, s, bucket) = IF active = {} THEN NoRow ELSE Chosen
  BY DEF Promised
<1>2. /\ P # NoRow <=> p # NoRow
      /\ S # NoRow <=> s # NoRow
      /\ p # NoRow => P.row = p /\ P.stage = "Production"
      /\ s # NoRow => S.row = s /\ S.stage = "Staging"
  BY RouteAtFacts DEF Stages
<1>3. /\ P \in active <=> GetActive(p) # NoRow
      /\ S \in active <=> GetActive(s) # NoRow
      /\ active \subseteq {P, S}
  BY <1>2 DEF GetActive
<1>4. /\ GetActive(p) # NoRow => GetActive(p) = p /\ p # NoRow
      /\ GetActive(s) # NoRow => GetActive(s) = s /\ s # NoRow
  BY ActiveFacts DEF GetActive
<1>5. s # NoRow => (InCanary(s, bucket) <=> bucket \in share)
  <2>1. s # NoRow => s.canary \in 0..100
    BY DEF MaybeRow, Row
  <2>2. QED
    BY <2>1 DEF InCanary
<1> HIDE DEF P, S, active, share
<1>6. CASE active = {}
  BY <1>1, <1>3, <1>6 DEF Resolve, RouteAt, InCanary
<1>7. CASE active = {P} /\ S \notin active
  <2>1. Chosen = P
    BY <1>7
  <2>2. QED
    BY <1>1, <1>3, <1>4, <1>7, <2>1 DEF Resolve, InCanary, P
<1>8. CASE active = {S} /\ P \notin active
  <2>1. Chosen = S
    BY <1>8
  <2>2. QED
    BY <1>1, <1>3, <1>4, <1>8, <2>1 DEF Resolve, S
<1>9. CASE P \in active /\ S \in active
  <2>1. P # S /\ active = {P, S}
    BY <1>2, <1>3, <1>4, <1>9
  <2>2. CASE bucket \in share
    <3>1. Chosen = S
      BY <1>2, <1>3, <1>4, <1>9, <2>1, <2>2
    <3>2. QED
      BY <1>1, <1>3, <1>4, <1>5, <1>9, <2>2, <3>1 DEF Resolve, S
  <2>3. CASE bucket \notin share
    <3>1. Chosen = P
      BY <1>2, <1>3, <1>4, <1>9, <2>1, <2>3
    <3>2. QED
      BY <1>1, <1>3, <1>4, <1>5, <1>9, <2>3, <3>1 DEF Resolve, P
  <2>4. QED
    BY <2>2, <2>3
<1>10. QED
  BY <1>3, <1>6, <1>7, <1>8, <1>9

LEMMA PreferenceKept ==
    ASSUME NEW p \in MaybeRow, NEW s \in MaybeRow, NEW bucket, NEW stage \in Stages
    PROVE  Promised(stage, p, s, bucket) =
              RouteAt(stage, GetActive(IF stage = "Production" THEN p ELSE s))
<1> DEFINE P == RouteAt("Production", p)
           S == RouteAt("Staging", s)
           active == {x \in {P, S} : x # NoRow /\ x.row.enabled}
           row == IF stage = "Production" THEN p ELSE s
<1>1. Promised(stage, p, s, bucket) =
         IF \E x \in active : x.stage = stage
         THEN CHOOSE x \in active : x.stage = stage ELSE NoRow
  BY DEF Promised, Stages
<1>2. /\ P # NoRow <=> p # NoRow
      /\ S # NoRow <=> s # NoRow
      /\ p # NoRow => P.row = p /\ P.stage = "Production"
      /\ s # NoRow => S.row = s /\ S.stage = "Staging"
  BY RouteAtFacts DEF Stages
<1>3. \A x \in active : x.stage = stage => x = RouteAt(stage, row)
  BY <1>2 DEF Stages
<1>4. CASE GetActive(row) = NoRow
  <2>1. \A x \in active : x.stage # stage
    BY <1>2, <1>4 DEF GetActive, Stages
  <2>2. QED
    BY <1>1, <1>4, <2>1 DEF RouteAt
<1>5. CASE GetActive(row) # NoRow
  <2>1. GetActive(row) = row /\ row # NoRow /\ row.enabled
    BY <1>5 DEF GetActive
  <2>2. RouteAt(stage, row) \in active /\ RouteAt(stage, row).stage = stage
    BY <1>2, <2>1 DEF Stages
  <2>3. QED
    BY <1>1, <1>3, <2>1, <2>2
<1>6. QED
  BY <1>4, <1>5

LEMMA PromisedFacts ==
    ASSUME NEW p \in MaybeRow, NEW s \in MaybeRow, NEW bucket \in 0..99,
           NEW preferred \in Stages \union {"any"}
    PROVE  Promised(preferred, p, s, bucket) \in MaybeRoute
<1>1. CASE preferred = "any"
  BY <1>1, PromiseKept, ActiveFacts, ResolveFacts
<1>2. CASE preferred \in Stages
  BY <1>2, PreferenceKept, ActiveFacts, RouteAtFacts
<1>3. QED
  BY <1>1, <1>2

-----------------------------------------------------------------------------
(* Type correctness.                                                       *)

\* Rows are never deleted, so a row that a change has seen is still there when
\* it writes; only an upsert writes where it has seen none.
ChangeOK(c, rows) ==
    /\ c.seen # NoRow => rows[c.stage] # NoRow
    /\ c.pc = "writing" /\ c.seen = NoRow => c.goal # NoRow

RouteInv == RouteTypeOK /\ \A a \in Admins : ChangeOK(change[a], routes)

LEMMA FreshLookups ==
    /\ NoLookup \in LookupRec
    /\ [NoLookup EXCEPT !.pc = "skipped"] \in LookupRec
    /\ \A preferred \in Stages \union {"any"}, bucket \in 0..99 :
          [pc |-> "first", preferred |-> preferred, bucket |-> bucket,
           production |-> NoRow, answer |-> NoRow] \in LookupRec
  BY DEF LookupRec, NoLookup, Stages

LEMMA NextLookups ==
    ASSUME NEW l \in LookupRec, NEW row \in MaybeRow, NEW route \in MaybeRoute
    PROVE  /\ [l EXCEPT !.pc = "done", !.answer = route] \in LookupRec
           /\ [l EXCEPT !.pc = "second", !.production = row] \in LookupRec
           /\ [l EXCEPT !.pc = "failed"] \in LookupRec
<1>1. [l EXCEPT !.pc = "done", !.answer = route] \in LookupRec
  BY DEF LookupRec, MaybeRoute
<1>2. [l EXCEPT !.pc = "second", !.production = row] \in LookupRec
  BY DEF LookupRec, MaybeRow
<1>3. [l EXCEPT !.pc = "failed"] \in LookupRec
  BY DEF LookupRec
<1>4. QED
  BY <1>1, <1>2, <1>3

LEMMA NextFields ==
    ASSUME NEW l \in LookupRec, NEW value
    PROVE  /\ [l EXCEPT !.pc = "done", !.answer = value].pc = "done"
           /\ [l EXCEPT !.pc = "done", !.answer = value].answer = value
           /\ [l EXCEPT !.pc = "second", !.production = value].pc = "second"
           /\ [l EXCEPT !.pc = "second", !.production = value].production = value
           /\ [l EXCEPT !.pc = "second", !.production = value].preferred = l.preferred
           /\ [l EXCEPT !.pc = "second", !.production = value].bucket = l.bucket
  BY DEF LookupRec

LEMMA SetLookupFacts ==
    ASSUME lookup \in [Requests -> LookupRec],
           NEW r \in Requests, NEW rec \in LookupRec, SetLookup(r, rec)
    PROVE  /\ lookup' \in [Requests -> LookupRec]
           /\ \A q \in Requests : lookup'[q] = IF q = r THEN rec ELSE lookup[q]
  BY DEF SetLookup

LEMMA ChangeDone ==
    ASSUME NEW c \in ChangeRec
    PROVE  /\ [c EXCEPT !.pc = "done"] \in ChangeRec
           /\ [c EXCEPT !.pc = "done"].pc = "done"
           /\ [c EXCEPT !.pc = "done"].stage = c.stage
           /\ [c EXCEPT !.pc = "done"].seen = c.seen
  BY DEF ChangeRec

\* What the columns of two sessions are merged to is a row.
LEMMA MergedFacts ==
    ASSUME NEW current \in Row, NEW seen \in Row, NEW goal \in Row
    PROVE  Merged(current, seen, goal) \in Row
  BY DEF Row, Merged

LEMMA AssignedFacts ==
    ASSUME NEW c \in ChangeRec, c.seen # NoRow \/ c.goal # NoRow
    PROVE  Assigned(c) \in Row
<1>1. CASE c.goal = NoRow
  <2>1. c.seen \in Row
    BY <1>1 DEF ChangeRec
  <2>2. Disabled(c.seen) \in Row
    BY <2>1 DEF Disabled, Row
  <2>3. QED
    BY <1>1, <2>2 DEF Assigned
<1>2. CASE c.goal # NoRow
  BY <1>2 DEF Assigned, ChangeRec
<1>3. QED
  BY <1>1, <1>2

\* A commit changes one stage's row, adds the new right answer to the lookups
\* under way, and is noted by those between their two reads.
LEMMA PublishFacts ==
    ASSUME RouteTypeOK, NEW stage \in Stages, NEW row \in Row, Publish(stage, row)
    PROVE  /\ routes' \in [Stages -> MaybeRow]
           /\ \A s \in Stages : routes'[s] = IF s = stage THEN row ELSE routes[s]
           /\ moments' \in [Requests -> SUBSET MaybeRoute]
           /\ \A r \in Requests :
                 /\ moments[r] \subseteq moments'[r]
                 /\ Looking(r) =>
                       Promised(lookup[r].preferred, routes'["Production"],
                                routes'["Staging"], lookup[r].bucket) \in moments'[r]
           /\ tear' \in [Requests -> {"whole", "shifted", "torn"}]
           /\ \A r \in Requests :
                 tear'[r] = IF lookup[r].pc # "second" THEN tear[r]
                            ELSE IF stage = "Production" /\ tear[r] = "whole" THEN "shifted"
                            ELSE IF stage = "Staging" /\ tear[r] = "shifted" THEN "torn"
                            ELSE tear[r]
<1> DEFINE p == IF stage = "Production" THEN row ELSE routes["Production"]
           s == IF stage = "Staging" THEN row ELSE routes["Staging"]
           now(r) == Promised(lookup[r].preferred, p, s, lookup[r].bucket)
<1>1. /\ routes \in [Stages -> MaybeRow]
      /\ lookup \in [Requests -> LookupRec]
      /\ moments \in [Requests -> SUBSET MaybeRoute]
      /\ tear \in [Requests -> {"whole", "shifted", "torn"}]
  BY DEF RouteTypeOK, MaybeRow, MaybeRoute
<1>2. /\ routes' = [routes EXCEPT ![stage] = row]
      /\ moments' = [r \in Requests |->
            IF Looking(r) THEN moments[r] \union {now(r)} ELSE moments[r]]
  BY DEF Publish
<1>3. /\ routes' \in [Stages -> MaybeRow]
      /\ \A u \in Stages : routes'[u] = IF u = stage THEN row ELSE routes[u]
      /\ p = routes'["Production"] /\ s = routes'["Staging"]
      /\ p \in MaybeRow /\ s \in MaybeRow
  BY <1>1, <1>2 DEF MaybeRow, Stages
<1> HIDE DEF p, s
<1>4. ASSUME NEW r \in Requests
      PROVE  now(r) \in MaybeRoute
  <2>1. lookup[r].preferred \in Stages \union {"any"} /\ lookup[r].bucket \in 0..99
    BY <1>1 DEF LookupRec
  <2>2. QED
    BY <1>3, <2>1, PromisedFacts
<1> HIDE DEF now
<1>5. /\ moments' \in [Requests -> SUBSET MaybeRoute]
      /\ \A r \in Requests : /\ moments[r] \subseteq moments'[r]
                             /\ Looking(r) => now(r) \in moments'[r]
  BY <1>1, <1>2, <1>4
<1>6. /\ tear' \in [Requests -> {"whole", "shifted", "torn"}]
      /\ \A r \in Requests :
            tear'[r] = IF lookup[r].pc # "second" THEN tear[r]
                       ELSE IF stage = "Production" /\ tear[r] = "whole" THEN "shifted"
                       ELSE IF stage = "Staging" /\ tear[r] = "shifted" THEN "torn"
                       ELSE tear[r]
  BY <1>1 DEF Publish
<1>7. QED
  BY <1>3, <1>5, <1>6 DEF now

LEMMA InitTyping == RouteInit => RouteInv
<1> SUFFICES ASSUME RouteInit
             PROVE  RouteInv
  OBVIOUS
<1>1. NoLookup \in LookupRec
  BY FreshLookups
<1>2. NoChange \in ChangeRec /\ NoChange.seen = NoRow /\ NoChange.pc = "idle"
  BY DEF NoChange, ChangeRec, Stages
<1>3. /\ routes \in [Stages -> MaybeRow]
      /\ lookup \in [Requests -> LookupRec]
      /\ change \in [Admins -> ChangeRec]
  BY <1>1, <1>2 DEF RouteInit, MaybeRow
<1>4. /\ moments \in [Requests -> SUBSET (Route \union {NoRow})]
      /\ tear \in [Requests -> {"whole", "shifted", "torn"}]
      /\ clashed \subseteq Stages
  BY DEF RouteInit
<1>5. intended \in [Stages -> SUBSET Row]
  BY <1>3 DEF RouteInit, MaybeRow
<1>6. \A a \in Admins : ChangeOK(change[a], routes)
  BY <1>2 DEF RouteInit, ChangeOK
<1>7. QED
  BY <1>3, <1>4, <1>5, <1>6 DEF RouteInv, RouteTypeOK, MaybeRow

\* A step of one lookup keeps the types if what it makes of the lookup and its
\* history is of them.
LEMMA LookupTyping ==
    ASSUME RouteInv, NEW r \in Requests, NEW rec \in LookupRec, SetLookup(r, rec),
           moments' \in [Requests -> SUBSET MaybeRoute],
           tear' \in [Requests -> {"whole", "shifted", "torn"}],
           UNCHANGED <<routes, change, intended, clashed>>
    PROVE  RouteInv'
<1>1. lookup' \in [Requests -> LookupRec]
  BY SetLookupFacts DEF RouteInv, RouteTypeOK
<1>2. QED
  BY <1>1 DEF RouteInv, RouteTypeOK, MaybeRoute

LEMMA LookupsTyped ==
    ASSUME RouteInv, NEW r \in Requests,
           \/ \E preferred \in Stages \union {"any"}, bucket \in Buckets :
                 StartLookup(r, preferred, bucket)
           \/ SkipLookup(r) \/ LookupStep(r) \/ LeaveLookup(r)
    PROVE  RouteInv'
<1>1. /\ routes \in [Stages -> MaybeRow]
      /\ lookup[r] \in LookupRec
      /\ moments \in [Requests -> SUBSET MaybeRoute]
      /\ tear \in [Requests -> {"whole", "shifted", "torn"}]
  BY DEF RouteInv, RouteTypeOK, MaybeRow, MaybeRoute
<1>2. \A stage \in Stages : GetActive(routes[stage]) \in MaybeRow
  BY <1>1, ActiveFacts
<1>3. ASSUME NEW preferred \in Stages \union {"any"}, NEW bucket \in Buckets,
             StartLookup(r, preferred, bucket)
      PROVE  RouteInv'
  <2>1. bucket \in 0..99
    BY RouteAssumption DEF RouteAssumption
  <2>2. Promised(preferred, routes["Production"], routes["Staging"], bucket) \in MaybeRoute
    BY <1>1, <2>1, PromisedFacts DEF Stages
  <2>3. moments' \in [Requests -> SUBSET MaybeRoute]
    BY <1>1, <1>3, <2>2 DEF StartLookup
  <2>4. tear' \in [Requests -> {"whole", "shifted", "torn"}]
    BY <1>1, <1>3 DEF StartLookup
  <2>5. QED
    BY <1>3, <2>1, <2>3, <2>4, FreshLookups, LookupTyping DEF StartLookup
<1>4. CASE SkipLookup(r)
  BY <1>1, <1>4, FreshLookups, LookupTyping DEF SkipLookup, routeHistory
<1>5. CASE Select(r)
  <2>1. UNCHANGED <<routes, change, moments, tear, intended, clashed>>
    BY <1>5 DEF Select, routeHistory
  <2>2. \E rec \in LookupRec : SetLookup(r, rec)
    <3>1. ASSUME lookup[r].preferred \in Stages
          PROVE  RouteAt(lookup[r].preferred, GetActive(routes[lookup[r].preferred]))
                    \in MaybeRoute
      BY <1>2, <3>1, RouteAtFacts
    <3>2. \A p \in MaybeRow : \A b :
             Resolve(p, GetActive(routes["Staging"]), b) \in MaybeRoute
      BY <1>2, ResolveFacts DEF Stages
    <3>3. lookup[r].production \in MaybeRow /\ lookup[r].preferred \in Stages \union {"any"}
      BY <1>1 DEF LookupRec, MaybeRow
    <3>4. GetActive(routes["Production"]) \in MaybeRow
      BY <1>2 DEF Stages
    <3>5. QED
      BY <1>1, <1>5, <3>1, <3>2, <3>3, <3>4, NextLookups DEF Select
  <2>3. QED
    BY <1>1, <2>1, <2>2, LookupTyping
<1>6. CASE SelectFails(r)
  BY <1>1, <1>6, NextLookups, LookupTyping DEF SelectFails, routeHistory, MaybeRow, MaybeRoute
<1>7. CASE LeaveLookup(r)
  <2>1. /\ moments' \in [Requests -> SUBSET MaybeRoute]
        /\ tear' \in [Requests -> {"whole", "shifted", "torn"}]
    BY <1>1, <1>7 DEF LeaveLookup
  <2>2. QED
    BY <1>7, <2>1, FreshLookups, LookupTyping DEF LeaveLookup, Stages
<1>8. QED
  BY <1>3, <1>4, <1>5, <1>6, <1>7 DEF LookupStep

\* A step of one change keeps the types if its record does and no row goes.
LEMMA ChangeTyping ==
    ASSUME RouteInv, NEW a \in Admins, NEW rec \in ChangeRec,
           change' = [change EXCEPT ![a] = rec], ChangeOK(rec, routes'),
           routes' \in [Stages -> MaybeRow],
           \A s \in Stages : routes[s] # NoRow => routes'[s] # NoRow,
           moments' \in [Requests -> SUBSET MaybeRoute],
           tear' \in [Requests -> {"whole", "shifted", "torn"}],
           intended' \in [Stages -> SUBSET Row], clashed' \subseteq Stages,
           UNCHANGED lookup
    PROVE  RouteInv'
<1>1. change \in [Admins -> ChangeRec] /\ \A b \in Admins : ChangeOK(change[b], routes)
  BY DEF RouteInv, RouteTypeOK
<1>2. change' \in [Admins -> ChangeRec]
  BY <1>1
<1>3. ASSUME NEW b \in Admins
      PROVE  ChangeOK(change'[b], routes')
  <2>1. change[b].stage \in Stages
    BY <1>1 DEF ChangeRec
  <2>2. CASE b = a
    BY <1>1, <2>2
  <2>3. CASE b # a
    BY <1>1, <2>1, <2>3 DEF ChangeOK
  <2>4. QED
    BY <2>2, <2>3
<1>4. RouteTypeOK'
  BY <1>2 DEF RouteInv, RouteTypeOK, MaybeRow, MaybeRoute
<1>5. QED
  BY <1>3, <1>4 DEF RouteInv

LEMMA TypesOf ==
    ASSUME RouteInv
    PROVE  /\ routes \in [Stages -> MaybeRow]
           /\ change \in [Admins -> ChangeRec]
           /\ lookup \in [Requests -> LookupRec]
           /\ moments \in [Requests -> SUBSET MaybeRoute]
           /\ tear \in [Requests -> {"whole", "shifted", "torn"}]
           /\ intended \in [Stages -> SUBSET Row]
           /\ clashed \subseteq Stages
           /\ \A a \in Admins : /\ change[a].stage \in Stages
                                /\ change[a].seen \in MaybeRow
                                /\ change[a].goal \in MaybeRow
                                /\ ChangeOK(change[a], routes)
  BY DEF RouteInv, RouteTypeOK, ChangeRec, MaybeRow, MaybeRoute

LEMMA StartsTyped ==
    ASSUME RouteInv, NEW a \in Admins,
           \/ \E stage \in Stages, base \in Models, adapter \in Adapters,
                 enabled \in BOOLEAN, percent \in Percents :
                 StartUpsert(a, stage, base, adapter, enabled, percent)
           \/ \E stage \in Stages : StartDisable(a, stage)
    PROVE  RouteInv'
<1>1. ASSUME NEW stage \in Stages, NEW goal \in MaybeRow
      PROVE  LET rec == [pc |-> "selecting", stage |-> stage, goal |-> goal, seen |-> NoRow]
             IN  rec \in ChangeRec /\ ChangeOK(rec, routes)
  BY DEF ChangeRec, MaybeRow, ChangeOK
<1>2. ASSUME NEW stage \in Stages, NEW base \in Models, NEW adapter \in Adapters,
             NEW enabled \in BOOLEAN, NEW percent \in Percents,
             StartUpsert(a, stage, base, adapter, enabled, percent)
      PROVE  RouteInv'
  <2> DEFINE goal == [base |-> base, adapter |-> adapter, enabled |-> enabled,
                      canary |-> Clamp(percent)]
             rec == [pc |-> "selecting", stage |-> stage, goal |-> goal, seen |-> NoRow]
  <2>1. goal \in Row
    <3>1. Clamp(percent) \in 0..100
      BY RouteAssumption DEF RouteAssumption, Clamp
    <3>2. QED
      BY <3>1 DEF Row
  <2>2. /\ change' = [change EXCEPT ![a] = rec]
        /\ intended' = [intended EXCEPT ![stage] = @ \union {goal}]
        /\ UNCHANGED <<routes, lookup, moments, tear, clashed>>
    BY <1>2 DEF StartUpsert
  <2> HIDE DEF goal
  <2>3. rec \in ChangeRec /\ ChangeOK(rec, routes)
    BY <1>1, <2>1 DEF MaybeRow
  <2>4. intended' \in [Stages -> SUBSET Row]
    BY <2>1, <2>2, TypesOf
  <2> HIDE DEF rec
  <2>5. QED
    BY <2>2, <2>3, <2>4, TypesOf, ChangeTyping
<1>3. ASSUME NEW stage \in Stages, StartDisable(a, stage)
      PROVE  RouteInv'
  <2> DEFINE rec == [pc |-> "selecting", stage |-> stage, goal |-> NoRow, seen |-> NoRow]
  <2>1. rec \in ChangeRec /\ ChangeOK(rec, routes)
    BY <1>1 DEF MaybeRow
  <2>2. /\ change' = [change EXCEPT ![a] = rec]
        /\ UNCHANGED <<routes, lookup, moments, tear, intended, clashed>>
    BY <1>3 DEF StartDisable, routeHistory
  <2> HIDE DEF rec
  <2>3. QED
    BY <2>1, <2>2, TypesOf, ChangeTyping
<1>4. QED
  BY <1>2, <1>3

\* What an insert or an update publishes.
LEMMA PublishTyped ==
    ASSUME RouteInv, NEW a \in Admins, change[a].pc = "writing",
           NEW row \in Row, Publish(change[a].stage, row),
           change' = [change EXCEPT ![a].pc = "done"],
           UNCHANGED <<lookup, intended>>, clashed' \subseteq Stages
    PROVE  RouteInv'
<1> DEFINE rec == [change[a] EXCEPT !.pc = "done"]
<1>1. /\ change' = [change EXCEPT ![a] = rec]
      /\ change[a] \in ChangeRec
  BY TypesOf
<1>2. /\ rec \in ChangeRec /\ rec.pc = "done"
      /\ rec.stage = change[a].stage /\ rec.seen = change[a].seen
  BY <1>1, ChangeDone
<1>3. /\ routes' \in [Stages -> MaybeRow]
      /\ moments' \in [Requests -> SUBSET MaybeRoute]
      /\ tear' \in [Requests -> {"whole", "shifted", "torn"}]
      /\ \A s \in Stages : routes[s] # NoRow => routes'[s] # NoRow
  BY TypesOf, PublishFacts, NoRowFacts DEF RouteInv
<1>4. ChangeOK(rec, routes')
  BY <1>2, <1>3, TypesOf DEF ChangeOK
<1> HIDE DEF rec
<1>5. QED
  BY <1>1, <1>2, <1>3, <1>4, TypesOf, ChangeTyping

LEMMA ChangesTyped ==
    ASSUME RouteInv, NEW a \in Admins, ChangeStep(a)
    PROVE  RouteInv'
<1> DEFINE c == change[a]
<1>1. c \in ChangeRec /\ c.stage \in Stages /\ ChangeOK(c, routes)
  BY TypesOf
<1>2. ASSUME NEW pc \in {"writing", "notfound", "failed"}, NEW row \in MaybeRow,
             row # NoRow => routes[c.stage] # NoRow,
             pc = "writing" /\ row = NoRow => c.goal # NoRow,
             change' = [change EXCEPT ![a] = [c EXCEPT !.seen = row, !.pc = pc]],
             UNCHANGED <<routes, lookup, moments, tear, intended, clashed>>
      PROVE  RouteInv'
  <2> DEFINE rec == [c EXCEPT !.seen = row, !.pc = pc]
  <2> HIDE DEF c
  <2>1. /\ rec \in ChangeRec
        /\ rec.stage = c.stage /\ rec.goal = c.goal /\ rec.seen = row /\ rec.pc = pc
    BY <1>1 DEF ChangeRec, MaybeRow
  <2> HIDE DEF rec
  <2>2. ChangeOK(rec, routes')
    BY <1>2, <2>1 DEF ChangeOK
  <2>3. change' = [change EXCEPT ![a] = rec]
    BY <1>2 DEF rec
  <2>4. QED
    BY <1>2, <2>1, <2>2, <2>3, TypesOf, ChangeTyping
<1>3. ASSUME change' = [change EXCEPT ![a].pc = "failed"],
             UNCHANGED <<routes, lookup, moments, tear, intended, clashed>>
      PROVE  RouteInv'
  <2>1. change' = [change EXCEPT ![a] = [c EXCEPT !.seen = c.seen, !.pc = "failed"]]
    BY <1>1, <1>3, TypesOf DEF ChangeRec
  <2>2. c.seen \in MaybeRow /\ (c.seen # NoRow => routes[c.stage] # NoRow)
    BY TypesOf DEF ChangeOK
  <2>3. QED
    BY <1>2, <1>3, <2>1, <2>2
<1>4. CASE SelectRow(a)
  <2> DEFINE row == routes[c.stage]
             pc == IF row = NoRow /\ c.goal = NoRow THEN "notfound" ELSE "writing"
  <2>1. row \in MaybeRow /\ pc \in {"writing", "notfound", "failed"}
    BY <1>1, TypesOf
  <2>2. change' = [change EXCEPT ![a] = [c EXCEPT !.seen = row, !.pc = pc]]
    BY <1>1, <1>4, TypesOf DEF SelectRow
  <2>3. /\ row # NoRow => routes[c.stage] # NoRow
        /\ pc = "writing" /\ row = NoRow => c.goal # NoRow
        /\ UNCHANGED <<routes, lookup, moments, tear, intended, clashed>>
    BY <1>4 DEF SelectRow, routeHistory
  <2> HIDE DEF row, pc
  <2>4. QED
    BY <1>2, <2>1, <2>2, <2>3
<1>5. CASE Insert(a)
  <2>1. c.pc = "writing" /\ c.seen = NoRow
    BY <1>5 DEF Insert
  <2>2. Assigned(c) \in Row
    BY <1>1, <2>1, AssignedFacts DEF ChangeOK
  <2>3. QED
    BY <1>3, <1>5, <2>1, <2>2, PublishTyped, TypesOf DEF Insert
<1>6. CASE Update(a)
  <2>1. c.pc = "writing" /\ c.seen # NoRow
    BY <1>6 DEF Update
  <2>2. routes[c.stage] \in Row /\ c.seen \in Row
    BY <1>1, <2>1, TypesOf DEF ChangeOK, MaybeRow
  <2>3. Merged(routes[c.stage], c.seen, Assigned(c)) \in Row
    BY <1>1, <2>1, <2>2, AssignedFacts, MergedFacts
  <2>4. clashed' \subseteq Stages
    BY <1>1, <1>6, TypesOf DEF Update
  <2>5. QED
    BY <1>6, <2>1, <2>3, <2>4, PublishTyped DEF Update
<1>7. CASE ChangeFails(a)
  BY <1>3, <1>7 DEF ChangeFails, routeHistory
<1>8. QED
  BY <1>4, <1>5, <1>6, <1>7 DEF ChangeStep

LEMMA TypingStep == RouteInv /\ [RouteNext]_routeVars => RouteInv'
<1>1. RouteInv /\ UNCHANGED routeVars => RouteInv'
  BY DEF routeVars, routeHistory, RouteInv, RouteTypeOK, ChangeOK
<1>2. QED
  BY <1>1, LookupsTyped, StartsTyped, ChangesTyped DEF RouteNext

\* Every step keeps rows, changes, lookups and their history of their types.
THEOREM RouteTyping == RouteSpec => []RouteTypeOK
<1>1. RouteInv => RouteTypeOK
  BY DEF RouteInv
<1>2. QED
  BY <1>1, InitTyping, TypingStep, PTL DEF RouteSpec

-----------------------------------------------------------------------------
(* One answer of one moment.                                               *)

PromisedNow(r) ==
    Promised(lookup[r].preferred, routes["Production"], routes["Staging"],
             lookup[r].bucket)

\* The inductive invariant: until the first read the right answer of the moment
\* is among the moments; after it, so is what the lookup would answer now.  What
\* was read of Production is the present row, unless that was changed since.
MomentOK(r) ==
    /\ lookup[r].pc = "first" => PromisedNow(r) \in moments[r]
    /\ lookup[r].pc = "second" =>
          /\ lookup[r].preferred = "any"
          /\ tear[r] = "whole" =>
                /\ lookup[r].production = GetActive(routes["Production"])
                /\ PromisedNow(r) \in moments[r]
          /\ tear[r] = "shifted" =>
                Resolve(lookup[r].production, GetActive(routes["Staging"]),
                        lookup[r].bucket) \in moments[r]
    /\ lookup[r].pc = "done" => lookup[r].answer \in moments[r] \/ tear[r] = "torn"

MomentInv == \A r \in Requests : MomentOK(r)

\* A promise for any stage is what the two reads would find if nothing changed.
LEMMA NowResolved ==
    ASSUME RouteInv, NEW r \in Requests, lookup[r].preferred = "any"
    PROVE  PromisedNow(r) = Resolve(GetActive(routes["Production"]),
                                    GetActive(routes["Staging"]), lookup[r].bucket)
<1>1. routes["Production"] \in MaybeRow /\ routes["Staging"] \in MaybeRow
  BY TypesOf DEF Stages
<1>2. lookup[r].bucket \in 0..99
  BY TypesOf DEF LookupRec
<1>3. QED
  BY <1>1, <1>2, PromiseKept DEF PromisedNow

\* A request's part of the invariant depends on its own lookup and the rows.
LEMMA Untouched ==
    ASSUME NEW r \in Requests, MomentOK(r), UNCHANGED routes,
           lookup'[r] = lookup[r], moments'[r] = moments[r], tear'[r] = tear[r]
    PROVE  MomentOK(r)'
  BY DEF MomentOK, PromisedNow

LEMMA LookupMoments ==
    ASSUME RouteInv, MomentInv, NEW r \in Requests,
           \/ \E preferred \in Stages \union {"any"}, bucket \in Buckets :
                 StartLookup(r, preferred, bucket)
           \/ SkipLookup(r) \/ LookupStep(r) \/ LeaveLookup(r)
    PROVE  MomentInv'
<1> DEFINE l == lookup[r]
<1>1. l \in LookupRec /\ MomentOK(r)
  BY TypesOf DEF MomentInv
<1>2. UNCHANGED routes
  BY DEF StartLookup, SkipLookup, LookupStep, Select, SelectFails, LeaveLookup
<1>3. ASSUME NEW q \in Requests, q # r
      PROVE  MomentOK(q)'
  <2>1. lookup'[q] = lookup[q] /\ moments'[q] = moments[q] /\ tear'[q] = tear[q]
    BY <1>3, TypesOf
    DEF StartLookup, SkipLookup, LookupStep, Select, SelectFails, LeaveLookup,
        SetLookup, routeHistory
  <2>2. QED
    BY <1>2, <2>1, Untouched DEF MomentInv
<1>4. MomentOK(r)'
  <2>1. ASSUME NEW preferred \in Stages \union {"any"}, NEW bucket \in Buckets,
               StartLookup(r, preferred, bucket)
        PROVE  MomentOK(r)'
    <3>1. /\ lookup'[r] = [pc |-> "first", preferred |-> preferred, bucket |-> bucket,
                           production |-> NoRow, answer |-> NoRow]
          /\ moments'[r] = {Promised(preferred, routes["Production"],
                                     routes["Staging"], bucket)}
      BY <2>1, TypesOf DEF StartLookup, SetLookup
    <3>2. QED
      BY <1>2, <3>1 DEF MomentOK, PromisedNow
  <2>2. CASE SkipLookup(r) \/ SelectFails(r) \/ LeaveLookup(r)
    <3>1. lookup'[r].pc \in {"skipped", "failed", "idle"}
      BY <1>1, <2>2, TypesOf
      DEF SkipLookup, SelectFails, LeaveLookup, SetLookup, NoLookup, LookupRec
    <3>2. QED
      BY <3>1 DEF MomentOK
  <2>3. CASE Select(r)
    <3>1. moments'[r] = moments[r] /\ tear'[r] = tear[r]
      BY <2>3 DEF Select, routeHistory
    <3>2. CASE l.pc = "first" /\ l.preferred # "any"
      <4>1. l.preferred \in Stages /\ l.bucket \in 0..99
        BY <1>1, <3>2 DEF LookupRec
      <4>2. PromisedNow(r) = RouteAt(l.preferred, GetActive(routes[l.preferred]))
        BY <4>1, PreferenceKept, TypesOf DEF PromisedNow, Stages
      <4> DEFINE answer == RouteAt(l.preferred, GetActive(routes[l.preferred]))
      <4>3. lookup' = [lookup EXCEPT ![r] = [l EXCEPT !.pc = "done", !.answer = answer]]
        BY <2>3, <3>2 DEF Select, SetLookup
      <4>4. answer = PromisedNow(r)
        BY <4>2
      <4> HIDE DEF answer
      <4>5. lookup'[r] = [l EXCEPT !.pc = "done", !.answer = answer]
        BY <4>3, TypesOf
      <4>6. lookup'[r].pc = "done" /\ lookup'[r].answer = answer
        BY <1>1, <4>5, NextFields
      <4>7. QED
        BY <1>1, <3>1, <3>2, <4>4, <4>6 DEF MomentOK
    <3>3. CASE l.pc = "first" /\ l.preferred = "any"
      <4>1. /\ lookup'[r].pc = "second" /\ lookup'[r].preferred = "any"
            /\ lookup'[r].bucket = l.bucket
            /\ lookup'[r].production = GetActive(routes["Production"])
        <5> DEFINE row == GetActive(routes["Production"])
        <5>1. lookup' = [lookup EXCEPT ![r] = [l EXCEPT !.pc = "second", !.production = row]]
          BY <2>3, <3>3 DEF Select, SetLookup
        <5> HIDE DEF row
        <5>2. lookup'[r] = [l EXCEPT !.pc = "second", !.production = row]
          BY <5>1, TypesOf
        <5>3. /\ lookup'[r].pc = "second" /\ lookup'[r].production = row
              /\ lookup'[r].preferred = l.preferred /\ lookup'[r].bucket = l.bucket
          BY <1>1, <5>2, NextFields
        <5>4. QED
          BY <3>3, <5>3 DEF row
      <4>2. PromisedNow(r) \in moments[r] /\ PromisedNow(r)' = PromisedNow(r)
        BY <1>1, <1>2, <3>3, <4>1 DEF MomentOK, PromisedNow
      <4>3. Resolve(lookup'[r].production, GetActive(routes["Staging"]), l.bucket)
               \in moments[r]
        BY <3>3, <4>1, <4>2, NowResolved
      <4>4. QED
        BY <1>2, <3>1, <4>1, <4>2, <4>3 DEF MomentOK
    <3>4. CASE l.pc = "second"
      <4> DEFINE answer == Resolve(l.production, GetActive(routes["Staging"]), l.bucket)
      <4>1. lookup' = [lookup EXCEPT ![r] = [l EXCEPT !.pc = "done", !.answer = answer]]
        BY <2>3, <3>4 DEF Select, SetLookup
      <4>2. lookup'[r].pc = "done" /\ lookup'[r].answer = answer
        <5> HIDE DEF answer
        <5>1. lookup'[r] = [l EXCEPT !.pc = "done", !.answer = answer]
          BY <4>1, TypesOf
        <5>2. QED
          BY <1>1, <5>1, NextFields
      <4>3. tear[r] = "whole" => answer \in moments[r]
        BY <1>1, <3>4, NowResolved DEF MomentOK
      <4>4. tear[r] = "shifted" => answer \in moments[r]
        BY <1>1, <3>4 DEF MomentOK
      <4>5. tear[r] \in {"whole", "shifted", "torn"}
        BY TypesOf
      <4> HIDE DEF answer
      <4>6. QED
        BY <3>1, <4>2, <4>3, <4>4, <4>5 DEF MomentOK
    <3>5. QED
      BY <2>3, <3>2, <3>3, <3>4 DEF Select
  <2>4. QED
    BY <2>1, <2>2, <2>3 DEF LookupStep
<1>5. QED
  BY <1>3, <1>4 DEF MomentInv

\* What a commit does to a lookup under way: between its two reads, Production
\* may become different from what was read, and from then on Staging must stay.
LEMMA PublishMoments ==
    ASSUME RouteInv, MomentInv, NEW stage \in Stages, NEW row \in Row,
           Publish(stage, row), UNCHANGED lookup
    PROVE  MomentInv'
<1> SUFFICES ASSUME NEW r \in Requests
             PROVE  MomentOK(r)'
  BY DEF MomentInv
<1>1. MomentOK(r) /\ lookup'[r] = lookup[r] /\ tear[r] \in {"whole", "shifted", "torn"}
  BY TypesOf DEF MomentInv
<1>2. /\ \A s \in Stages : routes'[s] = IF s = stage THEN row ELSE routes[s]
      /\ moments[r] \subseteq moments'[r]
      /\ Looking(r) => PromisedNow(r)' \in moments'[r]
      /\ tear'[r] = IF lookup[r].pc # "second" THEN tear[r]
                    ELSE IF stage = "Production" /\ tear[r] = "whole" THEN "shifted"
                    ELSE IF stage = "Staging" /\ tear[r] = "shifted" THEN "torn"
                    ELSE tear[r]
  BY <1>1, PublishFacts DEF RouteInv, PromisedNow
<1>3. CASE lookup[r].pc \notin {"first", "second"}
  BY <1>1, <1>2, <1>3 DEF MomentOK
<1>4. CASE lookup[r].pc = "first"
  BY <1>1, <1>2, <1>4 DEF MomentOK, Looking
<1>5. CASE lookup[r].pc = "second" /\ stage = "Production"
  <2>1. routes'["Staging"] = routes["Staging"]
    BY <1>2, <1>5 DEF Stages
  <2>2. tear'[r] = "shifted" =>
           Resolve(lookup[r].production, GetActive(routes["Staging"]), lookup[r].bucket)
              \in moments'[r]
    BY <1>1, <1>2, <1>5, NowResolved DEF MomentOK
  <2>3. QED
    BY <1>1, <1>2, <1>5, <2>1, <2>2 DEF MomentOK
<1>6. CASE lookup[r].pc = "second" /\ stage = "Staging"
  <2>1. routes'["Production"] = routes["Production"]
    BY <1>2, <1>6 DEF Stages
  <2>2. QED
    BY <1>1, <1>2, <1>6, <2>1 DEF MomentOK, Looking
<1>7. QED
  BY <1>3, <1>4, <1>5, <1>6 DEF Stages

\* A step of a change that commits nothing concerns no lookup.
LEMMA QuietChange ==
    ASSUME RouteInv, MomentInv, UNCHANGED <<routes, lookup, moments, tear>>
    PROVE  MomentInv'
  BY Untouched DEF MomentInv

LEMMA ChangeMoments ==
    ASSUME RouteInv, MomentInv, NEW a \in Admins, ChangeStep(a)
    PROVE  MomentInv'
<1> DEFINE c == change[a]
<1>1. c \in ChangeRec /\ c.stage \in Stages /\ ChangeOK(c, routes)
  BY TypesOf
<1>2. CASE Insert(a)
  <2>1. c.pc = "writing" /\ c.seen = NoRow
    BY <1>2 DEF Insert
  <2>2. Assigned(c) \in Row
    BY <1>1, <2>1, AssignedFacts DEF ChangeOK
  <2>3. QED
    BY <1>1, <1>2, <2>2, PublishMoments, QuietChange DEF Insert
<1>3. CASE Update(a)
  <2>1. c.pc = "writing" /\ c.seen # NoRow
    BY <1>3 DEF Update
  <2>2. routes[c.stage] \in Row /\ c.seen \in Row
    BY <1>1, <2>1, TypesOf DEF ChangeOK, MaybeRow
  <2>3. Merged(routes[c.stage], c.seen, Assigned(c)) \in Row
    BY <1>1, <2>1, <2>2, AssignedFacts, MergedFacts
  <2>4. QED
    BY <1>1, <1>3, <2>3, PublishMoments DEF Update
<1>4. CASE SelectRow(a) \/ ChangeFails(a)
  BY <1>4, QuietChange DEF SelectRow, ChangeFails, routeHistory
<1>5. QED
  BY <1>2, <1>3, <1>4 DEF ChangeStep

LEMMA MomentStep == RouteInv /\ MomentInv /\ [RouteNext]_routeVars => MomentInv'
<1> SUFFICES ASSUME RouteInv, MomentInv, [RouteNext]_routeVars
             PROVE  MomentInv'
  OBVIOUS
<1>1. CASE UNCHANGED routeVars
  BY <1>1, QuietChange DEF routeVars, routeHistory
<1>2. ASSUME NEW a \in Admins, NEW stage \in Stages, NEW base \in Models,
             NEW adapter \in Adapters, NEW enabled \in BOOLEAN, NEW percent \in Percents,
             StartUpsert(a, stage, base, adapter, enabled, percent)
      PROVE  MomentInv'
  BY <1>2, QuietChange DEF StartUpsert
<1>3. ASSUME NEW a \in Admins, NEW stage \in Stages, StartDisable(a, stage)
      PROVE  MomentInv'
  BY <1>3, QuietChange DEF StartDisable, routeHistory
<1>4. QED
  BY <1>1, <1>2, <1>3, LookupMoments, ChangeMoments DEF RouteNext

\* Although resolve_with_canary reads twice without a snapshot, its answer was
\* right at one instant, unless Production and then Staging changed in between.
THEOREM OneMoment == RouteSpec => []AnswerFromOneMoment
<1>1. RouteInit => MomentInv
  <2>1. NoLookup.pc = "idle"
    BY DEF NoLookup
  <2>2. QED
    BY <2>1 DEF RouteInit, MomentInv, MomentOK
<1>2. MomentInv => AnswerFromOneMoment
  BY DEF MomentInv, MomentOK, AnswerFromOneMoment
<1>3. QED
  BY <1>1, <1>2, InitTyping, TypingStep, MomentStep, PTL DEF RouteSpec

-----------------------------------------------------------------------------
(* Whole rows.                                                             *)

\* What an upsert under way asks for is among the rows asked for at its stage.
GoalInv == \A a \in Admins :
    change[a].pc # "idle" /\ change[a].goal # NoRow =>
        change[a].goal \in intended[change[a].stage]

\* The row of a stage is a whole one, or the stage has clashed.
Settled(s) ==
    \/ routes[s] \in {NoRow} \union intended[s]
    \/ DisableAsked(s) /\ routes[s] \in {Disabled(row) : row \in intended[s]}
    \/ s \in clashed

\* A change that has begun stays begun, and asks for what it asked for.
Persists(a) ==
    change[a].pc # "idle" =>
        /\ change'[a].pc # "idle"
        /\ change'[a].stage = change[a].stage /\ change'[a].goal = change[a].goal

\* A row that loses its own enabled flag twice loses it once.
LEMMA DisabledTwice ==
    ASSUME NEW row \in Row
    PROVE  Disabled(row) \in Row /\ Disabled(Disabled(row)) = Disabled(row)
  BY DEF Row, Disabled

\* A session that has seen the present row writes the row that it assigned.
LEMMA MergedUnseen ==
    ASSUME NEW seen \in Row, NEW goal \in Row
    PROVE  Merged(seen, seen, goal) = goal
<1>1. Merged(seen, seen, goal) = [base |-> goal.base, adapter |-> goal.adapter,
                                  enabled |-> goal.enabled, canary |-> goal.canary]
  <2>1. /\ (IF goal.base = seen.base THEN seen.base ELSE goal.base) = goal.base
        /\ (IF goal.adapter = seen.adapter THEN seen.adapter ELSE goal.adapter) = goal.adapter
        /\ (IF goal.enabled = seen.enabled THEN seen.enabled ELSE goal.enabled) = goal.enabled
        /\ (IF goal.canary = seen.canary THEN seen.canary ELSE goal.canary) = goal.canary
    OBVIOUS
  <2>2. QED
    BY <2>1 DEF Merged
<1>2. QED
  BY <1>1 DEF Row

\* What was asked for, and what has clashed, is never forgotten.
LEMMA SettledKept ==
    ASSUME NEW s \in Stages, Settled(s), routes'[s] = routes[s],
           \A a \in Admins : Persists(a),
           intended[s] \subseteq intended'[s], clashed \subseteq clashed'
    PROVE  Settled(s)'
<1>1. DisableAsked(s) => DisableAsked(s)'
  BY DEF DisableAsked, Persists
<1>2. QED
  BY <1>1 DEF Settled

\* One change moves on, asking for the same.
LEMMA OthersPersist ==
    ASSUME RouteInv, NEW a \in Admins, NEW rec, change' = [change EXCEPT ![a] = rec],
           change[a].pc # "idle" =>
              rec.pc # "idle" /\ rec.stage = change[a].stage /\ rec.goal = change[a].goal
    PROVE  \A b \in Admins : Persists(b) /\ (b # a => change'[b] = change[b])
  BY TypesOf DEF Persists

\* A row that was written whole, or over one that was not seen, is settled.
LEMMA WrittenSettled ==
    ASSUME RouteInv, GoalInv, NEW a \in Admins, change[a].pc = "writing",
           \A s \in Stages : Settled(s),
           Insert(a) \/ Update(a), \A b \in Admins : Persists(b),
           NEW s \in Stages
    PROVE  Settled(s)'
<1> DEFINE c == change[a]
<1>1. /\ c \in ChangeRec /\ c.stage \in Stages /\ c.seen \in MaybeRow
      /\ c.goal \in MaybeRow /\ ChangeOK(c, routes)
  BY TypesOf
<1>2. intended' = intended /\ clashed \subseteq clashed'
  BY DEF Insert, Update
<1>3. CASE s # c.stage \/ UNCHANGED routes
  <2>1. routes'[s] = routes[s]
    BY <1>1, <1>3, TypesOf DEF Insert, Update, Publish
  <2>2. QED
    BY <1>2, <2>1, SettledKept
<1>4. CASE s = c.stage /\ Insert(a) /\ Publish(c.stage, Assigned(c))
  <2>1. c.goal # NoRow
    BY <1>1, <1>4 DEF Insert, ChangeOK
  <2>2. routes'[s] = c.goal
    BY <1>4, <2>1, TypesOf DEF Publish, Assigned
  <2>3. c.goal \in intended'[s]
    BY <1>2, <1>4, <2>1 DEF GoalInv
  <2>4. QED
    BY <2>2, <2>3 DEF Settled
<1>5. CASE s = c.stage /\ Update(a)
  <2>1. c.seen \in Row /\ Assigned(c) \in Row
    BY <1>1, <1>5, AssignedFacts DEF Update, MaybeRow
  <2>2. CASE routes[s] # c.seen
    BY <1>5, <2>2 DEF Update, Settled
  <2>3. CASE routes[s] = c.seen
    <3>1. Merged(routes[s], c.seen, Assigned(c)) = Assigned(c)
      BY <2>1, <2>3, MergedUnseen
    <3>2. routes'[s] = Assigned(c)
      BY <1>5, <3>1, TypesOf DEF Update, Publish
    <3>3. CASE c.goal # NoRow
      <4>1. routes'[s] = c.goal
        BY <3>2, <3>3 DEF Assigned
      <4>2. c.goal \in intended'[s]
        BY <1>2, <1>5, <3>3 DEF GoalInv
      <4>3. QED
        BY <4>1, <4>2 DEF Settled
    <3>4. CASE c.goal = NoRow
      <4>1. routes'[s] = Disabled(routes[s])
        BY <2>3, <3>2, <3>4 DEF Assigned
      <4>2. DisableAsked(s)'
        <5>1. change'[a].pc # "idle" /\ change'[a].stage = s /\ change'[a].goal = NoRow
          BY <1>5, <3>4 DEF Persists
        <5>2. QED
          BY <5>1 DEF DisableAsked
      <4>3. CASE routes[s] \in intended[s]
        BY <1>2, <4>1, <4>2, <4>3 DEF Settled
      <4>4. CASE routes[s] \in {Disabled(row) : row \in intended[s]}
        <5>1. PICK row \in intended[s] : routes[s] = Disabled(row)
          BY <4>4
        <5>2. row \in Row
          BY <5>1, TypesOf
        <5>3. routes'[s] = Disabled(row)
          BY <4>1, <5>1, <5>2, DisabledTwice
        <5>4. QED
          BY <1>2, <4>2, <5>1, <5>3 DEF Settled
      <4>5. CASE s \in clashed
        BY <1>2, <4>5 DEF Settled
      <4>6. routes[s] # NoRow
        BY <2>1, <2>3, NoRowFacts
      <4>7. QED
        BY <4>3, <4>4, <4>5, <4>6 DEF Settled
    <3>5. QED
      BY <3>3, <3>4
  <2>4. QED
    BY <2>2, <2>3
<1>6. QED
  BY <1>3, <1>4, <1>5 DEF Insert

\* Every step leaves each stage's row whole, or the stage clashed.
LEMMA MixedStep ==
    RouteInv /\ GoalInv /\ MixedRouteOnlyByClash /\ [RouteNext]_routeVars
    => GoalInv' /\ MixedRouteOnlyByClash'
<1> SUFFICES ASSUME RouteInv, GoalInv, MixedRouteOnlyByClash, [RouteNext]_routeVars
             PROVE  GoalInv' /\ MixedRouteOnlyByClash'
  OBVIOUS
<1>1. \A s \in Stages : Settled(s)
  BY DEF MixedRouteOnlyByClash, Settled
<1>2. (\A s \in Stages : Settled(s)') => MixedRouteOnlyByClash'
  BY DEF MixedRouteOnlyByClash, Settled
<1>3. CASE UNCHANGED <<routes, change, intended, clashed>>
  <2>1. GoalInv'
    BY <1>3 DEF GoalInv
  <2>2. \A a \in Admins : Persists(a)
    BY <1>3 DEF Persists
  <2>3. \A s \in Stages : Settled(s)'
    BY <1>1, <1>3, <2>2, SettledKept
  <2>4. QED
    BY <1>2, <2>1, <2>3
<1>4. ASSUME NEW a \in Admins, NEW rec,
             change' = [change EXCEPT ![a] = rec],
             change[a].pc # "idle" =>
                rec.pc # "idle" /\ rec.stage = change[a].stage /\ rec.goal = change[a].goal,
             rec.goal # NoRow => rec.goal \in intended'[rec.stage],
             \A s \in Stages : intended[s] \subseteq intended'[s]
      PROVE  GoalInv' /\ \A b \in Admins : Persists(b)
  <2>1. \A b \in Admins : Persists(b) /\ (b # a => change'[b] = change[b])
    BY <1>4, OthersPersist
  <2>2. change'[a] = rec
    BY <1>4, TypesOf
  <2>3. ASSUME NEW b \in Admins, change'[b].pc # "idle", change'[b].goal # NoRow
        PROVE  change'[b].goal \in intended'[change'[b].stage]
    <3>1. CASE b = a
      BY <1>4, <2>2, <2>3, <3>1
    <3>2. CASE b # a
      BY <1>4, <2>1, <2>3, <3>2, TypesOf DEF GoalInv
    <3>3. QED
      BY <3>1, <3>2
  <2>4. QED
    BY <2>1, <2>3 DEF GoalInv
<1>5. ASSUME NEW a \in Admins, NEW stage \in Stages, NEW base \in Models,
             NEW adapter \in Adapters, NEW enabled \in BOOLEAN, NEW percent \in Percents,
             StartUpsert(a, stage, base, adapter, enabled, percent)
      PROVE  GoalInv' /\ MixedRouteOnlyByClash'
  <2> DEFINE goal == [base |-> base, adapter |-> adapter, enabled |-> enabled,
                      canary |-> Clamp(percent)]
             rec == [pc |-> "selecting", stage |-> stage, goal |-> goal, seen |-> NoRow]
  <2>1. /\ change' = [change EXCEPT ![a] = rec] /\ change[a].pc = "idle"
        /\ intended' = [intended EXCEPT ![stage] = @ \union {goal}]
        /\ UNCHANGED <<routes, clashed>>
    BY <1>5 DEF StartUpsert
  <2>2. rec.goal = goal /\ rec.stage = stage
    OBVIOUS
  <2> HIDE DEF goal, rec
  <2>3. /\ goal \in intended'[stage]
        /\ \A s \in Stages : intended[s] \subseteq intended'[s]
    BY <2>1, TypesOf
  <2>4. GoalInv' /\ \A b \in Admins : Persists(b)
    BY <1>4, <2>1, <2>2, <2>3
  <2>5. \A s \in Stages : Settled(s)'
    BY <1>1, <2>1, <2>3, <2>4, SettledKept
  <2>6. QED
    BY <1>2, <2>4, <2>5
<1>6. ASSUME NEW a \in Admins, NEW stage \in Stages, StartDisable(a, stage)
      PROVE  GoalInv' /\ MixedRouteOnlyByClash'
  <2> DEFINE rec == [pc |-> "selecting", stage |-> stage, goal |-> NoRow, seen |-> NoRow]
  <2>1. /\ change' = [change EXCEPT ![a] = rec] /\ change[a].pc = "idle"
        /\ UNCHANGED <<routes, intended, clashed>>
    BY <1>6 DEF StartDisable, routeHistory
  <2>2. rec.goal = NoRow
    OBVIOUS
  <2> HIDE DEF rec
  <2>3. GoalInv' /\ \A b \in Admins : Persists(b)
    BY <1>4, <2>1, <2>2
  <2>4. \A s \in Stages : Settled(s)'
    BY <1>1, <2>1, <2>3, SettledKept
  <2>5. QED
    BY <1>2, <2>3, <2>4
<1>7. ASSUME NEW a \in Admins, ChangeStep(a)
      PROVE  GoalInv' /\ MixedRouteOnlyByClash'
  <2> DEFINE c == change[a]
  <2>1. intended' = intended /\ c.pc # "idle"
    BY <1>7 DEF ChangeStep, SelectRow, Insert, Update, ChangeFails, routeHistory
  <2>2. ASSUME NEW row, NEW pc, pc # "idle",
               change' = [change EXCEPT ![a] = [c EXCEPT !.seen = row, !.pc = pc]]
        PROVE  GoalInv' /\ \A b \in Admins : Persists(b)
    <3> DEFINE rec == [c EXCEPT !.seen = row, !.pc = pc]
    <3>1. rec.pc = pc /\ rec.stage = c.stage /\ rec.goal = c.goal
      BY TypesOf DEF ChangeRec
    <3>2. change' = [change EXCEPT ![a] = rec]
      BY <2>2
    <3> HIDE DEF rec
    <3>3. QED
      BY <1>4, <2>1, <2>2, <3>1, <3>2 DEF GoalInv
  <2>3. ASSUME SelectRow(a)
        PROVE  GoalInv' /\ \A b \in Admins : Persists(b)
    <3> DEFINE row == routes[c.stage]
               pc == IF row = NoRow /\ c.goal = NoRow THEN "notfound" ELSE "writing"
    <3>1. change' = [change EXCEPT ![a] = [c EXCEPT !.seen = row, !.pc = pc]]
      BY <2>3, TypesOf DEF SelectRow
    <3>2. pc # "idle"
      OBVIOUS
    <3> HIDE DEF row, pc
    <3>3. QED
      BY <2>2, <3>1, <3>2
  <2>4. ASSUME Insert(a) \/ Update(a) \/ ChangeFails(a)
        PROVE  GoalInv' /\ \A b \in Admins : Persists(b)
    <3>1. PICK pc \in {"done", "failed"} : change' = [change EXCEPT ![a].pc = pc]
      BY <2>4 DEF Insert, Update, ChangeFails
    <3>2. change' = [change EXCEPT ![a] = [c EXCEPT !.seen = c.seen, !.pc = pc]]
      BY <3>1, TypesOf DEF ChangeRec
    <3>3. QED
      BY <2>2, <3>1, <3>2
  <2>5. GoalInv' /\ \A b \in Admins : Persists(b)
    BY <1>7, <2>3, <2>4 DEF ChangeStep
  <2>6. CASE Insert(a) \/ Update(a)
    <3>1. c.pc = "writing"
      BY <2>6 DEF Insert, Update
    <3>2. \A s \in Stages : Settled(s)'
      BY <1>1, <2>5, <2>6, <3>1, WrittenSettled
    <3>3. QED
      BY <1>2, <2>5, <3>2
  <2>7. CASE SelectRow(a) \/ ChangeFails(a)
    <3>1. UNCHANGED <<routes, intended, clashed>>
      BY <2>7 DEF SelectRow, ChangeFails, routeHistory
    <3>2. \A s \in Stages : Settled(s)'
      BY <1>1, <2>5, <3>1, SettledKept
    <3>3. QED
      BY <1>2, <2>5, <3>2
  <2>8. QED
    BY <1>7, <2>6, <2>7 DEF ChangeStep
<1>8. ASSUME NEW r \in Requests,
             \/ \E preferred \in Stages \union {"any"}, bucket \in Buckets :
                   StartLookup(r, preferred, bucket)
             \/ SkipLookup(r) \/ LookupStep(r) \/ LeaveLookup(r)
      PROVE  GoalInv' /\ MixedRouteOnlyByClash'
  BY <1>3, <1>8 DEF StartLookup, SkipLookup, LookupStep, Select, SelectFails, LeaveLookup,
                    routeHistory
<1>9. QED
  BY <1>3, <1>5, <1>6, <1>7, <1>8 DEF RouteNext, routeVars, routeHistory

\* Before any change each stage has what was stored.
LEMMA MixedInit == RouteInit => GoalInv /\ MixedRouteOnlyByClash
<1> SUFFICES ASSUME RouteInit
             PROVE  GoalInv /\ MixedRouteOnlyByClash
  OBVIOUS
<1>1. GoalInv
  BY DEF RouteInit, GoalInv, NoChange
<1>2. \A s \in Stages : routes[s] \in {NoRow} \union intended[s]
  BY DEF RouteInit
<1>3. QED
  BY <1>1, <1>2 DEF MixedRouteOnlyByClash

\* The admin endpoints over AdapterRouteRepository: a stored route is what one
\* call asked for, or that with its flag off, for any number of concurrent
\* upserts and disables; columns of several mix only where an UPDATE hit a row
\* that its session had not loaded.
THEOREM WholeRows == RouteSpec => []MixedRouteOnlyByClash
<1>1. QED
  BY InitTyping, TypingStep, MixedInit, MixedStep, PTL DEF RouteSpec
=============================================================================
