-------------------------- MODULE DeploymentProofs --------------------------
(***************************************************************************)
(* Proofs about SemanticCollection and TraceDelivery, for any number of    *)
(* processes, traces, ids and deaths, and that Deployment implements both. *)
(***************************************************************************)
EXTENDS Deployment, FiniteSetTheorems, TLAPS

-----------------------------------------------------------------------------
(* The collection.                                                         *)

\* The inductive invariant: only the one process that created the collection
\* indexes it, and as long as it does an index is missing; nobody gets past the
\* bootstrap before there is a collection.
CollectionInv ==
    /\ CollectionTypeOK
    /\ \A p, q \in Processes :
          process[p] = "indexing" /\ process[q] = "indexing" => p = q
    /\ \A p \in Processes :
          process[p] = "indexing" => exists /\ indexed < Fields
    /\ ~exists => /\ indexed = 0
                  /\ \A p \in Processes : process[p] \in {"down", "asking", "creating"}
    /\ exists /\ indexed < Fields =>
          interrupted \/ \E p \in Processes : process[p] = "indexing"

ProcessPC == {"down", "asking", "creating", "indexing", "connecting", "serving"}

LEMMA GoesFacts ==
    ASSUME process \in [Processes -> ProcessPC],
           NEW p \in Processes, NEW from, NEW to \in ProcessPC, Goes(p, from, to)
    PROVE  /\ process' \in [Processes -> ProcessPC]
           /\ process[p] = from
           /\ \A q \in Processes : process'[q] = IF q = p THEN to ELSE process[q]
  BY DEF Goes

LEMMA CollectionStep == CollectionInv /\ [CollectionNext]_collectionVars => CollectionInv'
<1> SUFFICES ASSUME CollectionInv, [CollectionNext]_collectionVars
             PROVE  CollectionInv'
  OBVIOUS
<1> USE DEF CollectionInv
<1>1. /\ process \in [Processes -> ProcessPC] /\ indexed \in 0..Fields
      /\ exists \in BOOLEAN /\ deaths \in 0..MaxDeaths /\ interrupted \in BOOLEAN
      /\ Fields \in Nat \ {0} /\ MaxDeaths \in Nat
  BY CollectionAssumption DEF CollectionAssumption, CollectionTypeOK, ProcessPC
<1>2. ASSUME NEW p \in Processes, Boot(p)
      PROVE  CollectionInv'
  BY <1>1, <1>2, GoesFacts DEF Boot, CollectionTypeOK, ProcessPC
<1>3. ASSUME NEW p \in Processes, AskExists(p)
      PROVE  CollectionInv'
  BY <1>1, <1>3, GoesFacts DEF AskExists, CollectionTypeOK, ProcessPC
<1>4. ASSUME NEW p \in Processes, CreateCollection(p)
      PROVE  CollectionInv'
  <2>1. UNCHANGED <<indexed, deaths, interrupted>>
    BY <1>4 DEF CreateCollection
  <2>2. CASE exists
    <3>1. /\ exists' = exists /\ process' \in [Processes -> ProcessPC]
          /\ \A q \in Processes : process'[q] = IF q = p THEN "down" ELSE process[q]
      BY <1>1, <1>4, <2>2, GoesFacts DEF CreateCollection, ProcessPC
    <3>2. process[p] = "creating"
      BY <1>4, <2>2 DEF CreateCollection, Goes
    <3>3. QED
      BY <1>1, <2>1, <2>2, <3>1, <3>2 DEF CollectionTypeOK, ProcessPC
  <2>3. CASE ~exists
    <3>1. /\ exists' = TRUE /\ process' \in [Processes -> ProcessPC]
          /\ \A q \in Processes : process'[q] = IF q = p THEN "indexing" ELSE process[q]
      BY <1>1, <1>4, <2>3, GoesFacts DEF CreateCollection, ProcessPC
    <3>2. indexed = 0 /\ \A q \in Processes : process[q] # "indexing"
      BY <2>3
    <3>3. QED
      BY <1>1, <2>1, <3>1, <3>2 DEF CollectionTypeOK, ProcessPC
  <2>4. QED
    BY <2>2, <2>3
<1>5. ASSUME NEW p \in Processes, CreateIndex(p)
      PROVE  CollectionInv'
  <2> DEFINE to == IF indexed + 1 = Fields THEN "connecting" ELSE "indexing"
  <2>1. Goes(p, "indexing", to) /\ to \in ProcessPC
    BY <1>5 DEF CreateIndex, ProcessPC
  <2> HIDE DEF to
  <2>2. /\ process' \in [Processes -> ProcessPC] /\ process[p] = "indexing"
        /\ \A q \in Processes : process'[q] = IF q = p THEN to ELSE process[q]
    BY <1>1, <2>1, GoesFacts
  <2>3. /\ exists /\ indexed < Fields /\ indexed' = indexed + 1
        /\ UNCHANGED <<exists, deaths, interrupted>>
    BY <1>5, <2>2 DEF CreateIndex
  <2>4. \A q \in Processes \ {p} : process'[q] # "indexing"
    BY <2>2
  <2>5. IF indexed' = Fields THEN process'[p] = "connecting" ELSE process'[p] = "indexing"
    BY <2>2, <2>3 DEF to
  <2>6. CollectionTypeOK'
    BY <1>1, <2>2, <2>3 DEF CollectionTypeOK, ProcessPC
  <2>7. indexed' \in 0..Fields
    BY <1>1, <2>3
  <2>8. QED
    BY <1>1, <2>2, <2>3, <2>4, <2>5, <2>6, <2>7
<1>6. ASSUME NEW p \in Processes, Connect(p)
      PROVE  CollectionInv'
  BY <1>1, <1>6, GoesFacts DEF Connect, CollectionTypeOK, ProcessPC
<1>7. ASSUME NEW p \in Processes, Die(p)
      PROVE  CollectionInv'
  <2>1. /\ process' \in [Processes -> ProcessPC]
        /\ \A q \in Processes : process'[q] = IF q = p THEN "down" ELSE process[q]
    BY <1>1, <1>7, GoesFacts DEF Die, ProcessPC
  <2>2. deaths' \in 0..MaxDeaths /\ interrupted' \in BOOLEAN
    BY <1>1, <1>7 DEF Die
  <2>3. /\ interrupted => interrupted'
        /\ process[p] \in {"creating", "indexing"} => interrupted'
    BY <1>7, Zenon DEF Die
  <2>4. CASE UNCHANGED <<exists, indexed>>
    BY <1>1, <2>1, <2>2, <2>3, <2>4 DEF CollectionTypeOK, ProcessPC
  <2>5. CASE process[p] = "creating" /\ ~exists /\ exists' = TRUE /\ UNCHANGED indexed
    BY <1>1, <2>1, <2>2, <2>3, <2>5 DEF CollectionTypeOK, ProcessPC
  <2>6. CASE process[p] = "indexing" /\ indexed' = indexed + 1 /\ UNCHANGED exists
    <3>1. exists /\ indexed' \in 0..Fields /\ \A q \in Processes : process'[q] # "indexing"
      BY <1>1, <2>1, <2>6
    <3>2. QED
      BY <1>1, <2>1, <2>2, <2>3, <2>6, <3>1 DEF CollectionTypeOK, ProcessPC
  <2>7. QED
    BY <1>7, <2>4, <2>5, <2>6 DEF Die
<1>8. CASE UNCHANGED collectionVars
  BY <1>8 DEF collectionVars, CollectionTypeOK
<1>9. QED
  BY <1>2, <1>3, <1>4, <1>5, <1>6, <1>7, <1>8 DEF CollectionNext, StartStep

LEMMA CollectionStart == CollectionInit => CollectionInv
<1> SUFFICES ASSUME CollectionInit
             PROVE  CollectionInv
  OBVIOUS
<1>1. Fields \in Nat \ {0} /\ MaxDeaths \in Nat
  BY CollectionAssumption DEF CollectionAssumption
<1>2. \A p \in Processes : process[p] = "down"
  BY DEF CollectionInit
<1>3. CollectionTypeOK
  <2>1. process \in [Processes -> ProcessPC]
    BY DEF CollectionInit, ProcessPC
  <2>2. exists \in BOOLEAN /\ interrupted \in BOOLEAN
    BY DEF CollectionInit
  <2>3. indexed = 0 \/ indexed = Fields
    BY DEF CollectionInit
  <2>4. deaths = 0
    BY DEF CollectionInit
  <2>5. QED
    BY <1>1, <2>1, <2>2, <2>3, <2>4 DEF CollectionTypeOK, ProcessPC
<1>4. /\ ~exists => indexed = 0
      /\ exists => ~(indexed < Fields)
  BY <1>1 DEF CollectionInit
<1>5. QED
  BY <1>2, <1>3, <1>4 DEF CollectionInv

LEMMA CollectionAlways == CollectionSpec => []CollectionInv
  BY CollectionStart, CollectionStep, PTL DEF CollectionSpec

\* Every step keeps the types; above all no index is counted twice.
THEOREM CollectionTyping == CollectionSpec => []CollectionTypeOK
<1>1. CollectionInv => CollectionTypeOK
  BY DEF CollectionInv
<1>2. QED
  BY <1>1, CollectionAlways, PTL

\* No process serves without the collection, and only the death of the process
\* that was creating it can leave it without its indexes.
THEOREM CollectionSound == CollectionSpec => []CollectionComplete
<1>1. CollectionInv => CollectionComplete
  BY DEF CollectionInv, CollectionComplete, Serving
<1>2. QED
  BY <1>1, CollectionAlways, PTL

-----------------------------------------------------------------------------
(* Traces: counting rows.                                                  *)

LEMMA CountFacts ==
    ASSUME NEW S, IsFiniteSet(S)
    PROVE  /\ Cardinality(S) \in Nat
           /\ Cardinality(S) >= 1 => S # {}
           /\ Cardinality(S) >= 2 => \E x, y \in S : x # y
<1>1. Cardinality(S) \in Nat /\ (Cardinality(S) >= 1 => S # {})
  BY FS_CardinalityType, FS_EmptySet
<1>2. ASSUME Cardinality(S) >= 2
      PROVE  \E x, y \in S : x # y
  <2>1. PICK x \in S : TRUE
    BY <1>1, <1>2
  <2>2. IsFiniteSet(S \ {x}) /\ Cardinality(S \ {x}) = Cardinality(S) - 1
    BY <2>1, FS_RemoveElement
  <2>3. S \ {x} # {}
    BY <1>1, <1>2, <2>2, FS_EmptySet
  <2>4. QED
    BY <2>1, <2>3
<1>3. QED
  BY <1>1, <1>2

\* Of the transactions of a dead process that were committed, those for one id.
LEMMA CommittedFacts ==
    ASSUME TraceTypeOK, NEW e \in Executors, SomeCommitted(e)
    PROVE  /\ rows' \in [Ids -> Nat]
           /\ kept' \subseteq Traces
           /\ \A i \in Ids :
                 LET mine == {t \in Orphans(e) : idOf[t] = i} IN
                 /\ rows'[i] >= rows[i]
                 /\ rows'[i] >= rows[i] + 1 => mine # {}
                 /\ rows'[i] >= rows[i] + 2 => \E t, u \in mine : t # u
<1>1. PICK committed \in SUBSET Orphans(e) :
         /\ rows' = [i \in Ids |-> rows[i] + Cardinality({t \in committed : idOf[t] = i})]
         /\ kept' = kept \union committed
  BY DEF SomeCommitted
<1> DEFINE landed(i) == {t \in committed : idOf[t] = i}
<1>2. \A i \in Ids : IsFiniteSet(landed(i))
  <2>1. \A i \in Ids : landed(i) \in SUBSET Traces
    BY DEF Orphans
  <2>2. QED
    BY <2>1, FS_Subset, TraceAssumption DEF TraceAssumption
<1>3. \A i \in Ids : rows[i] \in Nat /\ rows'[i] = rows[i] + Cardinality(landed(i))
  BY <1>1 DEF TraceTypeOK
<1>4. \A i \in Ids : /\ Cardinality(landed(i)) \in Nat
                     /\ Cardinality(landed(i)) >= 1 => landed(i) # {}
                     /\ Cardinality(landed(i)) >= 2 => \E t, u \in landed(i) : t # u
  BY <1>2, CountFacts
<1>5. \A i \in Ids : landed(i) \subseteq {t \in Orphans(e) : idOf[t] = i}
  OBVIOUS
<1> HIDE DEF landed
<1>6. rows' \in [Ids -> Nat]
  <2>1. rows' = [i \in Ids |-> rows'[i]]
    BY <1>1
  <2>2. \A i \in Ids : rows'[i] \in Nat
    BY <1>3, <1>4
  <2>3. QED
    BY <2>1, <2>2
<1>7. kept' \subseteq Traces
  BY <1>1 DEF TraceTypeOK, Orphans
<1>8. ASSUME NEW i \in Ids
      PROVE  /\ rows'[i] >= rows[i]
             /\ rows'[i] >= rows[i] + 1 => landed(i) # {}
             /\ rows'[i] >= rows[i] + 2 => \E t, u \in landed(i) : t # u
  BY <1>3, <1>4
<1>9. QED
  BY <1>5, <1>6, <1>7, <1>8

-----------------------------------------------------------------------------
(* Traces: types.                                                          *)

LEMMA PersistFacts ==
    ASSUME TraceTypeOK, NEW e \in Executors, NEW t \in Traces,
           NEW from, NEW to \in Execution, PersistGoes(e, t, from, to)
    PROVE  /\ persist' \in [Executors -> [Traces -> Execution]]
           /\ persist[e][t] = from
           /\ \A f \in Executors, u \in Traces :
                 persist'[f][u] = IF f = e /\ u = t THEN to ELSE persist[f][u]
  BY DEF TraceTypeOK, PersistGoes

LEMMA ReadyFacts ==
    ASSUME NEW e \in Executors, NEW t \in Traces
    PROVE  /\ \A var \in [Executors -> [Traces -> Execution]] :
                 /\ Ready(var, e, t) \in [Executors -> [Traces -> Execution]]
                 /\ \A f \in Executors, u \in Traces :
                       Ready(var, e, t)[f][u] = IF f = e /\ u = t THEN "ready" ELSE var[f][u]
           /\ \A var \in [Executors -> [Traces -> {"none", "ready", "over"}]] :
                 Ready(var, e, t) \in [Executors -> [Traces -> {"none", "ready", "over"}]]
  BY DEF Ready, Execution

\* What the death of each process makes of the executions.
LEMMA DeathFacts ==
    ASSUME TraceTypeOK, GatewayDies \/ WorkerDies
    PROVE  /\ persist' \in [Executors -> [Traces -> Execution]]
           /\ \A f \in Executors, u \in Traces :
                 persist'[f][u] = "inserting" => persist[f][u] = "inserting"
           /\ GatewayDies => \A u \in Traces : persist'["task"][u] # "inserting"
           /\ ~GatewayDies => \A u \in Traces : persist'["job"][u] # "inserting"
           /\ flush' \in [Traces -> {"none", "persisting", "exporting", "over"}]
           /\ export' \in [Executors -> [Traces -> {"none", "ready", "over"}]]
<1>1. /\ persist \in [Executors -> [Traces -> Execution]]
      /\ export \in [Executors -> [Traces -> {"none", "ready", "over"}]]
      /\ flush \in [Traces -> {"none", "persisting", "exporting", "over"}]
  BY DEF TraceTypeOK
<1>2. CASE GatewayDies
  <2>1. persist' = [persist EXCEPT !["task"] = [t \in Traces |->
           IF persist["task"][t] \in {"ready", "inserting"} THEN "lost"
           ELSE persist["task"][t]]]
    BY <1>1, <1>2 DEF GatewayDies, Executors
  <2>2. export' = [export EXCEPT !["task"] = [t \in Traces |->
           IF export["task"][t] = "ready" THEN "over" ELSE export["task"][t]]]
    BY <1>1, <1>2 DEF GatewayDies, Executors
  <2>3. flush' \in [Traces -> {"none", "persisting", "exporting", "over"}]
    BY <1>2 DEF GatewayDies
  <2>4. QED
    BY <1>1, <1>2, <2>1, <2>2, <2>3 DEF Executors, Execution
<1>3. CASE WorkerDies /\ ~GatewayDies
  <2>1. persist' = [persist EXCEPT !["job"] = [t \in Traces |->
           IF persist["job"][t] = "inserting" THEN "ready" ELSE persist["job"][t]]]
    BY <1>1, <1>3 DEF WorkerDies, Executors
  <2>2. QED
    BY <1>1, <1>3, <2>1 DEF WorkerDies, Executors, Execution
<1>4. QED
  BY <1>2, <1>3

LEMMA TraceTypes ==
    ASSUME TraceTypeOK
    PROVE  /\ idOf \in [Traces -> Ids]
           /\ flush \in [Traces -> {"none", "persisting", "exporting", "over"}]
           /\ persist \in [Executors -> [Traces -> Execution]]
           /\ export \in [Executors -> [Traces -> {"none", "ready", "over"}]]
           /\ rows \in [Ids -> Nat]
           /\ kept \subseteq Traces /\ excused \subseteq Traces /\ unexported \subseteq Traces
           /\ overlapped \subseteq Ids
  BY DEF TraceTypeOK

LEMMA TypesFrom ==
    ASSUME TraceTypeOK,
           flush' \in [Traces -> {"none", "persisting", "exporting", "over"}],
           persist' \in [Executors -> [Traces -> Execution]],
           export' \in [Executors -> [Traces -> {"none", "ready", "over"}]],
           rows' \in [Ids -> Nat],
           kept' \subseteq Traces, excused' \subseteq Traces, unexported' \subseteq Traces,
           overlapped' \subseteq Ids, UNCHANGED idOf
    PROVE  TraceTypeOK'
  BY DEF TraceTypeOK

LEMMA FlushTypes ==
    ASSUME TraceTypeOK, NEW t \in Traces, Finalize(t) \/ FlushStep(t)
    PROVE  TraceTypeOK' /\ UNCHANGED <<idOf, rows, overlapped>>
           /\ \A e \in Executors, u \in Traces :
                 persist'[e][u] = "inserting" => persist[e][u] = "inserting"
<1>1. CASE Finalize(t)
  BY <1>1, TraceTypes, TypesFrom DEF Finalize, FlushGoes
<1>2. CASE EnqueuePersist(t)
  <2>1. flush' \in [Traces -> {"none", "persisting", "exporting", "over"}]
    BY <1>2, TraceTypes DEF EnqueuePersist, FlushGoes
  <2>2. /\ "task" \in Executors /\ "job" \in Executors /\ "ready" \in Execution
        /\ "ready" # "inserting"
    BY DEF Executors, Execution
  <2>3. ASSUME NEW e \in Executors
        PROVE  /\ Ready(persist, e, t) \in [Executors -> [Traces -> Execution]]
               /\ \A f \in Executors, u \in Traces :
                     Ready(persist, e, t)[f][u] = "inserting" => persist[f][u] = "inserting"
    <3>1. Ready(persist, e, t) \in [Executors -> [Traces -> Execution]]
      BY TraceTypes, ReadyFacts
    <3>2. ASSUME NEW f \in Executors, NEW u \in Traces,
                 Ready(persist, e, t)[f][u] = "inserting"
          PROVE  persist[f][u] = "inserting"
      <4>1. Ready(persist, e, t)[f][u]
              = IF f = e /\ u = t THEN "ready" ELSE persist[f][u]
        BY TraceTypes, ReadyFacts
      <4>2. QED
        BY <3>2, <4>1
    <3>3. QED
      BY <3>1, <3>2
  <2>4. /\ persist' \in [Executors -> [Traces -> Execution]]
        /\ \A f \in Executors, u \in Traces :
              persist'[f][u] = "inserting" => persist[f][u] = "inserting"
    <3> DEFINE Good(var) == /\ var \in [Executors -> [Traces -> Execution]]
                            /\ \A f \in Executors, u \in Traces :
                                  var[f][u] = "inserting" => persist[f][u] = "inserting"
    <3>1. Good(persist)
      BY TraceTypes
    <3>2. \A e \in Executors : Good(Ready(persist, e, t))
      BY <2>3, <3>1
    <3>3. persist' \in {persist, Ready(persist, "job", t), Ready(persist, "task", t)}
      BY <1>2 DEF EnqueuePersist
    <3> HIDE DEF Good
    <3>4. Good(persist')
      BY <2>2, <3>1, <3>2, <3>3
    <3>5. QED
      BY <3>4 DEF Good
  <2>5. export' \in [Executors -> [Traces -> {"none", "ready", "over"}]]
    BY <1>2, <2>2, TraceTypes, ReadyFacts DEF EnqueuePersist
  <2>6. excused' \subseteq Traces
    BY <1>2, TraceTypes DEF EnqueuePersist
  <2>7. QED
    BY <1>2, <2>1, <2>4, <2>5, <2>6, TraceTypes, TypesFrom DEF EnqueuePersist
<1>3. CASE EnqueueExport(t)
  <2>1. flush' \in [Traces -> {"none", "persisting", "exporting", "over"}]
    BY <1>3, TraceTypes DEF EnqueueExport, FlushGoes
  <2>2. export' \in [Executors -> [Traces -> {"none", "ready", "over"}]]
    BY <1>3, TraceTypes, ReadyFacts DEF EnqueueExport, Executors
  <2>3. QED
    BY <1>3, <2>1, <2>2, TraceTypes, TypesFrom DEF EnqueueExport
<1>4. QED
  BY <1>1, <1>2, <1>3 DEF FlushStep

LEMMA LookUpTypes ==
    ASSUME TraceTypeOK, NEW e \in Executors, NEW t \in Traces, LookUp(e, t)
    PROVE  TraceTypeOK'
<1>1. idOf[t] \in Ids
  BY TraceTypes
<1>2. persist' \in [Executors -> [Traces -> Execution]]
  BY PersistFacts DEF LookUp, Execution
<1>3. excused' \subseteq Traces /\ overlapped' \subseteq Ids
  BY <1>1, TraceTypes DEF LookUp
<1>4. QED
  BY <1>2, <1>3, TraceTypes, TypesFrom DEF LookUp

LEMMA CommitTypes ==
    ASSUME TraceTypeOK, NEW e \in Executors, NEW t \in Traces, Commit(e, t)
    PROVE  TraceTypeOK'
<1>1. idOf[t] \in Ids
  BY TraceTypes
<1>2. persist' \in [Executors -> [Traces -> Execution]]
  BY PersistFacts DEF Commit, Execution
<1>3. rows' \in [Ids -> Nat] /\ kept' \subseteq Traces /\ excused' \subseteq Traces
  BY <1>1, TraceTypes DEF Commit
<1>4. QED
  BY <1>2, <1>3, TraceTypes, TypesFrom DEF Commit

LEMMA ExportTypes ==
    ASSUME TraceTypeOK, NEW e \in Executors, NEW t \in Traces, Export(e, t)
    PROVE  TraceTypeOK'
<1>1. export' \in [Executors -> [Traces -> {"none", "ready", "over"}]]
  BY TraceTypes DEF Export
<1>2. QED
  BY <1>1, TraceTypes, TypesFrom DEF Export

LEMMA DeathTypes ==
    ASSUME TraceTypeOK, GatewayDies \/ WorkerDies
    PROVE  TraceTypeOK'
<1>1. rows' \in [Ids -> Nat] /\ kept' \subseteq Traces
  BY CommittedFacts DEF GatewayDies, WorkerDies, Executors
<1>2. /\ excused' \subseteq Traces /\ unexported' \subseteq Traces
      /\ UNCHANGED <<idOf, overlapped>>
  BY TraceTypes DEF GatewayDies, WorkerDies
<1>3. QED
  BY <1>1, <1>2, DeathFacts, TraceTypes, TypesFrom

LEMMA TraceStepTypes == TraceTypeOK /\ [TraceNext]_traceVars => TraceTypeOK'
<1>1. TraceTypeOK /\ UNCHANGED traceVars => TraceTypeOK'
  BY DEF traceVars, TraceTypeOK
<1>2. QED
  BY <1>1, FlushTypes, LookUpTypes, CommitTypes, ExportTypes, DeathTypes
  DEF TraceNext, ExecutorStep

LEMMA TraceStartTypes == TraceInit => TraceTypeOK
<1> SUFFICES ASSUME TraceInit
             PROVE  TraceTypeOK
  OBVIOUS
<1>1. idOf \in [Traces -> Ids]
  BY TraceAssumption DEF TraceInit, TraceAssumption
<1>2. /\ flush \in [Traces -> {"none", "persisting", "exporting", "over"}]
      /\ persist \in [Executors -> [Traces -> Execution]]
      /\ export \in [Executors -> [Traces -> {"none", "ready", "over"}]]
  BY DEF TraceInit, Execution
<1>3. rows \in [Ids -> Nat] /\ overlapped = {} /\ kept = {} /\ excused = {} /\ unexported = {}
  BY DEF TraceInit
<1>4. QED
  BY <1>1, <1>2, <1>3 DEF TraceTypeOK

\* Every step, the deaths of the processes among them, keeps flushes, executions
\* and rows of their types.
THEOREM TraceTyping == TraceSpec => []TraceTypeOK
  BY TraceStartTypes, TraceStepTypes, PTL DEF TraceSpec

-----------------------------------------------------------------------------
(* Traces: duplicates.                                                     *)

Inserting(e, t, i) == persist[e][t] = "inserting" /\ idOf[t] = i

\* The inductive invariant: an id of which two executions are inserting, or one
\* although there is a row, is among the overlapped ones; so is one of which
\* there are two rows.
OverlapInv ==
    \A i \in Ids :
        /\ rows[i] >= 2 => i \in overlapped
        /\ \A e \in Executors, t \in Traces :
              Inserting(e, t, i) => rows[i] = 0 \/ i \in overlapped
        /\ \A e, f \in Executors, t, u \in Traces :
              Inserting(e, t, i) /\ Inserting(f, u, i) /\ <<e, t>> # <<f, u>> =>
                 i \in overlapped

\* Steps that start no insertion and write no row.
LEMMA NothingWritten ==
    ASSUME OverlapInv, UNCHANGED <<idOf, rows>>, overlapped \subseteq overlapped',
           \A e \in Executors, t \in Traces :
              persist'[e][t] = "inserting" => persist[e][t] = "inserting"
    PROVE  OverlapInv'
  BY DEF OverlapInv, Inserting

LEMMA LookUpOverlaps ==
    ASSUME TraceTypeOK, OverlapInv, NEW e \in Executors, NEW t \in Traces, LookUp(e, t)
    PROVE  OverlapInv'
<1>1. UNCHANGED <<idOf, rows>>
  BY DEF LookUp
<1>2. CASE persist'[e][t] # "inserting"
  <2>1. \A f \in Executors, u \in Traces :
           persist'[f][u] = "inserting" => persist[f][u] = "inserting"
    BY <1>2, PersistFacts DEF LookUp, Execution
  <2>2. overlapped \subseteq overlapped'
    BY DEF LookUp
  <2>3. QED
    BY <1>1, <2>1, <2>2, NothingWritten
<1>3. CASE persist'[e][t] = "inserting"
  <2>1. /\ rows[idOf[t]] = 0
        /\ PersistGoes(e, t, "ready", "inserting")
        /\ overlapped' = IF Overlaps(e, t) THEN overlapped \union {idOf[t]} ELSE overlapped
    <3>1. \A to \in Execution \ {"inserting"} : ~PersistGoes(e, t, "ready", to)
      BY <1>3, PersistFacts
    <3>2. QED
      BY <3>1 DEF LookUp, Execution
  <2>2. \A f \in Executors, u \in Traces :
           persist'[f][u] = IF f = e /\ u = t THEN "inserting" ELSE persist[f][u]
    BY <2>1, PersistFacts DEF Execution
  <2>3. \A f \in Executors, u \in Traces :
           Inserting(f, u, idOf[t]) /\ <<f, u>> # <<e, t>> => idOf[t] \in overlapped'
    BY <2>1 DEF Overlaps, Inserting
  <2>4. overlapped \subseteq overlapped'
    BY <2>1
  <2> SUFFICES ASSUME NEW i \in Ids
               PROVE  /\ rows[i] >= 2 => i \in overlapped'
                      /\ \A f \in Executors, u \in Traces :
                            Inserting(f, u, i)' => rows[i] = 0 \/ i \in overlapped'
                      /\ \A f, g \in Executors, u, v \in Traces :
                            Inserting(f, u, i)' /\ Inserting(g, v, i)'
                               /\ <<f, u>> # <<g, v>> => i \in overlapped'
    BY <1>1 DEF OverlapInv
  <2>5. \A f \in Executors, u \in Traces :
           Inserting(f, u, i)' => Inserting(f, u, i) \/ (f = e /\ u = t /\ i = idOf[t])
    <3> TAKE f \in Executors, u \in Traces
    <3>1. CASE f = e /\ u = t
      BY <1>1, <3>1 DEF Inserting
    <3>2. CASE ~(f = e /\ u = t)
      <4>1. persist'[f][u] = persist[f][u]
        BY <2>2, <3>2
      <4>2. QED
        BY <1>1, <4>1 DEF Inserting
    <3>3. QED
      BY <3>1, <3>2
  <2>6. QED
    BY <2>1, <2>3, <2>4, <2>5 DEF OverlapInv
<1>4. QED
  BY <1>2, <1>3

LEMMA CommitOverlaps ==
    ASSUME TraceTypeOK, OverlapInv, NEW e \in Executors, NEW t \in Traces, Commit(e, t)
    PROVE  OverlapInv'
<1>1. UNCHANGED <<idOf, overlapped>> /\ persist[e][t] = "inserting"
  BY DEF Commit, PersistGoes
<1>2. \A f \in Executors, u \in Traces :
         persist'[f][u] = "inserting" => persist[f][u] = "inserting" /\ <<f, u>> # <<e, t>>
  BY PersistFacts DEF Commit, Execution
<1>3. CASE rows' = rows
  BY <1>1, <1>2, <1>3, NothingWritten
<1>4. CASE rows' = [rows EXCEPT ![idOf[t]] = @ + 1]
  <2>1. \A i \in Ids : /\ rows[i] \in Nat
                       /\ rows'[i] = IF i = idOf[t] THEN rows[i] + 1 ELSE rows[i]
    BY <1>4, TraceTypes
  <2> SUFFICES ASSUME NEW i \in Ids
               PROVE  /\ rows'[i] >= 2 => i \in overlapped
                      /\ \A f \in Executors, u \in Traces :
                            Inserting(f, u, i)' => rows'[i] = 0 \/ i \in overlapped
                      /\ \A f, g \in Executors, u, v \in Traces :
                            Inserting(f, u, i)' /\ Inserting(g, v, i)'
                               /\ <<f, u>> # <<g, v>> => i \in overlapped
    BY <1>1 DEF OverlapInv
  <2>2. \A f \in Executors, u \in Traces :
           Inserting(f, u, i)' => Inserting(f, u, i) /\ <<f, u>> # <<e, t>>
    BY <1>1, <1>2 DEF Inserting
  <2>3. CASE i = idOf[t]
    <3>1. Inserting(e, t, i)
      BY <1>1, <2>3 DEF Inserting
    <3>2. rows'[i] >= 2 => rows[i] # 0
      BY <2>1
    <3>3. QED
      BY <2>2, <3>1, <3>2 DEF OverlapInv
  <2>4. CASE i # idOf[t]
    BY <2>1, <2>2, <2>4 DEF OverlapInv
  <2>5. QED
    BY <2>3, <2>4
<1>5. QED
  BY <1>3, <1>4 DEF Commit

LEMMA DeathOverlaps ==
    ASSUME TraceTypeOK, OverlapInv, GatewayDies \/ WorkerDies
    PROVE  OverlapInv'
<1>1. UNCHANGED <<idOf, overlapped>>
  BY DEF GatewayDies, WorkerDies
<1>2. PICK e \in Executors :
         /\ SomeCommitted(e)
         /\ \A u \in Traces : persist'[e][u] # "inserting"
  <2>1. "task" \in Executors /\ "job" \in Executors
    BY DEF Executors
  <2>2. CASE GatewayDies
    BY <2>1, <2>2, DeathFacts DEF GatewayDies
  <2>3. CASE WorkerDies /\ ~GatewayDies
    BY <2>1, <2>3, DeathFacts DEF WorkerDies
  <2>4. QED
    BY <2>2, <2>3
<1> SUFFICES ASSUME NEW i \in Ids
             PROVE  /\ rows'[i] >= 2 => i \in overlapped
                    /\ \A f \in Executors, u \in Traces :
                          Inserting(f, u, i)' => rows'[i] = 0 \/ i \in overlapped
                    /\ \A f, g \in Executors, u, v \in Traces :
                          Inserting(f, u, i)' /\ Inserting(g, v, i)'
                             /\ <<f, u>> # <<g, v>> => i \in overlapped
  BY <1>1 DEF OverlapInv
<1> DEFINE mine == {t \in Orphans(e) : idOf[t] = i}
<1>3. /\ rows[i] \in Nat /\ rows'[i] \in Nat /\ rows'[i] >= rows[i]
      /\ rows'[i] >= rows[i] + 1 => mine # {}
      /\ rows'[i] >= rows[i] + 2 => \E t, u \in mine : t # u
  BY <1>2, CommittedFacts, TraceTypes
<1>4. \A t \in mine : t \in Traces /\ Inserting(e, t, i)
  BY DEF Orphans, Inserting
<1>5. \A f \in Executors, u \in Traces :
         Inserting(f, u, i)' => Inserting(f, u, i) /\ f # e
  BY <1>1, <1>2, DeathFacts DEF Inserting
<1> HIDE DEF mine
<1>6. rows'[i] >= 2 => i \in overlapped
  <2>1. CASE rows[i] >= 2
    BY <2>1 DEF OverlapInv
  <2>2. CASE rows[i] = 1 /\ rows'[i] >= 2
    BY <1>3, <1>4, <2>2 DEF OverlapInv
  <2>3. CASE rows[i] = 0 /\ rows'[i] >= 2
    <3>1. PICK t \in mine, u \in mine : t # u
      BY <1>3, <2>3
    <3>2. <<e, t>> # <<e, u>>
      BY <3>1
    <3>3. QED
      BY <1>4, <3>1, <3>2 DEF OverlapInv
  <2>4. QED
    BY <1>3, <2>1, <2>2, <2>3
<1>7. ASSUME NEW f \in Executors, NEW u \in Traces, Inserting(f, u, i)'
      PROVE  rows'[i] = 0 \/ i \in overlapped
  <2>1. Inserting(f, u, i) /\ f # e
    BY <1>5, <1>7
  <2>2. CASE rows[i] = 0 /\ rows'[i] # 0
    <3>1. PICK t \in mine : TRUE
      BY <1>3, <2>2
    <3>2. <<e, t>> # <<f, u>>
      BY <2>1
    <3>3. QED
      BY <1>4, <2>1, <3>1, <3>2 DEF OverlapInv
  <2>3. CASE rows[i] # 0
    BY <2>1, <2>3 DEF OverlapInv
  <2>4. QED
    BY <2>2, <2>3
<1>8. QED
  BY <1>5, <1>6, <1>7 DEF OverlapInv

LEMMA OverlapStep == TraceTypeOK /\ OverlapInv /\ [TraceNext]_traceVars => OverlapInv'
<1> SUFFICES ASSUME TraceTypeOK, OverlapInv, [TraceNext]_traceVars
             PROVE  OverlapInv'
  OBVIOUS
<1>1. ASSUME NEW t \in Traces, Finalize(t) \/ FlushStep(t)
      PROVE  OverlapInv'
  BY <1>1, FlushTypes, NothingWritten
<1>2. ASSUME NEW e \in Executors, NEW t \in Traces, Export(e, t)
      PROVE  OverlapInv'
  BY <1>2, NothingWritten DEF Export
<1>3. CASE UNCHANGED traceVars
  BY <1>3, NothingWritten DEF traceVars
<1>4. QED
  BY <1>1, <1>2, <1>3, LookUpOverlaps, CommitOverlaps, DeathOverlaps
  DEF TraceNext, ExecutorStep

\* A trace id gets two rows only if two executions were between their SELECT and
\* their COMMIT at once, whatever is enqueued twice, run again or cut by a death.
THEOREM DuplicatesOverlap == TraceSpec => []DuplicatesNeedOverlap
<1>1. TraceInit => OverlapInv
  BY DEF TraceInit, OverlapInv, Inserting
<1>2. OverlapInv => DuplicatesNeedOverlap
  BY DEF OverlapInv, DuplicatesNeedOverlap
<1>3. QED
  BY <1>1, <1>2, TraceTyping, OverlapStep, PTL DEF TraceSpec

-----------------------------------------------------------------------------
(* The deployment implements both.                                         *)

LEMMA DeploymentSteps ==
    ASSUME [DeploymentNext]_deploymentVars
    PROVE  [CollectionNext]_collectionVars /\ [TraceNext]_traceVars
<1>1. ASSUME NEW p \in Processes, Start(p) \/ Kill(p)
      PROVE  [CollectionNext]_collectionVars /\ [TraceNext]_traceVars
  BY <1>1 DEF Start, Kill, CollectionNext, TraceNext
<1>2. ASSUME NEW t \in Traces, FinishRequest(t) \/ RunFlush(t)
      PROVE  [CollectionNext]_collectionVars /\ [TraceNext]_traceVars
  BY <1>2 DEF FinishRequest, RunFlush, TraceNext
<1>3. ASSUME NEW t \in Traces, RunTask(t) \/ RunJob(t)
      PROVE  [CollectionNext]_collectionVars /\ [TraceNext]_traceVars
  BY <1>3 DEF RunTask, RunJob, TraceNext, Executors
<1>4. CASE UNCHANGED deploymentVars
  BY <1>4 DEF deploymentVars
<1>5. QED
  BY <1>1, <1>2, <1>3, <1>4 DEF DeploymentNext

\* Whatever processes start, die and run, the collection is bootstrapped and
\* traces are delivered as the two modules say.
THEOREM DeploymentImplements == DeploymentSpec => CollectionSpec /\ TraceSpec
<1>1. DeploymentInit => CollectionInit /\ TraceInit
  BY DEF DeploymentInit
<1>2. QED
  BY <1>1, DeploymentSteps, PTL DEF DeploymentSpec, CollectionSpec, TraceSpec

\* The types of both parts in the deployment, whoever dies at what point.
THEOREM DeploymentTyping == DeploymentSpec => []DeploymentTypeOK
<1>1. CollectionTypeOK /\ TraceTypeOK => DeploymentTypeOK
  BY DEF DeploymentTypeOK
<1>2. QED
  BY <1>1, DeploymentImplements, CollectionTyping, TraceTyping, PTL

\* Their safety in the deployment: no gateway serves without the collection, and
\* no trace has two rows unless two of its inserts overlapped.
THEOREM DeploymentSafety == DeploymentSpec => [](CollectionComplete /\ DuplicatesNeedOverlap)
  BY DeploymentImplements, CollectionSound, DuplicatesOverlap, PTL
=============================================================================
