--------------------------- MODULE TraceDelivery ---------------------------
(***************************************************************************)
(* What becomes of a request's trace once the request is answered:         *)
(* GatewayService._finalize, BackgroundJobService, the jobs persist_trace  *)
(* and export_otel_spans, and TracePersistenceService.persist.             *)
(*                                                                         *)
(* A trace is persisted by a job in a worker, or by a task in the gateway  *)
(* when enqueuing raised.  enqueue_job can also come back without a job and *)
(* without raising: arq watches the job's key, and a connection lost at EXEC *)
(* is a WatchError to it, for which it returns None.  Nobody looks at that. *)
(* arq runs a job again if its worker died; a job that raises has failed for *)
(* good.  Ids can be given by clients and be used twice.                   *)
(* Only traces of tenants whose id is a UUID are modelled: the others are  *)
(* never persisted.                                                        *)
(***************************************************************************)
EXTENDS Naturals, FiniteSets

CONSTANTS
    Traces,         \* answered requests
    Ids,            \* values of trace_id
    IdAssignments,  \* which trace may have which id
    UseArq,         \* use_arq_workers
    QueueMayFail,   \* whether connections to arq's Redis may fail
    DatabaseMayFail

ASSUME TraceAssumption ==
    /\ IsFiniteSet(Traces)
    /\ IdAssignments \subseteq [Traces -> Ids]
    /\ {UseArq, QueueMayFail, DatabaseMayFail} \subseteq BOOLEAN

VARIABLES
    idOf,       \* idOf[t]       : the trace_id of t; never changes
    flush,      \* flush[t]      : where run_trace_flush stands
    persist,    \* persist[e][t] : the execution of persist by the task or the job
    export,     \* export[e][t]  : likewise of the export
    rows,       \* rows[i]       : how many rows of `requests` have trace_id i
    kept,       \* history: the traces of which there is a row
    excused,    \* history: those of which a death, an error, a lost connection
                \* or a used id may have cost the row
    unexported, \* history: likewise, whose export may have been lost
    overlapped  \* history: ids that two executions were about to insert

traceVars == <<idOf, flush, persist, export, rows, kept, excused, unexported, overlapped>>

Executors == {"task", "job"}
Execution == {"none", "ready", "inserting", "done", "skipped", "failed", "lost"}

TraceTypeOK ==
    /\ idOf \in [Traces -> Ids]
    /\ flush \in [Traces -> {"none", "persisting", "exporting", "over"}]
    /\ persist \in [Executors -> [Traces -> Execution]]
    /\ export \in [Executors -> [Traces -> {"none", "ready", "over"}]]
    /\ rows \in [Ids -> Nat]
    /\ {kept, excused, unexported} \subseteq SUBSET Traces
    /\ overlapped \subseteq Ids

TraceInit ==
    /\ idOf \in IdAssignments
    /\ flush = [t \in Traces |-> "none"]
    /\ persist = [e \in Executors |-> [t \in Traces |-> "none"]]
    /\ export = [e \in Executors |-> [t \in Traces |-> "none"]]
    /\ rows = [i \in Ids |-> 0]
    /\ kept = {}
    /\ excused = {}
    /\ unexported = {}
    /\ overlapped = {}

FlushGoes(t, from, to) == flush[t] = from /\ flush' = [flush EXCEPT ![t] = to]
Ready(var, e, t) == [var EXCEPT ![e][t] = "ready"]

-----------------------------------------------------------------------------
\* _finalize: the task that runs run_trace_flush is created.
Finalize(t) ==
    /\ FlushGoes(t, "none", "persisting")
    /\ UNCHANGED <<idOf, persist, export, rows, kept, excused, unexported, overlapped>>

\* Mutant of EnqueuePersist: no task takes over if enqueuing raised.
EnqueueOnly(t) ==
    /\ FlushGoes(t, "persisting", "exporting")
    /\ \/ UseArq /\ persist' = Ready(persist, "job", t)
       \/ (UseArq => QueueMayFail) /\ UNCHANGED persist
    /\ UNCHANGED <<idOf, export, rows, kept, excused, unexported, overlapped>>

\* run_trace_flush up to its first return: the job is enqueued, or only seems to
\* be; or it is not, and two tasks start at once.
EnqueuePersist(t) ==
    /\ \/ /\ UseArq
          /\ FlushGoes(t, "persisting", "exporting")
          /\ \/ persist' = Ready(persist, "job", t) /\ UNCHANGED excused
             \/ QueueMayFail /\ UNCHANGED persist /\ excused' = excused \union {t}
          /\ UNCHANGED export
       \/ /\ UseArq => QueueMayFail
          /\ FlushGoes(t, "persisting", "over")
          /\ persist' = Ready(persist, "task", t)
          /\ export' = Ready(export, "task", t)
          /\ UNCHANGED excused
    /\ UNCHANGED <<idOf, rows, kept, unexported, overlapped>>

\* The result of the second enqueuing is not looked at.
EnqueueExport(t) ==
    /\ FlushGoes(t, "exporting", "over")
    /\ \/ export' = Ready(export, "job", t) /\ UNCHANGED unexported
       \/ QueueMayFail /\ UNCHANGED export /\ unexported' = unexported \union {t}
    /\ UNCHANGED <<idOf, persist, rows, kept, excused, overlapped>>

-----------------------------------------------------------------------------
PersistGoes(e, t, from, to) ==
    persist[e][t] = from /\ persist' = [persist EXCEPT ![e][t] = to]

\* Another execution for the same id is between its SELECT and its COMMIT.
Overlaps(e, t) ==
    \E f \in Executors, u \in Traces :
        <<f, u>> # <<e, t>> /\ idOf[u] = idOf[t] /\ persist[f][u] = "inserting"

\* Mutant of LookUp: the trace is not looked up first.
LookUpNothing(e, t) ==
    /\ PersistGoes(e, t, "ready", "inserting")
    /\ overlapped' = IF Overlaps(e, t) THEN overlapped \union {idOf[t]} ELSE overlapped
    /\ UNCHANGED <<idOf, flush, export, rows, kept, excused, unexported>>

\* get_by_trace_id: none, one (skip), or more than one row, which raises.
LookUp(e, t) ==
    LET i == idOf[t] IN
    /\ \/ /\ rows[i] = 0
          /\ PersistGoes(e, t, "ready", "inserting")
          /\ overlapped' = IF Overlaps(e, t) THEN overlapped \union {i} ELSE overlapped
          /\ UNCHANGED excused
       \/ /\ rows[i] > 0
          /\ PersistGoes(e, t, "ready", IF rows[i] = 1 THEN "skipped" ELSE "failed")
          /\ excused' = excused \union {t}
          /\ UNCHANGED overlapped
       \/ /\ DatabaseMayFail
          /\ PersistGoes(e, t, "ready", "failed")
          /\ excused' = excused \union {t}
          /\ UNCHANGED overlapped
    /\ UNCHANGED <<idOf, flush, export, rows, kept, unexported>>

\* The request, its spans and its token usage are one transaction.
Commit(e, t) ==
    /\ \/ /\ PersistGoes(e, t, "inserting", "done")
          /\ rows' = [rows EXCEPT ![idOf[t]] = @ + 1]
          /\ kept' = kept \union {t}
          /\ UNCHANGED excused
       \/ /\ DatabaseMayFail
          /\ PersistGoes(e, t, "inserting", "failed")
          /\ excused' = excused \union {t}
          /\ UNCHANGED <<rows, kept>>
    /\ UNCHANGED <<idOf, flush, export, unexported, overlapped>>

\* Each exporter's error is logged and forgotten.
Export(e, t) ==
    /\ export[e][t] = "ready"
    /\ export' = [export EXCEPT ![e][t] = "over"]
    /\ UNCHANGED <<idOf, flush, persist, rows, kept, excused, unexported, overlapped>>

-----------------------------------------------------------------------------
\* Transactions in progress are rolled back when their process dies, save those
\* whose COMMIT was already on the way.
Orphans(e) == {t \in Traces : persist[e][t] = "inserting"}
SomeCommitted(e) ==
    \E committed \in SUBSET Orphans(e) :
        /\ rows' = [i \in Ids |-> rows[i] + Cardinality({t \in committed : idOf[t] = i})]
        /\ kept' = kept \union committed

\* The gateway dies, and with it its flushes and tasks.  What was enqueued by
\* then is not lost.
GatewayDies ==
    LET cut == {t \in Traces : flush[t] = "persisting"
                               \/ persist["task"][t] \in {"ready", "inserting"}}
    IN  /\ flush' = [t \in Traces |-> IF flush[t] = "none" THEN "none" ELSE "over"]
        /\ persist' = [persist EXCEPT !["task"] = [t \in Traces |->
              IF @[t] \in {"ready", "inserting"} THEN "lost" ELSE @[t]]]
        /\ export' = [export EXCEPT !["task"] = [t \in Traces |->
              IF @[t] = "ready" THEN "over" ELSE @[t]]]
        /\ SomeCommitted("task")
        /\ excused' = excused \union {t \in cut : persist["job"][t] = "none"}
        /\ unexported' = unexported \union
              {t \in Traces : flush[t] \in {"persisting", "exporting"}
                              \/ export["task"][t] = "ready"}
        /\ UNCHANGED <<idOf, overlapped>>

\* The worker dies: arq will run its unfinished jobs again.
WorkerDies ==
    /\ persist' = [persist EXCEPT !["job"] = [t \in Traces |->
          IF @[t] = "inserting" THEN "ready" ELSE @[t]]]
    /\ SomeCommitted("job")
    /\ UNCHANGED <<idOf, flush, export, excused, unexported, overlapped>>

-----------------------------------------------------------------------------
FlushStep(t) == EnqueuePersist(t) \/ EnqueueExport(t)
ExecutorStep(e, t) == LookUp(e, t) \/ Commit(e, t) \/ Export(e, t)

TraceNext ==
    \/ \E t \in Traces : Finalize(t) \/ FlushStep(t)
    \/ \E e \in Executors, t \in Traces : ExecutorStep(e, t)
    \/ GatewayDies
    \/ WorkerDies

TraceSpec == TraceInit /\ [][TraceNext]_traceVars

-----------------------------------------------------------------------------
(* Properties *)

\* There is no unique index on trace_id: two executions for one id, be they jobs or
\* tasks, write two rows, but only if both looked before either committed
\* (trace_persistence_service.py:37-44).
DuplicatesNeedOverlap == \A i \in Ids : rows[i] >= 2 => i \in overlapped

\* Nothing is lost without a fault: a trace gets its row unless its process died
\* before any job was enqueued, the connection was lost while it was, the database
\* failed, or the id was in use; and it is exported unless the gateway died or the
\* second job could not be enqueued (background_job_service.py:45-49).
TraceSettles ==
    \A t \in Traces :
        flush[t] # "none" ~>
            /\ t \in kept \union excused
            /\ t \in unexported \/ \E e \in Executors : export[e][t] = "over"

-----------------------------------------------------------------------------
(* What the documentation says of it and the code does not do.             *)

\* TracePersistenceService: "idempotent Postgres write keyed by `trace_id`".
NoDuplicateRows == \A i \in Ids : rows[i] <= 1

\* Traces in jobs: "Survives process crash after response sent (at-least-once retry)".
TracesSurvive == \A t \in Traces : flush[t] # "none" ~> t \in kept
=============================================================================
