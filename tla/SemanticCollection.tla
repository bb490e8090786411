------------------------- MODULE SemanticCollection -------------------------
(***************************************************************************)
(* The start-up of gateway processes (lifespan in main.py) and workers     *)
(* (startup in worker_app.py), and the bootstrap of the Qdrant collection  *)
(* they share (QdrantSemanticCache.ensure_collection).                     *)
(*                                                                         *)
(* A process whose start-up raises exits and is started again.  Since no   *)
(* process serves before ensure_collection has returned, the calls of it   *)
(* from get() and set() find _bootstrapped set and do nothing.             *)
(***************************************************************************)
EXTENDS Naturals

CONSTANTS
    Gateways, Workers,
    Fields,         \* the number of FILTERED_PAYLOAD_FIELDS
    MaxDeaths       \* bound: how often processes die or fail to start

ASSUME CollectionAssumption ==
    /\ Fields \in Nat \ {0}
    /\ MaxDeaths \in Nat
    /\ Gateways \intersect Workers = {}

Processes == Gateways \union Workers

VARIABLES
    exists,         \* the collection is there
    indexed,        \* how many of its fields have a payload index, in order
    process,        \* process[p] : how far the start-up of p has come
    deaths,         \* how many processes have died or failed to start
    interrupted     \* history: one of them while it set up the collection

collectionVars == <<exists, indexed, process, deaths, interrupted>>

CollectionTypeOK ==
    /\ exists \in BOOLEAN
    /\ indexed \in 0..Fields
    /\ process \in [Processes -> {"down", "asking", "creating", "indexing", "connecting",
                                  "serving"}]
    /\ deaths \in 0..MaxDeaths
    /\ interrupted \in BOOLEAN

CollectionInit ==
    /\ exists \in BOOLEAN
    /\ indexed = IF exists THEN Fields ELSE 0
    /\ process = [p \in Processes |-> "down"]
    /\ deaths = 0
    /\ interrupted = FALSE

Goes(p, from, to) ==
    process[p] = from /\ process' = [process EXCEPT ![p] = to]
Serving(p) == process[p] = "serving"

-----------------------------------------------------------------------------
\* Settings, clients and providers are built and the embedding model is loaded
\* (warm_up); nothing is asked of any store.
Boot(p) ==
    /\ Goes(p, "down", "asking")
    /\ UNCHANGED <<exists, indexed, deaths, interrupted>>

\* Mutant of AskExists: the collection is always taken to be missing.
AskNothing(p) ==
    /\ Goes(p, "asking", "creating")
    /\ UNCHANGED <<exists, indexed, deaths, interrupted>>

AskExists(p) ==
    /\ Goes(p, "asking", IF exists THEN "connecting" ELSE "creating")
    /\ UNCHANGED <<exists, indexed, deaths, interrupted>>

\* Mutant of CreateCollection: the loser of a race goes on to the indexes.
CreateRegardless(p) ==
    /\ Goes(p, "creating", "indexing")
    /\ exists' = TRUE
    /\ UNCHANGED <<indexed, deaths, interrupted>>

\* Of two processes that found none, the second fails on the conflict.
CreateCollection(p) ==
    /\ IF exists
       THEN Goes(p, "creating", "down") /\ UNCHANGED exists
       ELSE Goes(p, "creating", "indexing") /\ exists' = TRUE
    /\ UNCHANGED <<indexed, deaths, interrupted>>

\* Mutant of CreateIndex: the loop leaves out the last field.
CreateIndexButLast(p) ==
    /\ Goes(p, "indexing", IF indexed + 2 >= Fields THEN "connecting" ELSE "indexing")
    /\ indexed' = indexed + 1
    /\ UNCHANGED <<exists, deaths, interrupted>>

CreateIndex(p) ==
    /\ Goes(p, "indexing", IF indexed + 1 = Fields THEN "connecting" ELSE "indexing")
    /\ indexed' = indexed + 1
    /\ UNCHANGED <<exists, deaths, interrupted>>

\* A gateway connects to the job queue, a worker builds its exporters.
Connect(p) ==
    /\ Goes(p, "connecting", "serving")
    /\ UNCHANGED <<exists, indexed, deaths, interrupted>>

\* A process is killed, stopped, or some step of its start-up raises; what it
\* was asking of Qdrant may have been done.
Die(p) ==
    /\ deaths < MaxDeaths
    /\ process[p] # "down"
    /\ Goes(p, process[p], "down")
    /\ deaths' = deaths + 1
    /\ \/ UNCHANGED <<exists, indexed>>
       \/ process[p] = "creating" /\ ~exists /\ exists' = TRUE /\ UNCHANGED indexed
       \/ process[p] = "indexing" /\ indexed' = indexed + 1 /\ UNCHANGED exists
    /\ interrupted' = (interrupted \/ process[p] \in {"creating", "indexing"})

-----------------------------------------------------------------------------
StartStep(p) ==
    Boot(p) \/ AskExists(p) \/ CreateCollection(p) \/ CreateIndex(p) \/ Connect(p)

CollectionNext == \E p \in Processes : StartStep(p) \/ Die(p)

CollectionSpec == CollectionInit /\ [][CollectionNext]_collectionVars

-----------------------------------------------------------------------------
(* Properties *)

\* No process serves without the collection, and one that lacks an index its
\* searches filter by is being set up, or was left like that by a process that
\* died meanwhile: no later start repairs it (qdrant_semantic_cache.py:75-90).
CollectionComplete ==
    /\ (\E p \in Processes : Serving(p)) => exists
    /\ exists /\ indexed < Fields =>
           interrupted \/ \E p \in Processes : process[p] = "indexing"

\* However the bootstraps race, and although the loser of a race dies of it, in
\* the end all processes serve (main.py:66-77, :110-111, worker_app.py:30-42).
ProcessesServe == \A p \in Processes : <>[]Serving(p)
=============================================================================
