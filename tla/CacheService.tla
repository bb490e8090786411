---------------------------- MODULE CacheService ----------------------------
(***************************************************************************)
(* The two cache layers and the coalescing lock: services/cache_service.py *)
(* over caching/redis_exact_cache.py, caching/qdrant_semantic_cache.py and *)
(* the cache keys of caching/hashing.py.                                   *)
(*                                                                         *)
(* A response is named by the request that obtained it from upstream, so   *)
(* what is stored says where it came from.  A store operation is atomic,   *)
(* as one command of Redis or Qdrant is.                                   *)
(***************************************************************************)
EXTENDS Naturals, FiniteSets

CONSTANTS
    Requests,
    Tenants, Prompts,   \* prompts after normalize_prompt
    Params,             \* params_fingerprint: model, adapter, sampling
    Similar,            \* pairs of prompts at or above the threshold
    Nobody,
    RedisMayFail,       \* whether commands on Redis may fail or time out
    StoresMayHang       \* stores that may keep commands without an answer

\* The stores that a handler awaits somewhere without a timeout of its own.
Stores == {"redis", "postgres"}

ASSUME CacheAssumption ==
    /\ Similar \subseteq Prompts \X Prompts
    /\ Nobody \notin Requests
    /\ RedisMayFail \in BOOLEAN
    /\ StoresMayHang \subseteq Stores

VARIABLES
    exact,      \* exact[k]   : the response stored under k in Redis
    points,     \* the points of the Qdrant collection
    lock,       \* lock[k]    : who set the lock (the code stores "1")
    writes,     \* the cache writes handed to tasks and background jobs
    silent      \* the stores that neither answer nor fail at present

cacheVars == <<exact, points, lock, writes, silent>>

\* exact_cache_key with the tenant appended; the lock key adds a prefix.
Key == [tenant : Tenants, prompt : Prompts, params : Params]
Point == [key : Key, response : Requests]
Write == [layer : {"exact", "semantic"}, key : Key, response : Requests]

CacheTypeOK ==
    /\ exact \in [Key -> Requests \union {Nobody}]
    /\ points \subseteq Point
    /\ lock \in [Key -> Requests \union {Nobody}]
    /\ writes \subseteq Write
    /\ silent \subseteq Stores

CacheInit ==
    /\ exact = [k \in Key |-> Nobody]
    /\ points = {}
    /\ lock = [k \in Key |-> Nobody]
    /\ writes = {}
    /\ silent = {}

-----------------------------------------------------------------------------
(* Reads: the responses a get may return.                                  *)

Answers(s) == s \notin silent

\* Any error of Redis reads as a miss, and so does its silence, since the GET
\* has a timeout.
ExactGet(k) ==
    IF Answers("redis") THEN {exact[k]} \union IF RedisMayFail THEN {Nobody} ELSE {}
                        ELSE {Nobody}

\* Mutant of Matches: the filter lacks the tenant condition.
MatchesAnyTenant(k, p) ==
    /\ p.key.params = k.params
    /\ p.key.prompt = k.prompt \/ <<k.prompt, p.key.prompt>> \in Similar

\* The payload filter and the score threshold of query_points.
Matches(k, p) ==
    /\ p.key.tenant = k.tenant
    /\ p.key.params = k.params
    /\ p.key.prompt = k.prompt \/ <<k.prompt, p.key.prompt>> \in Similar

\* limit = 1: the best score, which is 1 for the same prompt.
BestPoints(k) ==
    LET same == {p \in points : p.key = k}
    IN  IF same # {} THEN same ELSE {p \in points : Matches(k, p)}

\* Embedding or searching may always fail or run out of its budget.
SemanticGet(k) == {p.response : p \in BestPoints(k)} \union {Nobody}

-----------------------------------------------------------------------------
(* Writes.                                                                 *)

ExactWrite(k, r) == [layer |-> "exact", key |-> k, response |-> r]
SemanticWrite(k, r) == [layer |-> "semantic", key |-> k, response |-> r]

\* backfill(): both layers, neither waiting for the other.
Backfill(k, r) == {ExactWrite(k, r), SemanticWrite(k, r)}

\* A write lands.  A job or a timed-out command may land it again later.
Store(w) ==
    /\ w \in writes
    /\ writes' \in {writes, writes \ {w}}
    /\ IF w.layer = "exact"
       THEN Answers("redis") /\ exact' = [exact EXCEPT ![w.key] = w.response]
            /\ UNCHANGED points
       ELSE points' = points \union {[key |-> w.key, response |-> w.response]}
            /\ UNCHANGED exact
    /\ UNCHANGED <<lock, silent>>

\* A write is lost: a failed command, a killed task or a dropped job.
Lose(w) ==
    /\ w \in writes
    /\ writes' = writes \ {w}
    /\ UNCHANGED <<exact, points, lock, silent>>

\* The TTL of an exact entry.  Points have none: their collector is a stub.
ExpireEntry(k) ==
    /\ exact[k] # Nobody
    /\ exact' = [exact EXCEPT ![k] = Nobody]
    /\ UNCHANGED <<points, lock, writes, silent>>

-----------------------------------------------------------------------------
(* The coalescing lock.                                                    *)

\* Mutant of AcquireLock: SET without NX.
AcquireLockAnyway(k, r, won) ==
    /\ Answers("redis")
    /\ won /\ lock' = [lock EXCEPT ![k] = r]
    /\ UNCHANGED <<exact, points, writes, silent>>

\* SET NX, without a timeout.  A Redis error is a win, and the command may have
\* run or not.
AcquireLock(k, r, won) ==
    /\ Answers("redis")
    /\ \/ lock[k] = Nobody /\ won /\ lock' = [lock EXCEPT ![k] = r]
       \/ lock[k] # Nobody /\ ~won /\ UNCHANGED lock
       \/ RedisMayFail /\ won /\ UNCHANGED lock
    /\ UNCHANGED <<exact, points, writes, silent>>

\* DELETE, whoever set the lock, without a timeout; errors are swallowed.
ReleaseLock(k) ==
    /\ Answers("redis")
    /\ \/ lock' = [lock EXCEPT ![k] = Nobody]
       \/ RedisMayFail /\ UNCHANGED lock
    /\ UNCHANGED <<exact, points, writes, silent>>

\* Mutant of LockTimeout: the lock is set without a TTL.
LockTimeoutNever(k) == k \notin Key /\ UNCHANGED cacheVars

LockTimeout(k) ==
    /\ lock[k] # Nobody
    /\ lock' = [lock EXCEPT ![k] = Nobody]
    /\ UNCHANGED <<exact, points, writes, silent>>

-----------------------------------------------------------------------------
\* A store stops answering without closing its connections (a stopped process,
\* a long script or lock), and may answer again.
Hang(s) == s \in StoresMayHang \ silent /\ silent' = silent \union {s}
           /\ UNCHANGED <<exact, points, lock, writes>>
Resume(s) == s \in silent /\ silent' = silent \ {s}
             /\ UNCHANGED <<exact, points, lock, writes>>
=============================================================================
