--------------------------- MODULE GatewayService ---------------------------
(***************************************************************************)
(* The two chat handlers of services/gateway_service.py over CacheService: *)
(* look the request up, coalesce identical misses behind a lock, call      *)
(* upstream, price the answer and hand its cache writes to the background. *)
(* RoutingService is what RoutingContract says of it: one outcome per      *)
(* request, by the requested model or by its equivalent elsewhere.         *)
(*                                                                         *)
(* One action is the code between two awaits that reach the network, with  *)
(* the effect of the store command in it.                                  *)
(***************************************************************************)
EXTENDS CacheService

CONSTANTS
    Workload,           \* what clients may ask for
    FallbackServes      \* whether an equivalent model may answer

Asked == [key : Key, bypass : BOOLEAN, stream : BOOLEAN]

ASSUME GatewayAssumption ==
    /\ Workload \subseteq Asked
    /\ FallbackServes \in BOOLEAN

VARIABLES
    asked,      \* asked[r] : what request r asks for; never changes
    req,        \* req[r]   : where the handler of request r stands
    slipped     \* history: keys with a winner since whose win the lock slipped

gatewayVars == <<cacheVars, asked, req, slipped>>

ReqRec ==
    [pc        : {"new", "lookup", "semantic", "locking", "waiting",
                  "upstream", "releasing", "costing", "yielding", "done", "failed"},
     status    : {"NONE", "MISS", "EXACT_HIT", "SEMANTIC_HIT", "BYPASSED"},
     won       : BOOLEAN,
     answer    : Requests \union {Nobody},
     served    : {"none", "requested", "equivalent"},  \* model that answered
     priced    : {"none", "requested", "equivalent"},  \* model charged for
     finalized : BOOLEAN]   \* _finalize ran, after the metadata was yielded

GatewayTypeOK ==
    /\ CacheTypeOK
    /\ asked \in [Requests -> Asked]
    /\ req \in [Requests -> ReqRec]
    /\ slipped \subseteq Key

Fresh ==
    [pc |-> "new", status |-> "NONE", won |-> FALSE, answer |-> Nobody,
     served |-> "none", priced |-> "none", finalized |-> FALSE]

GatewayInit ==
    /\ CacheInit
    /\ asked \in [Requests -> Workload]
    /\ req = [r \in Requests |-> Fresh]
    /\ slipped = {}

-----------------------------------------------------------------------------
KeyOf(r) == asked[r].key
At(r, pc) == req[r].pc = pc
Ended(r) == req[r].pc \in {"done", "failed"}
Update(r, rec) == req' = [req EXCEPT ![r] = rec] /\ UNCHANGED asked
Goto(r, pc) == Update(r, [req[r] EXCEPT !.pc = pc])

\* What is left to do once the result is stamped: _finalize, which for a
\* stream comes after the last item has been yielded to the client.
Finish(r, rec) ==
    Update(r, [rec EXCEPT !.pc = IF asked[r].stream THEN "yielding" ELSE "done",
                          !.finalized = ~asked[r].stream])

\* Mutant of ServeHit: the cost of the stored response is passed on.
ServeHitAtCost(r, hit, status) ==
    Finish(r, [req[r] EXCEPT !.status = status, !.answer = hit,
                             !.priced = req[hit].priced])

\* A hit is stamped with cost 0: nothing is charged.
ServeHit(r, hit, status) ==
    Finish(r, [req[r] EXCEPT !.status = status, !.answer = hit])

Begin(r) ==
    /\ At(r, "new")
    /\ IF asked[r].bypass
       THEN Update(r, [req[r] EXCEPT !.pc = "upstream", !.status = "BYPASSED"])
       ELSE Goto(r, "lookup")
    /\ UNCHANGED <<cacheVars, slipped>>

LookupExact(r) ==
    /\ At(r, "lookup")
    /\ \E hit \in ExactGet(KeyOf(r)) :
          IF hit # Nobody THEN ServeHit(r, hit, "EXACT_HIT")
                          ELSE Goto(r, "semantic")
    /\ UNCHANGED <<cacheVars, slipped>>

\* Mutant of SemanticHit: a miss is handed on like a hit.
SemanticHitUnchecked(r) ==
    /\ At(r, "semantic")
    /\ \E hit \in SemanticGet(KeyOf(r)) :
          /\ ServeHit(r, hit, "SEMANTIC_HIT")
          /\ writes' = writes \union {ExactWrite(KeyOf(r), hit)}
    /\ UNCHANGED <<exact, points, lock, silent, slipped>>

\* A semantic hit is also handed to the exact layer, under this request's key.
SemanticHit(r) ==
    /\ At(r, "semantic")
    /\ \E hit \in SemanticGet(KeyOf(r)) \ {Nobody} :
          /\ ServeHit(r, hit, "SEMANTIC_HIT")
          /\ writes' = writes \union {ExactWrite(KeyOf(r), hit)}
    /\ UNCHANGED <<exact, points, lock, silent, slipped>>

\* Streams are not coalesced.
Miss(r) ==
    /\ At(r, "semantic")
    /\ Nobody \in SemanticGet(KeyOf(r))
    /\ Update(r, [req[r] EXCEPT !.status = "MISS",
                    !.pc = IF asked[r].stream THEN "upstream" ELSE "locking"])
    /\ UNCHANGED <<cacheVars, slipped>>

HoldsLock(r) == req[r].won /\ req[r].pc \in {"upstream", "releasing"}

\* The lock of k slips: it expires under its owner, or a caller wins through an
\* error of Redis and the lock is not its own.
Slips(k) ==
    \/ UNCHANGED req /\ lock[k] # Nobody /\ HoldsLock(lock[k]) /\ lock'[k] = Nobody
    \/ \E r \in Requests :
          KeyOf(r) = k /\ ~HoldsLock(r) /\ HoldsLock(r)' /\ lock'[k] # r

\* A slip is remembered for as long as anyone holds the lock of the key.
RecordSlips ==
    slipped' = {k \in {KeyOf(r) : r \in {s \in Requests : HoldsLock(s)'}} :
                    k \in slipped \/ Slips(k)}

TryLock(r) ==
    /\ At(r, "locking")
    /\ \E won \in BOOLEAN :
          /\ AcquireLock(KeyOf(r), r, won)
          /\ Update(r, [req[r] EXCEPT !.won = won,
                          !.pc = IF won THEN "upstream" ELSE "waiting"])
    /\ RecordSlips

\* A poll of wait_for_coalesced_result finds the answer.
Join(r) ==
    /\ At(r, "waiting")
    /\ Answers("redis") /\ exact[KeyOf(r)] # Nobody
    /\ ServeHit(r, exact[KeyOf(r)], "EXACT_HIT")
    /\ UNCHANGED <<cacheVars, slipped>>

\* Mutant of GiveUpWaiting: it polls until there is an answer.
GiveUpWaitingNever(r) ==
    At(r, "waiting") /\ exact[KeyOf(r)] # Nobody
    /\ Goto(r, "upstream") /\ UNCHANGED <<cacheVars, slipped>>

\* The wait budget is spent: call upstream without the lock.
GiveUpWaiting(r) ==
    At(r, "waiting") /\ Goto(r, "upstream") /\ UNCHANGED <<cacheVars, slipped>>

\* Mutant of UpstreamAnswers: whoever called upstream deletes the lock.
UpstreamAnswersReleasing(r, model) ==
    /\ At(r, "upstream")
    /\ Update(r, [req[r] EXCEPT !.answer = r, !.served = model,
                    !.pc = IF asked[r].stream THEN "costing" ELSE "releasing"])
    /\ UNCHANGED <<cacheVars, slipped>>

UpstreamAnswers(r, model) ==
    /\ At(r, "upstream")
    /\ Update(r, [req[r] EXCEPT !.answer = r, !.served = model,
                    !.pc = IF req[r].won THEN "releasing" ELSE "costing"])
    /\ UNCHANGED <<cacheVars, slipped>>

\* Any exception, cancellation included: the finally clause still runs.
UpstreamFails(r) ==
    /\ At(r, "upstream")
    /\ Goto(r, IF req[r].won THEN "releasing" ELSE "failed")
    /\ UNCHANGED <<cacheVars, slipped>>

Release(r) ==
    /\ At(r, "releasing")
    /\ ReleaseLock(KeyOf(r))
    /\ Goto(r, IF req[r].answer = Nobody THEN "failed" ELSE "costing")
    /\ RecordSlips

\* Streams are priced at the model the client asked for.
PricedModel(r) == IF asked[r].stream THEN "requested" ELSE req[r].served

\* The price lookup awaits Redis and the database without a timeout.
CanPrice(r) == silent = {} \/ (asked[r].bypass /\ asked[r].stream)

\* Mutant of Conclude: whatever bypasses the cache returns before them.
ConcludeBypassed(r) ==
    /\ At(r, "costing") /\ CanPrice(r)
    /\ IF asked[r].bypass
       THEN Goto(r, "done")
       ELSE Finish(r, [req[r] EXCEPT !.priced = PricedModel(r)])
    /\ writes' = IF asked[r].bypass THEN writes
                 ELSE writes \union Backfill(KeyOf(r), r)
    /\ UNCHANGED <<exact, points, lock, silent, slipped>>

\* Cost, cache writes, result; a bypassed stream returns before all of them.
Conclude(r) ==
    /\ At(r, "costing") /\ CanPrice(r)
    /\ IF asked[r].bypass /\ asked[r].stream
       THEN Goto(r, "done")
       ELSE Finish(r, [req[r] EXCEPT !.priced = PricedModel(r)])
    /\ writes' = IF asked[r].bypass THEN writes
                 ELSE writes \union Backfill(KeyOf(r), r)
    /\ UNCHANGED <<exact, points, lock, silent, slipped>>

YieldLast(r) ==
    /\ At(r, "yielding")
    /\ Update(r, [req[r] EXCEPT !.pc = "done", !.finalized = TRUE])
    /\ UNCHANGED <<cacheVars, slipped>>

\* Cancelled outside the try block, or its process died: nothing is undone.
Drop(r) ==
    /\ ~Ended(r) /\ ~At(r, "new")
    /\ Goto(r, "failed")
    /\ UNCHANGED cacheVars
    /\ RecordSlips

\* Redis expires the lock, also under a live owner: LOCK_TTL_SECONDS and the
\* time that an upstream call takes are independent.
LockExpires(k) == LockTimeout(k) /\ UNCHANGED <<asked, req>> /\ RecordSlips

Background ==
    /\ \/ \E w \in writes : Store(w) \/ Lose(w)
       \/ \E k \in Key : ExpireEntry(k)
       \/ \E s \in Stores : Hang(s) \/ Resume(s)
    /\ UNCHANGED <<asked, req, slipped>>

\* The steps of a handler that its awaits bring about.
Handle(r) ==
    \/ LookupExact(r) \/ SemanticHit(r) \/ Miss(r) \/ TryLock(r)
    \/ Join(r) \/ GiveUpWaiting(r)
    \/ \E model \in {"requested"} \union IF FallbackServes THEN {"equivalent"} ELSE {} :
          UpstreamAnswers(r, model)
    \/ UpstreamFails(r) \/ Release(r) \/ Conclude(r) \/ YieldLast(r)

Quiet ==
    /\ \A r \in Requests : Ended(r)
    /\ UNCHANGED gatewayVars

GatewayNext ==
    \/ \E r \in Requests : Begin(r) \/ Handle(r) \/ Drop(r)
    \/ \E k \in Key : LockExpires(k)
    \/ Background
    \/ Quiet

GatewaySpec == GatewayInit /\ [][GatewayNext]_gatewayVars

\* A stream takes as long as its client and its upstream let it: yielding to a
\* slow client is not bounded, nor is an upstream that sends a little now and then.
Streaming(r) == asked[r].stream /\ req[r].pc \in {"upstream", "yielding"}

\* The waits for the caches have timeouts or a deadline, an upstream call that is
\* not a stream has its attempts' timeouts, and Redis expires its keys.  A store
\* that answers again answers the commands it kept, hence strong fairness; nothing
\* is asked of one that stays silent, nor of streams.
GatewayFairness ==
    /\ \A r \in Requests : SF_gatewayVars(Handle(r) /\ ~Streaming(r))
    /\ \A k \in Key : WF_gatewayVars(LockExpires(k))

FairGatewaySpec == GatewaySpec /\ GatewayFairness

-----------------------------------------------------------------------------
(* Properties.                                                             *)

\* Response s may be given to key k: it was obtained for the same tenant and
\* parameters, for the same prompt or one that is similar to it.
Suits(k, s) ==
    /\ asked[s].key.tenant = k.tenant
    /\ asked[s].key.params = k.params
    /\ \/ asked[s].key.prompt = k.prompt
       \/ <<k.prompt, asked[s].key.prompt>> \in Similar

\* The upstream call of s came back whole, and s let it be cached.
Cacheable(s) == req[s].answer = s /\ ~asked[s].bypass

\* CacheService: whatever promotions, late writes and expiries interleave,
\* a hit never crosses tenants or parameters, never drifts by more than one
\* similarity hop from what was asked, and never is the response of a request
\* that failed, even half-way through a stream, or that bypassed the cache.
HitsSuitRequest ==
    \A r \in Requests :
        req[r].status \in {"EXACT_HIT", "SEMANTIC_HIT"} =>
            Suits(KeyOf(r), req[r].answer) /\ Cacheable(req[r].answer)

\* GatewayService: an upstream answer is charged to at most one request, the
\* one that called upstream, however many are served from it.
ChargedOnce ==
    \A r, s \in Requests :
        /\ req[r].priced # "none" /\ req[s].answer # Nobody
        /\ req[s].answer = req[r].answer
        => r = req[r].answer /\ (s # r => req[s].priced = "none")

\* GatewayService: whichever way a request took to its answer, metrics and trace
\* (and a stream's metadata) follow, with a cost if and only if it was the one
\* that called upstream.  Only a stream that bypasses the cache ends without.
AccountedFor ==
    \A r \in Requests :
        At(r, "done") /\ ~(asked[r].bypass /\ asked[r].stream) =>
            /\ req[r].finalized
            /\ req[r].answer = r <=> req[r].priced # "none"

\* acquire_coalescing_lock: two callers are in flight for a key only if since the
\* first of them won the lock expired under its owner or Redis failed a SET NX.
\* Such a slip spreads, since a release deletes the lock of whoever set it next,
\* but it ends with the winners in flight: the next caller is alone again.
OneWinnerUnlessSlipped ==
    \A r, s \in Requests :
        HoldsLock(r) /\ HoldsLock(s) /\ KeyOf(r) = KeyOf(s) =>
            r = s \/ KeyOf(r) \in slipped

\* The lock never stays behind for good: not after a failed release, a
\* cancelled winner or a dead process.
LockFreed == \A k \in Key : lock[k] # Nobody ~> lock[k] = Nobody

\* Nobody waits for ever on someone else's request: a handler ends, unless it
\* streams for ever, or some store is silent from some time on.
RequestEnds ==
    \A r \in Requests :
        ~At(r, "new") ~> Ended(r) \/ Streaming(r) \/ [](silent # {})

-----------------------------------------------------------------------------
(* What the documentation says of it and the code does not do.             *)

\* _StreamSelection: "accurate token counting and cost attribution".
PricedAsServed ==
    \A r \in Requests :
        req[r].priced # "none" => req[r].priced = req[r].served
=============================================================================
