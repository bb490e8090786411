# A TLA+ model of llmops-gateway

llmops-gateway is an asyncio HTTP service in front of LLM providers.  A chat
request is authenticated, rate-limited, remapped to an adapter, looked up in two
cache layers, coalesced with identical requests in flight, routed to a provider
with retries, circuit breakers and fallback, priced, cached, and traced.  One
process runs many requests on one event loop; several processes share Redis,
Qdrant and Postgres.

This directory holds TLA+ modules of the parts whose correctness depends on how
those requests interleave, TLC configurations that check them, and TLAPS proofs.
Paths below are relative to the repository; `llmops_gateway/` is
`src/src/llmops_gateway/`.

## Inventory

| part | state it keeps | operations | what is hard | what makes it correct |
|---|---|---|---|---|
| `CircuitBreaker` (`providers/base.py`) | failure count, CLOSED/OPEN, instant of opening, per provider and process | `allow_request`, `record_success`, `record_failure` | results of old calls arrive in any state; cooldown restarts | open exactly after a run of failures; always half-opens again |
| `BaseLLMProvider` (`providers/base.py`) | the attempt loop of each call | `complete`, `stream` | failure after partial output, retry while the circuit opens, cancellation | output of one attempt only; bounded attempts; calls end |
| adapters (`providers/*_provider.py`) | HTTP connection pools | `_complete_impl`, `_stream_impl`, `_raise_for_status` | which errors are raised, and after what | errors classified as retryable or not |
| `RoutingService`, `ProviderRegistry` | none (settings) | `complete`, `stream`, `_resolve_attempts`, `resolve_equivalent_model` | fallback after partial output, odd fallback chains, requests meeting in the breakers | ordered fallback, one source per answer, an outcome for each request |
| `CacheService`, exact and semantic cache | Redis entries with TTL, Qdrant points, lock keys | `lookup`, `backfill`, `acquire`/`release_coalescing_lock`, `wait_for_coalesced_result` | late, repeated and lost writes, promotion between layers, lock expiry, a Redis that fails or falls silent | no foreign or broken answer served; locks freed; nobody waits for ever on another request |
| `GatewayService` | the handler of each request | both chat handlers, `_finalize`, `_schedule_backfill`, `_apply_adapter_route` | cancellation at each await, background tasks after the answer | one charge per upstream answer; metadata, price and trace of what was served |
| `RateLimitService` | token bucket hash per tenant in Redis | `check_and_increment` | WATCH/MULTI/EXEC conflicts, denials outside the transaction, lost answers, stale instants, key expiry | the tenant stays within its budget; refusals have a reason |
| `AuthService` and the key endpoints | Redis entries of principals, key rows | `authenticate`, `create_api_key`, `revoke_api_key` | revocation racing logins in flight, the row locked while Redis is asked, a COMMIT whose answer is lost, failing Redis and Postgres | what is cached after a revocation is a late login's only; a revoked key stops working |
| `AdapterRouteRepository` and its endpoints | route rows, one per stage | `resolve_with_canary`, `upsert`, `disable` | two reads that are no snapshot, upserts that overwrite what they have not seen, the unique constraint | answers right at one moment; stored routes that someone asked for |
| `CostService`, pricing endpoint | price rows, Redis entries of prices, also negative ones | `calculate_cost_usd`, `create_pricing` | a database failure cached as "no price", changes unknown to the cache | nothing is free without a reason; a change arrives |
| middleware, scopes, error mapping (`middleware/`, `api/`) | `request.state` | the chain request context, authentication, rate limit, endpoint | early exits at each stage | every request and admin call is answered |
| `BackgroundJobService`, workers, `TracePersistenceService` | arq queue, in-process tasks, trace rows | `run_trace_flush`, `run_backfill`, `persist` | a connection lost while a job is enqueued, jobs that raise, repeated jobs, check-then-insert, deaths of either process, reused ids | nothing lost without a fault; two rows only by an overlap |
| start-up (`main.py`, `worker_app.py`, `ensure_collection`) | the Qdrant collection and its indexes | `lifespan`, `startup`, `ensure_collection` | processes that start at once, death between creation and indexes | no process serves without the collection; all come to serve |
| embeddings, health, observability, settings, migrations | little or none | | lazy model load under a lock | numeric code, output, declarations |

Interactions: the middleware calls `AuthService` and `RateLimitService`, then the
handler of `GatewayService`, which calls `CacheService`, `RoutingService` (and it
the providers) and `CostService` in turn, and starts tasks that call
`BackgroundJobService` after the answer has left.  Redis is shared by the exact
cache, the coalescing locks, the buckets and the job queue.

## Modules

| module | models | extends / uses |
|---|---|---|
| `CircuitBreaker` | the breaker's methods as operators on its value | |
| `ResilientProvider` | `complete()` and `stream()` of `BaseLLMProvider` | `CircuitBreaker` |
| `ResilientProviderProofs` | theorems about `ResilientProvider` | |
| `RoutingContract` | what routing promises the gateway (abstract) | |
| `RoutingService` | `RoutingService` and the registry lookups, over the providers | `ResilientProvider`; implements `RoutingContract` |
| `RoutingServiceProofs` | theorems about `RoutingService`; that it implements both | `ResilientProviderProofs` |
| `CacheService` | both cache layers and the lock | |
| `GatewayService` | both chat handlers | `CacheService` |
| `GatewayServiceProofs` | theorems about `GatewayService` | |
| `RateLimiter` | `check_and_increment` of one tenant | |
| `RateLimiterProofs` | theorems about `RateLimiter` | |
| `ApiBase` | the constants that the next four share | |
| `AuthService` | one API key: row, cached principal, logins, revocations | `ApiBase` |
| `AdapterRoutes` | the routes of one alias: lookups and changes | `ApiBase` |
| `CostService` | the price list of one model and its cached price | `ApiBase` |
| `HttpApi` | the middleware chain, the chat endpoint, the admin endpoints | composes the three |
| `AuthServiceProofs`, `AdapterRoutesProofs`, `HttpApiProofs` | theorems about them; that `HttpApi` implements each | |
| `SemanticCollection` | start-up and the bootstrap of the Qdrant collection | |
| `TraceDelivery` | flush, jobs and tasks, persistence of traces | |
| `Deployment` | a gateway and a worker over their life | composes the two |
| `DeploymentProofs` | theorems about the three | |
| `MC*` | small instances for TLC | |

### CircuitBreaker and ResilientProvider

`breaker[p]` is the object `provider._circuit`; `call[p][c]` is the frame of one
`complete()` or `stream()` call: its `attempt` counter, whether (and how much) the
current attempt has yielded, and where it is suspended.

* An action is the code between two points where the coroutine can be suspended:
  the upstream exchange, the backoff sleep, the yield of a chunk.  The breaker's
  methods run under an `asyncio.Lock` but await nothing inside it, so the lock is
  never contended and a method does not suspend; `Fail` is therefore
  `record_failure` together with the decision that follows it.
* `_opened_at` is only compared with the clock, so the model keeps the time
  elapsed since, saturating at the cooldown; `Tick` advances it everywhere.
* `UpstreamFailure` is the set of ways an adapter ends an exchange with a
  `ProviderError`; `Retryable` is `exc.retryable`.  A malformed body is raised
  with status 200 and is thus not retryable.  Every other exception, and
  cancellation, is `Abort`: no `except` clause of the loop runs.
* `complete` is a call that yields no chunks; the rest of the loop is the same.
* `outcomes`, `probe` and `emitted` are history variables: no guard reads them.

`BreakerAssumption` asks for a threshold of at least 1; with 0 the circuit would
open on success as little as with 1, but `OpenIffFailureRun` would not be its
meaning.

### RoutingContract and RoutingService

The contract: a request is accepted (or rejected for an unknown override), may
commit to one source, and is settled: answered or broken by that source,
exhausted only while nothing was delivered, or aborted.

`RoutingService` resolves the attempts as `_resolve_attempts` does (primary
first, chain appended without repetition, unregistered providers and providers
without an equivalent model skipped, an override taken as it is) and walks them.
The two `for` loops are the recursive functions `NamesAfter` and `AttemptsAfter`, whose
value at i is the list after i rounds.
The index into the list is `Len(errors) + 1`, as the code appends to `errors`
once per failed attempt.  Calls are those of `ResilientProvider`, one per
request and provider.  Between a provider's raise and the next call the code
does not suspend; the model lets other requests run there, which only adds
behaviours.

Refinement mapping: the verdict is the control state; the source is the
provider that has emitted output or returned.

### CacheService and GatewayService

A response is represented by the request that obtained it from upstream, so that
"who may be given this" can be asked of every stored copy.  `exact[k]` is the
entry in Redis, `points` the Qdrant collection, `lock[k]` the lock key with (as
history) who set it, and `writes` the cache writes that some task or job still
has to perform: they land in any order, may land twice (a repeated job, a timed
out command that was executed after all), or never.

A key is tenant, normalised prompt and `params_fingerprint`.  The semantic
search returns a best match among the points that pass the filter and the
threshold: the same prompt if it is there, else any similar one; `Similar` is a
relation on prompts that need not be transitive.  Either search may miss by
failing.

`GatewayService` runs the handlers: `Begin` and `LookupExact`, `SemanticHit`,
`Miss` are `lookup`; `TryLock`, `Join`, `GiveUpWaiting` the coalescing;
`UpstreamAnswers`, `UpstreamFails`, `Release` the `try … finally`; `Conclude` the
cost, the hand-over of the backfill and the result; `YieldLast` what follows the
last item of a stream.  `Drop` is a cancellation outside the `try` block or the
death of the process.  Routing is what `RoutingContract` says: one outcome, by
the requested or by an equivalent model.

Redis fails in two ways.  A command may raise (`RedisMayFail`): a read is then a
miss, SET NX a win, a failed DELETE is swallowed.  Or Redis, or Postgres, is
`silent`: it keeps its connections open and answers nothing (`Hang`, `Resume`), which
the client does not notice, since it has no socket timeout.  The commands of the
exact cache run under `asyncio.wait_for` and become misses; SET NX and DELETE of
the lock and the two lookups of the price do not, so that `TryLock`, `Release` and
`Conclude` wait until the store answers again.

The lock may expire at any time, also under its owner (`LockExpires`): its TTL and
the duration of an upstream call are independent settings.  `slipped` is history: the
keys of whose winners in flight one has lost the lock to its TTL, or has won
through an error without owning it.

### RateLimiter

One action is one round trip: `WATCH`, `HMGET`, `EXEC` or `UNWATCH`/`HSET` and then
`PEXPIRE`.  `now_ms` is captured in `Begin`.  Tokens are counted in units of
1/Window so that refills stay integers.  `dirty` is Redis's own flag: the watched
key was changed by another client (a write, a new expiry time, or its expiry).
A connection lost at `EXEC` reaches the code as a `WatchError`, whether the
transaction took effect or not (`Disconnect`); other errors end the check as
`fail_open` says.  The local variables of a check vanish when it returns.

All gateway processes share one clock in the model.  `HSET` and the insertion of
fields are atomic, as Redis commands are.

### AuthService

One key.  `keyRow` is the committed row, `cached` whether its principal is in Redis,
`login[r]` and `revocation[a]` where the coroutines stand.  An action is a round
trip: `GetCached`, `LoadFromDatabase`, `SetCached` of `authenticate`; `FindKey` in the
endpoint's own session, then `ReadKey`, `MarkRevoked`, `InvalidateCache` and
`CommitRevocation` in the service's.  The session is open across the DELETE: the row is
locked (`RowLocked`) from the flush to the commit while readers go on seeing the
active row.  Every exchange may raise, and an exchange that raised may have taken
effect.  `late` and `lateEntry` are history: logins that read the row before a
commit and may write after the DELETE before it.

### AdapterRoutes

The rows of one tenant and alias, one per stage.  A lookup is one or two SELECTs,
each seeing what is committed when it runs; `Resolve` is the end of
`resolve_with_canary`, `Promised` its docstring, as a reference.  A change is a
SELECT and a write that is visible with its commit.  `Merged` is what SQLAlchemy's
UPDATE does: only columns that differ from the loaded ones are set, so that over a
row changed meanwhile the result mixes two requests.  The hash of the routing key
appears as its bucket.  History: `moments` (the answers that would have been right
at each instant of a lookup), `tear`, `intended`, `clashed`.

### CostService

The rows of one model, the clock as far as `effective_from` can tell, and the cache
entry: a price, the sentinel, or none.  `LoadPrice` treats an error of the database
as the code does, as an empty result; `StorePrice` caches either.  `CreatePricing`
adds a row and does not touch the cache.  Nothing in the code writes
`effective_to`, so rows have no end.

### HttpApi

A client's request goes through authentication, the rate limit, the adapter lookup,
the call and the price list; each stage may answer it.  Verdicts of parts that have
modules of their own (the limiter, cache and routing) are any of those modules'
outcomes.  `RequiredScopes` and `HasAnyScope` are `scopes.py` over the kinds of
endpoints; `Exempt` paths are answered in the step in which they arrive.  An admin
call performs one duty of the scenario; creations are single transactions with one
statement, the others run through their own steps.  A scenario fixes what is
stored at first, what the clients ask and what the admins do.

### SemanticCollection, TraceDelivery and Deployment

`process[p]` is the start-up of a gateway or worker: `Boot` (settings, clients,
embedding model), `AskExists`, `CreateCollection`, `CreateIndex` per field, `Connect`,
then serving.  A process whose start-up raises is down and is started again, as a
container is.  Since none serves before `ensure_collection` has returned, the calls
of it from `get` and `set` find `_bootstrapped` set.

A trace's `flush` is `run_trace_flush`: `EnqueuePersist`, then `EnqueueExport`.
Enqueuing has three outcomes, since `_try_enqueue` looks at exceptions only: there is
a job; or the connection failed before `EXEC` and raised, there is no job and two
tasks start; or it was lost at `EXEC`, which redis-py turns into a `WatchError` (the
job's key is watched) and arq into `None`, and the code goes on, job or no job.
Never are there both a job and a task.  This is knowledge of arq and redis-py, whose
sources are not in the repository; so is what arq does with jobs:
`persist[e][t]` is an execution by the in-process task or by the job: `LookUp` is the
SELECT, `Commit` the INSERTs and the COMMIT.  A job that raises has failed for good
(arq repeats jobs of dead workers and those that raise `Retry`, no others); a dead worker's job is ready again, whether or not it had committed.  Ids come from
clients and may be equal.  Traces of tenants whose id is not a UUID are never
persisted and left out.

`Deployment` lets only what serves run: a gateway its flushes and tasks, a worker
its jobs; a death at any point takes what is in the process along.

## Runs

| run | instance | shows |
|---|---|---|
| `provider` | 1 provider, 3 calls, threshold 2, 1 retry, cooldown 1, 1 chunk | types, `OpenIffFailureRun`, `OutputFromOneAttempt`, `RetryBudget`; `OpenCircuitRecovers` and `AdmittedCallEnds` under fairness |
| `provider_probe` | the same | `SingleProbe` is violated (finding) |
| `routing` | 2 requests, 3 provider names (2 registered), 3 models, a chain with a duplicate and an unregistered name, threshold 2, no retries | `SelectionNamesProducer`, `FallbackInOrder`, `ImplementsContract` (safety and liveness) |
| `gateway_safety` | 3 requests, each any of 6 kinds over 2 tenants, 3 prompts, 2 parameter sets | `HitsSuitRequest`, `ChargedOnce`, `AccountedFor`, `OneWinnerUnlessSlipped` |
| `gateway_liveness` | 2 requests, 8 kinds, failing Redis, silent stores | `OneWinnerUnlessSlipped`; `LockFreed`, `RequestEnds` under fairness |
| `gateway_pricing` | 1 request, equivalent models may answer | `PricedAsServed` is violated (finding) |
| `limiter` | 3 checks, limits 1 and 2, 2 tries, clock 0..2, failing Redis | `BudgetUnlessRegressed`, `ContentionMeansProgress` |
| `limiter_budget` | 4 checks, window of 2 ticks, limit 1 | `WithinBudget` is violated (finding) |
| `api` | 2 clients, 2 admin calls, 11 scenarios, failing stores | `RevokedServedOnlyByRace`, `AnswerFromOneMoment`, `MixedRouteOnlyByClash`, `FreeOnlyForAReason`; `RevocationTakesEffect`, `PriceChangeArrives`, `AllAnswered` under fairness |
| `deployment` | 1 gateway, 1 worker, 2 index fields, 2 traces with equal or different ids, 1 death, failing database and queue | `CollectionComplete`, `DuplicatesNeedOverlap`; `ProcessesServe`, `TraceSettles` under fairness |
| `trace_rows` | 2 traces with one id, no death, no failure | `NoDuplicateRows` is violated (finding) |
| `trace_crash` | 1 trace, 1 death, no failure | `TracesSurvive` is violated (finding) |

Why the bounds are enough to be interesting:

* `provider`: a threshold of 2 with 3 calls lets a circuit open on results of
  different calls, with a third admitted earlier still running; 1 retry gives a
  call a second attempt after the circuit opened; 1 chunk is what tells "has
  yielded" from "has not"; cooldown 1 has an open and a half-open phase.
* `routing`: retries inside one provider are the `provider` run's subject, hence
  `MaxRetries = 0`; two requests with threshold 2 open a circuit that refuses the
  other's fallback.  The registry order, chain and map include every case of
  `_resolve_attempts`.
* `gateway_safety`: three requests are a producer, a promoter and a victim;
  three prompts in a row of similarity make a chain of promotions visible.
  Symmetric requests are interchangeable, and the run checks no liveness.  Redis
  does not fail in it, though locks expire; with failures three requests have 3.6
  million states, without an error, in more time than a run should take.
* `gateway_liveness`: two requests, with both kinds of failure of the stores at any
  point; two are what one wait on another takes.
* `limiter`: a check can lose both of its tries to the two others; the TTL of
  two ticks lets the key expire at the last instant.  `limiter_budget` takes a
  window of two ticks so that a fraction of a token can be credited twice.
* `api`: scenarios put two admin calls of one component against the clients, since
  the three components share no state; two revocations meet in the row lock, two
  upserts in the unique constraint and in each other's columns, two prices in one
  day.  Percentages 0 and 50 with buckets 0, 49 and 50 are the boundaries of the
  share.  Clients come back for ever, so that a stale entry is met after the change.
* `deployment`: two processes race for the collection, two fields make "some but not
  all" visible; one death can hit either process at any point, and the executions of
  two traces with one id, by jobs or tasks, can overlap.  The system may stop when all traces
  are delivered and no death is left, hence no deadlock check.
* `MaxDeaths` bounds deaths, `MaxDay` the instants of prices.
* `MaxChunks` bounds chunks per attempt, `MaxTime` the clock, `setbacks` saturates
  at `MaxTries`.  Nothing else is bounded by the guards; calls and requests run
  at most once each, so that the instances are finite.

### Fairness

* `ProviderFairness`: sleeps end, `httpx` cuts an exchange that is silent for
  `request_timeout_seconds`, the clock runs.  A stream that drips chunks for ever
  is not cut off by that timeout; `MaxChunks` excludes it, so `AdmittedCallEnds`
  is a statement about finite streams.  No fairness on callers, chunks, aborts.
* `FairRoutingSpec`: the same, through the router's own steps.
* `GatewayFairness`: the waits for the caches have timeouts or a deadline, an upstream
  call that is not a stream has those of its attempts, and Redis expires its keys.
  The commands on the lock and the price lookups have no timeout: a store that
  answers again answers what it kept, which is why fairness is strong, and one that
  never does is not assumed away; `RequestEnds` excepts it.  Nor are streams: yielding
  to a slow client and an upstream that drips are bounded by nothing, so a stream
  may stay at either for ever.  No fairness on background writes: `RequestEnds` holds
  though every one of them may be lost.
* `ApiFairness`: Redis and Postgres answer or fail, TTLs end, the clock runs.  None
  on clients and admins.  `redis-py` is used without a socket timeout, so "answer or
  fail" is left to TCP for a Redis that is silent: `AllAnswered` is a statement about stores that do.
* `DeploymentFairness`: processes are started again, stores answer or fail, event
  loops run their tasks; a job is one by itself, since arq runs 50 at a time.  No
  fairness on requests or deaths, and deaths are finitely many: without that bound
  nothing would ever have to be delivered.

### Findings

* `SingleProbe`: after the cooldown every caller is let through until a result
  arrives, against the docstring of `CircuitBreaker`.
* `WithinBudget`: denials write outside the transaction; two that overlap credit
  the same time twice and the tenant gets a token too many.  `regressed` in the
  model marks the two ways this can happen (a write over something unseen; an
  instant older than the last refill, since `now_ms` is not taken again for a
  retry), and `BudgetUnlessRegressed` shows that there is no third.
* `PricedAsServed`: streams are priced by the served provider and the requested
  model.
* `NoDuplicateRows`: `persist_trace` is described as idempotent by `trace_id`
  (`persist_trace.py:3`, `docs/ARCHITECTURE.md:102`, `docs/DESIGN_DECISIONS.md:69`), but
  two executions that both look before either commits write two rows, and then
  every lookup of the id raises.  It takes no failure: two requests to which the
  client gave one id are enough.  `DuplicatesNeedOverlap` shows that such an overlap is
  the only way.
* `TracesSurvive`: a gateway that dies between the answer and the enqueuing loses the
  trace, against "survives process crash after response sent"
  (`docs/DESIGN_DECISIONS.md:62`).

Some further disagreements with the documentation have no run of their own.  They
are among the exceptions that properties of the passing runs state, and that these
pass shows that nothing else has to be excepted:

* `TraceSettles` excuses a trace whose connection was lost at `EXEC`: it counts as
  enqueued, and neither a job nor a task persists it, against "fallback to in-process
  tasks if enqueue fails" (`docs/DESIGN_DECISIONS.md:59`).
* `TraceSettles` excuses a trace whose job failed: `persist_trace` raises its error again
  for "arq's at-least-once retry semantics" (`persist_trace.py:3`), but arq does not
  repeat a job that raised, so one failed transaction loses the trace.
* `OneWinnerUnlessSlipped` excepts a lock that expires under its owner (the defaults:
  10 s against 60 s per attempt).  Then two callers are in flight with it, against
  "Returns False if another caller is already in flight" (`cache_service.py:94`), and
  one deletes the other's, which makes way for a third; it is over once none of the
  key's winners is in flight.
* `RequestEnds` excepts a store that is silent for ever: a Redis that keeps its
  connections open and does not answer holds every request that missed the cache in
  `acquire_coalescing_lock`, against the docstring of `CacheService`, by which coalescing
  fails open "so it can never turn into an availability problem of its own".

Read from the models, and held to be intended: a stream that bypasses the cache
ends without `StreamMetadata`, metrics or trace (a test asserts the first);
`AccountedFor` shows that it is the only such path.  A revoked key may work for a
TTL if a login in flight re-caches it (`RevokedServedOnlyByRace`), and a collection
left without indexes by a death is not repaired by later starts
(`CollectionComplete`).

## Proofs

`ResilientProviderProofs` proves for every number of providers, calls, retries,
chunks, thresholds and cooldowns (from `BreakerAssumption` and
`ProviderAssumption` only):

* `Typing`: `TypeOK`.  The lemmas `SuccessFacts`, `FailureFacts` and `ElapseFacts` say
  what the breaker's methods return; `BreakerSteps` reduces a step of the system
  to at most one of them per breaker.
* `OpenAfterFailureRun`: `OpenIffFailureRun`.  It is not inductive: it does not
  say how many failures a closed breaker has counted.  The strengthening,
  `CountInv`, is that the last `failures` results of the history are failures, that
  the result before them, if there is one, is a success, and that the circuit is
  open exactly when the count has reached the threshold.  A consequence worth
  knowing: the half-open branch of `record_failure` changes nothing, since the
  count is not reset when the circuit opens and is over the threshold anyway.
* `CallsInOrder`: `CallInv`, the invariant of a call's control state: it has yielded
  only from its current attempt, a call at its provider has yielded something
  exactly when it has counted a chunk, a call that sleeps has yielded nothing and
  has attempts left, a call under way has no error yet, and a transient error
  without output comes from the last attempt.
* `NoMixedOutput` and `BudgetKept`: `OutputFromOneAttempt` and `RetryBudget` follow
  from it.

`RoutingServiceProofs`, for every registry, fallback chain, set of served models and
map of equivalents, and any number of requests (from `RoutingAssumption` and the
assumptions of the providers):

* `ResolutionSound`: what `_resolve_attempts` returns.  An override is the only
  attempt.  Otherwise every attempt is at a registered provider, none twice, with
  the model asked for if the provider serves it and else the configured equivalent;
  the native provider comes first; and no provider of the chain that could answer
  is left out, so `AllProvidersExhaustedError` is not raised early.  `LoopExists`
  shows that the recursive functions compute something, `OrderedFrom` and
  `AttemptsFrom` are the invariants of the two loops, and `LoopInduction` carries
  them to the end.
* `RoutingImplementsProviders`: each step of routing is one of `ResilientProvider` or
  leaves the providers alone, hence `RoutingTyping` (`RoutingTypeOK`), and the
  circuit breaker's and the retry loop's promises in the composed system
  (`RoutingKeepsPromises`).
* `FallbackWalks`: `FallbackInOrder`.  It does not say which attempt has its turn.  The
  strengthening, `InOrder`, does: all attempts before the turn have failed without
  delivering anything, the index is the number of errors, and only providers up to
  the turn have been called.  Each kind of step keeps it (`NewInOrder`,
  `CurrentMoves`, `NextInOrder`, `EndInOrder`).
* `SelectionTruthful`: `SelectionNamesProducer`, and `RoutingHonoursContract`: the safety
  part of `RoutingContract`, each step of routing being a step of the contract or a
  stutter.  Both rest on `OneProducer`: by `InOrder`, only the provider whose turn it
  is can have delivered or returned anything, so that the source of the refinement
  mapping is unique and never changes once it is set.

`RateLimiterProofs` proves for every number of checks, limits, tries and every
window (from `LimiterAssumption` only):

* `LimiterTyping`: `LimiterTypeOK`.  That the balance stays a natural number is not
  a matter of types: `Consume` subtracts the cost from what was read.  The
  strengthening is `ChecksOK` (`ChecksInOrder`): a check under way has a positive
  limit and a try left, and one that is about to execute has read at least the
  cost.
* `ContentionNeedsSetbacks`: `ContentionMeansProgress`.  The strengthening,
  `BeatenOK`, counts: a check under way has had as many setbacks as it has used up
  tries, and one more as soon as the key it watches has changed.  `Bystander` shows
  that a step of another check keeps the count, `TryAgainBeaten` that a lost try
  does.
* `BudgetHolds`: `BudgetUnlessRegressed`.  `BudgetInv` keeps the books: `LedgerInv` says
  that for one rate, nothing or a positive limit, what was spent and what is left in
  the bucket were filled in at that rate since the beginning, and that a key about
  to expire takes with it no more than a new bucket may contain by then (the TTL is
  two windows: one would not do).  It needs `BookInv` (the bucket was last filled at the
  horizon) and `SeenInv` (a check whose key has not changed since `WATCH` still knows
  the balance: this is what makes EXEC's refusal enough).  `HeldAtOneRate` is the
  arithmetic: a refill at a lower rate stays under a line of a higher one.

`GatewayServiceProofs`, for any requests, keys and similarity of prompts:

* `GatewayTyping`, `ChargedToCaller` (`ChargedOnce`) and `EveryoneAccounted`
  (`AccountedFor`).  Neither property is inductive; `RecOK` says what a
  handler's record looks like at each point: no answer before upstream returns, an
  own answer and a known model between upstream and pricing, and afterwards a price
  exactly with an own answer.
* `HitsAreSuitable`: `HitsSuitRequest`.  `StoreInv` says of everything stored, about to
  be stored or served that it fits the key it is under, and of a point that its key is
  the one its response was asked under.  The latter keeps promotions at one
  similarity hop: exact entries may hold a promoted response, points never do.
* `WinnerAlone`: `OneWinnerUnlessSlipped`, whatever the lock's TTL and though Redis may
  fail.  The strengthening, `LockInv`: who has won and not released, under a key that
  has not slipped, is who the lock names.  The code's DELETE does not look at the
  owner; but by the invariant whoever releases either owns the lock or does so
  under a slipped key (`ClaimStep`).  A set lock is not taken; one that expires under
  its owner, and a win through an error, are slips (`SlipFacts`).
* All of it follows from `HandlerMoves`: each step of a handler leaves the others
  alone, and an answer of its own stays.

`AuthServiceProofs`, for any number of requests and admin calls:

* `AuthTyping`, and `RevocationRace`: `RevokedServedOnlyByRace`.  It says nothing while
  the key is active, so the invariant `RaceInv` says it earlier: as soon as some
  revocation has cleared the cache and is about to commit, what is cached or about
  to be cached is a late login's.  `Harmless` names the steps that keep it at sight.

`AdapterRoutesProofs`, for all models, adapters, percentages and buckets (from
`RouteAssumption`):

* `PromiseKept`: for every two rows and every bucket, `Resolve` over what `get_active`
  finds is what the docstring promises: the share of the canary, the fallback to
  whichever stage exists, disabled rows left out.
* `RouteTyping`: `RouteTypeOK`; the strengthening keeps that rows are never deleted, so
  that an UPDATE finds the row it loaded.
* `OneMoment`: `AnswerFromOneMoment`.  `MomentInv` follows a lookup between its reads:
  the current rows' answer is among its moments, and unless the lookup is shifted or torn the
  production row it holds is the current one; a shifted one holds a row that was
  right with the staging row that is still there.
* `WholeRows`: `MixedRouteOnlyByClash`.  The strengthening, `GoalInv`, says that what an
  upsert under way asks for is among the rows asked for at its stage.  `MergedUnseen`
  is the reason for the rest: an UPDATE over the row it loaded writes the row asked
  for, whole.

`HttpApiProofs` (from the modules' assumptions and `ApiAssumption`):

* `ApiImplementsAuth`, `ApiImplementsRoutes`, `ApiImplementsCosts`: each behaviour of
  the interface is one of each component, so what is proved of a component holds
  of the composed system (`ApiSafety`, `MixedRouteOnlyByClash` included).
* `ApiTyping` (`ApiTypeOK`) and `CostTyping`: the interface's own state, `ChainOK`, and the
  types of the three components, carried over.
* `PricedWithReason`: `FreeOnlyForAReason`.  `PriceInv` says of each place where a price
  can be, the cache entry and the copies in flight, what the property says of a
  finished quote, and that the prices effective now are in the history.

`DeploymentProofs`, for any number of fields and deaths, any finite set of traces, and
any number of processes at the collection:

* `CollectionSound`: `CollectionComplete`; the invariant adds that at most one
  process indexes, that it knows how many indexes there are, and that those past
  the check have seen the collection.
* `DuplicatesOverlap`: `DuplicatesNeedOverlap`.  `OverlapInv`: while an execution is
  between SELECT and COMMIT, either there is no row of its id yet or the id has
  had an overlap, and likewise for two such executions.  A death may commit any
  number of them at once: `CommittedFacts` counts what that adds.
* `DeploymentTyping` (`DeploymentTypeOK`), `DeploymentImplements` and `DeploymentSafety`:
  the composition.

Every invariant that a passing run checks is thus a theorem.  Only model-checked
are the liveness properties, since fairness and ENABLED are beyond the prover:
`OpenCircuitRecovers`, `AdmittedCallEnds`, `LockFreed`, `RequestEnds`,
`RevocationTakesEffect`, `PriceChangeArrives`, `AllAnswered`, `ProcessesServe`,
`TraceSettles`, and the fairness conjunct of `ImplementsContract`.  The library's
induction theorems take an operator as a parameter, which the installed provers
cannot instantiate; the loops of `_resolve_attempts` are within reach nevertheless,
because `LeastOf` gets a least element from the well-foundedness of `<` on the
naturals, and `LoopInduction` states induction for a set.

## Not modelled

* `touch_last_used` and the hit timestamp of semantic points: columns and fields
  that are written and never read.
* A SET that Redis executes after its caller gave up on it: in the model of the
  login the write happens while the caller waits or not at all; the writes of
  `GatewayService` do have that case.
* A SET NX or DELETE of the lock that Redis executes after its caller was told of an
  error: in the model one that failed has had its effect by then or never has it.
* arq's `max_tries` and job expiry, which a job meets after five deaths of its worker
  or a day in the queue.
* Tenant creation and the list endpoints: single statements.
* `TracingService.flush`: runs only without a `BackgroundJobService`, which `main.py`
  always builds.  The payloads of jobs: a round trip of data through JSON.
* Closing of pools at shutdown; `collection_exists` answering from a replica.
* FastAPI runs the code after the `yield` of a dependency before or after the
  answer is sent, depending on its version, which the repository does not fix;
  `AllAnswered` holds either way, and the model commits first.
* TTLs below a second, which `int()` makes 0 and `SET EX` rejects: they read as a Redis
  that fails.
* Embeddings and token counting (numeric), HTTP parsing, health checks, exporters
  and logs (output only), settings, and migrations (declarations; the constraints
  that matter are in the modules).
* The collector of stale semantic entries is a stub in the code, so points never
  expire in the model either.

## Plan

1. `ResilientProvider`, `RoutingService`, `GatewayService`, `RateLimiter` with their
   runs, and the proofs about the providers and about the limiter's types and
   contention.  Done.
2. The HTTP interface with keys, routes and prices, and the deployment with the
   collection and the traces, composed, checked, and proved as far as safety goes.
   Done.
3. Proofs of the gateway's four safety properties.  Done.
4. Proofs of `BudgetUnlessRegressed`, `MixedRouteOnlyByClash`, the remaining type
   invariants, the resolution of attempts, and the refinements of `ResilientProvider`
   and of `RoutingContract`'s safety by `RoutingService`.  Done.
5. Left: theorems about the gateway's steps rather than its states (a stored answer
   never changes hands; a lock is only taken from nobody), and that the outcomes
   `GatewayService` assumes of routing are those of `RoutingContract`.

## Running

```
tlc -workers 2 -config MCRoutingService.cfg MCRoutingService
tlapm ResilientProviderProofs.tla
tlapm RoutingServiceProofs.tla
tlapm RateLimiterProofs.tla
tlapm GatewayServiceProofs.tla
tlapm AuthServiceProofs.tla
tlapm AdapterRoutesProofs.tla
tlapm HttpApiProofs.tla
tlapm DeploymentProofs.tla
```

`PROJECT.json` lists the runs, the mutation that each checked property detects,
the source lines behind every definition, the hazards and the theorems.
