------------------------- MODULE ResilientProvider -------------------------
(***************************************************************************)
(* BaseLLMProvider of providers/base.py: complete() and stream() calls     *)
(* running concurrently against providers that each own one circuit        *)
(* breaker.  A call asks the breaker for admission once, then loops over   *)
(* attempts at the upstream API with a backoff sleep between them.         *)
(*                                                                         *)
(* One action is the code between two points where the coroutine can be    *)
(* suspended: the network exchange (pc = "calling"), the backoff sleep     *)
(* (pc = "backoff"), and a yield to the consumer of a stream.              *)
(***************************************************************************)
EXTENDS CircuitBreaker, Sequences

CONSTANTS
    Providers,      \* the registered adapters
    Calls,          \* calls of complete()/stream(), each made at most once
    MaxRetries,     \* provider_max_retries
    MaxChunks       \* bound on the chunks one upstream stream delivers

ASSUME ProviderAssumption ==
    /\ MaxRetries \in Nat
    /\ MaxChunks \in Nat

VARIABLES
    breaker,    \* breaker[p]  : the circuit breaker of provider p
    call,       \* call[p][c]  : where call c stands at provider p
    outcomes    \* outcomes[p] : history of the results recorded on breaker[p]

providerVars == <<breaker, call, outcomes>>

Modes == {"complete", "stream"}

\* What ends an attempt other than success (exception classes of
\* providers/base.py as the adapters raise them).  "malformed" is an invalid
\* JSON body or an SSE error event, raised with the HTTP status 200.
UpstreamFailure ==
    {"rate_limited", "timeout", "connection", "server_error",
     "client_error", "malformed"}
Retryable(f) == f \notin {"client_error", "malformed"}

CallRec ==
    [pc      : {"idle", "calling", "backoff", "returned", "raised", "aborted"},
     mode    : Modes,
     attempt : Nat,
     chunks  : Nat,             \* yielded by the current attempt
     probe   : BOOLEAN,         \* history: admitted while HALF_OPEN
     emitted : SUBSET Nat,      \* history: the attempts that yielded output
     error   : {"none", "unavailable", "retryable", "fatal"}]

NotCalled ==
    [pc |-> "idle", mode |-> "complete", attempt |-> 0, chunks |-> 0,
     probe |-> FALSE, emitted |-> {}, error |-> "none"]

TypeOK ==
    /\ breaker \in [Providers -> Breaker]
    /\ call \in [Providers -> [Calls -> CallRec]]
    /\ outcomes \in [Providers -> Seq({"ok", "fail"})]

ProviderInit ==
    /\ breaker = [p \in Providers |-> NewBreaker]
    /\ call = [p \in Providers |-> [c \in Calls |-> NotCalled]]
    /\ outcomes = [p \in Providers |-> <<>>]

-----------------------------------------------------------------------------
Become(p, c, rec) == call' = [call EXCEPT ![p][c] = rec]

Record(p, outcome, b) ==
    /\ outcomes' = [outcomes EXCEPT ![p] = Append(@, outcome)]
    /\ breaker' = [breaker EXCEPT ![p] = b]

\* allow_request() granted: the first attempt goes out.
Admit(p, c, mode) ==
    /\ call[p][c].pc = "idle"
    /\ AllowRequest(breaker[p])
    /\ Become(p, c, [NotCalled EXCEPT
            !.pc = "calling", !.mode = mode,
            !.probe = EffectiveState(breaker[p]) = "HALF_OPEN"])
    /\ UNCHANGED <<breaker, outcomes>>

\* allow_request() denied: ProviderUnavailableError, no network call.
Refuse(p, c, mode) ==
    /\ call[p][c].pc = "idle"
    /\ ~AllowRequest(breaker[p])
    /\ Become(p, c, [NotCalled EXCEPT
            !.pc = "raised", !.mode = mode, !.error = "unavailable"])
    /\ UNCHANGED <<breaker, outcomes>>

\* One chunk of _stream_impl reaches the consumer.
Chunk(p, c) ==
    LET k == call[p][c] IN
    /\ k.pc = "calling" /\ k.mode = "stream" /\ k.chunks < MaxChunks
    /\ Become(p, c, [k EXCEPT !.chunks = @ + 1,
                              !.emitted = @ \union {k.attempt}])
    /\ UNCHANGED <<breaker, outcomes>>

Succeed(p, c) ==
    /\ call[p][c].pc = "calling"
    /\ Record(p, "ok", RecordSuccess(breaker[p]))
    /\ Become(p, c, [call[p][c] EXCEPT !.pc = "returned"])

\* Mutants of GivesUp: a stream is restarted after output; one retry too many.
GivesUpIgnoringOutput(k, f) == ~Retryable(f) \/ k.attempt >= MaxRetries
GivesUpLate(k, f) == k.chunks > 0 \/ ~Retryable(f) \/ k.attempt > MaxRetries

GivesUp(k, f) == k.chunks > 0 \/ ~Retryable(f) \/ k.attempt >= MaxRetries

\* ProviderError: recorded on the breaker, then raised or slept on.
Fail(p, c, f) ==
    LET k == call[p][c] IN
    /\ k.pc = "calling"
    /\ Record(p, "fail", RecordFailure(breaker[p]))
    /\ IF GivesUp(k, f)
       THEN Become(p, c, [k EXCEPT !.pc = "raised",
                !.error = IF Retryable(f) THEN "retryable" ELSE "fatal"])
       ELSE Become(p, c, [k EXCEPT !.pc = "backoff"])

\* Mutant of Retry: it waits for somebody else to close the circuit.
RetryOnceClosed(p, c) ==
    LET k == call[p][c] IN
    /\ k.pc = "backoff" /\ breaker[p].state = "CLOSED"
    /\ Become(p, c, [k EXCEPT !.pc = "calling", !.attempt = @ + 1,
                              !.chunks = 0])
    /\ UNCHANGED <<breaker, outcomes>>

\* asyncio.sleep(delay) is over.  The breaker is not consulted again.
Retry(p, c) ==
    LET k == call[p][c] IN
    /\ k.pc = "backoff"
    /\ Become(p, c, [k EXCEPT !.pc = "calling", !.attempt = @ + 1,
                              !.chunks = 0])
    /\ UNCHANGED <<breaker, outcomes>>

\* Cancellation, GeneratorExit at a yield, or an exception that is not a
\* ProviderError: no handler of the loop runs and the breaker learns nothing.
Abort(p, c) ==
    /\ call[p][c].pc \in {"calling", "backoff"}
    /\ Become(p, c, [call[p][c] EXCEPT !.pc = "aborted"])
    /\ UNCHANGED <<breaker, outcomes>>

\* The monotonic clock, shared by the breakers of the process.
Tick ==
    /\ \E p \in Providers : CoolingDown(breaker[p])
    /\ breaker' = [p \in Providers |-> Elapse(breaker[p])]
    /\ UNCHANGED <<call, outcomes>>

Start(p, c) == \E mode \in Modes : Admit(p, c, mode) \/ Refuse(p, c, mode)

\* The steps the event loop and the HTTP timeouts bring about.
Progress(p, c) ==
    Succeed(p, c) \/ Retry(p, c) \/ \E f \in UpstreamFailure : Fail(p, c, f)

Finished(k) == k.pc \in {"returned", "raised", "aborted"}

Quiescent ==
    /\ \A p \in Providers, c \in Calls : Finished(call[p][c])
    /\ UNCHANGED providerVars

ProviderNext ==
    \/ \E p \in Providers, c \in Calls :
          Start(p, c) \/ Progress(p, c) \/ Chunk(p, c) \/ Abort(p, c)
    \/ Tick
    \/ Quiescent

ProviderSpec == ProviderInit /\ [][ProviderNext]_providerVars

\* Sleeps end, every attempt is cut off by request_timeout_seconds, and the
\* clock runs.  Nothing makes a caller call or a client disconnect.
ProviderFairness ==
    /\ WF_providerVars(Tick)
    /\ \A p \in Providers, c \in Calls : WF_providerVars(Progress(p, c))

FairProviderSpec == ProviderSpec /\ ProviderFairness

-----------------------------------------------------------------------------
(* What the breaker promises.                                              *)

\* The last n results recorded on p are failures.
FailureRun(p, n) ==
    /\ n <= Len(outcomes[p])
    /\ \A i \in 1..n : outcomes[p][Len(outcomes[p]) - i + 1] = "fail"

\* CircuitBreaker: whatever calls, retries and late results interleave, the
\* circuit is open exactly when the last FailureThreshold results recorded
\* on it are all failures; in particular the half-open branch of
\* record_failure never opens it on fewer.
OpenIffFailureRun ==
    \A p \in Providers :
        breaker[p].state = "OPEN" <=> FailureRun(p, FailureThreshold)

\* BaseLLMProvider.stream: retrying after output would duplicate it, so all
\* that a call ever yields comes from the attempt it ended with.
OutputFromOneAttempt ==
    \A p \in Providers, c \in Calls :
        call[p][c].emitted \subseteq {call[p][c].attempt}

\* BaseLLMProvider: a call never spends more than MaxRetries + 1 attempts,
\* and it reports a transient error only when it has spent them all or can
\* no longer retry because output has been yielded.
RetryBudget ==
    \A p \in Providers, c \in Calls :
        LET k == call[p][c] IN
        /\ k.attempt <= MaxRetries
        /\ k.error = "retryable" /\ k.emitted = {} => k.attempt = MaxRetries

\* CircuitBreaker._effective_state: an open circuit lets traffic through
\* again, although late failures of calls admitted earlier restamp its
\* cooldown.
OpenCircuitRecovers ==
    \A p \in Providers :
        ~AllowRequest(breaker[p]) ~> AllowRequest(breaker[p])

\* BaseLLMProvider: an admitted call ends, whatever the upstream does.
AdmittedCallEnds ==
    \A p \in Providers, c \in Calls :
        call[p][c].pc = "calling" ~> Finished(call[p][c])

-----------------------------------------------------------------------------
\* The docstring of CircuitBreaker, which the code does not live up to:
\* "After the cooldown elapses, a single half-open probe is allowed through".
SingleProbe ==
    \A p \in Providers : \A c, d \in Calls :
        /\ call[p][c].pc = "calling" /\ call[p][c].probe
        /\ call[p][d].pc = "calling" /\ call[p][d].probe
        => c = d
=============================================================================
