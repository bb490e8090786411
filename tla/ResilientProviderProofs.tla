---------------------- MODULE ResilientProviderProofs ----------------------
(***************************************************************************)
(* Proofs about ResilientProvider, for any number of providers and calls   *)
(* and every value of the settings.                                        *)
(***************************************************************************)
EXTENDS ResilientProvider, TLAPS

-----------------------------------------------------------------------------
(* The operations of the circuit breaker.                                  *)

\* CircuitBreaker: what record_success and the clock make of a breaker.
LEMMA SuccessFacts ==
    ASSUME NEW b \in Breaker
    PROVE  /\ RecordSuccess(b) \in Breaker
           /\ RecordSuccess(b).failures = 0
           /\ RecordSuccess(b).state = "CLOSED"
  BY BreakerAssumption DEF BreakerAssumption, RecordSuccess, NewBreaker, Breaker

\* CircuitBreaker.record_failure counts, and leaves the circuit open if it
\* was or if the threshold is reached.
LEMMA FailureFacts ==
    ASSUME NEW b \in Breaker
    PROVE  /\ RecordFailure(b) \in Breaker
           /\ RecordFailure(b).failures = b.failures + 1
           /\ RecordFailure(b).state = "OPEN" <=>
                 b.state = "OPEN" \/ b.failures + 1 >= FailureThreshold
<1> DEFINE counted == [b EXCEPT !.failures = @ + 1]
           reopened == [failures |-> counted.failures, state |-> "OPEN", elapsed |-> 0]
<1>1. /\ counted \in Breaker
      /\ counted.failures = b.failures + 1
      /\ counted.state = b.state
  BY DEF Breaker
<1>2. /\ reopened \in Breaker
      /\ reopened.failures = b.failures + 1
      /\ reopened.state = "OPEN"
  BY <1>1, BreakerAssumption DEF BreakerAssumption, Breaker
<1>3. EffectiveState(counted) = "HALF_OPEN" => counted.state = "OPEN"
  BY <1>1 DEF EffectiveState, Breaker
<1>4. RecordFailure(b) =
        IF EffectiveState(counted) = "HALF_OPEN" \/ counted.failures >= FailureThreshold
        THEN reopened ELSE counted
  BY DEF RecordFailure
<1> HIDE DEF counted, reopened
<1>5. CASE EffectiveState(counted) = "HALF_OPEN" \/ counted.failures >= FailureThreshold
  BY <1>1, <1>2, <1>3, <1>4, <1>5
<1>6. CASE ~(EffectiveState(counted) = "HALF_OPEN" \/ counted.failures >= FailureThreshold)
  BY <1>1, <1>4, <1>6
<1>7. QED
  BY <1>5, <1>6

\* The monotonic clock changes neither the count nor the stored state.
LEMMA ElapseFacts ==
    ASSUME NEW b \in Breaker
    PROVE  /\ Elapse(b) \in Breaker
           /\ Elapse(b).failures = b.failures
           /\ Elapse(b).state = b.state
  BY BreakerAssumption DEF BreakerAssumption, Elapse, CoolingDown, Breaker

-----------------------------------------------------------------------------
(* Type correctness.                                                       *)

\* A call record is replaced at one place only.
LEMMA BecomeFacts ==
    ASSUME call \in [Providers -> [Calls -> CallRec]],
           NEW p \in Providers, NEW c \in Calls, NEW rec \in CallRec,
           Become(p, c, rec)
    PROVE  /\ call' \in [Providers -> [Calls -> CallRec]]
           /\ \A q \in Providers, d \in Calls :
                 call'[q][d] = IF q = p /\ d = c THEN rec ELSE call[q][d]
  BY DEF Become

\* The records that the actions write are call records.
LEMMA FreshRecords ==
    ASSUME NEW mode \in Modes, NEW probe \in BOOLEAN
    PROVE  /\ [NotCalled EXCEPT !.pc = "calling", !.mode = mode, !.probe = probe] \in CallRec
           /\ [NotCalled EXCEPT !.pc = "raised", !.mode = mode,
                                !.error = "unavailable"] \in CallRec
  BY DEF CallRec, NotCalled, Modes

LEMMA ChunkRecord ==
    ASSUME NEW k \in CallRec, NEW n \in Nat, NEW s \in SUBSET Nat
    PROVE  [k EXCEPT !.chunks = n, !.emitted = s] \in CallRec
  BY DEF CallRec

LEMMA RetryRecord ==
    ASSUME NEW k \in CallRec, NEW n \in Nat
    PROVE  [k EXCEPT !.pc = "calling", !.attempt = n, !.chunks = 0] \in CallRec
  BY DEF CallRec

LEMMA PcRecord ==
    ASSUME NEW k \in CallRec, NEW pc \in {"returned", "backoff", "aborted"}
    PROVE  [k EXCEPT !.pc = pc] \in CallRec
  BY DEF CallRec

LEMMA ErrorRecord ==
    ASSUME NEW k \in CallRec, NEW error \in {"retryable", "fatal"}
    PROVE  [k EXCEPT !.pc = "raised", !.error = error] \in CallRec
  BY DEF CallRec

\* Every step keeps the breakers, the calls and the history well formed.
THEOREM Typing == ProviderSpec => []TypeOK
<1>1. ProviderInit => TypeOK
  <2>1. NewBreaker \in Breaker
    BY BreakerAssumption DEF BreakerAssumption, Breaker, NewBreaker
  <2>2. NotCalled \in CallRec
    BY DEF NotCalled, CallRec, Modes
  <2>3. QED
    BY <2>1, <2>2 DEF ProviderInit, TypeOK
<1>2. TypeOK /\ [ProviderNext]_providerVars => TypeOK'
  <2> SUFFICES ASSUME TypeOK, [ProviderNext]_providerVars
               PROVE  TypeOK'
    OBVIOUS
  <2>1. ASSUME NEW p \in Providers, NEW c \in Calls, NEW mode \in Modes,
               Admit(p, c, mode) \/ Refuse(p, c, mode)
        PROVE  TypeOK'
    <3> DEFINE probe == EffectiveState(breaker[p]) = "HALF_OPEN"
               granted == [NotCalled EXCEPT !.pc = "calling", !.mode = mode, !.probe = probe]
               refused == [NotCalled EXCEPT !.pc = "raised", !.mode = mode,
                                            !.error = "unavailable"]
    <3>1. call[p][c] \in CallRec /\ probe \in BOOLEAN
      BY DEF TypeOK
    <3>2. granted \in CallRec /\ refused \in CallRec
      BY <3>1, FreshRecords
    <3>3. Become(p, c, granted) \/ Become(p, c, refused)
      BY <2>1 DEF Admit, Refuse
    <3>4. UNCHANGED <<breaker, outcomes>>
      BY <2>1 DEF Admit, Refuse
    <3> HIDE DEF granted, refused
    <3>5. QED
      BY <3>2, <3>3, <3>4, BecomeFacts DEF TypeOK
  <2>2. ASSUME NEW p \in Providers, NEW c \in Calls, Chunk(p, c)
        PROVE  TypeOK'
    <3> DEFINE k == call[p][c]
               rec == [k EXCEPT !.chunks = k.chunks + 1,
                                !.emitted = k.emitted \union {k.attempt}]
    <3>1. k \in CallRec /\ k.chunks + 1 \in Nat /\ k.emitted \union {k.attempt} \in SUBSET Nat
      BY DEF TypeOK, CallRec
    <3>2. rec \in CallRec
      BY <3>1, ChunkRecord
    <3>3. Become(p, c, rec) /\ UNCHANGED <<breaker, outcomes>>
      BY <2>2 DEF Chunk
    <3> HIDE DEF rec
    <3>4. QED
      BY <3>2, <3>3, BecomeFacts DEF TypeOK
  <2>3. ASSUME NEW p \in Providers, NEW c \in Calls, Retry(p, c)
        PROVE  TypeOK'
    <3> DEFINE k == call[p][c]
               rec == [k EXCEPT !.pc = "calling", !.attempt = k.attempt + 1, !.chunks = 0]
    <3>1. k \in CallRec /\ k.attempt + 1 \in Nat
      BY DEF TypeOK, CallRec
    <3>2. rec \in CallRec
      BY <3>1, RetryRecord
    <3>3. Become(p, c, rec) /\ UNCHANGED <<breaker, outcomes>>
      BY <2>3 DEF Retry
    <3> HIDE DEF rec
    <3>4. QED
      BY <3>2, <3>3, BecomeFacts DEF TypeOK
  <2>4. ASSUME NEW p \in Providers, NEW c \in Calls, Abort(p, c)
        PROVE  TypeOK'
    <3> DEFINE rec == [call[p][c] EXCEPT !.pc = "aborted"]
    <3>1. rec \in CallRec
      BY PcRecord DEF TypeOK
    <3>2. Become(p, c, rec) /\ UNCHANGED <<breaker, outcomes>>
      BY <2>4 DEF Abort
    <3> HIDE DEF rec
    <3>3. QED
      BY <3>1, <3>2, BecomeFacts DEF TypeOK
  <2>5. ASSUME NEW p \in Providers, NEW c \in Calls, Succeed(p, c)
        PROVE  TypeOK'
    <3> DEFINE rec == [call[p][c] EXCEPT !.pc = "returned"]
    <3>1. RecordSuccess(breaker[p]) \in Breaker
      BY SuccessFacts DEF TypeOK
    <3>2. Append(outcomes[p], "ok") \in Seq({"ok", "fail"})
      BY DEF TypeOK
    <3>3. rec \in CallRec
      BY PcRecord DEF TypeOK
    <3>4. Become(p, c, rec) /\ Record(p, "ok", RecordSuccess(breaker[p]))
      BY <2>5 DEF Succeed
    <3> HIDE DEF rec
    <3>5. QED
      BY <3>1, <3>2, <3>3, <3>4, BecomeFacts DEF Record, TypeOK
  <2>6. ASSUME NEW p \in Providers, NEW c \in Calls,
               NEW f \in UpstreamFailure, Fail(p, c, f)
        PROVE  TypeOK'
    <3> DEFINE k == call[p][c]
    <3>1. RecordFailure(breaker[p]) \in Breaker
      BY FailureFacts DEF TypeOK
    <3>2. Append(outcomes[p], "fail") \in Seq({"ok", "fail"})
      BY DEF TypeOK
    <3>3. /\ [k EXCEPT !.pc = "raised", !.error = "retryable"] \in CallRec
          /\ [k EXCEPT !.pc = "raised", !.error = "fatal"] \in CallRec
          /\ [k EXCEPT !.pc = "backoff"] \in CallRec
      BY PcRecord, ErrorRecord DEF TypeOK
    <3>4. Become(p, c, [k EXCEPT !.pc = "backoff"])
            \/ Become(p, c, [k EXCEPT !.pc = "raised", !.error = "retryable"])
            \/ Become(p, c, [k EXCEPT !.pc = "raised", !.error = "fatal"])
      BY <2>6 DEF Fail
    <3>5. call' \in [Providers -> [Calls -> CallRec]]
      BY <3>3, <3>4, BecomeFacts DEF TypeOK
    <3>6. Record(p, "fail", RecordFailure(breaker[p]))
      BY <2>6 DEF Fail
    <3>7. QED
      BY <3>1, <3>2, <3>5, <3>6 DEF Record, TypeOK
  <2>7. CASE Tick
    BY <2>7, ElapseFacts DEF Tick, TypeOK
  <2>8. CASE UNCHANGED providerVars
    BY <2>8 DEF providerVars, TypeOK
  <2>9. QED
    BY <2>1, <2>2, <2>3, <2>4, <2>5, <2>6, <2>7, <2>8
    DEF ProviderNext, Start, Progress, Quiescent
<1>3. QED
  BY <1>1, <1>2, PTL DEF ProviderSpec

-----------------------------------------------------------------------------
(* The circuit is open exactly after a run of failures.                    *)

\* The failure count is the length of the run of failures that ends the
\* history, and it alone decides whether the circuit is open.
CountsRun(b, h) ==
    /\ b.failures <= Len(h)
    /\ \A i \in 1..b.failures : h[Len(h) - i + 1] = "fail"
    /\ b.failures < Len(h) => h[Len(h) - b.failures] = "ok"
    /\ b.state = "OPEN" <=> b.failures >= FailureThreshold

CountInv == \A p \in Providers : CountsRun(breaker[p], outcomes[p])

\* A breaker is only touched by a recorded result and by the clock.
LEMMA BreakerSteps ==
    ASSUME TypeOK, [ProviderNext]_providerVars
    PROVE  \/ UNCHANGED <<breaker, outcomes>>
           \/ \E p \in Providers : Record(p, "ok", RecordSuccess(breaker[p]))
           \/ \E p \in Providers : Record(p, "fail", RecordFailure(breaker[p]))
           \/ Tick
  BY DEF ProviderNext, Start, Progress, Quiescent, Admit, Refuse, Chunk, Retry,
         Abort, Succeed, Fail, providerVars

\* A success ends the run, whatever the circuit was.
LEMMA CountAfterSuccess ==
    ASSUME NEW b \in Breaker, NEW h \in Seq({"ok", "fail"})
    PROVE  CountsRun(RecordSuccess(b), Append(h, "ok"))
  BY SuccessFacts, BreakerAssumption DEF CountsRun, BreakerAssumption, Breaker

\* A failure extends it by one.
LEMMA CountAfterFailure ==
    ASSUME NEW b \in Breaker, NEW h \in Seq({"ok", "fail"}), CountsRun(b, h)
    PROVE  CountsRun(RecordFailure(b), Append(h, "fail"))
<1> DEFINE c == RecordFailure(b)
           g == Append(h, "fail")
<1>1. /\ c.failures = b.failures + 1
      /\ c.state = "OPEN" <=> b.state = "OPEN" \/ b.failures + 1 >= FailureThreshold
  BY FailureFacts
<1>2. b.failures \in Nat /\ Len(h) \in Nat /\ FailureThreshold \in Nat
  BY BreakerAssumption DEF Breaker, BreakerAssumption
<1>3. /\ Len(g) = Len(h) + 1
      /\ g[Len(h) + 1] = "fail"
      /\ \A j \in 1..Len(h) : g[j] = h[j]
  OBVIOUS
<1> HIDE DEF c, g
<1>4. c.failures <= Len(g)
  BY <1>1, <1>2, <1>3 DEF CountsRun
<1>5. ASSUME NEW i \in 1..c.failures
      PROVE  g[Len(g) - i + 1] = "fail"
  <2>1. CASE i = 1
    BY <1>2, <1>3, <2>1
  <2>2. CASE i > 1
    <3>1. i - 1 \in 1..b.failures
      BY <1>1, <1>2, <2>2
    <3>2. Len(h) - (i - 1) + 1 \in 1..Len(h) /\ Len(g) - i + 1 = Len(h) - (i - 1) + 1
      BY <1>2, <1>3, <3>1 DEF CountsRun
    <3>3. h[Len(h) - (i - 1) + 1] = "fail"
      BY <3>1 DEF CountsRun
    <3>4. QED
      BY <1>3, <3>2, <3>3
  <2>3. QED
    BY <1>2, <2>1, <2>2
<1>6. ASSUME c.failures < Len(g)
      PROVE  g[Len(g) - c.failures] = "ok"
  <2>1. b.failures < Len(h) /\ Len(g) - c.failures = Len(h) - b.failures
    BY <1>1, <1>2, <1>3, <1>6
  <2>2. Len(h) - b.failures \in 1..Len(h)
    BY <1>2, <2>1
  <2>3. h[Len(h) - b.failures] = "ok"
    BY <2>1 DEF CountsRun
  <2>4. QED
    BY <1>3, <2>1, <2>2, <2>3
<1>7. c.state = "OPEN" <=> c.failures >= FailureThreshold
  BY <1>1, <1>2 DEF CountsRun
<1>8. QED
  BY <1>4, <1>5, <1>6, <1>7 DEF CountsRun, c, g

\* An open circuit and a run of failures are the same thing.
LEMMA CountMeansRun == TypeOK /\ CountInv => OpenIffFailureRun
<1> SUFFICES ASSUME TypeOK, CountInv, NEW p \in Providers
             PROVE  breaker[p].state = "OPEN" <=> FailureRun(p, FailureThreshold)
  BY DEF OpenIffFailureRun
<1> DEFINE b == breaker[p]
           h == outcomes[p]
<1>1. CountsRun(b, h) /\ b.failures \in Nat /\ Len(h) \in Nat
  BY DEF CountInv, TypeOK, Breaker
<1>2. FailureThreshold \in Nat \ {0}
  BY BreakerAssumption DEF BreakerAssumption
<1>3. CASE b.failures >= FailureThreshold
  <2>1. FailureThreshold <= Len(h) /\ b.state = "OPEN"
    BY <1>1, <1>2, <1>3 DEF CountsRun
  <2>2. ASSUME NEW i \in 1..FailureThreshold
        PROVE  h[Len(h) - i + 1] = "fail"
    <3>1. i \in 1..b.failures
      BY <1>1, <1>2, <1>3
    <3>2. QED
      BY <1>1, <3>1 DEF CountsRun
  <2>3. QED
    BY <2>1, <2>2 DEF FailureRun
<1>4. CASE b.failures < FailureThreshold
  <2>1. b.state # "OPEN"
    BY <1>1, <1>2, <1>4 DEF CountsRun
  <2>2. ASSUME FailureThreshold <= Len(h)
        PROVE  h[Len(h) - (b.failures + 1) + 1] # "fail"
    <3>1. Len(h) - (b.failures + 1) + 1 = Len(h) - b.failures
      BY <1>1
    <3>2. b.failures < Len(h)
      BY <1>1, <1>2, <1>4, <2>2
    <3>3. QED
      BY <1>1, <3>1, <3>2 DEF CountsRun
  <2>3. b.failures + 1 \in 1..FailureThreshold
    BY <1>1, <1>2, <1>4
  <2>4. QED
    BY <1>1, <1>2, <2>1, <2>2, <2>3 DEF FailureRun
<1>5. QED
  BY <1>1, <1>2, <1>3, <1>4

\* CircuitBreaker under any interleaving of calls, retries and late results:
\* open exactly when the last FailureThreshold results are failures.
THEOREM OpenAfterFailureRun == ProviderSpec => []OpenIffFailureRun
<1>1. ProviderInit => CountInv
  BY BreakerAssumption
  DEF BreakerAssumption, ProviderInit, CountInv, CountsRun, NewBreaker
<1>2. TypeOK /\ CountInv /\ [ProviderNext]_providerVars => CountInv'
  <2> SUFFICES ASSUME TypeOK, CountInv, [ProviderNext]_providerVars
               PROVE  CountInv'
    OBVIOUS
  <2>1. CASE UNCHANGED <<breaker, outcomes>>
    BY <2>1 DEF CountInv
  <2>2. ASSUME NEW p \in Providers, Record(p, "ok", RecordSuccess(breaker[p]))
        PROVE  CountInv'
    <3>1. CountsRun(RecordSuccess(breaker[p]), Append(outcomes[p], "ok"))
      BY CountAfterSuccess DEF TypeOK
    <3>2. QED
      BY <2>2, <3>1 DEF Record, CountInv, TypeOK
  <2>3. ASSUME NEW p \in Providers, Record(p, "fail", RecordFailure(breaker[p]))
        PROVE  CountInv'
    <3>1. CountsRun(RecordFailure(breaker[p]), Append(outcomes[p], "fail"))
      BY CountAfterFailure DEF TypeOK, CountInv
    <3>2. QED
      BY <2>3, <3>1 DEF Record, CountInv, TypeOK
  <2>4. CASE Tick
    BY <2>4, ElapseFacts DEF Tick, CountInv, CountsRun, TypeOK
  <2>5. QED
    BY <2>1, <2>2, <2>3, <2>4, BreakerSteps
<1>3. QED
  BY <1>1, <1>2, Typing, CountMeansRun, PTL DEF ProviderSpec

-----------------------------------------------------------------------------
(* Retries: one attempt's output, and no transient error before its time.  *)

\* While a call is under way, output is what the current attempt yielded, and
\* a call that sleeps has yielded nothing and has attempts left.
CallOK(k) ==
    /\ k.attempt <= MaxRetries
    /\ k.emitted \subseteq {k.attempt}
    /\ k.pc = "calling" => (k.chunks = 0 <=> k.emitted = {})
    /\ k.pc = "backoff" => k.emitted = {} /\ k.attempt < MaxRetries
    /\ k.pc \in {"calling", "backoff"} => k.error = "none"
    /\ k.error = "retryable" /\ k.emitted = {} => k.attempt = MaxRetries

CallInv == \A p \in Providers, c \in Calls : CallOK(call[p][c])

\* The new call, when it is refused or admitted.
LEMMA FreshOK ==
    ASSUME NEW mode \in Modes, NEW probe \in BOOLEAN
    PROVE  /\ CallOK([NotCalled EXCEPT !.pc = "calling", !.mode = mode, !.probe = probe])
           /\ CallOK([NotCalled EXCEPT !.pc = "raised", !.mode = mode,
                                       !.error = "unavailable"])
  BY ProviderAssumption DEF ProviderAssumption, CallOK, NotCalled

\* A chunk is output of the attempt that is under way.
LEMMA ChunkOK ==
    ASSUME NEW k \in CallRec, CallOK(k), k.pc = "calling"
    PROVE  CallOK([k EXCEPT !.chunks = k.chunks + 1,
                            !.emitted = k.emitted \union {k.attempt}])
  BY DEF CallOK, CallRec

\* The next attempt starts with nothing delivered.
LEMMA RetryOK ==
    ASSUME NEW k \in CallRec, CallOK(k), k.pc = "backoff"
    PROVE  CallOK([k EXCEPT !.pc = "calling", !.attempt = k.attempt + 1, !.chunks = 0])
  BY ProviderAssumption DEF ProviderAssumption, CallOK, CallRec

\* A call ends well, is cut off, or gives up for the reasons GivesUp has.
LEMMA EndOK ==
    ASSUME NEW k \in CallRec, CallOK(k), NEW pc \in {"returned", "aborted"}
    PROVE  CallOK([k EXCEPT !.pc = pc])
  BY DEF CallOK, CallRec

LEMMA FailOK ==
    ASSUME NEW k \in CallRec, CallOK(k), k.pc = "calling", NEW f \in UpstreamFailure
    PROVE  /\ GivesUp(k, f) => CallOK([k EXCEPT !.pc = "raised",
                 !.error = IF Retryable(f) THEN "retryable" ELSE "fatal"])
           /\ ~GivesUp(k, f) => CallOK([k EXCEPT !.pc = "backoff"])
  BY ProviderAssumption DEF ProviderAssumption, CallOK, CallRec, GivesUp

\* Every step keeps every call in order.
THEOREM CallsInOrder == ProviderSpec => []CallInv
<1>1. ProviderInit => CallInv
  BY ProviderAssumption
  DEF ProviderAssumption, ProviderInit, CallInv, CallOK, NotCalled
<1>2. TypeOK /\ CallInv /\ [ProviderNext]_providerVars => CallInv'
  <2> SUFFICES ASSUME TypeOK, CallInv, [ProviderNext]_providerVars
               PROVE  CallInv'
    OBVIOUS
  <2>1. ASSUME NEW p \in Providers, NEW c \in Calls, NEW rec \in CallRec,
               CallOK(rec), Become(p, c, rec)
        PROVE  CallInv'
    BY <2>1, BecomeFacts DEF CallInv, TypeOK
  <2>2. ASSUME NEW p \in Providers, NEW c \in Calls
        PROVE  call[p][c] \in CallRec /\ CallOK(call[p][c])
    BY DEF TypeOK, CallInv
  <2>3. ASSUME NEW p \in Providers, NEW c \in Calls, NEW mode \in Modes,
               Admit(p, c, mode) \/ Refuse(p, c, mode)
        PROVE  CallInv'
    BY <2>1, <2>3, FreshRecords, FreshOK DEF Admit, Refuse
  <2>4. ASSUME NEW p \in Providers, NEW c \in Calls, Chunk(p, c)
        PROVE  CallInv'
    <3> DEFINE k == call[p][c]
               rec == [k EXCEPT !.chunks = k.chunks + 1,
                                !.emitted = k.emitted \union {k.attempt}]
    <3>1. k.chunks + 1 \in Nat /\ k.emitted \union {k.attempt} \in SUBSET Nat
      BY <2>2 DEF CallRec
    <3>2. rec \in CallRec /\ CallOK(rec)
      BY <2>2, <2>4, <3>1, ChunkRecord, ChunkOK DEF Chunk
    <3>3. Become(p, c, rec)
      BY <2>4 DEF Chunk
    <3>4. QED
      BY <2>1, <3>2, <3>3
  <2>5. ASSUME NEW p \in Providers, NEW c \in Calls, Retry(p, c)
        PROVE  CallInv'
    <3> DEFINE k == call[p][c]
               rec == [k EXCEPT !.pc = "calling", !.attempt = k.attempt + 1, !.chunks = 0]
    <3>1. k.attempt + 1 \in Nat
      BY <2>2 DEF CallRec
    <3>2. rec \in CallRec /\ CallOK(rec)
      BY <2>2, <2>5, <3>1, RetryRecord, RetryOK DEF Retry
    <3>3. Become(p, c, rec)
      BY <2>5 DEF Retry
    <3>4. QED
      BY <2>1, <3>2, <3>3
  <2>6. ASSUME NEW p \in Providers, NEW c \in Calls, Succeed(p, c) \/ Abort(p, c)
        PROVE  CallInv'
    BY <2>1, <2>2, <2>6, PcRecord, EndOK DEF Succeed, Abort
  <2>7. ASSUME NEW p \in Providers, NEW c \in Calls,
               NEW f \in UpstreamFailure, Fail(p, c, f)
        PROVE  CallInv'
    <3> DEFINE k == call[p][c]
               raised == [k EXCEPT !.pc = "raised",
                            !.error = IF Retryable(f) THEN "retryable" ELSE "fatal"]
    <3>1. raised \in CallRec /\ [k EXCEPT !.pc = "backoff"] \in CallRec
      BY <2>2, PcRecord, ErrorRecord
    <3>2. k.pc = "calling"
      BY <2>7 DEF Fail
    <3>3. CASE GivesUp(k, f)
      <4>1. CallOK(raised)
        BY <2>2, <3>2, <3>3, FailOK
      <4>2. Become(p, c, raised)
        BY <2>7, <3>3 DEF Fail
      <4>3. QED
        BY <2>1, <3>1, <4>1, <4>2
    <3>4. CASE ~GivesUp(k, f)
      <4>1. CallOK([k EXCEPT !.pc = "backoff"])
        BY <2>2, <3>2, <3>4, FailOK
      <4>2. Become(p, c, [k EXCEPT !.pc = "backoff"])
        BY <2>7, <3>4 DEF Fail
      <4>3. QED
        BY <2>1, <3>1, <4>1, <4>2
    <3>5. QED
      BY <3>3, <3>4
  <2>8. CASE UNCHANGED call
    BY <2>8 DEF CallInv
  <2>9. QED
    BY <2>3, <2>4, <2>5, <2>6, <2>7, <2>8
    DEF ProviderNext, Start, Progress, Quiescent, Tick, providerVars
<1>3. QED
  BY <1>1, <1>2, Typing, PTL DEF ProviderSpec

\* BaseLLMProvider.stream never mixes the output of two attempts.
THEOREM NoMixedOutput == ProviderSpec => []OutputFromOneAttempt
<1>1. CallInv => OutputFromOneAttempt
  BY DEF CallInv, CallOK, OutputFromOneAttempt
<1>2. QED
  BY <1>1, CallsInOrder, PTL

\* BaseLLMProvider retries a transient error as often as it may, and no more.
THEOREM BudgetKept == ProviderSpec => []RetryBudget
<1>1. CallInv => RetryBudget
  BY DEF CallInv, CallOK, RetryBudget
<1>2. QED
  BY <1>1, CallsInOrder, PTL
=============================================================================
