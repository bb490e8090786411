--------------------------- MODULE CircuitBreaker ---------------------------
(***************************************************************************)
(* The CircuitBreaker class of providers/base.py as operators on its       *)
(* value.  Every method of the class runs under an asyncio lock and awaits *)
(* nothing while it holds it, so each is one atomic function of the value. *)
(*                                                                         *)
(* The code stores the instant _opened_at and compares the time since then *)
(* with the cooldown.  Only that comparison is ever used, so the value     *)
(* here keeps the time elapsed since _opened_at, saturating at Cooldown.   *)
(***************************************************************************)
EXTENDS Naturals

CONSTANTS
    FailureThreshold,   \* circuit_failure_threshold
    Cooldown            \* circuit_cooldown_seconds, in clock ticks

ASSUME BreakerAssumption ==
    /\ FailureThreshold \in Nat \ {0}
    /\ Cooldown \in Nat

\* _state never holds HALF_OPEN: that state is only ever computed.
Breaker == [failures : Nat, state : {"CLOSED", "OPEN"}, elapsed : 0..Cooldown]

NewBreaker == [failures |-> 0, state |-> "CLOSED", elapsed |-> 0]

\* Mutant of EffectiveState: an open circuit never half-opens.
EffectiveStateLatched(b) == b.state

EffectiveState(b) ==
    IF b.state = "OPEN" /\ b.elapsed >= Cooldown THEN "HALF_OPEN" ELSE b.state

AllowRequest(b) == EffectiveState(b) # "OPEN"

\* Mutant of RecordSuccess: the failure count is not reset.
RecordSuccessKeepsCount(b) == [b EXCEPT !.state = "CLOSED", !.elapsed = 0]

RecordSuccess(b) == NewBreaker

\* Mutant of RecordFailure: a failed probe stores the computed state.
RecordFailureStoresState(b) ==
    LET counted == [b EXCEPT !.failures = @ + 1]
    IN  IF EffectiveState(counted) # "HALF_OPEN" /\ counted.failures >= FailureThreshold
        THEN [failures |-> counted.failures, state |-> "OPEN", elapsed |-> 0]
        ELSE [counted EXCEPT !.state = EffectiveState(counted)]

\* Both branches of the code that open the circuit also stamp _opened_at.
RecordFailure(b) ==
    LET counted  == [b EXCEPT !.failures = @ + 1]
        reopened == [failures |-> counted.failures, state |-> "OPEN", elapsed |-> 0]
    IN  IF \/ EffectiveState(counted) = "HALF_OPEN"
           \/ counted.failures >= FailureThreshold
        THEN reopened
        ELSE counted

\* time.monotonic() advances by one tick.
CoolingDown(b) == b.state = "OPEN" /\ b.elapsed < Cooldown
Elapse(b) == IF CoolingDown(b) THEN [b EXCEPT !.elapsed = @ + 1] ELSE b
=============================================================================
