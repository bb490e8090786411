---------------------------- MODULE RateLimiter ----------------------------
(***************************************************************************)
(* RateLimitService of services/rate_limit_service.py: one tenant's token  *)
(* bucket in Redis, consumed by concurrent checks under WATCH/MULTI/EXEC.  *)
(*                                                                         *)
(* A limit of l per Window clock ticks refills l/Window tokens a tick.  To *)
(* stay in the integers tokens are counted in units of 1/Window: the       *)
(* bucket holds at most l * Window, a tick adds l, a request costs Window. *)
(*                                                                         *)
(* One action is one round trip to Redis.  A write, a new expiry time and  *)
(* an expiry of the key all fail the transactions that watch it.           *)
(***************************************************************************)
EXTENDS Integers

CONSTANTS
    Checks,         \* calls of check_and_increment for the tenant
    Window,         \* clock ticks in a minute
    DefaultLimit,   \* default_limit_per_minute
    Overrides,      \* values of limit_per_minute; 0 also stands for None
    MaxTries,       \* attempts at the transaction (5 in the code)
    FailOpen,       \* fail_open
    RedisMayFail,
    MaxTime         \* bound: the last tick of the clock

ASSUME LimiterAssumption ==
    /\ {Window, DefaultLimit, MaxTries} \subseteq Nat \ {0}
    /\ Overrides \subseteq Int
    /\ MaxTime \in Nat
    /\ {FailOpen, RedisMayFail} \subseteq BOOLEAN

VARIABLES
    clock,      \* time.time(), the same for all gateway processes
    bucket,     \* the hash under the tenant's key, or NoBucket
    check,      \* check[c]  : where call c stands
    dirty,      \* the checks whose watched key was changed since WATCH
    setbacks,   \* setbacks[c] : history: changes of the key by others and
                \* lost connections while c was trying, counted up to MaxTries
    spent,      \* history: the tokens that transactions have consumed
    horizon,    \* history: the instant up to which refill has been credited
    regressed   \* history: a write has undone what was in the bucket

balanceVars == <<spent, horizon, regressed>>
limiterVars == <<clock, bucket, check, dirty, setbacks, balanceVars>>

Persistent == 0     \* as an expiry time: none
NoBucket == [tokens |-> 0, last |-> -1, expires |-> Persistent]

CheckRec ==
    [pc     : {"idle", "starting", "watching", "executing", "denying", "extending",
               "unmetered", "allowed", "denied", "contended", "failed"},
     limit  : Int,
     now    : 0..MaxTime,   \* captured once, before the first try
     tries  : 0..MaxTries,
     tokens : Nat]          \* computed from what the last HMGET returned

NotCalled == [pc |-> "idle", limit |-> 0, now |-> 0, tries |-> 0, tokens |-> 0]

LimiterTypeOK ==
    /\ clock \in 0..MaxTime
    /\ bucket \in [tokens : Nat, last : -1..MaxTime, expires : Nat]
    /\ check \in [Checks -> CheckRec]
    /\ dirty \subseteq Checks
    /\ setbacks \in [Checks -> 0..MaxTries]
    /\ spent \in Nat
    /\ horizon \in 0..MaxTime
    /\ regressed \in BOOLEAN

LimiterInit ==
    /\ clock = 0
    /\ bucket = NoBucket
    /\ check = [c \in Checks |-> NotCalled]
    /\ dirty = {}
    /\ setbacks = [c \in Checks |-> 0]
    /\ spent = 0
    /\ horizon = 0
    /\ regressed = FALSE

-----------------------------------------------------------------------------
At(c, pc) == check[c].pc = pc
Set(c, rec) == check' = [check EXCEPT ![c] = rec]
Goto(c, pc) == Set(c, [check[c] EXCEPT !.pc = pc])
Return(c, pc) == Set(c, [NotCalled EXCEPT !.pc = pc])
InFlight(c) ==
    check[c].pc \in {"starting", "watching", "executing", "denying", "extending"}
Least(a, b) == IF a <= b THEN a ELSE b

Cost == Window
Capacity(limit) == limit * Window

\* limit_per_minute or default: None and 0 alike fall back on the default.
EffectiveLimit(override) == IF override = 0 THEN DefaultLimit ELSE override

Begin(c, override) ==
    /\ At(c, "idle")
    /\ LET limit == EffectiveLimit(override)
       IN  IF limit <= 0
           THEN Return(c, "unmetered")
           ELSE Set(c, [pc |-> "starting", limit |-> limit, now |-> clock,
                        tries |-> 0, tokens |-> 0])
    /\ UNCHANGED <<clock, bucket, dirty, setbacks, balanceVars>>

Watch(c) ==
    /\ At(c, "starting")
    /\ Goto(c, "watching")
    /\ dirty' = dirty \ {c}
    /\ UNCHANGED <<clock, bucket, setbacks, balanceVars>>

\* The bucket as check c sees it at its own, possibly old, instant.
Refilled(c) ==
    LET k == check[c]
        elapsed == IF bucket.last > k.now THEN 0 ELSE k.now - bucket.last
    IN  IF bucket = NoBucket THEN Capacity(k.limit)
        ELSE Least(Capacity(k.limit), bucket.tokens + elapsed * k.limit)

\* Mutant of Read: the balance is not compared with the cost.
ReadUnchecked(c) ==
    /\ At(c, "watching")
    /\ Set(c, [check[c] EXCEPT !.tokens = Refilled(c), !.pc = "executing"])
    /\ UNCHANGED <<clock, bucket, dirty, setbacks, balanceVars>>

Read(c) ==
    /\ At(c, "watching")
    /\ Set(c, [check[c] EXCEPT
          !.tokens = Refilled(c),
          !.pc = IF Refilled(c) < Cost THEN "denying" ELSE "executing"])
    /\ UNCHANGED <<clock, bucket, dirty, setbacks, balanceVars>>

SetBack(losers) ==
    setbacks' = [d \in Checks |-> IF d \in losers /\ InFlight(d)
                                  THEN Least(setbacks[d] + 1, MaxTries)
                                  ELSE setbacks[d]]

\* The key changes: whoever else watches it has lost the race.
Touch(keeps, losers) ==
    /\ bucket' = keeps
    /\ dirty' = {d \in losers : InFlight(d)}
    /\ SetBack(losers)

\* HSET.  What was in the bucket is undone by a write without a transaction
\* over what the writer has not seen, and by one with an instant before the
\* last refill.
WriteBucket(c, tokens, expires, losers, unseen) ==
    /\ Touch([tokens |-> tokens, last |-> check[c].now, expires |-> expires], losers)
    /\ horizon' = check[c].now
    /\ regressed' = (regressed \/ unseen \/ check[c].now < horizon)

Others(c) == Checks \ {c}
TTL == 2 * Window

\* How check_and_increment ends on an exception of the client.
Error == IF FailOpen THEN "unmetered" ELSE "failed"

\* Mutant of TryAgain: one try too few.
TryAgainOnceLess(c) ==
    IF check[c].tries + 2 < MaxTries
    THEN Set(c, [check[c] EXCEPT !.tries = @ + 1, !.pc = "starting"])
    ELSE Return(c, "contended")

\* WatchError.
TryAgain(c) ==
    IF check[c].tries + 1 < MaxTries
    THEN Set(c, [check[c] EXCEPT !.tries = @ + 1, !.pc = "starting"])
    ELSE Return(c, "contended")

\* EXEC of HSET and PEXPIRE.
Consume(c, losers) ==
    /\ WriteBucket(c, check[c].tokens - Cost, clock + TTL, losers, FALSE)
    /\ spent' = spent + Cost
    /\ UNCHANGED clock

\* Mutant of Execute: the key is not watched.
ExecuteUnwatched(c) ==
    At(c, "executing") /\ Consume(c, Others(c)) /\ Return(c, "allowed")

Execute(c) ==
    /\ At(c, "executing") /\ c \notin dirty
    /\ Consume(c, Others(c))
    /\ \/ Return(c, "allowed")
       \/ RedisMayFail /\ Return(c, Error)     \* the answer is lost

\* The connection is lost at EXEC, which the client reports as a WatchError
\* too, whether the transaction took effect or not.
Disconnect(c) ==
    /\ RedisMayFail /\ At(c, "executing")
    /\ \/ c \notin dirty /\ Consume(c, Checks)
       \/ SetBack({c}) /\ UNCHANGED <<clock, bucket, dirty, balanceVars>>
    /\ TryAgain(c)

Conflict(c) ==
    /\ At(c, "executing") /\ c \in dirty
    /\ TryAgain(c)
    /\ UNCHANGED <<clock, bucket, dirty, setbacks, balanceVars>>

\* UNWATCH and then a plain HSET of what was read, which keeps the TTL.
Deny(c) ==
    /\ At(c, "denying")
    /\ WriteBucket(c, check[c].tokens, bucket.expires, Others(c), c \in dirty)
    /\ Goto(c, "extending")
    /\ UNCHANGED <<clock, spent>>

\* PEXPIRE after it, without effect if the key is gone.
Extend(c) ==
    /\ At(c, "extending")
    /\ IF bucket = NoBucket
       THEN UNCHANGED <<bucket, dirty, setbacks>>
       ELSE Touch([bucket EXCEPT !.expires = clock + TTL], Others(c))
    /\ Return(c, "denied") \/ (RedisMayFail /\ Return(c, Error))
    /\ UNCHANGED <<clock, balanceVars>>

\* A command fails.  One whose effect came before is a step of its own.
Break(c) ==
    /\ RedisMayFail /\ InFlight(c)
    /\ Return(c, Error)
    /\ UNCHANGED <<clock, bucket, dirty, setbacks, balanceVars>>

Tick ==
    /\ clock < MaxTime
    /\ clock' = clock + 1
    /\ UNCHANGED <<bucket, check, dirty, setbacks, balanceVars>>

ExpireBucket ==
    /\ bucket.expires # Persistent /\ bucket.expires <= clock
    /\ Touch(NoBucket, Checks)
    /\ horizon' = clock
    /\ UNCHANGED <<clock, check, spent, regressed>>

Step(c) ==
    \/ Watch(c) \/ Read(c) \/ Execute(c) \/ Disconnect(c) \/ Conflict(c)
    \/ Deny(c) \/ Extend(c) \/ Break(c)

Decided == \A c \in Checks : ~At(c, "idle") /\ ~InFlight(c)

LimiterNext ==
    \/ \E c \in Checks : Step(c) \/ \E o \in Overrides : Begin(c, o)
    \/ Tick
    \/ ExpireBucket
    \/ Decided /\ UNCHANGED limiterVars

LimiterSpec == LimiterInit /\ [][LimiterNext]_limiterVars

-----------------------------------------------------------------------------
(* Properties.                                                             *)

Limits == {EffectiveLimit(o) : o \in Overrides}

\* The budget of limit l up to now: a full bucket and what time added to it.
Budget(l) == Capacity(l) + clock * l

\* RateLimitService: what the checks of one tenant consume together stays
\* within the budget of the highest limit among them, however transactions,
\* conflicts, expiries and lost answers interleave, as long as no write has
\* undone another: only a denial's unconditional HSET and an instant taken
\* before a longer retry can do that.
BudgetUnlessRegressed ==
    \/ regressed \/ spent = 0
    \/ \E l \in Limits : l > 0 /\ spent <= Budget(l)

\* _consume_token: a check is refused for contention only when every one of
\* its tries was beaten by another change of the key or cut off by a lost
\* connection while it was trying.
ContentionMeansProgress ==
    \A c \in Checks : At(c, "contended") => setbacks[c] >= MaxTries

-----------------------------------------------------------------------------
\* ARCHITECTURE.md: the "Redis token bucket" has "WATCH/MULTI atomicity", so
\* that the budget is kept without that condition.
WithinBudget == spent = 0 \/ \E l \in Limits : l > 0 /\ spent <= Budget(l)
=============================================================================
