------------------------- MODULE RateLimiterProofs -------------------------
(***************************************************************************)
(* Theorems about RateLimiter: its types, which rest on no transaction     *)
(* consuming more than it has read, the cause of every refusal for         *)
(* contention, and the budget that the checks of a tenant share.           *)
(***************************************************************************)
EXTENDS RateLimiter, TLAPS

FlightPcs == {"starting", "watching", "executing", "denying", "extending"}
EndPcs == {"unmetered", "allowed", "denied", "contended", "failed"}

\* A check in flight has a positive limit and tries left, and sends a
\* transaction only if what it has read covers the cost.
CheckOK(k) ==
    /\ k \in CheckRec
    /\ k.pc \in FlightPcs => k.limit \in Nat \ {0} /\ k.tries < MaxTries
    /\ k.pc = "executing" => k.tokens >= Cost

ChecksOK == \A c \in Checks : CheckOK(check[c])

-----------------------------------------------------------------------------
(* Helper functions.                                                       *)

\* What the constants are.
LEMMA ConstantFacts ==
    /\ Window \in Nat \ {0}
    /\ DefaultLimit \in Nat \ {0}
    /\ MaxTries \in Nat \ {0}
    /\ MaxTime \in Nat
    /\ \A o \in Overrides : o \in Int
  BY LimiterAssumption DEF LimiterAssumption

\* A product of natural numbers is one.
LEMMA Products == \A a, b \in Nat : a * b \in Nat
  OBVIOUS

\* A check reads a balance, never a debt.
LEMMA RefilledFacts ==
    ASSUME LimiterTypeOK, NEW c \in Checks, check[c] \in CheckRec,
           check[c].limit \in Nat
    PROVE  Refilled(c) \in Nat
<1> DEFINE k == check[c]
           elapsed == IF bucket.last > k.now THEN 0 ELSE k.now - bucket.last
<1>1. /\ k.now \in 0..MaxTime /\ bucket.last \in -1..MaxTime
      /\ bucket.tokens \in Nat /\ k.limit \in Nat
  BY DEF LimiterTypeOK, CheckRec
<1>2. elapsed \in Nat
  BY <1>1, ConstantFacts
<1>3. Capacity(k.limit) \in Nat
  BY <1>1, ConstantFacts, Products DEF Capacity
<1>4. elapsed * k.limit \in Nat
  BY <1>1, <1>2, Products
<1> HIDE DEF elapsed
<1>5. bucket.tokens + elapsed * k.limit \in Nat
  BY <1>1, <1>4
<1>6. Least(Capacity(k.limit), bucket.tokens + elapsed * k.limit) \in Nat
  BY <1>3, <1>5 DEF Least
<1>7. QED
  BY <1>3, <1>6 DEF Refilled, elapsed

-----------------------------------------------------------------------------
(* The records a step may leave behind.                                    *)

\* A call that returns keeps nothing.
LEMMA ReturnOK ==
    ASSUME NEW pc \in EndPcs
    PROVE  CheckOK([NotCalled EXCEPT !.pc = pc])
  BY ConstantFacts DEF CheckOK, CheckRec, NotCalled, EndPcs, FlightPcs

\* A call starts with a positive limit and all of its tries.
LEMMA BeginOK ==
    ASSUME NEW limit \in Nat \ {0}, NEW now \in 0..MaxTime
    PROVE  CheckOK([pc |-> "starting", limit |-> limit, now |-> now, tries |-> 0,
                    tokens |-> 0])
  BY ConstantFacts DEF CheckOK, CheckRec

\* A check that moves on without a transaction keeps what it holds.
LEMMA GotoOK ==
    ASSUME NEW k \in CheckRec, CheckOK(k), k.pc \in FlightPcs,
           NEW pc \in FlightPcs \ {"executing"}
    PROVE  CheckOK([k EXCEPT !.pc = pc])
  BY DEF CheckOK, CheckRec, FlightPcs

\* A check executes only if what it has read covers the cost.
LEMMA ReadOK ==
    ASSUME NEW k \in CheckRec, CheckOK(k), k.pc \in FlightPcs, NEW tokens \in Nat,
           NEW pc \in {"denying", "executing"}, pc = "executing" => tokens >= Cost
    PROVE  CheckOK([k EXCEPT !.tokens = tokens, !.pc = pc])
  BY DEF CheckOK, CheckRec, FlightPcs

\* A check starts over only while it has tries left.
LEMMA AgainOK ==
    ASSUME NEW k \in CheckRec, CheckOK(k), k.pc \in FlightPcs,
           NEW tries \in 0..MaxTries, tries < MaxTries
    PROVE  CheckOK([k EXCEPT !.tries = tries, !.pc = "starting"])
  BY ConstantFacts DEF CheckOK, CheckRec, FlightPcs

\* The check of one call is replaced.
LEMMA SetFacts ==
    ASSUME LimiterTypeOK, ChecksOK, NEW c \in Checks, NEW k, CheckOK(k), Set(c, k)
    PROVE  check' \in [Checks -> CheckRec] /\ ChecksOK'
  BY DEF LimiterTypeOK, ChecksOK, CheckOK, Set
-----------------------------------------------------------------------------
(* Types.                                                                  *)

\* The control states in which a check is in flight.
LEMMA PcFacts ==
    \A c \in Checks : InFlight(c) <=> check[c].pc \in FlightPcs
  BY DEF InFlight, FlightPcs

\* What a change of the key does to the shared state and the histories.
LEMMA TouchFacts ==
    ASSUME LimiterTypeOK, NEW losers \in SUBSET Checks,
           NEW keeps \in [tokens : Nat, last : -1..MaxTime, expires : Nat],
           Touch(keeps, losers)
    PROVE  /\ bucket' \in [tokens : Nat, last : -1..MaxTime, expires : Nat]
           /\ dirty' \subseteq Checks
           /\ setbacks' \in [Checks -> 0..MaxTries]
<1>1. setbacks' \in [Checks -> 0..MaxTries]
  BY ConstantFacts DEF Touch, SetBack, LimiterTypeOK, Least
<1>2. QED
  BY <1>1 DEF Touch

\* Setbacks are counted up to MaxTries.
LEMMA SetBackFacts ==
    ASSUME LimiterTypeOK, NEW losers \in SUBSET Checks, SetBack(losers)
    PROVE  setbacks' \in [Checks -> 0..MaxTries]
  BY ConstantFacts DEF SetBack, LimiterTypeOK, Least

\* What HSET does to the shared state and the histories.
LEMMA WriteFacts ==
    ASSUME LimiterTypeOK, NEW c \in Checks, NEW tokens \in Nat, NEW expires \in Nat,
           NEW losers \in SUBSET Checks, NEW unseen \in BOOLEAN,
           WriteBucket(c, tokens, expires, losers, unseen)
    PROVE  /\ bucket' \in [tokens : Nat, last : -1..MaxTime, expires : Nat]
           /\ dirty' \subseteq Checks
           /\ setbacks' \in [Checks -> 0..MaxTries]
           /\ horizon' \in 0..MaxTime
           /\ regressed' \in BOOLEAN
<1> DEFINE keeps == [tokens |-> tokens, last |-> check[c].now, expires |-> expires]
<1>1. check[c].now \in 0..MaxTime
  BY DEF LimiterTypeOK, CheckRec
<1>2. keeps \in [tokens : Nat, last : -1..MaxTime, expires : Nat]
  BY <1>1, ConstantFacts
<1>3. Touch(keeps, losers) /\ horizon' = check[c].now
  BY DEF WriteBucket
<1>4. regressed' \in BOOLEAN
  BY DEF WriteBucket
<1> HIDE DEF keeps
<1>5. QED
  BY <1>1, <1>2, <1>3, <1>4, TouchFacts

\* A transaction takes no more than its check has read.
LEMMA ConsumeFacts ==
    ASSUME LimiterTypeOK, ChecksOK, NEW c \in Checks, At(c, "executing"),
           NEW losers \in SUBSET Checks, Consume(c, losers)
    PROVE  /\ clock' \in 0..MaxTime
           /\ bucket' \in [tokens : Nat, last : -1..MaxTime, expires : Nat]
           /\ dirty' \subseteq Checks
           /\ setbacks' \in [Checks -> 0..MaxTries]
           /\ spent' \in Nat
           /\ horizon' \in 0..MaxTime
           /\ regressed' \in BOOLEAN
<1>1. check[c].tokens - Cost \in Nat /\ Cost \in Nat
  BY ConstantFacts DEF ChecksOK, CheckOK, CheckRec, At, Cost
<1>2. clock + TTL \in Nat
  BY ConstantFacts DEF TTL, LimiterTypeOK
<1>3. WriteBucket(c, check[c].tokens - Cost, clock + TTL, losers, FALSE)
  BY DEF Consume
<1>4. spent' \in Nat /\ clock' \in 0..MaxTime
  BY <1>1 DEF Consume, LimiterTypeOK
<1>5. QED
  BY <1>1, <1>2, <1>3, <1>4, WriteFacts

\* A check that may try again does so, or is refused.
LEMMA TryAgainFacts ==
    ASSUME LimiterTypeOK, ChecksOK, NEW c \in Checks, At(c, "executing"), TryAgain(c)
    PROVE  check' \in [Checks -> CheckRec] /\ ChecksOK'
<1>1. check[c] \in CheckRec /\ CheckOK(check[c]) /\ check[c].pc \in FlightPcs
  BY DEF LimiterTypeOK, ChecksOK, At, FlightPcs
<1>2. CASE check[c].tries + 1 < MaxTries
  <2> DEFINE rec == [check[c] EXCEPT !.tries = check[c].tries + 1, !.pc = "starting"]
  <2>1. check[c].tries + 1 \in 0..MaxTries
    BY <1>1, <1>2, ConstantFacts DEF CheckRec
  <2>2. CheckOK(rec)
    BY <1>1, <1>2, <2>1, AgainOK
  <2>3. Set(c, rec)
    BY <1>2 DEF TryAgain
  <2> HIDE DEF rec
  <2>4. QED
    BY <2>2, <2>3, SetFacts
<1>3. CASE ~(check[c].tries + 1 < MaxTries)
  <2> DEFINE rec == [NotCalled EXCEPT !.pc = "contended"]
  <2>1. CheckOK(rec)
    BY ReturnOK DEF EndPcs
  <2>2. Set(c, rec)
    BY <1>3 DEF TryAgain, Return
  <2> HIDE DEF rec
  <2>3. QED
    BY <2>1, <2>2, SetFacts
<1>4. QED
  BY <1>2, <1>3

\* A call that returns leaves the checks in order.
LEMMA ReturnFacts ==
    ASSUME LimiterTypeOK, ChecksOK, NEW c \in Checks, NEW pc \in EndPcs, Return(c, pc)
    PROVE  check' \in [Checks -> CheckRec] /\ ChecksOK'
<1> DEFINE rec == [NotCalled EXCEPT !.pc = pc]
<1>1. CheckOK(rec)
  BY ReturnOK
<1>2. Set(c, rec)
  BY DEF Return
<1> HIDE DEF rec
<1>3. QED
  BY <1>1, <1>2, SetFacts

\* So does one that moves on.
LEMMA GotoFacts ==
    ASSUME LimiterTypeOK, ChecksOK, NEW c \in Checks, check[c].pc \in FlightPcs,
           NEW pc \in FlightPcs \ {"executing"}, Goto(c, pc)
    PROVE  check' \in [Checks -> CheckRec] /\ ChecksOK'
<1> DEFINE rec == [check[c] EXCEPT !.pc = pc]
<1>1. CheckOK(rec)
  BY GotoOK DEF LimiterTypeOK, ChecksOK
<1>2. Set(c, rec)
  BY DEF Goto
<1> HIDE DEF rec
<1>3. QED
  BY <1>1, <1>2, SetFacts

\* Before any call the types hold.
LEMMA TypingInit == LimiterInit => LimiterTypeOK /\ ChecksOK
<1> SUFFICES ASSUME LimiterInit
             PROVE  LimiterTypeOK /\ ChecksOK
  OBVIOUS
<1>1. NotCalled \in CheckRec /\ CheckOK(NotCalled)
  BY ConstantFacts DEF NotCalled, CheckRec, CheckOK, FlightPcs
<1>2. check \in [Checks -> CheckRec] /\ ChecksOK
  BY <1>1 DEF LimiterInit, ChecksOK
<1>3. bucket \in [tokens : Nat, last : -1..MaxTime, expires : Nat]
  BY ConstantFacts DEF LimiterInit, NoBucket, Persistent
<1>4. setbacks \in [Checks -> 0..MaxTries] /\ clock \in 0..MaxTime /\ horizon \in 0..MaxTime
  BY ConstantFacts DEF LimiterInit
<1>5. spent \in Nat /\ regressed \in BOOLEAN /\ dirty \subseteq Checks
  BY DEF LimiterInit
<1>6. QED
  BY <1>2, <1>3, <1>4, <1>5 DEF LimiterTypeOK

\* Every action keeps the types and the checks in order.
LEMMA TypingStep ==
    LimiterTypeOK /\ ChecksOK /\ [LimiterNext]_limiterVars => LimiterTypeOK' /\ ChecksOK'
<1> SUFFICES ASSUME LimiterTypeOK, ChecksOK, [LimiterNext]_limiterVars
             PROVE  LimiterTypeOK' /\ ChecksOK'
  OBVIOUS
<1>1. ASSUME NEW c \in Checks, NEW o \in Overrides, Begin(c, o)
      PROVE  LimiterTypeOK' /\ ChecksOK'
  <2> DEFINE limit == EffectiveLimit(o)
             rec == [pc |-> "starting", limit |-> limit, now |-> clock, tries |-> 0,
                     tokens |-> 0]
  <2>1. limit \in Int
    BY ConstantFacts DEF EffectiveLimit
  <2>2. Return(c, "unmetered") \/ (limit > 0 /\ Set(c, rec))
    BY <1>1, <2>1 DEF Begin
  <2>3. limit > 0 => CheckOK(rec)
    BY <2>1, BeginOK DEF LimiterTypeOK
  <2> HIDE DEF limit, rec
  <2>4. check' \in [Checks -> CheckRec] /\ ChecksOK'
    BY <2>2, <2>3, SetFacts, ReturnFacts DEF EndPcs
  <2>5. QED
    BY <1>1, <2>4 DEF Begin, balanceVars, LimiterTypeOK
<1>2. ASSUME NEW c \in Checks, Watch(c)
      PROVE  LimiterTypeOK' /\ ChecksOK'
  <2>1. check' \in [Checks -> CheckRec] /\ ChecksOK'
    BY <1>2, GotoFacts DEF Watch, At, FlightPcs
  <2>2. QED
    BY <1>2, <2>1 DEF Watch, balanceVars, LimiterTypeOK
<1>3. ASSUME NEW c \in Checks, Read(c)
      PROVE  LimiterTypeOK' /\ ChecksOK'
  <2> DEFINE pc == IF Refilled(c) < Cost THEN "denying" ELSE "executing"
             rec == [check[c] EXCEPT !.tokens = Refilled(c), !.pc = pc]
  <2>1. check[c] \in CheckRec /\ CheckOK(check[c]) /\ check[c].pc \in FlightPcs
    BY <1>3 DEF LimiterTypeOK, ChecksOK, Read, At, FlightPcs
  <2>2. Refilled(c) \in Nat /\ Cost \in Nat
    BY <2>1, RefilledFacts, ConstantFacts DEF CheckOK, Cost
  <2>3. pc \in {"denying", "executing"} /\ (pc = "executing" => Refilled(c) >= Cost)
    BY <2>2
  <2>4. Set(c, rec)
    BY <1>3 DEF Read
  <2> HIDE DEF pc
  <2>5. CheckOK(rec)
    BY <2>1, <2>2, <2>3, ReadOK
  <2> HIDE DEF rec
  <2>6. QED
    BY <1>3, <2>4, <2>5, SetFacts DEF Read, balanceVars, LimiterTypeOK
<1>4. ASSUME NEW c \in Checks, Execute(c)
      PROVE  LimiterTypeOK' /\ ChecksOK'
  <2>1. At(c, "executing") /\ Consume(c, Others(c)) /\ Others(c) \in SUBSET Checks
    BY <1>4 DEF Execute, Others
  <2>2. Return(c, "allowed") \/ Return(c, "unmetered") \/ Return(c, "failed")
    BY <1>4 DEF Execute, Error
  <2>3. check' \in [Checks -> CheckRec] /\ ChecksOK'
    BY <2>2, ReturnFacts DEF EndPcs
  <2>4. QED
    BY <2>1, <2>3, ConsumeFacts DEF LimiterTypeOK
<1>5. ASSUME NEW c \in Checks, Disconnect(c)
      PROVE  LimiterTypeOK' /\ ChecksOK'
  <2>1. At(c, "executing") /\ TryAgain(c)
    BY <1>5 DEF Disconnect
  <2>2. check' \in [Checks -> CheckRec] /\ ChecksOK'
    BY <2>1, TryAgainFacts
  <2>3. CASE Consume(c, Checks)
    BY <2>1, <2>2, <2>3, ConsumeFacts DEF LimiterTypeOK
  <2>4. CASE SetBack({c}) /\ UNCHANGED <<clock, bucket, dirty, balanceVars>>
    BY <2>2, <2>4, SetBackFacts DEF balanceVars, LimiterTypeOK
  <2>5. QED
    BY <1>5, <2>3, <2>4 DEF Disconnect
<1>6. ASSUME NEW c \in Checks, Conflict(c)
      PROVE  LimiterTypeOK' /\ ChecksOK'
  <2>1. check' \in [Checks -> CheckRec] /\ ChecksOK'
    BY <1>6, TryAgainFacts DEF Conflict
  <2>2. QED
    BY <1>6, <2>1 DEF Conflict, balanceVars, LimiterTypeOK
<1>7. ASSUME NEW c \in Checks, Deny(c)
      PROVE  LimiterTypeOK' /\ ChecksOK'
  <2> DEFINE unseen == c \in dirty
  <2>1. check' \in [Checks -> CheckRec] /\ ChecksOK'
    BY <1>7, GotoFacts DEF Deny, At, FlightPcs
  <2>2. /\ WriteBucket(c, check[c].tokens, bucket.expires, Others(c), unseen)
        /\ UNCHANGED <<clock, spent>>
    BY <1>7 DEF Deny
  <2>3. /\ check[c].tokens \in Nat /\ bucket.expires \in Nat
        /\ Others(c) \in SUBSET Checks /\ unseen \in BOOLEAN
    BY DEF LimiterTypeOK, CheckRec, Others
  <2> HIDE DEF unseen
  <2>4. QED
    BY <2>1, <2>2, <2>3, WriteFacts DEF LimiterTypeOK
<1>8. ASSUME NEW c \in Checks, Extend(c)
      PROVE  LimiterTypeOK' /\ ChecksOK'
  <2> DEFINE keeps == [bucket EXCEPT !.expires = clock + TTL]
  <2>1. Return(c, "denied") \/ Return(c, "unmetered") \/ Return(c, "failed")
    BY <1>8 DEF Extend, Error
  <2>2. check' \in [Checks -> CheckRec] /\ ChecksOK'
    BY <2>1, ReturnFacts DEF EndPcs
  <2>3. UNCHANGED <<clock, spent, horizon, regressed>>
    BY <1>8 DEF Extend, balanceVars
  <2>4. clock + TTL \in Nat
    BY ConstantFacts DEF TTL, LimiterTypeOK
  <2>5. keeps \in [tokens : Nat, last : -1..MaxTime, expires : Nat]
    BY <2>4 DEF LimiterTypeOK
  <2>6. UNCHANGED <<bucket, dirty, setbacks>> \/ Touch(keeps, Others(c))
    BY <1>8 DEF Extend
  <2> HIDE DEF keeps
  <2>7. Others(c) \in SUBSET Checks
    BY DEF Others
  <2>8. QED
    BY <2>2, <2>3, <2>5, <2>6, <2>7, TouchFacts DEF LimiterTypeOK
<1>9. ASSUME NEW c \in Checks, Break(c)
      PROVE  LimiterTypeOK' /\ ChecksOK'
  <2>1. Return(c, "unmetered") \/ Return(c, "failed")
    BY <1>9 DEF Break, Error
  <2>2. check' \in [Checks -> CheckRec] /\ ChecksOK'
    BY <2>1, ReturnFacts DEF EndPcs
  <2>3. QED
    BY <1>9, <2>2 DEF Break, balanceVars, LimiterTypeOK
<1>10. CASE Tick
  BY <1>10, ConstantFacts DEF Tick, balanceVars, LimiterTypeOK, ChecksOK
<1>11. CASE ExpireBucket
  <2>1. NoBucket \in [tokens : Nat, last : -1..MaxTime, expires : Nat]
    BY ConstantFacts DEF NoBucket, Persistent
  <2>2. Touch(NoBucket, Checks) /\ horizon' = clock /\ UNCHANGED <<clock, check, spent, regressed>>
    BY <1>11 DEF ExpireBucket
  <2>3. QED
    BY <2>1, <2>2, TouchFacts DEF LimiterTypeOK, ChecksOK
<1>12. CASE UNCHANGED limiterVars
  BY <1>12 DEF limiterVars, balanceVars, LimiterTypeOK, ChecksOK
<1>13. QED
  BY <1>1, <1>2, <1>3, <1>4, <1>5, <1>6, <1>7, <1>8, <1>9, <1>10, <1>11, <1>12
  DEF LimiterNext, Step

\* RateLimitService._consume_token, whatever checks interleave: no transaction
\* takes more than it has read, so that the bucket never goes into debt.
THEOREM LimiterTyping == LimiterSpec => []LimiterTypeOK
<1>1. QED
  BY TypingInit, TypingStep, PTL DEF LimiterSpec

\* RateLimitService._consume_token: a check that is under way has a positive
\* limit and a try left, and one that is about to execute its transaction has
\* read enough to pay for it.
THEOREM ChecksInOrder == LimiterSpec => []ChecksOK
<1>1. QED
  BY TypingInit, TypingStep, PTL DEF LimiterSpec

-----------------------------------------------------------------------------
(* Contention.                                                             *)

Watching == {"watching", "executing", "denying"}

\* Every try of a check before the present one was lost, and the present one
\* is too once the watched key has changed.
Beaten(c) ==
    /\ InFlight(c) => check[c].tries <= setbacks[c]
    /\ check[c].pc \in Watching /\ c \in dirty => check[c].tries + 1 <= setbacks[c]
    /\ At(c, "contended") => setbacks[c] >= MaxTries

BeatenOK == \A c \in Checks : Beaten(c)

\* What a step may do to a check other than moving it.
Quiet(d) == setbacks'[d] = setbacks[d] /\ (d \in dirty' => d \in dirty)
Bumped(d) == setbacks'[d] = IF InFlight(d) THEN Least(setbacks[d] + 1, MaxTries)
                                           ELSE setbacks[d]

\* The counts of one check.
LEMMA CheckTypes ==
    ASSUME LimiterTypeOK, ChecksOK, NEW c \in Checks
    PROVE  /\ check[c].tries \in 0..MaxTries /\ setbacks[c] \in 0..MaxTries
           /\ InFlight(c) => check[c].tries < MaxTries
           /\ MaxTries \in Nat
  BY ConstantFacts, PcFacts DEF LimiterTypeOK, ChecksOK, CheckOK, CheckRec

\* A step that leaves a check where it is keeps its count, whether it loses
\* the race for the key or not.
LEMMA Bystander ==
    ASSUME LimiterTypeOK, ChecksOK, NEW d \in Checks, Beaten(d),
           check'[d] = check[d], Quiet(d) \/ Bumped(d)
    PROVE  Beaten(d)'
<1>1. /\ check[d].tries \in 0..MaxTries /\ setbacks[d] \in 0..MaxTries
      /\ InFlight(d) => check[d].tries < MaxTries
      /\ MaxTries \in Nat
  BY CheckTypes
<1>2. check[d].pc \in Watching => InFlight(d)
  BY DEF Watching, InFlight
<1>3. At(d, "contended") => ~InFlight(d)
  BY DEF At, InFlight
<1>4. (InFlight(d)' <=> InFlight(d)) /\ (At(d, "contended")' <=> At(d, "contended"))
  BY DEF InFlight, At
<1>5. QED
  BY <1>1, <1>2, <1>3, <1>4 DEF Beaten, Quiet, Bumped, Least

\* One check moves, the others stay.
LEMMA SetOthers ==
    ASSUME LimiterTypeOK, NEW c \in Checks, NEW k, Set(c, k)
    PROVE  check'[c] = k /\ \A d \in Checks \ {c} : check'[d] = check[d]
  BY DEF LimiterTypeOK, Set

\* A change of the key sets back those that lose and no one else.
LEMMA TouchOthers ==
    ASSUME LimiterTypeOK, NEW losers \in SUBSET Checks, NEW keeps, Touch(keeps, losers)
    PROVE  /\ \A d \in losers : Bumped(d)
           /\ \A d \in Checks \ losers : Quiet(d) /\ d \notin dirty'
  BY DEF LimiterTypeOK, Touch, SetBack, Bumped, Quiet

\* A call that returns with another answer than "contended" claims nothing.
LEMMA ReturnBeaten ==
    ASSUME LimiterTypeOK, NEW c \in Checks, NEW pc \in EndPcs \ {"contended"},
           Return(c, pc)
    PROVE  Beaten(c)' /\ \A d \in Checks \ {c} : check'[d] = check[d]
<1> DEFINE rec == [NotCalled EXCEPT !.pc = pc]
<1>1. Set(c, rec) /\ rec.pc = pc
  BY DEF Return, NotCalled
<1> HIDE DEF rec
<1>2. check'[c].pc = pc /\ \A d \in Checks \ {c} : check'[d] = check[d]
  BY <1>1, SetOthers
<1>3. QED
  BY <1>2 DEF Beaten, InFlight, At, Watching, EndPcs

\* A try that was lost is one more setback than the tries before it.
LEMMA TryAgainBeaten ==
    ASSUME LimiterTypeOK, ChecksOK, NEW c \in Checks, At(c, "executing"), TryAgain(c),
           setbacks'[c] \in 0..MaxTries, setbacks'[c] >= check[c].tries + 1
    PROVE  Beaten(c)' /\ \A d \in Checks \ {c} : check'[d] = check[d]
<1>1. check[c].tries \in 0..MaxTries /\ MaxTries \in Nat
  BY CheckTypes
<1>2. CASE check[c].tries + 1 < MaxTries
  <2> DEFINE rec == [check[c] EXCEPT !.tries = check[c].tries + 1, !.pc = "starting"]
  <2>1. Set(c, rec)
    BY <1>2 DEF TryAgain
  <2>2. rec.pc = "starting" /\ rec.tries = check[c].tries + 1
    BY DEF LimiterTypeOK, CheckRec
  <2> HIDE DEF rec
  <2>3. check'[c] = rec /\ \A d \in Checks \ {c} : check'[d] = check[d]
    BY <2>1, SetOthers
  <2>4. QED
    BY <2>2, <2>3, <1>1 DEF Beaten, InFlight, At, Watching
<1>3. CASE ~(check[c].tries + 1 < MaxTries)
  <2> DEFINE rec == [NotCalled EXCEPT !.pc = "contended"]
  <2>1. Set(c, rec)
    BY <1>3 DEF TryAgain, Return
  <2>2. rec.pc = "contended"
    BY DEF NotCalled
  <2> HIDE DEF rec
  <2>3. check'[c] = rec /\ \A d \in Checks \ {c} : check'[d] = check[d]
    BY <2>1, SetOthers
  <2>4. QED
    BY <2>2, <2>3, <1>1, <1>3 DEF Beaten, InFlight, At, Watching
<1>4. QED
  BY <1>2, <1>3

\* Every action keeps the count of setbacks ahead of the tries.
LEMMA BeatenStep ==
    LimiterTypeOK /\ ChecksOK /\ BeatenOK /\ [LimiterNext]_limiterVars => BeatenOK'
<1> SUFFICES ASSUME LimiterTypeOK, ChecksOK, BeatenOK, [LimiterNext]_limiterVars
             PROVE  BeatenOK'
  OBVIOUS
<1> USE DEF BeatenOK
<1>1. ASSUME NEW c \in Checks, Beaten(c)',
             \A d \in Checks \ {c} : check'[d] = check[d],
             \A d \in Checks \ {c} : Quiet(d) \/ Bumped(d)
      PROVE  BeatenOK'
  <2>1. \A d \in Checks \ {c} : Beaten(d)'
    BY <1>1, Bystander
  <2>2. QED
    BY <1>1, <2>1
<1>2. ASSUME NEW c \in Checks, NEW o \in Overrides, Begin(c, o)
      PROVE  BeatenOK'
  <2> DEFINE limit == EffectiveLimit(o)
             rec == [pc |-> "starting", limit |-> limit, now |-> clock, tries |-> 0,
                     tokens |-> 0]
  <2>1. Return(c, "unmetered") \/ Set(c, rec)
    BY <1>2 DEF Begin
  <2>2. rec.pc = "starting" /\ rec.tries = 0
    OBVIOUS
  <2>3. UNCHANGED <<dirty, setbacks>>
    BY <1>2 DEF Begin
  <2> HIDE DEF rec
  <2>4. CASE Return(c, "unmetered")
    BY <2>3, <2>4, <1>1, ReturnBeaten DEF EndPcs, Quiet
  <2>5. CASE Set(c, rec)
    <3>1. check'[c] = rec /\ \A d \in Checks \ {c} : check'[d] = check[d]
      BY <2>5, SetOthers
    <3>2. Beaten(c)'
      BY <3>1, <2>2, <2>3, CheckTypes DEF Beaten, InFlight, At, Watching
    <3>3. QED
      BY <3>1, <3>2, <2>3, <1>1 DEF Quiet
  <2>6. QED
    BY <2>1, <2>4, <2>5
<1>3. ASSUME NEW c \in Checks, Watch(c)
      PROVE  BeatenOK'
  <2> DEFINE rec == [check[c] EXCEPT !.pc = "watching"]
  <2>1. Set(c, rec) /\ At(c, "starting") /\ dirty' = dirty \ {c} /\ setbacks' = setbacks
    BY <1>3 DEF Watch, Goto
  <2>2. rec.pc = "watching" /\ rec.tries = check[c].tries
    BY DEF LimiterTypeOK, CheckRec
  <2> HIDE DEF rec
  <2>3. check'[c] = rec /\ \A d \in Checks \ {c} : check'[d] = check[d]
    BY <2>1, SetOthers
  <2>4. Beaten(c)'
    BY <2>1, <2>2, <2>3 DEF Beaten, InFlight, At, Watching
  <2>5. QED
    BY <2>1, <2>3, <2>4, <1>1 DEF Quiet
<1>4. ASSUME NEW c \in Checks, Read(c)
      PROVE  BeatenOK'
  <2> DEFINE pc == IF Refilled(c) < Cost THEN "denying" ELSE "executing"
             rec == [check[c] EXCEPT !.tokens = Refilled(c), !.pc = pc]
  <2>1. Set(c, rec) /\ At(c, "watching") /\ dirty' = dirty /\ setbacks' = setbacks
    BY <1>4 DEF Read
  <2>2. pc \in {"denying", "executing"}
    OBVIOUS
  <2> HIDE DEF pc
  <2>3. rec.pc = pc /\ rec.tries = check[c].tries
    BY DEF LimiterTypeOK, CheckRec
  <2> HIDE DEF rec
  <2>4. check'[c] = rec /\ \A d \in Checks \ {c} : check'[d] = check[d]
    BY <2>1, SetOthers
  <2>5. Beaten(c)'
    BY <2>1, <2>2, <2>3, <2>4 DEF Beaten, InFlight, At, Watching
  <2>6. QED
    BY <2>1, <2>4, <2>5, <1>1 DEF Quiet
<1>5. ASSUME NEW c \in Checks, Execute(c)
      PROVE  BeatenOK'
  <2>1. Return(c, "allowed") \/ Return(c, "unmetered") \/ Return(c, "failed")
    BY <1>5 DEF Execute, Error
  <2>2. Beaten(c)' /\ \A d \in Checks \ {c} : check'[d] = check[d]
    BY <2>1, ReturnBeaten DEF EndPcs
  <2>3. PICK keeps : Touch(keeps, Others(c))
    BY <1>5 DEF Execute, Consume, WriteBucket
  <2>4. QED
    BY <2>2, <2>3, <1>1, TouchOthers DEF Others
<1>6. ASSUME NEW c \in Checks, Disconnect(c)
      PROVE  BeatenOK'
  <2>1. At(c, "executing") /\ TryAgain(c)
    BY <1>6 DEF Disconnect
  <2>2. InFlight(c)
    BY <2>1 DEF At, InFlight
  <2>3. Bumped(c) /\ \A d \in Checks \ {c} : Quiet(d) \/ Bumped(d)
    <3>1. CASE Consume(c, Checks)
      <4>1. PICK keeps : Touch(keeps, Checks)
        BY <3>1 DEF Consume, WriteBucket
      <4>2. QED
        BY <4>1, TouchOthers
    <3>2. CASE SetBack({c}) /\ dirty' = dirty
      BY <3>2 DEF SetBack, Quiet, Bumped, LimiterTypeOK
    <3>3. QED
      BY <1>6, <3>1, <3>2 DEF Disconnect
  <2>4. setbacks'[c] \in 0..MaxTries /\ setbacks'[c] >= check[c].tries + 1
    BY <2>2, <2>3, CheckTypes DEF Bumped, Least, Beaten
  <2>5. QED
    BY <2>1, <2>3, <2>4, <1>1, TryAgainBeaten
<1>7. ASSUME NEW c \in Checks, Conflict(c)
      PROVE  BeatenOK'
  <2>1. /\ At(c, "executing") /\ c \in dirty /\ TryAgain(c)
        /\ dirty' = dirty /\ setbacks' = setbacks
    BY <1>7 DEF Conflict
  <2>2. setbacks'[c] \in 0..MaxTries /\ setbacks'[c] >= check[c].tries + 1
    BY <2>1, CheckTypes DEF Beaten, At, Watching
  <2>3. QED
    BY <2>1, <2>2, <1>1, TryAgainBeaten DEF Quiet
<1>8. ASSUME NEW c \in Checks, Deny(c)
      PROVE  BeatenOK'
  <2> DEFINE rec == [check[c] EXCEPT !.pc = "extending"]
  <2>1. Set(c, rec) /\ At(c, "denying")
    BY <1>8 DEF Deny, Goto
  <2>2. rec.pc = "extending" /\ rec.tries = check[c].tries
    BY DEF LimiterTypeOK, CheckRec
  <2> HIDE DEF rec
  <2>3. PICK keeps : Touch(keeps, Others(c))
    BY <1>8 DEF Deny, WriteBucket
  <2>4. check'[c] = rec /\ \A d \in Checks \ {c} : check'[d] = check[d]
    BY <2>1, SetOthers
  <2>5. Quiet(c) /\ \A d \in Checks \ {c} : Quiet(d) \/ Bumped(d)
    BY <2>3, TouchOthers DEF Others
  <2>6. Beaten(c)'
    BY <2>1, <2>2, <2>4, <2>5 DEF Beaten, InFlight, At, Watching, Quiet
  <2>7. QED
    BY <2>4, <2>5, <2>6, <1>1
<1>9. ASSUME NEW c \in Checks, Extend(c)
      PROVE  BeatenOK'
  <2>1. Return(c, "denied") \/ Return(c, "unmetered") \/ Return(c, "failed")
    BY <1>9 DEF Extend, Error
  <2>2. Beaten(c)' /\ \A d \in Checks \ {c} : check'[d] = check[d]
    BY <2>1, ReturnBeaten DEF EndPcs
  <2>3. \A d \in Checks \ {c} : Quiet(d) \/ Bumped(d)
    <3>1. CASE UNCHANGED <<dirty, setbacks>>
      BY <3>1 DEF Quiet
    <3>2. CASE \E keeps : Touch(keeps, Others(c))
      BY <3>2, TouchOthers DEF Others
    <3>3. QED
      BY <1>9, <3>1, <3>2 DEF Extend
  <2>4. QED
    BY <2>2, <2>3, <1>1
<1>10. ASSUME NEW c \in Checks, Break(c)
       PROVE  BeatenOK'
  <2>1. Return(c, "unmetered") \/ Return(c, "failed")
    BY <1>10 DEF Break, Error
  <2>2. UNCHANGED <<dirty, setbacks>>
    BY <1>10 DEF Break
  <2>3. QED
    BY <2>1, <2>2, <1>1, ReturnBeaten DEF EndPcs, Quiet
<1>11. CASE ExpireBucket
  <2>1. Touch(NoBucket, Checks) /\ check' = check
    BY <1>11 DEF ExpireBucket
  <2>2. QED
    BY <2>1, TouchOthers, Bystander
<1>12. CASE UNCHANGED <<check, dirty, setbacks>>
  BY <1>12, Bystander DEF Quiet
<1>13. QED
  BY <1>2, <1>3, <1>4, <1>5, <1>6, <1>7, <1>8, <1>9, <1>10, <1>11, <1>12
  DEF LimiterNext, Step, Tick, limiterVars

\* RateLimitService._consume_token: "contended" is never the answer to a check
\* that merely ran out of tries; as many changes of the key or lost connections
\* fell into its life as the code allows it tries, for any number of checks.
THEOREM ContentionNeedsSetbacks == LimiterSpec => []ContentionMeansProgress
<1>1. LimiterInit => BeatenOK
  <2>1. SUFFICES ASSUME LimiterInit, NEW c \in Checks
                 PROVE  Beaten(c)
    BY DEF BeatenOK
  <2>2. check[c].pc = "idle"
    BY <2>1 DEF LimiterInit, NotCalled
  <2>3. QED
    BY <2>2 DEF Beaten, InFlight, At, Watching
<1>2. BeatenOK => ContentionMeansProgress
  BY DEF BeatenOK, Beaten, ContentionMeansProgress
<1>3. QED
  BY <1>1, <1>2, TypingInit, TypingStep, BeatenStep, PTL DEF LimiterSpec

-----------------------------------------------------------------------------
(* The budget.                                                             *)

\* A check in flight works with one of the configured limits and with an
\* instant that has passed.
FlightInv == \A c \in Checks :
    InFlight(c) => check[c].limit \in Limits /\ check[c].now <= clock

\* A check whose key has not changed since it was watched still knows what is
\* in the bucket.
SeenInv == \A c \in Checks :
    check[c].pc \in {"executing", "denying"} /\ c \notin dirty =>
        check[c].tokens = Refilled(c)

\* The bucket was last filled at the horizon; a key that expires was written,
\* so that it lives as long as it takes to refill two buckets.
BookInv ==
    /\ horizon <= clock
    /\ bucket # NoBucket => bucket.last = horizon
    /\ bucket.expires # Persistent => bucket # NoBucket /\ TTL <= bucket.expires

\* The rates at which the bucket may have been filled: none, or a limit.
Rates == {0} \cup {l \in Limits : l > 0}

\* What was spent and what is left were both filled in at rate l since the
\* beginning, and by the time the key expires a whole bucket more would have been.
Covered(l) ==
    /\ bucket = NoBucket => spent <= l * horizon
    /\ bucket # NoBucket => bucket.tokens + spent <= l * (Window + horizon)
    /\ bucket.expires # Persistent => spent + l * Window <= l * bucket.expires

LedgerInv == regressed \/ \E l \in Rates : Covered(l)

BudgetInv == FlightInv /\ SeenInv /\ BookInv /\ LedgerInv

\* A product grows with each of its factors.
LEMMA ProductGrows ==
    ASSUME NEW a \in Nat, NEW b \in Nat, NEW x \in Nat, NEW y \in Nat, a <= b, x <= y
    PROVE  a * x <= b * y
<1>1. PICK d \in Nat : b = a + d
  <2>1. b - a \in Nat /\ b = a + (b - a)
    OBVIOUS
  <2>2. QED
    BY <2>1
<1>2. PICK e \in Nat : y = x + e
  <2>1. y - x \in Nat /\ y = x + (y - x)
    OBVIOUS
  <2>2. QED
    BY <2>1
<1>3. b * y = a * x + a * e + d * x + d * e
  BY <1>1, <1>2
<1>4. a * x \in Nat /\ a * e \in Nat /\ d * x \in Nat /\ d * e \in Nat
  BY <1>1, <1>2
<1>5. QED
  BY <1>3, <1>4

\* A product distributes over a sum.
LEMMA Distribution == \A a, x, y \in Nat : a * (x + y) = a * x + a * y
  OBVIOUS

\* A bucket that was filled at rate l up to h and is then refilled at a rate
\* that is no lower is filled at that rate up to now.
LEMMA RefillArithmetic ==
    ASSUME NEW l \in Nat, NEW m \in Nat, l <= m, NEW h \in Nat, NEW now \in Nat,
           h <= now, NEW w \in Nat, NEW held \in Nat, held <= l * (w + h)
    PROVE  held + (now - h) * m <= m * (w + now)
<1>1. now - h \in Nat /\ w + h \in Nat /\ w + now = (w + h) + (now - h)
  OBVIOUS
<1>2. l * (w + h) <= m * (w + h)
  BY <1>1, ProductGrows
<1>3. m * (w + now) = m * (w + h) + m * (now - h)
  BY <1>1, Distribution
<1>4. (now - h) * m = m * (now - h)
  BY <1>1
<1>5. l * (w + h) \in Nat /\ m * (w + h) \in Nat /\ m * (now - h) \in Nat
  BY <1>1, Products
<1>6. QED
  BY <1>2, <1>3, <1>4, <1>5

\* A key that lives for two windows after its bucket was filled outlives the
\* refill of a whole bucket.
LEMMA LifeArithmetic ==
    ASSUME NEW l \in Nat, NEW w \in Nat, NEW h \in Nat, NEW t \in Nat, h <= t,
           NEW held \in Nat, held <= l * (w + h)
    PROVE  held + l * w <= l * (t + 2 * w)
<1>1. l * (t + 2 * w) = l * (w + t) + l * w
  <2>1. t + 2 * w = (w + t) + w /\ w + t \in Nat
    OBVIOUS
  <2>2. QED
    BY <2>1, Distribution
<1>2. l * (w + h) <= l * (w + t)
  BY ProductGrows
<1>3. l * (w + h) \in Nat /\ l * (w + t) \in Nat /\ l * w \in Nat
  BY Products
<1>4. QED
  BY <1>1, <1>2, <1>3

\* What is covered at a rate is covered at a higher one.
LEMMA RateArithmetic ==
    ASSUME NEW l \in Nat, NEW m \in Nat, l <= m, NEW w \in Nat, NEW e \in Nat, w <= e,
           NEW used \in Nat, used + l * w <= l * e
    PROVE  used + m * w <= m * e
<1>1. PICK d \in Nat : m = l + d
  <2>1. m - l \in Nat /\ m = l + (m - l)
    OBVIOUS
  <2>2. QED
    BY <2>1
<1>2. m * w = l * w + d * w /\ m * e = l * e + d * e
  BY <1>1
<1>3. d * w <= d * e
  BY ProductGrows
<1>4. l * w \in Nat /\ l * e \in Nat /\ d * w \in Nat /\ d * e \in Nat
  BY Products
<1>5. QED
  BY <1>2, <1>3, <1>4

\* A key that has expired lived long enough to pay for what was spent.
LEMMA ExpiryArithmetic ==
    ASSUME NEW l \in Nat, NEW w \in Nat, NEW e \in Nat, NEW t \in Nat, e <= t,
           NEW used \in Nat, used + l * w <= l * e
    PROVE  used <= l * t
<1>1. l * e <= l * t
  BY ProductGrows
<1>2. l * e \in Nat /\ l * t \in Nat /\ l * w \in Nat
  BY Products
<1>3. QED
  BY <1>1, <1>2

\* The rates are natural numbers.
LEMMA RateFacts == \A l \in Rates : l \in Nat
<1>1. \A l \in Limits : l \in Int
  BY ConstantFacts DEF Limits, EffectiveLimit
<1>2. QED
  BY <1>1 DEF Rates

\* Of two rates one is the higher.
LEMMA HigherRate ==
    ASSUME NEW l \in Rates, NEW k \in Rates
    PROVE  \E m \in Rates : l <= m /\ k <= m
<1>1. l \in Nat /\ k \in Nat
  BY RateFacts
<1>2. CASE l <= k
  BY <1>1, <1>2
<1>3. CASE k <= l
  BY <1>1, <1>3
<1>4. QED
  BY <1>1, <1>2, <1>3

\* A check that still knows the bucket, at an instant that is not before the
\* last refill, holds no more than one rate has filled in.
LEMMA HeldAtOneRate ==
    ASSUME LimiterTypeOK, ChecksOK, BudgetInv, ~regressed, NEW c \in Checks,
           check[c].pc \in {"executing", "denying"}, c \notin dirty,
           horizon <= check[c].now
    PROVE  \E m \in Rates :
              /\ check[c].tokens + spent <= m * (Window + check[c].now)
              /\ bucket.expires # Persistent =>
                    spent + m * Window <= m * bucket.expires
<1> DEFINE k == check[c]
<1>1. /\ k.limit \in Limits /\ k.limit \in Nat /\ k.limit > 0 /\ k.now \in Nat
      /\ k.tokens \in Nat
  BY DEF BudgetInv, FlightInv, InFlight, LimiterTypeOK, ChecksOK, CheckOK, CheckRec,
         FlightPcs
<1>2. k.limit \in Rates
  BY <1>1 DEF Rates
<1>3. PICK l \in Rates : Covered(l)
  BY DEF BudgetInv, LedgerInv
<1>4. PICK m \in Rates : l <= m /\ k.limit <= m
  BY <1>2, <1>3, HigherRate
<1>5. l \in Nat /\ m \in Nat /\ Window \in Nat /\ horizon \in Nat /\ spent \in Nat
  BY <1>3, <1>4, RateFacts, ConstantFacts DEF LimiterTypeOK
<1>6. k.tokens = Refilled(c)
  BY DEF BudgetInv, SeenInv
<1>7. bucket.expires # Persistent => spent + m * Window <= m * bucket.expires
  <2>1. SUFFICES ASSUME bucket.expires # Persistent
                 PROVE  spent + m * Window <= m * bucket.expires
    OBVIOUS
  <2>2. spent + l * Window <= l * bucket.expires
    BY <1>3, <2>1 DEF Covered
  <2>3. bucket.expires \in Nat /\ Window <= bucket.expires
    BY <1>5, <2>1 DEF BudgetInv, BookInv, TTL, LimiterTypeOK
  <2>4. QED
    BY <1>4, <1>5, <2>2, <2>3, RateArithmetic
<1>8. CASE bucket = NoBucket
  <2>1. k.tokens = k.limit * Window
    BY <1>6, <1>8 DEF Refilled, Capacity
  <2>2. k.limit * Window <= m * Window
    BY <1>1, <1>4, <1>5, ProductGrows
  <2>3. spent <= l * horizon
    BY <1>3, <1>8 DEF Covered
  <2>4. l * horizon <= m * k.now
    BY <1>1, <1>4, <1>5, ProductGrows
  <2>5. m * (Window + k.now) = m * Window + m * k.now
    BY <1>1, <1>5, Distribution
  <2>6. /\ k.limit * Window \in Nat /\ m * Window \in Nat /\ l * horizon \in Nat
        /\ m * k.now \in Nat
    BY <1>1, <1>5, Products
  <2>7. k.tokens + spent <= m * (Window + k.now)
    BY <1>5, <2>1, <2>2, <2>3, <2>4, <2>5, <2>6
  <2>8. QED
    BY <1>4, <1>7, <2>7
<1>9. CASE bucket # NoBucket
  <2> DEFINE elapsed == k.now - horizon
             held == bucket.tokens + spent
  <2>1. bucket.last = horizon /\ bucket.tokens \in Nat
    BY <1>9 DEF BudgetInv, BookInv, LimiterTypeOK
  <2>2. elapsed \in Nat
    BY <1>1, <1>5
  <2>3. k.tokens = Least(Capacity(k.limit), bucket.tokens + elapsed * k.limit)
    <3>1. (IF bucket.last > k.now THEN 0 ELSE k.now - bucket.last) = elapsed
      BY <1>1, <1>5, <2>1
    <3>2. QED
      BY <1>6, <1>9, <3>1 DEF Refilled
  <2>4. elapsed * k.limit \in Nat /\ Capacity(k.limit) \in Nat
    BY <1>1, <1>5, <2>2, Products DEF Capacity
  <2> HIDE DEF elapsed
  <2>5. k.tokens <= bucket.tokens + elapsed * k.limit
    BY <2>1, <2>3, <2>4 DEF Least
  <2>6. elapsed * k.limit <= elapsed * m
    BY <1>1, <1>4, <1>5, <2>2, ProductGrows
  <2>7. held + elapsed * m <= m * (Window + k.now)
    <3>1. held \in Nat /\ held <= l * (Window + horizon)
      BY <1>3, <1>5, <1>9, <2>1 DEF Covered
    <3> HIDE DEF held
    <3>2. QED
      BY <1>1, <1>4, <1>5, <3>1, RefillArithmetic DEF elapsed
  <2>8. elapsed * m \in Nat /\ m * (Window + k.now) \in Nat
    BY <1>1, <1>5, <2>2, Products
  <2>9. k.tokens + spent <= m * (Window + k.now)
    BY <1>1, <1>5, <2>1, <2>4, <2>5, <2>6, <2>7, <2>8
  <2>10. QED
    BY <1>4, <1>7, <2>9
<1>10. QED
  BY <1>8, <1>9

\* What a step does to one check and to what the check knows of the bucket.
Keeps(d) == check'[d].limit = check[d].limit /\ check'[d].now = check[d].now
Stays(d) ==
    /\ check'[d] = check[d]
    /\ (bucket' = bucket /\ (d \in dirty => d \in dirty')) \/ (InFlight(d) => d \in dirty')
Reads(d) ==
    /\ InFlight(d) /\ Keeps(d) /\ check'[d].tokens = Refilled(d)
    /\ check'[d].pc \in {"denying", "executing"} /\ bucket' = bucket
MovesOn(d) ==
    /\ check'[d].pc \notin {"denying", "executing"}
    /\ InFlight(d)' => InFlight(d) /\ Keeps(d)
Starts(d) ==
    /\ check'[d].pc = "starting"
    /\ check'[d].limit \in Limits /\ check'[d].now = clock

Follows(d) == Stays(d) \/ Reads(d) \/ MovesOn(d) \/ Starts(d)

\* A check that does one of these keeps its limit, its instant and what it
\* knows.
LEMMA FollowsKeeps ==
    ASSUME LimiterTypeOK, BudgetInv, clock' \in Nat, clock <= clock',
           \A d \in Checks : Follows(d)
    PROVE  FlightInv' /\ SeenInv'
<1>1. ASSUME NEW d \in Checks, InFlight(d)'
      PROVE  check'[d].limit \in Limits /\ check'[d].now <= clock'
  <2>1. clock \in Nat /\ check[d].now \in Nat
    BY DEF LimiterTypeOK, CheckRec
  <2>2. InFlight(d) => check[d].limit \in Limits /\ check[d].now <= clock
    BY DEF BudgetInv, FlightInv
  <2>3. CASE Starts(d)
    BY <2>1, <2>3 DEF Starts
  <2>4. CASE InFlight(d) /\ Keeps(d)
    BY <2>1, <2>2, <2>4 DEF Keeps
  <2>5. CASE check'[d] = check[d]
    BY <1>1, <2>1, <2>2, <2>5 DEF InFlight
  <2>6. QED
    BY <1>1, <2>3, <2>4, <2>5 DEF Follows, Stays, Reads, MovesOn
<1>2. ASSUME NEW d \in Checks, check'[d].pc \in {"executing", "denying"}, d \notin dirty'
      PROVE  check'[d].tokens = Refilled(d)'
  <2>1. CASE Stays(d)
    <3>1. InFlight(d) /\ check'[d] = check[d]
      BY <1>2, <2>1 DEF Stays, InFlight
    <3>2. bucket' = bucket /\ d \notin dirty
      BY <1>2, <2>1, <3>1 DEF Stays
    <3>3. Refilled(d)' = Refilled(d)
      BY <3>1, <3>2 DEF Refilled
    <3>4. QED
      BY <1>2, <3>1, <3>2, <3>3 DEF BudgetInv, SeenInv
  <2>2. CASE Reads(d)
    BY <2>2 DEF Reads, Keeps, Refilled
  <2>3. QED
    BY <1>2, <2>1, <2>2 DEF Follows, MovesOn, Starts
<1>3. QED
  BY <1>1, <1>2 DEF FlightInv, SeenInv

\* A call that returns is no longer in flight.
LEMMA ReturnMoves ==
    ASSUME LimiterTypeOK, NEW c \in Checks, NEW pc \in EndPcs, Return(c, pc)
    PROVE  MovesOn(c) /\ \A d \in Checks \ {c} : check'[d] = check[d]
<1> DEFINE rec == [NotCalled EXCEPT !.pc = pc]
<1>1. Set(c, rec) /\ rec.pc = pc
  BY DEF Return, NotCalled
<1> HIDE DEF rec
<1>2. check'[c].pc = pc /\ \A d \in Checks \ {c} : check'[d] = check[d]
  BY <1>1, SetOthers
<1>3. QED
  BY <1>2 DEF MovesOn, InFlight, EndPcs

\* A check that moves on with what it has keeps its limit and its instant.
LEMMA GotoMoves ==
    ASSUME LimiterTypeOK, NEW c \in Checks, InFlight(c),
           NEW pc \in {"watching", "extending"}, Goto(c, pc)
    PROVE  MovesOn(c) /\ \A d \in Checks \ {c} : check'[d] = check[d]
<1> DEFINE rec == [check[c] EXCEPT !.pc = pc]
<1>1. Set(c, rec)
  BY DEF Goto
<1>2. rec.pc = pc /\ rec.limit = check[c].limit /\ rec.now = check[c].now
  BY DEF LimiterTypeOK, CheckRec
<1> HIDE DEF rec
<1>3. check'[c] = rec /\ \A d \in Checks \ {c} : check'[d] = check[d]
  BY <1>1, SetOthers
<1>4. QED
  BY <1>2, <1>3 DEF MovesOn, Keeps

\* So does one that tries again.
LEMMA TryAgainMoves ==
    ASSUME LimiterTypeOK, NEW c \in Checks, At(c, "executing"), TryAgain(c)
    PROVE  MovesOn(c) /\ \A d \in Checks \ {c} : check'[d] = check[d]
<1>1. CASE Return(c, "contended")
  BY <1>1, ReturnMoves DEF EndPcs
<1>2. CASE check[c].tries + 1 < MaxTries
  <2> DEFINE rec == [check[c] EXCEPT !.tries = check[c].tries + 1, !.pc = "starting"]
  <2>1. Set(c, rec)
    BY <1>2 DEF TryAgain
  <2>2. rec.pc = "starting" /\ rec.limit = check[c].limit /\ rec.now = check[c].now
    BY DEF LimiterTypeOK, CheckRec
  <2> HIDE DEF rec
  <2>3. check'[c] = rec /\ \A d \in Checks \ {c} : check'[d] = check[d]
    BY <2>1, SetOthers
  <2>4. QED
    BY <2>2, <2>3 DEF MovesOn, Keeps, At, InFlight
<1>3. QED
  BY <1>1, <1>2 DEF TryAgain

\* Every check that loses a race for the key is told.
LEMMA TouchTells ==
    ASSUME NEW losers \in SUBSET Checks, NEW keeps, Touch(keeps, losers)
    PROVE  \A d \in losers : InFlight(d) => d \in dirty'
  BY DEF Touch

\* Whatever the step, no check forgets what it stands on.
LEMMA EveryoneFollows ==
    ASSUME LimiterTypeOK, ChecksOK, [LimiterNext]_limiterVars
    PROVE  \A d \in Checks : Follows(d)
<1>1. ASSUME NEW c \in Checks, MovesOn(c) \/ Reads(c) \/ Starts(c),
             \A d \in Checks \ {c} : check'[d] = check[d],
             \/ bucket' = bucket /\ (\A d \in Checks \ {c} : d \in dirty => d \in dirty')
             \/ \A d \in Checks \ {c} : InFlight(d) => d \in dirty'
      PROVE  \A d \in Checks : Follows(d)
  BY <1>1 DEF Follows, Stays
<1>2. ASSUME NEW c \in Checks, NEW o \in Overrides, Begin(c, o)
      PROVE  \A d \in Checks : Follows(d)
  <2> DEFINE limit == EffectiveLimit(o)
             rec == [pc |-> "starting", limit |-> limit, now |-> clock, tries |-> 0,
                     tokens |-> 0]
  <2>1. Return(c, "unmetered") \/ Set(c, rec)
    BY <1>2 DEF Begin
  <2>2. UNCHANGED <<bucket, dirty>>
    BY <1>2 DEF Begin
  <2>3. rec.pc = "starting" /\ rec.limit \in Limits /\ rec.now = clock
    BY DEF Limits
  <2> HIDE DEF rec
  <2>4. CASE Return(c, "unmetered")
    BY <2>2, <2>4, <1>1, ReturnMoves DEF EndPcs
  <2>5. CASE Set(c, rec)
    <3>1. check'[c] = rec /\ \A d \in Checks \ {c} : check'[d] = check[d]
      BY <2>5, SetOthers
    <3>2. QED
      BY <3>1, <2>2, <2>3, <1>1 DEF Starts
  <2>6. QED
    BY <2>1, <2>4, <2>5
<1>3. ASSUME NEW c \in Checks, Watch(c)
      PROVE  \A d \in Checks : Follows(d)
  <2>1. InFlight(c) /\ Goto(c, "watching") /\ bucket' = bucket /\ dirty' = dirty \ {c}
    BY <1>3 DEF Watch, At, InFlight
  <2>2. MovesOn(c) /\ \A d \in Checks \ {c} : check'[d] = check[d]
    BY <2>1, GotoMoves
  <2>3. QED
    BY <2>1, <2>2, <1>1
<1>4. ASSUME NEW c \in Checks, Read(c)
      PROVE  \A d \in Checks : Follows(d)
  <2> DEFINE pc == IF Refilled(c) < Cost THEN "denying" ELSE "executing"
             rec == [check[c] EXCEPT !.tokens = Refilled(c), !.pc = pc]
  <2>1. Set(c, rec) /\ InFlight(c) /\ dirty' = dirty /\ bucket' = bucket
    BY <1>4 DEF Read, At, InFlight
  <2>2. pc \in {"denying", "executing"}
    OBVIOUS
  <2> HIDE DEF pc
  <2>3. /\ rec.pc = pc /\ rec.tokens = Refilled(c)
        /\ rec.limit = check[c].limit /\ rec.now = check[c].now
    BY DEF LimiterTypeOK, CheckRec
  <2> HIDE DEF rec
  <2>4. check'[c] = rec /\ \A d \in Checks \ {c} : check'[d] = check[d]
    BY <2>1, SetOthers
  <2>5. Reads(c)
    BY <2>1, <2>2, <2>3, <2>4 DEF Reads, Keeps
  <2>6. QED
    BY <2>1, <2>4, <2>5, <1>1
<1>5. ASSUME NEW c \in Checks, Execute(c)
      PROVE  \A d \in Checks : Follows(d)
  <2>1. Return(c, "allowed") \/ Return(c, "unmetered") \/ Return(c, "failed")
    BY <1>5 DEF Execute, Error
  <2>2. PICK keeps : Touch(keeps, Others(c))
    BY <1>5 DEF Execute, Consume, WriteBucket
  <2>3. \A d \in Checks \ {c} : InFlight(d) => d \in dirty'
    BY <2>2, TouchTells DEF Others
  <2>4. QED
    BY <2>1, <2>3, <1>1, ReturnMoves DEF EndPcs
<1>6. ASSUME NEW c \in Checks, Disconnect(c)
      PROVE  \A d \in Checks : Follows(d)
  <2>1. MovesOn(c) /\ \A d \in Checks \ {c} : check'[d] = check[d]
    BY <1>6, TryAgainMoves DEF Disconnect
  <2>2. CASE Consume(c, Checks)
    <3>1. PICK keeps : Touch(keeps, Checks)
      BY <2>2 DEF Consume, WriteBucket
    <3>2. QED
      BY <2>1, <3>1, <1>1, TouchTells
  <2>3. CASE UNCHANGED <<bucket, dirty>>
    BY <2>1, <2>3, <1>1
  <2>4. QED
    BY <1>6, <2>2, <2>3 DEF Disconnect
<1>7. ASSUME NEW c \in Checks, Conflict(c)
      PROVE  \A d \in Checks : Follows(d)
  BY <1>7, <1>1, TryAgainMoves DEF Conflict
<1>8. ASSUME NEW c \in Checks, Deny(c)
      PROVE  \A d \in Checks : Follows(d)
  <2>1. InFlight(c) /\ Goto(c, "extending")
    BY <1>8 DEF Deny, At, InFlight
  <2>2. PICK keeps : Touch(keeps, Others(c))
    BY <1>8 DEF Deny, WriteBucket
  <2>3. \A d \in Checks \ {c} : InFlight(d) => d \in dirty'
    BY <2>2, TouchTells DEF Others
  <2>4. QED
    BY <2>1, <2>3, <1>1, GotoMoves
<1>9. ASSUME NEW c \in Checks, Extend(c)
      PROVE  \A d \in Checks : Follows(d)
  <2>1. Return(c, "denied") \/ Return(c, "unmetered") \/ Return(c, "failed")
    BY <1>9 DEF Extend, Error
  <2>2. MovesOn(c) /\ \A d \in Checks \ {c} : check'[d] = check[d]
    BY <2>1, ReturnMoves DEF EndPcs
  <2>3. CASE UNCHANGED <<bucket, dirty>>
    BY <2>2, <2>3, <1>1
  <2>4. CASE \E keeps : Touch(keeps, Others(c))
    <3>1. \A d \in Checks \ {c} : InFlight(d) => d \in dirty'
      BY <2>4, TouchTells DEF Others
    <3>2. QED
      BY <2>2, <3>1, <1>1
  <2>5. QED
    BY <1>9, <2>3, <2>4 DEF Extend
<1>10. ASSUME NEW c \in Checks, Break(c)
       PROVE  \A d \in Checks : Follows(d)
  <2>1. Return(c, "unmetered") \/ Return(c, "failed")
    BY <1>10 DEF Break, Error
  <2>2. UNCHANGED <<bucket, dirty>>
    BY <1>10 DEF Break
  <2>3. QED
    BY <2>1, <2>2, <1>1, ReturnMoves DEF EndPcs
<1>11. CASE ExpireBucket
  <2>1. Touch(NoBucket, Checks) /\ check' = check
    BY <1>11 DEF ExpireBucket
  <2>2. QED
    BY <2>1, TouchTells DEF Follows, Stays
<1>12. CASE UNCHANGED <<check, dirty, bucket>>
  BY <1>12 DEF Follows, Stays
<1>13. QED
  BY <1>2, <1>3, <1>4, <1>5, <1>6, <1>7, <1>8, <1>9, <1>10, <1>11, <1>12
  DEF LimiterNext, Step, Tick, limiterVars

\* The books and the ledger after a write of a check that still knows the
\* bucket, or after one that undoes what was there.
LEMMA WriteKeepsBudget ==
    ASSUME LimiterTypeOK, ChecksOK, BudgetInv, NEW c \in Checks,
           check[c].pc \in {"executing", "denying"},
           NEW tokens \in Nat, NEW expires \in Nat, NEW losers, NEW unseen \in BOOLEAN,
           WriteBucket(c, tokens, expires, losers, unseen), clock' = clock,
           c \in dirty => unseen,
           spent' \in Nat, tokens + spent' = check[c].tokens + spent,
           \/ expires = clock + TTL
           \/ expires = bucket.expires /\ spent' = spent
    PROVE  BookInv' /\ LedgerInv'
<1> DEFINE k == check[c]
<1>1. /\ k.now \in Nat /\ k.now <= clock /\ clock \in Nat /\ k.tokens \in Nat
      /\ Window \in Nat \ {0} /\ horizon \in Nat /\ spent \in Nat
  BY ConstantFacts DEF BudgetInv, FlightInv, InFlight, LimiterTypeOK, CheckRec
<1>2. /\ bucket' = [tokens |-> tokens, last |-> k.now, expires |-> expires]
      /\ horizon' = k.now
      /\ regressed' = (regressed \/ unseen \/ k.now < horizon)
  BY DEF WriteBucket, Touch
<1>3. /\ bucket'.tokens = tokens /\ bucket'.last = k.now /\ bucket'.expires = expires
      /\ bucket' # NoBucket
  BY <1>1, <1>2 DEF NoBucket
<1>4. BookInv'
  <2>1. expires # Persistent => TTL <= expires
    BY <1>1 DEF BudgetInv, BookInv, TTL
  <2>2. horizon' <= clock' /\ bucket'.last = horizon'
    BY <1>1, <1>2, <1>3
  <2>3. QED
    BY <1>3, <2>1, <2>2 DEF BookInv, TTL
<1>5. LedgerInv'
  <2>1. SUFFICES ASSUME ~regressed'
                 PROVE  \E l \in Rates : Covered(l)'
    BY DEF LedgerInv
  <2>2. ~regressed /\ ~unseen /\ ~(k.now < horizon)
    BY <1>2, <2>1
  <2>3. horizon <= k.now
    BY <1>1, <2>2
  <2>4. PICK m \in Rates :
           /\ k.tokens + spent <= m * (Window + k.now)
           /\ bucket.expires # Persistent => spent + m * Window <= m * bucket.expires
    BY <2>2, <2>3, HeldAtOneRate
  <2>5. m \in Nat
    BY RateFacts
  <2>6. bucket'.tokens + spent' <= m * (Window + horizon')
    BY <1>2, <1>3, <2>4
  <2>7. expires # Persistent => spent' + m * Window <= m * expires
    <3>1. CASE expires = bucket.expires /\ spent' = spent
      BY <2>4, <3>1
    <3>2. CASE expires = clock + TTL
      <4> DEFINE held == tokens + spent'
      <4>1. held \in Nat /\ held <= m * (Window + k.now)
        BY <2>4
      <4>2. held + m * Window <= m * (clock + 2 * Window)
        <5> HIDE DEF held
        <5>1. QED
          BY <1>1, <2>5, <4>1, LifeArithmetic
      <4>3. m * Window \in Nat /\ m * (clock + 2 * Window) \in Nat
        BY <1>1, <2>5, Products
      <4>4. spent' + m * Window <= m * (clock + 2 * Window)
        BY <1>1, <4>2, <4>3
      <4>5. QED
        BY <3>2, <4>4 DEF TTL
    <3>3. QED
      BY <3>1, <3>2
  <2>8. Covered(m)'
    BY <1>3, <2>6, <2>7 DEF Covered
  <2>9. QED
    BY <2>8
<1>6. QED
  BY <1>4, <1>5

\* Every action keeps the books and the ledger.
LEMMA BudgetStep ==
    LimiterTypeOK /\ ChecksOK /\ BudgetInv /\ [LimiterNext]_limiterVars /\ LimiterTypeOK'
    => BudgetInv'
<1> SUFFICES ASSUME LimiterTypeOK, ChecksOK, BudgetInv, [LimiterNext]_limiterVars,
                    LimiterTypeOK'
             PROVE  BudgetInv'
  OBVIOUS
<1> DEFINE Booked == clock <= clock' /\ BookInv' /\ LedgerInv'
<1>1. clock \in Nat /\ clock' \in Nat /\ horizon \in Nat /\ spent \in Nat /\ Window \in Nat
  BY ConstantFacts DEF LimiterTypeOK
<1>2. CASE UNCHANGED <<bucket, balanceVars>> /\ clock <= clock'
  <2>1. BookInv'
    BY <1>1, <1>2 DEF balanceVars, BudgetInv, BookInv, TTL
  <2>2. LedgerInv'
    BY <1>2 DEF balanceVars, BudgetInv, LedgerInv, Covered
  <2>3. QED
    BY <1>1, <1>2, <2>1, <2>2, EveryoneFollows, FollowsKeeps DEF BudgetInv
<1>3. ASSUME NEW c \in Checks, At(c, "executing"), c \notin dirty,
             NEW losers, Consume(c, losers)
      PROVE  Booked
  <2>1. /\ WriteBucket(c, check[c].tokens - Cost, clock + TTL, losers, FALSE)
        /\ spent' = spent + Cost /\ clock' = clock
    BY <1>3 DEF Consume
  <2>2. /\ check[c].tokens \in Nat /\ check[c].tokens - Cost \in Nat /\ Cost \in Nat
        /\ clock + TTL \in Nat
    BY <1>1, <1>3 DEF ChecksOK, CheckOK, CheckRec, At, Cost, TTL
  <2>3. spent' \in Nat /\ (check[c].tokens - Cost) + spent' = check[c].tokens + spent
    BY <1>1, <2>1, <2>2
  <2>4. check[c].pc \in {"executing", "denying"}
    BY <1>3 DEF At
  <2> DEFINE tokens == check[c].tokens - Cost
             expires == clock + TTL
  <2>5. /\ WriteBucket(c, tokens, expires, losers, FALSE) /\ tokens \in Nat /\ expires \in Nat
        /\ tokens + spent' = check[c].tokens + spent /\ expires = clock + TTL
    BY <2>1, <2>2, <2>3
  <2> HIDE DEF tokens, expires
  <2>6. BookInv' /\ LedgerInv'
    BY <1>3, <2>1, <2>3, <2>4, <2>5, WriteKeepsBudget
  <2>7. QED
    BY <1>1, <2>1, <2>6
<1>4. ASSUME NEW c \in Checks, Deny(c)
      PROVE  Booked
  <2> DEFINE unseen == c \in dirty
             expires == bucket.expires
             tokens == check[c].tokens
  <2>1. /\ WriteBucket(c, tokens, expires, Others(c), unseen)
        /\ spent' = spent /\ clock' = clock /\ check[c].pc \in {"executing", "denying"}
    BY <1>4 DEF Deny, At
  <2>2. tokens \in Nat /\ expires \in Nat /\ unseen \in BOOLEAN /\ (c \in dirty => unseen)
    BY DEF LimiterTypeOK, CheckRec
  <2>3. expires = bucket.expires /\ tokens + spent' = check[c].tokens + spent
    BY <2>1
  <2> HIDE DEF unseen, expires, tokens
  <2>4. BookInv' /\ LedgerInv'
    BY <1>1, <2>1, <2>2, <2>3, WriteKeepsBudget
  <2>5. QED
    BY <1>1, <2>1, <2>4
<1>5. ASSUME NEW c \in Checks, Extend(c), bucket # NoBucket
      PROVE  Booked
  <2>1. /\ bucket' = [bucket EXCEPT !.expires = clock + TTL]
        /\ clock' = clock /\ spent' = spent /\ horizon' = horizon /\ regressed' = regressed
    BY <1>5 DEF Extend, Touch, balanceVars
  <2>2. /\ bucket'.tokens = bucket.tokens /\ bucket'.last = bucket.last
        /\ bucket'.expires = clock + TTL
    BY <2>1 DEF LimiterTypeOK
  <2>3. bucket.last = horizon /\ horizon <= clock
    BY <1>5 DEF BudgetInv, BookInv
  <2>4. bucket' # NoBucket
    BY <1>1, <2>2, <2>3 DEF NoBucket
  <2>5. BookInv'
    BY <1>1, <2>1, <2>2, <2>3, <2>4 DEF BookInv, TTL
  <2>6. LedgerInv'
    <3>1. SUFFICES ASSUME ~regressed
                   PROVE  \E l \in Rates : Covered(l)'
      BY <2>1 DEF LedgerInv
    <3>2. PICK l \in Rates : Covered(l)
      BY <3>1 DEF BudgetInv, LedgerInv
    <3> DEFINE held == bucket.tokens + spent
    <3>3. l \in Nat /\ bucket.tokens \in Nat
      BY RateFacts DEF LimiterTypeOK
    <3>4. held \in Nat /\ held <= l * (Window + horizon)
      BY <1>1, <1>5, <3>2, <3>3 DEF Covered
    <3>5. held + l * Window <= l * (clock + 2 * Window)
      <4> HIDE DEF held
      <4>1. QED
        BY <1>1, <2>3, <3>3, <3>4, LifeArithmetic
    <3>6. l * Window \in Nat /\ l * (clock + 2 * Window) \in Nat
      BY <1>1, <3>3, Products
    <3>7. spent' + l * Window <= l * bucket'.expires
      BY <1>1, <2>1, <2>2, <3>3, <3>5, <3>6 DEF TTL
    <3>8. Covered(l)'
      BY <2>1, <2>2, <2>4, <3>4, <3>7 DEF Covered
    <3>9. QED
      BY <3>8
  <2>7. QED
    BY <1>1, <2>1, <2>5, <2>6
<1>6. CASE ExpireBucket
  <2>1. /\ bucket' = NoBucket /\ horizon' = clock /\ clock' = clock /\ spent' = spent
        /\ regressed' = regressed /\ bucket.expires # Persistent /\ bucket.expires <= clock
    BY <1>6 DEF ExpireBucket, Touch
  <2>2. bucket'.expires = Persistent
    BY <2>1 DEF NoBucket
  <2>3. BookInv'
    BY <1>1, <2>1, <2>2 DEF BookInv
  <2>4. LedgerInv'
    <3>1. SUFFICES ASSUME ~regressed
                   PROVE  \E l \in Rates : Covered(l)'
      BY <2>1 DEF LedgerInv
    <3>2. PICK l \in Rates : Covered(l)
      BY <3>1 DEF BudgetInv, LedgerInv
    <3>3. l \in Nat /\ bucket.expires \in Nat
      BY RateFacts DEF LimiterTypeOK
    <3>4. spent + l * Window <= l * bucket.expires
      BY <2>1, <3>2 DEF Covered
    <3>5. spent' <= l * horizon'
      BY <1>1, <2>1, <3>3, <3>4, ExpiryArithmetic
    <3>6. Covered(l)'
      BY <2>1, <2>2, <3>5 DEF Covered
    <3>7. QED
      BY <3>6
  <2>5. QED
    BY <1>1, <2>1, <2>3, <2>4, EveryoneFollows, FollowsKeeps DEF BudgetInv
<1>7. CASE Booked
  BY <1>1, <1>7, EveryoneFollows, FollowsKeeps DEF BudgetInv
<1> HIDE DEF Booked
<1>8. ASSUME NEW c \in Checks, Execute(c)
      PROVE  BudgetInv'
  <2>1. At(c, "executing") /\ c \notin dirty /\ Consume(c, Others(c))
    BY <1>8 DEF Execute
  <2>2. QED
    BY <2>1, <1>3, <1>7
<1>9. ASSUME NEW c \in Checks, Disconnect(c)
      PROVE  BudgetInv'
  <2>1. At(c, "executing")
    BY <1>9 DEF Disconnect
  <2>2. CASE c \notin dirty /\ Consume(c, Checks)
    BY <2>1, <2>2, <1>3, <1>7
  <2>3. CASE UNCHANGED <<clock, bucket, dirty, balanceVars>>
    BY <1>1, <1>2, <2>3
  <2>4. QED
    BY <1>9, <2>2, <2>3 DEF Disconnect
<1>10. ASSUME NEW c \in Checks, Extend(c)
       PROVE  BudgetInv'
  <2>1. CASE bucket = NoBucket
    BY <1>1, <1>2, <1>10, <2>1 DEF Extend
  <2>2. CASE bucket # NoBucket
    BY <1>5, <1>7, <1>10, <2>2
  <2>3. QED
    BY <2>1, <2>2
<1>11. CASE UNCHANGED <<clock, bucket, balanceVars>>
  BY <1>1, <1>2, <1>11
<1>12. CASE Tick
  BY <1>1, <1>2, <1>12 DEF Tick
<1>13. QED
  BY <1>4, <1>6, <1>7, <1>8, <1>9, <1>10, <1>11, <1>12
  DEF LimiterNext, Step, Begin, Watch, Read, Conflict, Break, limiterVars

\* Before any call nothing is spent.
LEMMA BudgetInit == LimiterInit => BudgetInv
<1> SUFFICES ASSUME LimiterInit
             PROVE  BudgetInv
  OBVIOUS
<1>1. \A c \in Checks : check[c].pc = "idle"
  BY DEF LimiterInit, NotCalled
<1>2. FlightInv /\ SeenInv
  BY <1>1 DEF FlightInv, SeenInv, InFlight
<1>3. bucket.expires = Persistent
  BY DEF LimiterInit, NoBucket
<1>4. BookInv
  BY <1>3 DEF BookInv, LimiterInit
<1>5. Covered(0)
  BY <1>3 DEF Covered, LimiterInit
<1>6. QED
  BY <1>2, <1>4, <1>5 DEF BudgetInv, LedgerInv, Rates

\* RateLimitService.check_and_increment: however many checks race for the
\* bucket, whatever their limits, and whatever expires, conflicts or is lost on
\* the way, the tokens they take stay within the budget of the highest limit
\* among them, until a write undoes another.
THEOREM BudgetHolds == LimiterSpec => []BudgetUnlessRegressed
<1>1. LimiterTypeOK /\ BudgetInv => BudgetUnlessRegressed
  <2>1. SUFFICES ASSUME LimiterTypeOK, BudgetInv, ~regressed, spent # 0
                 PROVE  \E l \in Limits : l > 0 /\ spent <= Budget(l)
    BY DEF BudgetUnlessRegressed
  <2>2. PICK l \in Rates : Covered(l)
    BY <2>1 DEF BudgetInv, LedgerInv
  <2>3. /\ l \in Nat /\ spent \in Nat /\ horizon \in Nat /\ clock \in Nat /\ Window \in Nat
        /\ bucket.tokens \in Nat /\ horizon <= clock
    BY <2>1, RateFacts, ConstantFacts DEF LimiterTypeOK, BudgetInv, BookInv
  <2>4. spent <= l * (Window + horizon)
    <3>1. l * horizon <= l * (Window + horizon)
      BY <2>3, ProductGrows
    <3>2. l * horizon \in Nat /\ l * (Window + horizon) \in Nat
      BY <2>3, Products
    <3>3. QED
      BY <2>2, <2>3, <3>1, <3>2 DEF Covered
  <2>5. l * (Window + horizon) <= l * (Window + clock)
    BY <2>3, ProductGrows
  <2>6. l * (Window + clock) = l * Window + clock * l
    BY <2>3, Distribution
  <2>7. spent <= Budget(l)
    <3>1. /\ l * (Window + horizon) \in Nat /\ l * Window \in Nat /\ clock * l \in Nat
      BY <2>3, Products
    <3>2. QED
      BY <2>3, <2>4, <2>5, <2>6, <3>1 DEF Budget, Capacity
  <2>8. l # 0
    <3>1. ASSUME l = 0
          PROVE  FALSE
      <4>1. l * (Window + horizon) = 0
        BY <2>3, <3>1
      <4>2. QED
        BY <2>1, <2>3, <2>4, <4>1
    <3>2. QED
      BY <3>1
  <2>9. QED
    BY <2>2, <2>7, <2>8 DEF Rates
<1>2. QED
  BY <1>1, TypingInit, TypingStep, BudgetInit, BudgetStep, PTL DEF LimiterSpec
=============================================================================
