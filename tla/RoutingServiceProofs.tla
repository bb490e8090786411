------------------------ MODULE RoutingServiceProofs ------------------------
(***************************************************************************)
(* Proofs about RoutingService, for every registry, fallback chain and map *)
(* of equivalent models: what the resolution of attempts yields, that      *)
(* routing implements the providers and RoutingContract, and that fallback *)
(* is in order and from one source.                                        *)
(***************************************************************************)
EXTENDS RoutingService, ResilientProviderProofs, WellFoundedInduction

-----------------------------------------------------------------------------
(* The loops of _resolve_attempts: induction, and the recursive functions  *)
(* that stand for them.                                                    *)

\* A set of naturals that is not empty has a least element.
LEMMA LeastOf ==
    ASSUME NEW T, T \in SUBSET Nat, T # {}
    PROVE  \E n \in T : \A m \in T : n <= m
<1>1. PICK n \in T : \A m \in T : ~(<<m, n>> \in OpToRel(<, Nat))
  <2>1. IsWellFoundedOn(OpToRel(<, Nat), Nat)
    BY NatLessThanWellFounded
  <2> DEFINE R == OpToRel(<, Nat)
  <2> HIDE DEF R
  <2>2. IsWellFoundedOn(R, Nat)
    BY <2>1 DEF R
  <2>3. \E n \in T : \A m \in T : ~(<<m, n>> \in R)
    BY <2>2, WFMin
  <2>4. QED
    BY <2>3 DEF R
<1>2. \A m \in T : ~(m < n)
  BY <1>1 DEF OpToRel
<1>3. QED
  BY <1>2

\* Induction up to a bound, on the set of the numbers that have a property.
LEMMA LoopInduction ==
    ASSUME NEW N \in Nat, NEW S, 0 \in S,
           \A i \in 0..N : i \in S /\ i < N => i + 1 \in S
    PROVE  0..N \subseteq S
<1> DEFINE T == (0..N) \ S
<1>1. SUFFICES ASSUME T # {}
               PROVE  FALSE
  OBVIOUS
<1>2. T \in SUBSET Nat
  OBVIOUS
<1>3. PICK n \in T : \A m \in T : n <= m
  BY <1>1, <1>2, LeastOf
<1>4. n \in 1..N /\ n - 1 \in 0..N
  BY <1>3
<1>5. n - 1 \in S
  BY <1>3, <1>4
<1>6. QED
  BY <1>3, <1>4, <1>5

\* f[i] is what a for loop over 1..n carries after i rounds.
Computes(n, base, step, f) ==
    f[0] = base /\ \A i \in 1..n : f[i] = step[i][f[i - 1]]

\* A for loop that carries a value of A computes something.
LEMMA LoopExists ==
    ASSUME NEW N \in Nat, NEW A, NEW base \in A, NEW step \in [1..N -> [A -> A]]
    PROVE  \E f \in [0..N -> A] : Computes(N, base, step, f)
<1> DEFINE S == {n \in 0..N : \E f \in [0..n -> A] : Computes(n, base, step, f)}
<1>1. 0 \in S
  <2>1. [i \in 0..0 |-> base] \in [0..0 -> A]
    OBVIOUS
  <2>2. Computes(0, base, step, [i \in 0..0 |-> base])
    BY DEF Computes
  <2>3. \E f \in [0..0 -> A] : Computes(0, base, step, f)
    BY <2>1, <2>2
  <2>4. QED
    BY <2>3
<1>2. ASSUME NEW n \in 0..N, n \in S, n < N
      PROVE  n + 1 \in S
  <2>1. PICK f \in [0..n -> A] : Computes(n, base, step, f)
    BY <1>2
  <2> DEFINE g == [i \in 0..(n + 1) |-> IF i <= n THEN f[i] ELSE step[n + 1][f[n]]]
  <2>2. step[n + 1] \in [A -> A] /\ f[n] \in A
    BY <1>2
  <2>3. step[n + 1][f[n]] \in A
    BY <2>2
  <2>4. g \in [0..(n + 1) -> A]
    BY <2>3
  <2>5. \A i \in 0..n : g[i] = f[i]
    OBVIOUS
  <2>6. g[n + 1] = step[n + 1][f[n]]
    OBVIOUS
  <2> HIDE DEF g
  <2>7. ASSUME NEW i \in 1..(n + 1)
        PROVE  g[i] = step[i][g[i - 1]]
    <3>1. CASE i = n + 1
      BY <3>1, <2>5, <2>6
    <3>2. CASE i \in 1..n
      BY <3>2, <2>1, <2>5 DEF Computes
    <3>3. QED
      BY <3>1, <3>2
  <2>8. g[0] = base
    BY <2>1, <2>5 DEF Computes
  <2>9. Computes(n + 1, base, step, g)
    BY <2>7, <2>8 DEF Computes
  <2>10. n + 1 \in 0..N
    BY <1>2
  <2>11. QED
    BY <2>4, <2>9, <2>10
<1> HIDE DEF S
<1>3. 0..N \subseteq S
  BY <1>1, <1>2, LoopInduction
<1>4. QED
  BY <1>3 DEF S

-----------------------------------------------------------------------------
(* The resolution of the attempts.                                         *)

\* ProviderRegistry.find_supporting finds a registered provider that serves
\* the model, or there is none.
LEMMA FindSupportingFacts ==
    ASSUME NEW m
    PROVE  LET p == FindSupporting(m) IN
           IF p = NoProvider
           THEN \A q \in Providers : Registered(q) => ~Supports(q, m)
           ELSE p \in Providers /\ Registered(p) /\ Supports(p, m)
<1> DEFINE serving == {i \in DOMAIN Registry : Supports(Registry[i], m)}
           first == CHOOSE i \in serving : \A j \in serving : i <= j
<1>1. Registry \in Seq(Providers) /\ NoProvider \notin Providers
  BY RoutingAssumption DEF RoutingAssumption
<1>2. CASE serving = {}
  <2>1. FindSupporting(m) = NoProvider
    BY <1>2 DEF FindSupporting
  <2>2. \A q \in Providers : Registered(q) => ~Supports(q, m)
    BY <1>1, <1>2 DEF Registered, Contains
  <2>3. QED
    BY <2>1, <2>2
<1>3. CASE serving # {}
  <2>1. serving \in SUBSET Nat
    BY <1>1
  <2>2. first \in serving
    BY <1>3, <2>1, LeastOf
  <2>3. FindSupporting(m) = Registry[first]
    BY <1>3 DEF FindSupporting
  <2> HIDE DEF first
  <2>4. /\ Registry[first] \in Providers
        /\ Registered(Registry[first])
        /\ Supports(Registry[first], m)
    BY <1>1, <2>2 DEF Registered, Contains
  <2>5. QED
    BY <1>1, <2>3, <2>4
<1>4. QED
  BY <1>2, <1>3

\* What the recursive function of NamesAfter computes.
LEMMA NamesLoop ==
    ASSUME NEW m
    PROVE  LET primary == FindSupporting(m)
               names == NamesAfter(m)
           IN  /\ names \in [0..Len(FallbackChain) -> Seq(Providers)]
               /\ names[0] = IF primary = NoProvider THEN <<>> ELSE <<primary>>
               /\ \A i \in 1..Len(FallbackChain) :
                     names[i] = AddName(names[i - 1], FallbackChain[i])
<1> DEFINE N == Len(FallbackChain)
           primary == FindSupporting(m)
           base == IF primary = NoProvider THEN <<>> ELSE <<primary>>
           step == [i \in 1..N |-> [s \in Seq(Providers) |-> AddName(s, FallbackChain[i])]]
           names[i \in 0..N] ==
               IF i = 0 THEN base ELSE AddName(names[i - 1], FallbackChain[i])
<1>1. FallbackChain \in Seq(Providers) /\ N \in Nat
  BY RoutingAssumption DEF RoutingAssumption
<1>2. base \in Seq(Providers)
  BY FindSupportingFacts
<1>3. step \in [1..N -> [Seq(Providers) -> Seq(Providers)]]
  BY <1>1 DEF AddName
<1>4. NamesAfter(m) = names
  BY Zenon DEF NamesAfter
<1>5. names = CHOOSE f : f = [i \in 0..N |->
                  IF i = 0 THEN base ELSE AddName(f[i - 1], FallbackChain[i])]
  OBVIOUS
<1>6. \A i \in 1..N, s \in Seq(Providers) : step[i][s] = AddName(s, FallbackChain[i])
  OBVIOUS
<1> DEFINE A == Seq(Providers)
<1> HIDE DEF N, base, step, names
<1>7. PICK f \in [0..N -> A] : Computes(N, base, step, f)
  <2> HIDE DEF A
  <2>1. base \in A /\ step \in [1..N -> [A -> A]]
    BY <1>2, <1>3 DEF A
  <2>2. QED
    BY <1>1, <2>1, LoopExists
<1>8. ASSUME NEW i \in 1..N
      PROVE  f[i] = AddName(f[i - 1], FallbackChain[i])
  <2>1. f[i - 1] \in Seq(Providers)
    BY <1>1, <1>7
  <2>2. QED
    BY <1>6, <1>7, <2>1 DEF Computes
<1>9. f = [i \in 0..N |-> IF i = 0 THEN base ELSE AddName(f[i - 1], FallbackChain[i])]
  BY <1>1, <1>7, <1>8 DEF Computes
<1>10. names = [i \in 0..N |->
                  IF i = 0 THEN base ELSE AddName(names[i - 1], FallbackChain[i])]
  BY <1>5, <1>9
<1>11. names[0] = base /\ \A i \in 1..N : names[i] = AddName(names[i - 1], FallbackChain[i])
  BY <1>1, <1>10
<1> DEFINE S == {i \in 0..N : names[i] \in Seq(Providers)}
<1>12. 0..N \subseteq S
  <2>1. 0 \in S
    BY <1>1, <1>2, <1>11
  <2>2. ASSUME NEW i \in 0..N, i \in S, i < N
        PROVE  i + 1 \in S
    <3>1. names[i + 1] = AddName(names[i], FallbackChain[i + 1])
      BY <1>1, <1>11, <2>2
    <3>2. FallbackChain[i + 1] \in Providers
      BY <1>1, <2>2 DEF N
    <3>3. names[i] \in Seq(Providers) /\ i + 1 \in 0..N
      BY <1>1, <2>2
    <3>4. AddName(names[i], FallbackChain[i + 1]) \in Seq(Providers)
      BY <3>2, <3>3 DEF AddName
    <3>5. QED
      BY <3>1, <3>3, <3>4
  <2> HIDE DEF S
  <2>3. QED
    BY <1>1, <2>1, <2>2, LoopInduction
<1>13. names \in [0..N -> Seq(Providers)]
  BY <1>10, <1>12
<1>14. QED
  BY <1>4, <1>11, <1>13 DEF N, base

\* A name is added once, at the end.
LEMMA AddNameFacts ==
    ASSUME NEW s \in Seq(Providers), NEW p \in Providers, IsInjective(s)
    PROVE  LET t == AddName(s, p) IN
           /\ t \in Seq(Providers) /\ IsInjective(t)
           /\ Len(s) <= Len(t) /\ \A i \in 1..Len(s) : t[i] = s[i]
           /\ \E i \in 1..Len(t) : t[i] = p
           /\ \A i \in 1..Len(t) : t[i] = p \/ i <= Len(s)
<1>1. CASE Contains(s, p)
  BY <1>1 DEF AddName, Contains
<1>2. CASE ~Contains(s, p)
  <2> DEFINE t == Append(s, p)
  <2>1. AddName(s, p) = t
    BY <1>2 DEF AddName
  <2>2. /\ t \in Seq(Providers) /\ Len(t) = Len(s) + 1 /\ t[Len(s) + 1] = p
        /\ \A i \in 1..Len(s) : t[i] = s[i] /\ s[i] # p
    BY <1>2 DEF Contains
  <2> HIDE DEF t
  <2>3. IsInjective(t)
    BY <2>2 DEF IsInjective
  <2>4. QED
    BY <2>1, <2>2, <2>3
<1>3. QED
  BY <1>1, <1>2

\* The ordered names: none twice, the native provider first, and no name of
\* the chain left out.
OrderedFrom(names, primary, n) ==
    /\ names \in Seq(Providers) /\ IsInjective(names)
    /\ primary # NoProvider => Len(names) > 0 /\ names[1] = primary
    /\ \A j \in 1..n : \E k \in 1..Len(names) : names[k] = FallbackChain[j]
    /\ \A k \in 1..Len(names) :
          names[k] = primary \/ \E j \in 1..n : names[k] = FallbackChain[j]

LEMMA OrderedNamesFacts ==
    ASSUME NEW m
    PROVE  OrderedFrom(OrderedNames(m), FindSupporting(m), Len(FallbackChain))
<1> DEFINE N == Len(FallbackChain)
           primary == FindSupporting(m)
           names == NamesAfter(m)
           S == {i \in 0..N : OrderedFrom(names[i], primary, i)}
<1>1. FallbackChain \in Seq(Providers) /\ N \in Nat
  BY RoutingAssumption DEF RoutingAssumption
<1>2. /\ names \in [0..N -> Seq(Providers)]
      /\ names[0] = IF primary = NoProvider THEN <<>> ELSE <<primary>>
      /\ \A i \in 1..N : names[i] = AddName(names[i - 1], FallbackChain[i])
  BY NamesLoop
<1>3. primary # NoProvider => primary \in Providers
  BY FindSupportingFacts
<1>4. \A i \in 1..N : FallbackChain[i] \in Providers
  BY <1>1
<1> HIDE DEF N, primary, names
<1>5. OrderedFrom(names[0], primary, 0)
  BY <1>2, <1>3 DEF OrderedFrom, IsInjective
<1>6. ASSUME NEW i \in 0..N, OrderedFrom(names[i], primary, i), i < N
      PROVE  OrderedFrom(names[i + 1], primary, i + 1)
  <2> DEFINE s == names[i]
             p == FallbackChain[i + 1]
             t == AddName(s, p)
  <2>1. names[i + 1] = t /\ p \in Providers /\ i \in Nat
    BY <1>1, <1>2, <1>4, <1>6
  <2>2. s \in Seq(Providers) /\ IsInjective(s)
    BY <1>6 DEF OrderedFrom
  <2>3. /\ t \in Seq(Providers) /\ IsInjective(t)
        /\ Len(s) <= Len(t) /\ \A k \in 1..Len(s) : t[k] = s[k]
        /\ \E k \in 1..Len(t) : t[k] = p
        /\ \A k \in 1..Len(t) : t[k] = p \/ k <= Len(s)
    BY <2>1, <2>2, AddNameFacts
  <2> HIDE DEF t
  <2>4. primary # NoProvider => Len(t) > 0 /\ t[1] = primary
    BY <1>6, <2>2, <2>3 DEF OrderedFrom
  <2>5. ASSUME NEW j \in 1..(i + 1)
        PROVE  \E k \in 1..Len(t) : t[k] = FallbackChain[j]
    <3>1. CASE j = i + 1
      BY <2>3, <3>1
    <3>2. CASE j \in 1..i
      <4>1. PICK k \in 1..Len(s) : s[k] = FallbackChain[j]
        BY <1>6, <3>2 DEF OrderedFrom
      <4>2. QED
        BY <2>2, <2>3, <4>1
    <3>3. QED
      BY <2>1, <3>1, <3>2
  <2>6. ASSUME NEW k \in 1..Len(t)
        PROVE  t[k] = primary \/ \E j \in 1..(i + 1) : t[k] = FallbackChain[j]
    <3>1. CASE t[k] = p
      BY <2>1, <3>1
    <3>2. CASE k <= Len(s)
      <4>1. k \in 1..Len(s) /\ t[k] = s[k]
        BY <2>2, <2>3, <3>2
      <4>2. s[k] = primary \/ \E j \in 1..i : s[k] = FallbackChain[j]
        BY <1>6, <4>1 DEF OrderedFrom
      <4>3. QED
        BY <2>1, <4>1, <4>2
    <3>3. QED
      BY <2>3, <3>1, <3>2
  <2>7. QED
    BY <2>1, <2>3, <2>4, <2>5, <2>6 DEF OrderedFrom
<1>7. 0..N \subseteq S
  <2>1. 0 \in S
    BY <1>1, <1>5
  <2>2. ASSUME NEW i \in 0..N, i \in S, i < N
        PROVE  i + 1 \in S
    BY <1>1, <1>6, <2>2
  <2> HIDE DEF S
  <2>3. QED
    BY <1>1, <2>1, <2>2, LoopInduction
<1>8. QED
  BY <1>1, <1>7 DEF OrderedNames, N, primary, names

\* RoutingService asks p for the model requested if it serves it, and else
\* for the one equivalent that is configured.
AskedModel(p, m, asked) ==
    LET native == FindSupporting(m) IN
    IF Supports(p, m)
    THEN asked = m
    ELSE /\ native # NoProvider /\ <<native, m>> \in DOMAIN EquivalentModel
         /\ EquivalentModel[<<native, m>>] = <<p, asked>>

LEMMA AttemptModelFacts ==
    ASSUME NEW m \in Models, NEW p \in Providers
    PROVE  /\ AttemptModel(p, m) \in Models \union {NoModel}
           /\ \A asked \in Models :
                 AskedModel(p, m, asked) <=> AttemptModel(p, m) = asked
<1> DEFINE key == <<FindSupporting(m), m>>
<1>1. /\ NoModel \notin Models /\ NoProvider \notin Providers
      /\ DOMAIN EquivalentModel \subseteq Providers \X Models
      /\ \A k \in DOMAIN EquivalentModel : EquivalentModel[k] \in Providers \X Models
  BY RoutingAssumption DEF RoutingAssumption
<1>2. CASE Supports(p, m)
  BY <1>2 DEF AttemptModel, AskedModel
<1>3. CASE ~Supports(p, m) /\ key \in DOMAIN EquivalentModel
  <2>1. PICK to \in Providers, as \in Models : EquivalentModel[key] = <<to, as>>
    BY <1>1, <1>3
  <2>2. FindSupporting(m) # NoProvider
    BY <1>1, <1>3
  <2>3. AttemptModel(p, m) = IF to = p THEN as ELSE NoModel
    BY <1>3, <2>1 DEF AttemptModel, ResolveEquivalentModel
  <2>4. ASSUME NEW asked \in Models
        PROVE  AskedModel(p, m, asked) <=> (to = p /\ as = asked)
    <3>1. (<<to, as>> = <<p, asked>>) <=> (to = p /\ as = asked)
      OBVIOUS
    <3>2. AskedModel(p, m, asked) <=> (EquivalentModel[key] = <<p, asked>>)
      BY <1>3, <2>2 DEF AskedModel
    <3>3. QED
      BY <2>1, <3>1, <3>2
  <2>5. QED
    BY <1>1, <2>3, <2>4
<1>4. CASE ~Supports(p, m) /\ key \notin DOMAIN EquivalentModel
  BY <1>1, <1>4 DEF AttemptModel, ResolveEquivalentModel, AskedModel
<1>5. QED
  BY <1>2, <1>3, <1>4

\* What the recursive function of AttemptsAfter computes.
Usable(p, m) == Registered(p) /\ AttemptModel(p, m) # NoModel

LEMMA AttemptsLoop ==
    ASSUME NEW m \in Models
    PROVE  LET names == OrderedNames(m)
               attempts == AttemptsAfter(m)
           IN  /\ attempts \in [0..Len(names) -> Seq(Attempt)]
               /\ attempts[0] = <<>>
               /\ \A i \in 1..Len(names) :
                     attempts[i] = AddAttempt(attempts[i - 1], names[i], m)
<1> DEFINE names == OrderedNames(m)
           N == Len(names)
           base == <<>>
           A == Seq(Attempt)
           step == [i \in 1..N |-> [s \in A |-> AddAttempt(s, names[i], m)]]
           attempts[i \in 0..N] ==
               IF i = 0 THEN base ELSE AddAttempt(attempts[i - 1], names[i], m)
<1>1. names \in Seq(Providers) /\ N \in Nat
  BY OrderedNamesFacts DEF OrderedFrom
<1>2. base \in A
  OBVIOUS
<1>3. ASSUME NEW s \in A, NEW i \in 1..N
      PROVE  AddAttempt(s, names[i], m) \in A
  <2>1. names[i] \in Providers
    BY <1>1
  <2>2. CASE Usable(names[i], m)
    <3>1. [provider |-> names[i], model |-> AttemptModel(names[i], m)] \in Attempt
      BY <2>1, <2>2, AttemptModelFacts DEF Attempt, Usable
    <3>2. QED
      BY <2>2, <3>1 DEF AddAttempt, Usable
  <2>3. CASE ~Usable(names[i], m)
    BY <2>3 DEF AddAttempt, Usable
  <2>4. QED
    BY <2>2, <2>3
<1>4. AttemptsAfter(m) = attempts
  BY Zenon DEF AttemptsAfter
<1>5. attempts = CHOOSE f : f = [i \in 0..N |->
                     IF i = 0 THEN base ELSE AddAttempt(f[i - 1], names[i], m)]
  OBVIOUS
<1> HIDE DEF names, N, base, A
<1>6. step \in [1..N -> [A -> A]]
  BY <1>3
<1>7. \A i \in 1..N, s \in A : step[i][s] = AddAttempt(s, names[i], m)
  OBVIOUS
<1> HIDE DEF step, attempts
<1>8. PICK f \in [0..N -> A] : Computes(N, base, step, f)
  BY <1>1, <1>2, <1>6, LoopExists
<1>9. ASSUME NEW i \in 1..N
      PROVE  f[i] = AddAttempt(f[i - 1], names[i], m)
  <2>1. f[i - 1] \in A
    BY <1>1, <1>8
  <2>2. QED
    BY <1>7, <1>8, <2>1 DEF Computes
<1>10. f = [i \in 0..N |-> IF i = 0 THEN base ELSE AddAttempt(f[i - 1], names[i], m)]
  BY <1>1, <1>8, <1>9 DEF Computes
<1>11. attempts = [i \in 0..N |->
                     IF i = 0 THEN base ELSE AddAttempt(attempts[i - 1], names[i], m)]
  BY <1>5, <1>10
<1>12. /\ attempts[0] = base
       /\ \A i \in 1..N : attempts[i] = AddAttempt(attempts[i - 1], names[i], m)
  BY <1>1, <1>11
<1> DEFINE S == {i \in 0..N : attempts[i] \in A}
<1>13. 0..N \subseteq S
  <2>1. 0 \in S
    BY <1>1, <1>2, <1>12
  <2>2. ASSUME NEW i \in 0..N, i \in S, i < N
        PROVE  i + 1 \in S
    <3>1. i + 1 \in 1..N /\ i + 1 \in 0..N /\ attempts[i] \in A
      BY <1>1, <2>2
    <3>2. attempts[i + 1] = AddAttempt(attempts[i], names[i + 1], m)
      BY <1>1, <1>12, <3>1
    <3>3. QED
      BY <1>3, <3>1, <3>2
  <2> HIDE DEF S
  <2>3. QED
    BY <1>1, <2>1, <2>2, LoopInduction
<1>14. attempts \in [0..N -> A]
  BY <1>11, <1>13
<1>15. QED
  BY <1>4, <1>12, <1>14 DEF names, N, A, base

\* The attempts made from the first n names: one for each that is usable,
\* none twice, the one at the native provider first.
AttemptsFrom(attempts, names, m, n) ==
    LET native == FindSupporting(m) IN
    /\ attempts \in Seq(Attempt)
    /\ \A k \in 1..Len(attempts) :
          /\ \E j \in 1..n : attempts[k].provider = names[j]
          /\ Registered(attempts[k].provider)
          /\ AskedModel(attempts[k].provider, m, attempts[k].model)
    /\ \A k, l \in 1..Len(attempts) :
          attempts[k].provider = attempts[l].provider => k = l
    /\ \A j \in 1..n : Usable(names[j], m) =>
          \E k \in 1..Len(attempts) : attempts[k].provider = names[j]
    /\ native # NoProvider /\ n >= 1 =>
          /\ Len(attempts) > 0
          /\ attempts[1] = [provider |-> native, model |-> m]

LEMMA AddAttemptFacts ==
    ASSUME NEW m \in Models, NEW names, NEW i \in Nat,
           names \in Seq(Providers), IsInjective(names), i < Len(names),
           FindSupporting(m) # NoProvider => names[1] = FindSupporting(m),
           NEW s, AttemptsFrom(s, names, m, i)
    PROVE  AttemptsFrom(AddAttempt(s, names[i + 1], m), names, m, i + 1)
<1> DEFINE p == names[i + 1]
           native == FindSupporting(m)
           a == [provider |-> p, model |-> AttemptModel(p, m)]
           t == AddAttempt(s, p, m)
<1>1. p \in Providers /\ i + 1 \in 1..Len(names) /\ \A j \in 1..i : names[j] # p
  BY DEF IsInjective
<1>2. s \in Seq(Attempt) /\ Len(s) \in Nat
  BY DEF AttemptsFrom
<1>3. native # NoProvider => /\ Usable(native, m) /\ AttemptModel(native, m) = m
                             /\ native \in Providers
  BY FindSupportingFacts, RoutingAssumption
  DEF RoutingAssumption, Usable, AttemptModel
<1>4. /\ \A k \in 1..Len(s) :
            /\ \E j \in 1..i : s[k].provider = names[j]
            /\ Registered(s[k].provider)
            /\ AskedModel(s[k].provider, m, s[k].model)
      /\ \A k, l \in 1..Len(s) : s[k].provider = s[l].provider => k = l
      /\ \A j \in 1..i : Usable(names[j], m) =>
            \E k \in 1..Len(s) : s[k].provider = names[j]
      /\ native # NoProvider /\ i >= 1 =>
            Len(s) > 0 /\ s[1] = [provider |-> native, model |-> m]
  BY DEF AttemptsFrom
<1>5. CASE Usable(p, m)
  <2>1. t = Append(s, a)
    BY <1>5 DEF AddAttempt, Usable
  <2>2. /\ a \in Attempt /\ a.provider = p /\ a.model = AttemptModel(p, m)
        /\ Registered(p) /\ AskedModel(p, m, a.model)
    BY <1>1, <1>5, AttemptModelFacts DEF Usable, Attempt
  <2>3. native # NoProvider /\ i = 0 => a = [provider |-> native, model |-> m]
    BY <1>3
  <2> HIDE DEF a, t, p, native
  <2>4. /\ t \in Seq(Attempt) /\ Len(t) = Len(s) + 1 /\ t[Len(s) + 1] = a
        /\ \A k \in 1..Len(s) : t[k] = s[k]
    BY <1>2, <2>1, <2>2
  <2>5. ASSUME NEW k \in 1..Len(t)
        PROVE  \/ k \in 1..Len(s) /\ t[k] = s[k]
               \/ k = Len(s) + 1 /\ t[k] = a
    BY <1>2, <2>4
  <2>6. ASSUME NEW k \in 1..Len(t)
        PROVE  /\ \E j \in 1..(i + 1) : t[k].provider = names[j]
               /\ Registered(t[k].provider)
               /\ AskedModel(t[k].provider, m, t[k].model)
    <3>1. CASE k \in 1..Len(s) /\ t[k] = s[k]
      BY <1>4, <3>1
    <3>2. CASE k = Len(s) + 1 /\ t[k] = a
      BY <2>2, <3>2 DEF p
    <3>3. QED
      BY <2>5, <3>1, <3>2
  <2>7. ASSUME NEW k \in 1..Len(t), NEW l \in 1..Len(t), t[k].provider = t[l].provider
        PROVE  k = l
    <3>1. \A n \in 1..Len(s) : s[n].provider # p
      BY <1>1, <1>4
    <3>2. QED
      BY <1>4, <2>2, <2>5, <2>7, <3>1
  <2>8. ASSUME NEW j \in 1..(i + 1), Usable(names[j], m)
        PROVE  \E k \in 1..Len(t) : t[k].provider = names[j]
    <3>1. CASE j = i + 1
      BY <1>2, <2>2, <2>4, <3>1 DEF p
    <3>2. CASE j \in 1..i
      <4>1. PICK k \in 1..Len(s) : s[k].provider = names[j]
        BY <1>4, <2>8, <3>2
      <4>2. QED
        BY <1>2, <2>4, <4>1
    <3>3. QED
      BY <3>1, <3>2
  <2>9. native # NoProvider =>
            Len(t) > 0 /\ t[1] = [provider |-> native, model |-> m]
    <3>1. CASE i = 0
      <4>1. Len(s) = 0
        BY <1>2, <1>4, <3>1
      <4>2. QED
        BY <2>3, <2>4, <3>1, <4>1
    <3>2. CASE i >= 1
      BY <1>2, <1>4, <2>4, <3>2
    <3>3. QED
      BY <3>1, <3>2
  <2>10. QED
    BY <2>4, <2>6, <2>7, <2>8, <2>9 DEF AttemptsFrom, t, p, native
<1>6. CASE ~Usable(p, m)
  <2>1. t = s
    BY <1>6 DEF AddAttempt, Usable
  <2>2. native # NoProvider => i >= 1
    BY <1>3, <1>6
  <2> HIDE DEF t, native
  <2>3. \A k \in 1..Len(s) : \E j \in 1..(i + 1) : s[k].provider = names[j]
    BY <1>4
  <2>4. \A j \in 1..(i + 1) : Usable(names[j], m) =>
            \E k \in 1..Len(s) : s[k].provider = names[j]
    BY <1>4, <1>6
  <2>5. AttemptsFrom(s, names, m, i + 1)
    BY <1>2, <1>4, <2>2, <2>3, <2>4 DEF AttemptsFrom, native
  <2>6. QED
    BY <2>1, <2>5 DEF t
<1>7. QED
  BY <1>5, <1>6

LEMMA ResolvedFacts ==
    ASSUME NEW m \in Models
    PROVE  AttemptsFrom(AttemptsAfter(m)[Len(OrderedNames(m))],
                        OrderedNames(m), m, Len(OrderedNames(m)))
<1> DEFINE names == OrderedNames(m)
           N == Len(names)
           attempts == AttemptsAfter(m)
           S == {i \in 0..N : AttemptsFrom(attempts[i], names, m, i)}
<1>1. /\ names \in Seq(Providers) /\ IsInjective(names) /\ N \in Nat
      /\ FindSupporting(m) # NoProvider => Len(names) > 0 /\ names[1] = FindSupporting(m)
  BY OrderedNamesFacts DEF OrderedFrom
<1>2. /\ attempts[0] = <<>>
      /\ \A i \in 1..N : attempts[i] = AddAttempt(attempts[i - 1], names[i], m)
  BY AttemptsLoop
<1> HIDE DEF names, attempts
<1>3. AttemptsFrom(attempts[0], names, m, 0)
  BY <1>2 DEF AttemptsFrom
<1>4. 0..N \subseteq S
  <2>1. 0 \in S
    BY <1>1, <1>3
  <2>2. ASSUME NEW i \in 0..N, i \in S, i < N
        PROVE  i + 1 \in S
    <3>1. attempts[i + 1] = AddAttempt(attempts[i], names[i + 1], m)
      BY <1>1, <1>2, <2>2
    <3>2. AttemptsFrom(attempts[i + 1], names, m, i + 1)
      BY <1>1, <2>2, <3>1, AddAttemptFacts
    <3>3. QED
      BY <1>1, <2>2, <3>2
  <2> HIDE DEF S
  <2>3. QED
    BY <1>1, <2>1, <2>2, LoopInduction
<1>5. QED
  BY <1>1, <1>4 DEF names, attempts

\* _resolve_attempts: an override is the only attempt.  Otherwise every
\* attempt is at a registered provider, no provider twice, with the model
\* requested or its configured equivalent; the native provider comes first
\* and no provider of the chain that could answer is left out.
ResolutionOK(q, attempts) ==
    /\ attempts \in Seq(Attempt)
    /\ \A k, l \in 1..Len(attempts) :
          attempts[k].provider = attempts[l].provider => k = l
    /\ q.override # NoProvider =>
          attempts = <<[provider |-> q.override, model |-> q.model]>>
    /\ q.override = NoProvider =>
          LET native == FindSupporting(q.model) IN
          /\ \A k \in 1..Len(attempts) :
                /\ Registered(attempts[k].provider)
                /\ AskedModel(attempts[k].provider, q.model, attempts[k].model)
          /\ native # NoProvider =>
                /\ Len(attempts) > 0
                /\ attempts[1] = [provider |-> native, model |-> q.model]
          /\ \A j \in 1..Len(FallbackChain), asked \in Models :
                /\ Registered(FallbackChain[j])
                /\ AskedModel(FallbackChain[j], q.model, asked)
                => \E k \in 1..Len(attempts) :
                      attempts[k] = [provider |-> FallbackChain[j], model |-> asked]

THEOREM ResolutionSound ==
    ASSUME NEW q \in ChatRequest
    PROVE  ResolutionOK(q, ResolveAttempts(q))
<1> DEFINE m == q.model
           names == OrderedNames(m)
           N == Len(names)
           attempts == AttemptsAfter(m)[N]
<1>1. m \in Models /\ q.override \in Providers \union {NoProvider}
  BY DEF ChatRequest
<1>2. CASE q.override # NoProvider
  <2> DEFINE a == [provider |-> q.override, model |-> m]
  <2>1. ResolveAttempts(q) = <<a>> /\ a \in Attempt
    BY <1>1, <1>2 DEF ResolveAttempts, Attempt
  <2>2. <<a>> \in Seq(Attempt) /\ Len(<<a>>) = 1
    BY <2>1
  <2>3. QED
    BY <1>2, <2>1, <2>2 DEF ResolutionOK
<1>3. CASE q.override = NoProvider
  <2>1. ResolveAttempts(q) = attempts
    BY <1>3 DEF ResolveAttempts
  <2>2. AttemptsFrom(attempts, names, m, N)
    BY <1>1, ResolvedFacts
  <2>3. /\ names \in Seq(Providers)
        /\ FindSupporting(m) # NoProvider => N > 0
        /\ \A j \in 1..Len(FallbackChain) : \E k \in 1..N : names[k] = FallbackChain[j]
    BY OrderedNamesFacts DEF OrderedFrom
  <2> HIDE DEF attempts, names
  <2>4. /\ attempts \in Seq(Attempt)
        /\ \A k, l \in 1..Len(attempts) :
              attempts[k].provider = attempts[l].provider => k = l
        /\ \A k \in 1..Len(attempts) :
              /\ Registered(attempts[k].provider)
              /\ AskedModel(attempts[k].provider, m, attempts[k].model)
        /\ \A j \in 1..N : Usable(names[j], m) =>
              \E k \in 1..Len(attempts) : attempts[k].provider = names[j]
    BY <2>2 DEF AttemptsFrom
  <2>5. FindSupporting(m) # NoProvider =>
              /\ Len(attempts) > 0
              /\ attempts[1] = [provider |-> FindSupporting(m), model |-> m]
    BY <2>2, <2>3 DEF AttemptsFrom
  <2>6. ASSUME NEW j \in 1..Len(FallbackChain), NEW asked \in Models,
               Registered(FallbackChain[j]), AskedModel(FallbackChain[j], m, asked)
        PROVE  \E k \in 1..Len(attempts) :
                  attempts[k] = [provider |-> FallbackChain[j], model |-> asked]
    <3> DEFINE p == FallbackChain[j]
    <3>1. p \in Providers
      BY RoutingAssumption DEF RoutingAssumption
    <3>2. AttemptModel(p, m) = asked /\ asked # NoModel
      BY <1>1, <2>6, <3>1, AttemptModelFacts, RoutingAssumption DEF RoutingAssumption
    <3>3. PICK i \in 1..N : names[i] = p
      BY <2>3
    <3>4. PICK k \in 1..Len(attempts) : attempts[k].provider = p
      BY <2>4, <2>6, <3>2, <3>3 DEF Usable
    <3>5. attempts[k] \in Attempt
      BY <2>4
    <3>6. attempts[k].model \in Models
      BY <3>5 DEF Attempt
    <3>7. attempts[k].model = asked
      BY <1>1, <2>4, <3>1, <3>2, <3>4, <3>6, AttemptModelFacts
    <3>8. attempts[k] = [provider |-> p, model |-> asked]
      BY <3>4, <3>5, <3>7 DEF Attempt
    <3>9. QED
      BY <3>8
  <2>7. QED
    BY <1>3, <2>1, <2>4, <2>5, <2>6 DEF ResolutionOK
<1>4. QED
  BY <1>2, <1>3

-----------------------------------------------------------------------------
(* Routing implements the providers.                                       *)

RouteTypeOK ==
    /\ route \in [Requests -> RouteRec]
    /\ selected \in [Requests -> Seq(Attempt)]

\* What a step does to the record of the request that makes it.
LEMMA RouteRecords ==
    ASSUME NEW x \in RouteRec, NEW mode \in Modes, NEW attempts \in Seq(Attempt)
    PROVE  /\ [x EXCEPT !.pc = "rejected", !.mode = mode] \in RouteRec
           /\ [x EXCEPT !.pc = "routing", !.mode = mode, !.attempts = attempts] \in RouteRec
  BY DEF RouteRec

LEMMA EndRecords ==
    ASSUME NEW x \in RouteRec, NEW pc \in {"returned", "exhausted", "aborted"}
    PROVE  [x EXCEPT !.pc = pc] \in RouteRec
  BY DEF RouteRec

LEMMA ErrorRecords ==
    ASSUME NEW x \in RouteRec, NEW pc \in {"routing", "raised"},
           NEW errors \in Seq(Providers)
    PROVE  [x EXCEPT !.errors = errors, !.pc = pc] \in RouteRec
  BY DEF RouteRec

LEMMA ArriveFacts ==
    ASSUME RouteTypeOK, NEW r \in Requests, NEW q \in Inbound, NEW mode \in Modes,
           Arrive(r, q, mode)
    PROVE  /\ RouteTypeOK'
           /\ \A d \in Requests \ {r} : route'[d] = route[d]
           /\ route[r].pc = "new"
           /\ route'[r].errors = route[r].errors
           /\ \/ /\ route'[r].pc = "rejected"
                 /\ route'[r].attempts = route[r].attempts
              \/ /\ route'[r].pc = "routing"
                 /\ route'[r].attempts = ResolveAttempts(q)
<1> DEFINE x == route[r]
           unknown == q.override # NoProvider /\ ~Registered(q.override)
           rejected == [x EXCEPT !.pc = "rejected", !.mode = mode]
           accepted == [x EXCEPT !.pc = "routing", !.mode = mode,
                                 !.attempts = ResolveAttempts(q)]
<1>1. x \in RouteRec
  BY DEF RouteTypeOK
<1>2. ResolveAttempts(q) \in Seq(Attempt)
  BY ResolutionSound, RoutingAssumption DEF RoutingAssumption, ResolutionOK
<1>3. rejected \in RouteRec /\ accepted \in RouteRec
  BY <1>1, <1>2, RouteRecords
<1>4. /\ rejected.pc = "rejected" /\ rejected.attempts = x.attempts
      /\ rejected.errors = x.errors
      /\ accepted.pc = "routing" /\ accepted.attempts = ResolveAttempts(q)
      /\ accepted.errors = x.errors
  BY <1>1 DEF RouteRec
<1>5. /\ route' = [route EXCEPT ![r] = IF unknown THEN rejected ELSE accepted]
      /\ UNCHANGED selected
  BY DEF Arrive
<1>6. x.pc = "new"
  BY DEF Arrive
<1> HIDE DEF rejected, accepted, unknown
<1>7. CASE unknown
  BY <1>3, <1>4, <1>5, <1>6, <1>7 DEF RouteTypeOK
<1>8. CASE ~unknown
  BY <1>3, <1>4, <1>5, <1>6, <1>8 DEF RouteTypeOK
<1>9. QED
  BY <1>7, <1>8

\* The attempt a request stands at is one of the attempts it resolved to.
LEMMA CurrentFacts ==
    ASSUME RouteTypeOK, NEW r \in Requests, AtAttempt(r)
    PROVE  /\ Len(route[r].errors) \in Nat /\ Len(route[r].attempts) \in Nat
           /\ Len(route[r].errors) + 1 \in 1..Len(route[r].attempts)
           /\ Current(r) = route[r].attempts[Len(route[r].errors) + 1]
           /\ Current(r) \in Attempt /\ Current(r).provider \in Providers
<1>1. route[r] \in RouteRec
  BY DEF RouteTypeOK
<1>2. route[r].errors \in Seq(Providers) /\ route[r].attempts \in Seq(Attempt)
  BY <1>1 DEF RouteRec
<1>3. /\ Len(route[r].errors) \in Nat /\ Len(route[r].attempts) \in Nat
      /\ Len(route[r].errors) + 1 \in 1..Len(route[r].attempts)
  BY <1>2 DEF AtAttempt, MoreAttempts
<1>4. Current(r) \in Attempt
  BY <1>2, <1>3 DEF Current
<1>5. QED
  BY <1>3, <1>4 DEF Current, Attempt

LEMMA EndFacts ==
    ASSUME RouteTypeOK, NEW r \in Requests, 
           NEW pc \in {"returned", "exhausted", "aborted"},
           route' = [route EXCEPT ![r].pc = pc], UNCHANGED selected
    PROVE  /\ RouteTypeOK'
           /\ \A d \in Requests \ {r} : route'[d] = route[d]
           /\ route'[r].pc = pc
           /\ route'[r].attempts = route[r].attempts
           /\ route'[r].errors = route[r].errors
<1> DEFINE x == route[r]
           ended == [x EXCEPT !.pc = pc]
<1>1. x \in RouteRec
  BY DEF RouteTypeOK
<1>2. ended \in RouteRec
  BY <1>1, EndRecords
<1>3. ended.pc = pc /\ ended.attempts = x.attempts /\ ended.errors = x.errors
  BY <1>1 DEF RouteRec
<1>4. route' = [route EXCEPT ![r] = ended]
  OBVIOUS
<1> HIDE DEF ended
<1>5. QED
  BY <1>2, <1>3, <1>4 DEF RouteTypeOK

LEMMA HandleErrorFacts ==
    ASSUME RouteTypeOK, NEW r \in Requests, HandleError(r)
    PROVE  /\ RouteTypeOK'
           /\ \A d \in Requests \ {r} : route'[d] = route[d]
           /\ route'[r].pc = IF CurrentCall(r).emitted # {} THEN "raised" ELSE "routing"
           /\ route'[r].attempts = route[r].attempts
           /\ Len(route'[r].errors) = Len(route[r].errors) + 1
<1> DEFINE x == route[r]
           pc == IF CurrentCall(r).emitted # {} THEN "raised" ELSE "routing"
           errors == Append(x.errors, Current(r).provider)
           failed == [x EXCEPT !.errors = errors, !.pc = pc]
<1>1. x \in RouteRec /\ x.pc = "routing"
  BY DEF RouteTypeOK, HandleError, AtAttempt, Routing
<1>2. x.errors \in Seq(Providers) /\ Current(r).provider \in Providers
  BY <1>1, CurrentFacts DEF HandleError, RouteRec
<1>3. errors \in Seq(Providers) /\ Len(errors) = Len(x.errors) + 1
  BY <1>2
<1>4. route' = [route EXCEPT ![r] = failed] /\ UNCHANGED selected
  BY <1>1 DEF HandleError, RouteTypeOK
<1>. pc \in {"routing", "raised"}
  OBVIOUS
<1> HIDE DEF errors, pc
<1>5. failed \in RouteRec
  BY <1>1, <1>3, ErrorRecords
<1>6. failed.pc = pc /\ failed.attempts = x.attempts /\ failed.errors = errors
  BY <1>1 DEF RouteRec
<1> HIDE DEF failed
<1>7. QED
  BY <1>3, <1>4, <1>5, <1>6 DEF RouteTypeOK, pc

\* A chunk adds to what was selected at most the attempt that is current.
LEMMA DeliverFacts ==
    ASSUME RouteTypeOK, NEW r \in Requests, Deliver(r)
    PROVE  /\ RouteTypeOK'
           /\ route' = route
           /\ \A d \in Requests \ {r} : selected'[d] = selected[d]
           /\ selected'[r] = IF CurrentCall(r).emitted = {}
                             THEN Append(selected[r], Current(r)) ELSE selected[r]
<1> DEFINE told == IF CurrentCall(r).emitted = {}
                   THEN Append(selected[r], Current(r)) ELSE selected[r]
<1>1. Current(r) \in Attempt /\ selected[r] \in Seq(Attempt)
  BY CurrentFacts DEF Deliver, RouteTypeOK
<1>2. told \in Seq(Attempt)
  BY <1>1
<1>3. route' = route /\ selected' = [selected EXCEPT ![r] = told]
  BY DEF Deliver
<1> HIDE DEF told
<1>4. QED
  BY <1>2, <1>3 DEF RouteTypeOK, told

LEMMA RouteTypeStep ==
    RouteTypeOK /\ [RoutingNext]_routingVars => RouteTypeOK'
<1> SUFFICES ASSUME RouteTypeOK, [RoutingNext]_routingVars
             PROVE  RouteTypeOK'
  OBVIOUS
<1>1. ASSUME NEW r \in Requests, NEW q \in Inbound, NEW mode \in Modes,
             Arrive(r, q, mode)
      PROVE  RouteTypeOK'
  BY <1>1, ArriveFacts
<1>2. ASSUME NEW r \in Requests, Answer(r) \/ Exhaust(r) \/ Cancel(r)
      PROVE  RouteTypeOK'
  BY <1>2, EndFacts DEF Answer, Exhaust, Cancel, End
<1>3. ASSUME NEW r \in Requests, HandleError(r)
      PROVE  RouteTypeOK'
  BY <1>3, HandleErrorFacts
<1>4. ASSUME NEW r \in Requests, Deliver(r)
      PROVE  RouteTypeOK'
  BY <1>4, DeliverFacts
<1>5. CASE UNCHANGED <<route, selected>>
  BY <1>5 DEF RouteTypeOK
<1>6. QED
  BY <1>1, <1>2, <1>3, <1>4, <1>5
  DEF RoutingNext, Advance, CallProvider, UpstreamStep, ClockTick, AllEnded, routingVars

\* Every step of routing is a step of the providers or leaves them alone.
LEMMA RoutingStepsProviders ==
    RouteTypeOK /\ [RoutingNext]_routingVars => [ProviderNext]_providerVars
<1> SUFFICES ASSUME RouteTypeOK, [RoutingNext]_routingVars
             PROVE  [ProviderNext]_providerVars
  OBVIOUS
<1>1. ASSUME NEW r \in Requests, CallProvider(r) \/ UpstreamStep(r) \/ Deliver(r) \/ Cancel(r)
      PROVE  ProviderNext
  <2>1. Current(r).provider \in Providers /\ r \in Calls
    BY <1>1, CurrentFacts
    DEF CallProvider, UpstreamStep, Deliver, Cancel, Requests
  <2>2. route[r].mode \in Modes
    BY DEF RouteTypeOK, RouteRec
  <2>3. QED
    BY <1>1, <2>1, <2>2
    DEF CallProvider, UpstreamStep, Deliver, Cancel, ProviderNext, Start
<1>2. CASE ClockTick
  BY <1>2 DEF ClockTick, ProviderNext
<1>3. CASE UNCHANGED providerVars
  BY <1>3
<1>4. QED
  BY <1>1, <1>2, <1>3
  DEF RoutingNext, Advance, Arrive, Answer, HandleError, Exhaust, End, AllEnded, routingVars

LEMMA RouteTyping == RoutingSpec => []RouteTypeOK
<1>1. RoutingInit => RouteTypeOK
  BY DEF RoutingInit, RouteTypeOK, RouteRec, Modes
<1>2. QED
  BY <1>1, RouteTypeStep, PTL DEF RoutingSpec

\* RoutingService calls the providers only as BaseLLMProvider allows, so all
\* that was proved of the providers holds of routing.
THEOREM RoutingImplementsProviders == RoutingSpec => ProviderSpec
<1>1. RoutingInit => ProviderInit
  BY DEF RoutingInit
<1>2. QED
  BY <1>1, RoutingStepsProviders, RouteTyping, PTL DEF RoutingSpec, ProviderSpec

\* Requests, attempts, errors and what was announced stay well formed.
THEOREM RoutingTyping == RoutingSpec => []RoutingTypeOK
<1>1. TypeOK /\ RouteTypeOK => RoutingTypeOK
  BY DEF RouteTypeOK, RoutingTypeOK
<1>2. QED
  BY <1>1, RouteTyping, RoutingImplementsProviders, Typing, PTL

\* The promises of the breaker and of the retry loop, carried over.
THEOREM RoutingKeepsPromises ==
    RoutingSpec => [](OpenIffFailureRun /\ OutputFromOneAttempt /\ RetryBudget)
  BY RoutingImplementsProviders, OpenAfterFailureRun, NoMixedOutput, BudgetKept, PTL

-----------------------------------------------------------------------------
(* What the steps of a request do to its call at the current provider.     *)

\* Only the call c at provider p changes.
OnlyCall(p, c) ==
    \A q \in Providers, d \in Calls : q # p \/ d # c => call'[q][d] = call[q][d]

\* The call is made, goes on, delivers, or is cut off.
Made(p, c) ==
    /\ OnlyCall(p, c)
    /\ call[p][c].pc = "idle" /\ call'[p][c].pc \in {"calling", "raised"}
    /\ call'[p][c].emitted = {}

GoesOn(p, c) ==
    /\ OnlyCall(p, c)
    /\ call[p][c].pc \in {"calling", "backoff"}
    /\ call'[p][c].pc \in {"calling", "backoff", "returned", "raised"}
    /\ call'[p][c].emitted = call[p][c].emitted

Delivers(p, c) ==
    /\ OnlyCall(p, c)
    /\ call[p][c].pc = "calling" /\ call'[p][c].pc = "calling"
    /\ call'[p][c].emitted # {}

CutOff(p, c) ==
    /\ OnlyCall(p, c)
    /\ call[p][c].pc \in {"calling", "backoff"} /\ call'[p][c].pc = "aborted"
    /\ call'[p][c].emitted = call[p][c].emitted

LEMMA CallMoves ==
    ASSUME TypeOK, NEW p \in Providers, NEW c \in Calls
    PROVE  /\ \A mode \in Modes : Admit(p, c, mode) \/ Refuse(p, c, mode) => Made(p, c)
           /\ Progress(p, c) => GoesOn(p, c)
           /\ Chunk(p, c) => Delivers(p, c)
           /\ Abort(p, c) => CutOff(p, c)
<1> DEFINE k == call[p][c]
<1>1. k \in CallRec /\ k.attempt \in Nat /\ k.chunks \in Nat /\ k.emitted \in SUBSET Nat
  BY DEF TypeOK, CallRec
<1>2. ASSUME NEW rec \in CallRec, Become(p, c, rec)
      PROVE  OnlyCall(p, c) /\ call'[p][c] = rec
  BY <1>2, BecomeFacts DEF OnlyCall, TypeOK
<1>3. ASSUME NEW mode \in Modes, Admit(p, c, mode) \/ Refuse(p, c, mode)
      PROVE  Made(p, c)
  <2> DEFINE probe == EffectiveState(breaker[p]) = "HALF_OPEN"
             granted == [NotCalled EXCEPT !.pc = "calling", !.mode = mode, !.probe = probe]
             refused == [NotCalled EXCEPT !.pc = "raised", !.mode = mode,
                                          !.error = "unavailable"]
  <2>1. granted \in CallRec /\ refused \in CallRec
    BY FreshRecords
  <2>2. /\ granted.pc = "calling" /\ granted.emitted = {}
        /\ refused.pc = "raised" /\ refused.emitted = {}
    BY DEF NotCalled
  <2>3. k.pc = "idle" /\ (Become(p, c, granted) \/ Become(p, c, refused))
    BY <1>3 DEF Admit, Refuse
  <2> HIDE DEF granted, refused
  <2>4. QED
    BY <1>2, <2>1, <2>2, <2>3 DEF Made
<1>4. ASSUME Progress(p, c)
      PROVE  GoesOn(p, c)
  <2>1. ASSUME NEW rec \in CallRec, Become(p, c, rec), rec.emitted = k.emitted,
               rec.pc \in {"calling", "backoff", "returned", "raised"},
               k.pc \in {"calling", "backoff"}
        PROVE  GoesOn(p, c)
    BY <1>2, <2>1 DEF GoesOn
  <2>2. CASE Succeed(p, c)
    <3> DEFINE rec == [k EXCEPT !.pc = "returned"]
    <3>1. rec \in CallRec
      BY <1>1, PcRecord
    <3>2. rec.pc = "returned" /\ rec.emitted = k.emitted
      BY <1>1 DEF CallRec
    <3>3. Become(p, c, rec) /\ k.pc = "calling"
      BY <2>2 DEF Succeed
    <3> HIDE DEF rec
    <3>4. QED
      BY <2>1, <3>1, <3>2, <3>3
  <2>3. CASE Retry(p, c)
    <3> DEFINE rec == [k EXCEPT !.pc = "calling", !.attempt = k.attempt + 1, !.chunks = 0]
    <3>. k.attempt + 1 \in Nat
      BY <1>1
    <3>1. rec \in CallRec
      BY <1>1, RetryRecord
    <3>2. rec.pc = "calling" /\ rec.emitted = k.emitted
      BY <1>1 DEF CallRec
    <3>3. Become(p, c, rec) /\ k.pc = "backoff"
      BY <2>3 DEF Retry
    <3> HIDE DEF rec
    <3>4. QED
      BY <2>1, <3>1, <3>2, <3>3
  <2>4. ASSUME NEW f \in UpstreamFailure, Fail(p, c, f)
        PROVE  GoesOn(p, c)
    <3> DEFINE error == IF Retryable(f) THEN "retryable" ELSE "fatal"
               raised == [k EXCEPT !.pc = "raised", !.error = error]
               slept == [k EXCEPT !.pc = "backoff"]
    <3>1. raised \in CallRec /\ slept \in CallRec
      BY <1>1, PcRecord, ErrorRecord
    <3>2. /\ raised.pc = "raised" /\ raised.emitted = k.emitted
          /\ slept.pc = "backoff" /\ slept.emitted = k.emitted
      BY <1>1 DEF CallRec
    <3>3. k.pc = "calling" /\ (Become(p, c, raised) \/ Become(p, c, slept))
      BY <2>4 DEF Fail
    <3> HIDE DEF raised, slept
    <3>4. QED
      BY <2>1, <3>1, <3>2, <3>3
  <2>5. QED
    BY <1>4, <2>2, <2>3, <2>4 DEF Progress
<1>5. ASSUME Chunk(p, c)
      PROVE  Delivers(p, c)
  <2> DEFINE rec == [k EXCEPT !.chunks = k.chunks + 1,
                              !.emitted = k.emitted \union {k.attempt}]
  <2>. k.chunks + 1 \in Nat /\ k.emitted \union {k.attempt} \in SUBSET Nat
    BY <1>1
  <2>1. rec \in CallRec
    BY <1>1, ChunkRecord
  <2>2. rec.pc = k.pc /\ rec.emitted # {}
    BY <1>1 DEF CallRec
  <2>3. Become(p, c, rec) /\ k.pc = "calling"
    BY <1>5 DEF Chunk
  <2> HIDE DEF rec
  <2>4. QED
    BY <1>2, <2>1, <2>2, <2>3 DEF Delivers
<1>6. ASSUME Abort(p, c)
      PROVE  CutOff(p, c)
  <2> DEFINE rec == [k EXCEPT !.pc = "aborted"]
  <2>1. rec \in CallRec
    BY <1>1, PcRecord
  <2>2. rec.pc = "aborted" /\ rec.emitted = k.emitted
    BY <1>1 DEF CallRec
  <2>3. Become(p, c, rec) /\ k.pc \in {"calling", "backoff"}
    BY <1>6 DEF Abort
  <2> HIDE DEF rec
  <2>4. QED
    BY <1>2, <2>1, <2>2, <2>3 DEF CutOff
<1>7. QED
  BY <1>3, <1>4, <1>5, <1>6

-----------------------------------------------------------------------------
(* Fallback in order, from one source.                                     *)

\* The attempt whose turn it is, or at which the request ended.
Turn(x) == IF x.pc = "raised" THEN Len(x.errors) ELSE Len(x.errors) + 1

FailedClean(k) == k.pc = "raised" /\ k.emitted = {}

\* Before an attempt has its turn, all earlier ones have failed with nothing
\* delivered; no other provider has been called for the request.
InOrder(x, calls) ==
    /\ x.pc \in {"new", "rejected"} => x.attempts = <<>> /\ x.errors = <<>>
    /\ \A i, j \in 1..Len(x.attempts) :
          x.attempts[i].provider = x.attempts[j].provider => i = j
    /\ Len(x.errors) <= Len(x.attempts)
    /\ x.pc = "exhausted" => Len(x.errors) = Len(x.attempts)
    /\ \A i \in 1..(Turn(x) - 1) : FailedClean(calls[x.attempts[i].provider])
    /\ \A p \in Providers : calls[p].pc # "idle" =>
          \E i \in 1..Len(x.attempts) : i <= Turn(x) /\ x.attempts[i].provider = p
    /\ \A p \in Providers : calls[p].pc = "idle" => calls[p].emitted = {}

CallsOf(r) == [p \in Providers |-> call[p][r]]

RouteInv == \A r \in Requests : InOrder(route[r], CallsOf(r))

\* The attempts up to the one whose turn it is are attempts.
LEMMA TurnFacts ==
    ASSUME NEW x \in RouteRec, Len(x.errors) <= Len(x.attempts)
    PROVE  /\ Len(x.attempts) \in Nat /\ Len(x.errors) \in Nat /\ Turn(x) \in Nat
           /\ \A i \in 1..Len(x.attempts) : x.attempts[i].provider \in Providers
           /\ \A i \in 1..(Turn(x) - 1) : i \in 1..Len(x.attempts)
<1>1. x.attempts \in Seq(Attempt) /\ x.errors \in Seq(Providers)
  BY DEF RouteRec
<1>2. \A i \in 1..Len(x.attempts) : x.attempts[i] \in Attempt
  BY <1>1
<1>3. /\ Len(x.attempts) \in Nat /\ Len(x.errors) \in Nat /\ Turn(x) \in Nat
      /\ \A i \in 1..(Turn(x) - 1) : i \in 1..Len(x.attempts)
  BY <1>1 DEF Turn
<1>4. QED
  BY <1>2, <1>3 DEF Attempt

\* The call at the current provider moves on from a state other than raised.
LEMMA CurrentMoves ==
    ASSUME NEW x \in RouteRec, NEW calls, InOrder(x, calls),
           NEW y \in RouteRec, NEW moved, NEW cur,
           x.pc = "routing", Turn(x) <= Len(x.attempts),
           cur = x.attempts[Turn(x)].provider,
           \A p \in Providers \ {cur} : moved[p] = calls[p],
           calls[cur].pc # "raised", moved[cur].pc # "idle",
           y.pc \in {"routing", "aborted"},
           y.attempts = x.attempts, y.errors = x.errors
    PROVE  InOrder(y, moved)
<1>1. Turn(y) = Turn(x) /\ Turn(x) \in 1..Len(x.attempts)
  BY TurnFacts DEF Turn, InOrder
<1>2. ASSUME NEW i \in 1..(Turn(x) - 1)
      PROVE  FailedClean(moved[x.attempts[i].provider])
  <2> DEFINE p == x.attempts[i].provider
  <2>1. p \in Providers
    BY TurnFacts DEF InOrder
  <2>2. FailedClean(calls[p])
    BY DEF InOrder
  <2>3. p # cur
    BY <2>2 DEF FailedClean
  <2>4. moved[p] = calls[p]
    BY <2>1, <2>3
  <2>5. QED
    BY <2>2, <2>4
<1>3. \A p \in Providers : moved[p].pc # "idle" =>
          \E i \in 1..Len(x.attempts) : i <= Turn(x) /\ x.attempts[i].provider = p
  BY <1>1, TurnFacts DEF InOrder
<1>4. QED
  BY <1>1, <1>2, <1>3 DEF InOrder

\* The request resolves its attempts, or is turned away.
LEMMA NewInOrder ==
    ASSUME NEW x \in RouteRec, NEW calls, InOrder(x, calls), x.pc = "new",
           NEW y \in RouteRec, y.errors = x.errors,
           \/ y.pc = "rejected" /\ y.attempts = x.attempts
           \/ /\ y.pc = "routing"
              /\ \A i, j \in 1..Len(y.attempts) :
                    y.attempts[i].provider = y.attempts[j].provider => i = j
    PROVE  InOrder(y, calls)
<1>1. x.attempts = <<>> /\ x.errors = <<>>
  BY DEF InOrder
<1>2. \A p \in Providers : calls[p].pc = "idle"
  BY <1>1 DEF InOrder
<1>3. y.attempts \in Seq(Attempt)
  BY DEF RouteRec
<1>4. Turn(y) = 1
  BY <1>1 DEF Turn
<1>5. QED
  BY <1>1, <1>2, <1>3, <1>4 DEF InOrder

\* The request ends, or goes on to the next attempt.
LEMMA EndInOrder ==
    ASSUME NEW x \in RouteRec, NEW calls, InOrder(x, calls), x.pc = "routing",
           NEW y \in RouteRec, y.attempts = x.attempts, y.errors = x.errors,
           \/ y.pc = "returned"
           \/ y.pc = "exhausted" /\ Len(x.errors) >= Len(x.attempts)
    PROVE  InOrder(y, calls)
<1>1. Turn(y) = Turn(x) /\ Len(x.errors) \in Nat /\ Len(x.attempts) \in Nat
  BY TurnFacts DEF Turn, InOrder
<1>2. QED
  BY <1>1 DEF InOrder

LEMMA NextInOrder ==
    ASSUME NEW x \in RouteRec, NEW calls, InOrder(x, calls),
           x.pc = "routing", Len(x.errors) < Len(x.attempts),
           NEW y \in RouteRec, y.attempts = x.attempts,
           Len(y.errors) = Len(x.errors) + 1,
           \/ y.pc = "raised"
           \/ y.pc = "routing" /\ FailedClean(calls[x.attempts[Turn(x)].provider])
    PROVE  InOrder(y, calls)
<1>1. /\ Len(x.errors) \in Nat /\ Len(x.attempts) \in Nat
      /\ Turn(x) = Len(x.errors) + 1
      /\ y.pc = "raised" => Turn(y) = Turn(x)
      /\ y.pc = "routing" => Turn(y) = Turn(x) + 1
  BY TurnFacts DEF Turn, InOrder
<1>2. \A i \in 1..(Turn(y) - 1) : FailedClean(calls[x.attempts[i].provider])
  BY <1>1 DEF InOrder
<1>3. \A p \in Providers : calls[p].pc # "idle" =>
          \E i \in 1..Len(x.attempts) : i <= Turn(y) /\ x.attempts[i].provider = p
  BY <1>1 DEF InOrder
<1>4. QED
  BY <1>1, <1>2, <1>3 DEF InOrder

\* The four steps in which a request does something at its current provider.
AtCurrent(r) == CallProvider(r) \/ UpstreamStep(r) \/ Deliver(r) \/ Cancel(r)

LEMMA AtCurrentFacts ==
    ASSUME RoutingTypeOK, NEW r \in Requests, AtCurrent(r)
    PROVE  LET cur == Current(r).provider IN
           /\ cur \in Providers /\ AtAttempt(r) /\ r \in Calls
           /\ CallProvider(r) => Made(cur, r)
           /\ UpstreamStep(r) => GoesOn(cur, r)
           /\ Deliver(r) => Delivers(cur, r)
           /\ Cancel(r) => CutOff(cur, r)
           /\ OnlyCall(cur, r) /\ call[cur][r].pc # "raised" /\ call'[cur][r].pc # "idle"
<1> DEFINE cur == Current(r).provider
<1>1. RouteTypeOK /\ TypeOK /\ AtAttempt(r)
  BY DEF RoutingTypeOK, RouteTypeOK, AtCurrent, CallProvider, UpstreamStep, Deliver, Cancel
<1>2. cur \in Providers /\ r \in Calls /\ route[r].mode \in Modes
  BY <1>1, CurrentFacts DEF Requests, RouteTypeOK, RouteRec
<1> HIDE DEF cur
<1>3. /\ \A mode \in Modes : Admit(cur, r, mode) \/ Refuse(cur, r, mode) => Made(cur, r)
      /\ Progress(cur, r) => GoesOn(cur, r)
      /\ Chunk(cur, r) => Delivers(cur, r)
      /\ Abort(cur, r) => CutOff(cur, r)
  BY <1>1, <1>2, CallMoves
<1>4. /\ CallProvider(r) => Made(cur, r)
      /\ UpstreamStep(r) => GoesOn(cur, r)
      /\ Deliver(r) => Delivers(cur, r)
      /\ Cancel(r) => CutOff(cur, r)
  BY <1>2, <1>3 DEF CallProvider, UpstreamStep, Deliver, Cancel, cur
<1>5. OnlyCall(cur, r) /\ call[cur][r].pc # "raised" /\ call'[cur][r].pc # "idle"
  BY <1>4 DEF AtCurrent, Made, GoesOn, Delivers, CutOff
<1>6. QED
  BY <1>1, <1>2, <1>4, <1>5 DEF cur

\* The calls of the request and those of the others, after such a step.
LEMMA CallsMoved ==
    ASSUME NEW p \in Providers, NEW r \in Requests, OnlyCall(p, r)
    PROVE  /\ \A d \in Requests \ {r} : CallsOf(d)' = CallsOf(d)
           /\ \A q \in Providers \ {p} : CallsOf(r)'[q] = CallsOf(r)[q]
           /\ CallsOf(r)'[p] = call'[p][r] /\ CallsOf(r)[p] = call[p][r]
<1>1. Requests = Calls
  BY DEF Requests
<1>2. QED
  BY <1>1 DEF OnlyCall, CallsOf

\* How the record of the request changes in such a step.
LEMMA AtCurrentRoute ==
    ASSUME RouteTypeOK, NEW r \in Requests, AtCurrent(r)
    PROVE  /\ RouteTypeOK'
           /\ \A d \in Requests \ {r} : route'[d] = route[d]
           /\ route[r].pc = "routing" /\ route'[r].pc \in {"routing", "aborted"}
           /\ route'[r].attempts = route[r].attempts
           /\ route'[r].errors = route[r].errors
<1>1. AtAttempt(r) /\ route[r].pc = "routing"
  BY DEF AtCurrent, CallProvider, UpstreamStep, Deliver, Cancel, AtAttempt, Routing
<1>2. CASE CallProvider(r) \/ UpstreamStep(r)
  BY <1>1, <1>2 DEF CallProvider, UpstreamStep, RouteTypeOK
<1>3. CASE Deliver(r)
  BY <1>1, <1>3, DeliverFacts
<1>4. CASE Cancel(r)
  BY <1>1, <1>4, EndFacts DEF Cancel
<1>5. QED
  BY <1>2, <1>3, <1>4 DEF AtCurrent

\* Every step keeps every request in order.
LEMMA RouteStep ==
    RoutingTypeOK /\ RouteInv /\ [RoutingNext]_routingVars => RouteInv'
<1> SUFFICES ASSUME RoutingTypeOK, RouteInv, [RoutingNext]_routingVars
             PROVE  RouteInv'
  OBVIOUS
<1>1. /\ RouteTypeOK /\ RouteTypeOK'
      /\ \A d \in Requests : /\ route[d] \in RouteRec /\ route'[d] \in RouteRec
                             /\ InOrder(route[d], CallsOf(d))
  BY RouteTypeStep DEF RoutingTypeOK, RouteTypeOK, RouteInv
<1>2. ASSUME NEW r \in Requests, \A d \in Requests \ {r} : route'[d] = route[d],
             \A d \in Requests \ {r} : CallsOf(d)' = CallsOf(d),
             InOrder(route'[r], CallsOf(r)')
      PROVE  RouteInv'
  <2>1. ASSUME NEW d \in Requests
        PROVE  InOrder(route'[d], CallsOf(d)')
    BY <1>1, <1>2
  <2>2. QED
    BY <2>1 DEF RouteInv
<1>3. ASSUME call' = call
      PROVE  \A d \in Requests : CallsOf(d)' = CallsOf(d)
  BY <1>3 DEF CallsOf
<1>4. ASSUME NEW r \in Requests, NEW q \in Inbound, NEW mode \in Modes,
             Arrive(r, q, mode)
      PROVE  RouteInv'
  <2> DEFINE x == route[r]
             y == route'[r]
  <2>1. call' = call
    BY <1>4 DEF Arrive, providerVars
  <2>2. \A i, j \in 1..Len(ResolveAttempts(q)) :
            ResolveAttempts(q)[i].provider = ResolveAttempts(q)[j].provider => i = j
    BY ResolutionSound, RoutingAssumption DEF RoutingAssumption, ResolutionOK
  <2>3. /\ \A d \in Requests \ {r} : route'[d] = route[d]
        /\ x.pc = "new" /\ y.errors = x.errors
        /\ \/ y.pc = "rejected" /\ y.attempts = x.attempts
           \/ y.pc = "routing" /\ y.attempts = ResolveAttempts(q)
    BY <1>1, <1>4, ArriveFacts
  <2>4. x \in RouteRec /\ y \in RouteRec /\ InOrder(x, CallsOf(r))
    BY <1>1
  <2> HIDE DEF x, y
  <2>5. InOrder(y, CallsOf(r))
    BY <2>2, <2>3, <2>4, NewInOrder
  <2>6. QED
    BY <1>2, <1>3, <2>1, <2>3, <2>5 DEF y
<1>5. ASSUME NEW r \in Requests, AtCurrent(r)
      PROVE  RouteInv'
  <2> DEFINE x == route[r]
             y == route'[r]
             cur == Current(r).provider
             calls == CallsOf(r)
             moved == CallsOf(r)'
  <2>1. /\ cur \in Providers /\ AtAttempt(r) /\ OnlyCall(cur, r)
        /\ call[cur][r].pc # "raised" /\ call'[cur][r].pc # "idle"
    BY <1>5, AtCurrentFacts
  <2>2. /\ \A d \in Requests \ {r} : route'[d] = route[d]
        /\ x.pc = "routing" /\ y.pc \in {"routing", "aborted"}
        /\ y.attempts = x.attempts /\ y.errors = x.errors
    BY <1>1, <1>5, AtCurrentRoute
  <2>3. Turn(x) <= Len(x.attempts) /\ cur = x.attempts[Turn(x)].provider
    BY <1>1, <2>1, <2>2, CurrentFacts DEF Turn
  <2>4. /\ \A d \in Requests \ {r} : CallsOf(d)' = CallsOf(d)
        /\ \A q \in Providers \ {cur} : moved[q] = calls[q]
        /\ moved[cur] = call'[cur][r] /\ calls[cur] = call[cur][r]
    BY <2>1, CallsMoved
  <2>5. x \in RouteRec /\ y \in RouteRec /\ InOrder(x, calls)
    BY <1>1
  <2> HIDE DEF x, y, cur, calls, moved
  <2>6. calls[cur].pc # "raised" /\ moved[cur].pc # "idle"
    BY <2>1, <2>4
  <2>7. InOrder(y, moved)
    BY <2>2, <2>3, <2>4, <2>5, <2>6, CurrentMoves
  <2>8. QED
    BY <1>2, <2>2, <2>4, <2>7 DEF y, moved
<1>6. ASSUME NEW r \in Requests, Answer(r) \/ Exhaust(r)
      PROVE  RouteInv'
  <2> DEFINE x == route[r]
             y == route'[r]
  <2>1. call' = call /\ UNCHANGED selected
    BY <1>6 DEF Answer, Exhaust, End, providerVars
  <2>2. PICK pc \in {"returned", "exhausted"} :
            /\ route' = [route EXCEPT ![r].pc = pc]
            /\ pc = "exhausted" => ~MoreAttempts(r)
    BY <1>6 DEF Answer, Exhaust, End
  <2>3. /\ \A d \in Requests \ {r} : route'[d] = route[d]
        /\ y.pc = pc /\ y.attempts = x.attempts /\ y.errors = x.errors
    BY <1>1, <2>1, <2>2, EndFacts
  <2>4. x.pc = "routing"
    BY <1>6 DEF Answer, Exhaust, AtAttempt, Routing
  <2>5. x \in RouteRec /\ y \in RouteRec /\ InOrder(x, CallsOf(r))
    BY <1>1
  <2>6. pc = "exhausted" => Len(x.errors) >= Len(x.attempts)
    BY <2>2, <2>5, TurnFacts DEF MoreAttempts, InOrder
  <2> HIDE DEF x, y
  <2>7. InOrder(y, CallsOf(r))
    BY <2>3, <2>4, <2>5, <2>6, EndInOrder
  <2>8. QED
    BY <1>2, <1>3, <2>1, <2>3, <2>7 DEF y
<1>7. ASSUME NEW r \in Requests, HandleError(r)
      PROVE  RouteInv'
  <2> DEFINE x == route[r]
             y == route'[r]
             cur == Current(r).provider
  <2>1. call' = call /\ AtAttempt(r) /\ CurrentCall(r).pc = "raised"
    BY <1>7 DEF HandleError, providerVars
  <2>2. /\ \A d \in Requests \ {r} : route'[d] = route[d]
        /\ y.pc = IF CurrentCall(r).emitted # {} THEN "raised" ELSE "routing"
        /\ y.attempts = x.attempts /\ Len(y.errors) = Len(x.errors) + 1
    BY <1>1, <1>7, HandleErrorFacts
  <2>3. x.pc = "routing" /\ Len(x.errors) < Len(x.attempts)
    BY <2>1 DEF AtAttempt, Routing, MoreAttempts
  <2>4. /\ cur \in Providers /\ cur = x.attempts[Turn(x)].provider
        /\ CallsOf(r)[cur] = CurrentCall(r)
    BY <1>1, <2>1, <2>3, CurrentFacts DEF Turn, CallsOf, CurrentCall
  <2>5. x \in RouteRec /\ y \in RouteRec /\ InOrder(x, CallsOf(r))
    BY <1>1
  <2> HIDE DEF x, y, cur
  <2>6. \/ y.pc = "raised"
        \/ y.pc = "routing" /\ FailedClean(CallsOf(r)[x.attempts[Turn(x)].provider])
    BY <2>1, <2>2, <2>4 DEF FailedClean
  <2>7. InOrder(y, CallsOf(r))
    BY <2>2, <2>3, <2>5, <2>6, NextInOrder
  <2>8. QED
    BY <1>2, <1>3, <2>1, <2>2, <2>7 DEF y
<1>8. CASE UNCHANGED <<route, call>>
  BY <1>1, <1>3, <1>8 DEF RouteInv
<1>9. QED
  BY <1>4, <1>5, <1>6, <1>7, <1>8
  DEF RoutingNext, Advance, AtCurrent, ClockTick, Tick, AllEnded, routingVars, providerVars

LEMMA RouteInvariant == RoutingSpec => []RouteInv
<1>1. RoutingInit => RouteInv
  <2> SUFFICES ASSUME RoutingInit, NEW r \in Requests
               PROVE  InOrder(route[r], CallsOf(r))
    BY DEF RouteInv
  <2>1. /\ route[r].pc = "new" /\ route[r].attempts = <<>> /\ route[r].errors = <<>>
    BY DEF RoutingInit
  <2>2. \A p \in Providers :
            CallsOf(r)[p].pc = "idle" /\ CallsOf(r)[p].emitted = {}
    BY DEF RoutingInit, ProviderInit, NotCalled, CallsOf, Requests
  <2>3. QED
    BY <2>1, <2>2 DEF InOrder, Turn
<1>2. QED
  BY <1>1, RouteStep, RoutingTyping, PTL DEF RoutingSpec

\* RoutingService walks the attempts in order: a provider is called only
\* after all earlier ones have failed without delivering anything.
THEOREM FallbackWalks == RoutingSpec => []FallbackInOrder
<1>1. RoutingTypeOK /\ RouteInv => FallbackInOrder
  <2> SUFFICES ASSUME RoutingTypeOK, RouteInv, NEW r \in Requests
               PROVE  LET attempts == route[r].attempts
                          Clean(i) == FailedClean(call[attempts[i].provider][r])
                      IN  /\ \A p \in Providers : call[p][r].pc # "idle" =>
                                \E i \in DOMAIN attempts :
                                    /\ attempts[i].provider = p
                                    /\ \A j \in 1..(i - 1) : Clean(j)
                          /\ \A i, j \in DOMAIN attempts :
                                attempts[i].provider = attempts[j].provider => i = j
                          /\ route[r].pc = "exhausted" =>
                                \A i \in DOMAIN attempts : Clean(i)
    BY DEF FallbackInOrder, FailedClean
  <2> DEFINE x == route[r]
             n == Len(x.attempts)
  <2>1. x \in RouteRec /\ InOrder(x, CallsOf(r))
    BY DEF RoutingTypeOK, RouteInv
  <2>2. /\ n \in Nat /\ Len(x.errors) \in Nat /\ Turn(x) \in Nat
        /\ \A i \in 1..n : x.attempts[i].provider \in Providers
        /\ \A i \in 1..(Turn(x) - 1) : i \in 1..n
        /\ DOMAIN x.attempts = 1..n
    BY <2>1, TurnFacts DEF InOrder, RouteRec
  <2>3. \A i \in 1..(Turn(x) - 1) : FailedClean(call[x.attempts[i].provider][r])
    BY <2>1, <2>2 DEF InOrder, CallsOf
  <2>4. /\ \A p \in Providers : call[p][r].pc # "idle" =>
              \E i \in 1..n : i <= Turn(x) /\ x.attempts[i].provider = p
        /\ \A i, j \in 1..n :
              x.attempts[i].provider = x.attempts[j].provider => i = j
        /\ x.pc = "exhausted" => Turn(x) = n + 1
    BY <2>1 DEF InOrder, CallsOf, Turn
  <2> HIDE DEF x
  <2>5. ASSUME NEW p \in Providers, call[p][r].pc # "idle"
        PROVE  \E i \in 1..n : /\ x.attempts[i].provider = p
                               /\ \A j \in 1..(i - 1) :
                                     FailedClean(call[x.attempts[j].provider][r])
    <3>1. PICK i \in 1..n : i <= Turn(x) /\ x.attempts[i].provider = p
      BY <2>4, <2>5
    <3>2. \A j \in 1..(i - 1) : j \in 1..(Turn(x) - 1)
      BY <2>2, <3>1
    <3>3. QED
      BY <2>3, <3>1, <3>2
  <2>6. x.pc = "exhausted" =>
            \A i \in 1..n : FailedClean(call[x.attempts[i].provider][r])
    BY <2>2, <2>3, <2>4
  <2>7. QED
    BY <2>2, <2>4, <2>5, <2>6 DEF x
<1>2. QED
  BY <1>1, RoutingTyping, RouteInvariant, PTL

\* A call that delivered or returned is the one at the current attempt.
Produces(k) == k.emitted # {} \/ k.pc = "returned"

LEMMA OneProducer ==
    ASSUME NEW x \in RouteRec, NEW calls, InOrder(x, calls),
           NEW p \in Providers, Produces(calls[p])
    PROVE  Turn(x) \in 1..Len(x.attempts) /\ p = x.attempts[Turn(x)].provider
<1>1. calls[p].pc # "idle" /\ ~FailedClean(calls[p])
  BY DEF InOrder, Produces, FailedClean
<1>2. PICK i \in 1..Len(x.attempts) : i <= Turn(x) /\ x.attempts[i].provider = p
  BY <1>1 DEF InOrder
<1>3. \A j \in 1..(Turn(x) - 1) : FailedClean(calls[x.attempts[j].provider])
  BY DEF InOrder
<1>4. i = Turn(x)
  BY <1>1, <1>2, <1>3, TurnFacts DEF InOrder
<1>5. QED
  BY <1>2, <1>4

\* What was announced is the provider that delivered.
Announced(told, calls) ==
    /\ Len(told) <= 1
    /\ \A p \in Providers : (calls[p].emitted # {}) <=> (told # <<>> /\ told[1].provider = p)

SelectionInv == \A r \in Requests : Announced(selected[r], CallsOf(r))

LEMMA SelectionStep ==
    RoutingTypeOK /\ RouteInv /\ SelectionInv /\ [RoutingNext]_routingVars => SelectionInv'
<1> SUFFICES ASSUME RoutingTypeOK, RouteInv, SelectionInv, [RoutingNext]_routingVars
             PROVE  SelectionInv'
  OBVIOUS
<1>1. ASSUME NEW r \in Requests, Deliver(r)
      PROVE  SelectionInv'
  <2> DEFINE x == route[r]
             now == Current(r)
             cur == Current(r).provider
             calls == CallsOf(r)
             moved == CallsOf(r)'
             told == selected[r]
             tells == selected'[r]
  <2>1. RouteTypeOK /\ x \in RouteRec /\ InOrder(x, calls) /\ Announced(told, calls)
    BY DEF RoutingTypeOK, RouteTypeOK, RouteInv, SelectionInv
  <2>2. told \in Seq(Attempt)
    BY <2>1 DEF RouteTypeOK
  <2>3. cur \in Providers /\ AtAttempt(r) /\ Delivers(cur, r)
    BY <1>1, AtCurrentFacts DEF AtCurrent
  <2>4. /\ \A d \in Requests \ {r} : CallsOf(d)' = CallsOf(d)
        /\ \A q \in Providers \ {cur} : moved[q] = calls[q]
        /\ moved[cur] = call'[cur][r] /\ calls[cur] = call[cur][r]
    BY <2>3, CallsMoved DEF Delivers
  <2>5. /\ \A d \in Requests \ {r} : selected'[d] = selected[d]
        /\ tells = IF CurrentCall(r).emitted = {} THEN Append(told, now) ELSE told
    BY <1>1, <2>1, DeliverFacts
  <2>6. CurrentCall(r) = calls[cur] /\ now \in Attempt /\ cur = x.attempts[Turn(x)].provider
    BY <2>1, <2>3, <2>4, CurrentFacts DEF CurrentCall, Turn, AtAttempt, Routing
  <2>7. moved[cur].emitted # {}
    BY <2>3, <2>4 DEF Delivers
  <2>8. \A p \in Providers : calls[p].emitted # {} => p = cur
    BY <2>1, <2>6, OneProducer DEF Produces
  <2>9. now.provider = cur
    OBVIOUS
  <2> HIDE DEF x, now, cur, calls, moved, told, tells
  <2>10. Announced(tells, moved)
    <3>1. CASE calls[cur].emitted = {}
      <4>1. told = <<>>
        <5>1. SUFFICES ASSUME told # <<>>
                       PROVE  FALSE
          OBVIOUS
        <5>2. told[1] \in Attempt
          BY <2>2, <5>1
        <5>3. told[1].provider \in Providers
          BY <5>2 DEF Attempt
        <5>4. calls[told[1].provider].emitted # {}
          BY <2>1, <5>1, <5>3 DEF Announced
        <5>5. QED
          BY <2>8, <3>1, <5>3, <5>4
      <4>2. tells = <<now>>
        BY <2>5, <2>6, <3>1, <4>1
      <4>3. Len(tells) = 1 /\ tells # <<>> /\ tells[1].provider = cur
        BY <2>9, <4>2
      <4>4. \A p \in Providers : (moved[p].emitted # {}) <=> (cur = p)
        BY <2>4, <2>7, <2>8
      <4>5. QED
        BY <4>3, <4>4 DEF Announced
    <3>2. CASE calls[cur].emitted # {}
      <4>1. tells = told
        BY <2>5, <2>6, <3>2
      <4>2. \A p \in Providers : (moved[p].emitted # {}) <=> (calls[p].emitted # {})
        BY <2>4, <2>7, <3>2
      <4>3. QED
        BY <2>1, <4>1, <4>2 DEF Announced
    <3>3. QED
      BY <3>1, <3>2
  <2>11. ASSUME NEW d \in Requests
         PROVE  Announced(selected'[d], CallsOf(d)')
    BY <2>4, <2>5, <2>10 DEF SelectionInv, tells, moved
  <2>12. QED
    BY <2>11 DEF SelectionInv
<1>2. ASSUME NEW r \in Requests, CallProvider(r) \/ UpstreamStep(r) \/ Cancel(r)
      PROVE  SelectionInv'
  <2> DEFINE cur == Current(r).provider
             calls == CallsOf(r)
             moved == CallsOf(r)'
  <2>1. selected' = selected
    BY <1>2 DEF CallProvider, UpstreamStep, Cancel
  <2>2. /\ cur \in Providers /\ OnlyCall(cur, r)
        /\ Made(cur, r) \/ GoesOn(cur, r) \/ CutOff(cur, r)
    BY <1>2, AtCurrentFacts DEF AtCurrent
  <2>3. /\ \A d \in Requests \ {r} : CallsOf(d)' = CallsOf(d)
        /\ \A q \in Providers \ {cur} : moved[q] = calls[q]
        /\ moved[cur] = call'[cur][r] /\ calls[cur] = call[cur][r]
    BY <2>2, CallsMoved
  <2>4. InOrder(route[r], calls)
    BY DEF RouteInv
  <2> HIDE DEF cur, calls, moved
  <2>5. moved[cur].emitted = calls[cur].emitted
    BY <2>2, <2>3, <2>4 DEF Made, GoesOn, CutOff, InOrder
  <2>6. \A p \in Providers : moved[p].emitted = calls[p].emitted
    BY <2>3, <2>5
  <2>7. Announced(selected[r], moved)
    BY <2>6 DEF SelectionInv, Announced, calls
  <2>8. QED
    BY <2>1, <2>3, <2>7 DEF SelectionInv, moved
<1>3. CASE UNCHANGED <<call, selected>>
  BY <1>3 DEF SelectionInv, CallsOf
<1>4. QED
  BY <1>1, <1>2, <1>3
  DEF RoutingNext, Advance, Arrive, Answer, HandleError, Exhaust, End, ClockTick, Tick,
      AllEnded, routingVars, providerVars

\* RoutingService.stream tells on_provider_selected of one provider, the one
\* that all the output comes from, before any of it is delivered.
THEOREM SelectionTruthful == RoutingSpec => []SelectionNamesProducer
<1>1. RoutingInit => SelectionInv
  BY DEF RoutingInit, ProviderInit, NotCalled, SelectionInv, Announced, CallsOf, Requests
<1>2. SelectionInv => SelectionNamesProducer
  BY DEF SelectionInv, Announced, CallsOf, SelectionNamesProducer
<1>3. QED
  BY <1>1, <1>2, SelectionStep, RoutingTyping, RouteInvariant, PTL DEF RoutingSpec

-----------------------------------------------------------------------------
(* Routing implements its contract.                                        *)

VerdictOf(pc) ==
    CASE pc = "routing"  -> "pending"
      [] pc = "returned" -> "answered"
      [] pc = "raised"   -> "broken"
      [] OTHER           -> pc

ProducersOf(calls) == {p \in Providers : Produces(calls[p])}

SourceOf(calls) == OneOf(ProducersOf(calls))

LEMMA MappingFacts ==
    /\ Verdict = [r \in Requests |-> VerdictOf(route[r].pc)]
    /\ Source = [r \in Requests |-> SourceOf(CallsOf(r))]
    /\ Verdict' = [r \in Requests |-> VerdictOf(route'[r].pc)]
    /\ Source' = [r \in Requests |-> SourceOf(CallsOf(r)')]
<1>1. ASSUME NEW r \in Requests
      PROVE  /\ Producers(r) = ProducersOf(CallsOf(r))
             /\ Producers(r)' = ProducersOf(CallsOf(r)')
    BY DEF Producers, ProducersOf, Produces, CallsOf
<1>2. /\ Source = [r \in Requests |-> SourceOf(CallsOf(r))]
      /\ Source' = [r \in Requests |-> SourceOf(CallsOf(r)')]
  BY <1>1 DEF Source, SourceOf
<1>3. Verdict = [r \in Requests |-> VerdictOf(route[r].pc)]
  BY DEF Verdict, VerdictOf
<1>4. Verdict' = [r \in Requests |-> VerdictOf(route'[r].pc)]
  BY DEF Verdict, VerdictOf
<1>5. QED
  BY <1>2, <1>3, <1>4

\* The source is the only provider that produced anything.
LEMMA SourceFacts ==
    ASSUME NEW x \in RouteRec, NEW calls, InOrder(x, calls)
    PROVE  /\ \A p \in Providers : Produces(calls[p]) => SourceOf(calls) = p
           /\ (\A p \in Providers : ~Produces(calls[p])) => SourceOf(calls) = NoProvider
<1>1. ASSUME NEW p \in Providers, Produces(calls[p])
      PROVE  SourceOf(calls) = p
  <2>1. \A q \in ProducersOf(calls) : q = p
    BY <1>1, OneProducer DEF ProducersOf
  <2>2. p \in ProducersOf(calls)
    BY <1>1 DEF ProducersOf
  <2>3. QED
    BY <2>1, <2>2 DEF SourceOf, OneOf
<1>2. ASSUME \A p \in Providers : ~Produces(calls[p])
      PROVE  SourceOf(calls) = NoProvider
  BY <1>2 DEF SourceOf, OneOf, ProducersOf
<1>3. QED
  BY <1>1, <1>2

\* A step in which only the control state of r changes.
LEMMA Concludes ==
    ASSUME NEW r \in Requests, UNCHANGED call,
           \A d \in Requests \ {r} : route'[d] = route[d],
           NEW v, v = VerdictOf(route'[r].pc)
    PROVE  Contract!Conclude(r, v)
<1>1. \A d \in Requests : CallsOf(d)' = CallsOf(d)
  BY DEF CallsOf
<1>2. Source' = Source
  BY <1>1, MappingFacts
<1>3. Verdict' = [Verdict EXCEPT ![r] = v]
  BY MappingFacts
<1>4. QED
  BY <1>2, <1>3 DEF Contract!Conclude

\* A step at the current provider leaves the source alone or commits to it.
LEMMA SourceMoves ==
    ASSUME RoutingTypeOK, RouteInv, RouteTypeOK', RouteInv',
           NEW r \in Requests, AtCurrent(r)
    PROVE  \/ Source' = Source
           \/ /\ ~CutOff(Current(r).provider, r) /\ Source[r] = NoProvider
              /\ Source' = [Source EXCEPT ![r] = Current(r).provider]
<1> DEFINE x == route[r]
           y == route'[r]
           cur == Current(r).provider
           calls == CallsOf(r)
           moved == CallsOf(r)'
<1>1. /\ cur \in Providers /\ AtAttempt(r) /\ OnlyCall(cur, r)
      /\ Made(cur, r) \/ GoesOn(cur, r) \/ Delivers(cur, r) \/ CutOff(cur, r)
  BY AtCurrentFacts DEF AtCurrent
<1>2. /\ \A d \in Requests \ {r} : CallsOf(d)' = CallsOf(d)
      /\ \A q \in Providers \ {cur} : moved[q] = calls[q]
      /\ moved[cur] = call'[cur][r] /\ calls[cur] = call[cur][r]
  BY <1>1, CallsMoved
<1>3. /\ x \in RouteRec /\ InOrder(x, calls)
      /\ y \in RouteRec /\ InOrder(y, moved)
  BY DEF RoutingTypeOK, RouteTypeOK, RouteInv
<1>4. cur = x.attempts[Turn(x)].provider
  BY <1>1, CurrentFacts DEF Turn, AtAttempt, Routing, RoutingTypeOK, RouteTypeOK
<1>5. /\ Source = [d \in Requests |-> SourceOf(CallsOf(d))]
      /\ Source' = [d \in Requests |-> SourceOf(CallsOf(d)')]
  BY MappingFacts
<1> HIDE DEF x, y, cur, calls, moved
<1>6. /\ Produces(calls[cur]) => Produces(moved[cur])
      /\ CutOff(cur, r) /\ Produces(moved[cur]) => Produces(calls[cur])
  BY <1>1, <1>2, <1>3 DEF Made, GoesOn, Delivers, CutOff, Produces, InOrder
<1>7. \A p \in Providers : Produces(calls[p]) => p = cur
  BY <1>3, <1>4, OneProducer
<1>8. CASE Produces(calls[cur])
  <2>1. SourceOf(calls) = cur /\ SourceOf(moved) = cur
    BY <1>1, <1>3, <1>6, <1>8, SourceFacts
  <2>2. QED
    BY <1>2, <1>5, <2>1 DEF calls, moved
<1>9. CASE ~Produces(moved[cur])
  <2>1. \A p \in Providers : ~Produces(calls[p]) /\ ~Produces(moved[p])
    BY <1>2, <1>6, <1>7, <1>9
  <2>2. SourceOf(calls) = NoProvider /\ SourceOf(moved) = NoProvider
    BY <1>3, <2>1, SourceFacts
  <2>3. QED
    BY <1>2, <1>5, <2>2 DEF calls, moved
<1>10. CASE ~Produces(calls[cur]) /\ Produces(moved[cur])
  <2>1. ~CutOff(cur, r)
    BY <1>6, <1>10
  <2>2. \A p \in Providers : ~Produces(calls[p])
    BY <1>7, <1>10
  <2>3. SourceOf(calls) = NoProvider /\ SourceOf(moved) = cur
    BY <1>1, <1>3, <1>10, <2>2, SourceFacts
  <2>4. Source[r] = NoProvider /\ Source' = [Source EXCEPT ![r] = cur]
    BY <1>2, <1>5, <2>3 DEF calls, moved
  <2>5. QED
    BY <2>1, <2>4 DEF cur
<1>11. QED
  BY <1>8, <1>9, <1>10

\* The source of a request that has one, and of one that has none.
LEMMA SourceOfRequest ==
    ASSUME RouteTypeOK, RouteInv, NEW r \in Requests
    PROVE  /\ \A p \in Providers : Produces(call[p][r]) => Source[r] = p
           /\ (\A p \in Providers : ~Produces(call[p][r])) => Source[r] = NoProvider
<1>1. route[r] \in RouteRec /\ InOrder(route[r], CallsOf(r))
  BY DEF RouteTypeOK, RouteInv
<1>2. Source[r] = SourceOf(CallsOf(r))
  BY MappingFacts
<1>3. \A p \in Providers : CallsOf(r)[p] = call[p][r]
  BY DEF CallsOf
<1>4. QED
  BY <1>1, <1>2, <1>3, SourceFacts

\* Every step of routing is a step of the contract or leaves it alone.
LEMMA RoutingStepsContract ==
    RoutingTypeOK /\ RouteInv /\ RouteInv' /\ [RoutingNext]_routingVars
        => [Contract!ContractNext]_<<Verdict, Source>>
<1> SUFFICES ASSUME RoutingTypeOK, RouteInv, RouteInv', [RoutingNext]_routingVars
             PROVE  [Contract!ContractNext]_<<Verdict, Source>>
  OBVIOUS
<1>1. RouteTypeOK /\ RouteTypeOK' /\ NoProvider \notin Providers
  BY RouteTypeStep, RoutingAssumption DEF RoutingTypeOK, RouteTypeOK, RoutingAssumption
<1>2. ASSUME NEW r \in Requests
      PROVE  /\ Verdict[r] = VerdictOf(route[r].pc)
             /\ route[r].pc = "routing" => Contract!Pending(r)
  BY MappingFacts DEF VerdictOf, Contract!Pending
<1>3. ASSUME NEW r \in Requests, NEW q \in Inbound, NEW mode \in Modes,
             Arrive(r, q, mode)
      PROVE  Contract!ContractNext
  <2>1. call' = call
    BY <1>3 DEF Arrive, providerVars
  <2>2. /\ \A d \in Requests \ {r} : route'[d] = route[d]
        /\ route[r].pc = "new" /\ route'[r].pc \in {"routing", "rejected"}
    BY <1>1, <1>3, ArriveFacts
  <2> DEFINE v == VerdictOf(route'[r].pc)
  <2>3. v \in {"pending", "rejected"} /\ Verdict[r] = "new"
    BY <1>2, <2>2 DEF VerdictOf
  <2>4. Contract!Conclude(r, v)
    BY <2>1, <2>2, Concludes
  <2> HIDE DEF v
  <2>5. Contract!Accept(r)
    BY <2>3, <2>4 DEF Contract!Accept
  <2>6. QED
    BY <2>5 DEF Contract!ContractNext
<1>4. ASSUME NEW r \in Requests, CallProvider(r) \/ UpstreamStep(r) \/ Deliver(r)
      PROVE  [Contract!ContractNext]_<<Verdict, Source>>
  <2> DEFINE cur == Current(r).provider
  <2>1. AtCurrent(r) /\ route' = route
    BY <1>4 DEF AtCurrent, CallProvider, UpstreamStep, Deliver
  <2>2. Verdict' = Verdict
    BY <2>1, MappingFacts
  <2>3. \/ Source' = Source
        \/ Source[r] = NoProvider /\ Source' = [Source EXCEPT ![r] = cur]
    BY <1>1, <2>1, SourceMoves
  <2>4. cur \in Providers /\ Contract!Pending(r)
    BY <1>1, <1>2, <2>1, AtCurrentFacts, AtCurrentRoute
  <2> HIDE DEF cur
  <2>5. CASE Source' = Source
    BY <2>2, <2>5
  <2>6. CASE Source[r] = NoProvider /\ Source' = [Source EXCEPT ![r] = cur]
    <3>1. Contract!Commit(r, cur)
      BY <2>2, <2>4, <2>6 DEF Contract!Commit
    <3>2. QED
      BY <2>4, <3>1 DEF Contract!ContractNext
  <2>7. QED
    BY <2>3, <2>5, <2>6
<1>5. ASSUME NEW r \in Requests, Cancel(r)
      PROVE  Contract!ContractNext
  <2>1. AtCurrent(r)
    BY <1>5 DEF AtCurrent
  <2>2. CutOff(Current(r).provider, r)
    BY <1>5, <2>1, AtCurrentFacts
  <2>3. Source' = Source
    BY <1>1, <2>1, <2>2, SourceMoves
  <2>4. /\ \A d \in Requests \ {r} : route'[d] = route[d]
        /\ route[r].pc = "routing" /\ route'[r].pc = "aborted"
    BY <1>1, <1>5, <2>1, AtCurrentRoute, EndFacts DEF Cancel
  <2>5. Verdict' = [Verdict EXCEPT ![r] = "aborted"]
    BY <2>4, MappingFacts DEF VerdictOf
  <2>6. Contract!Drop(r)
    BY <1>2, <2>3, <2>4, <2>5 DEF Contract!Drop, Contract!Conclude
  <2>7. QED
    BY <2>6 DEF Contract!ContractNext, Contract!Settle
<1>6. ASSUME NEW r \in Requests, NEW pc \in {"answered", "broken"},
             UNCHANGED call, \A d \in Requests \ {r} : route'[d] = route[d],
             route[r].pc = "routing", VerdictOf(route'[r].pc) = pc,
             NEW p \in Providers, Produces(call[p][r])
      PROVE  Contract!ContractNext
  <2>1. Contract!Conclude(r, pc)
    BY <1>6, Concludes
  <2>2. Source[r] # NoProvider
    BY <1>1, <1>6, SourceOfRequest
  <2>3. Contract!Finish(r)
    BY <1>2, <1>6, <2>1, <2>2 DEF Contract!Finish
  <2>4. QED
    BY <2>3 DEF Contract!ContractNext, Contract!Settle
<1>7. ASSUME NEW r \in Requests, Answer(r)
      PROVE  Contract!ContractNext
  <2>1. /\ AtAttempt(r) /\ CurrentCall(r).pc = "returned" /\ UNCHANGED <<call, selected>>
        /\ route' = [route EXCEPT ![r].pc = "returned"]
    BY <1>7 DEF Answer, End, providerVars
  <2>2. /\ \A d \in Requests \ {r} : route'[d] = route[d]
        /\ route'[r].pc = "returned" /\ route[r].pc = "routing"
    BY <1>1, <2>1, EndFacts DEF AtAttempt, Routing
  <2>3. Current(r).provider \in Providers /\ Produces(call[Current(r).provider][r])
    BY <1>1, <2>1, CurrentFacts DEF Produces, CurrentCall
  <2>4. VerdictOf(route'[r].pc) = "answered"
    BY <2>2 DEF VerdictOf
  <2>5. QED
    BY <1>6, <2>1, <2>2, <2>3, <2>4
<1>8. ASSUME NEW r \in Requests, HandleError(r)
      PROVE  [Contract!ContractNext]_<<Verdict, Source>>
  <2>1. AtAttempt(r) /\ UNCHANGED call
    BY <1>8 DEF HandleError, providerVars
  <2>2. /\ \A d \in Requests \ {r} : route'[d] = route[d]
        /\ route'[r].pc = IF CurrentCall(r).emitted # {} THEN "raised" ELSE "routing"
        /\ route[r].pc = "routing" /\ Current(r).provider \in Providers
    BY <1>1, <1>8, <2>1, HandleErrorFacts, CurrentFacts DEF AtAttempt, Routing
  <2>3. CASE CurrentCall(r).emitted # {}
    <3>1. Produces(call[Current(r).provider][r])
      BY <2>3 DEF Produces, CurrentCall
    <3>2. VerdictOf(route'[r].pc) = "broken"
      BY <2>2, <2>3 DEF VerdictOf
    <3>3. Contract!ContractNext
      BY <1>6, <2>1, <2>2, <3>1, <3>2
    <3>4. QED
      BY <3>3
  <2>4. CASE CurrentCall(r).emitted = {}
    <3>1. \A d \in Requests : /\ CallsOf(d)' = CallsOf(d)
                              /\ VerdictOf(route'[d].pc) = VerdictOf(route[d].pc)
      BY <2>1, <2>2, <2>4 DEF CallsOf
    <3>2. Verdict' = Verdict /\ Source' = Source
      BY <3>1, MappingFacts
    <3>3. QED
      BY <3>2
  <2>5. QED
    BY <2>3, <2>4
<1>9. ASSUME NEW r \in Requests, Exhaust(r)
      PROVE  Contract!ContractNext
  <2>1. /\ Routing(r) /\ ~MoreAttempts(r) /\ UNCHANGED <<call, selected>>
        /\ route' = [route EXCEPT ![r].pc = "exhausted"]
    BY <1>9 DEF Exhaust, End, providerVars
  <2>2. /\ \A d \in Requests \ {r} : route'[d] = route[d]
        /\ route'[r].pc = "exhausted" /\ route[r].pc = "routing"
    BY <1>1, <2>1, EndFacts DEF Routing
  <2>3. route[r] \in RouteRec /\ InOrder(route[r], CallsOf(r))
    BY <1>1 DEF RouteTypeOK, RouteInv
  <2>4. Turn(route[r]) \notin 1..Len(route[r].attempts)
    BY <2>1, <2>2, <2>3, TurnFacts DEF MoreAttempts, Turn, InOrder
  <2>5. \A p \in Providers : ~Produces(call[p][r])
    BY <2>3, <2>4, OneProducer DEF CallsOf
  <2>6. Source[r] = NoProvider
    BY <1>1, <2>5, SourceOfRequest
  <2>7. "exhausted" = VerdictOf(route'[r].pc)
    BY <2>2 DEF VerdictOf
  <2>8. Contract!Conclude(r, "exhausted")
    BY <2>1, <2>2, <2>7, Concludes
  <2>9. Contract!GiveUp(r)
    BY <1>2, <2>2, <2>6, <2>8 DEF Contract!GiveUp
  <2>10. QED
    BY <2>9 DEF Contract!ContractNext, Contract!Settle
<1>10. CASE UNCHANGED <<route, call>>
  <2>1. \A d \in Requests : CallsOf(d)' = CallsOf(d)
    BY <1>10 DEF CallsOf
  <2>2. Verdict' = Verdict /\ Source' = Source
    BY <1>10, <2>1, MappingFacts
  <2>3. QED
    BY <2>2
<1>11. QED
  BY <1>3, <1>4, <1>5, <1>7, <1>8, <1>9, <1>10
  DEF RoutingNext, Advance, ClockTick, Tick, AllEnded, routingVars, providerVars

\* RoutingService implements RoutingContract, but for its liveness: a request
\* commits to one source, output is only that source's, and giving up is only
\* possible while nothing has been delivered.
THEOREM RoutingHonoursContract == RoutingSpec => Contract!ContractSafety
<1>1. RoutingInit /\ RouteInv /\ RouteTypeOK => Contract!ContractInit
  <2> SUFFICES ASSUME RoutingInit, RouteInv, RouteTypeOK
               PROVE  Contract!ContractInit
    OBVIOUS
  <2>1. ASSUME NEW r \in Requests
        PROVE  Verdict[r] = "new" /\ Source[r] = NoProvider
    <3>1. Verdict[r] = "new"
      BY MappingFacts DEF RoutingInit, VerdictOf
    <3>2. \A p \in Providers : ~Produces(call[p][r])
      BY DEF RoutingInit, ProviderInit, NotCalled, Produces, Requests
    <3>3. QED
      BY <3>1, <3>2, SourceOfRequest
  <2>2. QED
    BY <2>1, MappingFacts DEF Contract!ContractInit
<1>2. QED
  BY <1>1, RoutingStepsContract, RoutingTyping, RouteTyping, RouteInvariant, PTL
  DEF RoutingSpec, Contract!ContractSafety, Contract!contractVars

=============================================================================
