------------------------ MODULE GatewayServiceProofs ------------------------
(***************************************************************************)
(* Proofs about GatewayService, for any requests, keys and similarity of   *)
(* prompts, and whatever becomes of the cache writes.                      *)
(***************************************************************************)
EXTENDS GatewayService, TLAPS

-----------------------------------------------------------------------------
(* The control state of a handler.                                         *)

PC == {"new", "lookup", "semantic", "locking", "waiting",
       "upstream", "releasing", "costing", "yielding", "done", "failed"}
Status == {"NONE", "MISS", "EXACT_HIT", "SEMANTIC_HIT", "BYPASSED"}
Hit == {"EXACT_HIT", "SEMANTIC_HIT"}
Model == {"none", "requested", "equivalent"}
MaybeRequest == Requests \union {Nobody}

\* Before its upstream call returns a handler has no answer.
Unanswered == {"new", "lookup", "semantic", "locking", "waiting", "upstream"}

\* What the record x of request r may look like: an answer of its own came from
\* some model, with a price the answer is its own, and once the result is on its
\* way the two agree.
RecOK(r, x) ==
    /\ x.pc \in Unanswered => x.answer = Nobody /\ x.status \notin Hit
    /\ x.pc = "releasing" => x.answer \in {Nobody, r}
    /\ x.pc = "costing" => x.answer = r
    /\ x.pc \in {"releasing", "costing"} => x.status \notin Hit
    /\ x.answer = r => x.served # "none"
    /\ x.priced # "none" => x.answer = r
    /\ x.pc \in {"yielding", "done"} /\ ~(asked[r].bypass /\ asked[r].stream) =>
          /\ x.pc = "done" => x.finalized
          /\ x.answer = r => x.priced # "none"

ControlInv == \A r \in Requests : RecOK(r, req[r])

\* A response that may be stored or handed on under key k.
Fits(k, s) == s \in Requests /\ Suits(k, s) /\ Cacheable(s)

\* What is stored, about to be stored or served suits the key it is under; a
\* point is under the key of the request that it is a response to.
ExactFit == \A k \in Key : exact[k] # Nobody => Fits(k, exact[k])
WritesFit ==
    \A w \in writes :
        /\ Fits(w.key, w.response)
        /\ w.layer = "semantic" => w.key = KeyOf(w.response)
PointsFit ==
    \A p \in points : p.key = KeyOf(p.response) /\ Fits(p.key, p.response)
HitsFit ==
    \A r \in Requests : req[r].status \in Hit => Fits(KeyOf(r), req[r].answer)

StoreInv == ExactFit /\ WritesFit /\ PointsFit /\ HitsFit

GatewayInv == GatewayTypeOK /\ ControlInv /\ StoreInv

-----------------------------------------------------------------------------
\* A record keeps its type under the updates that occur.
LEMMA RecTypes ==
    ASSUME NEW x \in ReqRec, NEW pc \in PC, NEW status \in Status, NEW won \in BOOLEAN,
           NEW answer \in MaybeRequest, NEW served \in Model, NEW priced \in Model,
           NEW finalized \in BOOLEAN
    PROVE  [pc |-> pc, status |-> status, won |-> won, answer |-> answer,
            served |-> served, priced |-> priced, finalized |-> finalized] \in ReqRec
  BY DEF ReqRec, PC, Status, MaybeRequest, Model

LEMMA Fields ==
    ASSUME NEW x \in ReqRec
    PROVE  /\ x.pc \in PC /\ x.status \in Status /\ x.won \in BOOLEAN
           /\ x.answer \in MaybeRequest /\ x.served \in Model /\ x.priced \in Model
           /\ x.finalized \in BOOLEAN
           /\ x = [pc |-> x.pc, status |-> x.status, won |-> x.won, answer |-> x.answer,
                   served |-> x.served, priced |-> x.priced, finalized |-> x.finalized]
  BY DEF ReqRec, PC, Status, MaybeRequest, Model

\* The other records stay as they are.
LEMMA UpdateFacts ==
    ASSUME GatewayTypeOK, NEW r \in Requests, NEW rec \in ReqRec, Update(r, rec)
    PROVE  /\ req' \in [Requests -> ReqRec]
           /\ req'[r] = rec
           /\ \A s \in Requests \ {r} : req'[s] = req[s]
           /\ asked' = asked
  BY DEF Update, GatewayTypeOK

LEMMA GotoFacts ==
    ASSUME GatewayTypeOK, NEW r \in Requests, NEW pc \in PC, Goto(r, pc)
    PROVE  /\ req' \in [Requests -> ReqRec]
           /\ req'[r] = [req[r] EXCEPT !.pc = pc]
           /\ \A s \in Requests \ {r} : req'[s] = req[s]
           /\ asked' = asked
<1>1. [req[r] EXCEPT !.pc = pc] \in ReqRec
  BY DEF GatewayTypeOK, ReqRec, PC
<1>2. QED
  BY <1>1, UpdateFacts DEF Goto

\* A result leaves at once, or as the last items of a stream.
LEMMA FinishFacts ==
    ASSUME GatewayTypeOK, NEW r \in Requests, NEW rec \in ReqRec, Finish(r, rec)
    PROVE  /\ req' \in [Requests -> ReqRec]
           /\ req'[r].pc = "yielding" \/ (req'[r].pc = "done" /\ req'[r].finalized)
           /\ req'[r].answer = rec.answer /\ req'[r].status = rec.status
           /\ req'[r].priced = rec.priced /\ req'[r].served = rec.served
           /\ \A s \in Requests \ {r} : req'[s] = req[s]
           /\ asked' = asked
<1> DEFINE out == [rec EXCEPT !.pc = IF asked[r].stream THEN "yielding" ELSE "done",
                              !.finalized = ~asked[r].stream]
<1>1. asked[r].stream \in BOOLEAN
  BY DEF GatewayTypeOK, Asked
<1>2. out \in ReqRec
  <2>1. CASE asked[r].stream
    <3>1. out = [rec EXCEPT !.pc = "yielding", !.finalized = FALSE]
      BY <2>1
    <3>2. QED
      BY <3>1 DEF ReqRec
  <2>2. CASE ~asked[r].stream
    <3>1. out = [rec EXCEPT !.pc = "done", !.finalized = TRUE]
      BY <2>2
    <3>2. QED
      BY <3>1 DEF ReqRec
  <2>3. QED
    BY <2>1, <2>2
<1>3. out.pc = "yielding" \/ (out.pc = "done" /\ out.finalized)
  <2>1. CASE asked[r].stream
    BY <2>1 DEF ReqRec
  <2>2. CASE ~asked[r].stream
    <3>1. out = [rec EXCEPT !.pc = "done", !.finalized = TRUE]
      BY <2>2
    <3>2. out.pc = "done" /\ out.finalized = TRUE
      BY <3>1 DEF ReqRec
    <3>3. QED
      BY <3>2
  <2>3. QED
    BY <2>1, <2>2
<1>4. out.answer = rec.answer /\ out.status = rec.status /\ out.priced = rec.priced
      /\ out.served = rec.served
  BY DEF ReqRec
<1>5. Update(r, out)
  BY DEF Finish
<1> HIDE DEF out
<1>6. QED
  BY <1>2, <1>3, <1>4, <1>5, UpdateFacts

-----------------------------------------------------------------------------
(* A step of one handler.                                                  *)

\* The handler of r moves: the others stay, the invariant of its record holds
\* again, an answer of its own stays, and a hit is new or stays as it was.
Moves(r) ==
    /\ req' \in [Requests -> ReqRec]
    /\ asked' = asked
    /\ \A s \in Requests \ {r} : req'[s] = req[s]
    /\ RecOK(r, req'[r])
    /\ req[r].answer = r => req'[r].answer = r
    /\ req'[r].status \in Hit =>
          \/ req[r].status \in Hit /\ req'[r].answer = req[r].answer
          \/ Fits(KeyOf(r), req'[r].answer)

\* Taking over a hit, from wherever it was found.
LEMMA HitMoves ==
    ASSUME GatewayTypeOK, ControlInv, NEW r \in Requests,
           req[r].pc \in Unanswered, NEW hit, Fits(KeyOf(r), hit),
           NEW status \in Hit, ServeHit(r, hit, status)
    PROVE  Moves(r)
<1> DEFINE rec == [req[r] EXCEPT !.status = status, !.answer = hit]
<1>1. req[r] \in ReqRec /\ RecOK(r, req[r])
  BY DEF GatewayTypeOK, ControlInv
<1>2. hit \in Requests
  BY DEF Fits
<1>3. rec \in ReqRec
  BY <1>1, <1>2 DEF ReqRec, Hit
<1>4. rec.answer = hit /\ rec.status = status /\ rec.priced = req[r].priced
  BY <1>1 DEF ReqRec
<1>5. Finish(r, rec)
  BY DEF ServeHit
<1> HIDE DEF rec
<1>6. req'[r].answer = hit /\ req'[r].status = status /\ req'[r].priced = req[r].priced
  BY <1>3, <1>4, <1>5, FinishFacts
<1>7. req' \in [Requests -> ReqRec] /\ asked' = asked
      /\ \A s \in Requests \ {r} : req'[s] = req[s]
  BY <1>3, <1>5, FinishFacts
<1>8. req'[r].pc = "yielding" \/ (req'[r].pc = "done" /\ req'[r].finalized)
  BY <1>3, <1>5, FinishFacts
<1>9. req[r].answer = Nobody /\ req[r].priced = "none" /\ hit # r
  BY <1>1, <1>2, CacheAssumption DEF RecOK, CacheAssumption, Fits, Cacheable
<1>10. RecOK(r, req'[r])
  <2>1. req'[r].pc \notin Unanswered \union {"releasing", "costing"}
    BY <1>8 DEF Unanswered
  <2>2. req'[r].priced = "none" /\ req'[r].answer # r
    BY <1>6, <1>9
  <2>3. req'[r].pc = "done" => req'[r].finalized
    BY <1>8
  <2>4. QED
    BY <2>1, <2>2, <2>3 DEF RecOK
<1>11. QED
  BY <1>6, <1>7, <1>9, <1>10, CacheAssumption DEF Moves, CacheAssumption

\* What the layers hold out is fit to be served.
LEMMA ExactFits ==
    ASSUME GatewayInv, NEW k \in Key, NEW hit \in ExactGet(k), hit # Nobody
    PROVE  Fits(k, hit)
  BY DEF GatewayInv, StoreInv, ExactFit, ExactGet

LEMMA SemanticFits ==
    ASSUME GatewayInv, NEW k \in Key, NEW hit \in SemanticGet(k), hit # Nobody
    PROVE  Fits(k, hit)
<1>1. PICK p \in BestPoints(k) : hit = p.response
  BY DEF SemanticGet
<1>2. p \in points /\ (p.key = k \/ Matches(k, p))
  BY <1>1 DEF BestPoints
<1>3. p.key = KeyOf(hit) /\ Cacheable(hit) /\ hit \in Requests
  BY <1>1, <1>2 DEF GatewayInv, StoreInv, PointsFit, Fits
<1>4. Suits(k, hit)
  BY <1>1, <1>2, <1>3 DEF Suits, Matches, KeyOf
<1>5. QED
  BY <1>3, <1>4 DEF Fits

\* A handler that only goes elsewhere, its record otherwise as it was.
LEMMA GotoMoves ==
    ASSUME GatewayTypeOK, ControlInv, NEW r \in Requests, NEW pc \in PC, Goto(r, pc),
           pc \in Unanswered => req[r].pc \in Unanswered,
           pc = "releasing" => req[r].pc \in Unanswered,
           pc = "costing" => req[r].pc = "releasing" /\ req[r].answer = r,
           pc # "yielding",
           pc = "done" => asked[r].bypass /\ asked[r].stream
    PROVE  Moves(r)
<1> DEFINE x == req[r]
           y == req'[r]
<1>1. x \in ReqRec /\ RecOK(r, x)
  BY DEF GatewayTypeOK, ControlInv
<1>2. /\ req' \in [Requests -> ReqRec] /\ asked' = asked
      /\ \A s \in Requests \ {r} : req'[s] = req[s]
      /\ y = [x EXCEPT !.pc = pc]
  BY GotoFacts
<1>3. y.pc = pc /\ y.answer = x.answer /\ y.status = x.status /\ y.priced = x.priced
      /\ y.served = x.served
  BY <1>1, <1>2 DEF ReqRec
<1>4. RecOK(r, y)
  <2> HIDE DEF x, y
  <2>1. pc \in Unanswered => y.answer = Nobody /\ y.status \notin Hit
    BY <1>1, <1>3 DEF RecOK, x
  <2>2. pc = "releasing" => y.answer = Nobody /\ y.status \notin Hit
    BY <1>1, <1>3 DEF RecOK, x
  <2>3. pc = "costing" => y.answer = r /\ y.status \notin Hit
    BY <1>1, <1>3 DEF RecOK, x
  <2>4. (y.priced # "none" => y.answer = r) /\ (y.answer = r => y.served # "none")
    BY <1>1, <1>3 DEF RecOK
  <2>5. QED
    BY <1>3, <2>1, <2>2, <2>3, <2>4 DEF RecOK
<1>5. x.answer = r => y.answer = r
  BY <1>3
<1>6. y.status \in Hit => x.status \in Hit /\ y.answer = x.answer
  BY <1>3
<1>7. QED
  BY <1>2, <1>4, <1>5, <1>6 DEF Moves

\* Every step of a handler is such a move.
LEMMA HandlerMoves ==
    ASSUME GatewayInv, NEW r \in Requests, Begin(r) \/ Handle(r) \/ Drop(r)
    PROVE  Moves(r)
<1> USE DEF At
<1>0. GatewayTypeOK /\ ControlInv /\ StoreInv
  BY DEF GatewayInv
<1>1. req[r] \in ReqRec /\ RecOK(r, req[r]) /\ asked[r] \in Asked /\ KeyOf(r) \in Key
  BY <1>0 DEF GatewayTypeOK, ControlInv, KeyOf, Asked
<1>2. CASE Begin(r)
  <2>1. CASE asked[r].bypass
    <3> DEFINE rec == [req[r] EXCEPT !.pc = "upstream", !.status = "BYPASSED"]
    <3>1. rec \in ReqRec
      BY <1>1 DEF ReqRec
    <3>2. rec.pc = "upstream" /\ rec.status = "BYPASSED" /\ rec.answer = req[r].answer
          /\ rec.priced = req[r].priced /\ rec.served = req[r].served
      BY <1>1 DEF ReqRec
    <3>3. Update(r, rec)
      BY <1>2, <2>1 DEF Begin
    <3> HIDE DEF rec
    <3>4. req' \in [Requests -> ReqRec] /\ asked' = asked /\ req'[r] = rec
          /\ \A s \in Requests \ {r} : req'[s] = req[s]
      BY <1>0, <3>1, <3>3, UpdateFacts
    <3>5. RecOK(r, rec)
      BY <1>1, <1>2, <3>2 DEF RecOK, Begin, Unanswered, Hit
    <3>6. QED
      BY <3>2, <3>4, <3>5 DEF Moves, Hit
  <2>2. CASE ~asked[r].bypass
    <3>1. Goto(r, "lookup") /\ req[r].pc = "new"
      BY <1>2, <2>2 DEF Begin
    <3>2. QED
      BY <1>0, <3>1, GotoMoves DEF PC, Unanswered
  <2>3. QED
    BY <2>1, <2>2
<1>3. CASE LookupExact(r)
  <2>1. PICK hit \in ExactGet(KeyOf(r)) :
           IF hit # Nobody THEN ServeHit(r, hit, "EXACT_HIT") ELSE Goto(r, "semantic")
    BY <1>3 DEF LookupExact
  <2>2. req[r].pc = "lookup"
    BY <1>3 DEF LookupExact
  <2>3. CASE hit # Nobody
    <3>1. Fits(KeyOf(r), hit)
      BY <1>1, <2>3, ExactFits
    <3>2. QED
      BY <1>0, <2>1, <2>2, <2>3, <3>1, HitMoves DEF Unanswered, Hit
  <2>4. CASE hit = Nobody
    BY <1>0, <2>1, <2>2, <2>4, GotoMoves DEF PC, Unanswered
  <2>5. QED
    BY <2>3, <2>4
<1>4. CASE SemanticHit(r)
  <2>1. PICK hit \in SemanticGet(KeyOf(r)) \ {Nobody} : ServeHit(r, hit, "SEMANTIC_HIT")
    BY <1>4 DEF SemanticHit
  <2>2. req[r].pc = "semantic"
    BY <1>4 DEF SemanticHit
  <2>3. Fits(KeyOf(r), hit)
    BY <1>1, <2>1, SemanticFits
  <2>4. QED
    BY <1>0, <2>1, <2>2, <2>3, HitMoves DEF Unanswered, Hit
<1>5. CASE Miss(r)
  <2>1. PICK pc \in {"upstream", "locking"} :
           Update(r, [req[r] EXCEPT !.status = "MISS", !.pc = pc])
    <3>1. CASE asked[r].stream
      BY <1>5, <3>1 DEF Miss
    <3>2. CASE ~asked[r].stream
      BY <1>5, <3>2 DEF Miss
    <3>3. QED
      BY <3>1, <3>2
  <2> DEFINE rec == [req[r] EXCEPT !.status = "MISS", !.pc = pc]
  <2>2. rec \in ReqRec
    BY <1>1 DEF ReqRec
  <2>3. rec.pc = pc /\ rec.status = "MISS" /\ rec.answer = req[r].answer
        /\ rec.priced = req[r].priced /\ rec.served = req[r].served
    BY <1>1 DEF ReqRec
  <2>4. Update(r, rec)
    BY <2>1
  <2> HIDE DEF rec
  <2>5. req' \in [Requests -> ReqRec] /\ asked' = asked /\ req'[r] = rec
        /\ \A s \in Requests \ {r} : req'[s] = req[s]
    BY <1>0, <2>2, <2>4, UpdateFacts
  <2>6. RecOK(r, rec)
    BY <1>1, <1>5, <2>3 DEF RecOK, Miss, Unanswered, Hit
  <2>7. QED
    BY <2>3, <2>5, <2>6 DEF Moves, Hit
<1>6. CASE TryLock(r)
  <2>1. PICK won \in BOOLEAN, pc \in {"upstream", "waiting"} :
           Update(r, [req[r] EXCEPT !.won = won, !.pc = pc])
    <3>1. PICK won \in BOOLEAN :
             Update(r, [req[r] EXCEPT !.won = won,
                          !.pc = IF won THEN "upstream" ELSE "waiting"])
      BY <1>6 DEF TryLock
    <3>2. CASE won
      BY <3>1, <3>2
    <3>3. CASE ~won
      BY <3>1, <3>3
    <3>4. QED
      BY <3>2, <3>3
  <2> DEFINE rec == [req[r] EXCEPT !.won = won, !.pc = pc]
  <2>2. rec \in ReqRec
    BY <1>1 DEF ReqRec
  <2>3. rec.pc = pc /\ rec.status = req[r].status /\ rec.answer = req[r].answer
        /\ rec.priced = req[r].priced /\ rec.served = req[r].served
    BY <1>1 DEF ReqRec
  <2>4. Update(r, rec)
    BY <2>1
  <2> HIDE DEF rec
  <2>5. req' \in [Requests -> ReqRec] /\ asked' = asked /\ req'[r] = rec
        /\ \A s \in Requests \ {r} : req'[s] = req[s]
    BY <1>0, <2>2, <2>4, UpdateFacts
  <2>6. RecOK(r, rec)
    BY <1>1, <1>6, <2>3 DEF RecOK, TryLock, Unanswered
  <2>7. QED
    BY <2>3, <2>5, <2>6 DEF Moves
<1>7. CASE Join(r)
  <2>1. req[r].pc = "waiting" /\ exact[KeyOf(r)] # Nobody
        /\ ServeHit(r, exact[KeyOf(r)], "EXACT_HIT")
    BY <1>7 DEF Join
  <2>2. Fits(KeyOf(r), exact[KeyOf(r)])
    BY <1>0, <1>1, <2>1 DEF StoreInv, ExactFit
  <2>3. QED
    BY <1>0, <2>1, <2>2, HitMoves DEF Unanswered, Hit
<1>8. CASE GiveUpWaiting(r)
  <2>1. Goto(r, "upstream") /\ req[r].pc = "waiting"
    BY <1>8 DEF GiveUpWaiting
  <2>2. QED
    BY <1>0, <2>1, GotoMoves DEF PC, Unanswered
<1>9. ASSUME NEW model \in {"requested", "equivalent"}, UpstreamAnswers(r, model)
      PROVE  Moves(r)
  <2>1. PICK pc \in {"releasing", "costing"} :
           Update(r, [req[r] EXCEPT !.answer = r, !.served = model, !.pc = pc])
    <3>1. CASE req[r].won
      BY <1>9, <3>1 DEF UpstreamAnswers
    <3>2. CASE ~req[r].won
      BY <1>9, <3>2 DEF UpstreamAnswers
    <3>3. QED
      BY <3>1, <3>2
  <2> DEFINE rec == [req[r] EXCEPT !.answer = r, !.served = model, !.pc = pc]
  <2>2. rec \in ReqRec
    BY <1>1 DEF ReqRec
  <2>3. rec.pc = pc /\ rec.status = req[r].status /\ rec.answer = r
        /\ rec.priced = req[r].priced /\ rec.served # "none"
    BY <1>1 DEF ReqRec
  <2>4. Update(r, rec)
    BY <2>1
  <2> HIDE DEF rec
  <2>5. req' \in [Requests -> ReqRec] /\ asked' = asked /\ req'[r] = rec
        /\ \A s \in Requests \ {r} : req'[s] = req[s]
    BY <1>0, <2>2, <2>4, UpdateFacts
  <2>6. rec.status \notin Hit
    BY <1>1, <1>9, <2>3 DEF RecOK, UpstreamAnswers, Unanswered
  <2>7. RecOK(r, rec)
    BY <2>3, <2>6 DEF RecOK, Unanswered
  <2>8. QED
    BY <2>3, <2>5, <2>6, <2>7 DEF Moves
<1>10. CASE UpstreamFails(r)
  <2>1. PICK pc \in {"releasing", "failed"} : Goto(r, pc)
    BY <1>10 DEF UpstreamFails
  <2>2. req[r].pc = "upstream"
    BY <1>10 DEF UpstreamFails
  <2>3. QED
    BY <1>0, <2>1, <2>2, GotoMoves DEF PC, Unanswered
<1>11. CASE Release(r)
  <2>1. req[r].pc = "releasing" /\ req[r].answer \in {Nobody, r}
    BY <1>1, <1>11 DEF Release, RecOK
  <2>2. CASE req[r].answer = Nobody
    <3>1. Goto(r, "failed")
      BY <1>11, <2>2 DEF Release
    <3>2. QED
      BY <1>0, <3>1, GotoMoves DEF PC, Unanswered
  <2>3. CASE req[r].answer = r
    <3>1. Goto(r, "costing")
      BY <1>11, <2>3, CacheAssumption DEF Release, CacheAssumption
    <3>2. QED
      BY <1>0, <2>1, <2>3, <3>1, GotoMoves DEF PC, Unanswered
  <2>4. QED
    BY <2>1, <2>2, <2>3
<1>12. CASE Conclude(r)
  <2>1. req[r].pc = "costing" /\ req[r].answer = r /\ req[r].status \notin Hit
    BY <1>1, <1>12 DEF Conclude, RecOK
  <2>2. CASE asked[r].bypass /\ asked[r].stream
    <3>1. Goto(r, "done")
      BY <1>12, <2>2 DEF Conclude
    <3>2. QED
      BY <1>0, <2>2, <3>1, GotoMoves DEF PC, Unanswered
  <2>3. CASE ~(asked[r].bypass /\ asked[r].stream)
    <3> DEFINE rec == [req[r] EXCEPT !.priced = PricedModel(r)]
    <3>1. PricedModel(r) \in Model \ {"none"}
      BY <1>1, <2>1 DEF PricedModel, RecOK, ReqRec, Model
    <3>2. rec \in ReqRec
      BY <1>1, <3>1 DEF ReqRec, Model
    <3>3. rec.status = req[r].status /\ rec.answer = r /\ rec.served = req[r].served
          /\ rec.priced # "none"
      BY <1>1, <2>1, <3>1 DEF ReqRec
    <3>4. Finish(r, rec)
      BY <1>12, <2>3 DEF Conclude
    <3> HIDE DEF rec
    <3>5. /\ req' \in [Requests -> ReqRec] /\ asked' = asked
          /\ \A s \in Requests \ {r} : req'[s] = req[s]
          /\ req'[r].answer = r /\ req'[r].status \notin Hit /\ req'[r].priced # "none"
          /\ req'[r].served = req[r].served
      BY <1>0, <2>1, <3>2, <3>3, <3>4, FinishFacts
    <3>6. req'[r].pc = "yielding" \/ (req'[r].pc = "done" /\ req'[r].finalized)
      BY <1>0, <3>2, <3>4, FinishFacts
    <3>7. req'[r].pc \notin Unanswered \union {"releasing", "costing"}
          /\ (req'[r].pc = "done" => req'[r].finalized)
      BY <3>6 DEF Unanswered
    <3>8. RecOK(r, req'[r])
      BY <1>1, <2>1, <3>5, <3>7 DEF RecOK
    <3>9. QED
      BY <3>5, <3>8 DEF Moves
  <2>4. QED
    BY <2>2, <2>3
<1>13. CASE YieldLast(r)
  <2> DEFINE rec == [req[r] EXCEPT !.pc = "done", !.finalized = TRUE]
  <2>1. rec \in ReqRec
    BY <1>1 DEF ReqRec
  <2>2. rec.status = req[r].status /\ rec.answer = req[r].answer /\ rec.served = req[r].served
        /\ rec.priced = req[r].priced
    BY <1>1 DEF ReqRec
  <2>3. rec.pc = "done" /\ rec.finalized = TRUE
    BY <1>1 DEF ReqRec
  <2>4. Update(r, rec) /\ req[r].pc = "yielding"
    BY <1>13 DEF YieldLast
  <2> HIDE DEF rec
  <2>5. req' \in [Requests -> ReqRec] /\ asked' = asked /\ req'[r] = rec
        /\ \A s \in Requests \ {r} : req'[s] = req[s]
    BY <1>0, <2>1, <2>4, UpdateFacts
  <2>6. RecOK(r, rec)
    BY <1>1, <2>2, <2>3, <2>4 DEF RecOK, Unanswered
  <2>7. QED
    BY <2>2, <2>5, <2>6 DEF Moves
<1>14. CASE Drop(r)
  <2>1. Goto(r, "failed")
    BY <1>14 DEF Drop
  <2>2. QED
    BY <1>0, <2>1, GotoMoves DEF PC, Unanswered
<1>15. QED
  BY <1>2, <1>3, <1>4, <1>5, <1>6, <1>7, <1>8, <1>9, <1>10, <1>11, <1>12, <1>13, <1>14
  DEF Handle

-----------------------------------------------------------------------------
(* The invariant.                                                          *)

\* What fits a key goes on fitting it, as long as answers stay.
LEMMA FitsKept ==
    ASSUME asked' = asked,
           \A s \in Requests : req[s].answer = s => req'[s].answer = s
    PROVE  \A k, s : Fits(k, s) => Fits(k, s)'
  BY DEF Fits, Suits, Cacheable

\* A response of its own that may be cached fits the key it was asked under.
LEMMA OwnFits ==
    ASSUME NEW r \in Requests, Cacheable(r)
    PROVE  Fits(KeyOf(r), r)
  BY DEF Fits, Suits, KeyOf

\* Whichever handler moves, the records keep their part of the invariant.
LEMMA MovesKeep ==
    ASSUME GatewayInv, NEW r \in Requests, Moves(r)
    PROVE  /\ asked' = asked /\ req' \in [Requests -> ReqRec]
           /\ ControlInv' /\ HitsFit'
           /\ \A s \in Requests : req[s].answer = s => req'[s].answer = s
           /\ \A k, s : Fits(k, s) => Fits(k, s)'
<1>1. asked' = asked /\ req' \in [Requests -> ReqRec]
      /\ \A s \in Requests \ {r} : req'[s] = req[s]
  BY DEF Moves
<1>2. \A s \in Requests : req[s].answer = s => req'[s].answer = s
  BY <1>1 DEF Moves
<1>3. \A k, s : Fits(k, s) => Fits(k, s)'
  BY <1>1, <1>2, FitsKept
<1>4. ControlInv'
  <2>1. ASSUME NEW s \in Requests
        PROVE  RecOK(s, req'[s])
    BY <1>1 DEF Moves, GatewayInv, ControlInv
  <2>2. QED
    BY <1>1, <2>1 DEF ControlInv, RecOK
<1>5. ASSUME NEW s \in Requests, req'[s].status \in Hit
      PROVE  Fits(KeyOf(s), req'[s].answer)
  <2>1. CASE s = r
    BY <1>5, <2>1 DEF Moves, GatewayInv, StoreInv, HitsFit
  <2>2. CASE s # r
    BY <1>1, <1>5, <2>2 DEF GatewayInv, StoreInv, HitsFit
  <2>3. QED
    BY <2>1, <2>2
<1>6. HitsFit'
  <2>1. ASSUME NEW s \in Requests, req'[s].status \in Hit
        PROVE  Fits(KeyOf(s), req[s].answer)'
    <3>1. Fits(KeyOf(s), req'[s].answer)
      BY <1>5, <2>1
    <3>2. QED
      BY <1>1, <1>2, <3>1 DEF Fits, Suits, Cacheable, KeyOf
  <2>2. QED
    BY <2>1 DEF HitsFit
<1>7. QED
  BY <1>1, <1>2, <1>3, <1>4, <1>6

\* The types and the stores, when a handler moves: the most it adds are writes.
LEMMA HandlerStores ==
    ASSUME GatewayInv, NEW r \in Requests, Begin(r) \/ Handle(r) \/ Drop(r)
    PROVE  /\ exact' = exact /\ points' = points
           /\ lock' \in [Key -> MaybeRequest]
           /\ \A w \in writes' \ writes :
                 /\ w \in Write /\ Fits(w.key, w.response)
                 /\ w.layer = "semantic" => w.key = KeyOf(w.response)
<1>0. CacheTypeOK /\ KeyOf(r) \in Key /\ RecOK(r, req[r])
  BY DEF GatewayInv, GatewayTypeOK, KeyOf, Asked, ControlInv
<1>1. CASE SemanticHit(r)
  <2>1. PICK hit \in SemanticGet(KeyOf(r)) \ {Nobody} :
           writes' = writes \union {ExactWrite(KeyOf(r), hit)}
    BY <1>1 DEF SemanticHit
  <2>2. Fits(KeyOf(r), hit)
    BY <1>0, <2>1, SemanticFits
  <2>3. exact' = exact /\ points' = points /\ lock' = lock
    BY <1>1 DEF SemanticHit
  <2>4. QED
    BY <1>0, <2>1, <2>2, <2>3
    DEF CacheTypeOK, MaybeRequest, ExactWrite, Write, Fits
<1>2. CASE Conclude(r)
  <2>1. exact' = exact /\ points' = points /\ lock' = lock
    BY <1>2 DEF Conclude
  <2>2. CASE asked[r].bypass
    BY <1>0, <1>2, <2>1, <2>2 DEF Conclude, CacheTypeOK, MaybeRequest
  <2>3. CASE ~asked[r].bypass
    <3>1. writes' = writes \union Backfill(KeyOf(r), r)
      BY <1>2, <2>3 DEF Conclude
    <3>2. Cacheable(r)
      BY <1>0, <1>2, <2>3 DEF Cacheable, Conclude, At, RecOK
    <3>3. Fits(KeyOf(r), r)
      BY <3>2, OwnFits
    <3>4. QED
      BY <1>0, <2>1, <3>1, <3>3
      DEF CacheTypeOK, MaybeRequest, Backfill, ExactWrite, SemanticWrite, Write
  <2>4. QED
    BY <2>2, <2>3
<1>3. CASE TryLock(r) \/ Release(r)
  <2>1. exact' = exact /\ points' = points /\ writes' = writes
    BY <1>3 DEF TryLock, Release, AcquireLock, ReleaseLock
  <2>2. lock' = lock \/ lock' = [lock EXCEPT ![KeyOf(r)] = r]
        \/ lock' = [lock EXCEPT ![KeyOf(r)] = Nobody]
    BY <1>3 DEF TryLock, Release, AcquireLock, ReleaseLock
  <2>3. QED
    BY <1>0, <2>1, <2>2 DEF CacheTypeOK, MaybeRequest
<1>4. CASE UNCHANGED cacheVars
  BY <1>0, <1>4 DEF cacheVars, CacheTypeOK, MaybeRequest
<1>5. QED
  BY <1>1, <1>2, <1>3, <1>4
  DEF Begin, Handle, Drop, LookupExact, Miss, Join, GiveUpWaiting, UpstreamAnswers,
      UpstreamFails, YieldLast

\* The silence of stores and the slips of locks keep their types in every step.
LEMMA RestTyped ==
    ASSUME GatewayTypeOK, [GatewayNext]_gatewayVars
    PROVE  silent' \subseteq Stores /\ slipped' \subseteq Key
<1>1. silent \subseteq Stores /\ slipped \subseteq Key
      /\ \A r \in Requests : KeyOf(r) \in Key
  BY DEF GatewayTypeOK, CacheTypeOK, KeyOf, Asked
<1>2. RecordSlips => slipped' \subseteq Key
  BY <1>1 DEF RecordSlips
<1>3. ASSUME NEW r \in Requests, Begin(r) \/ Handle(r) \/ Drop(r)
      PROVE  silent' = silent /\ (slipped' = slipped \/ RecordSlips)
  <2>1. CASE TryLock(r) \/ Release(r)
    BY <2>1 DEF TryLock, Release, AcquireLock, ReleaseLock
  <2>2. CASE SemanticHit(r) \/ Conclude(r)
    BY <2>2 DEF SemanticHit, Conclude
  <2>3. CASE Drop(r)
    BY <2>3 DEF Drop, cacheVars
  <2>4. CASE UNCHANGED <<cacheVars, slipped>>
    BY <2>4 DEF cacheVars
  <2>5. QED
    BY <1>3, <2>1, <2>2, <2>3, <2>4
    DEF Begin, Handle, LookupExact, Miss, Join, GiveUpWaiting, UpstreamAnswers,
        UpstreamFails, YieldLast
<1>4. ASSUME NEW k \in Key, LockExpires(k)
      PROVE  silent' = silent /\ RecordSlips
  BY <1>4 DEF LockExpires, LockTimeout
<1>5. CASE Background
  BY <1>1, <1>5 DEF Background, Store, Lose, ExpireEntry, Hang, Resume
<1>6. CASE UNCHANGED gatewayVars
  BY <1>1, <1>6 DEF gatewayVars, cacheVars
<1>7. QED
  BY <1>1, <1>2, <1>3, <1>4, <1>5, <1>6 DEF GatewayNext, Quiet

LEMMA HandlerKeeps ==
    ASSUME GatewayInv, NEW r \in Requests, Begin(r) \/ Handle(r) \/ Drop(r),
           silent' \subseteq Stores, slipped' \subseteq Key
    PROVE  GatewayInv'
<1>1. Moves(r)
  BY HandlerMoves
<1>2. /\ asked' = asked /\ req' \in [Requests -> ReqRec]
      /\ ControlInv' /\ HitsFit'
      /\ \A k, s : Fits(k, s) => Fits(k, s)'
  BY <1>1, MovesKeep
<1>3. /\ exact' = exact /\ points' = points
      /\ lock' \in [Key -> MaybeRequest]
      /\ \A w \in writes' \ writes :
            /\ w \in Write /\ Fits(w.key, w.response)
            /\ w.layer = "semantic" => w.key = KeyOf(w.response)
  BY HandlerStores
<1>4. GatewayTypeOK'
  BY <1>2, <1>3 DEF GatewayInv, GatewayTypeOK, CacheTypeOK, MaybeRequest
<1>5. ExactFit'
  BY <1>2, <1>3 DEF GatewayInv, StoreInv, ExactFit
<1>6. PointsFit'
  BY <1>2, <1>3 DEF GatewayInv, StoreInv, PointsFit, KeyOf
<1>7. WritesFit'
  BY <1>2, <1>3 DEF GatewayInv, StoreInv, WritesFit, KeyOf
<1>8. QED
  BY <1>2, <1>4, <1>5, <1>6, <1>7 DEF GatewayInv, StoreInv

\* A write that lands, late or again, puts a fitting response where it fits.
LEMMA StoreKeeps ==
    ASSUME GatewayInv, NEW w \in writes, Store(w), UNCHANGED <<asked, req>>,
           silent' \subseteq Stores, slipped' \subseteq Key
    PROVE  GatewayInv'
<1>1. CacheTypeOK /\ w \in Write /\ Fits(w.key, w.response)
      /\ (w.layer = "semantic" => w.key = KeyOf(w.response))
  BY DEF GatewayInv, GatewayTypeOK, CacheTypeOK, StoreInv, WritesFit
<1>2. writes' \subseteq writes /\ lock' = lock
  BY DEF Store
<1>3. \A k, s : Fits(k, s) => Fits(k, s)'
  BY FitsKept
<1>4. ControlInv' /\ HitsFit'
  BY DEF GatewayInv, StoreInv, ControlInv, RecOK, HitsFit, Fits, Suits, Cacheable, KeyOf
<1>5. WritesFit'
  BY <1>2, <1>3 DEF GatewayInv, StoreInv, WritesFit, KeyOf
<1>6. CASE w.layer = "exact"
  <2>1. exact' = [exact EXCEPT ![w.key] = w.response] /\ points' = points
    BY <1>6 DEF Store
  <2>2. GatewayTypeOK'
    BY <1>1, <1>2, <2>1 DEF GatewayInv, GatewayTypeOK, CacheTypeOK, Write
  <2>3. ExactFit'
    BY <1>1, <1>3, <2>1 DEF GatewayInv, StoreInv, ExactFit, CacheTypeOK, Write
  <2>4. PointsFit'
    BY <1>3, <2>1 DEF GatewayInv, StoreInv, PointsFit, KeyOf
  <2>5. QED
    BY <1>4, <1>5, <2>2, <2>3, <2>4 DEF GatewayInv, StoreInv
<1>7. CASE w.layer = "semantic"
  <2>1. exact' = exact /\ points' = points \union {[key |-> w.key, response |-> w.response]}
    BY <1>7 DEF Store
  <2>2. GatewayTypeOK'
    BY <1>1, <1>2, <2>1 DEF GatewayInv, GatewayTypeOK, CacheTypeOK, Write, Point
  <2>3. ExactFit'
    BY <1>3, <2>1 DEF GatewayInv, StoreInv, ExactFit
  <2>4. PointsFit'
    BY <1>1, <1>3, <1>7, <2>1 DEF GatewayInv, StoreInv, PointsFit, KeyOf
  <2>5. QED
    BY <1>4, <1>5, <2>2, <2>3, <2>4 DEF GatewayInv, StoreInv
<1>8. QED
  BY <1>1, <1>6, <1>7 DEF Write

\* Nothing but what is stored goes away.
LEMMA ForgettingKeeps ==
    ASSUME GatewayInv, UNCHANGED <<asked, req, points>>, writes' \subseteq writes,
           lock' \in [Key -> MaybeRequest], exact' \in [Key -> MaybeRequest],
           \A k \in Key : exact'[k] \in {exact[k], Nobody},
           silent' \subseteq Stores, slipped' \subseteq Key
    PROVE  GatewayInv'
<1>1. \A k, s : Fits(k, s) => Fits(k, s)'
  BY FitsKept
<1>2. GatewayTypeOK'
  BY DEF GatewayInv, GatewayTypeOK, CacheTypeOK, MaybeRequest
<1>3. ControlInv' /\ HitsFit'
  BY DEF GatewayInv, StoreInv, ControlInv, RecOK, HitsFit, Fits, Suits, Cacheable, KeyOf
<1>4. ExactFit' /\ PointsFit' /\ WritesFit'
  BY <1>1 DEF GatewayInv, StoreInv, ExactFit, PointsFit, WritesFit, KeyOf
<1>5. QED
  BY <1>2, <1>3, <1>4 DEF GatewayInv, StoreInv

LEMMA InvInit == GatewayInit => GatewayInv
<1> SUFFICES ASSUME GatewayInit
             PROVE  GatewayInv
  OBVIOUS
<1>1. Fresh \in ReqRec
  BY DEF Fresh, ReqRec
<1>2. GatewayTypeOK
  BY <1>1, GatewayAssumption
  DEF GatewayAssumption, GatewayInit, CacheInit, GatewayTypeOK, CacheTypeOK
<1>3. ASSUME NEW r \in Requests
      PROVE  RecOK(r, req[r]) /\ req[r].status \notin Hit
  <2>1. req[r] = Fresh /\ r # Nobody
    BY CacheAssumption DEF GatewayInit, CacheAssumption
  <2>2. QED
    BY <2>1 DEF Fresh, RecOK, Hit
<1>4. QED
  BY <1>2, <1>3
  DEF GatewayInit, CacheInit, GatewayInv, ControlInv, StoreInv, ExactFit, WritesFit,
      PointsFit, HitsFit

LEMMA InvStep == GatewayInv /\ [GatewayNext]_gatewayVars => GatewayInv'
<1> SUFFICES ASSUME GatewayInv, [GatewayNext]_gatewayVars
             PROVE  GatewayInv'
  OBVIOUS
<1>0. CacheTypeOK /\ silent' \subseteq Stores /\ slipped' \subseteq Key
  BY RestTyped DEF GatewayInv, GatewayTypeOK
<1>1. ASSUME NEW r \in Requests, Begin(r) \/ Handle(r) \/ Drop(r)
      PROVE  GatewayInv'
  BY <1>0, <1>1, HandlerKeeps
<1>2. ASSUME NEW k \in Key, LockExpires(k)
      PROVE  GatewayInv'
  BY <1>0, <1>2, ForgettingKeeps
  DEF LockExpires, LockTimeout, CacheTypeOK, MaybeRequest
<1>3. ASSUME NEW w \in writes, Store(w), UNCHANGED <<asked, req>>
      PROVE  GatewayInv'
  BY <1>0, <1>3, StoreKeeps
<1>4. ASSUME NEW w \in writes, Lose(w), UNCHANGED <<asked, req>>
      PROVE  GatewayInv'
  BY <1>0, <1>4, ForgettingKeeps DEF Lose, CacheTypeOK, MaybeRequest
<1>5. ASSUME NEW k \in Key, ExpireEntry(k), UNCHANGED <<asked, req>>
      PROVE  GatewayInv'
  BY <1>0, <1>5, ForgettingKeeps DEF ExpireEntry, CacheTypeOK, MaybeRequest
<1>6. ASSUME NEW s \in Stores, Hang(s) \/ Resume(s), UNCHANGED <<asked, req, slipped>>
      PROVE  GatewayInv'
  BY <1>0, <1>6, ForgettingKeeps DEF Hang, Resume, CacheTypeOK, MaybeRequest
<1>7. CASE UNCHANGED gatewayVars
  BY <1>0, <1>7, ForgettingKeeps DEF gatewayVars, cacheVars, CacheTypeOK, MaybeRequest
<1>8. QED
  BY <1>1, <1>2, <1>3, <1>4, <1>5, <1>6, <1>7 DEF GatewayNext, Background, Quiet

LEMMA GatewayInvariant == GatewaySpec => []GatewayInv
  BY InvInit, InvStep, PTL DEF GatewaySpec

-----------------------------------------------------------------------------
(* What it gives the clients.                                              *)

\* GatewayService: its state is well typed.
THEOREM GatewayTyping == GatewaySpec => []GatewayTypeOK
<1>1. GatewayInv => GatewayTypeOK
  BY DEF GatewayInv
<1>2. QED
  BY <1>1, GatewayInvariant, PTL

\* CacheService: a hit never crosses tenants or parameters and is within one
\* similarity hop, for all promotions, late writes and expiries, and whether or
\* not stores fail or fall silent.
THEOREM HitsAreSuitable == GatewaySpec => []HitsSuitRequest
<1>1. GatewayInv => HitsSuitRequest
  BY DEF GatewayInv, StoreInv, HitsFit, Hit, Fits, HitsSuitRequest
<1>2. QED
  BY <1>1, GatewayInvariant, PTL

\* GatewayService: an upstream answer is charged to its caller and nobody else,
\* for any number of requests served from it.
THEOREM ChargedToCaller == GatewaySpec => []ChargedOnce
<1>1. GatewayInv => ChargedOnce
  BY DEF GatewayInv, ControlInv, RecOK, ChargedOnce
<1>2. QED
  BY <1>1, GatewayInvariant, PTL

\* GatewayService: whatever path a request took, its metrics and trace follow, with a
\* cost exactly if it called upstream itself.
THEOREM EveryoneAccounted == GatewaySpec => []AccountedFor
<1>1. GatewayInv => AccountedFor
  BY DEF GatewayInv, ControlInv, RecOK, AccountedFor, At
<1>2. QED
  BY <1>1, GatewayInvariant, PTL

-----------------------------------------------------------------------------
(* The coalescing lock.                                                    *)

\* Before it tries, a handler has won nothing; it releases only what it won, and
\* what it won is still its own, unless the lock slipped since.
LockInv ==
    /\ \A r \in Requests :
          /\ req[r].pc \in Unanswered \ {"upstream"} => ~req[r].won
          /\ req[r].pc = "releasing" => req[r].won
    /\ \A r \in Requests :
          HoldsLock(r) /\ KeyOf(r) \notin slipped => lock[KeyOf(r)] = r

\* HoldsLock(r) after a step.
StillHolds(r) == req'[r].won /\ req'[r].pc \in {"upstream", "releasing"}

\* Who holds a lock after a step knows of all slips of it, earlier ones and new ones.
LEMMA SlipFacts ==
    ASSUME RecordSlips, NEW r \in Requests, StillHolds(r)
    PROVE  KeyOf(r) \in slipped' <=> KeyOf(r) \in slipped \/ Slips(KeyOf(r))
<1>1. HoldsLock(r)'
  BY DEF HoldsLock, StillHolds
<1>2. KeyOf(r) \in {KeyOf(s) : s \in {t \in Requests : HoldsLock(t)'}}
  BY <1>1
<1>3. QED
  BY <1>2 DEF RecordSlips

\* How a handler's step may touch its claim on the lock: not at all, or it tries to
\* win a lock and takes it only if nobody has it, or it lets go of the lock and
\* perhaps deletes it.
ClaimStep(r) ==
    /\ req'[r].pc \in Unanswered \ {"upstream"} => ~req'[r].won
    /\ req'[r].pc = "releasing" => req'[r].won
    /\ \/ UNCHANGED <<lock, slipped>> /\ (StillHolds(r) => HoldsLock(r))
       \/ /\ ~HoldsLock(r) /\ RecordSlips
          /\ \/ UNCHANGED lock
             \/ lock[KeyOf(r)] = Nobody /\ lock' = [lock EXCEPT ![KeyOf(r)] = r]
       \/ /\ ~StillHolds(r) /\ RecordSlips
          /\ \/ UNCHANGED lock
             \/ HoldsLock(r) /\ lock' = [lock EXCEPT ![KeyOf(r)] = Nobody]

\* That is all a step does.
LEMMA ClaimSteps ==
    ASSUME GatewayInv, LockInv, NEW r \in Requests,
           Begin(r) \/ Handle(r) \/ Drop(r)
    PROVE  ClaimStep(r)
<1> USE DEF At
<1>0. GatewayTypeOK /\ req[r] \in ReqRec
      /\ (req[r].pc \in Unanswered \ {"upstream"} => ~req[r].won)
      /\ (req[r].pc = "releasing" => req[r].won)
  BY DEF GatewayInv, GatewayTypeOK, LockInv
<1>1. ASSUME NEW pc \in PC, Goto(r, pc)
      PROVE  req'[r].pc = pc /\ req'[r].won = req[r].won
  BY <1>0, <1>1, GotoFacts DEF ReqRec
<1>2. ASSUME NEW hit, NEW status, ServeHit(r, hit, status), hit \in Requests,
             status \in Status
      PROVE  req'[r].pc \in {"yielding", "done"}
  <2> DEFINE rec == [req[r] EXCEPT !.status = status, !.answer = hit]
  <2>1. rec \in ReqRec
    BY <1>0, <1>2 DEF ReqRec, Status
  <2>2. Finish(r, rec)
    BY <1>2 DEF ServeHit
  <2> HIDE DEF rec
  <2>3. QED
    BY <1>0, <2>1, <2>2, FinishFacts
<1>3. CASE Begin(r)
  <2>1. req[r].pc = "new" /\ UNCHANGED <<lock, slipped>>
    BY <1>3 DEF Begin, cacheVars
  <2>2. req'[r].pc \in {"upstream", "lookup"} /\ req'[r].won = req[r].won
    <3>1. CASE asked[r].bypass
      <4>1. Update(r, [req[r] EXCEPT !.pc = "upstream", !.status = "BYPASSED"])
        BY <1>3, <3>1 DEF Begin
      <4>2. QED
        BY <1>0, <4>1 DEF Update, GatewayTypeOK, ReqRec
    <3>2. CASE ~asked[r].bypass
      BY <1>1, <1>3, <3>2 DEF Begin, PC
    <3>3. QED
      BY <3>1, <3>2
  <2>3. QED
    BY <1>0, <2>1, <2>2 DEF ClaimStep, StillHolds, Unanswered
<1>4. CASE LookupExact(r)
  <2>1. req[r].pc = "lookup" /\ UNCHANGED <<lock, slipped>>
    BY <1>4 DEF LookupExact, cacheVars
  <2>2. PICK hit \in ExactGet(KeyOf(r)) :
           IF hit # Nobody THEN ServeHit(r, hit, "EXACT_HIT") ELSE Goto(r, "semantic")
    BY <1>4 DEF LookupExact
  <2>3. CASE hit # Nobody
    <3>1. hit \in Requests
      BY <1>0, <2>2, <2>3 DEF ExactGet, GatewayTypeOK, CacheTypeOK, KeyOf, Asked
    <3>2. req'[r].pc \in {"yielding", "done"}
      BY <1>2, <2>2, <2>3, <3>1 DEF Status
    <3>3. QED
      BY <2>1, <3>2 DEF ClaimStep, StillHolds, Unanswered
  <2>4. CASE hit = Nobody
    <3>1. req'[r].pc = "semantic" /\ req'[r].won = req[r].won
      BY <1>1, <2>2, <2>4 DEF PC
    <3>2. QED
      BY <1>0, <2>1, <3>1 DEF ClaimStep, StillHolds, Unanswered
  <2>5. QED
    BY <2>3, <2>4
<1>5. CASE SemanticHit(r)
  <2>1. PICK hit \in SemanticGet(KeyOf(r)) \ {Nobody} : ServeHit(r, hit, "SEMANTIC_HIT")
    BY <1>5 DEF SemanticHit
  <2>2. hit \in Requests
    BY <1>0, <2>1, SemanticFits DEF GatewayTypeOK, KeyOf, Asked, Fits
  <2>3. req'[r].pc \in {"yielding", "done"}
    BY <1>2, <2>1, <2>2 DEF Status
  <2>4. UNCHANGED <<lock, slipped>>
    BY <1>5 DEF SemanticHit
  <2>5. QED
    BY <2>3, <2>4 DEF ClaimStep, StillHolds, Unanswered
<1>6. CASE Miss(r)
  <2>1. req[r].pc = "semantic" /\ UNCHANGED <<lock, slipped>>
    BY <1>6 DEF Miss, cacheVars
  <2>2. req'[r].pc \in {"upstream", "locking"} /\ req'[r].won = req[r].won
    <3>1. CASE asked[r].stream
      BY <1>0, <1>6, <3>1 DEF Miss, Update, GatewayTypeOK, ReqRec
    <3>2. CASE ~asked[r].stream
      BY <1>0, <1>6, <3>2 DEF Miss, Update, GatewayTypeOK, ReqRec
    <3>3. QED
      BY <3>1, <3>2
  <2>3. QED
    BY <1>0, <2>1, <2>2 DEF ClaimStep, StillHolds, Unanswered
<1>7. CASE TryLock(r)
  <2>1. PICK won \in BOOLEAN :
           AcquireLock(KeyOf(r), r, won)
           /\ Update(r, [req[r] EXCEPT !.won = won,
                           !.pc = IF won THEN "upstream" ELSE "waiting"])
    BY <1>7 DEF TryLock
  <2>2. ~HoldsLock(r) /\ RecordSlips
    BY <1>7 DEF TryLock, HoldsLock
  <2>3. \/ UNCHANGED lock
        \/ lock[KeyOf(r)] = Nobody /\ lock' = [lock EXCEPT ![KeyOf(r)] = r]
    BY <2>1 DEF AcquireLock
  <2>4. req'[r].pc = "upstream" \/ (req'[r].pc = "waiting" /\ ~req'[r].won)
    <3>1. CASE won
      <4>1. Update(r, [req[r] EXCEPT !.won = won, !.pc = "upstream"])
        BY <2>1, <3>1
      <4>2. QED
        BY <1>0, <4>1 DEF Update, GatewayTypeOK, ReqRec
    <3>2. CASE ~won
      <4>1. Update(r, [req[r] EXCEPT !.won = FALSE, !.pc = "waiting"])
        BY <2>1, <3>2
      <4>2. QED
        BY <1>0, <4>1 DEF Update, GatewayTypeOK, ReqRec
    <3>3. QED
      BY <3>1, <3>2
  <2>5. QED
    BY <2>2, <2>3, <2>4 DEF ClaimStep
<1>8. CASE Join(r)
  <2>1. UNCHANGED <<lock, slipped>> /\ exact[KeyOf(r)] \in Requests
        /\ ServeHit(r, exact[KeyOf(r)], "EXACT_HIT")
    BY <1>0, <1>8 DEF Join, cacheVars, GatewayTypeOK, CacheTypeOK, KeyOf, Asked
  <2>2. req'[r].pc \in {"yielding", "done"}
    BY <1>2, <2>1 DEF Status
  <2>3. QED
    BY <2>1, <2>2 DEF ClaimStep, StillHolds, Unanswered
<1>9. CASE GiveUpWaiting(r)
  <2>1. req[r].pc = "waiting" /\ UNCHANGED <<lock, slipped>>
    BY <1>9 DEF GiveUpWaiting, cacheVars
  <2>2. req'[r].pc = "upstream" /\ req'[r].won = req[r].won
    BY <1>1, <1>9 DEF GiveUpWaiting, PC
  <2>3. QED
    BY <1>0, <2>1, <2>2 DEF ClaimStep, StillHolds, Unanswered
<1>10. ASSUME NEW model \in {"requested", "equivalent"}, UpstreamAnswers(r, model)
       PROVE  ClaimStep(r)
  <2>1. req[r].pc = "upstream" /\ UNCHANGED <<lock, slipped>>
    BY <1>10 DEF UpstreamAnswers, cacheVars
  <2>2. CASE req[r].won
    <3>1. req'[r].pc = "releasing" /\ req'[r].won = req[r].won
      BY <1>0, <1>10, <2>2 DEF UpstreamAnswers, Update, GatewayTypeOK, ReqRec
    <3>2. QED
      BY <2>1, <2>2, <3>1 DEF ClaimStep, StillHolds, HoldsLock, Unanswered
  <2>3. CASE ~req[r].won
    <3>1. req'[r].pc = "costing"
      BY <1>0, <1>10, <2>3 DEF UpstreamAnswers, Update, GatewayTypeOK, ReqRec
    <3>2. QED
      BY <2>1, <3>1 DEF ClaimStep, StillHolds, Unanswered
  <2>4. QED
    BY <2>2, <2>3
<1>11. CASE UpstreamFails(r)
  <2>1. req[r].pc = "upstream" /\ UNCHANGED <<lock, slipped>>
    BY <1>11 DEF UpstreamFails, cacheVars
  <2>2. CASE req[r].won
    <3>1. req'[r].pc = "releasing" /\ req'[r].won = req[r].won
      BY <1>1, <1>11, <2>2 DEF UpstreamFails, PC
    <3>2. QED
      BY <2>1, <2>2, <3>1 DEF ClaimStep, StillHolds, HoldsLock, Unanswered
  <2>3. CASE ~req[r].won
    <3>1. req'[r].pc = "failed"
      BY <1>1, <1>11, <2>3 DEF UpstreamFails, PC
    <3>2. QED
      BY <2>1, <3>1 DEF ClaimStep, StillHolds, Unanswered
  <2>4. QED
    BY <2>2, <2>3
<1>12. CASE Release(r)
  <2>1. HoldsLock(r) /\ RecordSlips
    BY <1>0, <1>12 DEF Release, HoldsLock
  <2>2. UNCHANGED lock \/ lock' = [lock EXCEPT ![KeyOf(r)] = Nobody]
    BY <1>12 DEF Release, ReleaseLock
  <2>3. req'[r].pc \in {"failed", "costing"}
    BY <1>1, <1>12 DEF Release, PC
  <2>4. QED
    BY <2>1, <2>2, <2>3 DEF ClaimStep, StillHolds, Unanswered
<1>13. CASE Conclude(r)
  <2>1. UNCHANGED <<lock, slipped>>
    BY <1>13 DEF Conclude
  <2>2. req'[r].pc \in {"yielding", "done"}
    <3>1. CASE asked[r].bypass /\ asked[r].stream
      BY <1>1, <1>13, <3>1 DEF Conclude, PC
    <3>2. CASE ~(asked[r].bypass /\ asked[r].stream)
      <4> DEFINE rec == [req[r] EXCEPT !.priced = PricedModel(r)]
      <4>1. PricedModel(r) \in Model
        BY <1>0 DEF PricedModel, ReqRec, Model
      <4>2. rec \in ReqRec
        BY <1>0, <4>1 DEF ReqRec, Model
      <4>3. Finish(r, rec)
        BY <1>13, <3>2 DEF Conclude
      <4> HIDE DEF rec
      <4>4. QED
        BY <1>0, <4>2, <4>3, FinishFacts
    <3>3. QED
      BY <3>1, <3>2
  <2>3. QED
    BY <2>1, <2>2 DEF ClaimStep, StillHolds, Unanswered
<1>14. CASE YieldLast(r)
  <2>1. req'[r].pc = "done" /\ UNCHANGED <<lock, slipped>>
    BY <1>0, <1>14 DEF YieldLast, Update, cacheVars, GatewayTypeOK, ReqRec
  <2>2. QED
    BY <2>1 DEF ClaimStep, StillHolds, Unanswered
<1>15. CASE Drop(r)
  <2>1. req'[r].pc = "failed" /\ UNCHANGED lock /\ RecordSlips
    BY <1>1, <1>15 DEF Drop, cacheVars, PC
  <2>2. QED
    BY <2>1 DEF ClaimStep, StillHolds, Unanswered
<1>16. QED
  BY <1>3, <1>4, <1>5, <1>6, <1>7, <1>8, <1>9, <1>10, <1>11, <1>12, <1>13, <1>14, <1>15
  DEF Handle

\* A winner whose lock did not slip has the lock to itself: nobody takes a lock that
\* is set, only its owner or a holder of a lock that slipped deletes it, and an expiry
\* under a holder is a slip.
LEMMA LockStep == GatewayInv /\ LockInv /\ [GatewayNext]_gatewayVars => LockInv'
<1> SUFFICES ASSUME GatewayInv, LockInv, [GatewayNext]_gatewayVars
             PROVE  LockInv'
  OBVIOUS
<1>0. GatewayTypeOK /\ CacheTypeOK /\ (\A r \in Requests : KeyOf(r) \in Key)
      /\ lock \in [Key -> Requests \union {Nobody}] /\ Nobody \notin Requests
  BY CacheAssumption DEF CacheAssumption, GatewayInv, GatewayTypeOK, CacheTypeOK, KeyOf, Asked
<1>1. ASSUME NEW r \in Requests, Begin(r) \/ Handle(r) \/ Drop(r)
      PROVE  LockInv'
  <2>1. ClaimStep(r) /\ Moves(r)
    BY <1>1, ClaimSteps, HandlerMoves
  <2>2. asked' = asked /\ \A s \in Requests \ {r} : req'[s] = req[s]
    BY <2>1 DEF Moves
  <2>3. ASSUME NEW s \in Requests
        PROVE  /\ req'[s].pc \in Unanswered \ {"upstream"} => ~req'[s].won
               /\ req'[s].pc = "releasing" => req'[s].won
    BY <2>1, <2>2 DEF ClaimStep, LockInv
  <2>4. ASSUME NEW s \in Requests, StillHolds(s), KeyOf(s) \notin slipped'
        PROVE  lock'[KeyOf(s)] = s
    <3>1. KeyOf(s) \notin slipped
      BY <2>1, <2>4, SlipFacts DEF ClaimStep
    <3>2. CASE s # r
      <4>1. HoldsLock(s) /\ lock[KeyOf(s)] = s
        BY <2>2, <2>4, <3>1, <3>2 DEF HoldsLock, StillHolds, LockInv
      <4>2. CASE UNCHANGED lock
        BY <4>1, <4>2
      <4>3. CASE lock[KeyOf(r)] = Nobody /\ lock' = [lock EXCEPT ![KeyOf(r)] = r]
        BY <1>0, <4>1, <4>3
      <4>4. CASE HoldsLock(r) /\ lock' = [lock EXCEPT ![KeyOf(r)] = Nobody]
        <5>1. KeyOf(r) \notin slipped => lock[KeyOf(r)] = r
          BY <4>4 DEF LockInv
        <5>2. KeyOf(r) # KeyOf(s)
          BY <3>1, <3>2, <4>1, <5>1
        <5>3. QED
          BY <1>0, <4>1, <4>4, <5>2
      <4>5. QED
        BY <2>1, <4>2, <4>3, <4>4 DEF ClaimStep
    <3>3. CASE s = r /\ HoldsLock(r)
      <4>1. UNCHANGED lock /\ lock[KeyOf(r)] = r
        BY <2>1, <2>4, <3>1, <3>3 DEF ClaimStep, LockInv
      <4>2. QED
        BY <3>3, <4>1
    <3>4. CASE s = r /\ ~HoldsLock(r)
      <4>1. RecordSlips
        BY <2>1, <2>4, <3>4 DEF ClaimStep
      <4>2. ~Slips(KeyOf(r))
        BY <2>4, <3>4, <4>1, SlipFacts
      <4>3. HoldsLock(r)'
        BY <2>4, <3>4 DEF HoldsLock, StillHolds
      <4>4. QED
        BY <3>4, <4>2, <4>3 DEF Slips
    <3>5. QED
      BY <3>2, <3>3, <3>4
  <2>5. QED
    BY <2>2, <2>3, <2>4 DEF LockInv, HoldsLock, StillHolds, KeyOf
<1>2. ASSUME NEW k \in Key, LockExpires(k)
      PROVE  LockInv'
  <2>1. UNCHANGED <<asked, req>> /\ RecordSlips
        /\ lock[k] # Nobody /\ lock' = [lock EXCEPT ![k] = Nobody]
    BY <1>2 DEF LockExpires, LockTimeout
  <2>2. ASSUME NEW r \in Requests, HoldsLock(r), KeyOf(r) \notin slipped'
        PROVE  lock'[KeyOf(r)] = r
    <3>1. KeyOf(r) \notin slipped /\ ~Slips(KeyOf(r))
      BY <2>1, <2>2, SlipFacts DEF HoldsLock, StillHolds
    <3>2. lock[KeyOf(r)] = r
      BY <2>2, <3>1 DEF LockInv
    <3>3. KeyOf(r) # k
      BY <1>0, <2>1, <2>2, <3>1, <3>2 DEF Slips
    <3>4. QED
      BY <1>0, <2>1, <3>2, <3>3
  <2>3. QED
    BY <2>1, <2>2 DEF LockInv, HoldsLock, KeyOf
<1>3. CASE UNCHANGED <<asked, req, lock, slipped>>
  BY <1>3 DEF LockInv, HoldsLock, KeyOf
<1>4. QED
  BY <1>1, <1>2, <1>3
  DEF GatewayNext, Background, Quiet, gatewayVars, cacheVars, Store, Lose, ExpireEntry,
      Hang, Resume

\* acquire_coalescing_lock: for any number of callers, with any TTL and whether or not
\* Redis fails, two are in flight for one key only after its lock slipped.
THEOREM WinnerAlone == GatewaySpec => []OneWinnerUnlessSlipped
<1>1. GatewayInit => LockInv
  BY DEF GatewayInit, Fresh, LockInv, HoldsLock, Unanswered
<1>2. LockInv => OneWinnerUnlessSlipped
  BY DEF LockInv, OneWinnerUnlessSlipped
<1>3. QED
  BY <1>1, <1>2, LockStep, GatewayInvariant, PTL DEF GatewaySpec

=============================================================================
