------------------------- MODULE AuthServiceProofs -------------------------
(***************************************************************************)
(* Proofs about AuthService, for any number of requests and of concurrent  *)
(* revocations, with and without failures of the stores.                   *)
(***************************************************************************)
EXTENDS AuthService, TLAPS

-----------------------------------------------------------------------------
(* Type correctness.                                                       *)

\* What moving one login or one revocation does to the function it is kept in.
LEMMA LoginFacts ==
    ASSUME login \in [Requests -> LoginPC],
           NEW r \in Requests, NEW from, NEW to \in LoginPC, LoginGoes(r, from, to)
    PROVE  /\ login' \in [Requests -> LoginPC]
           /\ login[r] = from
           /\ \A q \in Requests : login'[q] = IF q = r THEN to ELSE login[q]
  BY DEF LoginGoes

LEMMA RevocationFacts ==
    ASSUME revocation \in [Admins -> RevocationPC],
           NEW a \in Admins, NEW from, NEW to \in RevocationPC, RevocationGoes(a, from, to)
    PROVE  /\ revocation' \in [Admins -> RevocationPC]
           /\ revocation[a] = from
           /\ \A b \in Admins : revocation'[b] = IF b = a THEN to ELSE revocation[b]
  BY DEF RevocationGoes

\* Every step keeps the row, the cache entry, the logins and the revocations of
\* the types that AuthTypeOK gives them.
THEOREM AuthTyping == AuthSpec => []AuthTypeOK
<1>1. AuthInit => AuthTypeOK
  BY DEF AuthInit, AuthTypeOK, LoginPC, RevocationPC
<1>2. AuthTypeOK /\ [AuthNext]_authVars => AuthTypeOK'
  <2> SUFFICES ASSUME AuthTypeOK, [AuthNext]_authVars
               PROVE  AuthTypeOK'
    OBVIOUS
  <2> USE DEF AuthTypeOK
  <2>1. ASSUME NEW r \in Requests, NEW wellFormed \in BOOLEAN, Authenticate(r, wellFormed)
        PROVE  AuthTypeOK'
    BY <2>1, LoginFacts DEF Authenticate, LoginPC
  <2>2. ASSUME NEW r \in Requests, LoginStep(r) \/ LeaveLogin(r)
        PROVE  AuthTypeOK'
    <3>1. CASE GetCached(r)
      BY <3>1, LoginFacts DEF GetCached, LoginPC
    <3>2. CASE LoadFromDatabase(r)
      BY <3>2, LoginFacts DEF LoadFromDatabase, LoginPC
    <3>3. CASE SetCached(r)
      <4>1. login' \in [Requests -> LoginPC]
        BY <3>3, LoginFacts DEF SetCached, LoginPC
      <4>2. (r \in late) \in BOOLEAN
        OBVIOUS
      <4>3. cached' \in BOOLEAN /\ lateEntry' \in BOOLEAN
        BY <3>3, <4>2, Zenon DEF SetCached
      <4>4. QED
        BY <3>3, <4>1, <4>3 DEF SetCached
    <3>4. CASE LeaveLogin(r)
      BY <3>4, LoginFacts DEF LeaveLogin, LoginPC
    <3>5. QED
      BY <2>2, <3>1, <3>2, <3>3, <3>4 DEF LoginStep
  <2>3. ASSUME NEW a \in Admins, StartRevocation(a) \/ RevocationStep(a)
        PROVE  AuthTypeOK'
    <3>1. CASE StartRevocation(a)
      BY <3>1, RevocationFacts DEF StartRevocation, RevocationPC
    <3>2. ASSUME NEW ownTenant \in BOOLEAN, FindKey(a, ownTenant)
          PROVE  AuthTypeOK'
      BY <3>2, RevocationFacts DEF FindKey, RevocationPC
    <3>3. CASE ReadKey(a)
      BY <3>3, RevocationFacts DEF ReadKey, RevocationPC
    <3>4. CASE MarkRevoked(a)
      BY <3>4, RevocationFacts DEF MarkRevoked, RevocationPC
    <3>5. CASE InvalidateCache(a)
      BY <3>5, RevocationFacts DEF InvalidateCache, RevocationPC
    <3>6. CASE CommitRevocation(a)
      BY <3>6, RevocationFacts DEF CommitRevocation, RevocationPC
    <3>7. QED
      BY <2>3, <3>1, <3>2, <3>3, <3>4, <3>5, <3>6 DEF RevocationStep
  <2>4. CASE CreateApiKey \/ ExpireCached
    BY <2>4 DEF CreateApiKey, ExpireCached
  <2>5. CASE UNCHANGED authVars
    BY <2>5 DEF authVars
  <2>6. QED
    BY <2>1, <2>2, <2>3, <2>4, <2>5 DEF AuthNext
<1>3. QED
  BY <1>1, <1>2, PTL DEF AuthSpec

-----------------------------------------------------------------------------
(* Revocation.                                                             *)

\* Nothing is served or about to be stored but what late logins have read.
OnlyLate ==
    /\ cached => lateEntry
    /\ \A r \in Requests : login[r] = "loaded" => r \in late

\* The inductive invariant: this holds not only once the revocation is
\* committed but from the DELETE on, while a commit is under way.
RaceInv == keyRow = "revoked" \/ Overtaken => OnlyLate

\* A step that neither commits nor clears the cache keeps the invariant if no
\* login comes to be loaded by it and it does not fill the cache.
LEMMA Harmless ==
    ASSUME RaceInv,
           keyRow' = "revoked" => keyRow = "revoked" \/ Overtaken,
           Overtaken' => Overtaken,
           cached' => cached /\ UNCHANGED lateEntry,
           UNCHANGED late,
           \A r \in Requests : login'[r] = "loaded" => login[r] = "loaded"
    PROVE  RaceInv'
  BY DEF RaceInv, OnlyLate

\* A step of one revocation that does not take it to its commit.
LEMMA NotOvertaken ==
    ASSUME AuthTypeOK,
           NEW a \in Admins, NEW from, NEW to \in RevocationPC \ {"committing"},
           RevocationGoes(a, from, to)
    PROVE  Overtaken' => Overtaken
  BY RevocationFacts DEF AuthTypeOK, Overtaken

\* A step of one login that does not take it to a loaded row.
LEMMA NotLoaded ==
    ASSUME AuthTypeOK,
           NEW r \in Requests, NEW from, NEW to \in LoginPC \ {"loaded"},
           LoginGoes(r, from, to)
    PROVE  \A q \in Requests : login'[q] = "loaded" => login[q] = "loaded"
  BY LoginFacts DEF AuthTypeOK

LEMMA RaceStep == AuthTypeOK /\ RaceInv /\ [AuthNext]_authVars => RaceInv'
<1> SUFFICES ASSUME AuthTypeOK, RaceInv, [AuthNext]_authVars
             PROVE  RaceInv'
  OBVIOUS
<1>1. ASSUME NEW r \in Requests, NEW wellFormed \in BOOLEAN, Authenticate(r, wellFormed)
      PROVE  RaceInv'
  BY <1>1, NotLoaded, Harmless DEF Authenticate, LoginPC, Overtaken
<1>2. ASSUME NEW r \in Requests, LoginStep(r) \/ LeaveLogin(r)
      PROVE  RaceInv'
  <2>1. CASE GetCached(r)
    BY <2>1, NotLoaded, Harmless DEF GetCached, LoginPC, Overtaken
  <2>2. CASE LoadFromDatabase(r)
    <3>1. CASE login[r] = "loading" /\ login' = [login EXCEPT ![r] = "loaded"]
               /\ keyRow = "active"
               /\ late' = IF Overtaken THEN late \union {r} ELSE late \ {r}
      BY <2>2, <3>1, LoginFacts
      DEF LoadFromDatabase, LoginGoes, LoginPC, Overtaken, RaceInv, OnlyLate, AuthTypeOK
    <3>2. CASE UNCHANGED late /\ \E to \in {"rejected", "failed"} : LoginGoes(r, "loading", to)
      BY <2>2, <3>2, NotLoaded, Harmless DEF LoadFromDatabase, LoginPC, Overtaken
    <3>3. QED
      BY <2>2, <3>1, <3>2 DEF LoadFromDatabase, LoginGoes
  <2>3. CASE SetCached(r)
    <3>1. login[r] = "loaded"
          /\ \A q \in Requests : login'[q] = "loaded" => login[q] = "loaded"
      BY <2>3, NotLoaded DEF SetCached, LoginGoes, LoginPC
    <3>2. UNCHANGED <<keyRow, revocation, late>>
      BY <2>3 DEF SetCached
    <3>3. CASE UNCHANGED <<cached, lateEntry>>
      BY <3>1, <3>2, <3>3, Harmless DEF Overtaken
    <3>4. CASE lateEntry' = (r \in late)
      <4>1. SUFFICES ASSUME OnlyLate
                     PROVE  OnlyLate'
        BY <3>2 DEF RaceInv, Overtaken
      <4>2. OnlyLate /\ r \in late
        BY <3>1, <4>1 DEF OnlyLate
      <4>3. lateEntry'
        BY <3>4, <4>2, Zenon
      <4>4. QED
        BY <3>1, <3>2, <4>2, <4>3 DEF OnlyLate
    <3>5. QED
      BY <2>3, <3>3, <3>4 DEF SetCached
  <2>4. CASE LeaveLogin(r)
    BY <2>4, NotLoaded, Harmless DEF LeaveLogin, LoginPC, Overtaken
  <2>5. QED
    BY <1>2, <2>1, <2>2, <2>3, <2>4 DEF LoginStep
<1>3. ASSUME NEW a \in Admins, StartRevocation(a) \/ RevocationStep(a)
      PROVE  RaceInv'
  <2>1. CASE StartRevocation(a)
    BY <2>1, NotOvertaken, Harmless DEF StartRevocation, RevocationPC
  <2>2. ASSUME NEW ownTenant \in BOOLEAN, FindKey(a, ownTenant)
        PROVE  RaceInv'
    BY <2>2, NotOvertaken, Harmless DEF FindKey, RevocationPC
  <2>3. CASE ReadKey(a)
    BY <2>3, NotOvertaken, Harmless DEF ReadKey, RevocationPC
  <2>4. CASE MarkRevoked(a)
    BY <2>4, NotOvertaken, Harmless DEF MarkRevoked, RevocationPC
  <2>5. CASE InvalidateCache(a)
    <3>1. CASE RevocationGoes(a, "clearing", "failed") /\ UNCHANGED late
      <4>1. Overtaken' => Overtaken
        BY <3>1, NotOvertaken DEF RevocationPC
      <4>2. cached' => cached /\ UNCHANGED lateEntry
        BY <2>5, Zenon DEF InvalidateCache
      <4>3. QED
        BY <2>5, <3>1, <4>1, <4>2, Harmless DEF InvalidateCache
    <3>2. CASE ~cached' /\ late' = late \union {r \in Requests : login[r] = "loaded"}
      BY <2>5, <3>2 DEF InvalidateCache, RaceInv, OnlyLate
    <3>3. QED
      BY <2>5, <3>1, <3>2 DEF InvalidateCache
  <2>6. CASE CommitRevocation(a)
    <3>1. Overtaken /\ (Overtaken' => Overtaken)
      BY <2>6, NotOvertaken DEF CommitRevocation, RevocationPC, RevocationGoes, Overtaken
    <3>2. QED
      BY <2>6, <3>1, Harmless DEF CommitRevocation
  <2>7. QED
    BY <1>3, <2>1, <2>2, <2>3, <2>4, <2>5, <2>6 DEF RevocationStep
<1>4. CASE CreateApiKey \/ ExpireCached
  BY <1>4, Harmless DEF CreateApiKey, ExpireCached, Overtaken
<1>5. CASE UNCHANGED authVars
  BY <1>5, Harmless DEF authVars, Overtaken
<1>6. QED
  BY <1>1, <1>2, <1>3, <1>4, <1>5 DEF AuthNext

\* Once a revocation is committed, all that is cached or about to be was read
\* by a login that overlapped the revocation's DELETE.
THEOREM RevocationRace == AuthSpec => []RevokedServedOnlyByRace
<1>1. AuthInit => RaceInv
  BY DEF AuthInit, RaceInv, Overtaken
<1>2. RaceInv => RevokedServedOnlyByRace
  BY DEF RaceInv, OnlyLate, RevokedServedOnlyByRace
<1>3. QED
  BY <1>1, <1>2, AuthTyping, RaceStep, PTL DEF AuthSpec
=============================================================================
