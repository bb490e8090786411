---------------------------- MODULE AuthService ----------------------------
(***************************************************************************)
(* AuthService of services/auth_service.py and the endpoints that create   *)
(* and revoke keys: one API key, its row in Postgres and the principal     *)
(* that authentications cache in Redis under the key's hash.               *)
(*                                                                         *)
(* One action is one round trip to Redis or one transaction's visible      *)
(* effect.  A revocation keeps its transaction open across the DELETE: the *)
(* row is locked from the flush on, readers see what was committed.        *)
(***************************************************************************)
EXTENDS ApiBase

VARIABLES
    keyRow,     \* the committed row: absent, active, or with revoked_at set
    cached,     \* the principal is in Redis
    login,      \* login[r]      : where authenticate() of request r stands
    revocation, \* revocation[a] : where revoke_api_key() of admin call a stands
    late,       \* history: logins that read the row before a revocation was
                \* committed and may write the cache after it was cleared
    lateEntry   \* history: what is cached was written by such a login

authVars == <<keyRow, cached, login, revocation, late, lateEntry>>

LoginPC == {"idle", "looking", "loading", "loaded", "accepted", "rejected", "failed"}
RevocationPC == {"idle", "finding", "reading", "marking", "clearing", "committing",
                 "done", "notfound", "failed"}

AuthTypeOK ==
    /\ keyRow \in {"absent", "active", "revoked"}
    /\ cached \in BOOLEAN
    /\ login \in [Requests -> LoginPC]
    /\ revocation \in [Admins -> RevocationPC]
    /\ late \subseteq Requests
    /\ lateEntry \in BOOLEAN

AuthInit ==
    /\ keyRow \in {"absent", "active"}
    /\ cached = FALSE
    /\ login = [r \in Requests |-> "idle"]
    /\ revocation = [a \in Admins |-> "idle"]
    /\ late = {}
    /\ lateEntry = FALSE

LoginGoes(r, from, to) ==
    login[r] = from /\ login' = [login EXCEPT ![r] = to]
RevocationGoes(a, from, to) ==
    revocation[a] = from /\ revocation' = [revocation EXCEPT ![a] = to]

-----------------------------------------------------------------------------
(* authenticate().  A text without the prefix is refused without a lookup. *)
Authenticate(r, wellFormed) ==
    /\ LoginGoes(r, "idle", IF wellFormed THEN "looking" ELSE "rejected")
    /\ UNCHANGED <<keyRow, cached, revocation, late, lateEntry>>

\* GET; an error of Redis is a miss.
GetCached(r) ==
    /\ \/ cached /\ LoginGoes(r, "looking", "accepted")
       \/ (~cached \/ StoresMayFail) /\ LoginGoes(r, "looking", "loading")
    /\ UNCHANGED <<keyRow, cached, revocation, late, lateEntry>>

\* Some revocation has cleared the cache and is about to commit.
Overtaken == \E a \in Admins : revocation[a] = "committing"

\* Mutant of LoadFromDatabase: revoked_at is not looked at.
LoadRevokedToo(r) ==
    /\ keyRow # "absent"
    /\ LoginGoes(r, "loading", "loaded")
    /\ late' = late \ {r}
    /\ UNCHANGED <<keyRow, cached, revocation, lateEntry>>

LoadFromDatabase(r) ==
    /\ \/ /\ keyRow = "active"
          /\ LoginGoes(r, "loading", "loaded")
          /\ late' = IF Overtaken THEN late \union {r} ELSE late \ {r}
       \/ /\ keyRow # "active"
          /\ LoginGoes(r, "loading", "rejected")
          /\ UNCHANGED late
       \/ /\ StoresMayFail
          /\ LoginGoes(r, "loading", "failed")
          /\ UNCHANGED late
    /\ UNCHANGED <<keyRow, cached, revocation, lateEntry>>

\* SET with the TTL; an error is logged, and the write may have been done.
SetCached(r) ==
    /\ LoginGoes(r, "loaded", "accepted")
    /\ \/ cached' = TRUE /\ lateEntry' = (r \in late)
       \/ StoresMayFail /\ UNCHANGED <<cached, lateEntry>>
    /\ UNCHANGED <<keyRow, revocation, late>>

\* The caller has its verdict; the request's slot may log in again.
LeaveLogin(r) ==
    /\ login[r] \in {"accepted", "rejected", "failed"}
    /\ LoginGoes(r, login[r], "idle")
    /\ UNCHANGED <<keyRow, cached, revocation, late, lateEntry>>

-----------------------------------------------------------------------------
(* The admin endpoints. *)
CreateApiKey ==
    /\ keyRow = "absent"
    /\ keyRow' = "active"
    /\ UNCHANGED <<cached, login, revocation, late, lateEntry>>

\* The endpoint's own session: unknown keys and those of other tenants are 404.
FindKey(a, ownTenant) ==
    /\ RevocationGoes(a, "finding",
           IF keyRow # "absent" /\ ownTenant THEN "reading" ELSE "notfound")
    /\ UNCHANGED <<keyRow, cached, login, late, lateEntry>>

\* The service's session.  Its second SELECT returns the object of the first.
ReadKey(a) ==
    /\ RevocationGoes(a, "reading", IF keyRow = "revoked" THEN "notfound" ELSE "marking")
    /\ UNCHANGED <<keyRow, cached, login, late, lateEntry>>

\* Mutant of RowLocked: a revocation that failed has not rolled back.
RowLockedForEver == \E a \in Admins : revocation[a] \in {"clearing", "committing", "failed"}

RowLocked == \E a \in Admins : revocation[a] \in {"clearing", "committing"}

\* UPDATE: waits for the lock, does not look at revoked_at again.
MarkRevoked(a) ==
    /\ ~RowLocked
    /\ RevocationGoes(a, "marking", "clearing")
    /\ UNCHANGED <<keyRow, cached, login, late, lateEntry>>

\* Mutant of InvalidateCache: nothing is deleted.
InvalidateNothing(a) ==
    /\ RevocationGoes(a, "clearing", "committing")
    /\ late' = late \union {r \in Requests : login[r] = "loaded"}
    /\ UNCHANGED <<keyRow, cached, login, lateEntry>>

\* DELETE.  An error is not caught: the session rolls back, although the
\* command may have been executed.
InvalidateCache(a) ==
    /\ \/ /\ RevocationGoes(a, "clearing", "committing")
          /\ cached' = FALSE /\ lateEntry' = FALSE
          /\ late' = late \union {r \in Requests : login[r] = "loaded"}
       \/ /\ StoresMayFail
          /\ RevocationGoes(a, "clearing", "failed")
          /\ \/ cached' = FALSE /\ lateEntry' = FALSE
             \/ UNCHANGED <<cached, lateEntry>>
          /\ UNCHANGED late
    /\ UNCHANGED <<keyRow, login>>

\* COMMIT, whose answer may be lost after it was done.
CommitRevocation(a) ==
    /\ \/ RevocationGoes(a, "committing", "done") /\ keyRow' = "revoked"
       \/ /\ StoresMayFail
          /\ RevocationGoes(a, "committing", "failed")
          /\ keyRow' \in {keyRow, "revoked"}
    /\ UNCHANGED <<cached, login, late, lateEntry>>

StartRevocation(a) ==
    /\ RevocationGoes(a, "idle", "finding")
    /\ UNCHANGED <<keyRow, cached, login, late, lateEntry>>

\* Redis drops the key at the end of its TTL.
ExpireCached ==
    /\ cached
    /\ cached' = FALSE /\ lateEntry' = FALSE
    /\ UNCHANGED <<keyRow, login, revocation, late>>

-----------------------------------------------------------------------------
LoginStep(r) == GetCached(r) \/ LoadFromDatabase(r) \/ SetCached(r)

RevocationStep(a) ==
    \/ \E ownTenant \in BOOLEAN : FindKey(a, ownTenant)
    \/ ReadKey(a) \/ MarkRevoked(a) \/ InvalidateCache(a) \/ CommitRevocation(a)

AuthNext ==
    \/ \E r \in Requests :
          \/ \E wellFormed \in BOOLEAN : Authenticate(r, wellFormed)
          \/ LoginStep(r)
          \/ LeaveLogin(r)
    \/ \E a \in Admins : StartRevocation(a) \/ RevocationStep(a)
    \/ CreateApiKey
    \/ ExpireCached

AuthSpec == AuthInit /\ [][AuthNext]_authVars

-----------------------------------------------------------------------------
(* Properties *)

\* Once revoke_api_key() has committed, the only principal still cached is one
\* that an authentication read before the commit and stored after the DELETE
\* (auth_service.py:43-47 against :77-81); nothing older is left to serve.
RevokedServedOnlyByRace ==
    keyRow = "revoked" =>
        /\ cached => lateEntry
        /\ \A r \in Requests : login[r] = "loaded" => r \in late

\* After a revocation, each request's acceptance of the key comes to an end: no
\* row is loaded any more, the last writers run out and the entry's TTL ends.
RevocationTakesEffect ==
    <>(keyRow = "revoked") => <>[](\A r \in Requests : login[r] # "accepted")
=============================================================================
