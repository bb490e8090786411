-------------------------- MODULE RoutingContract --------------------------
(***************************************************************************)
(* What RoutingService promises GatewayService, without providers, retries *)
(* or circuit breakers: a request commits to at most one source, output is *)
(* only ever that source's, and giving up is only possible while nothing   *)
(* has been delivered.  Every accepted request is settled.                 *)
(***************************************************************************)
CONSTANTS Requests, Sources, NoSource   \* NoSource is not one of Sources

VARIABLES
    verdict,    \* verdict[r] : how request r ended, or that it has not
    source      \* source[r]  : the source request r is committed to

contractVars == <<verdict, source>>

Settled == {"answered", "broken", "exhausted", "aborted", "rejected"}

ContractTypeOK ==
    /\ verdict \in [Requests -> {"new", "pending"} \union Settled]
    /\ source \in [Requests -> Sources \union {NoSource}]

ContractInit ==
    /\ verdict = [r \in Requests |-> "new"]
    /\ source = [r \in Requests |-> NoSource]

Pending(r) == verdict[r] = "pending"

Conclude(r, v) == verdict' = [verdict EXCEPT ![r] = v] /\ UNCHANGED source

Accept(r) == verdict[r] = "new" /\ \E v \in {"pending", "rejected"} : Conclude(r, v)

Commit(r, s) ==
    /\ Pending(r) /\ source[r] = NoSource
    /\ source' = [source EXCEPT ![r] = s]
    /\ UNCHANGED verdict

\* A source that was committed to finishes, or fails part of the way.
Finish(r) ==
    /\ Pending(r) /\ source[r] # NoSource
    /\ \E v \in {"answered", "broken"} : Conclude(r, v)

GiveUp(r) == Pending(r) /\ source[r] = NoSource /\ Conclude(r, "exhausted")

Drop(r) == Pending(r) /\ Conclude(r, "aborted")

Settle(r) == Finish(r) \/ GiveUp(r) \/ Drop(r)

ContractNext ==
    \E r \in Requests : Accept(r) \/ Settle(r) \/ \E s \in Sources : Commit(r, s)

ContractSafety == ContractInit /\ [][ContractNext]_contractVars

ContractSpec ==
    ContractSafety /\ \A r \in Requests : WF_contractVars(Settle(r))
=============================================================================
