---------------------------- MODULE MCDeployment ----------------------------
(* Instance of Deployment for TLC: one gateway, one worker, two requests. *)
EXTENDS Deployment

CONSTANTS gateway, worker, t1, t2, id1, id2

\* Two ids, or one for both; with the ids exchanged nothing new can happen.
MCIdAssignments == {f \in [Traces -> Ids] : f[t1] = id1}
=============================================================================
