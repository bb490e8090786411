----------------------------- MODULE Deployment -----------------------------
(***************************************************************************)
(* A gateway process and a worker process over their life: they start up   *)
(* as SemanticCollection says, serve requests and run jobs as              *)
(* TraceDelivery says, die at any point, and are started again.            *)
(***************************************************************************)
EXTENDS SemanticCollection, TraceDelivery

ASSUME DeploymentAssumption ==
    \E g \in Gateways, w \in Workers : Gateways = {g} /\ Workers = {w}

deploymentVars == <<collectionVars, traceVars>>

DeploymentTypeOK == CollectionTypeOK /\ TraceTypeOK

DeploymentInit == CollectionInit /\ TraceInit

GatewayUp == \E p \in Gateways : Serving(p)
WorkerUp == \E p \in Workers : Serving(p)

Start(p) == StartStep(p) /\ UNCHANGED traceVars

\* Only a gateway that serves has flushes and tasks, only a worker that serves
\* runs jobs.
Kill(p) ==
    /\ Die(p)
    /\ IF ~Serving(p) THEN UNCHANGED traceVars
       ELSE IF p \in Gateways THEN GatewayDies ELSE WorkerDies

FinishRequest(t) == GatewayUp /\ Finalize(t) /\ UNCHANGED collectionVars
RunFlush(t) == GatewayUp /\ FlushStep(t) /\ UNCHANGED collectionVars
RunTask(t) == GatewayUp /\ ExecutorStep("task", t) /\ UNCHANGED collectionVars
RunJob(t) == WorkerUp /\ ExecutorStep("job", t) /\ UNCHANGED collectionVars

DeploymentNext ==
    \/ \E p \in Processes : Start(p) \/ Kill(p)
    \/ \E t \in Traces : FinishRequest(t) \/ RunFlush(t) \/ RunTask(t) \/ RunJob(t)

DeploymentSpec == DeploymentInit /\ [][DeploymentNext]_deploymentVars

\* Processes are started again, Qdrant, Postgres and the queue answer or fail,
\* event loops run their tasks.  A persist and an export of one executor are
\* tasks of their own, hence fairness of each.
DeploymentFairness ==
    /\ \A p \in Processes : WF_deploymentVars(Start(p))
    /\ \A t \in Traces :
          /\ WF_deploymentVars(RunFlush(t))
          /\ WF_deploymentVars(RunTask(t))
          /\ WF_deploymentVars(RunJob(t))

FairDeploymentSpec == DeploymentSpec /\ DeploymentFairness
=============================================================================
