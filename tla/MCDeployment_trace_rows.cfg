CONSTANTS
    gateway = gateway
    worker = worker
    t1 = t1
    t2 = t2
    id1 = id1
    id2 = id2
    Gateways = {gateway}
    Workers = {worker}
    Fields = 1
    MaxDeaths = 0
    Traces = {t1, t2}
    Ids = {id1}
    IdAssignments <- MCIdAssignments
    UseArq = TRUE
    QueueMayFail = FALSE
    DatabaseMayFail = FALSE
CHECK_DEADLOCK FALSE
SPECIFICATION DeploymentSpec
INVARIANT NoDuplicateRows
