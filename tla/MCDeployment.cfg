CONSTANTS
    gateway = gateway
    worker = worker
    t1 = t1
    t2 = t2
    id1 = id1
    id2 = id2
    Gateways = {gateway}
    Workers = {worker}
    Fields = 2
    MaxDeaths = 1
    Traces = {t1, t2}
    Ids = {id1, id2}
    IdAssignments <- MCIdAssignments
    UseArq = TRUE
    QueueMayFail = TRUE
    DatabaseMayFail = TRUE
CHECK_DEADLOCK FALSE
SPECIFICATION FairDeploymentSpec
INVARIANTS
    DeploymentTypeOK
    CollectionComplete
    DuplicatesNeedOverlap
PROPERTIES
    ProcessesServe
    TraceSettles
