\* One worker, one account, two requests, a restart, lost writes, under fairness.
SPECIFICATION FairSpec
CONSTANTS
    Envs = {d1}
    Reqs = {r1, r2}
    Workers = {w1}
    Users = {u}
    Admins = {u}
    QCap = 1
    WebhookStatuses = {"RUNNING"}
    WriteFaults = TRUE
    MaxStops = 1
    NoJob = NoJob
INVARIANTS LiveReclaimable
PROPERTIES DestroyResolves DeployResolves PushCompletes ImplementsPool LostOnlyByKills
CHECK_DEADLOCK FALSE
