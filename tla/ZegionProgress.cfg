\* One request at a time, one worker, one account, a restart, lost writes, under fairness.
SPECIFICATION FairSpec
CONSTANTS
    Envs = {e1}
    PullRequests = {p1}
    Reqs = {r1}
    Workers = {w1}
    Users = {u}
    QCap = 2
    WriteFaults = TRUE
    MaxStops = 1
    NoJob = NoJob
INVARIANTS ServersTracked DestroyingOwned ProvisioningAccounted
PROPERTIES DestroyResolves ProvisionResolves ImplementsPool LostOnlyByKills
CHECK_DEADLOCK FALSE
