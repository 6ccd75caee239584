\* One pull request, two requests, two workers, lost writes.
SPECIFICATION Spec
CONSTANTS
    Envs = {e1}
    PullRequests = {p1}
    Reqs = {r1, r2}
    Workers = {w1, w2}
    Users = {u}
    QCap = 1
    WriteFaults = TRUE
    MaxStops = 0
    NoJob = NoJob
INVARIANTS TypeOK DestroyingOwned ProvisioningAccounted
SYMMETRY Symmetry
CHECK_DEADLOCK FALSE
