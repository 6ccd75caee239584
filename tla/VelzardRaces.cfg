\* One deployment, two requests, two workers, a restart, lost writes, reports.
SPECIFICATION Spec
CONSTANTS
    Envs = {d1}
    Reqs = {r1, r2}
    Workers = {w1, w2}
    Users = {u}
    Admins = {u}
    QCap = 1
    WebhookStatuses = {"COMPILING"}
    WriteFaults = TRUE
    MaxStops = 1
    NoJob = NoJob
INVARIANTS TypeOK DestroyingOwned ProvisioningAccounted
SYMMETRY Symmetry
CHECK_DEADLOCK FALSE
