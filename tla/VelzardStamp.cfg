\* One request at a time, one worker, no callback.
SPECIFICATION Spec
CONSTANTS
    Envs = {d1}
    Reqs = {r1}
    Workers = {w1}
    Users = {u}
    Admins = {u}
    QCap = 1
    WebhookStatuses = {}
    WriteFaults = FALSE
    MaxStops = 0
    NoJob = NoJob
INVARIANT DestroyedIsStamped
CHECK_DEADLOCK FALSE
