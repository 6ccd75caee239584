\* Two requests and two workers, no faults of the database.
SPECIFICATION Spec
CONSTANTS
    Envs = {d1}
    Reqs = {r1, r2}
    Workers = {w1, w2}
    Users = {u}
    Admins = {u}
    QCap = 1
    WebhookStatuses = {}
    WriteFaults = FALSE
    MaxStops = 0
    NoJob = NoJob
INVARIANT OneDestroyJob
CHECK_DEADLOCK FALSE
