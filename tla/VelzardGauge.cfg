\* Nothing fails but terraform; one worker.
SPECIFICATION Spec
CONSTANTS
    Envs = {d1}
    Reqs = {r1}
    Workers = {w1}
    Users = {u}
    Admins = {u}
    QCap = 1
    WebhookStatuses = {}
    WriteFaults = FALSE
    MaxStops = 0
    NoJob = NoJob
INVARIANT GaugeNonNegative
CHECK_DEADLOCK FALSE
