\* One request at a time, one worker; nothing fails.
SPECIFICATION Spec
CONSTANTS
    Envs = {e1}
    PullRequests = {p1}
    Reqs = {r1}
    Workers = {w1}
    Users = {u}
    QCap = 1
    WriteFaults = FALSE
    MaxStops = 0
    NoJob = NoJob
INVARIANT ForceKillDestroys
CHECK_DEADLOCK FALSE
