\* One request at a time, one worker; nothing fails but terraform.
SPECIFICATION Spec
CONSTANTS
    Envs = {e1}
    PullRequests = {p1}
    Reqs = {r1}
    Workers = {w1}
    Users = {u}
    QCap = 1
    WriteFaults = FALSE
    MaxStops = 0
    NoJob = NoJob
INVARIANT AlreadyDestroyed
CHECK_DEADLOCK FALSE
