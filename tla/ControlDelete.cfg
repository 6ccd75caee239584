\* Two users, a deployment and an environment, one request at a time.
SPECIFICATION Spec
CONSTANTS
    Ids = {i1, i2}
    Accounts = {a1, a2}
    Deployments = {d1}
    Environments = {z1}
    Procs = {p1}
PROPERTY DeleteUserIsAtomic
CHECK_DEADLOCK FALSE
