\* Two users, a deployment and an environment, two requests at a time.
SPECIFICATION Spec
CONSTANTS
    Ids = {i1, i2}
    Accounts = {a1, a2}
    Deployments = {d1}
    Environments = {z1}
    Procs = {p1, p2}
INVARIANTS TypeOK RowsHaveUsers SummaryConsistent
PROPERTY WipesTogether
SYMMETRY Symmetry
CHECK_DEADLOCK FALSE
