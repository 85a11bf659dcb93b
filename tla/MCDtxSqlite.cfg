\* SQLite: the fence is a read outside the write transaction.
SPECIFICATION Spec
CONSTANTS
    Procs = {p1, p2}
    Turns = {t1}
    P1 = P1
    P2 = P2
    Plans = {P1}
    Fps = {f1}
    Backend = "sqlite"
    MaxEpoch = 2
    None = None
    PlanLen <- TwoActions
    Offered <- SinglePlan
    Watched <- SecondAction
CHECK_DEADLOCK FALSE
PROPERTY FencedCommit
