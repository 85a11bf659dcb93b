\* PostgreSQL: three coordinators race for one turn of two actions.
SPECIFICATION Spec
CONSTANTS
    Procs = {p1, p2, p3}
    Turns = {t1}
    P1 = P1
    P2 = P2
    Plans = {P1}
    Fps = {f1, f2}
    Backend = "postgres"
    MaxEpoch = 4
    None = None
    PlanLen <- TwoActions
    Offered <- SinglePlan
    Watched <- SecondAction
SYMMETRY ProcSymmetry
CHECK_DEADLOCK FALSE
INVARIANTS
    TypeOK
    AtMostOnce
    ClaimIffEffect
    ResultsDurable
    OwnersInOrder
    NoGap
    CommittedTurnComplete
PROPERTIES
    FencedCommit
    RefinesDmodel
