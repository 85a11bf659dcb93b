\* PostgreSQL: a second coordinator offers another plan for a durable turn.
SPECIFICATION Spec
CONSTANTS
    Procs = {p1, p2}
    Turns = {t1}
    P1 = P1
    P2 = P2
    Plans = {P1, P2}
    Fps = {f1}
    Backend = "postgres"
    MaxEpoch = 2
    None = None
    PlanLen <- TwoActions
    Offered <- Redecided
    Watched <- SecondAction
CHECK_DEADLOCK FALSE
INVARIANT CommittedTurnComplete
