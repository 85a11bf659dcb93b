\* The gate ends after the audit, so TLC's deadlock check is off.
SPECIFICATION GateSpec
CONSTANTS
    r1 = r1
    r2 = r2
    r3 = r3
    s1 = s1
    s2 = s2
    t1 = t1
    t2 = t2
    Procs = {r1, r2, r3, s1, s2}
    Sweepers = {s1, s2}
    Mortal = {r1, r3}
    Turns = {t1, t2}
    Plans = {P1}
    Fps = {f1}
    Backend = "postgres"
    MaxEpoch = 3
    None = None
    PlanLen <- TwoActions
    Offered <- NoneOffered
    TurnOf <- Assigned
CHECK_DEADLOCK FALSE
INVARIANT Phase7Pass
PROPERTY AuditReached
