\* The bounds of agenttx/dmodel.py. Leases run out at MAX_EPOCH: the model stops.
SPECIFICATION Spec
CONSTANTS
    Coordinators = {c0, c1}
    MAX_EPOCH = 5
CHECK_DEADLOCK FALSE
INVARIANTS
    EffectOnce
    ClaimIsExclusive
    UncertainIsFinal
