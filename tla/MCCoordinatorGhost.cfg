\* An uncertain or compensated action is logged as observed.
SPECIFICATION CoSpec
CONSTANTS
    Keys = {0, 1}
    Args = {f1}
    MaxCalls = 6
    None = None
    N = 2
    Fp = f1
    MaxAttempts = 3
CHECK_DEADLOCK FALSE
INVARIANT NoGhostObservation
