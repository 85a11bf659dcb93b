\* A power loss between a rename and the sync of its directory.
SPECIFICATION Spec
CONSTANTS
    Procs = {p1, p2}
    N = 2
    MaxEpoch = 3
    MaxLosses = 1
CHECK_DEADLOCK FALSE
INVARIANT NoGhost
