\* The gate ends with its audit: the model stops.
SPECIFICATION GateSpec
CONSTANTS
    Procs = {p1, p2, p3, p4}
    Sweeper = p4
    N = 2
    MaxEpoch = 4
    MaxLosses = 1
SYMMETRY ProcSymmetry
CHECK_DEADLOCK FALSE
INVARIANTS
    PublishedWhole
    PublisherDurable
    NoGhostWhilePowered
    CommittedTurnComplete
    OverlayGatePass
