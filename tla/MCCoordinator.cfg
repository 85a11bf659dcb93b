\* Attempts run out at MaxAttempts: the model stops.
SPECIFICATION RcSpec
CONSTANTS
    Keys = {0, 1}
    Args = {f1}
    MaxCalls = 6
    None = None
    N = 2
    Fp = f1
    MaxAttempts = 3
    Workers = {main, neighbour}
    Main = main
    Blocks = {b1}
    Engine = p1
    Crowded <- MCCrowded
    BlocksOf <- MCBlocksOf
    Provs = {p1, p2}
    MaxFaults = 1
    NoManifest = NoManifest
CHECK_DEADLOCK FALSE
INVARIANTS
    ObservedIsCommitted
    ClosedIsComplete
    ObservedInOrder
    SnapshotOfCommittedTurn
    RestoredIsExact
    ManifestWhole
PROPERTY TurnCloses
