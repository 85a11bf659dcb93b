\* The harness stops when its audit is over.
SPECIFICATION Spec
CONSTANTS
    OutLen = 4
    MaxLag = 3
    MaxCrashes = 2
CHECK_DEADLOCK FALSE
INVARIANTS
    OracleCorrect
    RecordsSound
    StreamExact
PROPERTY AuditEnds
