\* The gate ends when the client is whole: the model stops.
SPECIFICATION Spec
CONSTANTS
    Workers = {k1, k2}
    N = 3
    MaxDeaths = 1
    MaxRestarts = 2
CHECK_DEADLOCK FALSE
INVARIANTS
    TypeOK
    FullPass
    AckNotAhead
PROPERTY Materialized
