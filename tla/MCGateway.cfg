\* Calls run out at MaxCalls: the model stops.
SPECIFICATION GwSpec
CONSTANTS
    Keys = {k1, k2}
    Args = {f1, f2}
    MaxCalls = 4
    None = None
SYMMETRY Symmetry
CHECK_DEADLOCK FALSE
INVARIANTS
    TypeOK
    EffectAtMostOnce
    SuccessIsReal
    FailureIsFinal
    IntentBeforeEffect
    ArgsOfEffect
