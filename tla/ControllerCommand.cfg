CONSTANT Inputs <- MCInputs
CONSTANT MaxSignals = 2
SPECIFICATION Spec
INVARIANT ServesOnlyWithConsulState
PROPERTY LifecycleSafe
CHECK_DEADLOCK FALSE
