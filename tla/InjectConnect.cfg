CONSTANT Millis <- MCMillis
CONSTANT Inputs <- MCInputs
CONSTANT MaxSignals = 2
SPECIFICATION Spec
INVARIANT ServesOnlyWithConsulState
PROPERTY ShutdownOnSignal LifecycleSpec
CHECK_DEADLOCK FALSE
