CONSTANT Inputs <- MCInputs
CONSTANT MaxSignals = 2
SPECIFICATION Spec
PROPERTY ShutdownOnSignal
CHECK_DEADLOCK FALSE
