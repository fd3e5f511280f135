CONSTANT Inputs <- MCInputs
SPECIFICATION Spec
INVARIANT TimestampPresent
CHECK_DEADLOCK FALSE
