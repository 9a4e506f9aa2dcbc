CONSTANT Devices = 2
SPECIFICATION Spec
INVARIANT NeverStranded
CHECK_DEADLOCK FALSE
