CONSTANT Devices = 2
SPECIFICATION Spec
INVARIANT ManifestKept
CHECK_DEADLOCK FALSE
