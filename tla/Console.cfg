CONSTANT Devices = 2
SPECIFICATION Spec
INVARIANT LastWord
PROPERTIES HandsOff BrokenCockpitGivesShell
CHECK_DEADLOCK FALSE
