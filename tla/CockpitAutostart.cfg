SPECIFICATION Spec
CONSTANTS
    Names = {"desk", "inst"}
    Manifest = "desk"
    Instance = "inst"
    MaxDomid = 2
    MaxSerial = 1
    MaxWaiting = 1
    MaxUpsets = 0
PROPERTIES
    AutostartRuns
CHECK_DEADLOCK FALSE
