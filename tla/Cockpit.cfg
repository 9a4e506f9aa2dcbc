SPECIFICATION Spec
CONSTANTS
    Names = {"desk", "inst"}
    Manifest = "desk"
    Instance = "inst"
    MaxDomid = 2
    MaxSerial = 1
    MaxWaiting = 1
    MaxUpsets = 2
INVARIANTS
    TargetsChosen
PROPERTIES
    CreatesOnce
    CommandsReported
    ViewConverges
    AutostartNotLost
CHECK_DEADLOCK FALSE
