CONSTANTS
    SteadyMb = 1024
    MaxMb = 4096
    PerGuestMb = 256
    LowPct = 12
    HighPct = 30
    StepMb = 256
    DeadBandMb = 128
    BootMb = 4096
    KeptMb = 64
    Typed = {60, 5000}
    Loads = {300, 2500, 3500}
    MaxGuests = 2
    MaxUpsets = 2
SPECIFICATION Spec
INVARIANT InRange
PROPERTIES WatermarkProtects GrowthKept CeilingRestored Settles
CHECK_DEADLOCK FALSE
