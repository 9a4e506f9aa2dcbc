SPECIFICATION Spec
CONSTANTS
  Callers = {c1, c2}
  Ids = {x, y}
  Images = {ubuntu}
  MaxJobs = 3
  MaxBreaks = 1
SYMMETRY Symmetry
INVARIANTS
  SuccessIsTrue
  BackingKept
PROPERTIES
  LiveDiskKept
  GrowsOnWhole
CHECK_DEADLOCK FALSE
