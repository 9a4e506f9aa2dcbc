SPECIFICATION LiveSpec
CONSTANTS
  Releases = 2
  MaxBreaks = 2
INVARIANTS LiftedIsWhole EntriesAfterFiles OrderKeptUnlessCut
PROPERTY LiftConverges
