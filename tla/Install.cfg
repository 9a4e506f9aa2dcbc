SPECIFICATION LiveSpec
CONSTANTS
  KnownDMs <- MCKnownDMs
  NoDM = "none"
  Garbled = "garbled"
  Releases = 2
  MaxBreaks = 2
INVARIANTS InstalledRuns TwoDesktopsFree
PROPERTY DesktopReturns
