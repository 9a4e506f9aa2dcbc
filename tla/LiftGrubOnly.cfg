SPECIFICATION Spec
CONSTANTS
  Releases = 2
  MaxBreaks = 2
INVARIANT RecoveredEntriesLoad
