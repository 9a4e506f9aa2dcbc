SPECIFICATION Spec
CONSTANTS
  Releases = 1
  MaxBreaks = 1
INVARIANT UbuntuStaysDefault
