SPECIFICATION Spec
CONSTANTS
  KnownDMs <- MCKnownDMs
  NoDM = "none"
  Garbled = "garbled"
  Releases = 2
  MaxBreaks = 2
INVARIANT GrubFollowsSnippet
