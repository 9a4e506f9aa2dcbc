SPECIFICATION BusLiveSpec
CONSTANTS
  Clients = {c1}
  Limits = {0, 1, 3}
  CAPACITY = 2
  MaxEvents = 4
  MaxRuns = 2
  ResetOnReconnect = TRUE
INVARIANTS InOrderOnce NoSilentLoss
PROPERTY CatchUp
