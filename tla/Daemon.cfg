SPECIFICATION LiveSpec
CONSTANTS
  busy = busy
  silent = silent
  Clients = {busy, silent}
  MaxLines <- MCMaxLines
  InboxSize = 2
  OutboxSize = 1
  Keepalives = FALSE
  MayDie = TRUE
INVARIANTS ActorOutlivesConnections OnlyCutObjectsLost
PROPERTIES CallsReturn ShutdownExits
CHECK_DEADLOCK FALSE
