SPECIFICATION Spec
CONSTANTS
  busy = busy
  silent = silent
  Clients = {busy, silent}
  MaxLines <- MCMaxLines
  InboxSize = 2
  OutboxSize = 1
  Keepalives = FALSE
  MayDie = FALSE
CHECK_DEADLOCK FALSE
INVARIANT EveryRequestAnswered
