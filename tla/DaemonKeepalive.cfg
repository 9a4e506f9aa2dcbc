SPECIFICATION LiveSpec
CONSTANTS
  busy = busy
  silent = silent
  Clients = {busy, silent}
  MaxLines <- MCMaxLines
  InboxSize = 2
  OutboxSize = 1
  Keepalives = TRUE
  MayDie = FALSE
CHECK_DEADLOCK FALSE
PROPERTY SessionsBreak
