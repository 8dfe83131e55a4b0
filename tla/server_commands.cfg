SPECIFICATION FairSpec
CONSTANTS
  Clients = {c1, c2}
  Workers = {w1, w2}
  Payloads <- AllCommands
  MaxChunks = 1
  TaskFates = {"ends", "hangs", "crashes"}
  Free = Free
  NoTask = NoTask
  k1 = k1
  v1 = v1
  v2 = v2
  Keys = {k1}
  Values = {v1, v2}
  EmptyString = v2
  ConfigNames = {k1}
  Matches <- MatchAll
  Role = "slave"
  Stalled = {}
  MaxTime = 1
  NoEntry = NoEntry
PROPERTIES
  TasksKeepContract
  ServedUnlessHung
\* clients stop sending
CHECK_DEADLOCK FALSE
