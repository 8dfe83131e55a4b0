SPECIFICATION FairSpec
CONSTANTS
  Clients = {c1, c2, c3}
  Workers = {w1, w2}
  Payloads <- BlockingCommands
  MaxChunks = 1
  TaskFates = {"ends"}
  Free = Free
  NoTask = NoTask
  k1 = k1
  v1 = v1
  v2 = v2
  Keys = {k1}
  Values = {v1, v2}
  EmptyString = v2
  ConfigNames = {k1}
  Matches <- MatchAll
  Role = "master"
  Stalled = {c1}
  MaxTime = 1
  NoEntry = NoEntry
PROPERTIES
  SetNonBlocking
\* a blocked send() stops the pool
CHECK_DEADLOCK FALSE
