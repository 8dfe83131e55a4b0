SPECIFICATION Spec
CONSTANTS
  Clients = {c1, c2}
  Workers = {w1, w2}
  Payloads <- SharedCommands
  MaxChunks = 2
  TaskFates = {"ends", "hangs"}
  Free = Free
  NoTask = NoTask
  k1 = k1
  v1 = v1
  v2 = v2
  Keys = {k1}
  Values = {v1, v2}
  EmptyString = v2
  ConfigNames = {k1}
  Matches <- MatchAll
  Role = "master"
  Stalled = {}
  MaxTime = 2
  NoEntry = NoEntry
SYMMETRY Symmetry
CONSTRAINT FewCommands
INVARIANTS
  ServerTypeOK
  OneTaskAtATime
  ServedInOrder
  NoLostWakeup
  SlaveListConsistent
  NoFreshKeyErased
  RdbBeforeCommands
  FeedComplete
PROPERTIES
  GetAnswerCurrent
  NilUntilSet
\* clients stop sending
CHECK_DEADLOCK FALSE
