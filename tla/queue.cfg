SPECIFICATION Spec
CONSTANTS
  Producers = {p1, p2}
  Consumers = {c1, c2}
  MaxNodes = 3
  WeakFailures = TRUE
  Null = Null
INVARIANTS
  QueueTypeOK
  SafeForOnePair
  EmptyExact
  FreedOnce
  AllNodesFreed
PROPERTIES
  IsFifo
\* the destructor is the last call
CHECK_DEADLOCK FALSE
