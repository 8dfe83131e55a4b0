SPECIFICATION Spec
CONSTANTS
  Inputs <- AllInputs
  SpuriousWakeups = TRUE
  SendOutcomes = {"ok", "error", "sigpipe"}
INVARIANTS
  TypeOK
  SentOnceInOrder
  EverySetForwarded
  ParserOutlivesThread
\* std::terminate and SIGPIPE stop the process
CHECK_DEADLOCK FALSE
