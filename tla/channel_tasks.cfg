SPECIFICATION FairSpec
CONSTANTS
  Inputs <- ShortInputs
  SpuriousWakeups = FALSE
  SendOutcomes = {"ok", "error"}
INVARIANTS
  NoReplyLost
PROPERTIES
  KeepsContract
  FinishesUnlessWakeupLost
