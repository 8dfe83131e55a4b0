SPECIFICATION Spec
CONSTANTS
  Inputs <- PipelinedSets
  SpuriousWakeups = FALSE
  SendOutcomes = {"ok"}
INVARIANTS
  NoReplyLostAnyInput
