SPECIFICATION FairSpec
CONSTANTS
  Inputs <- OneCommand
  SpuriousWakeups = FALSE
  SendOutcomes = {"ok"}
PROPERTIES
  WaitsEnd
