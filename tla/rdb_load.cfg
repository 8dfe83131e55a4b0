SPECIFICATION FairSpec
CONSTANTS
  Images <- SupportedImages
  Junk <- SomeJunk
INVARIANTS
  RdbTypeOK
  LoadedExactly
  EntriesBeforeCutKept
PROPERTIES
  LoaderStops
  LoaderProgresses
\* the loader runs once and returns
CHECK_DEADLOCK FALSE
