SPECIFICATION Spec
CONSTANTS
  Images <- BasicImages
  Junk <- SomeJunk
INVARIANTS
  LoadedExactly
\* the loader runs once and returns
CHECK_DEADLOCK FALSE
