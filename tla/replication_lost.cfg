SPECIFICATION Spec
CONSTANTS
  CommandLines <- Lines
  DefaultPort = 6379
  NoFile = NoFile
  NoPort = NoPort
  Blank = Blank
  k1 = k1
  k2 = k2
  v1 = v1
  v2 = v2
  long = long
  Keys = {k1, k2}
  Values = {v1, v2, long}
  ClientChunks <- Chunks
  MaxClientChunks = 2
  Garbled = Garbled
  NoEntry = NoEntry
INVARIANTS
  Propagated
\* processes end, clients stop sending
CHECK_DEADLOCK FALSE
