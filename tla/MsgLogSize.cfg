SPECIFICATION LogSpec
CONSTANTS
  LogSize = 3
  Msgs <- MCMsgs
  DataLens <- MCDataLens
  MaxSince = 4
INVARIANT KeepsLogSize
