SPECIFICATION Spec
CONSTANTS
  ByteVals = 256
  Base <- MCBase
  Wins <- MCWins
  DirectWins <- MCDirectWins
  Offsets <- MCOffsets
INVARIANTS
  SkipOnlyIfOK
