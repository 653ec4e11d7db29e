SPECIFICATION UpSpec
CONSTANTS
  ByteVals = 256
  Base <- MCBase
  Wins <- MCWins
  DirectWins <- MCDirectWins
  Offsets <- MCOffsets
  MaxMissed = 1
CHECK_DEADLOCK FALSE
INVARIANTS
  UpTypeOK
  RightAddress
  NoticedUnlessReady
  CleanBringUp
  ClockedAccess
