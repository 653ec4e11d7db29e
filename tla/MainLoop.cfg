SPECIFICATION FairLoop
CONSTANTS
  HdrLen = 2
  MaxLen = 5
  MaxBlk = 3
  FrameLens <- MCFrameLens
  Lookalikes <- MCLookalikes
  MaxFaults = 2
  FetchOn = FALSE
  Decoded = 3
  ShowMin = 3
INVARIANTS
  TypeOK
  FrameWhole
  NoOverrun
  DecodesOwn
PROPERTIES
  Resync
  CallReturns
  FrameShown
