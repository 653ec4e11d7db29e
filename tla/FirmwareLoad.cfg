SPECIFICATION Spec
CONSTANTS
  WinUnits = 4
  Burst = 2
  Blocks = 11
  NvWin = 4
  NvOff = 1
  NvUnits = 3
  NvBurst = 1
  ByteVals = 2
CHECK_DEADLOCK FALSE
INVARIANTS
  TypeOK
  WholeImages
  LoadedPrefix
