SPECIFICATION Spec
CONSTANTS
  MSG_BITS = 48
  SD_DATA_PINS = 4
  RSP_WAIT = 20
  Blocks <- MCBlocks
  RspStarts <- MCRspStarts
  DataStarts <- MCDataStarts
INVARIANTS TypeOK InBuffer ExactBlock ReturnsInTime
CHECK_DEADLOCK FALSE
