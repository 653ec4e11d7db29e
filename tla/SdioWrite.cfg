SPECIFICATION Spec
CONSTANTS
  RSP_WAIT = 20
  BLOCK_ACK_BITS = 8
  Blocks <- MCBlocks
  MaxBusy = 6
INVARIANTS InStep
CHECK_DEADLOCK FALSE
