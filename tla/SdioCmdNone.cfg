SPECIFICATION Spec
CONSTANTS
  MSG_BITS = 48
  RSP_WAIT = 20
  Latencies <- MCLatencies
  MaxBytes = 3
INVARIANT ZeroIfNone
