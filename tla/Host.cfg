SPECIFICATION HostSpec
CONSTANTS
  Pins <- MCPins
  PowerOn <- MCPowerOn
  Written = {0, 6, 9, 15, 255}
  LogSize = 3
  Msgs <- MCMsgs
  DataLens <- MCDataLens
  MaxSince = 4
  MSG_BITS = 48
  RSP_WAIT = 20
  Latencies <- MCLatencies
  MaxBytes = 3
  Calls <- MCCalls
  SD_DATA_PINS = 4
  Nibbles <- MCNibbles
  Errors <- MCErrors
  MaxLen = 3
  MaxBurst = 2
  Wrap = 16
  Delays <- MCDelays
  MaxIdle = 3
INVARIANTS
  GpioTypeOK ReadPullsAsAsked
  ShowsLatest
  OwnAnswers CountsAnswers AllBitsClocked
  Accepted ChipUnderstands LogAgrees LinesRight ZeroIffIntact
  TimerTypeOK
PROPERTIES
  StaysOn OnTime
