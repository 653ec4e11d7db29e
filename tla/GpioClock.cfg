SPECIFICATION GpioSpec
CONSTANTS
  Pins <- MCPins
  PowerOn <- MCPowerOn
  Written = {0, 6, 9, 15, 255}
INVARIANT AllPullsAsAsked
