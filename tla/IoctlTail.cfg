SPECIFICATION EventsSpec
CONSTANTS
  IdMod = 4
  Calls = 3
  Waits <- MCWaits
  PollMsec = 2
  Lens <- MCLens
  FifoMax = 3
  Lookalikes = {1, 2, 3}
  Lists <- MCLists
INVARIANT SuccessIsExecution
