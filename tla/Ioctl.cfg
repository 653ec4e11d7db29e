SPECIFICATION FairEvents
CONSTANTS
  IdMod = 4
  Calls = 3
  Waits <- MCWaits
  PollMsec = 2
  Lens <- MCLens
  FifoMax = 3
  Lookalikes = {2}
  Lists <- MCLists
INVARIANTS
  OwnReplyOnly
  NoReplyBehindSuccess
  IInv
  SendsWhatIsNamed
PROPERTIES
  ImplementsService
  CallReturns
