SPECIFICATION LinkSpec
CONSTANTS
  lo = lo
  hi = hi
  None = None
  Servers <- BothServers
  Lower = lo
  DialConfigs <- BothOrOne
  RejectConfigs <- AllowedOrNot
  Slots <- TwoSlots
  FaultKinds = {"crash", "loss", "revoke"}
  MaxFaults = 2
INVARIANTS LinkTypeOK EntryIsServed
PROPERTIES LinkSettles AgreedLinkKept
CHECK_DEADLOCK FALSE
