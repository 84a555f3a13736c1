SPECIFICATION Spec
CONSTANTS
  lo = lo
  hi = hi
  None = None
  Servers <- BothServers
  Lower = lo
  DialConfigs <- OnlyLower
  RejectConfigs <- AllowedOrNot
  Slots <- TwoSlots
  FaultKinds = {"crash", "loss", "revoke", "limit"}
  MaxFaults = 1
  WriteCap = 1
  EventCap = 2
INVARIANTS PresenceTypeOK WipesOnlyTheOld
CHECK_DEADLOCK FALSE
