SPECIFICATION Spec
CONSTANTS
  Peers = {p1, p2}
  None = None
  EventCap = 1
  WriteCap = 1
  StreamCap = 1
  MaxMessages = 2
  MaxLinks = 2
INVARIANTS TypeOK StuckForTwoReasons
PROPERTIES DeadLinkLeavesUnlessStuck LockIsHandedOn
CHECK_DEADLOCK FALSE
