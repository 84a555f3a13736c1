SPECIFICATION ReadingSpec
CONSTANTS
  Peers = {p1, p2}
  None = None
  EventCap = 1
  WriteCap = 1
  StreamCap = 1
  MaxMessages = 3
  MaxLinks = 2
PROPERTY DeadLinkLeaves
CHECK_DEADLOCK FALSE
