SPECIFICATION Spec
CONSTANTS
  Clients = {c1, c2}
  Senders = {s1}
  BroadcastCap = 1
  LinkCap = 1
  EventCap = 1
  DedupCapacity = 1
  Slots <- TwoSlots
  None = None
  MaxEvents = 2
  MaxLinks = 2
  MaxRestarts = 2
INVARIANT TypeOK
PROPERTY RefusedForCause
CHECK_DEADLOCK FALSE
SYMMETRY Alike
