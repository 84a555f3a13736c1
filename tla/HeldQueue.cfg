SPECIFICATION Spec
CONSTANTS
  Origins = {o1, o2}
  Keys = {k1, k2}
  UnnamedKeys = {k2}
  Relays = {r}
  ActDeferMaxPerOrigin = 2
  ActDeferMaxTotal = 3
  HoldLimit = 2
  FirstRetry = 1
  MaxRetry = 20
  MaxSeq = 4
  MaxNow = 4
INVARIANTS TypeOK Accounting WithinCeilings
PROPERTIES ExpiryLeavesNoneOverdue EvictsOnlyTheOldest EveryItemLeaves
CHECK_DEADLOCK FALSE
