SPECIFICATION RSpec
CONSTANTS
  o1 = o1  o2 = o2  k1 = k1
  Origins = {o1, o2}
  Keys = {k1}
  UnnamedKeys = {}
  Relays = {1, 2, 3}
  EditKey <- MCEditKey
  EditOrigin <- MCEditOrigin
  Forged = {2}
  ActDeferMaxPerOrigin = 2
  ActDeferMaxTotal = 2
  HoldLimit = 2
  FirstRetry = 1
  MaxRetry = 20
  MaxSeq = 3
  MaxNow = 5
INVARIANTS RTypeOK NoLostWakeup NeverTwice OnlyCheckedEditsFiled
PROPERTIES AskedBeforeGivenUp EveryEditSettles OvertakenStaysBehind
CHECK_DEADLOCK FALSE
