CONSTANTS
    Alice = Alice
    Bob = Bob
    None = None
    MaxSkip = 1
    MaxSends = 4
    MaxDups = 2
SPECIFICATION Spec
INVARIANTS TypeOK EveryMessageOpens OpenedIsForgotten KeysUsedOnce KeptIsOwed
CHECK_DEADLOCK FALSE
