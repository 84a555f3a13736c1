----------------------------- MODULE MCEventRelay -----------------------------
EXTENDS EventRelay, TLC
TwoSlots == 1 .. 2
Alike == Permutations(Clients)
=============================================================================
