----------------------------- MODULE MCS2sPresence -----------------------------
EXTENDS S2sPresence
CONSTANTS lo, hi
BothServers == {lo, hi}
OnlyLower == {{lo}}
\* Both allow each other, or the lower one leaves the other out.
AllowedOrNot == {{}, {lo}}
TwoSlots == 1 .. 2
=============================================================================
