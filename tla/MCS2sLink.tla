----------------------------- MODULE MCS2sLink -----------------------------
EXTENDS S2sLink
CONSTANTS lo, hi
BothServers == {lo, hi}
\* Both servers list each other, or only one of them does.
BothOrOne == {{lo, hi}, {lo}, {hi}}
\* Both allow each other, or the lower one leaves the other out.
AllowedOrNot == {{}, {lo}}
TwoSlots == 1 .. 2
=============================================================================
