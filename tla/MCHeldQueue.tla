---------------------------- MODULE MCHeldQueue ----------------------------
(***************************************************************************)
(* HeldQueue on two origins and two keys.  One unit of time is thirty      *)
(* seconds: FIRST_RETRY is one unit, HOLD_LIMIT two, MAX_RETRY twenty.     *)
(* A share of two and a total of three are both reached, separately and    *)
(* together, within the four holds of a run.                               *)
(***************************************************************************)
EXTENDS HeldQueue
=============================================================================
