---------------------------- MODULE MCHeldRelays ----------------------------
(***************************************************************************)
(* HeldRelays on three edits of one message, all signed with one key.      *)
(* Edits 1 and 3 come over one link, so they share a row of the retry      *)
(* table, and edit 2, which is forged, over another.  Three edits exceed   *)
(* the total of two.  One unit of time is thirty seconds, and the clock    *)
(* runs on until an edit can join a key already asked for twice.           *)
(***************************************************************************)
EXTENDS HeldRelays

CONSTANTS o1, o2, k1

MCEditOrigin == <<o1, o2, o1>>
MCEditKey == <<k1, k1, k1>>
=============================================================================
