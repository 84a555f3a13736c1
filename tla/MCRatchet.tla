------------------------------- MODULE MCRatchet -------------------------------
(* Each end sends four messages, gaps of one are skipped, two come twice.     *)
EXTENDS Ratchet
===============================================================================
