------------------------------ MODULE MCTaskAsks ------------------------------
(* A handoff to the room: a home, one other server, a worker who claims on    *)
(* the other server and completes on the home, and one on the home who        *)
(* claims at once.                                                            *)
EXTENDS TaskNet, TLC

CONSTANTS h, f, alice, bob, carol, offer, claimB, doneB, claimC

MCServers == {h, f}
MCMoves == {offer, claimB, doneB, claimC}
MCVerb == (offer :> "offer") @@ (claimB :> "claim") @@ (doneB :> "complete")
          @@ (claimC :> "claim")
MCActor == (offer :> alice) @@ (claimB :> bob) @@ (doneB :> bob) @@ (claimC :> carol)
MCAt == [m \in MCMoves |-> IF m = claimB THEN f ELSE h]
MCLate == [m \in MCMoves |-> FALSE]
MCAccepts == [m \in MCMoves |-> NoOne]
MCKnown == [s \in MCServers |-> {h, alice, bob, carol}]
===============================================================================
