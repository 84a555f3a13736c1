------------------------------ MODULE MCTaskBounty ------------------------------
(* A bounty: posted, bid for and awarded on the home; its poster takes it back *)
(* from the other server, which starts without the bidder's key and without    *)
(* the home's.  The home expires it when nothing happens.                      *)
EXTENDS TaskNet, TLC

CONSTANTS h, f, alice, carol, offer, bid, award, cancel, expire

MCServers == {h, f}
MCMoves == {offer, bid, award, cancel, expire}
MCVerb == (offer :> "offer") @@ (bid :> "bid") @@ (award :> "award")
          @@ (cancel :> "cancel") @@ (expire :> "expire")
MCActor == [m \in MCMoves |-> CASE m = bid -> carol [] m = expire -> h [] OTHER -> alice]
MCAt == [m \in MCMoves |-> IF m = cancel THEN f ELSE h]
MCLate == [m \in MCMoves |-> FALSE]
MCAccepts == [m \in MCMoves |-> IF m = award THEN bid ELSE NoOne]
MCKnown == (h :> {h, alice, carol}) @@ (f :> {alice})
================================================================================
