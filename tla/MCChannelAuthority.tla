-------------------------- MODULE MCChannelAuthority --------------------------
(* Two accounts, one on each server, either of which may create the channel.  *)
EXTENDS ChannelAuthority, TLC

CONSTANTS a, b, alice, bob

MCServers == {a, b}
MCRank == (a :> 1) @@ (b :> 2)
MCDids == {alice, bob}
MCHome == (alice :> a) @@ (bob :> b)
MCAlice == {alice}
MCOrders == <<<<alice, bob, TRUE>>, <<alice, bob, FALSE>>>>
MCGuests == {a}
MCRoled == {alice}
MCStrict == {b}
MCRestarting == {a}
MCCompacting == {a}
===============================================================================
