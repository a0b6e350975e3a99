------------------------------- MODULE MCRooms -------------------------------
(* Instances of Rooms for TLC.                                              *)
EXTENDS Rooms, TLC

CONSTANTS c1, c2, c3, una, ulf, live, mute

\* Una connects twice, Ulf once.
MCUserOf == (c1 :> una) @@ (c2 :> una) @@ (c3 :> ulf)
PairUserOf == (c1 :> una) @@ (c2 :> ulf)
=============================================================================
