----------------------------- MODULE MCGameRelay -----------------------------
(* Instances of GameRelay for TLC.                                          *)
EXTENDS GameRelay, TLC

CONSTANTS alice, bob, hacker, infiltrator

MCMaxRefs == alice :> 3 @@ bob :> 1
Symmetry == Permutations(Roles)
=============================================================================
