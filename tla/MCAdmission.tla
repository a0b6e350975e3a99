---------------------------- MODULE MCAdmission ----------------------------
(* Instances of Admission for TLC.                                          *)
EXTENDS Admission, TLC

CONSTANTS s1, s2, chess, dean, clare, una, ulf, p1, p2

\* A full roster, and one that seats a subject twice and is refused.
TwoRosters == {(dean :> una) @@ (clare :> ulf), (dean :> una) @@ (clare :> una)}
=============================================================================
