---------------------------- MODULE MCKeyExchange ----------------------------
(* Instances of KeyExchange for TLC.  Peers are numbers, ordered as their    *)
(* ids are; the configurations give them literally.                          *)
EXTENDS KeyExchange
=============================================================================
