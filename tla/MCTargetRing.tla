---------------------------- MODULE MCTargetRing ----------------------------
(* Five foreign objects around a bot whose list holds three. *)
EXTENDS TargetRing

CONSTANTS n1, n2, n3, n4, n5, bot, none

MCObjectIds == {n1, n2, n3, n4, n5, bot, none}
=============================================================================
