---------------------------- MODULE MCHudDisplay ----------------------------
(* Instances of HudDisplay for TLC. *)
EXTENDS HudDisplay

CONSTANTS b1, b2, b3, b4
=============================================================================
