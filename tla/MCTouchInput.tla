---------------------------- MODULE MCTouchInput ----------------------------
(* Two slots, two touches and two queued frames: one finger and a second one, and a
   queue that overflows. *)
EXTENDS TouchInput
=============================================================================
