----------------------------- MODULE PanelDriver -----------------------------
(***************************************************************************)
(* The panel driver panel-huaxing-ft8719.c: one operator per callback, from *)
(* the driver's record to the driver's record.  The DRM core calls the four *)
(* panel callbacks, and whoever writes the panel_sleep attribute the fifth. *)
(*                                                                         *)
(* A callback's ok says whether its transfers to the panel (or its supplies *)
(* in prepare) succeed.  A command sequence is whether its display-on (0x29) *)
(* or display-off (0x28) reached the panel.                                 *)
(***************************************************************************)
EXTENDS Integers

\* Enabling the supplies again is counted, up to this bound.
MaxSupplies == 2

\* inited and asleep are the driver's fields; on is what the glass does, the last
\* of 0x29 and 0x28 it was sent since its reset; supplies counts the enables of the
\* regulators that were not undone.
Panel == [inited : BOOLEAN, asleep : BOOLEAN, on : BOOLEAN, supplies : 0 .. MaxSupplies]

\* devm_drm_panel_alloc zeroes the driver's data.
Fresh == [inited |-> FALSE, asleep |-> FALSE, on |-> FALSE, supplies |-> 0]

Powered(p) == p.supplies > 0

\* Mutant: the panel is powered and reset again at every unblank.
prepare_Always(p, ok) ==
  IF ~ok THEN p
  ELSE [p EXCEPT !.supplies = IF @ < MaxSupplies THEN @ + 1 ELSE @, !.on = FALSE]

\* The reset pulse makes the glass forget that it was on.
prepare(p, ok) ==
  IF p.inited \/ ~ok THEN p
  ELSE [p EXCEPT !.supplies = IF @ < MaxSupplies THEN @ + 1 ELSE @, !.on = FALSE]

\* After the first time only 0x29 is sent, and asleep is cleared even if that
\* fails.  The first time the whole sequence is sent; when it fails, lit says
\* whether it got past its 0x29.
enable(p, ok, lit) ==
  IF p.inited THEN [p EXCEPT !.on = @ \/ ok, !.asleep = FALSE]
  ELSE IF ok THEN [p EXCEPT !.on = TRUE, !.inited = TRUE, !.asleep = FALSE]
  ELSE [p EXCEPT !.on = @ \/ lit]

disable(p, ok) == IF ok THEN [p EXCEPT !.on = FALSE, !.asleep = TRUE] ELSE p

\* Both branches of the code keep the panel powered.
unprepare(p) == p

panel_sleep_store(p, sleep, ok) ==
  IF sleep = p.asleep \/ ~ok THEN p ELSE [p EXCEPT !.on = ~sleep, !.asleep = sleep]
=============================================================================
