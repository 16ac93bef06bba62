------------------------------ MODULE WifiJoin ------------------------------
(***************************************************************************)
(* What the Wi-Fi manager promises its user, one request at a time: a join *)
(* is about one network from the tap to its end, is confirmed only after   *)
(* the connect script answered, and gives way only to a forget; a forget   *)
(* gives way to nothing.  There is one exception: a password submitted     *)
(* while its join is being confirmed is queued, and while it is, one join  *)
(* may take another's place.  A forget ends that.  WifiHud implements it   *)
(* (HudJoins there).                                                       *)
(***************************************************************************)
CONSTANTS SSID, NoSsid

VARIABLES phase,       \* what is under way
          network,     \* the network it is about
          resubmitted  \* a password was submitted during a confirmation

vars == <<phase, network, resubmitted>>

Init == phase = "idle" /\ network = NoSsid /\ resubmitted = FALSE

Move(from, to, s) ==
  /\ phase \in from /\ phase' = to /\ network' = s
  /\ resubmitted' \in {resubmitted, FALSE}

Join == \E s \in SSID : Move({"idle"}, "joining", s)
Answered == Move({"joining"}, "confirming", network)
Ended == Move({"joining", "confirming", "forgetting"}, "idle", NoSsid)
Forget == \E s \in SSID : Move({"idle", "joining", "confirming"}, "forgetting", s) /\ ~resubmitted'

Resubmit == phase = "confirming" /\ resubmitted' = TRUE /\ UNCHANGED <<phase, network>>
Overtaken == resubmitted /\ \E s \in SSID : Move({"joining", "confirming"}, "joining", s)
Emptied == resubmitted' = FALSE /\ UNCHANGED <<phase, network>>

Next == Join \/ Answered \/ Ended \/ Forget \/ Resubmit \/ Overtaken \/ Emptied

Spec == Init /\ [][Next]_vars
=============================================================================
