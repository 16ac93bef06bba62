----------------------------- MODULE UsbGadget -----------------------------
(***************************************************************************)
(* The USB network of the phone: usb-gadget-rndis.sh over the configfs tree  *)
(* of the gadget, run by systemd (usb-gadget-rndis.service) or by hand, and  *)
(* the two other programs that touch the tree: ginkgo-usb-host.sh and the    *)
(* HUD before a reboot (usb_gadget_disconnect in ginkgo-status.c).           *)
(*                                                                         *)
(* A script is the sequence of the steps it has still to do.  It may be      *)
(* killed before any of them (a stop while it starts, the start's timeout,   *)
(* the end of the SSH session it was called from, which runs over the very   *)
(* link it takes down), and under set -e any step without a "|| true" may    *)
(* fail and end it; either way it leaves what it had built.  Attributes that *)
(* are only written (ids, names, MAC addresses) are left out, but for the    *)
(* write that fails; configfs is mounted, and two instances of the script do *)
(* not run at the same time.                                                 *)
(***************************************************************************)
EXTENDS Sequences, FiniteSets

Node == {"gadget", "strings", "config", "config strings", "function", "link"}
Job == {"start", "stop", "restart"}

VARIABLES
  tree,   \* what exists below /sys/kernel/config/usb_gadget
  kern,   \* the kernel: a UDC is there, the gadget is bound to it, usb0, its address
  script, \* the script that runs or ran last
  svc,    \* the state of the service
  pulled  \* since the script began, somebody else has unbound the gadget

vars == <<tree, kern, script, svc, pulled>>

SetupGadget == <<"make strings", "make config", "make function", "make link", "find_udc">>
MakeSteps == {"make strings", "make config", "make function", "make link"}
SetupNetwork == <<"wait_iface", "up", "flush", "addr">>
TeardownNetwork == <<"flush", "down">>

\* A node's name among the steps is the one that removes it.

\* Mutant: the function goes before the link to it.
TeardownGadget_FunctionFirst ==
  <<"unbind", "function", "link", "config strings", "config", "strings", "gadget">>

\* Mutant: the strings of the configuration are forgotten.
TeardownGadget_NoStrings ==
  <<"unbind", "link", "function", "config", "strings", "gadget">>

TeardownGadget ==
  <<"unbind", "link", "function", "config strings", "config", "strings", "gadget">>

Steps(job) ==
  CASE job = "start" -> <<"setup_gadget">> \o SetupNetwork
    [] job = "stop" -> TeardownNetwork \o <<"teardown_gadget">>
    [] job = "restart" -> TeardownNetwork \o <<"teardown_gadget", "setup_gadget">> \o SetupNetwork

TypeOK ==
  /\ tree \subseteq Node
  /\ kern \in [udc : BOOLEAN, bound : BOOLEAN, net : {"none", "down", "up"}, addr : BOOLEAN]
  /\ script.job \in Job /\ script.end \in {"running", "ok", "failed", "killed"}
  /\ svc \in {"inactive", "activating", "active", "deactivating", "failed"} /\ pulled \in BOOLEAN

-----------------------------------------------------------------------------
(* The kernel: configfs refuses to remove what is in use or not empty, the   *)
(* first bind registers usb0, which stays until the function is removed      *)

Below == [n \in Node |->
  CASE n = "gadget" -> Node \ {"gadget"}
    [] n = "config" -> {"config strings", "link"}
    [] n = "function" -> {"link"}
    [] OTHER -> {}]

Removed(n) == IF Below[n] \cap tree = {} THEN tree \ {n} ELSE tree

Without(n) ==
  IF n \notin tree \/ n \in Removed(n) THEN kern
  ELSE CASE n = "link" -> [kern EXCEPT !.bound = FALSE]
         [] n = "function" -> [kern EXCEPT !.net = "none", !.addr = FALSE]
         [] OTHER -> kern

-----------------------------------------------------------------------------
(* The script *)

Running == script.end = "running"
At(step) == Running /\ script.todo # <<>> /\ Head(script.todo) = step

\* set -e: a step that fails is the last, unless the script says otherwise.
Go(steps) == script' = [script EXCEPT !.todo = steps \o Tail(@)] /\ UNCHANGED svc
Done == script' = [script EXCEPT !.todo = Tail(@)] /\ UNCHANGED svc
Exit(end) ==
  /\ script' = [script EXCEPT !.end = end]
  /\ svc' = CASE svc = "activating" -> "failed" [] svc = "deactivating" -> "failed" [] OTHER -> svc

\* A directory that is there is taken for a gadget that is set up.  The mkdir or the writes
\* of the ids may fail.
setup_gadget ==
  /\ At("setup_gadget") /\ UNCHANGED <<kern, pulled>>
  /\ \/ "gadget" \in tree /\ Done /\ UNCHANGED tree
     \/ "gadget" \notin tree /\ Go(SetupGadget) /\ tree' = tree \cup {"gadget"}
     \/ "gadget" \notin tree /\ Exit("failed") /\ tree' \in {tree, tree \cup {"gadget"}}

Creates(step) ==
  CASE step = "make strings" -> {"strings"}
    [] step = "make config" -> {"config", "config strings"}
    [] step = "make function" -> {"function"}
    [] step = "make link" -> {"link"}

\* The attributes are written after the mkdir: what fails or is killed may leave all of it,
\* and mkdir -p the configuration without its strings.
Mkdir ==
  /\ UNCHANGED <<kern, pulled>>
  /\ \E step \in MakeSteps :
       /\ At(step)
       /\ \/ tree' = tree \cup Creates(step) /\ Done
          \/ \E some \in SUBSET Creates(step), end \in {"failed", "killed"} :
               /\ "config strings" \in some => "config" \in some
               /\ tree' = tree \cup some /\ Exit(end)

\* find_udc waits for 30 s; the UDC it has seen may be gone, or taken, when the script binds.
find_udc ==
  /\ At("find_udc") /\ UNCHANGED <<tree, pulled>>
  /\ \/ /\ kern.udc /\ Done
        /\ kern' = [kern EXCEPT !.bound = TRUE, !.net = IF @ = "none" THEN "down" ELSE @]
     \/ Exit("failed") /\ UNCHANGED kern

\* wait_iface gives up after 10 s without the interface; the ip calls may fail.
setup_network ==
  /\ UNCHANGED <<tree, pulled>>
  /\ \/ At("wait_iface") /\ kern.net # "none" /\ Done /\ UNCHANGED kern
     \/ At("wait_iface") /\ kern.net = "none" /\ Exit("failed") /\ UNCHANGED kern
     \/ At("up") /\ kern' = [kern EXCEPT !.net = "up"] /\ Done
     \/ At("addr") /\ kern' = [kern EXCEPT !.addr = TRUE] /\ Done
     \/ (At("up") \/ At("addr")) /\ Exit("failed") /\ UNCHANGED kern

\* Here every step ends in "|| true".
teardown_network ==
  /\ UNCHANGED <<tree, pulled>>
  /\ \/ At("flush") /\ kern' = [kern EXCEPT !.addr = FALSE] /\ Done
     \/ At("down") /\ kern' = [kern EXCEPT !.net = IF @ = "up" THEN "down" ELSE @] /\ Done

teardown_gadget ==
  \/ /\ At("teardown_gadget") /\ IF "gadget" \in tree THEN Go(TeardownGadget) ELSE Done
     /\ UNCHANGED <<tree, kern, pulled>>
  \/ /\ At("unbind") /\ kern' = [kern EXCEPT !.bound = FALSE] /\ Done /\ UNCHANGED <<tree, pulled>>
  \/ \E n \in Node :
       At(n) /\ tree' = Removed(n) /\ kern' = Without(n) /\ Done /\ UNCHANGED pulled

Ends ==
  /\ Running /\ script.todo = <<>> /\ script' = [script EXCEPT !.end = "ok"]
  /\ svc' = CASE svc = "activating" -> "active" [] svc = "deactivating" -> "inactive" [] OTHER -> svc
  /\ UNCHANGED <<tree, kern, pulled>>

Killed == Running /\ script.todo # <<>> /\ Exit("killed") /\ UNCHANGED <<tree, kern, pulled>>

-----------------------------------------------------------------------------
(* Who calls it *)

Call(job) ==
  /\ ~Running /\ script' = [job |-> job, todo |-> Steps(job), end |-> "running"]
  /\ pulled' = FALSE /\ UNCHANGED <<tree, kern>>

\* ExecStart, ExecStop of a unit that stays active after its start.
SystemdStart == svc \in {"inactive", "failed"} /\ Call("start") /\ svc' = "activating"
SystemdStop == svc = "active" /\ Call("stop") /\ svc' = "deactivating"
ByHand == \E job \in Job : Call(job) /\ UNCHANGED svc

Unbound == kern.bound /\ pulled' = TRUE /\ UNCHANGED <<tree, script, svc>>

\* Whatever a script is doing, before a reboot that may fail.
usb_gadget_disconnect == Unbound /\ kern' = [kern EXCEPT !.bound = FALSE]

\* The service has been stopped (SystemdStop) or was not active.
usb_host ==
  /\ ~Running /\ svc # "active" /\ kern.udc
  /\ kern' = [kern EXCEPT !.udc = FALSE, !.bound = FALSE]
  /\ pulled' = (pulled \/ kern.bound) /\ UNCHANGED <<tree, script, svc>>

\* A UDC appears: its driver is loaded, or the role is a device's again.
UdcAppears == ~kern.udc /\ kern' = [kern EXCEPT !.udc = TRUE] /\ UNCHANGED <<tree, script, svc, pulled>>

Init ==
  /\ tree = {} /\ svc = "inactive" /\ pulled = FALSE
  /\ script = [job |-> "stop", todo |-> <<>>, end |-> "ok"]
  /\ \E u \in BOOLEAN : kern = [udc |-> u, bound |-> FALSE, net |-> "none", addr |-> FALSE]

Next ==
  \/ setup_gadget \/ Mkdir \/ find_udc \/ setup_network \/ teardown_network \/ teardown_gadget
  \/ Ends \/ Killed
  \/ SystemdStart \/ SystemdStop \/ ByHand \/ usb_gadget_disconnect \/ usb_host \/ UdcAppears

Spec == Init /\ [][Next]_vars

-----------------------------------------------------------------------------
(* Properties *)

Up == kern.bound /\ kern.net = "up" /\ kern.addr

\* A stop that ran to its end leaves no half of a tree, whatever earlier starts and stops
\* that failed or were killed had left: the next start builds the gadget anew.
StopLeavesNothing ==
  script.job = "stop" /\ script.end = "ok" => tree = {} /\ ~kern.bound /\ kern.net = "none"

\* A restart repairs any half of a tree: if it runs to its end, the network is up, unless
\* somebody took the gadget away meanwhile.
RestartRepairs ==
  script.job = "restart" /\ script.end = "ok" => Up \/ pulled
=============================================================================
