--------------------------- MODULE UsbGadgetProofs ---------------------------
(***************************************************************************)
(* Proofs about UsbGadget: whatever half of a tree earlier scripts have      *)
(* left, a stop that ends leaves nothing and a restart brings the network    *)
(* up.  The invariant says, for each place in each script, what of the tree  *)
(* is there by now or gone, and what the kernel has made of it.              *)
(***************************************************************************)
EXTENDS UsbGadget, Integers, SequenceTheorems, TLAPS

Step == Node \cup
  {"setup_gadget", "make strings", "make config", "make function", "make link", "find_udc",
   "wait_iface", "up", "flush", "addr", "down", "teardown_gadget", "unbind"}

\* The scripts, before and after the gadget is taken down or set up in the middle of them.
Start == <<"setup_gadget", "wait_iface", "up", "flush", "addr">>
Build ==
  <<"make strings", "make config", "make function", "make link", "find_udc",
    "wait_iface", "up", "flush", "addr">>
Stop == <<"flush", "down", "teardown_gadget">>
Restart ==
  <<"flush", "down", "teardown_gadget", "setup_gadget", "wait_iface", "up", "flush", "addr">>
Rebuild ==
  <<"unbind", "link", "function", "config strings", "config", "strings", "gadget",
    "setup_gadget", "wait_iface", "up", "flush", "addr">>

\* The script is before the k-th step of P, or at its end.
Where(P, k) == k \in 1..(Len(P) + 1) /\ script.todo = SubSeq(P, k, Len(P))

\* What the first steps of TeardownGadget have removed stays away.
Gone(k) == \A j \in 1..7 : j < k => TeardownGadget[j] \notin tree

\* What the first steps of Build have made is there until the gadget is bound.
Made(k) ==
  k <= 5 =>
    /\ "gadget" \in tree
    /\ k >= 4 => "function" \in tree
    /\ k >= 5 => "link" \in tree

\* A start that finds the gadget there waits for its usb0.
Waited(k) == k >= 3 => kern.net # "none"

\* Then the gadget is bound, unless somebody unbinds it, and usb0 comes up.
Linked(k) ==
  k >= 6 =>
    /\ kern.bound \/ pulled
    /\ kern.net # "none"
    /\ k >= 8 => kern.net = "up"
    /\ k >= 10 => kern.addr

Phase ==
  \/ script.job = "start" /\ \E k \in 1..6 : Where(Start, k) /\ Waited(k)
  \/ script.job \in {"start", "restart"} /\ \E k \in 1..10 : Where(Build, k) /\ Made(k) /\ Linked(k)
  \/ script.job = "stop" /\ \E k \in 1..4 : Where(Stop, k) /\ (k = 4 => tree = {})
  \/ script.job = "stop" /\ \E k \in 1..8 : Where(TeardownGadget, k) /\ Gone(k)
  \/ script.job = "restart" /\ \E k \in 1..4 : Where(Restart, k) /\ (k = 4 => tree = {})
  \/ script.job = "restart" /\ \E k \in 1..8 : Where(Rebuild, k) /\ Gone(k)

\* Nothing is there without the gadget; a gadget is bound by its link, and usb0 is its function's.
Sound ==
  /\ tree # {} => "gadget" \in tree
  /\ kern.bound => "link" \in tree /\ kern.net # "none"
  /\ kern.net # "none" => "function" \in tree

Script == [job : Job, todo : Seq(Step), end : {"running", "ok", "failed", "killed"}]

Kernel == [udc : BOOLEAN, bound : BOOLEAN, net : {"none", "down", "up"}, addr : BOOLEAN]

Types ==
  /\ tree \subseteq Node
  /\ kern \in Kernel
  /\ script \in Script
  /\ svc \in {"inactive", "activating", "active", "deactivating", "failed"}
  /\ pulled \in BOOLEAN

\* What a script that has ended has left.
Ended ==
  /\ script.job = "stop" /\ script.end = "ok" => tree = {}
  /\ RestartRepairs

Inv == Types /\ Sound /\ (Running => Phase) /\ Ended

-----------------------------------------------------------------------------
(* The scripts as sequences *)

LEMMA ProgramTypes ==
  /\ Start \in Seq(Step) /\ Len(Start) = 5
  /\ Build \in Seq(Step) /\ Len(Build) = 9
  /\ Stop \in Seq(Step) /\ Len(Stop) = 3
  /\ TeardownGadget \in Seq(Step) /\ Len(TeardownGadget) = 7
  /\ Restart \in Seq(Step) /\ Len(Restart) = 8
  /\ Rebuild \in Seq(Step) /\ Len(Rebuild) = 12
<1>1. Start \in Seq(Step) /\ Len(Start) = 5  BY SMT DEF Start, Step, Node
<1>2. Build \in Seq(Step) /\ Len(Build) = 9  BY SMT DEF Build, Step, Node
<1>3. Stop \in Seq(Step) /\ Len(Stop) = 3  BY SMT DEF Stop, Step, Node
<1>4. TeardownGadget \in Seq(Step) /\ Len(TeardownGadget) = 7  BY SMT DEF TeardownGadget, Step, Node
<1>5. Restart \in Seq(Step) /\ Len(Restart) = 8  BY SMT DEF Restart, Step, Node
<1>6. Rebuild \in Seq(Step) /\ Len(Rebuild) = 12  BY SMT DEF Rebuild, Step, Node
<1> QED  BY <1>1, <1>2, <1>3, <1>4, <1>5, <1>6

\* What is left of a script is empty at its end, or begins with the step it is before.
LEMMA Rest ==
  ASSUME NEW P \in Seq(Step), NEW k \in 1..(Len(P) + 1)
  PROVE  /\ SubSeq(P, k, Len(P)) \in Seq(Step)
         /\ k = Len(P) + 1 => SubSeq(P, k, Len(P)) = <<>>
         /\ k # Len(P) + 1 =>
              /\ k \in 1..Len(P)
              /\ SubSeq(P, k, Len(P)) # <<>>
              /\ Head(SubSeq(P, k, Len(P))) = P[k]
              /\ Tail(SubSeq(P, k, Len(P))) = SubSeq(P, k + 1, Len(P))
<1>1. Len(P) \in Nat  BY LenProperties
<1>2. \A i \in k..Len(P) : P[i] \in Step
  <2>1. \A i \in k..Len(P) : i \in 1..Len(P)  BY <1>1, SMT
  <2> QED  BY <2>1, ElementOfSeq
<1>3. k \in Int /\ Len(P) \in Int  BY <1>1, SMT
<1>4. /\ SubSeq(P, k, Len(P)) \in Seq(Step)
      /\ Len(SubSeq(P, k, Len(P))) = IF k <= Len(P) THEN Len(P) - k + 1 ELSE 0
  BY <1>2, <1>3, SubSeqProperties
<1>5. CASE k = Len(P) + 1
  <2>1. Len(P) < k  BY <1>1, <1>5, SMT
  <2> QED  BY <1>3, <1>4, <1>5, <2>1, SubSeqEmpty
<1>6. CASE k # Len(P) + 1
  <2>1. k \in 1..Len(P) /\ Len(P) \in k..Len(P) /\ k <= Len(P)  BY <1>1, <1>6, SMT
  <2>2. /\ Head(SubSeq(P, k, Len(P))) = P[k]
        /\ Tail(SubSeq(P, k, Len(P))) = SubSeq(P, k + 1, Len(P))
    BY <2>1, HeadTailOfSubSeq
  <2>3. Len(SubSeq(P, k, Len(P))) # 0  BY <1>1, <1>4, <2>1, SMT
  <2>4. SubSeq(P, k, Len(P)) # <<>>  BY <2>3, EmptySeq
  <2> QED  BY <1>4, <1>6, <2>1, <2>2, <2>4
<1> QED  BY <1>5, <1>6

\* Two scripts in a row are the script that has their steps.
LEMMA Joined ==
  ASSUME NEW P \in Seq(Step), NEW Q \in Seq(Step), NEW R \in Seq(Step),
         Len(R) = Len(P) + Len(Q),
         \A i \in 1..Len(R) : R[i] = IF i <= Len(P) THEN P[i] ELSE Q[i - Len(P)]
  PROVE  P \o Q = R
<1>1. /\ P \o Q \in Seq(Step) /\ Len(P \o Q) = Len(P) + Len(Q)
      /\ \A i \in 1..(Len(P) + Len(Q)) : (P \o Q)[i] = IF i <= Len(P) THEN P[i] ELSE Q[i - Len(P)]
  BY ConcatProperties
<1>2. \A i \in 1..Len(P \o Q) : (P \o Q)[i] = R[i]  BY <1>1, Zenon
<1> QED  BY <1>1, <1>2, SeqEqual

\* What is left of P from the k-th step on is Q.
LEMMA RestIs ==
  ASSUME NEW P \in Seq(Step), NEW Q \in Seq(Step), NEW k \in 1..Len(P),
         NEW n \in Nat, NEW m \in Nat, Len(P) = n, Len(Q) = m, m = n - k + 1,
         \A i \in 1..m : Q[i] = P[k + i - 1]
  PROVE  SubSeq(P, k, Len(P)) = Q
<1>1. Len(P) \in Nat  BY LenProperties
<1>2. k \in Int /\ Len(P) \in Int /\ k <= Len(P) /\ \A i \in k..Len(P) : i \in 1..Len(P)
  BY <1>1, SMT
<1>3. \A i \in k..Len(P) : P[i] \in Step  BY <1>2, ElementOfSeq
<1> DEFINE R == SubSeq(P, k, Len(P))
<1>4. /\ R \in Seq(Step) /\ Len(R) = Len(P) - k + 1
      /\ \A i \in 1..(Len(P) - k + 1) : R[i] = P[k + i - 1]
  BY <1>2, <1>3, SubSeqProperties
<1> HIDE DEF R
<1>5. Len(R) = Len(Q) /\ \A i \in 1..Len(R) : R[i] = Q[i]  BY <1>4
<1>6. R = Q  BY <1>4, <1>5, SeqEqual
<1> QED  BY <1>6 DEF R

\* The scripts begin as they are called.
LEMMA Begins ==
  /\ Steps("start") = Start /\ Steps("stop") = Stop /\ Steps("restart") = Restart
<1> DEFINE G == <<"setup_gadget">>
           D == <<"teardown_gadget">>
           DG == <<"teardown_gadget", "setup_gadget">>
           M == <<"flush", "down", "teardown_gadget", "setup_gadget">>
<1>1. /\ G \in Seq(Step) /\ Len(G) = 1
      /\ SetupNetwork \in Seq(Step) /\ Len(SetupNetwork) = 4
      /\ TeardownNetwork \in Seq(Step) /\ Len(TeardownNetwork) = 2
      /\ D \in Seq(Step) /\ Len(D) = 1
      /\ DG \in Seq(Step) /\ Len(DG) = 2
      /\ M \in Seq(Step) /\ Len(M) = 4
  BY SMT DEF SetupNetwork, TeardownNetwork, Step, Node
<1>2. \A i \in 1..5 : Start[i] = IF i <= 1 THEN G[i] ELSE SetupNetwork[i - 1]
  BY SMT DEF Start, SetupNetwork
<1>3. \A i \in 1..3 : Stop[i] = IF i <= 2 THEN TeardownNetwork[i] ELSE D[i - 2]
  BY SMT DEF Stop, TeardownNetwork
<1>4. \A i \in 1..4 : M[i] = IF i <= 2 THEN TeardownNetwork[i] ELSE DG[i - 2]
  BY SMT DEF TeardownNetwork
<1>5. \A i \in 1..8 : Restart[i] = IF i <= 4 THEN M[i] ELSE SetupNetwork[i - 4]
  BY SMT DEF Restart, SetupNetwork
<1> HIDE DEF G, D, DG, M
<1>6. G \o SetupNetwork = Start
  <2>1. 5 = 1 + 4  BY SMT
  <2>2. /\ G \in Seq(Step) /\ SetupNetwork \in Seq(Step) /\ Start \in Seq(Step)
        /\ Len(G) = 1 /\ Len(SetupNetwork) = 4 /\ Len(Start) = 5
    BY <1>1, ProgramTypes, Zenon
  <2>3. Len(Start) = Len(G) + Len(SetupNetwork)  BY <2>1, <2>2, Zenon
  <2>4. \A i \in 1..Len(Start) : Start[i] = IF i <= Len(G) THEN G[i] ELSE SetupNetwork[i - Len(G)]
    BY <1>2, <2>2, Zenon
  <2> QED  BY <2>2, <2>3, <2>4, Joined, Zenon
<1>7. TeardownNetwork \o D = Stop
  <2>1. 3 = 2 + 1  BY SMT
  <2>2. /\ TeardownNetwork \in Seq(Step) /\ D \in Seq(Step) /\ Stop \in Seq(Step)
        /\ Len(TeardownNetwork) = 2 /\ Len(D) = 1 /\ Len(Stop) = 3
    BY <1>1, ProgramTypes, Zenon
  <2>3. Len(Stop) = Len(TeardownNetwork) + Len(D)  BY <2>1, <2>2, Zenon
  <2>4. \A i \in 1..Len(Stop) : Stop[i] = IF i <= Len(TeardownNetwork) THEN TeardownNetwork[i] ELSE D[i - Len(TeardownNetwork)]
    BY <1>3, <2>2, Zenon
  <2> QED  BY <2>2, <2>3, <2>4, Joined, Zenon
<1>8. TeardownNetwork \o DG = M
  <2>1. 4 = 2 + 2  BY SMT
  <2>2. /\ TeardownNetwork \in Seq(Step) /\ DG \in Seq(Step) /\ M \in Seq(Step)
        /\ Len(TeardownNetwork) = 2 /\ Len(DG) = 2 /\ Len(M) = 4
    BY <1>1, ProgramTypes, Zenon
  <2>3. Len(M) = Len(TeardownNetwork) + Len(DG)  BY <2>1, <2>2, Zenon
  <2>4. \A i \in 1..Len(M) : M[i] = IF i <= Len(TeardownNetwork) THEN TeardownNetwork[i] ELSE DG[i - Len(TeardownNetwork)]
    BY <1>4, <2>2, Zenon
  <2> QED  BY <2>2, <2>3, <2>4, Joined, Zenon
<1>9. M \o SetupNetwork = Restart
  <2>1. 8 = 4 + 4  BY SMT
  <2>2. /\ M \in Seq(Step) /\ SetupNetwork \in Seq(Step) /\ Restart \in Seq(Step)
        /\ Len(M) = 4 /\ Len(SetupNetwork) = 4 /\ Len(Restart) = 8
    BY <1>1, ProgramTypes, Zenon
  <2>3. Len(Restart) = Len(M) + Len(SetupNetwork)  BY <2>1, <2>2, Zenon
  <2>4. \A i \in 1..Len(Restart) : Restart[i] = IF i <= Len(M) THEN M[i] ELSE SetupNetwork[i - Len(M)]
    BY <1>5, <2>2, Zenon
  <2> QED  BY <2>2, <2>3, <2>4, Joined, Zenon
<1>10. (TeardownNetwork \o DG) \o SetupNetwork = Restart  BY <1>8, <1>9, Zenon
<1> QED  BY <1>6, <1>7, <1>10 DEF Steps, G, D, DG

\* setup_gadget and teardown_gadget in the middle of them.
LEMMA Expands ==
  /\ SetupGadget \o SubSeq(Start, 2, Len(Start)) = Build
  /\ SetupGadget \o SubSeq(Restart, 5, Len(Restart)) = Build
  /\ SetupGadget \o SubSeq(Rebuild, 9, Len(Rebuild)) = Build
  /\ TeardownGadget \o SubSeq(Stop, 4, Len(Stop)) = TeardownGadget
  /\ TeardownGadget \o SubSeq(Restart, 4, Len(Restart)) = Rebuild
<1>1. /\ SetupNetwork \in Seq(Step) /\ Len(SetupNetwork) = 4
      /\ SetupGadget \in Seq(Step) /\ Len(SetupGadget) = 5
  BY SMT DEF SetupNetwork, SetupGadget, Step, Node
<1>2. SubSeq(Start, 2, Len(Start)) = SetupNetwork
  <2>1. \A i \in 1..4 : SetupNetwork[i] = Start[2 + i - 1]  BY SMT DEF Start, SetupNetwork
  <2>2. 2 \in 1..5 /\ 4 = 5 - 2 + 1  BY SMT
  <2> QED  BY <1>1, <2>1, <2>2, ProgramTypes, RestIs
<1>3. SubSeq(Restart, 5, Len(Restart)) = SetupNetwork
  <2>1. \A i \in 1..4 : SetupNetwork[i] = Restart[5 + i - 1]  BY SMT DEF Restart, SetupNetwork
  <2>2. 5 \in 1..8 /\ 4 = 8 - 5 + 1  BY SMT
  <2> QED  BY <1>1, <2>1, <2>2, ProgramTypes, RestIs
<1>4. SubSeq(Rebuild, 9, Len(Rebuild)) = SetupNetwork
  <2>1. /\ SetupNetwork[1] = Rebuild[9] /\ SetupNetwork[2] = Rebuild[10]
        /\ SetupNetwork[3] = Rebuild[11] /\ SetupNetwork[4] = Rebuild[12]
    BY SMT DEF Rebuild, SetupNetwork
  <2>2. \A i \in 1..4 : SetupNetwork[i] = Rebuild[9 + i - 1]  BY <2>1, SMT
  <2>3. 9 \in 1..12 /\ 4 = 12 - 9 + 1  BY SMT
  <2> QED  BY <1>1, <2>2, <2>3, ProgramTypes, RestIs
<1>5. SubSeq(Restart, 4, Len(Restart)) = Start
  <2>1. \A i \in 1..5 : Start[i] = Restart[4 + i - 1]  BY SMT DEF Restart, Start
  <2>2. 4 \in 1..8 /\ 5 = 8 - 4 + 1  BY SMT
  <2> QED  BY <2>1, <2>2, ProgramTypes, RestIs
<1>6. SetupGadget \o SetupNetwork = Build
  <2>1. /\ Build[1] = SetupGadget[1] /\ Build[2] = SetupGadget[2]
        /\ Build[3] = SetupGadget[3] /\ Build[4] = SetupGadget[4]
        /\ Build[5] = SetupGadget[5] /\ Build[6] = SetupNetwork[1]
        /\ Build[7] = SetupNetwork[2] /\ Build[8] = SetupNetwork[3]
        /\ Build[9] = SetupNetwork[4]
    BY SMT DEF Build, SetupGadget, SetupNetwork
  <2>2. \A i \in 1..9 : i = 1 \/ i = 2 \/ i = 3 \/ i = 4 \/ i = 5 \/ i = 6 \/ i = 7 \/ i = 8 \/ i = 9
    BY SMT
  <2>3. \A i \in 1..9 : Build[i] = IF i <= 5 THEN SetupGadget[i] ELSE SetupNetwork[i - 5]
    BY <2>1, <2>2, SMT
  <2>4. 9 = 5 + 4  BY SMT
  <2>5. /\ SetupGadget \in Seq(Step) /\ SetupNetwork \in Seq(Step) /\ Build \in Seq(Step)
        /\ Len(SetupGadget) = 5 /\ Len(SetupNetwork) = 4 /\ Len(Build) = 9
    BY <1>1, ProgramTypes, Zenon
  <2>6. Len(Build) = Len(SetupGadget) + Len(SetupNetwork)  BY <2>4, <2>5, Zenon
  <2>7. \A i \in 1..Len(Build) : Build[i] = IF i <= Len(SetupGadget) THEN SetupGadget[i] ELSE SetupNetwork[i - Len(SetupGadget)]
    BY <2>3, <2>5, Zenon
  <2> QED  BY <2>5, <2>6, <2>7, Joined, Zenon
<1>7. TeardownGadget \o Start = Rebuild
  <2>1. /\ Rebuild[1] = TeardownGadget[1] /\ Rebuild[2] = TeardownGadget[2]
        /\ Rebuild[3] = TeardownGadget[3] /\ Rebuild[4] = TeardownGadget[4]
        /\ Rebuild[5] = TeardownGadget[5] /\ Rebuild[6] = TeardownGadget[6]
        /\ Rebuild[7] = TeardownGadget[7] /\ Rebuild[8] = Start[1]
        /\ Rebuild[9] = Start[2] /\ Rebuild[10] = Start[3]
        /\ Rebuild[11] = Start[4] /\ Rebuild[12] = Start[5]
    BY SMT DEF Rebuild, TeardownGadget, Start
  <2>2. \A i \in 1..12 : i = 1 \/ i = 2 \/ i = 3 \/ i = 4 \/ i = 5 \/ i = 6 \/ i = 7 \/ i = 8 \/ i = 9 \/ i = 10 \/ i = 11 \/ i = 12
    BY SMT
  <2>3. \A i \in 1..12 : Rebuild[i] = IF i <= 7 THEN TeardownGadget[i] ELSE Start[i - 7]
    BY <2>1, <2>2, SMT
  <2>4. 12 = 7 + 5  BY SMT
  <2>5. /\ TeardownGadget \in Seq(Step) /\ Start \in Seq(Step) /\ Rebuild \in Seq(Step)
        /\ Len(TeardownGadget) = 7 /\ Len(Start) = 5 /\ Len(Rebuild) = 12
    BY ProgramTypes, Zenon
  <2>6. Len(Rebuild) = Len(TeardownGadget) + Len(Start)  BY <2>4, <2>5, Zenon
  <2>7. \A i \in 1..Len(Rebuild) : Rebuild[i] = IF i <= Len(TeardownGadget) THEN TeardownGadget[i] ELSE Start[i - Len(TeardownGadget)]
    BY <2>3, <2>5, Zenon
  <2> QED  BY <2>5, <2>6, <2>7, Joined, Zenon
<1>8. TeardownGadget \o SubSeq(Stop, 4, Len(Stop)) = TeardownGadget
  <2>1. SubSeq(Stop, 4, Len(Stop)) = <<>>  BY ProgramTypes, SubSeqEmpty
  <2> QED  BY <2>1, ProgramTypes, ConcatEmptySeq
<1> QED  BY <1>2, <1>3, <1>4, <1>5, <1>6, <1>7, <1>8

-----------------------------------------------------------------------------
(* A script before its next step *)

\* The next step is the k-th of P.
Now(P, k) ==
  /\ k \in 1..Len(P) /\ Head(script.todo) = P[k]
  /\ Tail(script.todo) = SubSeq(P, k + 1, Len(P))

Midway ==
  \/ script.job = "start" /\ \E k \in 1..5 : Now(Start, k) /\ Waited(k)
  \/ script.job \in {"start", "restart"} /\ \E k \in 1..9 : Now(Build, k) /\ Made(k) /\ Linked(k)
  \/ script.job = "stop" /\ \E k \in 1..3 : Now(Stop, k)
  \/ script.job = "stop" /\ \E k \in 1..7 : Now(TeardownGadget, k) /\ Gone(k)
  \/ script.job = "restart" /\ \E k \in 1..4 : Now(Restart, k) /\ (k = 4 => tree = {})
  \/ script.job = "restart" /\ \E k \in 1..8 : Now(Rebuild, k) /\ Gone(k)

\* At its end, what the script was for is done.
Finished ==
  /\ script.job = "stop" => tree = {}
  /\ script.job = "restart" =>
       (kern.bound \/ pulled) /\ kern.net = "up" /\ kern.addr

\* All of the tree has been removed.
LEMMA GoneAll == Types /\ Gone(8) => tree = {}
<1> SUFFICES ASSUME Types, Gone(8), NEW n \in tree PROVE FALSE  BY SMT
<1>1. /\ TeardownGadget[2] = "link" /\ TeardownGadget[3] = "function"
      /\ TeardownGadget[4] = "config strings" /\ TeardownGadget[5] = "config"
      /\ TeardownGadget[6] = "strings" /\ TeardownGadget[7] = "gadget"
  BY SMT DEF TeardownGadget
<1>2. n \in Node  BY DEF Types
<1>3. \A j \in 1..7 : TeardownGadget[j] \notin tree  BY SMT DEF Gone
<1>4. 2 \in 1..7 /\ 3 \in 1..7 /\ 4 \in 1..7 /\ 5 \in 1..7 /\ 6 \in 1..7 /\ 7 \in 1..7  BY SMT
<1>5. n \notin {"link", "function", "config strings", "config", "strings", "gadget"}
  BY <1>1, <1>3, <1>4, Zenon
<1> QED  BY <1>2, <1>5 DEF Node

\* A script is before one of its steps, or at its end.
LEMMA WhereNow ==
  ASSUME NEW P \in Seq(Step), NEW k, Where(P, k)
  PROVE  /\ script.todo # <<>> => k # Len(P) + 1 /\ Now(P, k)
         /\ script.todo = <<>> => k = Len(P) + 1
<1>1. k \in 1..(Len(P) + 1) /\ script.todo = SubSeq(P, k, Len(P))  BY DEF Where
<1>2. CASE k = Len(P) + 1  BY <1>1, <1>2, Rest
<1>3. CASE k # Len(P) + 1
  <2>1. /\ k \in 1..Len(P) /\ script.todo # <<>>
        /\ Head(script.todo) = P[k] /\ Tail(script.todo) = SubSeq(P, k + 1, Len(P))
    BY <1>1, <1>3, Rest, Zenon
  <2> QED  BY <1>3, <2>1 DEF Now
<1> QED  BY <1>2, <1>3

LEMMA PhaseMidway ==
  ASSUME Types, Phase
  PROVE  /\ script.todo # <<>> => Midway
         /\ script.todo = <<>> => Finished
<1>1. ASSUME script.job = "start", NEW k \in 1..6, Where(Start, k), Waited(k)
      PROVE  /\ script.todo # <<>> => Midway
             /\ script.todo = <<>> => Finished
  <2>1. CASE script.todo # <<>>
    <3>1. k # 5 + 1 /\ Now(Start, k)  BY <1>1, <2>1, WhereNow, ProgramTypes
    <3>2. k \in 1..5  BY <3>1, SMT
    <3> QED  BY <1>1, <2>1, <3>1, <3>2, Zenon DEF Midway
  <2>2. CASE script.todo = <<>>  BY <1>1, <2>2, Zenon DEF Finished
  <2> QED  BY <2>1, <2>2
<1>2. ASSUME script.job \in {"start", "restart"}, NEW k \in 1..10, Where(Build, k), Made(k), Linked(k)
      PROVE  /\ script.todo # <<>> => Midway
             /\ script.todo = <<>> => Finished
  <2>1. CASE script.todo # <<>>
    <3>1. k # 9 + 1 /\ Now(Build, k)  BY <1>2, <2>1, WhereNow, ProgramTypes
    <3>2. k \in 1..9  BY <3>1, SMT
    <3> QED  BY <1>2, <2>1, <3>1, <3>2, Zenon DEF Midway
  <2>2. CASE script.todo = <<>>
    <3>1. k = 9 + 1  BY <1>2, <2>2, WhereNow, ProgramTypes
    <3>2. k >= 6 /\ k >= 8 /\ k >= 10  BY <3>1, SMT
    <3>3. (kern.bound \/ pulled) /\ kern.net = "up" /\ kern.addr  BY <1>2, <3>2, Zenon DEF Linked
    <3>4. script.job # "stop"  BY <1>2
    <3> QED  BY <2>2, <3>3, <3>4 DEF Finished
  <2> QED  BY <2>1, <2>2
<1>3. ASSUME script.job = "stop", NEW k \in 1..4, Where(Stop, k), k = 4 => tree = {}
      PROVE  /\ script.todo # <<>> => Midway
             /\ script.todo = <<>> => Finished
  <2>1. CASE script.todo # <<>>
    <3>1. k # 3 + 1 /\ Now(Stop, k)  BY <1>3, <2>1, WhereNow, ProgramTypes
    <3>2. k \in 1..3  BY <3>1, SMT
    <3> QED  BY <1>3, <2>1, <3>1, <3>2 DEF Midway
  <2>2. CASE script.todo = <<>>
    <3>1. k = 3 + 1  BY <1>3, <2>2, WhereNow, ProgramTypes
    <3>2. k = 4  BY <3>1, SMT
    <3> QED  BY <1>3, <2>2, <3>2 DEF Finished
  <2> QED  BY <2>1, <2>2
<1>4. ASSUME script.job = "stop", NEW k \in 1..8, Where(TeardownGadget, k), Gone(k)
      PROVE  /\ script.todo # <<>> => Midway
             /\ script.todo = <<>> => Finished
  <2>1. CASE script.todo # <<>>
    <3>1. k # 7 + 1 /\ Now(TeardownGadget, k)  BY <1>4, <2>1, WhereNow, ProgramTypes
    <3>2. k \in 1..7  BY <3>1, SMT
    <3> QED  BY <1>4, <2>1, <3>1, <3>2, Zenon DEF Midway
  <2>2. CASE script.todo = <<>>
    <3>1. k = 7 + 1  BY <1>4, <2>2, WhereNow, ProgramTypes
    <3>2. k = 8  BY <3>1, SMT
    <3>3. tree = {}  BY <1>4, <3>2, GoneAll
    <3> QED  BY <1>4, <2>2, <3>3 DEF Finished
  <2> QED  BY <2>1, <2>2
<1>5. ASSUME script.job = "restart", NEW k \in 1..4, Where(Restart, k), k = 4 => tree = {}
      PROVE  /\ script.todo # <<>> => Midway
             /\ script.todo = <<>> => Finished
  <2>1. k # 8 + 1  BY SMT
  <2>2. script.todo # <<>>  BY <1>5, <2>1, WhereNow, ProgramTypes
  <2>3. Now(Restart, k)  BY <1>5, <2>2, WhereNow, ProgramTypes
  <2> QED  BY <1>5, <2>2, <2>3, Zenon DEF Midway
<1>6. ASSUME script.job = "restart", NEW k \in 1..8, Where(Rebuild, k), Gone(k)
      PROVE  /\ script.todo # <<>> => Midway
             /\ script.todo = <<>> => Finished
  <2>1. k # 12 + 1  BY SMT
  <2>2. script.todo # <<>>  BY <1>6, <2>1, WhereNow, ProgramTypes
  <2>3. Now(Rebuild, k)  BY <1>6, <2>2, WhereNow, ProgramTypes
  <2> QED  BY <1>6, <2>2, <2>3, Zenon DEF Midway
<1> QED  BY <1>1, <1>2, <1>3, <1>4, <1>5, <1>6, Zenon DEF Phase

\* Where each step stands in each script.
LEMMA StartSteps ==
  \A k \in 1..5 :
    \/ k = 1 /\ Start[k] = "setup_gadget"
    \/ k = 2 /\ Start[k] = "wait_iface"
    \/ k = 3 /\ Start[k] = "up"
    \/ k = 4 /\ Start[k] = "flush"
    \/ k = 5 /\ Start[k] = "addr"
<1>1. /\ Start[1] = "setup_gadget"
      /\ Start[2] = "wait_iface"
      /\ Start[3] = "up"
      /\ Start[4] = "flush"
      /\ Start[5] = "addr"
  BY SMT DEF Start
<1> TAKE k \in 1..5
<1>2. k = 1 \/ k = 2 \/ k = 3 \/ k = 4 \/ k = 5
  BY SMT
<1> QED  BY <1>1, <1>2

LEMMA BuildSteps ==
  \A k \in 1..9 :
    \/ k = 1 /\ Build[k] = "make strings"
    \/ k = 2 /\ Build[k] = "make config"
    \/ k = 3 /\ Build[k] = "make function"
    \/ k = 4 /\ Build[k] = "make link"
    \/ k = 5 /\ Build[k] = "find_udc"
    \/ k = 6 /\ Build[k] = "wait_iface"
    \/ k = 7 /\ Build[k] = "up"
    \/ k = 8 /\ Build[k] = "flush"
    \/ k = 9 /\ Build[k] = "addr"
<1>1. /\ Build[1] = "make strings"
      /\ Build[2] = "make config"
      /\ Build[3] = "make function"
      /\ Build[4] = "make link"
      /\ Build[5] = "find_udc"
      /\ Build[6] = "wait_iface"
      /\ Build[7] = "up"
      /\ Build[8] = "flush"
      /\ Build[9] = "addr"
  BY SMT DEF Build
<1> TAKE k \in 1..9
<1>2. k = 1 \/ k = 2 \/ k = 3 \/ k = 4 \/ k = 5 \/ k = 6 \/ k = 7 \/ k = 8 \/ k = 9
  BY SMT
<1> QED  BY <1>1, <1>2

LEMMA StopSteps ==
  \A k \in 1..3 :
    \/ k = 1 /\ Stop[k] = "flush"
    \/ k = 2 /\ Stop[k] = "down"
    \/ k = 3 /\ Stop[k] = "teardown_gadget"
<1>1. /\ Stop[1] = "flush"
      /\ Stop[2] = "down"
      /\ Stop[3] = "teardown_gadget"
  BY SMT DEF Stop
<1> TAKE k \in 1..3
<1>2. k = 1 \/ k = 2 \/ k = 3
  BY SMT
<1> QED  BY <1>1, <1>2

LEMMA TeardownSteps ==
  \A k \in 1..7 :
    \/ k = 1 /\ TeardownGadget[k] = "unbind"
    \/ k = 2 /\ TeardownGadget[k] = "link"
    \/ k = 3 /\ TeardownGadget[k] = "function"
    \/ k = 4 /\ TeardownGadget[k] = "config strings"
    \/ k = 5 /\ TeardownGadget[k] = "config"
    \/ k = 6 /\ TeardownGadget[k] = "strings"
    \/ k = 7 /\ TeardownGadget[k] = "gadget"
<1>1. /\ TeardownGadget[1] = "unbind"
      /\ TeardownGadget[2] = "link"
      /\ TeardownGadget[3] = "function"
      /\ TeardownGadget[4] = "config strings"
      /\ TeardownGadget[5] = "config"
      /\ TeardownGadget[6] = "strings"
      /\ TeardownGadget[7] = "gadget"
  BY SMT DEF TeardownGadget
<1> TAKE k \in 1..7
<1>2. k = 1 \/ k = 2 \/ k = 3 \/ k = 4 \/ k = 5 \/ k = 6 \/ k = 7
  BY SMT
<1> QED  BY <1>1, <1>2

LEMMA RestartSteps ==
  \A k \in 1..8 :
    \/ k = 1 /\ Restart[k] = "flush"
    \/ k = 2 /\ Restart[k] = "down"
    \/ k = 3 /\ Restart[k] = "teardown_gadget"
    \/ k = 4 /\ Restart[k] = "setup_gadget"
    \/ k = 5 /\ Restart[k] = "wait_iface"
    \/ k = 6 /\ Restart[k] = "up"
    \/ k = 7 /\ Restart[k] = "flush"
    \/ k = 8 /\ Restart[k] = "addr"
<1>1. /\ Restart[1] = "flush"
      /\ Restart[2] = "down"
      /\ Restart[3] = "teardown_gadget"
      /\ Restart[4] = "setup_gadget"
      /\ Restart[5] = "wait_iface"
      /\ Restart[6] = "up"
      /\ Restart[7] = "flush"
      /\ Restart[8] = "addr"
  BY SMT DEF Restart
<1> TAKE k \in 1..8
<1>2. k = 1 \/ k = 2 \/ k = 3 \/ k = 4 \/ k = 5 \/ k = 6 \/ k = 7 \/ k = 8
  BY SMT
<1> QED  BY <1>1, <1>2

LEMMA RebuildSteps ==
  /\ \A k \in 1..7 : Rebuild[k] = TeardownGadget[k]
  /\ Rebuild[8] = "setup_gadget"
<1>1. /\ Rebuild[1] = TeardownGadget[1] /\ Rebuild[2] = TeardownGadget[2]
      /\ Rebuild[3] = TeardownGadget[3] /\ Rebuild[4] = TeardownGadget[4]
      /\ Rebuild[5] = TeardownGadget[5] /\ Rebuild[6] = TeardownGadget[6]
      /\ Rebuild[7] = TeardownGadget[7] /\ Rebuild[8] = "setup_gadget"
  BY SMT DEF Rebuild, TeardownGadget
<1>2. \A k \in 1..7 : k = 1 \/ k = 2 \/ k = 3 \/ k = 4 \/ k = 5 \/ k = 6 \/ k = 7  BY SMT
<1> QED  BY <1>1, <1>2, Zenon

\* A step that leaves a record with the rest of its steps.
LEMMA DoneRest ==
  ASSUME Types, Done, Tail(script.todo) \in Seq(Step)
  PROVE  /\ script' \in Script /\ script'.todo = Tail(script.todo)
         /\ script'.job = script.job /\ script'.end = script.end
  BY Zenon DEF Types, Script, Done

\* The script goes on to the next step of P.
LEMMA NowNext ==
  ASSUME Types, Done, NEW P \in Seq(Step), NEW k, Now(P, k)
  PROVE  /\ Where(P, k + 1)'
         /\ script' \in Script /\ script'.job = script.job /\ script'.end = script.end
<1>1. Len(P) \in Nat  BY LenProperties
<1>2. k + 1 \in 1..(Len(P) + 1)  BY <1>1, SMT DEF Now
<1>3. Tail(script.todo) = SubSeq(P, k + 1, Len(P))  BY DEF Now
<1>4. Tail(script.todo) \in Seq(Step)  BY <1>2, <1>3, Rest
<1> QED  BY <1>2, <1>3, <1>4, DoneRest DEF Where

\* A step that does what its place in each script asks for.
LEMMA DonePhase ==
  ASSUME Types, Midway, Done,
         \A k \in 1..9 : Head(script.todo) = Build[k] /\ Made(k) /\ Linked(k)
                           => (Made(k + 1) /\ Linked(k + 1))',
         \A k \in 1..5 : Head(script.todo) = Start[k] /\ Waited(k) => Waited(k + 1)',
         Head(script.todo) = "teardown_gadget" => tree' = {},
         \A k \in 1..7 : Head(script.todo) = TeardownGadget[k] /\ Gone(k) => Gone(k + 1)',
         Head(script.todo) = "setup_gadget" => script.job = "start"
  PROVE  Phase' /\ script' \in Script /\ script'.end = script.end
<1>1. ASSUME script.job = "start", NEW k \in 1..5, Now(Start, k), Waited(k)
      PROVE  Phase' /\ script' \in Script /\ script'.end = script.end
  <2>1. /\ Where(Start, k + 1)' /\ script'.job = script.job
        /\ script' \in Script /\ script'.end = script.end
    BY <1>1, NowNext, ProgramTypes
  <2>2. k + 1 \in 1..6  BY SMT
  <2>3. Waited(k + 1)'  BY <1>1, Zenon DEF Now
  <2> QED  BY <1>1, <2>1, <2>2, <2>3, Zenon DEF Phase
<1>2. ASSUME script.job \in {"start", "restart"}, NEW k \in 1..9, Now(Build, k), Made(k), Linked(k)
      PROVE  Phase' /\ script' \in Script /\ script'.end = script.end
  <2>1. /\ Where(Build, k + 1)' /\ script'.job = script.job
        /\ script' \in Script /\ script'.end = script.end
    BY <1>2, NowNext, ProgramTypes
  <2>2. k + 1 \in 1..10  BY SMT
  <2>3. Head(script.todo) = Build[k]  BY <1>2 DEF Now
  <2>4. Made(k + 1)' /\ Linked(k + 1)'  BY <1>2, <2>3, Zenon
  <2> QED  BY <1>2, <2>1, <2>2, <2>4, Zenon DEF Phase
<1>3. ASSUME script.job = "stop", NEW k \in 1..3, Now(Stop, k)
      PROVE  Phase' /\ script' \in Script /\ script'.end = script.end
  <2>1. /\ Where(Stop, k + 1)' /\ script'.job = script.job
        /\ script' \in Script /\ script'.end = script.end
    BY <1>3, NowNext, ProgramTypes
  <2>2. k + 1 \in 1..4 /\ (k + 1 = 4 => k = 3)  BY SMT
  <2>3. Stop[3] = "teardown_gadget"  BY SMT DEF Stop
  <2>4. k + 1 = 4 => tree' = {}  BY <1>3, <2>2, <2>3, Zenon DEF Now
  <2> QED  BY <1>3, <2>1, <2>2, <2>4, Zenon DEF Phase
<1>4. ASSUME script.job = "stop", NEW k \in 1..7, Now(TeardownGadget, k), Gone(k)
      PROVE  Phase' /\ script' \in Script /\ script'.end = script.end
  <2>1. /\ Where(TeardownGadget, k + 1)' /\ script'.job = script.job
        /\ script' \in Script /\ script'.end = script.end
    BY <1>4, NowNext, ProgramTypes
  <2>2. k + 1 \in 1..8  BY SMT
  <2>3. Gone(k + 1)'  BY <1>4, Zenon DEF Now
  <2> QED  BY <1>4, <2>1, <2>2, <2>3, Zenon DEF Phase
<1>5. ASSUME script.job = "restart", NEW k \in 1..4, Now(Restart, k)
      PROVE  Phase' /\ script' \in Script /\ script'.end = script.end
  <2>1. /\ Where(Restart, k + 1)' /\ script'.job = script.job
        /\ script' \in Script /\ script'.end = script.end
    BY <1>5, NowNext, ProgramTypes
  <2>2. Restart[3] = "teardown_gadget" /\ Restart[4] = "setup_gadget"  BY SMT DEF Restart
  <2>3. script.job # "start"  BY <1>5
  <2>4. k # 4  BY <1>5, <2>2, <2>3, Zenon DEF Now
  <2>5. k + 1 \in 1..4 /\ (k + 1 = 4 => k = 3)  BY <2>4, SMT
  <2>6. k + 1 = 4 => tree' = {}  BY <1>5, <2>2, <2>5, Zenon DEF Now
  <2> QED  BY <1>5, <2>1, <2>5, <2>6, Zenon DEF Phase
<1>6. ASSUME script.job = "restart", NEW k \in 1..8, Now(Rebuild, k), Gone(k)
      PROVE  Phase' /\ script' \in Script /\ script'.end = script.end
  <2>1. /\ Where(Rebuild, k + 1)' /\ script'.job = script.job
        /\ script' \in Script /\ script'.end = script.end
    BY <1>6, NowNext, ProgramTypes
  <2>2. Rebuild[8] = "setup_gadget"  BY RebuildSteps
  <2>3. script.job # "start"  BY <1>6
  <2>4. k # 8  BY <1>6, <2>2, <2>3, Zenon DEF Now
  <2>5. k \in 1..7 /\ k + 1 \in 1..8  BY <2>4, SMT
  <2>6. Rebuild[k] = TeardownGadget[k]  BY <2>5, RebuildSteps, Zenon
  <2>7. Gone(k + 1)'  BY <1>6, <2>5, <2>6, Zenon DEF Now
  <2> QED  BY <1>6, <2>1, <2>5, <2>7, Zenon DEF Phase
<1> QED  BY <1>1, <1>2, <1>3, <1>4, <1>5, <1>6, Zenon DEF Midway

\* Such a step keeps the invariant.
LEMMA DoneKept ==
  ASSUME Inv, Running, script.todo # <<>>, Done,
         tree' \subseteq Node, kern' \in Kernel, UNCHANGED pulled, Sound',
         \A k \in 1..9 : Head(script.todo) = Build[k] /\ Made(k) /\ Linked(k)
                           => (Made(k + 1) /\ Linked(k + 1))',
         \A k \in 1..5 : Head(script.todo) = Start[k] /\ Waited(k) => Waited(k + 1)',
         Head(script.todo) = "teardown_gadget" => tree' = {},
         \A k \in 1..7 : Head(script.todo) = TeardownGadget[k] /\ Gone(k) => Gone(k + 1)',
         Head(script.todo) = "setup_gadget" => script.job = "start"
  PROVE  Inv'
<1>1. Types /\ Midway  BY PhaseMidway, Zenon DEF Inv
<1>2. Phase' /\ script' \in Script /\ script'.end = script.end  BY <1>1, DonePhase
<1>3. script'.end = "running"  BY <1>2 DEF Running
<1>4. Types'  BY <1>1, <1>2, Zenon DEF Types, Done
<1>5. Ended'  BY <1>3, SMT DEF Ended, RestartRepairs
<1> QED  BY <1>2, <1>4, <1>5, Zenon DEF Inv

-----------------------------------------------------------------------------
(* Which scripts have a step, and what holds before it *)

LEMMA Places ==
  /\ \A k \in 1..4 : k \in 1..8 /\ k # 5 /\ k # 6 /\ k # 7 /\ k # 8
  /\ \A k \in 1..8 : k \in 1..7 \/ k = 8
  /\ ~(1 + 1 >= 3) /\ ~(1 >= 3) /\ ~(1 >= 4) /\ ~(1 >= 5) /\ ~(1 >= 6) /\ 1 <= 5
  /\ 9 >= 1 /\ 7 >= 1 /\ 12 >= 1 /\ 5 >= 1 /\ 3 >= 1 /\ 8 >= 1
  /\ 1 \in 1..4 /\ 1 \in 1..6 /\ 1 \in 1..8 /\ 1 \in 1..10 /\ 1 # 4
  /\ 1 <= 5 /\ ~(1 + 1 >= 4) /\ ~(1 + 1 >= 5) /\ ~(1 + 1 >= 6)
  /\ 2 <= 5 /\ ~(2 + 1 >= 4) /\ ~(2 + 1 >= 5) /\ ~(2 + 1 >= 6)
  /\ 3 <= 5 /\ ~(3 + 1 >= 5) /\ ~(3 + 1 >= 6)
  /\ 4 <= 5 /\ 4 >= 4 /\ ~(4 + 1 >= 6)
  /\ 5 <= 5 /\ 5 >= 4 /\ 5 >= 5 /\ 5 + 1 >= 6
  /\ ~(5 + 1 <= 5) /\ ~(5 + 1 >= 8) /\ ~(5 + 1 >= 10)
  /\ 7 >= 6 /\ 6 >= 6 /\ 3 >= 3
  /\ 1 + 1 = 2 /\ 3 + 1 = 4 /\ 4 + 1 = 5 /\ 8 + 1 = 9
  BY SMT

\* Only a script that builds the gadget has these.
LEMMA AtBuild ==
  ASSUME Midway,
         Head(script.todo) \in {"make strings", "make config", "make function", "make link", "find_udc"}
  PROVE  \E k \in 1..9 : Head(script.todo) = Build[k] /\ Made(k) /\ Linked(k)
<1>1. ASSUME NEW k \in 1..5, Now(Start, k)  PROVE FALSE
  BY <1>1, StartSteps, Zenon DEF Now
<1>2. ASSUME NEW k \in 1..3, Now(Stop, k)  PROVE FALSE
  BY <1>2, StopSteps, Zenon DEF Now
<1>3. ASSUME NEW k \in 1..7, Now(TeardownGadget, k)  PROVE FALSE
  BY <1>3, TeardownSteps, Zenon DEF Now
<1>4. ASSUME NEW k \in 1..4, Now(Restart, k)  PROVE FALSE
  <2>1. k \in 1..8 /\ k # 5 /\ k # 6 /\ k # 7 /\ k # 8  BY Places, Zenon
  <2> QED  BY <1>4, <2>1, RestartSteps, Zenon DEF Now
<1>5. ASSUME NEW k \in 1..8, Now(Rebuild, k)  PROVE FALSE
  <2>1. k \in 1..7 \/ k = 8  BY Places, Zenon
  <2> QED  BY <1>5, <2>1, RebuildSteps, TeardownSteps, Zenon DEF Now
<1> QED  BY <1>1, <1>2, <1>3, <1>4, <1>5, Zenon DEF Midway, Now

\* Only a script that takes the gadget down has these.
LEMMA AtTeardown ==
  ASSUME Midway, Head(script.todo) \in Node \cup {"unbind"}
  PROVE  \E k \in 1..7 : Head(script.todo) = TeardownGadget[k] /\ Gone(k)
<1>1. ASSUME NEW k \in 1..5, Now(Start, k)  PROVE FALSE
  BY <1>1, StartSteps, Zenon DEF Now, Node
<1>2. ASSUME NEW k \in 1..9, Now(Build, k)  PROVE FALSE
  BY <1>2, BuildSteps, Zenon DEF Now, Node
<1>3. ASSUME NEW k \in 1..3, Now(Stop, k)  PROVE FALSE
  BY <1>3, StopSteps, Zenon DEF Now, Node
<1>4. ASSUME NEW k \in 1..4, Now(Restart, k)  PROVE FALSE
  <2>1. k \in 1..8 /\ k # 5 /\ k # 6 /\ k # 7 /\ k # 8  BY Places, Zenon
  <2> QED  BY <1>4, <2>1, RestartSteps, Zenon DEF Now, Node
<1>5. ASSUME NEW k \in 1..8, Now(Rebuild, k), Gone(k)
      PROVE  \E j \in 1..7 : Head(script.todo) = TeardownGadget[j] /\ Gone(j)
  <2>1. k # 8  BY <1>5, RebuildSteps, Zenon DEF Now, Node
  <2>2. k \in 1..7  BY <2>1, Places, Zenon
  <2>3. Head(script.todo) = TeardownGadget[k]  BY <1>5, <2>2, RebuildSteps, Zenon DEF Now
  <2> QED  BY <1>5, <2>2, <2>3
<1> QED  BY <1>1, <1>2, <1>3, <1>4, <1>5, Zenon DEF Midway, Now

\* setup_gadget follows a teardown that has removed all, unless a start begins with it.
LEMMA AtSetup ==
  ASSUME Types, Midway, Head(script.todo) = "setup_gadget"
  PROVE  /\ script.job \in {"start", "restart"}
         /\ script.job # "start" => tree = {}
         /\ SetupGadget \o Tail(script.todo) = Build
<1>1. ASSUME script.job = "start", NEW k \in 1..5, Now(Start, k)
      PROVE  SetupGadget \o Tail(script.todo) = Build
  <2>1. k = 1  BY <1>1, StartSteps, Zenon DEF Now
  <2>2. k + 1 = 2  BY <2>1, Places, Zenon
  <2> QED  BY <1>1, <2>2, Expands, Zenon DEF Now
<1>2. ASSUME NEW k \in 1..9, Now(Build, k)  PROVE FALSE
  BY <1>2, BuildSteps, Zenon DEF Now
<1>3. ASSUME NEW k \in 1..3, Now(Stop, k)  PROVE FALSE
  BY <1>3, StopSteps, Zenon DEF Now
<1>4. ASSUME NEW k \in 1..7, Now(TeardownGadget, k)  PROVE FALSE
  BY <1>4, TeardownSteps, Zenon DEF Now
<1>5. ASSUME NEW k \in 1..4, Now(Restart, k), k = 4 => tree = {}
      PROVE  tree = {} /\ SetupGadget \o Tail(script.todo) = Build
  <2>1. k \in 1..8  BY Places, Zenon
  <2>2. k = 4  BY <1>5, <2>1, RestartSteps, Zenon DEF Now
  <2>3. k + 1 = 5  BY <2>2, Places, Zenon
  <2> QED  BY <1>5, <2>2, <2>3, Expands, Zenon DEF Now
<1>6. ASSUME NEW k \in 1..8, Now(Rebuild, k), Gone(k)
      PROVE  tree = {} /\ SetupGadget \o Tail(script.todo) = Build
  <2>1. k \in 1..7 \/ k = 8  BY Places, Zenon
  <2>2. k = 8  BY <1>6, <2>1, RebuildSteps, TeardownSteps, Zenon DEF Now
  <2>3. k + 1 = 9  BY <2>2, Places, Zenon
  <2>4. tree = {}  BY <1>6, <2>2, GoneAll
  <2> QED  BY <1>6, <2>3, <2>4, Expands, Zenon DEF Now
<1>7. "stop" # "start" /\ "restart" # "start"  BY SMT
<1> QED  BY <1>1, <1>2, <1>3, <1>4, <1>5, <1>6, <1>7, Zenon DEF Midway

\* usb0 is there when it is set up.
LEMMA AtUp ==
  ASSUME Midway, Head(script.todo) = "up"
  PROVE  kern.net # "none"
<1>1. ASSUME NEW k \in 1..5, Now(Start, k), Waited(k)  PROVE kern.net # "none"
  <2>1. k = 3  BY <1>1, StartSteps, Zenon DEF Now
  <2>2. k >= 3  BY <2>1, Places, Zenon
  <2> QED  BY <1>1, <2>2, Zenon DEF Waited
<1>2. ASSUME NEW k \in 1..9, Now(Build, k), Linked(k)  PROVE kern.net # "none"
  <2>1. k = 7  BY <1>2, BuildSteps, Zenon DEF Now
  <2>2. k >= 6  BY <2>1, Places, Zenon
  <2> QED  BY <1>2, <2>2, Zenon DEF Linked
<1>3. ASSUME NEW k \in 1..3, Now(Stop, k)  PROVE FALSE
  BY <1>3, StopSteps, Zenon DEF Now
<1>4. ASSUME NEW k \in 1..7, Now(TeardownGadget, k)  PROVE FALSE
  BY <1>4, TeardownSteps, Zenon DEF Now
<1>5. ASSUME NEW k \in 1..4, Now(Restart, k)  PROVE FALSE
  <2>1. k \in 1..8 /\ k # 6  BY Places, Zenon
  <2> QED  BY <1>5, <2>1, RestartSteps, Zenon DEF Now
<1>6. ASSUME NEW k \in 1..8, Now(Rebuild, k)  PROVE FALSE
  <2>1. k \in 1..7 \/ k = 8  BY Places, Zenon
  <2> QED  BY <1>6, <2>1, RebuildSteps, TeardownSteps, Zenon DEF Now
<1> QED  BY <1>1, <1>2, <1>3, <1>4, <1>5, <1>6, Zenon DEF Midway

\* teardown_gadget is the last step of a stop and the third of a restart.
LEMMA AtTeardownGadget ==
  ASSUME Midway, Head(script.todo) = "teardown_gadget"
  PROVE  \/ script.job = "stop" /\ TeardownGadget \o Tail(script.todo) = TeardownGadget
         \/ script.job = "restart" /\ TeardownGadget \o Tail(script.todo) = Rebuild
<1>1. ASSUME NEW k \in 1..5, Now(Start, k)  PROVE FALSE
  BY <1>1, StartSteps, Zenon DEF Now
<1>2. ASSUME NEW k \in 1..9, Now(Build, k)  PROVE FALSE
  BY <1>2, BuildSteps, Zenon DEF Now
<1>3. ASSUME NEW k \in 1..3, Now(Stop, k)  PROVE TeardownGadget \o Tail(script.todo) = TeardownGadget
  <2>1. k = 3  BY <1>3, StopSteps, Zenon DEF Now
  <2>2. k + 1 = 4  BY <2>1, Places, Zenon
  <2> QED  BY <1>3, <2>2, Expands, Zenon DEF Now
<1>4. ASSUME NEW k \in 1..7, Now(TeardownGadget, k)  PROVE FALSE
  BY <1>4, TeardownSteps, Zenon DEF Now
<1>5. ASSUME NEW k \in 1..4, Now(Restart, k)  PROVE TeardownGadget \o Tail(script.todo) = Rebuild
  <2>1. k \in 1..8  BY Places, Zenon
  <2>2. k = 3  BY <1>5, <2>1, RestartSteps, Zenon DEF Now
  <2>3. k + 1 = 4  BY <2>2, Places, Zenon
  <2> QED  BY <1>5, <2>3, Expands, Zenon DEF Now
<1>6. ASSUME NEW k \in 1..8, Now(Rebuild, k)  PROVE FALSE
  <2>1. k \in 1..7 \/ k = 8  BY Places, Zenon
  <2> QED  BY <1>6, <2>1, RebuildSteps, TeardownSteps, Zenon DEF Now
<1> QED  BY <1>1, <1>2, <1>3, <1>4, <1>5, <1>6, Zenon DEF Midway

-----------------------------------------------------------------------------
(* The steps keep the invariant *)

LEMMA Before ==
  ASSUME Inv, NEW s, At(s)
  PROVE  /\ Running /\ script.todo # <<>> /\ Head(script.todo) = s
         /\ Types /\ Sound /\ Midway /\ kern \in Kernel
<1>1. Running /\ script.todo # <<>> /\ Head(script.todo) = s  BY Zenon DEF At
<1>2. Types /\ Sound /\ Phase  BY <1>1, Zenon DEF Inv
<1>3. Midway  BY <1>1, <1>2, PhaseMidway
<1> QED  BY <1>1, <1>2, <1>3, Zenon DEF Types

\* The gadget is there for what is made in it.
LEMMA GadgetThere ==
  ASSUME Inv, NEW s \in MakeSteps, At(s)
  PROVE  "gadget" \in tree
<1>1. Head(script.todo) = s /\ Midway  BY Before
<1>2. PICK k \in 1..9 : s = Build[k] /\ Made(k)  BY <1>1, AtBuild, Zenon DEF MakeSteps
<1>3. k = 1 \/ k = 2 \/ k = 3 \/ k = 4  BY <1>2, BuildSteps, Zenon DEF MakeSteps
<1>4. k <= 5  BY <1>3, Places, Zenon
<1> QED  BY <1>2, <1>4, Zenon DEF Made

\* What the directories and the link are made for is there afterwards.
Makes(s) ==
  /\ tree \subseteq tree' /\ tree' \subseteq Node
  /\ s = "make function" => "function" \in tree'
  /\ s = "make link" => "link" \in tree'

LEMMA MakeKept ==
  ASSUME Inv, NEW s \in MakeSteps, At(s), Done, Makes(s), UNCHANGED <<kern, pulled>>
  PROVE  Inv'
<1>1. /\ Running /\ script.todo # <<>> /\ Head(script.todo) = s
      /\ Types /\ Sound /\ Midway /\ kern \in Kernel
  BY Before
<1>2. ASSUME NEW k \in 1..9, s = Build[k]
      PROVE  \/ k = 1 \/ k = 2
             \/ k = 3 /\ s = "make function"
             \/ k = 4 /\ s = "make link"
  BY <1>2, BuildSteps, Zenon DEF MakeSteps
<1>3. "gadget" \in tree  BY GadgetThere
<1>4. Sound'
  <2>1. tree \subseteq tree'  BY DEF Makes
  <2> QED  BY <1>1, <1>3, <2>1, Zenon DEF Sound
<1>5. ASSUME NEW k \in 1..9, s = Build[k], Made(k), Linked(k)
      PROVE  (Made(k + 1) /\ Linked(k + 1))'
  <2>1. tree \subseteq tree' /\ "gadget" \in tree'  BY <1>3, Zenon DEF Makes
  <2>2. ~(k + 1 >= 6)  BY <1>2, <1>5, Places, Zenon
  <2>3. k + 1 >= 4 => "function" \in tree'
    <3>1. CASE k = 3 /\ s = "make function"  BY <3>1, Zenon DEF Makes
    <3>2. CASE k = 4  BY <1>5, <2>1, <3>2, Places, Zenon DEF Made
    <3> QED  BY <1>2, <1>5, <3>1, <3>2, Places, Zenon
  <2>4. k + 1 >= 5 => "link" \in tree'
    <3>1. CASE k = 4 /\ s = "make link"  BY <3>1, Zenon DEF Makes
    <3> QED  BY <1>2, <1>5, <3>1, Places, Zenon
  <2> QED  BY <2>1, <2>2, <2>3, <2>4, Zenon DEF Made, Linked
<1>6. ASSUME NEW k \in 1..5, s = Start[k]  PROVE FALSE  BY <1>6, StartSteps, Zenon DEF MakeSteps
<1>7. ASSUME NEW k \in 1..7, s = TeardownGadget[k]  PROVE FALSE  BY <1>7, TeardownSteps, Zenon DEF MakeSteps
<1>8. s # "teardown_gadget" /\ s # "setup_gadget"  BY Zenon DEF MakeSteps
<1>9. tree' \subseteq Node /\ kern' \in Kernel  BY <1>1, Zenon DEF Makes
<1> QED  BY <1>1, <1>4, <1>5, <1>6, <1>7, <1>8, <1>9, DoneKept, Zenon

\* A script that ends early, with a part of the tree or none, has nothing to show for.
LEMMA ExitKept ==
  ASSUME Inv, NEW s, At(s), NEW end \in {"failed", "killed"}, Exit(end), UNCHANGED <<kern, pulled>>,
         tree \subseteq tree', tree' \subseteq Node, "gadget" \in tree' \/ tree' = tree
  PROVE  Inv'
<1>1. /\ Running /\ script.todo # <<>> /\ Head(script.todo) = s
      /\ Types /\ Sound /\ Midway /\ kern \in Kernel
  BY Before
<1>2. script \in Script  BY <1>1, Zenon DEF Types
<1>3. script' \in Script /\ script'.end = end /\ script'.job = script.job
  BY <1>2, Zenon DEF Exit, Script
<1>4. svc' \in {"inactive", "activating", "active", "deactivating", "failed"}
  BY <1>1, Zenon DEF Exit, Types
<1>5. Types'  BY <1>1, <1>3, <1>4, Zenon DEF Types
<1>6. Sound'  BY <1>1, Zenon DEF Sound
<1>7. ~Running'  BY <1>3, Zenon DEF Running
<1>8. Ended'  BY <1>3, Zenon DEF Ended, RestartRepairs
<1> QED  BY <1>5, <1>6, <1>7, <1>8, Zenon DEF Inv

LEMMA MkdirKept == Inv /\ Mkdir => Inv'
<1> SUFFICES ASSUME Inv, Mkdir PROVE Inv'  OBVIOUS
<1>1. UNCHANGED <<kern, pulled>> /\ tree \subseteq Node  BY Zenon DEF Mkdir, Inv, Types
<1>2. PICK s \in MakeSteps :
        /\ At(s)
        /\ \/ tree' = tree \cup Creates(s) /\ Done
           \/ \E some \in SUBSET Creates(s), end \in {"failed", "killed"} :
                tree' = tree \cup some /\ Exit(end)
  BY Zenon DEF Mkdir
<1>3. /\ Creates(s) \subseteq Node
      /\ s = "make function" => "function" \in Creates(s)
      /\ s = "make link" => "link" \in Creates(s)
  <2>1. CASE s = "make strings"  BY <2>1, Zenon DEF Creates, Node
  <2>2. CASE s = "make config"  BY <2>2, Zenon DEF Creates, Node
  <2>3. CASE s = "make function"  BY <2>3, Zenon DEF Creates, Node
  <2>4. CASE s = "make link"  BY <2>4, Zenon DEF Creates, Node
  <2> QED  BY <2>1, <2>2, <2>3, <2>4, Zenon DEF MakeSteps
<1>4. CASE tree' = tree \cup Creates(s) /\ Done
  <2>1. Makes(s)  BY <1>1, <1>3, <1>4, Zenon DEF Makes
  <2> QED  BY <1>1, <1>2, <1>4, <2>1, MakeKept, Zenon
<1>5. ASSUME NEW some \in SUBSET Creates(s), NEW end \in {"failed", "killed"},
             tree' = tree \cup some, Exit(end)
      PROVE  Inv'
  <2>1. tree \subseteq tree' /\ tree' \subseteq Node  BY <1>1, <1>3, <1>5, Zenon
  <2>2. "gadget" \in tree'  BY <1>2, <2>1, GadgetThere, Zenon
  <2> QED  BY <1>1, <1>2, <1>5, <2>1, <2>2, ExitKept, Zenon
<1> QED  BY <1>2, <1>4, <1>5, Zenon

\* The address and the state of usb0 are set step by step, and none of the steps makes usb0.
NetworkSteps == {"wait_iface", "up", "flush", "addr", "down"}

LEMMA NetworkKept ==
  ASSUME Inv, NEW s \in NetworkSteps, At(s), Done,
         UNCHANGED <<tree, pulled>>, kern' \in Kernel, kern'.bound = kern.bound,
         kern'.net = "none" <=> kern.net = "none",
         s = "wait_iface" => kern.net # "none",
         s = "up" => kern'.net = "up",
         s # "down" /\ kern.net = "up" => kern'.net = "up",
         s = "addr" => kern'.addr
  PROVE  Inv'
<1>1. /\ Running /\ script.todo # <<>> /\ Head(script.todo) = s
      /\ Types /\ Sound /\ Midway /\ kern \in Kernel
  BY Before
<1>2. Sound'  BY <1>1, SMT DEF Sound
<1>3. ASSUME NEW k \in 1..9, s = Build[k], Made(k), Linked(k)
      PROVE  (Made(k + 1) /\ Linked(k + 1))'
  <2>1. /\ k = 6 \/ (k = 7 /\ s = "up") \/ k = 8 \/ (k = 9 /\ s = "addr")
        /\ s # "down"
    BY <1>3, BuildSteps, Zenon DEF NetworkSteps
  <2> QED  BY <1>3, <2>1, SMT DEF Made, Linked
<1>4. ASSUME NEW k \in 1..5, s = Start[k], Waited(k)  PROVE Waited(k + 1)'
  <2>1. (k = 2 /\ s = "wait_iface") \/ k = 3 \/ k = 4 \/ k = 5
    BY <1>4, StartSteps, Zenon DEF NetworkSteps
  <2> QED  BY <1>4, <2>1, SMT DEF Waited
<1>5. ASSUME NEW k \in 1..7, s = TeardownGadget[k]  PROVE FALSE  BY <1>5, TeardownSteps, Zenon DEF NetworkSteps
<1>6. s # "teardown_gadget" /\ s # "setup_gadget"  BY Zenon DEF NetworkSteps
<1>7. tree' \subseteq Node  BY <1>1, Zenon DEF Types
<1> QED  BY <1>1, <1>2, <1>3, <1>4, <1>5, <1>6, <1>7, DoneKept, Zenon

LEMMA SetupNetworkKept == Inv /\ setup_network => Inv'
<1> SUFFICES ASSUME Inv, setup_network PROVE Inv'  OBVIOUS
<1>1. UNCHANGED <<tree, pulled>>  BY Zenon DEF setup_network
<1>2. kern \in Kernel  BY Zenon DEF Inv, Types
<1>3. CASE At("wait_iface") /\ kern.net # "none" /\ Done /\ UNCHANGED kern
  BY <1>1, <1>2, <1>3, NetworkKept, Zenon DEF NetworkSteps
<1>4. CASE At("up") /\ kern' = [kern EXCEPT !.net = "up"] /\ Done
  <2>1. Midway /\ Head(script.todo) = "up"  BY <1>4, Before, Zenon
  <2>2. kern.net # "none"  BY <2>1, AtUp, Zenon
  <2>3. /\ kern' \in Kernel /\ kern'.bound = kern.bound /\ kern'.net = "up"
    BY <1>2, <1>4, Zenon DEF Kernel
  <2> QED  BY <1>1, <1>4, <2>2, <2>3, NetworkKept, Zenon DEF NetworkSteps
<1>5. CASE At("addr") /\ kern' = [kern EXCEPT !.addr = TRUE] /\ Done
  <2>1. /\ kern' \in Kernel /\ kern'.bound = kern.bound /\ kern'.net = kern.net /\ kern'.addr
    BY <1>2, <1>5, Zenon DEF Kernel
  <2> QED  BY <1>1, <1>5, <2>1, NetworkKept, Zenon DEF NetworkSteps
<1>6. ASSUME NEW s, At(s), Exit("failed"), UNCHANGED kern  PROVE Inv'
  <2>1. tree \subseteq tree' /\ tree' \subseteq Node /\ tree' = tree
    BY <1>1, Zenon DEF Inv, Types
  <2> QED  BY <1>1, <1>6, <2>1, ExitKept, Zenon
<1> QED  BY <1>3, <1>4, <1>5, <1>6, Zenon DEF setup_network

LEMMA TeardownNetworkKept == Inv /\ teardown_network => Inv'
<1> SUFFICES ASSUME Inv, teardown_network PROVE Inv'  OBVIOUS
<1>1. UNCHANGED <<tree, pulled>>  BY Zenon DEF teardown_network
<1>2. kern \in Kernel  BY Zenon DEF Inv, Types
<1>3. CASE At("flush") /\ kern' = [kern EXCEPT !.addr = FALSE] /\ Done
  <2>1. /\ kern' \in Kernel /\ kern'.bound = kern.bound /\ kern'.net = kern.net
    BY <1>2, <1>3, Zenon DEF Kernel
  <2> QED  BY <1>1, <1>3, <2>1, NetworkKept, Zenon DEF NetworkSteps
<1>4. CASE At("down") /\ kern' = [kern EXCEPT !.net = IF @ = "up" THEN "down" ELSE @] /\ Done
  <2>1. /\ kern' \in Kernel /\ kern'.bound = kern.bound
        /\ kern'.net = IF kern.net = "up" THEN "down" ELSE kern.net
    BY <1>2, <1>4, Zenon DEF Kernel
  <2>2. kern'.net = "none" <=> kern.net = "none"
    <3>1. CASE kern.net = "up"  BY <2>1, <3>1, Zenon
    <3>2. CASE kern.net # "up"  BY <2>1, <3>2, Zenon
    <3> QED  BY <3>1, <3>2
  <2> QED  BY <1>1, <1>4, <2>1, <2>2, NetworkKept, Zenon DEF NetworkSteps
<1> QED  BY <1>3, <1>4, Zenon DEF teardown_network

LEMMA FindUdcKept == Inv /\ find_udc => Inv'
<1> SUFFICES ASSUME Inv, find_udc PROVE Inv'  OBVIOUS
<1>1. At("find_udc") /\ UNCHANGED <<tree, pulled>>  BY Zenon DEF find_udc
<1>2. /\ Running /\ script.todo # <<>> /\ Head(script.todo) = "find_udc"
      /\ Types /\ Sound /\ Midway /\ kern \in Kernel
  BY <1>1, Before, Zenon
<1>3. CASE Exit("failed") /\ UNCHANGED kern
  <2>1. tree \subseteq tree' /\ tree' \subseteq Node /\ tree' = tree
    BY <1>1, <1>2, Zenon DEF Types
  <2> QED  BY <1>1, <1>3, <2>1, ExitKept, Zenon
<1>4. CASE /\ Done
           /\ kern' = [kern EXCEPT !.bound = TRUE, !.net = IF @ = "none" THEN "down" ELSE @]
  <2>1. Done  BY <1>4
  <2>2. kern' = [kern EXCEPT !.bound = TRUE, !.net = IF @ = "none" THEN "down" ELSE @]  BY <1>4
  <2>3. (IF kern.net = "none" THEN "down" ELSE kern.net) \in {"down", "up"}
    BY <1>2, Zenon DEF Kernel
  <2>4. kern' \in Kernel /\ kern'.bound /\ kern'.net # "none"
    BY <1>2, <2>2, <2>3, Zenon DEF Kernel
  <2>5. ASSUME NEW k \in 1..9, "find_udc" = Build[k]  PROVE k = 5
    BY <2>5, BuildSteps, Zenon
  <2>6. PICK k \in 1..9 : Head(script.todo) = Build[k] /\ Made(k) /\ Linked(k)  BY <1>2, AtBuild, Zenon
  <2>7. k = 5 /\ Made(k)  BY <1>2, <2>5, <2>6, Zenon
  <2>8. "gadget" \in tree /\ "function" \in tree /\ "link" \in tree
    BY <2>7, Places, Zenon DEF Made
  <2>9. Sound'  BY <1>1, <2>4, <2>8, Zenon DEF Sound
  <2>10. ASSUME NEW j \in 1..9, "find_udc" = Build[j]  PROVE (Made(j + 1) /\ Linked(j + 1))'
    <3>1. j = 5  BY <2>5, <2>10, Zenon
    <3> QED  BY <2>4, <3>1, Places, Zenon DEF Made, Linked
  <2>11. ASSUME NEW j \in 1..5, "find_udc" = Start[j]  PROVE FALSE  BY <2>11, StartSteps, Zenon
  <2>12. ASSUME NEW j \in 1..7, "find_udc" = TeardownGadget[j]  PROVE FALSE
    BY <2>12, TeardownSteps, Zenon
  <2>13. tree' \subseteq Node  BY <1>1, <1>2, Zenon DEF Types
  <2> QED  BY <1>1, <1>2, <2>1, <2>4, <2>9, <2>10, <2>11, <2>12, <2>13, DoneKept, Zenon
<1> QED  BY <1>3, <1>4, Zenon DEF find_udc

LEMMA TeardownNodes ==
  /\ TeardownGadget[2] = "link" /\ TeardownGadget[3] = "function"
  /\ TeardownGadget[4] = "config strings" /\ TeardownGadget[5] = "config"
  /\ TeardownGadget[6] = "strings"
  BY SMT DEF TeardownGadget

\* Whatever a node needs to be removed has been removed before it.
LEMMA GoneBefore ==
  ASSUME NEW k \in 1..7, NEW n, n = TeardownGadget[k], Gone(k)
  PROVE  /\ n = "function" => "link" \notin tree
         /\ n = "config" => "link" \notin tree /\ "config strings" \notin tree
         /\ n = "gadget" =>
              /\ "link" \notin tree /\ "function" \notin tree /\ "config strings" \notin tree
              /\ "config" \notin tree /\ "strings" \notin tree
<1>2. \A j \in 1..7 : j < k => TeardownGadget[j] \notin tree  BY Zenon DEF Gone
<1>3. /\ 2 \in 1..7 /\ 3 \in 1..7 /\ 4 \in 1..7 /\ 5 \in 1..7 /\ 6 \in 1..7
      /\ 2 < 3 /\ 2 < 5 /\ 4 < 5 /\ 2 < 7 /\ 3 < 7 /\ 4 < 7 /\ 5 < 7 /\ 6 < 7
  BY SMT
<1>4. ASSUME n = "function" PROVE "link" \notin tree
  <2>1. k = 3  BY <1>4, TeardownSteps, Zenon
  <2> QED  BY TeardownNodes, <1>2, <1>3, <2>1, Zenon
<1>5. ASSUME n = "config" PROVE "link" \notin tree /\ "config strings" \notin tree
  <2>1. k = 5  BY <1>5, TeardownSteps, Zenon
  <2> QED  BY TeardownNodes, <1>2, <1>3, <2>1, Zenon
<1>6. ASSUME n = "gadget"
      PROVE  /\ "link" \notin tree /\ "function" \notin tree /\ "config strings" \notin tree
             /\ "config" \notin tree /\ "strings" \notin tree
  <2>1. k = 7  BY <1>6, TeardownSteps, Zenon
  <2> QED  BY TeardownNodes, <1>2, <1>3, <2>1, Zenon
<1> QED  BY <1>4, <1>5, <1>6, Zenon

\* Once removed, a node is gone with the others before it.
LEMMA RemovalGone ==
  ASSUME Inv, NEW n \in Node \cup {"unbind"}, At(n), Done, UNCHANGED pulled,
         tree' = tree \ {n}, kern' \in Kernel, Sound'
  PROVE  Inv'
<1>1. /\ Running /\ script.todo # <<>> /\ Head(script.todo) = n
      /\ Types /\ Sound /\ Midway /\ kern \in Kernel
  BY Before, Zenon
<1>2. tree' \subseteq Node  BY <1>1, Zenon DEF Types
<1>3. ASSUME NEW k \in 1..7, n = TeardownGadget[k], Gone(k)  PROVE Gone(k + 1)'
  <2>1. \A j \in 1..7 : j < k + 1 => j < k \/ j = k  BY SMT
  <2>2. \A j \in 1..7 : j < k + 1 => TeardownGadget[j] \notin tree'
    BY <1>3, <2>1, Zenon DEF Gone
  <2> QED  BY <2>2, Zenon DEF Gone, TeardownGadget
<1>4. PICK k \in 1..7 : n = TeardownGadget[k] /\ Gone(k)  BY <1>1, AtTeardown, Zenon
<1>5. ASSUME NEW j \in 1..9, n = Build[j]  PROVE FALSE
  BY <1>4, <1>5, BuildSteps, TeardownSteps, Zenon
<1>6. ASSUME NEW j \in 1..5, n = Start[j]  PROVE FALSE
  BY <1>4, <1>6, StartSteps, TeardownSteps, Zenon
<1>7. n # "teardown_gadget" /\ n # "setup_gadget"  BY <1>4, TeardownSteps, Zenon
<1> QED  BY <1>1, <1>2, <1>3, <1>5, <1>6, <1>7, DoneKept, Zenon

LEMMA RemovalKept ==
  ASSUME Inv, NEW n \in Node, At(n), Done,
         tree' = Removed(n), kern' = Without(n), UNCHANGED pulled
  PROVE  Inv'
<1>1. /\ Running /\ script.todo # <<>> /\ Head(script.todo) = n
      /\ Types /\ Sound /\ Midway /\ kern \in Kernel
  BY Before, Zenon
<1>2. PICK k \in 1..7 : n = TeardownGadget[k] /\ Gone(k)  BY <1>1, AtTeardown, Zenon
<1>3. /\ n = "function" => "link" \notin tree
      /\ n = "config" => "link" \notin tree /\ "config strings" \notin tree
      /\ n = "gadget" =>
           /\ "link" \notin tree /\ "function" \notin tree /\ "config strings" \notin tree
           /\ "config" \notin tree /\ "strings" \notin tree
  BY <1>2, GoneBefore, Zenon
<1>4. Below[n] \cap tree = {}
  <2>1. CASE n = "gadget"
    <3>1. Below[n] = Node \ {"gadget"}  BY <2>1, Zenon DEF Below
    <3> QED  BY <1>3, <2>1, <3>1, Zenon DEF Node
  <2>2. CASE n = "config"
    <3>1. Below[n] = {"config strings", "link"}  BY <2>2, Zenon DEF Below
    <3> QED  BY <1>3, <2>2, <3>1, Zenon
  <2>3. CASE n = "function"
    <3>1. Below[n] = {"link"}  BY <2>3, Zenon DEF Below
    <3> QED  BY <1>3, <2>3, <3>1, Zenon
  <2>4. CASE n \notin {"gadget", "config", "function"}
    <3>1. Below[n] = {}  BY <2>4, Zenon DEF Below
    <3> QED  BY <3>1, Zenon
  <2> QED  BY <2>1, <2>2, <2>3, <2>4, Zenon
<1>5. tree' = tree \ {n}  BY <1>4, Zenon DEF Removed
<1>7. n \notin tree => kern' = kern  BY Zenon DEF Without
<1>8. n \in tree => n \notin Removed(n)  BY <1>4, Zenon DEF Removed
<1>9. CASE n = "link"
  <2>1. n \in tree => kern' = [kern EXCEPT !.bound = FALSE]  BY <1>8, <1>9, Zenon DEF Without
  <2>2. /\ kern' \in Kernel /\ kern'.net = kern.net
        /\ n \in tree => ~kern'.bound
        /\ n \notin tree => kern'.bound = kern.bound
    BY <1>1, <1>7, <2>1, Zenon DEF Kernel
  <2>3. Sound'  BY <1>1, <1>5, <1>9, <2>2, Zenon DEF Sound
  <2> QED  BY <2>2, <2>3, <1>1, <1>5, RemovalGone, Zenon
<1>10. CASE n = "function"
  <2>1. n \in tree => kern' = [kern EXCEPT !.net = "none", !.addr = FALSE]
    BY <1>8, <1>10, Zenon DEF Without
  <2>2. /\ kern' \in Kernel /\ kern'.bound = kern.bound
        /\ n \in tree => kern'.net = "none"
        /\ n \notin tree => kern'.net = kern.net
    BY <1>1, <1>7, <2>1, Zenon DEF Kernel
  <2>3. Sound'  BY <1>1, <1>3, <1>5, <1>10, <2>2, Zenon DEF Sound
  <2> QED  BY <2>2, <2>3, <1>1, <1>5, RemovalGone, Zenon
<1>11. CASE n # "link" /\ n # "function"
  <2>1. kern' = kern  BY <1>7, <1>8, <1>11, Zenon DEF Without
  <2>2. CASE n = "gadget"
    <3>1. tree' = {}  BY <1>1, <1>3, <1>5, <2>2, Zenon DEF Types, Node
    <3>2. Sound'  BY <1>1, <1>3, <2>1, <2>2, <3>1, Zenon DEF Sound
    <3> QED  BY <3>2, <2>1, <1>1, <1>5, RemovalGone, Zenon
  <2>3. CASE n # "gadget"
    <3>1. Sound'  BY <1>1, <1>5, <1>11, <2>1, <2>3, Zenon DEF Sound
    <3> QED  BY <3>1, <2>1, <1>1, <1>5, RemovalGone, Zenon
  <2> QED  BY <2>2, <2>3
<1> QED  BY <1>9, <1>10, <1>11

\* A script that goes on with all the steps of P begins P.
LEMMA Begun ==
  ASSUME NEW P \in Seq(Step), script'.todo = P, Len(P) >= 1
  PROVE  Where(P, 1)'
<1>1. SubSeq(P, 1, Len(P)) = P  BY SubSeqFull
<1>2. Len(P) \in Nat  BY LenProperties
<1>3. 1 \in 1..(Len(P) + 1)  BY <1>2, SMT
<1> QED  BY <1>1, <1>3, Zenon DEF Where

LEMMA SetupGadgetKept == Inv /\ setup_gadget => Inv'
<1> SUFFICES ASSUME Inv, setup_gadget PROVE Inv'  OBVIOUS
<1>1. At("setup_gadget") /\ UNCHANGED <<kern, pulled>>  BY Zenon DEF setup_gadget
<1>2. /\ Running /\ script.todo # <<>> /\ Head(script.todo) = "setup_gadget"
      /\ Types /\ Sound /\ Midway /\ kern \in Kernel
  BY <1>1, Before, Zenon
<1>3. /\ script.job \in {"start", "restart"}
      /\ script.job # "start" => tree = {}
      /\ SetupGadget \o Tail(script.todo) = Build
  BY <1>2, AtSetup, Zenon
<1>4. CASE "gadget" \in tree /\ Done /\ UNCHANGED tree
  <2>1. Done /\ UNCHANGED tree  BY <1>4
  <2>2. script.job = "start"  BY <1>3, <1>4, Zenon
  <2>3. ASSUME NEW k \in 1..9, "setup_gadget" = Build[k]  PROVE FALSE
    BY <2>3, BuildSteps, Zenon
  <2>4. ASSUME NEW k \in 1..5, "setup_gadget" = Start[k], Waited(k)  PROVE Waited(k + 1)'
    <3>1. k = 1  BY <2>4, StartSteps, Zenon
    <3>2. ~(1 + 1 >= 3)  BY Places, Zenon
    <3> QED  BY <3>1, <3>2, Zenon DEF Waited
  <2>5. ASSUME NEW k \in 1..7, "setup_gadget" = TeardownGadget[k]  PROVE FALSE
    BY <2>5, TeardownSteps, Zenon
  <2>6. tree' \subseteq Node /\ kern' \in Kernel /\ Sound'
    BY <1>1, <1>2, <2>1, Zenon DEF Types, Sound
  <2> QED  BY <1>1, <1>2, <2>1, <2>2, <2>3, <2>4, <2>5, <2>6, DoneKept, Zenon
<1>5. CASE Go(SetupGadget) /\ tree' = tree \cup {"gadget"}
  <2>1. Go(SetupGadget) /\ tree' = tree \cup {"gadget"}  BY <1>5
  <2>2. script' = [script EXCEPT !.todo = Build]  BY <1>3, <2>1, Zenon DEF Go
  <2>3. /\ script' \in Script /\ script'.job = script.job /\ script'.end = script.end
        /\ script'.todo = Build
    BY <1>2, <2>2, ProgramTypes, Zenon DEF Types, Script
  <2>4. Where(Build, 1)'
    <3>1. Len(Build) >= 1  BY ProgramTypes, Places, Zenon
    <3> QED  BY <2>3, <3>1, ProgramTypes, Begun, Zenon
  <2>5. Made(1)' /\ Linked(1)'  BY <2>1, Places, Zenon DEF Made, Linked
  <2>6. Phase'  BY <1>3, <2>3, <2>4, <2>5, Places, Zenon DEF Phase
  <2>7. Types'
    <3>1. tree' \subseteq Node  BY <1>2, <2>1, Zenon DEF Types, Node
    <3> QED  BY <1>1, <1>2, <2>1, <2>3, <3>1, Zenon DEF Types, Go
  <2>8. Sound'  BY <1>1, <1>2, <2>1, Zenon DEF Sound
  <2>9. script'.end = "running"  BY <1>2, <2>3, Zenon DEF Running
  <2>10. Ended'  BY <2>9, Zenon DEF Ended, RestartRepairs
  <2> QED  BY <2>6, <2>7, <2>8, <2>10, Zenon DEF Inv
<1>6. CASE Exit("failed") /\ tree' \in {tree, tree \cup {"gadget"}}
  <2>1. tree \subseteq tree' /\ tree' \subseteq Node /\ ("gadget" \in tree' \/ tree' = tree)
    BY <1>2, <1>6, Zenon DEF Types, Node
  <2> QED  BY <1>1, <1>6, <2>1, ExitKept, Zenon
<1> QED  BY <1>4, <1>5, <1>6, Zenon DEF setup_gadget

\* So does a step that replaces itself by the steps of a function.
LEMMA GoKept ==
  ASSUME Inv, Running, NEW steps, Go(steps), UNCHANGED <<tree, kern, pulled>>, Phase',
         script' \in Script, script'.end = script.end
  PROVE  Inv'
<1>1. Types /\ Sound  BY Zenon DEF Inv
<1>2. Types'  BY <1>1, Zenon DEF Types, Go
<1>3. Sound'  BY <1>1, Zenon DEF Sound
<1>4. script'.end = "running"  BY Zenon DEF Running
<1>5. Ended'  BY <1>4, Zenon DEF Ended, RestartRepairs
<1> QED  BY <1>2, <1>3, <1>5, Zenon DEF Inv

LEMMA TeardownGadgetKept == Inv /\ teardown_gadget => Inv'
<1> SUFFICES ASSUME Inv, teardown_gadget PROVE Inv'  OBVIOUS
<1>1. CASE /\ At("teardown_gadget") /\ IF "gadget" \in tree THEN Go(TeardownGadget) ELSE Done
           /\ UNCHANGED <<tree, kern, pulled>>
  <2>1. /\ Running /\ script.todo # <<>> /\ Head(script.todo) = "teardown_gadget"
        /\ Types /\ Sound /\ Midway /\ kern \in Kernel
    BY <1>1, Before, Zenon
  <2>2. tree' \subseteq Node /\ kern' \in Kernel /\ Sound'
    BY <1>1, <2>1, Zenon DEF Types, Sound
  <2>3. CASE "gadget" \notin tree
    <3>1. Done /\ tree' = {}  BY <1>1, <2>1, <2>3, Zenon DEF Sound
    <3>2. ASSUME NEW k \in 1..9, "teardown_gadget" = Build[k]  PROVE FALSE
      BY <3>2, BuildSteps, Zenon
    <3>3. ASSUME NEW k \in 1..5, "teardown_gadget" = Start[k]  PROVE FALSE
      BY <3>3, StartSteps, Zenon
    <3>4. ASSUME NEW k \in 1..7, "teardown_gadget" = TeardownGadget[k]  PROVE FALSE
      BY <3>4, TeardownSteps, Zenon
    <3> QED  BY <1>1, <2>1, <2>2, <3>1, <3>2, <3>3, <3>4, DoneKept, Zenon
  <2>4. CASE "gadget" \in tree
    <3>1. Go(TeardownGadget)  BY <1>1, <2>4, Zenon
    <3>2. ASSUME NEW P \in Seq(Step), TeardownGadget \o Tail(script.todo) = P, Len(P) >= 1
          PROVE  /\ script' \in Script /\ script'.job = script.job /\ script'.end = script.end
                 /\ Where(P, 1)'
      <4>1. script' = [script EXCEPT !.todo = P]  BY <3>1, <3>2, Zenon DEF Go
      <4>2. /\ script' \in Script /\ script'.job = script.job /\ script'.end = script.end
            /\ script'.todo = P
        BY <2>1, <4>1, Zenon DEF Types, Script
      <4> QED  BY <3>2, <4>2, Begun, Zenon
    <3>3. Gone(1)'
      <4>1. \A j \in 1..7 : ~(j < 1)  BY SMT
      <4> QED  BY <4>1, Zenon DEF Gone
    <3>4. Len(TeardownGadget) >= 1 /\ Len(Rebuild) >= 1  BY ProgramTypes, Places, Zenon
    <3>5. CASE script.job = "stop" /\ TeardownGadget \o Tail(script.todo) = TeardownGadget
      <4>1. /\ script' \in Script /\ script'.job = script.job /\ script'.end = script.end
            /\ Where(TeardownGadget, 1)'
        BY <3>2, <3>4, <3>5, ProgramTypes, Zenon
      <4>2. Phase'  BY <3>3, <3>5, <4>1, Places, Zenon DEF Phase
      <4> QED  BY <1>1, <2>1, <2>2, <3>1, <4>1, <4>2, GoKept, Zenon
    <3>6. CASE script.job = "restart" /\ TeardownGadget \o Tail(script.todo) = Rebuild
      <4>1. /\ script' \in Script /\ script'.job = script.job /\ script'.end = script.end
            /\ Where(Rebuild, 1)'
        BY <3>2, <3>4, <3>6, ProgramTypes, Zenon
      <4>2. Phase'  BY <3>3, <3>6, <4>1, Places, Zenon DEF Phase
      <4> QED  BY <1>1, <2>1, <2>2, <3>1, <4>1, <4>2, GoKept, Zenon
    <3> QED  BY <2>1, <3>5, <3>6, AtTeardownGadget, Zenon
  <2> QED  BY <2>3, <2>4
<1>2. CASE At("unbind") /\ kern' = [kern EXCEPT !.bound = FALSE] /\ Done /\ UNCHANGED <<tree, pulled>>
  <2>1. Types /\ Sound /\ kern \in Kernel  BY <1>2, Before, Zenon
  <2>2. "unbind" \notin tree  BY <2>1, Zenon DEF Types, Node
  <2>3. tree' = tree \ {"unbind"}  BY <1>2, <2>2, Zenon
  <2>4. kern' \in Kernel /\ ~kern'.bound /\ kern'.net = kern.net
    BY <1>2, <2>1, Zenon DEF Kernel
  <2>5. Sound'  BY <1>2, <2>1, <2>4, Zenon DEF Sound
  <2> QED  BY <1>2, <2>3, <2>4, <2>5, RemovalGone, Zenon
<1>3. ASSUME NEW n \in Node, At(n), tree' = Removed(n), kern' = Without(n), Done, UNCHANGED pulled
      PROVE  Inv'
  BY <1>3, RemovalKept
<1> QED  BY <1>1, <1>2, <1>3, Zenon DEF teardown_gadget

\* A script that ends has done what it was for.
LEMMA EndsKept == Inv /\ Ends => Inv'
<1> SUFFICES ASSUME Inv, Ends PROVE Inv'  OBVIOUS
<1>1. Running /\ script.todo = <<>> /\ UNCHANGED <<tree, kern, pulled>>  BY Zenon DEF Ends
<1>2. Types /\ Sound /\ Phase  BY <1>1, Zenon DEF Inv
<1>3. Finished  BY <1>1, <1>2, PhaseMidway, Zenon
<1>4. /\ script' \in Script /\ script'.end = "ok" /\ script'.job = script.job
  BY <1>2, Zenon DEF Ends, Types, Script
<1>5. svc' \in {"inactive", "activating", "active", "deactivating", "failed"}
  BY <1>2, Zenon DEF Ends, Types
<1>6. Types'  BY <1>1, <1>2, <1>4, <1>5, Zenon DEF Types
<1>7. Sound'  BY <1>1, <1>2, Zenon DEF Sound
<1>8. ~Running'  BY <1>4, Zenon DEF Running
<1>9. Ended'  BY <1>1, <1>3, <1>4, Zenon DEF Ended, Finished, RestartRepairs, Up
<1> QED  BY <1>6, <1>7, <1>8, <1>9, Zenon DEF Inv

LEMMA KilledKept == Inv /\ Killed => Inv'
<1> SUFFICES ASSUME Inv, Killed PROVE Inv'  OBVIOUS
<1>1. At(Head(script.todo)) /\ Exit("killed") /\ UNCHANGED <<tree, kern, pulled>>
  BY Zenon DEF Killed, At
<1>2. tree \subseteq tree' /\ tree' \subseteq Node /\ tree' = tree
  BY <1>1, Zenon DEF Inv, Types
<1> QED  BY <1>1, <1>2, ExitKept, Zenon

\* A script starts at its first step, whatever is there.
LEMMA CallKept ==
  ASSUME Inv, NEW job \in Job, Call(job),
         svc' \in {"inactive", "activating", "active", "deactivating", "failed"}
  PROVE  Inv'
<1>1. Types /\ Sound  BY Zenon DEF Inv
<1>2. Steps(job) \in Seq(Step)
  BY Begins, ProgramTypes, Zenon DEF Job
<1>3. /\ script' = [job |-> job, todo |-> Steps(job), end |-> "running"]
      /\ UNCHANGED <<tree, kern>> /\ pulled' = FALSE
  BY Zenon DEF Call
<1>4. /\ script' \in Script /\ script'.job = job /\ script'.todo = Steps(job)
      /\ script'.end = "running"
  BY <1>2, <1>3, Zenon DEF Script
<1>5. Phase'
  <2>1. CASE job = "start"
    <3>1. Where(Start, 1)'  BY <1>4, <2>1, Begins, Begun, ProgramTypes, Places, Zenon
    <3>2. Waited(1)'  BY Places, Zenon DEF Waited
    <3> QED  BY <1>4, <2>1, <3>1, <3>2, Places, Zenon DEF Phase
  <2>2. CASE job = "stop"
    <3>1. Where(Stop, 1)'  BY <1>4, <2>2, Begins, Begun, ProgramTypes, Places, Zenon
    <3> QED  BY <1>4, <2>2, <3>1, Places, Zenon DEF Phase
  <2>3. CASE job = "restart"
    <3>1. Where(Restart, 1)'  BY <1>4, <2>3, Begins, Begun, ProgramTypes, Places, Zenon
    <3> QED  BY <1>4, <2>3, <3>1, Places, Zenon DEF Phase
  <2> QED  BY <2>1, <2>2, <2>3, Zenon DEF Job
<1>6. Types'  BY <1>1, <1>3, <1>4, Zenon DEF Types
<1>7. Sound'  BY <1>1, <1>3, Zenon DEF Sound
<1>8. Ended'  BY <1>4, Zenon DEF Ended, RestartRepairs
<1> QED  BY <1>5, <1>6, <1>7, <1>8, Zenon DEF Inv

\* Others may take the gadget off its controller: what the script was for is theirs then.
LEMMA OthersKept ==
  ASSUME Inv, UNCHANGED <<tree, script, svc>>,
         kern' \in Kernel, kern'.net = kern.net, kern'.addr = kern.addr,
         kern'.bound => kern.bound, pulled' \in BOOLEAN, pulled => pulled',
         kern.bound => kern'.bound \/ pulled'
  PROVE  Inv'
<1>1. Types /\ Sound /\ Ended /\ (Running => Phase)  BY Zenon DEF Inv
<1>2. Types'  BY <1>1, Zenon DEF Types
<1>3. Sound'  BY <1>1, Zenon DEF Sound
<1>4. Ended'  BY <1>1, Zenon DEF Ended, RestartRepairs, Up
<1>5. Phase => Phase'
  <2>1. ASSUME NEW P, NEW k, Where(P, k)  PROVE Where(P, k)'  BY <2>1, Zenon DEF Where
  <2>2. ASSUME NEW k  PROVE (Waited(k) => Waited(k)') /\ (Made(k) => Made(k)') /\ (Gone(k) => Gone(k)')
    BY Zenon DEF Waited, Made, Gone, TeardownGadget
  <2>3. ASSUME NEW k, Linked(k)  PROVE Linked(k)'  BY <2>3, Zenon DEF Linked
  <2>4. /\ \A k : Where(Start, k) => Where(Start, k)'
        /\ \A k : Where(Build, k) => Where(Build, k)'
        /\ \A k : Where(Stop, k) => Where(Stop, k)'
        /\ \A k : Where(TeardownGadget, k) => Where(TeardownGadget, k)'
        /\ \A k : Where(Restart, k) => Where(Restart, k)'
        /\ \A k : Where(Rebuild, k) => Where(Rebuild, k)'
    BY <2>1, Zenon
  <2> QED  BY <2>2, <2>3, <2>4, Zenon DEF Phase
<1>6. Running' => Running  BY Zenon DEF Running
<1> QED  BY <1>1, <1>2, <1>3, <1>4, <1>5, <1>6, Zenon DEF Inv

LEMMA DisconnectKept == Inv /\ usb_gadget_disconnect => Inv'
<1> SUFFICES ASSUME Inv, usb_gadget_disconnect PROVE Inv'  OBVIOUS
<1>1. kern \in Kernel  BY Zenon DEF Inv, Types
<1>2. /\ kern' = [kern EXCEPT !.bound = FALSE] /\ pulled' = TRUE
      /\ UNCHANGED <<tree, script, svc>>
  BY Zenon DEF usb_gadget_disconnect, Unbound
<1>3. kern' \in Kernel /\ ~kern'.bound /\ kern'.net = kern.net /\ kern'.addr = kern.addr
  BY <1>1, <1>2, Zenon DEF Kernel
<1> QED  BY <1>2, <1>3, OthersKept, Zenon

LEMMA UsbHostKept == Inv /\ usb_host => Inv'
<1> SUFFICES ASSUME Inv, usb_host PROVE Inv'  OBVIOUS
<1>1. kern \in Kernel /\ pulled \in BOOLEAN  BY Zenon DEF Inv, Types
<1>2. /\ kern' = [kern EXCEPT !.udc = FALSE, !.bound = FALSE] /\ pulled' = (pulled \/ kern.bound)
      /\ UNCHANGED <<tree, script, svc>>
  BY Zenon DEF usb_host
<1>3. kern' \in Kernel /\ ~kern'.bound /\ kern'.net = kern.net /\ kern'.addr = kern.addr
  BY <1>1, <1>2, Zenon DEF Kernel
<1>4. pulled' \in BOOLEAN  BY <1>2, Zenon
<1> QED  BY <1>2, <1>3, <1>4, OthersKept, Zenon

LEMMA UdcAppearsKept == Inv /\ UdcAppears => Inv'
<1> SUFFICES ASSUME Inv, UdcAppears PROVE Inv'  OBVIOUS
<1>1. kern \in Kernel /\ pulled \in BOOLEAN  BY Zenon DEF Inv, Types
<1>2. kern' = [kern EXCEPT !.udc = TRUE] /\ UNCHANGED <<tree, script, svc, pulled>>
  BY Zenon DEF UdcAppears
<1>3. kern' \in Kernel /\ kern'.bound = kern.bound /\ kern'.net = kern.net /\ kern'.addr = kern.addr
  BY <1>1, <1>2, Zenon DEF Kernel
<1> QED  BY <1>1, <1>2, <1>3, OthersKept, Zenon

-----------------------------------------------------------------------------
(* The theorems *)

LEMMA InvInit == Init => Inv
<1> SUFFICES ASSUME Init PROVE Inv  OBVIOUS
<1>1. <<>> \in Seq(Step)  BY SMT
<1>2. /\ script = [job |-> "stop", todo |-> <<>>, end |-> "ok"]
      /\ tree = {} /\ svc = "inactive" /\ pulled = FALSE
  BY Zenon DEF Init
<1>3. script \in Script /\ script.job = "stop" /\ script.end = "ok"
  BY <1>1, <1>2, Zenon DEF Script, Job
<1>4. kern \in Kernel /\ ~kern.bound /\ kern.net = "none"
  <2>1. PICK u \in BOOLEAN : kern = [udc |-> u, bound |-> FALSE, net |-> "none", addr |-> FALSE]
    BY Zenon DEF Init
  <2>2. "none" \in {"none", "down", "up"} /\ FALSE \in BOOLEAN  BY Zenon
  <2>3. kern \in Kernel  BY <2>1, <2>2 DEF Kernel
  <2> QED  BY <2>1, <2>3, Zenon
<1>5. Types  BY <1>2, <1>3, <1>4, Zenon DEF Types
<1>6. Sound  BY <1>2, <1>4, Zenon DEF Sound
<1>7. ~Running  BY <1>3, Zenon DEF Running
<1>8. Ended  BY <1>2, <1>3, Zenon DEF Ended, RestartRepairs
<1> QED  BY <1>5, <1>6, <1>7, <1>8, Zenon DEF Inv

LEMMA InvStep == Inv /\ [Next]_vars => Inv'
<1> SUFFICES ASSUME Inv, [Next]_vars PROVE Inv'  OBVIOUS
<1>1. CASE setup_gadget  BY <1>1, SetupGadgetKept
<1>2. CASE Mkdir  BY <1>2, MkdirKept
<1>3. CASE find_udc  BY <1>3, FindUdcKept
<1>4. CASE setup_network  BY <1>4, SetupNetworkKept
<1>5. CASE teardown_network  BY <1>5, TeardownNetworkKept
<1>6. CASE teardown_gadget  BY <1>6, TeardownGadgetKept
<1>7. CASE Ends  BY <1>7, EndsKept
<1>8. CASE Killed  BY <1>8, KilledKept
<1>9. CASE SystemdStart
  <2>1. Call("start") /\ svc' = "activating"  BY <1>9, Zenon DEF SystemdStart
  <2> QED  BY <2>1, CallKept, Zenon DEF Job
<1>10. CASE SystemdStop
  <2>1. Call("stop") /\ svc' = "deactivating"  BY <1>10, Zenon DEF SystemdStop
  <2> QED  BY <2>1, CallKept, Zenon DEF Job
<1>11. CASE ByHand
  <2>1. PICK job \in Job : Call(job) /\ UNCHANGED svc  BY <1>11, Zenon DEF ByHand
  <2>2. svc' \in {"inactive", "activating", "active", "deactivating", "failed"}
    BY <2>1, Zenon DEF Inv, Types
  <2> QED  BY <2>1, <2>2, CallKept, Zenon
<1>12. CASE usb_gadget_disconnect  BY <1>12, DisconnectKept
<1>13. CASE usb_host  BY <1>13, UsbHostKept
<1>14. CASE UdcAppears  BY <1>14, UdcAppearsKept
<1>15. CASE UNCHANGED vars
  <2>1. UNCHANGED <<tree, kern, script, svc, pulled>>  BY <1>15, Zenon DEF vars
  <2>2. kern \in Kernel /\ pulled \in BOOLEAN  BY Zenon DEF Inv, Types
  <2> QED  BY <2>1, <2>2, OthersKept, Zenon
<1> QED
  BY <1>1, <1>2, <1>3, <1>4, <1>5, <1>6, <1>7, <1>8, <1>9, <1>10, <1>11, <1>12, <1>13, <1>14,
     <1>15, Zenon DEF Next

LEMMA InvAlways == Spec => []Inv
  BY InvInit, InvStep, PTL DEF Spec

\* The variables have their types, whatever is called in whatever order and killed anywhere.
THEOREM UsbTypeOK == Spec => []TypeOK
<1>1. Inv => TypeOK  BY Zenon DEF Inv, Types, TypeOK, Kernel, Script
<1> QED  BY <1>1, InvAlways, PTL

\* teardown_gadget (usb-gadget-rndis.sh) has an order that configfs never refuses, whatever
\* half of a tree it finds: a stop that ends has removed it all, and with it usb0.
THEOREM UsbStopLeavesNothing == Spec => []StopLeavesNothing
<1>1. Inv => StopLeavesNothing  BY Zenon DEF Inv, Ended, Sound, StopLeavesNothing
<1> QED  BY <1>1, InvAlways, PTL

\* A restart (usb-gadget-rndis.sh) builds the gadget anew over any half of a tree: if none of
\* its steps fails, usb0 is up at its end, unless somebody has unbound the gadget.
THEOREM UsbRestartRepairs == Spec => []RestartRepairs
<1>1. Inv => RestartRepairs  BY Zenon DEF Inv, Ended
<1> QED  BY <1>1, InvAlways, PTL

=============================================================================
