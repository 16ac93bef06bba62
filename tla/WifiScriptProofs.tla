-------------------------- MODULE WifiScriptProofs --------------------------
(***************************************************************************)
(* What the connect script keeps true of the saved profiles, and what its   *)
(* exit codes say, for any networks, any profiles and any number of polls.  *)
(* Every theorem holds with NetworkManager moving between any two steps,    *)
(* with the kill of the HUD at any of them, and with any write failing.     *)
(***************************************************************************)
EXTENDS WifiScript, TLAPS

-----------------------------------------------------------------------------
(* The inductive invariant *)

Joining == ~sh.forget
Tapped == Joining /\ sh.pass = "none"
Typed == Joining /\ sh.pass # "none"

\* The three ways through the script, and where each of them may go on when the radio is
\* not on the network, or when an activation fails; from its choice of a profile on, a
\* join with a password has given it.
ForgetPc == {"idle", "id", "legacy", "list", "del", "inuse", "disc"}
TappedPc == {"idle", "st", "row", "choose", "saved", "judge", "needpw", "openfail",
             "del", "add", "up", "upwait"}
TappedAt == {"idle", "choose", "saved", "judge", "needpw", "openfail"}
TypedPc == {"idle", "st", "row", "choose", "modify", "existed", "del", "add", "modname",
            "retry", "device", "up", "upwait", "explain"}
TypedAt == {"idle", "choose", "explain", "retry", "device"}

Places ==
  /\ sh.forget => sh.pc \in ForgetPc
  /\ Tapped => /\ sh.pc \in TappedPc /\ sh.at \in TappedAt
               /\ sh.fail \in {"idle", "saved", "judge", "openfail"}
  /\ Typed => /\ sh.pc \in TypedPc /\ sh.at \in TypedAt
              /\ sh.fail \in {"idle", "existed", "retry", "device", "st"}
              /\ sh.gave \/ (sh.pc \in {"idle", "st", "row", "choose"}
                             /\ sh.at \in {"idle", "choose"} /\ sh.fail = "idle")

\* The profiles a loop has before it are there; the script has none before it where it
\* starts, or when it is to add one.
TodoKnown == sh.todo \subseteq Known /\ (sh.pc \in {"id", "legacy", "add"} => sh.todo = {})

\* A profile is the network's, or bears a name the script makes for it.
Match(u) == nm.prof[u].ssid = sh.ssid \/ nm.prof[u].name \in {sh.ssid, Legacy(sh.ssid)}

\* What is about to be deleted or changed is the network's, and a tap deletes only when
\* the network is listed as open.
WorkedOn ==
  /\ sh.pc \in {"modify", "up"} /\ sh.u # None => sh.u \in Known
  /\ sh.pc = "modify" => sh.u \in uuids_for_ssid(sh.ssid)
  /\ sh.pc = "del" => \A u \in sh.todo : Match(u)
  /\ sh.pc = "del" /\ Tapped => sh.sec = "open"

\* A stored password that is being tried will be judged, and one that was refused is.
RefusalJudged ==
  /\ sh.pc = "upwait" /\ sh.pass = "none" /\ sh.given => sh.fail = "judge" /\ sh.gave
  /\ sh.refused => \/ sh.pc = "judge" /\ is_wrong_pw(sh)
                   \/ Ended({"3", "killed"})

HasProfile == \E u \in Known : nm.prof[u].ssid = sh.ssid
HoldsPassword ==
  \E u \in Known : nm.prof[u].ssid = sh.ssid /\ nm.prof[u].psk = sh.pass /\ ~nm.prof[u].agent

\* Between the delete and the add there may be none.
NotLost ==
  /\ Joining /\ sh.had /\ ~sh.failed /\ sh.pc \notin {"del", "add"}
  /\ (sh.pc = "idle" => Ended({"0", "1", "2", "3"}))
  => HasProfile

\* Once it was written, the password stays.
Persisted ==
  /\ Typed /\ sh.gave /\ ~sh.failed
  /\ \/ sh.pc \in {"st", "row", "up", "upwait", "existed", "modname", "retry", "device", "explain"}
     \/ Ended({"0"})
  => HoldsPassword

\* The loop of a forget has every profile of the network before it; then none is left.
Forgotten ==
  sh.forget /\ ~sh.failed =>
    /\ sh.pc = "del" => \A u \in Known : nm.prof[u].ssid = sh.ssid => u \in sh.todo
    /\ sh.pc \in {"inuse", "disc"} \/ Ended({"0"}) => ~HasProfile

\* A name of an older build is on no other network's profile.
NamesOK == \A u \in Known, s \in SSID : nm.prof[u].name = Legacy(s) => nm.prof[u].ssid = s

Inv ==
  /\ TypeOK /\ Places /\ TodoKnown /\ WorkedOn /\ RefusalJudged
  /\ NotLost /\ Persisted /\ Forgotten /\ NamesOK

-----------------------------------------------------------------------------
(* The ways a step writes the script's variables *)

\* What a run never changes of itself.
RunKept(s, t) ==
  t.ssid = s.ssid /\ t.forget = s.forget /\ t.pass = s.pass /\ t.sec = s.sec /\ t.had = s.had

\* What the going from place to place leaves alone.
RestKept(s, t) ==
  /\ RunKept(s, t) /\ t.u = s.u /\ t.given = s.given /\ t.todo = s.todo /\ t.gave = s.gave
  /\ t.att = s.att /\ t.rc = s.rc /\ t.failed = s.failed /\ t.refused = s.refused

LEMMA PollBounds == 0 \in 0..Tries /\ Tries \in 0..Tries
<1>1. Tries \in Nat
  BY ScriptAssumption
<1> QED BY <1>1

LEMMA GotoKeeps ==
  ASSUME NEW s \in Sh, NEW l \in Label
  PROVE  LET t == Goto(s, l)
         IN  /\ t \in Sh /\ t.pc = l /\ RestKept(s, t)
             /\ t.at = s.at /\ t.fail = s.fail /\ t.tries = s.tries
BY DEF Goto, Sh, RestKept, RunKept

LEMMA PollKeeps ==
  ASSUME NEW s \in Sh, NEW l \in Label, NEW n \in 0..Tries
  PROVE  LET t == Poll(s, l, n)
         IN  /\ t \in Sh /\ t.pc = "st" /\ RestKept(s, t)
             /\ t.at = l /\ t.fail = s.fail /\ t.tries = n
<1>1. "st" \in Label
  BY DEF Label
<1> QED BY <1>1 DEF Poll, Sh, RestKept, RunKept

LEMMA ExitKeeps ==
  ASSUME NEW s \in Sh, NEW rc \in {"", "0", "1", "2", "3", "killed"}
  PROVE  LET t == Exit(s, rc)
         IN  /\ t \in Sh /\ RunKept(s, t) /\ t.pc = "idle" /\ t.at = "idle" /\ t.fail = "idle"
             /\ t.u = None /\ ~t.given /\ t.todo = {} /\ t.gave = s.gave /\ t.att = {}
             /\ t.rc = rc /\ t.failed = s.failed /\ t.refused = s.refused
<1> DEFINE t == [s EXCEPT !.pc = "idle", !.at = "idle", !.fail = "idle", !.u = None,
                          !.given = FALSE, !.todo = {}, !.tries = 0, !.att = {}, !.rc = rc]
<1>1. Exit(s, rc) = t
  BY DEF Exit, Clear, Sh
<1>2. "idle" \in Label /\ 0 \in 0..Tries
  BY PollBounds DEF Label
<1>3. /\ t \in Sh /\ RunKept(s, t) /\ t.pc = "idle" /\ t.at = "idle" /\ t.fail = "idle"
      /\ t.u = None /\ ~t.given /\ t.todo = {} /\ t.gave = s.gave /\ t.att = {}
      /\ t.rc = rc /\ t.failed = s.failed /\ t.refused = s.refused
  BY <1>2 DEF Sh, RunKept
<1> QED BY <1>1, <1>3

\* As long as no profile changes, what the invariant says of the profiles is the same.
LEMMA Frame ==
  ASSUME nm'.prof = nm.prof, RunKept(sh, sh')
  PROVE  /\ Known' = Known /\ HasProfile' = HasProfile /\ HoldsPassword' = HoldsPassword
         /\ NamesOK' = NamesOK /\ uuids_for_ssid(sh.ssid)' = uuids_for_ssid(sh.ssid)
         /\ \A u \in Uuid : Match(u)' = Match(u)
BY DEF RunKept, Known, HasProfile, HoldsPassword, NamesOK, uuids_for_ssid, Match

\* The end of a join or of a forget, from where it may end.
LEMMA ExitInv ==
  ASSUME Inv, nm' \in Nm, nm'.prof = nm.prof,
         NEW rc \in {"0", "1", "2", "3", "killed"}, sh' = Exit(sh, rc),
         rc # "killed" => sh.pc \notin {"del", "add"} /\ sh.pc # "idle",
         rc = "0" /\ sh.forget /\ ~sh.failed => ~HasProfile,
         rc = "0" /\ Typed => sh.pc \in {"row"},
         sh.refused => rc \in {"3", "killed"}
  PROVE  Inv'
<1>1. sh \in Sh
  BY DEF Inv, TypeOK
<1>2. /\ sh' \in Sh /\ RunKept(sh, sh') /\ sh'.pc = "idle" /\ sh'.at = "idle" /\ sh'.fail = "idle"
      /\ sh'.u = None /\ ~sh'.given /\ sh'.todo = {} /\ sh'.gave = sh.gave /\ sh'.att = {}
      /\ sh'.rc = rc /\ sh'.failed = sh.failed /\ sh'.refused = sh.refused
  <2>1. rc \in {"", "0", "1", "2", "3", "killed"}
    OBVIOUS
  <2> DEFINE t == Exit(sh, rc)
  <2>2. /\ t \in Sh /\ RunKept(sh, t) /\ t.pc = "idle" /\ t.at = "idle" /\ t.fail = "idle"
        /\ t.u = None /\ ~t.given /\ t.todo = {} /\ t.gave = sh.gave /\ t.att = {}
        /\ t.rc = rc /\ t.failed = sh.failed /\ t.refused = sh.refused
    BY <1>1, <2>1, ExitKeeps
  <2> QED BY <2>2
<1>3. /\ Known' = Known /\ HasProfile' = HasProfile /\ HoldsPassword' = HoldsPassword
      /\ NamesOK' = NamesOK
  BY <1>2, Frame
<1>4. TypeOK' /\ NamesOK'
  BY <1>1, <1>2, <1>3 DEF Inv, TypeOK
<1>5. Places'
  BY <1>2 DEF Places, Joining, Tapped, Typed, ForgetPc, TappedPc, TappedAt, TypedPc, TypedAt
<1>6. TodoKnown' /\ WorkedOn' /\ RefusalJudged'
  BY <1>2 DEF TodoKnown, WorkedOn, RefusalJudged, Ended
<1>7. NotLost'
  BY <1>2, <1>3 DEF Inv, NotLost, Joining, RunKept, Ended
<1>8. Persisted'
  BY <1>2, <1>3 DEF Inv, Persisted, Typed, Joining, RunKept, Ended
<1>9. Forgotten'
  BY <1>2, <1>3 DEF Inv, Forgotten, RunKept, Ended
<1> QED BY <1>4, <1>5, <1>6, <1>7, <1>8, <1>9 DEF Inv

\* The going on from a wait or a try to the next place, which touches no profile.
JumpFrom == {"st", "row", "up", "upwait", "judge", "retry", "device"}
JumpTo == {"idle", "st", "row", "choose", "saved", "judge", "needpw", "openfail", "existed",
           "retry", "device", "explain"}

LEMMA JumpInv ==
  ASSUME Inv, nm' = nm, sh' \in Sh, RunKept(sh, sh'), sh'.todo = sh.todo, sh'.gave = sh.gave,
         sh'.failed = sh.failed, sh.pc \in JumpFrom, sh'.pc \in JumpTo, Places', RefusalJudged'
  PROVE  Inv'
<1>1. /\ Known' = Known /\ HasProfile' = HasProfile /\ HoldsPassword' = HoldsPassword
      /\ NamesOK' = NamesOK
  BY Frame
<1>2. TypeOK' /\ NamesOK'
  BY <1>1 DEF Inv, TypeOK
<1>3. ~sh.forget
  BY DEF Inv, Places, ForgetPc, JumpFrom
<1>4. TodoKnown'
  BY <1>1 DEF Inv, TodoKnown, JumpTo
<1>5. WorkedOn'
  BY DEF WorkedOn, JumpTo
<1>6. NotLost'
  BY <1>1 DEF Inv, NotLost, Joining, RunKept, JumpFrom
<1>7. Typed => sh.pc # "judge"
  BY DEF Inv, Places, TypedPc
<1>8. Persisted'
  BY <1>1, <1>7 DEF Inv, Persisted, Typed, Joining, RunKept, JumpFrom
<1>9. Forgotten'
  BY <1>3 DEF Forgotten, RunKept
<1> QED BY <1>2, <1>4, <1>5, <1>6, <1>8, <1>9 DEF Inv

\* When at is where it goes on.
LEMMA PlacesKept ==
  ASSUME Inv, RunKept(sh, sh'), sh'.at = sh.at, sh'.fail = sh.fail, sh'.gave = sh.gave,
         sh.pc \in {"st", "row", "up", "upwait"},
         sh'.pc \in {"st", "row"} \/ sh'.pc = sh.at \/ sh'.pc = sh.fail
  PROVE  Places' /\ sh'.pc \in JumpTo
<1>1. Joining /\ Places
  BY DEF Inv, Places, ForgetPc, Joining
<1>2. CASE Tapped
  BY <1>1, <1>2 DEF Places, Tapped, Typed, Joining, TappedPc, TappedAt, RunKept, JumpTo
<1>3. CASE Typed
  BY <1>1, <1>3 DEF Places, Tapped, Typed, Joining, TypedPc, TypedAt, RunKept, JumpTo
<1> QED BY <1>1, <1>2, <1>3 DEF Tapped, Typed

\* Outside of a judgement and of the end no refusal is pending.
LEMMA NoRefusal ==
  ASSUME Inv, sh.pc \notin {"idle", "judge"}
  PROVE  ~sh.refused
BY DEF Inv, RefusalJudged, Ended

-----------------------------------------------------------------------------
(* Is the radio on the network? *)

LEMMA LiveNoInv ==
  ASSUME Inv, nm' = nm, sh.pc \in {"st", "row"}, LiveNo
  PROVE  Inv'
<1>1. sh \in Sh /\ sh.tries \in Nat /\ sh.at \in Label
  <2>1. sh \in Sh
    BY DEF Inv, TypeOK
  <2>2. sh.tries \in 0..Tries /\ sh.at \in Label
    BY <2>1 DEF Sh
  <2> QED BY <2>1, <2>2
<1>2. /\ sh' \in Sh /\ RestKept(sh, sh') /\ sh'.at = sh.at /\ sh'.fail = sh.fail
      /\ sh'.pc = "st" \/ sh'.pc = sh.at
  <2>1. CASE sh.tries > 0
    <3> DEFINE n == sh.tries - 1
               t == [sh EXCEPT !.pc = "st", !.tries = n]
    <3>1. sh' = t
      BY <2>1 DEF LiveNo
    <3>2. n \in 0..Tries
      <4>1. Tries \in Nat /\ sh.tries \in 0..Tries
        BY <1>1, ScriptAssumption DEF Sh
      <4> QED BY <2>1, <4>1
    <3>3. "st" \in Label
      BY DEF Label
    <3> HIDE DEF n
    <3>4. /\ t \in Sh /\ RestKept(sh, t) /\ t.at = sh.at /\ t.fail = sh.fail /\ t.pc = "st"
      BY <1>1, <3>2, <3>3 DEF Sh, RestKept, RunKept
    <3> QED BY <3>1, <3>4
  <2>2. CASE ~(sh.tries > 0)
    <3>1. sh' = Goto(sh, sh.at)
      BY <2>2 DEF LiveNo
    <3> DEFINE t == Goto(sh, sh.at)
    <3>2. /\ t \in Sh /\ RestKept(sh, t) /\ t.at = sh.at /\ t.fail = sh.fail /\ t.pc = sh.at
      BY <1>1, GotoKeeps
    <3> QED BY <3>1, <3>2
  <2> QED BY <2>1, <2>2
<1>3. Places' /\ sh'.pc \in JumpTo
  BY <1>2, PlacesKept DEF RestKept
<1>4. RefusalJudged'
  <2>1. ~sh'.refused
    BY <1>2, NoRefusal DEF RestKept
  <2> QED BY <1>3, <2>1 DEF RefusalJudged, JumpTo
<1> QED BY <1>2, <1>3, <1>4, JumpInv DEF RestKept, JumpFrom

LEMMA ReadStateInv == ASSUME Inv, ReadState PROVE Inv'
<1>1. CASE nm.st = "connected"
  <2> DEFINE t == Goto(sh, "row")
  <2>1. sh' = t /\ nm' = nm /\ sh.pc = "st"
    BY <1>1 DEF ReadState
  <2>2. sh \in Sh /\ "row" \in Label
    BY DEF Inv, TypeOK, Label
  <2>3. t \in Sh /\ RestKept(sh, t) /\ t.at = sh.at /\ t.fail = sh.fail /\ t.pc = "row"
    BY <2>2, GotoKeeps
  <2> HIDE DEF t
  <2>4. Places' /\ sh'.pc \in JumpTo
    BY <2>1, <2>3, PlacesKept DEF RestKept
  <2>5. RefusalJudged'
    BY <2>1, <2>3, NoRefusal DEF RefusalJudged, RestKept
  <2> QED BY <2>1, <2>3, <2>4, <2>5, JumpInv DEF RestKept, JumpFrom
<1>2. CASE nm.st # "connected"
  BY <1>2, LiveNoInv DEF ReadState
<1> QED BY <1>1, <1>2

LEMMA ReadRowInv == ASSUME Inv, ReadRow PROVE Inv'
<1>1. CASE OnSsid = sh.ssid
  <2>1. sh' = Exit(sh, "0") /\ nm' = nm /\ sh.pc = "row"
    BY <1>1 DEF ReadRow
  <2>2. ~sh.forget
    BY <2>1 DEF Inv, Places, ForgetPc
  <2>3. ~sh.refused
    BY <2>1, NoRefusal
  <2> QED BY <2>1, <2>2, <2>3, ExitInv DEF Inv, TypeOK
<1>2. CASE OnSsid # sh.ssid
  BY <1>2, LiveNoInv DEF ReadRow
<1> QED BY <1>1, <1>2

-----------------------------------------------------------------------------
(* nmcli connection up *)

LEMMA ActivateKeeps ==
  ASSUME NEW n \in Nm, NEW u \in Uuid, NEW x \in Psk \cup {"open"}
  PROVE  Activate(n, u, x) \in Nm /\ Activate(n, u, x).prof = n.prof
BY DEF Activate, Nm, Said

LEMMA SecretsAre ==
  ASSUME TypeOK, NEW u \in Known, NEW given \in Psk, NEW x \in Secrets(u, given)
  PROVE  x \in Psk \cup {"open"}
<1>1. u \in Uuid /\ nm.prof[u] \in Profile
  BY DEF TypeOK, Nm, Known
<1>2. nm.prof[u].psk \in Psk
  BY <1>1 DEF Profile
<1> QED BY <1>2 DEF Secrets, Psk

\* The wait for an activation, in a join that goes on where it should.
LEMMA UpwaitInv ==
  ASSUME Inv, nm' \in Nm, nm'.prof = nm.prof, sh' \in Sh, RunKept(sh, sh'),
         sh'.todo \subseteq sh.todo, sh'.failed = sh.failed, ~sh'.refused,
         sh.pc \in {"up", "saved"}, sh'.pc = "upwait", Places',
         sh'.pass = "none" /\ sh'.given => sh'.fail = "judge" /\ sh'.gave
  PROVE  Inv'
<1>1. /\ Known' = Known /\ HasProfile' = HasProfile /\ HoldsPassword' = HoldsPassword
      /\ NamesOK' = NamesOK
  BY Frame
<1>2. TypeOK' /\ NamesOK'
  BY <1>1 DEF Inv, TypeOK
<1>3. ~sh.forget
  BY DEF Inv, Places, ForgetPc
<1>4. TodoKnown' /\ WorkedOn' /\ RefusalJudged'
  BY <1>1 DEF Inv, TodoKnown, WorkedOn, RefusalJudged
<1>5. NotLost'
  BY <1>1 DEF Inv, NotLost, Joining, RunKept
<1>6. Typed => sh.pc = "up" /\ sh.gave
  BY DEF Inv, Places, TypedPc
<1>7. Persisted'
  BY <1>1, <1>6 DEF Inv, Persisted, Typed, Joining, RunKept
<1>8. Forgotten'
  BY <1>3 DEF Forgotten, RunKept
<1> QED BY <1>2, <1>4, <1>5, <1>7, <1>8 DEF Inv

LEMMA UpInv == ASSUME Inv, Up PROVE Inv'
<1> DEFINE C == IF sh.u # None THEN {sh.u} ELSE Named(sh.ssid)
           g == IF sh.given THEN sh.pass ELSE "none"
<1>1. sh \in Sh /\ sh.pc = "up" /\ sh.fail \in Label /\ TypeOK
  BY DEF Up, Inv, TypeOK, Sh
<1>2. C \subseteq Known /\ C \subseteq Uuid
  BY <1>1 DEF Inv, WorkedOn, Named, Known
<1>3. g \in Psk /\ (sh.pass = "none" => g = "none")
  BY <1>1 DEF Sh, Psk
<1>4. CASE C = {}
  <2> DEFINE t == Goto(sh, sh.fail)
  <2>1. sh' = t /\ nm' = nm
    BY <1>4 DEF Up
  <2>2. t \in Sh /\ RestKept(sh, t) /\ t.at = sh.at /\ t.fail = sh.fail /\ t.pc = sh.fail
    BY <1>1, GotoKeeps
  <2> HIDE DEF t
  <2>3. Places' /\ sh'.pc \in JumpTo
    BY <1>1, <2>1, <2>2, PlacesKept DEF RestKept
  <2>4. RefusalJudged'
    BY <1>1, <2>1, <2>2, <2>3, NoRefusal DEF RefusalJudged, RestKept, JumpTo
  <2> QED BY <1>1, <2>1, <2>2, <2>3, <2>4, JumpInv DEF RestKept, JumpFrom
<1>5. CASE C # {}
  <2>1. PICK u \in C : Send(u, g, sh)
    BY <1>5 DEF Up
  <2>2. PICK x \in Secrets(u, g) : nm' = Activate(nm, u, x)
    BY <2>1 DEF Send
  <2>3. nm' \in Nm /\ nm'.prof = nm.prof
    BY <1>1, <1>2, <1>3, <2>1, <2>2, SecretsAre, ActivateKeeps DEF TypeOK
  <2> DEFINE y == g # "none"
             w == sh.gave \/ y
             t == [sh EXCEPT !.pc = "upwait", !.u = u, !.given = y, !.gave = w]
  <2>4. sh' = t
    BY <2>1 DEF Send
  <2>5. y \in BOOLEAN /\ w \in BOOLEAN /\ (sh.gave => w) /\ "upwait" \in Label /\ u \in Uuid
    BY <1>2, <2>1 DEF Label
  <2>6. sh.pass = "none" => ~y
    BY <1>3
  <2> HIDE DEF y, w, C, g
  <2>7. /\ t \in Sh /\ RunKept(sh, t) /\ t.pc = "upwait" /\ t.todo = sh.todo /\ t.given = y
        /\ t.gave = w /\ t.at = sh.at /\ t.fail = sh.fail /\ t.failed = sh.failed
        /\ t.refused = sh.refused
    BY <1>1, <2>5 DEF Sh, RunKept
  <2> HIDE DEF t
  <2>8. Places'
    BY <1>1, <2>4, <2>5, <2>7 DEF Inv, Places, Joining, Tapped, Typed, RunKept, ForgetPc, TappedPc, TypedPc
  <2>9. ~sh'.refused
    BY <1>1, <2>4, <2>7, NoRefusal
  <2> QED BY <1>1, <2>3, <2>4, <2>6, <2>7, <2>8, <2>9, UpwaitInv DEF RunKept
<1> QED BY <1>4, <1>5

LEMMA UpWaitInv == ASSUME Inv, UpWait PROVE Inv'
<1>1. /\ sh \in Sh /\ nm \in Nm /\ sh.pc = "upwait" /\ sh.fail \in Label /\ sh.at \in Label
      /\ nm' = nm /\ ~sh.refused
  BY NoRefusal DEF UpWait, Inv, TypeOK, Sh
<1>2. CASE nm.st = "connected"
  <2> DEFINE t == Poll(sh, sh.at, Tries)
  <2>1. sh' = t
    BY <1>2 DEF UpWait
  <2>2. t \in Sh /\ RestKept(sh, t) /\ t.at = sh.at /\ t.fail = sh.fail /\ t.pc = "st"
    BY <1>1, PollBounds, PollKeeps
  <2> HIDE DEF t
  <2>3. Places' /\ sh'.pc \in JumpTo
    BY <1>1, <2>1, <2>2, PlacesKept DEF RestKept
  <2>4. RefusalJudged'
    BY <1>1, <2>1, <2>2 DEF RefusalJudged, RestKept
  <2> QED BY <1>1, <2>1, <2>2, <2>3, <2>4, JumpInv DEF RestKept, JumpFrom
<1>3. CASE nm.st # "connected"
  <2> DEFINE a == sh.att \cup ({nm.said} \ {""})
             b == sh.refused \/ (sh.pass = "none" /\ sh.given /\ nm.said # "")
             r == [sh EXCEPT !.att = a, !.refused = b]
             t == IF sh.fail = "st" THEN Poll(r, sh.at, Tries) ELSE Goto(r, sh.fail)
  <2>1. sh' = t
    BY <1>3 DEF UpWait
  <2>2. a \in SUBSET {"wrong", "secrets"} /\ b \in BOOLEAN
    BY <1>1 DEF Sh, Nm, Said
  <2>3. b => sh.pass = "none" /\ sh.given /\ ("wrong" \in a \/ "secrets" \in a)
    BY <1>1 DEF Nm, Said
  <2> HIDE DEF a, b
  <2>4. r \in Sh /\ r.att = a /\ r.refused = b /\ RunKept(sh, r) /\ r.todo = sh.todo
        /\ r.gave = sh.gave /\ r.failed = sh.failed /\ r.at = sh.at /\ r.fail = sh.fail
    BY <1>1, <2>2 DEF Sh, RunKept
  <2> HIDE DEF r
  <2>5. /\ t \in Sh /\ RestKept(r, t) /\ t.at = r.at /\ t.fail = r.fail
        /\ t.pc = IF sh.fail = "st" THEN "st" ELSE sh.fail
    <3> DEFINE p == Poll(r, sh.at, Tries)
               q == Goto(r, sh.fail)
    <3>1. p \in Sh /\ RestKept(r, p) /\ p.at = sh.at /\ p.fail = r.fail /\ p.pc = "st"
      BY <1>1, <2>4, PollBounds, PollKeeps
    <3>2. q \in Sh /\ RestKept(r, q) /\ q.at = r.at /\ q.fail = r.fail /\ q.pc = sh.fail
      BY <1>1, <2>4, GotoKeeps
    <3>3. t = IF sh.fail = "st" THEN p ELSE q
      OBVIOUS
    <3> HIDE DEF p, q, t
    <3> QED BY <2>4, <3>1, <3>2, <3>3
  <2> HIDE DEF t
  <2>6. /\ RunKept(sh, t) /\ t.todo = sh.todo /\ t.gave = sh.gave /\ t.failed = sh.failed
        /\ t.at = sh.at /\ t.fail = sh.fail /\ t.att = a /\ t.refused = b /\ t.pc = sh.fail
    BY <2>4, <2>5 DEF RestKept, RunKept
  <2>7. Places' /\ sh'.pc \in JumpTo
    BY <1>1, <2>1, <2>6, PlacesKept
  <2>8. RefusalJudged'
    <3>1. sh'.pc # "upwait"
      BY <2>7 DEF JumpTo
    <3>2. ASSUME b PROVE sh'.pc = "judge" /\ is_wrong_pw(sh')
      <4>1. sh.fail = "judge" /\ sh.gave
        BY <1>1, <2>3, <3>2 DEF Inv, RefusalJudged
      <4> QED BY <2>1, <2>3, <2>6, <3>2, <4>1 DEF is_wrong_pw
    <3>3. is_wrong_pw(sh)' = is_wrong_pw(sh')
      BY DEF is_wrong_pw
    <3> QED BY <2>1, <2>6, <3>1, <3>2, <3>3 DEF RefusalJudged
  <2> QED BY <1>1, <2>1, <2>5, <2>6, <2>7, <2>8, JumpInv DEF JumpFrom
<1> QED BY <1>2, <1>3

-----------------------------------------------------------------------------
(* Without a password *)

\* A step to the deletion of the network's profiles.
LEMMA DeleteInv ==
  ASSUME Inv, nm' = nm, NEW s \in Sh, RunKept(sh, s), Typed => s.gave,
         s.failed = sh.failed, ~s.refused, s.at = sh.at, s.fail = sh.fail, sh' = Delete(s),
         Joining, sh.pc \in {"choose", "needpw", "existed"}, Tapped => sh.sec = "open"
  PROVE  Inv'
<1> DEFINE D == uuids_for_ssid(s.ssid)
           t == [s EXCEPT !.pc = "del", !.todo = D]
<1>1. D \subseteq Known /\ Known \subseteq Uuid /\ D \in SUBSET Uuid /\ "del" \in Label
  BY DEF uuids_for_ssid, Known, Label
<1>2. \A u \in D : Match(u)
  BY DEF uuids_for_ssid, Match, RunKept
<1>3. sh' = t
  BY DEF Delete
<1> HIDE DEF D
<1>4. /\ t \in Sh /\ RunKept(s, t) /\ t.pc = "del" /\ t.todo = D /\ t.at = s.at /\ t.fail = s.fail
      /\ t.gave = s.gave /\ t.failed = s.failed /\ t.refused = s.refused
  BY <1>1 DEF Sh, RunKept
<1> HIDE DEF t
<1>5. RunKept(sh, sh')
  BY <1>3, <1>4 DEF RunKept
<1>6. Known' = Known /\ NamesOK' = NamesOK /\ \A u \in Uuid : Match(u)' = Match(u)
  BY <1>5, Frame
<1>7. TypeOK' /\ NamesOK'
  BY <1>3, <1>4, <1>6 DEF Inv, TypeOK
<1>8. Places'
  BY <1>3, <1>4, <1>5 DEF Inv, Places, Joining, Tapped, Typed, RunKept, TappedPc, TypedPc
<1>9. TodoKnown' /\ RefusalJudged' /\ NotLost' /\ Persisted'
  BY <1>1, <1>3, <1>4, <1>6 DEF TodoKnown, RefusalJudged, NotLost, Persisted, Ended
<1>10. WorkedOn'
  <2>1. \A u \in sh'.todo : Match(u)'
    BY <1>1, <1>2, <1>3, <1>4, <1>6
  <2>2. Tapped' => sh'.sec = "open"
    BY <1>5 DEF Tapped, Joining, RunKept
  <2> QED BY <1>3, <1>4, <2>1, <2>2 DEF WorkedOn
<1>11. Forgotten'
  BY <1>5 DEF Forgotten, Joining, RunKept
<1> QED BY <1>7, <1>8, <1>9, <1>10, <1>11 DEF Inv

LEMMA ChooseInv == ASSUME Inv, Choose PROVE Inv'
<1> DEFINE D == uuids_for_ssid(sh.ssid)
<1>1. /\ sh \in Sh /\ sh.pc = "choose" /\ nm' = nm /\ Joining /\ ~sh.refused
  BY NoRefusal DEF Choose, Inv, TypeOK, Places, ForgetPc, Joining
<1>2. D \subseteq Known /\ D \in SUBSET Uuid
  BY DEF uuids_for_ssid, Known
<1>3. CASE sh.pass = "none"
  <2> DEFINE t == [sh EXCEPT !.pc = "saved", !.todo = D]
  <2>1. sh' = t
    BY <1>3 DEF Choose
  <2>2. "saved" \in Label
    BY DEF Label
  <2> HIDE DEF D
  <2>3. /\ t \in Sh /\ RunKept(sh, t) /\ t.pc = "saved" /\ t.todo = D /\ t.at = sh.at
        /\ t.fail = sh.fail /\ t.gave = sh.gave /\ t.failed = sh.failed /\ t.refused = sh.refused
    BY <1>1, <1>2, <2>2 DEF Sh, RunKept
  <2> HIDE DEF t
  <2>4. /\ Known' = Known /\ HasProfile' = HasProfile /\ NamesOK' = NamesOK
    BY <1>1, <2>1, <2>3, Frame
  <2>5. TypeOK' /\ NamesOK'
    BY <1>1, <2>1, <2>3, <2>4 DEF Inv, TypeOK
  <2>6. Places'
    BY <1>1, <1>3, <2>1, <2>3 DEF Inv, Places, Joining, Tapped, Typed, RunKept, TappedPc
  <2>7. TodoKnown' /\ RefusalJudged' /\ WorkedOn' /\ Persisted'
    BY <1>1, <1>2, <1>3, <2>1, <2>3, <2>4 DEF TodoKnown, RefusalJudged, WorkedOn, Persisted, Typed, RunKept
  <2>8. NotLost' /\ Forgotten'
    BY <1>1, <2>1, <2>3, <2>4 DEF Inv, NotLost, Forgotten, Joining, RunKept
  <2> QED BY <2>5, <2>6, <2>7, <2>8 DEF Inv
<1>4. CASE sh.pass # "none"
  <2> DEFINE r == [sh EXCEPT !.gave = TRUE]
  <2>1. IF D = {} THEN sh' = Delete(r) ELSE \E u \in D : sh' = [r EXCEPT !.pc = "modify", !.u = u]
    BY <1>4 DEF Choose
  <2>2. /\ r \in Sh /\ RunKept(sh, r) /\ r.gave /\ r.failed = sh.failed /\ r.refused = sh.refused
        /\ r.at = sh.at /\ r.fail = sh.fail /\ r.todo = sh.todo
    BY <1>1 DEF Sh, RunKept
  <2> HIDE DEF r
  <2>3. CASE D = {}
    BY <1>1, <1>4, <2>1, <2>2, <2>3, DeleteInv DEF Typed, Tapped
  <2>4. CASE D # {}
    <3>1. PICK u \in D : sh' = [r EXCEPT !.pc = "modify", !.u = u]
      BY <2>1, <2>4
    <3> DEFINE t == [r EXCEPT !.pc = "modify", !.u = u]
    <3>2. "modify" \in Label /\ u \in Uuid /\ u \in Known /\ u \in uuids_for_ssid(sh.ssid)
      BY <1>2, <3>1 DEF Label
    <3>3. /\ t \in Sh /\ RunKept(r, t) /\ t.pc = "modify" /\ t.u = u /\ t.todo = r.todo /\ t.at = r.at
          /\ t.fail = r.fail /\ t.gave = r.gave /\ t.failed = r.failed /\ t.refused = r.refused
      BY <2>2, <3>2 DEF Sh, RunKept
    <3>4. sh' = t
      BY <3>1
    <3> HIDE DEF t, D
    <3>5. RunKept(sh, sh')
      BY <2>2, <3>3, <3>4 DEF RunKept
    <3>6. /\ Known' = Known /\ HasProfile' = HasProfile /\ NamesOK' = NamesOK
          /\ uuids_for_ssid(sh.ssid)' = uuids_for_ssid(sh.ssid)
      BY <1>1, <3>5, Frame
    <3>7. TypeOK' /\ NamesOK'
      BY <1>1, <3>3, <3>4, <3>6 DEF Inv, TypeOK
    <3>8. Places'
      BY <1>1, <1>4, <2>2, <3>3, <3>4, <3>5 DEF Inv, Places, Joining, Tapped, Typed, RunKept, TypedPc
    <3>9. TodoKnown' /\ RefusalJudged' /\ WorkedOn' /\ Persisted'
      BY <1>1, <2>2, <3>2, <3>3, <3>4, <3>6 DEF Inv, TodoKnown, RefusalJudged, WorkedOn, Persisted, Ended
    <3>10. NotLost' /\ Forgotten'
      BY <1>1, <2>2, <3>3, <3>4, <3>5, <3>6 DEF Inv, NotLost, Forgotten, Joining, RunKept
    <3> QED BY <3>7, <3>8, <3>9, <3>10 DEF Inv
  <2> QED BY <2>3, <2>4
<1> QED BY <1>3, <1>4


LEMMA TrySavedInv == ASSUME Inv, TrySaved PROVE Inv'
<1>1. /\ sh \in Sh /\ nm \in Nm /\ sh.pc = "saved" /\ TypeOK /\ Tapped /\ ~sh.refused
  BY NoRefusal DEF TrySaved, Inv, TypeOK, Places, ForgetPc, TypedPc, Joining, Tapped, Typed
<1>2. CASE sh.todo = {} /\ sh' = Poll(sh, "needpw", 0) /\ UNCHANGED nm
  <2> DEFINE t == Poll(sh, "needpw", 0)
  <2>1. "needpw" \in Label
    BY DEF Label
  <2>2. t \in Sh /\ t.pc = "st" /\ RestKept(sh, t) /\ t.at = "needpw" /\ t.fail = sh.fail
    BY <1>1, <2>1, PollBounds, PollKeeps
  <2>3. sh' = t /\ nm' = nm
    BY <1>2
  <2> HIDE DEF t
  <2>4. /\ Known' = Known /\ HasProfile' = HasProfile /\ NamesOK' = NamesOK
    BY <2>2, <2>3, Frame DEF RestKept
  <2>5. TypeOK' /\ NamesOK'
    BY <1>1, <2>2, <2>3, <2>4 DEF Inv, TypeOK
  <2>6. Places'
    BY <1>1, <2>2, <2>3 DEF Inv, Places, Joining, Tapped, Typed, RestKept, RunKept, TappedPc, TappedAt
  <2>7. TodoKnown' /\ RefusalJudged' /\ WorkedOn' /\ Persisted'
    BY <1>1, <2>2, <2>3, <2>4 DEF Inv, TodoKnown, RefusalJudged, WorkedOn, Persisted, Tapped, Typed, RestKept, RunKept
  <2>8. NotLost' /\ Forgotten'
    BY <1>1, <2>2, <2>3, <2>4 DEF Inv, NotLost, Forgotten, Joining, Tapped, RestKept, RunKept
  <2> QED BY <2>5, <2>6, <2>7, <2>8 DEF Inv
<1>3. ASSUME NEW u \in sh.todo,
             LET p == nm.prof[u]
                 s == [sh EXCEPT !.todo = @ \ {u}]
                 next == IF p.km = "open" THEN "saved" ELSE "judge"
             IN  IF p.km # "open" /\ p.psk = "none" /\ p.agent THEN sh' = s /\ UNCHANGED nm
                 ELSE Send(u, IF p.km = "open" THEN "none" ELSE p.psk,
                           [s EXCEPT !.at = next, !.fail = next])
      PROVE  Inv'
  <2> DEFINE p == nm.prof[u]
             D == sh.todo \ {u}
             s == [sh EXCEPT !.todo = D]
             next == IF p.km = "open" THEN "saved" ELSE "judge"
             g == IF p.km = "open" THEN "none" ELSE p.psk
             a == [s EXCEPT !.at = next, !.fail = next]
  <2>1. u \in Known /\ u \in Uuid /\ p \in Profile /\ D \in SUBSET Uuid /\ D \subseteq sh.todo
    BY <1>1 DEF Inv, TodoKnown, Known, Nm, Sh
  <2>2. g \in Psk /\ (next = "judge" \/ g = "none") /\ next \in {"saved", "judge"} /\ next \in Label
    BY <2>1 DEF Profile, Psk, Label
  <2>3. \/ sh' = s /\ nm' = nm
        \/ Send(u, g, a)
    BY <1>3
  <2> HIDE DEF p, D, next, g
  <2>4. /\ s \in Sh /\ RunKept(sh, s) /\ s.pc = sh.pc /\ s.todo = D /\ s.gave = sh.gave
        /\ s.failed = sh.failed /\ s.refused = sh.refused /\ s.at = sh.at /\ s.fail = sh.fail
    BY <1>1, <2>1 DEF Sh, RunKept
  <2> HIDE DEF s
  <2>5. CASE sh' = s /\ nm' = nm
    <3>1. /\ Known' = Known /\ HasProfile' = HasProfile /\ NamesOK' = NamesOK
      BY <2>4, <2>5, Frame
    <3>2. TypeOK' /\ NamesOK'
      BY <1>1, <2>4, <2>5, <3>1 DEF Inv, TypeOK
    <3>3. Places'
      BY <1>1, <2>4, <2>5 DEF Inv, Places, Joining, Tapped, Typed, RunKept
    <3>4. TodoKnown' /\ RefusalJudged' /\ WorkedOn' /\ Persisted'
      BY <1>1, <2>1, <2>4, <2>5, <3>1 DEF Inv, TodoKnown, RefusalJudged, WorkedOn, Persisted, Tapped, Typed, RunKept
    <3>5. NotLost' /\ Forgotten'
      BY <1>1, <2>4, <2>5, <3>1 DEF Inv, NotLost, Forgotten, Joining, Tapped, RunKept
    <3> QED BY <3>2, <3>3, <3>4, <3>5 DEF Inv
  <2>6. CASE Send(u, g, a)
    <3>1. PICK x \in Secrets(u, g) : nm' = Activate(nm, u, x)
      BY <2>6 DEF Send
    <3>2. nm' \in Nm /\ nm'.prof = nm.prof
      BY <1>1, <2>1, <2>2, <3>1, SecretsAre, ActivateKeeps
    <3>3. /\ a \in Sh /\ RunKept(sh, a) /\ a.todo = D /\ a.gave = sh.gave
          /\ a.failed = sh.failed /\ a.refused = sh.refused /\ a.at = next /\ a.fail = next
      BY <2>2, <2>4 DEF Sh, RunKept
    <3> HIDE DEF a
    <3> DEFINE y == g # "none"
               w == a.gave \/ y
               t == [a EXCEPT !.pc = "upwait", !.u = u, !.given = y, !.gave = w]
    <3>4. sh' = t
      BY <2>6 DEF Send
    <3>5. y \in BOOLEAN /\ w \in BOOLEAN /\ (y => w /\ next = "judge") /\ "upwait" \in Label
      BY <2>2, <3>3 DEF Label, Sh
    <3> HIDE DEF y, w
    <3>6. /\ t \in Sh /\ RunKept(a, t) /\ t.pc = "upwait" /\ t.todo = a.todo /\ t.given = y
          /\ t.gave = w /\ t.at = a.at /\ t.fail = a.fail /\ t.failed = a.failed
          /\ t.refused = a.refused
      BY <2>1, <3>3, <3>5 DEF Sh, RunKept
    <3> HIDE DEF t
    <3>7. RunKept(sh, sh')
      BY <3>3, <3>4, <3>6 DEF RunKept
    <3>8. Places'
      BY <1>1, <2>2, <3>3, <3>4, <3>6, <3>7 DEF Inv, Places, Joining, Tapped, Typed, RunKept, TappedPc, TappedAt
    <3> QED BY <1>1, <2>1, <3>2, <3>3, <3>4, <3>5, <3>6, <3>7, <3>8, UpwaitInv
  <2> QED BY <2>3, <2>5, <2>6
<1> QED BY <1>2, <1>3 DEF TrySaved

LEMMA JudgeInv == ASSUME Inv, Judge PROVE Inv'
<1>1. sh \in Sh /\ sh.pc = "judge" /\ nm' = nm /\ Tapped
  BY DEF Judge, Inv, TypeOK, Places, ForgetPc, TypedPc, Joining, Tapped, Typed
<1>2. CASE is_wrong_pw(sh)
  BY <1>1, <1>2, ExitInv DEF Judge, Inv, TypeOK
<1>3. CASE ~is_wrong_pw(sh)
  <2> DEFINE t == Goto(sh, "saved")
  <2>1. sh' = t
    BY <1>3 DEF Judge
  <2>2. "saved" \in Label
    BY DEF Label
  <2>3. t \in Sh /\ RestKept(sh, t) /\ t.at = sh.at /\ t.fail = sh.fail /\ t.pc = "saved"
    BY <1>1, <2>2, GotoKeeps
  <2> HIDE DEF t
  <2>4. ~sh.refused
    BY <1>1, <1>3 DEF Inv, RefusalJudged, Ended
  <2>5. RefusalJudged'
    BY <2>1, <2>3, <2>4 DEF RefusalJudged, RestKept
  <2>6. Places' /\ sh'.pc \in JumpTo
    BY <1>1, <2>1, <2>3 DEF Inv, Places, Joining, Tapped, Typed, RestKept, RunKept, TappedPc, JumpTo
  <2> QED BY <1>1, <2>1, <2>3, <2>5, <2>6, JumpInv DEF RestKept, JumpFrom
<1> QED BY <1>2, <1>3

LEMMA NeedPasswordInv == ASSUME Inv, NeedPassword PROVE Inv'
<1>1. /\ sh \in Sh /\ sh.pc = "needpw" /\ nm' = nm /\ Tapped /\ ~sh.refused
  BY NoRefusal DEF NeedPassword, Inv, TypeOK, Places, ForgetPc, TypedPc, Joining, Tapped, Typed
<1>2. CASE sh.sec = "open"
  <2>1. sh' = Delete(sh)
    BY <1>2 DEF NeedPassword
  <2>2. RunKept(sh, sh) /\ ~Typed /\ Joining
    BY <1>1 DEF RunKept, Tapped, Typed
  <2> QED BY <1>1, <1>2, <2>1, <2>2, DeleteInv
<1>3. CASE sh.sec # "open"
  <2>1. sh' = Exit(sh, "2")
    BY <1>3 DEF NeedPassword
  <2> QED BY <1>1, <2>1, ExitInv DEF Inv, TypeOK
<1> QED BY <1>2, <1>3

LEMMA OpenFailedInv == ASSUME Inv, OpenFailed PROVE Inv'
<1>1. sh.pc = "openfail" /\ sh' = Exit(sh, "1") /\ nm' = nm /\ ~sh.refused
  BY NoRefusal DEF OpenFailed
<1> QED BY <1>1, ExitInv DEF Inv, TypeOK

-----------------------------------------------------------------------------
(* What a write does to the profiles *)

LEMMA ProfileWritten ==
  ASSUME NEW n \in Nm, NEW p \in [Uuid -> Profile \cup {None}]
  PROVE  [n EXCEPT !.prof = p] \in Nm /\ [n EXCEPT !.prof = p].prof = p
BY DEF Nm

LEMMA WithPasswordIs ==
  ASSUME sh \in Sh, NEW p \in Profile
  PROVE  /\ WithPassword(p) \in Profile /\ WithPassword(p).ssid = p.ssid
         /\ WithPassword(p).name = p.name
         /\ WithPassword(p).psk = sh.pass /\ ~WithPassword(p).agent
<1> DEFINE k == key_mgmt(sh.sec)
           q == [p EXCEPT !.km = k, !.psk = sh.pass, !.agent = FALSE]
<1>1. k \in {"open", "psk", "sae"} /\ sh.pass \in Psk
  BY DEF key_mgmt, Sh
<1>2. WithPassword(p) = q
  BY DEF WithPassword
<1> HIDE DEF k
<1>3. q \in Profile /\ q.ssid = p.ssid /\ q.name = p.name /\ q.psk = sh.pass /\ ~q.agent
  BY <1>1 DEF Profile
<1> QED BY <1>2, <1>3

LEMMA NewProfileIs ==
  ASSUME sh \in Sh
  PROVE  /\ NewProfile \in Profile /\ NewProfile.ssid = sh.ssid /\ NewProfile.name = sh.ssid
         /\ NewProfile.psk = sh.pass /\ ~NewProfile.agent
<1> DEFINE k == IF sh.pass = "none" THEN "open" ELSE key_mgmt(sh.sec)
           q == [ssid |-> sh.ssid, name |-> sh.ssid, psk |-> sh.pass, agent |-> FALSE, km |-> k]
<1>1. k \in {"open", "psk", "sae"} /\ sh.pass \in Psk /\ sh.ssid \in SSID
  BY DEF key_mgmt, Sh
<1>2. NewProfile = q
  BY DEF NewProfile
<1> HIDE DEF k
<1>3. q \in Profile /\ q.ssid = sh.ssid /\ q.name = sh.ssid /\ q.psk = sh.pass /\ ~q.agent
  BY <1>1 DEF Profile
<1> QED BY <1>2, <1>3

\* A profile that gets another password stays the one of its network, under its name.
LEMMA Renewed ==
  ASSUME nm \in Nm, NEW u \in Known, NEW q \in Profile, nm'.prof = [nm.prof EXCEPT ![u] = q],
         q.ssid = nm.prof[u].ssid, q.name = nm.prof[u].name, NamesOK, RunKept(sh, sh')
  PROVE  /\ nm'.prof \in [Uuid -> Profile \cup {None}]
         /\ Known' = Known /\ HasProfile' = HasProfile /\ NamesOK'
         /\ q.psk = sh.pass /\ ~q.agent /\ (HoldsPassword \/ q.ssid = sh.ssid) => HoldsPassword'
<1>1. u \in Uuid /\ nm.prof \in [Uuid -> Profile \cup {None}] /\ q # None
  BY ScriptAssumption DEF Nm, Known
<1>2. /\ nm'.prof \in [Uuid -> Profile \cup {None}] /\ nm'.prof[u] = q
      /\ \A v \in Uuid : v # u => nm'.prof[v] = nm.prof[v]
  BY <1>1
<1>3. Known' = Known
  BY <1>1, <1>2 DEF Known
<1>4. \A v \in Uuid : nm'.prof[v].ssid = nm.prof[v].ssid /\ nm'.prof[v].name = nm.prof[v].name
  BY <1>1, <1>2
<1>5. Known \subseteq Uuid
  BY DEF Known
<1>6. HasProfile' = HasProfile /\ NamesOK'
  BY <1>3, <1>4, <1>5 DEF HasProfile, NamesOK, RunKept
<1>7. ASSUME q.psk = sh.pass, ~q.agent, HoldsPassword \/ q.ssid = sh.ssid PROVE HoldsPassword'
  <2>1. CASE q.ssid = sh.ssid
    BY <1>1, <1>2, <1>3, <1>7, <2>1 DEF HoldsPassword, RunKept
  <2>2. CASE q.ssid # sh.ssid
    <3>1. PICK v \in Known : nm.prof[v].ssid = sh.ssid /\ nm.prof[v].psk = sh.pass /\ ~nm.prof[v].agent
      BY <1>7, <2>2 DEF HoldsPassword
    <3>2. v # u
      BY <2>2, <3>1
    <3> QED BY <1>2, <1>3, <1>5, <3>1, <3>2 DEF HoldsPassword, RunKept
  <2> QED BY <2>1, <2>2
<1> QED BY <1>2, <1>3, <1>6, <1>7

\* A profile that is added is the network's, under its name.
LEMMA Added ==
  ASSUME nm \in Nm, sh \in Sh, NEW u \in Uuid \ Known, NEW q \in Profile,
         nm'.prof = [nm.prof EXCEPT ![u] = q], q.ssid = sh.ssid, q.name = sh.ssid,
         NamesOK, RunKept(sh, sh')
  PROVE  /\ nm'.prof \in [Uuid -> Profile \cup {None}]
         /\ Known \subseteq Known' /\ HasProfile' /\ NamesOK'
         /\ q.psk = sh.pass /\ ~q.agent => HoldsPassword'
<1>1. nm.prof \in [Uuid -> Profile \cup {None}] /\ q # None /\ sh.ssid \in SSID /\ nm.prof[u] = None
  BY ScriptAssumption DEF Nm, Known, Sh
<1>2. /\ nm'.prof \in [Uuid -> Profile \cup {None}] /\ nm'.prof[u] = q
      /\ \A v \in Uuid : v # u => nm'.prof[v] = nm.prof[v]
  BY <1>1
<1>3. u \in Known' /\ Known \subseteq Known' /\ Known' \subseteq Uuid
  BY <1>1, <1>2 DEF Known
<1>4. HasProfile'
  BY <1>2, <1>3 DEF HasProfile, RunKept
<1>5. NamesOK'
  <2> SUFFICES ASSUME NEW v \in Known', NEW s \in SSID, nm'.prof[v].name = Legacy(s)
               PROVE  nm'.prof[v].ssid = s
    BY DEF NamesOK
  <2>1. v # u
    BY <1>1, <1>2, LegacyAssumption
  <2>2. v \in Known /\ nm.prof[v] = nm'.prof[v]
    BY <1>2, <1>3, <2>1 DEF Known
  <2> QED BY <2>2 DEF NamesOK
<1>6. q.psk = sh.pass /\ ~q.agent => HoldsPassword'
  BY <1>2, <1>3 DEF HoldsPassword, RunKept
<1> QED BY <1>2, <1>3, <1>4, <1>5, <1>6

\* Of the profiles that are deleted nothing is left, and the others are as they were.
LEMMA Removed ==
  ASSUME nm \in Nm, NEW D, nm' = Remove(nm, D), NamesOK, RunKept(sh, sh')
  PROVE  /\ nm' \in Nm /\ Known' = Known \ D /\ NamesOK'
         /\ \A v \in Uuid \ D : nm'.prof[v] = nm.prof[v]
<1> DEFINE p == [u \in Uuid |-> IF u \in D THEN None ELSE nm.prof[u]]
<1>1. nm.prof \in [Uuid -> Profile \cup {None}]
  BY DEF Nm
<1>2. /\ p \in [Uuid -> Profile \cup {None}]
      /\ \A v \in Uuid : p[v] = IF v \in D THEN None ELSE nm.prof[v]
  BY <1>1
<1>3. nm' = IF nm.uuid \in D THEN [Down(nm, "") EXCEPT !.prof = p] ELSE [nm EXCEPT !.prof = p]
  BY DEF Remove
<1> HIDE DEF p
<1>4. nm' \in Nm /\ nm'.prof = p
  <2> DEFINE d == Down(nm, "")
  <2>1. d \in Nm
    BY DEF Down, Nm, Said
  <2>2. nm' = [d EXCEPT !.prof = p] \/ nm' = [nm EXCEPT !.prof = p]
    BY <1>3
  <2> HIDE DEF d
  <2>3. [d EXCEPT !.prof = p] \in Nm /\ [d EXCEPT !.prof = p].prof = p
    BY <1>2, <2>1, ProfileWritten
  <2>4. [nm EXCEPT !.prof = p] \in Nm /\ [nm EXCEPT !.prof = p].prof = p
    BY <1>2, ProfileWritten
  <2> QED BY <2>2, <2>3, <2>4
<1>5. Known' = Known \ D
  BY <1>2, <1>4 DEF Known
<1>6. NamesOK'
  BY <1>2, <1>4, <1>5 DEF NamesOK, Known
<1> QED BY <1>2, <1>4, <1>5, <1>6

-----------------------------------------------------------------------------
(* With a password *)

LEMMA ModifyExistedInv == ASSUME Inv, ModifyExisted PROVE Inv'
<1> DEFINE q == WithPassword(nm.prof[sh.u])
           p == [nm.prof EXCEPT ![sh.u] = q]
           t == [sh EXCEPT !.pc = "up", !.given = TRUE, !.at = "explain", !.fail = "existed"]
           f == [t EXCEPT !.failed = TRUE]
<1>1. /\ sh \in Sh /\ nm \in Nm /\ sh.pc = "modify" /\ Typed /\ sh.gave /\ ~sh.refused
      /\ sh.u \in uuids_for_ssid(sh.ssid) /\ sh.ssid \in SSID
  <2>1. /\ sh \in Sh /\ nm \in Nm /\ sh.pc = "modify" /\ Typed /\ ~sh.refused
        /\ sh.u \in uuids_for_ssid(sh.ssid)
    BY NoRefusal DEF ModifyExisted, Inv, TypeOK, Places, ForgetPc, TappedPc, WorkedOn, Joining, Tapped, Typed
  <2> QED BY <2>1 DEF Inv, Places, Sh
<1>2. sh.u \in Known /\ sh.u \in Uuid /\ nm.prof[sh.u] \in Profile /\ nm.prof[sh.u].ssid = sh.ssid
  <2>1. sh.u \in Known /\ (nm.prof[sh.u].ssid = sh.ssid \/ nm.prof[sh.u].name = Legacy(sh.ssid))
    BY <1>1 DEF uuids_for_ssid
  <2> QED BY <1>1, <2>1 DEF Known, Nm, Inv, NamesOK
<1>3. \/ nm' = [nm EXCEPT !.prof = p] /\ sh' = t
      \/ nm' = nm /\ sh' = f
  BY Zenon DEF ModifyExisted, MayWrite
<1>4. /\ q \in Profile /\ q.ssid = sh.ssid /\ q.name = nm.prof[sh.u].name
      /\ q.psk = sh.pass /\ ~q.agent
  BY <1>1, <1>2, WithPasswordIs
<1>5. p \in [Uuid -> Profile \cup {None}]
  BY <1>1, <1>2, <1>4 DEF Nm
<1> HIDE DEF q
<1>6. /\ t \in Sh /\ RunKept(sh, t) /\ t.pc = "up" /\ t.given /\ t.at = "explain" /\ t.fail = "existed"
      /\ t.u = sh.u /\ t.todo = sh.todo /\ t.gave = sh.gave /\ t.refused = sh.refused
      /\ t.failed = sh.failed
  <2>1. {"up", "explain", "existed"} \subseteq Label
    BY DEF Label
  <2> QED BY <1>1, <2>1 DEF Sh, RunKept
<1> HIDE DEF t
<1>7. /\ f \in Sh /\ RunKept(sh, f) /\ f.pc = "up" /\ f.at = "explain" /\ f.fail = "existed"
      /\ f.u = sh.u /\ f.todo = sh.todo /\ f.gave = sh.gave /\ f.refused = sh.refused /\ f.failed
  BY <1>6 DEF Sh, RunKept
<1> HIDE DEF f
<1>8. /\ sh' \in Sh /\ RunKept(sh, sh') /\ sh'.pc = "up" /\ sh'.at = "explain"
      /\ sh'.fail = "existed" /\ sh'.u = sh.u /\ sh'.todo = sh.todo /\ sh'.gave = sh.gave
      /\ sh'.refused = sh.refused /\ (sh.failed => sh'.failed)
  BY <1>3, <1>6, <1>7
<1>9. /\ nm' \in Nm /\ Known' = Known /\ HasProfile' = HasProfile /\ NamesOK'
      /\ sh'.failed \/ HoldsPassword'
  <2>1. CASE nm' = [nm EXCEPT !.prof = p] /\ sh' = t
    <3>1. nm' \in Nm /\ nm'.prof = p
      BY <1>1, <1>5, <2>1, ProfileWritten
    <3> QED BY <1>1, <1>2, <1>4, <1>8, <3>1, Renewed DEF Inv
  <2>2. CASE nm' = nm /\ sh' = f
    <3>1. Known' = Known /\ HasProfile' = HasProfile /\ NamesOK' = NamesOK
      BY <1>8, <2>2, Frame
    <3> QED BY <1>1, <1>7, <2>2, <3>1 DEF Inv
  <2> QED BY <1>3, <2>1, <2>2
<1>10. TypeOK' /\ NamesOK'
  BY <1>8, <1>9 DEF TypeOK
<1>11. Places'
  BY <1>1, <1>8 DEF Places, Joining, Tapped, Typed, RunKept, TypedPc, TypedAt
<1>12. TodoKnown' /\ RefusalJudged' /\ WorkedOn'
  BY <1>1, <1>2, <1>8, <1>9 DEF Inv, TodoKnown, RefusalJudged, WorkedOn, Ended
<1>13. NotLost' /\ Forgotten' /\ Persisted'
  BY <1>1, <1>8, <1>9 DEF Inv, NotLost, Forgotten, Persisted, Joining, Typed, RunKept
<1> QED BY <1>10, <1>11, <1>12, <1>13 DEF Inv

LEMMA ExistedInv == ASSUME Inv, Existed PROVE Inv'
<1>1. /\ sh \in Sh /\ sh.pc = "existed" /\ nm' = nm /\ Typed /\ ~sh.refused
  BY NoRefusal DEF Existed, Inv, TypeOK, Places, ForgetPc, TappedPc, Joining, Tapped, Typed
<1>2. CASE is_wrong_pw(sh)
  BY <1>1, <1>2, ExitInv DEF Existed, Inv, TypeOK
<1>3. CASE ~is_wrong_pw(sh)
  <2>1. sh' = Delete(sh)
    BY <1>3 DEF Existed
  <2>2. RunKept(sh, sh) /\ sh.gave /\ Joining /\ ~Tapped
    BY <1>1 DEF RunKept, Inv, Places, Typed, Tapped
  <2> QED BY <1>1, <2>1, <2>2, DeleteInv
<1> QED BY <1>2, <1>3

LEMMA ExplainInv == ASSUME Inv, Explain PROVE Inv'
<1>1. /\ sh.pc = "explain" /\ nm' = nm /\ ~sh.refused
      /\ sh' = Exit(sh, "3") \/ sh' = Exit(sh, "1")
  BY NoRefusal DEF Explain, FailWrongOr
<1> QED BY <1>1, ExitInv DEF Inv, TypeOK

-----------------------------------------------------------------------------
(* The deletion of the network's profiles, and the profile that is added *)

LEMMA DeleteProfilesInv == ASSUME Inv, DeleteProfiles PROVE Inv'
<1>1. sh \in Sh /\ nm \in Nm /\ sh.pc = "del" /\ ~sh.refused /\ NamesOK
  BY NoRefusal DEF DeleteProfiles, Inv, TypeOK
<1>2. CASE sh.todo = {} /\ sh' = Goto(sh, IF sh.forget THEN "inuse" ELSE "add") /\ UNCHANGED nm
  <2> DEFINE l == IF sh.forget THEN "inuse" ELSE "add"
             t == Goto(sh, l)
  <2>1. sh' = t /\ nm' = nm
    BY <1>2
  <2>2. l \in Label /\ l \in {"inuse", "add"} /\ (l = "inuse" <=> sh.forget)
    BY DEF Label
  <2> HIDE DEF l
  <2>3. t \in Sh /\ RestKept(sh, t) /\ t.at = sh.at /\ t.fail = sh.fail /\ t.pc = l
    BY <1>1, <2>2, GotoKeeps
  <2> HIDE DEF t
  <2>4. Known' = Known /\ HasProfile' = HasProfile /\ NamesOK' = NamesOK
    BY <2>1, <2>3, Frame DEF RestKept
  <2>5. TypeOK' /\ NamesOK'
    BY <1>1, <2>1, <2>3, <2>4 DEF TypeOK
  <2>6. Places'
    BY <1>1, <2>1, <2>2, <2>3 DEF Inv, Places, Joining, Tapped, Typed, RestKept, RunKept, ForgetPc, TappedPc, TypedPc
  <2>7. TodoKnown' /\ RefusalJudged' /\ WorkedOn' /\ Persisted'
    BY <1>1, <1>2, <2>1, <2>2, <2>3, <2>4 DEF TodoKnown, RefusalJudged, WorkedOn, Persisted, RestKept, Ended
  <2>8. NotLost'
    BY <2>1, <2>2, <2>3 DEF NotLost, Joining, RestKept, RunKept
  <2>9. Forgotten'
    <3>1. sh.forget /\ ~sh.failed => ~HasProfile
      BY <1>1, <1>2 DEF Inv, Forgotten, HasProfile
    <3> QED BY <2>1, <2>2, <2>3, <2>4, <3>1 DEF Forgotten, RestKept, RunKept, Ended
  <2> QED BY <2>5, <2>6, <2>7, <2>8, <2>9 DEF Inv
<1>3. ASSUME NEW u \in sh.todo,
             LET s == [sh EXCEPT !.todo = @ \ {u}]
             IN  \/ nm' = Remove(nm, {u}) /\ sh' = s
                 \/ UNCHANGED nm /\ sh' = [s EXCEPT !.failed = TRUE]
      PROVE  Inv'
  <2> DEFINE D == sh.todo \ {u}
             s == [sh EXCEPT !.todo = D]
             f == [s EXCEPT !.failed = TRUE]
  <2>1. \/ nm' = Remove(nm, {u}) /\ sh' = s
        \/ nm' = nm /\ sh' = f
    BY <1>3
  <2>2. D \in SUBSET Uuid /\ sh.todo \subseteq Uuid /\ sh.todo \subseteq Known
    BY <1>1 DEF Sh, Inv, TodoKnown
  <2>3. D = sh.todo \ {u}
    OBVIOUS
  <2> HIDE DEF D
  <2>4. /\ s \in Sh /\ RunKept(sh, s) /\ s.pc = "del" /\ s.at = sh.at /\ s.fail = sh.fail
        /\ s.todo = D /\ s.gave = sh.gave /\ s.refused = sh.refused /\ s.failed = sh.failed
    BY <1>1, <2>2 DEF Sh, RunKept
  <2> HIDE DEF s
  <2>5. /\ f \in Sh /\ RunKept(sh, f) /\ f.pc = "del" /\ f.at = sh.at /\ f.fail = sh.fail
        /\ f.todo = D /\ f.gave = sh.gave /\ f.refused = sh.refused /\ f.failed
    BY <2>4 DEF Sh, RunKept
  <2> HIDE DEF f
  <2>6. /\ sh' \in Sh /\ RunKept(sh, sh') /\ sh'.pc = "del" /\ sh'.at = sh.at /\ sh'.fail = sh.fail
        /\ sh'.todo = D /\ sh'.gave = sh.gave /\ sh'.refused = sh.refused
    BY <2>1, <2>4, <2>5
  <2>7. /\ nm' \in Nm /\ NamesOK' /\ Known' \subseteq Known /\ D \subseteq Known'
        /\ \A v \in Known' : nm'.prof[v] = nm.prof[v]
        /\ sh'.failed \/ (~sh.failed /\ Known' = Known \ {u})
    <3>1. CASE nm' = Remove(nm, {u}) /\ sh' = s
      <4>1. /\ nm' \in Nm /\ Known' = Known \ {u} /\ NamesOK'
            /\ \A v \in Uuid \ {u} : nm'.prof[v] = nm.prof[v]
        BY <1>1, <2>6, <3>1, Removed
      <4>2. Known \subseteq Uuid
        BY DEF Known
      <4>3. sh'.failed \/ ~sh.failed
        BY <2>4, <3>1
      <4> QED BY <2>2, <2>3, <4>1, <4>2, <4>3
    <3>2. CASE nm' = nm /\ sh' = f
      <4>1. Known' = Known /\ NamesOK' = NamesOK
        BY <2>6, <3>2, Frame
      <4> QED BY <1>1, <2>2, <2>3, <2>5, <3>2, <4>1
    <3> QED BY <2>1, <3>1, <3>2
  <2>8. TypeOK' /\ NamesOK'
    BY <2>6, <2>7 DEF TypeOK
  <2>9. Places'
    BY <1>1, <2>6 DEF Inv, Places, Joining, Tapped, Typed, RunKept
  <2>10. TodoKnown' /\ RefusalJudged' /\ NotLost' /\ Persisted'
    BY <1>1, <2>6, <2>7 DEF TodoKnown, RefusalJudged, NotLost, Persisted, Ended
  <2>11. WorkedOn'
    <3>1. \A v \in D : Match(v)'
      BY <1>1, <2>3, <2>6, <2>7 DEF Inv, WorkedOn, Match, RunKept
    <3>2. Tapped' => sh'.sec = "open"
      BY <1>1, <2>6 DEF Inv, WorkedOn, Tapped, Joining, RunKept
    <3> QED BY <2>6, <3>1, <3>2 DEF WorkedOn
  <2>12. Forgotten'
    <3> SUFFICES ASSUME sh.forget, ~sh'.failed, NEW v \in Known', nm'.prof[v].ssid = sh.ssid
                 PROVE  v \in D
      BY <2>6 DEF Forgotten, RunKept, Ended
    <3>1. v \in Known /\ v # u /\ nm.prof[v].ssid = sh.ssid /\ ~sh.failed
      BY <2>7
    <3>2. v \in sh.todo
      BY <1>1, <3>1 DEF Inv, Forgotten
    <3> QED BY <2>3, <3>1, <3>2
  <2> QED BY <2>8, <2>9, <2>10, <2>11, <2>12 DEF Inv
<1> QED BY <1>2, <1>3 DEF DeleteProfiles

LEMMA UpByNameKeeps ==
  ASSUME NEW s \in Sh, NEW given \in BOOLEAN, NEW l \in Label
  PROVE  LET t == UpByName(s, given, l)
         IN  /\ t \in Sh /\ RunKept(s, t) /\ t.pc = "up" /\ t.u = None
             /\ t.at = l /\ t.fail = l /\ t.todo = s.todo /\ t.gave = s.gave
             /\ t.failed = s.failed /\ t.refused = s.refused
<1>1. "up" \in Label
  BY DEF Label
<1> QED BY <1>1 DEF UpByName, Sh, RunKept

\* A write that fails says so.
LEMMA FailedKeeps ==
  ASSUME NEW s \in Sh
  PROVE  LET t == [s EXCEPT !.failed = TRUE]
         IN  /\ t \in Sh /\ RunKept(s, t) /\ t.pc = s.pc /\ t.u = s.u
             /\ t.at = s.at /\ t.fail = s.fail /\ t.todo = s.todo /\ t.gave = s.gave
             /\ t.failed /\ t.refused = s.refused
BY DEF Sh, RunKept

LEMMA AddInv == ASSUME Inv, Add PROVE Inv'
<1> DEFINE s == IF sh.pass = "none" THEN UpByName(sh, FALSE, "openfail") ELSE Goto(sh, "modname")
           f == [s EXCEPT !.failed = TRUE]
<1>1. sh \in Sh /\ nm \in Nm /\ sh.pc = "add" /\ ~sh.refused /\ NamesOK /\ Joining /\ sh.todo = {}
  BY NoRefusal DEF Add, Inv, TypeOK, Places, ForgetPc, Joining, TodoKnown
<1>2. /\ s \in Sh /\ RunKept(sh, s) /\ s.todo = sh.todo /\ s.gave = sh.gave
      /\ s.failed = sh.failed /\ s.refused = sh.refused
      /\ \/ Tapped /\ s.pc = "up" /\ s.u = None /\ s.at = "openfail" /\ s.fail = "openfail"
         \/ Typed /\ s.pc = "modname" /\ s.at = sh.at /\ s.fail = sh.fail
  <2> DEFINE a == UpByName(sh, FALSE, "openfail")
             b == Goto(sh, "modname")
  <2>1. "openfail" \in Label /\ "modname" \in Label
    BY DEF Label
  <2>2. /\ a \in Sh /\ RunKept(sh, a) /\ a.todo = sh.todo /\ a.gave = sh.gave
        /\ a.failed = sh.failed /\ a.refused = sh.refused
        /\ a.pc = "up" /\ a.u = None /\ a.at = "openfail" /\ a.fail = "openfail"
    <3>1. {"up", "openfail"} \subseteq Label
      BY DEF Label
    <3> QED BY <1>1, <3>1 DEF UpByName, Sh, RunKept
  <2>3. /\ b \in Sh /\ RestKept(sh, b) /\ b.pc = "modname" /\ b.at = sh.at /\ b.fail = sh.fail
    BY <1>1, <2>1, GotoKeeps
  <2>4. s = IF sh.pass = "none" THEN a ELSE b
    OBVIOUS
  <2> HIDE DEF a, b, s
  <2> QED BY <1>1, <2>2, <2>3, <2>4 DEF RestKept, Tapped, Typed
<1>3. \/ sh' = f /\ nm' = nm
      \/ \E u \in Uuid \ Known : nm' = [nm EXCEPT !.prof = [nm.prof EXCEPT ![u] = NewProfile]] /\ sh' = s
  BY Zenon DEF Add, MayWrite
<1> HIDE DEF s
<1>4. /\ f \in Sh /\ RunKept(s, f) /\ f.pc = s.pc /\ f.u = s.u
      /\ f.at = s.at /\ f.fail = s.fail /\ f.todo = s.todo /\ f.gave = s.gave
      /\ f.failed /\ f.refused = s.refused
  BY <1>2, FailedKeeps
<1> HIDE DEF f
<1>5. /\ sh' \in Sh /\ RunKept(sh, sh') /\ sh'.todo = {} /\ sh'.gave = sh.gave /\ ~sh'.refused
      /\ \/ Tapped /\ sh'.pc = "up" /\ sh'.u = None /\ sh'.at = "openfail" /\ sh'.fail = "openfail"
         \/ Typed /\ sh'.pc = "modname" /\ sh'.at = sh.at /\ sh'.fail = sh.fail
  <2>1. sh' = s \/ sh' = f
    BY <1>3
  <2>2. RunKept(sh, f)
    BY <1>2, <1>4 DEF RunKept
  <2> QED BY <1>1, <1>2, <1>4, <2>1, <2>2
<1>6. nm' \in Nm /\ NamesOK' /\ (sh'.failed \/ (HasProfile' /\ HoldsPassword'))
  <2>1. CASE sh' = f /\ nm' = nm
    BY <1>1, <1>4, <1>5, <2>1, Frame
  <2>2. CASE \E u \in Uuid \ Known : nm' = [nm EXCEPT !.prof = [nm.prof EXCEPT ![u] = NewProfile]] /\ sh' = s
    <3>1. PICK u \in Uuid \ Known : nm' = [nm EXCEPT !.prof = [nm.prof EXCEPT ![u] = NewProfile]]
      BY <2>2
    <3> DEFINE p == [nm.prof EXCEPT ![u] = NewProfile]
    <3>2. /\ NewProfile \in Profile /\ NewProfile.ssid = sh.ssid /\ NewProfile.name = sh.ssid
          /\ NewProfile.psk = sh.pass /\ ~NewProfile.agent
      BY <1>1, NewProfileIs
    <3>3. p \in [Uuid -> Profile \cup {None}]
      BY <1>1, <3>2 DEF Nm
    <3>4. nm' \in Nm /\ nm'.prof = p
      BY <1>1, <3>1, <3>3, ProfileWritten
    <3> QED BY <1>1, <1>5, <3>2, <3>4, Added
  <2> QED BY <1>3, <2>1, <2>2
<1>7. TypeOK' /\ NamesOK'
  BY <1>5, <1>6 DEF TypeOK
<1>8. Places'
  BY <1>1, <1>5 DEF Inv, Places, Joining, Tapped, Typed, RunKept, TappedPc, TappedAt, TypedPc
<1>9. TodoKnown' /\ RefusalJudged' /\ WorkedOn'
  BY <1>5 DEF TodoKnown, RefusalJudged, WorkedOn
<1>10. NotLost' /\ Forgotten' /\ Persisted'
  BY <1>1, <1>5, <1>6 DEF NotLost, Forgotten, Persisted, Joining, RunKept
<1> QED BY <1>7, <1>8, <1>9, <1>10 DEF Inv

\* The password is written to the profile of the network's name, and that is brought up.
LEMMA ModifyNameInv ==
  ASSUME Inv, sh.pc \in {"modname", "retry"}, NEW l \in {"retry", "device"},
         ModifyName(UpByName(sh, TRUE, l))
  PROVE  Inv'
<1> DEFINE s == UpByName(sh, TRUE, l)
           f == [s EXCEPT !.failed = TRUE]
           q(u) == [nm.prof[u] EXCEPT !.psk = sh.pass, !.agent = FALSE,
                                      !.km = IF sh.pc = "retry" THEN "psk" ELSE @]
           p(u) == [nm.prof EXCEPT ![u] = q(u)]
<1>1. sh \in Sh /\ nm \in Nm /\ ~sh.refused /\ NamesOK /\ Typed /\ sh.gave /\ Joining
  <2>1. sh \in Sh /\ nm \in Nm /\ ~sh.refused /\ NamesOK /\ Typed
    BY NoRefusal DEF Inv, TypeOK, Places, ForgetPc, TappedPc, Joining, Tapped, Typed
  <2> QED BY <2>1 DEF Inv, Places, Typed
<1>2. /\ s \in Sh /\ RunKept(sh, s) /\ s.pc = "up" /\ s.u = None /\ s.at = l /\ s.fail = l
      /\ s.todo = sh.todo /\ s.gave = sh.gave /\ s.failed = sh.failed /\ s.refused = sh.refused
  <2>1. l \in Label
    BY DEF Label
  <2> QED BY <1>1, <2>1, UpByNameKeeps
<1>3. \/ nm' = nm /\ (sh' = s \/ sh' = f)
      \/ \E u \in Named(sh.ssid) : nm' = [nm EXCEPT !.prof = p(u)] /\ sh' = s
  <2>1. CASE Named(sh.ssid) = {}
    BY <2>1 DEF ModifyName
  <2>2. CASE Named(sh.ssid) # {}
    <3>1. PICK u \in Named(sh.ssid) : MayWrite(p(u), s)
      BY <2>2 DEF ModifyName
    <3>2. (nm' = [nm EXCEPT !.prof = p(u)] /\ sh' = s) \/ (nm' = nm /\ sh' = f)
      BY <3>1 DEF MayWrite
    <3> QED BY <3>2
  <2> QED BY <2>1, <2>2
<1> HIDE DEF s, p
<1>4. /\ f \in Sh /\ RunKept(s, f) /\ f.pc = s.pc /\ f.u = s.u
      /\ f.at = s.at /\ f.fail = s.fail /\ f.todo = s.todo /\ f.gave = s.gave
      /\ f.failed /\ f.refused = s.refused
  BY <1>2, FailedKeeps
<1> HIDE DEF f
<1>5. /\ sh' \in Sh /\ RunKept(sh, sh') /\ sh'.todo = sh.todo /\ sh'.gave /\ ~sh'.refused
      /\ sh'.pc = "up" /\ sh'.u = None /\ sh'.at = l /\ sh'.fail = l /\ (sh.failed => sh'.failed)
  <2>1. sh' = s \/ sh' = f
    BY <1>3
  <2>2. RunKept(sh, f)
    BY <1>2, <1>4 DEF RunKept
  <2> QED BY <1>1, <1>2, <1>4, <2>1, <2>2
<1>6. /\ nm' \in Nm /\ NamesOK' /\ Known' = Known /\ HasProfile' = HasProfile
      /\ HoldsPassword => HoldsPassword'
  <2>1. CASE nm' = nm
    BY <1>1, <1>5, <2>1, Frame
  <2>2. ASSUME NEW u \in Named(sh.ssid), nm' = [nm EXCEPT !.prof = p(u)]
        PROVE  /\ nm' \in Nm /\ NamesOK' /\ Known' = Known /\ HasProfile' = HasProfile
               /\ HoldsPassword => HoldsPassword'
    <3>1. u \in Known /\ u \in Uuid /\ nm.prof[u] \in Profile
      BY <1>1 DEF Named, Known, Nm
    <3> DEFINE o == nm.prof[u]
               k == IF sh.pc = "retry" THEN "psk" ELSE o.km
               r == [o EXCEPT !.psk = sh.pass, !.agent = FALSE, !.km = k]
    <3>2. k \in {"open", "psk", "sae"} /\ sh.pass \in Psk
      BY <1>1, <3>1 DEF Profile, Sh
    <3>3. p(u) = [nm.prof EXCEPT ![u] = r]
      BY DEF p
    <3> HIDE DEF o, k
    <3>4. r \in Profile /\ r.ssid = o.ssid /\ r.name = o.name /\ r.psk = sh.pass /\ ~r.agent
      BY <3>1, <3>2 DEF Profile, o
    <3> HIDE DEF r
    <3>5. p(u) \in [Uuid -> Profile \cup {None}]
      BY <1>1, <3>1, <3>3, <3>4 DEF Nm
    <3>6. nm' \in Nm /\ nm'.prof = p(u)
      BY <1>1, <2>2, <3>5, ProfileWritten
    <3> QED BY <1>1, <1>5, <3>1, <3>3, <3>4, <3>6, Renewed DEF o
  <2> QED BY <1>3, <2>1, <2>2
<1>7. TypeOK' /\ NamesOK'
  BY <1>5, <1>6 DEF TypeOK
<1>8. Places'
  BY <1>1, <1>5 DEF Places, Joining, Tapped, Typed, RunKept, TypedPc, TypedAt
<1>9. TodoKnown' /\ RefusalJudged' /\ WorkedOn'
  BY <1>1, <1>5, <1>6 DEF Inv, TodoKnown, RefusalJudged, WorkedOn, Typed, RunKept
<1>10. NotLost' /\ Forgotten' /\ Persisted'
  BY <1>1, <1>5, <1>6 DEF Inv, NotLost, Forgotten, Persisted, Joining, Typed, RunKept
<1> QED BY <1>7, <1>8, <1>9, <1>10 DEF Inv

LEMMA ModifyAddedInv == ASSUME Inv, ModifyAdded PROVE Inv'
BY ModifyNameInv DEF ModifyAdded

LEMMA RetryPskInv == ASSUME Inv, RetryPsk PROVE Inv'
<1>1. sh \in Sh /\ nm \in Nm /\ sh.pc = "retry" /\ ~sh.refused /\ Typed
  BY NoRefusal DEF RetryPsk, Inv, TypeOK, Places, ForgetPc, TappedPc, Joining, Tapped, Typed
<1>2. CASE key_mgmt(sh.sec) = "sae"
  BY <1>1, <1>2, ModifyNameInv DEF RetryPsk
<1>3. CASE key_mgmt(sh.sec) # "sae"
  <2> DEFINE t == Goto(sh, "device")
  <2>1. sh' = t /\ nm' = nm
    BY <1>3 DEF RetryPsk
  <2>2. "device" \in Label
    BY DEF Label
  <2>3. t \in Sh /\ RestKept(sh, t) /\ t.at = sh.at /\ t.fail = sh.fail /\ t.pc = "device"
    BY <1>1, <2>2, GotoKeeps
  <2> HIDE DEF t
  <2>4. RefusalJudged'
    BY <1>1, <2>1, <2>3 DEF RefusalJudged, RestKept
  <2>5. Places' /\ sh'.pc \in JumpTo
    BY <1>1, <2>1, <2>3 DEF Inv, Places, Joining, Tapped, Typed, RestKept, RunKept, TypedPc, JumpTo
  <2> QED BY <1>1, <2>1, <2>3, <2>4, <2>5, JumpInv DEF RestKept, JumpFrom
<1> QED BY <1>2, <1>3

LEMMA DeviceConnectInv == ASSUME Inv, DeviceConnect PROVE Inv'
<1>1. /\ sh \in Sh /\ nm \in Nm /\ sh.pc = "device" /\ ~sh.refused /\ Typed /\ NamesOK /\ sh.gave
  <2>1. sh \in Sh /\ nm \in Nm /\ sh.pc = "device" /\ ~sh.refused /\ Typed /\ NamesOK
    BY NoRefusal DEF DeviceConnect, Inv, TypeOK, Places, ForgetPc, TappedPc, Joining, Tapped, Typed
  <2> QED BY <2>1 DEF Inv, Places
<1>2. CASE sh' = Poll(sh, "explain", Tries) /\ UNCHANGED nm
  <2> DEFINE t == Poll(sh, "explain", Tries)
  <2>1. "explain" \in Label
    BY DEF Label
  <2>2. sh' = t /\ nm' = nm
    BY <1>2
  <2>3. t \in Sh /\ RestKept(sh, t) /\ t.at = "explain" /\ t.fail = sh.fail /\ t.pc = "st"
    BY <1>1, <2>1, PollBounds, PollKeeps
  <2> HIDE DEF t
  <2>4. RefusalJudged'
    BY <1>1, <2>2, <2>3 DEF RefusalJudged, RestKept
  <2>5. Places' /\ sh'.pc \in JumpTo
    BY <1>1, <2>2, <2>3 DEF Inv, Places, Joining, Tapped, Typed, RestKept, RunKept, TypedPc, TypedAt, JumpTo
  <2> QED BY <1>1, <2>2, <2>3, <2>4, <2>5, JumpInv DEF RestKept, JumpFrom
<1>3. ASSUME NEW u \in (Uuid \ Known) \cup {v \in Known : nm.prof[v].ssid = sh.ssid},
             LET p == IF nm.prof[u] = None THEN NewProfile ELSE WithPassword(nm.prof[u])
             IN  /\ nm' = Activate([nm EXCEPT !.prof[u] = p], u, sh.pass)
                 /\ sh' = [sh EXCEPT !.pc = "upwait", !.u = u, !.at = "explain", !.fail = "st"]
      PROVE  Inv'
  <2> DEFINE q == IF nm.prof[u] = None THEN NewProfile ELSE WithPassword(nm.prof[u])
             p == [nm.prof EXCEPT ![u] = q]
             n == [nm EXCEPT !.prof = p]
             t == [sh EXCEPT !.pc = "upwait", !.u = u, !.at = "explain", !.fail = "st"]
  <2>1. nm' = Activate(n, u, sh.pass) /\ sh' = t
    BY <1>3
  <2>2. u \in Uuid /\ nm.prof \in [Uuid -> Profile \cup {None}] /\ sh.pass \in Psk
    BY <1>1 DEF Known, Nm, Sh
  <2>3. q \in Profile /\ q.ssid = sh.ssid /\ q.psk = sh.pass /\ ~q.agent
        /\ \/ u \in Uuid \ Known /\ q.name = sh.ssid
           \/ u \in Known /\ q.name = nm.prof[u].name /\ nm.prof[u].ssid = sh.ssid
    <3>1. CASE nm.prof[u] = None
      <4>1. q = NewProfile /\ u \in Uuid \ Known
        BY <2>2, <3>1 DEF Known
      <4> QED BY <1>1, <4>1, NewProfileIs
    <3>2. CASE nm.prof[u] # None
      <4>1. u \in Known /\ nm.prof[u] \in Profile /\ nm.prof[u].ssid = sh.ssid
        BY <1>3, <2>2, <3>2 DEF Known
      <4>2. q = WithPassword(nm.prof[u])
        BY <3>2
      <4> QED BY <1>1, <4>1, <4>2, WithPasswordIs
    <3> QED BY <3>1, <3>2
  <2> HIDE DEF q
  <2>4. p \in [Uuid -> Profile \cup {None}]
    BY <2>2, <2>3
  <2>5. n \in Nm /\ n.prof = p
    BY <1>1, <2>4, ProfileWritten
  <2> HIDE DEF n, p
  <2>6. nm' \in Nm /\ nm'.prof = p
    BY <2>1, <2>2, <2>5, ActivateKeeps
  <2>7. /\ t \in Sh /\ RunKept(sh, t) /\ t.pc = "upwait" /\ t.at = "explain" /\ t.fail = "st"
        /\ t.todo = sh.todo /\ t.gave = sh.gave /\ t.refused = sh.refused /\ t.failed = sh.failed
    <3>1. {"upwait", "explain", "st"} \subseteq Label
      BY DEF Label
    <3> QED BY <1>1, <2>2, <3>1 DEF Sh, RunKept
  <2> HIDE DEF t
  <2>8. RunKept(sh, sh')
    BY <2>1, <2>7
  <2>9. Known \subseteq Known' /\ NamesOK' /\ HasProfile' /\ HoldsPassword'
    <3>1. CASE u \in Uuid \ Known /\ q.name = sh.ssid
      <4>1. nm'.prof = [nm.prof EXCEPT ![u] = q]
        BY <2>6 DEF p
      <4> QED BY <1>1, <2>3, <2>8, <3>1, <4>1, Added
    <3>2. CASE u \in Known /\ q.name = nm.prof[u].name /\ nm.prof[u].ssid = sh.ssid
      <4>1. nm'.prof = [nm.prof EXCEPT ![u] = q]
        BY <2>6 DEF p
      <4>2. HasProfile
        BY <3>2 DEF HasProfile
      <4> QED BY <1>1, <2>3, <2>8, <3>2, <4>1, <4>2, Renewed
    <3> QED BY <2>3, <3>1, <3>2
  <2>10. TypeOK' /\ NamesOK'
    BY <2>1, <2>6, <2>7, <2>9 DEF TypeOK
  <2>11. Places'
    BY <1>1, <2>1, <2>7 DEF Places, Joining, Tapped, Typed, RunKept, TypedPc, TypedAt
  <2>12. TodoKnown' /\ RefusalJudged' /\ WorkedOn'
    BY <1>1, <2>1, <2>7, <2>9 DEF Inv, TodoKnown, RefusalJudged, WorkedOn, Typed, RunKept
  <2>13. NotLost' /\ Forgotten' /\ Persisted'
    BY <1>1, <2>1, <2>7, <2>9 DEF NotLost, Forgotten, Persisted, Joining, Typed, RunKept
  <2> QED BY <2>10, <2>11, <2>12, <2>13 DEF Inv
<1> QED BY <1>2, <1>3 DEF DeviceConnect

-----------------------------------------------------------------------------
(* Forget *)

LEMMA DeleteNamedInv ==
  ASSUME Inv, NEW name, NEW l \in {"legacy", "list"}, sh.pc \in {"id", "legacy"},
         DeleteNamed(name, l)
  PROVE  Inv'
<1>1. sh \in Sh /\ nm \in Nm /\ ~sh.refused /\ NamesOK /\ sh.forget /\ sh.todo = {}
  BY NoRefusal DEF Inv, TypeOK, Places, TappedPc, TypedPc, Joining, Tapped, Typed, TodoKnown
<1>2. PICK D \in SUBSET {u \in Known : nm.prof[u].name = name} :
        /\ nm' = Remove(nm, D)
        /\ sh' = [sh EXCEPT !.pc = l, !.failed = @ \/ \E u \in Known \ D : nm.prof[u].name = name]
  BY DEF DeleteNamed
<1> DEFINE b == sh.failed \/ \E u \in Known \ D : nm.prof[u].name = name
           t == [sh EXCEPT !.pc = l, !.failed = b]
<1>3. sh' = t
  BY <1>2
<1>4. b \in BOOLEAN
  BY <1>1 DEF Sh
<1> HIDE DEF b
<1>5. /\ t \in Sh /\ RunKept(sh, t) /\ t.pc = l /\ t.todo = sh.todo /\ t.refused = sh.refused
  <2>1. l \in Label
    BY DEF Label
  <2> QED BY <1>1, <1>4, <2>1 DEF Sh, RunKept
<1> HIDE DEF t
<1>6. nm' \in Nm /\ NamesOK'
  BY <1>1, <1>2, <1>3, <1>5, Removed
<1>7. TypeOK' /\ NamesOK'
  BY <1>3, <1>5, <1>6 DEF TypeOK
<1>8. Places'
  BY <1>1, <1>3, <1>5 DEF Places, Joining, Tapped, Typed, RunKept, ForgetPc
<1>9. TodoKnown' /\ RefusalJudged' /\ WorkedOn'
  BY <1>1, <1>3, <1>5 DEF TodoKnown, RefusalJudged, WorkedOn
<1>10. NotLost' /\ Forgotten' /\ Persisted'
  BY <1>1, <1>3, <1>5 DEF NotLost, Forgotten, Persisted, Joining, Typed, RunKept, Ended
<1> QED BY <1>7, <1>8, <1>9, <1>10 DEF Inv

LEMMA ListForgetInv == ASSUME Inv, ListForget PROVE Inv'
<1> DEFINE D == uuids_for_ssid(sh.ssid) \cup Named(sh.ssid)
           t == [sh EXCEPT !.pc = "del", !.todo = D]
<1>1. /\ sh \in Sh /\ nm \in Nm /\ ~sh.refused /\ sh.forget /\ sh.pc = "list"
      /\ sh' = t /\ nm' = nm
  BY NoRefusal DEF ListForget, Inv, TypeOK, Places, TappedPc, TypedPc, Joining, Tapped, Typed
<1>2. D \subseteq Known /\ D \in SUBSET Uuid /\ "del" \in Label
  BY DEF uuids_for_ssid, Named, Known, Label
<1>3. /\ \A u \in D : Match(u)
      /\ \A u \in Known : nm.prof[u].ssid = sh.ssid => u \in D
  BY DEF uuids_for_ssid, Named, Match
<1> HIDE DEF D
<1>4. /\ t \in Sh /\ RunKept(sh, t) /\ t.pc = "del" /\ t.todo = D /\ t.refused = sh.refused
      /\ t.failed = sh.failed
  BY <1>1, <1>2 DEF Sh, RunKept
<1> HIDE DEF t
<1>5. Known' = Known /\ NamesOK' = NamesOK /\ \A u \in Uuid : Match(u)' = Match(u)
  BY <1>1, <1>4, Frame
<1>6. TypeOK' /\ NamesOK'
  BY <1>1, <1>4, <1>5 DEF Inv, TypeOK
<1>7. Places'
  BY <1>1, <1>4 DEF Places, Joining, Tapped, Typed, RunKept, ForgetPc
<1>8. TodoKnown' /\ RefusalJudged'
  BY <1>1, <1>2, <1>4, <1>5 DEF TodoKnown, RefusalJudged
<1>9. WorkedOn'
  <2>1. \A u \in sh'.todo : Match(u)'
    BY <1>1, <1>2, <1>3, <1>4, <1>5
  <2>2. ~Tapped'
    BY <1>1, <1>4 DEF Tapped, Joining, RunKept
  <2> QED BY <1>1, <1>4, <2>1, <2>2 DEF WorkedOn
<1>10. NotLost' /\ Forgotten' /\ Persisted'
  BY <1>1, <1>3, <1>4, <1>5 DEF NotLost, Forgotten, Persisted, Joining, Typed, RunKept, Ended
<1> QED BY <1>6, <1>7, <1>8, <1>9, <1>10 DEF Inv

LEMMA ReadInUseInv == ASSUME Inv, ReadInUse PROVE Inv'
<1>1. /\ sh \in Sh /\ nm \in Nm /\ ~sh.refused /\ sh.forget /\ sh.pc = "inuse" /\ nm' = nm
      /\ ~sh.failed => ~HasProfile
  BY NoRefusal DEF ReadInUse, Inv, TypeOK, Places, TappedPc, TypedPc, Joining, Tapped, Typed, Forgotten
<1>2. CASE OnSsid = sh.ssid
  <2> DEFINE t == Goto(sh, "disc")
  <2>1. sh' = t
    BY <1>2 DEF ReadInUse
  <2>2. "disc" \in Label
    BY DEF Label
  <2>3. t \in Sh /\ RestKept(sh, t) /\ t.at = sh.at /\ t.fail = sh.fail /\ t.pc = "disc"
    BY <1>1, <2>2, GotoKeeps
  <2> HIDE DEF t
  <2>4. Known' = Known /\ HasProfile' = HasProfile /\ NamesOK' = NamesOK
    BY <1>1, <2>1, <2>3, Frame DEF RestKept
  <2>5. TypeOK' /\ NamesOK'
    BY <1>1, <2>1, <2>3, <2>4 DEF Inv, TypeOK
  <2>6. Places'
    BY <1>1, <2>1, <2>3 DEF Places, Joining, Tapped, Typed, RestKept, RunKept, ForgetPc
  <2>7. TodoKnown' /\ RefusalJudged' /\ WorkedOn'
    BY <1>1, <2>1, <2>3, <2>4 DEF Inv, TodoKnown, RefusalJudged, WorkedOn, RestKept
  <2>8. NotLost' /\ Forgotten' /\ Persisted'
    BY <1>1, <2>1, <2>3, <2>4 DEF NotLost, Forgotten, Persisted, Joining, Typed, RestKept, RunKept, Ended
  <2> QED BY <2>5, <2>6, <2>7, <2>8 DEF Inv
<1>3. CASE OnSsid # sh.ssid
  <2>1. sh' = Exit(sh, "0") /\ ~Typed
    BY <1>1, <1>3 DEF ReadInUse, Typed, Joining
  <2> QED BY <1>1, <2>1, ExitInv
<1> QED BY <1>2, <1>3

LEMMA DownIs ==
  ASSUME NEW n \in Nm, NEW why \in Said
  PROVE  Down(n, why) \in Nm /\ Down(n, why).prof = n.prof
BY DEF Down, Nm

LEMMA DisconnectInv == ASSUME Inv, Disconnect PROVE Inv'
<1>1. /\ sh \in Sh /\ nm \in Nm /\ ~sh.refused /\ sh.forget /\ sh.pc = "disc"
      /\ sh' = Exit(sh, "0") /\ nm' \in {Down(nm, ""), nm}
      /\ ~sh.failed => ~HasProfile
  BY NoRefusal DEF Disconnect, Inv, TypeOK, Places, TappedPc, TypedPc, Joining, Tapped, Typed, Forgotten
<1>2. nm' \in Nm /\ nm'.prof = nm.prof
  BY <1>1, DownIs DEF Said
<1>3. ~Typed
  BY <1>1 DEF Typed, Joining
<1> QED BY <1>1, <1>2, <1>3, ExitInv

-----------------------------------------------------------------------------
(* The start of a run, its kill, and the network *)

LEMMA StartInv ==
  ASSUME Inv, NEW s \in Target, NEW forget \in BOOLEAN, NEW pass \in Psk,
         NEW sec \in {"open", "psk", "sae"}, Start(s, forget, pass, sec)
  PROVE  Inv'
<1> DEFINE c == Clear(sh)
           h == \E u \in Known : nm.prof[u].ssid = s
           r == [c EXCEPT !.ssid = s, !.forget = forget, !.pass = pass, !.sec = sec,
                          !.gave = FALSE, !.rc = "", !.failed = FALSE, !.refused = FALSE,
                          !.had = h]
           t == IF forget THEN Goto(r, "id") ELSE Poll(r, "choose", 0)
<1>1. sh \in Sh /\ nm \in Nm /\ nm' = nm /\ sh' = t /\ s \in SSID
  BY ScriptAssumption DEF Start, Inv, TypeOK
<1>2. c \in Sh /\ c.pc = "idle" /\ c.at = "idle" /\ c.fail = "idle" /\ c.todo = {}
  <2>1. "idle" \in Label
    BY DEF Label
  <2> QED BY <1>1, <2>1, PollBounds DEF Clear, Sh
<1> HIDE DEF c
<1>3. h \in BOOLEAN /\ (h <=> \E u \in Known : nm.prof[u].ssid = s)
  OBVIOUS
<1> HIDE DEF h
<1>4. /\ r \in Sh /\ r.ssid = s /\ r.forget = forget /\ r.had = h /\ r.gave = FALSE /\ ~r.refused
      /\ r.at = "idle" /\ r.fail = "idle" /\ r.todo = {}
  <2>1. "" \in {"", "0", "1", "2", "3", "killed"} /\ FALSE \in BOOLEAN
    OBVIOUS
  <2>2. r \in Sh
    BY <1>1, <1>2, <1>3, <2>1 DEF Sh
  <2>3. /\ r.ssid = s /\ r.forget = forget /\ r.had = h /\ r.gave = FALSE /\ r.refused = FALSE
        /\ r.at = c.at /\ r.fail = c.fail /\ r.todo = c.todo
    BY <1>2 DEF Sh
  <2> QED BY <1>2, <2>2, <2>3
<1> HIDE DEF r
<1>5. /\ t \in Sh /\ RestKept(r, t) /\ t.fail = "idle" /\ t.at \in {"idle", "choose"}
      /\ \/ forget /\ t.pc = "id"
         \/ ~forget /\ t.pc = "st"
  <2> DEFINE a == Goto(r, "id")
             b == Poll(r, "choose", 0)
  <2>1. "id" \in Label /\ "choose" \in Label
    BY DEF Label
  <2>2. a \in Sh /\ a.pc = "id" /\ RestKept(r, a) /\ a.at = r.at /\ a.fail = r.fail
    BY <1>4, <2>1, GotoKeeps
  <2>3. b \in Sh /\ b.pc = "st" /\ RestKept(r, b) /\ b.at = "choose" /\ b.fail = r.fail
    BY <1>4, <2>1, PollBounds, PollKeeps
  <2>4. t = IF forget THEN a ELSE b
    OBVIOUS
  <2> HIDE DEF a, b, t
  <2> QED BY <1>4, <2>2, <2>3, <2>4
<1> HIDE DEF t
<1>6. /\ sh'.ssid = s /\ sh'.forget = forget /\ sh'.had = h /\ sh'.gave = FALSE /\ ~sh'.refused
      /\ sh'.todo = {}
  BY <1>1, <1>4, <1>5 DEF RestKept, RunKept
<1>7. Known' = Known
  BY <1>1 DEF Known
<1>8. TypeOK' /\ NamesOK'
  BY <1>1, <1>5, <1>7 DEF Inv, TypeOK, NamesOK
<1>9. Places'
  BY <1>1, <1>5, <1>6 DEF Places, Joining, Tapped, Typed, ForgetPc, TappedPc, TappedAt, TypedPc, TypedAt
<1>10. TodoKnown' /\ RefusalJudged' /\ WorkedOn'
  BY <1>1, <1>5, <1>6 DEF TodoKnown, RefusalJudged, WorkedOn
<1>11. NotLost'
  <2>1. h => HasProfile'
    BY <1>1, <1>3, <1>6, <1>7 DEF HasProfile
  <2> QED BY <1>6, <2>1 DEF NotLost
<1>12. Forgotten' /\ Persisted'
  BY <1>1, <1>5, <1>6 DEF Forgotten, Persisted, Ended
<1> QED BY <1>8, <1>9, <1>10, <1>11, <1>12 DEF Inv

LEMMA KillInv == ASSUME Inv, Kill PROVE Inv'
<1>1. sh' = Exit(sh, "killed") /\ nm' = nm
  BY DEF Kill, Exit
<1> QED BY <1>1, ExitInv DEF Inv, TypeOK

\* NetworkManager changes no profile of itself, and so nothing the invariant speaks of.
LEMMA NetworkKeeps ==
  ASSUME TypeOK, Network
  PROVE  nm' \in Nm /\ nm'.prof = nm.prof /\ sh' = sh
<1>1. nm \in Nm
  BY DEF TypeOK
<1>2. CASE NmConnected
  BY <1>1, <1>2 DEF NmConnected, Nm
<1>3. CASE NmFailed
  <2>1. PICK why \in Said : nm' = Down(nm, why)
    <3>1. {"secrets"} \subseteq Said /\ {""} \subseteq Said
      BY DEF Said
    <3> QED BY <1>3, <3>1 DEF NmFailed
  <2> QED BY <1>1, <1>3, <2>1, DownIs DEF NmFailed
<1>4. CASE NmLost
  BY <1>1, <1>4, DownIs DEF NmLost, Said
<1>5. CASE NmAuto
  <2>1. PICK u \in Known : \E x \in Secrets(u, "none") : nm' = Activate(nm, u, x)
    BY <1>5 DEF NmAuto
  <2>2. PICK x \in Secrets(u, "none") : nm' = Activate(nm, u, x)
    BY <2>1
  <2>3. u \in Uuid /\ "none" \in Psk
    BY DEF Known, Psk
  <2> QED BY <1>1, <1>5, <2>2, <2>3, SecretsAre, ActivateKeeps DEF NmAuto
<1> QED BY <1>2, <1>3, <1>4, <1>5 DEF Network

LEMMA StillInv ==
  ASSUME Inv, nm' \in Nm, nm'.prof = nm.prof, sh' = sh
  PROVE  Inv'
<1>1. RunKept(sh, sh')
  BY DEF RunKept
<1>2. /\ Known' = Known /\ HasProfile' = HasProfile /\ HoldsPassword' = HoldsPassword
      /\ NamesOK' = NamesOK /\ uuids_for_ssid(sh.ssid)' = uuids_for_ssid(sh.ssid)
      /\ \A u \in Uuid : Match(u)' = Match(u)
  BY <1>1, Frame
<1>3. TypeOK' /\ Places' /\ TodoKnown' /\ RefusalJudged' /\ NamesOK'
  BY <1>2 DEF Inv, TypeOK, Places, Joining, Tapped, Typed, TodoKnown, RefusalJudged, Ended, is_wrong_pw
<1>4. WorkedOn'
  <2>1. sh.todo \subseteq Uuid
    BY DEF Inv, TypeOK, Sh
  <2>2. sh'.pc = "modify" => sh'.u \in uuids_for_ssid(sh.ssid)'
    BY <1>2 DEF Inv, WorkedOn
  <2>3. sh'.pc = "del" => \A u \in sh'.todo : Match(u)'
    BY <1>2, <2>1 DEF Inv, WorkedOn
  <2> QED BY <1>2, <2>2, <2>3 DEF Inv, WorkedOn, Tapped, Joining
<1>5. NotLost' /\ Persisted' /\ Forgotten'
  BY <1>2 DEF Inv, NotLost, Persisted, Forgotten, Joining, Typed, Ended
<1> QED BY <1>3, <1>4, <1>5 DEF Inv

\* When the HUD starts, no script has run.
LEMMA InitInv == Init => Inv
<1> SUFFICES ASSUME Init PROVE Inv
  OBVIOUS
<1>1. PICK p \in [Uuid -> Saved \cup {None}] :
        nm = [prof |-> p, st |-> "disconnected", uuid |-> None, secret |-> "open", said |-> ""]
  BY DEF Init
<1>2. PICK s \in Target :
        sh = [pc |-> "idle", ssid |-> s, forget |-> FALSE, pass |-> "none", sec |-> "open",
              at |-> "idle", fail |-> "idle", u |-> None, given |-> FALSE, todo |-> {},
              tries |-> 0, gave |-> FALSE, att |-> {}, rc |-> "",
              had |-> FALSE, failed |-> FALSE, refused |-> FALSE]
  BY DEF Init
<1>3. p \in [Uuid -> Profile \cup {None}] /\ s \in SSID
  BY ScriptAssumption
<1>4. nm \in Nm /\ nm.prof = p
  BY <1>1, <1>3 DEF Nm, Said
<1>5. "idle" \in Label /\ "none" \in Psk
  BY DEF Label, Psk
<1>6. sh \in Sh
  BY <1>2, <1>3, <1>5, PollBounds DEF Sh
<1>7. /\ sh.pc = "idle" /\ sh.forget = FALSE /\ sh.pass = "none" /\ sh.at = "idle" /\ sh.fail = "idle"
      /\ sh.todo = {} /\ sh.rc = "" /\ ~sh.had /\ ~sh.refused
  BY <1>2
<1>8. NamesOK
  <2>1. \A u \in Known : p[u] \in Saved
    BY <1>4 DEF Known
  <2> QED BY <1>4, <2>1, LegacyAssumption DEF NamesOK
<1>9. TypeOK /\ Places /\ TodoKnown /\ WorkedOn /\ RefusalJudged
  BY <1>4, <1>6, <1>7 DEF TypeOK, Places, Joining, Tapped, Typed, TappedPc, TappedAt, TodoKnown, WorkedOn, RefusalJudged
<1>10. NotLost /\ Persisted /\ Forgotten
  BY <1>7 DEF NotLost, Persisted, Forgotten, Typed
<1> QED BY <1>8, <1>9, <1>10 DEF Inv

LEMMA NextInv == Inv /\ [Next]_vars => Inv'
<1> SUFFICES ASSUME Inv, [Next]_vars PROVE Inv'
  OBVIOUS
<1>1. CASE Join
  <2>1. PICK s \in Target, pass \in Psk, sec \in {"open", "psk", "sae"} : Start(s, FALSE, pass, sec)
    BY <1>1 DEF Join
  <2>2. FALSE \in BOOLEAN
    OBVIOUS
  <2> QED BY <2>1, <2>2, StartInv
<1>2. CASE Forget
  <2>1. PICK s \in Target : Start(s, TRUE, "none", "open")
    BY <1>2 DEF Forget
  <2>2. TRUE \in BOOLEAN /\ "none" \in Psk /\ "open" \in {"open", "psk", "sae"}
    BY DEF Psk
  <2> QED BY <2>1, <2>2, StartInv
<1>3. CASE Kill
  BY <1>3, KillInv
<1>4. CASE Script
  <2>1. CASE DeleteId \/ DeleteLegacy
    BY <2>1, DeleteNamedInv DEF DeleteId, DeleteLegacy
  <2> QED BY <1>4, <2>1, ReadStateInv, ReadRowInv, UpInv, UpWaitInv, ChooseInv, TrySavedInv, JudgeInv,
        NeedPasswordInv, OpenFailedInv, ModifyExistedInv, ExistedInv, DeleteProfilesInv, AddInv,
        ModifyAddedInv, RetryPskInv, DeviceConnectInv, ExplainInv, ListForgetInv, ReadInUseInv,
        DisconnectInv DEF Script
<1>5. CASE Network
  BY <1>5, NetworkKeeps, StillInv DEF Inv
<1>6. CASE UNCHANGED vars
  BY <1>6, StillInv DEF vars, Inv, TypeOK
<1> QED BY <1>1, <1>2, <1>3, <1>4, <1>5, <1>6 DEF Next

-----------------------------------------------------------------------------
(* A profile that a step changes *)

\* A change of u that a run may make.
Allowed(u) == Match(u) /\ (sh.forget \/ sh.pass # "none" \/ sh.sec = "open")
StepKeeps == \A u \in Uuid : nm.prof[u] # None /\ nm.prof'[u] # nm.prof[u] => Allowed(u)

LEMMA WriteKeeps ==
  ASSUME nm \in Nm, NEW u \in Uuid, nm.prof[u] # None => Allowed(u),
         NEW q, nm'.prof = [nm.prof EXCEPT ![u] = q]
  PROVE  StepKeeps
BY DEF StepKeeps, Nm

LEMMA RemoveKeeps ==
  ASSUME nm \in Nm, NEW D, \A u \in D : nm.prof[u] # None => Allowed(u), nm' = Remove(nm, D)
  PROVE  StepKeeps
<1> DEFINE p == [u \in Uuid |-> IF u \in D THEN None ELSE nm.prof[u]]
           d == Down(nm, "")
<1>1. nm' = [d EXCEPT !.prof = p] \/ nm' = [nm EXCEPT !.prof = p]
  BY DEF Remove
<1>2. d \in Nm
  BY DownIs DEF Said
<1> HIDE DEF d
<1>3. nm'.prof = p
  BY <1>1, <1>2 DEF Nm
<1> QED BY <1>3 DEF StepKeeps

LEMMA ScriptKeeps == ASSUME Inv, Script PROVE StepKeeps
<1>1. sh \in Sh /\ nm \in Nm /\ Places /\ WorkedOn
  BY DEF Inv, TypeOK
<1>2. ASSUME nm'.prof = nm.prof PROVE StepKeeps
  BY <1>2 DEF StepKeeps
<1>3. \A u \in Named(sh.ssid) : Match(u) /\ u \in Uuid
  BY DEF Named, Match, Known
<1>4. CASE ModifyExisted
  <2>1. sh.pass # "none" /\ sh.u \in Uuid /\ Match(sh.u)
    BY <1>1, <1>4 DEF ModifyExisted, Places, WorkedOn, ForgetPc, TappedPc, Joining, Tapped, uuids_for_ssid, Known, Match
  <2> DEFINE p == [nm.prof EXCEPT ![sh.u] = WithPassword(@)]
  <2>2. nm' = [nm EXCEPT !.prof = p] \/ nm' = nm
    BY <1>4 DEF ModifyExisted, MayWrite
  <2>3. nm'.prof = p \/ nm'.prof = nm.prof
    BY <1>1, <2>2 DEF Nm
  <2> QED BY <1>1, <1>2, <2>1, <2>3, WriteKeeps DEF Allowed
<1>5. CASE DeleteProfiles
  <2>1. (\E u \in sh.todo : nm' = Remove(nm, {u})) \/ nm' = nm
    BY <1>5 DEF DeleteProfiles
  <2>2. \A u \in sh.todo : Match(u) /\ (sh.forget \/ sh.pass # "none" \/ sh.sec = "open")
    BY <1>1, <1>5 DEF DeleteProfiles, WorkedOn, Tapped, Joining
  <2> QED BY <1>1, <1>2, <2>1, <2>2, RemoveKeeps DEF Allowed
<1>6. CASE Add
  <2>1. (\E u \in Uuid \ Known : nm' = [nm EXCEPT !.prof = [nm.prof EXCEPT ![u] = NewProfile]]) \/ nm' = nm
    BY <1>6, Zenon DEF Add, MayWrite
  <2>2. ASSUME NEW u \in Uuid \ Known, nm' = [nm EXCEPT !.prof = [nm.prof EXCEPT ![u] = NewProfile]]
        PROVE  StepKeeps
    <3>1. nm'.prof = [nm.prof EXCEPT ![u] = NewProfile] /\ nm.prof[u] = None
      BY <1>1, <2>2 DEF Nm, Known
    <3> QED BY <1>1, <3>1, WriteKeeps
  <2> QED BY <1>2, <2>1, <2>2
<1>7. ASSUME sh.pc \in {"modname", "retry"},
             \E l \in {"retry", "device"} : ModifyName(UpByName(sh, TRUE, l))
      PROVE  StepKeeps
  <2>1. sh.pass # "none"
    BY <1>1, <1>7 DEF Places, ForgetPc, TappedPc, Joining, Tapped
  <2> DEFINE q(u) == [nm.prof[u] EXCEPT !.psk = sh.pass, !.agent = FALSE,
                                        !.km = IF sh.pc = "retry" THEN "psk" ELSE @]
  <2>2. (\E u \in Named(sh.ssid) : nm' = [nm EXCEPT !.prof = [nm.prof EXCEPT ![u] = q(u)]]) \/ nm' = nm
    <3>1. PICK l \in {"retry", "device"} : ModifyName(UpByName(sh, TRUE, l))
      BY <1>7
    <3> QED BY <3>1, Zenon DEF ModifyName, MayWrite
  <2> HIDE DEF q
  <2>3. ASSUME NEW u \in Named(sh.ssid), nm' = [nm EXCEPT !.prof = [nm.prof EXCEPT ![u] = q(u)]]
        PROVE  StepKeeps
    <3>1. nm'.prof = [nm.prof EXCEPT ![u] = q(u)]
      BY <1>1, <2>3 DEF Nm
    <3> QED BY <1>1, <1>3, <2>1, <3>1, WriteKeeps DEF Allowed
  <2> QED BY <1>2, <2>2, <2>3
<1>8. CASE DeviceConnect
  <2>1. sh.pass # "none"
    BY <1>1, <1>8 DEF DeviceConnect, Places, ForgetPc, TappedPc, Joining, Tapped
  <2>2. ASSUME NEW u \in (Uuid \ Known) \cup {v \in Known : nm.prof[v].ssid = sh.ssid}, NEW q,
               nm' = Activate([nm EXCEPT !.prof[u] = q], u, sh.pass)
        PROVE  StepKeeps
    <3>1. nm'.prof = [nm.prof EXCEPT ![u] = q]
      BY <1>1, <2>2 DEF Activate, Nm
    <3>2. u \in Uuid /\ (nm.prof[u] # None => Match(u))
      BY DEF Known, Match
    <3> QED BY <1>1, <2>1, <3>1, <3>2, WriteKeeps DEF Allowed
  <2> QED BY <1>2, <1>8, <2>2 DEF DeviceConnect
<1>9. ASSUME NEW name \in {sh.ssid, Legacy(sh.ssid)}, NEW l, sh.pc \in {"id", "legacy"}, DeleteNamed(name, l)
      PROVE  StepKeeps
  <2>1. sh.forget
    BY <1>1, <1>9 DEF Places, TappedPc, TypedPc, Joining, Tapped, Typed
  <2>2. PICK D \in SUBSET {u \in Known : nm.prof[u].name = name} : nm' = Remove(nm, D)
    BY <1>9 DEF DeleteNamed
  <2>3. \A u \in D : Allowed(u)
    BY <2>1 DEF Allowed, Match
  <2> QED BY <1>1, <2>2, <2>3, RemoveKeeps
<1>10. CASE DeleteId \/ DeleteLegacy
  BY <1>9, <1>10 DEF DeleteId, DeleteLegacy
<1>11. CASE Up \/ TrySaved
  <2>1. nm' = nm \/ \E u, x : nm' = Activate(nm, u, x)
    BY <1>11 DEF Up, TrySaved, Send
  <2> QED BY <1>1, <1>2, <2>1 DEF Activate, Nm
<1>12. CASE Disconnect
  BY <1>1, <1>2, <1>12, DownIs DEF Disconnect, Said
<1>13. CASE ModifyAdded
  BY <1>7, <1>13 DEF ModifyAdded
<1>14. CASE RetryPsk
  <2>1. ModifyName(UpByName(sh, TRUE, "device")) \/ nm' = nm
    BY <1>14 DEF RetryPsk
  <2>2. sh.pc \in {"modname", "retry"}
    BY <1>14 DEF RetryPsk
  <2> QED BY <1>2, <1>7, <2>1, <2>2
<1>15. CASE \/ ReadState \/ ReadRow \/ UpWait \/ Choose \/ Judge \/ NeedPassword \/ OpenFailed
            \/ Existed \/ Explain \/ ListForget \/ ReadInUse
  <2>1. nm' = nm
    BY <1>15 DEF ReadState, ReadRow, UpWait, Choose, Judge, NeedPassword, OpenFailed,
         Existed, Explain, ListForget, ReadInUse
  <2> QED BY <1>2, <2>1
<1> QED BY <1>4, <1>5, <1>6, <1>8, <1>10, <1>11, <1>12, <1>13, <1>14, <1>15 DEF Script

LEMMA NextKeeps == ASSUME Inv, Next PROVE StepKeeps
<1>1. CASE Join \/ Forget \/ Kill
  BY <1>1 DEF Join, Forget, Kill, Start, StepKeeps
<1>2. CASE Network
  BY <1>2, NetworkKeeps DEF Inv, StepKeeps
<1> QED BY <1>1, <1>2, ScriptKeeps DEF Next

-----------------------------------------------------------------------------
(* What the script keeps true *)

LEMMA ScriptInv == Spec => []Inv
BY InitInv, NextInv, PTL DEF Spec

\* The script's variables and NetworkManager's profiles keep their types.
THEOREM ScriptTypeOK == Spec => []TypeOK
<1>1. Inv => TypeOK
  BY DEF Inv
<1> QED BY <1>1, ScriptInv, PTL

\* NEED_PASSWORD is said only if no stored password was refused in this run: a saved but
\* wrong one surfaces as exit 3, whichever profile had it and whatever nmcli printed.
THEOREM ScriptSavedWrongSurfaces == Spec => []SavedWrongSurfaces
<1>1. Inv => SavedWrongSurfaces
  BY DEF Inv, RefusalJudged, SavedWrongSurfaces, Ended
<1> QED BY <1>1, ScriptInv, PTL

\* A join that says it has connected, with the password it was given and with every write
\* done, leaves a profile of the network that holds the password and needs no agent.
THEOREM ScriptPasswordPersisted == Spec => []PasswordPersisted
<1>1. Inv => PasswordPersisted
  BY DEF Inv, Persisted, Typed, Joining, HoldsPassword, PasswordPersisted
<1> QED BY <1>1, ScriptInv, PTL

\* Though a join deletes the network's profiles before it adds one, a network that was
\* saved still is when the join ends, unless it was killed or a write failed.
THEOREM ScriptNetworkNotLost == Spec => []NetworkNotLost
<1>1. Inv => NetworkNotLost
  BY DEF Inv, NotLost, Joining, HasProfile, NetworkNotLost, Ended
<1> QED BY <1>1, ScriptInv, PTL

\* After a forget no profile of the network is left, whatever names they had.
THEOREM ScriptForgetForgets == Spec => []ForgetForgets
<1>1. Inv => ForgetForgets
  BY DEF Inv, Forgotten, HasProfile, ForgetForgets
<1> QED BY <1>1, ScriptInv, PTL

\* No step changes the profile of another network, unless it bears this one's name; and a
\* tap on a secured network changes none.
THEOREM ScriptProfilesKept == Spec => ProfilesKept
<1>1. Inv /\ [Next]_vars =>
        [\A u \in Uuid : nm.prof[u] # None /\ nm.prof'[u] # nm.prof[u] =>
           /\ nm.prof[u].ssid = sh.ssid \/ nm.prof[u].name \in {sh.ssid, Legacy(sh.ssid)}
           /\ sh.forget \/ sh.pass # "none" \/ sh.sec = "open"]_vars
  BY NextKeeps DEF StepKeeps, Allowed, Match
<1> QED BY <1>1, ScriptInv, PTL DEF Spec, ProfilesKept
=============================================================================
