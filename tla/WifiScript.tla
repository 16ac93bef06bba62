----------------------------- MODULE WifiScript -----------------------------
(***************************************************************************)
(* The connect script, rootfs-overlay/usr/local/sbin/ginkgo-wifi-connect.sh *)
(* with the profiles and the radio of NetworkManager that it works on.      *)
(*                                                                         *)
(* One step is one call of nmcli, or one read of its answer, so that        *)
(* NetworkManager moves and the HUD kills the script (abort_job sends       *)
(* SIGTERM to its process group) between any two.  A step that writes may   *)
(* fail; the script ignores most of that.                                   *)
(*                                                                         *)
(* Abstractions.  A password is "good" when it is the access point's own.   *)
(* Of what nmcli prints ($ATTEMPT) only what is_wrong_pw greps for is kept: *)
(* every other message leads to exit 1.  The log, the passwd-file, the radio  *)
(* and "managed" switches and the interface argument are left out.          *)
(***************************************************************************)
EXTENDS Naturals

CONSTANTS
  SSID,     \* the networks
  Target,   \* those the HUD asks for
  Uuid,     \* the profiles there is room for: an add that finds none free fails
  None,     \* no profile
  Saved,    \* the profiles there may be at first
  Tries     \* how often wait_live polls again (GEMINI_WIFI_WAIT)

Legacy(s) == <<"gemini", s>>   \* con-name "gemini-$SSID" of older HUD builds
Psk == {"none", "good", "bad"}
Profile == [ssid : SSID, name : SSID \cup {Legacy(s) : s \in SSID},
            km : {"open", "psk", "sae"}, psk : Psk,
            agent : BOOLEAN]   \* psk-flags 1 or 2: the secret comes from an agent

ASSUME ScriptAssumption ==
  /\ Target \subseteq SSID /\ Saved \subseteq Profile
  /\ None \notin Uuid /\ None \notin Profile
  /\ Tries \in Nat

\* Older builds named a profile after its own network, and no network has such a name.
ASSUME LegacyAssumption ==
  \A s \in SSID : Legacy(s) \notin SSID /\ \A p \in Saved : p.name = Legacy(s) => p.ssid = s

VARIABLES
  nm,   \* NetworkManager: the profiles, and the activation of the radio
  sh    \* the script: its place, arguments and variables, and how it last ended

vars == <<nm, sh>>

Said == {"", "wrong", "secrets"}
Nm == [prof : [Uuid -> Profile \cup {None}],
       st : {"connected", "connecting", "disconnected"},
       uuid : Uuid \cup {None},      \* the active profile
       secret : Psk \cup {"open"},   \* what it is being activated with
       said : Said]                  \* why the last activation failed

Label == {"idle", "st", "row", "choose", "saved", "judge", "needpw", "openfail",
          "modify", "existed", "del", "add", "modname", "retry", "device", "up",
          "upwait", "explain", "id", "legacy", "list", "inuse", "disc"}
Sh == [pc : Label, ssid : SSID, forget : BOOLEAN, pass : Psk,
       sec : {"open", "psk", "sae"},
       at : Label, fail : Label,       \* where to go when not live, when the up failed
       u : Uuid \cup {None},           \* the profile worked on, None: by name
       given : BOOLEAN,                \* the up gets a passwd-file
       todo : SUBSET Uuid, tries : 0..Tries,
       gave : BOOLEAN, att : SUBSET {"wrong", "secrets"},
       rc : {"", "0", "1", "2", "3", "killed"},
       \* Of the run, for the properties: a network with a profile at the start, a
       \* write that failed, a stored password that was refused.
       had : BOOLEAN, failed : BOOLEAN, refused : BOOLEAN]

TypeOK == nm \in Nm /\ sh \in Sh

-----------------------------------------------------------------------------
(* NetworkManager *)

Known == {u \in Uuid : nm.prof[u] # None}
OnSsid == IF nm.uuid = None THEN None ELSE nm.prof[nm.uuid].ssid
Down(n, why) == [n EXCEPT !.st = "disconnected", !.uuid = None, !.secret = "open", !.said = why]
Remove(n, D) ==
  LET p == [u \in Uuid |-> IF u \in D THEN None ELSE n.prof[u]]
  IN  IF n.uuid \in D THEN [Down(n, "") EXCEPT !.prof = p] ELSE [n EXCEPT !.prof = p]
\* The one radio leaves the network it was on.
Activate(n, u, secret) ==
  [n EXCEPT !.st = "connecting", !.uuid = u, !.secret = secret, !.said = ""]

\* The secrets an activation of u may have: the one given, or what is stored,
\* which this image's nmcli does not use unless it is given (line 315).
Secrets(u, given) ==
  IF nm.prof[u].km = "open" THEN {"open"}
  ELSE IF given # "none" THEN {given} ELSE {nm.prof[u].psk, "none"}

NmConnected ==
  /\ nm.st = "connecting" /\ nm.secret \in {"open", "good"}
  /\ nm' = [nm EXCEPT !.st = "connected", !.secret = "open"]
  /\ UNCHANGED sh

\* Out of range, no address, a timeout; or the secret is missing or refused.
NmFailed ==
  /\ nm.st = "connecting"
  /\ \E why \in CASE nm.secret = "none" -> {"secrets"}
                  [] nm.secret = "bad" -> Said
                  [] OTHER -> {""} : nm' = Down(nm, why)
  /\ UNCHANGED sh

NmLost == nm.st = "connected" /\ nm' = Down(nm, "") /\ UNCHANGED sh

\* Autoconnect, when no activation is being waited for.
NmAuto ==
  /\ nm.st = "disconnected" /\ sh.pc # "upwait"
  /\ \E u \in Known : \E x \in Secrets(u, "none") : nm' = Activate(nm, u, x)
  /\ UNCHANGED sh

-----------------------------------------------------------------------------
(* The script's variables *)

\* Mutant: every profile is taken for the network's.
uuids_for_ssid_NoFilter(s) == Known

uuids_for_ssid(s) == {u \in Known : nm.prof[u].ssid = s \/ nm.prof[u].name = Legacy(s)}
Named(s) == {u \in Known : nm.prof[u].name = s}

key_mgmt(sec) == IF sec = "sae" THEN "sae" ELSE "psk"

\* Mutant: what nmcli says of a missing secret does not count.
is_wrong_pw_GrepOnly(s) == "wrong" \in s.att

is_wrong_pw(s) == "wrong" \in s.att \/ (s.gave /\ "secrets" \in s.att)

Clear(s) == [s EXCEPT !.pc = "idle", !.at = "idle", !.fail = "idle", !.u = None,
                      !.given = FALSE, !.todo = {}, !.tries = 0, !.att = {}]
Exit(s, rc) == [Clear(s) EXCEPT !.rc = rc]
Goto(s, l) == [s EXCEPT !.pc = l]
FailWrongOr(s, rc) == IF is_wrong_pw(s) THEN Exit(s, "3") ELSE Exit(s, rc)   \* fail_explain

\* wait_live, or one live_ok when n is 0; at is where it goes on when not live.
Poll(s, at, n) == [s EXCEPT !.pc = "st", !.at = at, !.tries = n]
Delete(s) == [s EXCEPT !.pc = "del", !.todo = uuids_for_ssid(s.ssid)]
UpByName(s, given, else) ==
  [s EXCEPT !.pc = "up", !.u = None, !.given = given, !.at = else, !.fail = else]

\* A write of nmcli whose failure the script ignores.
MayWrite(p, s) ==
  \/ nm' = [nm EXCEPT !.prof = p] /\ sh' = s
  \/ UNCHANGED nm /\ sh' = [s EXCEPT !.failed = TRUE]

-----------------------------------------------------------------------------
(* Start, and the kill *)

Start(s, forget, pass, sec) ==
  LET r == [Clear(sh) EXCEPT
              !.ssid = s, !.forget = forget, !.pass = pass, !.sec = sec,
              !.gave = FALSE, !.rc = "", !.failed = FALSE, !.refused = FALSE,
              !.had = \E u \in Known : nm.prof[u].ssid = s]
  IN  /\ sh.pc = "idle"
      /\ sh' = IF forget THEN Goto(r, "id") ELSE Poll(r, "choose", 0)
      /\ UNCHANGED nm

\* abort_job of the HUD.
Kill == sh.pc # "idle" /\ sh' = [Clear(sh) EXCEPT !.rc = "killed"] /\ UNCHANGED nm

-----------------------------------------------------------------------------
(* Is the radio on the network?  Two reads of nmcli *)

LiveNo == sh' = IF sh.tries > 0 THEN [sh EXCEPT !.pc = "st", !.tries = @ - 1] ELSE Goto(sh, sh.at)

ReadState ==
  /\ sh.pc = "st"
  /\ IF nm.st = "connected" THEN sh' = Goto(sh, "row") ELSE LiveNo
  /\ UNCHANGED nm

ReadRow ==
  /\ sh.pc = "row"
  /\ IF OnSsid = sh.ssid THEN sh' = Exit(sh, "0") ELSE LiveNo
  /\ UNCHANGED nm

-----------------------------------------------------------------------------
(* nmcli connection up *)

Send(u, given, s) ==
  /\ \E x \in Secrets(u, given) : nm' = Activate(nm, u, x)
  /\ sh' = [s EXCEPT !.pc = "upwait", !.u = u, !.given = given # "none",
                     !.gave = @ \/ given # "none"]

\* By uuid or by name; a name no profile has fails.
Up ==
  LET C == IF sh.u # None THEN {sh.u} ELSE Named(sh.ssid)
  IN  /\ sh.pc = "up"
      /\ IF C = {} THEN sh' = Goto(sh, sh.fail) /\ UNCHANGED nm
         ELSE \E u \in C : Send(u, IF sh.given THEN sh.pass ELSE "none", sh)

\* It ends when the activation does, or after 30 s (nmcli -w 30).
UpWait ==
  /\ sh.pc = "upwait"
  /\ sh' = IF nm.st = "connected" THEN Poll(sh, sh.at, Tries)
           ELSE LET r == [sh EXCEPT !.att = @ \cup ({nm.said} \ {""}),
                                    !.refused = @ \/ (sh.pass = "none" /\ sh.given /\ nm.said # "")]
                IN  IF sh.fail = "st" THEN Poll(r, sh.at, Tries) ELSE Goto(r, sh.fail)
  /\ UNCHANGED nm

-----------------------------------------------------------------------------
(* Without a password: the saved profiles, one after the other *)

Choose ==
  /\ sh.pc = "choose"
  /\ IF sh.pass = "none"
     THEN sh' = [sh EXCEPT !.pc = "saved", !.todo = uuids_for_ssid(sh.ssid)]
     ELSE LET r == [sh EXCEPT !.gave = TRUE]
          IN  IF uuids_for_ssid(sh.ssid) = {} THEN sh' = Delete(r)
              ELSE \E u \in uuids_for_ssid(sh.ssid) : sh' = [r EXCEPT !.pc = "modify", !.u = u]
  /\ UNCHANGED nm

TrySaved ==
  /\ sh.pc = "saved"
  /\ \/ sh.todo = {} /\ sh' = Poll(sh, "needpw", 0) /\ UNCHANGED nm
     \/ \E u \in sh.todo :
          LET p == nm.prof[u]
              s == [sh EXCEPT !.todo = @ \ {u}]
              next == IF p.km = "open" THEN "saved" ELSE "judge"
          IN  IF p.km # "open" /\ p.psk = "none" /\ p.agent THEN sh' = s /\ UNCHANGED nm
              ELSE Send(u, IF p.km = "open" THEN "none" ELSE p.psk,
                        [s EXCEPT !.at = next, !.fail = next])

Judge ==
  /\ sh.pc = "judge"
  /\ sh' = IF is_wrong_pw(sh) THEN Exit(sh, "3") ELSE Goto(sh, "saved")
  /\ UNCHANGED nm

\* NEED_PASSWORD, unless the network is listed as open.
NeedPassword ==
  /\ sh.pc = "needpw"
  /\ sh' = IF sh.sec = "open" THEN Delete(sh) ELSE Exit(sh, "2")
  /\ UNCHANGED nm

OpenFailed == sh.pc = "openfail" /\ sh' = Exit(sh, "1") /\ UNCHANGED nm

-----------------------------------------------------------------------------
(* With a password: the profile there is gets it, or a new one is made *)

\* Mutant: psk-flags stay what they were.
WithPassword_KeepsFlags(p) == [p EXCEPT !.km = key_mgmt(sh.sec), !.psk = sh.pass]

WithPassword(p) == [p EXCEPT !.km = key_mgmt(sh.sec), !.psk = sh.pass, !.agent = FALSE]

ModifyExisted ==
  /\ sh.pc = "modify"
  /\ MayWrite([nm.prof EXCEPT ![sh.u] = WithPassword(@)],
              [sh EXCEPT !.pc = "up", !.given = TRUE, !.at = "explain", !.fail = "existed"])

Existed ==
  /\ sh.pc = "existed"
  /\ sh' = IF is_wrong_pw(sh) THEN Exit(sh, "3") ELSE Delete(sh)
  /\ UNCHANGED nm

\* The same loop deletes the profiles of a forget.
DeleteProfiles ==
  /\ sh.pc = "del"
  /\ \/ /\ sh.todo = {} /\ sh' = Goto(sh, IF sh.forget THEN "inuse" ELSE "add")
        /\ UNCHANGED nm
     \/ \E u \in sh.todo :
          LET s == [sh EXCEPT !.todo = @ \ {u}]
          IN  \/ nm' = Remove(nm, {u}) /\ sh' = s
              \/ UNCHANGED nm /\ sh' = [s EXCEPT !.failed = TRUE]

NewProfile ==
  [ssid |-> sh.ssid, name |-> sh.ssid, psk |-> sh.pass, agent |-> FALSE,
   km |-> IF sh.pass = "none" THEN "open" ELSE key_mgmt(sh.sec)]

\* Mutant: nothing is added when there was a profile, though it has been deleted.
Add_OnlyIfNew ==
  /\ sh.pc = "add" /\ sh' = Goto(sh, "modname")
  /\ \/ sh.u # None /\ UNCHANGED nm
     \/ sh.u = None /\ \E u \in Uuid \ Known : nm' = [nm EXCEPT !.prof[u] = NewProfile]

Add ==
  LET s == IF sh.pass = "none" THEN UpByName(sh, FALSE, "openfail") ELSE Goto(sh, "modname")
  IN  /\ sh.pc = "add"
      /\ \/ Known = Uuid /\ sh' = [s EXCEPT !.failed = TRUE] /\ UNCHANGED nm
         \/ \E u \in Uuid \ Known : MayWrite([nm.prof EXCEPT ![u] = NewProfile], s)

\* connection modify by name: any profile of that name, whatever its network.
ModifyName(next) ==
  IF Named(sh.ssid) = {} THEN sh' = next /\ UNCHANGED nm
  ELSE \E u \in Named(sh.ssid) :
         LET p == [nm.prof[u] EXCEPT !.psk = sh.pass, !.agent = FALSE,
                                     !.km = IF sh.pc = "retry" THEN "psk" ELSE @]
         IN  MayWrite([nm.prof EXCEPT ![u] = p], next)

ModifyAdded == sh.pc = "modname" /\ ModifyName(UpByName(sh, TRUE, "retry"))

\* An SAE network is tried once more as WPA-PSK.
RetryPsk ==
  /\ sh.pc = "retry"
  /\ IF key_mgmt(sh.sec) = "sae" THEN ModifyName(UpByName(sh, TRUE, "device"))
     ELSE sh' = Goto(sh, "device") /\ UNCHANGED nm

\* nmcli device wifi connect: a profile of the network is used again, or one is
\* made; or there is no such network.
DeviceConnect ==
  /\ sh.pc = "device"
  /\ \/ sh' = Poll(sh, "explain", Tries) /\ UNCHANGED nm
     \/ \E u \in (Uuid \ Known) \cup {v \in Known : nm.prof[v].ssid = sh.ssid} :
          LET p == IF nm.prof[u] = None THEN NewProfile ELSE WithPassword(nm.prof[u])
          IN  /\ nm' = Activate([nm EXCEPT !.prof[u] = p], u, sh.pass)
              /\ sh' = [sh EXCEPT !.pc = "upwait", !.u = u, !.at = "explain", !.fail = "st"]

Explain == sh.pc = "explain" /\ sh' = FailWrongOr(sh, "1") /\ UNCHANGED nm

-----------------------------------------------------------------------------
(* Forget *)

\* connection delete id: the profiles of one name, each of them or none.
DeleteNamed(name, next) ==
  \E D \in SUBSET {u \in Known : nm.prof[u].name = name} :
    /\ nm' = Remove(nm, D)
    /\ sh' = [sh EXCEPT !.pc = next,
                        !.failed = @ \/ \E u \in Known \ D : nm.prof[u].name = name]

DeleteId == sh.pc = "id" /\ DeleteNamed(sh.ssid, "legacy")
DeleteLegacy == sh.pc = "legacy" /\ DeleteNamed(Legacy(sh.ssid), "list")

\* Mutant: profiles are told by their names alone.
ListForget_NamesOnly ==
  /\ sh.pc = "list"
  /\ sh' = [sh EXCEPT !.pc = "del", !.todo = {u \in Known : nm.prof[u].name \in {sh.ssid, Legacy(sh.ssid)}}]
  /\ UNCHANGED nm

ListForget ==
  /\ sh.pc = "list"
  /\ sh' = [sh EXCEPT !.pc = "del", !.todo = uuids_for_ssid(sh.ssid) \cup Named(sh.ssid)]
  /\ UNCHANGED nm

ReadInUse ==
  /\ sh.pc = "inuse"
  /\ sh' = IF OnSsid = sh.ssid THEN Goto(sh, "disc") ELSE Exit(sh, "0")
  /\ UNCHANGED nm

Disconnect ==
  /\ sh.pc = "disc"
  /\ nm' \in {Down(nm, ""), nm}
  /\ sh' = Exit(sh, "0")

-----------------------------------------------------------------------------
\* A HUD that starts a job has no other running, and joins no 802.1X network.
Join == \E s \in Target, pass \in Psk, sec \in {"open", "psk", "sae"} : Start(s, FALSE, pass, sec)
Forget == \E s \in Target : Start(s, TRUE, "none", "open")

Script ==
  \/ ReadState \/ ReadRow \/ Up \/ UpWait \/ Choose \/ TrySaved \/ Judge \/ NeedPassword
  \/ OpenFailed \/ ModifyExisted \/ Existed \/ DeleteProfiles \/ Add \/ ModifyAdded
  \/ RetryPsk \/ DeviceConnect \/ Explain
  \/ DeleteId \/ DeleteLegacy \/ ListForget \/ ReadInUse \/ Disconnect

Network == NmConnected \/ NmFailed \/ NmLost \/ NmAuto

Init ==
  /\ \E p \in [Uuid -> Saved \cup {None}] :
       nm = [prof |-> p, st |-> "disconnected", uuid |-> None, secret |-> "open", said |-> ""]
  /\ \E s \in Target :
       sh = [pc |-> "idle", ssid |-> s, forget |-> FALSE, pass |-> "none", sec |-> "open",
             at |-> "idle", fail |-> "idle", u |-> None, given |-> FALSE, todo |-> {},
             tries |-> 0, gave |-> FALSE, att |-> {}, rc |-> "",
             had |-> FALSE, failed |-> FALSE, refused |-> FALSE]

Next == Join \/ Forget \/ Kill \/ Script \/ Network

Spec == Init /\ [][Next]_vars

-----------------------------------------------------------------------------
(* Properties *)

\* A profile changes only at the hands of a run that is about its network or finds its
\* network's name on it; and never by a tap on a secured network, which has no password
\* to save.
ProfilesKept ==
  [][\A u \in Uuid : nm.prof[u] # None /\ nm.prof'[u] # nm.prof[u] =>
       /\ nm.prof[u].ssid = sh.ssid \/ nm.prof[u].name \in {sh.ssid, Legacy(sh.ssid)}
       /\ sh.forget \/ sh.pass # "none" \/ sh.sec = "open"]_vars

Ended(rcs) == sh.pc = "idle" /\ sh.rc \in rcs

\* "Saved-but-wrong PSK must surface as 密码不对, not a blank password sheet": exit 2 asks
\* for a password only if no stored one was refused, by whatever profile and message.
SavedWrongSurfaces == Ended({"2"}) => ~sh.refused

\* "persist PSK with psk-flags=0": when the password submitted was used and no write
\* failed, a profile of the network holds it and needs no agent.
PasswordPersisted ==
  Ended({"0"}) /\ ~sh.forget /\ sh.pass # "none" /\ sh.gave /\ ~sh.failed =>
     \E u \in Known : /\ nm.prof[u].ssid = sh.ssid
                      /\ nm.prof[u].psk = sh.pass /\ ~nm.prof[u].agent

\* A join deletes the network's profiles before it adds one.  However it ends, unless it
\* is killed or a write fails, a network that was saved still is.
NetworkNotLost ==
  Ended({"0", "1", "2", "3"}) /\ ~sh.forget /\ sh.had /\ ~sh.failed =>
     \E u \in Known : nm.prof[u].ssid = sh.ssid

\* After a forget no profile of the network is left, whatever a killed join had made.
ForgetForgets ==
  Ended({"0"}) /\ sh.forget /\ ~sh.failed =>
     \A u \in Known : nm.prof[u].ssid # sh.ssid
=============================================================================
