------------------------------- MODULE WifiHud -------------------------------
(***************************************************************************)
(* The Wi-Fi manager of the HUD: initramfs/ginkgo-status.c.  One process    *)
(* with one main loop owns the password / detail / list sheets, what it     *)
(* believes about the radio, and at most ONE child process, the job, that   *)
(* runs nmcli, iw or the connect script.  Whatever is asked for while a job *)
(* runs is queued in the want_* flags.                                      *)
(*                                                                         *)
(* The C functions are operators of the same name from a HUD state (the     *)
(* record hud, one field per static variable of the source) to a HUD        *)
(* state, so that a handler is the composition of every call it makes.      *)
(*                                                                         *)
(* Abstractions.  The scan list has one row per SSID, and its order is a    *)
(* choice of the row that is reached first.  A password is whether it is    *)
(* there and long enough.  The sheet's animation is whether it is past the  *)
(* threshold tap() compares it with.  The status line and connect_fail,     *)
(* which only chooses its colour, the signal meters,                       *)
(* the lengths of buffers and screen blanking are left out.  The network    *)
(* manager is the environment: a job that ends may print anything it can.   *)
(* A finger taps, or types on the on-screen keyboard: a key acts when the    *)
(* finger lifts, and a job's answer may have closed the sheet by then.       *)
(***************************************************************************)
EXTENDS WifiFlow

CONSTANTS
  Enterprise,   \* the SSIDs whose security is 802.1X
  Longer,       \* <<a, b>> when name a is name b followed by '-' or '_' and more
  Starts        \* the outcomes of start_nmcli with no job running: it may fail
                \* (no nmcli, no pipe, no fork) when FALSE is one of them

ASSUME HudAssumption ==
  /\ Enterprise \subseteq SSID
  /\ Longer \subseteq SSID \X SSID
  /\ Starts \subseteq BOOLEAN

Sheet == {"none", "list", "detail", "pass"}
Job == {"none", "radio", "info", "scan", "connect", "link", "forget"}
Want == {"connect", "scan", "info", "link"}

\* The static variables, with want_x as x \in want, connect_need_pass
\* as need_pass, and sec the row selected_sec was copied from.
Hud == [sheet : Sheet, shown : BOOLEAN,
        connected : BOOLEAN, busy : BOOLEAN, ssid : OptSsid,
        aps : SUBSET SSID, active : SUBSET SSID,
        selected_ssid : OptSsid, sec : OptSsid,
        connecting : BOOLEAN, need_pass : BOOLEAN,
        connect_ssid : OptSsid, known_psk_ssid : OptSsid,
        join_wait_live : BOOLEAN,
        forgetting : BOOLEAN, forget_ssid : OptSsid,
        job : Job, want : SUBSET Want, pend_ssid : OptSsid, pend_pass : BOOLEAN]

VARIABLES
  hud,   \* the static variables of ginkgo-status.c
  pc,    \* where the main loop is: about to poll the job ("input"), or drawing
         \* ("draw"); taps are delivered in both
  osk_held, \* the keyboard has a finger: the next lift is a key, whatever the sheet
  late   \* history: a key has submitted a password while the join was being confirmed,
         \* and since then the manager has not been without a join and a queued one

vars == <<hud, pc, osk_held, late>>

TypeOK ==
  /\ hud \in Hud /\ pc \in {"input", "draw"}
  /\ osk_held \in BOOLEAN /\ late \in BOOLEAN

-----------------------------------------------------------------------------
(* Jobs *)

\* main runs wifi_radio() once before its loop, so a radio job is either
\* running or, when it could not start, an info job is wanted.
start_nmcli(h, kind, ok) ==
  IF h.job = "none" /\ ok THEN [h EXCEPT !.job = kind] ELSE h

\* wifi_info, wifi_scan and wifi_link are this with their own kind: a job that
\* cannot start is wanted later.
StartOrWant(h, kind, later, ok) ==
  IF h.job = "none" /\ ok THEN [h EXCEPT !.job = kind]
                          ELSE [h EXCEPT !.want = @ \cup {later}]

wifi_radio(h, ok) == StartOrWant(h, "radio", "info", ok)
wifi_info(h, ok) == StartOrWant(h, "info", "info", ok)
wifi_scan(h, ok) == StartOrWant(h, "scan", "scan", ok)
wifi_link(h, ok) == StartOrWant(h, "link", "link", ok)

\* Mutant: only the harmless jobs are killed.
abort_job_SparesConnect(h, own) == IF h.job \in {own, "connect"} THEN h ELSE [h EXCEPT !.job = "none"]

\* Kills the job and waits for it; the callers never abort their own kind.
abort_job(h, own) == IF h.job = own THEN h ELSE [h EXCEPT !.job = "none"]

-----------------------------------------------------------------------------
(* What the HUD believes *)

mark_ap_active(h, s) == [h EXCEPT !.active = h.aps \cap {s}]
mark_ap_inactive(h, s) == [h EXCEPT !.active = IF s = NoSsid THEN {} ELSE @ \ {s}]

select_ap_idx(h, s) == [h EXCEPT !.selected_ssid = s, !.sec = s]
sync_selected_ap(h) == IF h.selected_ssid \in h.aps THEN select_ap_idx(h, h.selected_ssid) ELSE h

ap_is_current(h, s) ==
  /\ ~gw_ssid_eq(h.forget_ssid, s)
  /\ h.connected
  /\ gw_ssid_eq(h.ssid, s) \/ s \in h.active

picked_ssid(h) == IF h.connecting /\ h.connect_ssid # NoSsid THEN h.connect_ssid ELSE h.selected_ssid

\* Mutant: a network that left the scan list passes.
PickedEnterprise_ListOnly(h) == picked_ssid(h) \in h.aps \cap Enterprise

\* wifi_sec_enterprise(picked_sec()): the row of the picked SSID when the scan
\* list has one, otherwise the security copied with the last selection.
PickedEnterprise(h) ==
  IF picked_ssid(h) \in h.aps THEN picked_ssid(h) \in Enterprise ELSE h.sec \in Enterprise

remember_psk(h, s) == [h EXCEPT !.known_psk_ssid = s]
forget_psk(h, s) == IF gw_ssid_eq(h.known_psk_ssid, s) THEN [h EXCEPT !.known_psk_ssid = NoSsid] ELSE h

Sibling(a, b) == <<a, b>> \in Longer \/ <<b, a>> \in Longer

\* s is the name that is left when blanks, the line's end and "gemini-", which older
\* scripts put before a profile's name, are taken off the report.  A row of the scan
\* list goes the same way: no network itself bears a name that begins like that.
apply_wifi_ssid(h, s) ==
  IF \/ s = NoSsid
     \/ h.connect_ssid \notin {NoSsid, s} /\ Sibling(s, h.connect_ssid)
     \/ gw_ssid_eq(h.forget_ssid, s)
  THEN h
  ELSE [h EXCEPT !.forget_ssid = NoSsid,
                 !.ssid = IF <<h.ssid, s>> \in Longer THEN h.ssid ELSE s]

\* The rows apply_active_ap stops at; FirstRow is the choices for the first.
ActiveRows(h) == {s \in h.aps : /\ s \in h.active \/ s = h.ssid
                                /\ ~gw_ssid_eq(h.forget_ssid, s)}
FirstRow(h) == IF ActiveRows(h) = {} THEN {NoSsid} ELSE ActiveRows(h)
apply_active_ap(h, row) == apply_wifi_ssid(h, row)

wifi_is_joining(h) == h.connecting \/ h.join_wait_live \/ (h.busy /\ ~h.connected)
wifi_is_assoc(h) == h.connecting \/ h.busy

\* The name on the home card; "Wi-Fi" is NoSsid here.  With neither a target nor
\* a live name the first active row is shown, so the answer is a set.
display_ssid(h) ==
  LET live == gw_display_ssid(wifi_is_joining(h), h.connect_ssid, h.ssid)
      rows == {s \in h.active : ~gw_ssid_eq(h.forget_ssid, s)}
  IN  IF live # NoSsid THEN {live} ELSE IF rows # {} THEN rows ELSE {NoSsid}

\* The name draw_pass_sheet puts over the password field.
PassTitle(h) == IF h.selected_ssid # NoSsid THEN h.selected_ssid ELSE h.connect_ssid

-----------------------------------------------------------------------------
(* Requests: join, submit a password, forget *)

wifi_connect(h, s, pass, ok) ==
  LET g == [abort_job(h, "connect") EXCEPT
              !.forget_ssid = NoSsid, !.connecting = TRUE,
              !.join_wait_live = FALSE, !.busy = TRUE, !.connect_ssid = s]
      keep == gw_keep_pending_psk(~pass, "connect" \in g.want, g.pend_ssid, g.pend_pass, s)
  IN  IF s = NoSsid THEN h
      ELSE IF g.job = "none" THEN start_nmcli(g, "connect", ok)
      ELSE IF keep THEN g
      ELSE [g EXCEPT !.pend_ssid = s, !.pend_pass = pass, !.want = @ \cup {"connect"}]

wifi_submit_pass(h, long, ok) ==
  LET s == gw_pass_ssid(h.connect_ssid, h.selected_ssid)
      g == remember_psk([h EXCEPT !.need_pass = TRUE], s)
  IN  IF s = NoSsid \/ h.forgetting \/ PickedEnterprise(h) \/ ~long THEN h
      ELSE IF h.connecting
           THEN [g EXCEPT !.pend_ssid = s, !.pend_pass = TRUE, !.want = @ \cup {"connect"}]
      ELSE wifi_connect(g, s, TRUE, ok)

\* Mutant: the spinner stays when the job cannot start.
wifi_forget_StuckSpinner(h, s, ok) ==
  IF s = NoSsid \/ ~gw_forget_can_start(h.forgetting, h.job # "none", h.job = "forget") THEN h
  ELSE start_nmcli([abort_job(h, "forget") EXCEPT
                      !.join_wait_live = FALSE, !.connecting = FALSE, !.busy = FALSE,
                      !.want = {}, !.forgetting = TRUE, !.forget_ssid = s], "forget", ok)

\* Mutant: the queue survives a forget.
wifi_forget_KeepsQueue(h, s, ok) ==
  IF s = NoSsid \/ ~gw_forget_can_start(h.forgetting, h.job # "none", h.job = "forget") THEN h
  ELSE start_nmcli([abort_job(h, "forget") EXCEPT
                      !.join_wait_live = FALSE, !.connecting = FALSE, !.busy = FALSE,
                      !.forgetting = ok, !.forget_ssid = s], "forget", ok)

wifi_forget(h, s, ok) ==
  LET g == mark_ap_inactive(
             [abort_job(h, "forget") EXCEPT
                !.join_wait_live = FALSE, !.connecting = FALSE, !.busy = FALSE,
                !.want = {}, !.forgetting = TRUE, !.forget_ssid = s], s)
      k == IF gw_ssid_eq(h.ssid, s) THEN [g EXCEPT !.connected = FALSE, !.ssid = NoSsid] ELSE g
  IN  IF s = NoSsid \/ ~gw_forget_can_start(h.forgetting, h.job # "none", h.job = "forget") THEN h
      ELSE IF ok THEN start_nmcli(k, "forget", ok) ELSE [k EXCEPT !.forgetting = FALSE]

\* Mutant: an empty probe although the session has the password.
wifi_join_picked_Probe(h, ok) ==
  IF \/ h.selected_ssid = NoSsid
     \/ ~gw_allow_join(h.connecting, h.forgetting, ap_is_current(h, h.selected_ssid))
     \/ PickedEnterprise(h)
  THEN h
  ELSE wifi_connect([h EXCEPT !.need_pass = FALSE], h.selected_ssid, FALSE, ok)

wifi_join_picked(h, ok) ==
  LET s == h.selected_ssid
      session == gw_join_use_session_psk(s, h.known_psk_ssid)
  IN  IF \/ s = NoSsid
         \/ ~gw_allow_join(h.connecting, h.forgetting, ap_is_current(h, s))
         \/ PickedEnterprise(h)
      THEN h
      ELSE wifi_connect([h EXCEPT !.need_pass = session], s, session, ok)

\* Mutant: want_link is not cleared when its job is kicked.
kick_pending_LinkStays(h, ok) ==
  IF h.job # "none" THEN h
  ELSE IF "connect" \in h.want THEN wifi_connect([h EXCEPT !.want = @ \ {"connect"}], h.pend_ssid, h.pend_pass, ok)
  ELSE IF "scan" \in h.want THEN wifi_scan([h EXCEPT !.want = @ \ {"scan"}], ok)
  ELSE IF "link" \in h.want THEN wifi_link(h, ok)
  ELSE IF "info" \in h.want THEN wifi_info([h EXCEPT !.want = @ \ {"info"}], ok)
  ELSE h

\* want_forget is never set, so the queue starts with want_connect.
kick_pending(h, ok) ==
  LET drop(w) == [h EXCEPT !.want = @ \ {w}]
  IN  IF h.job # "none" THEN h
      ELSE IF "connect" \in h.want THEN wifi_connect(drop("connect"), h.pend_ssid, h.pend_pass, ok)
      ELSE IF "scan" \in h.want THEN wifi_scan(drop("scan"), ok)
      ELSE IF "link" \in h.want THEN wifi_link(drop("link"), ok)
      ELSE IF "info" \in h.want THEN wifi_info(drop("info"), ok)
      ELSE h

\* Mutant: the timer stops the wait but not the spinner.
maybe_confirm_join_SpinnerStays(h, timed_out) ==
  IF ~h.join_wait_live \/ h.connect_ssid = NoSsid THEN h
  ELSE IF gw_join_confirm_ok(h.connected, h.ssid, h.connect_ssid)
  THEN [mark_ap_active(h, h.connect_ssid) EXCEPT
          !.join_wait_live = FALSE, !.connecting = FALSE, !.busy = FALSE,
          !.sheet = "none", !.want = @ \cup {"scan"}]
  ELSE IF timed_out
  THEN [h EXCEPT !.join_wait_live = FALSE, !.sheet = IF @ = "none" THEN "detail" ELSE @]
  ELSE h

\* Mutant: the sheet is set from the other sheet enumeration, GW_SHEET_HOME.
maybe_confirm_join_OtherEnum(h, timed_out) ==
  IF h.join_wait_live /\ gw_join_confirm_ok(h.connected, h.ssid, h.connect_ssid)
  THEN [h EXCEPT !.join_wait_live = FALSE, !.connecting = FALSE, !.sheet = "home"]
  ELSE h

maybe_confirm_join(h, timed_out) ==
  IF ~h.join_wait_live \/ h.connect_ssid = NoSsid THEN h
  ELSE IF gw_join_confirm_ok(h.connected, h.ssid, h.connect_ssid)
  THEN [mark_ap_active(h, h.connect_ssid) EXCEPT
          !.join_wait_live = FALSE, !.connecting = FALSE, !.busy = FALSE,
          !.sheet = "none", !.want = @ \cup {"scan"}]
  ELSE IF gw_join_confirm_fail(timed_out, h.connected, h.ssid, h.connect_ssid)
  THEN [h EXCEPT !.join_wait_live = FALSE, !.connecting = FALSE, !.busy = FALSE,
                 !.sheet = IF @ = "none" THEN "detail" ELSE @]
  ELSE h

-----------------------------------------------------------------------------
(* Reaping a job: poll_job by kind *)

close_job(h) == [h EXCEPT !.job = "none"]

\* NetworkManager's word for the device; "none" is an error or no Wi-Fi device.
parse_info(h, st) ==
  LET up == st = "up"
      g  == [h EXCEPT !.connected = up, !.busy = st = "busy"]
  IN  IF st = "none" THEN h
      ELSE IF gw_forget_hold_connected(h.forget_ssid, up, h.ssid)
      THEN [g EXCEPT !.connected = FALSE, !.busy = FALSE, !.ssid = NoSsid]
      ELSE IF st = "down" THEN [g EXCEPT !.forget_ssid = NoSsid] ELSE g

\* Mutant: the IN-USE row of the network being forgotten is kept.
ScanRows_Unfiltered(h, aps, inuse) == sync_selected_ap([h EXCEPT !.aps = aps, !.active = inuse])

\* parse_scan up to its call of apply_active_ap.
ScanRows(h, aps, inuse) ==
  sync_selected_ap([h EXCEPT !.aps = aps, !.active = inuse \ {h.forget_ssid}])

OnInfo(h, st) ==
  LET g == parse_info(close_job(h), st)
  IN  maybe_confirm_join(
        IF g.connected \/ g.busy \/ g.join_wait_live THEN [g EXCEPT !.want = @ \cup {"link"}] ELSE g,
        FALSE)

OnLink(h, s) ==
  LET g == maybe_confirm_join(apply_wifi_ssid(close_job(h), s), FALSE)
  IN  IF g.join_wait_live THEN [g EXCEPT !.want = @ \cup {"info"}] ELSE g

OnRadio(h) == [close_job(h) EXCEPT !.want = @ \cup {"info", "scan"}]

ConnectIn(h, rc, text) ==
  [rc |-> rc, text |-> text, connected |-> h.connected, live_ssid |-> h.ssid,
   connect_ssid |-> h.connect_ssid, left_home |-> h.sheet = "none",
   want_connect |-> "connect" \in h.want, pend_ssid |-> h.pend_ssid,
   pend_has_pass |-> h.pend_pass, used_pass |-> h.need_pass,
   have_session_psk |-> gw_join_use_session_psk(h.connect_ssid, h.known_psk_ssid)]

\* After both password outcomes the sheet is about the SSID that failed.
AskPassword(h) ==
  [sync_selected_ap([h EXCEPT !.selected_ssid = IF h.connect_ssid # NoSsid THEN h.connect_ssid ELSE @])
     EXCEPT !.sheet = "pass"]

\* Mutant: the password sheet stays up while the join is confirmed.
JoinAnswered_SheetStays(h) ==
  maybe_confirm_join(
    [h EXCEPT !.join_wait_live = TRUE, !.connecting = TRUE, !.busy = TRUE,
              !.want = (@ \ {"connect"}) \cup {"info", "link"}],
    FALSE)

JoinAnswered(h) ==
  maybe_confirm_join(
    [h EXCEPT !.join_wait_live = TRUE, !.connecting = TRUE, !.busy = TRUE,
              !.want = (IF gw_drop_pending(TRUE, h.connect_ssid, h.pend_ssid)
                        THEN @ \ {"connect"} ELSE @) \cup {"info", "link"},
              !.sheet = IF @ = "pass" THEN "detail" ELSE @],
    FALSE)

JoinRetried(h, ok) ==
  wifi_connect([h EXCEPT !.want = IF gw_ssid_eq(h.pend_ssid, h.connect_ssid) /\ ~h.pend_pass
                                  THEN @ \ {"connect"} ELSE @],
               h.connect_ssid, TRUE, ok)

JoinFailed(h) ==
  [h EXCEPT !.sheet = IF @ = "none" THEN @ ELSE IF h.need_pass THEN "pass" ELSE "detail"]

OnConnect(h, rc, text, ok) ==
  LET act == gw_on_connect_job(ConnectIn(h, rc, text))
      g   == [close_job(h) EXCEPT !.connecting = FALSE, !.busy = FALSE]
  IN  CASE act = "success"      -> JoinAnswered(g)
        [] act = "retry_psk"    -> JoinRetried(g, ok)
        [] act = "wrong_pass"   -> AskPassword(forget_psk(g, g.connect_ssid))
        [] act = "open_pass"    -> AskPassword(g)
        [] act = "wait_pending" -> g
        [] act = "fail"         -> JoinFailed(g)

\* Mutant: a failed forget returns before the spinner is cleared.
OnForget_EarlyReturn(h, rc) ==
  IF rc # 0 THEN [close_job(h) EXCEPT !.sheet = "detail"]
  ELSE [forget_psk(close_job(h), h.selected_ssid) EXCEPT
          !.forgetting = FALSE, !.sheet = "list", !.want = @ \cup {"info", "scan"}]

\* The live SSID goes when it is the forgotten one.
ForgetLive(h) ==
  IF \/ gw_ssid_eq(h.ssid, h.selected_ssid)
     \/ gw_ssid_eq(h.ssid, h.forget_ssid)
     \/ gw_forget_hold_connected(h.forget_ssid, TRUE, h.ssid)
  THEN [h EXCEPT !.connected = FALSE, !.ssid = NoSsid]
  ELSE h

Forgot(h) ==
  LET g == ForgetLive(mark_ap_inactive(h, IF h.forget_ssid # NoSsid THEN h.forget_ssid
                                                                    ELSE h.selected_ssid))
  IN  [forget_psk(g, g.selected_ssid) EXCEPT !.sheet = "list", !.want = @ \cup {"info", "scan"}]

OnForget(h, rc) ==
  LET g == [close_job(h) EXCEPT !.forgetting = FALSE]
  IN  IF rc # 0 THEN [g EXCEPT !.sheet = "detail"] ELSE Forgot(g)

-----------------------------------------------------------------------------
(* The main loop *)

\* A join is under way or queued; late does not outlive that.
Pending(h) == h.connecting \/ "connect" \in h.want
StillLate == late' = (late /\ Pending(hud'))

Init ==
  /\ pc = "input" /\ osk_held = FALSE /\ late = FALSE
  /\ \E ok \in Starts :
       hud = wifi_radio([sheet |-> "none", shown |-> FALSE,
                         connected |-> FALSE, busy |-> FALSE, ssid |-> NoSsid,
                         aps |-> {}, active |-> {}, selected_ssid |-> NoSsid, sec |-> NoSsid,
                         connecting |-> FALSE, need_pass |-> FALSE,
                         connect_ssid |-> NoSsid, known_psk_ssid |-> NoSsid,
                         join_wait_live |-> FALSE, forgetting |-> FALSE, forget_ssid |-> NoSsid,
                         job |-> "none", want |-> {}, pend_ssid |-> NoSsid, pend_pass |-> FALSE],
                        ok)

\* The rest of the iteration's first half: the join's 12 s timer, which can only
\* have run out when the wait was on before, then the sheet's animation.
Settle(states) ==
  /\ pc = "input"
  /\ pc' = "draw"
  /\ \E h \in states, timed_out \in (IF hud.join_wait_live THEN BOOLEAN ELSE {FALSE}) :
       LET g == maybe_confirm_join(h, timed_out)
       IN  hud' \in {g, [g EXCEPT !.shown = g.sheet # "none"]}
  /\ StillLate /\ UNCHANGED osk_held

\* waitpid says the job still runs, or there is none.
PollNothing == Settle({hud})

Reap(kind, h) ==
  /\ hud.job = kind
  /\ Settle({kick_pending(h, ok) : ok \in Starts})

PollRadio == Reap("radio", OnRadio(hud))
PollInfo == \E st \in {"none", "down", "busy", "up"} : Reap("info", OnInfo(hud, st))
PollLink == \E s \in OptSsid : Reap("link", OnLink(hud, s))
PollForget == \E rc \in {0, 1} : Reap("forget", OnForget(hud, rc))

PollScan ==
  \E aps \in SUBSET SSID : \E inuse \in {{}} \cup {{s} : s \in aps} :
    LET g == ScanRows(close_job(hud), aps, inuse)
    IN  \E row \in FirstRow(g) :
          Reap("scan", maybe_confirm_join(apply_active_ap(g, row), FALSE))

\* The answers of ginkgo-wifi-connect.sh, and of a shell that cannot run it (2).
ScriptAnswers == {<<0, "connected">>, <<2, "need">>, <<2, "other">>, <<3, "wrong">>, <<1, "other">>}

PollConnect ==
  \E a \in ScriptAnswers, ok \in Starts : Reap("connect", OnConnect(hud, a[1], a[2], ok))

\* The second half: once a second sample_signal re-applies the scan list's active
\* row, then the queue is kicked, and with nothing running a poll may be due.
Kick ==
  /\ pc = "draw"
  /\ pc' = "input"
  /\ \E g \in {kick_pending(apply_active_ap(hud, row), ok) :
                 row \in {NoSsid} \cup FirstRow(hud), ok \in Starts} :
       \/ hud' = g
       \/ /\ g.job = "none"
          /\ ~g.connecting
          /\ hud' \in {wifi_info(g, ok) : ok \in Starts}
                      \cup {wifi_scan(g, ok) : ok \in {x \in Starts : g.sheet = "list"}}
  /\ StillLate /\ UNCHANGED osk_held

-----------------------------------------------------------------------------
(* Taps: tap() by the sheet that is up and the button that is hit *)

\* The lift of a finger is a key of the keyboard, if that has one, or a tap.
Tap(h) == ~osk_held /\ hud' = h /\ StillLate /\ UNCHANGED <<pc, osk_held>>

TapHome ==
  /\ hud.sheet = "none" \/ ~hud.shown
  /\ ~(wifi_is_assoc(hud) /\ ~hud.connected)
  /\ LET g == [hud EXCEPT !.sheet = "list"]
     IN  \E ok \in Starts : Tap(IF g.aps = {} THEN wifi_scan(g, ok) ELSE g)

OnSheet(s) == hud.sheet = s /\ hud.shown

TapListClose ==
  /\ OnSheet("list")
  /\ ~hud.connecting
  /\ Tap([hud EXCEPT !.sheet = "none"])

TapListRefresh ==
  /\ OnSheet("list")
  /\ ~hud.connecting
  /\ \E ok \in Starts : Tap(wifi_scan(hud, ok))

TapListRow ==
  /\ OnSheet("list")
  /\ \E s \in hud.aps :
       LET g == select_ap_idx(hud, s)
       IN  Tap(IF g.connecting \/ g.forgetting THEN g
               ELSE [g EXCEPT !.sheet = "detail"])

\* Mutant: the detail sheet can be left while forgetting.
TapDetailBack_Unguarded == OnSheet("detail") /\ Tap([hud EXCEPT !.sheet = "list"])

TapDetailBack ==
  /\ OnSheet("detail")
  /\ ~hud.forgetting
  /\ Tap([hud EXCEPT !.sheet = "list"])

TapDetailJoin == OnSheet("detail") /\ \E ok \in Starts : Tap(wifi_join_picked(hud, ok))

TapDetailForget ==
  OnSheet("detail") /\ \E ok \in Starts : Tap(wifi_forget(hud, hud.selected_ssid, ok))

TapPassBack ==
  /\ OnSheet("pass")
  /\ Tap([hud EXCEPT !.sheet = IF hud.selected_ssid # NoSsid THEN "detail" ELSE "list"])

TapPassJoin ==
  OnSheet("pass") /\ \E long \in BOOLEAN, ok \in Starts : Tap(wifi_submit_pass(hud, long, ok))

\* A finger comes down on the keyboard, or slides onto it.
osk_on_down ==
  /\ OnSheet("pass")
  /\ ~osk_held /\ osk_held' = TRUE
  /\ UNCHANGED <<hud, pc, late>>

\* The key under the finger that lifts: the Join key submits, any other types.  Only
\* osk_held is looked at, not the sheet; blanking the screen does not clear it.
osk_on_up ==
  /\ osk_held /\ osk_held' = FALSE
  /\ hud' \in {hud} \cup {wifi_submit_pass(hud, long, ok) : long \in BOOLEAN, ok \in Starts}
  /\ late' = ((late \/ (hud.join_wait_live /\ "connect" \in hud'.want)) /\ Pending(hud'))
  /\ UNCHANGED pc

-----------------------------------------------------------------------------
PollJob == PollRadio \/ PollInfo \/ PollScan \/ PollLink \/ PollConnect \/ PollForget

UserTap ==
  \/ TapHome \/ TapListClose \/ TapListRefresh \/ TapListRow
  \/ TapDetailBack \/ TapDetailJoin \/ TapDetailForget
  \/ TapPassBack \/ TapPassJoin
  \/ osk_on_down \/ osk_on_up

Next == PollNothing \/ PollJob \/ Kick \/ UserTap

Spec == Init /\ [][Next]_vars

\* The loop never stops; a job ends by itself (nmcli and the script bound every
\* wait), and time passes, so the join's 12 s timer runs out.
Fairness ==
  /\ WF_vars(PollNothing \/ PollJob)
  /\ WF_vars(Kick)
  /\ SF_vars(PollJob)
  /\ SF_vars(hud.join_wait_live /\ PollNothing /\ ~hud'.join_wait_live)

FairSpec == Spec /\ Fairness

-----------------------------------------------------------------------------
(* Properties *)

\* The "forgetting" spinner and the forget job are one: no path starts the spinner
\* without the job, drops it while the job runs, or has the job killed by a join.
ForgetOwnsJob == hud.forgetting <=> hud.job = "forget"

\* The result of a forget is applied to selected_ssid (forget_psk, the LIST sheet)
\* although the job was given forget_ssid, which another network's row may clear in
\* the meantime: the DETAIL sheet that started the forget stays up, on its SSID.
ForgetHoldsSelection ==
  hud.forgetting => /\ hud.sheet = "detail" /\ hud.shown
                    /\ hud.selected_ssid # NoSsid
                    /\ hud.forget_ssid \in {NoSsid, hud.selected_ssid}

\* While the connect script runs the HUD is joining and not yet confirming.
ConnectJobIsJoin == hud.job = "connect" => hud.connecting /\ ~hud.join_wait_live

\* While a join is being confirmed no script runs and the password sheet is down.  The
\* one thing that can be queued then is the password of a key that was held when the
\* script's answer closed the sheet.
ConfirmingIsQuiet ==
  hud.join_wait_live => /\ hud.connecting
                        /\ hud.sheet # "pass"
                        /\ hud.job \notin {"connect", "forget"}
                        /\ "connect" \in hud.want => late

\* What is queued behind a join is a password, never an empty probe, and a forget takes
\* it away: it cannot undo one.  It is for the very network being joined and goes when
\* the join does, unless a key submitted it during the confirmation: such a password
\* outlives the 12 s timer and may then take a later join's place.
QueuedJoinIsCurrent ==
  "connect" \in hud.want =>
    /\ hud.pend_pass /\ hud.pend_ssid # NoSsid
    /\ ~hud.forgetting /\ hud.forget_ssid = NoSsid
    /\ late \/ (hud.connecting /\ gw_ssid_eq(hud.pend_ssid, hud.connect_ssid))

\* A join without a password is never one for which the session has a password,
\* so RETRY_PSK, which could repeat for ever, is not taken.  The queued password that a
\* key left behind runs with the flags of the join before it and is the exception.
NoRetryLoop ==
  hud.connecting /\ ~hud.need_pass /\ ~late => ~gw_ssid_eq(hud.known_psk_ssid, hud.connect_ssid)

\* A network being forgotten is neither the live SSID nor the scan list's active
\* row, whatever a stale job reports, until the HUD has seen the radio leave it.
ForgottenIsGone ==
  hud.forget_ssid # NoSsid => /\ hud.ssid # hud.forget_ssid
                              /\ hud.forget_ssid \notin hud.active
                              /\ ~hud.connecting

\* With jobs that start, "connecting" always has somebody to end it.
NoOrphanJoin == hud.connecting => hud.job = "connect" \/ hud.join_wait_live

\* The password sheet draws a title and submits what is typed for a network: they
\* are the same (ginkgo-wifi-flow.h: "Password sheet belongs to the in-flight SSID,
\* not a stale list selection").
PassSheetIsTarget ==
  hud.sheet = "pass" => PassTitle(hud) = gw_pass_ssid(hud.connect_ssid, hud.selected_ssid)

\* A report that the radio is on the network being joined is believed: what is
\* ignored is a sibling of it (the comment in apply_wifi_ssid).
TargetIsBelieved ==
  hud.join_wait_live => apply_wifi_ssid(hud, hud.connect_ssid).ssid = hud.connect_ssid

\* The HUD never starts the script for an 802.1X network, though the row the check
\* looks at may have left the scan list since it was selected.
NoEnterpriseJoin == hud.connecting => hud.connect_ssid \notin Enterprise

\* The abstract requests of WifiJoin, read off the HUD.
Phase == IF hud.forgetting THEN "forgetting"
         ELSE IF hud.join_wait_live THEN "confirming"
         ELSE IF hud.connecting THEN "joining" ELSE "idle"
Network == IF hud.forgetting THEN hud.selected_ssid
           ELSE IF hud.connecting THEN hud.connect_ssid ELSE NoSsid

Joins == INSTANCE WifiJoin WITH phase <- Phase, network <- Network, resubmitted <- late

\* The Wi-Fi manager implements the one-request-at-a-time promise, with the exception
\* WifiJoin makes for a password submitted while its join is being confirmed.
HudJoins == Joins!Spec

\* A forget ends, so its spinner does.
ForgetEnds == hud.forgetting ~> ~hud.forgetting

\* The wait for a join to come up ends, whatever the radio does, in 12 s.
ConfirmEnds == hud.join_wait_live ~> ~hud.join_wait_live

\* A join ends when the user lets it: every password submitted while one is under
\* way may start the script once more.  The exception of NoRetryLoop is one here, too.
JoinEnds ==
  <>[][~(TapPassJoin \/ osk_on_up)]_vars /\ <>[]~late => (hud.connecting ~> ~hud.connecting)

\* No request in the want_* flags starves behind the others: left alone, the HUD
\* empties its queue again and again.
QueueDrains == <>[][~UserTap]_vars => []<>(hud.want = {})

=============================================================================
