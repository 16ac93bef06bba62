------------------------------ MODULE WifiFlow ------------------------------
(***************************************************************************)
(* The pure decisions of the Wi-Fi HUD: initramfs/ginkgo-wifi-flow.h, which *)
(* ginkgo-status.c includes.  No state; one operator per inline function,  *)
(* under the name of the function.                                         *)
(*                                                                         *)
(* A network name is a member of SSID and an empty C string is NoSsid.     *)
(* A password is reduced to whether it is non-empty, and the text a job    *)
(* printed to the token the functions search it for.                       *)
(***************************************************************************)

CONSTANTS SSID,     \* the network names in range
          NoSsid    \* the empty string

ASSUME SsidAssumption == NoSsid \notin SSID

OptSsid == SSID \cup {NoSsid}

\* What the output of the connect script is searched for: its success line,
\* NEED_PASSWORD, one of the wrong-password texts, or none of them.
ScriptText == {"connected", "need", "wrong", "other"}

-----------------------------------------------------------------------------

gw_ssid_eq(a, b) == a # NoSsid /\ a = b

gw_already_on(connected, live, want) == connected /\ gw_ssid_eq(live, want)

gw_display_ssid(joining, want, live) ==
  IF joining /\ want # NoSsid THEN want ELSE live

gw_join_confirm_ok(connected, live, want) == gw_already_on(connected, live, want)

\* Mutant: no time limit on the confirmation.
gw_join_confirm_fail_Never(timed_out, connected, live, want) == FALSE

gw_join_confirm_fail(timed_out, connected, live, want) ==
  timed_out /\ ~gw_already_on(connected, live, want)

gw_forget_hold_connected(forgotten, nm_up, live) ==
  /\ forgotten # NoSsid
  /\ nm_up
  /\ live \in {NoSsid, forgotten}

\* Mutant: a join is allowed while another one is under way.
gw_allow_join_WhileJoining(connecting, forgetting, already_on) == ~forgetting /\ ~already_on

gw_allow_join(connecting, forgetting, already_on) ==
  ~connecting /\ ~forgetting /\ ~already_on

gw_forget_can_start(forgetting, job_running, job_is_forget) ==
  job_running => ~job_is_forget

gw_drop_pending(ok, done_ssid, pend_ssid) == ok /\ gw_ssid_eq(done_ssid, pend_ssid)

gw_job_ok(rc, text) == rc = 0 \/ text = "connected"

gw_job_need_pw(rc, text) ==
  /\ ~gw_job_ok(rc, text)
  /\ rc # 3
  /\ rc = 2 \/ text = "need"

gw_job_wrong_pw(rc, text) ==
  /\ ~gw_job_ok(rc, text)
  /\ rc = 3 \/ text = "wrong"

gw_open_pass(need_pw, already_on, left_home, pending_has_pass) ==
  need_pw /\ ~already_on /\ ~left_home /\ ~pending_has_pass

gw_keep_pending_psk(queuing_empty, want_connect, pend_ssid, pend_pass, ssid) ==
  queuing_empty /\ want_connect /\ pend_pass /\ gw_ssid_eq(pend_ssid, ssid)

gw_pass_ssid(connect_ssid, selected_ssid) ==
  IF connect_ssid # NoSsid THEN connect_ssid ELSE selected_ssid

\* The session PSK and the SSID it belongs to are set and cleared together
\* (remember_psk, forget_psk), so known_psk_ssid alone tells whether there is one.
gw_join_use_session_psk(ssid, known_psk_ssid) == gw_ssid_eq(ssid, known_psk_ssid)

ConnectAct == {"success", "open_pass", "wrong_pass", "retry_psk", "wait_pending", "fail"}

\* Mutant: the session password is retried whether or not it was just used.
gw_on_connect_job_RetriesUsed(in) ==
  IF gw_job_ok(in.rc, in.text) THEN "success"
  ELSE IF gw_job_need_pw(in.rc, in.text) /\ in.have_session_psk THEN "retry_psk"
  ELSE IF gw_job_wrong_pw(in.rc, in.text) THEN "wrong_pass" ELSE "open_pass"

\* "in" is struct gw_connect_in: the exit status and text of the connect job
\* and what the HUD knew when it reaped it.
gw_on_connect_job(in) ==
  LET already == gw_already_on(in.connected, in.live_ssid, in.connect_ssid)
      need_pw == gw_job_need_pw(in.rc, in.text)
      wrong   == gw_job_wrong_pw(in.rc, in.text)
      pend_pw == /\ in.want_connect
                 /\ in.pend_has_pass
                 /\ gw_ssid_eq(in.pend_ssid, in.connect_ssid)
  IN  IF gw_job_ok(in.rc, in.text) \/ ((need_pw \/ wrong) /\ already) THEN "success"
      ELSE IF (need_pw \/ wrong) /\ pend_pw THEN "wait_pending"
      ELSE IF need_pw /\ ~wrong /\ ~in.used_pass /\ in.have_session_psk THEN "retry_psk"
      ELSE IF wrong \/ (in.used_pass /\ need_pw) THEN "wrong_pass"
      ELSE IF gw_open_pass(need_pw, already, in.left_home, FALSE) THEN "open_pass"
      ELSE "fail"
=============================================================================
