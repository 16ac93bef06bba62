------------------------- MODULE WifiHudRefinement -------------------------
(***************************************************************************)
(* The Wi-Fi manager implements WifiJoin: one request at a time, about one  *)
(* network, for every set of networks and jobs that may fail to start.     *)
(* The same lemmas give what a join may be for (never an 802.1X network)   *)
(* and, where jobs do start, that a join always has somebody to end it.    *)
(* The states between the calls of a handler are those of WifiHudProofs.   *)
(***************************************************************************)
EXTENDS WifiHudProofs

\* What is under way in a HUD state, in the terms of WifiJoin.
Idle(h) == ~h.forgetting /\ ~h.connecting /\ ~h.join_wait_live
SameRequest(h, k) ==
  /\ k.forgetting = h.forgetting /\ k.connecting = h.connecting
  /\ k.join_wait_live = h.join_wait_live
  /\ h.connecting => k.connect_ssid = h.connect_ssid
  /\ h.forgetting => k.selected_ssid = h.selected_ssid

\* The script is started for k's target.
Starting(k) == ~k.forgetting /\ k.connecting /\ ~k.join_wait_live /\ k.connect_ssid \in SSID

\* A request goes on, ends, starts, is answered, or gives way to a forget; after a
\* password submitted during a confirmation it may also give way to another join.
RequestStep(h, k, l) ==
  \/ SameRequest(h, k)
  \/ Idle(k)
  \/ Idle(h) /\ Starting(k)
  \/ /\ h.connecting /\ ~h.forgetting /\ ~h.join_wait_live
     /\ k.connecting /\ ~k.forgetting /\ k.connect_ssid = h.connect_ssid
  \/ ~h.forgetting /\ k.forgetting /\ k.selected_ssid \in SSID
  \/ l /\ ~h.forgetting /\ Starting(k)

\* No target, queued ones included, is an 802.1X network, and the security copied with
\* the selection is the selected network's own when that is one: the row may have left
\* the list, but only a join's target is selected without its row.
TargetOK(h) ==
  /\ h.connect_ssid \notin Enterprise
  /\ h.selected_ssid \in Enterprise => h.sec = h.selected_ssid
  /\ "connect" \in h.want => h.pend_ssid \notin Enterprise

Held(h) == h.connecting => h.job = "connect" \/ h.join_wait_live

\* What one step of the HUD does to all of that.
Effect(h, k, l) ==
  /\ RequestStep(h, k, l)
  /\ TargetOK(h) => TargetOK(k)
  /\ Starts = {TRUE} /\ Held(h) => Held(k)

-----------------------------------------------------------------------------
(* Calls that start no request: at most a confirmation ends *)

Calm(h, k) ==
  /\ k.connect_ssid = h.connect_ssid
  /\ k.selected_ssid = h.selected_ssid /\ k.sec \in {h.sec, h.selected_ssid}
  /\ k.forgetting = h.forgetting
  /\ \/ k.connecting = h.connecting /\ k.join_wait_live = h.join_wait_live
     \/ h.join_wait_live /\ ~k.connecting /\ ~k.join_wait_live
  /\ h.job = "connect" => k.job = "connect"
  /\ "connect" \in k.want => "connect" \in h.want /\ k.pend_ssid = h.pend_ssid

LEMMA CalmTrans ==
  ASSUME NEW h, NEW k, NEW m, Calm(h, k), Calm(k, m)
  PROVE  Calm(h, m)
BY DEF Calm

LEMMA CalmEffect ==
  ASSUME NEW l, NEW h, NEW k, Mid(h, l), Calm(h, k)
  PROVE  Effect(h, k, l)
<1>1. h.join_wait_live => ~h.forgetting
  BY DEF Mid, JoinOK, ForgetOK
<1>2. SameRequest(h, k) \/ Idle(k)
  BY <1>1 DEF Calm, SameRequest, Idle
<1>3. (TargetOK(h) => TargetOK(k)) /\ (Held(h) => Held(k))
  BY DEF Calm, TargetOK, Held
<1> QED BY <1>2, <1>3 DEF Effect, RequestStep

\* ... or the queued password takes over.
Overtakes(h, k) ==
  /\ "connect" \in h.want /\ ~h.forgetting /\ ~k.forgetting
  /\ k.connecting /\ ~k.join_wait_live /\ k.connect_ssid = h.pend_ssid
  /\ k.selected_ssid = h.selected_ssid /\ k.sec \in {h.sec, h.selected_ssid}
  /\ "connect" \in k.want => k.pend_ssid = h.pend_ssid
  /\ Starts = {TRUE} => k.job = "connect"

CalmOr(h, k, l) == Calm(h, k) \/ (l /\ Overtakes(h, k))

LEMMA CalmThen ==
  ASSUME NEW l, NEW h, NEW k, NEW m, Calm(h, k), CalmOr(k, m, l)
  PROVE  CalmOr(h, m, l)
<1>1. CASE Calm(k, m)
  BY <1>1, CalmTrans DEF CalmOr
<1>2. CASE l /\ Overtakes(k, m)
  <2>1. Overtakes(h, m)
    BY <1>2 DEF Calm, Overtakes
  <2> QED BY <1>2, <2>1 DEF CalmOr
<1> QED BY <1>1, <1>2 DEF CalmOr

LEMMA ThenCalm ==
  ASSUME NEW l, NEW h, NEW k, NEW m, CalmOr(h, k, l), Calm(k, m)
  PROVE  CalmOr(h, m, l)
<1>1. CASE Calm(h, k)
  BY <1>1, CalmTrans DEF CalmOr
<1>2. CASE l /\ Overtakes(h, k)
  <2>1. Overtakes(h, m)
    BY <1>2 DEF Calm, Overtakes
  <2> QED BY <1>2, <2>1 DEF CalmOr
<1> QED BY <1>1, <1>2 DEF CalmOr

LEMMA CalmOrEffect ==
  ASSUME NEW l, NEW h, NEW k, Mid(h, l), CalmOr(h, k, l)
  PROVE  Effect(h, k, l)
<1>1. CASE Calm(h, k)
  BY <1>1, CalmEffect
<1>2. CASE l /\ Overtakes(h, k)
  <2>1. h.pend_ssid \in SSID
    BY <1>2 DEF Overtakes, Mid, QueueOK, Hud, OptSsid
  <2>2. RequestStep(h, k, l)
    BY <1>2, <2>1 DEF Overtakes, RequestStep, Starting
  <2>3. TargetOK(h) => TargetOK(k)
    BY <1>2 DEF Overtakes, TargetOK
  <2>4. Starts = {TRUE} => Held(k)
    BY <1>2 DEF Overtakes, Held
  <2> QED BY <2>2, <2>3, <2>4 DEF Effect
<1> QED BY <1>1, <1>2 DEF CalmOr

LEMMA StartOrWantCalm ==
  ASSUME NEW h \in Hud, NEW kind, NEW later, later # "connect", NEW ok
  PROVE  Calm(h, StartOrWant(h, kind, later, ok))
<1>1. CASE h.job = "none" /\ ok
  BY <1>1 DEF StartOrWant, Calm, Hud
<1>2. CASE ~(h.job = "none" /\ ok)
  BY <1>2 DEF StartOrWant, Calm, Hud
<1> QED BY <1>1, <1>2

LEMMA WantCalm ==
  ASSUME NEW h \in Hud, NEW w, "connect" \in w => "connect" \in h.want
  PROVE  Calm(h, [h EXCEPT !.want = w])
BY DEF Calm, Hud

LEMMA ToSheetCalm ==
  ASSUME NEW h \in Hud, NEW s
  PROVE  Calm(h, [h EXCEPT !.sheet = s])
BY DEF Calm, Hud

LEMMA CloseCalm ==
  ASSUME NEW h \in Hud, h.job # "connect"
  PROVE  Calm(h, close_job(h))
BY DEF close_job, Calm, Hud

LEMMA ApplyCalm ==
  ASSUME NEW h \in Hud, NEW s
  PROVE  Calm(h, apply_wifi_ssid(h, s))
<1> DEFINE live == IF <<h.ssid, s>> \in Longer THEN h.ssid ELSE s
           a == [h EXCEPT !.forget_ssid = NoSsid, !.ssid = live]
<1>1. apply_wifi_ssid(h, s) = h \/ apply_wifi_ssid(h, s) = a
  BY DEF apply_wifi_ssid
<1> HIDE DEF live
<1>2. Calm(h, h) /\ Calm(h, a)
  BY DEF Calm, Hud
<1> QED BY <1>1, <1>2

LEMMA SyncCalm ==
  ASSUME NEW h \in Hud
  PROVE  Calm(h, sync_selected_ap(h))
BY DEF sync_selected_ap, select_ap_idx, Calm, Hud

LEMMA ConfirmCalm ==
  ASSUME NEW h \in Hud, NEW timed_out
  PROVE  Calm(h, maybe_confirm_join(h, timed_out))
<1> DEFINE act == h.aps \cap {h.connect_ssid}
           tgt == IF h.sheet = "none" THEN "detail" ELSE h.sheet
           a == [h EXCEPT !.active = act, !.join_wait_live = FALSE, !.connecting = FALSE,
                          !.busy = FALSE, !.sheet = "none", !.want = @ \cup {"scan"}]
           b == [h EXCEPT !.join_wait_live = FALSE, !.connecting = FALSE,
                          !.busy = FALSE, !.sheet = tgt]
<1>1. \/ maybe_confirm_join(h, timed_out) = h
      \/ /\ h.join_wait_live
         /\ maybe_confirm_join(h, timed_out) = a \/ maybe_confirm_join(h, timed_out) = b
  BY DEF maybe_confirm_join, mark_ap_active
<1> HIDE DEF act, tgt
<1>2. h.join_wait_live => Calm(h, a) /\ Calm(h, b)
  BY DEF Calm, Hud
<1>3. Calm(h, h)
  BY DEF Calm
<1> QED BY <1>1, <1>2, <1>3

LEMMA ParseInfoCalm ==
  ASSUME NEW h \in Hud, NEW st
  PROVE  Calm(h, parse_info(h, st))
<1> DEFINE up == st = "up"
           by == st = "busy"
           a == [h EXCEPT !.connected = FALSE, !.busy = FALSE, !.ssid = NoSsid]
           b == [h EXCEPT !.connected = up, !.busy = by, !.forget_ssid = NoSsid]
           c == [h EXCEPT !.connected = up, !.busy = by]
<1>1. parse_info(h, st) \in {h, a, b, c}
  BY DEF parse_info, Hud
<1> HIDE DEF up, by
<1>2. Calm(h, h) /\ Calm(h, a) /\ Calm(h, b) /\ Calm(h, c)
  BY DEF Calm, Hud
<1> QED BY <1>1, <1>2

-----------------------------------------------------------------------------
(* Joins and forgets *)

\* What wifi_connect makes of a state in which no script runs.
Joined(h, k, s, ok) ==
  /\ k.connecting = TRUE /\ k.join_wait_live = FALSE /\ k.connect_ssid = s
  /\ k.forgetting = h.forgetting /\ k.selected_ssid = h.selected_ssid /\ k.sec = h.sec
  /\ k.job = IF ok THEN "connect" ELSE "none"
  /\ k.want = h.want /\ k.pend_ssid = h.pend_ssid

LEMMA ConnectJoins ==
  ASSUME NEW h \in Hud, NEW s \in SSID, NEW pass, NEW ok \in BOOLEAN, h.job # "connect"
  PROVE  Joined(h, wifi_connect(h, s, pass, ok), s, ok)
<1> DEFINE j == IF ok THEN "connect" ELSE "none"
           k == [h EXCEPT !.forget_ssid = NoSsid, !.connecting = TRUE, !.job = j,
                          !.join_wait_live = FALSE, !.busy = TRUE, !.connect_ssid = s]
<1>1. wifi_connect(h, s, pass, ok) = k
  BY SsidAssumption DEF wifi_connect, start_nmcli, abort_job, Hud
<1>2. k.job = IF ok THEN "connect" ELSE "none"
  BY DEF Hud
<1> HIDE DEF j
<1>3. /\ k.connecting = TRUE /\ k.join_wait_live = FALSE /\ k.connect_ssid = s
      /\ k.forgetting = h.forgetting /\ k.selected_ssid = h.selected_ssid /\ k.sec = h.sec
      /\ k.want = h.want /\ k.pend_ssid = h.pend_ssid
  BY DEF Hud
<1> QED BY <1>1, <1>2, <1>3 DEF Joined

\* kick_pending starts what was queued behind a join: that join again, or with late
\* the one that overtakes.
Rekicked(h, k, ok) ==
  \/ Calm(h, k)
  \/ /\ h.job = "none" /\ "connect" \in h.want
     /\ Joined([h EXCEPT !.want = @ \ {"connect"}], k, h.pend_ssid, ok)

LEMMA KickRejoins ==
  ASSUME NEW l \in BOOLEAN, NEW h, Mid(h, l), NEW ok \in BOOLEAN
  PROVE  /\ Rekicked(h, kick_pending(h, ok), ok)
         /\ "connect" \notin h.want => Calm(h, kick_pending(h, ok))
<1> DEFINE k == kick_pending(h, ok)
           drop(w) == [h EXCEPT !.want = @ \ {w}]
<1>1. CASE h.job # "none"
  BY <1>1 DEF kick_pending, Calm, Rekicked
<1> SUFFICES ASSUME h.job = "none"
             PROVE  Rekicked(h, k, ok) /\ ("connect" \notin h.want => Calm(h, k))
  BY <1>1
<1>2. CASE "connect" \in h.want
  <2>1. k = wifi_connect(drop("connect"), h.pend_ssid, h.pend_pass, ok)
    BY <1>2 DEF kick_pending
  <2>2. drop("connect") \in Hud /\ drop("connect").job = "none"
    BY DEF Mid, Hud
  <2>3. h.pend_ssid \in SSID
    BY <1>2 DEF Mid, QueueOK, Hud, OptSsid
  <2> HIDE DEF drop, k
  <2>4. Joined(drop("connect"), k, h.pend_ssid, ok)
    BY <2>1, <2>2, <2>3, ConnectJoins
  <2> QED BY <1>2, <2>4 DEF Rekicked, drop
<1>3. CASE "connect" \notin h.want
  <2>1. \/ k = h
        \/ k = wifi_scan(drop("scan"), ok)
        \/ k = wifi_link(drop("link"), ok)
        \/ k = wifi_info(drop("info"), ok)
    BY <1>3 DEF kick_pending
  <2>2. ASSUME NEW w
        PROVE  drop(w) \in Hud /\ Calm(h, drop(w))
    BY WantCalm DEF Mid, Hud
  <2> HIDE DEF k, drop
  <2>3. ASSUME NEW w, NEW kind, NEW later, later # "connect"
        PROVE  Calm(h, StartOrWant(drop(w), kind, later, ok))
    BY <2>2, <2>3, StartOrWantCalm, CalmTrans
  <2>4. Calm(h, h)
    BY DEF Calm
  <2> QED BY <2>1, <2>3, <2>4 DEF wifi_scan, wifi_link, wifi_info, Rekicked
<1> QED BY <1>2, <1>3

LEMMA KickCalm ==
  ASSUME NEW l \in BOOLEAN, NEW h, Good(h, l), NEW ok \in Starts
  PROVE  /\ CalmOr(h, kick_pending(h, ok), l)
         /\ "connect" \notin h.want => Calm(h, kick_pending(h, ok))
<1> DEFINE d == [h EXCEPT !.want = @ \ {"connect"}]
           k == kick_pending(h, ok)
<1>1. ok \in BOOLEAN /\ (Starts = {TRUE} => ok)
  BY HudAssumption DEF HudAssumption
<1>2. /\ Rekicked(h, k, ok)
      /\ "connect" \notin h.want => Calm(h, k)
  BY <1>1, KickRejoins DEF Good
<1>3. CASE /\ h.job = "none" /\ "connect" \in h.want
           /\ Joined(d, k, h.pend_ssid, ok)
  <2>1. /\ d.want = h.want \ {"connect"} /\ d.pend_ssid = h.pend_ssid
        /\ d.forgetting = h.forgetting /\ d.selected_ssid = h.selected_ssid /\ d.sec = h.sec
    BY DEF Good, Mid, Hud
  <2> HIDE DEF d, k
  <2>2. ~h.forgetting
    BY <1>3 DEF Good, Mid, QueueOK
  <2>3. CASE l
    <3>1. Overtakes(h, k)
      BY <1>1, <1>3, <2>1, <2>2 DEF Joined, Overtakes
    <3> QED BY <1>3, <2>3, <3>1 DEF CalmOr, k
  <2>4. CASE ~l
    <3>1. h.connecting = TRUE /\ h.join_wait_live = FALSE /\ h.pend_ssid = h.connect_ssid
      BY <1>3, <2>4 DEF Good, Mid, Hud, JoinOK, QueueOK
    <3>2. Calm(h, k)
      BY <1>3, <2>1, <3>1 DEF Joined, Calm
    <3> QED BY <3>2 DEF CalmOr, k
  <2> QED BY <1>3, <2>3, <2>4
<1>4. CASE Calm(h, k)
  BY <1>4 DEF CalmOr
<1> QED BY <1>2, <1>3, <1>4 DEF Rekicked

-----------------------------------------------------------------------------
(* The actions *)

\* The timer and the animation at the end of the first half.
LEMMA SettleCalm ==
  ASSUME late \in BOOLEAN, NEW states, \A x \in states : Good(x, late), Settle(states)
  PROVE  \E x \in states : Calm(x, hud')
<1>1. PICK x \in states, t \in BOOLEAN :
        \/ hud' = maybe_confirm_join(x, t)
        \/ hud' = [maybe_confirm_join(x, t) EXCEPT !.shown = maybe_confirm_join(x, t).sheet # "none"]
  BY DEF Settle
<1> DEFINE g == maybe_confirm_join(x, t)
           k == [g EXCEPT !.shown = g.sheet # "none"]
<1>2. Calm(x, g) /\ g \in Hud
  BY ConfirmCalm, ConfirmGood DEF Good, Mid
<1>3. hud' = g \/ hud' = k
  BY <1>1
<1> HIDE DEF g
<1>4. Calm(g, g) /\ Calm(g, k)
  BY <1>2 DEF Calm, Hud
<1> HIDE DEF k
<1> QED BY <1>2, <1>3, <1>4, CalmTrans

\* A job that is neither the script nor a forget has been handled.
LEMMA ReapCalm ==
  ASSUME late \in BOOLEAN, NEW kind, NEW h, Good(hud, late), Good(h, late), Calm(hud, h),
         Reap(kind, h)
  PROVE  CalmOr(hud, hud', late)
<1> DEFINE states == {kick_pending(h, ok) : ok \in Starts}
<1>1. \A x \in states : Good(x, late) /\ CalmOr(hud, x, late)
  BY KickGood, KickCalm, CalmThen, HudAssumption DEF HudAssumption, Good
<1>2. Settle(states)
  BY DEF Reap
<1> HIDE DEF states
<1> QED BY <1>1, <1>2, SettleCalm, ThenCalm

LEMMA QuietPollCalm ==
  ASSUME late \in BOOLEAN, Good(hud, late), PollNothing \/ PollRadio \/ PollInfo \/ PollLink \/ PollScan
  PROVE  CalmOr(hud, hud', late)
<1>0. hud \in Hud /\ Mid(hud, late) /\ Calm(hud, hud)
  BY DEF Good, Mid, Calm
<1>1. CASE PollNothing
  <2>1. \A x \in {hud} : Good(x, late)
    OBVIOUS
  <2> QED BY <1>1, <2>1, SettleCalm DEF PollNothing, CalmOr
<1> DEFINE c == close_job(hud)
<1>2. ASSUME NEW kind \in {"radio", "info", "link", "scan"}, hud.job = kind
      PROVE  c \in Hud /\ Mid(c, late) /\ Good(c, late) /\ Calm(hud, c) /\ ~c.forgetting
  BY <1>0, <1>2, CloseGood, CloseCalm DEF Good, Mid, ForgetOK
<1> HIDE DEF c
<1>3. CASE PollRadio
  <2>1. hud.job = "radio" /\ Reap("radio", OnRadio(hud))
    BY <1>3 DEF PollRadio, Reap
  <2>2. Calm(hud, OnRadio(hud)) /\ Good(OnRadio(hud), late)
    BY <1>2, <2>1, WantCalm, CalmTrans, OnRadioGood DEF OnRadio, c
  <2> QED BY <2>1, <2>2, ReapCalm
<1>4. CASE PollInfo
  <2> PICK st : Reap("info", OnInfo(hud, st))
    BY <1>4 DEF PollInfo
  <2> DEFINE g == parse_info(c, st)
             w == [g EXCEPT !.want = @ \cup {"link"}]
             q == IF g.connected \/ g.busy \/ g.join_wait_live THEN w ELSE g
  <2>1. hud.job = "info"
    BY DEF Reap
  <2>2. Calm(hud, g) /\ Mid(g, late)
    BY <1>2, <2>1, ParseInfoCalm, ParseInfoGood, CalmTrans
  <2> HIDE DEF g
  <2>3. Calm(hud, w) /\ Mid(w, late)
    BY <2>2, WantCalm, WantGood, CalmTrans, {"link"} \in SUBSET {"info", "scan", "link"} DEF Mid
  <2> HIDE DEF w
  <2>4. Calm(hud, q) /\ q \in Hud
    BY <2>2, <2>3 DEF Mid
  <2> HIDE DEF q
  <2>5. OnInfo(hud, st) = maybe_confirm_join(q, FALSE)
    BY DEF OnInfo, q, w, g, c
  <2>6. Calm(hud, OnInfo(hud, st))
    BY <2>4, <2>5, ConfirmCalm, CalmTrans
  <2> QED BY <2>1, <2>6, OnInfoGood, ReapCalm
<1>5. CASE PollLink
  <2> PICK s \in OptSsid : Reap("link", OnLink(hud, s))
    BY <1>5 DEF PollLink
  <2> DEFINE a == apply_wifi_ssid(c, s)
             g == maybe_confirm_join(a, FALSE)
             w == [g EXCEPT !.want = @ \cup {"info"}]
  <2>1. hud.job = "link"
    BY DEF Reap
  <2>2. Calm(hud, a) /\ Mid(a, late)
    BY <1>2, <2>1, ApplyCalm, ApplyGood, CalmTrans
  <2> HIDE DEF a
  <2>3. Calm(hud, g) /\ g \in Hud
    BY <2>2, ConfirmCalm, ConfirmGood, CalmTrans DEF Mid
  <2> HIDE DEF g
  <2>4. Calm(hud, w)
    BY <2>3, WantCalm, CalmTrans
  <2> HIDE DEF w
  <2>5. OnLink(hud, s) = g \/ OnLink(hud, s) = w
    BY DEF OnLink, w, g, a, c
  <2> QED BY <2>1, <2>3, <2>4, <2>5, OnLinkGood, ReapCalm
<1>6. CASE PollScan
  <2> PICK aps \in SUBSET SSID : \E inuse \in {{}} \cup {{s} : s \in aps} :
        \E row \in FirstRow(ScanRows(close_job(hud), aps, inuse)) :
          Reap("scan", maybe_confirm_join(apply_active_ap(ScanRows(close_job(hud), aps, inuse), row), FALSE))
    BY <1>6 DEF PollScan
  <2> PICK inuse \in {{}} \cup {{s} : s \in aps} :
        \E row \in FirstRow(ScanRows(close_job(hud), aps, inuse)) :
          Reap("scan", maybe_confirm_join(apply_active_ap(ScanRows(close_job(hud), aps, inuse), row), FALSE))
    OBVIOUS
  <2> PICK row \in FirstRow(ScanRows(close_job(hud), aps, inuse)) :
        Reap("scan", maybe_confirm_join(apply_active_ap(ScanRows(close_job(hud), aps, inuse), row), FALSE))
    OBVIOUS
  <2> DEFINE b == [c EXCEPT !.aps = aps, !.active = inuse \ {c.forget_ssid}]
             g == sync_selected_ap(b)
             a == apply_wifi_ssid(g, row)
             m == maybe_confirm_join(a, FALSE)
  <2>1. hud.job = "scan" /\ inuse \in SUBSET SSID
    BY DEF Reap
  <2>2. /\ b \in Hud /\ Calm(c, b) /\ SameJoin(c, b)
        /\ b.sheet = c.sheet /\ b.forget_ssid \notin b.active
    BY <1>2, <2>1 DEF Calm, Hud, SameJoin
  <2>3. b = [c EXCEPT !.aps = aps, !.active = inuse \ {c.forget_ssid}]
    OBVIOUS
  <2>4. ScanRows(close_job(hud), aps, inuse) = g
    BY DEF ScanRows, c
  <2> HIDE DEF b
  <2>5. Mid(b, late)
    BY <1>2, <2>1, <2>2, SheetGood DEF SameJoin, Mid, JoinOK
  <2>6. Calm(hud, g) /\ Mid(g, late)
    BY <1>2, <2>1, <2>2, <2>5, SyncCalm, SyncGood, CalmTrans DEF SameJoin
  <2> HIDE DEF g
  <2>7. row \in OptSsid
    BY <2>4, <2>6 DEF FirstRow, ActiveRows, OptSsid, Mid, Hud
  <2>8. Calm(hud, a) /\ Mid(a, late)
    BY <2>6, <2>7, ApplyCalm, ApplyGood, CalmTrans DEF Mid
  <2> HIDE DEF a
  <2>9. Calm(hud, m)
    BY <2>8, ConfirmCalm, CalmTrans DEF Mid
  <2>10. maybe_confirm_join(apply_active_ap(ScanRows(close_job(hud), aps, inuse), row), FALSE) = m
    BY <2>4 DEF apply_active_ap, a
  <2>11. Good(m, late)
    BY <2>1, <2>10, ScanGood
  <2> HIDE DEF m
  <2> QED BY <2>9, <2>10, <2>11, ReapCalm
<1> QED BY <1>1, <1>3, <1>4, <1>5, <1>6

LEMMA KickStepCalm ==
  ASSUME late \in BOOLEAN, Good(hud, late), Kick
  PROVE  CalmOr(hud, hud', late)
<1>1. PICK row \in {NoSsid} \cup FirstRow(hud), ok \in Starts :
        LET g == kick_pending(apply_active_ap(hud, row), ok)
        IN  \/ hud' = g
            \/ hud' \in {wifi_info(g, on) : on \in Starts} \cup {wifi_scan(g, on) : on \in Starts}
  BY DEF Kick
<1> DEFINE a == apply_wifi_ssid(hud, row)
           g == kick_pending(a, ok)
<1>2. row \in OptSsid /\ ok \in BOOLEAN
  BY HudAssumption DEF FirstRow, ActiveRows, OptSsid, Good, Mid, Hud, HudAssumption
<1>3. Good(a, late) /\ Calm(hud, a)
  BY <1>2, ApplyGood, ApplyCalm DEF Good, Mid
<1>4. \/ hud' = g
      \/ \E on \in Starts : hud' = wifi_info(g, on) \/ hud' = wifi_scan(g, on)
  BY <1>1 DEF apply_active_ap
<1> HIDE DEF a
<1>5. CalmOr(hud, g, late) /\ g \in Hud
  BY <1>2, <1>3, KickCalm, KickGood, CalmThen DEF Good, Mid
<1> HIDE DEF g
<1>6. ASSUME NEW on
      PROVE  CalmOr(hud, wifi_info(g, on), late) /\ CalmOr(hud, wifi_scan(g, on), late)
  BY <1>5, StartOrWantCalm, ThenCalm DEF wifi_info, wifi_scan
<1> QED BY <1>4, <1>5, <1>6

\* The end of a forget clears neither the target nor the selection.
LEMMA ForgotSelection ==
  ASSUME NEW c \in Hud
  PROVE  LET k == Forgot(c)
         IN  /\ k.connect_ssid = c.connect_ssid
             /\ k.selected_ssid = c.selected_ssid /\ k.sec = c.sec
<1> DEFINE f == IF c.forget_ssid # NoSsid THEN c.forget_ssid ELSE c.selected_ssid
           m == mark_ap_inactive(c, f)
           g == ForgetLive(m)
           p == forget_psk(g, g.selected_ssid)
           k == [p EXCEPT !.sheet = "list", !.want = @ \cup {"info", "scan"}]
           Same(x) == /\ x \in Hud
                      /\ x.connect_ssid = c.connect_ssid
                      /\ x.selected_ssid = c.selected_ssid /\ x.sec = c.sec
<1>1. Same(m)
  <2> DEFINE act == IF f = NoSsid THEN {} ELSE c.active \ {f}
  <2>1. act \subseteq SSID
    BY DEF Hud
  <2>2. m = [c EXCEPT !.active = act]
    BY DEF mark_ap_inactive
  <2> HIDE DEF act, m
  <2> QED BY <2>1, <2>2 DEF Hud
<1> HIDE DEF m
<1>2. Same(g)
  <2> DEFINE d == [m EXCEPT !.connected = FALSE, !.ssid = NoSsid]
  <2>1. g = m \/ g = d
    BY DEF ForgetLive
  <2>2. d \in Hud
    BY <1>1 DEF Hud, OptSsid
  <2>3. d.connect_ssid = m.connect_ssid /\ d.selected_ssid = m.selected_ssid /\ d.sec = m.sec
    BY <1>1 DEF Hud
  <2> HIDE DEF d
  <2> QED BY <1>1, <2>1, <2>2, <2>3
<1> HIDE DEF g
<1>3. Same(p)
  BY <1>2 DEF forget_psk, Hud, OptSsid
<1> HIDE DEF p
<1>4. /\ k.connect_ssid = p.connect_ssid
      /\ k.selected_ssid = p.selected_ssid /\ k.sec = p.sec
  BY <1>3 DEF Hud
<1>5. Forgot(c) = k
  BY DEF Forgot, p, g, m
<1> QED BY <1>3, <1>4, <1>5

LEMMA PollForgetEffect ==
  ASSUME late \in BOOLEAN, Good(hud, late), PollForget
  PROVE  Effect(hud, hud', late)
<1> PICK rc : Reap("forget", OnForget(hud, rc))
  BY DEF PollForget
<1> DEFINE c == [hud EXCEPT !.job = "none", !.forgetting = FALSE]
           e == [c EXCEPT !.sheet = "detail"]
           k == OnForget(hud, rc)
           states == {kick_pending(k, ok) : ok \in Starts}
<1>1. /\ hud \in Hud /\ hud.job = "forget" /\ hud.forgetting /\ hud.connecting = FALSE
      /\ "connect" \notin hud.want /\ hud.join_wait_live = FALSE
  BY DEF Good, Mid, Hud, ForgetOK, JoinOK, Reap
<1>2. Ended(hud, c) /\ Ended(hud, e)
  BY <1>1 DEF Ended, Hud, Sheet, Job
<1>3. /\ c.connect_ssid = hud.connect_ssid /\ c.selected_ssid = hud.selected_ssid /\ c.sec = hud.sec
      /\ e.connect_ssid = hud.connect_ssid /\ e.selected_ssid = hud.selected_ssid /\ e.sec = hud.sec
  BY <1>1 DEF Hud
<1>4. k = e \/ k = Forgot(c)
  <2>1. [close_job(hud) EXCEPT !.forgetting = FALSE] = c
    BY <1>1 DEF close_job, Hud
  <2> HIDE DEF c
  <2> QED BY <2>1 DEF OnForget
<1> HIDE DEF c, e
<1>5. /\ Ended(hud, k) /\ k.connect_ssid = hud.connect_ssid
      /\ k.selected_ssid = hud.selected_ssid /\ k.sec = hud.sec
  <2>1. c \in Hud /\ hud.active \subseteq SSID
    BY <1>1, <1>2 DEF Ended, Hud
  <2>2. Ended(hud, Forgot(c))
    BY <1>2, <2>1, ForgotEnded
  <2>3. /\ Forgot(c).connect_ssid = c.connect_ssid
        /\ Forgot(c).selected_ssid = c.selected_ssid /\ Forgot(c).sec = c.sec
    BY <2>1, ForgotSelection
  <2> HIDE DEF k
  <2> QED BY <1>2, <1>3, <1>4, <2>2, <2>3
<1>6. Good(k, late)
  BY <1>1, OnForgetGood
<1> HIDE DEF k
<1>7. \A x \in states : Good(x, late) /\ Calm(k, x)
  BY <1>5, <1>6, KickGood, KickCalm, HudAssumption DEF HudAssumption, Good, Ended
<1>8. Settle(states)
  BY DEF Reap, k
<1> HIDE DEF states
<1>9. Calm(k, hud')
  BY <1>7, <1>8, SettleCalm, CalmTrans
<1> QED BY <1>5, <1>9 DEF Calm, Ended, Effect, RequestStep, Idle, TargetOK, Held

\* What the handling of the script's answer leaves before the queue is kicked.
Handled(h, k) ==
  /\ k.connect_ssid = h.connect_ssid /\ k.forgetting = FALSE
  /\ Starts = {TRUE} => Held(k)
  /\ TargetOK(h) => TargetOK(k)

LEMMA OnConnectHandled ==
  ASSUME late \in BOOLEAN, NEW h, Good(h, late), h.job = "connect", NEW rc, NEW text,
         NEW ok \in BOOLEAN, Starts = {TRUE} => ok
  PROVE  Handled(h, OnConnect(h, rc, text, ok))
<1> DEFINE g == [h EXCEPT !.job = "none", !.connecting = FALSE, !.busy = FALSE]
           k == OnConnect(h, rc, text, ok)
           Kept(x) == x \in Hud /\ Handled(h, x)
<1>1. /\ Reaped(h, g, late)
      /\ \/ k \in {JoinAnswered(g), AskPassword(forget_psk(g, g.connect_ssid)),
                   AskPassword(g), g, JoinFailed(g)}
         \/ late /\ k = JoinRetried(g, ok)
  BY OnConnectOutcomes, Zenon
<1>2. Kept(g)
  <2>1. /\ g \in Hud /\ g.connect_ssid = h.connect_ssid /\ g.connecting = FALSE
        /\ g.selected_ssid = h.selected_ssid /\ g.sec = h.sec
        /\ g.want = h.want /\ g.pend_ssid = h.pend_ssid
    BY <1>1 DEF Reaped, Good, Mid, Hud
  <2> QED BY <1>1, <2>1 DEF Reaped, TargetOK, Handled, Held
<1> HIDE DEF g
<1>3. Kept(JoinAnswered(g))
  <2> DEFINE w == (IF gw_drop_pending(TRUE, g.connect_ssid, g.pend_ssid)
                   THEN g.want \ {"connect"} ELSE g.want) \cup {"info", "link"}
             s == IF g.sheet = "pass" THEN "detail" ELSE g.sheet
             a == [g EXCEPT !.join_wait_live = TRUE, !.connecting = TRUE, !.busy = TRUE,
                            !.want = w, !.sheet = s]
  <2>1. w \subseteq Want /\ s \in Sheet /\ ("connect" \in w => "connect" \in g.want)
    BY <1>2 DEF Hud, Want, Sheet
  <2>2. JoinAnswered(g) = maybe_confirm_join(a, FALSE)
    BY DEF JoinAnswered
  <2>3. Mid(JoinAnswered(g), late)
    BY <1>1, AnsweredGood
  <2> HIDE DEF w, s
  <2>4. /\ a \in Hud /\ a.join_wait_live = TRUE /\ a.connecting = TRUE
        /\ a.connect_ssid = g.connect_ssid /\ a.forgetting = g.forgetting
        /\ a.selected_ssid = g.selected_ssid /\ a.sec = g.sec
        /\ a.want = w /\ a.pend_ssid = g.pend_ssid
    BY <1>2, <2>1 DEF Hud
  <2> HIDE DEF a
  <2>5. Calm(a, JoinAnswered(g))
    BY <2>2, <2>4, ConfirmCalm
  <2> QED BY <1>2, <2>1, <2>3, <2>4, <2>5 DEF Calm, Mid, TargetOK, Handled, Held
<1>4. ASSUME NEW x, Kept(x), Mid(x, late), x.connecting = FALSE, x.join_wait_live = FALSE
      PROVE  Kept(AskPassword(x))
  <2> DEFINE s == IF x.connect_ssid # NoSsid THEN x.connect_ssid ELSE x.selected_ssid
             y == [x EXCEPT !.selected_ssid = s]
             z == sync_selected_ap(y)
  <2>1. /\ y \in Hud /\ y.selected_ssid = s /\ y.sec = x.sec
        /\ y.connect_ssid = x.connect_ssid /\ y.forgetting = x.forgetting
        /\ y.connecting = FALSE /\ y.join_wait_live = FALSE
        /\ y.want = x.want /\ y.pend_ssid = x.pend_ssid
    BY <1>4 DEF Hud
  <2>2. TargetOK(x) => TargetOK(y)
    BY <2>1 DEF TargetOK
  <2>3. AskPassword(x) = [z EXCEPT !.sheet = "pass"]
    BY DEF AskPassword
  <2> HIDE DEF y
  <2>4. Calm(y, z) /\ z \in Hud
    BY <2>1, SyncCalm DEF sync_selected_ap, select_ap_idx, Hud
  <2> HIDE DEF z
  <2>5. Calm(y, AskPassword(x)) /\ AskPassword(x) \in Hud
    BY <2>3, <2>4, ToSheetCalm, CalmTrans DEF Hud, Sheet
  <2> QED BY <1>4, <2>1, <2>2, <2>5 DEF Calm, TargetOK, Handled, Held
<1>5. Kept(AskPassword(g))
  BY <1>1, <1>2, <1>4 DEF Reaped
<1> DEFINE f == forget_psk(g, g.connect_ssid)
<1>6. Kept(AskPassword(f))
  <2> DEFINE d == [g EXCEPT !.known_psk_ssid = NoSsid]
  <2>1. f = g \/ f = d
    BY DEF forget_psk
  <2>2. d \in Hud
    BY <1>2 DEF Hud, OptSsid
  <2>3. /\ d.connect_ssid = g.connect_ssid /\ d.forgetting = g.forgetting
        /\ d.connecting = g.connecting /\ d.join_wait_live = g.join_wait_live
        /\ d.selected_ssid = g.selected_ssid /\ d.sec = g.sec
        /\ d.job = g.job /\ d.forget_ssid = g.forget_ssid /\ d.sheet = g.sheet
        /\ d.active = g.active /\ d.ssid = g.ssid /\ d.need_pass = g.need_pass
        /\ d.pend_ssid = g.pend_ssid /\ d.pend_pass = g.pend_pass /\ d.want = g.want
    BY <1>2 DEF Hud
  <2> HIDE DEF d
  <2>4. ForgetOK(d) /\ JoinOK(d, late) /\ PskOK(d, late) /\ GoneOK(d) /\ QueueOK(d, late)
    BY <1>1, <2>3 DEF Reaped, Mid, ForgetOK, JoinOK, PskOK, GoneOK, QueueOK
  <2>5. Kept(d) /\ Mid(d, late) /\ d.connecting = FALSE /\ d.join_wait_live = FALSE
    BY <1>1, <1>2, <2>2, <2>3, <2>4 DEF Reaped, Mid, TargetOK, Handled, Held
  <2> HIDE DEF f
  <2>6. f = d => Kept(AskPassword(f))
    BY <2>5, <1>4
  <2>7. f = g => Kept(AskPassword(f))
    BY <1>5
  <2> QED BY <2>1, <2>6, <2>7
<1> HIDE DEF f
<1>7. Kept(JoinFailed(g))
  <2> DEFINE s == IF g.sheet = "none" THEN "none" ELSE IF g.need_pass THEN "pass" ELSE "detail"
  <2>1. JoinFailed(g) = [g EXCEPT !.sheet = s] /\ s \in Sheet
    BY DEF JoinFailed, Sheet
  <2> HIDE DEF s
  <2>2. Calm(g, JoinFailed(g)) /\ JoinFailed(g) \in Hud
    BY <1>2, <2>1, ToSheetCalm DEF Hud
  <2> QED BY <1>1, <1>2, <2>2 DEF Calm, Reaped, TargetOK, Handled, Held
<1>8. late => Handled(h, JoinRetried(g, ok))
  <2> DEFINE d == [g EXCEPT !.want = @ \ {"connect"}]
  <2>1. [g EXCEPT !.want = g.want] = g
    BY <1>2 DEF Hud
  <2>2. \/ JoinRetried(g, ok) = wifi_connect(g, g.connect_ssid, TRUE, ok)
        \/ JoinRetried(g, ok) = wifi_connect(d, g.connect_ssid, TRUE, ok)
    BY <2>1 DEF JoinRetried
  <2>3. g.connect_ssid \in SSID /\ g.job = "none"
    BY <1>1, <1>2 DEF Reaped, Hud, OptSsid
  <2>4. d \in Hud /\ Calm(g, d) /\ d.job = g.job
    <3>1. g.want \ {"connect"} \subseteq Want
      BY <1>2 DEF Hud
    <3> QED BY <1>2, <3>1, WantCalm DEF Hud
  <2>5. Calm(g, g)
    BY DEF Calm
  <2> HIDE DEF d
  <2>6. ASSUME NEW x \in {g, d}
        PROVE  Handled(h, wifi_connect(x, g.connect_ssid, TRUE, ok))
    <3>1. x \in Hud /\ x.job = "none" /\ Calm(g, x)
      BY <1>2, <2>3, <2>4, <2>5
    <3>2. Joined(x, wifi_connect(x, g.connect_ssid, TRUE, ok), g.connect_ssid, ok)
      BY <2>3, <3>1, ConnectJoins
    <3> QED BY <1>2, <3>1, <3>2 DEF Joined, Calm, TargetOK, Handled, Held
  <2> QED BY <2>2, <2>6
<1>9. Handled(h, k)
  <2> HIDE DEF k
  <2> QED BY <1>1, <1>2, <1>3, <1>5, <1>6, <1>7, <1>8, Zenon DEF f
<1> QED BY <1>9

LEMMA PollConnectEffect ==
  ASSUME late \in BOOLEAN, Good(hud, late), PollConnect
  PROVE  Effect(hud, hud', late)
<1> PICK a \in ScriptAnswers, on \in Starts : Reap("connect", OnConnect(hud, a[1], a[2], on))
  BY DEF PollConnect
<1> DEFINE k == OnConnect(hud, a[1], a[2], on)
           states == {kick_pending(k, ok) : ok \in Starts}
<1>1. hud.job = "connect" /\ Starts \subseteq BOOLEAN /\ on \in BOOLEAN
  BY HudAssumption DEF Reap, HudAssumption
<1>2. hud.connecting /\ ~hud.forgetting /\ ~hud.join_wait_live
  BY <1>1 DEF Good, Mid, JoinOK, ForgetOK
<1>3. Handled(hud, k) /\ Mid(k, late) /\ (k.job # "none" => Good(k, late))
  <2>1. Mid(k, late) /\ (k.job # "none" => Good(k, late))
    BY <1>1, OnConnectGood
  <2>2. Handled(hud, k)
    BY <1>1, OnConnectHandled
  <2> QED BY <2>1, <2>2
<1>4. Settle(states)
  BY DEF Reap
<1> HIDE DEF k
<1>5. \A x \in states : Good(x, late)
  BY <1>1, <1>3, KickGood
<1>6. PICK ok \in Starts : Calm(kick_pending(k, ok), hud')
  BY <1>4, <1>5, SettleCalm
<1> DEFINE x == kick_pending(k, ok)
           d == [k EXCEPT !.want = @ \ {"connect"}]
<1>7. Rekicked(k, x, ok)
  BY <1>1, <1>3, KickRejoins
<1>8. Good(x, late) /\ (Starts = {TRUE} => ok)
  <2>1. Starts = {TRUE} => ok
    BY <1>6
  <2>2. Good(x, late)
    BY <1>5
  <2> QED BY <2>1, <2>2
<1>9. Calm(x, hud')
  BY <1>6
<1> HIDE DEF x, states
\* Nothing queued, or the queued password of this join or of the one that overtakes.
<1>10. /\ x.forgetting = FALSE
       /\ x.connect_ssid = hud.connect_ssid \/ (late /\ Starting(x))
       /\ TargetOK(hud) => TargetOK(x)
       /\ Starts = {TRUE} => Held(x)
  <2>1. CASE Calm(k, x)
    BY <1>3, <2>1 DEF Handled, Calm, TargetOK, Held
  <2>2. CASE k.job = "none" /\ "connect" \in k.want /\ Joined(d, x, k.pend_ssid, ok)
    <3>1. /\ d.want = k.want \ {"connect"} /\ d.pend_ssid = k.pend_ssid
          /\ d.forgetting = k.forgetting /\ d.selected_ssid = k.selected_ssid /\ d.sec = k.sec
      BY <1>3 DEF Mid, Hud
    <3> HIDE DEF d
    <3>2. k.pend_ssid \in SSID /\ (late \/ k.pend_ssid = k.connect_ssid)
      BY <1>3, <2>2 DEF Mid, QueueOK, Hud, OptSsid
    <3>3. x.forgetting = FALSE /\ (x.connect_ssid = hud.connect_ssid \/ (late /\ Starting(x)))
      BY <1>3, <2>2, <3>1, <3>2 DEF Joined, Handled, Starting
    <3>4. TargetOK(hud) => TargetOK(x)
      BY <1>3, <2>2, <3>1 DEF Joined, Handled, TargetOK
    <3>5. Starts = {TRUE} => Held(x)
      BY <1>8, <2>2 DEF Joined, Held
    <3> QED BY <3>3, <3>4, <3>5
  <2> QED BY <1>7, <2>1, <2>2 DEF Rekicked
<1>11. hud'.join_wait_live => hud'.connecting
  BY <1>8, <1>9 DEF Calm, Good, Mid, JoinOK
<1>12. /\ ~hud'.forgetting
       /\ hud'.connect_ssid = hud.connect_ssid \/ (late /\ Starting(hud'))
       /\ TargetOK(hud) => TargetOK(hud')
       /\ Starts = {TRUE} => Held(hud')
  BY <1>9, <1>10 DEF Calm, TargetOK, Held, Starting
<1> QED BY <1>2, <1>11, <1>12 DEF Effect, RequestStep, Idle

\* A tap on "join" starts one from idle, for the selected network.
LEMMA JoinPickedEffect ==
  ASSUME late \in BOOLEAN, NEW h, Good(h, late), NEW ok \in BOOLEAN, Starts = {TRUE} => ok
  PROVE  Effect(h, wifi_join_picked(h, ok), late)
<1> DEFINE s == h.selected_ssid
           session == gw_join_use_session_psk(s, h.known_psk_ssid)
           allowed == /\ s # NoSsid
                      /\ gw_allow_join(h.connecting, h.forgetting, ap_is_current(h, s))
                      /\ ~PickedEnterprise(h)
           g == [h EXCEPT !.need_pass = session]
           k == wifi_join_picked(h, ok)
<1>0. Calm(h, h) /\ Mid(h, late) /\ h \in Hud
  BY DEF Calm, Good, Mid
<1>1. CASE ~allowed
  BY <1>0, <1>1, CalmEffect DEF wifi_join_picked
<1>2. CASE allowed
  <2>1. s \in SSID /\ ~h.connecting /\ ~h.forgetting
    BY <1>2 DEF gw_allow_join, Good, Mid, Hud, OptSsid
  <2>2. h.job # "connect" /\ ~h.join_wait_live
    BY <2>1 DEF Good, Mid, JoinOK
  <2>3. TargetOK(h) => s \notin Enterprise
    BY <1>2, <2>1 DEF PickedEnterprise, picked_ssid, TargetOK
  <2>4. k = wifi_connect(g, s, session, ok)
    BY <1>2 DEF wifi_join_picked
  <2>5. session \in BOOLEAN
    BY DEF gw_join_use_session_psk, gw_ssid_eq
  <2> HIDE DEF session, allowed, s, k
  <2>6. /\ g \in Hud /\ g.job = h.job /\ g.forgetting = h.forgetting
        /\ g.selected_ssid = h.selected_ssid /\ g.sec = h.sec
        /\ g.want = h.want /\ g.pend_ssid = h.pend_ssid
    BY <1>0, <2>5 DEF Hud
  <2> HIDE DEF g
  <2>7. Joined(g, k, s, ok)
    BY <2>1, <2>2, <2>4, <2>6, ConnectJoins
  <2>8. RequestStep(h, k, late)
    BY <2>1, <2>2, <2>6, <2>7 DEF Joined, RequestStep, Idle, Starting
  <2>9. TargetOK(h) => TargetOK(k)
    BY <2>3, <2>6, <2>7 DEF Joined, TargetOK
  <2>10. Starts = {TRUE} => Held(k)
    BY <2>7 DEF Joined, Held
  <2> QED BY <2>8, <2>9, <2>10 DEF Effect, k
<1> QED BY <1>1, <1>2

\* A forget takes over from a join; one that cannot start has ended it all the same.
LEMMA ForgetEffect ==
  ASSUME late \in BOOLEAN, NEW h, Good(h, late), NEW ok \in BOOLEAN
  PROVE  Effect(h, wifi_forget(h, h.selected_ssid, ok), late)
<1> DEFINE s == h.selected_ssid
           f == wifi_forget(h, s, ok)
           g == mark_ap_inactive(
                  [abort_job(h, "forget") EXCEPT
                     !.join_wait_live = FALSE, !.connecting = FALSE, !.busy = FALSE,
                     !.want = {}, !.forgetting = TRUE, !.forget_ssid = s], s)
           y == IF gw_ssid_eq(h.ssid, s) THEN [g EXCEPT !.connected = FALSE, !.ssid = NoSsid] ELSE g
           Over(x) == /\ x.connecting = FALSE /\ x.join_wait_live = FALSE
                      /\ x.selected_ssid = s /\ x.sec = h.sec /\ x.connect_ssid = h.connect_ssid
                      /\ x.want = {}
<1>0. Calm(h, h) /\ Mid(h, late) /\ h \in Hud
  BY DEF Calm, Good, Mid
<1>1. CASE s = NoSsid \/ ~gw_forget_can_start(h.forgetting, h.job # "none", h.job = "forget")
  BY <1>0, <1>1, CalmEffect DEF wifi_forget
<1>2. CASE s # NoSsid /\ gw_forget_can_start(h.forgetting, h.job # "none", h.job = "forget")
  <2>1. s \in SSID /\ h.job # "forget" /\ ~h.forgetting
    BY <1>2 DEF gw_forget_can_start, Good, Mid, Hud, OptSsid, ForgetOK
  <2>2. Over(g) /\ g.forgetting = TRUE /\ g.job = "none" /\ g \in Hud
    <3> DEFINE act == h.active \ {s}
               x == [h EXCEPT !.job = "none", !.join_wait_live = FALSE, !.connecting = FALSE,
                              !.busy = FALSE, !.want = {}, !.forgetting = TRUE,
                              !.forget_ssid = s, !.active = act]
    <3>1. g = x
      BY <1>0, <1>2, <2>1 DEF mark_ap_inactive, abort_job, Hud
    <3>2. act \subseteq SSID /\ s \in OptSsid
      BY <1>0 DEF Hud
    <3> HIDE DEF g, act
    <3>3. x \in Hud
      BY <1>0, <3>2 DEF Hud, Job
    <3>4. Over(x) /\ x.forgetting = TRUE /\ x.job = "none"
      BY <1>0 DEF Hud
    <3> QED BY <3>1, <3>3, <3>4
  <2> HIDE DEF g
  <2>3. Over(y) /\ y.forgetting = TRUE /\ y.job = "none" /\ y \in Hud
    <3> DEFINE d == [g EXCEPT !.connected = FALSE, !.ssid = NoSsid]
    <3>1. d \in Hud
      BY <2>2 DEF Hud, OptSsid
    <3>2. Over(d) /\ d.forgetting = TRUE /\ d.job = "none"
      BY <2>2 DEF Hud
    <3>3. y = g \/ y = d
      OBVIOUS
    <3> HIDE DEF d, y
    <3> QED BY <2>2, <3>1, <3>2, <3>3
  <2>4. f = IF ok THEN start_nmcli(y, "forget", ok) ELSE [y EXCEPT !.forgetting = FALSE]
    BY <1>2 DEF wifi_forget, y, g
  <2> HIDE DEF y, f
  <2>5. Over(f) /\ f.forgetting = ok
    BY <2>3, <2>4 DEF start_nmcli, Hud
  <2>6. RequestStep(h, f, late)
    BY <2>1, <2>5 DEF RequestStep, Idle
  <2>7. (TargetOK(h) => TargetOK(f)) /\ Held(f)
    BY <2>5 DEF TargetOK, Held
  <2> QED BY <2>6, <2>7 DEF Effect, f
<1> QED BY <1>1, <1>2

\* A password is for the join under way, or starts one: for the last target, or with
\* none yet for the selection.
LEMMA SubmitEffect ==
  ASSUME late \in BOOLEAN, NEW h, Good(h, late), NEW long \in BOOLEAN,
         NEW ok \in BOOLEAN, Starts = {TRUE} => ok
  PROVE  /\ Effect(h, wifi_submit_pass(h, long, ok), late)
         /\ h.connecting => SameRequest(h, wifi_submit_pass(h, long, ok))
<1> DEFINE s == gw_pass_ssid(h.connect_ssid, h.selected_ssid)
           g == [h EXCEPT !.need_pass = TRUE, !.known_psk_ssid = s]
           q == [g EXCEPT !.pend_ssid = s, !.pend_pass = TRUE, !.want = @ \cup {"connect"}]
           k == wifi_submit_pass(h, long, ok)
<1>0. Calm(h, h) /\ Mid(h, late) /\ h \in Hud
  BY DEF Calm, Good, Mid
<1>1. \/ k = h
      \/ /\ s # NoSsid /\ ~h.forgetting /\ ~PickedEnterprise(h)
         /\ \/ h.connecting /\ k = q
            \/ ~h.connecting /\ k = wifi_connect(g, s, TRUE, ok)
  BY <1>0 DEF wifi_submit_pass, remember_psk, Hud
<1>2. CASE k = h
  BY <1>0, <1>2, CalmEffect DEF SameRequest
<1>3. CASE /\ s # NoSsid /\ ~h.forgetting /\ ~PickedEnterprise(h)
           /\ \/ h.connecting /\ k = q
              \/ ~h.connecting /\ k = wifi_connect(g, s, TRUE, ok)
  <2>1. s \in SSID
    BY <1>0, <1>3 DEF gw_pass_ssid, Hud, OptSsid
  <2>2. ~h.connecting /\ TargetOK(h) => s \notin Enterprise
    BY <1>3 DEF PickedEnterprise, picked_ssid, TargetOK, gw_pass_ssid
  <2> HIDE DEF s, k
  <2>3. /\ g \in Hud /\ Calm(h, g) /\ g.job = h.job /\ g.connecting = h.connecting
        /\ g.sec = h.sec /\ g.join_wait_live = h.join_wait_live
    BY <1>0, <2>1 DEF Hud, OptSsid, Calm
  <2> HIDE DEF g
  <2>4. CASE h.connecting /\ k = q
    <3>1. s = h.connect_ssid
      BY <1>0, <2>4 DEF gw_pass_ssid, Mid, JoinOK, s
    <3>2. /\ q.connect_ssid = g.connect_ssid /\ q.forgetting = g.forgetting
          /\ q.connecting = g.connecting /\ q.join_wait_live = g.join_wait_live
          /\ q.selected_ssid = g.selected_ssid /\ q.sec = g.sec /\ q.job = g.job
          /\ q.pend_ssid = s
      BY <2>1, <2>3 DEF Hud, OptSsid
    <3> HIDE DEF q
    <3>3. SameRequest(h, k)
      BY <1>3, <2>3, <2>4, <3>2 DEF Calm, SameRequest, Mid, JoinOK
    <3>4. (TargetOK(h) => TargetOK(k)) /\ (Held(h) => Held(k))
      BY <2>3, <2>4, <3>1, <3>2 DEF Calm, TargetOK, Held
    <3> QED BY <3>3, <3>4 DEF Effect, RequestStep, k
  <2>5. CASE ~h.connecting /\ k = wifi_connect(g, s, TRUE, ok)
    <3>1. ~h.join_wait_live /\ h.job # "connect"
      BY <2>5 DEF Good, Mid, JoinOK
    <3>2. Joined(g, k, s, ok)
      BY <2>1, <2>3, <2>5, <3>1, ConnectJoins
    <3>3. RequestStep(h, k, late)
      BY <1>3, <2>1, <2>3, <2>5, <3>1, <3>2 DEF Joined, Calm, RequestStep, Idle, Starting
    <3>4. TargetOK(h) => TargetOK(k)
      BY <2>2, <2>3, <2>5, <3>2 DEF Joined, Calm, TargetOK
    <3>5. Starts = {TRUE} => Held(k)
      BY <3>2 DEF Joined, Held
    <3> QED BY <2>5, <3>3, <3>4, <3>5 DEF Effect, k
  <2> QED BY <1>3, <2>4, <2>5
<1> QED BY <1>1, <1>2, <1>3

LEMMA TapEffect ==
  ASSUME late \in BOOLEAN, Good(hud, late), UserTap
  PROVE  Effect(hud, hud', late)
<1>0. /\ Mid(hud, late) /\ hud \in Hud
      /\ \A ok \in Starts : ok \in BOOLEAN /\ (Starts = {TRUE} => ok)
  BY HudAssumption DEF Good, Mid, HudAssumption
<1>1. CASE TapHome
  <2> DEFINE g == [hud EXCEPT !.sheet = "list"]
  <2>1. g \in Hud /\ Calm(hud, g)
    BY <1>0, ToSheetCalm DEF Hud, Sheet
  <2>2. PICK ok \in Starts : hud' = IF g.aps = {} THEN wifi_scan(g, ok) ELSE g
    BY <1>1 DEF TapHome, Tap
  <2> HIDE DEF g
  <2>3. Calm(hud, wifi_scan(g, ok))
    BY <2>1, StartOrWantCalm, CalmTrans DEF wifi_scan
  <2> QED BY <1>0, <2>1, <2>2, <2>3, CalmEffect
<1>2. CASE TapListClose \/ TapDetailBack \/ TapPassBack
  <2>1. PICK s : hud' = [hud EXCEPT !.sheet = s]
    BY <1>2 DEF TapListClose, TapDetailBack, TapPassBack, Tap
  <2> QED BY <1>0, <2>1, ToSheetCalm, CalmEffect
<1>3. CASE TapListRefresh
  <2>1. PICK ok \in Starts : hud' = wifi_scan(hud, ok)
    BY <1>3 DEF TapListRefresh, Tap
  <2> QED BY <1>0, <2>1, StartOrWantCalm, CalmEffect DEF wifi_scan
<1>4. CASE TapListRow
  <2>1. PICK s \in hud.aps :
          LET g == select_ap_idx(hud, s)
          IN  hud' = IF g.connecting \/ g.forgetting THEN g ELSE [g EXCEPT !.sheet = "detail"]
    BY <1>4 DEF TapListRow, Tap
  <2> DEFINE g == [hud EXCEPT !.selected_ssid = s, !.sec = s]
  <2>2. ~hud.forgetting
    BY <1>0, <1>4 DEF TapListRow, OnSheet, Mid, ForgetOK
  <2>3. /\ g \in Hud /\ g.selected_ssid = s /\ g.sec = s
        /\ g.connect_ssid = hud.connect_ssid /\ g.forgetting = hud.forgetting
        /\ g.connecting = hud.connecting /\ g.join_wait_live = hud.join_wait_live
        /\ g.job = hud.job /\ g.want = hud.want /\ g.pend_ssid = hud.pend_ssid
    BY <1>0 DEF Hud, OptSsid
  <2>4. hud' = g \/ hud' = [g EXCEPT !.sheet = "detail"]
    BY <2>1 DEF select_ap_idx
  <2> HIDE DEF g
  <2>5. /\ hud'.selected_ssid = s /\ hud'.sec = s
        /\ hud'.connect_ssid = hud.connect_ssid /\ hud'.forgetting = hud.forgetting
        /\ hud'.connecting = hud.connecting /\ hud'.join_wait_live = hud.join_wait_live
        /\ hud'.job = hud.job /\ hud'.want = hud.want /\ hud'.pend_ssid = hud.pend_ssid
    BY <2>3, <2>4 DEF Hud
  <2> QED BY <2>2, <2>5 DEF Effect, RequestStep, SameRequest, TargetOK, Held
<1>5. CASE TapDetailJoin
  BY <1>0, <1>5, JoinPickedEffect DEF TapDetailJoin, Tap
<1>6. CASE TapDetailForget
  BY <1>0, <1>6, ForgetEffect DEF TapDetailForget, Tap
<1>7. CASE TapPassJoin
  BY <1>0, <1>7, SubmitEffect DEF TapPassJoin, Tap
<1>8. CASE osk_on_down
  BY <1>0, <1>8, CalmEffect DEF osk_on_down, Calm
<1>9. CASE osk_on_up
  <2>1. \/ hud' = hud
        \/ \E long \in BOOLEAN, ok \in Starts : hud' = wifi_submit_pass(hud, long, ok)
    BY <1>9 DEF osk_on_up
  <2> QED BY <1>0, <2>1, SubmitEffect, CalmEffect DEF Calm
<1> QED BY <1>1, <1>2, <1>3, <1>4, <1>5, <1>6, <1>7, <1>8, <1>9 DEF UserTap

\* A key of the keyboard changes nothing of a request that is under way.
LEMMA KeySame ==
  ASSUME Inv, osk_on_up, hud.connecting
  PROVE  SameRequest(hud, hud')
<1>1. \/ hud' = hud
      \/ \E long \in BOOLEAN, ok \in Starts : hud' = wifi_submit_pass(hud, long, ok)
  BY DEF osk_on_up
<1>2. /\ late \in BOOLEAN /\ Good(hud, late)
      /\ \A ok \in Starts : ok \in BOOLEAN /\ (Starts = {TRUE} => ok)
  BY HudAssumption DEF Inv, HudAssumption
<1>3. CASE hud' = hud
  BY <1>3 DEF SameRequest
<1>4. ASSUME NEW long \in BOOLEAN, NEW ok \in Starts, hud' = wifi_submit_pass(hud, long, ok)
      PROVE  SameRequest(hud, hud')
  <2>1. SameRequest(hud, wifi_submit_pass(hud, long, ok))
    BY <1>2, SubmitEffect
  <2> QED BY <1>4, <2>1
<1> QED BY <1>1, <1>3, <1>4

LEMMA NextEffect ==
  ASSUME late \in BOOLEAN, Good(hud, late), [Next]_vars
  PROVE  Effect(hud, hud', late)
<1>1. CASE UNCHANGED vars
  BY <1>1 DEF vars, Effect, RequestStep, SameRequest, TargetOK, Held
<1>2. CASE PollNothing \/ PollRadio \/ PollInfo \/ PollLink \/ PollScan
  BY <1>2, QuietPollCalm, CalmOrEffect DEF Good
<1>3. CASE Kick
  BY <1>3, KickStepCalm, CalmOrEffect DEF Good
<1> QED BY <1>1, <1>2, <1>3, PollForgetEffect, PollConnectEffect, TapEffect DEF Next, PollJob

-----------------------------------------------------------------------------
(* The theorems *)

LEMMA InitEffect ==
  ASSUME Init
  PROVE  Idle(hud) /\ TargetOK(hud) /\ Held(hud)
<1> DEFINE r == [sheet |-> "none", shown |-> FALSE,
                 connected |-> FALSE, busy |-> FALSE, ssid |-> NoSsid,
                 aps |-> {}, active |-> {}, selected_ssid |-> NoSsid, sec |-> NoSsid,
                 connecting |-> FALSE, need_pass |-> FALSE,
                 connect_ssid |-> NoSsid, known_psk_ssid |-> NoSsid,
                 join_wait_live |-> FALSE, forgetting |-> FALSE, forget_ssid |-> NoSsid,
                 job |-> "none", want |-> {}, pend_ssid |-> NoSsid, pend_pass |-> FALSE]
<1>1. r \in Hud
  BY DEF Hud, OptSsid, Sheet, Job, Want
<1>2. Idle(r) /\ TargetOK(r) /\ Held(r)
  BY SsidAssumption, HudAssumption DEF Idle, TargetOK, Held, HudAssumption
<1>3. PICK ok \in Starts : hud = wifi_radio(r, ok)
  BY DEF Init
<1>4. r.connecting = FALSE /\ r.join_wait_live = FALSE
  OBVIOUS
<1> HIDE DEF r
<1>5. Calm(r, hud)
  BY <1>1, <1>3, StartOrWantCalm DEF wifi_radio
<1> QED BY <1>2, <1>4, <1>5 DEF Calm, Idle, TargetOK, Held

\* The script is never started for an 802.1X network, whichever sheet the join comes
\* from and whatever has become of the row since it was selected.
THEOREM HudNoEnterpriseJoin == Spec => []NoEnterpriseJoin
<1>1. Init => TargetOK(hud)
  BY InitEffect
<1>2. Inv /\ TargetOK(hud) /\ [Next]_vars => TargetOK(hud)'
  BY NextEffect DEF Inv, Effect, TargetOK
<1>3. TargetOK(hud) => NoEnterpriseJoin
  BY DEF TargetOK, NoEnterpriseJoin
<1> QED BY <1>1, <1>2, <1>3, HudInvariant, PTL DEF Spec

\* Where jobs start, a join has its script running or its 12 s timer on: its spinner
\* is never left to nobody.
THEOREM HudNoOrphanJoin == ASSUME Starts = {TRUE} PROVE Spec => []NoOrphanJoin
<1>1. Init => Held(hud)
  BY InitEffect
<1>2. Inv /\ Held(hud) /\ [Next]_vars => Held(hud)'
  BY NextEffect DEF Inv, Effect, Held
<1>3. Held(hud) => NoOrphanJoin
  BY DEF Held, NoOrphanJoin
<1> QED BY <1>1, <1>2, <1>3, HudInvariant, PTL DEF Spec

\* Only a key released during a confirmation sets late.
LEMMA LateStep ==
  ASSUME Inv, [Next]_vars
  PROVE  late' => late \/ (hud.join_wait_live /\ SameRequest(hud, hud'))
<1>1. CASE osk_on_up
  <2>1. late' => late \/ hud.join_wait_live
    BY <1>1, Zenon DEF osk_on_up
  <2>2. hud.join_wait_live => SameRequest(hud, hud')
    BY <1>1, KeySame DEF Inv, Good, Mid, JoinOK
  <2> QED BY <2>1, <2>2
<1>2. CASE Next /\ ~osk_on_up
  <2>1. StillLate \/ late' = late
    BY <1>2, Frame
  <2> QED BY <2>1, Zenon DEF StillLate
<1>3. CASE UNCHANGED vars
  BY <1>3 DEF vars
<1> QED BY <1>1, <1>2, <1>3

\* Every request the HUD has under way is one of WifiJoin's, and every step of the
\* HUD is one of its steps or none: one request at a time, but for the join that the
\* password submitted during a confirmation may put in another's place.
THEOREM HudImplementsWifiJoin == Spec => HudJoins
<1>1. Init => Joins!Init
  BY InitEffect DEF Init, Joins!Init, Phase, Network, Idle
<1>2. Inv /\ Inv' /\ [Next]_vars => [Joins!Next]_(Joins!vars)
  <2> SUFFICES ASSUME Inv, Inv', [Next]_vars
               PROVE  [Joins!Next]_(Joins!vars)
    OBVIOUS
  <2>1. /\ RequestStep(hud, hud', late)
        /\ hud \in Hud /\ ForgetOK(hud) /\ JoinOK(hud, late)
        /\ hud' \in Hud /\ ForgetOK(hud') /\ JoinOK(hud', late')
        /\ late \in BOOLEAN /\ late' \in BOOLEAN
    BY NextEffect DEF Inv, Effect, Good, Mid
  <2>2. late' \in {late, FALSE} \/ (hud.join_wait_live /\ SameRequest(hud, hud'))
    BY <2>1, LateStep
  <2>3. hud.join_wait_live => ~hud.forgetting /\ hud.connecting
    BY <2>1 DEF ForgetOK, JoinOK
  <2>4. CASE SameRequest(hud, hud')
    <3>1. Phase' = Phase /\ Network' = Network
      BY <2>4 DEF SameRequest, Phase, Network
    <3>2. CASE late' = late
      BY <3>1, <3>2 DEF Joins!vars
    <3>3. CASE ~late'
      BY <2>1, <3>1, <3>3 DEF Joins!Next, Joins!Emptied
    <3>4. CASE late' /\ late' # late
      <4>1. hud.join_wait_live /\ Phase = "confirming"
        BY <2>1, <2>2, <2>3, <3>4 DEF Phase
      <4> QED BY <2>1, <3>1, <3>4, <4>1 DEF Joins!Next, Joins!Resubmit
    <3> QED BY <2>1, <3>2, <3>3, <3>4
  <2> SUFFICES ASSUME late' \in {late, FALSE}
               PROVE  [Joins!Next]_(Joins!vars)
    BY <2>2, <2>4
  <2>5. CASE Idle(hud')
    <3>1. Phase' = "idle" /\ Network' = NoSsid
      BY <2>5 DEF Idle, Phase, Network
    <3>2. CASE Phase = "idle"
      <4>1. SameRequest(hud, hud')
        BY <2>1, <2>3, <2>5, <3>2 DEF Phase, Idle, SameRequest, Hud
      <4> QED BY <2>4, <4>1
    <3>3. CASE Phase # "idle"
      <4>1. Phase \in {"joining", "confirming", "forgetting"}
        BY <3>3 DEF Phase
      <4> QED BY <3>1, <4>1 DEF Joins!Next, Joins!Ended, Joins!Move
    <3> QED BY <3>2, <3>3
  <2>6. CASE Idle(hud) /\ Starting(hud')
    BY <2>6 DEF Idle, Starting, Joins!Next, Joins!Join, Joins!Move, Phase, Network
  <2>7. CASE /\ hud.connecting /\ ~hud.forgetting /\ ~hud.join_wait_live
             /\ hud'.connecting /\ ~hud'.forgetting /\ hud'.connect_ssid = hud.connect_ssid
    <3>1. CASE hud'.join_wait_live
      BY <2>7, <3>1 DEF Joins!Next, Joins!Answered, Joins!Move, Phase, Network
    <3>2. CASE ~hud'.join_wait_live
      <4>1. SameRequest(hud, hud')
        BY <2>1, <2>7, <3>2 DEF SameRequest, Hud
      <4> QED BY <2>4, <4>1
    <3> QED BY <3>1, <3>2
  <2>8. CASE ~hud.forgetting /\ hud'.forgetting /\ hud'.selected_ssid \in SSID
    <3>1. ~late'
      BY <2>1, <2>8 DEF Inv, Pending, ForgetOK
    <3> QED BY <2>8, <3>1 DEF Joins!Next, Joins!Forget, Joins!Move, Phase, Network
  <2>9. CASE late /\ ~hud.forgetting /\ Starting(hud')
    <3>1. Phase' = "joining" /\ Network' = hud'.connect_ssid /\ hud'.connect_ssid \in SSID
      BY <2>9 DEF Starting, Phase, Network
    <3>2. Phase \in {"idle", "joining", "confirming"}
      BY <2>9 DEF Phase
    <3> QED BY <2>9, <3>1, <3>2 DEF Joins!Next, Joins!Join, Joins!Overtaken, Joins!Move
  <2> QED BY <2>1, <2>4, <2>5, <2>6, <2>7, <2>8, <2>9 DEF RequestStep
<1> QED BY <1>1, <1>2, HudInvariant, PTL DEF Spec, HudJoins, Joins!Spec
=============================================================================
