--------------------------- MODULE WifiHudProofs ---------------------------
(***************************************************************************)
(* What the Wi-Fi manager keeps true for every set of networks, every      *)
(* sibling relation and jobs that may fail to start.                        *)
(***************************************************************************)
EXTENDS WifiHud, TLAPS

\* The inductive invariant, as a predicate of a HUD state and of late, so that the
\* lemmas can speak of the states between two calls of one handler.
ForgetOK(h) ==
  /\ h.forgetting <=> h.job = "forget"
  /\ h.forgetting => /\ h.sheet = "detail" /\ h.shown
                     /\ h.selected_ssid # NoSsid
                     /\ h.forget_ssid \in {NoSsid, h.selected_ssid}
                     /\ ~h.connecting /\ "connect" \notin h.want

JoinOK(h, l) ==
  /\ h.connecting => h.connect_ssid # NoSsid
  /\ h.job = "connect" => h.connecting /\ ~h.join_wait_live
  /\ h.join_wait_live => /\ h.connecting /\ h.sheet # "pass"
                         /\ "connect" \in h.want => l

PskOK(h, l) == h.connecting /\ ~h.need_pass /\ ~l => h.known_psk_ssid # h.connect_ssid

GoneOK(h) ==
  h.forget_ssid # NoSsid => /\ h.ssid # h.forget_ssid
                            /\ h.forget_ssid \notin h.active
                            /\ ~h.connecting

\* What is true of a queued join even between the end of a job and kick_pending.
QueueOK(h, l) ==
  "connect" \in h.want => /\ h.pend_ssid # NoSsid /\ h.pend_pass
                          /\ h.forget_ssid = NoSsid /\ ~h.forgetting
                          /\ l \/ (h.pend_ssid = h.connect_ssid /\ h.need_pass)

\* Between calls, and at the end of every handler.
Mid(h, l) == h \in Hud /\ ForgetOK(h) /\ JoinOK(h, l) /\ PskOK(h, l) /\ GoneOK(h) /\ QueueOK(h, l)
Good(h, l) == Mid(h, l) /\ ("connect" \in h.want => h.connecting \/ l)

LEMMA ConnectGood ==
  ASSUME NEW l \in BOOLEAN, NEW h, Mid(h, l),
         ~h.forgetting, NEW s \in SSID, NEW pass \in BOOLEAN, NEW ok \in BOOLEAN,
         h.job # "connect", "connect" \notin h.want \/ l,
         l \/ h.need_pass \/ h.known_psk_ssid # s
  PROVE  Good(wifi_connect(h, s, pass, ok), l)
<1> DEFINE j == IF ok THEN "connect" ELSE "none"
           k == [h EXCEPT !.forget_ssid = NoSsid, !.connecting = TRUE, !.job = j,
                          !.join_wait_live = FALSE, !.busy = TRUE, !.connect_ssid = s]
<1>1. wifi_connect(h, s, pass, ok) = k
  BY SsidAssumption DEF wifi_connect, start_nmcli, abort_job, Mid, Hud
<1>2. j \in {"none", "connect"} OBVIOUS
<1> HIDE DEF j
<1>3. k \in Hud
  BY <1>2, SsidAssumption DEF Mid, Hud, OptSsid, Job
<1>4. /\ k.connecting = TRUE /\ k.connect_ssid = s /\ k.join_wait_live = FALSE
      /\ k.forget_ssid = NoSsid /\ k.forgetting = h.forgetting /\ k.job = j
      /\ k.want = h.want /\ k.need_pass = h.need_pass /\ k.known_psk_ssid = h.known_psk_ssid
      /\ k.pend_ssid = h.pend_ssid /\ k.pend_pass = h.pend_pass
  BY DEF Mid, Hud
<1> HIDE DEF k
<1>5. ForgetOK(k) /\ JoinOK(k, l) /\ PskOK(k, l) /\ GoneOK(k) /\ QueueOK(k, l)
  BY <1>2, <1>4, SsidAssumption DEF Mid, ForgetOK, JoinOK, PskOK, GoneOK, QueueOK
<1> QED BY <1>1, <1>3, <1>4, <1>5 DEF Good, Mid

LEMMA StartOrWantGood ==
  ASSUME NEW l \in BOOLEAN, NEW h, Mid(h, l),
         NEW kind \in {"radio", "info", "scan", "link"},
         NEW later \in {"info", "scan", "link"}, NEW ok \in BOOLEAN
  PROVE  LET k == StartOrWant(h, kind, later, ok)
         IN  /\ Mid(k, l)
             /\ Good(h, l) => Good(k, l)
             /\ k.job = "none" \/ k.job = kind \/ k.job = h.job
<1> DEFINE a == [h EXCEPT !.job = kind]
           b == [h EXCEPT !.want = @ \cup {later}]
<1>1. CASE h.job = "none" /\ ok
  <2>1. StartOrWant(h, kind, later, ok) = a
    BY <1>1 DEF StartOrWant
  <2>2. a \in Hud /\ a.job = kind /\ a.want = h.want /\ a.connecting = h.connecting
    BY DEF Mid, Hud, Job
  <2>3. ForgetOK(a) /\ JoinOK(a, l) /\ PskOK(a, l) /\ GoneOK(a) /\ QueueOK(a, l)
    BY <1>1 DEF Mid, Hud, ForgetOK, JoinOK, PskOK, GoneOK, QueueOK
  <2> HIDE DEF a
  <2> QED BY <2>1, <2>2, <2>3 DEF Good, Mid
<1>2. CASE ~(h.job = "none" /\ ok)
  <2>1. StartOrWant(h, kind, later, ok) = b
    BY <1>2 DEF StartOrWant
  <2>2. /\ b \in Hud /\ b.job = h.job /\ b.connecting = h.connecting
        /\ "connect" \in b.want <=> "connect" \in h.want
    BY DEF Mid, Hud, Want
  <2>3. ForgetOK(b) /\ JoinOK(b, l) /\ PskOK(b, l) /\ GoneOK(b) /\ QueueOK(b, l)
    BY <2>2 DEF Mid, Hud, ForgetOK, JoinOK, PskOK, GoneOK, QueueOK
  <2> HIDE DEF b
  <2> QED BY <2>1, <2>2, <2>3 DEF Good, Mid
<1> QED BY <1>1, <1>2

LEMMA ConfirmGood ==
  ASSUME NEW l \in BOOLEAN, NEW h, Mid(h, l), NEW timed_out \in BOOLEAN
  PROVE  LET k == maybe_confirm_join(h, timed_out)
         IN  /\ Mid(k, l)
             /\ Good(h, l) => Good(k, l)
             /\ k.job = h.job
<1> DEFINE act == h.aps \cap {h.connect_ssid}
           tgt == IF h.sheet = "none" THEN "detail" ELSE h.sheet
           a == [h EXCEPT !.active = act, !.join_wait_live = FALSE, !.connecting = FALSE,
                          !.busy = FALSE, !.sheet = "none", !.want = @ \cup {"scan"}]
           b == [h EXCEPT !.join_wait_live = FALSE, !.connecting = FALSE,
                          !.busy = FALSE, !.sheet = tgt]
           k == maybe_confirm_join(h, timed_out)
<1>1. k = h \/ (h.join_wait_live /\ (k = a \/ k = b))
  BY DEF maybe_confirm_join, mark_ap_active
<1> SUFFICES ASSUME h.join_wait_live, k = a \/ k = b
             PROVE  Mid(k, l) /\ Good(k, l) /\ k.job = h.job
  BY <1>1
<1>2. h.connecting /\ ~h.forgetting /\ ("connect" \in h.want => l) /\ h.forget_ssid = NoSsid
  BY DEF Mid, ForgetOK, JoinOK, GoneOK
<1>3. act \subseteq SSID /\ tgt \in Sheet
  BY DEF Mid, Hud, Sheet
<1> HIDE DEF k
<1>4. CASE k = a
  <2> HIDE DEF act, tgt
  <2>1. a \in Hud
    BY <1>3 DEF Mid, Hud, Sheet, Want
  <2>2. /\ a.join_wait_live = FALSE /\ a.connecting = FALSE /\ a.job = h.job
        /\ a.forgetting = h.forgetting /\ a.want = h.want \cup {"scan"}
        /\ a.forget_ssid = h.forget_ssid
        /\ a.pend_ssid = h.pend_ssid /\ a.pend_pass = h.pend_pass
        /\ a.connect_ssid = h.connect_ssid /\ a.need_pass = h.need_pass
    BY DEF Mid, Hud
  <2> HIDE DEF a
  <2>3. /\ ForgetOK(a) /\ JoinOK(a, l) /\ PskOK(a, l) /\ GoneOK(a) /\ QueueOK(a, l)
        /\ "connect" \in a.want => l
    BY <1>2, <2>2 DEF Mid, ForgetOK, JoinOK, PskOK, GoneOK, QueueOK
  <2> QED BY <1>4, <2>1, <2>2, <2>3 DEF Good, Mid
<1>5. CASE k = b
  <2> HIDE DEF act, tgt
  <2>1. b \in Hud
    BY <1>3 DEF Mid, Hud, Sheet, Want
  <2>2. /\ b.join_wait_live = FALSE /\ b.connecting = FALSE /\ b.job = h.job
        /\ b.forgetting = h.forgetting /\ b.want = h.want
        /\ b.forget_ssid = h.forget_ssid
        /\ b.pend_ssid = h.pend_ssid /\ b.pend_pass = h.pend_pass
        /\ b.connect_ssid = h.connect_ssid /\ b.need_pass = h.need_pass
    BY DEF Mid, Hud
  <2> HIDE DEF b
  <2>3. /\ ForgetOK(b) /\ JoinOK(b, l) /\ PskOK(b, l) /\ GoneOK(b) /\ QueueOK(b, l)
        /\ "connect" \in b.want => l
    BY <1>2, <2>2 DEF Mid, ForgetOK, JoinOK, PskOK, GoneOK, QueueOK
  <2> QED BY <1>5, <2>1, <2>2, <2>3 DEF Good, Mid
<1> QED BY <1>4, <1>5

LEMMA ApplyGood ==
  ASSUME NEW l \in BOOLEAN, NEW h, Mid(h, l), NEW s \in OptSsid
  PROVE  LET k == apply_wifi_ssid(h, s)
         IN  /\ Mid(k, l)
             /\ Good(h, l) => Good(k, l)
             /\ k.job = h.job /\ k.aps = h.aps
<1> DEFINE live == IF <<h.ssid, s>> \in Longer THEN h.ssid ELSE s
           a == [h EXCEPT !.forget_ssid = NoSsid, !.ssid = live]
<1>1. apply_wifi_ssid(h, s) = h \/ apply_wifi_ssid(h, s) = a
  BY DEF apply_wifi_ssid
<1>2. live \in OptSsid
  BY DEF Mid, Hud
<1> HIDE DEF live
<1>3. a \in Hud /\ a.forget_ssid = NoSsid
  BY <1>2 DEF Mid, Hud, OptSsid
<1>4. /\ a.job = h.job /\ a.aps = h.aps /\ a.connecting = h.connecting /\ a.want = h.want
      /\ a.forgetting = h.forgetting /\ a.sheet = h.sheet /\ a.shown = h.shown
      /\ a.selected_ssid = h.selected_ssid /\ a.connect_ssid = h.connect_ssid
      /\ a.join_wait_live = h.join_wait_live /\ a.need_pass = h.need_pass
      /\ a.known_psk_ssid = h.known_psk_ssid /\ a.pend_ssid = h.pend_ssid
      /\ a.pend_pass = h.pend_pass
  BY DEF Mid, Hud
<1> HIDE DEF a
<1>5. ForgetOK(a) /\ JoinOK(a, l) /\ PskOK(a, l) /\ GoneOK(a) /\ QueueOK(a, l)
  BY <1>3, <1>4 DEF Mid, ForgetOK, JoinOK, PskOK, GoneOK, QueueOK
<1> QED BY <1>1, <1>3, <1>4, <1>5 DEF Good, Mid

LEMMA CloseGood ==
  ASSUME NEW l \in BOOLEAN, NEW h, Mid(h, l), ~h.forgetting
  PROVE  LET k == close_job(h)
         IN  /\ Mid(k, l)
             /\ Good(h, l) => Good(k, l)
             /\ k.job = "none" /\ k.connecting = h.connecting /\ k.forgetting = FALSE
             /\ k.connect_ssid = h.connect_ssid /\ k.need_pass = h.need_pass
             /\ k.known_psk_ssid = h.known_psk_ssid /\ k.want = h.want
             /\ k.forget_ssid = h.forget_ssid /\ k.aps = h.aps
             /\ k.join_wait_live = h.join_wait_live
<1> DEFINE k == [h EXCEPT !.job = "none"]
<1>1. close_job(h) = k
  BY DEF close_job
<1>2. k \in Hud /\ k.job = "none"
  BY DEF Mid, Hud, Job
<1>3. /\ k.connecting = h.connecting /\ k.want = h.want /\ k.forget_ssid = h.forget_ssid
      /\ k.forgetting = h.forgetting /\ k.sheet = h.sheet /\ k.active = h.active
      /\ k.connect_ssid = h.connect_ssid /\ k.ssid = h.ssid /\ k.aps = h.aps
      /\ k.join_wait_live = h.join_wait_live /\ k.need_pass = h.need_pass
      /\ k.known_psk_ssid = h.known_psk_ssid /\ k.pend_ssid = h.pend_ssid
      /\ k.pend_pass = h.pend_pass
  BY DEF Mid, Hud
<1>4. k.forgetting = FALSE
  BY <1>3 DEF Mid, Hud
<1> HIDE DEF k
<1>5. ForgetOK(k) /\ JoinOK(k, l) /\ PskOK(k, l) /\ GoneOK(k) /\ QueueOK(k, l)
  BY <1>2, <1>3, <1>4 DEF Mid, ForgetOK, JoinOK, PskOK, GoneOK, QueueOK
<1> QED BY <1>1, <1>2, <1>3, <1>4, <1>5 DEF Good, Mid

\* A request other than a join is queued.
LEMMA WantGood ==
  ASSUME NEW l \in BOOLEAN, NEW h, Mid(h, l), NEW later \in SUBSET {"info", "scan", "link"}
  PROVE  LET k == [h EXCEPT !.want = @ \cup later]
         IN  /\ Mid(k, l)
             /\ Good(h, l) => Good(k, l)
             /\ k.job = h.job
<1> DEFINE k == [h EXCEPT !.want = @ \cup later]
<1>1. k \in Hud /\ ("connect" \in k.want <=> "connect" \in h.want)
  BY DEF Mid, Hud, Want
<1>2. /\ k.connecting = h.connecting /\ k.job = h.job /\ k.forget_ssid = h.forget_ssid
      /\ k.forgetting = h.forgetting /\ k.sheet = h.sheet /\ k.active = h.active
      /\ k.connect_ssid = h.connect_ssid /\ k.ssid = h.ssid /\ k.shown = h.shown
      /\ k.join_wait_live = h.join_wait_live /\ k.need_pass = h.need_pass
      /\ k.known_psk_ssid = h.known_psk_ssid /\ k.pend_ssid = h.pend_ssid
      /\ k.pend_pass = h.pend_pass /\ k.selected_ssid = h.selected_ssid
  BY DEF Mid, Hud
<1> HIDE DEF k
<1>3. ForgetOK(k) /\ JoinOK(k, l) /\ PskOK(k, l) /\ GoneOK(k) /\ QueueOK(k, l)
  BY <1>1, <1>2 DEF Mid, ForgetOK, JoinOK, PskOK, GoneOK, QueueOK
<1>4. Mid(k, l) /\ (Good(h, l) => Good(k, l)) /\ k.job = h.job
  BY <1>1, <1>2, <1>3 DEF Good, Mid
<1> QED BY <1>4 DEF k

\* ... and kick_pending takes one out of the queue.
LEMMA DropGood ==
  ASSUME NEW l \in BOOLEAN, NEW h, Mid(h, l), NEW w \in Want
  PROVE  LET k == [h EXCEPT !.want = @ \ {w}]
         IN  /\ Mid(k, l)
             /\ Good(h, l) => Good(k, l)
             /\ k.job = h.job /\ k.forgetting = h.forgetting
             /\ k.need_pass = h.need_pass /\ k.want = h.want \ {w}
<1> DEFINE k == [h EXCEPT !.want = @ \ {w}]
<1>1. k \in Hud /\ k.want = h.want \ {w}
  BY DEF Mid, Hud, Want
<1>2. /\ k.connecting = h.connecting /\ k.job = h.job /\ k.forget_ssid = h.forget_ssid
      /\ k.forgetting = h.forgetting /\ k.sheet = h.sheet /\ k.active = h.active
      /\ k.connect_ssid = h.connect_ssid /\ k.ssid = h.ssid /\ k.shown = h.shown
      /\ k.join_wait_live = h.join_wait_live /\ k.need_pass = h.need_pass
      /\ k.known_psk_ssid = h.known_psk_ssid /\ k.pend_ssid = h.pend_ssid
      /\ k.pend_pass = h.pend_pass /\ k.selected_ssid = h.selected_ssid
  BY DEF Mid, Hud
<1> HIDE DEF k
<1>3. ForgetOK(k) /\ JoinOK(k, l) /\ PskOK(k, l) /\ GoneOK(k) /\ QueueOK(k, l)
  BY <1>1, <1>2 DEF Mid, ForgetOK, JoinOK, PskOK, GoneOK, QueueOK
<1>4. /\ Mid(k, l) /\ (Good(h, l) => Good(k, l)) /\ k.job = h.job /\ k.forgetting = h.forgetting
      /\ k.need_pass = h.need_pass /\ k.want = h.want \ {w}
  BY <1>1, <1>2, <1>3 DEF Good, Mid
<1> QED BY <1>4 DEF k

LEMMA KickGood ==
  ASSUME NEW l \in BOOLEAN, NEW h, Mid(h, l),
         h.job # "none" => Good(h, l), NEW ok \in BOOLEAN
  PROVE  Good(kick_pending(h, ok), l)
<1> DEFINE k == kick_pending(h, ok)
           drop(w) == [h EXCEPT !.want = @ \ {w}]
<1>1. CASE h.job # "none"
  BY <1>1 DEF kick_pending
<1> SUFFICES ASSUME h.job = "none"
             PROVE  Good(k, l)
  BY <1>1
<1>2. ~h.forgetting
  BY DEF Mid, ForgetOK
<1>3. CASE "connect" \in h.want
  <2>1. k = wifi_connect(drop("connect"), h.pend_ssid, h.pend_pass, ok)
    BY <1>3 DEF kick_pending
  <2>2. /\ Mid(drop("connect"), l) /\ drop("connect").job = "none" /\ ~drop("connect").forgetting
        /\ "connect" \notin drop("connect").want /\ drop("connect").need_pass = h.need_pass
        /\ l \/ h.need_pass
    <3>1. "connect" \in Want
      BY DEF Want
    <3>2. l \/ h.need_pass
      BY <1>3 DEF Mid, QueueOK
    <3> QED BY <1>2, <3>1, <3>2, DropGood
  <2>3. h.pend_ssid \in SSID /\ h.pend_pass \in BOOLEAN
    BY <1>3 DEF Mid, QueueOK, Hud, OptSsid
  <2> HIDE DEF drop, k
  <2> QED BY <2>1, <2>2, <2>3, ConnectGood
<1> SUFFICES ASSUME "connect" \notin h.want
             PROVE  Good(k, l)
  BY <1>3
<1>4. Good(h, l)
  BY DEF Good
<1>5. ASSUME NEW w \in {"scan", "link", "info"}
      PROVE  Mid(drop(w), l) /\ Good(drop(w), l)
  BY <1>4, DropGood DEF Want
<1>6. \/ k = h
      \/ k = wifi_scan(drop("scan"), ok)
      \/ k = wifi_link(drop("link"), ok)
      \/ k = wifi_info(drop("info"), ok)
  BY DEF kick_pending
<1> HIDE DEF k, drop
<1>7. /\ Good(wifi_scan(drop("scan"), ok), l)
      /\ Good(wifi_link(drop("link"), ok), l)
      /\ Good(wifi_info(drop("info"), ok), l)
  BY <1>5, StartOrWantGood DEF wifi_scan, wifi_link, wifi_info
<1> QED BY <1>4, <1>6, <1>7

LEMMA ParseInfoGood ==
  ASSUME NEW l \in BOOLEAN, NEW h, Mid(h, l), ~h.forgetting, NEW st
  PROVE  LET k == parse_info(h, st)
         IN  /\ Mid(k, l)
             /\ Good(h, l) => Good(k, l)
             /\ k.job = h.job
<1> DEFINE up == st = "up"
           by == st = "busy"
           a == [h EXCEPT !.connected = FALSE, !.busy = FALSE, !.ssid = NoSsid]
           b == [h EXCEPT !.connected = up, !.busy = by, !.forget_ssid = NoSsid]
           c == [h EXCEPT !.connected = up, !.busy = by]
           k == parse_info(h, st)
<1>1. k \in {h, a, b, c}
  BY DEF parse_info, Mid, Hud
<1>2. up \in BOOLEAN /\ by \in BOOLEAN
  OBVIOUS
<1> HIDE DEF up, by, k
<1> DEFINE Same(g) ==
      /\ g.connecting = h.connecting /\ g.job = h.job /\ g.want = h.want
      /\ g.forgetting = h.forgetting /\ g.sheet = h.sheet /\ g.active = h.active
      /\ g.connect_ssid = h.connect_ssid /\ g.shown = h.shown
      /\ g.join_wait_live = h.join_wait_live /\ g.need_pass = h.need_pass
      /\ g.known_psk_ssid = h.known_psk_ssid /\ g.pend_ssid = h.pend_ssid
      /\ g.pend_pass = h.pend_pass /\ g.selected_ssid = h.selected_ssid
      /\ g.forget_ssid \in {NoSsid, h.forget_ssid}
      /\ g.ssid \in {NoSsid, h.ssid}
<1>3. a \in Hud /\ Same(a)
  <2>1. a \in Hud
    BY DEF Mid, Hud, OptSsid
  <2>2. a.forget_ssid = h.forget_ssid /\ a.ssid = NoSsid
    BY DEF Mid, Hud
  <2> QED BY <2>1, <2>2 DEF Mid, Hud
<1>4. b \in Hud /\ Same(b)
  <2>1. b \in Hud
    BY <1>2 DEF Mid, Hud, OptSsid
  <2>2. b.forget_ssid = NoSsid /\ b.ssid = h.ssid
    BY DEF Mid, Hud
  <2> QED BY <2>1, <2>2 DEF Mid, Hud
<1>5. c \in Hud /\ Same(c)
  <2>1. c \in Hud
    BY <1>2 DEF Mid, Hud
  <2>2. c.forget_ssid = h.forget_ssid /\ c.ssid = h.ssid
    BY DEF Mid, Hud
  <2> QED BY <2>1, <2>2 DEF Mid, Hud
<1>6. ASSUME NEW g, g \in Hud, Same(g)
      PROVE  Mid(g, l) /\ (Good(h, l) => Good(g, l)) /\ g.job = h.job
  BY <1>6 DEF Good, Mid, ForgetOK, JoinOK, PskOK, GoneOK, QueueOK
<1> HIDE DEF a, b, c, Same
<1>7. Mid(k, l) /\ (Good(h, l) => Good(k, l)) /\ k.job = h.job
  BY <1>1, <1>3, <1>4, <1>5, <1>6
<1> QED BY <1>7 DEF k

\* What a step that is about the sheets, the selection or the scan list leaves alone.
SameJoin(h, k) ==
  /\ k.job = h.job /\ k.forgetting = h.forgetting /\ k.forget_ssid = h.forget_ssid
  /\ k.connecting = h.connecting /\ k.connect_ssid = h.connect_ssid
  /\ k.join_wait_live = h.join_wait_live /\ k.need_pass = h.need_pass
  /\ k.pend_ssid = h.pend_ssid /\ k.pend_pass = h.pend_pass /\ k.want = h.want
  /\ k.known_psk_ssid = h.known_psk_ssid /\ k.ssid = h.ssid

LEMMA SheetGood ==
  ASSUME NEW l \in BOOLEAN, NEW h, Mid(h, l), ~h.forgetting, NEW k \in Hud, SameJoin(h, k),
         k.forget_ssid # NoSsid => k.forget_ssid \notin k.active,
         k.join_wait_live => k.sheet # "pass"
  PROVE  Mid(k, l) /\ (Good(h, l) => Good(k, l))
<1>1. ForgetOK(k) /\ JoinOK(k, l) /\ PskOK(k, l) /\ GoneOK(k) /\ QueueOK(k, l)
  BY DEF Mid, ForgetOK, JoinOK, PskOK, GoneOK, QueueOK, SameJoin
<1> QED BY <1>1 DEF Good, Mid, SameJoin

LEMMA ToSheetGood ==
  ASSUME NEW l \in BOOLEAN, NEW h, Mid(h, l),
         ~h.forgetting, NEW s \in Sheet, h.join_wait_live => s # "pass"
  PROVE  LET k == [h EXCEPT !.sheet = s]
         IN  Mid(k, l) /\ (Good(h, l) => Good(k, l)) /\ SameJoin(h, k) /\ k.sheet = s
<1> DEFINE k == [h EXCEPT !.sheet = s]
<1>1. /\ k \in Hud /\ SameJoin(h, k) /\ k.active = h.active /\ k.sheet = s
  BY DEF Mid, Hud, SameJoin
<1> HIDE DEF k
<1>2. (k.forget_ssid # NoSsid => k.forget_ssid \notin k.active) /\ (k.join_wait_live => k.sheet # "pass")
  BY <1>1 DEF SameJoin, Mid, GoneOK
<1>3. Mid(k, l) /\ (Good(h, l) => Good(k, l))
  BY <1>1, <1>2, SheetGood
<1> QED BY <1>1, <1>3 DEF k

LEMMA SyncGood ==
  ASSUME NEW l \in BOOLEAN, NEW h, Mid(h, l), ~h.forgetting
  PROVE  LET k == sync_selected_ap(h)
         IN  Mid(k, l) /\ (Good(h, l) => Good(k, l)) /\ SameJoin(h, k) /\ k.aps = h.aps
<1> DEFINE a == [h EXCEPT !.selected_ssid = h.selected_ssid, !.sec = h.selected_ssid]
           k == sync_selected_ap(h)
<1>1. k = h \/ k = a
  BY DEF sync_selected_ap, select_ap_idx
<1>2. a \in Hud /\ SameJoin(h, a) /\ a.active = h.active /\ a.sheet = h.sheet /\ a.aps = h.aps
  BY DEF Mid, Hud, SameJoin
<1>3. SameJoin(h, h)
  BY DEF SameJoin
<1> HIDE DEF a, k
<1>4. Mid(a, l) /\ (Good(h, l) => Good(a, l))
  <2>1. (a.forget_ssid # NoSsid => a.forget_ssid \notin a.active) /\ (a.join_wait_live => a.sheet # "pass")
    BY <1>2 DEF SameJoin, Mid, GoneOK, JoinOK
  <2> QED BY <1>2, <2>1, SheetGood
<1>5. Mid(k, l) /\ (Good(h, l) => Good(k, l)) /\ SameJoin(h, k) /\ k.aps = h.aps
  BY <1>1, <1>2, <1>3, <1>4
<1> QED BY <1>5 DEF k

LEMMA ForgetGood ==
  ASSUME NEW l \in BOOLEAN, NEW h, Good(h, l),
         h.sheet = "detail", h.shown, NEW ok \in BOOLEAN
  PROVE  Good(wifi_forget(h, h.selected_ssid, ok), l)
<1> DEFINE s == h.selected_ssid
           f == wifi_forget(h, s, ok)
           j == IF ok THEN "forget" ELSE "none"
           con == IF gw_ssid_eq(h.ssid, s) THEN FALSE ELSE h.connected
           live == IF gw_ssid_eq(h.ssid, s) THEN NoSsid ELSE h.ssid
           k == [h EXCEPT !.job = j, !.join_wait_live = FALSE, !.connecting = FALSE,
                          !.busy = FALSE, !.want = {}, !.forgetting = ok, !.forget_ssid = s,
                          !.active = @ \ {s}, !.connected = con, !.ssid = live]
<1>1. CASE s = NoSsid \/ ~gw_forget_can_start(h.forgetting, h.job # "none", h.job = "forget")
  BY <1>1 DEF wifi_forget
<1> SUFFICES ASSUME s # NoSsid, h.job # "forget"
             PROVE  Good(f, l)
  BY <1>1 DEF gw_forget_can_start
<1>2. f = k
  <2>1. abort_job(h, "forget") = [h EXCEPT !.job = "none"]
    BY DEF abort_job
  <2>2. s # NoSsid /\ gw_forget_can_start(h.forgetting, h.job # "none", h.job = "forget")
    BY DEF gw_forget_can_start
  <2> DEFINE x == [h EXCEPT !.job = "none", !.join_wait_live = FALSE, !.connecting = FALSE,
                            !.busy = FALSE, !.want = {}, !.forgetting = TRUE,
                            !.forget_ssid = s, !.active = @ \ {s}]
             y == IF gw_ssid_eq(h.ssid, s) THEN [x EXCEPT !.connected = FALSE, !.ssid = NoSsid] ELSE x
  <2>3. f = IF ok THEN start_nmcli(y, "forget", ok) ELSE [y EXCEPT !.forgetting = FALSE]
    <3>1. mark_ap_inactive([abort_job(h, "forget") EXCEPT
            !.join_wait_live = FALSE, !.connecting = FALSE, !.busy = FALSE,
            !.want = {}, !.forgetting = TRUE, !.forget_ssid = s], s) = x
      BY <2>1 DEF mark_ap_inactive, Good, Mid, Hud
    <3> HIDE DEF x, s
    <3> QED BY ONLY <2>2, <3>1, Zenon DEF wifi_forget, f, y
  <2>4. x.job = "none" /\ y.job = "none"
    BY DEF Good, Mid, Hud
  <2>5. y = [x EXCEPT !.connected = con, !.ssid = live]
    BY DEF Good, Mid, Hud
  <2> HIDE DEF y
  <2>6. f = IF ok THEN [y EXCEPT !.job = "forget"] ELSE [y EXCEPT !.forgetting = FALSE]
    BY <2>3, <2>4 DEF start_nmcli
  <2> HIDE DEF con, live, f
  <2>7. CASE ok
    BY <2>5, <2>6, <2>7 DEF Good, Mid, Hud
  <2>8. CASE ~ok
    BY <2>5, <2>6, <2>8 DEF Good, Mid, Hud
  <2> QED BY <2>7, <2>8
<1>3. j \in {"none", "forget"} /\ (j = "forget" <=> ok) /\ con \in BOOLEAN /\ live \in OptSsid /\ live # s
  BY DEF gw_ssid_eq, Good, Mid, Hud, OptSsid
<1> HIDE DEF j, con, live, f
<1>4. k \in Hud
  BY <1>3 DEF Good, Mid, Hud, Job, OptSsid
<1>5. /\ k.job = j /\ k.join_wait_live = FALSE /\ k.connecting = FALSE /\ k.want = {}
      /\ k.forgetting = ok /\ k.forget_ssid = s /\ k.ssid = live /\ s \notin k.active
      /\ k.sheet = "detail" /\ k.shown = h.shown /\ k.selected_ssid = s
  BY DEF Good, Mid, Hud
<1> HIDE DEF k
<1>6. ForgetOK(k) /\ JoinOK(k, l) /\ PskOK(k, l) /\ GoneOK(k) /\ QueueOK(k, l)
  BY <1>3, <1>5 DEF ForgetOK, JoinOK, PskOK, GoneOK, QueueOK
<1> QED BY <1>2, <1>4, <1>5, <1>6 DEF Good, Mid

\* connect_need_pass is set by the two places that start a join, before they do.
LEMMA NeedPassGood ==
  ASSUME NEW l \in BOOLEAN, NEW h, Good(h, l), ~h.forgetting, NEW b \in BOOLEAN,
         b \/ ~h.connecting
  PROVE  LET k == [h EXCEPT !.need_pass = b]
         IN  /\ Good(k, l) /\ k.need_pass = b /\ k.job = h.job /\ k.want = h.want
             /\ k.connecting = h.connecting /\ k.forgetting = h.forgetting
             /\ k.known_psk_ssid = h.known_psk_ssid /\ k.connect_ssid = h.connect_ssid
             /\ k.sheet = h.sheet /\ k.join_wait_live = h.join_wait_live
<1> DEFINE k == [h EXCEPT !.need_pass = b]
<1>1. k \in Hud /\ k.need_pass = b
  BY DEF Good, Mid, Hud
<1>2. /\ k.connecting = h.connecting /\ k.job = h.job /\ k.forget_ssid = h.forget_ssid
      /\ k.forgetting = h.forgetting /\ k.sheet = h.sheet /\ k.active = h.active
      /\ k.connect_ssid = h.connect_ssid /\ k.ssid = h.ssid
      /\ k.join_wait_live = h.join_wait_live
      /\ k.known_psk_ssid = h.known_psk_ssid /\ k.pend_ssid = h.pend_ssid
      /\ k.pend_pass = h.pend_pass /\ k.want = h.want
  BY DEF Good, Mid, Hud
<1> HIDE DEF k
<1>3. ForgetOK(k) /\ JoinOK(k, l) /\ PskOK(k, l) /\ GoneOK(k) /\ QueueOK(k, l)
  BY <1>1, <1>2 DEF Good, Mid, ForgetOK, JoinOK, PskOK, GoneOK, QueueOK
<1>4. Good(k, l)
  BY <1>1, <1>2, <1>3 DEF Good, Mid
<1> QED BY <1>1, <1>2, <1>4 DEF k

LEMMA JoinPickedGood ==
  ASSUME NEW l \in BOOLEAN, NEW h, Good(h, l), NEW ok \in BOOLEAN
  PROVE  Good(wifi_join_picked(h, ok), l)
<1> DEFINE s == h.selected_ssid
           session == gw_join_use_session_psk(s, h.known_psk_ssid)
           allowed == /\ s # NoSsid
                      /\ gw_allow_join(h.connecting, h.forgetting, ap_is_current(h, s))
                      /\ ~PickedEnterprise(h)
           g(b) == [h EXCEPT !.need_pass = b]
<1>1. CASE ~allowed
  BY <1>1 DEF wifi_join_picked
<1>2. CASE allowed
  <2>1. s \in SSID /\ ~h.connecting /\ ~h.forgetting
    BY <1>2 DEF gw_allow_join, Good, Mid, Hud, OptSsid
  <2>2. h.job # "connect" /\ ("connect" \notin h.want \/ l)
    BY <2>1 DEF Good, Mid, JoinOK
  <2>3. ASSUME NEW b \in BOOLEAN, ~b => ~session
        PROVE  Good(wifi_connect(g(b), s, b, ok), l)
    <3>1. /\ Mid(g(b), l) /\ ~g(b).forgetting /\ g(b).job # "connect"
          /\ "connect" \notin g(b).want \/ l
          /\ g(b).need_pass = b /\ g(b).known_psk_ssid = h.known_psk_ssid
      BY <2>1, <2>2, NeedPassGood DEF Good
    <3>2. ~b => h.known_psk_ssid # s
      BY <1>2, <2>3 DEF gw_join_use_session_psk, gw_ssid_eq
    <3> HIDE DEF g, session, s
    <3> QED BY <2>1, <3>1, <3>2, ConnectGood
  <2>4. session \in BOOLEAN
    BY DEF gw_join_use_session_psk, gw_ssid_eq
  <2>5. wifi_join_picked(h, ok) = wifi_connect(g(session), s, session, ok)
    BY <1>2 DEF wifi_join_picked
  <2> HIDE DEF session, g
  <2> QED BY <2>3, <2>4, <2>5
<1> QED BY <1>1, <1>2

\* A password submitted while a join is being confirmed is what sets late.
LEMMA SubmitGood ==
  ASSUME NEW l \in BOOLEAN, NEW h, Good(h, l), NEW long \in BOOLEAN, NEW ok \in BOOLEAN
  PROVE  /\ ~h.join_wait_live => Good(wifi_submit_pass(h, long, ok), l)
         /\ Good(wifi_submit_pass(h, long, ok), l)
              \/ (/\ h.join_wait_live /\ "connect" \in wifi_submit_pass(h, long, ok).want
                  /\ Good(wifi_submit_pass(h, long, ok), TRUE))
<1> DEFINE s == gw_pass_ssid(h.connect_ssid, h.selected_ssid)
           n == [h EXCEPT !.need_pass = TRUE]
           g == [n EXCEPT !.known_psk_ssid = s]
           q == [g EXCEPT !.pend_ssid = s, !.pend_pass = TRUE, !.want = @ \cup {"connect"}]
           k == wifi_submit_pass(h, long, ok)
           Done == IF h.join_wait_live THEN Good(k, TRUE) /\ "connect" \in k.want ELSE Good(k, l)
<1>0. ~h.forgetting => /\ Good(n, l) /\ n.need_pass = TRUE /\ n.job = h.job /\ n.want = h.want
                       /\ n.connecting = h.connecting /\ n.forgetting = h.forgetting
                       /\ n.connect_ssid = h.connect_ssid /\ n.join_wait_live = h.join_wait_live
  <2> SUFFICES ASSUME ~h.forgetting
               PROVE  /\ Good(n, l) /\ n.need_pass = TRUE /\ n.job = h.job /\ n.want = h.want
                      /\ n.connecting = h.connecting /\ n.forgetting = h.forgetting
                      /\ n.connect_ssid = h.connect_ssid /\ n.join_wait_live = h.join_wait_live
    OBVIOUS
  <2>1. ASSUME NEW b \in BOOLEAN, b
        PROVE  Good([h EXCEPT !.need_pass = b], l)
    BY <2>1, NeedPassGood
  <2>2. Good(n, l)
    BY <2>1
  <2>3. /\ n.need_pass = TRUE /\ n.job = h.job /\ n.want = h.want
        /\ n.connecting = h.connecting /\ n.forgetting = h.forgetting
        /\ n.connect_ssid = h.connect_ssid /\ n.join_wait_live = h.join_wait_live
    BY DEF Good, Mid, Hud
  <2> QED BY <2>2, <2>3
<1>1. \/ k = h
      \/ /\ s # NoSsid /\ ~h.forgetting
         /\ \/ h.connecting /\ k = q
            \/ ~h.connecting /\ k = wifi_connect(g, s, TRUE, ok)
  BY DEF wifi_submit_pass, remember_psk
<1> SUFFICES ASSUME s # NoSsid, ~h.forgetting,
                    \/ h.connecting /\ k = q
                    \/ ~h.connecting /\ k = wifi_connect(g, s, TRUE, ok)
             PROVE  Done
  BY <1>1
<1>2. s \in SSID /\ (h.connecting => s = h.connect_ssid) /\ (h.join_wait_live => h.connecting)
  BY DEF gw_pass_ssid, Good, Mid, Hud, OptSsid, JoinOK
<1> HIDE DEF n, k, s
<1>4. g \in Hud /\ g.known_psk_ssid = s
  BY <1>2, <1>0 DEF Good, Mid, Hud, OptSsid
<1>5. /\ g.connecting = n.connecting /\ g.job = n.job /\ g.forget_ssid = n.forget_ssid
      /\ g.forgetting = n.forgetting /\ g.sheet = n.sheet /\ g.active = n.active
      /\ g.connect_ssid = n.connect_ssid /\ g.ssid = n.ssid /\ g.need_pass = n.need_pass
      /\ g.join_wait_live = n.join_wait_live /\ g.pend_ssid = n.pend_ssid
      /\ g.pend_pass = n.pend_pass /\ g.want = n.want
  BY <1>0 DEF Good, Mid, Hud
<1>6. Good(g, l)
  <2> HIDE DEF g
  <2>1. ForgetOK(g) /\ JoinOK(g, l) /\ PskOK(g, l) /\ GoneOK(g) /\ QueueOK(g, l)
    BY <1>0, <1>5 DEF Good, Mid, ForgetOK, JoinOK, PskOK, GoneOK, QueueOK
  <2> QED BY <1>0, <1>4, <1>5, <2>1 DEF Good, Mid
<1>7. CASE h.connecting /\ k = q
  <2> HIDE DEF g
  <2>1. /\ q \in Hud /\ q.pend_ssid = s /\ q.pend_pass = TRUE /\ "connect" \in q.want
    BY <1>2, <1>6 DEF Good, Mid, Hud, OptSsid, Want
  <2>2. /\ q.connecting = g.connecting /\ q.job = g.job /\ q.forget_ssid = g.forget_ssid
        /\ q.forgetting = g.forgetting /\ q.sheet = g.sheet /\ q.active = g.active
        /\ q.connect_ssid = g.connect_ssid /\ q.ssid = g.ssid /\ q.need_pass = g.need_pass
        /\ q.join_wait_live = g.join_wait_live /\ q.known_psk_ssid = g.known_psk_ssid
    BY <1>6 DEF Good, Mid, Hud
  <2> HIDE DEF q
  <2>3. ForgetOK(q) /\ GoneOK(q)
    BY <1>0, <1>5, <1>6, <1>7, <2>2 DEF Good, Mid, ForgetOK, GoneOK
  <2>4. ASSUME NEW m \in BOOLEAN, h.join_wait_live => m
        PROVE  JoinOK(q, m) /\ PskOK(q, m) /\ QueueOK(q, m)
    BY <1>2, <1>0, <1>5, <1>6, <1>7, <2>1, <2>2, <2>4 DEF Good, Mid, JoinOK, PskOK, GoneOK, QueueOK
  <2>5. ASSUME NEW m \in BOOLEAN, h.join_wait_live => m
        PROVE  Good(q, m)
    BY <1>0, <1>5, <1>7, <2>1, <2>2, <2>3, <2>4, <2>5 DEF Good, Mid
  <2> QED BY <1>7, <2>1, <2>5
<1>8. CASE ~h.connecting /\ k = wifi_connect(g, s, TRUE, ok)
  <2>1. /\ g.job # "connect" /\ ("connect" \notin g.want \/ l) /\ ~g.forgetting /\ g.need_pass
        /\ ~h.join_wait_live
    BY <1>2, <1>0, <1>5, <1>6, <1>8 DEF Good, Mid, JoinOK
  <2> HIDE DEF g
  <2> QED BY <1>2, <1>6, <1>8, <2>1, ConnectGood DEF Good
<1> QED BY <1>7, <1>8

LEMMA OnRadioGood ==
  ASSUME NEW l \in BOOLEAN, NEW h, Good(h, l), h.job = "radio"
  PROVE  Good(OnRadio(h), l)
<1>1. ~h.forgetting
  BY DEF Good, Mid, ForgetOK
<1>2. Mid(close_job(h), l) /\ Good(close_job(h), l)
  BY <1>1, CloseGood DEF Good
<1> QED BY <1>2, WantGood, {"info", "scan"} \in SUBSET {"info", "scan", "link"} DEF OnRadio

LEMMA OnInfoGood ==
  ASSUME NEW l \in BOOLEAN, NEW h, Good(h, l), h.job = "info", NEW st
  PROVE  Good(OnInfo(h, st), l)
<1> DEFINE c == close_job(h)
           g == parse_info(c, st)
           w == [g EXCEPT !.want = @ \cup {"link"}]
           q == IF g.connected \/ g.busy \/ g.join_wait_live THEN w ELSE g
<1>1. Mid(c, l) /\ Good(c, l) /\ ~c.forgetting
  BY CloseGood DEF Good, Mid, ForgetOK
<1> HIDE DEF c
<1>2. Mid(g, l) /\ Good(g, l)
  BY <1>1, ParseInfoGood
<1> HIDE DEF g
<1>3. Mid(w, l) /\ Good(w, l)
  BY <1>2, WantGood, {"link"} \in SUBSET {"info", "scan", "link"}
<1> HIDE DEF w
<1>4. Mid(q, l) /\ Good(q, l)
  BY <1>2, <1>3
<1> HIDE DEF q
<1>5. OnInfo(h, st) = maybe_confirm_join(q, FALSE)
  BY DEF OnInfo, q, w, g, c
<1> QED BY <1>4, <1>5, ConfirmGood

LEMMA OnLinkGood ==
  ASSUME NEW l \in BOOLEAN, NEW h, Good(h, l), h.job = "link", NEW s \in OptSsid
  PROVE  Good(OnLink(h, s), l)
<1> DEFINE c == close_job(h)
           a == apply_wifi_ssid(c, s)
           g == maybe_confirm_join(a, FALSE)
           w == [g EXCEPT !.want = @ \cup {"info"}]
<1>1. Mid(c, l) /\ Good(c, l)
  BY CloseGood DEF Good, Mid, ForgetOK
<1> HIDE DEF c
<1>2. Mid(a, l) /\ Good(a, l)
  BY <1>1, ApplyGood
<1> HIDE DEF a
<1>3. Mid(g, l) /\ Good(g, l)
  BY <1>2, ConfirmGood
<1> HIDE DEF g
<1>4. Good(w, l)
  BY <1>3, WantGood, {"info"} \in SUBSET {"info", "scan", "link"}
<1> HIDE DEF w
<1>5. OnLink(h, s) = g \/ OnLink(h, s) = w
  BY DEF OnLink, w, g, a, c
<1> QED BY <1>3, <1>4, <1>5

LEMMA ScanGood ==
  ASSUME NEW l \in BOOLEAN, NEW h, Good(h, l),
         h.job = "scan", NEW aps \in SUBSET SSID, NEW inuse \in SUBSET SSID,
         NEW row \in FirstRow(ScanRows(close_job(h), aps, inuse))
  PROVE  Good(maybe_confirm_join(apply_active_ap(ScanRows(close_job(h), aps, inuse), row), FALSE), l)
<1> DEFINE c == close_job(h)
           b == [c EXCEPT !.aps = aps, !.active = inuse \ {c.forget_ssid}]
           g == sync_selected_ap(b)
           a == apply_wifi_ssid(g, row)
<1>1. Mid(c, l) /\ Good(c, l) /\ ~c.forgetting
  BY CloseGood DEF Good, Mid, ForgetOK
<1>2. ScanRows(close_job(h), aps, inuse) = g
  BY DEF ScanRows
<1> HIDE DEF c
<1>3. /\ b \in Hud /\ SameJoin(c, b) /\ b.aps = aps
      /\ b.sheet = c.sheet /\ b.forget_ssid \notin b.active
  BY <1>1 DEF Mid, Hud, SameJoin
<1> HIDE DEF b
<1>4. Mid(b, l) /\ Good(b, l)
  BY <1>1, <1>3, SheetGood DEF SameJoin, Mid, JoinOK
<1>5. Mid(g, l) /\ Good(g, l)
  BY <1>1, <1>3, <1>4, SyncGood DEF SameJoin
<1> HIDE DEF g
<1>6. row \in OptSsid
  BY <1>2, <1>5 DEF FirstRow, ActiveRows, OptSsid, Mid, Hud
<1>7. Mid(a, l) /\ Good(a, l)
  BY <1>5, <1>6, ApplyGood
<1> HIDE DEF a
<1>8. Good(maybe_confirm_join(a, FALSE), l)
  BY <1>7, ConfirmGood
<1> QED BY <1>2, <1>8 DEF apply_active_ap, a

\* The end of a forget: its job is reaped and nothing joins.
Ended(h, k) ==
  /\ k \in Hud /\ k.job = "none" /\ k.forgetting = FALSE /\ k.connecting = FALSE
  /\ k.join_wait_live = FALSE /\ "connect" \notin k.want
  /\ k.forget_ssid = h.forget_ssid
  /\ k.ssid \in {h.ssid, NoSsid} /\ k.active \subseteq h.active

LEMMA ForgotEnded ==
  ASSUME NEW h, NEW c, Ended(h, c), h.active \subseteq SSID
  PROVE  Ended(h, Forgot(c))
<1> DEFINE f == IF c.forget_ssid # NoSsid THEN c.forget_ssid ELSE c.selected_ssid
           m == mark_ap_inactive(c, f)
           g == ForgetLive(m)
           p == forget_psk(g, g.selected_ssid)
           k == [p EXCEPT !.sheet = "list", !.want = @ \cup {"info", "scan"}]
<1>1. Ended(h, m)
  <2> DEFINE act == IF f = NoSsid THEN {} ELSE c.active \ {f}
  <2>1. act \subseteq h.active /\ act \subseteq SSID
    BY DEF Ended
  <2>2. m = [c EXCEPT !.active = act]
    BY DEF mark_ap_inactive
  <2> HIDE DEF act, m
  <2> QED BY <2>1, <2>2 DEF Ended, Hud
<1> HIDE DEF m
<1>2. Ended(h, g)
  <2> DEFINE d == [m EXCEPT !.connected = FALSE, !.ssid = NoSsid]
  <2>1. g = m \/ g = d
    BY DEF ForgetLive
  <2>2. d \in Hud
    BY <1>1 DEF Ended, Hud, OptSsid
  <2>3. /\ d.job = m.job /\ d.forgetting = m.forgetting /\ d.connecting = m.connecting
        /\ d.join_wait_live = m.join_wait_live /\ d.want = m.want
        /\ d.forget_ssid = m.forget_ssid /\ d.ssid = NoSsid /\ d.active = m.active
    BY <1>1 DEF Ended, Hud
  <2> HIDE DEF d
  <2> QED BY <1>1, <2>1, <2>2, <2>3 DEF Ended
<1> HIDE DEF g
<1>3. Ended(h, p)
  BY <1>2 DEF Ended, forget_psk, Hud, OptSsid
<1> HIDE DEF p
<1>4. k \in Hud /\ k.want = p.want \cup {"info", "scan"}
  BY <1>3 DEF Ended, Hud, Sheet, Want
<1>5. /\ k.job = p.job /\ k.forgetting = p.forgetting /\ k.connecting = p.connecting
      /\ k.join_wait_live = p.join_wait_live
      /\ k.forget_ssid = p.forget_ssid /\ k.ssid = p.ssid /\ k.active = p.active
  BY <1>3 DEF Ended, Hud
<1>6. Forgot(c) = k
  BY DEF Forgot, p, g, m
<1> HIDE DEF k
<1> QED BY <1>3, <1>4, <1>5, <1>6 DEF Ended

LEMMA OnForgetGood ==
  ASSUME NEW l \in BOOLEAN, NEW h, Good(h, l), h.job = "forget", NEW rc
  PROVE  Mid(OnForget(h, rc), l) /\ Good(OnForget(h, rc), l)
<1> DEFINE c == [h EXCEPT !.job = "none", !.forgetting = FALSE]
           e == [c EXCEPT !.sheet = "detail"]
           k == OnForget(h, rc)
<1>1. /\ h \in Hud /\ h.forgetting /\ h.connecting = FALSE /\ "connect" \notin h.want
      /\ h.join_wait_live = FALSE
  BY DEF Good, Mid, Hud, ForgetOK, JoinOK
<1>2. k = e \/ k = Forgot(c)
  <2>1. [close_job(h) EXCEPT !.forgetting = FALSE] = c
    BY <1>1 DEF close_job, Hud
  <2> HIDE DEF c
  <2> QED BY <2>1 DEF OnForget
<1>3. Ended(h, c) /\ Ended(h, e)
  BY <1>1 DEF Ended, Hud, Sheet, Job
<1> HIDE DEF c, e, k
<1>4. Ended(h, k)
  BY <1>1, <1>2, <1>3, ForgotEnded DEF Hud
<1>5. ForgetOK(k) /\ JoinOK(k, l) /\ PskOK(k, l) /\ GoneOK(k) /\ QueueOK(k, l)
  BY <1>1, <1>4 DEF Ended, Good, Mid, ForgetOK, JoinOK, PskOK, GoneOK, QueueOK
<1>6. Mid(k, l) /\ Good(k, l)
  BY <1>4, <1>5 DEF Ended, Mid, Good
<1> QED BY <1>6 DEF k

\* The connect script has answered: between the end of the job and its handling.
Reaped(h, g, l) ==
  /\ Mid(g, l) /\ g.job = "none" /\ g.forgetting = FALSE /\ g.connecting = FALSE
  /\ g.join_wait_live = FALSE /\ g.forget_ssid = NoSsid
  /\ g.connect_ssid # NoSsid
  /\ l \/ g.need_pass \/ g.known_psk_ssid # g.connect_ssid

LEMMA AnsweredGood ==
  ASSUME NEW l \in BOOLEAN, NEW h, NEW g, Reaped(h, g, l)
  PROVE  Mid(JoinAnswered(g), l) /\ JoinAnswered(g).job = "none"
<1> DEFINE w == (IF gw_drop_pending(TRUE, g.connect_ssid, g.pend_ssid)
                 THEN g.want \ {"connect"} ELSE g.want) \cup {"info", "link"}
           s == IF g.sheet = "pass" THEN "detail" ELSE g.sheet
           k == [g EXCEPT !.join_wait_live = TRUE, !.connecting = TRUE, !.busy = TRUE,
                          !.want = w, !.sheet = s]
<1>1. w \subseteq Want /\ ("connect" \in w => "connect" \in g.want /\ l)
  BY DEF Reaped, Mid, QueueOK, Hud, Want, gw_drop_pending, gw_ssid_eq
<1>2. s \in Sheet /\ s # "pass"
  BY DEF Reaped, Mid, Hud, Sheet
<1>3. JoinAnswered(g) = maybe_confirm_join(k, FALSE)
  BY DEF JoinAnswered
<1> HIDE DEF w, s
<1>4. k \in Hud /\ k.join_wait_live = TRUE /\ k.connecting = TRUE /\ k.want = w /\ k.sheet = s
  BY <1>1, <1>2 DEF Reaped, Mid, Hud
<1>5. /\ k.job = g.job /\ k.forgetting = g.forgetting /\ k.forget_ssid = g.forget_ssid
      /\ k.connect_ssid = g.connect_ssid /\ k.need_pass = g.need_pass
      /\ k.known_psk_ssid = g.known_psk_ssid
      /\ k.pend_ssid = g.pend_ssid /\ k.pend_pass = g.pend_pass
  BY DEF Reaped, Mid, Hud
<1> HIDE DEF k
<1>6. ForgetOK(k) /\ JoinOK(k, l) /\ PskOK(k, l) /\ GoneOK(k) /\ QueueOK(k, l)
  BY <1>1, <1>2, <1>4, <1>5 DEF Reaped, Mid, ForgetOK, JoinOK, PskOK, GoneOK, QueueOK
<1>7. Mid(k, l) /\ k.job = "none"
  BY <1>4, <1>5, <1>6 DEF Mid, Reaped
<1> QED BY <1>3, <1>7, ConfirmGood

LEMMA AskGood ==
  ASSUME NEW l \in BOOLEAN, NEW h, NEW g, Reaped(h, g, l)
  PROVE  LET f == forget_psk(g, g.connect_ssid)
         IN  /\ Mid(AskPassword(g), l) /\ AskPassword(g).job = "none"
             /\ Mid(AskPassword(f), l) /\ AskPassword(f).job = "none"
<1>1. ASSUME NEW x, Mid(x, l), ~x.forgetting, ~x.join_wait_live, x.job = "none"
      PROVE  Mid(AskPassword(x), l) /\ AskPassword(x).job = "none"
  <2> DEFINE s == IF x.connect_ssid # NoSsid THEN x.connect_ssid ELSE x.selected_ssid
             y == [x EXCEPT !.selected_ssid = s]
             z == sync_selected_ap(y)
  <2>1. /\ y \in Hud /\ SameJoin(x, y) /\ y.active = x.active /\ y.sheet = x.sheet
    BY <1>1 DEF Mid, Hud, SameJoin
  <2>2. AskPassword(x) = [z EXCEPT !.sheet = "pass"]
    BY DEF AskPassword
  <2> HIDE DEF y
  <2>3. Mid(y, l)
    BY <1>1, <2>1, SheetGood DEF SameJoin, Mid, GoneOK
  <2>4. Mid(z, l) /\ SameJoin(y, z)
    BY <1>1, <2>1, <2>3, SyncGood DEF SameJoin
  <2> HIDE DEF z
  <2>5. ~z.forgetting /\ ~z.join_wait_live /\ "pass" \in Sheet
    BY <1>1, <2>1, <2>4 DEF SameJoin, Sheet
  <2>6. z.job = "none"
    BY <1>1, <2>1, <2>4 DEF SameJoin
  <2> QED BY <2>2, <2>4, <2>5, <2>6, ToSheetGood DEF SameJoin
<1> DEFINE f == forget_psk(g, g.connect_ssid)
<1>2. Mid(f, l) /\ ~f.forgetting /\ ~f.join_wait_live /\ f.job = "none"
  <2> DEFINE d == [g EXCEPT !.known_psk_ssid = NoSsid]
  <2>1. f = g \/ f = d
    BY DEF forget_psk
  <2>2. d \in Hud
    BY DEF Reaped, Mid, Hud, OptSsid
  <2>3. /\ d.connecting = g.connecting /\ d.job = g.job /\ d.forget_ssid = g.forget_ssid
        /\ d.forgetting = g.forgetting /\ d.sheet = g.sheet /\ d.active = g.active
        /\ d.connect_ssid = g.connect_ssid /\ d.ssid = g.ssid /\ d.need_pass = g.need_pass
        /\ d.join_wait_live = g.join_wait_live /\ d.pend_ssid = g.pend_ssid
        /\ d.pend_pass = g.pend_pass /\ d.want = g.want
    BY DEF Reaped, Mid, Hud
  <2> HIDE DEF d
  <2>4. ForgetOK(d) /\ JoinOK(d, l) /\ PskOK(d, l) /\ GoneOK(d) /\ QueueOK(d, l)
    BY <2>3 DEF Reaped, Mid, ForgetOK, JoinOK, PskOK, GoneOK, QueueOK
  <2>5. Mid(d, l) /\ ~d.forgetting /\ ~d.join_wait_live /\ d.job = "none"
    BY <2>2, <2>3, <2>4 DEF Mid, Reaped
  <2> HIDE DEF f
  <2> QED BY <2>1, <2>5 DEF Reaped
<1> HIDE DEF f
<1>3. Mid(AskPassword(f), l) /\ AskPassword(f).job = "none"
  BY <1>1, <1>2
<1> QED BY <1>1, <1>3 DEF Reaped, f

\* RETRY_PSK, which only an overtaking password can meet, starts the script again.
LEMMA RetriedGood ==
  ASSUME NEW l \in BOOLEAN, l, NEW h, NEW g, Reaped(h, g, l), NEW ok \in BOOLEAN
  PROVE  Good(JoinRetried(g, ok), l)
<1> DEFINE d == [g EXCEPT !.want = @ \ {"connect"}]
<1>1. "connect" \in Want /\ Mid(g, l)
  BY DEF Want, Reaped
<1>2. Mid(d, l) /\ d.job = g.job /\ d.forgetting = g.forgetting
  BY <1>1, DropGood
<1>3. [g EXCEPT !.want = g.want] = g
  BY <1>1 DEF Mid, Hud
<1>4. \/ JoinRetried(g, ok) = wifi_connect(g, g.connect_ssid, TRUE, ok)
      \/ JoinRetried(g, ok) = wifi_connect(d, g.connect_ssid, TRUE, ok)
  BY <1>3 DEF JoinRetried
<1>5. g.connect_ssid \in SSID
  BY DEF Reaped, Mid, Hud, OptSsid
<1> HIDE DEF d
<1>6. ASSUME NEW x \in {g, d}
      PROVE  Good(wifi_connect(x, g.connect_ssid, TRUE, ok), l)
  <2>1. Mid(x, l) /\ x.job = "none" /\ ~x.forgetting
    BY <1>1, <1>2 DEF Reaped
  <2> QED BY <1>5, <2>1, ConnectGood
<1> QED BY <1>4, <1>6

\* PskOK contradicts the condition of RETRY_PSK unless late lifts it.
LEMMA OnConnectOutcomes ==
  ASSUME NEW l \in BOOLEAN, NEW h, Good(h, l), h.job = "connect", NEW rc, NEW text,
         NEW ok \in BOOLEAN
  PROVE  LET g == [h EXCEPT !.job = "none", !.connecting = FALSE, !.busy = FALSE]
         IN  /\ Reaped(h, g, l)
             /\ \/ OnConnect(h, rc, text, ok) \in
                     {JoinAnswered(g), AskPassword(forget_psk(g, g.connect_ssid)),
                      AskPassword(g), g, JoinFailed(g)}
                \/ l /\ OnConnect(h, rc, text, ok) = JoinRetried(g, ok)
<1> DEFINE act == gw_on_connect_job(ConnectIn(h, rc, text))
           g == [h EXCEPT !.job = "none", !.connecting = FALSE, !.busy = FALSE]
           k == OnConnect(h, rc, text, ok)
<1>1. h.connecting /\ ~h.join_wait_live /\ ~h.forgetting /\ h.forget_ssid = NoSsid
  BY DEF Good, Mid, JoinOK, ForgetOK, GoneOK
<1>2. act \in ConnectAct /\ (act = "retry_psk" => l)
  <2>1. l \/ ~(~h.need_pass /\ gw_join_use_session_psk(h.connect_ssid, h.known_psk_ssid))
    BY <1>1 DEF Good, Mid, PskOK, gw_join_use_session_psk, gw_ssid_eq
  <2>2. /\ ConnectIn(h, rc, text).used_pass = h.need_pass
        /\ ConnectIn(h, rc, text).have_session_psk
              = gw_join_use_session_psk(h.connect_ssid, h.known_psk_ssid)
    BY DEF ConnectIn
  <2> QED BY <2>1, <2>2, Zenon DEF gw_on_connect_job, ConnectAct
<1>3. Reaped(h, g, l)
  <2>1. /\ g \in Hud /\ g.job = "none" /\ g.connecting = FALSE
    BY DEF Good, Mid, Hud, Job
  <2>2. /\ g.forgetting = h.forgetting /\ g.forget_ssid = h.forget_ssid
        /\ g.connect_ssid = h.connect_ssid /\ g.need_pass = h.need_pass
        /\ g.known_psk_ssid = h.known_psk_ssid /\ g.pend_ssid = h.pend_ssid
        /\ g.pend_pass = h.pend_pass /\ g.want = h.want
        /\ g.join_wait_live = h.join_wait_live
    BY DEF Good, Mid, Hud
  <2>3. h.forgetting = FALSE /\ h.join_wait_live = FALSE
    BY <1>1 DEF Good, Mid, Hud
  <2> HIDE DEF g
  <2>4. ForgetOK(g) /\ JoinOK(g, l) /\ PskOK(g, l) /\ GoneOK(g) /\ QueueOK(g, l)
    BY <1>1, <2>1, <2>2 DEF Good, Mid, ForgetOK, JoinOK, PskOK, GoneOK, QueueOK
  <2> QED BY <1>1, <2>1, <2>2, <2>3, <2>4 DEF Reaped, Mid, Good, JoinOK, PskOK
<1>4. [close_job(h) EXCEPT !.connecting = FALSE, !.busy = FALSE] = g
  BY DEF close_job, Good, Mid, Hud
<1>5. \/ k \in {JoinAnswered(g), AskPassword(forget_psk(g, g.connect_ssid)), AskPassword(g), g, JoinFailed(g)}
      \/ act = "retry_psk" /\ k = JoinRetried(g, ok)
  <2> HIDE DEF act, g
  <2>1. k = CASE act = "success"      -> JoinAnswered(g)
              [] act = "retry_psk"    -> JoinRetried(g, ok)
              [] act = "wrong_pass"   -> AskPassword(forget_psk(g, g.connect_ssid))
              [] act = "open_pass"    -> AskPassword(g)
              [] act = "wait_pending" -> g
              [] act = "fail"         -> JoinFailed(g)
    BY <1>4, Zenon DEF OnConnect, act
  <2>2. act \in ConnectAct
    BY <1>2
  <2> HIDE DEF k
  <2> QED BY <2>1, <2>2 DEF ConnectAct
<1> QED BY <1>2, <1>3, <1>5

LEMMA OnConnectGood ==
  ASSUME NEW l \in BOOLEAN, NEW h, Good(h, l), h.job = "connect", NEW rc, NEW text,
         NEW ok \in BOOLEAN
  PROVE  LET k == OnConnect(h, rc, text, ok)
         IN  Mid(k, l) /\ (k.job # "none" => Good(k, l))
<1> DEFINE g == [h EXCEPT !.job = "none", !.connecting = FALSE, !.busy = FALSE]
           k == OnConnect(h, rc, text, ok)
<1>1. Reaped(h, g, l)
  BY OnConnectOutcomes, Zenon
<1>2. \/ k \in {JoinAnswered(g), AskPassword(forget_psk(g, g.connect_ssid)), AskPassword(g), g, JoinFailed(g)}
      \/ l /\ k = JoinRetried(g, ok)
  BY OnConnectOutcomes, Zenon
<1> HIDE DEF g
<1>3. Mid(JoinFailed(g), l) /\ JoinFailed(g).job = "none"
  <2> DEFINE s == IF g.sheet = "none" THEN "none" ELSE IF g.need_pass THEN "pass" ELSE "detail"
  <2>1. JoinFailed(g) = [g EXCEPT !.sheet = s]
    BY DEF JoinFailed
  <2>2. s \in Sheet
    BY DEF Sheet
  <2> HIDE DEF s
  <2> QED BY <1>1, <2>1, <2>2, ToSheetGood DEF Reaped, SameJoin
<1>4. l => Good(JoinRetried(g, ok), l)
  BY <1>1, RetriedGood
<1>5. Mid(k, l) /\ (k.job # "none" => Good(k, l))
  <2> DEFINE Fine(x) == Mid(x, l) /\ (x.job # "none" => Good(x, l))
  <2>1. Fine(JoinAnswered(g))
    BY <1>1, AnsweredGood
  <2>2. Fine(AskPassword(g)) /\ Fine(AskPassword(forget_psk(g, g.connect_ssid)))
    BY <1>1, AskGood
  <2>3. Fine(g) /\ Fine(JoinFailed(g))
    BY <1>1, <1>3 DEF Reaped
  <2>4. l => Fine(JoinRetried(g, ok))
    BY <1>4 DEF Good
  <2> HIDE DEF k, Fine
  <2>5. Fine(k)
    BY <1>2, <2>1, <2>2, <2>3, <2>4, Zenon
  <2> QED BY <2>5 DEF Fine
<1> QED BY <1>5 DEF k

-----------------------------------------------------------------------------
(* The actions *)

LEMMA SettleGood ==
  ASSUME late \in BOOLEAN, NEW states, \A h \in states : Good(h, late), Settle(states)
  PROVE  Good(hud', late)
<1>1. PICK h \in states, t \in BOOLEAN :
        \/ hud' = maybe_confirm_join(h, t)
        \/ hud' = [maybe_confirm_join(h, t) EXCEPT !.shown = maybe_confirm_join(h, t).sheet # "none"]
  BY DEF Settle
<1> DEFINE g == maybe_confirm_join(h, t)
           b == g.sheet # "none"
           k == [g EXCEPT !.shown = b]
<1>2. Good(g, late)
  BY ConfirmGood DEF Good
<1>3. hud' = g \/ hud' = k
  BY <1>1
<1> HIDE DEF g
<1>4. b \in BOOLEAN /\ (g.sheet = "detail" => b)
  OBVIOUS
<1> HIDE DEF b
<1>5. k \in Hud /\ k.shown = b
  BY <1>2, <1>4 DEF Good, Mid, Hud
<1>6. /\ k.connecting = g.connecting /\ k.job = g.job /\ k.forget_ssid = g.forget_ssid
      /\ k.forgetting = g.forgetting /\ k.sheet = g.sheet /\ k.active = g.active
      /\ k.connect_ssid = g.connect_ssid /\ k.ssid = g.ssid /\ k.need_pass = g.need_pass
      /\ k.join_wait_live = g.join_wait_live /\ k.pend_ssid = g.pend_ssid
      /\ k.pend_pass = g.pend_pass /\ k.want = g.want /\ k.selected_ssid = g.selected_ssid
      /\ k.known_psk_ssid = g.known_psk_ssid
  BY <1>2 DEF Good, Mid, Hud
<1> HIDE DEF k
<1>7. ForgetOK(k) /\ JoinOK(k, late) /\ PskOK(k, late) /\ GoneOK(k) /\ QueueOK(k, late)
  BY <1>2, <1>4, <1>5, <1>6 DEF Good, Mid, ForgetOK, JoinOK, PskOK, GoneOK, QueueOK
<1>8. Good(k, late)
  BY <1>2, <1>5, <1>6, <1>7 DEF Good, Mid
<1> QED BY <1>2, <1>3, <1>8

LEMMA ReapGood ==
  ASSUME late \in BOOLEAN, NEW kind, NEW h, Mid(h, late), h.job # "none" => Good(h, late), Reap(kind, h)
  PROVE  Good(hud', late)
<1> DEFINE states == {kick_pending(h, ok) : ok \in Starts}
<1>1. \A k \in states : Good(k, late)
  BY KickGood, HudAssumption DEF HudAssumption
<1>2. Settle(states)
  BY DEF Reap
<1> HIDE DEF states
<1> QED BY <1>1, <1>2, SettleGood

LEMMA PollGood ==
  ASSUME late \in BOOLEAN, Good(hud, late), PollNothing \/ PollJob
  PROVE  Good(hud', late)
<1>1. CASE PollNothing
  <2>1. \A h \in {hud} : Good(h, late)
    OBVIOUS
  <2> QED BY <1>1, <2>1, SettleGood DEF PollNothing
<1>2. CASE PollRadio
  BY <1>2, OnRadioGood, ReapGood DEF PollRadio, Reap, Good
<1>3. CASE PollInfo
  <2> PICK st : Reap("info", OnInfo(hud, st))
    BY <1>3 DEF PollInfo
  <2> QED BY OnInfoGood, ReapGood DEF Reap, Good
<1>4. CASE PollLink
  <2> PICK s \in OptSsid : Reap("link", OnLink(hud, s))
    BY <1>4 DEF PollLink
  <2> QED BY OnLinkGood, ReapGood DEF Reap, Good
<1>5. CASE PollForget
  <2> PICK rc : Reap("forget", OnForget(hud, rc))
    BY <1>5 DEF PollForget
  <2> QED BY OnForgetGood, ReapGood DEF Reap, Good
<1>6. CASE PollConnect
  <2> PICK a \in ScriptAnswers, ok \in Starts : Reap("connect", OnConnect(hud, a[1], a[2], ok))
    BY <1>6 DEF PollConnect
  <2>1. ok \in BOOLEAN
    BY HudAssumption DEF HudAssumption
  <2> QED BY <2>1, OnConnectGood, ReapGood DEF Reap
<1>7. CASE PollScan
  <2> PICK aps \in SUBSET SSID : \E inuse \in {{}} \cup {{s} : s \in aps} :
        \E row \in FirstRow(ScanRows(close_job(hud), aps, inuse)) :
          Reap("scan", maybe_confirm_join(apply_active_ap(ScanRows(close_job(hud), aps, inuse), row), FALSE))
    BY <1>7 DEF PollScan
  <2> PICK inuse \in {{}} \cup {{s} : s \in aps} :
        \E row \in FirstRow(ScanRows(close_job(hud), aps, inuse)) :
          Reap("scan", maybe_confirm_join(apply_active_ap(ScanRows(close_job(hud), aps, inuse), row), FALSE))
    OBVIOUS
  <2> PICK row \in FirstRow(ScanRows(close_job(hud), aps, inuse)) :
        Reap("scan", maybe_confirm_join(apply_active_ap(ScanRows(close_job(hud), aps, inuse), row), FALSE))
    OBVIOUS
  <2>1. inuse \in SUBSET SSID
    OBVIOUS
  <2>2. Good(maybe_confirm_join(apply_active_ap(ScanRows(close_job(hud), aps, inuse), row), FALSE), late)
    BY <2>1, ScanGood DEF Reap
  <2> QED BY <2>2, ReapGood DEF Good
<1> QED BY <1>1, <1>2, <1>3, <1>4, <1>5, <1>6, <1>7 DEF PollJob

LEMMA KickStepGood ==
  ASSUME late \in BOOLEAN, Good(hud, late), Kick
  PROVE  Good(hud', late)
<1>1. PICK row \in {NoSsid} \cup FirstRow(hud), ok \in Starts :
        LET g == kick_pending(apply_active_ap(hud, row), ok)
        IN  \/ hud' = g
            \/ hud' \in {wifi_info(g, on) : on \in Starts} \cup {wifi_scan(g, on) : on \in Starts}
  BY DEF Kick
<1> DEFINE a == apply_wifi_ssid(hud, row)
           g == kick_pending(a, ok)
<1>2. row \in OptSsid /\ Starts \subseteq BOOLEAN
  BY HudAssumption DEF FirstRow, ActiveRows, OptSsid, Good, Mid, Hud, HudAssumption
<1>3. Good(a, late)
  BY <1>2, ApplyGood DEF Good
<1> HIDE DEF a
<1>4. Good(g, late)
  BY <1>2, <1>3, KickGood DEF Good
<1>5. \/ hud' = g
      \/ \E on \in Starts : hud' = wifi_info(g, on) \/ hud' = wifi_scan(g, on)
  BY <1>1 DEF apply_active_ap, g, a
<1> HIDE DEF g
<1>6. ASSUME NEW on \in Starts
      PROVE  Good(wifi_info(g, on), late) /\ Good(wifi_scan(g, on), late)
  BY <1>2, <1>4, StartOrWantGood DEF Good, wifi_info, wifi_scan
<1> QED BY <1>4, <1>5, <1>6

LEMMA TapGood ==
  ASSUME late \in BOOLEAN, Good(hud, late), UserTap, ~osk_on_up
  PROVE  Good(hud', late)
<1>0. Mid(hud, late) /\ hud \in Hud /\ Starts \subseteq BOOLEAN
  BY HudAssumption DEF Good, Mid, HudAssumption
<1>1. hud.forgetting => hud.sheet = "detail" /\ hud.shown
  BY DEF Good, Mid, ForgetOK
<1>2. ASSUME NEW s \in Sheet, hud.join_wait_live => s # "pass", ~hud.forgetting
      PROVE  Mid([hud EXCEPT !.sheet = s], late) /\ Good([hud EXCEPT !.sheet = s], late)
  BY <1>0, <1>2, ToSheetGood
<1>3. CASE TapHome
  <2> DEFINE g == [hud EXCEPT !.sheet = "list"]
  <2>1. Mid(g, late) /\ Good(g, late)
    BY <1>1, <1>2, <1>3 DEF TapHome, Sheet
  <2>2. PICK ok \in Starts : hud' = IF g.aps = {} THEN wifi_scan(g, ok) ELSE g
    BY <1>3 DEF TapHome, Tap
  <2> HIDE DEF g
  <2>3. Good(wifi_scan(g, ok), late)
    BY <1>0, <2>1, StartOrWantGood DEF wifi_scan
  <2> QED BY <2>1, <2>2, <2>3
<1>4. CASE TapListClose
  <2>1. Good([hud EXCEPT !.sheet = "none"], late)
    BY <1>1, <1>2, <1>4 DEF TapListClose, OnSheet, Sheet
  <2> QED BY <1>4, <2>1 DEF TapListClose, Tap
<1>5. CASE TapListRefresh
  BY <1>0, <1>5, StartOrWantGood DEF TapListRefresh, Tap, wifi_scan
<1>6. CASE TapListRow
  <2>1. PICK s \in hud.aps :
          LET g == select_ap_idx(hud, s)
          IN  hud' = IF g.connecting \/ g.forgetting THEN g ELSE [g EXCEPT !.sheet = "detail"]
    BY <1>6 DEF TapListRow, Tap
  <2> DEFINE g == [hud EXCEPT !.selected_ssid = s, !.sec = s]
  <2>2. ~hud.forgetting /\ hud.sheet = "list"
    BY <1>1, <1>6 DEF TapListRow, OnSheet
  <2>3. /\ g \in Hud /\ SameJoin(hud, g) /\ g.active = hud.active /\ g.sheet = "list"
    BY <1>0, <2>2 DEF Hud, OptSsid, SameJoin
  <2>4. hud' = g \/ hud' = [g EXCEPT !.sheet = "detail"]
    BY <2>1 DEF select_ap_idx
  <2> HIDE DEF g
  <2>5. Mid(g, late) /\ Good(g, late)
    BY <1>0, <2>2, <2>3, SheetGood DEF SameJoin, Mid, GoneOK
  <2>6. Good([g EXCEPT !.sheet = "detail"], late)
    BY <2>2, <2>3, <2>5, ToSheetGood DEF SameJoin, Sheet
  <2> QED BY <2>4, <2>5, <2>6
<1>7. CASE TapDetailBack
  <2>1. Good([hud EXCEPT !.sheet = "list"], late)
    BY <1>2, <1>7 DEF TapDetailBack, Sheet
  <2> QED BY <1>7, <2>1 DEF TapDetailBack, Tap
<1>8. CASE TapDetailJoin
  BY <1>0, <1>8, JoinPickedGood DEF TapDetailJoin, Tap
<1>9. CASE TapDetailForget
  BY <1>0, <1>9, ForgetGood DEF TapDetailForget, Tap, OnSheet
<1>10. CASE TapPassBack
  <2>1. Good([hud EXCEPT !.sheet = "detail"], late) /\ Good([hud EXCEPT !.sheet = "list"], late)
    BY <1>1, <1>2, <1>10 DEF TapPassBack, OnSheet, Sheet
  <2> QED BY <1>10, <2>1 DEF TapPassBack, Tap
<1>11. CASE TapPassJoin
  <2>1. ~hud.join_wait_live
    BY <1>0, <1>11 DEF TapPassJoin, OnSheet, Mid, JoinOK
  <2> QED BY <1>0, <1>11, <2>1, SubmitGood DEF TapPassJoin, Tap
<1>12. CASE osk_on_down
  BY <1>12 DEF osk_on_down
<1> QED BY <1>3, <1>4, <1>5, <1>6, <1>7, <1>8, <1>9, <1>10, <1>11, <1>12 DEF UserTap

\* The key of a held finger; what it does to a confirmation is what late remembers.
LEMMA KeyGood ==
  ASSUME late \in BOOLEAN, Good(hud, late), osk_on_up
  PROVE  Good(hud', late \/ (hud.join_wait_live /\ "connect" \in hud'.want))
<1> DEFINE key == hud.join_wait_live /\ "connect" \in hud'.want
<1>1. CASE hud' = hud
  <2>1. hud.join_wait_live /\ "connect" \in hud.want => late
    BY DEF Good, Mid, JoinOK
  <2>2. (late \/ key) <=> late
    BY <1>1, <2>1
  <2> QED BY <1>1, <2>2 DEF Good, Mid, JoinOK, PskOK, QueueOK
<1>2. CASE hud' # hud
  <2>1. PICK long \in BOOLEAN, ok \in Starts : hud' = wifi_submit_pass(hud, long, ok)
    BY <1>2 DEF osk_on_up
  <2>2. ok \in BOOLEAN
    BY HudAssumption DEF HudAssumption
  <2>3. /\ ~hud.join_wait_live => Good(hud', late)
        /\ Good(hud', late) \/ (key /\ Good(hud', TRUE))
    BY <2>1, <2>2, SubmitGood
  <2> HIDE DEF key
  <2>4. Good(hud', late) => Good(hud', late \/ key)
    BY DEF Good, Mid, JoinOK, PskOK, QueueOK
  <2>5. key /\ Good(hud', TRUE) => Good(hud', late \/ key)
    BY DEF Good, Mid, JoinOK, PskOK, QueueOK
  <2> QED BY <2>3, <2>4, <2>5 DEF key
<1> QED BY <1>1, <1>2

\* With nothing pending, late allows nothing.
LEMMA LateCleared ==
  ASSUME NEW l \in BOOLEAN, NEW h, Good(h, l)
  PROVE  Good(h, l /\ Pending(h))
<1>1. CASE Pending(h)
  BY <1>1 DEF Good, Mid, JoinOK, PskOK, QueueOK
<1>2. CASE ~Pending(h)
  BY <1>2 DEF Pending, Good, Mid, JoinOK, PskOK, QueueOK
<1> QED BY <1>1, <1>2

-----------------------------------------------------------------------------
(* The theorems *)

Inv ==
  /\ Good(hud, late)
  /\ pc \in {"input", "draw"} /\ osk_held \in BOOLEAN
  /\ late \in BOOLEAN /\ (late => Pending(hud))

LEMMA InitGood ==
  ASSUME Init
  PROVE  Inv
<1> DEFINE r == [sheet |-> "none", shown |-> FALSE,
                 connected |-> FALSE, busy |-> FALSE, ssid |-> NoSsid,
                 aps |-> {}, active |-> {}, selected_ssid |-> NoSsid, sec |-> NoSsid,
                 connecting |-> FALSE, need_pass |-> FALSE,
                 connect_ssid |-> NoSsid, known_psk_ssid |-> NoSsid,
                 join_wait_live |-> FALSE, forgetting |-> FALSE, forget_ssid |-> NoSsid,
                 job |-> "none", want |-> {}, pend_ssid |-> NoSsid, pend_pass |-> FALSE]
<1>1. r \in Hud
  BY DEF Hud, OptSsid, Sheet, Job, Want
<1>2. Good(r, FALSE)
  BY <1>1 DEF Good, Mid, ForgetOK, JoinOK, PskOK, GoneOK, QueueOK
<1>3. PICK ok \in Starts : hud = wifi_radio(r, ok)
  BY DEF Init
<1> HIDE DEF r
<1>4. ok \in BOOLEAN
  BY HudAssumption DEF HudAssumption
<1>5. Good(hud, FALSE)
  BY <1>2, <1>3, <1>4, StartOrWantGood DEF wifi_radio, Good
<1> QED BY <1>5 DEF Inv, Init

\* What a step leaves of the rest: only a key can set late.
LEMMA Frame ==
  ASSUME Inv, Next, ~osk_on_up
  PROVE  /\ pc' \in {"input", "draw"} /\ osk_held' \in BOOLEAN
         /\ StillLate \/ (late' = late /\ hud' = hud)
<1>0. pc \in {"input", "draw"} /\ osk_held \in BOOLEAN
  BY DEF Inv
<1>1. ASSUME NEW states, Settle(states)
      PROVE  pc' = "draw" /\ osk_held' = osk_held /\ StillLate
  BY <1>1 DEF Settle
<1>2. ASSUME NEW h, Tap(h)
      PROVE  pc' = pc /\ osk_held' = osk_held /\ StillLate
  BY <1>2 DEF Tap
<1>3. CASE PollNothing \/ PollJob
  <2>1. PollRadio \/ PollInfo \/ PollScan \/ PollLink \/ PollConnect \/ PollForget
          => \E kind, h : Reap(kind, h)
    BY Zenon DEF PollRadio, PollInfo, PollScan, PollLink, PollConnect, PollForget
  <2>2. \E states : Settle(states)
    BY <1>3, <2>1 DEF PollNothing, PollJob, Reap
  <2> QED BY <1>0, <1>1, <2>2
<1>4. CASE Kick
  BY <1>0, <1>4 DEF Kick
<1>5. CASE osk_on_down
  BY <1>0, <1>5 DEF osk_on_down
<1>6. CASE UserTap /\ ~osk_on_down
  <2>1. CASE TapHome \/ TapListClose \/ TapListRefresh
    BY <1>0, <1>2, <2>1, Zenon DEF TapHome, TapListClose, TapListRefresh
  <2>2. CASE TapListRow
    BY <1>0, <1>2, <2>2, Zenon DEF TapListRow
  <2>3. CASE TapDetailBack \/ TapDetailJoin \/ TapDetailForget
    BY <1>0, <1>2, <2>3, Zenon DEF TapDetailBack, TapDetailJoin, TapDetailForget
  <2>4. CASE TapPassBack \/ TapPassJoin
    BY <1>0, <1>2, <2>4, Zenon DEF TapPassBack, TapPassJoin
  <2> QED BY <1>6, <2>1, <2>2, <2>3, <2>4 DEF UserTap
<1> QED BY <1>3, <1>4, <1>5, <1>6 DEF Next

LEMMA NextGood ==
  ASSUME Inv, [Next]_vars
  PROVE  Inv'
<1>0. Good(hud, late) /\ late \in BOOLEAN
  BY DEF Inv
<1>1. CASE UNCHANGED vars
  BY <1>1 DEF Inv, vars, Pending, Good, Mid, ForgetOK, JoinOK, PskOK, GoneOK, QueueOK
<1>2. CASE Next /\ ~osk_on_up
  <2>1. /\ pc' \in {"input", "draw"} /\ osk_held' \in BOOLEAN
        /\ StillLate \/ (late' = late /\ hud' = hud)
    BY <1>2, Frame
  <2>2. Good(hud', late)
    BY <1>0, <1>2, PollGood, KickStepGood, TapGood DEF Next
  <2>3. CASE late' = late /\ hud' = hud
    <3>1. Good(hud', late')
      BY <2>2, <2>3 DEF Good, Mid, JoinOK, PskOK, QueueOK
    <3> QED BY <1>0, <2>1, <2>3, <3>1 DEF Inv, Pending
  <2>4. CASE StillLate
    <3>1. Good(hud', late /\ Pending(hud'))
      BY <1>0, <2>2, LateCleared
    <3>2. Good(hud', late')
      BY <2>4, <3>1 DEF StillLate
    <3> QED BY <1>0, <2>1, <2>4, <3>2 DEF Inv, StillLate
  <2> QED BY <2>1, <2>3, <2>4
<1>3. CASE osk_on_up
  <2> DEFINE l == late \/ (hud.join_wait_live /\ "connect" \in hud'.want)
  <2>1. Good(hud', l) /\ l \in BOOLEAN
    BY <1>0, <1>3, KeyGood
  <2> HIDE DEF l
  <2>2. Good(hud', l /\ Pending(hud'))
    BY <2>1, LateCleared
  <2>3. late' = (l /\ Pending(hud')) /\ osk_held' \in BOOLEAN /\ pc' = pc
    BY <1>3 DEF osk_on_up, l
  <2>4. Good(hud', late')
    BY <2>2, <2>3
  <2> QED BY <1>0, <2>3, <2>4 DEF Inv
<1> QED BY <1>1, <1>2, <1>3 DEF Next

\* The inductive invariant holds in every reachable state.
THEOREM HudInvariant == Spec => []Inv
<1> QED BY InitGood, NextGood, PTL DEF Spec

\* Every static variable keeps to the values the source gives it, with want_connect,
\* the sheets and the job kinds among them.
THEOREM HudTypeOK == Spec => []TypeOK
<1>1. Inv => TypeOK
  BY DEF Inv, Good, Mid, TypeOK
<1> QED BY <1>1, HudInvariant, PTL

\* The "forgetting" spinner is up exactly while the forget job runs.
THEOREM HudForgetOwnsJob == Spec => []ForgetOwnsJob
<1>1. Inv => ForgetOwnsJob
  BY DEF Inv, Good, Mid, ForgetOK, ForgetOwnsJob
<1> QED BY <1>1, HudInvariant, PTL

\* The forget's result finds the selection it was started for.
THEOREM HudForgetHoldsSelection == Spec => []ForgetHoldsSelection
<1>1. Inv => ForgetHoldsSelection
  BY DEF Inv, Good, Mid, ForgetOK, ForgetHoldsSelection
<1> QED BY <1>1, HudInvariant, PTL

\* A running connect script belongs to a join that is not being confirmed yet.
THEOREM HudConnectJobIsJoin == Spec => []ConnectJobIsJoin
<1>1. Inv => ConnectJobIsJoin
  BY DEF Inv, Good, Mid, JoinOK, ConnectJobIsJoin
<1> QED BY <1>1, HudInvariant, PTL

\* While a join is confirmed no password sheet and no script can disturb it, and what is
\* queued behind it is the password of a key that was held when the script answered.
THEOREM HudConfirmingIsQuiet == Spec => []ConfirmingIsQuiet
<1>1. Inv => ConfirmingIsQuiet
  BY DEF Inv, Good, Mid, JoinOK, ForgetOK, ConfirmingIsQuiet
<1> QED BY <1>1, HudInvariant, PTL

\* A queued join is a password, a forget takes it away, and it is for the network being
\* joined unless a key submitted it during the confirmation.
THEOREM HudQueuedJoinIsCurrent == Spec => []QueuedJoinIsCurrent
<1>1. Inv => QueuedJoinIsCurrent
  BY DEF Inv, Good, Mid, QueueOK, QueuedJoinIsCurrent, gw_ssid_eq
<1> QED BY <1>1, HudInvariant, PTL

\* RETRY_PSK is not taken, so a join cannot repeat by itself, as long as no password has
\* been left behind by a key.
THEOREM HudNoRetryLoop == Spec => []NoRetryLoop
<1>1. Inv => NoRetryLoop
  BY DEF Inv, Good, Mid, PskOK, NoRetryLoop, gw_ssid_eq
<1> QED BY <1>1, HudInvariant, PTL

\* No stale report brings a network back that is being forgotten.
THEOREM HudForgottenIsGone == Spec => []ForgottenIsGone
<1>1. Inv => ForgottenIsGone
  BY DEF Inv, Good, Mid, GoneOK, ForgottenIsGone
<1> QED BY <1>1, HudInvariant, PTL

=============================================================================
