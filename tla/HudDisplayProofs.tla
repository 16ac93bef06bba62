--------------------------- MODULE HudDisplayProofs ---------------------------
(***************************************************************************)
(* Theorems about HudDisplay, for any number of buffers.  Three invariants, *)
(* by what may fail: EventInv whatever fails, PromptInv when the kernel      *)
(* takes commits and flips and lands them in time, and GlassInv when the     *)
(* panel answers as well.                                                   *)
(***************************************************************************)
EXTENDS HudDisplay, TLAPS

\* Events queued or about to be.
Owed(k) == k.events + (IF k.flip = NoBo THEN 0 ELSE 1)

-----------------------------------------------------------------------------
(* The driver and the kernel *)

LEMMA PanelTypes ==
  ASSUME NEW p \in Panel, NEW ok \in BOOLEAN, NEW lit \in BOOLEAN, NEW sleep \in BOOLEAN
  PROVE  /\ prepare(p, ok) \in Panel
         /\ enable(p, ok, lit) \in Panel
         /\ disable(p, ok) \in Panel
         /\ unprepare(p) \in Panel
         /\ panel_sleep_store(p, sleep, ok) \in Panel
<1>1. prepare(p, ok) \in Panel
  <2> DEFINE n == IF p.supplies < MaxSupplies THEN p.supplies + 1 ELSE p.supplies
  <2>1. n \in 0 .. MaxSupplies
    BY DEF Panel, MaxSupplies
  <2>2. prepare(p, ok) = p \/ prepare(p, ok) = [p EXCEPT !.supplies = n, !.on = FALSE]
    BY DEF prepare, Panel
  <2> HIDE DEF n
  <2> QED BY <2>1, <2>2 DEF Panel
<1>2. enable(p, ok, lit) \in Panel
  BY DEF enable, Panel
<1>3. disable(p, ok) \in Panel /\ unprepare(p) \in Panel
  BY DEF disable, unprepare, Panel
<1>4. panel_sleep_store(p, sleep, ok) \in Panel
  BY DEF panel_sleep_store, Panel
<1> QED BY <1>1, <1>2, <1>3, <1>4

LEMMA TriesBoolean == \A f : Tries(f) \subseteq BOOLEAN
BY DEF Tries

LEMMA LandKeeps ==
  ASSUME NEW k \in Kms, Owed(k) <= 2
  PROVE  /\ Land(k) \in Kms
         /\ Owed(Land(k)) = Owed(k)
         /\ Land(k).flip = NoBo
         /\ Land(k).scan = IF k.flip = NoBo THEN k.scan ELSE k.flip
         /\ Land(k).active = k.active /\ Land(k).enabled = k.enabled
<1>1. CASE k.flip = NoBo
  BY <1>1 DEF Land
<1>2. CASE k.flip # NoBo
  <2> DEFINE e == k.events + 1
             r == [k EXCEPT !.scan = k.flip, !.flip = NoBo, !.events = e]
  <2>1. Land(k) = r
    BY <1>2 DEF Land, Kms
  <2>2. e \in 0 .. 2 /\ e = Owed(k)
    BY <1>2 DEF Owed, Kms
  <2> HIDE DEF e
  <2>3. r \in Kms /\ r.events = e /\ r.flip = NoBo /\ r.scan = k.flip
        /\ r.active = k.active /\ r.enabled = k.enabled
    BY <2>2 DEF Kms, OptBo
  <2>4. Owed(r) = e
    BY <2>2, <2>3 DEF Owed
  <2> HIDE DEF r
  <2> QED BY <1>2, <2>1, <2>2, <2>3, <2>4
<1> QED BY <1>1, <1>2

LEMMA ModesetOut ==
  ASSUME NEW k \in Kms, Owed(k) <= 2, NEW p \in Panel, NEW b \in OptBo,
         NEW k2, NEW p2, Modeset(k, p, b, k2, p2)
  PROVE  /\ k2 \in Kms /\ p2 \in Panel
         /\ Owed(k2) = Owed(k)
         /\ k2.scan = b /\ k2.active
         /\ k2.flip = IF k.active THEN NoBo ELSE k.flip
<1>1. CASE k.active
  <2> DEFINE m == [Land(k) EXCEPT !.scan = b]
  <2>1. k2 = m /\ p2 = p
    BY <1>1 DEF Modeset
  <2>2. m \in Kms /\ m.scan = b /\ m.active = Land(k).active /\ m.flip = Land(k).flip
        /\ m.events = Land(k).events
    BY LandKeeps DEF Kms
  <2>3. Owed(m) = Owed(Land(k))
    BY <2>2 DEF Owed
  <2> HIDE DEF m
  <2> QED BY <1>1, <2>1, <2>2, <2>3, LandKeeps
<1>2. CASE ~k.active
  <2> DEFINE on == [k EXCEPT !.scan = b, !.active = TRUE]
  <2>1. PanelOn(on, p, k2, p2)
    BY <1>2 DEF Modeset
  <2>2. on \in Kms /\ on.scan = b /\ on.active /\ on.flip = k.flip /\ on.events = k.events
    BY DEF Kms
  <2> HIDE DEF on
  <2>3. PICK sup \in BOOLEAN, ok \in BOOLEAN, lit \in BOOLEAN :
          \/ k2 = on /\ p2 = prepare(p, sup)
          \/ /\ k2 = [on EXCEPT !.enabled = ok /\ Powered(prepare(p, sup))]
             /\ p2 = enable(prepare(p, sup), ok /\ Powered(prepare(p, sup)),
                                             lit /\ Powered(prepare(p, sup)))
    BY <2>1, TriesBoolean DEF PanelOn
  <2>4. p2 \in Panel
    BY <2>3, PanelTypes DEF Powered
  <2>5. k2 = on \/ \E en \in BOOLEAN : k2 = [on EXCEPT !.enabled = en]
    BY <2>3 DEF Powered
  <2>6. k2 \in Kms /\ k2.scan = on.scan /\ k2.active = on.active /\ k2.flip = on.flip
        /\ k2.events = on.events
    BY <2>2, <2>5 DEF Kms
  <2> QED BY <1>2, <2>2, <2>4, <2>6 DEF Owed
<1> QED BY <1>1, <1>2 DEF Kms

LEMMA CrtcOffOut ==
  ASSUME NEW k \in Kms, Owed(k) <= 2, NEW p \in Panel, NEW k2, NEW p2, CrtcOff(k, p, k2, p2)
  PROVE  /\ k2 \in Kms /\ p2 \in Panel
         /\ Owed(k2) = Owed(k)
         /\ ~k2.active
         /\ k2.scan = IF k.active THEN NoBo ELSE k.scan
         /\ k2.flip = IF k.active THEN NoBo ELSE k.flip
<1>1. CASE ~k.active
  BY <1>1 DEF CrtcOff
<1>2. CASE k.active
  <2>1. PICK ok \in Tries("dcs") :
          /\ k2 = [Land(k) EXCEPT !.scan = NoBo, !.active = FALSE, !.enabled = @ /\ ~ok]
          /\ p2 = unprepare(IF k.enabled THEN disable(p, ok) ELSE p)
    BY <1>2 DEF CrtcOff
  <2>2. p2 \in Panel
    BY <2>1, PanelTypes, TriesBoolean
  <2> DEFINE en == Land(k).enabled /\ ~ok
             m == [Land(k) EXCEPT !.scan = NoBo, !.active = FALSE, !.enabled = en]
  <2>3. k2 = m /\ en \in BOOLEAN
    BY <2>1, LandKeeps DEF Kms
  <2> HIDE DEF en
  <2>4. m \in Kms /\ m.scan = NoBo /\ m.active = FALSE /\ m.flip = Land(k).flip
        /\ m.events = Land(k).events
    BY <2>3, LandKeeps DEF Kms, OptBo
  <2>5. Owed(m) = Owed(Land(k))
    BY <2>4 DEF Owed
  <2> HIDE DEF m
  <2> QED BY <1>2, <2>2, <2>3, <2>4, <2>5, LandKeeps
<1> QED BY <1>1, <1>2 DEF Kms

-----------------------------------------------------------------------------
(* The actions that several invariants are about *)

LEMMA ScreenOffOut ==
  ASSUME TypeOK, Owed(kms) <= 2, ScreenOff
  PROVE  /\ gl' \in Gl /\ kms' \in Kms /\ panel' \in Panel
         /\ gl'.bo_prev = gl.bo_prev /\ gl'.bo_cur = gl.bo_cur
         /\ gl'.flip_done = gl.flip_done /\ ~gl'.crtc_set
         /\ Owed(kms') = Owed(kms)
         /\ screen_off' = TRUE
         /\ \E p \in Panel : disable_crtc(p, kms', panel')
         /\ UNCHANGED <<locked, pc, spins>>
<1>1. PICK ok \in Tries("dcs") : disable_crtc(panel_dcs_sleep(ok), kms', panel')
  BY DEF ScreenOff
<1>2. panel_dcs_sleep(ok) \in Panel
  <2>1. ok \in BOOLEAN /\ kms.active \in BOOLEAN /\ panel \in Panel
    BY <1>1, TriesBoolean DEF TypeOK, Kms
  <2> DEFINE works == ok /\ kms.active
  <2>2. works \in BOOLEAN
    BY <2>1
  <2> HIDE DEF works
  <2>3. panel_sleep_store(panel, TRUE, works) \in Panel
    BY <2>1, <2>2, PanelTypes
  <2> QED BY <2>3 DEF panel_dcs_sleep, works
<1>3. kms' \in Kms /\ panel' \in Panel /\ Owed(kms') = Owed(kms)
  BY <1>1, <1>2, CrtcOffOut DEF disable_crtc, TypeOK
<1>4. /\ gl' \in Gl /\ gl'.bo_prev = gl.bo_prev /\ gl'.bo_cur = gl.bo_cur
      /\ gl'.flip_done = gl.flip_done /\ ~gl'.crtc_set
  BY DEF ScreenOff, TypeOK, Gl
<1> QED BY <1>1, <1>2, <1>3, <1>4 DEF ScreenOff

\* set is whether the unblank found its modeset working.
LEMMA ScreenOnOut ==
  ASSUME TypeOK, Owed(kms) <= 2, ScreenOn
  PROVE  /\ gl' \in Gl /\ kms' \in Kms /\ panel' \in Panel
         /\ gl'.bo_prev = gl.bo_prev /\ gl'.bo_cur = gl.bo_cur
         /\ gl'.flip_done = gl.flip_done
         /\ Owed(kms') = Owed(kms)
         /\ screen_off' = FALSE
         /\ gl'.crtc_set => gl.bo_prev # NoBo /\ Modeset(kms, panel, gl.bo_prev, kms', panel')
         /\ ~gl'.crtc_set => UNCHANGED <<kms, panel>>
         /\ UNCHANGED <<locked, pc, spins>>
<1>1. PICK made \in Tries("egl"),
           set \in (IF gl.bo_prev = NoBo THEN {FALSE} ELSE Tries("commit")) :
        /\ gl' = [gl EXCEPT !.crtc_set = set, !.gl_runtime_off = FALSE,
                            !.current = IF gl.gl_runtime_off THEN made ELSE @]
        /\ IF set THEN Modeset(kms, panel, gl.bo_prev, kms', panel') ELSE UNCHANGED <<kms, panel>>
  BY DEF ScreenOn
<1>2. made \in BOOLEAN /\ set \in BOOLEAN /\ (set => gl.bo_prev # NoBo)
  BY <1>1, TriesBoolean
<1> DEFINE cur == IF gl.gl_runtime_off THEN made ELSE gl.current
<1>3. cur \in BOOLEAN
  BY <1>2 DEF TypeOK, Gl
<1>4. gl' = [gl EXCEPT !.crtc_set = set, !.gl_runtime_off = FALSE, !.current = cur]
  BY <1>1 DEF TypeOK, Gl
<1> HIDE DEF cur
<1>5. /\ gl' \in Gl /\ gl'.bo_prev = gl.bo_prev /\ gl'.bo_cur = gl.bo_cur
      /\ gl'.flip_done = gl.flip_done /\ gl'.crtc_set = set
  BY <1>2, <1>3, <1>4 DEF TypeOK, Gl
<1>6. gl.bo_prev \in OptBo /\ kms \in Kms /\ panel \in Panel
  BY DEF TypeOK, Gl
<1>7. kms' \in Kms /\ panel' \in Panel /\ Owed(kms') = Owed(kms)
  BY <1>1, <1>2, <1>6, ModesetOut
<1> QED BY <1>1, <1>2, <1>5, <1>7 DEF ScreenOn

LEMMA HandoverOut ==
  ASSUME NEW g \in Gl, NEW b \in Bo, locked \subseteq Bo, Handover(g, b)
  PROVE  /\ gl' \in Gl /\ gl'.bo_prev = b /\ gl'.bo_cur = NoBo
         /\ gl'.crtc_set = g.crtc_set /\ gl'.flip_done = g.flip_done
         /\ gl'.current = g.current /\ gl'.gl_runtime_off = g.gl_runtime_off
         /\ locked' = (locked \cup {b}) \ {gl.bo_prev}
         /\ locked' \subseteq Bo
BY DEF Handover, Gl, OptBo

\* What the present does to everything but the pointers.
LEMMA ModesetPresentOut ==
  ASSUME TypeOK, Owed(kms) <= 2, PresentModeset
  PROVE  \E b \in Bo \ locked :
           /\ gl' \in Gl /\ gl'.bo_prev = b /\ gl'.bo_cur = NoBo
           /\ locked' = (locked \cup {b}) \ {gl.bo_prev} /\ locked' \subseteq Bo
           /\ kms' \in Kms /\ panel' \in Panel /\ Owed(kms') = Owed(kms)
           /\ gl'.crtc_set => Modeset(kms, panel, b, kms', panel')
           /\ ~gl'.crtc_set => UNCHANGED <<kms, panel>> /\ "commit" \in Faults
           /\ pc = "loop" /\ UNCHANGED <<screen_off, pc, spins>>
<1>1. PICK b \in Bo \ locked, set \in Tries("commit") :
        /\ Handover([gl EXCEPT !.crtc_set = set], b)
        /\ IF set THEN Modeset(kms, panel, b, kms', panel') ELSE UNCHANGED <<kms, panel>>
  BY DEF PresentModeset
<1>2. set \in BOOLEAN /\ (~set => "commit" \in Faults)
  BY <1>1 DEF Tries
<1> DEFINE g == [gl EXCEPT !.crtc_set = set]
<1>3. g \in Gl /\ g.crtc_set = set
  BY <1>2 DEF TypeOK, Gl
<1>4. Handover(g, b)
  BY <1>1
<1> HIDE DEF g
<1>5. /\ gl' \in Gl /\ gl'.bo_prev = b /\ gl'.bo_cur = NoBo /\ gl'.crtc_set = set
      /\ locked' = (locked \cup {b}) \ {gl.bo_prev} /\ locked' \subseteq Bo
  BY <1>1, <1>3, <1>4, HandoverOut DEF TypeOK
<1>6. kms \in Kms /\ panel \in Panel /\ b \in OptBo
  BY <1>1 DEF TypeOK, OptBo
<1>7. kms' \in Kms /\ panel' \in Panel /\ Owed(kms') = Owed(kms)
  BY <1>1, <1>2, <1>6, ModesetOut
<1> QED BY <1>1, <1>2, <1>5, <1>7 DEF PresentModeset, Rendering

-----------------------------------------------------------------------------
(* Whatever fails *)

\* A wait that times out leaves at most its own event to the next one.
EventInv ==
  /\ TypeOK
  /\ Owed(kms) <= 2
  /\ pc = "loop" \/ gl.flip_done => Owed(kms) <= 1
  /\ pc = "wait" => gl.bo_cur \in Bo

LEMMA EventInit == Init => EventInv
<1> SUFFICES ASSUME Init PROVE EventInv
  OBVIOUS
<1> DEFINE off == [active |-> FALSE, enabled |-> FALSE, scan |-> NoBo, flip |-> NoBo, events |-> 0]
<1>1. off \in Kms /\ Owed(off) = 0
  BY DEF Kms, OptBo, Owed
<1>2. Fresh \in Panel /\ NoBo \in OptBo
  BY DEF Fresh, Panel, MaxSupplies, OptBo
<1>3. Modeset(off, Fresh, NoBo, kms, panel)
  BY DEF Init
<1> HIDE DEF off
<1>4. kms \in Kms /\ panel \in Panel /\ Owed(kms) = 0
  BY <1>1, <1>2, <1>3, ModesetOut
<1>5. gl \in Gl
  BY DEF Init, Gl, OptBo
<1>6. screen_off \in BOOLEAN /\ locked \subseteq Bo /\ pc = "loop" /\ spins = 0
  BY Zenon DEF Init
<1>7. spins \in 0 .. (MaxSpins - 1)
  BY <1>6 DEF MaxSpins
<1> QED BY <1>4, <1>5, <1>6, <1>7 DEF EventInv, TypeOK

LEMMA EventStep == EventInv /\ [Next]_vars => EventInv'
<1> SUFFICES ASSUME EventInv, [Next]_vars PROVE EventInv'
  OBVIOUS
<1> USE DEF EventInv
<1>1. CASE ScreenOff
  BY <1>1, ScreenOffOut DEF TypeOK
<1>2. CASE ScreenOn
  BY <1>2, ScreenOnOut DEF TypeOK
<1>3. CASE PresentNoBuffer
  BY <1>3 DEF PresentNoBuffer, Rendering, TypeOK, Gl, OptBo, Owed
<1>4. CASE PresentNoFb
  BY <1>4 DEF PresentNoFb, Rendering, TypeOK, Gl, OptBo, Owed
<1>5. CASE PresentModeset
  BY <1>5, ModesetPresentOut DEF TypeOK
<1>6. CASE PresentFlip
  <2>1. PICK b \in Bo \ locked :
          /\ gl' = [gl EXCEPT !.bo_cur = b, !.flip_done = FALSE]
          /\ locked' = locked \cup {b}
          /\ kms' = [kms EXCEPT !.flip = b]
    BY <1>6 DEF PresentFlip
  <2>2. gl' \in Gl /\ gl'.bo_cur = b /\ gl'.flip_done = FALSE
    BY <2>1 DEF TypeOK, Gl, OptBo
  <2>3. kms' \in Kms /\ kms'.events = kms.events /\ kms'.flip = b /\ b # NoBo
    BY <2>1, DisplayAssumption DEF TypeOK, Kms, OptBo
  <2>4. Owed(kms') <= 2
    BY <1>6, <2>3 DEF PresentFlip, Rendering, Owed, TypeOK, Kms
  <2> QED BY <1>6, <2>1, <2>2, <2>3, <2>4 DEF PresentFlip, Rendering, TypeOK, MaxSpins
<1>7. CASE PresentRefused
  <2>1. PICK b \in Bo \ locked : Handover([gl EXCEPT !.flip_done = FALSE], b)
    BY <1>7 DEF PresentRefused
  <2> DEFINE g == [gl EXCEPT !.flip_done = FALSE]
  <2>2. g \in Gl /\ Handover(g, b)
    BY <2>1 DEF TypeOK, Gl
  <2> HIDE DEF g
  <2>3. gl' \in Gl /\ locked' \subseteq Bo
    BY <2>2, HandoverOut DEF TypeOK
  <2> QED BY <1>7, <2>3 DEF PresentRefused, Rendering, TypeOK
<1>8. CASE Vblank
  <2>1. kms' \in Kms /\ Owed(kms') = Owed(kms)
    BY <1>8, LandKeeps DEF Vblank, TypeOK
  <2> QED BY <1>8, <2>1 DEF Vblank, TypeOK
<1>9. CASE WaitEvent
  <2>1. gl' \in Gl /\ gl'.flip_done = TRUE /\ gl'.bo_cur = gl.bo_cur
    BY <1>9 DEF WaitEvent, TypeOK, Gl
  <2>2. kms' \in Kms /\ kms'.events = 0 /\ Owed(kms') <= 1
    BY <1>9 DEF WaitEvent, TypeOK, Kms, Owed
  <2>3. Owed(kms') <= 2
    BY <2>2 DEF Owed
  <2> QED BY <1>9, <2>1, <2>2, <2>3 DEF WaitEvent, TypeOK
<1>10. CASE WaitDone
  <2>1. gl' \in Gl /\ locked' \subseteq Bo
    BY <1>10, HandoverOut DEF WaitDone, TypeOK
  <2> QED BY <1>10, <2>1 DEF WaitDone, TypeOK
<1>11. CASE WaitQuiet
  <2>1. CASE spins + 1 < MaxSpins
    BY <1>11, <2>1 DEF WaitQuiet, TypeOK, MaxSpins
  <2>2. CASE ~(spins + 1 < MaxSpins)
    <3>1. Handover(gl, gl.bo_cur) /\ pc' = "loop" /\ pc = "wait"
          /\ UNCHANGED <<spins, screen_off, kms, panel>> /\ kms.events = 0
      BY <1>11, <2>2 DEF WaitQuiet
    <3>2. gl' \in Gl /\ locked' \subseteq Bo
      BY <3>1, HandoverOut DEF TypeOK
    <3>3. Owed(kms) <= 1
      BY <3>1 DEF Owed
    <3> QED BY <3>1, <3>2, <3>3 DEF TypeOK
  <2> QED BY <2>1, <2>2
<1>12. CASE UNCHANGED vars
  BY <1>12 DEF vars, TypeOK
<1> QED
  BY <1>1, <1>2, <1>3, <1>4, <1>5, <1>6, <1>7, <1>8, <1>9, <1>10, <1>11, <1>12
  DEF Next, PowerKey, IdleOff, TouchWake, Present, WaitInput

THEOREM EventAlways == Spec => []EventInv
BY EventInit, EventStep, PTL DEF Spec

\* Whatever fails, no more than two flip events are ever queued, and a wait has a buffer
\* to hand over (hud_gl_present, wait_flip).
THEOREM DisplayTypeOK == Spec => []TypeOK
<1>1. EventInv => TypeOK
  BY DEF EventInv
<1> QED BY <1>1, EventAlways, PTL

-----------------------------------------------------------------------------
(* Whatever fails, except for a new framebuffer *)

LEMMA HeldStep ==
  ASSUME "fb" \notin Faults
  PROVE  EventInv /\ HeldIsKnown /\ [Next]_vars => HeldIsKnown'
<1> SUFFICES ASSUME EventInv, HeldIsKnown, [Next]_vars PROVE HeldIsKnown'
  OBVIOUS
<1> USE DEF EventInv, HeldIsKnown
<1>1. CASE ScreenOff
  BY <1>1, ScreenOffOut
<1>2. CASE ScreenOn
  BY <1>2, ScreenOnOut
<1>3. CASE PresentNoBuffer
  <2>1. gl'.bo_prev = gl.bo_prev /\ gl'.bo_cur = NoBo /\ locked' = locked
    BY <1>3 DEF PresentNoBuffer, TypeOK, Gl
  <2>2. gl.bo_cur = NoBo
    BY <1>3 DEF PresentNoBuffer, Rendering
  <2> QED BY <2>1, <2>2
<1>4. CASE PresentModeset
  BY <1>4, ModesetPresentOut, DisplayAssumption
<1>5. CASE PresentFlip
  <2>1. PICK b \in Bo \ locked :
          /\ gl' = [gl EXCEPT !.bo_cur = b, !.flip_done = FALSE]
          /\ locked' = locked \cup {b}
    BY <1>5 DEF PresentFlip
  <2>2. gl'.bo_cur = b /\ gl'.bo_prev = gl.bo_prev /\ b # NoBo
    BY <2>1, DisplayAssumption DEF TypeOK, Gl
  <2> QED BY <1>5, <2>1, <2>2 DEF PresentFlip, Rendering
<1>6. CASE PresentRefused
  <2>1. PICK b \in Bo \ locked : Handover([gl EXCEPT !.flip_done = FALSE], b)
    BY <1>6 DEF PresentRefused
  <2> DEFINE g == [gl EXCEPT !.flip_done = FALSE]
  <2>2. g \in Gl /\ Handover(g, b)
    BY <2>1 DEF TypeOK, Gl
  <2> HIDE DEF g
  <2>3. gl'.bo_prev = b /\ gl'.bo_cur = NoBo /\ locked' = (locked \cup {b}) \ {gl.bo_prev}
    BY <2>2, HandoverOut DEF TypeOK
  <2> QED BY <1>6, <2>3, DisplayAssumption DEF PresentRefused, Rendering
<1>7. CASE WaitEvent
  <2>1. gl'.bo_prev = gl.bo_prev /\ gl'.bo_cur = gl.bo_cur
    BY <1>7 DEF WaitEvent, TypeOK, Gl
  <2> QED BY <1>7, <2>1 DEF WaitEvent
<1>8. CASE pc = "wait" /\ Handover(gl, gl.bo_cur)
  <2>1. gl'.bo_prev = gl.bo_cur /\ gl'.bo_cur = NoBo /\ locked' = (locked \cup {gl.bo_cur}) \ {gl.bo_prev}
    BY <1>8, HandoverOut DEF TypeOK
  <2> QED BY <1>8, <2>1, DisplayAssumption
<1>9. CASE UNCHANGED <<gl, locked, pc>>
  BY <1>9
<1>10. ~PresentNoFb
  BY DEF PresentNoFb
<1> QED
  BY <1>1, <1>2, <1>3, <1>4, <1>5, <1>6, <1>7, <1>8, <1>9, <1>10
  DEF Next, PowerKey, IdleOff, TouchWake, Present, WaitInput, Vblank, WaitDone, WaitQuiet, vars

\* Unless drmModeAddFB2 fails, GBM's buffers are exactly those that bo_prev and bo_cur
\* name: no path through hud_gl_present or wait_flip loses one (HeldIsKnown).
THEOREM DisplayHeldIsKnown ==
  ASSUME "fb" \notin Faults
  PROVE  Spec => []HeldIsKnown
<1>1. Init => HeldIsKnown
  <2> SUFFICES ASSUME Init PROVE HeldIsKnown
    OBVIOUS
  <2>1. gl.bo_prev = NoBo /\ gl.bo_cur = NoBo /\ locked = {}
    BY DEF Init
  <2> QED BY <2>1 DEF HeldIsKnown
<1>2. EventInv /\ HeldIsKnown /\ [Next]_vars => HeldIsKnown'
  BY HeldStep
<1> QED BY <1>1, <1>2, EventAlways, PTL DEF Spec

-----------------------------------------------------------------------------
(* When the kernel takes every commit and flip, and no flip is late *)

Prompt == {"commit", "flip", "late"} \cap Faults = {}

\* The flip under way, then its event, then the event read.
Waiting ==
  /\ gl.bo_cur \in locked /\ gl.bo_cur # gl.bo_prev
  /\ \/ ~gl.flip_done /\ kms.flip = gl.bo_cur /\ kms.events = 0 /\ kms.scan \in {NoBo, gl.bo_prev}
     \/ ~gl.flip_done /\ kms.flip = NoBo /\ kms.events = 1 /\ kms.scan \in {NoBo, gl.bo_cur}
     \/ gl.flip_done /\ kms.flip = NoBo /\ kms.events = 0 /\ kms.scan \in {NoBo, gl.bo_cur}

PromptInv ==
  /\ gl.bo_prev \in locked \cup {NoBo}
  /\ gl.crtc_set => kms.active
  /\ pc = "loop" => kms.events = 0 /\ kms.flip = NoBo /\ kms.scan \in {NoBo, gl.bo_prev}
  /\ pc = "wait" => Waiting

LEMMA PromptInit == Init => PromptInv
<1> SUFFICES ASSUME Init PROVE PromptInv
  OBVIOUS
<1> DEFINE off == [active |-> FALSE, enabled |-> FALSE, scan |-> NoBo, flip |-> NoBo, events |-> 0]
<1>1. off \in Kms /\ Owed(off) = 0 /\ off.flip = NoBo
  BY DEF Kms, OptBo, Owed
<1>2. Fresh \in Panel /\ NoBo \in OptBo
  BY DEF Fresh, Panel, MaxSupplies, OptBo
<1>3. Modeset(off, Fresh, NoBo, kms, panel)
  BY DEF Init
<1> HIDE DEF off
<1>4. kms \in Kms /\ Owed(kms) = 0 /\ kms.scan = NoBo /\ kms.flip = NoBo
  BY <1>1, <1>2, <1>3, ModesetOut
<1>5. kms.events = 0
  BY <1>4 DEF Owed, Kms
<1>6. gl.bo_prev = NoBo /\ gl.crtc_set = FALSE /\ pc = "loop"
  BY DEF Init
<1> QED BY <1>4, <1>5, <1>6 DEF PromptInv

\* Blanking in the middle of a wait completes the flip, and its event stays.
LEMMA PromptScreenOff ==
  ASSUME Prompt, EventInv, PromptInv, ScreenOff
  PROVE  PromptInv'
<1>1. PICK p \in Panel : disable_crtc(p, kms', panel')
  BY ScreenOffOut DEF EventInv
<1>2. CrtcOff(kms, p, kms', panel')
  BY <1>1 DEF disable_crtc, Prompt
<1>3. /\ kms' \in Kms /\ Owed(kms') = Owed(kms)
      /\ kms'.scan = IF kms.active THEN NoBo ELSE kms.scan
      /\ kms'.flip = IF kms.active THEN NoBo ELSE kms.flip
  BY <1>1, <1>2, CrtcOffOut DEF EventInv, TypeOK
<1>4. /\ gl'.bo_prev = gl.bo_prev /\ gl'.bo_cur = gl.bo_cur /\ gl'.flip_done = gl.flip_done
      /\ ~gl'.crtc_set /\ UNCHANGED <<locked, pc>>
  BY ScreenOffOut DEF EventInv
<1>5. kms.events \in 0 .. 2 /\ kms'.events \in 0 .. 2
  BY <1>3 DEF EventInv, TypeOK, Kms
<1>6. CASE pc = "loop"
  BY <1>3, <1>4, <1>5, <1>6 DEF PromptInv, Owed
<1>7. CASE pc = "wait"
  <2>1. Waiting
    BY <1>7 DEF PromptInv
  <2>2. gl.bo_cur # NoBo
    BY <1>7, DisplayAssumption DEF EventInv
  <2>3. Waiting'
    BY <1>3, <1>4, <1>5, <2>1, <2>2 DEF Waiting, Owed
  <2> QED BY <1>4, <1>7, <2>3 DEF PromptInv
<1> QED BY <1>6, <1>7 DEF EventInv, TypeOK

LEMMA PromptStep ==
  ASSUME Prompt
  PROVE  EventInv /\ PromptInv /\ [Next]_vars => PromptInv'
<1> SUFFICES ASSUME EventInv, PromptInv, [Next]_vars PROVE PromptInv'
  OBVIOUS
<1> USE DEF PromptInv
<1>1. TypeOK /\ Owed(kms) <= 2 /\ gl \in Gl /\ kms \in Kms /\ panel \in Panel
  BY DEF EventInv, TypeOK
<1>2. CASE ScreenOff
  BY <1>2, PromptScreenOff
<1>3. CASE pc = "loop" /\ ScreenOn
  <2>1. /\ gl'.bo_prev = gl.bo_prev /\ UNCHANGED <<locked, pc>>
        /\ gl'.crtc_set => Modeset(kms, panel, gl.bo_prev, kms', panel')
        /\ ~gl'.crtc_set => UNCHANGED kms
        /\ kms' \in Kms /\ Owed(kms') = Owed(kms)
    BY <1>1, <1>3, ScreenOnOut
  <2>2. gl.bo_prev \in OptBo
    BY <1>1 DEF Gl
  <2>3. gl'.crtc_set => kms'.scan = gl.bo_prev /\ kms'.active /\ kms'.flip = NoBo
    BY <1>1, <1>3, <2>1, <2>2, ModesetOut
  <2>4. kms'.events = 0
    BY <1>1, <1>3, <2>1, <2>3 DEF Owed, Kms
  <2> QED BY <1>3, <2>1, <2>3, <2>4
<1>4. CASE PresentNoBuffer
  <2>1. gl'.bo_prev = gl.bo_prev /\ gl'.crtc_set = gl.crtc_set /\ pc = "loop"
        /\ UNCHANGED <<locked, kms, pc>>
    BY <1>1, <1>4 DEF PresentNoBuffer, Rendering, Gl
  <2> QED BY <2>1
<1>5. CASE PresentNoFb
  <2>1. PICK b \in Bo \ locked : gl' = [gl EXCEPT !.bo_cur = b] /\ locked' = locked \cup {b}
    BY <1>5 DEF PresentNoFb
  <2>2. gl'.bo_prev = gl.bo_prev /\ gl'.crtc_set = gl.crtc_set /\ pc = "loop" /\ UNCHANGED <<kms, pc>>
    BY <1>1, <1>5, <2>1 DEF PresentNoFb, Rendering, Gl
  <2> QED BY <2>1, <2>2
<1>6. CASE PresentModeset
  <2>1. PICK b \in Bo \ locked :
          /\ gl'.bo_prev = b /\ locked' = (locked \cup {b}) \ {gl.bo_prev}
          /\ kms' \in Kms /\ Owed(kms') = Owed(kms)
          /\ gl'.crtc_set => Modeset(kms, panel, b, kms', panel')
          /\ ~gl'.crtc_set => "commit" \in Faults
          /\ pc = "loop" /\ UNCHANGED pc
    BY <1>1, <1>6, ModesetPresentOut
  <2>2. Modeset(kms, panel, b, kms', panel') /\ b \in OptBo
    BY <2>1 DEF Prompt, OptBo
  <2>3. kms'.scan = b /\ kms'.active /\ kms'.flip = NoBo
    BY <1>1, <2>1, <2>2, ModesetOut
  <2>4. kms'.events = 0
    BY <1>1, <2>1, <2>3 DEF Owed, Kms
  <2>5. b \in locked'
    BY <2>1, DisplayAssumption
  <2> QED BY <2>1, <2>3, <2>4, <2>5
<1>7. CASE PresentFlip
  <2>1. PICK b \in Bo \ locked :
          /\ gl' = [gl EXCEPT !.bo_cur = b, !.flip_done = FALSE]
          /\ locked' = locked \cup {b}
          /\ kms' = [kms EXCEPT !.flip = b]
    BY <1>7 DEF PresentFlip
  <2>2. gl'.bo_cur = b /\ ~gl'.flip_done /\ gl'.bo_prev = gl.bo_prev /\ gl'.crtc_set = gl.crtc_set
    BY <1>1, <2>1 DEF Gl
  <2>3. kms'.flip = b /\ kms'.events = kms.events /\ kms'.scan = kms.scan /\ kms'.active = kms.active
    BY <1>1, <2>1 DEF Kms
  <2>4. pc = "loop" /\ pc' = "wait"
    BY <1>7 DEF PresentFlip, Rendering
  <2>5. Waiting'
    BY <2>1, <2>2, <2>3, <2>4, DisplayAssumption DEF Waiting
  <2> QED BY <2>1, <2>2, <2>3, <2>4, <2>5
<1>8. ~PresentRefused
  BY DEF PresentRefused, Rendering, Prompt
<1>9. CASE Vblank
  <2>1. pc = "wait"
    BY <1>1, <1>9 DEF Vblank, TypeOK
  <2>2. Waiting /\ UNCHANGED <<gl, locked, pc>> /\ kms' = Land(kms) /\ kms.flip # NoBo
    BY <1>9, <2>1 DEF Vblank
  <2>3. /\ kms' \in Kms /\ Owed(kms') = Owed(kms) /\ kms'.flip = NoBo /\ kms'.scan = kms.flip
        /\ kms'.active = kms.active
    BY <1>1, <2>2, LandKeeps
  <2>4. kms.flip = gl.bo_cur /\ kms.events = 0 /\ ~gl.flip_done
    BY <2>2 DEF Waiting
  <2>5. kms'.events = 1
    BY <2>2, <2>3, <2>4 DEF Owed, Kms
  <2>6. Waiting'
    BY <2>2, <2>3, <2>4, <2>5 DEF Waiting
  <2> QED BY <2>1, <2>2, <2>3, <2>6
<1>10. CASE WaitEvent
  <2>1. /\ gl'.bo_prev = gl.bo_prev /\ gl'.bo_cur = gl.bo_cur /\ gl'.crtc_set = gl.crtc_set
        /\ gl'.flip_done /\ UNCHANGED <<locked, pc>> /\ pc = "wait" /\ ~gl.flip_done
    BY <1>1, <1>10 DEF WaitEvent, Gl
  <2>2. kms'.events = 0 /\ kms'.scan = kms.scan /\ kms'.flip = kms.flip /\ kms'.active = kms.active
    BY <1>1, <1>10 DEF WaitEvent, Kms
  <2>3. kms.events # 0
    BY <1>1, <1>10 DEF WaitEvent, Kms
  <2>4. Waiting'
    BY <2>1, <2>2, <2>3 DEF Waiting
  <2> QED BY <2>1, <2>2, <2>4
<1>11. CASE WaitDone
  <2>1. /\ pc = "wait" /\ pc' = "loop" /\ UNCHANGED kms /\ gl.flip_done /\ Handover(gl, gl.bo_cur)
    BY <1>11 DEF WaitDone
  <2>2. Waiting /\ gl.bo_cur \in Bo /\ locked \subseteq Bo
    BY <2>1 DEF EventInv, TypeOK
  <2>3. gl'.bo_prev = gl.bo_cur /\ gl'.crtc_set = gl.crtc_set
        /\ locked' = (locked \cup {gl.bo_cur}) \ {gl.bo_prev}
    BY <1>1, <2>1, <2>2, HandoverOut
  <2> QED BY <2>1, <2>2, <2>3 DEF Waiting
<1>12. ~WaitQuiet
  BY DEF WaitQuiet, Prompt
<1>13. CASE UNCHANGED vars
  BY <1>13 DEF vars, Waiting
<1> QED
  BY <1>2, <1>3, <1>4, <1>5, <1>6, <1>7, <1>8, <1>9, <1>10, <1>11, <1>12, <1>13
  DEF Next, PowerKey, IdleOff, TouchWake, Present, WaitInput, Prompt

THEOREM PromptAlways ==
  ASSUME Prompt
  PROVE  Spec => []PromptInv
<1>1. EventInv /\ PromptInv /\ [Next]_vars => PromptInv'
  BY PromptStep
<1> QED BY <1>1, PromptInit, EventAlways, PTL DEF Spec

\* No tearing: with a kernel that answers, no buffer on the screen or about to be is
\* given back to GBM (wait_flip, hud_gl_present, hud_gl_blank).
THEOREM DisplayScanoutHeld ==
  ASSUME Prompt
  PROVE  Spec => []ScanoutHeld
<1>1. TypeOK /\ PromptInv => ScanoutHeld
  BY DEF TypeOK, PromptInv, Waiting, ScanoutHeld
<1> QED BY <1>1, PromptAlways, DisplayTypeOK, PTL

\* With a kernel that answers, no event and no flip is left over when a wait ends, also
\* when the power key blanked the screen during it (wait_flip).
THEOREM DisplayNoStaleEvent ==
  ASSUME Prompt
  PROVE  Spec => []NoStaleEvent
<1>1. PromptInv => NoStaleEvent
  BY DEF PromptInv, NoStaleEvent
<1> QED BY <1>1, PromptAlways, PTL

-----------------------------------------------------------------------------
(* When the panel and its supplies answer as well *)

Answers == Prompt /\ {"dcs", "supply"} \cap Faults = {}

\* The CRTC, drm_panel's flag, the glass and the driver's fields say the same.
Agree(k, p) ==
  /\ p.inited /\ p.supplies = 1
  /\ p.on = k.active /\ p.asleep = ~k.active
  /\ k.enabled = k.active

GlassInv ==
  /\ Agree(kms, panel)
  /\ screen_off => ~kms.active
  /\ gl.crtc_set /\ pc = "loop" => gl.bo_prev # NoBo /\ kms.scan = gl.bo_prev
  /\ gl.crtc_set /\ pc = "wait" => kms.flip # NoBo \/ kms.scan = gl.bo_cur

LEMMA ModesetAgrees ==
  ASSUME Answers, NEW k \in Kms, NEW p \in Panel, NEW b \in OptBo, NEW k2, NEW p2,
         Agree(k, p), Owed(k) <= 2, Modeset(k, p, b, k2, p2)
  PROVE  Agree(k2, p2) /\ k2.active
<1>1. CASE k.active
  <2> DEFINE m == [Land(k) EXCEPT !.scan = b]
  <2>1. k2 = m /\ p2 = p
    BY <1>1 DEF Modeset
  <2>2. m.active = k.active /\ m.enabled = k.enabled
    BY LandKeeps DEF Kms
  <2> HIDE DEF m
  <2> QED BY <1>1, <2>1, <2>2 DEF Agree
<1>2. CASE ~k.active
  <2> DEFINE on == [k EXCEPT !.scan = b, !.active = TRUE]
  <2>1. PanelOn(on, p, k2, p2)
    BY <1>2 DEF Modeset
  <2>2. on \in Kms /\ on.active = TRUE /\ ~on.enabled
    BY <1>2 DEF Kms, Agree
  <2> HIDE DEF on
  <2>3. prepare(p, TRUE) = p /\ Powered(p) = TRUE
    BY DEF Agree, prepare, Powered
  <2>4. Tries("dcs") = {TRUE} /\ Tries("supply") = {TRUE}
    BY DEF Answers, Tries
  <2>5. \E lit \in BOOLEAN :
          /\ k2 = [on EXCEPT !.enabled = TRUE /\ Powered(p)]
          /\ p2 = enable(p, TRUE /\ Powered(p), lit /\ Powered(p))
    BY <2>1, <2>2, <2>3, <2>4 DEF PanelOn
  <2>6. PICK lit \in BOOLEAN : k2 = [on EXCEPT !.enabled = TRUE] /\ p2 = enable(p, TRUE, lit)
    BY <2>3, <2>5
  <2>7. k2.active = TRUE /\ k2.enabled = TRUE
    BY <2>2, <2>6 DEF Kms
  <2>8. p2 = [p EXCEPT !.on = TRUE, !.asleep = FALSE]
    BY <2>6 DEF enable, Agree, Panel
  <2>9. p2.inited = TRUE /\ p2.supplies = 1 /\ p2.on = TRUE /\ p2.asleep = FALSE
    BY <2>8 DEF Panel, Agree
  <2> QED BY <2>7, <2>9 DEF Agree
<1> QED BY <1>1, <1>2 DEF Kms

\* The first enable sends the whole sequence.
LEMMA FirstModeset ==
  ASSUME Answers, Init
  PROVE  Agree(kms, panel)
<1> DEFINE off == [active |-> FALSE, enabled |-> FALSE, scan |-> NoBo, flip |-> NoBo, events |-> 0]
           on == [off EXCEPT !.scan = NoBo, !.active = TRUE]
           q == prepare(Fresh, TRUE)
<1>1. PanelOn(on, Fresh, kms, panel)
  BY DEF Init, Modeset
<1>2. on \in Kms /\ on.active = TRUE /\ ~on.enabled
  <2>1. off \in Kms /\ ~off.enabled
    BY DEF Kms, OptBo
  <2> HIDE DEF off
  <2> QED BY <2>1 DEF Kms, OptBo
<1>3. q \in Panel /\ ~q.inited /\ q.supplies = 1
  <2>1. Fresh \in Panel /\ ~Fresh.inited /\ Fresh.supplies = 0
    BY DEF Fresh, Panel, MaxSupplies
  <2>2. q = [Fresh EXCEPT !.supplies = 1, !.on = FALSE]
    BY <2>1 DEF prepare, Panel, MaxSupplies
  <2> DEFINE one == 1
  <2>3. one \in 0 .. MaxSupplies
    BY DEF MaxSupplies
  <2> HIDE DEF q, one
  <2>4. q = [Fresh EXCEPT !.supplies = one, !.on = FALSE]
    BY <2>2 DEF one
  <2>5. q \in Panel /\ ~q.inited /\ q.supplies = one
    BY <2>1, <2>3, <2>4 DEF Panel
  <2> QED BY <2>5 DEF one
<1> HIDE DEF q
<1>4. Powered(q) = TRUE
  BY <1>3 DEF Powered
<1>5. Tries("dcs") = {TRUE} /\ Tries("supply") = {TRUE}
  BY DEF Answers, Tries
<1> HIDE DEF on
<1>6. \E lit \in BOOLEAN :
        /\ kms = [on EXCEPT !.enabled = TRUE /\ Powered(q)]
        /\ panel = enable(q, TRUE /\ Powered(q), lit /\ Powered(q))
  BY <1>1, <1>2, <1>5 DEF PanelOn, q
<1>7. PICK lit \in BOOLEAN : kms = [on EXCEPT !.enabled = TRUE] /\ panel = enable(q, TRUE, lit)
  BY <1>4, <1>6
<1>8. kms.active = TRUE /\ kms.enabled = TRUE
  BY <1>2, <1>7 DEF Kms
<1>9. panel.inited = TRUE /\ panel.supplies = 1 /\ panel.on = TRUE /\ panel.asleep = FALSE
  BY <1>3, <1>7 DEF enable, Panel
<1> QED BY <1>8, <1>9 DEF Agree

\* panel_sleep turns the glass off, then the CRTC goes; when it was off already, neither
\* does anything.
LEMMA GlassScreenOff ==
  ASSUME Answers, EventInv, GlassInv, ScreenOff
  PROVE  Agree(kms', panel') /\ ~kms'.active
<1>1. Tries("dcs") = {TRUE} /\ "commit" \notin Faults
  BY DEF Answers, Prompt, Tries
<1> DEFINE p == panel_sleep_store(panel, TRUE, TRUE /\ kms.active)
<1>2. CrtcOff(kms, p, kms', panel')
  BY <1>1 DEF ScreenOff, disable_crtc, panel_dcs_sleep
<1>3. kms \in Kms /\ panel \in Panel /\ Owed(kms) <= 2 /\ Agree(kms, panel)
  BY DEF EventInv, TypeOK, GlassInv
<1>4. CASE ~kms.active
  <2>1. p = panel
    BY <1>3, <1>4 DEF panel_sleep_store, Agree, Panel
  <2> HIDE DEF p
  <2>2. kms' = kms /\ panel' = panel
    BY <1>2, <1>4, <2>1 DEF CrtcOff
  <2> QED BY <1>3, <1>4, <2>2 DEF Agree
<1>5. CASE kms.active
  <2>1. p = [panel EXCEPT !.on = ~TRUE, !.asleep = TRUE]
    BY <1>3, <1>5 DEF panel_sleep_store, Agree, Panel, Kms
  <2>2. p.inited = TRUE /\ p.supplies = 1 /\ p.on = FALSE /\ p.asleep = TRUE /\ p \in Panel
    BY <1>3, <2>1 DEF Panel, Agree
  <2> HIDE DEF p
  <2>3. /\ kms' = [Land(kms) EXCEPT !.scan = NoBo, !.active = FALSE, !.enabled = @ /\ ~TRUE]
        /\ panel' = unprepare(IF kms.enabled THEN disable(p, TRUE) ELSE p)
    BY <1>1, <1>2, <1>5 DEF CrtcOff
  <2> DEFINE en == Land(kms).enabled /\ ~TRUE
  <2>4. kms' = [Land(kms) EXCEPT !.scan = NoBo, !.active = FALSE, !.enabled = en] /\ en = FALSE
    BY <1>3, <2>3, LandKeeps DEF Kms
  <2> HIDE DEF en
  <2>5. ~kms'.active /\ ~kms'.enabled /\ kms'.active = FALSE /\ kms'.enabled = FALSE
    BY <1>3, <2>4, LandKeeps DEF Kms
  <2>6. panel' = [p EXCEPT !.on = FALSE, !.asleep = TRUE]
    BY <1>3, <1>5, <2>3 DEF unprepare, disable, Agree
  <2>7. panel'.inited = TRUE /\ panel'.supplies = 1 /\ panel'.on = FALSE /\ panel'.asleep = TRUE
    BY <2>2, <2>6 DEF Panel
  <2> QED BY <2>5, <2>7 DEF Agree
<1> QED BY <1>3, <1>4, <1>5 DEF Kms

LEMMA GlassInit ==
  ASSUME Answers
  PROVE  Init => GlassInv
<1> SUFFICES ASSUME Init PROVE GlassInv
  OBVIOUS
<1>1. Agree(kms, panel)
  BY FirstModeset
<1>2. ~screen_off /\ ~gl.crtc_set
  BY DEF Init
<1> QED BY <1>1, <1>2 DEF GlassInv

LEMMA GlassStep ==
  ASSUME Answers
  PROVE  EventInv /\ PromptInv /\ GlassInv /\ [Next]_vars => GlassInv'
<1> SUFFICES ASSUME EventInv, PromptInv, GlassInv, [Next]_vars PROVE GlassInv'
  OBVIOUS
<1> USE DEF GlassInv
<1>1. TypeOK /\ Owed(kms) <= 2 /\ gl \in Gl /\ kms \in Kms /\ panel \in Panel
  BY DEF EventInv, TypeOK
<1>2. CASE ScreenOff
  BY <1>1, <1>2, GlassScreenOff, ScreenOffOut
<1>3. CASE pc = "loop" /\ ScreenOn
  <2>1. /\ gl'.bo_prev = gl.bo_prev /\ UNCHANGED pc /\ ~screen_off'
        /\ gl'.crtc_set => gl.bo_prev # NoBo /\ Modeset(kms, panel, gl.bo_prev, kms', panel')
        /\ ~gl'.crtc_set => UNCHANGED <<kms, panel>>
    BY <1>1, <1>3, ScreenOnOut
  <2>2. gl.bo_prev \in OptBo
    BY <1>1 DEF Gl
  <2>3. gl'.crtc_set => kms'.scan = gl.bo_prev /\ Agree(kms', panel')
    BY <1>1, <2>1, <2>2, ModesetOut, ModesetAgrees
  <2> QED BY <1>3, <2>1, <2>3
<1>4. CASE PresentNoBuffer
  <2>1. gl'.bo_prev = gl.bo_prev /\ gl'.crtc_set = gl.crtc_set /\ pc = "loop"
        /\ UNCHANGED <<screen_off, kms, panel, pc>>
    BY <1>1, <1>4 DEF PresentNoBuffer, Rendering, Gl
  <2> QED BY <2>1
<1>5. CASE PresentNoFb
  <2>1. gl'.bo_prev = gl.bo_prev /\ gl'.crtc_set = gl.crtc_set /\ pc = "loop"
        /\ UNCHANGED <<screen_off, kms, panel, pc>>
    BY <1>1, <1>5 DEF PresentNoFb, Rendering, Gl
  <2> QED BY <2>1
<1>6. CASE PresentModeset
  <2>1. PICK b \in Bo \ locked :
          /\ gl'.bo_prev = b
          /\ gl'.crtc_set => Modeset(kms, panel, b, kms', panel')
          /\ ~gl'.crtc_set => "commit" \in Faults
          /\ pc = "loop" /\ UNCHANGED <<screen_off, pc>>
    BY <1>1, <1>6, ModesetPresentOut
  <2>2. Modeset(kms, panel, b, kms', panel') /\ b \in OptBo /\ b # NoBo
    BY <2>1, DisplayAssumption DEF Answers, Prompt, OptBo
  <2>3. kms'.scan = b /\ Agree(kms', panel')
    BY <1>1, <2>1, <2>2, ModesetOut, ModesetAgrees
  <2>4. ~screen_off
    BY <1>6 DEF PresentModeset, Rendering
  <2> QED BY <2>1, <2>2, <2>3, <2>4
<1>7. CASE PresentFlip
  <2>1. PICK b \in Bo \ locked :
          gl' = [gl EXCEPT !.bo_cur = b, !.flip_done = FALSE] /\ kms' = [kms EXCEPT !.flip = b]
    BY <1>7 DEF PresentFlip
  <2>2. kms'.flip = b /\ b # NoBo /\ kms'.active = kms.active /\ kms'.enabled = kms.enabled
    BY <1>1, <2>1, DisplayAssumption DEF Kms
  <2>3. pc' = "wait" /\ UNCHANGED <<screen_off, panel>>
    BY <1>7 DEF PresentFlip
  <2> QED BY <2>2, <2>3 DEF Agree
<1>8. ~PresentRefused
  BY DEF PresentRefused, Rendering, PromptInv, Answers, Prompt
<1>9. CASE Vblank
  <2>1. pc = "wait" /\ Waiting
    BY <1>1, <1>9 DEF Vblank, TypeOK, PromptInv
  <2>2. kms' = Land(kms) /\ kms.flip # NoBo /\ UNCHANGED <<gl, screen_off, panel, pc>>
    BY <1>9 DEF Vblank
  <2>3. /\ kms'.scan = kms.flip /\ kms'.active = kms.active /\ kms'.enabled = kms.enabled
    BY <1>1, <2>2, LandKeeps
  <2>4. kms.flip = gl.bo_cur
    BY <2>1, <2>2 DEF Waiting
  <2> QED BY <2>1, <2>2, <2>3, <2>4 DEF Agree
<1>10. CASE WaitEvent
  <2>1. gl'.bo_cur = gl.bo_cur /\ gl'.crtc_set = gl.crtc_set
        /\ UNCHANGED <<screen_off, panel, pc>> /\ pc = "wait"
    BY <1>1, <1>10 DEF WaitEvent, Gl
  <2>2. kms'.scan = kms.scan /\ kms'.flip = kms.flip /\ kms'.active = kms.active
        /\ kms'.enabled = kms.enabled
    BY <1>1, <1>10 DEF WaitEvent, Kms
  <2> QED BY <2>1, <2>2 DEF Agree
<1>11. CASE WaitDone
  <2>1. pc = "wait" /\ pc' = "loop" /\ gl.flip_done /\ Handover(gl, gl.bo_cur)
        /\ UNCHANGED <<screen_off, kms, panel>>
    BY <1>11 DEF WaitDone
  <2>2. gl.bo_cur \in Bo /\ locked \subseteq Bo /\ kms.flip = NoBo
    BY <2>1 DEF EventInv, TypeOK, PromptInv, Waiting
  <2>3. gl'.bo_prev = gl.bo_cur /\ gl'.crtc_set = gl.crtc_set
    BY <1>1, <2>1, <2>2, HandoverOut
  <2> QED BY <2>1, <2>2, <2>3, DisplayAssumption
<1>12. ~WaitQuiet
  BY DEF WaitQuiet, Answers, Prompt
<1>13. CASE UNCHANGED vars
  BY <1>13 DEF vars
<1> QED
  BY <1>2, <1>3, <1>4, <1>5, <1>6, <1>7, <1>8, <1>9, <1>10, <1>11, <1>12, <1>13
  DEF Next, PowerKey, IdleOff, TouchWake, Present, WaitInput, Answers, Prompt

THEOREM GlassAlways ==
  ASSUME Answers
  PROVE  Spec => []GlassInv
<1>1. Spec => []PromptInv
  BY PromptAlways DEF Answers
<1>2. Init => GlassInv
  BY GlassInit
<1>3. EventInv /\ PromptInv /\ GlassInv /\ [Next]_vars => GlassInv'
  BY GlassStep
<1> QED BY <1>1, <1>2, <1>3, EventAlways, PTL DEF Spec

\* set_screen, the CRTC, the glass and the driver agree whenever the power key, the idle
\* timer or a touch has blanked or unblanked, also in the middle of a present.
THEOREM DisplayScreenAgrees ==
  ASSUME Answers
  PROVE  Spec => []ScreenAgrees
<1>1. PromptInv /\ GlassInv /\ TypeOK => ScreenAgrees
  BY DEF PromptInv, GlassInv, Agree, ScreenAgrees, TypeOK, Panel, Kms
<1>2. Spec => []PromptInv
  BY PromptAlways DEF Answers
<1>3. Spec => []GlassInv
  BY GlassAlways
<1> QED BY <1>1, <1>2, <1>3, DisplayTypeOK, PTL

\* However often the host is switched off below it, the panel's supplies are enabled once
\* (huaxing_ft8719_prepare).
THEOREM DisplayPanelPoweredOnce ==
  ASSUME Answers
  PROVE  Spec => []PanelPoweredOnce
<1>1. GlassInv => PanelPoweredOnce
  BY DEF GlassInv, Agree, PanelPoweredOnce
<1>2. Spec => []GlassInv
  BY GlassAlways
<1> QED BY <1>1, <1>2, PTL
=============================================================================
