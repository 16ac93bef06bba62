------------------------------ MODULE HudDisplay ------------------------------
(***************************************************************************)
(* The picture of the HUD: initramfs/ginkgo-status-gpu.c and set_screen of  *)
(* ginkgo-status.c over the panel driver.  The HUD renders into buffers of  *)
(* a GBM surface, puts each on the screen by a modeset or a page flip, and  *)
(* waits for the flip's event; while it waits, it handles input, and the    *)
(* power key then blanks the screen in the middle of the present.           *)
(*                                                                         *)
(* Faults says which operations may fail: commit (drmModeSetCrtc), flip     *)
(* (drmModePageFlip for no reason of its own), fb (drmModeAddFB2), egl      *)
(* (eglMakeCurrent on unblank), swap (no front buffer), dcs (a transfer to  *)
(* the panel), supply (its regulators), and late: a flip may take longer    *)
(* than the 4 quiet polls of 64 ms wait_flip gives it.  A flip that is not  *)
(* late lands within a frame, so that no poll is quiet.                     *)
(*                                                                         *)
(* External: GBM and EGL (which buffers the HUD holds), the kernel's CRTC   *)
(* and its flip events, and the DRM core's calls of the panel.              *)
(***************************************************************************)
EXTENDS PanelDriver

CONSTANTS
  Bo,       \* the buffers of the GBM surface
  NoBo,     \* no buffer
  Faults    \* what may fail

ASSUME DisplayAssumption ==
  /\ NoBo \notin Bo
  /\ Faults \subseteq {"commit", "flip", "fb", "egl", "swap", "dcs", "supply", "late"}

OptBo == Bo \cup {NoBo}

\* The outcomes of an operation.
Tries(f) == IF f \in Faults THEN BOOLEAN ELSE {TRUE}

\* wait_flip gives up after this many quiet polls.
MaxSpins == 4

VARIABLES
  gl,           \* the static variables of ginkgo-status-gpu.c
  screen_off,   \* set_screen's
  locked,       \* external: the buffers GBM handed out and was not given back
  kms,          \* external: the CRTC, and what the DRM core knows of the panel
  panel,        \* the panel driver
  pc,           \* "loop": the main loop outside present; "wait": in wait_flip
  spins         \* quiet polls of this wait_flip

vars == <<gl, screen_off, locked, kms, panel, pc, spins>>

\* current: the EGL context is current.
Gl == [bo_prev : OptBo, bo_cur : OptBo, crtc_set : BOOLEAN, flip_done : BOOLEAN,
       gl_runtime_off : BOOLEAN, current : BOOLEAN]

\* scan: the buffer scanned out (the console's is NoBo); flip: the one that will be
\* at the next vblank; events: flip events not read yet; enabled: drm_panel's flag.
Kms == [active : BOOLEAN, enabled : BOOLEAN, scan : OptBo, flip : OptBo, events : 0 .. 2]

TypeOK ==
  /\ gl \in Gl /\ screen_off \in BOOLEAN /\ locked \subseteq Bo
  /\ kms \in Kms /\ panel \in Panel
  /\ pc \in {"loop", "wait"} /\ spins \in 0 .. (MaxSpins - 1)

-----------------------------------------------------------------------------
(* The kernel *)

\* The pending flip takes effect and its event is queued.
Land(k) ==
  IF k.flip = NoBo THEN k
  ELSE [k EXCEPT !.scan = k.flip, !.flip = NoBo, !.events = @ + 1]

\* A modeset to buffer b takes k and p, the kernel and the panel, to k2 and p2, after
\* the flip that is under way.  The panel is enabled only when the CRTC was off, and
\* only if the DRM core thinks that it is not.
PanelOn(k, p, k2, p2) ==
  \E sup \in Tries("supply"), ok \in Tries("dcs"), lit \in BOOLEAN :
    LET q == prepare(p, sup)
        works(x) == x /\ Powered(q)
    IN  \/ k.enabled /\ k2 = k /\ p2 = q
        \/ ~k.enabled /\ k2 = [k EXCEPT !.enabled = works(ok)] /\ p2 = enable(q, works(ok), works(lit))

Modeset(k, p, b, k2, p2) ==
  \/ k.active /\ k2 = [Land(k) EXCEPT !.scan = b] /\ p2 = p
  \/ ~k.active /\ PanelOn([k EXCEPT !.scan = b, !.active = TRUE], p, k2, p2)

\* The CRTC is switched off: the panel is disabled, then unprepared.
CrtcOff(k, p, k2, p2) ==
  \/ ~k.active /\ k2 = k /\ p2 = p
  \/ /\ k.active
     /\ \E ok \in Tries("dcs") :
          /\ k2 = [Land(k) EXCEPT !.scan = NoBo, !.active = FALSE, !.enabled = @ /\ ~ok]
          /\ p2 = unprepare(IF k.enabled THEN disable(p, ok) ELSE p)

-----------------------------------------------------------------------------
(* hud_gl_blank, called by set_screen *)

\* The write of 1 to panel_sleep; the host is off with the CRTC.
panel_dcs_sleep(ok) == panel_sleep_store(panel, TRUE, ok /\ kms.active)

disable_crtc(p, k2, p2) ==
  \/ CrtcOff(kms, p, k2, p2)
  \/ "commit" \in Faults /\ k2 = kms /\ p2 = p

\* Mutant: the HUD believes that its mode is still set.
ScreenOff_KeepsCrtcSet ==
  /\ ~screen_off
  /\ screen_off' = TRUE
  /\ gl' = [gl EXCEPT !.current = FALSE, !.gl_runtime_off = TRUE]
  /\ \E ok \in Tries("dcs") : disable_crtc(panel_dcs_sleep(ok), kms', panel')
  /\ UNCHANGED <<locked, pc, spins>>

\* set_screen(0)
ScreenOff ==
  /\ ~screen_off
  /\ screen_off' = TRUE
  /\ gl' = [gl EXCEPT !.crtc_set = FALSE, !.current = FALSE, !.gl_runtime_off = TRUE]
  /\ \E ok \in Tries("dcs") : disable_crtc(panel_dcs_sleep(ok), kms', panel')
  /\ UNCHANGED <<locked, pc, spins>>

\* Mutant: the modeset is taken to have worked.
ScreenOn_Trusting ==
  /\ screen_off
  /\ screen_off' = FALSE
  /\ gl' = [gl EXCEPT !.crtc_set = TRUE, !.gl_runtime_off = FALSE, !.current = TRUE]
  /\ \/ UNCHANGED <<kms, panel>>
     \/ Modeset(kms, panel, gl.bo_prev, kms', panel')
  /\ UNCHANGED <<locked, pc, spins>>

\* set_screen(1)
ScreenOn ==
  /\ screen_off
  /\ screen_off' = FALSE
  /\ \E made \in Tries("egl"), set \in (IF gl.bo_prev = NoBo THEN {FALSE} ELSE Tries("commit")) :
       /\ gl' = [gl EXCEPT !.crtc_set = set, !.gl_runtime_off = FALSE,
                           !.current = IF gl.gl_runtime_off THEN made ELSE @]
       /\ IF set THEN Modeset(kms, panel, gl.bo_prev, kms', panel') ELSE UNCHANGED <<kms, panel>>
  /\ UNCHANGED <<locked, pc, spins>>

PowerKey == pc = "loop" /\ (ScreenOff \/ ScreenOn)
IdleOff == pc = "loop" /\ ScreenOff
TouchWake == pc = "loop" /\ ScreenOn

-----------------------------------------------------------------------------
(* hud_gl_present *)

\* Mutant: the frame shown before is kept locked.
Handover_NoRelease(g, b) ==
  /\ gl' = [g EXCEPT !.bo_prev = b, !.bo_cur = NoBo]
  /\ locked' = locked \cup {b}

\* Mutant: bo_prev is set before it is released.
Handover_Swapped(g, b) ==
  /\ gl' = [g EXCEPT !.bo_prev = b, !.bo_cur = NoBo]
  /\ locked' = locked \ {b}

\* The end of hud_gl_present for buffer b: the one before goes back to GBM.
Handover(g, b) ==
  /\ gl' = [g EXCEPT !.bo_prev = b, !.bo_cur = NoBo]
  /\ locked' = (locked \cup {b}) \ {gl.bo_prev}

Rendering == pc = "loop" /\ ~screen_off

\* Without a current context nothing is swapped, and GBM renders into free buffers.
PresentNoBuffer ==
  /\ Rendering
  /\ ~gl.current \/ locked = Bo \/ "swap" \in Faults
  /\ gl' = [gl EXCEPT !.bo_cur = NoBo]
  /\ UNCHANGED <<screen_off, locked, kms, panel, pc, spins>>

PresentNoFb ==
  /\ Rendering
  /\ gl.current
  /\ "fb" \in Faults
  /\ \E b \in Bo \ locked : gl' = [gl EXCEPT !.bo_cur = b] /\ locked' = locked \cup {b}
  /\ UNCHANGED <<screen_off, kms, panel, pc, spins>>

PresentModeset ==
  /\ Rendering
  /\ gl.current
  /\ ~gl.crtc_set
  /\ \E b \in Bo \ locked, set \in Tries("commit") :
       /\ Handover([gl EXCEPT !.crtc_set = set], b)
       /\ IF set THEN Modeset(kms, panel, b, kms', panel') ELSE UNCHANGED <<kms, panel>>
  /\ UNCHANGED <<screen_off, pc, spins>>

\* Mutant: flip_done is not reset.
PresentFlip_KeepsFlipDone ==
  /\ Rendering /\ gl.current /\ gl.crtc_set
  /\ kms.active /\ kms.flip = NoBo
  /\ \E b \in Bo \ locked :
       gl' = [gl EXCEPT !.bo_cur = b] /\ locked' = locked \cup {b} /\ kms' = [kms EXCEPT !.flip = b]
  /\ pc' = "wait" /\ spins' = 0
  /\ UNCHANGED <<screen_off, panel>>

\* The kernel takes one flip at a time.
PresentFlip ==
  /\ Rendering
  /\ gl.current
  /\ gl.crtc_set
  /\ kms.active /\ kms.flip = NoBo
  /\ \E b \in Bo \ locked :
       /\ gl' = [gl EXCEPT !.bo_cur = b, !.flip_done = FALSE]
       /\ locked' = locked \cup {b}
       /\ kms' = [kms EXCEPT !.flip = b]
  /\ pc' = "wait" /\ spins' = 0
  /\ UNCHANGED <<screen_off, panel>>

PresentRefused ==
  /\ Rendering
  /\ gl.current
  /\ gl.crtc_set
  /\ ~kms.active \/ kms.flip # NoBo \/ "flip" \in Faults
  /\ \E b \in Bo \ locked : Handover([gl EXCEPT !.flip_done = FALSE], b)
  /\ UNCHANGED <<screen_off, kms, panel, pc, spins>>

Present == PresentNoBuffer \/ PresentNoFb \/ PresentModeset \/ PresentFlip \/ PresentRefused

-----------------------------------------------------------------------------
(* wait_flip *)

\* External.
Vblank ==
  /\ kms.flip # NoBo
  /\ kms' = Land(kms)
  /\ UNCHANGED <<gl, screen_off, locked, panel, pc, spins>>

\* Mutant: the wait ends with the screen.
WaitEvent_EndsOnBlank ==
  /\ pc = "wait" /\ ~gl.flip_done
  /\ kms.events > 0 \/ screen_off
  /\ kms' = [kms EXCEPT !.events = IF screen_off THEN @ ELSE 0]
  /\ gl' = [gl EXCEPT !.flip_done = TRUE]
  /\ UNCHANGED <<screen_off, locked, panel, pc, spins>>

\* drmHandleEvent reads every event there is, whichever flip it was for.
WaitEvent ==
  /\ pc = "wait" /\ ~gl.flip_done
  /\ kms.events > 0
  /\ kms' = [kms EXCEPT !.events = 0]
  /\ gl' = [gl EXCEPT !.flip_done = TRUE]
  /\ UNCHANGED <<screen_off, locked, panel, pc, spins>>

\* gl_idle is drain_inputs.  A second power key is 400 ms after the first at the earliest
\* and a touch wakes after 3 s, so that only a wait for a late flip sees an unblank.
WaitInput == pc = "wait" /\ (ScreenOff \/ ("late" \in Faults /\ ScreenOn))

WaitDone ==
  /\ pc = "wait" /\ gl.flip_done
  /\ Handover(gl, gl.bo_cur)
  /\ pc' = "loop"
  /\ UNCHANGED <<screen_off, kms, panel, spins>>

WaitQuiet ==
  /\ pc = "wait" /\ ~gl.flip_done
  /\ kms.events = 0 /\ "late" \in Faults
  /\ IF spins + 1 < MaxSpins
     THEN spins' = spins + 1 /\ UNCHANGED <<gl, locked, pc>>
     ELSE Handover(gl, gl.bo_cur) /\ pc' = "loop" /\ UNCHANGED spins
  /\ UNCHANGED <<screen_off, kms, panel>>

-----------------------------------------------------------------------------
\* The console has the CRTC on when the HUD starts; the panel's first enable may
\* have failed.
Init ==
  /\ gl = [bo_prev |-> NoBo, bo_cur |-> NoBo, crtc_set |-> FALSE, flip_done |-> FALSE,
           gl_runtime_off |-> FALSE, current |-> TRUE]
  /\ screen_off = FALSE /\ locked = {}
  /\ Modeset([active |-> FALSE, enabled |-> FALSE, scan |-> NoBo, flip |-> NoBo, events |-> 0],
             Fresh, NoBo, kms, panel)
  /\ pc = "loop" /\ spins = 0

Next ==
  \/ PowerKey \/ IdleOff \/ TouchWake \/ Present
  \/ Vblank \/ WaitEvent \/ WaitInput \/ WaitDone \/ WaitQuiet

Spec == Init /\ [][Next]_vars

\* The loop does not block, the kernel sends the event of every flip, and a modeset
\* or a render that is tried for ever succeeds in the end.
Fairness ==
  /\ WF_vars(Vblank)
  /\ WF_vars(WaitEvent \/ WaitDone)
  /\ WF_vars(Present)
  /\ SF_vars(PresentModeset /\ gl'.crtc_set)

FairSpec == Spec /\ Fairness

-----------------------------------------------------------------------------
(* Properties *)

\* No tearing: a buffer that is on the screen, or is about to be, is not given back to
\* GBM, which would render into it.  wait_flip and the order of bo_prev and bo_cur see to
\* it, also when the power key blanks the screen in the middle of a present.
ScanoutHeld == {kms.scan, kms.flip} \ {NoBo} \subseteq locked

\* An event read by one wait is never left over from another flip.
NoStaleEvent == pc = "loop" => kms.events = 0 /\ kms.flip = NoBo

\* What GBM handed out is what the two pointers hold, so that with three buffers there is
\* always one to render into: no failure of a flip, a modeset or a wait loses one.
HeldIsKnown ==
  /\ locked = {gl.bo_prev, gl.bo_cur} \ {NoBo}
  /\ gl.bo_cur # NoBo => pc = "wait" /\ gl.bo_cur # gl.bo_prev

\* set_screen, the CRTC, the glass and the driver's asleep agree, whatever was under way
\* when the screen was blanked, and after an unblank the last frame is back at once.
ScreenAgrees ==
  /\ screen_off => ~kms.active /\ ~panel.on /\ panel.asleep
  /\ gl.crtc_set => kms.active /\ panel.on /\ ~panel.asleep
  /\ gl.crtc_set /\ pc = "loop" => gl.bo_prev # NoBo /\ kms.scan = gl.bo_prev

\* The panel's supplies are enabled and its reset pulsed once, however often the host
\* below it goes away (the comment in hud_gl_blank: "no longer GPIO-resets").
PanelPoweredOnce == panel.supplies = 1

\* A HUD that is on gets its frames on the screen in the end, though modesets, flips and
\* panel commands fail and flips are late.
FramesComeBack == (~screen_off) ~> (screen_off \/ kms.scan # NoBo)

\* hud_gl_blank: "Unblank modesets first so enable() can send 0x29 with the host on."
UnblankLights == gl.crtc_set => panel.on
=============================================================================
