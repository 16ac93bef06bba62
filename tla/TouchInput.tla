----------------------------- MODULE TouchInput -----------------------------
(***************************************************************************)
(* Touch input of the HUD, with the screen and the backlight it drives:      *)
(* handle_ev and what it calls in initramfs/ginkgo-status.c.                *)
(*                                                                         *)
(* The kernel keeps the fingers in slots and queues one frame per change;   *)
(* the HUD reads the frames later, and at each SYN asks the kernel for the  *)
(* slots as they are NOW (EVIOCGMTSLOTS).  A queue that overflows becomes   *)
(* one SYN_DROPPED.  The power key, the idle timer and the jobs that open   *)
(* and close sheets come at any time between two frames.                    *)
(*                                                                         *)
(* Abstractions.  There are two places: 1 is on a key when the password     *)
(* sheet is up, and 1 and 2 are two brightnesses when the bar is under      *)
(* them; whether it is, or a list that scrolls, is a choice.  A coordinate  *)
(* of 0, which the code takes for "unknown", is none of them.  Durations    *)
(* and distances are choices; a frame falls into a time window as a whole.  *)
(* What a tap does is that it may change the sheet.  Devices without slots  *)
(* are left out.                                                           *)
(***************************************************************************)
EXTENDS Naturals, Sequences, FiniteSets

CONSTANTS
  N,       \* the slots are 1..N
  MaxId,   \* the touches of a behaviour, numbered by their tracking id
  QMax     \* the frames the kernel queues

ASSUME TouchAssumption == N \in Nat \ {0} /\ MaxId \in Nat /\ QMax \in Nat \ {0}

Slot == 1..N
Id == 1..MaxId
NoId == 0
Same == MaxId + 1                 \* in a frame: no ABS_MT_TRACKING_ID
Pos == 1..2
Frame == [slot : 0..N, id : 0..Same, pos : 0..2]   \* slot 0 and pos 0: no such event
Dropped == [slot |-> 0, id |-> Same, pos |-> 0]

VARIABLES
  kern,   \* the kernel: the slots, the slot last named, the next tracking id
  queue,  \* its frames, oldest first
  hud,    \* the static variables of ginkgo-status.c
  tapped, \* the touches that have tapped
  again   \* a touch did so twice

vars == <<kern, queue, hud, tapped, again>>

Kern == [slot : [Slot -> [id : {NoId} \cup Id, pos : Pos]], cur : Slot, next : 1..(MaxId + 1)]
Hud == [off : BOOLEAN,
        mute : BOOLEAN,     \* within 250 ms of t_unblank, or dark and within 3 s of t_blank
        pass : BOOLEAN,     \* the password sheet is up
        cur : Slot,         \* mt_cur
        mt : [Slot -> [id : {NoId} \cup Id, pos : Pos, have : BOOLEAN, fresh : BOOLEAN]],
        got : BOOLEAN,      \* mt_got_pos
        bind : 0..N,        \* mt_bind_slot, 0 for none
        id : {NoId} \cup Id, pos : Pos, down : Pos,   \* slot_id, slot_x/y, down_x/y
        armed : BOOLEAN, dragging : BOOLEAN, dragging_bl : BOOLEAN,
        osk_held : BOOLEAN, osk_hi : BOOLEAN,
        bl_pct : 1..2, bl_keep : 1..2, lamp : 0..2]

TypeOK ==
  /\ kern \in Kern /\ hud \in Hud /\ queue \in Seq(Frame) /\ Len(queue) <= QMax
  /\ tapped \subseteq Id /\ again \in BOOLEAN

-----------------------------------------------------------------------------
(* The kernel *)

Push(f) == queue' = IF Len(queue) < QMax THEN Append(queue, f) ELSE <<Dropped>>

\* The input core sends only what changes.
Report(s, id, p) ==
  /\ Push([slot |-> IF s = kern.cur THEN 0 ELSE s,
           id |-> IF id = kern.slot[s].id THEN Same ELSE id,
           pos |-> IF p = kern.slot[s].pos THEN 0 ELSE p])
  /\ kern' = [kern EXCEPT !.slot[s] = [id |-> id, pos |-> p], !.cur = s,
                          !.next = IF id = @ THEN @ + 1 ELSE @]
  /\ UNCHANGED <<hud, tapped, again>>

Land(s) == kern.slot[s].id = NoId /\ kern.next <= MaxId /\ \E p \in Pos : Report(s, kern.next, p)
Move(s) == kern.slot[s].id # NoId /\ \E p \in Pos \ {kern.slot[s].pos} : Report(s, kern.slot[s].id, p)
Lift(s) == kern.slot[s].id # NoId /\ Report(s, NoId, kern.slot[s].pos)

-----------------------------------------------------------------------------
(* The screen and the backlight *)

\* Mutant: a drag of the brightness bar outlives the reset.
reset_touch_KeepsDrag(h) ==
  [h EXCEPT !.cur = 1, !.got = FALSE, !.bind = 0, !.id = NoId, !.armed = FALSE, !.dragging = FALSE,
            !.mt = [s \in Slot |-> [@[s] EXCEPT !.id = NoId, !.have = FALSE, !.fresh = FALSE]]]

\* A key that is held stays held.
reset_touch(h) ==
  [h EXCEPT !.cur = 1, !.got = FALSE, !.bind = 0, !.id = NoId,
            !.armed = FALSE, !.dragging = FALSE, !.dragging_bl = FALSE,
            !.mt = [s \in Slot |-> [@[s] EXCEPT !.id = NoId, !.have = FALSE, !.fresh = FALSE]]]

apply_bl_pct(h, pct) == [h EXCEPT !.bl_pct = pct, !.lamp = pct]
commit_bl(h) == [h EXCEPT !.bl_keep = h.bl_pct]

ScreenOn(h) == apply_bl_pct([reset_touch(h) EXCEPT !.off = FALSE, !.mute = TRUE], h.bl_keep)

\* Mutant: a brightness that was not let go of stays.
ScreenOff_KeepsPct(h) == [reset_touch(h) EXCEPT !.off = TRUE, !.mute = TRUE, !.lamp = 0]

ScreenOff(h) ==
  [reset_touch(h) EXCEPT !.off = TRUE, !.mute = TRUE, !.lamp = 0,
                         !.bl_pct = IF h.dragging_bl THEN h.bl_keep ELSE @]

-----------------------------------------------------------------------------
(* A frame: its ABS events, then its SYN *)

mt_tracking(m, id) ==
  IF id = Same THEN m
  ELSE IF id = NoId THEN [m EXCEPT !.id = NoId, !.have = FALSE] ELSE [m EXCEPT !.id = id]
mt_note_pos(m, p) == IF p = 0 THEN m ELSE [m EXCEPT !.pos = p, !.have = TRUE, !.fresh = TRUE]

Abs(h, f) ==
  LET s == IF f.slot = 0 THEN h.cur ELSE f.slot
  IN  [h EXCEPT !.cur = s, !.mt[s] = mt_note_pos(mt_tracking(@, f.id), f.pos),
                !.got = @ \/ f.pos # 0]

\* Mutant: the slots are not asked for.
mt_sync_from_kernel_Skipped(h) == h

mt_sync_from_kernel(h) ==
  [h EXCEPT !.mt = [s \in Slot |->
     LET k == kern.slot[s]
         m == @[s]
     IN  [id |-> k.id,
          pos |-> IF k.id = NoId THEN 1 ELSE IF m.have THEN m.pos ELSE k.pos,
          have |-> k.id # NoId,
          fresh |-> m.fresh \/ (k.id # NoId /\ k.id # m.id)]]]

mt_clear_fresh(h) == [h EXCEPT !.mt = [s \in Slot |-> [@[s] EXCEPT !.fresh = FALSE]]]

\* The slots with a finger, and those that may be the finger.
Raw(h) == {s \in Slot : h.mt[s].id # NoId}
Fingers(h) == {s \in Raw(h) : h.mt[s].have /\ h.mt[s].fresh}
mt_finger(h) == IF Cardinality(Fingers(h)) = 1 THEN CHOOSE s \in Slot : s \in Fingers(h) ELSE 0

\* Mutant: a contact under way needs an event in every frame.
Bound_Fresh(h) == mt_finger(h)

Bound(h) ==
  IF h.armed /\ h.bind # 0
  THEN IF h.mt[h.bind].id # NoId /\ h.mt[h.bind].have THEN h.bind ELSE 0
  ELSE mt_finger(h)

mt_bind_primary(h) ==
  LET s == Bound(h)
  IN  IF s = 0 THEN [h EXCEPT !.bind = 0, !.id = NoId]
      ELSE [h EXCEPT !.bind = s, !.id = h.mt[s].id, !.pos = h.mt[s].pos]

\* Nothing is pressed while the sheet is still rising.
osk_on_down(h) ==
  {h} \cup (IF h.pass /\ h.pos = 1
            THEN {[h EXCEPT !.osk_held = TRUE, !.osk_hi = TRUE]} ELSE {})
osk_on_move(h) == [h EXCEPT !.osk_hi = h.pos = 1]

Contact(h) ==
  osk_on_down([h EXCEPT !.down = h.pos, !.armed = TRUE, !.dragging = FALSE,
                        !.dragging_bl = FALSE, !.got = FALSE])

\* A drag of the bar starts or goes on, the list scrolls, a jump moves the point the
\* slide is measured from, or nothing.
Slide(h) ==
  IF h.dragging_bl THEN {apply_bl_pct(h, h.pos)}
  ELSE {h} \cup {[h EXCEPT !.down = h.pos, !.dragging = x] : x \in {h.dragging, h.dragging \/ ~h.pass}}
       \cup (IF ~h.dragging /\ ~h.pass /\ h.pos # h.down
             THEN {apply_bl_pct([h EXCEPT !.dragging = TRUE, !.dragging_bl = TRUE], h.pos)} ELSE {})

Moved(h) ==
  LET pressed == IF h.osk_held THEN {osk_on_move(h)} ELSE osk_on_down(h)
  IN  IF h.pass /\ ~h.dragging_bl
      THEN UNION {IF g.osk_held THEN {g} ELSE Slide(g) : g \in pressed}
      ELSE Slide(h)

\* The finger has gone: <<state, whether it tapped>>.  A key that is held takes the
\* release, whichever touch it was held by, and may submit the password.
Released(h) ==
  LET g == IF h.dragging_bl THEN commit_bl(h) ELSE h
      done == [g EXCEPT !.dragging = FALSE, !.dragging_bl = FALSE, !.armed = FALSE]
  IN  IF h.osk_held
      THEN {<<[done EXCEPT !.osk_held = FALSE, !.osk_hi = FALSE, !.pass = t], FALSE>> :
              t \in {h.pass, h.pass /\ h.pos # 1 /\ ~h.osk_hi}}
      ELSE {<<done, FALSE>>}
           \cup (IF ~h.dragging /\ h.armed
                 THEN {<<[done EXCEPT !.pass = t], TRUE>> : t \in BOOLEAN}
                 ELSE {})

\* Every outcome of a SYN on a lit screen.
Syn(h) ==
  LET b == mt_bind_primary(mt_sync_from_kernel(h))
      only(S) == {<<g, FALSE>> : g \in S}
  IN  IF Cardinality(Raw(b)) > 1 /\ ~b.armed /\ h.id = NoId THEN only({b})
      ELSE IF b.id = NoId THEN IF h.id # NoId THEN Released(b) ELSE only({b})
      ELSE IF ~b.armed THEN only(Contact(b))
      ELSE IF ~b.got THEN only({b})
      ELSE only(Moved([b EXCEPT !.got = FALSE]))

\* On a dark screen a finger only wakes it.
Wake(h) == LET b == mt_sync_from_kernel(h) IN IF mt_finger(b) # 0 THEN ScreenOn(b) ELSE b

Act(r) ==
  /\ hud' = mt_clear_fresh(r[1])
  /\ tapped' = IF r[2] THEN tapped \cup {hud.id} ELSE tapped
  /\ again' = (again \/ (r[2] /\ hud.id \in tapped))

handle_ev ==
  /\ queue # <<>> /\ queue' = Tail(queue) /\ UNCHANGED kern
  /\ LET h == Abs(hud, Head(queue))
     IN  IF hud.mute THEN UNCHANGED <<hud, tapped, again>>
         ELSE IF hud.off THEN hud' = mt_clear_fresh(Wake(h)) /\ UNCHANGED <<tapped, again>>
         ELSE \E r \in Syn(h) : Act(r)

-----------------------------------------------------------------------------
(* The rest of the world *)

\* KEY_POWER, or the idle timer of main (which only blanks, without a sheet).
Power ==
  /\ hud' = IF hud.off THEN ScreenOn(hud) ELSE ScreenOff(hud)
  /\ UNCHANGED <<kern, queue, tapped, again>>

Later ==
  /\ hud.mute /\ hud' = [hud EXCEPT !.mute = FALSE]
  /\ UNCHANGED <<kern, queue, tapped, again>>

\* A job ends: poll_job, maybe_confirm_join.
JobSheet ==
  /\ hud' = [hud EXCEPT !.pass = ~@]
  /\ UNCHANGED <<kern, queue, tapped, again>>

Init ==
  /\ kern = [slot |-> [s \in Slot |-> [id |-> NoId, pos |-> 1]], cur |-> 1, next |-> 1]
  /\ queue = <<>> /\ tapped = {} /\ again = FALSE
  /\ \E b \in 1..2 :
       hud = [off |-> FALSE, mute |-> TRUE, pass |-> FALSE, cur |-> 1,
              mt |-> [s \in Slot |-> [id |-> NoId, pos |-> 1, have |-> FALSE, fresh |-> FALSE]],
              got |-> FALSE, bind |-> 0, id |-> NoId, pos |-> 1, down |-> 1,
              armed |-> FALSE, dragging |-> FALSE, dragging_bl |-> FALSE,
              osk_held |-> FALSE, osk_hi |-> FALSE, bl_pct |-> b, bl_keep |-> b, lamp |-> b]

Next ==
  \/ \E s \in Slot : Land(s) \/ Move(s) \/ Lift(s)
  \/ handle_ev \/ Power \/ Later \/ JobSheet

Spec == Init /\ [][Next]_vars

-----------------------------------------------------------------------------
(* Properties *)

\* "Extra leftover slots must not abort a live finger": a contact ends only when its
\* finger has gone, or the screen with it.
LiveFingerKept ==
  [][hud.armed /\ ~hud'.armed /\ ~hud'.off => kern.slot[hud.bind].id = NoId]_vars

\* No touch taps twice, on the sheet its first tap opened.
OneTapPerTouch == ~again

\* When every finger has gone and the HUD has read that, nothing is held down or dragged.
NothingStuck ==
  queue = <<>> /\ (\A s \in Slot : kern.slot[s].id = NoId) =>
     ~hud.armed /\ ~hud.dragging_bl /\ hud.id = NoId

\* A dark screen's lamp is off, a lit one shines as the bar says, and a brightness that
\* is not being dragged is the one that is kept.
BrightnessAgrees ==
  /\ hud.lamp = IF hud.off THEN 0 ELSE hud.bl_pct
  /\ hud.dragging_bl \/ hud.bl_pct = hud.bl_keep
=============================================================================
