-------------------------- MODULE TouchInputProofs --------------------------
(***************************************************************************)
(* What touch input keeps true for any number of slots and touches and any *)
(* length of the kernel's queue.                                           *)
(***************************************************************************)
EXTENDS TouchInput, FiniteSetTheorems, TLAPS

\* The inductive invariant.  First the HUD alone: a finger that is bound has a slot
\* and a lit screen, a contact has a finger, a drag has a contact, and the brightness
\* is the one shown and, unless it is being dragged, the one kept.
Bright(h) ==
  /\ h.lamp = IF h.off THEN 0 ELSE h.bl_pct
  /\ h.dragging_bl \/ h.bl_pct = h.bl_keep
Fine(h) ==
  /\ h \in Hud /\ Bright(h)
  /\ h.id # NoId => h.bind \in Slot /\ ~h.off /\ ~h.mute
  /\ h.armed => h.id # NoId
  /\ h.dragging_bl => h.armed

\* The kernel numbers touches: no two slots have the same one, and none has a later one.
KernOK ==
  /\ kern \in Kern
  /\ \A s \in Slot : kern.slot[s].id < kern.next
  /\ \A s, t \in Slot : kern.slot[s].id # NoId /\ kern.slot[s].id = kern.slot[t].id => s = t

\* The finger that is bound is where the HUD has it, or gone; and if it is gone, a frame
\* that says so is still to be read.
BoundOK ==
  /\ hud.id < kern.next
  /\ \A s \in Slot : hud.id # NoId /\ kern.slot[s].id = hud.id => s = hud.bind
  /\ hud.id # NoId /\ queue = <<>> => kern.slot[hud.bind].id = hud.id

\* A touch that tapped has gone for good.
TappedOK ==
  /\ again = FALSE /\ tapped \subseteq Id
  /\ \A i \in tapped : i < kern.next /\ i # hud.id /\ \A s \in Slot : kern.slot[s].id # i

QueueOK == queue \in Seq(Frame) /\ Len(queue) <= QMax

Inv == Fine(hud) /\ KernOK /\ BoundOK /\ TappedOK /\ QueueOK

\* What the HUD keeps of a slot.
Mt == [id : {NoId} \cup Id, pos : Pos, have : BOOLEAN, fresh : BOOLEAN]

\* What the reading of a frame leaves alone, of what Fine speaks of.
Keeps(h, x) ==
  /\ x.off = h.off /\ x.mute = h.mute /\ x.armed = h.armed /\ x.dragging_bl = h.dragging_bl
  /\ x.bl_pct = h.bl_pct /\ x.bl_keep = h.bl_keep /\ x.lamp = h.lamp

LEMMA KeepsFine ==
  ASSUME NEW h, NEW x \in Hud, Fine(h), Keeps(h, x), x.id = h.id, x.bind = h.bind
  PROVE  Fine(x)
BY DEF Fine, Bright, Keeps

-----------------------------------------------------------------------------
(* Reading a frame *)

LEMMA AbsFine ==
  ASSUME NEW h, Fine(h), NEW f \in Frame
  PROVE  LET x == Abs(h, f) IN Fine(x) /\ Keeps(h, x) /\ x.id = h.id /\ x.bind = h.bind
<1> DEFINE s == IF f.slot = 0 THEN h.cur ELSE f.slot
           m == mt_note_pos(mt_tracking(h.mt[s], f.id), f.pos)
           x == [h EXCEPT !.cur = s, !.mt[s] = m, !.got = @ \/ f.pos # 0]
<1>1. s \in Slot
  BY TouchAssumption DEF Fine, Hud, Frame, Slot
<1>2. m \in Mt
  <2> DEFINE e == h.mt[s]
             t == mt_tracking(e, f.id)
  <2>1. e \in Mt
    BY <1>1 DEF Fine, Hud, Mt
  <2> HIDE DEF e
  <2>2. f.id = Same \/ f.id = NoId \/ f.id \in Id
    BY TouchAssumption DEF Frame, Same, NoId, Id
  <2>3. f.pos = 0 \/ f.pos \in Pos
    BY DEF Frame, Pos
  <2>4. t \in Mt
    <3>1. CASE f.id = Same
      BY <2>1, <3>1 DEF mt_tracking
    <3>2. CASE f.id # Same /\ f.id = NoId
      <4>1. [e EXCEPT !.id = NoId, !.have = FALSE] \in Mt
        BY <2>1 DEF Mt
      <4> QED BY <3>2, <4>1 DEF mt_tracking
    <3>3. CASE f.id # Same /\ f.id # NoId
      <4>1. [e EXCEPT !.id = f.id] \in Mt
        BY <2>1, <2>2, <3>3 DEF Mt
      <4> QED BY <3>3, <4>1 DEF mt_tracking
    <3> QED BY <3>1, <3>2, <3>3
  <2> HIDE DEF t
  <2>5. mt_note_pos(t, f.pos) \in Mt
    <3>1. f.pos # 0 => [t EXCEPT !.pos = f.pos, !.have = TRUE, !.fresh = TRUE] \in Mt
      BY <2>3, <2>4 DEF Mt
    <3> QED BY <2>4, <3>1 DEF mt_note_pos
  <2> QED BY <2>5 DEF t, e
<1>3. Abs(h, f) = x
  BY DEF Abs
<1> HIDE DEF s, m
<1>4. x \in Hud /\ Keeps(h, x) /\ x.id = h.id /\ x.bind = h.bind
  BY <1>1, <1>2 DEF Fine, Hud, Keeps, Mt
<1> HIDE DEF x
<1> QED BY <1>3, <1>4, KeepsFine

LEMMA SyncFine ==
  ASSUME NEW h, Fine(h), KernOK
  PROVE  LET x == mt_sync_from_kernel(h)
         IN  /\ Fine(x) /\ Keeps(h, x) /\ x.id = h.id /\ x.bind = h.bind
             /\ \A s \in Slot : x.mt[s].id = kern.slot[s].id /\ x.mt[s].have = (kern.slot[s].id # NoId)
<1> DEFINE e(s) == LET k == kern.slot[s]
                       m == h.mt[s]
                   IN  [id |-> k.id,
                        pos |-> IF k.id = NoId THEN 1 ELSE IF m.have THEN m.pos ELSE k.pos,
                        have |-> k.id # NoId,
                        fresh |-> m.fresh \/ (k.id # NoId /\ k.id # m.id)]
           t == [s \in Slot |-> e(s)]
           x == [h EXCEPT !.mt = t]
<1>1. mt_sync_from_kernel(h) = x
  BY DEF mt_sync_from_kernel, Fine, Hud
<1>2. ASSUME NEW s \in Slot
      PROVE  /\ e(s) \in Mt
             /\ e(s).id = kern.slot[s].id /\ e(s).have = (kern.slot[s].id # NoId)
  BY DEF KernOK, Kern, Fine, Hud, Pos, Mt
<1> HIDE DEF e
<1>3. /\ t \in [Slot -> Mt]
      /\ \A s \in Slot : t[s].id = kern.slot[s].id /\ t[s].have = (kern.slot[s].id # NoId)
  BY <1>2
<1> HIDE DEF t
<1>4. x \in Hud /\ Keeps(h, x) /\ x.id = h.id /\ x.bind = h.bind /\ x.mt = t
  BY <1>3 DEF Fine, Hud, Keeps, Mt
<1> HIDE DEF x
<1> QED BY <1>1, <1>3, <1>4, KeepsFine

\* The one finger there may be has an id.
LEMMA FingerHasId ==
  ASSUME NEW h, mt_finger(h) # 0
  PROVE  mt_finger(h) \in Slot /\ h.mt[mt_finger(h)].id # NoId
<1>1. Cardinality(Fingers(h)) = 1 /\ mt_finger(h) = CHOOSE s \in Slot : s \in Fingers(h)
  BY DEF mt_finger
<1>2. Fingers(h) # {}
  BY <1>1, FS_EmptySet
<1>3. \E s \in Slot : s \in Fingers(h)
  BY <1>2 DEF Fingers, Raw
<1>4. mt_finger(h) \in Slot /\ mt_finger(h) \in Fingers(h)
  BY <1>1, <1>3
<1> QED BY <1>4 DEF Fingers, Raw

-----------------------------------------------------------------------------
(* A SYN on a lit screen *)

\* h is a HUD state that has just asked the kernel for the slots.
Synced(h) ==
  \A s \in Slot : h.mt[s].id = kern.slot[s].id /\ h.mt[s].have = (kern.slot[s].id # NoId)

\* The finger that is bound is one the kernel has now.
Seen(h) == h.id # NoId => h.bind \in Slot /\ kern.slot[h.bind].id = h.id

\* A contact keeps its slot as long as the kernel has a finger there.
LEMMA BindFine ==
  ASSUME NEW h, Fine(h), KernOK, Synced(h), ~h.off, ~h.mute
  PROVE  LET b == mt_bind_primary(h)
         IN  /\ b \in Hud /\ Keeps(h, b) /\ Seen(b)
             /\ h.armed /\ b.id = NoId => kern.slot[h.bind].id = NoId
<1> DEFINE s == Bound(h)
           a == [h EXCEPT !.bind = 0, !.id = NoId]
           c == [h EXCEPT !.bind = s, !.id = h.mt[s].id, !.pos = h.mt[s].pos]
           b == mt_bind_primary(h)
<1>1. s # 0 => s \in Slot /\ h.mt[s].id # NoId
  BY FingerHasId DEF Bound, Fine
<1>2. h.armed /\ s = 0 => kern.slot[h.bind].id = NoId
  <2>1. h.armed => h.bind \in Slot /\ h.bind # 0
    BY TouchAssumption DEF Fine, Slot
  <2> QED BY <2>1, TouchAssumption DEF Bound, Synced, Slot
<1>3. b = IF s = 0 THEN a ELSE c
  BY DEF mt_bind_primary
<1> HIDE DEF s, b
<1>4. a \in Hud /\ Keeps(h, a) /\ a.id = NoId
  <2>1. 0 \in 0..N
    BY TouchAssumption
  <2> QED BY <2>1 DEF Fine, Hud, Keeps
<1>5. s # 0 => /\ c \in Hud /\ Keeps(h, c) /\ c.id = kern.slot[s].id
               /\ c.bind = s /\ c.id # NoId
  <2> SUFFICES ASSUME s # 0
               PROVE  /\ c \in Hud /\ Keeps(h, c) /\ c.id = kern.slot[s].id
                      /\ c.bind = s /\ c.id # NoId
    OBVIOUS
  <2>1. s \in Slot /\ s \in 0..N /\ h.mt[s] \in Mt /\ h.mt[s].id = kern.slot[s].id
    <3>1. s \in Slot /\ s \in 0..N
      BY <1>1, TouchAssumption DEF Slot
    <3> QED BY <3>1 DEF Fine, Hud, Mt, Synced
  <2> DEFINE m == h.mt[s]
             d == [h EXCEPT !.bind = s, !.id = m.id, !.pos = m.pos]
  <2>2. m.id \in {NoId} \cup Id /\ m.pos \in Pos
    BY <2>1 DEF Mt
  <2>3. m.id = kern.slot[s].id /\ m.id # NoId
    BY <1>1, <2>1
  <2> HIDE DEF m
  <2>4. d \in Hud /\ Keeps(h, d) /\ d.id = m.id /\ d.bind = s
    BY <2>1, <2>2 DEF Fine, Hud, Keeps
  <2> QED BY <2>3, <2>4 DEF m
<1> HIDE DEF a, c
<1> QED BY <1>1, <1>2, <1>3, <1>4, <1>5 DEF Seen, b

\* What goes on while a finger is down: it stays bound, and the screen lit.
Held(b, x) ==
  /\ x \in Hud /\ Bright(x) /\ x.armed
  /\ x.id = b.id /\ x.bind = b.bind /\ x.off = b.off /\ x.mute = b.mute

LEMMA DownHeld ==
  ASSUME NEW b, NEW x, Held(b, x), NEW g \in osk_on_down(x)
  PROVE  Held(b, g) /\ g.dragging_bl = x.dragging_bl
<1> DEFINE k == [x EXCEPT !.osk_held = TRUE, !.osk_hi = TRUE]
<1>1. g = x \/ g = k
  BY DEF osk_on_down
<1>2. /\ k \in Hud /\ k.armed = x.armed /\ k.id = x.id /\ k.bind = x.bind /\ k.off = x.off
      /\ k.mute = x.mute /\ k.dragging_bl = x.dragging_bl /\ k.lamp = x.lamp
      /\ k.bl_pct = x.bl_pct /\ k.bl_keep = x.bl_keep
  BY DEF Held, Hud
<1> HIDE DEF k
<1> QED BY <1>1, <1>2 DEF Held, Bright

LEMMA ContactHeld ==
  ASSUME NEW b \in Hud, Bright(b), ~b.dragging_bl, NEW g \in Contact(b)
  PROVE  Held(b, g)
<1> DEFINE x == [b EXCEPT !.down = b.pos, !.armed = TRUE, !.dragging = FALSE,
                          !.dragging_bl = FALSE, !.got = FALSE]
<1>1. g \in osk_on_down(x)
  BY DEF Contact
<1>2. /\ x \in Hud /\ x.armed /\ x.id = b.id /\ x.bind = b.bind /\ x.off = b.off
      /\ x.mute = b.mute /\ x.lamp = b.lamp
      /\ x.bl_pct = b.bl_pct /\ x.bl_keep = b.bl_keep
  BY DEF Hud
<1> HIDE DEF x
<1>3. Held(b, x)
  BY <1>2 DEF Held, Bright
<1> QED BY <1>1, <1>3, DownHeld

\* The bar follows the finger and the lamp follows the bar.
LEMMA BrightHeld ==
  ASSUME NEW b, NEW x, Held(b, x), ~x.off, NEW d \in BOOLEAN
  PROVE  Held(b, apply_bl_pct([x EXCEPT !.dragging = d, !.dragging_bl = TRUE], x.pos))
<1> DEFINE k == [x EXCEPT !.dragging = d, !.dragging_bl = TRUE, !.bl_pct = x.pos, !.lamp = x.pos]
<1>1. apply_bl_pct([x EXCEPT !.dragging = d, !.dragging_bl = TRUE], x.pos) = k
  BY DEF apply_bl_pct, Held, Hud
<1>2. x.pos \in 1..2 /\ x.pos \in 0..2
  BY DEF Held, Hud, Pos
<1>3. /\ k \in Hud /\ k.armed = x.armed /\ k.id = x.id /\ k.bind = x.bind /\ k.off = x.off
      /\ k.mute = x.mute /\ k.lamp = k.bl_pct /\ k.dragging_bl
  BY <1>2 DEF Held, Hud
<1> HIDE DEF k
<1> QED BY <1>1, <1>3 DEF Held, Bright

LEMMA SlideHeld ==
  ASSUME NEW b, NEW x, Held(b, x), ~x.off, NEW g \in Slide(x)
  PROVE  Held(b, g)
<1>1. CASE x.dragging_bl
  <2>1. g = apply_bl_pct(x, x.pos)
    BY <1>1 DEF Slide
  <2>2. x.dragging \in BOOLEAN /\ x = [x EXCEPT !.dragging = x.dragging, !.dragging_bl = TRUE]
    BY <1>1 DEF Held, Hud
  <2> QED BY <2>1, <2>2, BrightHeld
<1>2. CASE ~x.dragging_bl
  <2> DEFINE y(d) == [x EXCEPT !.down = x.pos, !.dragging = d]
             z == [x EXCEPT !.dragging = TRUE, !.dragging_bl = TRUE]
  <2>1. \/ g = x
        \/ \E d \in {x.dragging, x.dragging \/ ~x.pass} : g = y(d)
        \/ g = apply_bl_pct(z, x.pos)
    BY <1>2 DEF Slide
  <2>2. x.dragging \in BOOLEAN /\ x.pass \in BOOLEAN
    BY DEF Held, Hud
  <2>3. ASSUME NEW d \in BOOLEAN
        PROVE  Held(b, y(d))
    <3>1. /\ y(d) \in Hud /\ y(d).armed = x.armed /\ y(d).id = x.id /\ y(d).bind = x.bind
          /\ y(d).off = x.off /\ y(d).mute = x.mute /\ y(d).dragging_bl = x.dragging_bl
          /\ y(d).lamp = x.lamp /\ y(d).bl_pct = x.bl_pct /\ y(d).bl_keep = x.bl_keep
      BY DEF Held, Hud
    <3> HIDE DEF y
    <3> QED BY <3>1 DEF Held, Bright
  <2>4. Held(b, apply_bl_pct(z, x.pos))
    BY BrightHeld
  <2> HIDE DEF y, z
  <2> QED BY <2>1, <2>2, <2>3, <2>4
<1> QED BY <1>1, <1>2

LEMMA MovedHeld ==
  ASSUME NEW b, NEW x, Held(b, x), ~x.off, NEW g \in Moved(x)
  PROVE  Held(b, g)
<1>1. CASE ~(x.pass /\ ~x.dragging_bl)
  BY <1>1, SlideHeld DEF Moved
<1>2. CASE x.pass /\ ~x.dragging_bl
  <2> DEFINE pressed == IF x.osk_held THEN {osk_on_move(x)} ELSE osk_on_down(x)
             k == [x EXCEPT !.osk_hi = x.pos = 1]
  <2>1. PICK p \in pressed : g \in IF p.osk_held THEN {p} ELSE Slide(p)
    BY <1>2 DEF Moved
  <2>2. Held(b, k)
    <3>1. /\ k \in Hud /\ k.armed = x.armed /\ k.id = x.id /\ k.bind = x.bind /\ k.off = x.off
          /\ k.mute = x.mute /\ k.dragging_bl = x.dragging_bl /\ k.lamp = x.lamp
          /\ k.bl_pct = x.bl_pct /\ k.bl_keep = x.bl_keep
      BY DEF Held, Hud
    <3> HIDE DEF k
    <3> QED BY <3>1 DEF Held, Bright
  <2>3. Held(b, p)
    BY <2>2, DownHeld DEF osk_on_move
  <2>4. ~p.off
    BY <2>3 DEF Held
  <2> HIDE DEF pressed
  <2> QED BY <2>1, <2>3, <2>4, SlideHeld
<1> QED BY <1>1, <1>2

\* A state in which no finger is bound and nothing is held is a good one.
Idle(x) == x \in Hud /\ Bright(x) /\ x.id = NoId /\ ~x.armed /\ ~x.dragging_bl

LEMMA IdleFine == ASSUME NEW x, Idle(x) PROVE Fine(x)
BY DEF Idle, Fine

LEMMA HeldFine ==
  ASSUME NEW b, NEW x, Held(b, x), b.id # NoId, b.bind \in Slot, ~b.off, ~b.mute
  PROVE  Fine(x)
BY DEF Held, Fine

\* Whatever was dragged is kept and nothing stays held; only a contact taps.
LEMMA ReleasedIdle ==
  ASSUME NEW b \in Hud, Bright(b), b.id = NoId, NEW r \in Released(b)
  PROVE  /\ Idle(r[1]) /\ r[1].off = b.off /\ r[1].mute = b.mute
         /\ r[2] => b.armed
<1> DEFINE g == IF b.dragging_bl THEN commit_bl(b) ELSE b
           done == [g EXCEPT !.dragging = FALSE, !.dragging_bl = FALSE, !.armed = FALSE]
           y(t) == [done EXCEPT !.osk_held = FALSE, !.osk_hi = FALSE, !.pass = t]
           z(t) == [done EXCEPT !.pass = t]
           Good(x) == Idle(x) /\ x.off = b.off /\ x.mute = b.mute
<1>1. /\ g \in Hud /\ g.off = b.off /\ g.mute = b.mute /\ g.id = b.id /\ g.lamp = b.lamp
      /\ g.bl_pct = b.bl_pct /\ g.bl_keep = b.bl_pct
  <2> DEFINE c == commit_bl(b)
  <2>1. /\ c \in Hud /\ c.off = b.off /\ c.mute = b.mute /\ c.id = b.id /\ c.lamp = b.lamp
        /\ c.bl_pct = b.bl_pct /\ c.bl_keep = b.bl_pct
    BY DEF commit_bl, Hud
  <2>2. ~b.dragging_bl => b.bl_keep = b.bl_pct
    BY DEF Bright
  <2>3. g = IF b.dragging_bl THEN c ELSE b
    OBVIOUS
  <2> HIDE DEF c, g
  <2> QED BY <2>1, <2>2, <2>3
<1> HIDE DEF g
<1>2. /\ done \in Hud /\ ~done.armed /\ ~done.dragging_bl /\ done.off = g.off /\ done.mute = g.mute
      /\ done.id = g.id /\ done.lamp = g.lamp /\ done.bl_pct = g.bl_pct /\ done.bl_keep = g.bl_keep
  BY <1>1 DEF Hud
<1> HIDE DEF done
<1>3. Good(done)
  BY <1>1, <1>2 DEF Idle, Bright
<1>4. ASSUME NEW t \in BOOLEAN
      PROVE  Good(y(t)) /\ Good(z(t))
  <2>1. /\ y(t) \in Hud /\ y(t).armed = done.armed /\ y(t).dragging_bl = done.dragging_bl
        /\ y(t).off = done.off /\ y(t).mute = done.mute /\ y(t).id = done.id
        /\ y(t).lamp = done.lamp /\ y(t).bl_pct = done.bl_pct /\ y(t).bl_keep = done.bl_keep
    BY <1>2 DEF Hud
  <2>2. /\ z(t) \in Hud /\ z(t).armed = done.armed /\ z(t).dragging_bl = done.dragging_bl
        /\ z(t).off = done.off /\ z(t).mute = done.mute /\ z(t).id = done.id
        /\ z(t).lamp = done.lamp /\ z(t).bl_pct = done.bl_pct /\ z(t).bl_keep = done.bl_keep
    BY <1>2 DEF Hud
  <2> HIDE DEF y, z
  <2> QED BY <1>3, <2>1, <2>2 DEF Idle, Bright
<1>5. \/ \E t \in {b.pass, b.pass /\ b.pos # 1 /\ ~b.osk_hi} : r = <<y(t), FALSE>>
      \/ r = <<done, FALSE>>
      \/ b.armed /\ \E t \in BOOLEAN : r = <<z(t), TRUE>>
  BY DEF Released, done, g
<1>6. b.pass \in BOOLEAN
  BY DEF Hud
<1> HIDE DEF y, z, done
<1>7. CASE \E t \in {b.pass, b.pass /\ b.pos # 1 /\ ~b.osk_hi} : r = <<y(t), FALSE>>
  <2>1. PICK t \in {b.pass, b.pass /\ b.pos # 1 /\ ~b.osk_hi} : r = <<y(t), FALSE>>
    BY <1>7
  <2>2. t \in BOOLEAN /\ r[1] = y(t) /\ r[2] = FALSE
    BY <1>6, <2>1
  <2>3. Good(y(t))
    BY <1>4, <2>2
  <2> QED BY <2>2, <2>3
<1>8. CASE r = <<done, FALSE>>
  <2>1. r[1] = done /\ r[2] = FALSE
    BY <1>8
  <2> QED BY <1>3, <2>1
<1>9. CASE b.armed /\ \E t \in BOOLEAN : r = <<z(t), TRUE>>
  <2>1. PICK t \in BOOLEAN : r = <<z(t), TRUE>>
    BY <1>9
  <2>2. r[1] = z(t) /\ r[2] = TRUE
    BY <2>1
  <2>3. Good(z(t))
    BY <1>4, <2>1
  <2> QED BY <1>9, <2>2, <2>3
<1> QED BY <1>5, <1>7, <1>8, <1>9

\* What a SYN makes of a good state: a good one, in which the finger that is bound is
\* one the kernel has; a contact ends, and may tap, only if its finger has gone.
LEMMA SynGood ==
  ASSUME NEW h, Fine(h), KernOK, ~h.off, ~h.mute, NEW r \in Syn(h)
  PROVE  /\ Fine(r[1]) /\ Seen(r[1])
         /\ h.armed /\ ~r[1].armed => kern.slot[h.bind].id = NoId
         /\ r[2] => h.armed /\ r[1].id = NoId /\ ~r[1].armed
<1> DEFINE x == mt_sync_from_kernel(h)
           b == mt_bind_primary(x)
           only(S) == {<<g, FALSE>> : g \in S}
           k == [b EXCEPT !.got = FALSE]
<1>1. Fine(x) /\ Keeps(h, x) /\ x.id = h.id /\ x.bind = h.bind /\ Synced(x)
  BY SyncFine DEF Synced
<1>2. b \in Hud /\ Keeps(x, b) /\ Seen(b) /\ (x.armed /\ b.id = NoId => kern.slot[x.bind].id = NoId)
  <2>1. ~x.off /\ ~x.mute
    BY <1>1 DEF Keeps
  <2> HIDE DEF x
  <2> QED BY <1>1, <2>1, BindFine
<1>3. \/ r \in only({b}) /\ ~b.armed
      \/ b.id = NoId /\ h.id # NoId /\ r \in Released(b)
      \/ b.id = NoId /\ h.id = NoId /\ r \in only({b})
      \/ b.id # NoId /\ ~b.armed /\ r \in only(Contact(b))
      \/ b.id # NoId /\ b.armed /\ r \in only({b})
      \/ b.id # NoId /\ b.armed /\ r \in only(Moved(k))
  BY Zenon DEF Syn
<1> HIDE DEF x, b
<1>4. Keeps(h, b) /\ (h.armed /\ b.id = NoId => kern.slot[h.bind].id = NoId)
  BY <1>1, <1>2 DEF Keeps
<1>5. Bright(b) /\ ~b.off /\ ~b.mute /\ b.armed = h.armed /\ (b.dragging_bl => b.armed)
  BY <1>4 DEF Keeps, Fine, Bright
<1>6. (b.armed => b.id # NoId) => Fine(b)
  BY <1>2, <1>5 DEF Fine, Seen
<1>7. CASE r \in only({b}) /\ ~b.armed
  <2>0. r = <<b, FALSE>>
    BY <1>7
  <2>1. r[1] = b /\ ~r[2]
    BY <2>0
  <2> QED BY <2>1, <1>2, <1>5, <1>6, <1>7
<1>8. CASE b.id = NoId /\ h.id # NoId /\ r \in Released(b)
  <2>1. Idle(r[1]) /\ (r[2] => b.armed)
    BY <1>2, <1>5, <1>8, ReleasedIdle
  <2> QED BY <1>4, <1>5, <1>8, <2>1, IdleFine DEF Idle, Seen
<1>9. CASE b.id = NoId /\ h.id = NoId /\ r \in only({b})
  <2>0. r = <<b, FALSE>>
    BY <1>9
  <2>1. r[1] = b /\ ~r[2]
    BY <2>0
  <2>2. ~h.armed
    BY <1>9 DEF Fine
  <2> QED BY <2>1, <2>2, <1>2, <1>5, <1>6
<1>10. CASE b.id # NoId /\ ~b.armed /\ r \in only(Contact(b))
  <2>1. PICK g \in Contact(b) : r = <<g, FALSE>>
    BY <1>10
  <2>2. Held(b, g)
    BY <1>2, <1>5, <1>10, <2>1, ContactHeld
  <2>3. Fine(g) /\ Seen(g)
    BY <1>2, <1>5, <1>10, <2>2, HeldFine DEF Held, Seen
  <2> QED BY <1>5, <1>10, <2>1, <2>3
<1>11. CASE b.id # NoId /\ b.armed /\ r \in only({b})
  <2>0. r = <<b, FALSE>>
    BY <1>11
  <2>1. r[1] = b /\ ~r[2]
    BY <2>0
  <2> QED BY <2>1, <1>2, <1>5, <1>6, <1>11
<1>12. CASE b.id # NoId /\ b.armed /\ r \in only(Moved(k))
  <2>1. PICK g \in Moved(k) : r = <<g, FALSE>>
    BY <1>12
  <2>2. /\ k \in Hud /\ k.armed = b.armed /\ k.id = b.id /\ k.bind = b.bind /\ k.off = b.off
        /\ k.mute = b.mute /\ k.dragging_bl = b.dragging_bl /\ k.lamp = b.lamp
        /\ k.bl_pct = b.bl_pct /\ k.bl_keep = b.bl_keep
    BY <1>2 DEF Hud
  <2> HIDE DEF k
  <2>3. Held(b, k) /\ ~k.off
    BY <1>5, <1>12, <2>2 DEF Held, Bright
  <2>4. Held(b, g)
    BY <2>1, <2>3, MovedHeld
  <2>5. Fine(g) /\ Seen(g) /\ g.armed
    BY <1>2, <1>5, <1>12, <2>4, HeldFine DEF Held, Seen
  <2> QED BY <2>1, <2>5
<1> QED BY <1>3, <1>7, <1>8, <1>9, <1>10, <1>11, <1>12

-----------------------------------------------------------------------------
(* The screen *)

LEMMA ClearFine ==
  ASSUME NEW h, Fine(h)
  PROVE  LET x == mt_clear_fresh(h)
         IN  Fine(x) /\ x.id = h.id /\ x.bind = h.bind /\ x.armed = h.armed /\ x.off = h.off
<1> DEFINE e(s) == [h.mt[s] EXCEPT !.fresh = FALSE]
           t == [s \in Slot |-> e(s)]
           x == [h EXCEPT !.mt = t]
<1>1. mt_clear_fresh(h) = x
  BY DEF mt_clear_fresh, Fine, Hud
<1>2. ASSUME NEW s \in Slot PROVE e(s) \in Mt
  BY DEF Fine, Hud, Mt
<1> HIDE DEF e
<1>3. t \in [Slot -> Mt]
  BY <1>2
<1> HIDE DEF t
<1>4. /\ x \in Hud /\ Keeps(h, x) /\ x.id = h.id /\ x.bind = h.bind
      /\ x.armed = h.armed /\ x.off = h.off
  BY <1>3 DEF Fine, Hud, Keeps, Mt
<1> HIDE DEF x
<1> QED BY <1>1, <1>4, KeepsFine

\* The reset lets go of everything.
LEMMA ResetLetsGo ==
  ASSUME NEW h \in Hud
  PROVE  LET x == reset_touch(h)
         IN  /\ x \in Hud /\ x.id = NoId /\ ~x.armed /\ ~x.dragging_bl /\ x.off = h.off
             /\ x.lamp = h.lamp /\ x.bl_pct = h.bl_pct /\ x.bl_keep = h.bl_keep
<1> DEFINE e(s) == [h.mt[s] EXCEPT !.id = NoId, !.have = FALSE, !.fresh = FALSE]
           t == [s \in Slot |-> e(s)]
           x == [h EXCEPT !.cur = 1, !.got = FALSE, !.bind = 0, !.id = NoId,
                          !.armed = FALSE, !.dragging = FALSE, !.dragging_bl = FALSE, !.mt = t]
<1>1. reset_touch(h) = x
  BY DEF reset_touch, Hud
<1>2. ASSUME NEW s \in Slot PROVE e(s) \in Mt
  <2> DEFINE m == h.mt[s]
  <2>1. m \in Mt
    BY DEF Hud, Mt
  <2> HIDE DEF m
  <2>2. [m EXCEPT !.id = NoId, !.have = FALSE, !.fresh = FALSE] \in Mt
    BY <2>1 DEF Mt
  <2> QED BY <2>2 DEF m
<1> HIDE DEF e
<1>3. t \in [Slot -> Mt]
  BY <1>2
<1> HIDE DEF t
<1>4. 1 \in Slot /\ 0 \in 0..N
  BY TouchAssumption DEF Slot
<1>5. /\ x \in Hud /\ x.id = NoId /\ ~x.armed /\ ~x.dragging_bl /\ x.off = h.off
      /\ x.lamp = h.lamp /\ x.bl_pct = h.bl_pct /\ x.bl_keep = h.bl_keep
  BY <1>3, <1>4 DEF Hud, Mt
<1> HIDE DEF x
<1> QED BY <1>1, <1>5

LEMMA OnIdle ==
  ASSUME NEW h \in Hud
  PROVE  Idle(ScreenOn(h))
<1> DEFINE r == reset_touch(h)
           x == [r EXCEPT !.off = FALSE, !.mute = TRUE, !.bl_pct = h.bl_keep, !.lamp = h.bl_keep]
<1>1. r \in Hud /\ r.id = NoId /\ ~r.armed /\ ~r.dragging_bl /\ r.bl_keep = h.bl_keep
  BY ResetLetsGo
<1>2. ScreenOn(h) = x
  BY DEF ScreenOn, apply_bl_pct
<1>3. h.bl_keep \in 1..2 /\ h.bl_keep \in 0..2
  BY DEF Hud
<1> HIDE DEF r
<1>4. /\ x \in Hud /\ x.id = r.id /\ x.armed = r.armed /\ x.dragging_bl = r.dragging_bl
      /\ ~x.off /\ x.lamp = h.bl_keep /\ x.bl_pct = h.bl_keep /\ x.bl_keep = r.bl_keep
  BY <1>1, <1>3 DEF Hud
<1> HIDE DEF x
<1> QED BY <1>1, <1>2, <1>4 DEF Idle, Bright

\* A brightness that was being dragged goes back to the one that is kept.
LEMMA OffIdle ==
  ASSUME NEW h \in Hud, Bright(h)
  PROVE  Idle(ScreenOff(h)) /\ ScreenOff(h).off
<1> DEFINE r == reset_touch(h)
           p == IF h.dragging_bl THEN h.bl_keep ELSE r.bl_pct
           x == [r EXCEPT !.off = TRUE, !.mute = TRUE, !.lamp = 0, !.bl_pct = p]
<1>1. /\ r \in Hud /\ r.id = NoId /\ ~r.armed /\ ~r.dragging_bl
      /\ r.bl_pct = h.bl_pct /\ r.bl_keep = h.bl_keep
  BY ResetLetsGo
<1>2. ScreenOff(h) = x
  BY DEF ScreenOff
<1>3. p \in 1..2 /\ p = h.bl_keep /\ 0 \in 0..2
  BY <1>1 DEF Hud, Bright
<1> HIDE DEF r, p
<1>4. /\ x \in Hud /\ x.id = r.id /\ x.armed = r.armed /\ x.dragging_bl = r.dragging_bl
      /\ x.off /\ x.lamp = 0 /\ x.bl_pct = p /\ x.bl_keep = r.bl_keep
  BY <1>1, <1>3 DEF Hud
<1> HIDE DEF x
<1> QED BY <1>1, <1>2, <1>3, <1>4 DEF Idle, Bright

LEMMA WakeFine ==
  ASSUME NEW h, Fine(h), h.id = NoId, KernOK
  PROVE  Fine(Wake(h)) /\ Wake(h).id = NoId
<1> DEFINE b == mt_sync_from_kernel(h)
<1>1. Fine(b) /\ b.id = NoId
  BY SyncFine
<1>2. b \in Hud
  BY <1>1 DEF Fine
<1>3. Wake(h) = IF mt_finger(b) # 0 THEN ScreenOn(b) ELSE b
  BY DEF Wake
<1> HIDE DEF b
<1>4. Fine(ScreenOn(b)) /\ ScreenOn(b).id = NoId
  BY <1>2, OnIdle, IdleFine DEF Idle
<1> QED BY <1>1, <1>3, <1>4

-----------------------------------------------------------------------------
(* The kernel's steps *)

LEMMA PushQueues ==
  ASSUME QueueOK, NEW f \in Frame, Push(f)
  PROVE  QueueOK' /\ queue' # <<>>
<1>1. Dropped \in Frame
  BY TouchAssumption DEF Dropped, Frame, Same
<1>2. CASE Len(queue) < QMax
  <2>1. queue' = Append(queue, f) /\ queue \in Seq(Frame)
    BY <1>2 DEF Push, QueueOK
  <2>2. queue' \in Seq(Frame) /\ Len(queue') = Len(queue) + 1
    BY <2>1
  <2> QED BY <1>2, <2>1, <2>2, TouchAssumption DEF QueueOK
<1>3. CASE ~(Len(queue) < QMax)
  <2>1. queue' = <<Dropped>>
    BY <1>3 DEF Push
  <2>2. queue' \in Seq(Frame) /\ Len(queue') = 1
    BY <1>1, <2>1
  <2> QED BY <2>1, <2>2, TouchAssumption DEF QueueOK
<1> QED BY <1>2, <1>3

\* A slot takes a new touch, keeps the one it has, or loses it.
LEMMA ReportInv ==
  ASSUME Inv, NEW s \in Slot, NEW id, NEW p \in Pos, Report(s, id, p),
         \/ id = kern.next /\ kern.next <= MaxId /\ kern.slot[s].id = NoId
         \/ id = kern.slot[s].id
         \/ id = NoId
  PROVE  Inv'
<1>1. /\ kern \in Kern /\ kern.next \in 1..(MaxId + 1) /\ kern.next \in Nat
      /\ \A t \in Slot : kern.slot[t].id \in {NoId} \cup Id /\ kern.slot[t].id \in Nat
  BY TouchAssumption DEF Inv, KernOK, Kern, Id, NoId
<1>2. id \in {NoId} \cup Id /\ id \in Nat
  BY <1>1 DEF NoId, Id
<1> DEFINE nx == IF id = kern.next THEN kern.next + 1 ELSE kern.next
           k == [kern EXCEPT !.slot[s] = [id |-> id, pos |-> p], !.cur = s, !.next = nx]
<1>3. kern' = k /\ UNCHANGED <<hud, tapped, again>>
  BY DEF Report
<1>4. nx \in 1..(MaxId + 1) /\ nx \in Nat /\ kern.next <= nx /\ id < nx
  <2>1. id = kern.next => id <= MaxId
    BY <1>1, <1>2, TouchAssumption DEF Id, NoId
  <2>2. id # kern.next => id < kern.next
    BY <1>1 DEF Inv, KernOK, NoId
  <2> QED BY <1>1, <1>2, <2>1, <2>2, TouchAssumption
<1> HIDE DEF nx
<1>5. /\ k \in Kern /\ k.next = nx /\ k.slot[s].id = id
      /\ \A t \in Slot : t # s => k.slot[t].id = kern.slot[t].id
  BY <1>1, <1>2, <1>4 DEF Kern
<1> HIDE DEF k
<1>6. \A t \in Slot : t # s => kern'.slot[t].id = kern.slot[t].id
  BY <1>3, <1>5
<1>7. kern'.slot[s].id = id /\ kern'.next = nx /\ kern' \in Kern
  BY <1>3, <1>5
<1>8. KernOK'
  <2>1. \A t \in Slot : kern'.slot[t].id < kern'.next
    <3> SUFFICES ASSUME NEW t \in Slot PROVE kern'.slot[t].id < nx
      BY <1>7
    <3>1. kern.slot[t].id < kern.next
      BY DEF Inv, KernOK
    <3> QED BY <1>1, <1>4, <1>6, <1>7, <3>1
  <2>2. ASSUME NEW t \in Slot, t # s, id # NoId
        PROVE  kern'.slot[t].id # id
    <3>1. kern.slot[t].id < kern.next
      BY DEF Inv, KernOK
    <3>2. id = kern.next => kern.slot[t].id # id
      BY <1>1, <3>1
    <3>3. id = kern.slot[s].id => kern.slot[t].id # id
      BY <2>2 DEF Inv, KernOK
    <3> QED BY <1>6, <2>2, <3>2, <3>3
  <2>3. \A t, u \in Slot : kern'.slot[t].id # NoId /\ kern'.slot[t].id = kern'.slot[u].id => t = u
    <3> SUFFICES ASSUME NEW t \in Slot, NEW u \in Slot, kern'.slot[t].id # NoId,
                        kern'.slot[t].id = kern'.slot[u].id, t # u
                 PROVE  FALSE
      OBVIOUS
    <3>1. t # s /\ u # s
      BY <1>7, <2>2
    <3> QED BY <1>6, <3>1 DEF Inv, KernOK
  <2> QED BY <1>7, <2>1, <2>3 DEF KernOK
<1>9. QueueOK' /\ queue' # <<>>
  <2> DEFINE f == [slot |-> IF s = kern.cur THEN 0 ELSE s,
                   id |-> IF id = kern.slot[s].id THEN Same ELSE id,
                   pos |-> IF p = kern.slot[s].pos THEN 0 ELSE p]
  <2>1. Push(f)
    BY DEF Report
  <2>2. (IF s = kern.cur THEN 0 ELSE s) \in 0..N
    BY TouchAssumption DEF Slot
  <2>3. (IF id = kern.slot[s].id THEN Same ELSE id) \in 0..Same
    BY <1>2, TouchAssumption DEF Same, Id, NoId
  <2>4. (IF p = kern.slot[s].pos THEN 0 ELSE p) \in 0..2
    BY DEF Pos
  <2>5. f \in Frame
    BY <2>2, <2>3, <2>4 DEF Frame
  <2> HIDE DEF f
  <2> QED BY <2>1, <2>5, PushQueues DEF Inv
<1>10. BoundOK'
  <2>1. hud.id < kern.next /\ hud.id \in Nat
    BY DEF Inv, BoundOK, Fine, Hud, NoId, Id
  <2>2. hud'.id < kern'.next
    BY <1>1, <1>3, <1>4, <1>7, <2>1
  <2>3. \A t \in Slot : hud'.id # NoId /\ kern'.slot[t].id = hud'.id => t = hud'.bind
    <3> SUFFICES ASSUME NEW t \in Slot, hud.id # NoId, kern'.slot[t].id = hud.id
                 PROVE  t = hud.bind
      BY <1>3
    <3>1. kern.slot[t].id = hud.id
      BY <1>1, <1>6, <1>7, <2>1
    <3> QED BY <3>1 DEF Inv, BoundOK
  <2> QED BY <1>9, <2>2, <2>3 DEF BoundOK
<1>11. TappedOK'
  <2> SUFFICES ASSUME NEW i \in tapped
               PROVE  i < nx /\ \A t \in Slot : kern'.slot[t].id # i
    BY <1>3, <1>7 DEF Inv, TappedOK
  <2>0. i \in Nat /\ i # NoId
    <3>1. i \in Id
      BY DEF Inv, TappedOK
    <3> QED BY <3>1, TouchAssumption DEF Id, NoId
  <2>1. i < kern.next /\ \A t \in Slot : kern.slot[t].id # i
    BY DEF Inv, TappedOK
  <2>2. i < nx
    BY <1>1, <1>4, <2>0, <2>1
  <2>3. id # i
    BY <1>1, <2>0, <2>1
  <2> QED BY <1>6, <1>7, <2>1, <2>2, <2>3
<1>12. Fine(hud)'
  BY <1>3 DEF Inv, Fine, Bright
<1> QED BY <1>8, <1>9, <1>10, <1>11, <1>12 DEF Inv

-----------------------------------------------------------------------------
(* The HUD's steps *)

\* A step of the HUD after which nothing is bound, or only what the kernel has.
LEMMA HudInv ==
  ASSUME Inv, kern' = kern, Fine(hud'), Seen(hud'), QueueOK',
         UNCHANGED <<tapped, again>>
  PROVE  Inv'
<1>1. hud'.id < kern.next
  <2>1. hud'.id = NoId => hud'.id < kern.next
    BY TouchAssumption DEF Inv, KernOK, Kern, NoId
  <2> QED BY <2>1 DEF Inv, KernOK, Seen
<1>2. \A s \in Slot : hud'.id # NoId /\ kern.slot[s].id = hud'.id => s = hud'.bind
  BY DEF Inv, KernOK, Seen
<1>3. BoundOK'
  BY <1>1, <1>2 DEF BoundOK, Seen
<1>4. TappedOK'
  <2>1. \A i \in tapped : i # NoId
    BY DEF Inv, TappedOK, Id, NoId
  <2> QED BY <2>1 DEF Inv, TappedOK, Seen
<1>5. KernOK' /\ Fine(hud)'
  BY DEF Inv, KernOK
<1> QED BY <1>3, <1>4, <1>5 DEF Inv

\* A SYN that taps does so for a touch that never tapped and has gone.
LEMMA ActInv ==
  ASSUME Inv, kern' = kern, QueueOK', NEW h, Fine(h), ~h.off, ~h.mute,
         h.id = hud.id, h.bind = hud.bind, h.armed = hud.armed, NEW r \in Syn(h), Act(r)
  PROVE  Inv' /\ (hud.armed /\ ~hud'.armed => kern.slot[hud.bind].id = NoId)
<1>1. /\ Fine(r[1]) /\ Seen(r[1])
      /\ hud.armed /\ ~r[1].armed => kern.slot[hud.bind].id = NoId
      /\ r[2] => hud.armed /\ r[1].id = NoId /\ ~r[1].armed
  BY SynGood DEF Inv
<1>2. /\ hud' = mt_clear_fresh(r[1])
      /\ tapped' = IF r[2] THEN tapped \cup {hud.id} ELSE tapped
      /\ again' = (again \/ (r[2] /\ hud.id \in tapped))
  BY DEF Act
<1>3. /\ Fine(hud') /\ hud'.id = r[1].id /\ hud'.bind = r[1].bind /\ hud'.armed = r[1].armed
  BY <1>1, <1>2, ClearFine
<1>4. Seen(hud')
  BY <1>1, <1>3 DEF Seen
<1>5. CASE ~r[2]
  <2>1. UNCHANGED <<tapped, again>>
    BY <1>2, <1>5 DEF Inv, TappedOK
  <2> QED BY <1>1, <1>3, <1>4, <2>1, HudInv
<1>6. CASE r[2]
  <2>1. hud'.id = NoId /\ kern.slot[hud.bind].id = NoId /\ hud.armed
    BY <1>1, <1>3, <1>6
  <2>2. hud.id # NoId /\ hud.id \in Id
    BY <2>1 DEF Inv, Fine, Hud
  <2>3. \A s \in Slot : kern.slot[s].id # hud.id
    BY <2>1, <2>2 DEF Inv, BoundOK
  <2>4. hud.id \notin tapped
    BY DEF Inv, TappedOK
  <2>5. TappedOK'
    <3>1. tapped' = tapped \cup {hud.id} /\ again' = FALSE
      BY <1>2, <1>6, <2>4 DEF Inv, TappedOK
    <3>2. \A i \in tapped : i < kern.next /\ (\A s \in Slot : kern.slot[s].id # i) /\ i # NoId
      BY DEF Inv, TappedOK, Id, NoId
    <3>3. hud.id < kern.next
      BY DEF Inv, BoundOK
    <3>4. tapped' \subseteq Id
      BY <3>1, <2>2 DEF Inv, TappedOK
    <3> QED BY <2>1, <2>2, <2>3, <3>1, <3>2, <3>3, <3>4 DEF TappedOK
  <2>6. BoundOK'
    <3>1. NoId < kern.next
      BY TouchAssumption DEF Inv, KernOK, Kern, NoId
    <3> QED BY <2>1, <3>1 DEF BoundOK
  <2>7. KernOK' /\ Fine(hud)'
    BY <1>3 DEF Inv, KernOK
  <2> QED BY <2>1, <2>5, <2>6, <2>7 DEF Inv
<1> QED BY <1>5, <1>6

LEMMA HandleEvInv ==
  ASSUME Inv, handle_ev
  PROVE  Inv' /\ (hud.armed /\ ~hud'.armed => kern.slot[hud.bind].id = NoId)
<1> DEFINE f == Head(queue)
           h == Abs(hud, f)
<1>1. f \in Frame /\ QueueOK' /\ kern' = kern
  <2>1. queue # <<>> /\ queue \in Seq(Frame) /\ Len(queue) <= QMax /\ queue' = Tail(queue)
    BY DEF handle_ev, Inv, QueueOK
  <2>2. Head(queue) \in Frame /\ Tail(queue) \in Seq(Frame) /\ Len(Tail(queue)) <= Len(queue)
    BY <2>1
  <2>3. QMax \in Nat /\ Len(queue) \in Nat /\ Len(Tail(queue)) \in Nat
    BY <2>1, <2>2, TouchAssumption
  <2> QED BY <2>1, <2>2, <2>3 DEF handle_ev, QueueOK
<1>2. /\ Fine(h) /\ h.id = hud.id /\ h.bind = hud.bind /\ h.armed = hud.armed
      /\ h.off = hud.off /\ h.mute = hud.mute
  BY <1>1, AbsFine DEF Inv, Keeps
<1>3. IF hud.mute THEN UNCHANGED <<hud, tapped, again>>
      ELSE IF hud.off THEN hud' = mt_clear_fresh(Wake(h)) /\ UNCHANGED <<tapped, again>>
      ELSE \E r \in Syn(h) : Act(r)
  BY DEF handle_ev
<1> HIDE DEF h, f
<1>4. CASE hud.mute
  <2>1. UNCHANGED <<hud, tapped, again>>
    BY <1>3, <1>4
  <2>2. hud.id = NoId /\ ~hud.armed /\ Fine(hud)
    BY <1>4 DEF Inv, Fine
  <2> QED BY <1>1, <2>1, <2>2, HudInv DEF Seen
<1>5. CASE ~hud.mute /\ hud.off
  <2>1. hud' = mt_clear_fresh(Wake(h)) /\ UNCHANGED <<tapped, again>>
    BY <1>3, <1>5
  <2>2. hud.id = NoId /\ ~hud.armed
    BY <1>5 DEF Inv, Fine
  <2>3. Fine(Wake(h)) /\ Wake(h).id = NoId
    BY <1>2, <2>2, WakeFine DEF Inv
  <2>4. Fine(hud') /\ hud'.id = NoId
    BY <2>1, <2>3, ClearFine
  <2> QED BY <1>1, <2>1, <2>2, <2>4, HudInv DEF Seen
<1>6. CASE ~hud.mute /\ ~hud.off
  <2>1. PICK r \in Syn(h) : Act(r)
    BY <1>3, <1>6
  <2> QED BY <1>1, <1>2, <1>6, <2>1, ActInv
<1> QED BY <1>4, <1>5, <1>6

LEMMA PowerInv ==
  ASSUME Inv, Power
  PROVE  Inv' /\ (hud.armed => hud'.off)
<1>1. /\ hud' = IF hud.off THEN ScreenOn(hud) ELSE ScreenOff(hud)
      /\ UNCHANGED <<kern, queue, tapped, again>>
  BY DEF Power
<1>2. hud \in Hud /\ Bright(hud) /\ (hud.armed => ~hud.off)
  BY DEF Inv, Fine
<1>3. Idle(hud') /\ (hud.armed => hud'.off)
  BY <1>1, <1>2, OnIdle, OffIdle
<1>4. Fine(hud') /\ Seen(hud') /\ QueueOK'
  BY <1>1, <1>3, IdleFine DEF Idle, Seen, Inv, QueueOK
<1> QED BY <1>1, <1>3, <1>4, HudInv

\* Time that passes and a sheet that comes or goes touch nothing the invariant speaks of,
\* but that a mute ends.
LEMMA AloneInv ==
  ASSUME Inv, UNCHANGED <<kern, queue, tapped, again>>, NEW x \in Hud, hud' = x,
         x.id = hud.id, x.bind = hud.bind, x.armed = hud.armed, x.off = hud.off,
         x.mute => hud.mute, x.dragging_bl = hud.dragging_bl, x.lamp = hud.lamp,
         x.bl_pct = hud.bl_pct, x.bl_keep = hud.bl_keep
  PROVE  Inv'
<1>1. Fine(hud)'
  BY DEF Inv, Fine, Bright
<1>2. KernOK' /\ BoundOK' /\ TappedOK' /\ QueueOK'
  BY DEF Inv, KernOK, BoundOK, TappedOK, QueueOK
<1> QED BY <1>1, <1>2 DEF Inv

LEMMA LaterInv == ASSUME Inv, Later PROVE Inv' /\ hud'.armed = hud.armed
<1> DEFINE x == [hud EXCEPT !.mute = FALSE]
<1>1. hud' = x /\ UNCHANGED <<kern, queue, tapped, again>>
  BY DEF Later
<1>2. /\ x \in Hud /\ x.id = hud.id /\ x.bind = hud.bind /\ x.armed = hud.armed /\ x.off = hud.off
      /\ ~x.mute /\ x.dragging_bl = hud.dragging_bl /\ x.lamp = hud.lamp
      /\ x.bl_pct = hud.bl_pct /\ x.bl_keep = hud.bl_keep
  BY DEF Inv, Fine, Hud
<1> HIDE DEF x
<1> QED BY <1>1, <1>2, AloneInv

LEMMA JobSheetInv == ASSUME Inv, JobSheet PROVE Inv' /\ hud'.armed = hud.armed
<1> DEFINE x == [hud EXCEPT !.pass = ~hud.pass]
<1>1. hud' = x /\ UNCHANGED <<kern, queue, tapped, again>>
  BY DEF JobSheet
<1>2. /\ x \in Hud /\ x.id = hud.id /\ x.bind = hud.bind /\ x.armed = hud.armed /\ x.off = hud.off
      /\ x.mute = hud.mute /\ x.dragging_bl = hud.dragging_bl /\ x.lamp = hud.lamp
      /\ x.bl_pct = hud.bl_pct /\ x.bl_keep = hud.bl_keep
  BY DEF Inv, Fine, Hud
<1> HIDE DEF x
<1> QED BY <1>1, <1>2, AloneInv

\* The start of the program, and every step.
LEMMA InitInv == Init => Inv
<1> SUFFICES ASSUME Init PROVE Inv
  OBVIOUS
<1>1. PICK b \in 1..2 :
        hud = [off |-> FALSE, mute |-> TRUE, pass |-> FALSE, cur |-> 1,
               mt |-> [s \in Slot |-> [id |-> NoId, pos |-> 1, have |-> FALSE, fresh |-> FALSE]],
               got |-> FALSE, bind |-> 0, id |-> NoId, pos |-> 1, down |-> 1,
               armed |-> FALSE, dragging |-> FALSE, dragging_bl |-> FALSE,
               osk_held |-> FALSE, osk_hi |-> FALSE, bl_pct |-> b, bl_keep |-> b, lamp |-> b]
  BY DEF Init
<1>2. 1 \in Slot /\ 0 \in 0..N /\ 1 \in Pos /\ b \in 0..2 /\ 1 \in 1..(MaxId + 1)
  BY TouchAssumption DEF Slot, Pos
<1>3. hud \in Hud
  BY <1>1, <1>2 DEF Hud
<1>4. /\ hud.id = NoId /\ ~hud.armed /\ ~hud.dragging_bl /\ ~hud.off
      /\ hud.lamp = hud.bl_pct /\ hud.bl_pct = hud.bl_keep
  BY <1>1
<1>5. Fine(hud)
  BY <1>3, <1>4, IdleFine DEF Idle, Bright
<1>6. kern = [slot |-> [s \in Slot |-> [id |-> NoId, pos |-> 1]], cur |-> 1, next |-> 1]
  BY DEF Init
<1>7. kern \in Kern
  BY <1>2, <1>6 DEF Kern
<1>8. kern.next = 1 /\ \A s \in Slot : kern.slot[s].id = NoId
  BY <1>6
<1>9. KernOK
  BY <1>7, <1>8 DEF KernOK, NoId
<1>10. BoundOK
  BY <1>4, <1>8 DEF BoundOK, NoId
<1>11. TappedOK
  BY DEF Init, TappedOK
<1>12. QueueOK
  BY TouchAssumption DEF Init, QueueOK
<1> QED BY <1>5, <1>9, <1>10, <1>11, <1>12 DEF Inv

LEMMA NextInv ==
  Inv /\ [Next]_vars =>
    Inv' /\ (hud.armed /\ ~hud'.armed /\ ~hud'.off => kern.slot[hud.bind].id = NoId)
<1> SUFFICES ASSUME Inv, [Next]_vars
             PROVE  Inv' /\ (hud.armed /\ ~hud'.armed /\ ~hud'.off => kern.slot[hud.bind].id = NoId)
  OBVIOUS
<1>1. ASSUME NEW s \in Slot, Land(s) \/ Move(s) \/ Lift(s)
      PROVE  Inv' /\ hud' = hud
  <2>1. kern.slot[s].pos \in Pos
    BY DEF Inv, KernOK, Kern
  <2>2. CASE Land(s)
    <3>1. PICK p \in Pos : Report(s, kern.next, p)
      BY <2>2 DEF Land
    <3>2. Inv'
      BY <2>2, <3>1, ReportInv DEF Land
    <3> QED BY <3>1, <3>2 DEF Report
  <2>3. CASE Move(s)
    <3>1. PICK p \in Pos : Report(s, kern.slot[s].id, p)
      BY <2>3 DEF Move
    <3>2. Inv'
      BY <3>1, ReportInv
    <3> QED BY <3>1, <3>2 DEF Report
  <2>4. CASE Lift(s)
    <3>1. Report(s, NoId, kern.slot[s].pos)
      BY <2>4 DEF Lift
    <3>2. Inv'
      BY <2>1, <3>1, ReportInv
    <3> QED BY <3>1, <3>2 DEF Report
  <2> QED BY <1>1, <2>2, <2>3, <2>4
<1>2. CASE handle_ev
  BY <1>2, HandleEvInv
<1>3. CASE Power
  BY <1>3, PowerInv
<1>4. CASE Later
  BY <1>4, LaterInv
<1>5. CASE JobSheet
  BY <1>5, JobSheetInv
<1>6. CASE UNCHANGED vars
  BY <1>6 DEF vars, Inv, Fine, Bright, KernOK, BoundOK, TappedOK, QueueOK
<1> QED BY <1>1, <1>2, <1>3, <1>4, <1>5, <1>6 DEF Next

-----------------------------------------------------------------------------
(* What touch input keeps true *)

LEMMA TouchInv == Spec => []Inv
BY InitInv, NextInv, PTL DEF Spec

\* The state of the HUD and of the kernel's slots keeps its types, whatever the frames say
\* and however many are lost, and the kernel's queue never outgrows its bound.
THEOREM TouchTypeOK == Spec => []TypeOK
<1>1. Inv => TypeOK
  BY DEF Inv, Fine, KernOK, TappedOK, QueueOK, TypeOK
<1> QED BY <1>1, TouchInv, PTL

\* A dark screen's lamp is off, a lit one shines as the bar says, and a brightness that is
\* not being dragged is the one that is kept: handle_ev, the blanking and the drag agree.
THEOREM TouchBrightnessAgrees == Spec => []BrightnessAgrees
<1>1. Inv => BrightnessAgrees
  BY DEF Inv, Fine, Bright, BrightnessAgrees
<1> QED BY <1>1, TouchInv, PTL

\* No touch taps twice, in particular not on the sheet its first tap opened: the touch
\* that tapped has left the kernel's slots for good.
THEOREM TouchOneTapPerTouch == Spec => []OneTapPerTouch
<1>1. Inv => OneTapPerTouch
  BY DEF Inv, TappedOK, OneTapPerTouch
<1> QED BY <1>1, TouchInv, PTL

\* When every finger has gone and the HUD has read the last frame, nothing is held down,
\* bound or dragged, though frames may have been dropped and the screen have gone dark.
THEOREM TouchNothingStuck == Spec => []NothingStuck
<1>1. Inv => NothingStuck
  <2> SUFFICES ASSUME Inv, queue = <<>>, \A s \in Slot : kern.slot[s].id = NoId
               PROVE  ~hud.armed /\ ~hud.dragging_bl /\ hud.id = NoId
    BY DEF NothingStuck
  <2>1. hud.id # NoId => hud.bind \in Slot /\ kern.slot[hud.bind].id = hud.id
    BY DEF Inv, Fine, BoundOK
  <2>2. hud.id = NoId
    BY <2>1
  <2> QED BY <2>2 DEF Inv, Fine
<1> QED BY <1>1, TouchInv, PTL

\* A contact ends only when its finger has gone from the kernel's slots, or the screen
\* goes dark: a second finger, a dropped frame or a sheet that opens does not end it.
THEOREM TouchLiveFingerKept == Spec => LiveFingerKept
<1>1. Inv /\ [Next]_vars =>
        [hud.armed /\ ~hud'.armed /\ ~hud'.off => kern.slot[hud.bind].id = NoId]_vars
  BY NextInv
<1> QED BY <1>1, TouchInv, PTL DEF Spec, LiveFingerKept
=============================================================================
