------------------------------ MODULE QgGauge ------------------------------
(***************************************************************************)
(* The battery gauge driver, overlays/linux/drivers/power/supply/            *)
(* qcom-pmi632-qg.c: qg_get_property by several readers at once, over the    *)
(* registers of a gauge that goes on measuring.                            *)
(*                                                                         *)
(* The driver has no lock; each register access is one step.  What a         *)
(* register holds is chosen at the read.  Only HOLD is ever set by the       *)
(* driver.  A register access fails only if "io" is in Faults, the kernel is *)
(* restarted with what the gauge then held only if "reboot" is.  Micro-volts *)
(* and micro-amperes are the driver's integers.                              *)
(***************************************************************************)
EXTENDS Integers

CONSTANTS
  Reader,      \* the threads that read properties
  FifoMax,     \* QG_FIFO_MAX
  VRaw, IRaw,  \* the raw voltages and currents an instance knows
  Soc,         \* the values of QG_SOC_MONOTONIC it knows
  LsbUa,       \* i_lsb_ua
  Faults

QG_V_LSB_UV == 194637
QG_I_LSB_5A_UA == 152588
QG_I_LSB_10A_UA == 305176
VBAT_MIN_UV == 3400000
VBAT_MAX_UV == 4350000
Word == 0..65535

ASSUME GaugeAssumption ==
  /\ FifoMax \in Nat \ {0} /\ LsbUa \in {QG_I_LSB_5A_UA, QG_I_LSB_10A_UA}
  /\ VRaw \subseteq Word /\ IRaw \subseteq Word /\ Soc \subseteq 0..255
  /\ Faults \subseteq {"io", "reboot"}

Psp == {"present", "voltage", "current", "capacity", "status"}

VARIABLES
  hold,   \* QG_BURST_AVG_HOLD
  probed, \* the power supply is registered
  lost,   \* the last write that was to clear HOLD failed
  rd      \* per reader: where it is, what it reads, its variables, its answer

vars == <<hold, probed, lost, rd>>

-----------------------------------------------------------------------------
(* Arithmetic.  C divides towards zero. *)

Quot(a, b) == IF a >= 0 THEN a \div b ELSE -((-a) \div b)
Signed(raw) == IF raw < 32768 THEN raw ELSE raw - 65536

\* raw * lsb / 1000, for a product that does not fit TLC's integers.
Scaled(n, lsb) == n * (lsb \div 1000) + (n * (lsb % 1000)) \div 1000

qg_raw_to_ua(raw) ==
  LET s == Signed(raw) IN IF s >= 0 THEN Scaled(s, LsbUa) ELSE -Scaled(-s, LsbUa)

qg_iraw_ok(raw) == raw # 0 /\ raw # 32768
VWord(vraw) == vraw % 32768        \* vraw & 0x7fff
ToUv(vraw) == Scaled(VWord(vraw), QG_V_LSB_UV)

qg_capacity_from_v(uv) ==
  IF uv <= VBAT_MIN_UV THEN 0
  ELSE IF uv >= VBAT_MAX_UV THEN 100
  ELSE ((uv - VBAT_MIN_UV) * 100) \div (VBAT_MAX_UV - VBAT_MIN_UV)

\* Mutant: an empty register is a reading.
Capacity_ZeroCounts(soc, uv) == IF soc <= 100 THEN soc ELSE qg_capacity_from_v(uv)

\* soc is 0 as well when the register could not be read.
Capacity(soc, uv) == IF soc > 0 /\ soc <= 100 THEN soc ELSE qg_capacity_from_v(uv)

\* POWER_SUPPLY_STATUS_CHARGING, DISCHARGING, NOT_CHARGING
Status(ua) == IF ua > 50000 THEN 1 ELSE IF ua < -50000 THEN 2 ELSE 3

-----------------------------------------------------------------------------

\* volts are the voltage words read, ua is made of the raw values seen; of the FIFO, left
\* entries are still to be read, and n samples are summed up in acc.
Idle ==
  [pc |-> "idle", psp |-> "present", volts |-> {}, uv |-> 0, ua |-> 0, seen |-> {},
   left |-> 0, n |-> 0, acc |-> 0, val |-> 0]

Place == {"idle", "volt", "fifo", "entry", "s2", "hold", "burst", "release", "last", "answer", "done"}
Thread ==
  [pc : Place, psp : Psp, volts : SUBSET Word, uv : Int, ua : Int, seen : SUBSET Word,
   left : Nat, n : Nat, acc : Int, val : Int]

TypeOK == hold \in BOOLEAN /\ probed \in BOOLEAN /\ lost \in BOOLEAN /\ rd \in [Reader -> Thread]

At(r, pc) == probed /\ rd[r].pc = pc
Set(r, new) == rd' = [rd EXCEPT ![r] = new]
Goto(r, pc) == Set(r, [rd[r] EXCEPT !.pc = pc])
Fail(r) == "io" \in Faults /\ Set(r, Idle)
Others == UNCHANGED <<hold, probed, lost>>

\* The current is known: from the raw values it is the mean of.
Current(r, ua, raws, pc) == Set(r, [rd[r] EXCEPT !.ua = ua, !.seen = raws, !.pc = pc])

\* sysfs reads a property.
Get(r, psp) ==
  /\ probed /\ rd[r].pc \in {"idle", "done"} /\ Others
  /\ Set(r, [Idle EXCEPT !.psp = psp, !.pc = IF psp = "present" THEN "answer" ELSE "volt"])

\* The voltage is w's, the last of the words that were read.
Voltage(t, words, w) == [t EXCEPT !.volts = words, !.uv = ToUv(w), !.pc = "fifo"]

\* QG_LAST_ADC_V, or QG_S2_AVG_V if that one is 0, which may be 0 as well.
qg_last_vi(r) ==
  /\ At(r, "volt") /\ Others
  /\ \/ \E v \in VRaw : VWord(v) # 0 /\ Set(r, Voltage(rd[r], {v}, v))
     \/ \E v, w \in VRaw : VWord(v) = 0 /\ Set(r, Voltage(rd[r], {v, w}, w))
     \/ Fail(r)

\* The next source is tried, whatever the FIFO brought.
NoFifo(t) == [t EXCEPT !.pc = "s2", !.seen = {}, !.left = 0, !.n = 0, !.acc = 0]

\* The count register's low bits, at least one entry and at most FifoMax.
qg_read_fifo_i(r) ==
  /\ At(r, "fifo") /\ Others
  /\ \/ \E k \in 1..FifoMax : Set(r, [rd[r] EXCEPT !.left = k, !.pc = "entry"])
     \/ "io" \in Faults /\ Set(r, NoFifo(rd[r]))

\* Mutant: an entry that is not valid counts.
Summed_AllCount(t, raw) ==
  [t EXCEPT !.n = @ + 1, !.acc = @ + (IF qg_iraw_ok(raw) THEN qg_raw_to_ua(raw) ELSE 0),
            !.seen = @ \cup (IF qg_iraw_ok(raw) THEN {raw} ELSE {})]

Summed(t, raw) ==
  IF qg_iraw_ok(raw)
  THEN [t EXCEPT !.n = @ + 1, !.acc = @ + qg_raw_to_ua(raw), !.seen = @ \cup {raw}] ELSE t

\* The loop is over: the mean of what was valid, or no current yet.
Mean(t) ==
  IF t.n = 0 THEN NoFifo(t)
  ELSE [t EXCEPT !.ua = Quot(t.acc, t.n), !.left = 0, !.n = 0, !.acc = 0, !.pc = "answer"]

\* An iteration of the loop; a read that fails ends it.
ReadEntry(r) ==
  /\ At(r, "entry") /\ Others
  /\ \/ \E raw \in IRaw :
          LET t == Summed(rd[r], raw)
          IN  Set(r, IF t.left > 1 THEN [t EXCEPT !.left = @ - 1] ELSE Mean(t))
     \/ "io" \in Faults /\ Set(r, NoFifo(rd[r]))

\* Read one word: if it is valid the current is known, else the next source is tried.
ReadWord(r, found, next) ==
  \/ \E raw \in IRaw :
       IF qg_iraw_ok(raw) THEN Current(r, qg_raw_to_ua(raw), {raw}, found) ELSE Goto(r, next)
  \/ "io" \in Faults /\ Goto(r, next)

ReadS2(r) == At(r, "s2") /\ ReadWord(r, "answer", "hold") /\ Others

\* Nobody looks at the result of the two writes.
Hold(r) ==
  /\ At(r, "hold") /\ Goto(r, "burst") /\ UNCHANGED <<probed, lost>>
  /\ hold' = TRUE \/ ("io" \in Faults /\ hold' = hold)

\* Mutant: a read that fails returns at once.
ReadBurst_Returns(r) ==
  /\ At(r, "burst") /\ Others
  /\ \/ \E raw \in IRaw :
          IF qg_iraw_ok(raw) THEN Current(r, qg_raw_to_ua(raw), {raw}, "release") ELSE Goto(r, "release")
     \/ Fail(r)

\* Whatever the read brought, HOLD is cleared.
ReadBurst(r) == At(r, "burst") /\ ReadWord(r, "release", "release") /\ Others

Release(r) ==
  /\ At(r, "release") /\ Goto(r, IF rd[r].seen = {} THEN "last" ELSE "answer") /\ UNCHANGED probed
  /\ \/ hold' = FALSE /\ lost' = FALSE
     \/ "io" \in Faults /\ hold' = hold /\ lost' = TRUE

ReadLast(r) ==
  /\ At(r, "last") /\ Others
  /\ \/ \E raw \in IRaw :
          IF qg_iraw_ok(raw) THEN Current(r, qg_raw_to_ua(raw), {raw}, "answer")
          ELSE Current(r, 0, {}, "answer")
     \/ Fail(r)

Value(psp, uv, ua, soc) ==
  CASE psp = "voltage" -> uv
    [] psp = "current" -> ua
    [] psp = "capacity" -> Capacity(soc, uv)
    [] psp = "status" -> Status(ua)

Answer(r) ==
  /\ At(r, "answer") /\ Others
  /\ \/ /\ rd[r].psp # "present"
        /\ \E soc \in Soc \cup (IF "io" \in Faults THEN {0} ELSE {}) :
             Set(r, [rd[r] EXCEPT !.val = Value(rd[r].psp, rd[r].uv, rd[r].ua, soc), !.pc = "done"])
     \/ /\ rd[r].psp = "present"
        /\ Fail(r) \/ \E there \in 0..1 : Set(r, [rd[r] EXCEPT !.val = there, !.pc = "done"])

\* A HOLD the previous kernel left is dropped; that write is not checked either.
pmi632_qg_probe ==
  /\ ~probed /\ probed' = TRUE /\ UNCHANGED rd
  /\ \/ hold' = FALSE /\ lost' = FALSE
     \/ "io" \in Faults /\ hold' = hold /\ lost' = TRUE

\* A warm restart: the gauge keeps its registers.
Reboot ==
  /\ "reboot" \in Faults /\ probed /\ probed' = FALSE
  /\ rd' = [r \in Reader |-> Idle] /\ UNCHANGED <<hold, lost>>

Init ==
  /\ hold \in BOOLEAN /\ probed = FALSE /\ lost = FALSE
  /\ rd = [r \in Reader |-> Idle]

Next ==
  \/ \E r \in Reader :
       \/ \E psp \in Psp : Get(r, psp)
       \/ qg_last_vi(r) \/ qg_read_fifo_i(r) \/ ReadEntry(r) \/ ReadS2(r)
       \/ Hold(r) \/ ReadBurst(r) \/ Release(r) \/ ReadLast(r) \/ Answer(r)
  \/ pmi632_qg_probe \/ Reboot

Spec == Init /\ [][Next]_vars

-----------------------------------------------------------------------------
(* Properties *)

\* "Drop a leftover burst-avg hold": once the driver is there, the averages of the gauge
\* are frozen only while some reader is between its two writes, or a clearing write failed.
HoldReleased ==
  probed /\ hold => lost \/ \E r \in Reader : rd[r].pc \in {"burst", "release"}

\* A capacity is a percentage, and the chain of fall-backs reports 0 only if none of its
\* sources says otherwise: every voltage word that was read is below the first percent.  A
\* word that is 0 counts as that low; a gauge that has no sample yet and no
\* state of charge is reported as a flat battery, and the driver cannot tell the two apart.
CapacityHonest ==
  \A r \in Reader : rd[r].pc = "done" /\ rd[r].psp = "capacity" =>
    /\ rd[r].val \in 0..100
    /\ rd[r].val = 0 => \A w \in rd[r].volts : ToUv(w) < VBAT_MIN_UV + 9500

\* A current is between the smallest and the largest valid sample it was made of.
CurrentHonest ==
  \A r \in Reader : rd[r].pc \in {"release", "answer", "done"} /\ rd[r].seen # {} =>
    /\ \E raw \in rd[r].seen : qg_raw_to_ua(raw) <= rd[r].ua
    /\ \E raw \in rd[r].seen : qg_raw_to_ua(raw) >= rd[r].ua
=============================================================================
