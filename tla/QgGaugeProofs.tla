--------------------------- MODULE QgGaugeProofs ---------------------------
(***************************************************************************)
(* Proofs about QgGauge: its arithmetic stays in range and is the C code's   *)
(* for every register value, a capacity is a percentage that follows the     *)
(* voltage, a current is a mean of valid samples, and HOLD is released       *)
(* whatever the readers do.                                                  *)
(***************************************************************************)
EXTENDS QgGauge, TLAPS

-----------------------------------------------------------------------------
(* Arithmetic *)

\* Scaled is the quotient of the whole product, for each factor the driver uses.
LEMMA ScaledExact ==
  ASSUME NEW n \in 0..32768
  PROVE  /\ Scaled(n, 194637) = (n * 194637) \div 1000
         /\ Scaled(n, 152588) = (n * 152588) \div 1000
         /\ Scaled(n, 305176) = (n * 305176) \div 1000
<1>1. \A a, b \in Nat : (1000 * a + b) \div 1000 = a + b \div 1000  BY SMT
<1>2. /\ n * 194637 = 1000 * (n * 194) + n * 637
      /\ n * 152588 = 1000 * (n * 152) + n * 588
      /\ n * 305176 = 1000 * (n * 305) + n * 176
  BY SMT
<1>3. /\ n * 194 \in Nat /\ n * 637 \in Nat /\ n * 152 \in Nat
      /\ n * 588 \in Nat /\ n * 305 \in Nat /\ n * 176 \in Nat
  BY SMT
<1>4. /\ (n * 194637) \div 1000 = n * 194 + (n * 637) \div 1000
      /\ (n * 152588) \div 1000 = n * 152 + (n * 588) \div 1000
      /\ (n * 305176) \div 1000 = n * 305 + (n * 176) \div 1000
  BY <1>1, <1>2, <1>3, SMT
<1>5. n \in Int  BY SMT
<1>6. /\ Scaled(n, 194637) = n * 194 + (n * 637) \div 1000
      /\ Scaled(n, 152588) = n * 152 + (n * 588) \div 1000
      /\ Scaled(n, 305176) = n * 305 + (n * 176) \div 1000
  BY <1>5, SMT DEF Scaled
<1> QED  BY <1>4, <1>6, SMT

\* How large a scaled value gets.
LEMMA ScaledInRange ==
  ASSUME NEW n \in Int, 0 <= n, n <= 32768
  PROVE  /\ Scaled(n, 194637) \in Nat /\ Scaled(n, 194637) <= 6400000
         /\ Scaled(n, 152588) \in Nat /\ Scaled(n, 152588) <= 5100000
         /\ Scaled(n, 305176) \in Nat /\ Scaled(n, 305176) <= 10100000
<1>1. /\ (n * 637) \div 1000 \in 0..n
      /\ (n * 588) \div 1000 \in 0..n
      /\ (n * 176) \div 1000 \in 0..n
  BY SMT
<1>2. /\ Scaled(n, 194637) = n * 194 + (n * 637) \div 1000
      /\ Scaled(n, 152588) = n * 152 + (n * 588) \div 1000
      /\ Scaled(n, 305176) = n * 305 + (n * 176) \div 1000
  BY SMT DEF Scaled
<1>3. \A m, q \in Int : 0 <= m /\ m <= 32768 /\ 0 <= q /\ q <= m =>
         /\ 0 <= m * 194 + q /\ m * 194 + q <= 6400000
         /\ 0 <= m * 152 + q /\ m * 152 + q <= 5100000
         /\ 0 <= m * 305 + q /\ m * 305 + q <= 10100000
  BY SMT
<1> QED  BY <1>1, <1>2, <1>3, SMT

\* No conversion of a register leaves the driver's 32-bit integers.
THEOREM ConversionsFit ==
  ASSUME NEW raw \in Word
  PROVE  /\ ToUv(raw) \in Nat /\ ToUv(raw) <= 6400000
         /\ qg_raw_to_ua(raw) \in Int
         /\ -10100000 <= qg_raw_to_ua(raw) /\ qg_raw_to_ua(raw) <= 10100000
<1>1. raw \in Int /\ 0 <= raw /\ raw <= 65535  BY SMT DEF Word
<1>2. raw % 32768 \in Int /\ 0 <= raw % 32768 /\ raw % 32768 <= 32768  BY <1>1, SMT
<1>3. ToUv(raw) \in Nat /\ ToUv(raw) <= 6400000
  BY <1>2, ScaledInRange, SMT DEF ToUv, VWord, QG_V_LSB_UV
<1>4. ASSUME NEW n \in Int, 0 <= n, n <= 32768
      PROVE  Scaled(n, LsbUa) \in Nat /\ Scaled(n, LsbUa) <= 10100000
  <2>1. CASE LsbUa = QG_I_LSB_5A_UA  BY <1>4, <2>1, ScaledInRange, SMT DEF QG_I_LSB_5A_UA
  <2>2. CASE LsbUa = QG_I_LSB_10A_UA  BY <1>4, <2>2, ScaledInRange, SMT DEF QG_I_LSB_10A_UA
  <2> QED  BY <2>1, <2>2, GaugeAssumption, SMT
<1>5. CASE raw < 32768
  <2>1. Signed(raw) = raw  BY <1>5, SMT DEF Signed
  <2>2. qg_raw_to_ua(raw) = Scaled(raw, LsbUa)  BY <1>1, <2>1, SMT DEF qg_raw_to_ua
  <2> QED  BY <1>1, <1>3, <1>4, <1>5, <2>2, SMT
<1>6. CASE ~(raw < 32768)
  <2>1. Signed(raw) = raw - 65536  BY <1>6, SMT DEF Signed
  <2>2. -Signed(raw) \in Int /\ 0 <= -Signed(raw) /\ -Signed(raw) <= 32768 /\ ~(Signed(raw) >= 0)
    BY <1>1, <1>6, <2>1, SMT
  <2>3. qg_raw_to_ua(raw) = -Scaled(-Signed(raw), LsbUa)  BY <2>2, SMT DEF qg_raw_to_ua
  <2> QED  BY <1>3, <1>4, <2>2, <2>3, SMT
<1> QED  BY <1>5, <1>6, SMT

\* A current is an integer.
LEMMA AmpsInt == \A raw \in Word : qg_raw_to_ua(raw) \in Int
BY ConversionsFit, SMT

\* qg_capacity_from_v is a percentage, and 0 only below the first percent of the range.
LEMMA CapacityRange ==
  ASSUME NEW uv \in Int
  PROVE  /\ qg_capacity_from_v(uv) \in 0..100
         /\ qg_capacity_from_v(uv) = 0 => uv < VBAT_MIN_UV + 9500
  BY SMT DEF qg_capacity_from_v, VBAT_MIN_UV, VBAT_MAX_UV

\* A higher voltage never shows a smaller capacity.
THEOREM CapacityMonotone ==
  ASSUME NEW u \in Int, NEW v \in Int, u <= v
  PROVE  qg_capacity_from_v(u) <= qg_capacity_from_v(v)
  BY SMT DEF qg_capacity_from_v, VBAT_MIN_UV, VBAT_MAX_UV

\* Below the first percent of the range.
Low(uv) == uv < VBAT_MIN_UV + 9500

\* Whatever the register holds, a capacity is a percentage, and 0 only below the first percent.
LEMMA CapacityAnswer ==
  ASSUME NEW uv \in Int, NEW soc \in Int
  PROVE  /\ Capacity(soc, uv) \in 0..100
         /\ Capacity(soc, uv) = 0 => Low(uv)
<1>1. CASE soc > 0 /\ soc <= 100
  <2>1. Capacity(soc, uv) = soc  BY <1>1, SMT DEF Capacity
  <2> QED  BY <1>1, <2>1, SMT
<1>2. CASE ~(soc > 0 /\ soc <= 100)
  <2>1. Capacity(soc, uv) = qg_capacity_from_v(uv)  BY <1>2, SMT DEF Capacity
  <2> QED  BY <2>1, CapacityRange, SMT DEF Low
<1> QED  BY <1>1, <1>2, SMT

-----------------------------------------------------------------------------
(* The readers *)

Window == {"burst", "release"}

\* Between the smallest and the largest of some samples.
Between(ua, raws) ==
  /\ \E raw \in raws : qg_raw_to_ua(raw) <= ua
  /\ \E raw \in raws : ua <= qg_raw_to_ua(raw)

\* The sum of n of them is between n times the smallest and n times the largest.
SumOf(n, acc, raws) ==
  IF n = 0 THEN acc = 0 /\ raws = {}
  ELSE /\ \E raw \in raws : n * qg_raw_to_ua(raw) <= acc
       /\ \E raw \in raws : acc <= n * qg_raw_to_ua(raw)

\* What a reader knows: the sum while it reads the FIFO, then the current if it has seen any.
Known(t) ==
  /\ t.pc = "entry" => SumOf(t.n, t.acc, t.seen)
  /\ t.pc # "entry" => t.n = 0 /\ t.acc = 0
  /\ t.pc \in {"release", "answer", "done"} => t.seen = {} \/ Between(t.ua, t.seen)
  /\ t.pc \notin {"entry", "release", "answer", "done"} => t.seen = {}

Honest(t) ==
  t.pc = "done" /\ t.psp = "capacity" => t.val \in 0..100 /\ (t.val = 0 => Low(t.uv))

\* No voltage word that was read says more than the voltage it goes on with.
Heard(t) == t.uv \in Int /\ \A w \in t.volts : ToUv(w) <= t.uv

Good(t) == t \in Thread /\ Known(t) /\ Heard(t) /\ Honest(t)

Threads == rd = [r \in Reader |-> rd[r]] /\ \A r \in Reader : Good(rd[r])
GaugeInv == Threads /\ HoldReleased

\* What one reader does leaves the others alone.
LEMMA OnlyOne ==
  ASSUME Threads, NEW r \in Reader, NEW t, Good(t), Set(r, t)
  PROVE  Threads' /\ rd'[r] = t /\ \A q \in Reader : q # r => rd'[q] = rd[q]
<1>1. rd' = [q \in Reader |-> IF q = r THEN t ELSE rd[q]]  BY Zenon DEF Threads, Set
<1>2. \A q \in Reader : rd'[q] = IF q = r THEN t ELSE rd[q]  BY <1>1, Zenon
<1>3. rd' = [q \in Reader |-> rd'[q]]  BY <1>1, <1>2, Zenon
<1>4. \A q \in Reader : Good(rd'[q])  BY <1>2, Zenon DEF Threads
<1> QED  BY <1>2, <1>3, <1>4, Zenon DEF Threads

\* A reader that stays on its side of the window, or writes nothing, keeps the promise.
LEMMA HoldKept ==
  ASSUME GaugeInv, Others, NEW r \in Reader, NEW t, Good(t), Set(r, t),
         rd[r].pc \in Window => t.pc \in Window
  PROVE  GaugeInv'
<1>1. Threads' /\ rd'[r] = t /\ \A q \in Reader : q # r => rd'[q] = rd[q]
  BY OnlyOne DEF GaugeInv
<1>2. \A q \in Reader : rd[q].pc \in Window => rd'[q].pc \in Window  BY <1>1
<1> QED  BY <1>1, <1>2 DEF GaugeInv, HoldReleased, Others, Window

-----------------------------------------------------------------------------
(* One reader's record *)

\* A reader goes on to another place: with nothing seen, or having answered HOLD.
LEMMA Placed ==
  ASSUME NEW t, Good(t), NEW pc \in Place \ {"entry", "done"}, t.pc # "entry",
         t.seen = {} \/ (t.pc = "release" /\ pc = "answer")
  PROVE  Good([t EXCEPT !.pc = pc]) /\ [t EXCEPT !.pc = pc].pc = pc
<1> DEFINE c == [t EXCEPT !.pc = pc]
<1>1. /\ c \in Thread /\ c.pc = pc /\ c.n = t.n /\ c.acc = t.acc
      /\ c.seen = t.seen /\ c.ua = t.ua /\ c.volts = t.volts /\ c.uv = t.uv
  BY Zenon DEF Good, Thread
<1> HIDE DEF c
<1>2. Known(c) /\ Heard(c)  BY <1>1, Zenon DEF Good, Known, Heard
<1>3. Good(c) /\ c.pc = pc  BY <1>1, <1>2, Zenon DEF Good, Honest
<1> QED  BY <1>3 DEF c

\* It knows the current, from one sample or as 0 from none.
LEMMA CurrentKnown ==
  ASSUME NEW t, Good(t), t.pc # "entry", NEW pc \in {"release", "answer"},
         NEW ua \in Int, NEW raws \in SUBSET Word, raws = {} \/ Between(ua, raws)
  PROVE  LET c == [t EXCEPT !.ua = ua, !.seen = raws, !.pc = pc] IN Good(c) /\ c.pc = pc
<1> DEFINE c == [t EXCEPT !.ua = ua, !.seen = raws, !.pc = pc]
<1>1. pc \in Place /\ pc # "entry" /\ pc # "done"  BY SMT DEF Place
<1>2. /\ c \in Thread /\ c.pc = pc /\ c.n = t.n /\ c.acc = t.acc
      /\ c.seen = raws /\ c.ua = ua /\ c.volts = t.volts /\ c.uv = t.uv
  BY <1>1, Zenon DEF Good, Thread
<1> HIDE DEF c
<1>3. Known(c) /\ Heard(c)  BY <1>1, <1>2, Zenon DEF Good, Known, Heard
<1>4. Good(c)  BY <1>1, <1>2, <1>3, Zenon DEF Good, Honest
<1> QED  BY <1>2, <1>4, Zenon DEF c

\* It knows the current from one word.
LEMMA OneWord ==
  ASSUME NEW t, Good(t), t.pc # "entry", NEW pc \in {"release", "answer"}, NEW raw \in IRaw
  PROVE  LET c == [t EXCEPT !.ua = qg_raw_to_ua(raw), !.seen = {raw}, !.pc = pc]
         IN  Good(c) /\ c.pc = pc
<1>1. raw \in Word /\ {raw} \in SUBSET Word  BY GaugeAssumption, Zenon
<1>2. qg_raw_to_ua(raw) \in Int  BY <1>1, AmpsInt
<1>3. qg_raw_to_ua(raw) <= qg_raw_to_ua(raw)  BY <1>2, SMT
<1>4. Between(qg_raw_to_ua(raw), {raw})  BY <1>3, Zenon DEF Between
<1>5. PICK ua \in Int, raws \in SUBSET Word :
        ua = qg_raw_to_ua(raw) /\ raws = {raw} /\ Between(ua, raws)
  BY <1>1, <1>2, <1>4
<1> DEFINE c == [t EXCEPT !.ua = ua, !.seen = raws, !.pc = pc]
<1>6. Good(c)  BY <1>5, CurrentKnown
<1>7. c.pc = pc  BY Zenon DEF Good, Thread
<1> QED  BY <1>5, <1>6, <1>7

\* It knows the voltage: the first word it has read, or the second after one that is 0.
LEMMA VoltageKnown ==
  ASSUME NEW t, Good(t), t.pc = "volt", NEW w \in Word, NEW words \in SUBSET Word,
         \A v \in words : ToUv(v) <= ToUv(w)
  PROVE  Good(Voltage(t, words, w)) /\ Voltage(t, words, w).pc = "fifo"
<1> DEFINE uv == ToUv(w)
           c == [t EXCEPT !.volts = words, !.uv = uv, !.pc = "fifo"]
<1>1. "fifo" \in Place  BY SMT DEF Place
<1>2. uv \in Int  BY ConversionsFit, SMT
<1>3. Voltage(t, words, w) = c  BY Zenon DEF Voltage
<1>4. \A v \in words : ToUv(v) <= uv  OBVIOUS
<1> HIDE DEF uv
<1>5. /\ c \in Thread /\ c.pc = "fifo" /\ c.n = t.n /\ c.acc = t.acc
      /\ c.seen = t.seen /\ c.volts = words /\ c.uv = uv
  BY <1>1, <1>2, Zenon DEF Good, Thread
<1> HIDE DEF c
<1>6. t.seen = {} /\ t.n = 0 /\ t.acc = 0  BY SMT DEF Good, Known
<1>7. Heard(c)  BY <1>2, <1>4, <1>5, Zenon DEF Heard
<1>8. Known(c) /\ Honest(c)  BY <1>5, <1>6, SMT DEF Known, Honest
<1> QED  BY <1>3, <1>5, <1>7, <1>8, Zenon DEF Good

\* A word that is 0 says the least.
LEMMA ZeroIsLow ==
  ASSUME NEW v \in Word, NEW w \in Word, VWord(v) = 0
  PROVE  ToUv(v) <= ToUv(w)
<1>1. ToUv(v) = 0  BY SMT DEF ToUv, Scaled, QG_V_LSB_UV
<1> QED  BY <1>1, ConversionsFit, SMT

\* It has answered.
LEMMA Answered ==
  ASSUME NEW t, Good(t), t.pc = "answer", NEW val \in Int,
         t.psp = "capacity" => val \in 0..100 /\ (val = 0 => Low(t.uv))
  PROVE  LET c == [t EXCEPT !.val = val, !.pc = "done"] IN Good(c) /\ c.pc = "done"
<1> DEFINE c == [t EXCEPT !.val = val, !.pc = "done"]
<1>1. "done" \in Place  BY SMT DEF Place
<1>2. /\ c \in Thread /\ c.pc = "done" /\ c.n = t.n /\ c.acc = t.acc
      /\ c.seen = t.seen /\ c.ua = t.ua /\ c.psp = t.psp /\ c.uv = t.uv /\ c.val = val
      /\ c.volts = t.volts
  BY <1>1, Zenon DEF Good, Thread
<1> HIDE DEF c
<1>3. /\ t.seen = {} \/ Between(t.ua, t.seen)
      /\ t.n = 0 /\ t.acc = 0
  BY SMT DEF Good, Known
<1>4. Known(c)  BY <1>2, <1>3, Zenon DEF Known
<1>5. Heard(c)  BY <1>2, Zenon DEF Good, Heard
<1>6. Good(c)  BY <1>2, <1>4, <1>5, Zenon DEF Good, Honest
<1> QED  BY <1>2, <1>6, Zenon DEF c

\* A reader begins.
LEMMA Fresh ==
  /\ Good(Idle) /\ Idle.pc = "idle"
  /\ \A psp \in Psp, pc \in {"answer", "volt"} :
       LET c == [Idle EXCEPT !.psp = psp, !.pc = pc] IN Good(c) /\ c.pc = pc
<1>1. /\ 0 \in Int /\ 0 \in Nat /\ {} \in SUBSET Word
      /\ {"idle", "answer", "volt"} \subseteq Place /\ "present" \in Psp
  BY SMT DEF Place, Psp
<1>2. /\ Idle \in Thread /\ Idle.pc = "idle" /\ Idle.seen = {}
      /\ Idle.n = 0 /\ Idle.acc = 0
  BY <1>1, Zenon DEF Idle, Thread
<1>a. Heard(Idle) /\ Idle.volts = {} /\ Idle.uv = 0
  BY <1>1, Zenon DEF Heard, Idle
<1>3. Good(Idle)  BY <1>2, <1>a, SMT DEF Good, Known, Honest
<1>4. ASSUME NEW psp \in Psp, NEW pc \in {"answer", "volt"}
      PROVE  LET c == [Idle EXCEPT !.psp = psp, !.pc = pc] IN Good(c) /\ c.pc = pc
  <2> DEFINE c == [Idle EXCEPT !.psp = psp, !.pc = pc]
  <2>1. pc \in Place  BY <1>1
  <2>2. /\ c \in Thread /\ c.pc = pc /\ c.seen = Idle.seen
        /\ c.n = Idle.n /\ c.acc = Idle.acc /\ c.volts = Idle.volts /\ c.uv = Idle.uv
    BY <1>2, <2>1, Zenon DEF Thread
  <2> HIDE DEF c
  <2>3. Heard(c)  BY <1>a, <2>2, Zenon DEF Heard
  <2>4. Good(c)  BY <1>2, <2>2, <2>3, SMT DEF Good, Known, Honest
  <2> QED  BY <2>2, <2>4, Zenon DEF c
<1> QED  BY <1>2, <1>3, <1>4, Zenon

-----------------------------------------------------------------------------
(* The FIFO *)

\* It gives the FIFO up.
LEMMA NoFifoGood ==
  ASSUME NEW t, t \in Thread, Heard(t)
  PROVE  Good(NoFifo(t)) /\ NoFifo(t).pc = "s2"
<1> DEFINE c == NoFifo(t)
<1>1. "s2" \in Place /\ 0 \in Nat /\ 0 \in Int /\ {} \in SUBSET Word  BY SMT DEF Place
<1>2. /\ c \in Thread /\ c.pc = "s2" /\ c.seen = {} /\ c.n = 0 /\ c.acc = 0
      /\ c.volts = t.volts /\ c.uv = t.uv
  BY <1>1, Zenon DEF NoFifo, Thread
<1> HIDE DEF c
<1>3. Heard(c)  BY <1>2, Zenon DEF Heard
<1>4. Good(c)  BY <1>2, <1>3, SMT DEF Good, Known, Honest
<1> QED  BY <1>2, <1>4 DEF c

\* It begins to read it.
LEMMA FifoBegun ==
  ASSUME NEW t, Good(t), t.pc = "fifo", NEW k \in Nat
  PROVE  LET c == [t EXCEPT !.left = k, !.pc = "entry"] IN Good(c) /\ c.pc = "entry"
<1> DEFINE c == [t EXCEPT !.left = k, !.pc = "entry"]
<1>1. "entry" \in Place  BY SMT DEF Place
<1>2. /\ c \in Thread /\ c.pc = "entry" /\ c.seen = t.seen /\ c.n = t.n /\ c.acc = t.acc
      /\ c.volts = t.volts /\ c.uv = t.uv
  BY <1>1, Zenon DEF Good, Thread
<1> HIDE DEF c
<1>3. t.seen = {} /\ t.n = 0 /\ t.acc = 0  BY SMT DEF Good, Known
<1>4. Heard(c)  BY <1>2, Zenon DEF Good, Heard
<1>5. Good(c)  BY <1>2, <1>3, <1>4, SMT DEF Good, Known, Honest, SumOf
<1> QED  BY <1>2, <1>5, Zenon DEF c

\* Multiplying by a count keeps an order.
LEMMA TimesOrder ==
  ASSUME NEW n \in Nat, NEW a \in Int, NEW b \in Int, a <= b
  PROVE  n * a <= n * b
<1>1. n * (b - a) = n * b - n * a  BY SMT
<1>2. \A x \in Nat : n * x >= 0  BY SMT
<1>3. b - a \in Nat  BY SMT
<1> QED  BY <1>1, <1>2, <1>3, SMT

\* One more sample belongs to the sum.
LEMMA SumGrows ==
  ASSUME NEW n \in Nat, NEW acc \in Int, NEW raws \in SUBSET Word, NEW raw \in Word,
         SumOf(n, acc, raws)
  PROVE  SumOf(n + 1, acc + qg_raw_to_ua(raw), raws \cup {raw})
<1> DEFINE x == qg_raw_to_ua(raw)
           S == raws \cup {raw}
<1>1. x \in Int /\ \A q \in raws : qg_raw_to_ua(q) \in Int  BY AmpsInt
<1>2. raw \in S /\ \A q \in raws : q \in S  OBVIOUS
<1>3. n + 1 # 0 /\ n + 1 \in Nat /\ \A y \in Int : (n + 1) * y = n * y + y  BY SMT
<1>4. CASE n = 0
  <2>1. acc = 0  BY <1>4, SMT DEF SumOf
  <2>2. (n + 1) * x = x /\ acc + x = x  BY <1>1, <1>4, <2>1, SMT
  <2>3. (n + 1) * x <= acc + x /\ acc + x <= (n + 1) * x  BY <1>1, <2>2, SMT
  <2> QED  BY <1>2, <1>3, <2>3, Zenon DEF SumOf
<1>5. CASE n # 0
  <2>1. PICK lo \in raws : n * qg_raw_to_ua(lo) <= acc  BY <1>5, Zenon DEF SumOf
  <2>2. PICK hi \in raws : acc <= n * qg_raw_to_ua(hi)  BY <1>5, Zenon DEF SumOf
  <2>3. \E q \in S : (n + 1) * qg_raw_to_ua(q) <= acc + x
    <3> DEFINE l == qg_raw_to_ua(lo)
    <3>1. l \in Int /\ n * l \in Int /\ n * x \in Int  BY <1>1, <2>1, SMT
    <3>2. n * l <= acc  BY <2>1
    <3> HIDE DEF l, x
    <3>3. CASE l <= x
      <4>1. (n + 1) * l <= acc + x  BY <1>1, <1>3, <3>1, <3>2, <3>3, SMT
      <4> QED  BY <1>2, <2>1, <4>1, Zenon DEF l
    <3>4. CASE ~(l <= x)
      <4>1. x <= l  BY <1>1, <3>1, <3>4, SMT
      <4>2. n * x <= n * l  BY <1>1, <3>1, <4>1, TimesOrder
      <4>3. (n + 1) * x <= acc + x  BY <1>1, <1>3, <3>1, <3>2, <4>2, SMT
      <4> QED  BY <1>2, <4>3, Zenon DEF x
    <3> QED  BY <3>3, <3>4
  <2>4. \E q \in S : acc + x <= (n + 1) * qg_raw_to_ua(q)
    <3> DEFINE h == qg_raw_to_ua(hi)
    <3>1. h \in Int /\ n * h \in Int /\ n * x \in Int  BY <1>1, <2>2, SMT
    <3>2. acc <= n * h  BY <2>2
    <3> HIDE DEF h, x
    <3>3. CASE x <= h
      <4>1. acc + x <= (n + 1) * h  BY <1>1, <1>3, <3>1, <3>2, <3>3, SMT
      <4> QED  BY <1>2, <2>2, <4>1, Zenon DEF h
    <3>4. CASE ~(x <= h)
      <4>1. h <= x  BY <1>1, <3>1, <3>4, SMT
      <4>2. n * h <= n * x  BY <1>1, <3>1, <4>1, TimesOrder
      <4>3. acc + x <= (n + 1) * x  BY <1>1, <1>3, <3>1, <3>2, <4>2, SMT
      <4> QED  BY <1>2, <4>3, Zenon DEF x
    <3> QED  BY <3>3, <3>4
  <2> QED  BY <1>3, <2>3, <2>4, Zenon DEF SumOf
<1> QED  BY <1>4, <1>5

\* The driver's division does not leave the bounds of the sum.
LEMMA QuotBetween ==
  ASSUME NEW n \in Nat \ {0}, NEW acc \in Int, NEW lo \in Int, NEW hi \in Int,
         n * lo <= acc, acc <= n * hi
  PROVE  Quot(acc, n) \in Int /\ lo <= Quot(acc, n) /\ Quot(acc, n) <= hi
<1>1. ASSUME NEW a \in Int
      PROVE  a \div n \in Int /\ n * (a \div n) <= a /\ a < n * (a \div n) + n
  BY SMT
<1>2. ASSUME NEW a \in Int, NEW l \in Int, n * l <= a  PROVE  l <= a \div n
  <2>1. SUFFICES ASSUME a \div n <= l - 1  PROVE FALSE  BY <1>1, <1>2, SMT
  <2>2. n * (a \div n) <= n * (l - 1)  BY <1>1, <1>2, <2>1, TimesOrder, SMT
  <2>3. n * (l - 1) = n * l - n  BY <1>2, SMT
  <2> QED  BY <1>1, <1>2, <2>2, <2>3, SMT
<1>3. ASSUME NEW a \in Int, NEW h \in Int, a <= n * h  PROVE  a \div n <= h
  <2>1. SUFFICES ASSUME h + 1 <= a \div n  PROVE FALSE  BY <1>1, <1>3, SMT
  <2>2. n * (h + 1) <= n * (a \div n)  BY <1>1, <1>3, <2>1, TimesOrder, SMT
  <2>3. n * (h + 1) = n * h + n  BY <1>3, SMT
  <2> QED  BY <1>1, <1>3, <2>2, <2>3, SMT
<1>4. CASE acc >= 0
  <2>1. Quot(acc, n) = acc \div n  BY <1>4, SMT DEF Quot
  <2>2. acc \div n \in Int /\ lo <= acc \div n /\ acc \div n <= hi
    BY <1>1, <1>2, <1>3
  <2> QED  BY <2>1, <2>2, SMT
<1>5. CASE ~(acc >= 0)
  <2>1. Quot(acc, n) = -((-acc) \div n)  BY <1>5, SMT DEF Quot
  <2>2. -acc \in Int /\ -lo \in Int /\ -hi \in Int  BY SMT
  <2>3. n * (-lo) = -(n * lo) /\ n * (-hi) = -(n * hi)  BY SMT
  <2>4. n * (-hi) <= -acc /\ -acc <= n * (-lo)  BY <2>3, SMT
  <2>5. -hi <= (-acc) \div n  BY <1>2, <2>2, <2>4
  <2>6. (-acc) \div n <= -lo  BY <1>3, <2>2, <2>4
  <2>7. (-acc) \div n \in Int  BY <1>1, <2>2
  <2> QED  BY <2>1, <2>5, <2>6, <2>7, SMT
<1> QED  BY <1>4, <1>5

\* An iteration of the loop adds a sample or leaves the sum alone.
LEMMA SummedGood ==
  ASSUME NEW t, Good(t), t.pc = "entry", NEW raw \in Word
  PROVE  /\ Summed(t, raw) \in Thread /\ Summed(t, raw).pc = "entry"
         /\ SumOf(Summed(t, raw).n, Summed(t, raw).acc, Summed(t, raw).seen)
         /\ Heard(Summed(t, raw))
<1>1. t \in Thread /\ SumOf(t.n, t.acc, t.seen) /\ Heard(t)  BY Zenon DEF Good, Known
<1>2. CASE qg_iraw_ok(raw)
  <2> DEFINE n == t.n + 1
             acc == t.acc + qg_raw_to_ua(raw)
             raws == t.seen \cup {raw}
             c == [t EXCEPT !.n = n, !.acc = acc, !.seen = raws]
  <2>1. t.n \in Nat /\ t.acc \in Int /\ t.seen \in SUBSET Word  BY <1>1, Zenon DEF Thread
  <2>2. qg_raw_to_ua(raw) \in Int  BY AmpsInt
  <2>3. n \in Nat /\ acc \in Int /\ raws \in SUBSET Word  BY <2>1, <2>2, SMT
  <2>4. SumOf(n, acc, raws)  BY <1>1, <2>1, SumGrows
  <2>5. Summed(t, raw) = c  BY <1>1, <1>2, Zenon DEF Summed, Thread
  <2> HIDE DEF n, acc, raws
  <2>6. /\ c \in Thread /\ c.pc = "entry" /\ c.n = n /\ c.acc = acc /\ c.seen = raws
        /\ c.volts = t.volts /\ c.uv = t.uv
    BY <1>1, <2>3, Zenon DEF Thread
  <2> HIDE DEF c
  <2>7. Heard(c)  BY <1>1, <2>6, Zenon DEF Heard
  <2> QED  BY <2>4, <2>5, <2>6, <2>7, Zenon
<1>3. CASE ~qg_iraw_ok(raw)  BY <1>1, <1>3, Zenon DEF Summed
<1> QED  BY <1>2, <1>3

\* The loop goes on.
LEMMA LoopGood ==
  ASSUME NEW t, t \in Thread, Heard(t), t.pc = "entry", SumOf(t.n, t.acc, t.seen), t.left > 1
  PROVE  LET c == [t EXCEPT !.left = @ - 1] IN Good(c) /\ c.pc = "entry"
<1> DEFINE k == t.left - 1
           c == [t EXCEPT !.left = k]
<1>1. t.left \in Nat  BY Zenon DEF Thread
<1>2. k \in Nat  BY <1>1, SMT
<1> HIDE DEF k
<1>3. /\ c \in Thread /\ c.pc = "entry" /\ c.seen = t.seen /\ c.n = t.n /\ c.acc = t.acc
      /\ c.volts = t.volts /\ c.uv = t.uv
  BY <1>2, Zenon DEF Thread
<1>4. [t EXCEPT !.left = @ - 1] = c  BY Zenon DEF Thread, k
<1> HIDE DEF c
<1>5. Heard(c)  BY <1>3, Zenon DEF Heard
<1>6. Good(c)  BY <1>3, <1>5, SMT DEF Good, Known, Honest
<1> QED  BY <1>3, <1>4, <1>6, Zenon

\* The loop is over.
LEMMA MeanGood ==
  ASSUME NEW t, t \in Thread, Heard(t), t.pc = "entry", SumOf(t.n, t.acc, t.seen)
  PROVE  Good(Mean(t)) /\ Mean(t).pc \notin Window
<1>1. CASE t.n = 0
  <2>1. Mean(t) = NoFifo(t)  BY <1>1, Zenon DEF Mean
  <2>2. "s2" \notin Window  BY SMT DEF Window
  <2> QED  BY <2>1, <2>2, NoFifoGood, Zenon
<1>2. CASE t.n # 0
  <2> DEFINE q == Quot(t.acc, t.n)
             c == [t EXCEPT !.ua = q, !.left = 0, !.n = 0, !.acc = 0, !.pc = "answer"]
  <2>1. t.n \in Nat \ {0} /\ t.acc \in Int /\ t.seen \in SUBSET Word  BY <1>2, Zenon DEF Thread
  <2>2. PICK lo \in t.seen : t.n * qg_raw_to_ua(lo) <= t.acc  BY <1>2, Zenon DEF SumOf
  <2>3. PICK hi \in t.seen : t.acc <= t.n * qg_raw_to_ua(hi)  BY <1>2, Zenon DEF SumOf
  <2>4. qg_raw_to_ua(lo) \in Int /\ qg_raw_to_ua(hi) \in Int  BY <2>1, AmpsInt
  <2>5. q \in Int /\ qg_raw_to_ua(lo) <= q /\ q <= qg_raw_to_ua(hi)
    BY <2>1, <2>2, <2>3, <2>4, QuotBetween
  <2>6. Between(q, t.seen)  BY <2>2, <2>3, <2>5, Zenon DEF Between
  <2>7. Mean(t) = c  BY <1>2, Zenon DEF Mean
  <2>8. "answer" \in Place /\ "answer" \notin Window /\ 0 \in Nat /\ 0 \in Int
    BY SMT DEF Place, Window
  <2> HIDE DEF q
  <2>9. /\ c \in Thread /\ c.pc = "answer" /\ c.ua = q /\ c.seen = t.seen
        /\ c.n = 0 /\ c.acc = 0 /\ c.volts = t.volts /\ c.uv = t.uv
    BY <2>5, <2>8, Zenon DEF Thread
  <2> HIDE DEF c
  <2>10. Heard(c)  BY <2>9, Zenon DEF Heard
  <2>11. Good(c)  BY <2>6, <2>9, <2>10, SMT DEF Good, Known, Honest
  <2> QED  BY <2>7, <2>8, <2>9, <2>11, Zenon
<1> QED  BY <1>1, <1>2

-----------------------------------------------------------------------------
(* The steps *)

\* A reader outside the window gives up.
LEMMA FailKept ==
  ASSUME GaugeInv, Others, NEW r \in Reader, Fail(r), rd[r].pc \notin Window
  PROVE  GaugeInv'
  BY Fresh, HoldKept, Zenon DEF Fail

LEMMA Places ==
  /\ Window \subseteq Place
  /\ {"fifo", "answer", "s2", "hold", "burst", "release", "last"} \subseteq Place \ {"entry", "done"}
  /\ {"idle", "done", "volt", "fifo", "entry", "s2", "hold", "last", "answer"} \cap Window = {}
  /\ "release" \in Window
  BY SMT DEF Window, Place

\* A reader takes its current from one word, or goes on.
LEMMA WordKept ==
  ASSUME GaugeInv, Others, NEW r \in Reader, rd[r].pc # "entry", rd[r].seen = {},
         NEW found \in {"release", "answer"}, NEW next \in Place \ {"entry", "done"},
         rd[r].pc \in Window => found \in Window /\ next \in Window,
         ReadWord(r, found, next)
  PROVE  GaugeInv'
<1>1. Good(rd[r])  BY Zenon DEF GaugeInv, Threads
<1>2. ASSUME NEW raw \in IRaw, Current(r, qg_raw_to_ua(raw), {raw}, found)  PROVE GaugeInv'
  <2> DEFINE c == [rd[r] EXCEPT !.ua = qg_raw_to_ua(raw), !.seen = {raw}, !.pc = found]
  <2>1. Good(c) /\ c.pc = found
    <3>1. PICK t : t = rd[r]  OBVIOUS
    <3> DEFINE d == [t EXCEPT !.ua = qg_raw_to_ua(raw), !.seen = {raw}, !.pc = found]
    <3>2. Good(d)  BY <1>1, <3>1, OneWord
    <3>3. d.pc = found  BY <1>1, <3>1, Zenon DEF Good, Thread
    <3> QED  BY <3>1, <3>2, <3>3
  <2>2. Set(r, c)  BY <1>2 DEF Current
  <2> HIDE DEF c
  <2> QED  BY <2>1, <2>2, HoldKept, Zenon
<1>3. ASSUME Goto(r, next)  PROVE GaugeInv'
  <2> DEFINE c == [rd[r] EXCEPT !.pc = next]
  <2>1. Good(c) /\ c.pc = next  BY <1>1, Placed
  <2>2. Set(r, c)  BY <1>3 DEF Goto
  <2> HIDE DEF c
  <2> QED  BY <2>1, <2>2, HoldKept, Zenon
<1> QED  BY <1>2, <1>3, Zenon DEF ReadWord

\* The constants are there, and no reader has begun.
LEMMA GaugeInit == Init => GaugeInv
  BY Fresh DEF Init, GaugeInv, Threads, HoldReleased

LEMMA GaugeNext == GaugeInv /\ [Next]_vars => GaugeInv'
<1> SUFFICES ASSUME GaugeInv, [Next]_vars PROVE GaugeInv'
  OBVIOUS
<1>0. \A r \in Reader : Good(rd[r])  BY DEF GaugeInv, Threads
<1>a. \A r \in Reader : rd[r].pc \notin {"entry", "release", "answer", "done"} => rd[r].seen = {}
  BY <1>0, Zenon DEF Good, Known
<1>1. ASSUME NEW r \in Reader, NEW psp \in Psp, Get(r, psp) PROVE GaugeInv'
  <2>1. PICK pc \in {"answer", "volt"} : Set(r, [Idle EXCEPT !.psp = psp, !.pc = pc])
    BY <1>1 DEF Get
  <2>2. PICK t : Good(t) /\ Set(r, t)  BY <2>1, Fresh, Zenon
  <2>3. rd[r].pc \notin Window  BY <1>1, SMT DEF Get, Window
  <2> QED  BY <1>1, <2>2, <2>3, HoldKept, Zenon DEF Get
<1>2. ASSUME NEW r \in Reader, qg_last_vi(r) PROVE GaugeInv'
  <2>1. Others /\ rd[r].pc = "volt" /\ rd[r].pc \notin Window  BY <1>2, Places, Zenon DEF qg_last_vi, At
  <2>2. ASSUME NEW w \in VRaw, NEW words \in SUBSET VRaw, \A v \in words : ToUv(v) <= ToUv(w),
               Set(r, Voltage(rd[r], words, w))
        PROVE  GaugeInv'
    <3>1. w \in Word /\ words \in SUBSET Word  BY GaugeAssumption, Zenon
    <3>2. Good(Voltage(rd[r], words, w))  BY <1>0, <2>1, <2>2, <3>1, VoltageKnown, Zenon
    <3> QED  BY <2>1, <2>2, <3>2, HoldKept, Zenon
  <2>3. \A v \in VRaw : v \in Word  BY GaugeAssumption, Zenon
  <2>4. ASSUME NEW v \in VRaw, Set(r, Voltage(rd[r], {v}, v))  PROVE GaugeInv'
    <3>1. \A u \in {v} : ToUv(u) <= ToUv(v)  BY <2>3, ConversionsFit, SMT
    <3>2. {v} \in SUBSET VRaw  OBVIOUS
    <3> QED  BY <2>2, <2>4, <3>1, <3>2, Zenon
  <2>5. ASSUME NEW v \in VRaw, NEW w \in VRaw, VWord(v) = 0, Set(r, Voltage(rd[r], {v, w}, w))
        PROVE  GaugeInv'
    <3>1. ToUv(v) <= ToUv(w)  BY <2>3, <2>5, ZeroIsLow, Zenon
    <3>2. ToUv(w) <= ToUv(w)  BY <2>3, ConversionsFit, SMT
    <3>3. \A u \in {v, w} : ToUv(u) <= ToUv(w)  BY <3>1, <3>2, Zenon
    <3>4. {v, w} \in SUBSET VRaw  OBVIOUS
    <3> QED  BY <2>2, <2>5, <3>3, <3>4, Zenon
  <2> QED  BY <1>2, <2>1, <2>4, <2>5, FailKept, Zenon DEF qg_last_vi
<1>3. ASSUME NEW r \in Reader, qg_read_fifo_i(r) PROVE GaugeInv'
  <2>1. Others /\ rd[r].pc = "fifo" /\ rd[r].pc \notin Window  BY <1>3, Places, Zenon DEF qg_read_fifo_i, At
  <2>2. ASSUME NEW k \in 1..FifoMax, Set(r, [rd[r] EXCEPT !.left = k, !.pc = "entry"])  PROVE GaugeInv'
    <3> DEFINE c == [rd[r] EXCEPT !.left = k, !.pc = "entry"]
    <3>1. k \in Nat  BY GaugeAssumption, SMT
    <3>2. Good(c)  BY <1>0, <2>1, <3>1, FifoBegun
    <3>3. Set(r, c)  BY <2>2
    <3> HIDE DEF c
    <3> QED  BY <2>1, <3>2, <3>3, HoldKept, Zenon
  <2>3. ASSUME Set(r, NoFifo(rd[r]))  PROVE GaugeInv'
    <3>1. Good(NoFifo(rd[r]))  BY <1>0, NoFifoGood, Zenon DEF Good
    <3> QED  BY <2>1, <2>3, <3>1, HoldKept, Zenon
  <2> QED  BY <1>3, <2>2, <2>3, Zenon DEF qg_read_fifo_i
<1>4. ASSUME NEW r \in Reader, ReadEntry(r) PROVE GaugeInv'
  <2>1. Others /\ rd[r].pc = "entry" /\ rd[r].pc \notin Window  BY <1>4, Places, Zenon DEF ReadEntry, At
  <2>2. ASSUME NEW raw \in IRaw,
               Set(r, IF Summed(rd[r], raw).left > 1
                      THEN [Summed(rd[r], raw) EXCEPT !.left = @ - 1] ELSE Mean(Summed(rd[r], raw)))
        PROVE  GaugeInv'
    <3> DEFINE t == Summed(rd[r], raw)
               c == [t EXCEPT !.left = @ - 1]
    <3>1. raw \in Word  BY GaugeAssumption, Zenon
    <3>2. t \in Thread /\ Heard(t) /\ t.pc = "entry" /\ SumOf(t.n, t.acc, t.seen)
      BY <1>0, <2>1, <3>1, SummedGood
    <3>3. Set(r, IF t.left > 1 THEN c ELSE Mean(t))  BY <2>2
    <3> HIDE DEF t
    <3>4. Good(Mean(t))  BY <3>2, MeanGood
    <3>5. t.left > 1 => Good(c)  BY <3>2, LoopGood
    <3> HIDE DEF c
    <3>6. CASE t.left > 1
      <4>1. Set(r, c)  BY <3>3, <3>6, Zenon
      <4> QED  BY <2>1, <3>5, <3>6, <4>1, HoldKept, Zenon
    <3>7. CASE ~(t.left > 1)
      <4>1. Set(r, Mean(t))  BY <3>3, <3>7, Zenon
      <4> QED  BY <2>1, <3>4, <4>1, HoldKept, Zenon
    <3> QED  BY <3>6, <3>7
  <2>3. ASSUME Set(r, NoFifo(rd[r]))  PROVE GaugeInv'
    <3>1. Good(NoFifo(rd[r]))  BY <1>0, NoFifoGood, Zenon DEF Good
    <3> QED  BY <2>1, <2>3, <3>1, HoldKept, Zenon
  <2> QED  BY <1>4, <2>2, <2>3, Zenon DEF ReadEntry
<1>5. ASSUME NEW r \in Reader, ReadS2(r) PROVE GaugeInv'
  <2>1. rd[r].pc = "s2" /\ Others /\ ReadWord(r, "answer", "hold")  BY <1>5, Zenon DEF ReadS2, At
  <2>2. rd[r].pc # "entry" /\ rd[r].pc \notin Window /\ rd[r].seen = {}
    BY <1>a, <2>1, Places, SMT
  <2>3. "hold" \in Place \ {"entry", "done"}  BY Places
  <2> QED  BY <2>1, <2>2, <2>3, WordKept
<1>6. ASSUME NEW r \in Reader, Hold(r) PROVE GaugeInv'
  <2>1. rd[r].pc = "hold"  BY <1>6, Zenon DEF Hold, At
  <2>2. rd[r].seen = {} /\ rd[r].pc # "entry"  BY <1>a, <2>1, SMT
  <2>3. "burst" \in Place \ {"entry", "done"}  BY Places
  <2> DEFINE c == [rd[r] EXCEPT !.pc = "burst"]
  <2>4. Good(c) /\ c.pc = "burst"  BY <1>0, <2>2, <2>3, Placed
  <2>5. Set(r, c)  BY <1>6 DEF Hold, Goto
  <2> HIDE DEF c
  <2>6. Threads' /\ rd'[r].pc = "burst"  BY <2>4, <2>5, OnlyOne, Zenon DEF GaugeInv
  <2> QED  BY <2>6, Zenon DEF GaugeInv, HoldReleased
<1>7. ASSUME NEW r \in Reader, ReadBurst(r) PROVE GaugeInv'
  <2>1. rd[r].pc = "burst" /\ Others /\ ReadWord(r, "release", "release")  BY <1>7, Zenon DEF ReadBurst, At
  <2>2. rd[r].pc # "entry" /\ rd[r].seen = {}  BY <1>a, <2>1, SMT
  <2>3. "release" \in Place \ {"entry", "done"} /\ "release" \in Window  BY Places
  <2> QED  BY <2>1, <2>2, <2>3, WordKept
<1>8. ASSUME NEW r \in Reader, Release(r) PROVE GaugeInv'
  <2>1. rd[r].pc = "release" /\ Goto(r, IF rd[r].seen = {} THEN "last" ELSE "answer")
    BY <1>8, Zenon DEF Release, At
  <2>2. \E t : Good(t) /\ Set(r, t)
    <3>1. "release" # "entry" /\ {"last", "answer"} \subseteq Place \ {"entry", "done"}  BY Places, SMT
    <3>2. CASE rd[r].seen = {}
      <4>1. Set(r, [rd[r] EXCEPT !.pc = "last"])  BY <2>1, <3>2 DEF Goto
      <4>2. Good([rd[r] EXCEPT !.pc = "last"])  BY <1>0, <2>1, <3>1, <3>2, Placed
      <4> QED  BY <4>1, <4>2
    <3>3. CASE rd[r].seen # {}
      <4>1. Set(r, [rd[r] EXCEPT !.pc = "answer"])  BY <2>1, <3>3 DEF Goto
      <4>2. Good([rd[r] EXCEPT !.pc = "answer"])  BY <1>0, <2>1, <3>1, Placed
      <4> QED  BY <4>1, <4>2
    <3> QED  BY <3>2, <3>3
  <2>3. Threads'  BY <2>2, OnlyOne, Zenon DEF GaugeInv
  <2>4. hold' = FALSE \/ (hold' = hold /\ lost' = TRUE)  BY <1>8, Zenon DEF Release
  <2> QED  BY <2>3, <2>4, Zenon DEF GaugeInv, HoldReleased
<1>9. ASSUME NEW r \in Reader, ReadLast(r) PROVE GaugeInv'
  <2>1. Others /\ rd[r].pc = "last" /\ rd[r].pc \notin Window  BY <1>9, Places, Zenon DEF ReadLast, At
  <2>2. rd[r].pc # "entry" /\ rd[r].seen = {}  BY <1>a, <2>1, SMT
  <2>3. CASE \E raw \in IRaw : IF qg_iraw_ok(raw) THEN Current(r, qg_raw_to_ua(raw), {raw}, "answer")
                               ELSE Current(r, 0, {}, "answer")
    <3>1. \/ \E raw \in IRaw : qg_iraw_ok(raw) /\ Current(r, qg_raw_to_ua(raw), {raw}, "answer")
          \/ Current(r, 0, {}, "answer")
      BY <2>3, Zenon
    <3>2. CASE Current(r, 0, {}, "answer")
      <4> DEFINE c == [rd[r] EXCEPT !.ua = 0, !.seen = {}, !.pc = "answer"]
      <4>1. 0 \in Int /\ {} \in SUBSET Word /\ "answer" \in {"release", "answer"}  BY SMT
      <4>2. Good(c)  BY <1>0, <2>2, <4>1, CurrentKnown, Zenon
      <4>3. Set(r, c)  BY <3>2 DEF Current
      <4> HIDE DEF c
      <4> QED  BY <2>1, <4>2, <4>3, HoldKept, Zenon
    <3>3. CASE \E raw \in IRaw : qg_iraw_ok(raw) /\ Current(r, qg_raw_to_ua(raw), {raw}, "answer")
      <4>1. ReadWord(r, "answer", "last")  BY <3>3, Zenon DEF ReadWord
      <4>2. "last" \in Place \ {"entry", "done"}  BY Places
      <4> QED  BY <2>1, <2>2, <4>1, <4>2, WordKept
    <3> QED  BY <3>1, <3>2, <3>3
  <2> QED  BY <1>9, <2>1, <2>3, FailKept, Zenon DEF ReadLast
<1>10. ASSUME NEW r \in Reader, Answer(r) PROVE GaugeInv'
  <2>1. Others /\ rd[r].pc = "answer" /\ rd[r].pc \notin Window  BY <1>10, Places, Zenon DEF Answer, At
  <2>2. ASSUME NEW val \in Int, Set(r, [rd[r] EXCEPT !.val = val, !.pc = "done"]),
               rd[r].psp = "capacity" => val \in 0..100 /\ (val = 0 => Low(rd[r].uv))
        PROVE  GaugeInv'
    <3> DEFINE c == [rd[r] EXCEPT !.val = val, !.pc = "done"]
    <3>1. Good(c)  BY <1>0, <2>1, <2>2, Answered
    <3>2. Set(r, c)  BY <2>2
    <3> HIDE DEF c
    <3> QED  BY <2>1, <3>1, <3>2, HoldKept, Zenon
  <2>3. ASSUME rd[r].psp = "present", NEW val \in 0..1,
               Set(r, [rd[r] EXCEPT !.val = val, !.pc = "done"])
        PROVE  GaugeInv'
    <3>1. val \in Int /\ rd[r].psp # "capacity"  BY <2>3, SMT
    <3> QED  BY <2>2, <2>3, <3>1
  <2>4. ASSUME rd[r].psp # "present", NEW soc \in Int,
               Set(r, [rd[r] EXCEPT !.val = Value(rd[r].psp, rd[r].uv, rd[r].ua, soc), !.pc = "done"])
        PROVE  GaugeInv'
    <3> DEFINE val == Value(rd[r].psp, rd[r].uv, rd[r].ua, soc)
    <3>1. rd[r].psp = "capacity" => val = Capacity(soc, rd[r].uv)
      BY DEF Value
    <3>2. rd[r].uv \in Int /\ rd[r].ua \in Int /\ rd[r].psp \in Psp  BY <1>0, Zenon DEF Good, Thread
    <3>3. /\ Capacity(soc, rd[r].uv) \in 0..100
          /\ Capacity(soc, rd[r].uv) = 0 => Low(rd[r].uv)
      BY <3>2, CapacityAnswer, Zenon
    <3>4. rd[r].psp = "capacity" => val \in 0..100 /\ (val = 0 => Low(rd[r].uv))
      BY <3>1, <3>3, Zenon
    <3>5. val \in Int
      BY <2>4, <3>1, <3>2, <3>3, SMT DEF Value, Psp, Status
    <3>6. Set(r, [rd[r] EXCEPT !.val = val, !.pc = "done"])
      BY <2>4 DEF val
    <3> HIDE DEF val
    <3> QED  BY <2>2, <3>4, <3>5, <3>6
  <2>5. Soc \cup (IF "io" \in Faults THEN {0} ELSE {}) \subseteq Int
    BY GaugeAssumption, SMT
  <2> QED  BY <1>10, <2>1, <2>3, <2>4, <2>5, FailKept, Zenon DEF Answer
<1>11. ASSUME pmi632_qg_probe PROVE GaugeInv'
  BY <1>11, Zenon DEF pmi632_qg_probe, GaugeInv, Threads, HoldReleased
<1>12. ASSUME Reboot PROVE GaugeInv'
  BY <1>12, Fresh DEF Reboot, GaugeInv, Threads, HoldReleased
<1>13. ASSUME UNCHANGED vars PROVE GaugeInv'
  BY <1>13, Zenon DEF vars, GaugeInv, Threads, HoldReleased
<1> QED
  BY <1>1, <1>2, <1>3, <1>4, <1>5, <1>6, <1>7, <1>8, <1>9, <1>10, <1>11, <1>12, <1>13, Zenon DEF Next

\* Every reader's variables stay in the driver's types.
THEOREM GaugeTypeOK == Spec => []TypeOK
<1>1. GaugeInv => rd \in [Reader -> Thread]  BY DEF GaugeInv, Threads, Good
<1>2. Init => hold \in BOOLEAN /\ probed \in BOOLEAN /\ lost \in BOOLEAN  BY DEF Init
<1>3. hold \in BOOLEAN /\ probed \in BOOLEAN /\ lost \in BOOLEAN /\ [Next]_vars
        => (hold \in BOOLEAN /\ probed \in BOOLEAN /\ lost \in BOOLEAN)'
  <2> SUFFICES ASSUME hold \in BOOLEAN, probed \in BOOLEAN, lost \in BOOLEAN, [Next]_vars
               PROVE  hold' \in BOOLEAN /\ probed' \in BOOLEAN /\ lost' \in BOOLEAN
    OBVIOUS
  <2>1. hold' \in {TRUE, FALSE, hold} /\ probed' \in {TRUE, FALSE, probed} /\ lost' \in {TRUE, FALSE, lost}
    BY Zenon DEF Next, vars, Get, qg_last_vi, qg_read_fifo_i, ReadEntry, ReadS2, Hold, ReadBurst, Release,
                 ReadLast, Answer, pmi632_qg_probe, Reboot, Others
  <2> QED  BY <2>1
<1> QED  BY <1>1, <1>2, <1>3, GaugeInit, GaugeNext, PTL DEF Spec, TypeOK

\* For any number of readers in any interleaving, and any register accesses that fail, the
\* gauge's averages stay frozen only for a reader in its window or a lost write.
THEOREM HoldIsReleased == Spec => []HoldReleased
<1>1. GaugeInv => HoldReleased  BY Zenon DEF GaugeInv
<1> QED  BY GaugeInit, GaugeNext, <1>1, PTL DEF Spec

\* Whatever the registers hold (qg_get_property, qg_last_vi), a capacity is a percentage, and
\* 0 only if every voltage word that was read says so.
THEOREM CapacityIsHonest == Spec => []CapacityHonest
<1>1. ASSUME GaugeInv, NEW r \in Reader, rd[r].pc = "done", rd[r].psp = "capacity"
      PROVE  /\ rd[r].val \in 0..100
             /\ rd[r].val = 0 => \A w \in rd[r].volts : ToUv(w) < VBAT_MIN_UV + 9500
  <2>1. Good(rd[r])  BY <1>1, Zenon DEF GaugeInv, Threads
  <2>2. rd[r].val \in 0..100 /\ (rd[r].val = 0 => Low(rd[r].uv))  BY <1>1, <2>1, Zenon DEF Good, Honest
  <2>3. rd[r].uv \in Int /\ \A w \in rd[r].volts : ToUv(w) <= rd[r].uv  BY <2>1, Zenon DEF Good, Heard
  <2>4. \A w \in rd[r].volts : ToUv(w) \in Int
    <3>1. rd[r].volts \subseteq Word  BY <2>1, Zenon DEF Good, Thread
    <3> QED  BY <3>1, ConversionsFit, SMT
  <2> QED  BY <2>2, <2>3, <2>4, SMT DEF Low, VBAT_MIN_UV
<1>2. GaugeInv => CapacityHonest  BY <1>1, SMT DEF CapacityHonest
<1> QED  BY GaugeInit, GaugeNext, <1>2, PTL DEF Spec

\* For a FIFO of any length and any raw words, a current is between two valid samples it
\* was made of: what is no sample is never counted.
THEOREM CurrentIsHonest == Spec => []CurrentHonest
<1>1. ASSUME GaugeInv, NEW r \in Reader, rd[r].pc \in {"release", "answer", "done"}, rd[r].seen # {}
      PROVE  /\ \E raw \in rd[r].seen : qg_raw_to_ua(raw) <= rd[r].ua
             /\ \E raw \in rd[r].seen : qg_raw_to_ua(raw) >= rd[r].ua
  <2>1. Good(rd[r])  BY <1>1, Zenon DEF GaugeInv, Threads
  <2>2. Between(rd[r].ua, rd[r].seen)  BY <1>1, <2>1, Zenon DEF Good, Known
  <2>3. rd[r].ua \in Int /\ \A raw \in rd[r].seen : qg_raw_to_ua(raw) \in Int
    BY <2>1, AmpsInt, Zenon DEF Good, Thread
  <2>4. \A a, b \in Int : a <= b => b >= a  BY SMT
  <2> QED  BY <2>2, <2>3, <2>4, Zenon DEF Between
<1>2. GaugeInv => CurrentHonest  BY <1>1, Zenon DEF CurrentHonest
<1> QED  BY GaugeInit, GaugeNext, <1>2, PTL DEF Spec
=============================================================================
