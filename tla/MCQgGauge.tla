----------------------------- MODULE MCQgGauge -----------------------------
(* Two readers that nothing tells apart, and two FIFO entries. *)
EXTENDS QgGauge, TLC

CONSTANTS r1, r2

MCReader == {r1, r2}
Symmetry == Permutations(MCReader)

\* 0 V, just above the empty battery, in between and above the full one.
MCVRaw == {0, 17469, 20000, 23000}

\* Both values that mean "no sample", a charging and a discharging current.
MCIRaw == {0, 32768, 400, 65000}

\* Not loaded, the smallest, the largest and one that is out of range.
MCSoc == {0, 1, 100, 101}
=============================================================================
