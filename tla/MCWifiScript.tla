---------------------------- MODULE MCWifiScript ----------------------------
(* Two networks, and room for two profiles with every name, network and secret that
   the script tells apart. *)
EXTENDS WifiScript, TLC
CONSTANTS s1, s2, u1, u2

P(s, n, km, psk, agent) == [ssid |-> s, name |-> n, km |-> km, psk |-> psk, agent |-> agent]
MCSaved == {P(s1, s1, "psk", "good", FALSE), P(s1, s1, "psk", "bad", FALSE),
            P(s1, s2, "psk", "good", FALSE), P(s2, s1, "psk", "good", FALSE),
            P(s1, Legacy(s1), "psk", "good", TRUE), P(s1, s1, "psk", "none", TRUE), P(s1, s1, "open", "none", FALSE),
            P(s2, s2, "psk", "good", FALSE)}
\* The profiles are told apart by nothing but what they hold.
Symmetry == Permutations(Uuid)
=============================================================================
