----------------------------- MODULE MCWifiHud -----------------------------
(* Instances of WifiHud for TLC. *)
EXTENDS WifiHud, TLC

CONSTANTS s1, s2

\* s1 is the 5 GHz sibling of s2: "home_5G" and "home".
MCLonger == {<<s1, s2>>}

\* Sound when no constant tells the networks apart.
Symmetry == Permutations(SSID)
=============================================================================
