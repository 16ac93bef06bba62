\* An ordinary network and an 802.1X one with a sibling name.
CONSTANTS
  s1 = s1
  s2 = s2
  SSID = {s1, s2}
  NoSsid = NoSsid
  Enterprise = {s2}
  Longer <- MCLonger
  Starts = {TRUE}
SPECIFICATION Spec
INVARIANTS
  TypeOK
  NoEnterpriseJoin
PROPERTIES
  HudJoins
