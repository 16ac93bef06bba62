\* Expected to fail: joining the shorter of two sibling names.
CONSTANTS
  s1 = s1
  s2 = s2
  SSID = {s1, s2}
  NoSsid = NoSsid
  Enterprise = {}
  Longer <- MCLonger
  Starts = {TRUE}
SPECIFICATION Spec
INVARIANTS
  TargetIsBelieved
