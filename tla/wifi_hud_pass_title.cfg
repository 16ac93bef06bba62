\* Expected to fail: which network the password sheet is about.
CONSTANTS
  s1 = s1
  s2 = s2
  SSID = {s1, s2}
  NoSsid = NoSsid
  Enterprise = {}
  Longer = {}
  Starts = {TRUE}
SPECIFICATION Spec
INVARIANTS
  PassSheetIsTarget
