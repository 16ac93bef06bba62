\* One network: the liveness of the requests when jobs start.
CONSTANTS
  s1 = s1
  s2 = s2
  SSID = {s1}
  NoSsid = NoSsid
  Enterprise = {}
  Longer = {}
  Starts = {TRUE}
SPECIFICATION FairSpec
INVARIANTS
  NoOrphanJoin
PROPERTIES
  ForgetEnds
  ConfirmEnds
  JoinEnds
  QueueDrains
