\* A 5 A gauge; register accesses that fail and warm restarts.
CONSTANTS
  r1 = r1
  r2 = r2
  Reader <- MCReader
  FifoMax = 2
  VRaw <- MCVRaw
  IRaw <- MCIRaw
  Soc <- MCSoc
  LsbUa = 152588
  Faults = {"io", "reboot"}
SPECIFICATION Spec
INVARIANTS
  HoldReleased
  CapacityHonest
  CurrentHonest
SYMMETRY Symmetry
