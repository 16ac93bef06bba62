\* Expected to fail: modesets that may fail.
CONSTANTS
  b1 = b1
  b2 = b2
  b3 = b3
  b4 = b4
  Bo = {b1, b2, b3}
  NoBo = NoBo
  Faults = {"commit"}
SPECIFICATION Spec
INVARIANTS
  UnblankLights
