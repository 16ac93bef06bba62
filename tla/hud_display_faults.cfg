\* Three buffers; everything but eglMakeCurrent and a new framebuffer may fail.
CONSTANTS
  b1 = b1
  b2 = b2
  b3 = b3
  b4 = b4
  Bo = {b1, b2, b3}
  NoBo = NoBo
  Faults = {"commit", "flip", "swap", "dcs", "supply", "late"}
SPECIFICATION FairSpec
INVARIANTS
  TypeOK
  HeldIsKnown
PROPERTIES
  FramesComeBack
