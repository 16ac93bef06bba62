\* The four buffers of a GBM surface; rendering may fail, the kernel and the panel do not.
CONSTANTS
  b1 = b1
  b2 = b2
  b3 = b3
  b4 = b4
  Bo = {b1, b2, b3, b4}
  NoBo = NoBo
  Faults = {"egl", "swap", "fb"}
SPECIFICATION Spec
INVARIANTS
  ScanoutHeld
  NoStaleEvent
  ScreenAgrees
  PanelPoweredOnce
