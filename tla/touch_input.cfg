\* One and two fingers, a queue that overflows, the power key and jobs at any time.
CONSTANTS
  N = 2
  MaxId = 2
  QMax = 2
SPECIFICATION Spec
INVARIANTS
  OneTapPerTouch
  NothingStuck
  BrightnessAgrees
PROPERTIES
  LiveFingerKept
