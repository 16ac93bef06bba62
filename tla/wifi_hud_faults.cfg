\* Two networks that nothing tells apart, and jobs that may fail to start.
CONSTANTS
  s1 = s1
  s2 = s2
  SSID = {s1, s2}
  NoSsid = NoSsid
  Enterprise = {}
  Longer = {}
  Starts = {TRUE, FALSE}
SPECIFICATION Spec
SYMMETRY Symmetry
INVARIANTS
  ForgetOwnsJob
  ForgetHoldsSelection
  ConnectJobIsJoin
  ConfirmingIsQuiet
  QueuedJoinIsCurrent
  NoRetryLoop
  ForgottenIsGone
