\* Systemd, the user and the two other programs, with a kill before any step.
SPECIFICATION Spec
INVARIANTS
  StopLeavesNothing
  RestartRepairs
