SPECIFICATION Spec
CONSTANTS
  p1 = p1
  k1 = k1
  k2 = k2
  Events = {1, 2}
  Ticks = {k1, k2}
  Procs = {p1}
  ProcOf <- OneProc
  BatchLimit = 2
  MaxRetries = 2
  Prefetch = 1
  QueueExists = TRUE
  MaxCrashes = 1
  MaxDbErrors = 1
  MaxFull = 1
SYMMETRY AnyTicks
CHECK_DEADLOCK FALSE
INVARIANTS
  OwnedAndCounted
  StuckOnlyByFault
PROPERTY ImplementsAtLeastOnce
