SPECIFICATION FairSpec
CONSTANTS
  p1 = p1
  k1 = k1
  k2 = k2
  Events = {1, 2}
  Ticks = {k1, k2}
  Procs = {p1}
  ProcOf <- OneProc
  BatchLimit = 2
  MaxRetries = 2
  Prefetch = 1
  QueueExists = FALSE
  MaxCrashes = 0
  MaxDbErrors = 0
  MaxFull = 1
CHECK_DEADLOCK FALSE
PROPERTY EventReachesConsumer
