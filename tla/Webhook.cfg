SPECIFICATION FairSpec
CONSTANTS
  Entries = {e1, e2}
  Workers = {w1, w2}
  Admins = {a1}
  NoEntry = NoEntry
  BatchSize = 2
  MaxAttempts = 2
  SlowWorkers = TRUE
  MaxFaults = 1
CHECK_DEADLOCK FALSE
INVARIANTS
  HandledOnce
PROPERTIES
  SuccessIsFinal
  EveryEventEnds
