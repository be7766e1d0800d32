SPECIFICATION FairSpec
CONSTANTS
  Events = {e1, e2}
  Unroutable = {e2}
  Instances = {i1, i2}
  BatchSize = 2
  MaxAttempts = 2
  AddsMayLand = TRUE
  MaxFaults = 1
CHECK_DEADLOCK FALSE
INVARIANTS
  TypeOK
  OneExecutor
  RepeatsExplained
  ParkedWhenSpent
PROPERTIES
  KeepsPromise
  Settles
