\* EvalBatch: three calls with batch_size 2 or None, engine and conversion may raise.
CONSTANTS
  c1 = c1
  c2 = c2
  c3 = c3
  NoThread = NoThread
  Callers <- Calls3
  BatchSizes <- SizesMixed
  MayRaise = TRUE
SPECIFICATION FairSpec
CHECK_DEADLOCK FALSE
INVARIANTS
  TypeOK
  OwedOnce
  ThreadServes
PROPERTIES
  CallsReturn
