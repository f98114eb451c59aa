\* GrpoBatches: the two trainers, with deletion, dynamic sampling, a crash.
CONSTANTS
  Prompts = 4
  Long = {1, 2}
  Jobs <- MCJobs
  MaxCrashes = 1
SPECIFICATION BatchSpec
CHECK_DEADLOCK FALSE
INVARIANTS
  BatchTypeOK
  GroupsWhole
  BufferedBatch
PROPERTY
  SlicesInTurn
