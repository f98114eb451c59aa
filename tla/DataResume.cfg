\* DataLoading: the mapped loader of the trainers, resumed from a checkpoint.
CONSTANTS
  Plans <- ShardJobs
  Permutation <- Rotated
  MaxCrashes = 1
SPECIFICATION LoadSpec
CHECK_DEADLOCK FALSE
INVARIANT
  ResumedEpochOnce
