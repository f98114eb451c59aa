\* DataLoading: four loaders, two or three processes, two crashes.
CONSTANTS
  Plans <- Jobs
  Permutation <- Rotated
  MaxCrashes = 2
SPECIFICATION FairLoadSpec
CHECK_DEADLOCK FALSE
INVARIANTS
  LoadTypeOK
  EpochTrainedOnce
PROPERTY
  TrainingCompletes
