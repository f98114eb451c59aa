\* AsyncRollout: four steps, evaluations after any of them.
CONSTANTS
  MaxSteps = 4
  EvalBatches = 2
  GenerateEvery <- Intervals
  Accumulations <- Intervals
  Nothing = Nothing
SPECIFICATION FairSpec
CHECK_DEADLOCK FALSE
INVARIANTS
  TypeOK
  RoundsInStep
PROPERTY
  TrainingEnds
