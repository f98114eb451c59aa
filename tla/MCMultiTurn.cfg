\* MultiTurn: both drivers; run_multi_turn on two ranks with two requests and one, up to three turns.
CONSTANTS
  NumRanks = 2
  Batch <- TwoAndOne
  MaxTurns = 3
  Setups <- Documented
  Nothing = Nothing
SPECIFICATION FairSpec
CHECK_DEADLOCK FALSE
INVARIANTS
  TypeOK
  LockStep
  TrainedAsSaid
PROPERTY
  RolloutEnds
