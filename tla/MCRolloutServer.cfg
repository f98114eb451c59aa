\* RolloutServer: two workers, two trainers one after the other, one process killed, one method that raises.
CONSTANTS
  query = query
  key = key
  Nobody = Nobody
  NumWorkers = 2
  Params <- BothParams
  Plans <- BothPlans
  Sizes <- OneOrThree
  MaxVersion = 2
  MaxAsks = 2
  MaxSessions = 2
  MaxKills = 1
  MaxFaults = 1
SPECIFICATION FairSpec
CHECK_DEADLOCK FALSE
INVARIANTS
  TypeOK
  AnswersTheAsk
  SyncedInference
PROPERTY
  CallsEnd
