\* GrpoBatches: GRPOTrainer with truncation_strategy delete and a prompt too long.
CONSTANTS
  Prompts = 4
  Long = {1, 2}
  Jobs <- DeleteJobs
  MaxCrashes = 0
SPECIFICATION BatchSpec
CHECK_DEADLOCK FALSE
INVARIANT
  GroupsOfOnePrompt
