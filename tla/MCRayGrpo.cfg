\* RayGrpo with WeightTransfer: two replicas, three training steps, two synchronisations.
CONSTANTS
  Replicas = {"r1", "r2"}
  ReplicaOrder <- TwoReplicas
  NcclCap = 3
  IpcCap = 2
  Plans <- Deployments
  TrainIters = 3
  Spg = 2
  Prompts = 3
  None = None
SPECIFICATION FairSpec
CHECK_DEADLOCK FALSE
INVARIANTS
  TypeOK
  DriverIntact
  ModelsInPlace
  OnPolicy
PROPERTIES
  TransferIsSync
  GrpoEnds
