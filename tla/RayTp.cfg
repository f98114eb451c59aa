\* RayGrpo: the workers of a replica and the shared buffer.
CONSTANTS
  Replicas = {"r1", "r2"}
  ReplicaOrder <- TwoReplicas
  NcclCap = 3
  IpcCap = 2
  Plans <- Deployments
  TrainIters = 3
  Spg = 2
  Prompts = 3
  None = None
SPECIFICATION Spec
CHECK_DEADLOCK FALSE
INVARIANT
  TensorsIntact
