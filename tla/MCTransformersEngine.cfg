\* TransformersEngine: three calls, full and streaming, batches of at most two.
CONSTANTS
  r1 = r1
  r2 = r2
  r3 = r3
  full = full
  stream = stream
  base = base
  lora = lora
  Requests <- Calls3
  Configs <- BothConfigs
  StreamConfigs <- StreamOnly
  Adapters <- OneAdapter
  MaxBatchSize = 2
  MaxChunks = 1
  CanFail = TRUE
  NoKwargs = NoKwargs
SPECIFICATION FairSpec
CHECK_DEADLOCK FALSE
INVARIANTS
  TypeOK
  NoCallLost
  AnsweredOnce
  OwnConfig
  BatchFits
  LoneStreamNotCut
PROPERTIES
  PerConfigFifo
  CallsEnd
