\* IterablePackingDataset: up to five samples, rounds of two, two encoder processes, two iterations.
CONSTANTS
  w1 = w1
  w2 = w2
  MaxSamples = 5
  Interval = 2
  Workers <- TwoWorkers
  Length <- Lengths
  PackingLength = 2
  MaxIters = 2
  Empty = Empty
SPECIFICATION FairSpec
CHECK_DEADLOCK FALSE
INVARIANTS
  TypeOK
  RoundsKept
  EachSampleOnce
PROPERTY
  GeneratorEnds
