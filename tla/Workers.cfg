SPECIFICATION FairSpec
CONSTANTS
  WorkerThreads = {w1, w2, w3}
  feeder = feeder
  NoValue = NoValue
  MaxPayloads = 3
INVARIANTS PayloadInOnePlace SomeWorkerFree
PROPERTY ProcessOneEnds
