\* The DMA provider may fail any call.
CONSTANTS
  MaxBlock = 4
  Threads = {t1, t2}
  Blocks <- MCBlocks
  Callbacks = {ca}
  Generations = 2
  RingSize = 7
  Faults = {"config", "start", "status"}
SPECIFICATION FairSpec
INVARIANTS RingNeverOverflows EngineWritesOnlyLent NoSilentLoss
PROPERTIES ImplementsContract StopCompletes RequestReachesApplication
