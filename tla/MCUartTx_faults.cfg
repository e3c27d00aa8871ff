\* The DMA provider and the work queue may fail any call.
CONSTANTS
  MaxBlock = 4
  Threads = {t1, t2}
  Buffers = {1, 2}
  MaxLength = 2
  MaxTicks = 1
  Callbacks = {ca}
  Faults = {"config", "start", "sched", "status"}
SYMMETRY ThreadSymmetry
SPECIFICATION Spec
INVARIANTS TypeOK EngineReadsOnlyLent IdleIsGated TransferOwnsTransmitter NeverAbortedEarly
PROPERTY ImplementsContract
