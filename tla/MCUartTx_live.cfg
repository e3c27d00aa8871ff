\* Nothing is asked of DMA and USART, which may stall.
CONSTANTS
  MaxBlock = 4
  Threads = {t1}
  Buffers = {1, 2}
  MaxLength = 2
  MaxTicks = 2
  Callbacks = {ca}
  Faults = {}
SPECIFICATION StallingSpec
INVARIANTS AbortCountsHandedOver RefusalIsTemporary
PROPERTIES DeadlineHonoured OwnerIsTold
