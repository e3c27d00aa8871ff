SPECIFICATION Spec
CONSTANTS
  Period = 4
  Entries = 2
  SlowTicks = 2
  SampleInterval = 2
  CharTicks = 2
  MaxBytes = 3
  MaxErrors = 1
  QueueSize = 2
  Banner = 1
  MaxClock = 0
INVARIANT LossIsNotHidden
CHECK_DEADLOCK FALSE
