SPECIFICATION FairSpec
CONSTANTS
  Period = 3
  Entries = 2
  SlowTicks = 2
  SampleInterval = 2
  CharTicks = 2
  MaxBytes = 2
  MaxErrors = 1
  QueueSize = 2
  Banner = 1
  MaxClock = 3
INVARIANTS ErrorsAreTraced EchoIsFaithful RingIsHistory
PROPERTY EchoCompletes
CHECK_DEADLOCK FALSE
