SPECIFICATION FairSpec
CONSTANTS
  Boards <- MCBoards
  Data = {"in1", "out2"}
  Ops = {"epdisable", "disable", "reset", "suspend", "overflow"}
  Sizes = {3}
  Packets = {1}
  MaxReq = 2
  MaxFault = 0
  MaxBus = 3
CHECK_DEADLOCK FALSE
INVARIANT LoansConserved
INVARIANT NoCorruptedSuccess
INVARIANT BootStateIsRestored
PROPERTY TransferIsServiced
