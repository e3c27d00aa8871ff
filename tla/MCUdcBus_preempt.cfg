SPECIFICATION Spec
CONSTANTS
  Boards <- MCBoard
  Data = {"in0"}
  Ops = {"setup"}
  Sizes = {2}
  Packets = {2}
  MaxReq = 2
  MaxFault = 0
  MaxBus = 1
CHECK_DEADLOCK FALSE
INVARIANT SetupIntact
