SPECIFICATION Spec
CONSTANTS
  Boards <- MCBoard
  Data = {"in0", "out0"}
  Ops = {"setup", "halt", "address", "reset"}
  Sizes = {0, 3}
  Packets = {0, 2}
  MaxReq = 3
  MaxFault = 0
  MaxBus = 2
CHECK_DEADLOCK FALSE
INVARIANT SetupSupersedes
