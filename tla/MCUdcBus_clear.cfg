SPECIFICATION Spec
CONSTANTS
  Boards <- MCBoard
  Data = {"in1"}
  Ops = {"clear", "clear any"}
  Sizes = {2}
  Packets = {2}
  MaxReq = 1
  MaxFault = 0
  MaxBus = 1
CHECK_DEADLOCK FALSE
PROPERTY ClearHaltRestarts
