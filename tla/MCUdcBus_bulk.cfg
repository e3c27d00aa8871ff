SPECIFICATION Spec
CONSTANTS
  Boards <- MCBoard
  Data = {"in1", "out2"}
  Ops = {"halt", "clear", "dequeue"}
  Sizes = {0, 2, 3}
  Packets = {0, 1, 2, 3}
  MaxReq = 2
  MaxFault = 1
  MaxBus = 1
CHECK_DEADLOCK FALSE
INVARIANT TypeOK
INVARIANT SuccessIsExact
INVARIANT ReadyIsArmed
INVARIANT CreditsItsRequest
