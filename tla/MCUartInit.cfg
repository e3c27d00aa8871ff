SPECIFICATION Spec
CONSTANTS
  Clocks = {0, 15, 65535, 8000000}
  Bauds = {0, 1, 122, 115200}
  BrrMax = 65535
INVARIANT InitIsAllOrNothing
CHECK_DEADLOCK FALSE
