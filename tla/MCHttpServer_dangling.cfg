\* One client, a two-unit payload, and one send that would block.
CONSTANTS
  Sockets = {s1}
  Cap = 10
  Shapes <- MCShapesSplit
  PayloadSizes = {2}
  HdrLen = 1
  Room = 2
  MaxConns = 1
  MaxStalls = 1
SPECIFICATION Spec
PROPERTY ResponseFinishes
CHECK_DEADLOCK FALSE
