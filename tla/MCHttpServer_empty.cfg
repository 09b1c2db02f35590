\* One client whose request the handler answers with an empty payload (a 404 or 400).
CONSTANTS
  Sockets = {s1}
  Cap = 10
  Shapes <- MCShapesSplit
  PayloadSizes = {0}
  HdrLen = 1
  Room = 2
  MaxConns = 1
  MaxStalls = 0
SPECIFICATION Spec
PROPERTY ResponseFinishes
CHECK_DEADLOCK FALSE
