SPECIFICATION Spec
CONSTANTS
  c1 = c1
  c2 = c2
  c3 = c3
  NoConn = NoConn
  Conns = {c1, c2, c3}
  Fds = {4, 5}
  NodeIds = {1}
  Dests = {1}
  NODE_ID = 1000
  MaxSend = 3
  SndCap = 1
  DefaultGw = FALSE
SYMMETRY ConnSymmetry
INVARIANT
  DeliveredToDestination
\* The clients stop after MaxSend frames and the server waits for more.
CHECK_DEADLOCK FALSE
