SPECIFICATION FairSpec
CONSTANTS
  c1 = c1
  c2 = c2
  NoConn = NoConn
  Conns = {c1, c2}
  Fds = {4, 5}
  NodeIds = {1}
  Dests = {0}
  NODE_ID = 1000
  MaxSend = 3
  SndCap = 1
  DefaultGw = TRUE
INVARIANT
  TypeOK
PROPERTIES
  PairsInOrder
  RouteLockReleased
  ClosedClientThreadEnds
\* The clients stop after MaxSend frames and the server waits for more.
CHECK_DEADLOCK FALSE
