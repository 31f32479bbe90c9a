SPECIFICATION OldSpec
CONSTANTS
  c1 = c1
  c2 = c2
  c3 = c3
  NoConn = NoConn
  Conns = {c1, c2, c3}
  Fds = {4, 5, 6}
  NodeIds = {1, 2}
  Dests = {1}
  NODE_ID = 1000
  MaxSend = 6
  SndCap = 3
  DefaultGw = FALSE
  ClientIds <- SharedId
CONSTRAINT OneGone
SYMMETRY ConnSymmetry
INVARIANTS
  DescriptorOwnership
  RouteLockDiscipline
  DeliveredAtMostOnce
  MessagesBounded
  WritesDoNotBlock
\* The clients stop after MaxSend frames and the server waits for more.
CHECK_DEADLOCK FALSE
