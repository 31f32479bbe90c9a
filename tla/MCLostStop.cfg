SPECIFICATION FairSpec
CONSTANTS
  c1 = c1
  NoConn = NoConn
  Conns = {c1}
  Fds = {4}
  NodeIds = {1}
  Dests = {1}
  NODE_ID = 1000
  MaxSend = 1
  SndCap = 1
  DefaultGw = FALSE
PROPERTY
  DisconnectedNodeEnds
\* The clients stop after MaxSend frames and the server waits for more.
CHECK_DEADLOCK FALSE
