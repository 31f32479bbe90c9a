SPECIFICATION FairSpec
CONSTANTS
  c1 = c1
  c2 = c2
  c3 = c3
  NoConn = NoConn
  NoId = NoId
  Conns = {c1, c2, c3}
  NodeIds = {1001}
  MaxFds = 2
INVARIANT
  OrderlyClientsServed
PROPERTIES
  ImplementsLogin
  LoginDecided
\* The clients come to rest, and the server waits for more.
CHECK_DEADLOCK FALSE
