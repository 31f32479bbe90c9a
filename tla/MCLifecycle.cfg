SPECIFICATION LifecycleFairSpec
CONSTANTS
  c1 = c1
  NoConn = NoConn
  Conns = {c1}
  Fds = {4, 5}
  NodeIds = {1}
  Dests = {9}
  NODE_ID = 1000
  MaxSend = 3
  SndCap = 1
  DefaultGw = TRUE
  MaxCalls = 2
INVARIANTS
  ConstructedBeforeUse
  OneAcceptedAfterStop
PROPERTIES
  LifecycleImplementsBroker
  BindErrorEndsOwner
  StartTakesEffect
  StopEndsLoop
  ConnectedClientAccepted
  RoutingEnds
\* The process may end, and a server waits for clients.
CHECK_DEADLOCK FALSE
