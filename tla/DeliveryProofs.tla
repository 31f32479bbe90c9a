--------------------------- MODULE DeliveryProofs ---------------------------
(***************************************************************************)
(* Proofs about routeMessage: its locks, the addresses it writes to, and   *)
(* that it writes what a client sent at most once and in order.            *)
(***************************************************************************)
EXTENDS SocketServerProofs, WellFoundedInduction

---------------------------------------------------------------------------
(* The locks.                                                              *)

\* A step of node c outside routeMessage that leaves the mutexes alone.
LEMMA LockFrame ==
  ASSUME TypeInv, RouteLockDiscipline, NEW c \in Conns,
         UNCHANGED <<m_mutexRoute, m_mutexQueueMessages, it, m_lstNodes>>,
         pc' = [pc EXCEPT ![c] = pc'[c]],
         pc[c] \notin Walking, pc'[c] \notin Walking
  PROVE  RouteLockDiscipline'
<1>1. pc \in [Conns -> Pcs]
  BY DEF TypeInv, TypeOK
<1>2. \A x \in Conns : x # c => pc'[x] = pc[x]
  BY <1>1
<1>3. \A x \in Conns : /\ pc'[x] \in Walking <=> pc[x] \in Walking
                       /\ pc'[x] = "write" <=> pc[x] = "write"
  BY <1>2 DEF Walking
<1>4. QED
  BY <1>3 DEF RouteLockDiscipline, Walking

\* The accept thread's push_back moves no node a walking thread points at.
LEMMA LockAccept ==
  ASSUME TypeInv, OwnInv, RouteLockDiscipline, AcceptThread
  PROVE  RouteLockDiscipline'
<1>1. ASSUME NEW c \in Conns, Accept(c) PROVE RouteLockDiscipline'
  <2>1. pc[c] = "none"
    <3>1. backlog # <<>> /\ c = Head(backlog) /\ backlog \in Seq(Conns)
      BY <1>1 DEF Accept, SysAccept, TypeInv, TypeOK, SocketsTypeOK
    <3>2. 1 \in 1 .. Len(backlog) /\ c = backlog[1]
      BY <3>1
    <3>3. QED
      BY <3>2 DEF OwnInv, BacklogOK
  <2>2. pc'[c] = "login" /\ pc' = [pc EXCEPT ![c] = pc'[c]]
    BY <1>1, GotoFacts DEF Accept, Pcs
  <2>3. UNCHANGED <<m_mutexRoute, m_mutexQueueMessages, it, m_lstNodes>>
    BY <1>1 DEF Accept, routeVars
  <2>4. pc[c] \notin Walking /\ pc'[c] \notin Walking
    BY <2>1, <2>2 DEF Walking
  <2>5. QED
    BY <2>2, <2>3, <2>4, LockFrame
<1>2. CASE NodeStart
  BY <1>2 DEF NodeStart, routeVars, RouteLockDiscipline
<1>3. CASE PushBack
  <2>1. /\ UNCHANGED <<m_mutexRoute, m_mutexQueueMessages, it, pc>>
        /\ m_lstNodes' = Append(m_lstNodes, accepted)
        /\ m_lstNodes \in Seq(Conns) /\ it \in [Conns -> Nat]
    BY <1>3 DEF PushBack, routeVars, TypeInv, TypeOK
  <2>2. /\ Len(m_lstNodes') = Len(m_lstNodes) + 1 /\ Len(m_lstNodes) \in Nat
        /\ \A i \in 1 .. Len(m_lstNodes) : m_lstNodes'[i] = m_lstNodes[i]
    BY <2>1
  <2>3. \A c \in Conns : pc[c] = "write" =>
          /\ it[c] \in 1 .. Len(m_lstNodes) /\ it[c] \in 1 .. Len(m_lstNodes')
          /\ m_lstNodes'[it[c]] = m_lstNodes[it[c]]
    BY <2>1, <2>2 DEF TypeInv, Struct, Walking, Inside
  <2>4. QED
    BY <2>1, <2>3 DEF RouteLockDiscipline
<1>4. QED
  BY <1>1, <1>2, <1>3 DEF AcceptThread

\* Each step of a node's thread takes and releases the mutexes as its pc says.
LEMMA LockNode ==
  ASSUME TypeInv, RouteLockDiscipline, NEW c \in Conns, NodeThread(c)
  PROVE  RouteLockDiscipline'
<1> USE DEF Walking
<1>1. /\ pc \in [Conns -> Pcs] /\ it \in [Conns -> Nat] /\ m_lstNodes \in Seq(Conns)
      /\ m_mutexQueueMessages \in [Conns -> Conns \cup {NoConn}]
      /\ NoConn \notin Conns
  BY SocketsAssumption DEF TypeInv, TypeOK
<1>2. CASE LoginRead(c) \/ SendLoginAnswer(c) \/ CloseSocket(c) \/ LoopExit(c)
             \/ LoopRead(c) \/ PopMessage(c)
  <2>1. /\ UNCHANGED <<m_mutexRoute, m_mutexQueueMessages, it, m_lstNodes>>
        /\ pc[c] \notin Walking
    BY <1>2 DEF LoginRead, SendLoginAnswer, CloseSocket, LoopExit, LoopRead, PopMessage,
                routeVars, acceptVars
  <2>2. UNCHANGED pc \/ Goto(c, "login_close") \/ Goto(c, "answer") \/ Goto(c, "loop")
          \/ Goto(c, "done") \/ Goto(c, "loop_close") \/ Goto(c, "pop") \/ Goto(c, "pop_lock")
          \/ Goto(c, "route")
    BY <1>2 DEF LoginRead, SendLoginAnswer, CloseSocket, LoopExit, LoopRead, PopMessage,
                Disconnect, CheckLogin
  <2>3. pc' = [pc EXCEPT ![c] = pc'[c]] /\ pc'[c] \notin Walking
    BY <1>1, <2>1, <2>2 DEF Goto
  <2>4. QED
    BY <2>1, <2>3, LockFrame
<1>3. CASE RouteLock(c) /\ nm[c].to = NODE_ID
  <2>1. /\ m_mutexRoute = NoConn /\ m_mutexRoute' = NoConn /\ pc[c] = "route"
        /\ pc' = [pc EXCEPT ![c] = "pop"] /\ it' = [it EXCEPT ![c] = 0]
        /\ UNCHANGED <<m_mutexQueueMessages, m_lstNodes>>
    BY <1>3 DEF RouteLock, RouteDone, Goto, acceptVars
  <2>2. \A x \in Conns : x # c => pc'[x] = pc[x] /\ it'[x] = it[x]
    BY <1>1, <2>1
  <2>3. pc'[c] = "pop"
    BY <1>1, <2>1
  <2>4. QED
    BY <2>1, <2>2, <2>3 DEF RouteLockDiscipline
<1>4. CASE RouteLock(c) /\ nm[c].to # NODE_ID
  <2>1. /\ m_mutexRoute = NoConn /\ m_mutexRoute' = c /\ pc[c] = "route"
        /\ pc' = [pc EXCEPT ![c] = "find"] /\ it' = [it EXCEPT ![c] = 1]
        /\ UNCHANGED <<m_mutexQueueMessages, m_lstNodes>>
    BY <1>4 DEF RouteLock, Goto, acceptVars
  <2>2. \A x \in Conns : x # c => pc'[x] = pc[x] /\ it'[x] = it[x]
    BY <1>1, <2>1
  <2>3. pc'[c] = "find"
    BY <1>1, <2>1
  <2>4. QED
    BY <1>1, <2>1, <2>2, <2>3 DEF RouteLockDiscipline
<1>5. CASE RouteVisit(c)
  <2>1. /\ UNCHANGED <<m_mutexRoute, m_mutexQueueMessages, m_lstNodes>> /\ pc[c] = "find"
        /\ \/ pc' = [pc EXCEPT ![c] = "enqueue"] /\ UNCHANGED it
           \/ it' = [it EXCEPT ![c] = @ + 1] /\ UNCHANGED pc
    BY <1>5 DEF RouteVisit, Goto, acceptVars
  <2>2. \A x \in Conns : x # c => pc'[x] = pc[x] /\ it'[x] = it[x]
    BY <1>1, <2>1
  <2>3. pc'[c] \in {"find", "enqueue"}
    BY <1>1, <2>1
  <2>4. QED
    BY <2>1, <2>2, <2>3 DEF RouteLockDiscipline
<1>6. CASE RouteMiss(c) /\ RouteDone(c)
  <2>1. /\ m_mutexRoute' = NoConn /\ pc[c] = "find"
        /\ pc' = [pc EXCEPT ![c] = "pop"] /\ it' = [it EXCEPT ![c] = 0]
        /\ UNCHANGED <<m_mutexQueueMessages, m_lstNodes>>
    BY <1>6 DEF RouteMiss, RouteDone, Goto, acceptVars
  <2>2. \A x \in Conns : x # c => pc'[x] = pc[x] /\ it'[x] = it[x]
    BY <1>1, <2>1
  <2>3. pc'[c] = "pop"
    BY <1>1, <2>1
  <2>4. m_mutexRoute = c
    BY <2>1 DEF RouteLockDiscipline
  <2>5. QED
    BY <1>1, <2>1, <2>2, <2>3, <2>4 DEF RouteLockDiscipline
<1>7. CASE EnqueueMsg(c)
  <2> DEFINE n == m_lstNodes[it[c]]
  <2>1. /\ pc[c] = "enqueue" /\ m_mutexQueueMessages[n] = NoConn
        /\ m_mutexQueueMessages' = [m_mutexQueueMessages EXCEPT ![n] = c]
        /\ pc' = [pc EXCEPT ![c] = "write"]
        /\ UNCHANGED <<m_mutexRoute, it, m_lstNodes>>
    BY <1>7 DEF EnqueueMsg, Goto, acceptVars
  <2>2. it[c] \in 1 .. Len(m_lstNodes) /\ n \in Conns
    BY <1>1, <2>1 DEF TypeInv, Struct, Inside
  <2>3. \A x \in Conns : x # c => pc'[x] = pc[x]
    BY <1>1, <2>1
  <2>4. pc'[c] = "write"
    BY <1>1, <2>1
  <2>5. \A m \in Conns : m_mutexQueueMessages[m] # c
    BY <2>1 DEF RouteLockDiscipline
  <2>6. QED
    BY <1>1, <2>1, <2>2, <2>3, <2>4, <2>5 DEF RouteLockDiscipline
<1>8. CASE WriteData(c)
  <2> DEFINE n == m_lstNodes[it[c]]
  <2>1. pc[c] = "write" /\ UNCHANGED m_lstNodes
    BY <1>8 DEF WriteData, acceptVars
  <2>2. CASE UNCHANGED <<m_mutexQueueMessages, it, m_mutexRoute, pc>>
    BY <2>1, <2>2 DEF RouteLockDiscipline
  <2>3. CASE RouteDone(c)
             /\ m_mutexQueueMessages' = [m_mutexQueueMessages EXCEPT ![n] = NoConn]
    <3>1. /\ m_mutexRoute' = NoConn
          /\ pc' = [pc EXCEPT ![c] = "pop"] /\ it' = [it EXCEPT ![c] = 0]
      BY <2>3 DEF RouteDone, Goto
    <3>2. \A x \in Conns : x # c => pc'[x] = pc[x] /\ it'[x] = it[x]
      BY <1>1, <3>1
    <3>3. pc'[c] = "pop"
      BY <1>1, <3>1
    <3>4. m_mutexRoute = c /\ \A x \in Conns : x # c => pc[x] \notin Walking
      BY <2>1 DEF RouteLockDiscipline
    <3>5. \A m \in Conns : m_mutexQueueMessages[m] = c => m = n
      BY DEF RouteLockDiscipline
    <3>6. \A m \in Conns, x \in Conns : m_mutexQueueMessages'[m] # x
      BY <1>1, <2>3, <3>4, <3>5 DEF RouteLockDiscipline
    <3>7. QED
      BY <1>1, <3>1, <3>2, <3>3, <3>4, <3>6 DEF RouteLockDiscipline
  <2>4. QED
    BY <1>8, <2>2, <2>3 DEF WriteData
<1>9. CASE RouteMiss(c) /\ UNCHANGED <<it, m_mutexRoute, pc>>
  BY <1>9 DEF RouteMiss, RouteLockDiscipline, acceptVars
<1>10. RouteMiss(c) => RouteDone(c) \/ UNCHANGED <<it, m_mutexRoute, pc>>
  BY DEF RouteMiss
<1>11. QED
  BY <1>2, <1>3, <1>4, <1>5, <1>6, <1>7, <1>8, <1>9, <1>10 DEF NodeThread

\* RouteLockDiscipline is inductive relative to TypeInv and OwnInv.
LEMMA LockNext == TypeInv /\ OwnInv /\ RouteLockDiscipline /\ [Next]_vars => RouteLockDiscipline'
<1> SUFFICES ASSUME TypeInv, OwnInv, RouteLockDiscipline, [Next]_vars
             PROVE  RouteLockDiscipline'
  OBVIOUS
<1>1. CASE UNCHANGED serverVars
  BY <1>1 DEF serverVars, acceptVars, routeVars, RouteLockDiscipline
<1>2. QED
  BY <1>1, LockAccept, LockNode DEF Next, Client, vars

\* No mutex is held before the first connection.
LEMMA LockInit == Init => RouteLockDiscipline
BY SocketsAssumption DEF Init, RouteLockDiscipline

\* Exactly one thread at a time walks m_lstNodes, and a node's queue mutex is held
\* only across its EnqueueMsg, for any number of clients.
THEOREM LocksHeldAsTaken == Spec => []RouteLockDiscipline
BY TypeInit, TypeNext, OwnInit, OwnNext, LockInit, LockNext, PTL DEF Spec

---------------------------------------------------------------------------
(* The addresses.                                                          *)

\* A node has the id 0 until its login.
IdOK == \A c \in Conns : pc[c] \in {"none", "login"} => m_nodeId[c] = 0

\* The node that is about to be written to is the destination.
FoundOK ==
  \A c \in Conns :
    pc[c] \in Inside => nm[c].to \in {m_nodeId[m_lstNodes[it[c]]], 0}

AddrInv == IdOK /\ FoundOK /\ AddressedDelivery

\* A frame d on the wire of c is where it belongs, given the ids and statuses of
\* the nodes and the set of revived ones, of this state or of the next.
DeliveryOK(c, d, ids, statuses, rs) ==
  Routed(d) =>
    /\ d.msg.to \in {ids[d.via], 0}
    /\ d.via = c \/ statuses[d.via] = "NODE_DISCONNECTED" \/ rs # {}

\* AddrInv holds before the first connection.
LEMMA AddrInit == Init => AddrInv
BY DEF Init, SocketsInit, AddrInv, IdOK, FoundOK, AddressedDelivery, Inside

\* What never changes back: an id once set, a disconnect, an overwritten TH_STOP.
Forward ==
  /\ \A x \in Conns : m_nodeId'[x] = m_nodeId[x] \/ m_nodeId[x] = 0
  /\ \A x \in Conns : m_nodeStatus[x] = "NODE_DISCONNECTED"
                        => m_nodeStatus'[x] = "NODE_DISCONNECTED"
  /\ revived # {} => revived' # {}

\* Ids are set once, a disconnected node stays so, a revived one stays recorded.
LEMMA ForwardNext ==
  ASSUME TypeInv, OwnInv, IdOK, Next
  PROVE  Forward /\ IdOK'
<1>1. /\ pc \in [Conns -> Pcs] /\ m_nodeStatus \in [Conns -> NodeStatus]
      /\ m_nodeId \in [Conns -> Nat]
  BY DEF TypeInv, TypeOK
<1>2. ASSUME NEW c \in Conns, LoginRead(c) PROVE Forward /\ IdOK'
  <2>1. /\ pc[c] = "login" /\ m_nodeId[c] = 0 /\ m_nodeStatus[c] = "NODE_CONNECTED"
        /\ UNCHANGED revived
    BY <1>2 DEF LoginRead, IdOK, OwnInv, NodesOK, NodeOK, acceptVars
  <2>2. CASE Disconnect(c, "login_close") /\ UNCHANGED m_nodeId
    BY <1>1, <2>1, <2>2 DEF Disconnect, Goto, Forward, IdOK
  <2>3. ASSUME NEW m, CheckLogin(c, m) PROVE Forward /\ IdOK'
    BY <1>1, <2>1, <2>3 DEF CheckLogin, Goto, Forward, IdOK
  <2>4. CASE UNCHANGED <<m_nodeId, m_nodeStatus, pc>>
    BY <2>1, <2>4 DEF Forward, IdOK
  <2>5. QED
    BY <1>2, <2>2, <2>3, <2>4 DEF LoginRead
<1>3. ASSUME NEW c \in Conns, LoopRead(c) PROVE Forward /\ IdOK'
  <2>1. /\ pc[c] = "loop" /\ UNCHANGED <<revived, m_nodeId>>
        /\ UNCHANGED m_nodeStatus
             \/ m_nodeStatus' = [m_nodeStatus EXCEPT ![c] = "NODE_DISCONNECTED"]
        /\ Goto(c, "loop_close") \/ Goto(c, "pop") \/ Goto(c, "route")
    BY <1>3 DEF LoopRead, Disconnect, acceptVars
  <2>2. QED
    BY <1>1, <2>1 DEF Goto, Forward, IdOK
<1>4. ASSUME NEW c \in Conns,
             SendLoginAnswer(c) \/ CloseSocket(c) \/ LoopExit(c) \/ PopMessage(c)
               \/ RouteLock(c) \/ RouteVisit(c) \/ RouteMiss(c) \/ EnqueueMsg(c)
               \/ WriteData(c)
      PROVE  Forward /\ IdOK'
  <2>1. UNCHANGED <<revived, m_nodeId, m_nodeStatus>> /\ pc[c] \notin {"none", "login"}
    BY <1>4 DEF SendLoginAnswer, CloseSocket, LoopExit, PopMessage, RouteLock, RouteVisit,
                RouteMiss, EnqueueMsg, WriteData, nodeVars, acceptVars
  <2>2. UNCHANGED pc \/ Goto(c, "loop") \/ Goto(c, "done") \/ Goto(c, "find")
          \/ Goto(c, "enqueue") \/ Goto(c, "write") \/ Goto(c, "pop") \/ Goto(c, "pop_lock")
    BY <1>4 DEF SendLoginAnswer, CloseSocket, LoopExit, PopMessage, RouteLock, RouteVisit,
                RouteMiss, EnqueueMsg, WriteData, RouteDone
  <2>3. QED
    BY <1>1, <2>1, <2>2 DEF Goto, Forward, IdOK
<1>5. ASSUME NEW c \in Conns, Accept(c) PROVE Forward /\ IdOK'
  <2>1. /\ UNCHANGED <<revived, m_nodeId, m_nodeStatus>>
        /\ pc' = [pc EXCEPT ![c] = "login"]
        /\ backlog # <<>> /\ c = Head(backlog) /\ backlog \in Seq(Conns)
    BY <1>5 DEF Accept, SysAccept, Goto, TypeInv, TypeOK, SocketsTypeOK
  <2>2. 1 \in 1 .. Len(backlog) /\ c = backlog[1]
    BY <2>1
  <2>3. m_nodeId[c] = 0
    BY <2>2 DEF OwnInv, BacklogOK, IdOK
  <2>4. QED
    BY <1>1, <2>1, <2>3 DEF Forward, IdOK
<1>6. CASE NodeStart \/ PushBack
  <2>1. UNCHANGED <<m_nodeId, m_nodeStatus, pc>> /\ (revived # {} => revived' # {})
    BY <1>6 DEF NodeStart, PushBack, nodeVars
  <2>2. QED
    BY <2>1 DEF Forward, IdOK
<1>7. ASSUME NEW c \in Conns, Client(c) PROVE Forward /\ IdOK'
  BY <1>7 DEF Client, serverVars, acceptVars, nodeVars, Forward, IdOK
<1>8. QED
  BY <1>2, <1>3, <1>4, <1>5, <1>6, <1>7 DEF Next, AcceptThread, NodeThread

\* A delivery that was addressed as it should be remains so.
LEMMA DeliveryStays ==
  ASSUME Forward, NEW c \in Conns, NEW d \in Deliveries,
         DeliveryOK(c, d, m_nodeId, m_nodeStatus, revived)
  PROVE  DeliveryOK(c, d, m_nodeId', m_nodeStatus', revived')
<1>1. d.via \in Conns
  BY DEF Deliveries
<1>2. QED
  BY <1>1 DEF Forward, DeliveryOK

\* A step that writes nothing, or one frame that is addressed as it should be.
LEMMA WireStep ==
  ASSUME TypeInv, AddressedDelivery, Forward,
         \/ UNCHANGED wire
         \/ \E x \in Conns, d \in Deliveries :
              /\ wire' = [wire EXCEPT ![x] = Append(@, d)]
              /\ DeliveryOK(x, d, m_nodeId', m_nodeStatus', revived')
  PROVE  AddressedDelivery'
<1> DEFINE OK(c, d) == DeliveryOK(c, d, m_nodeId', m_nodeStatus', revived')
<1>1. wire \in [Conns -> Seq(Deliveries)]
  BY DEF TypeInv, TypeOK, SocketsTypeOK
<1>2. \A c \in Conns : \A i \in 1 .. Len(wire[c]) : OK(c, wire[c][i])
  <2> SUFFICES ASSUME NEW c \in Conns, NEW i \in 1 .. Len(wire[c])
               PROVE  OK(c, wire[c][i])
    OBVIOUS
  <2>1. wire[c][i] \in Deliveries
    BY <1>1
  <2>2. DeliveryOK(c, wire[c][i], m_nodeId, m_nodeStatus, revived)
    BY DEF AddressedDelivery, DeliveryOK
  <2>3. QED
    BY <2>1, <2>2, DeliveryStays
<1>3. \A c \in Conns : \A i \in 1 .. Len(wire'[c]) : OK(c, wire'[c][i])
  <2>1. CASE UNCHANGED wire
    BY <1>2, <2>1
  <2>2. ASSUME NEW x \in Conns, NEW d \in Deliveries,
               wire' = [wire EXCEPT ![x] = Append(@, d)], OK(x, d)
        PROVE  \A c \in Conns : \A i \in 1 .. Len(wire'[c]) : OK(c, wire'[c][i])
    <3> HIDE DEF OK
    <3> SUFFICES ASSUME NEW c \in Conns, NEW i \in 1 .. Len(wire'[c])
                 PROVE  OK(c, wire'[c][i])
      OBVIOUS
    <3>1. CASE c = x
      <4>1. wire'[c] = Append(wire[c], d) /\ wire[c] \in Seq(Deliveries)
        BY <1>1, <2>2, <3>1
      <4>2. (i \in 1 .. Len(wire[c]) /\ wire'[c][i] = wire[c][i]) \/ wire'[c][i] = d
        BY <4>1
      <4>3. QED
        BY <1>2, <2>2, <3>1, <4>2
    <3>2. CASE c # x
      <4>1. wire'[c] = wire[c]
        BY <1>1, <2>2, <3>2
      <4>2. QED
        BY <1>2, <4>1
    <3>3. QED BY <3>1, <3>2
  <2>3. QED
    BY <2>1, <2>2
<1>4. QED
  BY <1>3 DEF AddressedDelivery, DeliveryOK, Routed

\* What is written by WriteData is addressed as it should be.
LEMMA WriteAddressed ==
  ASSUME TypeInv, OwnInv, FoundOK, NEW c \in Conns, pc[c] = "write",
         NEW x \in Conns, desc[m_fdSocket[m_lstNodes[it[c]]]] = x
  PROVE  /\ [msg |-> nm[c], via |-> m_lstNodes[it[c]]] \in Deliveries
         /\ DeliveryOK(x, [msg |-> nm[c], via |-> m_lstNodes[it[c]]],
                       m_nodeId, m_nodeStatus, revived)
<1> DEFINE n == m_lstNodes[it[c]]
<1>1. n \in Conns /\ nm[c] \in Messages /\ pc[n] # "none" /\ m_fdSocket[n] \in Fds
  <2>1. m_lstNodes \in Seq(Conns) /\ it \in [Conns -> Nat] /\ nm \in [Conns -> Messages]
    BY DEF TypeInv, TypeOK
  <2>2. it[c] \in 1 .. Len(m_lstNodes)
    BY <2>1 DEF TypeInv, Struct, Walking, Inside
  <2>3. n \in Conns /\ nm[c] \in Messages
    BY <2>1, <2>2
  <2>4. pc[n] # "none"
    BY <2>2 DEF TypeInv, Struct
  <2>5. m_fdSocket[n] \in Fds
    BY <2>3, <2>4 DEF TypeInv, Struct
  <2>6. QED
    BY <2>3, <2>4, <2>5
<1>2. nm[c].to \in {m_nodeId[n], 0}
  BY DEF FoundOK, Inside
<1>3. ASSUME revived = {}, x # n
      PROVE  m_nodeStatus[n] = "NODE_DISCONNECTED"
  <2>1. ~HoldsSocket(n)
    BY <1>1, <1>3 DEF OwnInv, DescriptorOwnership
  <2>2. pc[n] = "done" \/ m_nodeStatus[n] = "NODE_DISCONNECTED"
    BY <1>1, <2>1 DEF HoldsSocket
  <2>3. QED
    BY <1>1, <1>3, <2>2 DEF OwnInv, NodesOK, NodeOK
<1>4. QED
  BY <1>1, <1>2, <1>3 DEF DeliveryOK, Deliveries

\* The frames a step adds to the wires.
LEMMA WireNext ==
  ASSUME TypeInv, OwnInv, FoundOK, Next
  PROVE  \/ UNCHANGED wire
         \/ \E x \in Conns, d \in Deliveries :
              /\ wire' = [wire EXCEPT ![x] = Append(@, d)]
              /\ DeliveryOK(x, d, m_nodeId, m_nodeStatus, revived)
<1> DEFINE Added == \E x \in Conns, d \in Deliveries :
                      /\ wire' = [wire EXCEPT ![x] = Append(@, d)]
                      /\ DeliveryOK(x, d, m_nodeId, m_nodeStatus, revived)
<1>1. desc \in [Fds -> Conns \cup {NoConn}]
  BY DEF TypeInv, TypeOK, SocketsTypeOK
<1>2. ASSUME NEW c \in Conns, SendLoginAnswer(c) PROVE UNCHANGED wire \/ Added
  <2> DEFINE f == m_fdSocket[c]
             d == [msg |-> LoginAnswer(c, m_nodeId[c]), via |-> c]
  <2>1. UNCHANGED wire \/ SysWriteOk(f, d)
    BY <1>2 DEF SendLoginAnswer, SysWriteLost, SysWriteError
  <2>2. ASSUME SysWriteOk(f, d) PROVE Added
    <3>1. f \in Fds /\ d \in Deliveries
      BY <1>2, MessageTypes DEF SendLoginAnswer, TypeInv, TypeOK, Struct, Deliveries
    <3>2. desc[f] \in Conns /\ wire' = [wire EXCEPT ![desc[f]] = Append(@, d)]
      BY <1>1, <2>2, <3>1 DEF SysWriteOk
    <3>3. DeliveryOK(desc[f], d, m_nodeId, m_nodeStatus, revived)
      BY DEF DeliveryOK, Routed, LoginAnswer
    <3>4. QED
      BY <3>1, <3>2, <3>3
  <2>3. QED BY <2>1, <2>2
<1>3. ASSUME NEW c \in Conns, WriteData(c) PROVE UNCHANGED wire \/ Added
  <2> DEFINE n == m_lstNodes[it[c]]
             f == m_fdSocket[n]
             d == [msg |-> nm[c], via |-> n]
  <2>1. UNCHANGED wire \/ SysWriteOk(f, d)
    BY <1>3 DEF WriteData, SysWriteLost, SysWriteError
  <2>2. ASSUME SysWriteOk(f, d) PROVE Added
    <3>1. pc[c] = "write" /\ f \in Fds
      <4>1. pc[c] = "write"
        BY <1>3 DEF WriteData
      <4>2. it[c] \in 1 .. Len(m_lstNodes) /\ n \in Conns
        BY <4>1 DEF TypeInv, TypeOK, Struct, Walking, Inside
      <4>3. QED
        BY <4>1, <4>2 DEF TypeInv, Struct
    <3>2. desc[f] \in Conns /\ wire' = [wire EXCEPT ![desc[f]] = Append(@, d)]
      BY <1>1, <2>2, <3>1 DEF SysWriteOk
    <3>3. d \in Deliveries /\ DeliveryOK(desc[f], d, m_nodeId, m_nodeStatus, revived)
      BY <3>1, <3>2, WriteAddressed
    <3>4. QED
      BY <3>2, <3>3
  <2>3. QED BY <2>1, <2>2
<1>4. QED
  BY <1>2, <1>3
     DEF Next, AcceptThread, NodeThread, Client, Accept, NodeStart, PushBack, LoginRead,
         CloseSocket, LoopExit, LoopRead, PopMessage, RouteLock, RouteVisit, RouteMiss,
         EnqueueMsg, ClientConnect, ClientSend, ClientWrite, ClientRead, ClientTake, ClientClose, sockVars

\* The destination of a message that has found its node stays that node.
LEMMA FoundNext ==
  ASSUME TypeInv, FoundOK, Forward, Next
  PROVE  FoundOK'
<1>1. /\ pc \in [Conns -> Pcs] /\ it \in [Conns -> Nat] /\ m_lstNodes \in Seq(Conns)
      /\ nm \in [Conns -> Messages]
  BY DEF TypeInv, TypeOK
<1>2. \A x \in Conns : pc[x] \in Inside => it[x] \in 1 .. Len(m_lstNodes)
  BY <1>1 DEF TypeInv, Struct, Walking, Inside
<1>3. \A i \in 1 .. Len(m_lstNodes) : m_lstNodes'[i] = m_lstNodes[i] /\ m_lstNodes[i] \in Conns
  <2>1. CASE PushBack
    <3>1. accepted \in Conns /\ m_lstNodes' = Append(m_lstNodes, accepted)
      BY <2>1 DEF PushBack, TypeInv, Struct
    <3>2. QED
      BY <1>1, <3>1
  <2>2. CASE UNCHANGED m_lstNodes
    BY <1>1, <2>2
  <2>3. QED
    BY <2>1, <2>2
       DEF Next, AcceptThread, NodeThread, Client, Accept, NodeStart, LoginRead,
           SendLoginAnswer, CloseSocket, LoopExit, LoopRead, PopMessage, RouteLock, RouteVisit,
           RouteMiss, EnqueueMsg, WriteData, serverVars, acceptVars
<1>4. ASSUME NEW x \in Conns, nm'[x] = nm[x], it'[x] = it[x],
             it[x] \in 1 .. Len(m_lstNodes),
             nm[x].to \in {m_nodeId[m_lstNodes[it[x]]], 0}
      PROVE  nm'[x].to \in {m_nodeId'[m_lstNodes'[it'[x]]], 0}
  <2>1. m_lstNodes'[it'[x]] = m_lstNodes[it[x]] /\ m_lstNodes[it[x]] \in Conns
    BY <1>3, <1>4
  <2>2. QED
    BY <1>4, <2>1 DEF Forward
\* Threads other than the one that moves.
<1>5. ASSUME NEW x \in Conns, pc'[x] = pc[x], nm'[x] = nm[x], it'[x] = it[x], pc'[x] \in Inside
      PROVE  nm'[x].to \in {m_nodeId'[m_lstNodes'[it'[x]]], 0}
  BY <1>2, <1>4, <1>5 DEF FoundOK
<1>6. ASSUME NEW c \in Conns,
             pc' = [pc EXCEPT ![c] = pc'[c]],
             nm' = [nm EXCEPT ![c] = nm'[c]],
             it' = [it EXCEPT ![c] = it'[c]],
             pc'[c] \in Inside => nm'[c].to \in {m_nodeId'[m_lstNodes'[it'[c]]], 0}
      PROVE  FoundOK'
  <2> SUFFICES ASSUME NEW x \in Conns, pc'[x] \in Inside
               PROVE  nm'[x].to \in {m_nodeId'[m_lstNodes'[it'[x]]], 0}
    BY DEF FoundOK
  <2>1. CASE x = c
    BY <1>6, <2>1
  <2>2. CASE x # c
    <3>1. pc'[x] = pc[x] /\ nm'[x] = nm[x] /\ it'[x] = it[x]
      BY <1>1, <1>6, <2>2
    <3>2. QED BY <1>5, <3>1
  <2>3. QED BY <2>1, <2>2
<1>7. ASSUME NEW c \in Conns,
             Accept(c) \/ LoginRead(c) \/ SendLoginAnswer(c) \/ CloseSocket(c) \/ LoopExit(c)
               \/ LoopRead(c) \/ PopMessage(c) \/ RouteLock(c) \/ RouteMiss(c)
      PROVE  FoundOK'
  <2>1. \/ UNCHANGED pc /\ pc[c] \in {"login", "answer", "find"}
        \/ \E l \in {"login", "login_close", "answer", "loop", "done", "loop_close", "pop",
                      "pop_lock", "route", "find"} : Goto(c, l)
    BY <1>7 DEF Accept, LoginRead, SendLoginAnswer, CloseSocket, LoopExit, LoopRead,
                PopMessage, RouteLock, RouteMiss, Disconnect, CheckLogin, RouteDone
  <2>2. pc' = [pc EXCEPT ![c] = pc'[c]] /\ pc'[c] \notin Inside
    BY <1>1, <2>1 DEF Goto, Inside
  <2>3. /\ UNCHANGED nm \/ \E m : nm' = [nm EXCEPT ![c] = m]
        /\ UNCHANGED it \/ \E k : it' = [it EXCEPT ![c] = k]
    BY <1>7 DEF Accept, LoginRead, SendLoginAnswer, CloseSocket, LoopExit, LoopRead,
                PopMessage, RouteLock, RouteMiss, RouteDone, routeVars
  <2>4. nm' = [nm EXCEPT ![c] = nm'[c]] /\ it' = [it EXCEPT ![c] = it'[c]]
    BY <1>1, <2>3
  <2>5. QED
    BY <1>6, <2>2, <2>4
<1>8. ASSUME NEW c \in Conns, RouteVisit(c) PROVE FoundOK'
  <2>1. /\ pc[c] = "find" /\ UNCHANGED nm /\ it[c] \in 1 .. Len(m_lstNodes)
        /\ \/ pc' = [pc EXCEPT ![c] = "enqueue"] /\ UNCHANGED it
                /\ m_nodeId[m_lstNodes[it[c]]] = nm[c].to
           \/ UNCHANGED pc /\ it' = [it EXCEPT ![c] = @ + 1]
    BY <1>1, <1>8 DEF RouteVisit, Goto, TypeInv, Struct, Walking
  <2>2. /\ pc' = [pc EXCEPT ![c] = pc'[c]] /\ nm' = [nm EXCEPT ![c] = nm'[c]]
        /\ it' = [it EXCEPT ![c] = it'[c]]
    BY <1>1, <2>1
  <2>3. pc'[c] \in Inside => nm'[c].to \in {m_nodeId'[m_lstNodes'[it'[c]]], 0}
    <3>1. CASE UNCHANGED pc
      BY <2>1, <3>1 DEF Inside
    <3>2. CASE UNCHANGED it /\ m_nodeId[m_lstNodes[it[c]]] = nm[c].to
      BY <1>4, <2>1, <3>2
    <3>3. QED BY <2>1, <3>1, <3>2
  <2>4. QED
    BY <1>6, <2>2, <2>3
<1>9. ASSUME NEW c \in Conns, EnqueueMsg(c) PROVE FoundOK'
  <2>1. /\ pc[c] \in Inside /\ UNCHANGED <<nm, it>> /\ pc' = [pc EXCEPT ![c] = "write"]
    BY <1>9 DEF EnqueueMsg, Goto, Inside
  <2>2. /\ pc' = [pc EXCEPT ![c] = pc'[c]] /\ nm' = [nm EXCEPT ![c] = nm'[c]]
        /\ it' = [it EXCEPT ![c] = it'[c]]
    BY <1>1, <2>1
  <2>3. nm'[c].to \in {m_nodeId'[m_lstNodes'[it'[c]]], 0}
    BY <1>2, <1>4, <2>1 DEF FoundOK
  <2>4. QED
    BY <1>6, <2>2, <2>3
<1>10. ASSUME NEW c \in Conns, WriteData(c) PROVE FoundOK'
  <2>1. UNCHANGED <<nm, it, pc>> \/ RouteDone(c)
    BY <1>10 DEF WriteData
  <2>2. CASE RouteDone(c)
    <3>1. /\ pc' = [pc EXCEPT ![c] = pc'[c]] /\ nm' = [nm EXCEPT ![c] = nm'[c]]
          /\ it' = [it EXCEPT ![c] = it'[c]] /\ pc'[c] = "pop"
      BY <1>1, <2>2 DEF RouteDone, Goto
    <3>2. QED
      BY <1>6, <3>1 DEF Inside
  <2>3. CASE UNCHANGED <<nm, it, pc>>
    BY <1>5, <2>3 DEF FoundOK
  <2>4. QED BY <2>1, <2>2, <2>3
<1>11. CASE UNCHANGED <<nm, it, pc>>
  BY <1>5, <1>11 DEF FoundOK
<1>12. QED
  BY <1>7, <1>8, <1>9, <1>10, <1>11
     DEF Next, AcceptThread, NodeThread, Client, NodeStart, PushBack, serverVars, routeVars

\* AddrInv is inductive relative to TypeInv and OwnInv.
LEMMA AddrNext == TypeInv /\ OwnInv /\ AddrInv /\ [Next]_vars => AddrInv'
<1> SUFFICES ASSUME TypeInv, OwnInv, AddrInv, [Next]_vars PROVE AddrInv'
  OBVIOUS
<1>1. CASE UNCHANGED vars
  BY <1>1 DEF AddrInv, IdOK, FoundOK, AddressedDelivery, vars, sockVars, serverVars,
              acceptVars, nodeVars, routeVars
<1>2. CASE Next
  <2>1. Forward /\ IdOK'
    BY <1>2, ForwardNext DEF AddrInv
  <2>2. FoundOK'
    BY <1>2, <2>1, FoundNext DEF AddrInv
  <2>3. \/ UNCHANGED wire
        \/ \E x \in Conns, d \in Deliveries :
             /\ wire' = [wire EXCEPT ![x] = Append(@, d)]
             /\ DeliveryOK(x, d, m_nodeId', m_nodeStatus', revived')
    BY <1>2, <2>1, WireNext, DeliveryStays DEF AddrInv
  <2>4. AddressedDelivery'
    BY <2>1, <2>3, WireStep DEF AddrInv
  <2>5. QED BY <2>1, <2>2, <2>4 DEF AddrInv
<1>3. QED BY <1>1, <1>2

\* Every routed frame went out through the node with its destination's id, and
\* reached another client only through a disconnected node that m_lstNodes kept.
THEOREM Addressed == Spec => []AddressedDelivery
<1>1. AddrInv => AddressedDelivery
  BY DEF AddrInv
<1>2. QED
  BY <1>1, TypeInit, TypeNext, OwnInit, OwnNext, AddrInit, AddrNext, PTL DEF Spec

---------------------------------------------------------------------------
(* At most once.                                                           *)

\* A thread at one of these has a message in its hands.
Carrying == {"route"} \cup Walking

\* A frame as clients send them.
ByClient(m) == m.name = "MSG_TEST" \/ (m.name = "MSG_LOGIN" /\ m.to = NODE_ID)

\* The queue of a connection holds what its client sent, oldest first.
QueuesOK ==
  \A c \in Conns : \A i \in 1 .. Len(inq[c]) :
    /\ inq[c][i].src = c
    /\ inq[c][i].n \in 1 .. sent[c]
    /\ ByClient(inq[c][i])
    /\ \A j \in 1 .. Len(inq[c]) : i < j => inq[c][i].n < inq[c][j].n

\* m was sent by a client and read by the broker: it is older than what is queued.
Taken(m) ==
  /\ m.src \in Conns
  /\ m.n \in 1 .. sent[m.src]
  /\ ByClient(m)
  /\ \A i \in 1 .. Len(inq[m.src]) : m.n < inq[m.src][i].n

\* What a thread carries no other carries, and it has not been written yet.
CarriedOK ==
  \A c \in Conns : pc[c] \in Carrying =>
    /\ Taken(nm[c])
    /\ \A d \in Conns : pc[d] \in Carrying /\ nm[d] = nm[c] => d = c
    /\ \A x \in Conns : \A i \in 1 .. Len(wire[x]) :
         Routed(wire[x][i]) => wire[x][i].msg # nm[c]
    /\ \A g \in 1 .. Len(gwSent) : gwSent[g] # nm[c]

\* What has been written was read before.
WrittenOK ==
  /\ \A x \in Conns : \A i \in 1 .. Len(wire[x]) :
       Routed(wire[x][i]) => Taken(wire[x][i].msg)
  /\ \A g \in 1 .. Len(gwSent) : Taken(gwSent[g])

OnceInv == QueuesOK /\ CarriedOK /\ WrittenOK /\ DeliveredAtMostOnce

\* OnceInv holds before the first connection.
LEMMA OnceInit == Init => OnceInv
BY DEF Init, SocketsInit, OnceInv, QueuesOK, CarriedOK, WrittenOK, DeliveredAtMostOnce, Carrying,
       Walking

\* The frames on the wires after one more was written.
LEMMA WireAppend ==
  ASSUME SocketsTypeOK, NEW x \in Conns, NEW d \in Deliveries,
         wire' = [wire EXCEPT ![x] = Append(@, d)]
  PROVE  \A c \in Conns : \A i \in 1 .. Len(wire'[c]) :
           \/ i \in 1 .. Len(wire[c]) /\ wire'[c][i] = wire[c][i]
           \/ c = x /\ i = Len(wire[x]) + 1 /\ wire'[c][i] = d
<1> SUFFICES ASSUME NEW c \in Conns, NEW i \in 1 .. Len(wire'[c])
             PROVE  \/ i \in 1 .. Len(wire[c]) /\ wire'[c][i] = wire[c][i]
                    \/ c = x /\ i = Len(wire[x]) + 1 /\ wire'[c][i] = d
  OBVIOUS
<1>1. wire \in [Conns -> Seq(Deliveries)]
  BY DEF SocketsTypeOK
<1>2. CASE c # x
  BY <1>1, <1>2
<1>3. CASE c = x
  <2>1. wire'[x] = Append(wire[x], d) /\ wire[x] \in Seq(Deliveries)
    BY <1>1
  <2>2. QED BY <1>3, <2>1
<1>4. QED BY <1>2, <1>3

\* A read takes the oldest frames of a queue: what is left is in order and newer
\* than the frame the read began with.
LEMMA QueueRead ==
  ASSUME TypeInv, QueuesOK, NEW f \in Fds, NEW k \in Nat, SysReadData(f, k), UNCHANGED sent
  PROVE  /\ desc[f] \in Conns
         /\ QueuesOK'
         /\ \A m \in Messages : Taken(m) => Taken(m)'
         /\ \E o \in Messages :
              /\ o = inq[desc[f]][1] /\ o.src = desc[f] /\ Taken(o)'
              /\ \A m \in Messages : Taken(m) /\ m.src = o.src => m.n < o.n
<1> DEFINE x == desc[f]
           q == inq[x]
<1>1. /\ x \in Conns /\ inq \in [Conns -> Seq(Messages)] /\ sent \in [Conns -> Nat]
      /\ k \in 1 .. Len(q) /\ inq' = [inq EXCEPT ![x] = SubSeq(@, k + 1, Len(@))]
  BY DEF TypeInv, TypeOK, SocketsTypeOK, SysReadData
<1>2. q \in Seq(Messages) /\ Len(q) \in Nat /\ 1 \in 1 .. Len(q)
  BY <1>1
<1> \A i \in 1 .. Len(q) : q[i] \in Messages
  BY <1>2
<1> \A i \in 1 .. Len(q) : q[i].n \in Nat
  BY DEF Messages
<1> \A i, j \in 1 .. Len(q) : i < j => q[i].n < q[j].n
  BY <1>1 DEF QueuesOK
<1>3. /\ Len(inq'[x]) = Len(q) - k
      /\ \A i \in 1 .. Len(inq'[x]) :
           i + k \in 1 .. Len(q) /\ i + k > 1 /\ inq'[x][i] = q[i + k]
  <2>1. inq'[x] = SubSeq(q, k + 1, Len(q))
    BY <1>1
  <2>2. /\ Len(SubSeq(q, k + 1, Len(q))) = Len(q) - k
        /\ \A i \in 1 .. Len(q) - k : SubSeq(q, k + 1, Len(q))[i] = q[i + k]
    BY <1>1, <1>2, SubSeqProperties
  <2>3. \A i \in 1 .. Len(q) - k : i + k \in 1 .. Len(q) /\ i + k > 1
    BY <1>1, <1>2
  <2>4. QED BY <2>1, <2>2, <2>3
<1>4. \A c \in Conns : c # x => inq'[c] = inq[c]
  BY <1>1
<1>5. QueuesOK'
  <2> SUFFICES ASSUME NEW c \in Conns, NEW i \in 1 .. Len(inq'[c])
               PROVE  /\ inq'[c][i].src = c
                      /\ inq'[c][i].n \in 1 .. sent'[c]
                      /\ ByClient(inq'[c][i])
                      /\ \A j \in 1 .. Len(inq'[c]) : i < j => inq'[c][i].n < inq'[c][j].n
    BY DEF QueuesOK
  <2>1. CASE c # x
    BY <1>4, <2>1 DEF QueuesOK
  <2>2. CASE c = x
    <3>1. i + k \in 1 .. Len(q) /\ inq'[c][i] = q[i + k]
      BY <1>2, <1>3, <2>2
    <3>2. ASSUME NEW j \in 1 .. Len(inq'[c]), i < j
          PROVE  inq'[c][i].n < inq'[c][j].n
      <4>1. j + k \in 1 .. Len(q) /\ inq'[c][j] = q[j + k] /\ i + k < j + k
        BY <1>1, <1>2, <1>3, <2>2, <3>2
      <4>2. QED BY <2>2, <3>1, <4>1
    <3>3. QED BY <1>1, <2>2, <3>1, <3>2 DEF QueuesOK
  <2>3. QED BY <2>1, <2>2
<1>6. ASSUME NEW m \in Messages, Taken(m) PROVE Taken(m)'
  <2>1. CASE m.src # x
    BY <1>4, <1>6, <2>1 DEF Taken
  <2>2. CASE m.src = x
    <3>1. \A i \in 1 .. Len(q) : m.n < q[i].n
      BY <1>6, <2>2 DEF Taken
    <3> HIDE DEF q
    <3>2. \A i \in 1 .. Len(inq'[x]) : m.n < inq'[x][i].n
      BY <1>3, <3>1
    <3>3. QED BY <1>6, <2>2, <3>2 DEF Taken
  <2>3. QED BY <2>1, <2>2
<1>7. q[1] \in Messages /\ q[1].src = x
  BY <1>1, <1>2 DEF QueuesOK
<1>8. ASSUME NEW o \in Messages, o = q[1] PROVE Taken(o)'
  <2>1. \A i \in 1 .. Len(inq'[x]) : o.n < inq'[x][i].n
    <3> SUFFICES ASSUME NEW i \in 1 .. Len(inq'[x]) PROVE o.n < inq'[x][i].n
      OBVIOUS
    <3>1. i + k \in 1 .. Len(q) /\ 1 < i + k /\ inq'[x][i] = q[i + k]
      BY <1>2, <1>3
    <3>2. QED BY <1>2, <1>8, <3>1
  <2>2. o.n \in 1 .. sent[x] /\ ByClient(o)
    BY <1>1, <1>2, <1>8 DEF QueuesOK
  <2>3. o.src \in Conns /\ sent'[o.src] = sent[x] /\ inq'[o.src] = inq'[x]
    BY <1>1, <1>7, <1>8
  <2>4. QED BY <2>1, <2>2, <2>3 DEF Taken
<1>9. ASSUME NEW m \in Messages, Taken(m), m.src = x PROVE m.n < q[1].n
  BY <1>2, <1>9 DEF Taken
<1>10. QED
  <2>1. PICK o \in Messages : o = q[1]
    BY <1>7
  <2>2. o.src = x /\ Taken(o)' /\ \A m \in Messages : Taken(m) /\ m.src = o.src => m.n < o.n
    BY <1>7, <1>8, <1>9, <2>1
  <2>3. QED BY <1>1, <1>5, <1>6, <2>1, <2>2

\* A client's next frame goes behind those it sent before.
LEMMA QueueSend ==
  ASSUME TypeInv, QueuesOK, NEW c \in Conns, ClientSend(c)
  PROVE  QueuesOK' /\ \A m \in Messages : Taken(m) => Taken(m)'
<1>1. /\ inq \in [Conns -> Seq(Messages)] /\ sent \in [Conns -> Nat]
  BY DEF TypeInv, TypeOK, SocketsTypeOK
<1>2. PICK o : /\ o \in {LoginMessage(c, sent[c] + 1, id) : id \in NodeIds}
                         \cup {TestMessage(c, sent[c] + 1, id) : id \in Dests}
               /\ ClientWrite(c, o)
  BY DEF ClientSend
<1>3. /\ inq' = [inq EXCEPT ![c] = Append(@, o)] /\ sent' = [sent EXCEPT ![c] = @ + 1]
      /\ o.src = c /\ o.n = sent[c] + 1 /\ ByClient(o)
  BY <1>2 DEF ClientWrite, LoginMessage, TestMessage, ByClient
<1>4. /\ \A x \in Conns : x # c => inq'[x] = inq[x] /\ sent'[x] = sent[x]
      /\ inq'[c] = Append(inq[c], o) /\ sent'[c] = sent[c] + 1
      /\ inq[c] \in Seq(Messages) /\ sent[c] \in Nat
  BY <1>1, <1>3
<1>5. /\ Len(inq'[c]) = Len(inq[c]) + 1 /\ inq'[c][Len(inq[c]) + 1] = o
      /\ Len(inq[c]) \in Nat
      /\ \A i \in 1 .. Len(inq[c]) : inq'[c][i] = inq[c][i]
  BY <1>4
<1>6. \A i \in 1 .. Len(inq'[c]) : i \in 1 .. Len(inq[c]) \/ i = Len(inq[c]) + 1
  BY <1>5
<1>7. \A i \in 1 .. Len(inq[c]) : /\ inq[c][i].src = c /\ inq[c][i].n \in 1 .. sent[c]
                                  /\ ByClient(inq[c][i])
  BY DEF QueuesOK
<1>8. QueuesOK'
  <2> SUFFICES ASSUME NEW x \in Conns, NEW i \in 1 .. Len(inq'[x])
               PROVE  /\ inq'[x][i].src = x
                      /\ inq'[x][i].n \in 1 .. sent'[x]
                      /\ ByClient(inq'[x][i])
                      /\ \A j \in 1 .. Len(inq'[x]) : i < j => inq'[x][i].n < inq'[x][j].n
    BY DEF QueuesOK
  <2>1. CASE x # c
    BY <1>4, <2>1 DEF QueuesOK
  <2>2. CASE x = c
    <3>1. inq'[c][i].src = c /\ inq'[c][i].n \in 1 .. sent[c] + 1 /\ ByClient(inq'[c][i])
      BY <1>3, <1>4, <1>5, <1>6, <1>7, <2>2
    <3>2. ASSUME NEW j \in 1 .. Len(inq'[c]), i < j PROVE inq'[c][i].n < inq'[c][j].n
      <4>1. i \in 1 .. Len(inq[c]) /\ inq'[c][i] = inq[c][i] /\ inq[c][i].n \in 1 .. sent[c]
        BY <1>5, <1>6, <1>7, <2>2, <3>2
      <4>2. CASE j \in 1 .. Len(inq[c])
        BY <1>5, <2>2, <3>2, <4>1, <4>2 DEF QueuesOK
      <4>3. CASE j = Len(inq[c]) + 1
        BY <1>3, <1>4, <1>5, <4>1, <4>3
      <4>4. QED BY <1>6, <3>2, <4>2, <4>3
    <3>3. QED BY <1>4, <2>2, <3>1, <3>2
  <2>3. QED BY <2>1, <2>2
<1>9. ASSUME NEW m \in Messages, Taken(m) PROVE Taken(m)'
  <2>1. CASE m.src # c
    BY <1>4, <1>9, <2>1 DEF Taken
  <2>2. CASE m.src = c
    <3>1. m.n \in 1 .. sent[c] /\ ByClient(m) /\ \A i \in 1 .. Len(inq[c]) : m.n < inq[c][i].n
      BY <1>9, <2>2 DEF Taken
    <3>2. \A i \in 1 .. Len(inq'[c]) : m.n < inq'[c][i].n
      BY <1>3, <1>4, <1>5, <1>6, <3>1
    <3>3. QED BY <1>4, <2>2, <3>1, <3>2 DEF Taken
  <2>3. QED BY <2>1, <2>2
<1>10. QED BY <1>8, <1>9

\* What has been written are messages.
LEMMA WrittenTypes ==
  ASSUME TypeInv
  PROVE  /\ \A x \in Conns : \A i \in 1 .. Len(wire[x]) : wire[x][i].msg \in Messages
         /\ \A g \in 1 .. Len(gwSent) : gwSent[g] \in Messages
<1>1. gwSent \in Seq(Messages) /\ wire \in [Conns -> Seq(Deliveries)]
  BY DEF TypeInv, TypeOK, SocketsTypeOK
<1>2. \A x \in Conns : \A i \in 1 .. Len(wire[x]) : wire[x][i] \in Deliveries
  BY <1>1
<1>3. QED BY <1>1, <1>2 DEF Deliveries

\* What was written stays read.
LEMMA WrittenStays ==
  ASSUME TypeInv, WrittenOK, UNCHANGED <<wire, gwSent>>,
         \A m \in Messages : Taken(m) => Taken(m)'
  PROVE  WrittenOK'
<1>1. ASSUME NEW x \in Conns, NEW i \in 1 .. Len(wire[x]), Routed(wire[x][i])
      PROVE  Taken(wire[x][i].msg)'
  <2>1. PICK m \in Messages : m = wire[x][i].msg
    BY WrittenTypes
  <2>2. Taken(m)'
    BY <1>1, <2>1 DEF WrittenOK
  <2>3. QED BY <2>1, <2>2 DEF Taken
<1>2. ASSUME NEW g \in 1 .. Len(gwSent) PROVE Taken(gwSent[g])'
  <2>1. PICK m \in Messages : m = gwSent[g]
    BY WrittenTypes
  <2>2. Taken(m)'
    BY <2>1 DEF WrittenOK
  <2>3. QED BY <2>1, <2>2 DEF Taken
<1>3. QED BY <1>1, <1>2 DEF WrittenOK, Routed

\* A step that writes nothing and after which no thread carries anything new.
LEMMA OnceFrame ==
  ASSUME TypeInv, OnceInv, QueuesOK', \A m \in Messages : Taken(m) => Taken(m)',
         UNCHANGED <<wire, gwSent>>,
         \A d \in Conns : pc'[d] \in Carrying => pc[d] \in Carrying /\ nm'[d] = nm[d]
  PROVE  OnceInv'
<1>1. /\ nm \in [Conns -> Messages] /\ gwSent \in Seq(Messages)
      /\ wire \in [Conns -> Seq(Deliveries)]
  BY DEF TypeInv, TypeOK, SocketsTypeOK
<1>2. /\ \A x \in Conns : \A i \in 1 .. Len(wire[x]) : wire[x][i].msg \in Messages
      /\ \A g \in 1 .. Len(gwSent) : gwSent[g] \in Messages
  BY WrittenTypes
<1>3. CarriedOK'
  <2> SUFFICES ASSUME NEW c \in Conns, pc'[c] \in Carrying
               PROVE  (/\ Taken(nm[c])
                       /\ \A d \in Conns : pc[d] \in Carrying /\ nm[d] = nm[c] => d = c
                       /\ \A x \in Conns : \A i \in 1 .. Len(wire[x]) :
                            Routed(wire[x][i]) => wire[x][i].msg # nm[c]
                       /\ \A g \in 1 .. Len(gwSent) : gwSent[g] # nm[c])'
    BY Zenon DEF CarriedOK
  <2>1. pc[c] \in Carrying /\ nm'[c] = nm[c] /\ nm[c] \in Messages
    BY <1>1
  <2>2. Taken(nm[c])
    BY <2>1 DEF OnceInv, CarriedOK
  <2>3. Taken(nm[c])'
    <3>1. PICK o \in Messages : o = nm[c]
      BY <2>1
    <3>2. Taken(o)'
      BY <2>2, <3>1
    <3>3. QED BY <2>1, <3>1, <3>2 DEF Taken
  <2>4. QED BY <2>1, <2>3 DEF OnceInv, CarriedOK, Routed
<1>4. WrittenOK'
  BY WrittenStays DEF OnceInv
<1>5. DeliveredAtMostOnce'
  BY DEF OnceInv, DeliveredAtMostOnce, Routed
<1>6. QED BY <1>3, <1>4, <1>5 DEF OnceInv

\* A thread takes a frame out of a queue.
LEMMA OnceTake ==
  ASSUME TypeInv, OnceInv, NEW c \in Conns, NEW o \in Messages, QueuesOK',
         \A m \in Messages : Taken(m) => Taken(m)',
         Taken(o)', \A m \in Messages : Taken(m) /\ m.src = o.src => m.n < o.n,
         nm' = [nm EXCEPT ![c] = o], pc' = [pc EXCEPT ![c] = "route"],
         UNCHANGED <<wire, gwSent>>
  PROVE  OnceInv'
<1>1. nm \in [Conns -> Messages] /\ pc \in [Conns -> Pcs] /\ o.n \in Nat
  BY DEF TypeInv, TypeOK, Messages
<1>2. \A m \in Messages : Taken(m) => m # o
  BY <1>1
<1>3. \A d \in Conns : d # c => pc'[d] = pc[d] /\ nm'[d] = nm[d] /\ nm[d] \in Messages
  BY <1>1
<1>4. pc'[c] \in Carrying /\ nm'[c] = o
  BY <1>1 DEF Carrying
<1>5. /\ \A x \in Conns : \A i \in 1 .. Len(wire[x]) :
           wire[x][i].msg \in Messages /\ (Routed(wire[x][i]) => Taken(wire[x][i].msg))
      /\ \A g \in 1 .. Len(gwSent) : gwSent[g] \in Messages /\ Taken(gwSent[g])
      /\ \A d \in Conns : pc[d] \in Carrying => Taken(nm[d])
  BY WrittenTypes DEF OnceInv, WrittenOK, CarriedOK
<1>6. CarriedOK'
  <2> SUFFICES ASSUME NEW d \in Conns, pc'[d] \in Carrying
               PROVE  (/\ Taken(nm[d])
                       /\ \A e \in Conns : pc[e] \in Carrying /\ nm[e] = nm[d] => e = d
                       /\ \A x \in Conns : \A i \in 1 .. Len(wire[x]) :
                            Routed(wire[x][i]) => wire[x][i].msg # nm[d]
                       /\ \A g \in 1 .. Len(gwSent) : gwSent[g] # nm[d])'
    BY Zenon DEF CarriedOK
  <2>1. CASE d = c
    <3>1. Taken(nm[d])'
      BY <1>4, <2>1 DEF Taken
    <3>2. \A e \in Conns : pc'[e] \in Carrying /\ nm'[e] = nm'[d] => e = d
      BY <1>2, <1>3, <1>4, <1>5, <2>1
    <3>3. /\ \A x \in Conns : \A i \in 1 .. Len(wire[x]) :
               Routed(wire[x][i]) => wire[x][i].msg # o
          /\ \A g \in 1 .. Len(gwSent) : gwSent[g] # o
      BY <1>2, <1>5
    <3>4. QED BY <1>4, <2>1, <3>1, <3>2, <3>3 DEF Routed
  <2>2. CASE d # c
    <3>1. pc[d] \in Carrying /\ nm'[d] = nm[d] /\ nm[d] \in Messages /\ nm[d] # o
      BY <1>2, <1>3, <1>5, <2>2
    <3>2. Taken(nm[d])'
      <4>1. PICK m \in Messages : m = nm[d]
        BY <3>1
      <4>2. Taken(m)'
        BY <1>5, <3>1, <4>1
      <4>3. QED BY <3>1, <4>1, <4>2 DEF Taken
    <3>3. \A e \in Conns : pc'[e] \in Carrying /\ nm'[e] = nm'[d] => e = d
      BY <1>3, <1>4, <3>1 DEF OnceInv, CarriedOK
    <3>4. QED BY <3>1, <3>2, <3>3 DEF OnceInv, CarriedOK, Routed
  <2>3. QED BY <2>1, <2>2
<1>7. WrittenOK'
  BY WrittenStays DEF OnceInv
<1>8. DeliveredAtMostOnce'
  BY DEF OnceInv, DeliveredAtMostOnce, Routed
<1>9. QED BY <1>6, <1>7, <1>8 DEF OnceInv

\* A frame is written: a login answer, or what a thread carried and carries no more.
LEMMA OnceWire ==
  ASSUME TypeInv, OnceInv, UNCHANGED <<inq, sent, gwSent>>,
         NEW y \in Conns, NEW o \in Deliveries, wire' = [wire EXCEPT ![y] = Append(@, o)],
         \A d \in Conns : pc'[d] \in Carrying => pc[d] \in Carrying /\ nm'[d] = nm[d],
         Routed(o) => \E c \in Conns : /\ pc[c] \in Carrying /\ o.msg = nm[c]
                                       /\ pc'[c] \notin Carrying
  PROVE  OnceInv'
<1>1. \A x \in Conns : \A i \in 1 .. Len(wire'[x]) :
        \/ i \in 1 .. Len(wire[x]) /\ wire'[x][i] = wire[x][i]
        \/ x = y /\ i = Len(wire[y]) + 1 /\ wire'[x][i] = o
  BY WireAppend DEF TypeInv, TypeOK
<1>2. Routed(o) =>
        /\ Taken(o.msg)
        /\ \A d \in Conns : pc'[d] \in Carrying => nm[d] # o.msg
        /\ \A x \in Conns : \A i \in 1 .. Len(wire[x]) :
             Routed(wire[x][i]) => wire[x][i].msg # o.msg
        /\ \A g \in 1 .. Len(gwSent) : gwSent[g] # o.msg
  BY DEF OnceInv, CarriedOK
<1>3. ~Routed(o) =>
        /\ \A x \in Conns : \A i \in 1 .. Len(wire[x]) :
             Routed(wire[x][i]) => wire[x][i].msg # o.msg
        /\ \A g \in 1 .. Len(gwSent) : gwSent[g] # o.msg
  BY DEF OnceInv, WrittenOK, Taken, ByClient, Routed
<1>4. QueuesOK'
  BY DEF OnceInv, QueuesOK
<1>5. CarriedOK'
  <2> SUFFICES ASSUME NEW d \in Conns, pc'[d] \in Carrying
               PROVE  (/\ Taken(nm[d])
                       /\ \A e \in Conns : pc[e] \in Carrying /\ nm[e] = nm[d] => e = d
                       /\ \A x \in Conns : \A i \in 1 .. Len(wire[x]) :
                            Routed(wire[x][i]) => wire[x][i].msg # nm[d]
                       /\ \A g \in 1 .. Len(gwSent) : gwSent[g] # nm[d])'
    BY Zenon DEF CarriedOK
  <2>1. pc[d] \in Carrying /\ nm'[d] = nm[d]
    OBVIOUS
  <2>2. Taken(nm[d])'
    BY <2>1 DEF OnceInv, CarriedOK, Taken
  <2>3. ASSUME NEW x \in Conns, NEW i \in 1 .. Len(wire'[x]), Routed(wire'[x][i])
        PROVE  wire'[x][i].msg # nm[d]
    BY <1>1, <1>2, <2>1, <2>3 DEF OnceInv, CarriedOK
  <2>4. QED BY <2>1, <2>2, <2>3 DEF OnceInv, CarriedOK, Routed
<1>6. WrittenOK'
  <2>1. ASSUME NEW x \in Conns, NEW i \in 1 .. Len(wire'[x]), Routed(wire'[x][i])
        PROVE  Taken(wire'[x][i].msg)
    BY <1>1, <1>2, <2>1 DEF OnceInv, WrittenOK
  <2>2. \A g \in 1 .. Len(gwSent) : Taken(gwSent[g])
    BY DEF OnceInv, WrittenOK
  <2>3. ASSUME NEW x \in Conns, NEW i \in 1 .. Len(wire'[x]), Routed(wire'[x][i])
        PROVE  Taken(wire[x][i].msg)'
    BY <2>1, <2>3 DEF Taken
  <2>4. \A g \in 1 .. Len(gwSent') : Taken(gwSent[g])'
    BY <2>2 DEF Taken
  <2>5. QED BY <2>3, <2>4 DEF WrittenOK, Routed
<1>7. DeliveredAtMostOnce'
  <2>1. ASSUME NEW x \in Conns, NEW z \in Conns, NEW i \in 1 .. Len(wire'[x]),
               NEW j \in 1 .. Len(wire'[z]), Routed(wire'[x][i]),
               wire'[x][i].msg = wire'[z][j].msg
        PROVE  x = z /\ i = j
    <3>1. Routed(wire'[z][j])
      BY <2>1 DEF Routed
    <3>2. CASE /\ i \in 1 .. Len(wire[x]) /\ wire'[x][i] = wire[x][i]
               /\ j \in 1 .. Len(wire[z]) /\ wire'[z][j] = wire[z][j]
      BY <2>1, <3>2 DEF OnceInv, DeliveredAtMostOnce
    <3>3. CASE x = y /\ i = Len(wire[y]) + 1 /\ wire'[x][i] = o
      BY <1>1, <1>2, <2>1, <3>1, <3>3
    <3>4. CASE z = y /\ j = Len(wire[y]) + 1 /\ wire'[z][j] = o
      BY <1>1, <1>2, <2>1, <3>1, <3>4
    <3>5. QED BY <1>1, <3>2, <3>3, <3>4
  <2>2. ASSUME NEW g \in 1 .. Len(gwSent), NEW x \in Conns, NEW i \in 1 .. Len(wire'[x])
        PROVE  wire'[x][i].msg # gwSent[g]
    <3>1. CASE i \in 1 .. Len(wire[x]) /\ wire'[x][i] = wire[x][i]
      BY <3>1 DEF OnceInv, DeliveredAtMostOnce
    <3>2. QED BY <1>1, <1>2, <1>3, <3>1
  <2>3. \A g, h \in 1 .. Len(gwSent) : gwSent[g] = gwSent[h] => g = h
    BY DEF OnceInv, DeliveredAtMostOnce
  <2>4. QED BY <2>1, <2>2, <2>3 DEF DeliveredAtMostOnce, Routed
<1>8. QED BY <1>4, <1>5, <1>6, <1>7 DEF OnceInv

\* What a thread carried goes to the gateway.
LEMMA OnceGateway ==
  ASSUME TypeInv, OnceInv, UNCHANGED <<inq, sent, wire>>,
         NEW c \in Conns, pc[c] \in Carrying, pc'[c] \notin Carrying,
         gwSent' = Append(gwSent, nm[c]),
         \A d \in Conns : pc'[d] \in Carrying => pc[d] \in Carrying /\ nm'[d] = nm[d]
  PROVE  OnceInv'
<1>1. /\ gwSent \in Seq(Messages) /\ Len(gwSent) \in Nat /\ Len(gwSent') = Len(gwSent) + 1
      /\ gwSent'[Len(gwSent) + 1] = nm[c]
      /\ \A g \in 1 .. Len(gwSent) : gwSent'[g] = gwSent[g]
  BY DEF TypeInv, TypeOK
<1>2. \A g \in 1 .. Len(gwSent') :
        \/ g \in 1 .. Len(gwSent) /\ gwSent'[g] = gwSent[g]
        \/ g = Len(gwSent) + 1 /\ gwSent'[g] = nm[c]
  BY <1>1
<1>3. /\ Taken(nm[c])
      /\ \A d \in Conns : pc'[d] \in Carrying => nm[d] # nm[c]
      /\ \A x \in Conns : \A i \in 1 .. Len(wire[x]) :
           Routed(wire[x][i]) => wire[x][i].msg # nm[c]
      /\ \A g \in 1 .. Len(gwSent) : gwSent[g] # nm[c]
  BY DEF OnceInv, CarriedOK
<1>4. \A x \in Conns : \A i \in 1 .. Len(wire[x]) : wire[x][i].msg # nm[c]
  BY <1>3 DEF Routed, Taken, ByClient
<1>5. QueuesOK'
  BY DEF OnceInv, QueuesOK
<1>6. CarriedOK'
  <2> SUFFICES ASSUME NEW d \in Conns, pc'[d] \in Carrying
               PROVE  (/\ Taken(nm[d])
                       /\ \A e \in Conns : pc[e] \in Carrying /\ nm[e] = nm[d] => e = d
                       /\ \A x \in Conns : \A i \in 1 .. Len(wire[x]) :
                            Routed(wire[x][i]) => wire[x][i].msg # nm[d]
                       /\ \A g \in 1 .. Len(gwSent) : gwSent[g] # nm[d])'
    BY Zenon DEF CarriedOK
  <2>1. pc[d] \in Carrying /\ nm'[d] = nm[d]
    OBVIOUS
  <2>2. Taken(nm[d])'
    BY <2>1 DEF OnceInv, CarriedOK, Taken
  <2>3. \A g \in 1 .. Len(gwSent') : gwSent'[g] # nm[d]
    BY <1>2, <1>3, <2>1 DEF OnceInv, CarriedOK
  <2>4. QED BY <2>1, <2>2, <2>3 DEF OnceInv, CarriedOK, Routed
<1>7. WrittenOK'
  <2>1. \A g \in 1 .. Len(gwSent') : Taken(gwSent'[g])
    BY <1>2, <1>3 DEF OnceInv, WrittenOK
  <2>2. QED BY <2>1 DEF OnceInv, WrittenOK, Routed, Taken
<1>8. DeliveredAtMostOnce'
  <2>1. \A g, h \in 1 .. Len(gwSent') : gwSent'[g] = gwSent'[h] => g = h
    BY <1>2, <1>3 DEF OnceInv, DeliveredAtMostOnce
  <2>2. \A g \in 1 .. Len(gwSent') : \A x \in Conns : \A i \in 1 .. Len(wire[x]) :
          wire[x][i].msg # gwSent'[g]
    BY <1>2, <1>4 DEF OnceInv, DeliveredAtMostOnce
  <2>3. QED BY <2>1, <2>2 DEF OnceInv, DeliveredAtMostOnce, Routed
<1>9. QED BY <1>5, <1>6, <1>7, <1>8 DEF OnceInv

\* The reads of a node's thread keep OnceInv.
LEMMA OnceRead ==
  ASSUME TypeInv, OnceInv, NEW c \in Conns, LoginRead(c) \/ LoopRead(c)
  PROVE  OnceInv'
<1> DEFINE f == m_fdSocket[c]
<1>1. /\ pc \in [Conns -> Pcs] /\ nm \in [Conns -> Messages] /\ f \in Fds
      /\ pc[c] \in {"login", "loop"}
      /\ UNCHANGED <<wire, gwSent, sent>>
  BY DEF TypeInv, TypeOK, Struct, LoginRead, LoopRead, routeVars
<1>2. ASSUME UNCHANGED nm, UNCHANGED pc \/ \E l \in Pcs \ Carrying : Goto(c, l)
      PROVE  \A d \in Conns : pc'[d] \in Carrying => pc[d] \in Carrying /\ nm'[d] = nm[d]
  BY <1>1, <1>2 DEF Goto
<1>3. CASE /\ UNCHANGED inq /\ UNCHANGED nm
           /\ UNCHANGED pc \/ \E l \in Pcs \ Carrying : Goto(c, l)
  <2>1. QueuesOK' /\ \A m \in Messages : Taken(m) => Taken(m)'
    BY <1>1, <1>3 DEF OnceInv, QueuesOK, Taken
  <2>2. QED BY <1>1, <1>2, <1>3, <2>1, OnceFrame
<1>4. ASSUME NEW k \in 1 .. MaxSend, SysReadData(f, k),
             \/ UNCHANGED nm /\ (UNCHANGED pc \/ \E l \in Pcs \ Carrying : Goto(c, l))
             \/ nm' = [nm EXCEPT ![c] = inq[desc[f]][1]] /\ Goto(c, "route")
      PROVE  OnceInv'
  <2>1. k \in Nat
    BY <1>4, SocketsAssumption
  <2>2. /\ QueuesOK'
        /\ \A m \in Messages : Taken(m) => Taken(m)'
        /\ \E o \in Messages :
             /\ o = inq[desc[f]][1] /\ o.src = desc[f] /\ Taken(o)'
             /\ \A m \in Messages : Taken(m) /\ m.src = o.src => m.n < o.n
    BY <1>1, <1>4, <2>1, QueueRead DEF OnceInv
  <2>3. CASE UNCHANGED nm /\ (UNCHANGED pc \/ \E l \in Pcs \ Carrying : Goto(c, l))
    BY <1>1, <1>2, <2>2, <2>3, OnceFrame
  <2>4. CASE nm' = [nm EXCEPT ![c] = inq[desc[f]][1]] /\ Goto(c, "route")
    BY <1>1, <2>2, <2>4, OnceTake DEF Goto
  <2>5. QED BY <1>4, <2>3, <2>4
<1>5. "login_close" \in Pcs \ Carrying /\ "answer" \in Pcs \ Carrying
      /\ "loop_close" \in Pcs \ Carrying /\ "pop" \in Pcs \ Carrying
  BY DEF Pcs, Carrying, Walking
<1>6. CASE LoginRead(c)
  <2>1. UNCHANGED nm
    BY <1>6 DEF LoginRead, routeVars
  <2>2. CASE SysReadEof(f) \/ SysReadError(f)
    <3>1. UNCHANGED inq
      BY <2>2 DEF SysReadEof, SysReadError
    <3>2. UNCHANGED pc \/ \E l \in Pcs \ Carrying : Goto(c, l)
      BY <1>5, <1>6 DEF LoginRead, Disconnect, CheckLogin
    <3>3. QED BY <1>3, <2>1, <3>1, <3>2
  <2>3. ASSUME NEW k \in 1 .. MaxSend, SysReadData(f, k)
        PROVE  OnceInv'
    <3>1. UNCHANGED pc \/ \E l \in Pcs \ Carrying : Goto(c, l)
      BY <1>5, <1>6 DEF LoginRead, Disconnect, CheckLogin
    <3>2. QED BY <1>4, <2>1, <2>3, <3>1
  <2>4. QED BY <1>6, <2>2, <2>3 DEF LoginRead
<1>7. CASE LoopRead(c)
  <2>1. CASE (SysReadEof(f) \/ SysReadError(f)) /\ UNCHANGED nm
             /\ (Goto(c, "loop_close") \/ Goto(c, "pop"))
    <3>1. UNCHANGED inq
      BY <2>1 DEF SysReadEof, SysReadError
    <3>2. QED BY <1>3, <1>5, <2>1, <3>1
  <2>2. ASSUME NEW k \in 1 .. MaxSend, SysReadData(f, k),
               \/ nm' = [nm EXCEPT ![c] = inq[desc[f]][1]] /\ Goto(c, "route")
               \/ Goto(c, "pop") /\ UNCHANGED nm
        PROVE  OnceInv'
    BY <1>4, <1>5, <2>2
  <2>3. QED BY <1>7, <2>1, <2>2 DEF LoopRead, Disconnect
<1>8. QED BY <1>6, <1>7

\* Answering, closing, routing and popping keep OnceInv.
LEMMA OnceWork ==
  ASSUME TypeInv, OnceInv, NEW c \in Conns,
         SendLoginAnswer(c) \/ CloseSocket(c) \/ LoopExit(c) \/ PopMessage(c) \/ RouteLock(c)
           \/ RouteVisit(c) \/ RouteMiss(c) \/ EnqueueMsg(c) \/ WriteData(c)
  PROVE  OnceInv'
<1>1. /\ pc \in [Conns -> Pcs] /\ nm \in [Conns -> Messages]
      /\ desc \in [Fds -> Conns \cup {NoConn}]
      /\ UNCHANGED <<inq, sent>>
  BY DEF TypeInv, TypeOK, SocketsTypeOK, SendLoginAnswer, CloseSocket, LoopExit, PopMessage,
         RouteLock, RouteVisit, RouteMiss, EnqueueMsg, WriteData, sockVars
<1>2. QueuesOK' /\ \A m \in Messages : Taken(m) => Taken(m)'
  BY <1>1 DEF OnceInv, QueuesOK, Taken
<1>3. \A d \in Conns : pc'[d] \in Carrying => pc[d] \in Carrying /\ nm'[d] = nm[d]
  <2>1. CASE SendLoginAnswer(c) \/ CloseSocket(c) \/ LoopExit(c) \/ PopMessage(c)
    <3>1. UNCHANGED nm /\ (UNCHANGED pc \/ Goto(c, "loop") \/ Goto(c, "done") \/ Goto(c, "pop_lock"))
      BY <2>1 DEF SendLoginAnswer, CloseSocket, LoopExit, PopMessage, routeVars
    <3>2. QED BY <1>1, <3>1 DEF Goto, Carrying, Walking
  <2>2. CASE RouteLock(c) \/ RouteVisit(c) \/ RouteMiss(c) \/ EnqueueMsg(c) \/ WriteData(c)
    <3>1. pc[c] \in Carrying
      BY <2>2 DEF RouteLock, RouteVisit, RouteMiss, EnqueueMsg, WriteData, Carrying, Walking
    <3>2. \/ UNCHANGED nm /\ (UNCHANGED pc \/ \E l : Goto(c, l))
          \/ nm' = [nm EXCEPT ![c] = NoMessage] /\ Goto(c, "pop")
      BY <2>2 DEF RouteLock, RouteVisit, RouteMiss, EnqueueMsg, WriteData, RouteDone
    <3>3. QED BY <1>1, <3>1, <3>2 DEF Goto, Carrying, Walking
  <2>3. QED BY <2>1, <2>2
<1>4. CASE UNCHANGED <<wire, gwSent>>
  BY <1>2, <1>3, <1>4, OnceFrame
<1>5. CASE SendLoginAnswer(c)
  <2> DEFINE f == m_fdSocket[c]
             o == [msg |-> LoginAnswer(c, m_nodeId[c]), via |-> c]
  <2>1. UNCHANGED gwSent /\ (UNCHANGED wire \/ SysWriteOk(f, o))
    BY <1>5 DEF SendLoginAnswer, SysWriteLost, SysWriteError, routeVars
  <2>2. CASE SysWriteOk(f, o)
    <3>1. f \in Fds /\ o \in Deliveries /\ ~Routed(o)
      BY <1>5, MessageTypes
         DEF SendLoginAnswer, TypeInv, TypeOK, Struct, Deliveries, Routed, LoginAnswer
    <3>2. desc[f] \in Conns /\ wire' = [wire EXCEPT ![desc[f]] = Append(@, o)]
      BY <1>1, <2>2, <3>1 DEF SysWriteOk
    <3> HIDE DEF f, o
    <3>3. QED BY <1>1, <1>3, <2>1, <3>1, <3>2, OnceWire
  <2>3. QED BY <1>4, <2>1, <2>2
<1>6. CASE WriteData(c)
  <2> DEFINE n == m_lstNodes[it[c]]
             f == m_fdSocket[n]
             o == [msg |-> nm[c], via |-> n]
  <2>1. /\ UNCHANGED gwSent /\ pc[c] = "write"
        /\ UNCHANGED wire \/ (SysWriteOk(f, o) /\ Goto(c, "pop"))
    BY <1>6 DEF WriteData, SysWriteLost, SysWriteError, RouteDone
  <2>2. CASE SysWriteOk(f, o) /\ Goto(c, "pop")
    <3>1. f \in Fds /\ o \in Deliveries
      <4>1. it[c] \in 1 .. Len(m_lstNodes) /\ n \in Conns
        BY <2>1 DEF TypeInv, TypeOK, Struct, Walking, Inside
      <4>2. QED
        BY <1>1, <2>1, <4>1 DEF TypeInv, Struct, Deliveries
    <3>2. desc[f] \in Conns /\ wire' = [wire EXCEPT ![desc[f]] = Append(@, o)]
      BY <1>1, <2>2, <3>1 DEF SysWriteOk
    <3>3. pc[c] \in Carrying /\ o.msg = nm[c] /\ pc'[c] \notin Carrying
      BY <1>1, <2>1, <2>2 DEF Goto, Carrying, Walking
    <3> HIDE DEF f, o
    <3>4. QED BY <1>1, <1>3, <2>1, <3>1, <3>2, <3>3, OnceWire
  <2>3. QED BY <1>4, <2>1, <2>2
<1>7. CASE RouteMiss(c)
  <2>1. /\ UNCHANGED wire /\ pc[c] = "find"
        /\ UNCHANGED gwSent \/ (gwSent' = Append(gwSent, nm[c]) /\ Goto(c, "pop"))
    BY <1>7 DEF RouteMiss, RouteDone, sockVars
  <2>2. CASE gwSent' = Append(gwSent, nm[c]) /\ Goto(c, "pop")
    <3>1. pc[c] \in Carrying /\ pc'[c] \notin Carrying
      BY <1>1, <2>1, <2>2 DEF Goto, Carrying, Walking
    <3>2. QED BY <1>1, <1>3, <2>1, <2>2, <3>1, OnceGateway
  <2>3. QED BY <1>4, <2>1, <2>2
<1>8. QED
  BY <1>4, <1>5, <1>6, <1>7
     DEF CloseSocket, LoopExit, PopMessage, RouteLock, RouteVisit, EnqueueMsg, sockVars,
         routeVars

\* The accept thread and the clients keep OnceInv.
LEMMA OnceOthers ==
  ASSUME TypeInv, OnceInv, AcceptThread \/ \E c \in Conns : Client(c)
  PROVE  OnceInv'
<1>1. pc \in [Conns -> Pcs]
  BY DEF TypeInv, TypeOK
<1>2. UNCHANGED <<wire, gwSent, nm>>
  BY DEF AcceptThread, Accept, NodeStart, PushBack, Client, ClientConnect, ClientSend, ClientWrite,
         ClientRead, ClientTake, ClientClose, sockVars, serverVars, routeVars
<1>3. UNCHANGED pc \/ \E c \in Conns : Goto(c, "login")
  BY DEF AcceptThread, Accept, NodeStart, PushBack, Client, serverVars
<1>4. \A d \in Conns : pc'[d] \in Carrying => pc[d] \in Carrying /\ nm'[d] = nm[d]
  BY <1>1, <1>2, <1>3 DEF Goto, Carrying, Walking
<1>5. QueuesOK' /\ \A m \in Messages : Taken(m) => Taken(m)'
  <2>1. CASE UNCHANGED <<inq, sent>>
    BY <2>1 DEF OnceInv, QueuesOK, Taken
  <2>2. CASE \E c \in Conns : ClientSend(c)
    BY <2>2, QueueSend DEF OnceInv
  <2>3. QED
    BY <2>1, <2>2
       DEF AcceptThread, Accept, NodeStart, PushBack, Client, ClientConnect, ClientRead,
           ClientTake, ClientClose, sockVars
<1>6. QED BY <1>2, <1>4, <1>5, OnceFrame

\* OnceInv is inductive relative to TypeInv.
LEMMA OnceNext == TypeInv /\ OnceInv /\ [Next]_vars => OnceInv'
<1> SUFFICES ASSUME TypeInv, OnceInv, [Next]_vars PROVE OnceInv'
  OBVIOUS
<1>1. CASE UNCHANGED vars
  BY <1>1 DEF OnceInv, QueuesOK, CarriedOK, WrittenOK, DeliveredAtMostOnce, Taken, Routed, vars,
              sockVars, serverVars, routeVars
<1>2. QED
  BY <1>1, OnceRead, OnceWork, OnceOthers DEF Next, NodeThread

\* A message sent once is written at most once, to one client or to the gateway,
\* whatever descriptor numbers are reused and whatever threads read them.
THEOREM AtMostOnce == Spec => []DeliveredAtMostOnce
<1>1. OnceInv => DeliveredAtMostOnce
  BY DEF OnceInv
<1>2. QED
  BY <1>1, TypeInit, TypeNext, OnceInit, OnceNext, PTL DEF Spec

---------------------------------------------------------------------------
(* In order.                                                               *)

\* Each thread carries a message of its own client, newer than all of that client's
\* that were written.
OrderInv ==
  revived = {} =>
    \A c \in Conns : pc[c] \in Carrying =>
      /\ nm[c].src = c
      /\ \A x \in Conns : \A i \in 1 .. Len(wire[x]) :
           Routed(wire[x][i]) /\ wire[x][i].msg.src = c => wire[x][i].msg.n < nm[c].n

\* OrderInv holds before the first connection.
LEMMA OrderInit == Init => OrderInv
BY DEF Init, OrderInv, Carrying, Walking

\* What a thread carries after a step it carried before or has just read.
LEMMA CarryStep ==
  ASSUME TypeInv, Next, NEW c \in Conns, pc'[c] \in Carrying
  PROVE  \/ pc[c] \in Carrying /\ nm'[c] = nm[c]
         \/ /\ LoopRead(c) /\ UNCHANGED <<wire, sent>>
            /\ \E k \in 1 .. MaxSend : SysReadData(m_fdSocket[c], k)
            /\ nm'[c] = inq[desc[m_fdSocket[c]]][1]
<1> USE DEF Carrying, Walking
<1>1. pc \in [Conns -> Pcs] /\ nm \in [Conns -> Messages]
  BY DEF TypeInv, TypeOK
<1>2. ASSUME NEW d \in Conns, LoopRead(d)
      PROVE  \/ pc[c] \in Carrying /\ nm'[c] = nm[c]
             \/ /\ LoopRead(c) /\ UNCHANGED <<wire, sent>>
                /\ \E k \in 1 .. MaxSend : SysReadData(m_fdSocket[c], k)
                /\ nm'[c] = inq[desc[m_fdSocket[c]]][1]
  <2>1. CASE d # c
    <3>1. /\ UNCHANGED nm \/ \E m : nm' = [nm EXCEPT ![d] = m]
          /\ \E l : Goto(d, l)
      BY <1>2 DEF LoopRead, Disconnect
    <3>2. QED BY <1>1, <2>1, <3>1 DEF Goto
  <2>2. CASE d = c
    <3>1. CASE Goto(c, "loop_close") \/ Goto(c, "pop")
      BY <1>1, <3>1 DEF Goto
    <3>2. CASE /\ \E k \in 1 .. MaxSend : SysReadData(m_fdSocket[c], k)
               /\ nm' = [nm EXCEPT ![c] = inq[desc[m_fdSocket[c]]][1]]
      BY <1>1, <1>2, <2>2, <3>2 DEF LoopRead
    <3>3. QED BY <1>2, <2>2, <3>1, <3>2 DEF LoopRead, Disconnect
  <2>3. QED BY <2>1, <2>2
<1>3. ASSUME NEW d \in Conns,
             Accept(d) \/ LoginRead(d) \/ SendLoginAnswer(d) \/ CloseSocket(d) \/ LoopExit(d)
               \/ PopMessage(d)
      PROVE  pc[c] \in Carrying /\ nm'[c] = nm[c]
  <2>1. UNCHANGED nm
    BY <1>3 DEF Accept, LoginRead, SendLoginAnswer, CloseSocket, LoopExit, PopMessage, routeVars
  <2>2. UNCHANGED pc \/ \E l \in Pcs \ Carrying : Goto(d, l)
    BY <1>3 DEF Accept, LoginRead, SendLoginAnswer, CloseSocket, LoopExit, PopMessage,
                Disconnect, CheckLogin, Pcs
  <2>3. QED BY <1>1, <2>1, <2>2 DEF Goto
<1>4. ASSUME NEW d \in Conns,
             RouteLock(d) \/ RouteVisit(d) \/ RouteMiss(d) \/ EnqueueMsg(d) \/ WriteData(d)
      PROVE  pc[c] \in Carrying /\ nm'[c] = nm[c]
  <2>1. pc[d] \in Carrying
    BY <1>4 DEF RouteLock, RouteVisit, RouteMiss, EnqueueMsg, WriteData
  <2>2. \/ UNCHANGED nm /\ (UNCHANGED pc \/ \E l : Goto(d, l))
        \/ nm' = [nm EXCEPT ![d] = NoMessage] /\ Goto(d, "pop")
    BY <1>4 DEF RouteLock, RouteVisit, RouteMiss, EnqueueMsg, WriteData, RouteDone
  <2>3. QED BY <1>1, <2>1, <2>2 DEF Goto
<1>5. CASE UNCHANGED <<pc, nm>>
  BY <1>5
<1>6. QED
  BY <1>2, <1>3, <1>4, <1>5
     DEF Next, AcceptThread, NodeThread, NodeStart, PushBack, Client, serverVars, routeVars

\* What a step writes is a login answer, through the descriptor of the node that sends
\* it, or what a thread carried and carries no more.
LEMMA WrittenStep ==
  ASSUME TypeInv, OnceInv, Next
  PROVE  \/ UNCHANGED wire
         \/ \E y \in Conns, o \in Deliveries :
              /\ wire' = [wire EXCEPT ![y] = Append(@, o)] /\ UNCHANGED sent
              /\ Routed(o) => \E c \in Conns : /\ pc[c] = "write" /\ o.msg = nm[c]
                                               /\ pc'[c] \notin Carrying
              /\ ~Routed(o) => \E c \in Conns : /\ pc[c] = "answer" /\ pc'[c] = "loop"
                                                /\ y = desc[m_fdSocket[c]]
<1> DEFINE Written == \E y \in Conns, o \in Deliveries :
              /\ wire' = [wire EXCEPT ![y] = Append(@, o)] /\ UNCHANGED sent
              /\ Routed(o) => \E c \in Conns : /\ pc[c] = "write" /\ o.msg = nm[c]
                                               /\ pc'[c] \notin Carrying
              /\ ~Routed(o) => \E c \in Conns : /\ pc[c] = "answer" /\ pc'[c] = "loop"
                                                /\ y = desc[m_fdSocket[c]]
<1>1. /\ desc \in [Fds -> Conns \cup {NoConn}] /\ pc \in [Conns -> Pcs]
      /\ nm \in [Conns -> Messages]
  BY DEF TypeInv, TypeOK, SocketsTypeOK
<1>2. ASSUME NEW c \in Conns, SendLoginAnswer(c) PROVE UNCHANGED wire \/ Written
  <2> DEFINE f == m_fdSocket[c]
             o == [msg |-> LoginAnswer(c, m_nodeId[c]), via |-> c]
  <2>1. /\ UNCHANGED sent /\ pc[c] = "answer"
        /\ UNCHANGED wire \/ (SysWriteOk(f, o) /\ Goto(c, "loop"))
    BY <1>2 DEF SendLoginAnswer, SysWriteLost, SysWriteError
  <2>2. CASE SysWriteOk(f, o) /\ Goto(c, "loop")
    <3>1. f \in Fds /\ o \in Deliveries /\ ~Routed(o)
      BY <1>2, MessageTypes
         DEF SendLoginAnswer, TypeInv, TypeOK, Struct, Deliveries, Routed, LoginAnswer
    <3>2. desc[f] \in Conns /\ wire' = [wire EXCEPT ![desc[f]] = Append(@, o)]
      BY <1>1, <2>2, <3>1 DEF SysWriteOk
    <3>3. pc'[c] = "loop"
      BY <1>1, <2>2 DEF Goto
    <3> HIDE DEF o
    <3>4. QED BY <2>1, <3>1, <3>2, <3>3
  <2>3. QED BY <2>1, <2>2
<1>3. ASSUME NEW c \in Conns, WriteData(c) PROVE UNCHANGED wire \/ Written
  <2> DEFINE n == m_lstNodes[it[c]]
             f == m_fdSocket[n]
             o == [msg |-> nm[c], via |-> n]
  <2>1. /\ UNCHANGED sent /\ pc[c] = "write"
        /\ UNCHANGED wire \/ (SysWriteOk(f, o) /\ Goto(c, "pop"))
    BY <1>3 DEF WriteData, SysWriteLost, SysWriteError, RouteDone
  <2>2. CASE SysWriteOk(f, o) /\ Goto(c, "pop")
    <3>1. f \in Fds /\ o \in Deliveries
      <4>1. it[c] \in 1 .. Len(m_lstNodes) /\ n \in Conns
        BY <2>1 DEF TypeInv, TypeOK, Struct, Walking, Inside
      <4>2. QED
        BY <1>1, <2>1, <4>1 DEF TypeInv, Struct, Deliveries
    <3>2. desc[f] \in Conns /\ wire' = [wire EXCEPT ![desc[f]] = Append(@, o)]
      BY <1>1, <2>2, <3>1 DEF SysWriteOk
    <3>3. pc[c] \in Carrying /\ o.msg = nm[c] /\ pc'[c] \notin Carrying
      BY <1>1, <2>1, <2>2 DEF Goto, Carrying, Walking
    <3>4. Routed(o)
      BY <3>3 DEF OnceInv, CarriedOK, Taken, ByClient, Routed
    <3> HIDE DEF f, o
    <3>5. QED BY <2>1, <3>1, <3>2, <3>3, <3>4
  <2>3. QED BY <2>1, <2>2
<1>4. QED
  BY <1>2, <1>3
     DEF Next, AcceptThread, NodeThread, Client, Accept, NodeStart, PushBack, LoginRead,
         CloseSocket, LoopExit, LoopRead, PopMessage, RouteLock, RouteVisit, RouteMiss,
         EnqueueMsg, ClientConnect, ClientSend, ClientWrite, ClientRead, ClientTake, ClientClose,
         sockVars

\* OrderInv is inductive relative to TypeInv, OwnInv and OnceInv.
LEMMA OrderNext == TypeInv /\ OwnInv /\ OnceInv /\ OrderInv /\ [Next]_vars => OrderInv'
<1> SUFFICES ASSUME TypeInv, OwnInv, OnceInv, OrderInv, [Next]_vars PROVE OrderInv'
  OBVIOUS
<1>1. CASE UNCHANGED vars
  BY <1>1 DEF OrderInv, Routed, vars, sockVars, serverVars, acceptVars, routeVars
<1>2. CASE Next
  <2>1. revived' = {} => revived = {}
    BY <1>2 DEF Next, AcceptThread, NodeThread, Client, Accept, NodeStart, PushBack, LoginRead,
                SendLoginAnswer, CloseSocket, LoopExit, LoopRead, PopMessage, RouteLock,
                RouteVisit, RouteMiss, EnqueueMsg, WriteData, serverVars, acceptVars
  <2> SUFFICES ASSUME revived = {}, NEW c \in Conns, pc'[c] \in Carrying
               PROVE  (/\ nm[c].src = c
                       /\ \A x \in Conns : \A i \in 1 .. Len(wire[x]) :
                            Routed(wire[x][i]) /\ wire[x][i].msg.src = c
                              => wire[x][i].msg.n < nm[c].n)'
    BY <2>1 DEF OrderInv
  <2>2. CASE pc[c] \in Carrying /\ nm'[c] = nm[c]
    <3>1. /\ nm[c].src = c
          /\ \A x \in Conns : \A i \in 1 .. Len(wire[x]) :
               Routed(wire[x][i]) /\ wire[x][i].msg.src = c => wire[x][i].msg.n < nm[c].n
      BY <2>2 DEF OrderInv
    <3>2. CASE UNCHANGED wire
      BY <2>2, <3>1, <3>2 DEF Routed
    <3>3. ASSUME NEW y \in Conns, NEW o \in Deliveries,
                 wire' = [wire EXCEPT ![y] = Append(@, o)],
                 Routed(o) => \E d \in Conns : /\ pc[d] \in Carrying /\ o.msg = nm[d]
                                               /\ pc'[d] \notin Carrying
          PROVE  \A x \in Conns : \A i \in 1 .. Len(wire'[x]) :
                   Routed(wire'[x][i]) /\ wire'[x][i].msg.src = c
                     => wire'[x][i].msg.n < nm[c].n
      <4>1. \A x \in Conns : \A i \in 1 .. Len(wire'[x]) :
              \/ i \in 1 .. Len(wire[x]) /\ wire'[x][i] = wire[x][i]
              \/ x = y /\ i = Len(wire[y]) + 1 /\ wire'[x][i] = o
        BY <3>3, WireAppend DEF TypeInv, TypeOK
      <4>2. Routed(o) => o.msg.src # c
        BY <3>3 DEF OrderInv
      <4>3. QED BY <3>1, <4>1, <4>2
    <3>4. QED BY <1>2, <2>2, <3>1, <3>2, <3>3, WrittenStep DEF Routed, Carrying, Walking
  <2>3. CASE /\ LoopRead(c) /\ UNCHANGED <<wire, sent>>
             /\ \E k \in 1 .. MaxSend : SysReadData(m_fdSocket[c], k)
             /\ nm'[c] = inq[desc[m_fdSocket[c]]][1]
    <3> DEFINE f == m_fdSocket[c]
    <3>1. PICK k \in 1 .. MaxSend : SysReadData(f, k)
      BY <2>3
    <3>2. k \in Nat /\ f \in Fds
      BY <2>3, <3>1, SocketsAssumption DEF LoopRead, TypeInv, Struct
    <3>3. PICK o \in Messages :
            /\ o = inq[desc[f]][1] /\ o.src = desc[f]
            /\ \A m \in Messages : Taken(m) /\ m.src = o.src => m.n < o.n
      BY <2>3, <3>1, <3>2, QueueRead DEF OnceInv
    <3>4. desc[f] = c
      <4>1. pc[c] = "loop" /\ m_threadStatus[c] = "TH_START"
        BY <2>3 DEF LoopRead
      <4>2. HoldsSocket(c)
        BY <4>1 DEF OwnInv, NodesOK, NodeOK, HoldsSocket
      <4>3. QED BY <3>2, <4>2 DEF OwnInv, DescriptorOwnership
    <3>5. \A x \in Conns : \A i \in 1 .. Len(wire[x]) :
            Routed(wire[x][i]) /\ wire[x][i].msg.src = c => wire[x][i].msg.n < o.n
      BY <3>3, <3>4, WrittenTypes DEF OnceInv, WrittenOK
    <3>6. nm'[c] = o
      BY <2>3, <3>3
    <3>7. QED BY <2>3, <3>3, <3>4, <3>5, <3>6 DEF Routed
  <2>4. QED BY <1>2, <2>2, <2>3, CarryStep
<1>3. QED BY <1>1, <1>2

\* A bounded set of naturals has a greatest element.
LEMMA GreatestExists ==
  ASSUME NEW W, W \subseteq Nat, W # {}, NEW b \in Nat, \A i \in W : i <= b
  PROVE  \E i \in W : \A j \in W : j <= i
<1> DEFINE T == {b - i : i \in W}
           R == OpToRel(<, Nat)
<1>1. T \subseteq Nat /\ T # {}
  <2>1. \A i \in W : b - i \in Nat
    OBVIOUS
  <2>2. QED BY <2>1
<1>2. IsWellFoundedOn(R, Nat)
  BY NatLessThanWellFounded
<1>3. \E x \in T : \A y \in T : ~(<<y, x>> \in R)
  <2> HIDE DEF R, T
  <2>1. QED BY <1>1, <1>2, WFMin
<1>4. PICK x \in T : \A y \in T : ~(<<y, x>> \in R)
  BY <1>3
<1>5. \A y \in T : ~(y < x)
  BY <1>1, <1>4 DEF OpToRel
<1>6. PICK i \in W : x = b - i
  OBVIOUS
<1>7. \A j \in W : b - j \in T /\ ~(b - j < b - i)
  BY <1>5, <1>6
<1>8. QED BY <1>7

\* The positions on c's wire of what client s sent.
From(s, c) == {i \in 1 .. Len(wire[c]) : Routed(wire[c][i]) /\ wire[c][i].msg.src = s}

\* LastRouted is the number of the one in the last of these positions.
LEMMA LastWritten ==
  ASSUME TypeInv, NEW s \in Conns, NEW c \in Conns
  PROVE  /\ From(s, c) = {} => LastRouted(s, c) = 0
         /\ From(s, c) # {} =>
              \E i \in From(s, c) : /\ \A j \in From(s, c) : j <= i
                                    /\ LastRouted(s, c) = wire[c][i].msg.n
<1> DEFINE W == From(s, c)
<1>1. From(s, c) = {} => LastRouted(s, c) = 0
  BY DEF From, LastRouted
<1>2. ASSUME W # {}
      PROVE  \E i \in W : (\A j \in W : j <= i) /\ LastRouted(s, c) = wire[c][i].msg.n
  <2>1. LastRouted(s, c) = wire[c][CHOOSE i \in W : \A j \in W : j <= i].msg.n
    BY <1>2 DEF From, LastRouted
  <2>2. Len(wire[c]) \in Nat
    BY DEF TypeInv, TypeOK, SocketsTypeOK
  <2>3. W \subseteq Nat /\ \A i \in W : i <= Len(wire[c])
    BY <2>2 DEF From
  <2> HIDE DEF W
  <2>4. \E i \in W : \A j \in W : j <= i
    BY <1>2, <2>2, <2>3, GreatestExists
  <2>5. QED BY <2>1, <2>4
<1>3. QED BY <1>1, <1>2

\* How a frame that is written changes LastRouted.
LEMMA LastStep ==
  ASSUME TypeInv, TypeInv', NEW s \in Conns, NEW c \in Conns,
         NEW y \in Conns, NEW o \in Deliveries, wire' = [wire EXCEPT ![y] = Append(@, o)]
  PROVE  LastRouted(s, c)' = IF c = y /\ Routed(o) /\ o.msg.src = s
                               THEN o.msg.n ELSE LastRouted(s, c)
<1>1. wire \in [Conns -> Seq(Deliveries)] /\ wire' \in [Conns -> Seq(Deliveries)]
  BY DEF TypeInv, TypeOK, SocketsTypeOK
<1>2. CASE c # y
  <2>1. wire'[c] = wire[c]
    BY <1>1, <1>2
  <2>2. QED BY <1>2, <2>1 DEF LastRouted, Routed
<1>3. CASE c = y
  <2>1. /\ Len(wire[c]) \in Nat /\ Len(wire'[c]) = Len(wire[c]) + 1
        /\ wire'[c][Len(wire[c]) + 1] = o
        /\ \A i \in 1 .. Len(wire[c]) : wire'[c][i] = wire[c][i]
    <3>1. wire'[c] = Append(wire[c], o) /\ wire[c] \in Seq(Deliveries)
      BY <1>1, <1>3
    <3>2. QED BY <3>1
  <2>2. \A i : i \in From(s, c)' <=>
                 i \in From(s, c) \/ (i = Len(wire[c]) + 1 /\ Routed(o) /\ o.msg.src = s)
    BY <2>1 DEF From, Routed
  <2>3. LastRouted(s, c)' =
          IF From(s, c)' = {} THEN 0
          ELSE wire'[c][CHOOSE i \in From(s, c)' : \A j \in From(s, c)' : j <= i].msg.n
    BY DEF LastRouted, From
  <2>4. \A i \in From(s, c) : i \in Nat /\ i <= Len(wire[c]) /\ wire'[c][i] = wire[c][i]
    BY <2>1 DEF From
  <2>5. CASE Routed(o) /\ o.msg.src = s
    <3> DEFINE k == Len(wire[c]) + 1
    <3>1. k \in From(s, c)' /\ \A j \in From(s, c)' : j \in Nat /\ j <= k
      BY <2>1, <2>2, <2>4, <2>5
    <3>2. (CHOOSE i \in From(s, c)' : \A j \in From(s, c)' : j <= i) = k
      <4> DEFINE W == From(s, c)'
                 h == CHOOSE i \in W : \A j \in W : j <= i
      <4>1. k \in W /\ k \in Nat /\ \A j \in W : j \in Nat /\ j <= k
        BY <2>1, <3>1
      <4> HIDE DEF W, k
      <4>2. h \in W /\ \A j \in W : j <= h
        BY <4>1
      <4>3. h = k
        <5> HIDE DEF h
        <5>1. QED BY <4>1, <4>2
      <4>4. QED BY <4>3 DEF W, k
    <3>3. QED BY <1>3, <2>1, <2>3, <2>5, <3>1, <3>2
  <2>6. CASE ~(Routed(o) /\ o.msg.src = s)
    <3>1. From(s, c)' = From(s, c)
      BY <2>2, <2>6
    <3>2. CASE From(s, c) = {}
      BY <2>3, <2>6, <3>1, <3>2, LastWritten
    <3>3. CASE From(s, c) # {}
      <4> DEFINE W == From(s, c)
                 h == CHOOSE i \in W : \A j \in W : j <= i
      <4>1. LastRouted(s, c)' = wire'[c][h].msg.n
        BY <2>3, <3>1, <3>3
      <4>2. LastRouted(s, c) = wire[c][h].msg.n
        BY <3>3 DEF LastRouted, From
      <4>3. \E i \in W : \A j \in W : j <= i
        BY <3>3, LastWritten
      <4>4. h \in W
        <5> HIDE DEF W
        <5>1. QED BY <4>3
      <4>5. QED BY <2>4, <2>6, <4>1, <4>2, <4>4
    <3>4. QED BY <3>2, <3>3
  <2>7. QED BY <2>5, <2>6
<1>4. QED BY <1>2, <1>3

\* Every step is, for every pair of clients, a step of LossyFifo or none.
LEMMA PairStep ==
  ASSUME TypeInv, TypeInv', OnceInv, OrderInv, [Next]_vars, revived = {},
         NEW s \in Conns, NEW c \in Conns
  PROVE  Pair(s, c)!FifoNext \/ UNCHANGED Pair(s, c)!fifoVars
<1> USE DEF Pair!FifoNext, Pair!FifoSend, Pair!FifoHandOver, Pair!fifoVars
<1>1. ASSUME UNCHANGED wire PROVE LastRouted(s, c)' = LastRouted(s, c)
  BY <1>1 DEF LastRouted, Routed
<1>2. CASE UNCHANGED <<wire, sent>>
  BY <1>1, <1>2
<1>3. ASSUME NEW d \in Conns, ClientSend(d)
      PROVE  Pair(s, c)!FifoNext \/ UNCHANGED Pair(s, c)!fifoVars
  <2>1. UNCHANGED wire /\ sent' = [sent EXCEPT ![d] = @ + 1] /\ sent \in [Conns -> Nat]
    BY <1>3 DEF ClientSend, ClientWrite, TypeInv, TypeOK, SocketsTypeOK
  <2>2. sent'[s] = IF s = d THEN sent[s] + 1 ELSE sent[s]
    BY <2>1
  <2>3. QED BY <1>1, <2>1, <2>2
<1>4. ASSUME NEW y \in Conns, NEW o \in Deliveries,
             wire' = [wire EXCEPT ![y] = Append(@, o)], UNCHANGED sent,
             Routed(o) => \E d \in Conns : /\ pc[d] \in Carrying /\ o.msg = nm[d]
                                           /\ pc'[d] \notin Carrying
      PROVE  Pair(s, c)!FifoNext \/ UNCHANGED Pair(s, c)!fifoVars
  <2>1. LastRouted(s, c)' = IF c = y /\ Routed(o) /\ o.msg.src = s
                              THEN o.msg.n ELSE LastRouted(s, c)
    BY <1>4, LastStep
  <2>2. CASE c = y /\ Routed(o) /\ o.msg.src = s
    <3>1. PICK d \in Conns : pc[d] \in Carrying /\ o.msg = nm[d]
      BY <1>4, <2>2
    <3>2. o.msg.n \in 1 .. sent[s]
      BY <2>2, <3>1 DEF OnceInv, CarriedOK, Taken
    <3>3. d = s
      BY <2>2, <3>1 DEF OrderInv
    <3>4. \A i \in From(s, c) : wire[c][i].msg.n < o.msg.n
      BY <3>1, <3>3 DEF OrderInv, From
    <3>5. o.msg.n > LastRouted(s, c)
      <4>1. CASE From(s, c) = {}
        BY <3>2, <4>1, LastWritten
      <4>2. CASE From(s, c) # {}
        <5>1. PICK i \in From(s, c) : LastRouted(s, c) = wire[c][i].msg.n
          BY <4>2, LastWritten
        <5>2. QED BY <3>4, <5>1
      <4>3. QED BY <4>1, <4>2
    <3>6. QED BY <1>4, <2>1, <2>2, <3>2, <3>5
  <2>3. CASE ~(c = y /\ Routed(o) /\ o.msg.src = s)
    BY <1>4, <2>1, <2>3
  <2>4. QED BY <2>2, <2>3
<1>5. CASE Next
  <2>1. CASE UNCHANGED wire
    <3>1. UNCHANGED sent \/ \E d \in Conns : ClientSend(d)
      BY <1>5
         DEF Next, AcceptThread, NodeThread, Client, Accept, NodeStart, PushBack, LoginRead,
             SendLoginAnswer, CloseSocket, LoopExit, LoopRead, PopMessage, RouteLock,
             RouteVisit, RouteMiss, EnqueueMsg, WriteData, ClientConnect, ClientRead,
             ClientTake, ClientClose, sockVars
    <3>2. QED BY <1>2, <1>3, <2>1, <3>1
  <2>2. QED BY <1>4, <1>5, <2>1, WrittenStep DEF Carrying, Walking
<1>6. CASE UNCHANGED vars
  BY <1>2, <1>6 DEF vars, sockVars
<1>7. QED BY <1>5, <1>6

\* Whatever two clients exchange through the broker is a lossy FIFO: what the one
\* sends reaches the other at most once and in order, unless a TH_STOP was
\* overwritten.
THEOREM PairsKeepOrder == Spec => PairsInOrder
<1>1. ASSUME Init, NEW s \in Conns, NEW c \in Conns PROVE Pair(s, c)!FifoInit
  <2>1. sent[s] = 0 /\ Len(wire[c]) = 0
    BY <1>1 DEF Init, SocketsInit
  <2>2. From(s, c) = {}
    BY <2>1 DEF From
  <2>3. LastRouted(s, c) = 0
    BY <2>2 DEF From, LastRouted
  <2>4. QED BY <2>1, <2>3 DEF Pair!FifoInit
<1>2. ASSUME TypeInv, TypeInv', OnceInv, OrderInv, [Next]_vars
      PROVE  [revived = {} => \A s, c \in Conns :
                Pair(s, c)!FifoNext \/ UNCHANGED Pair(s, c)!fifoVars]_vars
  BY <1>2, PairStep
<1>3. Init => \A s, c \in Conns : Pair(s, c)!FifoInit
  BY <1>1
<1>4. QED
  BY <1>2, <1>3, TypeInit, TypeNext, OwnInit, OwnNext, OnceInit, OnceNext, OrderInit, OrderNext,
     PTL DEF Spec, PairsInOrder

=============================================================================
