--------------------------- MODULE ClientsProofs ---------------------------
(***************************************************************************)
(* The composition of the broker with the clients of the repository: what  *)
(* is proved of SocketServer holds of it, and the two sides of a login     *)
(* agree.                                                                  *)
(***************************************************************************)
EXTENDS Clients, DeliveryProofs

\* A TClientNode's id is set before it connects and stays.
IdInv == cnNodeId \in [Conns -> NodeIds]

\* IdInv holds initially and every step keeps it.
LEMMA IdInductive ==
  /\ ClientsInit => IdInv
  /\ IdInv /\ [ClientsNext]_allVars => IdInv'
<1>1. ClientsInit => IdInv
  BY ClientsAssumption DEF ClientsInit, IdInv
<1>2. ASSUME IdInv, [ClientsNext]_allVars
      PROVE  IdInv'
  <2>1. UNCHANGED cnNodeId
    BY <1>2 DEF ClientsNext, ClientThread, Connect, LoginWrite, LoginReadAnswer, SendMessage,
                ReadMessage, Exit, clientVars, allVars
  <2> QED BY <1>2, <2>1 DEF IdInv
<1> QED BY <1>1, <1>2

\* Each thing a TClientNode does is one of the things SocketServer lets a client do.
LEMMA ClientStep ==
  ASSUME IdInv, NEW c \in Conns, ClientThread(c) \/ SendMessage(c) \/ Exit(c)
  PROVE  Client(c)
<1>1. CASE Connect(c)
  BY <1>1 DEF Connect, Client
<1>2. CASE LoginWrite(c)
  <2>1. cnNodeId[c] \in NodeIds
    BY DEF IdInv
  <2>2. ClientSend(c)
    BY <1>2, <2>1 DEF LoginWrite, ClientSend
  <2> QED BY <1>2, <2>2 DEF LoginWrite, Client
<1>3. CASE LoginReadAnswer(c)
  <2>1. ClientRead(c) \/ ClientClose(c)
    BY <1>3 DEF LoginReadAnswer, ClientRead
  <2> QED BY <1>3, <2>1 DEF LoginReadAnswer, Client
<1>4. CASE SendMessage(c)
  <2>1. PICK id \in Dests : ClientWrite(c, TestMessage(c, sent[c] + 1, id))
    BY <1>4 DEF SendMessage
  <2>2. ClientSend(c)
    BY <2>1 DEF ClientSend
  <2> QED BY <1>4, <2>2 DEF SendMessage, Client
<1>5. CASE ReadMessage(c)
  BY <1>5 DEF ReadMessage, Client
<1>6. CASE Exit(c)
  BY <1>6 DEF Exit, Client
<1> QED BY <1>1, <1>2, <1>3, <1>4, <1>5, <1>6 DEF ClientThread

\* Every step of the composition is one of the broker among arbitrary clients.
LEMMA BrokerStep ==
  ASSUME IdInv, ClientsNext
  PROVE  Next
<1>1. CASE AcceptThread \/ \E c \in Conns : NodeThread(c)
  BY <1>1 DEF Next
<1>2. ASSUME NEW c \in Conns, ClientThread(c) \/ SendMessage(c) \/ Exit(c)
      PROVE  Next
  BY <1>2, ClientStep DEF Next
<1>3. QED BY <1>1, <1>2 DEF ClientsNext

\* The broker among TClientNodes behaves as the broker among arbitrary clients.
LEMMA ClientsBroker == ClientsSpec => Spec
<1>1. ClientsInit => Init
  BY DEF ClientsInit
<1>2. IdInv /\ [ClientsNext]_allVars => [Next]_vars
  BY BrokerStep DEF allVars
<1>3. QED
  BY <1>1, <1>2, IdInductive, PTL DEF ClientsSpec, Spec

\* Descriptors stay with their nodes, and messages go where they are addressed, at
\* most once and in order, also in the composition.
THEOREM BrokerSafeAmongClients ==
  ClientsSpec =>
    /\ [](DescriptorOwnership /\ RouteLockDiscipline /\ AddressedDelivery /\ DeliveredAtMostOnce)
    /\ PairsInOrder
BY ClientsBroker, DescriptorsOwned, LocksHeldAsTaken, Addressed, AtMostOnce, PairsKeepOrder, PTL

---------------------------------------------------------------------------
(* What the broker knows of its clients.                                   *)

Answered(c) == \E i \in 1 .. Len(wire[c]) : wire[c][i].msg.name = "MSG_LOGIN_ANSWER"

\* A TClientNode is not accepted before login() has read the answer, and one that is
\* not accepted has sent nothing but its login.
HonestOK ==
  /\ cnStatus \in [Conns -> NodeStatus] /\ appPc \in [Conns -> AppPcs]
  /\ \A c \in Conns :
       /\ appPc[c] \in {"connect", "login", "answer"} => cnStatus[c] # "NODE_ACCEPTED"
       /\ cnStatus[c] # "NODE_ACCEPTED" =>
            \A i \in 1 .. Len(inq[c]) :
              inq[c][i].name = "MSG_LOGIN" /\ inq[c][i].from = cnNodeId[c]

\* From checkLogin on the node has the client's id, and no client is answered, or
\* takes itself for accepted, before that.
AgreeOK ==
  revived = {} =>
    \A c \in Conns :
      /\ pc[c] = "answer" => m_nodeId[c] = cnNodeId[c]
      /\ Answered(c) \/ cnStatus[c] = "NODE_ACCEPTED" =>
           pc[c] \notin {"none", "login"} /\ m_nodeId[c] = cnNodeId[c]

AgreeInv == IdInv /\ HonestOK /\ AgreeOK

\* AgreeInv holds before the first connection.
LEMMA AgreeInit == ClientsInit => AgreeInv
<1> SUFFICES ASSUME ClientsInit PROVE AgreeInv
  OBVIOUS
<1>1. /\ pc = [c \in Conns |-> "none"] /\ wire = [c \in Conns |-> <<>>]
      /\ inq = [c \in Conns |-> <<>>] /\ appPc = [c \in Conns |-> "connect"]
      /\ cnStatus = [c \in Conns |-> "NODE_DISCONNECTED"] /\ IdInv
  BY IdInductive DEF ClientsInit, Init, SocketsInit
<1>2. QED
  BY <1>1 DEF AgreeInv, HonestOK, AgreeOK, Answered, NodeStatus, AppPcs

\* The broker puts nothing into the queues it reads from.
LEMMA QueueStep ==
  ASSUME TypeInv, AcceptThread \/ \E c \in Conns : NodeThread(c)
  PROVE  \A x \in Conns : \A i \in 1 .. Len(inq'[x]) :
           \E j \in 1 .. Len(inq[x]) : inq'[x][i] = inq[x][j]
<1>1. inq \in [Conns -> Seq(Messages)] /\ desc \in [Fds -> Conns \cup {NoConn}]
  BY DEF TypeInv, TypeOK, SocketsTypeOK
<1>2. CASE UNCHANGED inq
  BY <1>2
<1>3. ASSUME NEW f \in Fds, NEW k \in Nat, SysReadData(f, k),
             NEW x \in Conns, NEW i \in 1 .. Len(inq'[x])
      PROVE  \E j \in 1 .. Len(inq[x]) : inq'[x][i] = inq[x][j]
  <2>1. CASE x # desc[f]
    <3>1. inq'[x] = inq[x]
      BY <1>1, <1>3, <2>1 DEF SysReadData
    <3>2. QED BY <1>3, <3>1
  <2>2. CASE x = desc[f]
    <3> DEFINE q == inq[x]
    <3>1. /\ q \in Seq(Messages) /\ Len(q) \in Nat /\ k \in 1 .. Len(q)
          /\ inq'[x] = SubSeq(q, k + 1, Len(q))
      BY <1>1, <1>3, <2>2 DEF SysReadData
    <3>2. /\ Len(SubSeq(q, k + 1, Len(q))) = Len(q) - k
          /\ \A h \in 1 .. Len(q) - k : SubSeq(q, k + 1, Len(q))[h] = q[h + k]
      BY <3>1, SubSeqProperties
    <3>3. i \in 1 .. Len(q) - k /\ inq'[x][i] = q[i + k]
      BY <1>3, <3>1, <3>2
    <3>4. i + k \in 1 .. Len(q)
      BY <3>1, <3>3
    <3>5. QED BY <3>3, <3>4
  <2>3. QED BY <2>1, <2>2
<1>4. ASSUME NEW c \in Conns, LoginRead(c) \/ LoopRead(c)
      PROVE  UNCHANGED inq \/ \E f \in Fds, k \in Nat : SysReadData(f, k)
  <2>1. m_fdSocket[c] \in Fds /\ \A k \in 1 .. MaxSend : k \in Nat
    BY <1>4, SocketsAssumption DEF LoginRead, LoopRead, TypeInv, Struct
  <2>2. \/ UNCHANGED inq
        \/ \E k \in 1 .. MaxSend : SysReadData(m_fdSocket[c], k)
    BY <1>4 DEF LoginRead, LoopRead, SysReadEof, SysReadError
  <2>3. QED BY <2>1, <2>2
<1>5. QED
  BY <1>2, <1>3, <1>4
     DEF AcceptThread, NodeThread, Accept, NodeStart, PushBack, SendLoginAnswer, CloseSocket,
         LoopExit, PopMessage, RouteLock, RouteVisit, RouteMiss, EnqueueMsg, WriteData, sockVars

\* How a step changes the id of a node and the place of its thread.
LEMMA NodeIdStep ==
  ASSUME TypeInv, OwnInv, Next, NEW c \in Conns
  PROVE  /\ m_nodeId'[c] = m_nodeId[c] \/ pc[c] = "login"
         /\ pc'[c] \in {"none", "login"} => pc[c] \in {"none", "login"}
         /\ pc'[c] = "answer" =>
              \/ pc[c] = "answer" /\ m_nodeId'[c] = m_nodeId[c]
              \/ /\ pc[c] = "login"
                 /\ \E k \in 1 .. MaxSend : SysReadData(m_fdSocket[c], k)
                 /\ m_nodeId'[c] = IF inq[desc[m_fdSocket[c]]][1].name = "MSG_LOGIN"
                                     THEN inq[desc[m_fdSocket[c]]][1].from ELSE m_nodeId[c]
<1>1. pc \in [Conns -> Pcs] /\ m_nodeId \in [Conns -> Nat] /\ backlog \in Seq(Conns)
  BY DEF TypeInv, TypeOK, SocketsTypeOK
<1>2. CASE UNCHANGED <<pc, m_nodeId>>
  BY <1>2
<1>3. ASSUME NEW d \in Conns, Accept(d)
      PROVE  UNCHANGED m_nodeId /\ Goto(d, "login") /\ pc[d] = "none"
  <2>1. /\ UNCHANGED m_nodeId /\ Goto(d, "login")
        /\ backlog # <<>> /\ d = Head(backlog)
    BY <1>3 DEF Accept, SysAccept
  <2>2. 1 \in 1 .. Len(backlog) /\ d = backlog[1]
    BY <1>1, <2>1
  <2>3. QED BY <2>1, <2>2 DEF OwnInv, BacklogOK
<1>4. ASSUME NEW d \in Conns, LoginRead(d)
      PROVE  /\ pc[d] = "login"
             /\ \/ UNCHANGED m_nodeId /\ (UNCHANGED pc \/ Goto(d, "login_close"))
                \/ /\ Goto(d, "answer")
                   /\ \E k \in 1 .. MaxSend : SysReadData(m_fdSocket[d], k)
                   /\ m_nodeId' = IF inq[desc[m_fdSocket[d]]][1].name = "MSG_LOGIN"
                        THEN [m_nodeId EXCEPT ![d] = inq[desc[m_fdSocket[d]]][1].from]
                        ELSE m_nodeId
  BY <1>4 DEF LoginRead, CheckLogin, Disconnect
<1>5. ASSUME NEW d \in Conns,
             \/ SendLoginAnswer(d) \/ CloseSocket(d) \/ LoopExit(d) \/ LoopRead(d)
             \/ PopMessage(d) \/ RouteLock(d) \/ RouteVisit(d) \/ RouteMiss(d) \/ EnqueueMsg(d)
             \/ WriteData(d)
      PROVE  /\ UNCHANGED m_nodeId /\ pc[d] \notin {"none", "login"}
             /\ UNCHANGED pc \/ \E l \in Pcs \ {"none", "login", "answer"} : Goto(d, l)
  BY <1>5
     DEF SendLoginAnswer, CloseSocket, LoopExit, LoopRead, PopMessage, RouteLock, RouteVisit,
         RouteMiss, EnqueueMsg, WriteData, RouteDone, Disconnect, nodeVars, Pcs
<1>6. CASE \E d \in Conns : Accept(d)
  BY <1>1, <1>3, <1>6 DEF Goto
<1>7. ASSUME NEW d \in Conns, LoginRead(d)
      PROVE  /\ m_nodeId'[c] = m_nodeId[c] \/ pc[c] = "login"
             /\ pc'[c] \in {"none", "login"} => pc[c] \in {"none", "login"}
             /\ pc'[c] = "answer" =>
                  \/ pc[c] = "answer" /\ m_nodeId'[c] = m_nodeId[c]
                  \/ /\ pc[c] = "login"
                     /\ \E k \in 1 .. MaxSend : SysReadData(m_fdSocket[c], k)
                     /\ m_nodeId'[c] = IF inq[desc[m_fdSocket[c]]][1].name = "MSG_LOGIN"
                                         THEN inq[desc[m_fdSocket[c]]][1].from ELSE m_nodeId[c]
  <2>1. CASE d # c
    <3>1. m_nodeId'[c] = m_nodeId[c] /\ pc'[c] = pc[c]
      BY <1>1, <1>4, <1>7, <2>1 DEF Goto
    <3>2. QED BY <3>1
  <2>2. CASE d = c
    <3>1. CASE UNCHANGED m_nodeId /\ (UNCHANGED pc \/ Goto(d, "login_close"))
      BY <1>1, <1>4, <1>7, <2>2, <3>1 DEF Goto
    <3>2. QED BY <1>1, <1>4, <1>7, <2>2, <3>1 DEF Goto
  <2>3. QED BY <2>1, <2>2
<1>8. ASSUME NEW d \in Conns, UNCHANGED m_nodeId, pc[d] \notin {"none", "login"},
             UNCHANGED pc \/ \E l \in Pcs \ {"none", "login", "answer"} : Goto(d, l)
      PROVE  /\ m_nodeId'[c] = m_nodeId[c]
             /\ pc'[c] \in {"none", "login"} => pc[c] \in {"none", "login"}
             /\ pc'[c] = "answer" => pc[c] = "answer"
  BY <1>1, <1>8 DEF Goto
<1>9. QED
  BY <1>2, <1>5, <1>6, <1>7, <1>8
     DEF Next, AcceptThread, NodeThread, NodeStart, PushBack, Client, serverVars, nodeVars

\* How a step of a TClientNode changes what the clients know and have sent.
LEMMA ClientNodeStep ==
  ASSUME TypeInv, HonestOK, NEW c \in Conns, ClientThread(c) \/ SendMessage(c) \/ Exit(c)
  PROVE  /\ cnStatus' \in [Conns -> NodeStatus] /\ appPc' \in [Conns -> AppPcs]
         /\ UNCHANGED <<cnNodeId, wire, nm, pc>>
         /\ \A x \in Conns : x # c => /\ cnStatus'[x] = cnStatus[x] /\ inq'[x] = inq[x]
                                      /\ appPc'[x] = appPc[x]
         /\ appPc'[c] \in {"connect", "login", "answer"} => cnStatus'[c] # "NODE_ACCEPTED"
         /\ cnStatus[c] = "NODE_ACCEPTED" => cnStatus'[c] = "NODE_ACCEPTED"
         /\ cnStatus'[c] = "NODE_ACCEPTED" => cnStatus[c] = "NODE_ACCEPTED" \/ Answered(c)
         /\ cnStatus'[c] # "NODE_ACCEPTED" =>
              \A i \in 1 .. Len(inq'[c]) :
                inq'[c][i].name = "MSG_LOGIN" /\ inq'[c][i].from = cnNodeId[c]
<1>1. /\ inq \in [Conns -> Seq(Messages)] /\ wire \in [Conns -> Seq(Deliveries)]
      /\ nread \in [Conns -> Nat] /\ cnStatus \in [Conns -> NodeStatus]
      /\ appPc \in [Conns -> AppPcs]
  BY DEF TypeInv, TypeOK, SocketsTypeOK, HonestOK
<1>2. UNCHANGED <<cnNodeId, wire, nm, pc>>
  BY DEF ClientThread, Connect, LoginWrite, LoginReadAnswer, SendMessage, ReadMessage, Exit,
         ClientConnect, ClientWrite, ClientTake, ClientRead, ClientClose, clientVars, serverVars,
         routeVars
<1>3. /\ cnStatus[c] # "NODE_ACCEPTED" =>
           \A i \in 1 .. Len(inq[c]) :
             inq[c][i].name = "MSG_LOGIN" /\ inq[c][i].from = cnNodeId[c]
      /\ appPc[c] \in {"connect", "login", "answer"} => cnStatus[c] # "NODE_ACCEPTED"
  BY DEF HonestOK
<1>4. CASE Connect(c)
  <2>1. /\ UNCHANGED inq /\ cnStatus[c] # "NODE_ACCEPTED"
        /\ cnStatus' = [cnStatus EXCEPT ![c] = "NODE_CONNECTED"]
        /\ appPc' = [appPc EXCEPT ![c] = "login"]
    BY <1>4 DEF Connect, ClientConnect, HonestOK, AppGoto
  <2>2. QED BY <1>1, <1>2, <1>3, <2>1 DEF NodeStatus, AppPcs
<1>5. CASE LoginWrite(c)
  <2> DEFINE m == LoginMessage(c, sent[c] + 1, cnNodeId[c])
  <2>1. /\ inq' = [inq EXCEPT ![c] = Append(@, m)] /\ UNCHANGED cnStatus /\ appPc[c] = "login"
        /\ appPc' = [appPc EXCEPT ![c] = "answer"]
    BY <1>5 DEF LoginWrite, ClientWrite, AppGoto
  <2>2. m.name = "MSG_LOGIN" /\ m.from = cnNodeId[c]
    BY DEF LoginMessage
  <2> HIDE DEF m
  <2>3. /\ \A x \in Conns : x # c => inq'[x] = inq[x]
        /\ inq'[c] = Append(inq[c], m) /\ inq[c] \in Seq(Messages)
    BY <1>1, <2>1
  <2>4. \A i \in 1 .. Len(inq'[c]) : inq'[c][i] = m \/ \E j \in 1 .. Len(inq[c]) :
                                                          inq'[c][i] = inq[c][j]
    BY <2>3
  <2>5. cnStatus[c] # "NODE_ACCEPTED" =>
          \A i \in 1 .. Len(inq'[c]) :
            inq'[c][i].name = "MSG_LOGIN" /\ inq'[c][i].from = cnNodeId[c]
    BY <1>3, <2>2, <2>4
  <2>6. QED BY <1>1, <1>2, <1>3, <2>1, <2>3, <2>5 DEF AppPcs
<1>6. CASE LoginReadAnswer(c)
  <2>1. UNCHANGED inq
    BY <1>6 DEF LoginReadAnswer, ClientTake, ClientClose
  <2>2. \/ UNCHANGED <<cnStatus, appPc>>
        \/ appPc' = [appPc EXCEPT ![c] = "run"] /\ UNCHANGED cnStatus
        \/ /\ appPc' = [appPc EXCEPT ![c] = "run"]
           /\ cnStatus' = [cnStatus EXCEPT ![c] = "NODE_ACCEPTED"]
           /\ wire[c][nread[c] + 1].msg.name = "MSG_LOGIN_ANSWER" /\ \E k : k \in 1 .. Unread(c)
    BY <1>6 DEF LoginReadAnswer, Answer, AppGoto
  <2>3. ASSUME NEW k \in 1 .. Unread(c)
        PROVE  nread[c] + 1 \in 1 .. Len(wire[c])
    <3>1. nread[c] \in Nat /\ Len(wire[c]) \in Nat
      BY <1>1
    <3>2. QED BY <2>3, <3>1 DEF Unread
  <2>4. /\ wire[c][nread[c] + 1].msg.name = "MSG_LOGIN_ANSWER"
        /\ \E k : k \in 1 .. Unread(c)
        => Answered(c)
    BY <2>3 DEF Answered
  <2>5. QED BY <1>1, <1>2, <1>3, <2>1, <2>2, <2>4 DEF NodeStatus, AppPcs
<1>7. CASE SendMessage(c)
  <2>1. /\ \E m : inq' = [inq EXCEPT ![c] = Append(@, m)]
        /\ UNCHANGED <<cnStatus, appPc>> /\ cnStatus[c] = "NODE_ACCEPTED"
    BY <1>7 DEF SendMessage, ClientWrite, clientVars
  <2>2. QED BY <1>1, <1>2, <1>3, <2>1
<1>8. CASE ReadMessage(c)
  <2>1. UNCHANGED <<inq, cnStatus, appPc>>
    BY <1>8 DEF ReadMessage, ClientRead, ClientTake, ClientClose, clientVars
  <2>2. QED BY <1>1, <1>2, <1>3, <2>1
<1>9. CASE Exit(c)
  <2>1. UNCHANGED <<inq, cnStatus>> /\ appPc' = [appPc EXCEPT ![c] = "end"]
    BY <1>9 DEF Exit, ClientClose, AppGoto
  <2>2. QED BY <1>1, <1>2, <1>3, <2>1 DEF AppPcs
<1>10. QED BY <1>4, <1>5, <1>6, <1>7, <1>8, <1>9 DEF ClientThread

\* HonestOK is inductive, and an accepted TClientNode stays accepted.
LEMMA HonestNext ==
  ASSUME TypeInv, HonestOK, ClientsNext
  PROVE  /\ HonestOK' /\ UNCHANGED cnNodeId
         /\ \A c \in Conns : cnStatus[c] = "NODE_ACCEPTED" => cnStatus'[c] = "NODE_ACCEPTED"
<1>1. CASE (AcceptThread \/ \E c \in Conns : NodeThread(c)) /\ UNCHANGED clientVars
  <2>1. UNCHANGED <<appPc, cnStatus, cnNodeId>>
    BY <1>1 DEF clientVars
  <2>2. \A x \in Conns : \A i \in 1 .. Len(inq'[x]) :
          \E j \in 1 .. Len(inq[x]) : inq'[x][i] = inq[x][j]
    BY <1>1, QueueStep
  <2>3. QED BY <2>1, <2>2 DEF HonestOK
<1>2. ASSUME NEW c \in Conns, ClientThread(c) \/ SendMessage(c) \/ Exit(c)
      PROVE  /\ HonestOK' /\ UNCHANGED cnNodeId
             /\ \A x \in Conns : cnStatus[x] = "NODE_ACCEPTED" => cnStatus'[x] = "NODE_ACCEPTED"
  <2>1. UNCHANGED cnNodeId
    BY <1>2, ClientNodeStep
  <2>2. HonestOK'
    BY <1>2, ClientNodeStep DEF HonestOK
  <2>3. \A x \in Conns : cnStatus[x] = "NODE_ACCEPTED" => cnStatus'[x] = "NODE_ACCEPTED"
    BY <1>2, ClientNodeStep
  <2>4. QED BY <2>1, <2>2, <2>3
<1>3. QED BY <1>1, <1>2 DEF ClientsNext

\* The two sides of a login agree after a step as before it.
LEMMA AgreeNext ==
  ASSUME TypeInv, OwnInv, OnceInv, IdInv, HonestOK, AgreeOK, ClientsNext
  PROVE  AgreeOK'
<1>1. Next /\ UNCHANGED cnNodeId
  BY BrokerStep, HonestNext
<1>2. revived' = {} => revived = {}
  BY <1>1 DEF Next, AcceptThread, NodeThread, Client, Accept, NodeStart, PushBack, LoginRead,
              SendLoginAnswer, CloseSocket, LoopExit, LoopRead, PopMessage, RouteLock, RouteVisit,
              RouteMiss, EnqueueMsg, WriteData, serverVars, acceptVars
<1> SUFFICES ASSUME revived = {}, NEW c \in Conns
             PROVE  /\ pc'[c] = "answer" => m_nodeId'[c] = cnNodeId[c]
                    /\ Answered(c)' \/ cnStatus'[c] = "NODE_ACCEPTED" =>
                         pc'[c] \notin {"none", "login"} /\ m_nodeId'[c] = cnNodeId[c]
  BY <1>1, <1>2 DEF AgreeOK
<1>3. \A d \in Conns :
        pc[d] \in {"login", "answer"} => m_fdSocket[d] \in Fds /\ desc[m_fdSocket[d]] = d
  <2> SUFFICES ASSUME NEW d \in Conns, pc[d] \in {"login", "answer"}
               PROVE  m_fdSocket[d] \in Fds /\ desc[m_fdSocket[d]] = d
    OBVIOUS
  <2>1. HoldsSocket(d)
    BY DEF OwnInv, NodesOK, NodeOK, HoldsSocket
  <2>2. m_fdSocket[d] \in Fds
    BY DEF TypeInv, Struct
  <2>3. QED BY <2>1, <2>2 DEF OwnInv, DescriptorOwnership
<1>4. ASSUME pc'[c] = "answer" PROVE m_nodeId'[c] = cnNodeId[c]
  <2>1. CASE pc[c] = "answer" /\ m_nodeId'[c] = m_nodeId[c]
    BY <2>1 DEF AgreeOK
  <2>2. CASE /\ pc[c] = "login" /\ \E k \in 1 .. MaxSend : SysReadData(m_fdSocket[c], k)
             /\ m_nodeId'[c] = IF inq[desc[m_fdSocket[c]]][1].name = "MSG_LOGIN"
                                 THEN inq[desc[m_fdSocket[c]]][1].from ELSE m_nodeId[c]
    <3>1. desc[m_fdSocket[c]] = c /\ cnStatus[c] # "NODE_ACCEPTED"
      BY <1>3, <2>2 DEF AgreeOK
    <3>2. 1 \in 1 .. Len(inq[c])
      <4>1. inq[c] \in Seq(Messages)
        BY DEF TypeInv, TypeOK, SocketsTypeOK
      <4>2. PICK k : k \in 1 .. Len(inq[c])
        BY <2>2, <3>1 DEF SysReadData
      <4>3. QED BY <4>1, <4>2
    <3>3. inq[c][1].name = "MSG_LOGIN" /\ inq[c][1].from = cnNodeId[c]
      BY <3>1, <3>2 DEF HonestOK
    <3>4. QED BY <2>2, <3>1, <3>3
  <2>3. QED BY <1>1, <1>4, <2>1, <2>2, NodeIdStep
<1>5. ASSUME pc[c] \notin {"none", "login"}, m_nodeId[c] = cnNodeId[c]
      PROVE  pc'[c] \notin {"none", "login"} /\ m_nodeId'[c] = cnNodeId[c]
  BY <1>1, <1>5, NodeIdStep
<1>6. CASE Answered(c) \/ cnStatus[c] = "NODE_ACCEPTED" \/ pc[c] = "answer"
  BY <1>4, <1>5, <1>6 DEF AgreeOK
<1>7. CASE ~Answered(c) /\ cnStatus[c] # "NODE_ACCEPTED" /\ pc[c] # "answer"
  <2>1. cnStatus'[c] # "NODE_ACCEPTED"
    BY <1>7, ClientNodeStep DEF ClientsNext, clientVars
  <2>2. ~Answered(c)'
    <3>1. CASE UNCHANGED wire
      BY <1>7, <3>1 DEF Answered
    <3>2. ASSUME NEW y \in Conns, NEW o \in Deliveries,
                 wire' = [wire EXCEPT ![y] = Append(@, o)],
                 ~Routed(o) => \E d \in Conns : pc[d] = "answer" /\ y = desc[m_fdSocket[d]]
          PROVE  ~Answered(c)'
      <4>1. \A i \in 1 .. Len(wire'[c]) :
              \/ i \in 1 .. Len(wire[c]) /\ wire'[c][i] = wire[c][i]
              \/ c = y /\ wire'[c][i] = o
        BY <3>2, WireAppend DEF TypeInv, TypeOK
      <4>2. c = y => Routed(o)
        BY <1>3, <1>7, <3>2
      <4>3. QED BY <1>7, <4>1, <4>2 DEF Answered, Routed
    <3>3. QED BY <1>1, <3>1, <3>2, WrittenStep
  <2>3. QED BY <1>4, <2>1, <2>2
<1>8. QED BY <1>4, <1>6, <1>7

\* AgreeInv is inductive relative to what is proved of the broker.
LEMMA AgreeInvNext ==
  TypeInv /\ OwnInv /\ OnceInv /\ AgreeInv /\ [ClientsNext]_allVars => AgreeInv'
<1> SUFFICES ASSUME TypeInv, OwnInv, OnceInv, AgreeInv, [ClientsNext]_allVars PROVE AgreeInv'
  OBVIOUS
<1>1. CASE UNCHANGED allVars
  BY <1>1 DEF AgreeInv, IdInv, HonestOK, AgreeOK, Answered, allVars, clientVars, vars,
              sockVars, serverVars, acceptVars, nodeVars, routeVars
<1>2. CASE ClientsNext
  BY <1>2, IdInductive, HonestNext, AgreeNext DEF AgreeInv
<1>3. QED BY <1>1, <1>2

\* What holds in every state of the composition.
LEMMA ClientsInvariant == ClientsSpec => [](TypeInv /\ OwnInv /\ OnceInv /\ AgreeInv)
<1>1. ClientsInit => Init
  BY DEF ClientsInit
<1>2. IdInv /\ [ClientsNext]_allVars => [Next]_vars
  BY BrokerStep DEF allVars
<1>3. QED
  BY <1>1, <1>2, IdInductive, TypeInit, TypeNext, OwnInit, OwnNext, OnceInit, OnceNext, AgreeInit,
     AgreeInvNext, PTL DEF ClientsSpec

\* Whoever takes itself for logged in is known to the broker under its own id, for
\* any number of clients and any order of their steps.
THEOREM LoginsAgree == ClientsSpec => []LoginAgreement
<1>1. AgreeInv => LoginAgreement
  BY DEF AgreeInv, AgreeOK, LoginAgreement
<1>2. QED BY <1>1, ClientsInvariant, PTL

=============================================================================
