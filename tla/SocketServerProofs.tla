------------------------- MODULE SocketServerProofs -------------------------
(***************************************************************************)
(* Proofs about SocketServer, for every number of clients, descriptors,    *)
(* node ids and messages.                                                  *)
(***************************************************************************)
EXTENDS SocketServer, SequenceTheorems, TLAPS

Walking == {"find", "enqueue", "write"}
Inside == {"enqueue", "write"}

\* What the threads' program counters say about the values they index with.
Struct ==
  /\ acceptPc # "accept" => accepted \in Conns /\ pc[accepted] # "none"
  /\ \A c \in Conns : pc[c] # "none" => m_fdSocket[c] \in Fds
  /\ \A i \in 1 .. Len(m_lstNodes) : pc[m_lstNodes[i]] # "none"
  /\ \A c \in Conns : pc[c] \in Walking => it[c] >= 1
  /\ \A c \in Conns : pc[c] \in Inside => it[c] <= Len(m_lstNodes)

\* What the unlocked empty() test has seen is still so when the queue is locked.
PopOK == \A c \in Conns : pc[c] = "pop_lock" => m_lstMessages[c] > 0

TypeInv == TypeOK /\ Struct /\ PopOK

---------------------------------------------------------------------------
(* The system calls.                                                       *)

\* The frames clients and nodes build are messages.
LEMMA MessageTypes ==
  /\ \A c \in Conns, k \in Nat, id \in Nat :
       /\ LoginMessage(c, k, id) \in Messages
       /\ TestMessage(c, k, id) \in Messages
       /\ LoginAnswer(c, id) \in Messages
  /\ NoMessage \in Messages
BY SocketsAssumption DEF LoginMessage, TestMessage, LoginAnswer, NoMessage, Messages, Names

\* A read leaves well-typed queues, and the frame it starts with is a message.
LEMMA ReadTypes ==
  ASSUME SocketsTypeOK, NEW f \in Fds, NEW k \in Nat,
         SysReadEof(f) \/ SysReadError(f) \/ SysReadData(f, k)
  PROVE  /\ inq' \in [Conns -> Seq(Messages)]
         /\ err' \in [Conns -> BOOLEAN]
         /\ SysReadData(f, k) => inq[desc[f]][1] \in Messages
<1>1. CASE SysReadEof(f)
  BY <1>1 DEF SocketsTypeOK, SysReadEof, SysReadData
<1>2. CASE SysReadError(f)
  BY <1>2 DEF SocketsTypeOK, SysReadError, SysReadData
<1>3. CASE SysReadData(f, k)
  <2> DEFINE q == inq[desc[f]]
  <2>1. desc[f] \in Conns /\ q \in Seq(Messages)
    BY <1>3 DEF SocketsTypeOK, SysReadData
  <2>2. k \in 1 .. Len(q) /\ Len(q) \in Nat
    BY <1>3, <2>1 DEF SysReadData
  <2>3. \A i \in 1 .. Len(q) : q[i] \in Messages
    BY <2>1
  <2>4. \A i \in k + 1 .. Len(q) : q[i] \in Messages
    BY <2>2, <2>3
  <2>5. SubSeq(q, k + 1, Len(q)) \in Seq(Messages)
    BY <2>2, <2>4, SubSeqProperties, SMTT(20)
  <2>6. QED
    BY <1>3, <2>1, <2>2, <2>3, <2>5 DEF SocketsTypeOK, SysReadData
<1>4. QED
  BY <1>1, <1>2, <1>3

\* A write leaves well-typed connections.
LEMMA WriteTypes ==
  ASSUME SocketsTypeOK, NEW f \in Fds, NEW d \in Deliveries,
         SysWriteOk(f, d) \/ SysWriteLost(f) \/ SysWriteError(f)
  PROVE  /\ peer' \in [Conns -> PeerStates]
         /\ err' \in [Conns -> BOOLEAN]
         /\ wire' \in [Conns -> Seq(Deliveries)]
<1>1. CASE SysWriteOk(f, d)
  BY <1>1 DEF SocketsTypeOK, SysWriteOk
<1>2. CASE SysWriteLost(f)
  BY <1>2 DEF SocketsTypeOK, SysWriteLost, PeerStates
<1>3. CASE SysWriteError(f)
  BY <1>3 DEF SocketsTypeOK, SysWriteError
<1>4. QED
  BY <1>1, <1>2, <1>3

---------------------------------------------------------------------------
(* Type correctness.                                                       *)

\* TypeInv holds before the first connection.
LEMMA TypeInit == Init => TypeInv
BY SocketsAssumption, MessageTypes
   DEF Init, SocketsInit, TypeInv, TypeOK, SocketsTypeOK, Struct, PopOK, PeerStates,
       NodeStatus, ThreadStatus, Pcs, Walking, Inside, NoFd

\* The accept thread keeps TypeInv.
LEMMA TypeAccept ==
  ASSUME TypeInv, AcceptThread
  PROVE  TypeOK' /\ Struct'
<1> USE DEF TypeInv
<1>1. ASSUME NEW c \in Conns, Accept(c)
      PROVE  TypeOK' /\ Struct'
  <2>1. PICK f \in Fds : SysAccept(c, f) /\ m_fdSocket' = [m_fdSocket EXCEPT ![c] = f]
    BY <1>1 DEF Accept
  <2>2. backlog' \in Seq(Conns) /\ desc' \in [Fds -> Conns \cup {NoConn}]
    BY <2>1, HeadTailProperties DEF SysAccept, TypeOK, SocketsTypeOK
  <2>3. TypeOK'
    BY <1>1, <2>1, <2>2
       DEF Accept, Goto, TypeOK, SocketsTypeOK, Pcs, routeVars
  <2>4. Struct'
    <3>1. /\ pc' = [pc EXCEPT ![c] = "login"] /\ pc \in [Conns -> Pcs]
          /\ m_fdSocket \in [Conns -> Fds \cup {NoFd}]
          /\ accepted' = c /\ UNCHANGED <<m_lstNodes, it>> /\ m_lstNodes \in Seq(Conns)
      BY <1>1 DEF Accept, Goto, TypeOK, routeVars
    <3>2. \A x \in Conns : pc'[x] # "none" => m_fdSocket'[x] \in Fds
      BY <2>1, <3>1 DEF Struct
    <3>3. \A i \in 1 .. Len(m_lstNodes) : pc'[m_lstNodes[i]] # "none"
      BY <3>1 DEF Struct
    <3>4. \A x \in Conns : pc'[x] \in Walking \cup Inside => pc'[x] = pc[x]
      BY <3>1 DEF Walking, Inside
    <3>5. QED
      BY <3>1, <3>2, <3>3, <3>4 DEF Struct
  <2>5. QED BY <2>3, <2>4
<1>2. CASE NodeStart
  <2>1. TypeOK'
    BY <1>2 DEF NodeStart, TypeOK, SocketsTypeOK, Struct, ThreadStatus, sockVars, routeVars
  <2>2. Struct'
    BY <1>2 DEF NodeStart, Struct, routeVars
  <2>3. QED BY <2>1, <2>2
<1>3. CASE PushBack
  <2>1. m_lstNodes' \in Seq(Conns) /\ Len(m_lstNodes') = Len(m_lstNodes) + 1
        /\ (\A i \in 1 .. Len(m_lstNodes') :
              m_lstNodes'[i] = IF i = Len(m_lstNodes') THEN accepted ELSE m_lstNodes[i])
        /\ Len(m_lstNodes) \in Nat
    BY <1>3 DEF PushBack, TypeOK, Struct
  <2>2. TypeOK'
    BY <1>3, <2>1 DEF PushBack, TypeOK, SocketsTypeOK, sockVars, nodeVars, routeVars
  <2>3. Struct'
    BY <1>3, <2>1 DEF PushBack, TypeOK, Struct, nodeVars, routeVars
  <2>4. QED BY <2>2, <2>3
<1>4. QED
  BY <1>1, <1>2, <1>3 DEF AcceptThread

\* A step of node c that keeps the accept thread's state and m_fdSocket preserves
\* TypeInv if what it does change is well typed.
LEMMA NodeFrame ==
  ASSUME TypeInv, NEW c \in Conns,
         UNCHANGED <<acceptVars, m_fdSocket>>,
         SocketsTypeOK',
         m_nodeId' \in [Conns -> Nat],
         m_nodeStatus' \in [Conns -> NodeStatus],
         m_threadStatus' \in [Conns -> ThreadStatus],
         m_lstMessages' \in [Conns -> Nat],
         m_mutexQueueMessages' \in [Conns -> Conns \cup {NoConn}],
         m_mutexRoute' \in Conns \cup {NoConn},
         nm' \in [Conns -> Messages],
         gwSent' \in Seq(Messages),
         up' \in BOOLEAN,
         pc[c] # "none",
         pc'[c] \in Pcs \ {"none"},
         it'[c] \in Nat,
         pc' = [pc EXCEPT ![c] = pc'[c]],
         it' = [it EXCEPT ![c] = it'[c]],
         pc'[c] \in Walking => it'[c] >= 1,
         pc'[c] \in Inside => it'[c] <= Len(m_lstNodes)
  PROVE  TypeOK' /\ Struct'
<1>1. TypeOK'
  BY DEF TypeInv, TypeOK, acceptVars
<1>2. Struct'
  <2>1. /\ pc \in [Conns -> Pcs] /\ it \in [Conns -> Nat] /\ m_lstNodes \in Seq(Conns)
        /\ UNCHANGED <<acceptPc, accepted, m_lstNodes, m_fdSocket>>
    BY DEF TypeInv, TypeOK, acceptVars
  <2>2. \A x \in Conns : x # c => pc'[x] = pc[x] /\ it'[x] = it[x]
    BY <2>1
  <2>3. \A x \in Conns : pc[x] # "none" <=> pc'[x] # "none"
    BY <2>2
  <2>4. \A i \in 1 .. Len(m_lstNodes) : m_lstNodes[i] \in Conns
    BY <2>1
  <2>5. QED
    BY <2>1, <2>2, <2>3, <2>4 DEF TypeInv, Struct
<1>3. QED BY <1>1, <1>2 DEF TypeInv

\* The same for a step inside routeMessage or of the queue, which leaves the
\* sockets and the node's own fields alone.
LEMMA RouteFrame ==
  ASSUME TypeInv, NEW c \in Conns,
         UNCHANGED <<sockVars, acceptVars, nodeVars, up>>,
         m_lstMessages' \in [Conns -> Nat],
         m_mutexQueueMessages' \in [Conns -> Conns \cup {NoConn}],
         m_mutexRoute' \in Conns \cup {NoConn},
         nm' \in [Conns -> Messages],
         gwSent' \in Seq(Messages),
         pc[c] # "none",
         pc'[c] \in Pcs \ {"none"},
         it'[c] \in Nat,
         pc' = [pc EXCEPT ![c] = pc'[c]],
         it' = [it EXCEPT ![c] = it'[c]],
         pc'[c] \in Walking => it'[c] >= 1,
         pc'[c] \in Inside => it'[c] <= Len(m_lstNodes)
  PROVE  TypeOK' /\ Struct'
<1>1. SocketsTypeOK'
  BY DEF TypeInv, TypeOK, SocketsTypeOK, sockVars
<1>2. /\ UNCHANGED <<acceptVars, m_fdSocket>>
      /\ m_nodeId' \in [Conns -> Nat]
      /\ m_nodeStatus' \in [Conns -> NodeStatus]
      /\ m_threadStatus' \in [Conns -> ThreadStatus]
      /\ up' \in BOOLEAN
  BY DEF TypeInv, TypeOK, nodeVars
<1>3. QED
  BY <1>1, <1>2, NodeFrame

\* Jumping from l to k in node c's thread.
LEMMA GotoFacts ==
  ASSUME TypeInv, NEW c \in Conns, NEW l \in Pcs, Goto(c, l)
  PROVE  pc'[c] = l /\ pc' = [pc EXCEPT ![c] = pc'[c]]
BY DEF TypeInv, TypeOK, Goto

\* The login part of a node's thread keeps TypeInv.
LEMMA TypeLogin ==
  ASSUME TypeInv, NEW c \in Conns, LoginRead(c) \/ SendLoginAnswer(c) \/ CloseSocket(c)
  PROVE  TypeOK' /\ Struct'
<1> DEFINE f == m_fdSocket[c]
<1>1. /\ f \in Fds /\ pc[c] # "none" /\ SocketsTypeOK
      /\ it \in [Conns -> Nat] /\ pc \in [Conns -> Pcs]
  BY DEF TypeInv, TypeOK, Struct, LoginRead, SendLoginAnswer, CloseSocket
<1>2. UNCHANGED it => it'[c] \in Nat /\ it' = [it EXCEPT ![c] = it'[c]]
  BY <1>1
<1>3. CASE LoginRead(c)
  <2>1. /\ UNCHANGED <<peer, backlog, sent, budget, wire, nread, desc>>
        /\ UNCHANGED <<acceptVars, m_fdSocket>> /\ UNCHANGED <<routeVars, up>>
    BY <1>3 DEF LoginRead
  <2>2. CASE (SysReadEof(f) \/ SysReadError(f)) /\ Disconnect(c, "login_close")
             /\ UNCHANGED m_nodeId
    <3>1. inq' \in [Conns -> Seq(Messages)] /\ err' \in [Conns -> BOOLEAN]
      BY <1>1, <2>2, ReadTypes, 0 \in Nat
    <3>2. SocketsTypeOK'
      BY <1>1, <2>1, <3>1 DEF SocketsTypeOK
    <3>3. pc'[c] = "login_close" /\ pc' = [pc EXCEPT ![c] = pc'[c]]
      BY <2>2, GotoFacts DEF Disconnect, Pcs
    <3>4. /\ m_nodeId' \in [Conns -> Nat]
          /\ m_nodeStatus' \in [Conns -> NodeStatus]
          /\ m_threadStatus' \in [Conns -> ThreadStatus]
      BY <2>2 DEF Disconnect, TypeInv, TypeOK, NodeStatus, ThreadStatus
    <3>5. QED
      BY <1>1, <1>2, <2>1, <3>2, <3>3, <3>4, NodeFrame
         DEF TypeInv, TypeOK, routeVars, Pcs, Walking, Inside
  <2>3. ASSUME NEW k \in 1 .. MaxSend, SysReadData(f, k),
               CheckLogin(c, inq[desc[f]][1]) \/ UNCHANGED <<m_nodeId, m_nodeStatus, pc>>,
               UNCHANGED m_threadStatus
        PROVE  TypeOK' /\ Struct'
    <3> DEFINE m == inq[desc[f]][1]
    <3>1. k \in Nat
      BY <2>3, SocketsAssumption
    <3>2. /\ inq' \in [Conns -> Seq(Messages)] /\ err' \in [Conns -> BOOLEAN]
          /\ m \in Messages
      BY <1>1, <2>3, <3>1, ReadTypes
    <3>3. SocketsTypeOK'
      BY <1>1, <2>1, <3>2 DEF SocketsTypeOK
    <3>4. m.from \in Nat
      BY <3>2 DEF Messages
    <3>5. /\ m_nodeId' \in [Conns -> Nat]
          /\ m_nodeStatus' \in [Conns -> NodeStatus]
      BY <2>3, <3>4 DEF CheckLogin, TypeInv, TypeOK, NodeStatus
    <3>6. pc'[c] \in {"login", "answer"} /\ pc' = [pc EXCEPT ![c] = pc'[c]]
      <4>1. CASE CheckLogin(c, m)
        BY <4>1, GotoFacts DEF CheckLogin, Pcs
      <4>2. CASE UNCHANGED pc
        BY <1>1, <1>3, <4>2 DEF LoginRead
      <4>3. QED BY <2>3, <4>1, <4>2
    <3>7. QED
      BY <1>1, <1>2, <2>1, <2>3, <3>3, <3>5, <3>6, NodeFrame
         DEF TypeInv, TypeOK, routeVars, Pcs, Walking, Inside
  <2>4. QED
    BY <1>3, <2>2, <2>3 DEF LoginRead
<1>4. CASE SendLoginAnswer(c)
  <2> DEFINE d == [msg |-> LoginAnswer(c, m_nodeId[c]), via |-> c]
  <2>1. d \in Deliveries
    BY MessageTypes DEF TypeInv, TypeOK, Deliveries
  <2>2. /\ SysWriteOk(f, d) \/ SysWriteLost(f) \/ SysWriteError(f)
             \/ UNCHANGED <<peer, wire, err>>
        /\ UNCHANGED pc \/ Goto(c, "loop")
        /\ up' \in BOOLEAN
        /\ UNCHANGED <<backlog, inq, sent, budget, nread, desc>>
        /\ UNCHANGED <<acceptVars, nodeVars, routeVars>>
    BY <1>4 DEF SendLoginAnswer, TypeInv, TypeOK
  <2>3. /\ peer' \in [Conns -> PeerStates] /\ err' \in [Conns -> BOOLEAN]
        /\ wire' \in [Conns -> Seq(Deliveries)]
    <3>1. CASE UNCHANGED <<peer, wire, err>>
      BY <1>1, <3>1 DEF SocketsTypeOK
    <3>2. QED
      BY <1>1, <2>1, <2>2, <3>1, WriteTypes
  <2>4. SocketsTypeOK'
    BY <1>1, <2>2, <2>3 DEF SocketsTypeOK
  <2>5. pc'[c] \in {"answer", "loop"} /\ pc' = [pc EXCEPT ![c] = pc'[c]]
    <3>1. CASE UNCHANGED pc
      BY <1>1, <1>4, <3>1 DEF SendLoginAnswer
    <3>2. CASE Goto(c, "loop")
      BY <3>2, GotoFacts DEF Pcs
    <3>3. QED BY <2>2, <3>1, <3>2
  <2>6. QED
    BY <1>1, <1>2, <2>2, <2>4, <2>5, NodeFrame
       DEF TypeInv, TypeOK, nodeVars, routeVars, Pcs, Walking, Inside
<1>5. CASE CloseSocket(c)
  <2>1. /\ UNCHANGED <<peer, backlog, inq, sent, budget, err, wire, nread>>
        /\ UNCHANGED <<acceptVars, nodeVars, routeVars, up>>
        /\ desc' = [desc EXCEPT ![f] = NoConn]
        /\ Goto(c, "loop") \/ Goto(c, "done")
    BY <1>5 DEF CloseSocket, SysClose
  <2>2. SocketsTypeOK'
    BY <1>1, <2>1 DEF SocketsTypeOK
  <2>3. pc'[c] \in {"loop", "done"} /\ pc' = [pc EXCEPT ![c] = pc'[c]]
    BY <2>1, GotoFacts DEF Pcs
  <2>4. QED
    BY <1>1, <1>2, <2>1, <2>2, <2>3, NodeFrame
       DEF TypeInv, TypeOK, nodeVars, routeVars, Pcs, Walking, Inside
<1>6. QED
  BY <1>3, <1>4, <1>5

\* The message loop of a node's thread keeps TypeInv.
LEMMA TypeLoop ==
  ASSUME TypeInv, NEW c \in Conns, LoopExit(c) \/ LoopRead(c) \/ PopMessage(c)
  PROVE  TypeOK' /\ Struct'
<1> DEFINE f == m_fdSocket[c]
<1>1. /\ f \in Fds /\ pc[c] # "none" /\ SocketsTypeOK
      /\ it \in [Conns -> Nat] /\ pc \in [Conns -> Pcs]
  BY DEF TypeInv, TypeOK, Struct, LoopExit, LoopRead, PopMessage
<1>2. UNCHANGED it => it'[c] \in Nat /\ it' = [it EXCEPT ![c] = it'[c]]
  BY <1>1
<1>3. CASE LoopExit(c)
  <2>1. pc'[c] = "done" /\ pc' = [pc EXCEPT ![c] = pc'[c]]
    BY <1>3, GotoFacts DEF LoopExit, Pcs
  <2>2. QED
    BY <1>1, <1>2, <1>3, <2>1, RouteFrame
       DEF LoopExit, TypeInv, TypeOK, routeVars, Pcs, Walking, Inside
<1>4. CASE LoopRead(c)
  <2> DEFINE Typed ==
               /\ inq' \in [Conns -> Seq(Messages)] /\ err' \in [Conns -> BOOLEAN]
               /\ nm' \in [Conns -> Messages]
               /\ m_nodeStatus' \in [Conns -> NodeStatus]
               /\ m_threadStatus' \in [Conns -> ThreadStatus]
               /\ Goto(c, "loop_close") \/ Goto(c, "pop") \/ Goto(c, "route")
  <2>1. /\ UNCHANGED <<peer, backlog, sent, budget, wire, nread, desc>>
        /\ UNCHANGED <<acceptVars, m_fdSocket>>
        /\ UNCHANGED <<m_nodeId, m_lstMessages, m_mutexQueueMessages, m_mutexRoute, it,
                       gwSent, up>>
    BY <1>4 DEF LoopRead
  <2>2. /\ nm \in [Conns -> Messages]
        /\ m_nodeStatus \in [Conns -> NodeStatus]
        /\ m_threadStatus \in [Conns -> ThreadStatus]
    BY DEF TypeInv, TypeOK
  <2>3. ASSUME SysReadEof(f), Disconnect(c, "loop_close"), UNCHANGED nm
        PROVE  Typed
    <3>1. inq' \in [Conns -> Seq(Messages)] /\ err' \in [Conns -> BOOLEAN]
      BY <1>1, <2>3, ReadTypes, 0 \in Nat
    <3>2. QED
      BY <2>2, <2>3, <3>1 DEF Disconnect, NodeStatus, ThreadStatus
  <2>4. ASSUME SysReadError(f), Goto(c, "pop"),
               UNCHANGED <<nm, m_nodeStatus, m_threadStatus>>
        PROVE  Typed
    <3>1. inq' \in [Conns -> Seq(Messages)] /\ err' \in [Conns -> BOOLEAN]
      BY <1>1, <2>4, ReadTypes, 0 \in Nat
    <3>2. QED
      BY <2>2, <2>4, <3>1
  <2>5. ASSUME NEW k \in 1 .. MaxSend, SysReadData(f, k),
               \/ nm' = [nm EXCEPT ![c] = inq[desc[f]][1]] /\ Goto(c, "route")
               \/ Goto(c, "pop") /\ UNCHANGED nm,
               UNCHANGED <<m_nodeStatus, m_threadStatus>>
        PROVE  Typed
    <3>1. k \in Nat
      BY <2>5, SocketsAssumption
    <3>2. /\ inq' \in [Conns -> Seq(Messages)] /\ err' \in [Conns -> BOOLEAN]
          /\ inq[desc[f]][1] \in Messages
      BY <1>1, <2>5, <3>1, ReadTypes
    <3>3. QED
      BY <2>2, <2>5, <3>2
  <2>6. Typed
    BY <1>4, <2>3, <2>4, <2>5 DEF LoopRead
  <2>7. SocketsTypeOK'
    BY <1>1, <2>1, <2>6 DEF SocketsTypeOK
  <2>8. pc'[c] \in {"loop_close", "pop", "route"} /\ pc' = [pc EXCEPT ![c] = pc'[c]]
    BY <2>6, GotoFacts DEF Pcs
  <2>9. QED
    BY <1>1, <1>2, <2>1, <2>6, <2>7, <2>8, NodeFrame
       DEF TypeInv, TypeOK, Pcs, Walking, Inside
<1>5. CASE PopMessage(c)
  <2>1. /\ m_lstMessages \in [Conns -> Nat] /\ (pc[c] = "pop_lock" => m_lstMessages[c] > 0)
    BY DEF TypeInv, TypeOK, PopOK
  <2>2. m_lstMessages' \in [Conns -> Nat]
    BY <1>5, <2>1 DEF PopMessage
  <2>3. pc'[c] \in {"loop", "pop_lock"} /\ pc' = [pc EXCEPT ![c] = pc'[c]]
    BY <1>1, <1>5 DEF PopMessage, Goto
  <2>4. QED
    BY <1>1, <1>2, <1>5, <2>2, <2>3, RouteFrame
       DEF PopMessage, TypeInv, TypeOK, Pcs, Walking, Inside
<1>6. QED
  BY <1>3, <1>4, <1>5

\* The search of routeMessage keeps TypeInv.
LEMMA TypeRoute ==
  ASSUME TypeInv, NEW c \in Conns,
         RouteLock(c) \/ RouteVisit(c) \/ RouteMiss(c) \/ EnqueueMsg(c)
  PROVE  TypeOK' /\ Struct'
<1>1. /\ pc[c] # "none" /\ it \in [Conns -> Nat] /\ pc \in [Conns -> Pcs]
      /\ nm \in [Conns -> Messages] /\ m_lstMessages \in [Conns -> Nat]
      /\ m_mutexQueueMessages \in [Conns -> Conns \cup {NoConn}]
      /\ m_mutexRoute \in Conns \cup {NoConn} /\ gwSent \in Seq(Messages)
  BY DEF TypeInv, TypeOK, RouteLock, RouteVisit, RouteMiss, EnqueueMsg
<1>2. ASSUME RouteDone(c)
      PROVE  /\ nm' \in [Conns -> Messages] /\ m_mutexRoute' \in Conns \cup {NoConn}
             /\ it'[c] \in Nat /\ it' = [it EXCEPT ![c] = it'[c]]
             /\ pc'[c] \in Pcs \ {"none"} /\ pc' = [pc EXCEPT ![c] = pc'[c]]
             /\ pc'[c] \notin Walking /\ pc'[c] \notin Inside
  <2>1. pc'[c] = "pop" /\ pc' = [pc EXCEPT ![c] = pc'[c]]
    BY <1>2, GotoFacts DEF RouteDone, Pcs
  <2>2. QED
    BY <1>1, <1>2, <2>1, MessageTypes DEF RouteDone, Pcs, Walking, Inside
<1>3. CASE RouteLock(c)
  <2> UNCHANGED <<sockVars, acceptVars, nodeVars, up>>
      /\ UNCHANGED <<m_lstMessages, m_mutexQueueMessages, gwSent>>
    BY <1>3 DEF RouteLock
  <2>1. CASE nm[c].to = NODE_ID
    <3>1. RouteDone(c)
      BY <1>3, <2>1 DEF RouteLock
    <3>2. QED
      BY <1>1, <1>2, <3>1, RouteFrame
  <2>2. CASE nm[c].to # NODE_ID
    <3>1. pc'[c] = "find" /\ pc' = [pc EXCEPT ![c] = pc'[c]]
      BY <1>3, <2>2, GotoFacts DEF RouteLock, Pcs
    <3>2. /\ it'[c] = 1 /\ it' = [it EXCEPT ![c] = it'[c]]
          /\ m_mutexRoute' \in Conns \cup {NoConn} /\ nm' \in [Conns -> Messages]
      BY <1>1, <1>3, <2>2 DEF RouteLock
    <3>3. QED
      <4>1. /\ pc'[c] \in Pcs \ {"none"} /\ pc'[c] \notin Inside
            /\ it'[c] \in Nat /\ it'[c] >= 1
        BY <3>1, <3>2 DEF Pcs, Inside
      <4>2. QED
        BY <1>1, <3>1, <3>2, <4>1, RouteFrame
  <2>3. QED BY <2>1, <2>2
<1>4. CASE RouteVisit(c)
  <2>1. it[c] >= 1 /\ it[c] <= Len(m_lstNodes)
    BY <1>4 DEF RouteVisit, TypeInv, Struct, Walking
  <2>2. \/ Goto(c, "enqueue") /\ UNCHANGED it
        \/ it' = [it EXCEPT ![c] = @ + 1] /\ UNCHANGED pc
    BY <1>4 DEF RouteVisit
  <2>3. CASE Goto(c, "enqueue") /\ UNCHANGED it
    <3>1. pc'[c] = "enqueue" /\ pc' = [pc EXCEPT ![c] = pc'[c]]
      BY <2>3, GotoFacts DEF Pcs
    <3>2. it'[c] = it[c] /\ it' = [it EXCEPT ![c] = it'[c]]
      BY <1>1, <2>3
    <3>3. QED
      BY <1>1, <1>4, <2>1, <3>1, <3>2, RouteFrame DEF RouteVisit, Pcs
  <2>4. CASE it' = [it EXCEPT ![c] = @ + 1] /\ UNCHANGED pc
    <3>1. pc'[c] = "find" /\ pc' = [pc EXCEPT ![c] = pc'[c]]
      BY <1>1, <1>4, <2>4 DEF RouteVisit
    <3>2. /\ it'[c] = it[c] + 1 /\ it' = [it EXCEPT ![c] = it'[c]]
          /\ it'[c] \in Nat /\ it'[c] >= 1
      BY <1>1, <2>4
    <3>3. QED
      BY <1>1, <1>4, <3>1, <3>2, RouteFrame DEF RouteVisit, Pcs, Inside
  <2>5. QED BY <2>2, <2>3, <2>4
<1>5. CASE RouteMiss(c)
  <2>1. UNCHANGED <<sockVars, acceptVars, nodeVars, m_lstMessages, m_mutexQueueMessages>>
    BY <1>5 DEF RouteMiss
  <2>2. CASE RouteDone(c) /\ UNCHANGED up /\ gwSent' \in {gwSent, Append(gwSent, nm[c])}
    <3>1. gwSent' \in Seq(Messages)
      <4>1. nm[c] \in Messages
        BY <1>1
      <4>2. Append(gwSent, nm[c]) \in Seq(Messages)
        BY <1>1, <4>1
      <4>3. QED
        BY <1>1, <2>2, <4>2
    <3>2. QED
      BY <1>1, <1>2, <2>1, <2>2, <3>1, RouteFrame
  <2>3. CASE up' = FALSE /\ UNCHANGED <<gwSent, nm, it, m_mutexRoute, pc>>
    <3>1. SocketsTypeOK'
      BY <2>1 DEF TypeInv, TypeOK, SocketsTypeOK, sockVars
    <3>2. TypeOK'
      BY <2>1, <2>3, <3>1 DEF TypeInv, TypeOK, acceptVars, nodeVars
    <3>3. Struct'
      BY <2>1, <2>3 DEF TypeInv, Struct, acceptVars, nodeVars
    <3>4. QED
      BY <3>2, <3>3 DEF TypeInv
  <2>4. QED
    BY <1>5, <2>2, <2>3 DEF RouteMiss
<1>6. CASE EnqueueMsg(c)
  <2>1. it[c] >= 1 /\ it[c] <= Len(m_lstNodes)
    BY <1>6 DEF EnqueueMsg, TypeInv, Struct, Walking, Inside
  <2>2. pc'[c] = "write" /\ pc' = [pc EXCEPT ![c] = pc'[c]]
    BY <1>6, GotoFacts DEF EnqueueMsg, Pcs
  <2>3. /\ m_mutexQueueMessages' \in [Conns -> Conns \cup {NoConn}]
        /\ m_lstMessages' \in [Conns -> Nat]
        /\ it'[c] = it[c] /\ it' = [it EXCEPT ![c] = it'[c]]
    <3>1. m_lstNodes[it[c]] \in Conns
      BY <1>1, <2>1 DEF TypeInv, TypeOK
    <3>2. QED
      BY <1>1, <1>6, <3>1 DEF EnqueueMsg
  <2>4. QED
    BY <1>1, <1>6, <2>1, <2>2, <2>3, RouteFrame DEF EnqueueMsg, Pcs
<1>7. QED
  BY <1>3, <1>4, <1>5, <1>6

\* EnqueueMsg and its write keep TypeInv.
LEMMA TypeWrite ==
  ASSUME TypeInv, NEW c \in Conns, WriteData(c)
  PROVE  TypeOK' /\ Struct'
<1> DEFINE n == m_lstNodes[it[c]]
           f == m_fdSocket[n]
           d == [msg |-> nm[c], via |-> n]
<1>1. /\ pc[c] = "write" /\ it \in [Conns -> Nat] /\ pc \in [Conns -> Pcs]
      /\ SocketsTypeOK /\ nm \in [Conns -> Messages]
      /\ m_mutexQueueMessages \in [Conns -> Conns \cup {NoConn}]
      /\ m_mutexRoute \in Conns \cup {NoConn}
      /\ it[c] >= 1 /\ it[c] <= Len(m_lstNodes)
  BY DEF TypeInv, TypeOK, Struct, WriteData, Walking, Inside
<1>2. n \in Conns
  BY <1>1 DEF TypeInv, TypeOK
<1>3. f \in Fds /\ d \in Deliveries
  BY <1>1, <1>2 DEF TypeInv, TypeOK, Struct, Deliveries
<1>4. /\ UNCHANGED <<backlog, inq, sent, budget, nread, desc>>
      /\ UNCHANGED <<acceptVars, nodeVars, m_lstMessages, gwSent>>
  BY DEF WriteData
<1>5. CASE /\ SysWriteOk(f, d) \/ SysWriteLost(f) \/ SysWriteError(f)
           /\ m_mutexQueueMessages' = [m_mutexQueueMessages EXCEPT ![n] = NoConn]
           /\ RouteDone(c)
           /\ UNCHANGED up
  <2>1. /\ peer' \in [Conns -> PeerStates] /\ err' \in [Conns -> BOOLEAN]
        /\ wire' \in [Conns -> Seq(Deliveries)]
    BY <1>1, <1>3, <1>5, WriteTypes
  <2>2. SocketsTypeOK'
    BY <1>1, <1>4, <2>1 DEF SocketsTypeOK
  <2>3. pc'[c] = "pop" /\ pc' = [pc EXCEPT ![c] = pc'[c]]
    BY <1>5, GotoFacts DEF RouteDone, Pcs
  <2>4. /\ nm' \in [Conns -> Messages] /\ m_mutexRoute' \in Conns \cup {NoConn}
        /\ it'[c] = 0 /\ it' = [it EXCEPT ![c] = it'[c]]
        /\ m_mutexQueueMessages' \in [Conns -> Conns \cup {NoConn}]
    BY <1>1, <1>5, MessageTypes DEF RouteDone
  <2>5. /\ UNCHANGED <<acceptVars, m_fdSocket>> /\ up' \in BOOLEAN
        /\ m_nodeId' \in [Conns -> Nat]
        /\ m_nodeStatus' \in [Conns -> NodeStatus]
        /\ m_threadStatus' \in [Conns -> ThreadStatus]
        /\ m_lstMessages' \in [Conns -> Nat] /\ gwSent' \in Seq(Messages)
    BY <1>4, <1>5 DEF TypeInv, TypeOK, nodeVars
  <2>6. QED
    <3>1. /\ pc[c] # "none" /\ pc'[c] \in Pcs \ {"none"}
          /\ pc'[c] \notin Walking /\ pc'[c] \notin Inside /\ it'[c] \in Nat
      BY <1>1, <2>3, <2>4 DEF Pcs, Walking, Inside
    <3>2. QED
      BY <2>2, <2>3, <2>4, <2>5, <3>1, NodeFrame
<1>6. CASE /\ up' = FALSE
           /\ UNCHANGED <<peer, wire, err, m_mutexQueueMessages, nm, it, m_mutexRoute, pc>>
  <2>1. SocketsTypeOK'
    BY <1>1, <1>4, <1>6 DEF SocketsTypeOK
  <2>2. /\ pc'[c] = "write" /\ pc' = [pc EXCEPT ![c] = pc'[c]]
        /\ it'[c] = it[c] /\ it' = [it EXCEPT ![c] = it'[c]]
    BY <1>1, <1>6
  <2>3. QED
    BY <1>1, <1>4, <1>6, <2>1, <2>2, NodeFrame
       DEF TypeInv, TypeOK, nodeVars, Pcs, Walking, Inside
<1>7. QED
  BY <1>5, <1>6 DEF WriteData

\* What the clients do keeps TypeInv.
LEMMA TypeClient ==
  ASSUME TypeInv, NEW c \in Conns, Client(c)
  PROVE  TypeOK' /\ Struct'
<1> USE DEF TypeInv
<1>1. SocketsTypeOK'
  <2>1. CASE ClientConnect(c)
    BY <2>1 DEF ClientConnect, TypeOK, SocketsTypeOK, PeerStates
  <2>2. CASE ClientSend(c)
    <3>1. PICK m \in {LoginMessage(c, sent[c] + 1, id) : id \in NodeIds}
                     \cup {TestMessage(c, sent[c] + 1, id) : id \in Dests} :
            inq' = [inq EXCEPT ![c] = Append(@, m)]
      BY <2>2 DEF ClientSend, ClientWrite
    <3>2. m \in Messages
      <4>1. sent \in [Conns -> Nat]
        BY DEF TypeOK, SocketsTypeOK
      <4>2. sent[c] + 1 \in Nat
        BY <4>1
      <4>3. \A id \in NodeIds \cup Dests : id \in Nat
        BY SocketsAssumption
      <4>4. PICK id \in NodeIds \cup Dests :
              m = LoginMessage(c, sent[c] + 1, id) \/ m = TestMessage(c, sent[c] + 1, id)
        BY <3>1
      <4>5. QED
        BY <4>2, <4>3, <4>4, MessageTypes
    <3>3. inq' \in [Conns -> Seq(Messages)]
      BY <3>1, <3>2 DEF TypeOK, SocketsTypeOK
    <3>4. QED
      BY <2>2, <3>3 DEF ClientSend, ClientWrite, TypeOK, SocketsTypeOK
  <2>3. CASE ClientRead(c)
    BY <2>3 DEF ClientRead, ClientTake, TypeOK, SocketsTypeOK
  <2>4. CASE ClientClose(c)
    BY <2>4 DEF ClientClose, TypeOK, SocketsTypeOK, PeerStates
  <2>5. QED
    BY <2>1, <2>2, <2>3, <2>4 DEF Client
<1>2. TypeOK'
  BY <1>1 DEF Client, TypeOK, serverVars, acceptVars, nodeVars, routeVars
<1>3. Struct'
  BY DEF Client, Struct, serverVars, acceptVars, nodeVars, routeVars
<1>4. QED BY <1>2, <1>3

\* Only a node's own thread takes messages out of its list.
LEMMA PopNext ==
  ASSUME TypeInv, Next
  PROVE  PopOK'
<1>1. /\ m_lstMessages \in [Conns -> Nat] /\ pc \in [Conns -> Pcs] /\ PopOK
      /\ m_lstNodes \in Seq(Conns) /\ it \in [Conns -> Nat]
  BY DEF TypeInv, TypeOK
<1>2. ASSUME UNCHANGED m_lstMessages,
             UNCHANGED pc \/ \E c \in Conns : \E l \in Pcs \ {"pop_lock"} : Goto(c, l)
      PROVE  PopOK'
  BY <1>1, <1>2 DEF PopOK, Goto
<1>3. ASSUME NEW c \in Conns,
             \/ Accept(c) \/ LoginRead(c) \/ SendLoginAnswer(c) \/ CloseSocket(c) \/ LoopExit(c)
             \/ LoopRead(c) \/ RouteLock(c) \/ RouteVisit(c) \/ RouteMiss(c) \/ WriteData(c)
      PROVE  PopOK'
  <2>1. UNCHANGED m_lstMessages
    BY <1>3 DEF Accept, LoginRead, SendLoginAnswer, CloseSocket, LoopExit, LoopRead, RouteLock,
                RouteVisit, RouteMiss, WriteData, routeVars
  <2>2. CASE Accept(c) \/ LoginRead(c) \/ SendLoginAnswer(c) \/ CloseSocket(c) \/ LoopExit(c)
               \/ LoopRead(c)
    BY <1>2, <2>1, <2>2 DEF Accept, LoginRead, SendLoginAnswer, CloseSocket, LoopExit, LoopRead,
                            Disconnect, CheckLogin, Pcs
  <2>3. CASE RouteLock(c) \/ RouteVisit(c) \/ RouteMiss(c) \/ WriteData(c)
    BY <1>2, <2>1, <2>3 DEF RouteLock, RouteVisit, RouteMiss, WriteData, RouteDone, Pcs
  <2>4. QED BY <1>3, <2>2, <2>3
<1>4. ASSUME NEW c \in Conns, EnqueueMsg(c)
      PROVE  PopOK'
  <2>1. /\ pc' = [pc EXCEPT ![c] = "write"]
        /\ \E n : m_lstMessages' = [m_lstMessages EXCEPT ![n] = @ + 1]
    BY <1>4 DEF EnqueueMsg, Goto
  <2>2. \A x \in Conns : m_lstMessages'[x] >= m_lstMessages[x]
    BY <1>1, <2>1
  <2>3. QED BY <1>1, <2>1, <2>2 DEF PopOK
<1>5. ASSUME NEW c \in Conns, PopMessage(c)
      PROVE  PopOK'
  BY <1>1, <1>5 DEF PopMessage, Goto, PopOK
<1>6. CASE NodeStart \/ PushBack \/ \E c \in Conns : Client(c)
  BY <1>2, <1>6 DEF NodeStart, PushBack, Client, serverVars, routeVars
<1>7. QED
  BY <1>3, <1>4, <1>5, <1>6 DEF Next, AcceptThread, NodeThread

\* TypeInv is inductive.
LEMMA TypeNext == TypeInv /\ [Next]_vars => TypeInv'
<1> SUFFICES ASSUME TypeInv, [Next]_vars PROVE TypeInv'
  OBVIOUS
<1>1. CASE UNCHANGED vars
  BY <1>1 DEF TypeInv, TypeOK, SocketsTypeOK, Struct, PopOK, vars, sockVars, serverVars,
              acceptVars, nodeVars, routeVars
<1>2. CASE Next
  <2>1. TypeOK' /\ Struct'
    BY <1>2, TypeAccept, TypeLogin, TypeLoop, TypeRoute, TypeWrite, TypeClient
       DEF Next, NodeThread
  <2>2. QED BY <1>2, <2>1, PopNext DEF TypeInv
<1>3. QED BY <1>1, <1>2

\* Every reachable state is well typed, m_lstMessages never negative, whatever
\* the number of clients and the order of their steps.
THEOREM TypeCorrect == Spec => []TypeOK
<1>1. TypeInv => TypeOK
  BY DEF TypeInv
<1>2. QED
  BY <1>1, TypeInit, TypeNext, PTL DEF Spec

---------------------------------------------------------------------------
(* Descriptor ownership.                                                   *)

\* A connection in the backlog has a client, no node yet, and is there once.
BacklogOK ==
  /\ \A i \in 1 .. Len(backlog) : pc[backlog[i]] = "none" /\ peer[backlog[i]] # "none"
  /\ \A i, j \in 1 .. Len(backlog) : backlog[i] = backlog[j] => i = j
  /\ \A c \in Conns : pc[c] # "none" => peer[c] # "none"

\* How a node's status, its thread's status and its program counter agree.
NodeOK(c) ==
  /\ pc[c] \in {"none", "login"} => m_nodeStatus[c] = "NODE_CONNECTED"
  /\ m_threadStatus[c] = "TH_STOP" => m_nodeStatus[c] = "NODE_DISCONNECTED"
  /\ revived = {} =>
       /\ m_nodeStatus[c] = "NODE_DISCONNECTED" =>
            /\ m_threadStatus[c] = "TH_STOP"
            /\ pc[c] \in {"login_close", "loop_close", "loop", "done"}
       /\ pc[c] \in {"login_close", "loop_close", "done"} =>
            m_nodeStatus[c] = "NODE_DISCONNECTED"

NodesOK == \A c \in Conns : NodeOK(c)

OwnInv == BacklogOK /\ NodesOK /\ DescriptorOwnership

\* OwnInv holds before the first connection.
LEMMA OwnInit == Init => OwnInv
BY SocketsAssumption
   DEF Init, SocketsInit, OwnInv, BacklogOK, NodesOK, NodeOK, DescriptorOwnership,
       HoldsSocket, NoFd

\* A step of node c that opens and closes nothing preserves OwnInv if the node's
\* statuses still agree and it holds its socket after the step as before.
LEMMA OwnFrame ==
  ASSUME TypeInv, OwnInv, NEW c \in Conns,
         UNCHANGED <<desc, m_fdSocket, revived, backlog>>,
         \A x \in Conns : peer'[x] = "none" <=> peer[x] = "none",
         pc[c] # "none", pc'[c] # "none",
         pc' = [pc EXCEPT ![c] = pc'[c]],
         m_nodeStatus' = [m_nodeStatus EXCEPT ![c] = m_nodeStatus'[c]],
         m_threadStatus' = [m_threadStatus EXCEPT ![c] = m_threadStatus'[c]],
         NodeOK(c)',
         revived = {} => (HoldsSocket(c)' <=> HoldsSocket(c))
  PROVE  OwnInv'
<1>1. /\ pc \in [Conns -> Pcs] /\ m_nodeStatus \in [Conns -> NodeStatus]
      /\ m_threadStatus \in [Conns -> ThreadStatus] /\ backlog \in Seq(Conns)
  BY DEF TypeInv, TypeOK, SocketsTypeOK
<1>2. \A x \in Conns : x # c => /\ pc'[x] = pc[x] /\ m_nodeStatus'[x] = m_nodeStatus[x]
                                /\ m_threadStatus'[x] = m_threadStatus[x]
  BY <1>1
<1>3. \A i \in 1 .. Len(backlog) : backlog[i] \in Conns
  BY <1>1
<1>4. BacklogOK'
  BY <1>2, <1>3 DEF OwnInv, BacklogOK
<1>5. NodesOK'
  BY <1>2 DEF OwnInv, NodesOK, NodeOK
<1>6. DescriptorOwnership'
  BY <1>2 DEF OwnInv, DescriptorOwnership, HoldsSocket
<1>7. QED BY <1>4, <1>5, <1>6 DEF OwnInv

\* accept gives the new node a number nobody else holds.
LEMMA OwnAccept ==
  ASSUME TypeInv, OwnInv, NEW c \in Conns, Accept(c)
  PROVE  OwnInv'
<1>1. /\ pc \in [Conns -> Pcs] /\ backlog \in Seq(Conns)
      /\ desc \in [Fds -> Conns \cup {NoConn}] /\ m_fdSocket \in [Conns -> Fds \cup {NoFd}]
  BY DEF TypeInv, TypeOK, SocketsTypeOK
<1>2. PICK f \in Fds : SysAccept(c, f) /\ m_fdSocket' = [m_fdSocket EXCEPT ![c] = f]
  BY DEF Accept
<1>3. /\ pc' = [pc EXCEPT ![c] = "login"]
      /\ UNCHANGED <<peer, m_nodeStatus, m_threadStatus, revived>>
  BY DEF Accept, Goto
<1>4. /\ backlog # <<>> /\ c = Head(backlog) /\ backlog' = Tail(backlog)
      /\ desc[f] = NoConn /\ desc' = [desc EXCEPT ![f] = c]
  BY <1>2 DEF SysAccept, LowestFree
<1>5. /\ Len(backlog) \in Nat \ {0} /\ c = backlog[1]
      /\ Len(backlog') = Len(backlog) - 1
      /\ \A i \in 1 .. Len(backlog') : backlog'[i] = backlog[i + 1]
  BY <1>1, <1>4, HeadTailProperties
<1>6. pc[c] = "none" /\ peer[c] # "none"
  BY <1>5 DEF OwnInv, BacklogOK
<1>7. BacklogOK'
  <2>1. \A i \in 1 .. Len(backlog') :
          i + 1 \in 1 .. Len(backlog) /\ backlog'[i] # c /\ backlog'[i] \in Conns
    BY <1>1, <1>5 DEF OwnInv, BacklogOK
  <2>2. \A i \in 1 .. Len(backlog') : pc'[backlog'[i]] = "none" /\ peer'[backlog'[i]] # "none"
    <3> SUFFICES ASSUME NEW i \in 1 .. Len(backlog')
                 PROVE  pc'[backlog'[i]] = "none" /\ peer'[backlog'[i]] # "none"
      OBVIOUS
    <3>1. /\ i + 1 \in 1 .. Len(backlog) /\ backlog'[i] = backlog[i + 1]
          /\ backlog'[i] # c /\ backlog'[i] \in Conns
      BY <1>5, <2>1
    <3>2. pc[backlog[i + 1]] = "none" /\ peer[backlog[i + 1]] # "none"
      BY <3>1 DEF OwnInv, BacklogOK
    <3>3. QED
      BY <1>1, <1>3, <3>1, <3>2
  <2>3. \A i, j \in 1 .. Len(backlog') : backlog'[i] = backlog'[j] => i = j
    <3> SUFFICES ASSUME NEW i \in 1 .. Len(backlog'), NEW j \in 1 .. Len(backlog'),
                        backlog'[i] = backlog'[j]
                 PROVE  i = j
      OBVIOUS
    <3>1. backlog[i + 1] = backlog[j + 1]
      BY <1>5
    <3>2. i + 1 = j + 1
      BY <2>1, <3>1 DEF OwnInv, BacklogOK
    <3>3. QED BY <1>5, <3>2
  <2>4. \A x \in Conns : pc'[x] # "none" => peer'[x] # "none"
    BY <1>1, <1>3, <1>6 DEF OwnInv, BacklogOK
  <2>5. QED BY <2>2, <2>3, <2>4 DEF BacklogOK
<1>8. NodesOK'
  BY <1>1, <1>3, <1>6 DEF OwnInv, NodesOK, NodeOK
<1>9. DescriptorOwnership'
  <2> SUFFICES ASSUME revived = {}, NEW g \in Fds, NEW x \in Conns
               PROVE  desc'[g] = x <=> HoldsSocket(x)' /\ m_fdSocket'[x] = g
    BY <1>3 DEF DescriptorOwnership
  <2>1. desc[g] = x <=> HoldsSocket(x) /\ m_fdSocket[x] = g
    BY DEF OwnInv, DescriptorOwnership
  <2>2. desc[f] = x <=> HoldsSocket(x) /\ m_fdSocket[x] = f
    BY DEF OwnInv, DescriptorOwnership
  <2>3. ~HoldsSocket(c) /\ m_nodeStatus[c] = "NODE_CONNECTED"
    BY <1>6 DEF OwnInv, NodesOK, NodeOK, HoldsSocket
  <2>4. CASE x = c
    <3>1. HoldsSocket(x)' /\ m_fdSocket'[x] = f
      BY <1>1, <1>2, <1>3, <2>3, <2>4 DEF HoldsSocket
    <3>2. desc[g] # c
      BY <2>1, <2>3, <2>4
    <3>3. desc'[g] = c <=> g = f
      BY <1>1, <1>4, <3>2
    <3>4. QED
      BY <2>4, <3>1, <3>3
  <2>5. CASE x # c
    <3>1. HoldsSocket(x)' = HoldsSocket(x) /\ m_fdSocket'[x] = m_fdSocket[x]
      BY <1>1, <1>2, <1>3, <2>5 DEF HoldsSocket
    <3>2. desc[f] # x
      BY <1>4, SocketsAssumption
    <3>3. QED
      BY <1>1, <1>4, <2>1, <2>2, <2>5, <3>1, <3>2
  <2>6. QED BY <2>4, <2>5
<1>10. QED BY <1>7, <1>8, <1>9 DEF OwnInv

\* start() and push_back change no descriptor.
LEMMA OwnStart ==
  ASSUME TypeInv, OwnInv, NodeStart
  PROVE  OwnInv'
<1>1. /\ accepted \in Conns /\ m_threadStatus \in [Conns -> ThreadStatus]
      /\ UNCHANGED <<sockVars, m_fdSocket, m_nodeStatus, pc>>
      /\ m_threadStatus' = [m_threadStatus EXCEPT ![accepted] = "TH_START"]
      /\ revived' = IF m_threadStatus[accepted] = "TH_STOP"
                      THEN revived \cup {accepted} ELSE revived
  BY DEF NodeStart, TypeInv, TypeOK, Struct
<1>2. BacklogOK'
  BY <1>1 DEF OwnInv, BacklogOK, sockVars
<1>3. revived' = {} => revived = {} /\ m_threadStatus[accepted] # "TH_STOP"
  BY <1>1
<1>4. NodesOK'
  <2> SUFFICES ASSUME NEW x \in Conns PROVE NodeOK(x)'
    BY DEF NodesOK
  <2>1. NodeOK(x)
    BY DEF OwnInv, NodesOK
  <2>2. CASE x = accepted
    BY <1>1, <1>3, <2>1, <2>2 DEF NodeOK
  <2>3. CASE x # accepted
    BY <1>1, <1>3, <2>1, <2>3 DEF NodeOK
  <2>4. QED BY <2>2, <2>3
<1>5. DescriptorOwnership'
  BY <1>1, <1>3 DEF OwnInv, DescriptorOwnership, HoldsSocket, sockVars
<1>6. QED BY <1>2, <1>4, <1>5 DEF OwnInv

\* A node closes the number it holds, and holds none after that.
LEMMA OwnClose ==
  ASSUME TypeInv, OwnInv, NEW c \in Conns, CloseSocket(c)
  PROVE  OwnInv'
<1> DEFINE f == m_fdSocket[c]
<1>1. /\ pc \in [Conns -> Pcs] /\ backlog \in Seq(Conns) /\ f \in Fds
      /\ desc \in [Fds -> Conns \cup {NoConn}]
  BY DEF TypeInv, TypeOK, SocketsTypeOK, Struct, CloseSocket
<1>2. /\ UNCHANGED <<peer, backlog, revived, m_fdSocket, m_nodeStatus, m_threadStatus>>
      /\ desc' = [desc EXCEPT ![f] = NoConn]
      /\ \/ pc[c] = "login_close" /\ pc' = [pc EXCEPT ![c] = "loop"]
         \/ pc[c] = "loop_close" /\ pc' = [pc EXCEPT ![c] = "done"]
  BY DEF CloseSocket, SysClose, Goto, acceptVars, nodeVars
<1>3. \A x \in Conns : x # c => pc'[x] = pc[x]
  BY <1>1, <1>2
<1>4. pc'[c] \in {"loop", "done"} /\ pc[c] \in {"login_close", "loop_close"}
  BY <1>1, <1>2
<1>5. BacklogOK'
  BY <1>1, <1>2, <1>3, <1>4 DEF OwnInv, BacklogOK
<1>6. NodesOK'
  BY <1>2, <1>3, <1>4 DEF OwnInv, NodesOK, NodeOK
<1>7. DescriptorOwnership'
  <2> SUFFICES ASSUME revived = {}, NEW g \in Fds, NEW x \in Conns
               PROVE  desc'[g] = x <=> HoldsSocket(x)' /\ m_fdSocket'[x] = g
    BY <1>2 DEF DescriptorOwnership
  <2>1. desc[g] = x <=> HoldsSocket(x) /\ m_fdSocket[x] = g
    BY DEF OwnInv, DescriptorOwnership
  <2>2. desc[f] = c
    BY <1>1, <1>4 DEF OwnInv, DescriptorOwnership, HoldsSocket
  <2>3. CASE x = c
    <3>1. ~HoldsSocket(x)'
      BY <1>2, <1>4, <2>3 DEF OwnInv, NodesOK, NodeOK, HoldsSocket
    <3>2. desc'[g] # x
      BY <1>1, <1>2, <2>1, <2>3, SocketsAssumption
    <3>3. QED BY <3>1, <3>2
  <2>4. CASE x # c
    <3>1. HoldsSocket(x)' <=> HoldsSocket(x)
      BY <1>2, <1>3, <2>4 DEF HoldsSocket
    <3>2. QED
      BY <1>1, <1>2, <2>1, <2>2, <2>4, <3>1, SocketsAssumption
  <2>5. QED BY <2>3, <2>4
<1>8. QED BY <1>5, <1>6, <1>7 DEF OwnInv

\* A step that changes neither what a node holds nor its statuses.
LEMMA OwnSamePlace ==
  ASSUME TypeInv, OwnInv, NEW c \in Conns,
         UNCHANGED <<desc, backlog>>,
         UNCHANGED <<acceptVars, nodeVars>>,
         \A x \in Conns : peer'[x] = "none" <=> peer[x] = "none",
         pc' = [pc EXCEPT ![c] = pc'[c]],
         pc[c] \in {"answer", "loop", "route", "find", "enqueue", "write", "pop", "pop_lock"},
         pc'[c] \in {"answer", "loop", "route", "find", "enqueue", "write", "pop", "pop_lock"},
         pc[c] = "loop" => m_threadStatus[c] = "TH_START"
  PROVE  OwnInv'
<1>1. /\ m_nodeStatus \in [Conns -> NodeStatus] /\ m_threadStatus \in [Conns -> ThreadStatus]
      /\ UNCHANGED <<m_fdSocket, revived, m_nodeStatus, m_threadStatus>>
  BY DEF TypeInv, TypeOK, acceptVars, nodeVars
<1>2. NodeOK(c)
  BY DEF OwnInv, NodesOK
<1>3. revived = {} => m_nodeStatus[c] # "NODE_DISCONNECTED"
  BY <1>2 DEF NodeOK
<1>4. NodeOK(c)'
  BY <1>1, <1>2, <1>3 DEF NodeOK
<1>5. revived = {} => (HoldsSocket(c)' <=> HoldsSocket(c))
  BY <1>1, <1>3 DEF HoldsSocket
<1>6. /\ m_nodeStatus' = [m_nodeStatus EXCEPT ![c] = m_nodeStatus'[c]]
      /\ m_threadStatus' = [m_threadStatus EXCEPT ![c] = m_threadStatus'[c]]
      /\ pc[c] # "none" /\ pc'[c] # "none"
  BY <1>1
<1>7. QED
  BY <1>1, <1>4, <1>5, <1>6, OwnFrame

\* A read that ends in a disconnect leaves the node holding its socket until it closes it.
LEMMA OwnRead ==
  ASSUME TypeInv, OwnInv, NEW c \in Conns, LoginRead(c) \/ LoopRead(c)
  PROVE  OwnInv'
<1>1. /\ pc \in [Conns -> Pcs] /\ m_nodeStatus \in [Conns -> NodeStatus]
      /\ m_threadStatus \in [Conns -> ThreadStatus]
      /\ UNCHANGED <<desc, backlog, peer, m_fdSocket, revived>>
  BY DEF TypeInv, TypeOK, LoginRead, LoopRead, acceptVars
<1>2. NodeOK(c)
  BY DEF OwnInv, NodesOK
<1>3. ASSUME pc[c] \in {"login", "loop"}, pc[c] = "loop" => m_threadStatus[c] = "TH_START",
             Disconnect(c, "login_close") \/ Disconnect(c, "loop_close")
      PROVE  OwnInv'
  <2>1. /\ pc' = [pc EXCEPT ![c] = pc'[c]] /\ pc'[c] \in {"login_close", "loop_close"}
        /\ m_nodeStatus' = [m_nodeStatus EXCEPT ![c] = m_nodeStatus'[c]]
        /\ m_nodeStatus'[c] = "NODE_DISCONNECTED"
        /\ m_threadStatus' = [m_threadStatus EXCEPT ![c] = m_threadStatus'[c]]
        /\ m_threadStatus'[c] = "TH_STOP"
    BY <1>1, <1>3 DEF Disconnect, Goto
  <2>2. NodeOK(c)'
    BY <2>1 DEF NodeOK
  <2>3. revived = {} => (HoldsSocket(c)' <=> HoldsSocket(c))
    BY <1>2, <1>3, <2>1 DEF HoldsSocket, NodeOK
  <2>4. pc[c] # "none" /\ pc'[c] # "none"
    BY <1>3, <2>1
  <2>5. QED
    BY <1>1, <2>1, <2>2, <2>3, <2>4, OwnFrame
<1>4. CASE LoginRead(c)
  <2>1. pc[c] = "login" /\ m_nodeStatus[c] = "NODE_CONNECTED"
    BY <1>2, <1>4 DEF LoginRead, NodeOK
  <2>2. CASE Disconnect(c, "login_close")
    BY <1>3, <2>1, <2>2
  <2>3. ASSUME NEW m, CheckLogin(c, m), UNCHANGED m_threadStatus
        PROVE  OwnInv'
    <3>1. /\ pc' = [pc EXCEPT ![c] = pc'[c]] /\ pc'[c] = "answer"
          /\ m_nodeStatus' = [m_nodeStatus EXCEPT ![c] = m_nodeStatus'[c]]
          /\ m_nodeStatus'[c] = "NODE_ACCEPTED"
          /\ m_threadStatus' = [m_threadStatus EXCEPT ![c] = m_threadStatus'[c]]
          /\ m_threadStatus'[c] = m_threadStatus[c]
      BY <1>1, <2>3 DEF CheckLogin, Goto
    <3>2. NodeOK(c)'
      BY <1>2, <2>1, <3>1 DEF NodeOK
    <3>3. HoldsSocket(c)' <=> HoldsSocket(c)
      BY <2>1, <3>1 DEF HoldsSocket
    <3>4. pc[c] # "none" /\ pc'[c] # "none"
      BY <2>1, <3>1
    <3>5. QED
      BY <1>1, <3>1, <3>2, <3>3, <3>4, OwnFrame
  <2>4. CASE UNCHANGED <<m_nodeStatus, pc>> /\ UNCHANGED m_threadStatus
    BY <1>1, <2>4
       DEF OwnInv, BacklogOK, NodesOK, NodeOK, DescriptorOwnership, HoldsSocket
  <2>5. QED
    BY <1>4, <2>2, <2>3, <2>4 DEF LoginRead
<1>5. CASE LoopRead(c)
  <2>1. pc[c] = "loop" /\ m_threadStatus[c] = "TH_START"
    BY <1>5 DEF LoopRead
  <2>2. CASE Disconnect(c, "loop_close")
    BY <1>3, <2>1, <2>2
  <2>3. CASE /\ UNCHANGED <<m_nodeStatus, m_threadStatus>>
             /\ Goto(c, "pop") \/ Goto(c, "route")
    <3>1. pc' = [pc EXCEPT ![c] = pc'[c]] /\ pc'[c] \in {"pop", "route"}
      BY <1>1, <2>3 DEF Goto
    <3>2. UNCHANGED <<acceptVars, nodeVars>>
      BY <1>5, <2>3 DEF LoopRead, nodeVars
    <3>3. QED
      BY <1>1, <2>1, <3>1, <3>2, OwnSamePlace
  <2>4. QED
    BY <1>5, <2>2, <2>3 DEF LoopRead
<1>6. QED
  BY <1>4, <1>5

\* Answering, routing and popping leave every descriptor with its node.
LEMMA OwnWork ==
  ASSUME TypeInv, OwnInv, NEW c \in Conns,
         SendLoginAnswer(c) \/ PopMessage(c) \/ RouteLock(c) \/ RouteVisit(c)
           \/ RouteMiss(c) \/ EnqueueMsg(c) \/ WriteData(c)
  PROVE  OwnInv'
<1>1. pc \in [Conns -> Pcs] /\ peer \in [Conns -> PeerStates]
  BY DEF TypeInv, TypeOK, SocketsTypeOK
<1>2. /\ UNCHANGED <<desc, backlog>>
      /\ UNCHANGED <<acceptVars, nodeVars>>
      /\ pc[c] \in {"answer", "pop", "pop_lock", "route", "find", "enqueue", "write"}
  BY DEF SendLoginAnswer, PopMessage, RouteLock, RouteVisit, RouteMiss, EnqueueMsg, WriteData,
         sockVars
<1>3. UNCHANGED pc \/ Goto(c, "loop") \/ Goto(c, "find") \/ Goto(c, "enqueue")
        \/ Goto(c, "write") \/ Goto(c, "pop") \/ Goto(c, "pop_lock")
  BY DEF SendLoginAnswer, PopMessage, RouteLock, RouteVisit, RouteMiss, EnqueueMsg, WriteData,
         RouteDone
<1>4. /\ pc' = [pc EXCEPT ![c] = pc'[c]]
      /\ pc'[c] \in {"answer", "loop", "route", "find", "enqueue", "write", "pop", "pop_lock"}
  BY <1>1, <1>2, <1>3 DEF Goto
<1>5. ASSUME NEW f, NEW d, SysWriteOk(f, d) \/ SysWriteLost(f) \/ SysWriteError(f)
      PROVE  \A x \in Conns : peer'[x] = "none" <=> peer[x] = "none"
  BY <1>1, <1>5 DEF SysWriteOk, SysWriteLost, SysWriteError
<1>6. \A x \in Conns : peer'[x] = "none" <=> peer[x] = "none"
  <2>1. CASE UNCHANGED peer
    BY <2>1
  <2>2. CASE SendLoginAnswer(c)
    BY <1>5, <2>1, <2>2 DEF SendLoginAnswer
  <2>3. CASE WriteData(c)
    BY <1>5, <2>1, <2>3 DEF WriteData
  <2>4. QED
    BY <2>1, <2>2, <2>3 DEF PopMessage, RouteLock, RouteVisit, RouteMiss, EnqueueMsg, sockVars
<1>7. QED
  BY <1>2, <1>4, <1>6, OwnSamePlace

\* Without a revived node, a thread leaves the loop only with its socket closed.
LEMMA OwnExit ==
  ASSUME TypeInv, OwnInv, NEW c \in Conns, LoopExit(c)
  PROVE  OwnInv'
<1>1. /\ pc \in [Conns -> Pcs] /\ m_nodeStatus \in [Conns -> NodeStatus]
      /\ m_threadStatus \in [Conns -> ThreadStatus]
      /\ UNCHANGED <<desc, backlog, peer, m_fdSocket, revived, m_nodeStatus, m_threadStatus>>
      /\ pc[c] = "loop" /\ pc' = [pc EXCEPT ![c] = "done"]
      /\ m_threadStatus[c] = "TH_STOP"
  BY DEF TypeInv, TypeOK, LoopExit, Goto, sockVars, acceptVars, nodeVars
<1>2. NodeOK(c)
  BY DEF OwnInv, NodesOK
<1>3. NodeOK(c)' /\ (HoldsSocket(c)' <=> HoldsSocket(c))
  BY <1>1, <1>2 DEF NodeOK, HoldsSocket
<1>4. /\ pc[c] # "none" /\ pc'[c] # "none" /\ pc' = [pc EXCEPT ![c] = pc'[c]]
      /\ m_nodeStatus' = [m_nodeStatus EXCEPT ![c] = m_nodeStatus'[c]]
      /\ m_threadStatus' = [m_threadStatus EXCEPT ![c] = m_threadStatus'[c]]
  BY <1>1
<1>5. QED
  BY <1>1, <1>3, <1>4, OwnFrame

\* What the clients do changes no descriptor.
LEMMA OwnClient ==
  ASSUME TypeInv, OwnInv, NEW c \in Conns, Client(c)
  PROVE  OwnInv'
<1>1. /\ UNCHANGED <<pc, m_nodeStatus, m_threadStatus, revived, m_fdSocket, desc>>
      /\ peer \in [Conns -> PeerStates] /\ backlog \in Seq(Conns)
  BY DEF Client, serverVars, acceptVars, nodeVars, ClientConnect, ClientSend,
         ClientWrite, ClientRead, ClientTake, ClientClose, TypeInv, TypeOK, SocketsTypeOK
<1>2. NodesOK' /\ DescriptorOwnership'
  BY <1>1 DEF OwnInv, NodesOK, NodeOK, DescriptorOwnership, HoldsSocket
<1>3. BacklogOK'
  <2>1. CASE ClientConnect(c)
    <3>1. /\ peer[c] = "none" /\ peer' = [peer EXCEPT ![c] = "open"]
          /\ backlog' = Append(backlog, c)
      BY <2>1 DEF ClientConnect
    <3>2. /\ Len(backlog) \in Nat /\ Len(backlog') = Len(backlog) + 1
          /\ backlog'[Len(backlog) + 1] = c
          /\ \A i \in 1 .. Len(backlog) : backlog'[i] = backlog[i] /\ backlog[i] \in Conns
      BY <1>1, <3>1
    <3>3. pc[c] = "none" /\ \A i \in 1 .. Len(backlog) : backlog[i] # c
      BY <3>1 DEF OwnInv, BacklogOK
    <3>4. \A x \in Conns : peer[x] # "none" => peer'[x] # "none"
      BY <1>1, <3>1
    <3>5. \A i \in 1 .. Len(backlog') : i \in 1 .. Len(backlog) \/ i = Len(backlog) + 1
      BY <3>2
    <3>6. \A i \in 1 .. Len(backlog') : pc'[backlog'[i]] = "none" /\ peer'[backlog'[i]] # "none"
      BY <1>1, <3>1, <3>2, <3>3, <3>4, <3>5 DEF OwnInv, BacklogOK
    <3>7. \A i, j \in 1 .. Len(backlog') : backlog'[i] = backlog'[j] => i = j
      BY <3>2, <3>3, <3>5 DEF OwnInv, BacklogOK
    <3>8. QED
      BY <1>1, <3>4, <3>6, <3>7 DEF OwnInv, BacklogOK
  <2>2. CASE ClientSend(c) \/ ClientRead(c)
    BY <1>1, <2>2 DEF ClientSend, ClientWrite, ClientRead, ClientTake, OwnInv, BacklogOK
  <2>3. CASE ClientClose(c)
    <3>1. UNCHANGED backlog /\ \A x \in Conns : peer[x] # "none" => peer'[x] # "none"
      BY <1>1, <2>3 DEF ClientClose
    <3>2. \A i \in 1 .. Len(backlog) : backlog[i] \in Conns
      BY <1>1
    <3>3. QED
      BY <1>1, <3>1, <3>2 DEF OwnInv, BacklogOK
  <2>4. QED
    BY <2>1, <2>2, <2>3 DEF Client
<1>4. QED
  BY <1>2, <1>3 DEF OwnInv

\* OwnInv is inductive relative to TypeInv.
LEMMA OwnNext == TypeInv /\ OwnInv /\ [Next]_vars => OwnInv'
<1> SUFFICES ASSUME TypeInv, OwnInv, [Next]_vars PROVE OwnInv'
  OBVIOUS
<1>1. CASE UNCHANGED vars
  BY <1>1 DEF OwnInv, BacklogOK, NodesOK, NodeOK, DescriptorOwnership, HoldsSocket, vars,
              sockVars, serverVars, acceptVars, nodeVars
<1>2. CASE PushBack
  BY <1>2 DEF PushBack, OwnInv, BacklogOK, NodesOK, NodeOK, DescriptorOwnership, HoldsSocket,
              sockVars, nodeVars
<1>3. QED
  BY <1>1, <1>2, OwnAccept, OwnStart, OwnClose, OwnRead, OwnWork, OwnExit, OwnClient
     DEF Next, AcceptThread, NodeThread

\* As long as no start() has overwritten a TH_STOP, a connected node's m_fdSocket
\* refers to its own connection and no descriptor is leaked or closed twice, for
\* any number of clients.
THEOREM DescriptorsOwned == Spec => []DescriptorOwnership
<1>1. OwnInv => DescriptorOwnership
  BY DEF OwnInv
<1>2. QED
  BY <1>1, TypeInit, TypeNext, OwnInit, OwnNext, PTL DEF Spec

=============================================================================
