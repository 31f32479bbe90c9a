--------------------------- MODULE OldBrokerProofs ---------------------------
(***************************************************************************)
(* Proofs about the pthread broker and its clients: what is proved of      *)
(* SocketServer and of Clients holds of it, there are never more messages  *)
(* under way than clients, and so no write of the broker waits for one.    *)
(***************************************************************************)
EXTENDS OldBroker, ClientsProofs, FiniteSetTheorems

---------------------------------------------------------------------------
(* The broker and its clients.                                             *)

\* The one step that SocketServer does not know: the answer to a login cannot be
\* written, and the node's thread goes on.
AnswerNotSent(c) ==
  /\ pc[c] = "answer"
  /\ SysWriteError(m_fdSocket[c])
  /\ Goto(c, "loop")
  /\ UNCHANGED <<backlog, inq, sent, budget, nread, desc, acceptVars, nodeVars, routeVars, up,
                 clientVars>>

\* Every other step is one of Clients.
LEMMA OldStep ==
  ASSUME [OldNext]_oldVars
  PROVE  [ClientsNext]_allVars \/ \E c \in Conns : AnswerNotSent(c)
<1>1. CASE UNCHANGED oldVars
  BY <1>1 DEF oldVars
<1>2. ASSUME NEW c \in Conns, OldSendLoginAnswer(c), UNCHANGED clientVars
      PROVE  SendLoginAnswer(c) \/ AnswerNotSent(c)
  BY <1>2 DEF OldSendLoginAnswer, SendLoginAnswer, AnswerNotSent
<1>3. ASSUME NEW c \in Conns, OldNodeThread(c), UNCHANGED clientVars
      PROVE  NodeThread(c) \/ AnswerNotSent(c)
  BY <1>2, <1>3 DEF OldNodeThread, OldRemoteNode, OldRouteMessage, OldEnqueueMsg, NodeThread
<1>4. ASSUME NEW c \in Conns, OldClient(c) \/ OldExit(c)
      PROVE  ClientThread(c) \/ SendMessage(c) \/ Exit(c) \/ UNCHANGED allVars
  BY <1>4 DEF OldClient, OldExit, OldConnect, OldLogin, OldSendMessage, OldReadMessage,
              ClientThread
<1>5. QED
  BY <1>1, <1>3, <1>4 DEF OldNext, OldAcceptThread, ClientsNext

\* What is proved of the broker and of its clients.
SafeInv == TypeInv /\ OwnInv /\ RouteLockDiscipline /\ AddrInv /\ OnceInv /\ AgreeInv

\* SafeInv holds before the first connection.
LEMMA SafeInit == OldInit => SafeInv
<1>1. OldInit => ClientsInit /\ Init
  BY DEF OldInit, ClientsInit
<1>2. QED
  BY <1>1, TypeInit, OwnInit, LockInit, AddrInit, OnceInit, AgreeInit DEF SafeInv

\* A thread that goes on without its client being answered disturbs none of it.
LEMMA SafeNotSent ==
  ASSUME SafeInv, NEW c \in Conns, AnswerNotSent(c)
  PROVE  SafeInv'
<1>1. /\ TypeInv /\ OwnInv /\ RouteLockDiscipline /\ AddrInv /\ OnceInv /\ AgreeInv
      /\ pc \in [Conns -> Pcs] /\ m_fdSocket[c] \in Fds
  BY DEF SafeInv, AnswerNotSent, TypeInv, TypeOK, Struct
<1>2. /\ UNCHANGED <<backlog, inq, sent, budget, nread, desc, acceptPc, accepted, m_lstNodes,
                     revived, m_fdSocket, m_nodeId, m_nodeStatus, m_threadStatus, m_lstMessages,
                     m_mutexQueueMessages, m_mutexRoute, nm, it, gwSent, up, peer, wire, appPc,
                     cnStatus, cnNodeId>>
  BY DEF AnswerNotSent, SysWriteError, acceptVars, nodeVars, routeVars, clientVars
<1>3. /\ pc[c] = "answer" /\ pc'[c] = "loop" /\ pc' = [pc EXCEPT ![c] = pc'[c]]
      /\ \A d \in Conns : pc'[d] = IF d = c THEN "loop" ELSE pc[d]
  BY <1>1 DEF AnswerNotSent, Goto
<1>4. TypeInv'
  <2>1. err' \in [Conns -> BOOLEAN]
    BY <1>1 DEF AnswerNotSent, SysWriteError, TypeInv, TypeOK, SocketsTypeOK
  <2>2. SocketsTypeOK'
    BY <1>1, <1>2, <2>1 DEF TypeInv, TypeOK, SocketsTypeOK
  <2>3. /\ UNCHANGED <<acceptVars, m_fdSocket>> /\ it'[c] \in Nat
        /\ it' = [it EXCEPT ![c] = it'[c]]
        /\ pc'[c] \in Pcs \ {"none"} /\ pc'[c] \notin Walking /\ pc'[c] \notin Inside
    BY <1>1, <1>2, <1>3 DEF TypeInv, TypeOK, acceptVars, Pcs, Walking, Inside
  <2>4. /\ m_nodeId' \in [Conns -> Nat] /\ m_nodeStatus' \in [Conns -> NodeStatus]
        /\ m_threadStatus' \in [Conns -> ThreadStatus] /\ m_lstMessages' \in [Conns -> Nat]
        /\ m_mutexQueueMessages' \in [Conns -> Conns \cup {NoConn}]
        /\ m_mutexRoute' \in Conns \cup {NoConn} /\ nm' \in [Conns -> Messages]
        /\ gwSent' \in Seq(Messages) /\ up' \in BOOLEAN
    BY <1>1, <1>2 DEF TypeInv, TypeOK
  <2>5. TypeOK' /\ Struct'
    BY <1>1, <1>3, <2>2, <2>3, <2>4, NodeFrame
  <2>6. PopOK'
    BY <1>1, <1>2, <1>3 DEF TypeInv, PopOK
  <2>7. QED BY <2>5, <2>6 DEF TypeInv
<1>5. OwnInv'
  <2>1. UNCHANGED <<desc, backlog>> /\ UNCHANGED <<acceptVars, nodeVars>>
    BY <1>2 DEF acceptVars, nodeVars
  <2>2. QED BY <1>1, <1>2, <1>3, <2>1, OwnSamePlace
<1>6. RouteLockDiscipline'
  BY <1>1, <1>2, <1>3, LockFrame DEF Walking
<1>7. AddrInv'
  BY <1>1, <1>2, <1>3 DEF AddrInv, IdOK, FoundOK, AddressedDelivery, Routed, Inside
<1>8. OnceInv'
  <2>1. QueuesOK' /\ \A m \in Messages : Taken(m) => Taken(m)'
    BY <1>1, <1>2 DEF OnceInv, QueuesOK, Taken
  <2>2. \A d \in Conns : pc'[d] \in Carrying => pc[d] \in Carrying /\ nm'[d] = nm[d]
    BY <1>2, <1>3 DEF Carrying, Walking
  <2>3. QED BY <1>1, <1>2, <2>1, <2>2, OnceFrame
<1>9. AgreeInv'
  <2>1. IdInv' /\ HonestOK'
    BY <1>1, <1>2 DEF AgreeInv, IdInv, HonestOK
  <2>2. AgreeOK'
    BY <1>1, <1>2, <1>3 DEF AgreeInv, AgreeOK, Answered
  <2>3. QED BY <2>1, <2>2 DEF AgreeInv
<1>10. QED BY <1>4, <1>5, <1>6, <1>7, <1>8, <1>9 DEF SafeInv

\* SafeInv is inductive.
LEMMA SafeNext == SafeInv /\ [OldNext]_oldVars => SafeInv'
<1> SUFFICES ASSUME SafeInv, [OldNext]_oldVars PROVE SafeInv'
  OBVIOUS
<1>1. CASE [ClientsNext]_allVars
  <2>1. [Next]_vars
    BY <1>1, BrokerStep DEF SafeInv, AgreeInv, allVars
  <2>2. QED
    BY <1>1, <2>1, TypeNext, OwnNext, LockNext, AddrNext, OnceNext, AgreeInvNext DEF SafeInv
<1>2. QED BY <1>1, OldStep, SafeNotSent

\* A login answer that is not sent costs the pthread broker none of what the other one
\* guarantees: not the descriptors, nor the locks, the addresses, or the logins.
THEOREM OldBrokerSafe ==
  OldSpec => [](/\ DescriptorOwnership /\ RouteLockDiscipline /\ AddressedDelivery
                /\ DeliveredAtMostOnce /\ LoginAgreement)
<1>1. SafeInv => /\ DescriptorOwnership /\ RouteLockDiscipline /\ AddressedDelivery
                 /\ DeliveredAtMostOnce /\ LoginAgreement
  BY DEF SafeInv, OwnInv, AddrInv, OnceInv, AgreeInv, AgreeOK, LoginAgreement
<1>2. QED BY <1>1, SafeInit, SafeNext, PTL DEF OldSpec

---------------------------------------------------------------------------
(* The bound on the messages.                                              *)

\* Every frame that is written and not read may still make a client send, and so may
\* the answer to a login that is yet to be written.
Unseen == UNION {{<<"written", c, i>> : i \in nread[c] + 1 .. Len(wire[c])} : c \in Conns}
LoginsDue == {<<"login", c, 0>> : c \in {x \in Conns : pc[x] \in {"none", "login", "answer"}}}

Pot == ToSend \cup Queued \cup Routing \cup Unseen \cup LoginsDue

\* A message for the server itself goes no further than the route mutex.
WalkOK == \A c \in Conns : pc[c] \in Walking => nm[c].to # NODE_ID

BoundInv ==
  /\ toSend \in [Conns -> {0, 1}]
  /\ WalkOK
  /\ IsFiniteSet(Pot) /\ Cardinality(Pot) <= Cardinality(Conns)

\* What a set of that size may become: smaller, or one member exchanged for another.
LEMMA Exchange ==
  ASSUME NEW S, NEW T, NEW a \in S, NEW b, IsFiniteSet(S), \A t \in T : t = b \/ (t \in S /\ t # a)
  PROVE  IsFiniteSet(T) /\ Cardinality(T) <= Cardinality(S)
<1> DEFINE R == S \ {a}
           U == R \cup {b}
<1>1. IsFiniteSet(R) /\ Cardinality(R) = Cardinality(S) - 1 /\ Cardinality(S) \in Nat
  BY FS_RemoveElement, FS_CardinalityType
<1>2. IsFiniteSet(U) /\ Cardinality(U) <= Cardinality(S) /\ Cardinality(U) \in Nat
  <2> HIDE DEF R
  <2>1. /\ IsFiniteSet(U)
        /\ Cardinality(U) = IF b \in R THEN Cardinality(R) ELSE Cardinality(R) + 1
    BY <1>1, FS_AddElement
  <2>2. Cardinality(R) \in Nat
    BY <1>1, FS_CardinalityType
  <2> HIDE DEF U
  <2>3. QED BY <1>1, <2>1, <2>2
<1>3. T \in SUBSET U
  OBVIOUS
<1> HIDE DEF U, R
<1>4. IsFiniteSet(T) /\ Cardinality(T) <= Cardinality(U) /\ Cardinality(T) \in Nat
  BY <1>2, <1>3, FS_Subset, FS_CardinalityType
<1>5. QED BY <1>1, <1>2, <1>4

\* The members of Pot, by kind.
Counted(t) ==
  \E c \in Conns :
    \/ \E k \in 1 .. toSend[c] : t = <<"send", c, k>>
    \/ \E i \in 1 .. Len(inq[c]) : IsTest(inq[c][i]) /\ t = <<"queued", c, inq[c][i].n>>
    \/ pc[c] \in Carrying /\ IsTest(nm[c]) /\ t = <<"routing", c, 0>>
    \/ \E i \in nread[c] + 1 .. Len(wire[c]) : t = <<"written", c, i>>
    \/ pc[c] \in {"none", "login", "answer"} /\ t = <<"login", c, 0>>

LEMMA PotMember == (\A t : t \in Pot <=> Counted(t)) /\ (\A t : t \in Pot' <=> Counted(t)')
<1>1. \A t : t \in ToSend <=> \E c \in Conns : \E k \in 1 .. toSend[c] : t = <<"send", c, k>>
  BY DEF ToSend
<1>2. \A t : t \in Queued <=> \E c \in Conns : \E i \in 1 .. Len(inq[c]) :
                                IsTest(inq[c][i]) /\ t = <<"queued", c, inq[c][i].n>>
  BY DEF Queued
<1>3. \A t : t \in Routing <=> \E c \in Conns : /\ pc[c] \in Carrying /\ IsTest(nm[c])
                                                /\ t = <<"routing", c, 0>>
  BY DEF Routing, Carrying, Walking
<1>4. \A t : t \in Unseen <=> \E c \in Conns : \E i \in nread[c] + 1 .. Len(wire[c]) :
                                t = <<"written", c, i>>
  BY DEF Unseen
<1>5. \A t : t \in LoginsDue <=> \E c \in Conns : /\ pc[c] \in {"none", "login", "answer"}
                                                  /\ t = <<"login", c, 0>>
  BY DEF LoginsDue
<1>6. \A t : t \in Pot <=> Counted(t)
  BY <1>1, <1>2, <1>3, <1>4, <1>5 DEF Pot, Counted
<1>7. (\A t : t \in Pot <=> Counted(t))'
  BY <1>6, PTL
<1>8. QED BY <1>6, <1>7

\* A step that only takes members of Pot away keeps the bound, ...
LEMMA PotShrinks ==
  ASSUME BoundInv,
         \A c \in Conns :
           /\ \A k \in 1 .. toSend'[c] : k \in 1 .. toSend[c]
           /\ \A i \in 1 .. Len(inq'[c]) : IsTest(inq'[c][i]) =>
                \E j \in 1 .. Len(inq[c]) : inq'[c][i] = inq[c][j]
           /\ pc'[c] \in Carrying /\ IsTest(nm'[c]) => pc[c] \in Carrying /\ IsTest(nm[c])
           /\ \A i \in nread'[c] + 1 .. Len(wire'[c]) : i \in nread[c] + 1 .. Len(wire[c])
           /\ pc'[c] \in {"none", "login", "answer"} => pc[c] \in {"none", "login", "answer"}
  PROVE  IsFiniteSet(Pot') /\ Cardinality(Pot') <= Cardinality(Conns)
<1>1. \A t : Counted(t)' => Counted(t)
  <2> SUFFICES ASSUME NEW t, Counted(t)' PROVE Counted(t)
    OBVIOUS
  <2>1. PICK c \in Conns :
          \/ \E k \in 1 .. toSend'[c] : t = <<"send", c, k>>
          \/ \E i \in 1 .. Len(inq'[c]) : IsTest(inq'[c][i]) /\ t = <<"queued", c, inq'[c][i].n>>
          \/ pc'[c] \in Carrying /\ IsTest(nm'[c]) /\ t = <<"routing", c, 0>>
          \/ \E i \in nread'[c] + 1 .. Len(wire'[c]) : t = <<"written", c, i>>
          \/ pc'[c] \in {"none", "login", "answer"} /\ t = <<"login", c, 0>>
    BY DEF Counted, IsTest
  <2>2. CASE \E i \in 1 .. Len(inq'[c]) : IsTest(inq'[c][i]) /\ t = <<"queued", c, inq'[c][i].n>>
    <3>1. \E j \in 1 .. Len(inq[c]) : IsTest(inq[c][j]) /\ t = <<"queued", c, inq[c][j].n>>
      BY <2>2
    <3>2. QED BY <3>1 DEF Counted
  <2>3. QED BY <2>1, <2>2 DEF Counted
<1>2. Pot' \in SUBSET Pot
  BY <1>1, PotMember
<1>3. QED
  BY <1>2, OldAssumption, FS_Subset, FS_CardinalityType DEF BoundInv

\* At connection c a step adds nothing but b to what is counted, and takes a away.
Exchanged(a, b, c) ==
  /\ \A k \in 1 .. toSend'[c] : \/ <<"send", c, k>> = b
                                \/ k \in 1 .. toSend[c] /\ <<"send", c, k>> # a
  /\ \A i \in 1 .. Len(inq'[c]) : IsTest(inq'[c][i]) =>
       \/ <<"queued", c, inq'[c][i].n>> = b
       \/ /\ \E j \in 1 .. Len(inq[c]) : inq'[c][i] = inq[c][j]
          /\ <<"queued", c, inq'[c][i].n>> # a
  /\ pc'[c] \in Carrying /\ IsTest(nm'[c]) =>
       \/ <<"routing", c, 0>> = b
       \/ pc[c] \in Carrying /\ IsTest(nm[c]) /\ <<"routing", c, 0>> # a
  /\ \A i \in nread'[c] + 1 .. Len(wire'[c]) :
       \/ <<"written", c, i>> = b
       \/ i \in nread[c] + 1 .. Len(wire[c]) /\ <<"written", c, i>> # a
  /\ pc'[c] \in {"none", "login", "answer"} =>
       pc[c] \in {"none", "login", "answer"} /\ <<"login", c, 0>> # a

\* ... as does one that exchanges one of them for another.
LEMMA PotExchanges ==
  ASSUME BoundInv, NEW a, NEW b, Counted(a), \A c \in Conns : Exchanged(a, b, c)
  PROVE  IsFiniteSet(Pot') /\ Cardinality(Pot') <= Cardinality(Conns)
<1>1. \A t : Counted(t)' => t = b \/ (Counted(t) /\ t # a)
  <2> SUFFICES ASSUME NEW t, Counted(t)' PROVE t = b \/ (Counted(t) /\ t # a)
    OBVIOUS
  <2>1. PICK c \in Conns :
          \/ \E k \in 1 .. toSend'[c] : t = <<"send", c, k>>
          \/ \E i \in 1 .. Len(inq'[c]) : IsTest(inq'[c][i]) /\ t = <<"queued", c, inq'[c][i].n>>
          \/ pc'[c] \in Carrying /\ IsTest(nm'[c]) /\ t = <<"routing", c, 0>>
          \/ \E i \in nread'[c] + 1 .. Len(wire'[c]) : t = <<"written", c, i>>
          \/ pc'[c] \in {"none", "login", "answer"} /\ t = <<"login", c, 0>>
    BY DEF Counted, IsTest
  <2>2. CASE \E k \in 1 .. toSend'[c] : t = <<"send", c, k>>
    BY <2>2 DEF Counted, Exchanged
  <2>3. CASE \E i \in 1 .. Len(inq'[c]) : IsTest(inq'[c][i]) /\ t = <<"queued", c, inq'[c][i].n>>
    <3>1. \/ t = b
          \/ /\ \E j \in 1 .. Len(inq[c]) : IsTest(inq[c][j]) /\ t = <<"queued", c, inq[c][j].n>>
             /\ t # a
      BY <2>3 DEF Exchanged
    <3>2. QED BY <3>1 DEF Counted
  <2>4. CASE pc'[c] \in Carrying /\ IsTest(nm'[c]) /\ t = <<"routing", c, 0>>
    BY <2>4 DEF Counted, Exchanged
  <2>5. CASE \E i \in nread'[c] + 1 .. Len(wire'[c]) : t = <<"written", c, i>>
    BY <2>5 DEF Counted, Exchanged
  <2>6. CASE pc'[c] \in {"none", "login", "answer"} /\ t = <<"login", c, 0>>
    BY <2>6 DEF Counted, Exchanged
  <2>7. QED BY <2>1, <2>2, <2>3, <2>4, <2>5, <2>6
<1>2. a \in Pot /\ \A t \in Pot' : t = b \/ (t \in Pot /\ t # a)
  BY <1>1, PotMember
<1>3. IsFiniteSet(Pot') /\ Cardinality(Pot') <= Cardinality(Pot)
  BY <1>2, Exchange DEF BoundInv
<1>4. QED
  BY <1>3, OldAssumption, FS_CardinalityType DEF BoundInv

\* What a thread walks through m_lstNodes with is not for the server itself.
LEMMA WalkNext ==
  ASSUME TypeInv, WalkOK, Next
  PROVE  WalkOK'
<1>1. pc \in [Conns -> Pcs] /\ nm \in [Conns -> Messages]
  BY DEF TypeInv, TypeOK
<1> SUFFICES ASSUME NEW c \in Conns, pc'[c] \in Walking PROVE nm'[c].to # NODE_ID
  BY DEF WalkOK
<1>2. CASE pc[c] \in Walking /\ nm'[c] = nm[c]
  BY <1>2 DEF WalkOK
<1>3. ASSUME NEW d \in Conns, RouteLock(d) PROVE nm'[c].to # NODE_ID
  <2>1. CASE nm[d].to = NODE_ID
    <3>1. nm' = [nm EXCEPT ![d] = NoMessage] /\ Goto(d, "pop")
      BY <1>3, <2>1 DEF RouteLock, RouteDone
    <3>2. QED BY <1>1, <1>2, <3>1 DEF Goto, Walking
  <2>2. CASE nm[d].to # NODE_ID
    <3>1. UNCHANGED nm /\ Goto(d, "find")
      BY <1>3, <2>2 DEF RouteLock
    <3>2. QED BY <1>1, <1>2, <2>2, <3>1 DEF Goto
  <2>3. QED BY <2>1, <2>2
<1>4. ASSUME NEW d \in Conns,
             \/ Accept(d) \/ LoginRead(d) \/ SendLoginAnswer(d) \/ CloseSocket(d) \/ LoopExit(d)
             \/ LoopRead(d) \/ PopMessage(d)
      PROVE  pc[c] \in Walking /\ nm'[c] = nm[c]
  <2>1. /\ UNCHANGED nm \/ \E m : nm' = [nm EXCEPT ![d] = m] /\ Goto(d, "route")
        /\ UNCHANGED pc \/ \E l \in Pcs \ Walking : Goto(d, l)
    BY <1>4 DEF Accept, LoginRead, SendLoginAnswer, CloseSocket, LoopExit, LoopRead, PopMessage,
                Disconnect, CheckLogin, Pcs, Walking, routeVars
  <2>2. QED BY <1>1, <2>1 DEF Goto, Walking
<1>5. ASSUME NEW d \in Conns, RouteVisit(d) \/ RouteMiss(d) \/ EnqueueMsg(d) \/ WriteData(d)
      PROVE  pc[c] \in Walking /\ nm'[c] = nm[c]
  <2>1. pc[d] \in Walking
    BY <1>5 DEF RouteVisit, RouteMiss, EnqueueMsg, WriteData, Walking
  <2>2. \/ UNCHANGED nm /\ (UNCHANGED pc \/ \E l : Goto(d, l))
        \/ nm' = [nm EXCEPT ![d] = NoMessage] /\ Goto(d, "pop")
    BY <1>5 DEF RouteVisit, RouteMiss, EnqueueMsg, WriteData, RouteDone
  <2>3. QED BY <1>1, <2>1, <2>2 DEF Goto, Walking
<1>6. CASE UNCHANGED <<pc, nm>>
  BY <1>2, <1>6
<1>7. QED
  BY <1>2, <1>3, <1>4, <1>5, <1>6
     DEF Next, AcceptThread, NodeThread, NodeStart, PushBack, Client, serverVars, routeVars

\* The broker: a routed message takes the place of the one that was queued, a frame
\* that is written that of the one that was routed or of the login it answers.
LEMMA PotBroker ==
  ASSUME SafeInv, BoundInv, UNCHANGED toSend, AcceptThread \/ \E c \in Conns : NodeThread(c)
  PROVE  IsFiniteSet(Pot') /\ Cardinality(Pot') <= Cardinality(Conns)
<1> DEFINE Logging == {"none", "login", "answer"}
<1>1. /\ TypeInv /\ OwnInv /\ OnceInv /\ Next
      /\ wire \in [Conns -> Seq(Deliveries)] /\ nread \in [Conns -> Nat]
      /\ pc \in [Conns -> Pcs] /\ inq \in [Conns -> Seq(Messages)]
  BY DEF SafeInv, Next, TypeInv, TypeOK, SocketsTypeOK
<1>2. /\ UNCHANGED nread
      /\ \A x \in Conns : \A i \in 1 .. Len(inq'[x]) :
           \E j \in 1 .. Len(inq[x]) : inq'[x][i] = inq[x][j]
  <2>1. UNCHANGED nread
    BY DEF AcceptThread, NodeThread, Accept, NodeStart, PushBack, LoginRead, SendLoginAnswer,
           CloseSocket, LoopExit, LoopRead, PopMessage, RouteLock, RouteVisit, RouteMiss,
           EnqueueMsg, WriteData, sockVars
  <2>2. QED BY <1>1, <2>1, QueueStep
<1>3. \A c \in Conns : pc'[c] \in Logging => pc[c] \in Logging
  BY <1>1, NodeIdStep
<1>4. ASSUME NEW c \in Conns, LoopRead(c), UNCHANGED wire, NEW k \in 1 .. MaxSend,
             SysReadData(m_fdSocket[c], k), nm'[c] = inq[desc[m_fdSocket[c]]][1],
             IsTest(nm'[c])
      PROVE  IsFiniteSet(Pot') /\ Cardinality(Pot') <= Cardinality(Conns)
  <2> DEFINE f == m_fdSocket[c]
             x == desc[f]
  <2>1. k \in Nat /\ f \in Fds
    BY <1>1, <1>4, SocketsAssumption DEF LoopRead, TypeInv, Struct
  <2>2. UNCHANGED sent /\ pc[c] = "loop"
    BY <1>4 DEF LoopRead
  <2>3. PICK o \in Messages : o = inq[x][1] /\ o.src = x /\ Taken(o)'
    BY <1>1, <1>4, <2>1, <2>2, QueueRead DEF OnceInv
  <2>4. x \in Conns /\ 1 \in 1 .. Len(inq[x])
    <3>1. x \in Conns /\ k \in 1 .. Len(inq[x])
      BY <1>1, <1>4, <2>1 DEF SysReadData, TypeInv, TypeOK, SocketsTypeOK
    <3>2. QED BY <1>1, <3>1
  <2>5. \A i \in 1 .. Len(inq'[x]) : inq'[x][i].n # o.n
    <3>1. \A i \in 1 .. Len(inq'[x]) : o.n < inq'[x][i].n
      BY <2>3 DEF Taken
    <3>2. \A i \in 1 .. Len(inq'[x]) : inq'[x][i].n \in Nat
      <4>1. \A j \in 1 .. Len(inq[x]) : inq[x][j] \in Messages
        BY <1>1, <2>4
      <4>2. \A m \in Messages : m.n \in Nat
        BY DEF Messages
      <4>3. QED BY <1>2, <2>4, <4>1, <4>2
    <3>3. QED BY <3>1, <3>2, <2>3 DEF Messages
  <2>6. \A d \in Conns : d # c => pc'[d] = pc[d] /\ nm'[d] = nm[d]
    <3>1. /\ UNCHANGED nm \/ \E m : nm' = [nm EXCEPT ![c] = m]
          /\ \E l : Goto(c, l)
      BY <1>4 DEF LoopRead, Disconnect
    <3>2. nm \in [Conns -> Messages]
      BY <1>1 DEF TypeInv, TypeOK
    <3>3. QED BY <1>1, <3>1, <3>2 DEF Goto
  <2> DEFINE a == <<"queued", x, o.n>>
             b == <<"routing", c, 0>>
  <2>7. Counted(a)
    BY <1>4, <2>3, <2>4 DEF Counted
  <2>8. ASSUME NEW y \in Conns
        PROVE  Exchanged(a, b, y)
    <3>1. \A h \in 1 .. toSend'[y] : h \in 1 .. toSend[y] /\ <<"send", y, h>> # a
      OBVIOUS
    <3>2. \A i \in 1 .. Len(inq'[y]) :
            /\ \E j \in 1 .. Len(inq[y]) : inq'[y][i] = inq[y][j]
            /\ <<"queued", y, inq'[y][i].n>> # a
      BY <1>2, <2>5
    <3>3. pc'[y] \in Carrying /\ IsTest(nm'[y]) =>
            \/ <<"routing", y, 0>> = b
            \/ pc[y] \in Carrying /\ IsTest(nm[y]) /\ <<"routing", y, 0>> # a
      BY <2>6
    <3>4. \A i \in nread'[y] + 1 .. Len(wire'[y]) :
            i \in nread[y] + 1 .. Len(wire[y]) /\ <<"written", y, i>> # a
      BY <1>2, <1>4
    <3>5. QED BY <1>3, <3>1, <3>2, <3>3, <3>4 DEF Exchanged
  <2> HIDE DEF a, b
  <2>9. QED BY <2>7, <2>8, PotExchanges
<1>5. ASSUME NEW y \in Conns, NEW o \in Deliveries,
             wire' = [wire EXCEPT ![y] = Append(@, o)], NEW a, Counted(a),
             \A c \in Conns : /\ pc'[c] \in Carrying => /\ pc[c] \in Carrying /\ nm'[c] = nm[c]
                                                        /\ <<"routing", c, 0>> # a
                              /\ pc'[c] \in Logging => <<"login", c, 0>> # a,
             \A c, n : <<"send", c, n>> # a /\ <<"queued", c, n>> # a /\ <<"written", c, n>> # a
      PROVE  IsFiniteSet(Pot') /\ Cardinality(Pot') <= Cardinality(Conns)
  <2> DEFINE b == <<"written", y, Len(wire[y]) + 1>>
  <2>1. \A c \in Conns : \A i \in nread'[c] + 1 .. Len(wire'[c]) :
          <<"written", c, i>> = b \/ i \in nread[c] + 1 .. Len(wire[c])
    <3> SUFFICES ASSUME NEW c \in Conns, NEW i \in nread[c] + 1 .. Len(wire'[c])
                 PROVE  <<"written", c, i>> = b \/ i \in nread[c] + 1 .. Len(wire[c])
      BY <1>2
    <3>1. CASE c # y
      BY <1>1, <1>5, <3>1
    <3>2. CASE c = y
      <4>1. wire'[y] = Append(wire[y], o) /\ wire[y] \in Seq(Deliveries) /\ nread[y] \in Nat
        BY <1>1, <1>5
      <4>2. Len(wire'[y]) = Len(wire[y]) + 1 /\ Len(wire[y]) \in Nat
        BY <4>1
      <4>3. QED BY <3>2, <4>1, <4>2
    <3>3. QED BY <3>1, <3>2
  <2> HIDE DEF b
  <2>2. ASSUME NEW c \in Conns
        PROVE  Exchanged(a, b, c)
    <3>1. \A h \in 1 .. toSend'[c] : h \in 1 .. toSend[c] /\ <<"send", c, h>> # a
      BY <1>5
    <3>2. \A i \in 1 .. Len(inq'[c]) :
            /\ \E j \in 1 .. Len(inq[c]) : inq'[c][i] = inq[c][j]
            /\ <<"queued", c, inq'[c][i].n>> # a
      BY <1>2, <1>5
    <3>3. \A i \in nread'[c] + 1 .. Len(wire'[c]) :
            \/ <<"written", c, i>> = b
            \/ i \in nread[c] + 1 .. Len(wire[c]) /\ <<"written", c, i>> # a
      BY <1>5, <2>1
    <3>4. QED BY <1>3, <1>5, <3>1, <3>2, <3>3 DEF Exchanged
  <2>3. QED BY <1>5, <2>2, PotExchanges
<1>6. CASE UNCHANGED wire
  <2>1. CASE \A c \in Conns : pc'[c] \in Carrying /\ IsTest(nm'[c]) =>
                                pc[c] \in Carrying /\ IsTest(nm[c])
    BY <1>2, <1>3, <1>6, <2>1, PotShrinks
  <2>2. QED BY <1>1, <1>4, <1>6, <2>1, CarryStep
<1>7. ASSUME NEW y \in Conns, NEW o \in Deliveries,
             wire' = [wire EXCEPT ![y] = Append(@, o)],
             Routed(o) => \E c \in Conns : /\ pc[c] = "write" /\ o.msg = nm[c]
                                           /\ pc'[c] \notin Carrying,
             ~Routed(o) => \E c \in Conns : pc[c] = "answer" /\ pc'[c] = "loop"
      PROVE  IsFiniteSet(Pot') /\ Cardinality(Pot') <= Cardinality(Conns)
  <2>1. wire' # wire
    <3>1. wire'[y] = Append(wire[y], o) /\ wire[y] \in Seq(Deliveries)
      BY <1>1, <1>7
    <3>2. Len(wire'[y]) # Len(wire[y])
      BY <3>1
    <3>3. QED BY <3>2
  <2>2. \A c \in Conns : pc'[c] \in Carrying => pc[c] \in Carrying /\ nm'[c] = nm[c]
    BY <1>1, <2>1, CarryStep
  <2>3. CASE Routed(o)
    <3>1. PICK c \in Conns : pc[c] = "write" /\ o.msg = nm[c] /\ pc'[c] \notin Carrying
      BY <1>7, <2>3
    <3>2. IsTest(nm[c])
      BY <1>1, <3>1 DEF OnceInv, CarriedOK, Taken, ByClient, BoundInv, WalkOK, Carrying, Walking,
                        IsTest
    <3> DEFINE a == <<"routing", c, 0>>
    <3>3. Counted(a)
      BY <3>1, <3>2 DEF Counted, Carrying, Walking
    <3>4. /\ \A d \in Conns : /\ pc'[d] \in Carrying => <<"routing", d, 0>> # a
                              /\ <<"login", d, 0>> # a
          /\ \A d, n : <<"send", d, n>> # a /\ <<"queued", d, n>> # a /\ <<"written", d, n>> # a
      BY <3>1
    <3> HIDE DEF a
    <3>5. QED BY <1>5, <1>7, <2>2, <3>3, <3>4
  <2>4. CASE ~Routed(o)
    <3>1. PICK c \in Conns : pc[c] = "answer" /\ pc'[c] = "loop"
      BY <1>7, <2>4
    <3> DEFINE a == <<"login", c, 0>>
    <3>2. Counted(a)
      BY <3>1 DEF Counted
    <3>3. /\ \A d \in Conns : /\ pc'[d] \in Logging => <<"login", d, 0>> # a
                              /\ <<"routing", d, 0>> # a
          /\ \A d, n : <<"send", d, n>> # a /\ <<"queued", d, n>> # a /\ <<"written", d, n>> # a
      BY <3>1
    <3> HIDE DEF a
    <3>4. QED BY <1>5, <1>7, <2>2, <3>2, <3>3
  <2>5. QED BY <2>3, <2>4
<1>8. QED BY <1>1, <1>6, <1>7, WrittenStep

\* A thread that goes on without an answer, and a client that connects, logs in or
\* closes, bring no message into the system.
LEMMA PotOthers ==
  ASSUME SafeInv, BoundInv, UNCHANGED toSend, NEW c \in Conns,
         AnswerNotSent(c) \/ Connect(c) \/ LoginWrite(c) \/ Exit(c)
  PROVE  IsFiniteSet(Pot') /\ Cardinality(Pot') <= Cardinality(Conns)
<1>1. pc \in [Conns -> Pcs] /\ inq \in [Conns -> Seq(Messages)]
  BY DEF SafeInv, TypeInv, TypeOK, SocketsTypeOK
<1>2. UNCHANGED <<nread, wire, nm>>
  BY DEF AnswerNotSent, SysWriteError, Connect, LoginWrite, Exit, ClientConnect, ClientWrite,
         ClientClose, routeVars, serverVars
<1>3. UNCHANGED pc \/ pc' = [pc EXCEPT ![c] = "loop"]
  BY DEF AnswerNotSent, Goto, Connect, LoginWrite, Exit, serverVars
<1>4. \A d \in Conns : /\ pc'[d] \in Carrying => pc[d] \in Carrying
                       /\ pc'[d] \in {"none", "login", "answer"} =>
                            pc[d] \in {"none", "login", "answer"}
  BY <1>1, <1>3 DEF Carrying, Walking
<1>5. \A d \in Conns : \A i \in 1 .. Len(inq'[d]) : IsTest(inq'[d][i]) =>
        \E j \in 1 .. Len(inq[d]) : inq'[d][i] = inq[d][j]
  <2>1. CASE UNCHANGED inq
    BY <2>1
  <2>2. CASE LoginWrite(c)
    <3> DEFINE m == LoginMessage(c, sent[c] + 1, cnNodeId[c])
    <3>1. inq' = [inq EXCEPT ![c] = Append(@, m)] /\ ~IsTest(m)
      BY <2>2 DEF LoginWrite, ClientWrite, LoginMessage, IsTest
    <3> HIDE DEF m
    <3>2. inq'[c] = Append(inq[c], m) /\ inq[c] \in Seq(Messages)
      BY <1>1, <3>1
    <3>3. \A i \in 1 .. Len(inq'[c]) :
            inq'[c][i] = m \/ \E j \in 1 .. Len(inq[c]) : inq'[c][i] = inq[c][j]
      BY <3>2
    <3>4. \A d \in Conns : d # c => inq'[d] = inq[d]
      BY <1>1, <3>1
    <3>5. QED BY <3>1, <3>3, <3>4
  <2>3. QED
    BY <2>1, <2>2 DEF AnswerNotSent, Connect, Exit, ClientConnect, ClientClose
<1>6. QED BY <1>2, <1>4, <1>5, PotShrinks

\* A client that reads may be about to send, for one of the frames it has read.
LEMMA PotRead ==
  ASSUME SafeInv, BoundInv, NEW c \in Conns, NEW k \in 1 .. Unread(c), ClientTake(c, k),
         NEW n \in {0, 1}, toSend' = [toSend EXCEPT ![c] = n], UNCHANGED serverVars
  PROVE  IsFiniteSet(Pot') /\ Cardinality(Pot') <= Cardinality(Conns)
<1>1. /\ wire \in [Conns -> Seq(Deliveries)] /\ nread \in [Conns -> Nat]
      /\ toSend \in [Conns -> {0, 1}]
  BY DEF SafeInv, TypeInv, TypeOK, SocketsTypeOK, BoundInv
<1>2. UNCHANGED <<inq, wire, pc, nm>> /\ nread' = [nread EXCEPT ![c] = @ + k]
  BY DEF ClientTake, serverVars, routeVars
<1>3. k \in Nat /\ k >= 1 /\ nread[c] \in Nat /\ Len(wire[c]) \in Nat /\ nread[c] + k <= Len(wire[c])
  BY <1>1 DEF Unread
<1> DEFINE a == <<"written", c, nread[c] + 1>>
           b == <<"send", c, 1>>
<1>4. Counted(a)
  BY <1>3 DEF Counted
<1>5. ASSUME NEW d \in Conns
      PROVE  Exchanged(a, b, d)
  <2>1. \A h \in 1 .. toSend'[d] : \/ <<"send", d, h>> = b
                                   \/ h \in 1 .. toSend[d] /\ <<"send", d, h>> # a
    <3>1. CASE d = c
      <4>1. toSend'[d] \in {0, 1}
        BY <1>1, <3>1
      <4>2. \A h \in 1 .. toSend'[d] : h = 1
        BY <4>1
      <4>3. QED BY <3>1, <4>2
    <3>2. CASE d # c
      BY <1>1, <3>2
    <3>3. QED BY <3>1, <3>2
  <2>2. \A i \in 1 .. Len(inq'[d]) : /\ \E j \in 1 .. Len(inq[d]) : inq'[d][i] = inq[d][j]
                                     /\ <<"queued", d, inq'[d][i].n>> # a
    BY <1>2
  <2>3. \A i \in nread'[d] + 1 .. Len(wire'[d]) :
          i \in nread[d] + 1 .. Len(wire[d]) /\ <<"written", d, i>> # a
    <3>1. CASE d = c
      BY <1>1, <1>2, <1>3, <3>1
    <3>2. CASE d # c
      BY <1>1, <1>2, <3>2
    <3>3. QED BY <3>1, <3>2
  <2>4. QED BY <1>2, <2>1, <2>2, <2>3 DEF Exchanged
<1> HIDE DEF a, b
<1>6. QED BY <1>4, <1>5, PotExchanges

\* A client that has met the end of the stream sends no more.
LEMMA PotEof ==
  ASSUME BoundInv, NEW c \in Conns, ClientClose(c), toSend' = [toSend EXCEPT ![c] = 0],
         UNCHANGED serverVars
  PROVE  IsFiniteSet(Pot') /\ Cardinality(Pot') <= Cardinality(Conns)
<1>1. UNCHANGED <<nread, wire, nm, pc, inq>>
  BY DEF ClientClose, serverVars, routeVars
<1>2. \A d \in Conns : \A k \in 1 .. toSend'[d] : k \in 1 .. toSend[d]
  <2>1. \A d \in Conns : toSend'[d] = 0 \/ toSend'[d] = toSend[d]
    BY DEF BoundInv
  <2>2. QED BY <2>1
<1>3. QED BY <1>1, <1>2, PotShrinks

\* What a client was about to send it sends, or not.
LEMMA PotSend ==
  ASSUME SafeInv, BoundInv, NEW c \in Conns, OldSendMessage(c)
  PROVE  IsFiniteSet(Pot') /\ Cardinality(Pot') <= Cardinality(Conns)
<1>1. /\ inq \in [Conns -> Seq(Messages)] /\ toSend \in [Conns -> {0, 1}]
      /\ sent \in [Conns -> Nat]
  BY DEF SafeInv, TypeInv, TypeOK, SocketsTypeOK, BoundInv
<1>2. /\ toSend[c] = 1 /\ toSend' = [toSend EXCEPT ![c] = 0]
      /\ UNCHANGED <<nread, wire, nm, pc>>
      /\ \/ UNCHANGED inq
         \/ \E id \in Dests :
              inq' = [inq EXCEPT ![c] = Append(@, TestMessage(c, sent[c] + 1, id))]
  <2>1. toSend[c] = 1 /\ toSend' = [toSend EXCEPT ![c] = 0]
    <3>1. toSend[c] \in {0, 1} /\ toSend[c] > 0
      BY <1>1 DEF OldSendMessage
    <3>2. toSend[c] = 1 /\ toSend[c] - 1 = 0
      BY <3>1
    <3>3. toSend' = [toSend EXCEPT ![c] = toSend[c] - 1]
      BY DEF OldSendMessage
    <3>4. QED BY <3>2, <3>3
  <2>2. CASE UNCHANGED allVars
    BY <2>1, <2>2 DEF allVars, vars, sockVars, serverVars, routeVars
  <2>3. CASE SendMessage(c)
    BY <2>1, <2>3 DEF SendMessage, ClientWrite, serverVars, routeVars
  <2>4. QED BY <2>2, <2>3 DEF OldSendMessage
<1> DEFINE a == <<"send", c, 1>>
           b == <<"queued", c, sent[c] + 1>>
<1>3. Counted(a)
  BY <1>2 DEF Counted
<1>4. ASSUME NEW d \in Conns
      PROVE  Exchanged(a, b, d)
  <2>1. \A h \in 1 .. toSend'[d] : h \in 1 .. toSend[d] /\ <<"send", d, h>> # a
    <3>1. CASE d = c
      <4>1. toSend'[d] = 0
        BY <1>1, <1>2, <3>1
      <4>2. QED BY <4>1
    <3>2. CASE d # c
      BY <1>1, <1>2, <3>2
    <3>3. QED BY <3>1, <3>2
  <2>2. \A i \in 1 .. Len(inq'[d]) :
          \/ <<"queued", d, inq'[d][i].n>> = b
          \/ /\ \E j \in 1 .. Len(inq[d]) : inq'[d][i] = inq[d][j]
             /\ <<"queued", d, inq'[d][i].n>> # a
    <3>1. CASE inq'[d] = inq[d]
      BY <3>1
    <3>2. ASSUME NEW id \in Dests,
                 inq' = [inq EXCEPT ![c] = Append(@, TestMessage(c, sent[c] + 1, id))], d = c
          PROVE  \A i \in 1 .. Len(inq'[d]) :
                   \/ <<"queued", d, inq'[d][i].n>> = b
                   \/ /\ \E j \in 1 .. Len(inq[d]) : inq'[d][i] = inq[d][j]
                      /\ <<"queued", d, inq'[d][i].n>> # a
      <4> DEFINE m == TestMessage(c, sent[c] + 1, id)
      <4>1. m.n = sent[c] + 1
        BY DEF TestMessage
      <4>2. inq'[c] = Append(inq[c], m) /\ inq[c] \in Seq(Messages)
        BY <1>1, <3>2
      <4> HIDE DEF m
      <4>3. \A i \in 1 .. Len(inq'[c]) :
              inq'[c][i] = m \/ \E j \in 1 .. Len(inq[c]) : inq'[c][i] = inq[c][j]
        BY <4>2
      <4>4. QED BY <3>2, <4>1, <4>3
    <3>3. QED BY <1>1, <1>2, <3>1, <3>2
  <2>3. QED BY <1>2, <2>1, <2>2 DEF Exchanged
<1> HIDE DEF a, b
<1>5. QED BY <1>3, <1>4, PotExchanges

\* BoundInv is inductive relative to SafeInv.
LEMMA BoundNext == SafeInv /\ BoundInv /\ [OldNext]_oldVars => BoundInv'
<1> SUFFICES ASSUME SafeInv, BoundInv, [OldNext]_oldVars PROVE BoundInv'
  OBVIOUS
<1>1. toSend \in [Conns -> {0, 1}] /\ pc \in [Conns -> Pcs] /\ TypeInv /\ IdInv
  BY DEF SafeInv, BoundInv, TypeInv, TypeOK, AgreeInv
<1>2. WalkOK'
  <2>1. CASE UNCHANGED vars
    BY <2>1 DEF BoundInv, WalkOK, vars, serverVars, routeVars
  <2>2. CASE \E c \in Conns : AnswerNotSent(c)
    BY <1>1, <2>2 DEF BoundInv, WalkOK, AnswerNotSent, Goto, routeVars, Walking
  <2>3. CASE ClientsNext
    BY <1>1, <2>3, BrokerStep, WalkNext DEF BoundInv
  <2>4. QED BY <2>1, <2>2, <2>3, OldStep DEF allVars
<1>3. toSend' \in [Conns -> {0, 1}] /\ IsFiniteSet(Pot') /\ Cardinality(Pot') <= Cardinality(Conns)
  <2>1. CASE UNCHANGED oldVars
    <3>1. UNCHANGED <<toSend, inq, pc, nm, nread, wire>>
      BY <2>1 DEF oldVars, allVars, vars, sockVars, serverVars, routeVars
    <3>2. QED BY <1>1, <3>1, PotShrinks
  <2>2. CASE (OldAcceptThread \/ \E c \in Conns : OldNodeThread(c)) /\ UNCHANGED <<clientVars, toSend>>
    <3>1. \/ AcceptThread \/ \E c \in Conns : NodeThread(c)
          \/ \E c \in Conns : AnswerNotSent(c)
      <4>1. ASSUME NEW c \in Conns, OldSendLoginAnswer(c)
            PROVE  SendLoginAnswer(c) \/ AnswerNotSent(c)
        BY <2>2, <4>1 DEF OldSendLoginAnswer, SendLoginAnswer, AnswerNotSent
      <4>2. QED
        BY <2>2, <4>1 DEF OldAcceptThread, OldNodeThread, OldRemoteNode, OldRouteMessage,
                          OldEnqueueMsg, NodeThread
    <3>2. QED BY <1>1, <2>2, <3>1, PotBroker, PotOthers
  <2>3. ASSUME NEW c \in Conns, OldClient(c) \/ OldExit(c)
        PROVE  /\ toSend' \in [Conns -> {0, 1}]
               /\ IsFiniteSet(Pot') /\ Cardinality(Pot') <= Cardinality(Conns)
    <3>1. CASE UNCHANGED toSend /\ (Connect(c) \/ LoginWrite(c) \/ Exit(c))
      BY <1>1, <3>1, PotOthers
    <3>2. CASE /\ LoginReadAnswer(c)
               /\ toSend' = [toSend EXCEPT ![c] = IF cnStatus'[c] = "NODE_ACCEPTED" THEN 1 ELSE 0]
      <4>1. UNCHANGED serverVars /\ appPc[c] = "answer"
        BY <3>2 DEF LoginReadAnswer
      <4>2. CASE \E k \in 1 .. Unread(c) : ClientTake(c, k)
        BY <1>1, <3>2, <4>1, <4>2, PotRead
      <4>3. CASE ClientClose(c) /\ UNCHANGED cnStatus
        <5>1. cnStatus[c] # "NODE_ACCEPTED"
          BY <4>1 DEF SafeInv, AgreeInv, HonestOK
        <5>2. toSend' = [toSend EXCEPT ![c] = 0]
          BY <3>2, <4>3, <5>1
        <5>3. QED BY <1>1, <4>1, <4>3, <5>2, PotEof
      <4>4. QED BY <3>2, <4>2, <4>3 DEF LoginReadAnswer
    <3>3. CASE OldReadMessage(c)
      <4>1. UNCHANGED serverVars
        BY <3>3 DEF OldReadMessage, ReadMessage
      <4>2. PICK n \in {0, 1} : toSend' = [toSend EXCEPT ![c] = n] /\ (n = 1 => nread'[c] # nread[c])
        BY <3>3 DEF OldReadMessage
      <4>3. CASE \E k \in 1 .. Unread(c) : ClientTake(c, k)
        BY <1>1, <4>1, <4>2, <4>3, PotRead
      <4>4. CASE ClientClose(c)
        <5>1. n = 0
          BY <4>2, <4>4 DEF ClientClose
        <5>2. QED BY <1>1, <4>1, <4>2, <4>4, <5>1, PotEof
      <4>5. QED BY <3>3, <4>3, <4>4 DEF OldReadMessage, ReadMessage, ClientRead
    <3>4. CASE OldSendMessage(c)
      <4>1. toSend' \in [Conns -> {0, 1}]
        BY <1>1, <3>4 DEF OldSendMessage
      <4>2. QED BY <3>4, <4>1, PotSend
    <3>5. QED
      BY <2>3, <3>1, <3>2, <3>3, <3>4 DEF OldClient, OldExit, OldConnect, OldLogin
  <2>4. QED BY <2>1, <2>2, <2>3 DEF OldNext
<1>4. QED BY <1>2, <1>3 DEF BoundInv

\* Before the first connection every client has its login before it, and no more.
LEMMA BoundInit == OldInit => BoundInv
<1> SUFFICES ASSUME OldInit PROVE BoundInv
  OBVIOUS
<1>1. /\ toSend = [c \in Conns |-> 0] /\ pc = [c \in Conns |-> "none"]
      /\ inq = [c \in Conns |-> <<>>] /\ wire = [c \in Conns |-> <<>>]
      /\ nread = [c \in Conns |-> 0]
  BY DEF OldInit, ClientsInit, Init, SocketsInit
<1>2. \A t : Counted(t) <=> \E c \in Conns : t = <<"login", c, 0>>
  BY <1>1 DEF Counted, Carrying, Walking
<1>3. Pot = {<<"login", c, 0>> : c \in Conns}
  BY <1>2, PotMember
<1>4. IsFiniteSet(Pot) /\ Cardinality(Pot) <= Cardinality(Conns)
  <2> DEFINE g == [t \in Pot |-> t[2]]
  <2>1. \A t \in Pot : \E c \in Conns : t = <<"login", c, 0>> /\ t[2] = c
    BY <1>3
  <2>2. g \in [Pot -> Conns]
    BY <2>1
  <2>3. \A t, u \in Pot : g[t] = g[u] => t = u
    BY <2>1
  <2>4. g \in Injection(Pot, Conns)
    BY <2>2, <2>3 DEF Injection, IsInjective
  <2>5. QED BY <2>4, OldAssumption, FS_Injection
<1>5. QED BY <1>1, <1>4 DEF BoundInv, WalkOK, Walking

\* There are never more messages under way than clients, whatever their number.
THEOREM OldMessagesBounded == OldSpec => []MessagesBounded
<1>1. BoundInv => MessagesBounded
  <2> SUFFICES ASSUME BoundInv PROVE MessagesBounded
    OBVIOUS
  <2>1. Written \subseteq Unseen
    BY DEF Written, Unseen
  <2>2. InFlight \in SUBSET Pot
    BY <2>1 DEF InFlight, Pot
  <2>3. IsFiniteSet(InFlight) /\ Cardinality(InFlight) <= Cardinality(Pot)
    BY <2>2, FS_Subset DEF BoundInv
  <2>4. QED
    BY <2>3, OldAssumption, FS_CardinalityType DEF BoundInv, MessagesBounded
<1>2. QED BY <1>1, SafeInit, SafeNext, BoundInit, BoundNext, PTL DEF OldSpec

\* If one more frame is on its way, no more than all but one are unread at a connection.
LEMMA UnreadBounded ==
  ASSUME SafeInv, BoundInv, NEW d \in Conns, NEW e, Counted(e), \A i : e # <<"written", d, i>>
  PROVE  Unread(d) < Cardinality(Conns)
<1>1. /\ nread[d] \in Nat /\ Len(wire[d]) \in Nat
      /\ Cardinality(Pot) \in Nat /\ Cardinality(Conns) \in Nat
  BY OldAssumption, FS_CardinalityType DEF SafeInv, TypeInv, TypeOK, SocketsTypeOK, BoundInv
<1> DEFINE U == nread[d] + 1 .. Len(wire[d])
           P == Pot \ {e}
           g == [i \in U |-> <<"written", d, i>>]
<1>2. IsFiniteSet(P) /\ Cardinality(P) = Cardinality(Pot) - 1
  <2>1. e \in Pot
    BY PotMember
  <2>2. QED BY <2>1, FS_RemoveElement DEF BoundInv
<1>3. g \in Injection(U, P)
  <2>1. \A i \in U : Counted(<<"written", d, i>>)
    BY DEF Counted
  <2>2. \A i \in U : <<"written", d, i>> \in P
    BY <2>1, PotMember
  <2>3. \A i, j \in U : g[i] = g[j] => i = j
    OBVIOUS
  <2> HIDE DEF U, P
  <2>4. QED BY <2>2, <2>3 DEF Injection, IsInjective
<1> HIDE DEF P, g
<1>4. IsFiniteSet(U) /\ Cardinality(U) <= Cardinality(P)
  <2> HIDE DEF U
  <2>1. QED BY <1>2, <1>3, FS_Injection
<1>5. Cardinality(U) = IF nread[d] + 1 > Len(wire[d]) THEN 0 ELSE Len(wire[d]) - nread[d]
  <2>1. nread[d] + 1 \in Int /\ Len(wire[d]) \in Int
    BY <1>1
  <2>2. Cardinality(U) = IF nread[d] + 1 > Len(wire[d]) THEN 0
                         ELSE Len(wire[d]) - (nread[d] + 1) + 1
    BY <2>1, FS_Interval
  <2> HIDE DEF U
  <2>3. QED BY <1>1, <2>2
<1> HIDE DEF U
<1>6. QED BY <1>1, <1>2, <1>4, <1>5 DEF Unread, BoundInv

\* No write of the pthread broker waits for its client to read, whatever the number of
\* clients and whether their logins succeed, if a send queue holds one frame of each.
THEOREM OldWritesDoNotBlock == OldSpec => []WritesDoNotBlock
<1>1. SafeInv /\ BoundInv => WritesDoNotBlock
  <2> SUFFICES ASSUME SafeInv, BoundInv, SndCap >= Cardinality(Conns), NEW c \in Conns,
                      NEW d \in Conns, pc[c] \in {"answer", "write"}
               PROVE  Unread(d) < SndCap
    BY DEF WritesDoNotBlock
  <2>1. Unread(d) < Cardinality(Conns)
    <3>1. CASE pc[c] = "answer"
      <4> DEFINE e == <<"login", c, 0>>
      <4>1. Counted(e) /\ \A i : e # <<"written", d, i>>
        BY <3>1 DEF Counted
      <4> HIDE DEF e
      <4>2. QED BY <4>1, UnreadBounded
    <3>2. CASE pc[c] = "write"
      <4>1. IsTest(nm[c])
        BY <3>2 DEF SafeInv, OnceInv, CarriedOK, Taken, ByClient, BoundInv, WalkOK, Carrying,
                    Walking, IsTest
      <4> DEFINE e == <<"routing", c, 0>>
      <4>2. Counted(e) /\ \A i : e # <<"written", d, i>>
        BY <3>2, <4>1 DEF Counted, Carrying, Walking
      <4> HIDE DEF e
      <4>3. QED BY <4>2, UnreadBounded
    <3>3. QED BY <3>1, <3>2
  <2>2. Unread(d) \in Int
    <3>1. nread[d] \in Nat /\ wire[d] \in Seq(Deliveries)
      BY DEF SafeInv, TypeInv, TypeOK, SocketsTypeOK
    <3>2. QED BY <3>1 DEF Unread
  <2>3. Cardinality(Conns) \in Nat /\ SndCap \in Nat
    BY OldAssumption, SocketsAssumption, FS_CardinalityType
  <2>4. QED BY <2>1, <2>2, <2>3
<1>2. QED BY <1>1, SafeInit, SafeNext, BoundInit, BoundNext, PTL DEF OldSpec

==============================================================================
