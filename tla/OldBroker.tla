----------------------------- MODULE OldBroker -----------------------------
(***************************************************************************)
(* src/corebroker_oldcpp, the pthread version of the broker and its client *)
(* in one program.  Its threads take the steps of SocketServer and of the  *)
(* TClientNode of Clients, with two differences: a login answer that       *)
(* cannot be sent is only logged, and the node's thread goes on; and the   *)
(* client sends one message after its login, even a failed one, and then   *)
(* one for each message it gets.                                           *)
(***************************************************************************)
EXTENDS Clients, FiniteSets

\* However many clients there are, they are finitely many.
ASSUME OldAssumption == IsFiniteSet(Conns)

VARIABLE toSend   \* how many messages the client's main is about to send

oldVars == <<allVars, toSend>>

OldInit == ClientsInit /\ toSend = [c \in Conns |-> 0]

---------------------------------------------------------------------------
(* The broker.                                                             *)

\* Mutant: the thread returns when the answer cannot be sent.
OldSendLoginAnswerReturns(c) ==
  /\ up
  /\ pc[c] = "answer"
  /\ LET f == m_fdSocket[c] IN
       \/ /\ SysWriteOk(f, [msg |-> LoginAnswer(c, m_nodeId[c]), via |-> c]) \/ SysWriteLost(f)
          /\ Goto(c, "loop")
       \/ SysWriteError(f) /\ Goto(c, "done")
  /\ UNCHANGED <<backlog, inq, sent, budget, nread, desc, acceptVars, nodeVars, routeVars, up>>

\* Mutant: the answer is sent again until the client has read one.
OldSendLoginAnswerRepeats(c) ==
  /\ up
  /\ pc[c] = "answer"
  /\ LET f == m_fdSocket[c] IN
       /\ \/ SysWriteOk(f, [msg |-> LoginAnswer(c, m_nodeId[c]), via |-> c])
          \/ SysWriteLost(f)
          \/ SysWriteError(f)
       /\ IF nread[c] = 0 /\ peer[c] = "open" THEN UNCHANGED pc ELSE Goto(c, "loop")
  /\ UNCHANGED <<backlog, inq, sent, budget, nread, desc, acceptVars, nodeVars, routeVars, up>>

\* sendLoginAnswer: the result of its write is not looked at.
OldSendLoginAnswer(c) ==
  /\ up
  /\ pc[c] = "answer"
  /\ LET f == m_fdSocket[c] IN
       \/ /\ \/ SysWriteOk(f, [msg |-> LoginAnswer(c, m_nodeId[c]), via |-> c])
             \/ SysWriteLost(f)
             \/ SysWriteError(f)
          /\ Goto(c, "loop")
          /\ UNCHANGED up
       \/ /\ SysWriteKills(f)
          /\ up' = FALSE
          /\ UNCHANGED <<peer, wire, err, pc>>
  /\ UNCHANGED <<backlog, inq, sent, budget, nread, desc, acceptVars, nodeVars, routeVars>>

\* TRemoteNode::operator()
OldRemoteNode(c) ==
  LoginRead(c) \/ OldSendLoginAnswer(c) \/ CloseSocket(c) \/ LoopExit(c) \/ LoopRead(c) \/ PopMessage(c)

\* TSocketServer::routeMessage, up to the node it finds.
OldRouteMessage(c) == RouteLock(c) \/ RouteVisit(c) \/ RouteMiss(c)

\* TRemoteNode::EnqueueMsg of that node, and the unlocking of both mutexes.
OldEnqueueMsg(c) == EnqueueMsg(c) \/ WriteData(c)

\* The loop of TSocketServer::operator().
OldAcceptThread == AcceptThread

---------------------------------------------------------------------------
(* The client.                                                             *)

OldConnect(c) == Connect(c) /\ UNCHANGED toSend

\* login(), whose result main only logs before it sends its first message; without it
\* sendMessage does nothing.
OldLogin(c) ==
  \/ LoginWrite(c) /\ UNCHANGED toSend
  \/ /\ LoginReadAnswer(c)
     /\ toSend' = [toSend EXCEPT ![c] = IF cnStatus'[c] = "NODE_ACCEPTED" THEN 1 ELSE 0]

\* fromFile and sendMessage; nothing is sent when the file cannot be read.
OldSendMessage(c) ==
  /\ up
  /\ toSend[c] > 0
  /\ toSend' = [toSend EXCEPT ![c] = @ - 1]
  /\ \/ SendMessage(c)
     \/ UNCHANGED allVars

\* Mutant: main sends also when readMessage has found nothing.
OldReadMessageUnchecked(c) ==
  /\ up
  /\ appPc[c] = "run"
  /\ toSend[c] = 0
  /\ toSend' = [toSend EXCEPT ![c] = 1]
  /\ UNCHANGED allVars

\* readMessage by main's loop: one read and the message in it, if it is found.
OldReadMessage(c) ==
  /\ toSend[c] = 0
  /\ ReadMessage(c)
  /\ \E n \in {0, 1} :
       /\ n = 1 => nread'[c] # nread[c]
       /\ toSend' = [toSend EXCEPT ![c] = n]

OldClient(c) == OldConnect(c) \/ OldLogin(c) \/ OldSendMessage(c) \/ OldReadMessage(c)

OldExit(c) == Exit(c) /\ UNCHANGED toSend

---------------------------------------------------------------------------
OldNodeThread(c) == OldRemoteNode(c) \/ OldRouteMessage(c) \/ OldEnqueueMsg(c)

OldNext ==
  \/ (OldAcceptThread \/ \E c \in Conns : OldNodeThread(c)) /\ UNCHANGED <<clientVars, toSend>>
  \/ \E c \in Conns : OldClient(c) \/ OldExit(c)

OldSpec == OldInit /\ [][OldNext]_oldVars

---------------------------------------------------------------------------
(* Properties.                                                             *)

IsTest(m) == m.name = "MSG_TEST"

\* The messages of client programs in the care of the system, each named by where it
\* is: about to be sent, sent and not read by the broker, being routed, written and
\* not read by the client.
ToSend == UNION {{<<"send", c, k>> : k \in 1 .. toSend[c]} : c \in Conns}
Queued == UNION {{<<"queued", c, inq[c][i].n>> :
                    i \in {j \in 1 .. Len(inq[c]) : IsTest(inq[c][j])}} : c \in Conns}
Routing == {<<"routing", c, 0>> :
              c \in {x \in Conns : pc[x] \in {"route", "find", "enqueue", "write"} /\ IsTest(nm[x])}}
Written == UNION {{<<"written", c, i>> :
                     i \in {j \in nread[c] + 1 .. Len(wire[c]) : IsTest(wire[c][j].msg)}} : c \in Conns}

InFlight == ToSend \cup Queued \cup Routing \cup Written

\* Because each client sends one message and then one per message it has got, there
\* are never more messages under way than clients, however they are routed.
MessagesBounded == Cardinality(InFlight) <= Cardinality(Conns)

\* So no write of the broker ever has to wait for a client to read, not even for one
\* that never reads again because its login failed, if a send queue holds as many frames
\* as there are clients.
WritesDoNotBlock ==
  SndCap >= Cardinality(Conns) =>
    \A c, d \in Conns :
      \/ pc[c] = "answer" /\ d = desc[m_fdSocket[c]]
      \/ pc[c] = "write" /\ d = desc[m_fdSocket[m_lstNodes[it[c]]]]
      => Unread(d) < SndCap

=============================================================================
