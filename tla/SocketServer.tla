---------------------------- MODULE SocketServer ----------------------------
(***************************************************************************)
(* The broker of src/common/tnodenet: TSocketServer's accept thread and    *)
(* one TRemoteNode with a thread of its own per accepted connection.       *)
(* A node waits for a login, answers it, then reads messages and hands     *)
(* each to TSocketServer::routeMessage, which runs in the reading node's   *)
(* thread, looks the destination up in m_lstNodes and writes the message   *)
(* to the descriptor number stored in the node it found.                   *)
(*                                                                         *)
(* A TRemoteNode is named by the connection it was created for.  Each step *)
(* is one thread up to its next lock, system call or access to what        *)
(* another thread writes.                                                  *)
(***************************************************************************)
EXTENDS Sockets

CONSTANT DefaultGw   \* m_defaultGw # nullptr

ASSUME ServerAssumption == DefaultGw \in BOOLEAN

VARIABLES
  acceptPc,              \* the accept thread: next statement of its loop
  accepted,              \* its local n
  m_lstNodes,
  m_fdSocket, m_nodeId, m_nodeStatus, m_threadStatus,   \* of each TRemoteNode
  m_lstMessages,         \* length of the node's list
  m_mutexQueueMessages,  \* who holds the node's queue mutex
  m_mutexRoute,          \* who holds the server's route mutex
  pc,                    \* each node's thread
  nm,                    \* the message it is routing
  it,                    \* its position in m_lstNodes
  gwSent,                \* messages handed to the default gateway
  up,                    \* the process is running
  revived                \* history: nodes whose TH_STOP start() overwrote

acceptVars == <<acceptPc, accepted, m_lstNodes, revived>>
nodeVars == <<m_fdSocket, m_nodeId, m_nodeStatus, m_threadStatus>>
routeVars == <<m_lstMessages, m_mutexQueueMessages, m_mutexRoute, nm, it, gwSent>>
serverVars == <<acceptVars, nodeVars, routeVars, pc, up>>
vars == <<sockVars, serverVars>>

\* NODE_REJECTED is never assigned.
NodeStatus == {"NODE_CONNECTED", "NODE_ACCEPTED", "NODE_DISCONNECTED"}
ThreadStatus == {"TH_START", "TH_STOP", "TH_PAUSE"}
Pcs == {"none", "login", "login_close", "answer", "loop", "loop_close", "route",
        "find", "enqueue", "write", "pop", "pop_lock", "done"}

Init ==
  /\ SocketsInit
  /\ acceptPc = "accept"
  /\ accepted = NoConn
  /\ m_lstNodes = <<>>
  /\ m_fdSocket = [c \in Conns |-> NoFd]
  /\ m_nodeId = [c \in Conns |-> 0]
  /\ m_nodeStatus = [c \in Conns |-> "NODE_CONNECTED"]
  /\ m_threadStatus = [c \in Conns |-> "TH_PAUSE"]
  /\ m_lstMessages = [c \in Conns |-> 0]
  /\ m_mutexQueueMessages = [c \in Conns |-> NoConn]
  /\ m_mutexRoute = NoConn
  /\ pc = [c \in Conns |-> "none"]
  /\ nm = [c \in Conns |-> NoMessage]
  /\ it = [c \in Conns |-> 0]
  /\ gwSent = <<>>
  /\ up = TRUE
  /\ revived = {}

Goto(c, l) == pc' = [pc EXCEPT ![c] = l]

---------------------------------------------------------------------------
(* TSocketServer::operator(), the loop of the accept thread.               *)

\* accept() and new TRemoteNode, whose constructor starts the node's thread.
Accept(c) ==
  /\ up
  /\ acceptPc = "accept"
  /\ \E f \in Fds :
       /\ SysAccept(c, f)
       /\ m_fdSocket' = [m_fdSocket EXCEPT ![c] = f]
  /\ accepted' = c
  /\ acceptPc' = "start"
  /\ Goto(c, "login")
  /\ UNCHANGED <<peer, inq, sent, budget, err, wire, nread, m_nodeId, m_nodeStatus,
                 m_threadStatus, m_lstNodes, revived, routeVars, up>>

\* n->start(), whatever the node's thread has set m_threadStatus to meanwhile.
NodeStart ==
  /\ up
  /\ acceptPc = "start"
  /\ m_threadStatus' = [m_threadStatus EXCEPT ![accepted] = "TH_START"]
  /\ revived' = IF m_threadStatus[accepted] = "TH_STOP"
                  THEN revived \cup {accepted} ELSE revived
  /\ acceptPc' = "push"
  /\ UNCHANGED <<sockVars, accepted, m_lstNodes, m_fdSocket, m_nodeId,
                 m_nodeStatus, routeVars, pc, up>>

\* m_lstNodes.push_back(n), without m_mutexRoute.
PushBack ==
  /\ up
  /\ acceptPc = "push"
  /\ m_lstNodes' = Append(m_lstNodes, accepted)
  /\ acceptPc' = "accept"
  /\ UNCHANGED <<sockVars, accepted, revived, nodeVars, routeVars, pc, up>>

---------------------------------------------------------------------------
(* TRemoteNode::operator(), the thread of node c.                          *)

\* Mutant: the branch forgets TH_STOP.
DisconnectKeepsRunning(c, l) ==
  /\ m_nodeStatus' = [m_nodeStatus EXCEPT ![c] = "NODE_DISCONNECTED"]
  /\ UNCHANGED m_threadStatus
  /\ Goto(c, l)

\* The two "Client disconnected" branches.
Disconnect(c, l) ==
  /\ m_nodeStatus' = [m_nodeStatus EXCEPT ![c] = "NODE_DISCONNECTED"]
  /\ m_threadStatus' = [m_threadStatus EXCEPT ![c] = "TH_STOP"]
  /\ Goto(c, l)

\* checkLogin: anything that parses is accepted, MSG_LOGIN also sets the id.
CheckLogin(c, m) ==
  /\ m_nodeId' = IF m.name = "MSG_LOGIN" THEN [m_nodeId EXCEPT ![c] = m.from]
                                         ELSE m_nodeId
  /\ m_nodeStatus' = [m_nodeStatus EXCEPT ![c] = "NODE_ACCEPTED"]
  /\ Goto(c, "answer")

\* One read of the login loop.  Of the frames a read returns only the first
\* can be parsed; it fails to when bytes are left over in front of it.
LoginRead(c) ==
  /\ up
  /\ pc[c] = "login"
  /\ LET f == m_fdSocket[c] IN
       \/ /\ SysReadEof(f) \/ SysReadError(f)
          /\ Disconnect(c, "login_close")
          /\ UNCHANGED m_nodeId
       \/ \E k \in 1 .. MaxSend :
            /\ SysReadData(f, k)
            /\ \/ CheckLogin(c, inq[desc[f]][1])
               \/ UNCHANGED <<m_nodeId, m_nodeStatus, pc>>
            /\ UNCHANGED m_threadStatus
  /\ UNCHANGED <<peer, backlog, sent, budget, wire, nread, desc, acceptVars, m_fdSocket,
                 routeVars, up>>

\* sendLoginAnswer: a failed write throws, nobody catches, the process ends.
SendLoginAnswer(c) ==
  /\ up
  /\ pc[c] = "answer"
  /\ LET f == m_fdSocket[c] IN
       \/ /\ SysWriteOk(f, [msg |-> LoginAnswer(c, m_nodeId[c]), via |-> c])
          /\ Goto(c, "loop")
          /\ UNCHANGED up
       \/ /\ SysWriteLost(f)
          /\ Goto(c, "loop")
          /\ UNCHANGED up
       \/ /\ SysWriteError(f)
          /\ up' = FALSE
          /\ UNCHANGED pc
       \/ /\ SysWriteKills(f)
          /\ up' = FALSE
          /\ UNCHANGED <<peer, wire, err, pc>>
  /\ UNCHANGED <<backlog, inq, sent, budget, nread, desc, acceptVars, nodeVars, routeVars>>

\* close(m_fdSocket) after a disconnect.  In the login loop the break leads to
\* the message loop, whose condition reads m_threadStatus again.
CloseSocket(c) ==
  /\ up
  /\ \/ pc[c] = "login_close" /\ Goto(c, "loop")
     \/ pc[c] = "loop_close" /\ Goto(c, "done")
  /\ SysClose(m_fdSocket[c])
  /\ UNCHANGED <<peer, backlog, inq, sent, budget, err, wire, nread, acceptVars, nodeVars,
                 routeVars, up>>

\* while (TH_STOP != m_threadStatus)
LoopExit(c) ==
  /\ up
  /\ pc[c] = "loop"
  /\ m_threadStatus[c] = "TH_STOP"
  /\ Goto(c, "done")
  /\ UNCHANGED <<sockVars, acceptVars, nodeVars, routeVars, up>>

\* Mutant: rfind for find, the last frame is taken and those before it are left.
LoopReadLastFirst(c) ==
  /\ up
  /\ pc[c] = "loop"
  /\ m_threadStatus[c] = "TH_START"
  /\ desc[m_fdSocket[c]] # NoConn
  /\ LET q == inq[desc[m_fdSocket[c]]] IN
       \E k \in 1 .. Len(q) :
         /\ q[k].to # m_nodeId[c]
         /\ nm' = [nm EXCEPT ![c] = q[k]]
         /\ inq' = [inq EXCEPT ![desc[m_fdSocket[c]]] =
                       SubSeq(q, 1, k - 1) \o SubSeq(q, k + 1, Len(q))]
  /\ Goto(c, "route")
  /\ UNCHANGED <<peer, backlog, sent, budget, err, wire, nread, desc, acceptVars, nodeVars,
                 m_lstMessages, m_mutexQueueMessages, m_mutexRoute, it, gwSent, up>>

\* One read of the message loop.  Only len == 0 counts as a disconnect; a
\* message for this node's own id is dropped, any other one is routed.
LoopRead(c) ==
  /\ up
  /\ pc[c] = "loop"
  /\ m_threadStatus[c] = "TH_START"
  /\ LET f == m_fdSocket[c] IN
       \/ /\ SysReadEof(f)
          /\ Disconnect(c, "loop_close")
          /\ UNCHANGED nm
       \/ /\ SysReadError(f)
          /\ Goto(c, "pop")
          /\ UNCHANGED <<nm, m_nodeStatus, m_threadStatus>>
       \/ \E k \in 1 .. MaxSend :
            /\ SysReadData(f, k)
            /\ LET m == inq[desc[f]][1] IN
                 \/ /\ m.to # m_nodeId[c]
                    /\ nm' = [nm EXCEPT ![c] = m]
                    /\ Goto(c, "route")
                 \/ Goto(c, "pop") /\ UNCHANGED nm
            /\ UNCHANGED <<m_nodeStatus, m_threadStatus>>
  /\ UNCHANGED <<peer, backlog, sent, budget, wire, nread, desc, acceptVars, m_fdSocket,
                 m_nodeId, m_lstMessages, m_mutexQueueMessages, m_mutexRoute, it,
                 gwSent, up>>

\* Mutant: no empty() test.
PopMessageUnchecked(c) ==
  /\ up
  /\ pc[c] = "pop"
  /\ m_mutexQueueMessages[c] = NoConn
  /\ m_lstMessages' = [m_lstMessages EXCEPT ![c] = @ - 1]
  /\ Goto(c, "loop")
  /\ UNCHANGED <<sockVars, acceptVars, nodeVars, m_mutexQueueMessages, m_mutexRoute,
                 nm, it, gwSent, up>>

\* The empty() test without a lock, and the pop under m_mutexQueueMessages.
PopMessage(c) ==
  /\ up
  /\ \/ /\ pc[c] = "pop"
        /\ Goto(c, IF m_lstMessages[c] = 0 THEN "loop" ELSE "pop_lock")
        /\ UNCHANGED m_lstMessages
     \/ /\ pc[c] = "pop_lock"
        /\ m_mutexQueueMessages[c] = NoConn
        /\ m_lstMessages' = [m_lstMessages EXCEPT ![c] = @ - 1]
        /\ Goto(c, "loop")
  /\ UNCHANGED <<sockVars, acceptVars, nodeVars, m_mutexQueueMessages, m_mutexRoute,
                 nm, it, gwSent, up>>

---------------------------------------------------------------------------
(* TSocketServer::routeMessage, run by the thread of node c.               *)

RouteDone(c) ==
  /\ nm' = [nm EXCEPT ![c] = NoMessage]
  /\ it' = [it EXCEPT ![c] = 0]
  /\ m_mutexRoute' = NoConn
  /\ Goto(c, "pop")

\* Mutant: the lock_guard is missing.
RouteLockDropped(c) ==
  /\ up
  /\ pc[c] = "route"
  /\ it' = [it EXCEPT ![c] = 1]
  /\ Goto(c, "find")
  /\ m_mutexRoute' = c
  /\ UNCHANGED <<sockVars, acceptVars, nodeVars, m_lstMessages, m_mutexQueueMessages,
                 nm, gwSent, up>>

\* lock_guard(m_mutexRoute); a message for the server itself goes no further.
RouteLock(c) ==
  /\ up
  /\ pc[c] = "route"
  /\ m_mutexRoute = NoConn
  /\ IF nm[c].to = NODE_ID
       THEN RouteDone(c)
       ELSE /\ m_mutexRoute' = c
            /\ it' = [it EXCEPT ![c] = 1]
            /\ Goto(c, "find")
            /\ UNCHANGED nm
  /\ UNCHANGED <<sockVars, acceptVars, nodeVars, m_lstMessages, m_mutexQueueMessages,
                 gwSent, up>>

\* Mutant: getFrom() for getDestination().
RouteVisitBySender(c) ==
  /\ up
  /\ pc[c] = "find"
  /\ it[c] <= Len(m_lstNodes)
  /\ IF m_nodeId[m_lstNodes[it[c]]] = nm[c].from
       THEN Goto(c, "enqueue") /\ UNCHANGED it
       ELSE it' = [it EXCEPT ![c] = @ + 1] /\ UNCHANGED pc
  /\ UNCHANGED <<sockVars, acceptVars, nodeVars, m_lstMessages, m_mutexQueueMessages,
                 m_mutexRoute, nm, gwSent, up>>

\* One call of the predicate of all_of.
RouteVisit(c) ==
  /\ up
  /\ pc[c] = "find"
  /\ it[c] <= Len(m_lstNodes)
  /\ IF m_nodeId[m_lstNodes[it[c]]] = nm[c].to
       THEN Goto(c, "enqueue") /\ UNCHANGED it
       ELSE it' = [it EXCEPT ![c] = @ + 1] /\ UNCHANGED pc
  /\ UNCHANGED <<sockVars, acceptVars, nodeVars, m_lstMessages, m_mutexQueueMessages,
                 m_mutexRoute, nm, gwSent, up>>

\* Mutant: an early return that leaves the mutex locked.
RouteMissKeepsLock(c) ==
  /\ up
  /\ pc[c] = "find"
  /\ it[c] > Len(m_lstNodes)
  /\ Goto(c, "pop")
  /\ UNCHANGED <<sockVars, acceptVars, nodeVars, routeVars, up>>

\* found == false: the message goes to the default gateway, if there is one and it
\* is logged in and the write succeeds.  That write, too, raises SIGPIPE when the
\* gateway has reset the connection.
RouteMiss(c) ==
  /\ up
  /\ pc[c] = "find"
  /\ it[c] > Len(m_lstNodes)
  /\ \/ /\ \/ UNCHANGED gwSent
           \/ DefaultGw /\ gwSent' = Append(gwSent, nm[c])
        /\ RouteDone(c)
        /\ UNCHANGED up
     \/ /\ DefaultGw
        /\ up' = FALSE
        /\ UNCHANGED <<gwSent, nm, it, m_mutexRoute, pc>>
  /\ UNCHANGED <<sockVars, acceptVars, nodeVars, m_lstMessages, m_mutexQueueMessages>>

\* EnqueueMsg of the node found: its queue mutex and push_back ...
EnqueueMsg(c) ==
  /\ up
  /\ pc[c] = "enqueue"
  /\ LET n == m_lstNodes[it[c]] IN
       /\ m_mutexQueueMessages[n] = NoConn
       /\ m_mutexQueueMessages' = [m_mutexQueueMessages EXCEPT ![n] = c]
       /\ m_lstMessages' = [m_lstMessages EXCEPT ![n] = @ + 1]
  /\ Goto(c, "write")
  /\ UNCHANGED <<sockVars, acceptVars, nodeVars, m_mutexRoute, nm, it, gwSent, up>>

\* Mutant: the predicate returns true after a match, so that all_of goes on to the
\* next node of that id; found stays true.
WriteDataSearchesOn(c) ==
  /\ up
  /\ pc[c] = "write"
  /\ LET n == m_lstNodes[it[c]]
         more == {i \in it[c] + 1 .. Len(m_lstNodes) : m_nodeId[m_lstNodes[i]] = nm[c].to} IN
       /\ \/ SysWriteOk(m_fdSocket[n], [msg |-> nm[c], via |-> n])
          \/ SysWriteLost(m_fdSocket[n])
          \/ SysWriteError(m_fdSocket[n])
       /\ m_mutexQueueMessages' = [m_mutexQueueMessages EXCEPT ![n] = NoConn]
       /\ IF more = {}
            THEN RouteDone(c)
            ELSE /\ it' = [it EXCEPT ![c] = CHOOSE i \in more : \A j \in more : i <= j]
                 /\ Goto(c, "enqueue")
                 /\ UNCHANGED <<nm, m_mutexRoute>>
  /\ UNCHANGED <<backlog, inq, sent, budget, nread, desc, acceptVars, nodeVars,
                 m_lstMessages, gwSent, up>>

\* ... and writeData to its m_fdSocket, the result ignored; then both mutexes
\* are released.
WriteData(c) ==
  /\ up
  /\ pc[c] = "write"
  /\ LET n == m_lstNodes[it[c]]
         f == m_fdSocket[n] IN
       \/ /\ \/ SysWriteOk(f, [msg |-> nm[c], via |-> n])
             \/ SysWriteLost(f)
             \/ SysWriteError(f)
          /\ m_mutexQueueMessages' = [m_mutexQueueMessages EXCEPT ![n] = NoConn]
          /\ RouteDone(c)
          /\ UNCHANGED up
       \/ /\ SysWriteKills(f)
          /\ up' = FALSE
          /\ UNCHANGED <<peer, wire, err, m_mutexQueueMessages, nm, it, m_mutexRoute, pc>>
  /\ UNCHANGED <<backlog, inq, sent, budget, nread, desc, acceptVars, nodeVars, m_lstMessages,
                 gwSent>>

---------------------------------------------------------------------------
AcceptThread == (\E c \in Conns : Accept(c)) \/ NodeStart \/ PushBack

NodeThread(c) ==
  \/ LoginRead(c) \/ SendLoginAnswer(c) \/ CloseSocket(c)
  \/ LoopExit(c) \/ LoopRead(c) \/ PopMessage(c)
  \/ RouteLock(c) \/ RouteVisit(c) \/ RouteMiss(c) \/ EnqueueMsg(c) \/ WriteData(c)

Client(c) ==
  /\ up
  /\ ClientConnect(c) \/ ClientSend(c) \/ ClientRead(c) \/ ClientClose(c)
  /\ UNCHANGED serverVars

\* A dead process takes no step; what its clients then do is of no interest.
Next == AcceptThread \/ \E c \in Conns : NodeThread(c) \/ Client(c)

Spec == Init /\ [][Next]_vars

\* The kernel schedules every thread, and a client that stays connected reads
\* what is sent to it, as a TClientNode that is logged in does for ever.
Fairness ==
  /\ WF_vars(AcceptThread)
  /\ \A c \in Conns :
       WF_vars(NodeThread(c)) /\ WF_vars(up /\ ClientRead(c) /\ UNCHANGED serverVars)

FairSpec == Spec /\ Fairness

---------------------------------------------------------------------------
(* Properties.                                                             *)

\* Types of the broker's state.  m_lstMessages never goes below zero although
\* its emptiness is tested without the queue mutex.
TypeOK ==
  /\ SocketsTypeOK
  /\ acceptPc \in {"accept", "start", "push"}
  /\ accepted \in Conns \cup {NoConn}
  /\ m_lstNodes \in Seq(Conns)
  /\ m_fdSocket \in [Conns -> Fds \cup {NoFd}]
  /\ m_nodeId \in [Conns -> Nat]
  /\ m_nodeStatus \in [Conns -> NodeStatus]
  /\ m_threadStatus \in [Conns -> ThreadStatus]
  /\ m_lstMessages \in [Conns -> Nat]
  /\ m_mutexQueueMessages \in [Conns -> Conns \cup {NoConn}]
  /\ m_mutexRoute \in Conns \cup {NoConn}
  /\ pc \in [Conns -> Pcs]
  /\ nm \in [Conns -> Messages]
  /\ it \in [Conns -> Nat]
  /\ gwSent \in Seq(Messages)
  /\ up \in BOOLEAN
  /\ revived \subseteq Conns

\* From accept until its own close, node c stands for the open connection c.
HoldsSocket(c) ==
  \/ pc[c] \in {"login_close", "loop_close"}
  \/ pc[c] \notin {"none", "done"} /\ m_nodeStatus[c] # "NODE_DISCONNECTED"

\* As long as no start() has overwritten a TH_STOP, the number in m_fdSocket of a
\* connected node refers to that node's own connection, and every open descriptor
\* belongs to such a node: nothing is closed twice, leaked or read by two threads.
DescriptorOwnership ==
  revived = {} =>
    \A f \in Fds, c \in Conns :
      desc[f] = c <=> HoldsSocket(c) /\ m_fdSocket[c] = f

\* The route mutex is held by exactly the thread that walks m_lstNodes, the queue
\* mutex of a node by exactly the thread inside its EnqueueMsg.
RouteLockDiscipline ==
  /\ \A c \in Conns : m_mutexRoute = c <=> pc[c] \in {"find", "enqueue", "write"}
  /\ \A n, c \in Conns :
       m_mutexQueueMessages[n] = c
         <=> pc[c] = "write" /\ it[c] \in 1 .. Len(m_lstNodes) /\ m_lstNodes[it[c]] = n

Routed(d) == d.msg.name # "MSG_LOGIN_ANSWER"

\* Every routed message went out through the node whose id is its destination (or
\* was 0, the id of every node before its login), and reached another client only
\* because that node had disconnected while m_lstNodes kept it (or because a
\* TH_STOP was overwritten).
AddressedDelivery ==
  \A c \in Conns : \A i \in 1 .. Len(wire[c]) :
    LET d == wire[c][i] IN
      Routed(d) =>
        /\ d.msg.to \in {m_nodeId[d.via], 0}
        /\ d.via = c \/ m_nodeStatus[d.via] = "NODE_DISCONNECTED" \/ revived # {}

\* A message a client sent once is written at most once, to one client or to the
\* gateway and not to both, also when several nodes have the same id.
DeliveredAtMostOnce ==
  /\ \A c, d \in Conns : \A i \in 1 .. Len(wire[c]), j \in 1 .. Len(wire[d]) :
       (Routed(wire[c][i]) /\ wire[c][i].msg = wire[d][j].msg) => (c = d /\ i = j)
  /\ \A g \in 1 .. Len(gwSent) :
       /\ \A h \in 1 .. Len(gwSent) : gwSent[g] = gwSent[h] => g = h
       /\ \A c \in Conns : \A i \in 1 .. Len(wire[c]) : wire[c][i].msg # gwSent[g]

\* The number of the last message of client s that was written to client c.
LastRouted(s, c) ==
  LET W == {i \in 1 .. Len(wire[c]) : Routed(wire[c][i]) /\ wire[c][i].msg.src = s} IN
    IF W = {} THEN 0 ELSE wire[c][CHOOSE i \in W : \A j \in W : j <= i].msg.n

Pair(s, c) == INSTANCE LossyFifo WITH
  sent <- sent[s],
  last <- LastRouted(s, c)

\* Between any two clients the broker is what one direction of a connection is:
\* messages of one reach the other at most once and in the order sent, whatever
\* threads and nodes they pass through, until a TH_STOP is overwritten.
PairsInOrder ==
  /\ \A s, c \in Conns : Pair(s, c)!FifoInit
  /\ [][revived = {} => \A s, c \in Conns :
         Pair(s, c)!FifoNext \/ UNCHANGED Pair(s, c)!fifoVars]_vars

\* A thread that holds the route mutex lets go of it, whatever the clients do,
\* as long as those that stay connected read.
RouteLockReleased ==
  \A c \in Conns : (m_mutexRoute = c) ~> (m_mutexRoute # c \/ ~up)

\* The thread of a client that closed its connection comes to its end, unless a
\* TH_STOP was overwritten or the process died.
ClosedClientThreadEnds ==
  \A c \in Conns :
    (pc[c] # "none" /\ peer[c] \in {"fin", "reset"})
      ~> (pc[c] = "done" \/ revived # {} \/ ~up)

---------------------------------------------------------------------------
(* What comments and documents of the repository say, and the code does    *)
(* not do.                                                                 *)

\* TSocketServer.cpp:232 "Found destination node!": the client that is written to
\* is the one whose node has the destination's id.
DeliveredToDestination ==
  \A c \in Conns : \A i \in 1 .. Len(wire[c]) :
    Routed(wire[c][i]) => m_nodeId[c] = wire[c][i].msg.to

\* TSocketServer.cpp:208 "all the connected nodes receieves a copy. It's a
\* broadcaster": when routeMessage has written a message and returns, every connected
\* client but its sender has been written a copy.
EveryNodeGetsCopy ==
  [][\A c \in Conns : (pc[c] = "write" /\ pc'[c] = "pop") =>
       \A k \in 1 .. Len(m_lstNodes) :
         LET n == m_lstNodes[k] IN
           (n # c /\ m_nodeStatus[n] = "NODE_ACCEPTED" /\ peer[n] = "open") =>
             \E i \in 1 .. Len(wire'[n]) : wire'[n][i].msg = nm[c]]_vars

\* TRemoteNode.cpp:112 "Client disconnected", where the thread is told to stop:
\* it does.
DisconnectedNodeEnds ==
  \A c \in Conns :
    (m_nodeStatus[c] = "NODE_DISCONNECTED") ~> (pc[c] = "done" \/ ~up)

=============================================================================
