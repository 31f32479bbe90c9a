-------------------------- MODULE ServerLifecycle --------------------------
(***************************************************************************)
(* The life of a TSocketServer (src/common/tnodenet) around the accept     *)
(* loop of SocketServer: the constructor, which starts the server's thread *)
(* before most members exist and then logs in to the default gateway; the  *)
(* thread's way to its loop and out of it; start, pause and stop, which    *)
(* only assign m_internalStatus; and the program that owns the server,     *)
(* simpleserver's main, which waits for SS_ERROR.                          *)
(*                                                                         *)
(* The owner makes the one call of simpleserver, start(), and then up to   *)
(* MaxCalls more of the three, in any order: no program of the repository  *)
(* makes them, but they are the class's interface.                         *)
(***************************************************************************)
EXTENDS SocketServer

CONSTANT MaxCalls   \* bound: calls of start, pause and stop after the first start

ASSUME LifecycleAssumption == MaxCalls \in Nat

VARIABLES
  m_defaultGw,       \* the constructor was given a gateway
  m_initialized,
  m_internalStatus,
  runPc,             \* the server's thread, up to and between turns of its loop
  listening,         \* listen() succeeded; nothing closes fd_sck afterwards
  ownerPc,           \* the thread that constructs and owns the server
  calls,             \* how many of the MaxCalls were made
  gwStatus,          \* m_nodeStatus of the gateway's TClientNode
  gwPeer,            \* the gateway's end of that connection
  gwUnread,          \* frames on it that the gateway has not read
  late,              \* history: a client was accepted after the last call, stop()
  errorLost          \* history: a call overwrote SS_ERROR

gwVars == <<gwStatus, gwPeer, gwUnread>>
lifeVars == <<m_defaultGw, m_initialized, m_internalStatus, runPc, listening, ownerPc, calls,
              gwVars, late, errorLost>>
allVars == <<vars, lifeVars>>

SS_STATUS == {"SS_ERROR", "SS_LISTENING", "SS_PAUSE", "SS_STOP"}
RunPcs == {"wait_init", "wait_listen", "bind", "check", "body", "ended", "failed"}
Constructing == {"members", "gw_connect", "gw_login", "initialized"}
OwnerPcs == Constructing \cup {"start", "running", "aborted"}

\* The initializer list up to m_thisThread.
LifecycleInit ==
  /\ Init
  /\ m_defaultGw \in {FALSE, DefaultGw}
  /\ m_initialized = FALSE
  /\ m_internalStatus = "SS_PAUSE"
  /\ runPc = "wait_init"
  /\ listening = FALSE
  /\ ownerPc = "members"
  /\ calls = 0
  /\ gwStatus = "NODE_DISCONNECTED"
  /\ gwPeer = "none"
  /\ gwUnread = 0
  /\ late = FALSE
  /\ errorLost = FALSE

OwnerGoto(l) == ownerPc' = l

---------------------------------------------------------------------------
(* The constructor, after the thread has been started.                     *)

\* Mutant: m_initialized is set before the gateway has answered.
ConstructMembersEarly ==
  /\ up
  /\ ownerPc = "members"
  /\ m_initialized' = TRUE
  /\ OwnerGoto(IF m_defaultGw THEN "gw_connect" ELSE "initialized")
  /\ UNCHANGED <<vars, m_defaultGw, m_internalStatus, runPc, listening, calls, gwVars, late,
                 errorLost>>

\* m_lstNodes, m_mutexRoute and m_defaultGw, declared after m_thisThread.
ConstructMembers ==
  /\ up
  /\ ownerPc = "members"
  /\ OwnerGoto(IF m_defaultGw THEN "gw_connect" ELSE "initialized")
  /\ UNCHANGED <<vars, m_defaultGw, m_initialized, m_internalStatus, runPc, listening, calls,
                 gwVars, late, errorLost>>

\* m_defaultGw->connect(); the result is only logged.
GwConnect ==
  /\ up
  /\ ownerPc = "gw_connect"
  /\ \/ /\ gwStatus' = "NODE_CONNECTED"
        /\ gwPeer' = "open"
        /\ OwnerGoto("gw_login")
     \/ UNCHANGED <<gwStatus, gwPeer>> /\ OwnerGoto("initialized")
  /\ UNCHANGED <<vars, m_defaultGw, m_initialized, m_internalStatus, runPc, listening, calls,
                 gwUnread, late, errorLost>>

\* m_defaultGw->login(), once the gateway answers, sends something else or closes.
GwLogin ==
  /\ up
  /\ ownerPc = "gw_login"
  /\ gwStatus' \in {"NODE_CONNECTED", "NODE_ACCEPTED"}
  /\ OwnerGoto("initialized")
  /\ UNCHANGED <<vars, m_defaultGw, m_initialized, m_internalStatus, runPc, listening, calls,
                 gwPeer, gwUnread, late, errorLost>>

\* m_initialized = true
Initialized ==
  /\ up
  /\ ownerPc = "initialized"
  /\ m_initialized' = TRUE
  /\ OwnerGoto("start")
  /\ UNCHANGED <<vars, m_defaultGw, m_internalStatus, runPc, listening, calls, gwVars, late,
                 errorLost>>

---------------------------------------------------------------------------
(* The owner: simpleserver's start() and its wait for SS_ERROR, and more   *)
(* calls of the interface.                                                 *)

Assign(s) ==
  /\ up
  /\ m_internalStatus' = s
  /\ \/ ownerPc = "start" /\ s = "SS_LISTENING" /\ OwnerGoto("running") /\ UNCHANGED calls
     \/ /\ ownerPc = "running"
        /\ calls < MaxCalls
        /\ calls' = calls + 1
        /\ UNCHANGED ownerPc
  /\ late' = FALSE
  /\ errorLost' = (errorLost \/ m_internalStatus = "SS_ERROR")
  /\ UNCHANGED <<vars, m_defaultGw, m_initialized, runPc, listening, gwVars>>

Start == Assign("SS_LISTENING")
Pause == Assign("SS_PAUSE")
Stop == Assign("SS_STOP")

\* getStatus() == SS_ERROR ends main; the destructor finds m_thisThread joinable
\* and std::terminate ends the process.
Poll ==
  /\ up
  /\ ownerPc = "running"
  /\ m_internalStatus = "SS_ERROR"
  /\ OwnerGoto("aborted")
  /\ UNCHANGED <<vars, m_defaultGw, m_initialized, m_internalStatus, runPc, listening, calls,
                 gwVars, late, errorLost>>

---------------------------------------------------------------------------
(* TSocketServer::operator().                                              *)

RunGoto(l) ==
  /\ runPc' = l
  /\ UNCHANGED <<m_defaultGw, m_initialized, ownerPc, calls, gwVars, errorLost>>

\* while (!m_initialized), looked at every second
WaitInitialized ==
  /\ runPc = "wait_init"
  /\ m_initialized
  /\ RunGoto("wait_listen")
  /\ UNCHANGED <<vars, m_internalStatus, listening, late>>

\* Mutant: a stop() seen here ends the thread.
WaitListeningOrStop ==
  /\ runPc = "wait_listen"
  /\ \/ m_internalStatus = "SS_LISTENING" /\ RunGoto("bind")
     \/ m_internalStatus = "SS_STOP" /\ RunGoto("ended")
  /\ UNCHANGED <<vars, m_internalStatus, listening, late>>

\* while (SS_LISTENING != m_internalStatus), looked at every second: a start() that
\* another call follows at once is not seen.
WaitListening ==
  /\ runPc = "wait_listen"
  /\ m_internalStatus = "SS_LISTENING"
  /\ RunGoto("bind")
  /\ UNCHANGED <<vars, m_internalStatus, listening, late>>

\* Mutant: the error is logged only.
BindAndListenSilent ==
  /\ runPc = "bind"
  /\ \/ RunGoto("check") /\ listening' = TRUE
     \/ RunGoto("failed") /\ UNCHANGED listening
  /\ UNCHANGED <<vars, m_internalStatus, late>>

\* socket, bind and listen; the port may be in use.
BindAndListen ==
  /\ runPc = "bind"
  /\ \/ RunGoto("check") /\ listening' = TRUE /\ UNCHANGED m_internalStatus
     \/ RunGoto("failed") /\ m_internalStatus' = "SS_ERROR" /\ UNCHANGED listening
  /\ UNCHANGED <<vars, late>>

\* Mutant: a paused server waits.
LoopConditionPauses ==
  /\ runPc = "check"
  /\ m_internalStatus # "SS_PAUSE"
  /\ RunGoto(IF m_internalStatus = "SS_STOP" THEN "ended" ELSE "body")
  /\ UNCHANGED <<vars, m_internalStatus, listening, late>>

\* Mutant: the loop waits for the other end of its life.
LoopConditionError ==
  /\ runPc = "check"
  /\ RunGoto(IF m_internalStatus = "SS_ERROR" THEN "ended" ELSE "body")
  /\ UNCHANGED <<vars, m_internalStatus, listening, late>>

\* while (m_internalStatus != SS_STOP): SS_PAUSE is not looked at any more.
LoopCondition ==
  /\ runPc = "check"
  /\ RunGoto(IF m_internalStatus = "SS_STOP" THEN "ended" ELSE "body")
  /\ UNCHANGED <<vars, m_internalStatus, listening, late>>

\* Mutant: the listening socket is blocking with a gateway, too.
AcceptBlocks ==
  /\ acceptPc = "accept"
  /\ \A f \in Fds : desc[f] # NoConn
  /\ UNCHANGED vars

\* accept() < 0: no descriptor is left, or the socket, which is non-blocking if
\* there is a gateway, has no connection waiting.
AcceptFails ==
  /\ acceptPc = "accept"
  /\ (m_defaultGw /\ backlog = <<>>) \/ \A f \in Fds : desc[f] # NoConn
  /\ UNCHANGED vars

\* One turn of the loop; readMessagesFromGw has nothing to do.
LoopBody ==
  /\ runPc = "body"
  /\ \/ \E c \in Conns :
          /\ Accept(c)
          /\ late' = (late \/ m_internalStatus = "SS_STOP")
          /\ RunGoto("body")
     \/ NodeStart /\ RunGoto("body") /\ UNCHANGED late
     \/ PushBack /\ RunGoto("check") /\ UNCHANGED late
     \/ AcceptFails /\ RunGoto("check") /\ UNCHANGED late
  /\ UNCHANGED <<m_internalStatus, listening>>

---------------------------------------------------------------------------
(* routeMessage with the gateway, run by the thread of node c.             *)

\* Mutant: wait for the gateway's login.
GwSendMessageWaits(m) ==
  /\ gwStatus = "NODE_ACCEPTED"
  /\ gwUnread < SndCap
  /\ gwSent' = Append(gwSent, m)
  /\ gwUnread' = gwUnread + 1
  /\ UNCHANGED up

\* Mutant: after a successful write it is tried again.
GwSendMessageTwice(m) ==
  /\ gwSent' = gwSent \o <<m, m>>
  /\ UNCHANGED <<gwUnread, up>>

\* m_defaultGw->sendMessage: nothing before its login has succeeded; a blocking
\* write; after the gateway is gone a write is lost, fails or raises SIGPIPE.
GwSendMessage(m) ==
  \/ /\ ~m_defaultGw \/ gwStatus # "NODE_ACCEPTED"
     /\ UNCHANGED <<gwSent, gwUnread, up>>
  \/ /\ gwStatus = "NODE_ACCEPTED"
     /\ gwPeer = "open"
     /\ gwUnread < SndCap
     /\ gwSent' = Append(gwSent, m)
     /\ gwUnread' = gwUnread + 1
     /\ UNCHANGED up
  \/ /\ gwStatus = "NODE_ACCEPTED"
     /\ gwPeer = "closed"
     /\ \/ gwSent' \in {gwSent, Append(gwSent, m)} /\ UNCHANGED up
        \/ up' = FALSE /\ UNCHANGED gwSent
     /\ UNCHANGED gwUnread

\* RouteMiss, with the gateway as it is.
RouteToGw(c) ==
  /\ up
  /\ pc[c] = "find"
  /\ it[c] > Len(m_lstNodes)
  /\ GwSendMessage(nm[c])
  /\ IF up' THEN RouteDone(c) ELSE UNCHANGED <<nm, it, m_mutexRoute, pc>>
  /\ UNCHANGED <<sockVars, acceptVars, nodeVars, m_lstMessages, m_mutexQueueMessages>>
  /\ UNCHANGED <<m_defaultGw, m_initialized, m_internalStatus, runPc, listening, ownerPc, calls,
                 gwStatus, gwPeer, late, errorLost>>

\* The gateway: a broker, whose node for this connection reads or ends.
GwReads ==
  /\ up
  /\ gwPeer = "open"
  /\ gwUnread > 0
  /\ gwUnread' = 0
  /\ UNCHANGED <<vars, m_defaultGw, m_initialized, m_internalStatus, runPc, listening, ownerPc,
                 calls, gwStatus, gwPeer, late, errorLost>>

GwCloses ==
  /\ up
  /\ gwPeer = "open"
  /\ gwPeer' = "closed"
  /\ UNCHANGED <<vars, m_defaultGw, m_initialized, m_internalStatus, runPc, listening, ownerPc,
                 calls, gwStatus, gwUnread, late, errorLost>>

---------------------------------------------------------------------------
ServerThread ==
  /\ up
  /\ ownerPc # "aborted"
  /\ \/ WaitInitialized \/ WaitListening \/ BindAndListen \/ LoopCondition \/ LoopBody

\* main runs on by itself, except that login() waits for the gateway.
OwnerThread == ConstructMembers \/ GwConnect \/ Initialized \/ (ownerPc = "start" /\ Start) \/ Poll

RemoteNodeThread(c) ==
  \/ /\ \/ LoginRead(c) \/ SendLoginAnswer(c) \/ CloseSocket(c) \/ LoopExit(c) \/ LoopRead(c)
        \/ PopMessage(c) \/ RouteLock(c) \/ RouteVisit(c) \/ EnqueueMsg(c) \/ WriteData(c)
     /\ UNCHANGED lifeVars
  \/ RouteToGw(c)

\* Nobody connects to a port without a listener.
RemoteClient(c) ==
  /\ peer[c] = "none" => listening
  /\ Client(c)
  /\ UNCHANGED lifeVars

LifecycleNext ==
  \/ ServerThread \/ OwnerThread \/ GwLogin \/ Start \/ Pause \/ Stop \/ GwReads \/ GwCloses
  \/ \E c \in Conns : RemoteNodeThread(c) \/ RemoteClient(c)

LifecycleSpec == LifecycleInit /\ [][LifecycleNext]_allVars

\* Every thread of the process is scheduled.  The gateway, a broker, reads what it is
\* sent, and a connected client reads; neither has to answer a login.
LifecycleFairness ==
  /\ WF_allVars(ServerThread)
  /\ WF_allVars(OwnerThread)
  /\ WF_allVars(GwReads)
  /\ \A c \in Conns :
       /\ WF_allVars(RemoteNodeThread(c))
       /\ WF_allVars(up /\ ClientRead(c) /\ UNCHANGED <<serverVars, lifeVars>>)

LifecycleFairSpec == LifecycleSpec /\ LifecycleFairness

---------------------------------------------------------------------------
(* Properties.                                                             *)

\* A TSocketServer, however it is started, paused and stopped, does what the broker
\* of SocketServer does: the broker's safety properties hold of it.
LifecycleImplementsBroker == Spec

\* The server's thread, which runs before the members are constructed, uses none of
\* them until the constructor has finished with them, and nothing is written to the
\* gateway while login() reads from it.
ConstructedBeforeUse ==
  ownerPc \in {"members", "gw_connect", "gw_login"} =>
    runPc = "wait_init" /\ m_lstNodes = <<>> /\ gwSent = <<>>

\* stop() is seen after the accept that is under way: once a client was taken in
\* after it, the thread does not wait for another.
OneAcceptedAfterStop == late => ~(runPc = "body" /\ acceptPc = "accept")

\* An owner that makes no further call, as simpleserver, ends when the port could
\* not be opened: SS_ERROR is not lost.
BindErrorEndsOwner == (runPc = "failed") ~> (ownerPc = "aborted" \/ errorLost)

NoMoreCalls == ownerPc = "running" /\ calls = MaxCalls

\* When start() is the last call, the server goes into its accept loop and stays there,
\* or reports an error, whatever pause() and stop() came before it.  The exception: a
\* stop() that has already ended the loop; the thread is gone and start() brings
\* nothing back.
StartTakesEffect ==
  (NoMoreCalls /\ m_internalStatus = "SS_LISTENING" /\ ~(listening /\ runPc = "ended"))
    ~> (runPc = "failed" \/ ~up \/ [](runPc \in {"check", "body"} \/ ~up))

\* When stop() is the last call the loop ends, unless it waits in accept() for a
\* client that never comes, which needs a server without gateway.
StopEndsLoop ==
  (NoMoreCalls /\ m_internalStatus = "SS_STOP" /\ listening)
    ~> (runPc = "ended" \/ ~up \/ (~m_defaultGw /\ backlog = <<>>))

\* A client the kernel has connected is accepted, whatever the gateway does and also by
\* a server that is paused, unless stop() ended the loop, which leaves the listening
\* socket open, or there is no descriptor for it.
ConnectedClientAccepted ==
  \A c \in Conns :
    (peer[c] # "none")
      ~> (pc[c] # "none" \/ runPc = "ended" \/ ~up \/ \A f \in Fds : desc[f] # NoConn)

\* Routing ends also when it goes to the gateway: its write blocks under the route
\* mutex, but only until the gateway reads.
RoutingEnds == \A c \in Conns : (m_mutexRoute = c) ~> (m_mutexRoute # c \/ ~up)

=============================================================================
