-------------------------- MODULE LifecycleProofs --------------------------
(***************************************************************************)
(* The life cycle of a TSocketServer: what is proved of the broker's loop  *)
(* holds of the server around it, the server's thread uses no member that  *)
(* is not constructed, and stop() lets one more client in at most.         *)
(***************************************************************************)
EXTENDS ServerLifecycle, DeliveryProofs

\* Only a server that was given a gateway has one that is connected.
GwInv ==
  /\ m_defaultGw \in {FALSE, DefaultGw}
  /\ ownerPc \in {"gw_connect", "gw_login"} => m_defaultGw
  /\ gwStatus # "NODE_DISCONNECTED" => m_defaultGw

\* Nothing the accept loop makes is there yet.
NothingAccepted ==
  /\ acceptPc = "accept"
  /\ m_lstNodes = <<>>
  /\ gwSent = <<>>
  /\ \A c \in Conns : pc[c] = "none"

\* The thread passes its first wait only after the constructor, and no node exists
\* before it has.
ConstructionInv ==
  /\ ownerPc \in Constructing => ~m_initialized
  /\ ~m_initialized => runPc = "wait_init"
  /\ runPc = "wait_init" => NothingAccepted

\* A client that was accepted after stop() was accepted in a turn of the loop that
\* had begun before, and the status is still that of the call.
LateInv ==
  late => /\ m_internalStatus = "SS_STOP"
          /\ runPc \in {"check", "body", "ended"}
          /\ runPc = "body" => acceptPc # "accept"

---------------------------------------------------------------------------
\* A node's thread, in the composition, changes nothing of the life cycle but what the
\* gateway has been sent.
LEMMA NodeStepFrame ==
  ASSUME NEW c \in Conns, RemoteNodeThread(c)
  PROVE  /\ UNCHANGED <<acceptVars, m_defaultGw, m_initialized, m_internalStatus, runPc,
                        listening, ownerPc, calls, gwStatus, gwPeer, late, errorLost>>
         /\ pc[c] # "none"
<1>1. CASE RouteToGw(c)
  BY <1>1 DEF RouteToGw
<1>2. CASE ~RouteToGw(c)
  BY <1>2 DEF RemoteNodeThread, LoginRead, SendLoginAnswer, CloseSocket, LoopExit, LoopRead,
              PopMessage, RouteLock, RouteVisit, EnqueueMsg, WriteData, lifeVars, gwVars
<1> QED BY <1>1, <1>2

\* Steps of the owner, the gateway and the clients leave the server's loop alone.
LEMMA OwnerStepFrame ==
  ASSUME \/ OwnerThread \/ GwLogin \/ Start \/ Pause \/ Stop \/ GwReads \/ GwCloses
         \/ \E c \in Conns : RemoteClient(c)
  PROVE  UNCHANGED <<serverVars, m_defaultGw, runPc>>
<1>1. CASE \E c \in Conns : RemoteClient(c)
  BY <1>1 DEF RemoteClient, Client, lifeVars
<1>2. CASE ~\E c \in Conns : RemoteClient(c)
  BY <1>2 DEF OwnerThread, ConstructMembers, GwConnect, GwLogin, Initialized, Start, Pause, Stop,
              Assign, Poll, GwReads, GwCloses, vars
<1> QED BY <1>1, <1>2

\* GwInv holds initially and every step keeps it.
LEMMA GwInductive ==
  /\ LifecycleInit => GwInv
  /\ GwInv /\ [LifecycleNext]_allVars => GwInv'
<1>1. LifecycleInit => GwInv
  BY DEF LifecycleInit, GwInv
<1>2. ASSUME GwInv, [LifecycleNext]_allVars
      PROVE  GwInv'
  <2>1. CASE UNCHANGED allVars
    BY <1>2, <2>1 DEF GwInv, allVars, lifeVars, gwVars
  <2>2. CASE ServerThread
    <3>1. UNCHANGED <<m_defaultGw, ownerPc, gwStatus>>
      BY <2>2 DEF ServerThread, WaitInitialized, WaitListening, BindAndListen, LoopCondition,
                  LoopBody, RunGoto, gwVars
    <3> QED BY <1>2, <3>1 DEF GwInv
  <2>3. CASE OwnerThread \/ GwLogin
    BY <1>2, <2>3 DEF GwInv, OwnerThread, ConstructMembers, GwConnect, GwLogin, Initialized,
                      Start, Assign, Poll, OwnerGoto, gwVars
  <2>4. CASE Start \/ Pause \/ Stop \/ GwReads \/ GwCloses
    BY <1>2, <2>4 DEF GwInv, Start, Pause, Stop, Assign, GwReads, GwCloses, OwnerGoto, gwVars
  <2>5. ASSUME NEW c \in Conns, RemoteNodeThread(c)
        PROVE  GwInv'
    BY <1>2, <2>5, NodeStepFrame DEF GwInv
  <2>6. ASSUME NEW c \in Conns, RemoteClient(c)
        PROVE  GwInv'
    BY <1>2, <2>6 DEF GwInv, RemoteClient, lifeVars, gwVars
  <2> QED BY <1>2, <2>1, <2>2, <2>3, <2>4, <2>5, <2>6 DEF LifecycleNext
<1> QED BY <1>1, <1>2

---------------------------------------------------------------------------
(* Refinement of the broker.                                               *)

\* What goes to the gateway goes there as RouteMiss says.
LEMMA RouteToGwStep ==
  ASSUME GwInv, NEW c \in Conns, RouteToGw(c)
  PROVE  RouteMiss(c)
<1>1. \/ UNCHANGED <<gwSent, up>>
      \/ DefaultGw /\ gwSent' = Append(gwSent, nm[c]) /\ UNCHANGED up
      \/ DefaultGw /\ up' = FALSE /\ UNCHANGED gwSent
  <2>1. gwStatus = "NODE_ACCEPTED" => DefaultGw
    <3>1. gwStatus = "NODE_ACCEPTED" => m_defaultGw
      BY DEF GwInv
    <3>2. m_defaultGw = FALSE \/ m_defaultGw = DefaultGw
      BY DEF GwInv
    <3> QED BY <3>1, <3>2, Zenon
  <2>2. GwSendMessage(nm[c])
    BY DEF RouteToGw
  <2> QED BY <2>1, <2>2 DEF GwSendMessage
<1>2. CASE up'
  BY <1>1, <1>2 DEF RouteToGw, RouteMiss
<1>3. CASE ~up'
  BY <1>1, <1>3 DEF RouteToGw, RouteMiss
<1> QED BY <1>2, <1>3

\* The server's thread takes steps of the accept thread, or none that the broker sees.
LEMMA ServerThreadStep ==
  ASSUME ServerThread
  PROVE  AcceptThread \/ UNCHANGED vars
<1>1. CASE LoopBody
  BY <1>1 DEF LoopBody, AcceptFails, AcceptThread
<1>2. CASE ~LoopBody
  BY <1>2 DEF ServerThread, WaitInitialized, WaitListening, BindAndListen, LoopCondition
<1> QED BY <1>1, <1>2

\* A TSocketServer, whatever its owner calls, behaves as the broker of SocketServer.
THEOREM LifecycleRefines == LifecycleSpec => LifecycleImplementsBroker
<1>1. LifecycleInit => Init
  BY DEF LifecycleInit
<1>2. ASSUME GwInv, [LifecycleNext]_allVars
      PROVE  [Next]_vars
  <2>1. CASE UNCHANGED allVars
    BY <2>1 DEF allVars
  <2>2. CASE ServerThread
    BY <2>2, ServerThreadStep DEF Next
  <2>3. CASE OwnerThread \/ GwLogin \/ Start \/ Pause \/ Stop \/ GwReads \/ GwCloses
    BY <2>3 DEF OwnerThread, ConstructMembers, GwConnect, GwLogin, Initialized, Start, Pause,
                Stop, Assign, Poll, GwReads, GwCloses
  <2>4. ASSUME NEW c \in Conns, RemoteNodeThread(c)
        PROVE  Next
    <3>1. CASE RouteToGw(c)
      BY <1>2, <2>4, <3>1, RouteToGwStep DEF Next, NodeThread
    <3>2. CASE ~RouteToGw(c)
      BY <2>4, <3>2 DEF RemoteNodeThread, Next, NodeThread
    <3> QED BY <3>1, <3>2
  <2>5. ASSUME NEW c \in Conns, RemoteClient(c)
        PROVE  Next
    BY <2>5 DEF RemoteClient, Next
  <2> QED BY <1>2, <2>1, <2>2, <2>3, <2>4, <2>5 DEF LifecycleNext
<1>3. QED
  BY <1>1, <1>2, GwInductive, PTL DEF LifecycleSpec, LifecycleImplementsBroker, Spec

\* So its descriptors, locks and deliveries are as proved of SocketServer, and its
\* clients' messages keep their order.
THEOREM ServerSafe ==
  LifecycleSpec =>
    /\ [](DescriptorOwnership /\ RouteLockDiscipline /\ AddressedDelivery /\ DeliveredAtMostOnce)
    /\ PairsInOrder
BY LifecycleRefines, DescriptorsOwned, LocksHeldAsTaken, Addressed, AtMostOnce, PairsKeepOrder, PTL
   DEF LifecycleImplementsBroker

---------------------------------------------------------------------------
(* Construction.                                                           *)

\* ConstructionInv holds initially and every step keeps it.
LEMMA ConstructionInductive ==
  /\ LifecycleInit => ConstructionInv
  /\ ConstructionInv /\ [LifecycleNext]_allVars => ConstructionInv'
<1>1. LifecycleInit => ConstructionInv
  BY DEF LifecycleInit, Init, ConstructionInv, NothingAccepted, Constructing
<1>2. ASSUME ConstructionInv, [LifecycleNext]_allVars
      PROVE  ConstructionInv'
  <2>1. CASE UNCHANGED allVars
    BY <1>2, <2>1 DEF ConstructionInv, NothingAccepted, allVars, vars, serverVars, acceptVars,
                      routeVars, lifeVars
  <2>2. CASE ServerThread
    <3>1. UNCHANGED <<m_initialized, ownerPc>>
      BY <2>2 DEF ServerThread, WaitInitialized, WaitListening, BindAndListen, LoopCondition,
                  LoopBody, RunGoto
    <3>2. runPc' # "wait_init" /\ m_initialized
      BY <1>2, <2>2 DEF ConstructionInv, ServerThread, WaitInitialized, WaitListening,
                        BindAndListen, LoopCondition, LoopBody, RunGoto
    <3> QED BY <1>2, <3>1, <3>2 DEF ConstructionInv
  <2>3. CASE \/ OwnerThread \/ GwLogin \/ Start \/ Pause \/ Stop \/ GwReads \/ GwCloses
             \/ \E c \in Conns : RemoteClient(c)
    <3>1. UNCHANGED <<acceptPc, m_lstNodes, gwSent, pc, runPc>>
      BY <2>3, OwnerStepFrame DEF serverVars, acceptVars, routeVars
    <3>2. \/ UNCHANGED <<m_initialized, ownerPc>>
          \/ UNCHANGED m_initialized /\ (ownerPc \in Constructing \/ ownerPc' \notin Constructing)
          \/ m_initialized' = TRUE /\ ownerPc' = "start"
      <4>1. CASE \E c \in Conns : RemoteClient(c)
        BY <4>1 DEF RemoteClient, lifeVars
      <4>2. CASE OwnerThread
        BY <4>2 DEF OwnerThread, ConstructMembers, GwConnect, Initialized, Start, Assign, Poll,
                    OwnerGoto, Constructing
      <4>3. CASE GwLogin \/ Start \/ Pause \/ Stop \/ GwReads \/ GwCloses
        BY <4>3 DEF GwLogin, Start, Pause, Stop, Assign, GwReads, GwCloses, OwnerGoto, Constructing
      <4> QED BY <2>3, <4>1, <4>2, <4>3
    <3> QED BY <1>2, <3>1, <3>2 DEF ConstructionInv, NothingAccepted, Constructing
  <2>4. ASSUME NEW c \in Conns, RemoteNodeThread(c)
        PROVE  ConstructionInv'
    <3>1. runPc # "wait_init"
      BY <1>2, <2>4, NodeStepFrame DEF ConstructionInv, NothingAccepted
    <3> QED BY <1>2, <2>4, <3>1, NodeStepFrame DEF ConstructionInv
  <2> QED BY <1>2, <2>1, <2>2, <2>3, <2>4 DEF LifecycleNext
<1> QED BY <1>1, <1>2

\* The server's thread starts before the members it works on, and does not touch them
\* before the constructor is done with them.
THEOREM MembersConstructedFirst == LifecycleSpec => []ConstructedBeforeUse
<1>1. ConstructionInv => ConstructedBeforeUse
  BY DEF ConstructionInv, NothingAccepted, ConstructedBeforeUse, Constructing
<1>2. QED
  BY <1>1, ConstructionInductive, PTL DEF LifecycleSpec

---------------------------------------------------------------------------
(* stop().                                                                 *)

\* LateInv holds initially and every step keeps it.
LEMMA LateInductive ==
  /\ LifecycleInit => LateInv
  /\ LateInv /\ [LifecycleNext]_allVars => LateInv'
<1>1. LifecycleInit => LateInv
  BY DEF LifecycleInit, LateInv
<1>2. ASSUME LateInv, [LifecycleNext]_allVars
      PROVE  LateInv'
  <2>1. CASE UNCHANGED allVars
    BY <1>2, <2>1 DEF LateInv, allVars, vars, serverVars, acceptVars, lifeVars
  <2>2. CASE ServerThread
    <3>1. CASE LoopBody
      <4>1. CASE \E c \in Conns : Accept(c) /\ late' = (late \/ m_internalStatus = "SS_STOP")
                                  /\ RunGoto("body")
        BY <1>2, <3>1, <4>1 DEF LateInv, LoopBody, Accept, RunGoto
      <4>2. CASE NodeStart /\ RunGoto("body") /\ UNCHANGED late
        BY <1>2, <3>1, <4>2 DEF LateInv, LoopBody, NodeStart, RunGoto
      <4>3. CASE PushBack /\ RunGoto("check") /\ UNCHANGED late
        BY <1>2, <3>1, <4>3 DEF LateInv, LoopBody, PushBack, RunGoto
      <4>4. CASE AcceptFails /\ RunGoto("check") /\ UNCHANGED late
        BY <1>2, <3>1, <4>4 DEF LateInv, LoopBody, AcceptFails, RunGoto
      <4> QED BY <3>1, <4>1, <4>2, <4>3, <4>4 DEF LoopBody
    <3>2. CASE LoopCondition
      BY <1>2, <3>2 DEF LateInv, LoopCondition, RunGoto
    <3>3. CASE WaitInitialized \/ WaitListening \/ BindAndListen
      BY <1>2, <3>3 DEF LateInv, WaitInitialized, WaitListening, BindAndListen, RunGoto
    <3> QED BY <2>2, <3>1, <3>2, <3>3 DEF ServerThread
  <2>3. CASE \/ OwnerThread \/ GwLogin \/ Start \/ Pause \/ Stop \/ GwReads \/ GwCloses
             \/ \E c \in Conns : RemoteClient(c)
    <3>1. UNCHANGED <<acceptPc, runPc>>
      BY <2>3, OwnerStepFrame DEF serverVars, acceptVars
    <3>2. late' = FALSE \/ UNCHANGED <<late, m_internalStatus>>
      <4>1. CASE \E c \in Conns : RemoteClient(c)
        BY <4>1 DEF RemoteClient, lifeVars
      <4>2. CASE ~\E c \in Conns : RemoteClient(c)
        BY <2>3, <4>2 DEF OwnerThread, ConstructMembers, GwConnect, GwLogin, Initialized, Start,
                          Pause, Stop, Assign, Poll, GwReads, GwCloses
      <4> QED BY <4>1, <4>2
    <3> QED BY <1>2, <3>1, <3>2 DEF LateInv
  <2>4. ASSUME NEW c \in Conns, RemoteNodeThread(c)
        PROVE  LateInv'
    BY <1>2, <2>4, NodeStepFrame DEF LateInv, acceptVars
  <2> QED BY <1>2, <2>1, <2>2, <2>3, <2>4 DEF LifecycleNext
<1> QED BY <1>1, <1>2

\* stop() is noticed after at most one more client, for every number of clients and
\* calls.
THEOREM StopAdmitsOne == LifecycleSpec => []OneAcceptedAfterStop
<1>1. LateInv => OneAcceptedAfterStop
  BY DEF LateInv, OneAcceptedAfterStop
<1>2. QED
  BY <1>1, LateInductive, PTL DEF LifecycleSpec

=============================================================================
