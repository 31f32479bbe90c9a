----------------------------- MODULE AsioProofs -----------------------------
(***************************************************************************)
(* The login of the boost::asio broker implements LoginProtocol, and only  *)
(* what OrderlyClientsServed names ends its accept loop, for any number of *)
(* clients, ids and descriptors.                                           *)
(***************************************************************************)
EXTENDS AsioBroker, TLAPS

---------------------------------------------------------------------------
(* Types.                                                                  *)

\* The types, and that accepted is set when it is used.
TypeInv ==
  /\ TypeOK
  /\ acceptPc \in {"construct", "set_id", "spawn"} => accepted \in Conns

\* TypeInv holds initially.
LEMMA TypeInit == Init => TypeInv
BY AsioAssumption DEF Init, TypeInv, TypeOK, TNodeStatus

\* The end of the loop drops connections.
LEMMA EndLoopTypes ==
  ASSUME TypeInv, EndLoop
  PROVE  acceptPc' = "ended" /\ backlog' \in Seq(Conns) /\ dropped' \in SUBSET Conns
<1>1. \A i \in 1 .. Len(backlog) : backlog[i] \in Conns
  BY DEF TypeInv, TypeOK
<1>2. <<>> \in Seq(Conns)
  OBVIOUS
<1> QED BY <1>1, <1>2 DEF TypeInv, TypeOK, EndLoop

\* The accept thread and main keep TypeInv.
LEMMA TypeServer ==
  ASSUME TypeInv, AcceptThread \/ ServerMain
  PROVE  TypeInv'
<1> USE DEF TypeInv, TypeOK, TNodeStatus
<1>1. CASE OpenAcceptor
  BY <1>1, EndLoopTypes DEF OpenAcceptor, clientVars
<1>2. CASE Accept
  <2>1. CASE backlog # <<>> /\ accepted' = Head(backlog) /\ backlog' = Tail(backlog)
             /\ acceptPc' = "construct" /\ UNCHANGED dropped
    <3>1. Head(backlog) \in Conns /\ Tail(backlog) \in Seq(Conns)
      BY <2>1
    <3> QED BY <1>2, <2>1, <3>1 DEF Accept, clientVars
  <2>2. CASE EndLoop /\ UNCHANGED accepted
    BY <1>2, <2>2, EndLoopTypes DEF Accept, clientVars
  <2> QED BY <1>2, <2>1, <2>2 DEF Accept
<1>3. CASE Construct
  <2>1. CASE peer[accepted] = "reset"
    BY <1>3, <2>1, EndLoopTypes DEF Construct, clientVars
  <2>2. CASE peer[accepted] # "reset"
    <3>1. /\ m_nodeId' = [m_nodeId EXCEPT ![accepted] = 0]
          /\ m_nodeStatus' = [m_nodeStatus EXCEPT ![accepted] = "NODE_CONNECTED"]
          /\ acceptPc' = "set_id"
          /\ UNCHANGED <<backlog, dropped>>
      BY <1>3, <2>2 DEF Construct
    <3>2. m_nodeId' \in [Conns -> Nat] /\ m_nodeStatus' \in [Conns -> TNodeStatus]
      BY <1>3, <3>1 DEF Construct
    <3> QED BY <1>3, <3>1, <3>2 DEF Construct, clientVars
  <2> QED BY <2>1, <2>2
<1>4. CASE SetNodeId
  BY <1>4 DEF SetNodeId, clientVars, connVars
<1>5. CASE Spawn
  <2>1. CASE peer[accepted] = "reset"
    BY <1>5, <2>1, EndLoopTypes DEF Spawn, clientVars
  <2>2. CASE peer[accepted] # "reset"
    BY <1>5, <2>2 DEF Spawn, clientVars
  <2> QED BY <2>1, <2>2
<1>6. CASE JoinServer \/ Destroy
  BY <1>6 DEF JoinServer, Destroy, clientVars, connVars
<1> QED BY <1>1, <1>2, <1>3, <1>4, <1>5, <1>6 DEF AcceptThread, ServerMain

\* So do the node threads and the clients.
LEMMA TypeOthers ==
  ASSUME TypeInv, NEW c \in Conns, NodeThread(c) \/ ClientMain(c) \/ Leave(c)
  PROVE  TypeInv'
<1> USE DEF TypeInv, TypeOK, TNodeStatus
<1>1. CASE NodeRead(c)
  <2>1. wanted[c] \in Nat
    BY AsioAssumption
  <2>2. /\ m_nodeId' \in [Conns -> Nat]
        /\ m_nodeStatus' \in [Conns -> TNodeStatus]
        /\ toServer' \in [Conns -> BOOLEAN]
    <3>1. toServer' \in [Conns -> BOOLEAN]
      BY <1>1 DEF NodeRead
    <3>2. m_nodeId' \in [Conns -> Nat]
      BY <1>1, <2>1 DEF NodeRead
    <3>3. m_nodeStatus' \in [Conns -> TNodeStatus]
      BY <1>1 DEF NodeRead
    <3> QED BY <3>1, <3>2, <3>3
  <2>3. nodePc' \in [Conns -> {"none", "read", "answer", "loop"}]
    BY <1>1 DEF NodeRead, NodeStep
  <2>4. UNCHANGED <<acceptPc, accepted, mainPc, m_connectedNodeId, m_lstNodes, clientVars, backlog,
                    peer, dropped, toClient>>
    BY <1>1 DEF NodeRead, NodeStep
  <2> QED BY <2>2, <2>3, <2>4 DEF clientVars
<1>2. CASE NodeAnswer(c)
  BY <1>2 DEF NodeAnswer, NodeStep, clientVars
<1>3. CASE Connect(c)
  <2>1. \/ UNCHANGED <<peer, backlog>>
        \/ peer' = [peer EXCEPT ![c] = "open"] /\ backlog' = Append(backlog, c)
    BY <1>3 DEF Connect, Listening
  <2>2. \E l \in {"node", "idle"} : appPc' = [appPc EXCEPT ![c] = l]
    BY <1>3 DEF Connect, Listening, AppGoto
  <2>3. backlog' \in Seq(Conns)
    <3>1. backlog \in Seq(Conns)
      OBVIOUS
    <3>2. Append(backlog, c) \in Seq(Conns)
      BY <3>1
    <3> QED BY <2>1, <3>1, <3>2
  <2>4. peer' \in [Conns -> {"none", "open", "closed", "reset"}]
    BY <2>1
  <2>5. appPc' \in [Conns -> {"connect", "node", "login", "wait", "idle", "aborted", "gone"}]
    BY <2>2
  <2> QED BY <1>3, <2>3, <2>4, <2>5 DEF Connect, serverVars
<1>4. CASE MakeNode(c)
  BY <1>4 DEF MakeNode, AppGoto, serverVars, connVars
<1>5. CASE LoginWrite(c)
  <2>1. toServer' \in [Conns -> BOOLEAN]
    BY <1>5 DEF LoginWrite
  <2> QED BY <1>5, <2>1 DEF LoginWrite, AppGoto, serverVars
<1>6. CASE LoginRead(c)
  <2>1. /\ UNCHANGED toClient \/ toClient' = [toClient EXCEPT ![c] = FALSE]
        /\ \/ UNCHANGED cnStatus
           \/ \E s \in {"NODE_ACCEPTED", "NODE_REJECTED"} : cnStatus' = [cnStatus EXCEPT ![c] = s]
    BY <1>6 DEF LoginRead
  <2>2. toClient' \in [Conns -> BOOLEAN]
    BY <2>1
  <2>3. cnStatus' \in [Conns -> TNodeStatus]
    BY <2>1
  <2>4. appPc' \in [Conns -> {"connect", "node", "login", "wait", "idle", "aborted", "gone"}]
    BY <1>6 DEF LoginRead, AppGoto
  <2> QED BY <1>6, <2>2, <2>3, <2>4 DEF LoginRead, serverVars
<1>7. CASE Leave(c)
  BY <1>7 DEF Leave, AppGoto, serverVars
<1> QED BY <1>1, <1>2, <1>3, <1>4, <1>5, <1>6, <1>7 DEF NodeThread, ClientMain

\* TypeInv is inductive.
LEMMA TypeStep == TypeInv /\ [Next]_vars => TypeInv'
<1>1. CASE UNCHANGED vars
  BY <1>1 DEF TypeInv, TypeOK, vars, serverVars, clientVars, connVars
<1> QED BY <1>1, TypeServer, TypeOthers DEF Next

\* The state of both programs keeps its types.
THEOREM TypeCorrect == Spec => []TypeOK
<1>1. TypeInv => TypeOK
  BY DEF TypeInv
<1>2. QED
  BY <1>1, TypeInit, TypeStep, PTL DEF Spec

---------------------------------------------------------------------------
(* The connection that is being accepted.                                  *)

Waiting(c) == \E i \in 1 .. Len(backlog) : backlog[i] = c

BeingAccepted(c) == acceptPc \in {"construct", "set_id", "spawn"} /\ accepted = c

\* A client is not connected, waits, is being accepted or has its thread: never two
\* of these at a time.
StageInv ==
  /\ \A i, j \in 1 .. Len(backlog) : backlog[i] = backlog[j] => i = j
  /\ \A c \in Conns :
       /\ appPc[c] = "connect" => nodePc[c] = "none" /\ ~Waiting(c) /\ ~BeingAccepted(c)
       /\ Waiting(c) => nodePc[c] = "none" /\ ~BeingAccepted(c)
       /\ BeingAccepted(c) => nodePc[c] = "none"

\* Where a client is before it has read the one answer it reads.
BeforeAnswer == {"connect", "node", "login", "wait"}

\* What the stages of a login have established.
LoginInv ==
  \A c \in Conns :
    /\ nodePc[c] \in {"none", "read"} => m_nodeStatus[c] = "NODE_CONNECTED"
    /\ nodePc[c] = "answer" => m_nodeStatus[c] = "NODE_ACCEPTED"
    /\ toClient[c] => nodePc[c] = "loop" /\ m_nodeStatus[c] = "NODE_ACCEPTED"
    /\ m_nodeStatus[c] = "NODE_ACCEPTED" => m_nodeId[c] = wanted[c]
    /\ cnStatus[c] = "NODE_ACCEPTED" =>
         appPc[c] \notin BeforeAnswer /\ nodePc[c] = "loop" /\ m_nodeStatus[c] = "NODE_ACCEPTED"

\* StageInv holds initially.
LEMMA StageInit == Init => StageInv
BY DEF Init, StageInv, Waiting, BeingAccepted

\* When the loop ends nobody waits and nobody is being accepted.
LEMMA StageEndLoop ==
  ASSUME TypeInv, StageInv, EndLoop, UNCHANGED <<nodePc, appPc>>
  PROVE  StageInv'
<1>1. Len(backlog') = 0 /\ acceptPc' = "ended"
  BY DEF EndLoop
<1>2. \A c \in Conns : ~Waiting(c)' /\ ~BeingAccepted(c)'
  BY <1>1 DEF Waiting, BeingAccepted
<1> QED BY <1>1, <1>2 DEF StageInv

\* accept() moves the first of those who wait.
LEMMA StageAccept ==
  ASSUME TypeInv, StageInv, Accept
  PROVE  StageInv'
<1>1. CASE EndLoop
  BY <1>1, StageEndLoop DEF Accept, clientVars
<1>2. CASE ~EndLoop
  <2>1. /\ backlog # <<>>
        /\ accepted' = Head(backlog)
        /\ backlog' = Tail(backlog)
        /\ acceptPc' = "construct"
        /\ acceptPc = "accept"
        /\ UNCHANGED <<nodePc, appPc>>
    BY <1>2 DEF Accept, clientVars
  <2>2. /\ Len(backlog') = Len(backlog) - 1
        /\ \A i \in 1 .. Len(backlog') : backlog'[i] = backlog[i + 1] /\ i + 1 \in 1 .. Len(backlog)
        /\ accepted' = backlog[1] /\ 1 \in 1 .. Len(backlog) /\ Len(backlog) \in Nat
    BY <2>1 DEF TypeInv, TypeOK
  <2>3. \A i, j \in 1 .. Len(backlog') : backlog'[i] = backlog'[j] => i = j
    <3>1. TAKE i, j \in 1 .. Len(backlog')
    <3>2. HAVE backlog'[i] = backlog'[j]
    <3>3. i + 1 = j + 1
      BY <2>2, <3>2 DEF StageInv
    <3> QED BY <3>3, <2>2
  <2>4. \A c \in Conns : Waiting(c)' => Waiting(c) /\ c # accepted'
    <3>1. TAKE c \in Conns
    <3>2. HAVE Waiting(c)'
    <3>3. PICK i \in 1 .. Len(backlog') : backlog'[i] = c
      BY <3>2 DEF Waiting
    <3>4. backlog[i + 1] = c /\ i + 1 \in 1 .. Len(backlog) /\ i + 1 # 1
      BY <2>2, <3>3
    <3> QED BY <2>2, <3>4 DEF Waiting, StageInv
  <2>5. \A c \in Conns : BeingAccepted(c)' => Waiting(c)
    BY <2>2 DEF BeingAccepted, Waiting
  <2>6. \A c \in Conns : BeingAccepted(c)' => c = accepted'
    BY DEF BeingAccepted
  <2>7. ASSUME NEW c \in Conns
        PROVE  /\ appPc'[c] = "connect" => nodePc'[c] = "none" /\ ~Waiting(c)' /\ ~BeingAccepted(c)'
               /\ Waiting(c)' => nodePc'[c] = "none" /\ ~BeingAccepted(c)'
               /\ BeingAccepted(c)' => nodePc'[c] = "none"
    BY <2>1, <2>4, <2>5, <2>6 DEF StageInv
  <2> QED BY <2>3, <2>7 DEF StageInv
<1> QED BY <1>1, <1>2

\* The steps of the accept thread and of main keep StageInv.
LEMMA StageServer ==
  ASSUME TypeInv, StageInv, AcceptThread \/ ServerMain
  PROVE  StageInv'
<1>1. CASE OpenAcceptor
  <2>1. CASE EndLoop
    BY <1>1, <2>1, StageEndLoop DEF OpenAcceptor, clientVars
  <2>2. CASE ~EndLoop
    BY <1>1, <2>2 DEF OpenAcceptor, clientVars, StageInv, Waiting, BeingAccepted
  <2> QED BY <2>1, <2>2
<1>2. CASE Accept
  BY <1>2, StageAccept
<1>3. CASE Construct
  <2>1. CASE EndLoop
    BY <1>3, <2>1, StageEndLoop DEF Construct, clientVars
  <2>2. CASE ~EndLoop
    BY <1>3, <2>2 DEF Construct, clientVars, StageInv, Waiting, BeingAccepted
  <2> QED BY <2>1, <2>2
<1>4. CASE SetNodeId
  BY <1>4 DEF SetNodeId, clientVars, connVars, StageInv, Waiting, BeingAccepted
<1>5. CASE Spawn
  <2>1. CASE EndLoop /\ UNCHANGED nodePc
    BY <1>5, <2>1, StageEndLoop DEF Spawn, clientVars
  <2>2. CASE ~(EndLoop /\ UNCHANGED nodePc)
    <3>1. /\ acceptPc = "spawn" /\ acceptPc' = "accept"
          /\ nodePc' = [nodePc EXCEPT ![accepted] = "read"]
          /\ UNCHANGED <<backlog, appPc>>
      BY <1>5, <2>2 DEF Spawn, clientVars
    <3>2. BeingAccepted(accepted) /\ accepted \in Conns
      BY <3>1 DEF BeingAccepted, TypeInv
    <3>3. ~Waiting(accepted) /\ appPc[accepted] # "connect"
      BY <3>2 DEF StageInv
    <3>4. \A c \in Conns : (Waiting(c)' <=> Waiting(c)) /\ ~BeingAccepted(c)'
      BY <3>1 DEF Waiting, BeingAccepted
    <3>5. ASSUME NEW c \in Conns
          PROVE  /\ appPc'[c] = "connect" => nodePc'[c] = "none" /\ ~Waiting(c)'
                 /\ Waiting(c)' => nodePc'[c] = "none"
      BY <3>1, <3>3, <3>4 DEF StageInv, TypeInv, TypeOK
    <3> QED BY <3>1, <3>4, <3>5 DEF StageInv
  <2> QED BY <2>1, <2>2
<1>6. CASE JoinServer \/ Destroy
  BY <1>6 DEF JoinServer, Destroy, clientVars, connVars, StageInv, Waiting, BeingAccepted
<1> QED BY <1>1, <1>2, <1>3, <1>4, <1>5, <1>6 DEF AcceptThread, ServerMain

\* So do a node's thread and a client.
LEMMA StageOthers ==
  ASSUME TypeInv, StageInv, NEW c \in Conns, NodeThread(c) \/ ClientMain(c) \/ Leave(c)
  PROVE  StageInv'
<1>1. CASE NodeThread(c)
  <2>1. /\ nodePc[c] # "none"
        /\ \E l \in {"answer", "loop"} : nodePc' = [nodePc EXCEPT ![c] = l]
        /\ UNCHANGED <<acceptPc, accepted, backlog, appPc>>
    BY <1>1 DEF NodeThread, NodeRead, NodeAnswer, NodeStep, clientVars
  <2>2. \A d \in Conns : (Waiting(d)' <=> Waiting(d)) /\ (BeingAccepted(d)' <=> BeingAccepted(d))
    BY <2>1 DEF Waiting, BeingAccepted
  <2>3. \A d \in Conns : nodePc[d] = "none" => nodePc'[d] = "none"
    BY <2>1 DEF TypeInv, TypeOK
  <2> QED BY <2>1, <2>2, <2>3 DEF StageInv
<1>2. CASE Connect(c) /\ Listening
  <2>1. /\ appPc[c] = "connect"
        /\ backlog' = Append(backlog, c)
        /\ appPc' = [appPc EXCEPT ![c] = "node"]
        /\ UNCHANGED <<acceptPc, accepted, nodePc>>
    BY <1>2 DEF Connect, AppGoto, serverVars
  <2>2. /\ Len(backlog) \in Nat
        /\ Len(backlog') = Len(backlog) + 1
        /\ backlog'[Len(backlog) + 1] = c
        /\ \A i \in 1 .. Len(backlog) : backlog'[i] = backlog[i]
    BY <2>1 DEF TypeInv, TypeOK
  <2>3. ~Waiting(c) /\ ~BeingAccepted(c) /\ nodePc[c] = "none"
    BY <2>1 DEF StageInv
  <2>4. \A i \in 1 .. Len(backlog') :
          i = Len(backlog) + 1 \/ (i \in 1 .. Len(backlog) /\ backlog[i] # c)
    BY <2>2, <2>3 DEF Waiting
  <2>5. \A i, j \in 1 .. Len(backlog') : backlog'[i] = backlog'[j] => i = j
    BY <2>2, <2>4 DEF StageInv
  <2>6. \A d \in Conns : /\ Waiting(d)' => Waiting(d) \/ d = c
                         /\ BeingAccepted(d)' <=> BeingAccepted(d)
    BY <2>1, <2>2, <2>4 DEF Waiting, BeingAccepted
  <2>7. \A d \in Conns : appPc'[d] = "connect" => d # c /\ appPc[d] = "connect"
    BY <2>1 DEF TypeInv, TypeOK
  <2> QED BY <2>1, <2>3, <2>5, <2>6, <2>7 DEF StageInv
<1>3. CASE \/ Connect(c) /\ ~Listening
           \/ MakeNode(c) \/ LoginWrite(c) \/ LoginRead(c) \/ Leave(c)
  <2>1. /\ \E l \in {"idle", "aborted", "login", "wait", "gone"} : appPc' = [appPc EXCEPT ![c] = l]
        /\ UNCHANGED <<acceptPc, accepted, backlog, nodePc>>
    BY <1>3 DEF Connect, MakeNode, LoginWrite, LoginRead, Leave, AppGoto, serverVars, connVars
  <2>2. \A d \in Conns : appPc'[d] = "connect" => appPc[d] = "connect"
    BY <2>1 DEF TypeInv, TypeOK
  <2> QED BY <2>1, <2>2 DEF StageInv, Waiting, BeingAccepted
<1> QED BY <1>1, <1>2, <1>3 DEF ClientMain

\* StageInv is inductive.
LEMMA StageStep == TypeInv /\ StageInv /\ [Next]_vars => StageInv'
<1>1. CASE UNCHANGED vars
  BY <1>1 DEF StageInv, Waiting, BeingAccepted, vars, serverVars, clientVars, connVars
<1> QED BY <1>1, StageServer, StageOthers DEF Next

---------------------------------------------------------------------------
(* The login.                                                              *)

\* LoginInv holds initially.
LEMMA LoginInit == Init => LoginInv
BY DEF Init, LoginInv

\* What the steps of the server outside the node threads leave of a login, and the
\* node they may change: one whose thread has not been started.
LEMMA ServerLoginStep ==
  ASSUME TypeInv, StageInv, LoginInv, AcceptThread \/ ServerMain
  PROVE  /\ UNCHANGED <<wanted, appPc, cnStatus, m_nodeStatus, toClient>>
         /\ \A c \in Conns :
              \/ m_nodeId'[c] = m_nodeId[c] /\ nodePc'[c] = nodePc[c]
              \/ nodePc[c] = "none" /\ nodePc'[c] \in {"none", "read"}
<1>1. CASE AcceptThread /\ acceptPc \in {"construct", "set_id", "spawn"}
  <2>1. accepted \in Conns /\ nodePc[accepted] = "none"
    BY <1>1 DEF TypeInv, StageInv, BeingAccepted
  <2>2. m_nodeStatus[accepted] = "NODE_CONNECTED"
    BY <2>1 DEF LoginInv
  <2>3. UNCHANGED <<wanted, appPc, cnStatus, toClient>>
    BY <1>1 DEF AcceptThread, OpenAcceptor, Accept, Construct, SetNodeId, Spawn, clientVars, connVars
  <2>4. UNCHANGED m_nodeStatus \/ m_nodeStatus' = [m_nodeStatus EXCEPT ![accepted] = "NODE_CONNECTED"]
    BY <1>1 DEF AcceptThread, OpenAcceptor, Accept, Construct, SetNodeId, Spawn
  <2>5. UNCHANGED m_nodeStatus
    BY <2>1, <2>2, <2>4 DEF TypeInv, TypeOK
  <2>6. \/ UNCHANGED m_nodeId
        \/ \E k \in Nat : m_nodeId' = [m_nodeId EXCEPT ![accepted] = k]
    BY <1>1 DEF AcceptThread, OpenAcceptor, Accept, Construct, SetNodeId, Spawn, TypeInv, TypeOK
  <2>7. UNCHANGED nodePc \/ nodePc' = [nodePc EXCEPT ![accepted] = "read"]
    BY <1>1 DEF AcceptThread, OpenAcceptor, Accept, Construct, SetNodeId, Spawn
  <2>8. ASSUME NEW c \in Conns
        PROVE  \/ m_nodeId'[c] = m_nodeId[c] /\ nodePc'[c] = nodePc[c]
               \/ nodePc[c] = "none" /\ nodePc'[c] \in {"none", "read"}
    BY <2>1, <2>6, <2>7 DEF TypeInv, TypeOK
  <2> QED BY <2>3, <2>5, <2>8
<1>2. CASE ~(AcceptThread /\ acceptPc \in {"construct", "set_id", "spawn"})
  BY <1>2 DEF AcceptThread, ServerMain, OpenAcceptor, Accept, Construct, SetNodeId, Spawn,
              JoinServer, Destroy, clientVars, connVars
<1> QED BY <1>1, <1>2

\* The steps of node c's thread in terms of its own login.
LEMMA NodeLoginStep ==
  ASSUME TypeInv, LoginInv, NEW c \in Conns, NodeThread(c)
  PROVE  /\ UNCHANGED <<wanted, appPc, cnStatus>>
         /\ \A d \in Conns \ {c} : /\ m_nodeId'[d] = m_nodeId[d] /\ nodePc'[d] = nodePc[d]
                                  /\ m_nodeStatus'[d] = m_nodeStatus[d]
                                  /\ toClient'[d] = toClient[d]
         /\ \/ /\ nodePc[c] = "read" /\ nodePc'[c] = "answer" /\ ~toClient'[c]
               /\ m_nodeStatus'[c] = "NODE_ACCEPTED" /\ m_nodeId'[c] = wanted[c]
            \/ /\ nodePc[c] = "read" /\ nodePc'[c] = "loop" /\ ~toClient'[c]
               /\ m_nodeStatus'[c] # "NODE_ACCEPTED" /\ m_nodeId'[c] = m_nodeId[c]
            \/ /\ nodePc[c] = "answer" /\ nodePc'[c] = "loop"
               /\ m_nodeStatus'[c] = "NODE_ACCEPTED" /\ m_nodeId'[c] = m_nodeId[c]
            \/ /\ nodePc[c] = "answer" /\ nodePc'[c] = "loop" /\ ~toClient'[c]
               /\ m_nodeStatus'[c] = "NODE_REJECTED" /\ m_nodeId'[c] = m_nodeId[c]
<1>1. CASE NodeRead(c)
  <2>1. ~toClient[c] /\ m_nodeStatus[c] = "NODE_CONNECTED"
    BY <1>1 DEF NodeRead, LoginInv
  <2> QED BY <1>1, <2>1 DEF NodeRead, NodeStep, clientVars, TypeInv, TypeOK
<1>2. CASE NodeAnswer(c)
  <2>1. ~toClient[c] /\ m_nodeStatus[c] = "NODE_ACCEPTED"
    BY <1>2 DEF NodeAnswer, LoginInv
  <2> QED BY <1>2, <2>1 DEF NodeAnswer, NodeStep, clientVars, TypeInv, TypeOK
<1> QED BY <1>1, <1>2 DEF NodeThread

\* The steps of client c in terms of its login.
LEMMA ClientLoginStep ==
  ASSUME TypeInv, NEW c \in Conns, ClientMain(c) \/ Leave(c)
  PROVE  /\ UNCHANGED <<wanted, m_nodeId, m_nodeStatus, nodePc>>
         /\ \A d \in Conns : toClient'[d] => toClient[d]
         /\ \A d \in Conns : appPc'[d] \in BeforeAnswer => appPc[d] \in BeforeAnswer
         /\ \/ UNCHANGED cnStatus
            \/ /\ toClient[c] /\ appPc[c] = "wait" /\ appPc'[c] = "idle"
               /\ \E s \in {"NODE_ACCEPTED", "NODE_REJECTED"} :
                    cnStatus' = [cnStatus EXCEPT ![c] = s]
<1>1. CASE LoginRead(c)
  BY <1>1 DEF LoginRead, AppGoto, BeforeAnswer, serverVars, TypeInv, TypeOK
<1>2. CASE ~LoginRead(c)
  <2>1. \E l \in {"node", "idle", "aborted", "login", "wait", "gone"} :
          appPc' = [appPc EXCEPT ![c] = l] /\ (l \in BeforeAnswer => appPc[c] \in BeforeAnswer)
    BY <1>2 DEF ClientMain, Connect, MakeNode, LoginWrite, Leave, AppGoto, BeforeAnswer
  <2>2. UNCHANGED <<wanted, m_nodeId, m_nodeStatus, nodePc, cnStatus>>
    BY <1>2 DEF ClientMain, Connect, MakeNode, LoginWrite, Leave, serverVars
  <2>3. UNCHANGED toClient \/ toClient' = [toClient EXCEPT ![c] = FALSE]
    BY <1>2 DEF ClientMain, Connect, MakeNode, LoginWrite, Leave, connVars
  <2> QED BY <2>1, <2>2, <2>3 DEF TypeInv, TypeOK
<1> QED BY <1>1, <1>2

\* LoginInv is inductive.
LEMMA LoginStep == TypeInv /\ StageInv /\ LoginInv /\ [Next]_vars => LoginInv'
<1> SUFFICES ASSUME TypeInv, StageInv, LoginInv, [Next]_vars
             PROVE  LoginInv'
  OBVIOUS
<1>1. CASE UNCHANGED vars
  BY <1>1 DEF LoginInv, vars, serverVars, clientVars, connVars
<1>2. CASE AcceptThread \/ ServerMain
  BY <1>2, ServerLoginStep DEF LoginInv
<1>3. ASSUME NEW c \in Conns, NodeThread(c)
      PROVE  LoginInv'
  BY <1>3, NodeLoginStep DEF LoginInv
<1>4. ASSUME NEW c \in Conns, ClientMain(c) \/ Leave(c)
      PROVE  LoginInv'
  <2>1. "idle" \notin BeforeAnswer /\ "wait" \in BeforeAnswer
    BY DEF BeforeAnswer
  <2>2. ASSUME NEW d \in Conns, cnStatus'[d] = "NODE_ACCEPTED"
        PROVE  appPc'[d] \notin BeforeAnswer /\ nodePc[d] = "loop" /\ m_nodeStatus[d] = "NODE_ACCEPTED"
    <3>1. CASE cnStatus[d] = "NODE_ACCEPTED"
      <4>1. appPc[d] \notin BeforeAnswer
        BY <3>1 DEF LoginInv
      <4>2. appPc'[d] \notin BeforeAnswer
        BY <1>4, <4>1, ClientLoginStep
      <4> QED BY <3>1, <4>2 DEF LoginInv
    <3>2. CASE cnStatus[d] # "NODE_ACCEPTED"
      <4>1. cnStatus \in [Conns -> TNodeStatus]
        BY DEF TypeInv, TypeOK
      <4>2. \E s \in {"NODE_ACCEPTED", "NODE_REJECTED"} : cnStatus' = [cnStatus EXCEPT ![c] = s]
        BY <1>4, <2>2, <3>2, ClientLoginStep
      <4>3. d = c
        BY <2>2, <3>2, <4>1, <4>2
      <4>4. toClient[c] /\ appPc'[c] = "idle"
        BY <1>4, <2>2, <3>2, ClientLoginStep
      <4> QED BY <2>1, <4>3, <4>4 DEF LoginInv
    <3> QED BY <3>1, <3>2
  <2> QED BY <1>4, <2>2, ClientLoginStep DEF LoginInv
<1> QED BY <1>1, <1>2, <1>3, <1>4 DEF Next

---------------------------------------------------------------------------
(* Refinement of LoginProtocol.                                            *)

\* The same server steps grant and withdraw nothing.
LEMMA ServerGrantsNothing ==
  ASSUME TypeInv, StageInv, LoginInv, AcceptThread \/ ServerMain
  PROVE  UNCHANGED Login!loginVars
<1>1. \A c \in Conns : Granted(c)' = Granted(c)
  BY ServerLoginStep DEF Granted, LoginInv
<1>2. UNCHANGED <<wanted, cnStatus>>
  BY ServerLoginStep
<1> QED BY <1>1, <1>2 DEF Login!loginVars

\* A node's thread grants its client's login or withdraws it from one that does not
\* know of it.
LEMMA NodeGrants ==
  ASSUME TypeInv, LoginInv, NEW c \in Conns, NodeThread(c)
  PROVE  Login!LoginNext \/ UNCHANGED Login!loginVars
<1>1. UNCHANGED <<wanted, cnStatus>>
  BY NodeLoginStep
<1>2. \A d \in Conns \ {c} : Granted(d)' = Granted(d)
  BY NodeLoginStep DEF Granted
<1>3. cnStatus[c] # "NODE_ACCEPTED"
  BY NodeLoginStep DEF LoginInv
<1>4. \/ Granted(c)' = Granted(c)
      \/ Granted(c) = NoId /\ Granted(c)' = wanted[c]
      \/ Granted(c)' = NoId
  BY NodeLoginStep DEF Granted, LoginInv
<1>5. CASE Granted(c)' = Granted(c)
  BY <1>1, <1>2, <1>5 DEF Login!loginVars
<1>6. CASE Granted(c) = NoId /\ Granted(c)' = wanted[c]
  BY <1>1, <1>2, <1>6 DEF Login!LoginNext, Login!Grant
<1>7. CASE Granted(c)' = NoId
  BY <1>1, <1>2, <1>3, <1>7 DEF Login!LoginNext, Login!Withdraw
<1> QED BY <1>4, <1>5, <1>6, <1>7

\* A client confirms a login that was granted.
LEMMA ClientConfirms ==
  ASSUME TypeInv, LoginInv, NEW c \in Conns, ClientMain(c) \/ Leave(c)
  PROVE  Login!LoginNext \/ UNCHANGED Login!loginVars
<1>1. UNCHANGED wanted /\ \A d \in Conns : Granted(d)' = Granted(d)
  BY ClientLoginStep DEF Granted
<1>2. CASE UNCHANGED cnStatus
  BY <1>1, <1>2 DEF Login!loginVars
<1>3. CASE toClient[c] /\ cnStatus' = [cnStatus EXCEPT ![c] = "NODE_ACCEPTED"]
  <2>1. Granted(c) = wanted[c]
    BY <1>3 DEF LoginInv, Granted
  <2>2. {d \in Conns : cnStatus'[d] = "NODE_ACCEPTED"}
          = {d \in Conns : cnStatus[d] = "NODE_ACCEPTED"} \cup {c}
    BY <1>3 DEF TypeInv, TypeOK
  <2> QED BY <1>1, <2>1, <2>2 DEF Login!LoginNext, Login!Confirm
<1>4. CASE appPc[c] = "wait" /\ cnStatus' = [cnStatus EXCEPT ![c] = "NODE_REJECTED"]
  <2>1. cnStatus[c] # "NODE_ACCEPTED"
    BY <1>4 DEF LoginInv, BeforeAnswer
  <2>2. \A d \in Conns : cnStatus'[d] = "NODE_ACCEPTED" <=> cnStatus[d] = "NODE_ACCEPTED"
    BY <1>4, <2>1 DEF TypeInv, TypeOK
  <2> QED BY <1>1, <2>2 DEF Login!loginVars
<1> QED BY <1>2, <1>3, <1>4, ClientLoginStep

\* The login of the boost::asio broker and its clients is that of LoginProtocol.
THEOREM LoginRefines == Spec => ImplementsLogin
<1>1. Init => Login!LoginInit
  BY DEF Init, Login!LoginInit, Granted
<1>2. TypeInv /\ StageInv /\ LoginInv /\ [Next]_vars => [Login!LoginNext]_(Login!loginVars)
  <2> SUFFICES ASSUME TypeInv, StageInv, LoginInv, [Next]_vars
               PROVE  Login!LoginNext \/ UNCHANGED Login!loginVars
    OBVIOUS
  <2>1. CASE UNCHANGED vars
    BY <2>1 DEF vars, serverVars, clientVars, Granted, Login!loginVars
  <2> QED BY <2>1, ServerGrantsNothing, NodeGrants, ClientConfirms DEF Next
<1>3. QED
  BY <1>1, <1>2, TypeInit, TypeStep, StageInit, StageStep, LoginInit, LoginStep, PTL
     DEF Spec, ImplementsLogin, Login!LoginSpec

---------------------------------------------------------------------------
(* The end of the accept loop.                                             *)

\* A bound on the connections accepted, and the causes of the loop's end.
CauseInv ==
  /\ m_connectedNodeId <= MaxFds
  /\ acceptPc \in {"construct", "set_id"} => m_connectedNodeId < MaxFds
  /\ acceptPc = "bind" => \A c \in Conns : peer[c] = "none"
  /\ OrderlyClientsServed

\* No client that closes in order ends the accept loop, however many there are.
THEOREM OrderlyServed == Spec => []OrderlyClientsServed
<1>1. Init => CauseInv
  BY AsioAssumption DEF Init, CauseInv, OrderlyClientsServed
<1>2. TypeInv /\ CauseInv /\ [Next]_vars => CauseInv'
  <2> SUFFICES ASSUME TypeInv, CauseInv, [Next]_vars
               PROVE  CauseInv'
    OBVIOUS
  <2> USE AsioAssumption DEF CauseInv, OrderlyClientsServed
  <2>1. CASE UNCHANGED vars
    BY <2>1 DEF vars, serverVars, connVars
  <2>2. CASE OpenAcceptor \/ Accept
    BY <2>2 DEF OpenAcceptor, Accept, EndLoop, TypeInv, TypeOK
  <2>3. CASE Construct \/ Spawn
    BY <2>3 DEF Construct, Spawn, EndLoop, TypeInv, TypeOK
  <2>4. CASE SetNodeId
    BY <2>4 DEF SetNodeId, connVars, TypeInv, TypeOK
  <2>5. CASE ServerMain
    BY <2>5 DEF ServerMain, JoinServer, Destroy, connVars
  <2>6. ASSUME NEW c \in Conns, NodeThread(c)
        PROVE  CauseInv'
    BY <2>6 DEF NodeThread, NodeRead, NodeAnswer, NodeStep
  <2>7. ASSUME NEW c \in Conns, ClientMain(c)
        PROVE  CauseInv'
    BY <2>7 DEF ClientMain, Connect, MakeNode, LoginWrite, LoginRead, Listening, serverVars, connVars
  <2>8. ASSUME NEW c \in Conns, Leave(c)
        PROVE  CauseInv'
    BY <2>8 DEF Leave, serverVars, TypeInv, TypeOK
  <2> QED BY <2>1, <2>2, <2>3, <2>4, <2>5, <2>6, <2>7, <2>8 DEF Next, AcceptThread
<1>3. QED
  BY <1>1, <1>2, TypeInit, TypeStep, PTL DEF Spec, CauseInv

=============================================================================
