----------------------------- MODULE AsioBroker -----------------------------
(***************************************************************************)
(* The broker of src/corebroker, built on boost::asio, and its clients.    *)
(* The server accepts, makes a TNodeClient per connection and starts its   *)
(* thread; that thread reads once, takes what it read for a login, answers *)
(* and then sleeps for ever.  A client connects, makes a TNode and logs in *)
(* once.  Nothing is routed.                                               *)
(*                                                                         *)
(* The calls that are given no error_code throw.  In the accept loop one   *)
(* handler around everything catches, and the server accepts no more; in   *)
(* the client nobody does.  No socket is ever closed by the server.        *)
(*                                                                         *)
(* Each message is written by one write_some and read by one read_some of  *)
(* 128 bytes, which holds it; the stream may still deliver a part first    *)
(* ("cut"), which does not parse.  What lies behind the bytes read, in a   *)
(* buffer that is not cleared, comes after #end or does not help.          *)
(***************************************************************************)
EXTENDS Integers, Sequences

CONSTANTS
  Conns,     \* the clients, each with one connection
  NoConn,    \* none of them
  NodeIds,   \* the ids main gives to setNodeId (1001)
  NoId,      \* no id
  MaxFds     \* the connections the server's descriptors are enough for

ASSUME AsioAssumption ==
  /\ NoConn \notin Conns
  /\ NodeIds \subseteq Nat
  /\ NoId \notin Nat
  /\ MaxFds \in Nat

VARIABLES
  \* the server's process
  acceptPc,           \* TSocketServer::operator()
  accepted,           \* its local n
  mainPc,             \* main, after it started that thread
  m_connectedNodeId, m_lstNodes,
  m_nodeId, m_nodeStatus,   \* of each TNodeClient
  nodePc,                   \* each TNodeClient's thread
  \* the clients' processes
  appPc,              \* main
  wanted,             \* m_nodeId of its TNode, from setNodeId on
  cnStatus,           \* m_nodeStatus of its TNode
  \* the connections
  backlog,            \* waiting for accept
  peer,               \* the client's end
  dropped,            \* connections the server's kernel has reset
  toServer, toClient  \* a message that has not been read

serverVars == <<acceptPc, accepted, mainPc, m_connectedNodeId, m_lstNodes, m_nodeId,
                m_nodeStatus, nodePc>>
clientVars == <<appPc, wanted, cnStatus>>
connVars == <<backlog, peer, dropped, toServer, toClient>>
vars == <<serverVars, clientVars, connVars>>

\* NODE_DISCONNECTED is never assigned.
TNodeStatus == {"NODE_CONNECTED", "NODE_ACCEPTED", "NODE_REJECTED"}

Init ==
  /\ acceptPc = "bind"
  /\ accepted = NoConn
  /\ mainPc = "join"
  /\ m_connectedNodeId = 0
  /\ m_lstNodes = <<>>
  /\ m_nodeId = [c \in Conns |-> 0]
  /\ m_nodeStatus = [c \in Conns |-> "NODE_CONNECTED"]
  /\ nodePc = [c \in Conns |-> "none"]
  /\ appPc = [c \in Conns |-> "connect"]
  /\ wanted \in [Conns -> NodeIds]
  /\ cnStatus = [c \in Conns |-> "NODE_CONNECTED"]
  /\ backlog = <<>>
  /\ peer = [c \in Conns |-> "none"]
  /\ dropped = {}
  /\ toServer = [c \in Conns |-> FALSE]
  /\ toClient = [c \in Conns |-> FALSE]

Listening == acceptPc \notin {"bind", "ended"}

---------------------------------------------------------------------------
(* TSocketServer::operator().                                              *)

\* The catch: the acceptor is destroyed and the kernel resets who was waiting.
EndLoop ==
  /\ acceptPc' = "ended"
  /\ dropped' = dropped \cup {backlog[i] : i \in 1 .. Len(backlog)}
  /\ backlog' = <<>>

\* The acceptor's constructor binds and listens, or throws.
OpenAcceptor ==
  /\ acceptPc = "bind"
  /\ \/ acceptPc' = "accept" /\ UNCHANGED <<backlog, dropped>>
     \/ EndLoop
  /\ UNCHANGED <<accepted, mainPc, m_connectedNodeId, m_lstNodes, m_nodeId, m_nodeStatus, nodePc,
                 clientVars, peer, toServer, toClient>>

\* acceptor.accept(*socket); it throws when no descriptor is left.
Accept ==
  /\ acceptPc = "accept"
  /\ \/ /\ m_connectedNodeId < MaxFds
        /\ backlog # <<>>
        /\ accepted' = Head(backlog)
        /\ backlog' = Tail(backlog)
        /\ acceptPc' = "construct"
        /\ UNCHANGED dropped
     \/ /\ m_connectedNodeId >= MaxFds
        /\ EndLoop
        /\ UNCHANGED accepted
  /\ UNCHANGED <<mainPc, m_connectedNodeId, m_lstNodes, m_nodeId, m_nodeStatus, nodePc, clientVars,
                 peer, toServer, toClient>>

\* Mutant: a connection that the client has closed in order throws, too.
ConstructThrowsOnClose ==
  /\ acceptPc = "construct"
  /\ IF peer[accepted] # "open"
       THEN EndLoop /\ UNCHANGED <<m_nodeId, m_nodeStatus>>
       ELSE /\ acceptPc' = "set_id"
            /\ m_nodeId' = [m_nodeId EXCEPT ![accepted] = 0]
            /\ m_nodeStatus' = [m_nodeStatus EXCEPT ![accepted] = "NODE_CONNECTED"]
            /\ UNCHANGED <<backlog, dropped>>
  /\ UNCHANGED <<accepted, mainPc, m_connectedNodeId, m_lstNodes, nodePc, clientVars, peer,
                 toServer, toClient>>

\* Mutant: the thread is started in the constructor, as TRemoteNode does.
ConstructStartsThread ==
  /\ acceptPc = "construct"
  /\ acceptPc' = "set_id"
  /\ nodePc' = [nodePc EXCEPT ![accepted] = "read"]
  /\ UNCHANGED <<accepted, mainPc, m_connectedNodeId, m_lstNodes, m_nodeId, m_nodeStatus,
                 clientVars, connVars>>

\* new TNodeClient; remote_endpoint() throws on a connection that was reset.
Construct ==
  /\ acceptPc = "construct"
  /\ IF peer[accepted] = "reset"
       THEN EndLoop /\ UNCHANGED <<m_nodeId, m_nodeStatus>>
       ELSE /\ acceptPc' = "set_id"
            /\ m_nodeId' = [m_nodeId EXCEPT ![accepted] = 0]
            /\ m_nodeStatus' = [m_nodeStatus EXCEPT ![accepted] = "NODE_CONNECTED"]
            /\ UNCHANGED <<backlog, dropped>>
  /\ UNCHANGED <<accepted, mainPc, m_connectedNodeId, m_lstNodes, nodePc, clientVars, peer,
                 toServer, toClient>>

\* A provisional id, and the list of nodes.
SetNodeId ==
  /\ acceptPc = "set_id"
  /\ acceptPc' = "spawn"
  /\ m_nodeId' = [m_nodeId EXCEPT ![accepted] = m_connectedNodeId]
  /\ m_connectedNodeId' = m_connectedNodeId + 1
  /\ m_lstNodes' = Append(m_lstNodes, accepted)
  /\ UNCHANGED <<accepted, mainPc, m_nodeStatus, nodePc, clientVars, connVars>>

\* Mutant: the loop waits for the thread it has started.
SpawnJoins ==
  /\ acceptPc = "spawn"
  /\ nodePc[accepted] = "none"
  /\ nodePc' = [nodePc EXCEPT ![accepted] = "read"]
  /\ UNCHANGED <<acceptPc, accepted, mainPc, m_connectedNodeId, m_lstNodes, m_nodeId, m_nodeStatus,
                 clientVars, connVars>>

\* The log line, whose remote_endpoint() may throw, and the node's thread.
Spawn ==
  /\ acceptPc = "spawn"
  /\ IF peer[accepted] = "reset"
       THEN EndLoop /\ UNCHANGED nodePc
       ELSE /\ acceptPc' = "accept"
            /\ nodePc' = [nodePc EXCEPT ![accepted] = "read"]
            /\ UNCHANGED <<backlog, dropped>>
  /\ UNCHANGED <<accepted, mainPc, m_connectedNodeId, m_lstNodes, m_nodeId, m_nodeStatus,
                 clientVars, peer, toServer, toClient>>

---------------------------------------------------------------------------
(* main of the server.                                                     *)

\* thread1.join()
JoinServer ==
  /\ mainPc = "join"
  /\ acceptPc = "ended"
  /\ mainPc' = "destroy"
  /\ UNCHANGED <<acceptPc, accepted, m_connectedNodeId, m_lstNodes, m_nodeId, m_nodeStatus, nodePc,
                 clientVars, connVars>>

\* ~TSocketServer: Stop() does nothing, then the node threads are joined, none of
\* which ends; main goes on to while (1) only if there is none.
Destroy ==
  /\ mainPc = "destroy"
  /\ \A c \in Conns : nodePc[c] = "none"
  /\ mainPc' = "spin"
  /\ UNCHANGED <<acceptPc, accepted, m_connectedNodeId, m_lstNodes, m_nodeId, m_nodeStatus, nodePc,
                 clientVars, connVars>>

---------------------------------------------------------------------------
(* TNodeClient::operator(), the thread of node c.                          *)

NodeStep(c, l) ==
  /\ nodePc' = [nodePc EXCEPT ![c] = l]
  /\ UNCHANGED <<acceptPc, accepted, mainPc, m_connectedNodeId, m_lstNodes, clientVars, backlog,
                 peer, dropped>>

\* The one read_some: any message that parses is a login; a part of one rejects the
\* node, and nothing is answered; at the end of the stream nothing happens.
NodeRead(c) ==
  /\ nodePc[c] = "read"
  /\ \/ /\ toServer[c]
        /\ toServer' = [toServer EXCEPT ![c] = FALSE]
        /\ \/ /\ m_nodeId' = [m_nodeId EXCEPT ![c] = wanted[c]]
              /\ m_nodeStatus' = [m_nodeStatus EXCEPT ![c] = "NODE_ACCEPTED"]
              /\ NodeStep(c, "answer")
           \/ /\ m_nodeStatus' = [m_nodeStatus EXCEPT ![c] = "NODE_REJECTED"]
              /\ UNCHANGED m_nodeId
              /\ NodeStep(c, "loop")
     \/ /\ ~toServer[c]
        /\ peer[c] # "open"
        /\ NodeStep(c, "loop")
        /\ UNCHANGED <<m_nodeId, m_nodeStatus, toServer>>
  /\ UNCHANGED toClient

\* write_some of the answer; after it the thread sleeps, for ever.
NodeAnswer(c) ==
  /\ nodePc[c] = "answer"
  /\ \/ /\ peer[c] # "reset"
        /\ toClient' = [toClient EXCEPT ![c] = (peer[c] = "open")]
        /\ UNCHANGED m_nodeStatus
     \/ /\ peer[c] = "reset"
        /\ m_nodeStatus' = [m_nodeStatus EXCEPT ![c] = "NODE_REJECTED"]
        /\ UNCHANGED toClient
  /\ NodeStep(c, "loop")
  /\ UNCHANGED <<m_nodeId, toServer>>

---------------------------------------------------------------------------
(* main of a client, TSocketClient and TNode.                              *)

AppGoto(c, l) == appPc' = [appPc EXCEPT ![c] = l]

\* TSocketClient::connect up to the connection; without one the client idles.
Connect(c) ==
  /\ appPc[c] = "connect"
  /\ IF Listening
       THEN /\ peer' = [peer EXCEPT ![c] = "open"]
            /\ backlog' = Append(backlog, c)
            /\ AppGoto(c, "node")
       ELSE AppGoto(c, "idle") /\ UNCHANGED <<peer, backlog>>
  /\ UNCHANGED <<serverVars, wanted, cnStatus, dropped, toServer, toClient>>

\* new TNode, whose remote_endpoint() ends the process if the server was quicker to
\* reset; setNodeId.
MakeNode(c) ==
  /\ appPc[c] = "node"
  /\ AppGoto(c, IF c \in dropped THEN "aborted" ELSE "login")
  /\ UNCHANGED <<serverVars, wanted, cnStatus, connVars>>

\* doLogin: write_some, its error only logged ...
LoginWrite(c) ==
  /\ appPc[c] = "login"
  /\ toServer' = [toServer EXCEPT ![c] = c \notin dropped]
  /\ AppGoto(c, "wait")
  /\ UNCHANGED <<serverVars, wanted, cnStatus, backlog, peer, dropped, toClient>>

\* ... and one read_some: the answer, whose status is always "OK", a part of it, or
\* nothing from a connection that was reset.
LoginRead(c) ==
  /\ appPc[c] = "wait"
  /\ \/ /\ toClient[c]
        /\ toClient' = [toClient EXCEPT ![c] = FALSE]
        /\ \E s \in {"NODE_ACCEPTED", "NODE_REJECTED"} : cnStatus' = [cnStatus EXCEPT ![c] = s]
     \/ /\ ~toClient[c]
        /\ c \in dropped
        /\ UNCHANGED <<toClient, cnStatus>>
  /\ AppGoto(c, "idle")
  /\ UNCHANGED <<serverVars, wanted, backlog, peer, dropped, toServer>>

\* The client's process ends.  Its kernel closes the connection in order, or resets
\* it: because of an answer that was not read, or, for clients other than this one
\* and hosts that fail, at any time.
Leave(c) ==
  /\ peer[c] = "open"
  /\ appPc[c] # "aborted"
  /\ peer' = [peer EXCEPT ![c] = "reset"] \/ (~toClient[c] /\ peer' = [peer EXCEPT ![c] = "closed"])
  /\ toClient' = [toClient EXCEPT ![c] = FALSE]
  /\ AppGoto(c, "gone")
  /\ UNCHANGED <<serverVars, wanted, cnStatus, backlog, dropped, toServer>>

---------------------------------------------------------------------------
AcceptThread == OpenAcceptor \/ Accept \/ Construct \/ SetNodeId \/ Spawn

ServerMain == JoinServer \/ Destroy

NodeThread(c) == NodeRead(c) \/ NodeAnswer(c)

ClientMain(c) == Connect(c) \/ MakeNode(c) \/ LoginWrite(c) \/ LoginRead(c)

Next ==
  \/ AcceptThread \/ ServerMain
  \/ \E c \in Conns : NodeThread(c) \/ ClientMain(c) \/ Leave(c)

Spec == Init /\ [][Next]_vars

\* Every thread of every process is scheduled.
Fairness ==
  /\ WF_vars(AcceptThread)
  /\ WF_vars(ServerMain)
  /\ \A c \in Conns : WF_vars(NodeThread(c)) /\ WF_vars(ClientMain(c))

FairSpec == Spec /\ Fairness

---------------------------------------------------------------------------
(* Properties.                                                             *)

\* Types of the state of both programs.
TypeOK ==
  /\ acceptPc \in {"bind", "accept", "construct", "set_id", "spawn", "ended"}
  /\ accepted \in Conns \cup {NoConn}
  /\ mainPc \in {"join", "destroy", "spin"}
  /\ m_connectedNodeId \in Nat
  /\ m_lstNodes \in Seq(Conns)
  /\ m_nodeId \in [Conns -> Nat]
  /\ m_nodeStatus \in [Conns -> TNodeStatus]
  /\ nodePc \in [Conns -> {"none", "read", "answer", "loop"}]
  /\ appPc \in [Conns -> {"connect", "node", "login", "wait", "idle", "aborted", "gone"}]
  /\ wanted \in [Conns -> NodeIds]
  /\ cnStatus \in [Conns -> TNodeStatus]
  /\ backlog \in Seq(Conns)
  /\ peer \in [Conns -> {"none", "open", "closed", "reset"}]
  /\ dropped \subseteq Conns
  /\ toServer \in [Conns -> BOOLEAN]
  /\ toClient \in [Conns -> BOOLEAN]

Granted(c) == IF m_nodeStatus[c] = "NODE_ACCEPTED" THEN m_nodeId[c] ELSE NoId

Login == INSTANCE LoginProtocol WITH
  Parties <- Conns,
  asked <- wanted,
  granted <- [c \in Conns |-> Granted(c)],
  confirmed <- {c \in Conns : cnStatus[c] = "NODE_ACCEPTED"}

\* The two sides keep the promise of a login: a client is NODE_ACCEPTED only when
\* its node is, under the client's own id and never the provisional one, and the
\* node stays so.
ImplementsLogin == Login!LoginSpec

\* Clients that close in order, whenever they do, never end the accept loop; it
\* ends when the port is in use, a connection is reset or the descriptors, which
\* nobody closes, are used up.
OrderlyClientsServed ==
  acceptPc = "ended" =>
    \/ \A c \in Conns : peer[c] = "none"
    \/ \E c \in Conns : peer[c] = "reset"
    \/ m_connectedNodeId = MaxFds

\* A client that waits for the answer to its login stops waiting, also when the
\* accept loop ends under it, unless its login was cut: then the node is rejected
\* and the client is never told.
LoginDecided ==
  \A c \in Conns :
    (appPc[c] = "wait") ~> (appPc[c] # "wait" \/ m_nodeStatus[c] = "NODE_REJECTED")

=============================================================================
