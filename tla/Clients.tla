------------------------------ MODULE Clients ------------------------------
(***************************************************************************)
(* The broker of SocketServer together with the clients the repository     *)
(* ships: programs that use a TClientNode (src/common/tnodenet) the way    *)
(* exampleclient and canrouter do.  They connect, log in, and then send    *)
(* and read for ever; exampleclient goes on when login() fails, canrouter  *)
(* exits.                                                                  *)
(*                                                                         *)
(* TClientNode is used in its blocking mode; the other one ends in its     *)
(* constructor, which gives pthread_create a null pointer.                 *)
(***************************************************************************)
EXTENDS SocketServer

CONSTANT ClientIds   \* the ids the client programs may be configured with

ASSUME ClientsAssumption == ClientIds \subseteq [Conns -> NodeIds]

VARIABLES
  appPc,      \* where the client's main thread is
  cnStatus,   \* m_nodeStatus of its TClientNode
  cnNodeId    \* m_nodeId of its TClientNode

clientVars == <<appPc, cnStatus, cnNodeId>>
allVars == <<vars, clientVars>>

AppPcs == {"connect", "login", "answer", "run", "end"}

\* setNodeId comes before connect().
ClientsInit ==
  /\ Init
  /\ appPc = [c \in Conns |-> "connect"]
  /\ cnStatus = [c \in Conns |-> "NODE_DISCONNECTED"]
  /\ cnNodeId \in ClientIds

AppGoto(c, l) == appPc' = [appPc EXCEPT ![c] = l]

\* TClientNode::connect, TSocketClient::tryConnect.
Connect(c) ==
  /\ up
  /\ appPc[c] = "connect"
  /\ ClientConnect(c)
  /\ cnStatus' = [cnStatus EXCEPT ![c] = "NODE_CONNECTED"]
  /\ AppGoto(c, "login")
  /\ UNCHANGED <<serverVars, cnNodeId>>

\* login(): the login message ...
LoginWrite(c) ==
  /\ up
  /\ appPc[c] = "login"
  /\ ClientWrite(c, LoginMessage(c, sent[c] + 1, cnNodeId[c]))
  /\ AppGoto(c, "answer")
  /\ UNCHANGED <<serverVars, cnStatus, cnNodeId>>

\* Mutant: any answer will do.
AnswerAny(c, m) ==
  /\ cnStatus' = [cnStatus EXCEPT ![c] = "NODE_ACCEPTED"]
  /\ AppGoto(c, "run")

\* ... and the next message, which is an answer or makes login() fail.  The broker
\* puts "correct": 1 in every answer it sends.
Answer(c, m) ==
  /\ cnStatus' = IF m.name = "MSG_LOGIN_ANSWER"
                   THEN [cnStatus EXCEPT ![c] = "NODE_ACCEPTED"] ELSE cnStatus
  /\ AppGoto(c, "run")

\* One read of readMessage inside login(): of the frames it returns the first is
\* found, or none.  At the end of the stream readMessage closes the socket and
\* login() fails.
LoginReadAnswer(c) ==
  /\ up
  /\ appPc[c] = "answer"
  /\ \/ \E k \in 1 .. Unread(c) :
          /\ ClientTake(c, k)
          /\ \/ Answer(c, wire[c][nread[c] + 1].msg)
             \/ UNCHANGED <<cnStatus, appPc>>
     \/ /\ ClientReadEof(c)
        /\ ClientClose(c)
        /\ AppGoto(c, "run")
        /\ UNCHANGED cnStatus
  /\ UNCHANGED <<serverVars, cnNodeId>>

\* sendMessage by a client that login() left NODE_ACCEPTED; for any other it
\* returns false at once.
SendMessage(c) ==
  /\ up
  /\ appPc[c] = "run"
  /\ cnStatus[c] = "NODE_ACCEPTED"
  /\ \E id \in Dests : ClientWrite(c, TestMessage(c, sent[c] + 1, id))
  /\ UNCHANGED <<serverVars, clientVars>>

\* One read of readMessage; like sendMessage it does nothing before that.
ReadMessage(c) ==
  /\ up
  /\ appPc[c] = "run"
  /\ cnStatus[c] = "NODE_ACCEPTED"
  /\ ClientRead(c) \/ (ClientReadEof(c) /\ ClientClose(c))
  /\ UNCHANGED <<serverVars, clientVars>>

\* The process ends: canrouter after a failed login, any client when it is stopped.
Exit(c) ==
  /\ up
  /\ appPc[c] \notin {"connect", "end"}
  /\ ClientClose(c)
  /\ AppGoto(c, "end")
  /\ UNCHANGED <<serverVars, cnStatus, cnNodeId>>

---------------------------------------------------------------------------
ClientThread(c) ==
  Connect(c) \/ LoginWrite(c) \/ LoginReadAnswer(c) \/ ReadMessage(c)

ClientsNext ==
  \/ (AcceptThread \/ \E c \in Conns : NodeThread(c)) /\ UNCHANGED clientVars
  \/ \E c \in Conns : ClientThread(c) \/ SendMessage(c) \/ Exit(c)

ClientsSpec == ClientsInit /\ [][ClientsNext]_allVars

\* Every thread of every process is scheduled; a client blocked in read() goes on
\* when there is something to read.
ClientsFairness ==
  /\ WF_allVars(AcceptThread /\ UNCHANGED clientVars)
  /\ \A c \in Conns :
       WF_allVars(NodeThread(c) /\ UNCHANGED clientVars) /\ WF_allVars(ClientThread(c))

ClientsFairSpec == ClientsSpec /\ ClientsFairness

---------------------------------------------------------------------------
(* Properties.                                                             *)

\* Where login() has succeeded the two sides agree: the broker's node of this
\* connection has the client's id, although the answer travels on the same stream
\* as messages of others and is not matched with the question.  (Not so when a
\* TH_STOP was overwritten: that thread may close another node's socket and make
\* its answer go to a third client.)
LoginAgreement ==
  revived = {} =>
    \A c \in Conns : cnStatus[c] = "NODE_ACCEPTED" => m_nodeId[c] = cnNodeId[c]

\* README.md:5 "Delivers JSON messages between nodes.": routing a message comes to
\* an end as long as the clients run.
RoutingGoesOn ==
  \A c \in Conns : (m_mutexRoute = c) ~> (m_mutexRoute # c \/ ~up)

=============================================================================
