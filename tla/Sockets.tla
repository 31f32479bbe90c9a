------------------------------ MODULE Sockets ------------------------------
(***************************************************************************)
(* The TCP sockets and the descriptor table of the broker's process, as    *)
(* src/common/tnodenet uses them: connections made by the clients, one     *)
(* receive queue and one send queue per connection, and the table that     *)
(* says which connection a file descriptor number refers to NOW.  A        *)
(* TRemoteNode keeps only the number (m_fdSocket), so what a read, write   *)
(* or close does depends on this table and not on who opened it.           *)
(*                                                                         *)
(* Messages travel as whole frames; how frames are cut out of the byte     *)
(* stream, and which are lost there, is the subject of FrameReader.        *)
(*                                                                         *)
(* Everything here is the kernel's (external): read(2), write(2),          *)
(* accept(2), close(2) on Linux with blocking sockets and the default      *)
(* disposition of SIGPIPE, which no file of the repository changes.        *)
(***************************************************************************)
EXTENDS Integers, Sequences

CONSTANTS
  Conns,     \* the connections clients make, one TRemoteNode each
  NoConn,    \* "no connection", also "nobody" for a mutex
  Fds,       \* the descriptor numbers left to the process for clients
  NodeIds,   \* the node ids clients log in with
  Dests,     \* the destinations of the messages they send
  NODE_ID,   \* m_nodeId of the server (1000)
  MaxSend,   \* bound: frames the clients send in all
  SndCap     \* bound: frames a send queue holds before write blocks

ASSUME SocketsAssumption ==
  /\ NoConn \notin Conns
  /\ Fds \subseteq Nat
  /\ NodeIds \subseteq Nat
  /\ Dests \subseteq Nat
  /\ NODE_ID \in Nat
  /\ MaxSend \in Nat
  /\ SndCap \in Nat \ {0}

NoFd == -1

(***************************************************************************)
(* TMessage: name, sender and destination ids.  src and n identify the     *)
(* n-th frame of client src; the code has no such field and never reads    *)
(* it, the properties do.                                                  *)
(***************************************************************************)
Names == {"MSG_LOGIN", "MSG_LOGIN_ANSWER", "MSG_TEST"}

Messages == [name : Names \cup {"error"}, src : Conns \cup {NoConn}, n : Nat,
             from : Nat, to : Nat]

\* TMessage m("error", 0, 0)
NoMessage == [name |-> "error", src |-> NoConn, n |-> 0, from |-> 0, to |-> 0]

LoginMessage(c, k, id) ==
  [name |-> "MSG_LOGIN", src |-> c, n |-> k, from |-> id, to |-> NODE_ID]

TestMessage(c, k, id) ==
  [name |-> "MSG_TEST", src |-> c, n |-> k, from |-> 0, to |-> id]

LoginAnswer(c, id) ==
  [name |-> "MSG_LOGIN_ANSWER", src |-> c, n |-> 0, from |-> NODE_ID, to |-> id]

\* A frame on its way to a client, and the TRemoteNode that wrote it.
Deliveries == [msg : Messages, via : Conns]

VARIABLES
  peer,     \* what the client's end of a connection did
  backlog,  \* connections waiting for accept, in order
  inq,      \* frames a client sent that the server has not read
  sent,     \* how many frames a client sent
  budget,   \* how many frames the clients may still send
  err,      \* ECONNRESET is pending on the connection
  wire,     \* every frame ever written to the connection
  nread,    \* how many of them the client has read
  desc      \* the descriptor table

sockVars == <<peer, backlog, inq, sent, budget, err, wire, nread, desc>>

PeerStates == {"none", "open", "fin", "reset"}

SocketsInit ==
  /\ peer = [c \in Conns |-> "none"]
  /\ backlog = <<>>
  /\ inq = [c \in Conns |-> <<>>]
  /\ sent = [c \in Conns |-> 0]
  /\ budget = MaxSend
  /\ err = [c \in Conns |-> FALSE]
  /\ wire = [c \in Conns |-> <<>>]
  /\ nread = [c \in Conns |-> 0]
  /\ desc = [f \in Fds |-> NoConn]

SocketsTypeOK ==
  /\ peer \in [Conns -> PeerStates]
  /\ backlog \in Seq(Conns)
  /\ inq \in [Conns -> Seq(Messages)]
  /\ sent \in [Conns -> Nat]
  /\ budget \in Nat
  /\ err \in [Conns -> BOOLEAN]
  /\ wire \in [Conns -> Seq(Deliveries)]
  /\ nread \in [Conns -> Nat]
  /\ desc \in [Fds -> Conns \cup {NoConn}]

Unread(c) == Len(wire[c]) - nread[c]

---------------------------------------------------------------------------
(* The clients: programs on the other end of the connections.              *)

ClientConnect(c) ==
  /\ peer[c] = "none"
  /\ peer' = [peer EXCEPT ![c] = "open"]
  /\ backlog' = Append(backlog, c)
  /\ UNCHANGED <<inq, sent, budget, err, wire, nread, desc>>

ClientWrite(c, m) ==
  /\ peer[c] = "open"
  /\ budget > 0
  /\ inq' = [inq EXCEPT ![c] = Append(@, m)]
  /\ sent' = [sent EXCEPT ![c] = @ + 1]
  /\ budget' = budget - 1
  /\ UNCHANGED <<peer, backlog, err, wire, nread, desc>>

ClientSend(c) ==
  \E m \in {LoginMessage(c, sent[c] + 1, id) : id \in NodeIds}
             \cup {TestMessage(c, sent[c] + 1, id) : id \in Dests} :
    ClientWrite(c, m)

\* The bytes of the next k frames.
ClientTake(c, k) ==
  /\ peer[c] = "open"
  /\ k \in 1 .. Unread(c)
  /\ nread' = [nread EXCEPT ![c] = @ + k]
  /\ UNCHANGED <<peer, backlog, inq, sent, budget, err, wire, desc>>

ClientRead(c) == \E k \in 1 .. Unread(c) : ClientTake(c, k)

\* The client closes its socket or its process ends.  Frames it has not read
\* make its kernel answer with RST instead of FIN.
ClientClose(c) ==
  /\ peer[c] = "open"
  /\ IF Unread(c) > 0
       THEN peer' = [peer EXCEPT ![c] = "reset"] /\ err' = [err EXCEPT ![c] = TRUE]
       ELSE peer' = [peer EXCEPT ![c] = "fin"] /\ UNCHANGED err
  /\ UNCHANGED <<backlog, inq, sent, budget, wire, nread, desc>>

\* The client's read returns 0 or less: the broker closed its end, and everything
\* written before that has been read.
ClientReadEof(c) ==
  /\ peer[c] = "open"
  /\ \A i \in 1 .. Len(backlog) : backlog[i] # c
  /\ \A f \in Fds : desc[f] # c
  /\ Unread(c) = 0

---------------------------------------------------------------------------
(* The system calls.  Each is an action on the variables it may change,    *)
(* as a function of the descriptor number; none is enabled when the call   *)
(* blocks.                                                                 *)

LowestFree(f) ==
  /\ desc[f] = NoConn
  /\ \A g \in Fds : desc[g] = NoConn => f <= g

\* accept: the first connection of the backlog gets the lowest free number.
SysAccept(c, f) ==
  /\ backlog # <<>>
  /\ c = Head(backlog)
  /\ LowestFree(f)
  /\ backlog' = Tail(backlog)
  /\ desc' = [desc EXCEPT ![f] = c]

\* read > 0: the bytes of the next k frames.
SysReadData(f, k) ==
  /\ desc[f] # NoConn
  /\ k \in 1 .. Len(inq[desc[f]])
  /\ inq' = [inq EXCEPT ![desc[f]] = SubSeq(@, k + 1, Len(@))]
  /\ UNCHANGED err

\* read = 0: the peer closed and everything it sent has been read.
SysReadEof(f) ==
  /\ desc[f] # NoConn
  /\ inq[desc[f]] = <<>>
  /\ peer[desc[f]] # "open"
  /\ ~err[desc[f]]
  /\ UNCHANGED <<inq, err>>

\* read < 0: EBADF, or the pending ECONNRESET, which is reported once.
SysReadError(f) ==
  /\ \/ desc[f] = NoConn /\ UNCHANGED err
     \/ /\ desc[f] # NoConn
        /\ inq[desc[f]] = <<>>
        /\ err[desc[f]]
        /\ err' = [err EXCEPT ![desc[f]] = FALSE]
  /\ UNCHANGED inq

\* write of a whole frame; blocks while the send queue is full.
SysWriteOk(f, d) ==
  /\ desc[f] # NoConn
  /\ peer[desc[f]] = "open"
  /\ Unread(desc[f]) < SndCap
  /\ wire' = [wire EXCEPT ![desc[f]] = Append(@, d)]
  /\ UNCHANGED <<peer, err>>

\* A write after the peer's FIN succeeds, is lost, and draws a RST, which may
\* arrive before or after the next write.
SysWriteLost(f) ==
  /\ desc[f] # NoConn
  /\ peer[desc[f]] = "fin"
  /\ peer' \in {peer, [peer EXCEPT ![desc[f]] = "reset"]}
  /\ UNCHANGED <<wire, err>>

\* write < 0: EBADF, or the pending ECONNRESET.
SysWriteError(f) ==
  /\ \/ desc[f] = NoConn /\ UNCHANGED err
     \/ /\ desc[f] # NoConn
        /\ err[desc[f]]
        /\ err' = [err EXCEPT ![desc[f]] = FALSE]
  /\ UNCHANGED <<peer, wire>>

\* A write after the RST raises SIGPIPE, which ends the process.
SysWriteKills(f) ==
  /\ desc[f] # NoConn
  /\ peer[desc[f]] = "reset"
  /\ ~err[desc[f]]

\* close frees the number, whatever connection it refers to.
SysClose(f) == desc' = [desc EXCEPT ![f] = NoConn]

=============================================================================
