----------------------------- MODULE CanRouter -----------------------------
(***************************************************************************)
(* src/canrouter: one process between a CAN bus (src/common/tcan) and the  *)
(* broker (a TClientNode).  Its main thread reads frames from the bus and  *)
(* sends each to the broker in a message made from canmessage.json; its    *)
(* reader thread sends the MSG_CAN messages of the broker to the bus.      *)
(*                                                                         *)
(* The threads share descriptor NUMBERS.  After the broker is gone the     *)
(* reader reads and closes the old number for ever, while main opens       *)
(* canmessage.json again and again.                                        *)
(***************************************************************************)
EXTENDS Integers, Sequences

CONSTANTS
  Fds,         \* descriptor numbers
  MaxFrames,   \* bound: frames on the bus
  MaxIn,       \* bound: messages of the broker
  SndCap       \* bound: messages a send queue holds before write blocks

\* There are numbers for the connection, the bus and a file.
ASSUME CanAssumption ==
  /\ Fds \subseteq Nat
  /\ \E a, b, c \in Fds : a # b /\ b # c /\ a # c
  /\ MaxFrames \in Nat
  /\ MaxIn \in Nat
  /\ SndCap \in Nat \ {0}

VARIABLES
  up,          \* the process runs
  mainPc, readerPc,
  stop,        \* m_internalStatus, never initialised, happens to be SC_STOP
  clientFd,    \* m_fdSocket of the TSocketClient
  canFd,       \* m_fdSocket of the TCan
  fileFd,      \* the number of the ifstream in readByLine
  desc,        \* the descriptor table
  file,        \* canmessage.json on disk
  unread,      \* the open file has not been read
  whole,       \* the message made from it is complete
  message,     \* main's can_frame
  bus,         \* frames received from the bus, unread
  arrived,     \* how many frames have arrived
  peer,        \* the broker's end of the connection
  queued,      \* how many messages to the broker it has not read
  forwarded,   \* history: the frames of the bus that were written to it
  broken,      \* history: something not complete was written to it
  fromBroker,  \* messages of the broker, unread
  posted,      \* how many it has sent
  sMessage,    \* the message the reader has
  toCan        \* what the reader has written to the bus

mainVars == <<mainPc, fileFd, whole, message>>
readerVars == <<readerPc, sMessage, toCan>>
fixedVars == <<stop, clientFd, canFd>>
sentVars == <<queued, forwarded, broken>>
outsideVars == <<bus, arrived, peer, fromBroker, posted>>
vars == <<up, mainVars, readerVars, fixedVars, desc, file, unread, sentVars, outsideVars>>

NoFd == -1

\* can_id and data[0..2] are of this kind; the rest is that of the n-th frame of
\* the bus (of nothing if n = 0).
Frames == [kind : {"uninitialised", "bus", "0xAA"}, n : Nat]

\* Where a message has the payload: under "data0" to "data7", under the keys that
\* sendFrameToNode writes, or it has a text under "data" as the repository's
\* JSON files do.
Layouts == {"data0", "control", "text"}

InMessages == [name : {"MSG_CAN", "MSG_TEST"}, n : Nat, layout : Layouts]

NoMessage == [name |-> "MSG_TEST", n |-> 0, layout |-> "text"]

Init ==
  /\ up = TRUE
  /\ mainPc = "connect"
  /\ readerPc = "none"
  /\ stop \in BOOLEAN
  /\ clientFd = NoFd
  /\ canFd = NoFd
  /\ fileFd = NoFd
  /\ desc = [f \in Fds |-> "free"]
  /\ file \in {"missing", "unreadable", "ok"}
  /\ unread = FALSE
  /\ whole = FALSE
  /\ message = [kind |-> "uninitialised", n |-> 0]
  /\ bus = <<>>
  /\ arrived = 0
  /\ peer = "open"
  /\ queued = 0
  /\ forwarded = <<>>
  /\ broken = FALSE
  /\ fromBroker = <<>>
  /\ posted = 0
  /\ sMessage = NoMessage
  /\ toCan = <<>>

---------------------------------------------------------------------------
(* The kernel's descriptor table.                                          *)

SysOpen(f, what) ==
  /\ desc[f] = "free"
  /\ \A g \in Fds : desc[g] = "free" => f <= g
  /\ desc' = [desc EXCEPT ![f] = what]

SysClose(f) == desc' = [desc EXCEPT ![f] = "free"]

---------------------------------------------------------------------------
(* main: start.  Each return -1 ends the process (the std::thread of       *)
(* TSocketClient, never joined, ends it with std::terminate).              *)

Return ==
  /\ up' = FALSE
  /\ UNCHANGED <<mainVars, readerVars, fixedVars, desc>>

Connect ==
  /\ up
  /\ mainPc = "connect"
  /\ \/ /\ \E f \in Fds : SysOpen(f, "sock") /\ clientFd' = f
        /\ mainPc' = "login"
        /\ UNCHANGED <<up, fileFd, whole, message, readerVars, stop, canFd>>
     \/ Return
  /\ UNCHANGED <<file, unread, sentVars, outsideVars>>

\* Mutant: the reader is started before the bus is opened.
LoginStartsReader ==
  /\ up
  /\ mainPc = "login"
  /\ mainPc' = "template"
  /\ readerPc' = "read"
  /\ UNCHANGED <<up, fileFd, whole, message, sMessage, toCan, fixedVars, desc, file, unread,
                 sentVars, outsideVars>>

\* What login() exchanges with the broker is in module Clients.
Login ==
  /\ up
  /\ mainPc = "login"
  /\ \/ /\ mainPc' = "template"
        /\ UNCHANGED <<up, fileFd, whole, message, readerVars, fixedVars, desc>>
     \/ Return
  /\ UNCHANGED <<file, unread, sentVars, outsideVars>>

\* fromFile is asked only whether there is a file; what it reads is not sent.
ReadTemplate ==
  /\ up
  /\ mainPc = "template"
  /\ IF file # "missing"
       THEN /\ mainPc' = "can"
            /\ UNCHANGED <<up, fileFd, whole, message, readerVars, fixedVars, desc>>
       ELSE Return
  /\ UNCHANGED <<file, unread, sentVars, outsideVars>>

OpenCAN ==
  /\ up
  /\ mainPc = "can"
  /\ \/ /\ \E f \in Fds : SysOpen(f, "can") /\ canFd' = f
        /\ mainPc' = "thread"
        /\ UNCHANGED <<up, fileFd, whole, message, readerVars, stop, clientFd>>
     \/ Return
  /\ UNCHANGED <<file, unread, sentVars, outsideVars>>

StartReader ==
  /\ up
  /\ mainPc = "thread"
  /\ mainPc' = "read"
  /\ readerPc' = IF stop THEN "end" ELSE "read"
  /\ UNCHANGED <<up, fileFd, whole, message, sMessage, toCan, fixedVars, desc, file, unread,
                 sentVars, outsideVars>>

---------------------------------------------------------------------------
(* main: the loop.                                                         *)

\* Mutant: only the newest frame is looked at.
ReadCanNewest ==
  /\ up
  /\ mainPc = "read"
  /\ bus # <<>>
  /\ message' = [kind |-> "bus", n |-> bus[Len(bus)]]
  /\ bus' = <<>>
  /\ mainPc' = "stat"
  /\ UNCHANGED <<up, fileFd, whole, readerVars, fixedVars, desc, file, unread, sentVars,
                 arrived, peer, fromBroker, posted>>

\* TCan::readMessage on a non-blocking socket, its result ignored.
ReadCan ==
  /\ up
  /\ mainPc = "read"
  /\ IF desc[canFd] = "can" /\ bus # <<>>
       THEN message' = [kind |-> "bus", n |-> Head(bus)] /\ bus' = Tail(bus)
       ELSE UNCHANGED <<message, bus>>
  /\ mainPc' = "stat"
  /\ UNCHANGED <<up, fileFd, whole, readerVars, fixedVars, desc, file, unread, sentVars,
                 arrived, peer, fromBroker, posted>>

\* sendFrameToNode, fromFile: the two calls of fileExists.
StatFile ==
  /\ up
  /\ mainPc = "stat"
  /\ mainPc' = IF file = "missing" THEN "mark" ELSE "open"
  /\ UNCHANGED <<up, fileFd, whole, message, readerVars, fixedVars, desc, file, unread,
                 sentVars, outsideVars>>

\* readByLine returns true also when the file cannot be opened, because it is not there
\* or no number is left.
OpenFile ==
  /\ up
  /\ mainPc = "open"
  /\ \/ /\ file = "ok"
        /\ \E f \in Fds : SysOpen(f, "file") /\ fileFd' = f
        /\ unread' = TRUE
        /\ mainPc' = "getline"
        /\ UNCHANGED whole
     \/ /\ file = "ok" => \A f \in Fds : desc[f] # "free"
        /\ whole' = FALSE
        /\ mainPc' = "send"
        /\ UNCHANGED <<desc, fileFd, unread>>
  /\ UNCHANGED <<up, message, readerVars, fixedVars, file, sentVars, outsideVars>>

\* Mutant: the last line is left out.
ReadLinesButLast ==
  /\ up
  /\ mainPc = "getline"
  /\ whole' = FALSE
  /\ unread' = FALSE
  /\ mainPc' = "fclose"
  /\ UNCHANGED <<up, fileFd, message, readerVars, fixedVars, desc, file, sentVars, outsideVars>>

\* What getline finds, if the number still is the file's and nobody has read it;
\* fromFile hides that parsing the result failed.
ReadLines ==
  /\ up
  /\ mainPc = "getline"
  /\ whole' = (desc[fileFd] = "file" /\ unread)
  /\ unread' = FALSE
  /\ mainPc' = "fclose"
  /\ UNCHANGED <<up, fileFd, message, readerVars, fixedVars, desc, file, sentVars, outsideVars>>

CloseFile ==
  /\ up
  /\ mainPc = "fclose"
  /\ SysClose(fileFd)
  /\ fileFd' = NoFd
  /\ mainPc' = "send"
  /\ UNCHANGED <<up, whole, message, readerVars, fixedVars, file, unread, sentVars,
                 outsideVars>>

\* client.sendMessage: write to the socket's number, its result ignored.
SendFrameToNode ==
  /\ up
  /\ mainPc = "send"
  /\ \/ /\ desc[clientFd] = "sock"
        /\ peer = "open"
        /\ queued < SndCap
        /\ queued' = queued + 1
        /\ forwarded' = IF message.kind = "bus" THEN Append(forwarded, message.n)
                                                ELSE forwarded
        /\ broken' = (broken \/ ~whole)
        /\ mainPc' = "mark"
        /\ UNCHANGED <<up, peer>>
     \/ /\ desc[clientFd] = "sock"
        /\ peer = "fin"
        /\ peer' \in {"fin", "reset"}
        /\ mainPc' = "mark"
        /\ UNCHANGED <<up, sentVars>>
     \/ /\ desc[clientFd] # "sock" \/ peer = "reset"
        /\ mainPc' = "mark"
        /\ UNCHANGED <<up, peer, sentVars>>
     \/ /\ desc[clientFd] = "sock"
        /\ peer = "reset"
        /\ up' = FALSE
        /\ UNCHANGED <<mainPc, peer, sentVars>>
  /\ UNCHANGED <<fileFd, whole, message, readerVars, fixedVars, desc, file, unread, bus,
                 arrived, fromBroker, posted>>

\* Mutant: the frame is not marked.
AnswerOnCanUnmarked ==
  /\ up
  /\ mainPc = "mark"
  /\ mainPc' = "read"
  /\ UNCHANGED <<up, fileFd, whole, message, readerVars, fixedVars, desc, file, unread,
                 sentVars, outsideVars>>

\* The frame becomes 0xAA 10 11 12 and is written to the bus, where nobody here
\* sees it again.
AnswerOnCan ==
  /\ up
  /\ mainPc = "mark"
  /\ message' = [message EXCEPT !.kind = "0xAA"]
  /\ whole' = FALSE
  /\ mainPc' = "read"
  /\ UNCHANGED <<up, fileFd, readerVars, fixedVars, desc, file, unread, sentVars,
                 outsideVars>>

MainThread ==
  \/ Connect \/ Login \/ ReadTemplate \/ OpenCAN \/ StartReader
  \/ ReadCan \/ StatFile \/ OpenFile \/ ReadLines \/ CloseFile
  \/ SendFrameToNode \/ AnswerOnCan

---------------------------------------------------------------------------
(* clientNodeReader.                                                       *)

\* One read of TSocketClient::readMessage.  Of the messages a read returns the first
\* is found, or none; the text of canmessage.json has no sentinels.
ReaderRead ==
  /\ up
  /\ readerPc = "read"
  /\ \/ /\ desc[clientFd] = "sock"
        /\ fromBroker # <<>>
        /\ \E k \in 1 .. Len(fromBroker) :
             fromBroker' = SubSeq(fromBroker, k + 1, Len(fromBroker))
        /\ \/ sMessage' = Head(fromBroker) /\ readerPc' = "can"
           \/ UNCHANGED <<sMessage, readerPc>>
        /\ UNCHANGED unread
     \/ /\ desc[clientFd] = "file"
        /\ unread
        /\ unread' = FALSE
        /\ UNCHANGED <<sMessage, readerPc, fromBroker>>
     \/ /\ \/ desc[clientFd] = "sock" /\ fromBroker = <<>> /\ peer # "open"
           \/ desc[clientFd] = "sock" /\ peer = "reset"
           \/ desc[clientFd] = "file" /\ ~unread
           \/ desc[clientFd] \in {"free", "can"}
        /\ readerPc' = "close"
        /\ UNCHANGED <<sMessage, fromBroker, unread>>
  /\ UNCHANGED <<up, mainVars, toCan, fixedVars, desc, file, sentVars, bus, arrived, peer,
                  posted>>

\* close(m_fdSocket) after every read that returned no data.  m_nodeStatus stays
\* NODE_ACCEPTED and the loop goes on.
ReaderClose ==
  /\ up
  /\ readerPc = "close"
  /\ SysClose(clientFd)
  /\ readerPc' = "read"
  /\ UNCHANGED <<up, mainVars, sMessage, toCan, fixedVars, file, unread, sentVars, outsideVars>>

\* The keys are built with a uint8_t in a stream: "data", "data\x01" and so on.
\* readValue gives 0 for a key that is not there and throws for a text.  The
\* write may fail, if only because of can_dlc, which is never set.
SendMessageToCAN ==
  /\ up
  /\ readerPc = "can"
  /\ \/ /\ sMessage.name # "MSG_CAN"
        /\ readerPc' = "read"
        /\ sMessage' = NoMessage
        /\ UNCHANGED <<up, toCan>>
     \/ /\ sMessage.name = "MSG_CAN"
        /\ sMessage.layout # "text"
        /\ \/ /\ canFd # NoFd /\ desc[canFd] = "can"
              /\ toCan' = Append(toCan, [n |-> sMessage.n,
                                         payload |-> sMessage.layout = "control"])
           \/ UNCHANGED toCan
        /\ readerPc' = "read"
        /\ sMessage' = NoMessage
        /\ UNCHANGED up
     \/ /\ sMessage.name = "MSG_CAN"
        /\ sMessage.layout = "text"
        /\ up' = FALSE
        /\ UNCHANGED <<readerPc, sMessage, toCan>>
  /\ UNCHANGED <<mainVars, fixedVars, desc, file, unread, sentVars, outsideVars>>

ReaderThread == ReaderRead \/ ReaderClose \/ SendMessageToCAN

---------------------------------------------------------------------------
(* The bus, the broker and the file system.                                *)

BusFrame ==
  /\ mainPc \notin {"connect", "login", "template", "can"}
  /\ arrived < MaxFrames
  /\ arrived' = arrived + 1
  /\ bus' = Append(bus, arrived + 1)
  /\ UNCHANGED <<file, peer, fromBroker, posted, sentVars>>

BrokerSend ==
  /\ mainPc \notin {"connect", "login"}
  /\ peer = "open"
  /\ posted < MaxIn
  /\ posted' = posted + 1
  /\ \E m \in {[name |-> "MSG_CAN", n |-> posted + 1, layout |-> l] : l \in Layouts}
                \cup {[name |-> "MSG_TEST", n |-> posted + 1, layout |-> "text"]} :
       fromBroker' = Append(fromBroker, m)
  /\ UNCHANGED <<file, bus, arrived, peer, sentVars>>

BrokerRead ==
  /\ peer = "open"
  /\ queued > 0
  /\ queued' = 0
  /\ UNCHANGED <<file, forwarded, broken, outsideVars>>

BrokerEnds ==
  /\ mainPc \notin {"connect", "login"}
  /\ peer = "open"
  /\ peer' \in {"fin", "reset"}
  /\ UNCHANGED <<file, bus, arrived, fromBroker, posted, sentVars>>

RemoveFile ==
  /\ file' = "missing"
  /\ file # "missing"
  /\ UNCHANGED <<sentVars, outsideVars>>

Outside ==
  /\ up
  /\ BusFrame \/ BrokerSend \/ BrokerRead \/ BrokerEnds \/ RemoveFile
  /\ UNCHANGED <<up, mainVars, readerVars, fixedVars, desc, unread>>

---------------------------------------------------------------------------
Next == MainThread \/ ReaderThread \/ Outside

Spec == Init /\ [][Next]_vars

\* Both threads are scheduled, and a broker that stays connected reads.
Fairness ==
  /\ WF_vars(MainThread)
  /\ WF_vars(ReaderThread)
  /\ WF_vars(up /\ BrokerRead /\ UNCHANGED <<up, mainVars, readerVars, fixedVars, desc,
                                             unread>>)

FairSpec == Spec /\ Fairness

---------------------------------------------------------------------------
(* Properties.                                                             *)

\* However often the reader closes the number of the connection it lost, and
\* whatever main opens meanwhile, it never closes the socket of the bus.
CanSocketKept == canFd # NoFd => desc[canFd] = "can"

\* Everything that reaches the broker was made from the whole of canmessage.json as
\* long as that can be read, although the reader may take or close the file under
\* main's hands: that happens only when nothing reaches the broker any more.  (A
\* message without a destination would end the broker.)
WholeMessagesOnly ==
  file = "ok" => ~broken

\* Frames of the bus reach the broker, and messages of the broker the bus, in order
\* and none twice, although main sends something in every turn of its loop, also
\* when it has read nothing.
ForwardedInOrder ==
  /\ \A i, j \in 1 .. Len(forwarded) : i < j => forwarded[i] < forwarded[j]
  /\ \A i, j \in 1 .. Len(toCan) : i < j => toCan[i].n < toCan[j].n

\* Every frame of the bus is sent to the broker, unless the connection, the file or
\* the process is lost.
FramesForwarded ==
  \A n \in 1 .. MaxFrames :
    (arrived >= n)
      ~> \/ \E i \in 1 .. Len(forwarded) : forwarded[i] = n
         \/ peer # "open" \/ file # "ok" \/ ~up

=============================================================================
