-------------------------- MODULE CanRouterProofs --------------------------
(***************************************************************************)
(* The safety properties of CanRouter for every value of its constants.    *)
(***************************************************************************)
EXTENDS CanRouter, TLAPS

Objects == {"free", "sock", "can", "file"}
Starting == {"connect", "login", "template", "can"}
Reading == {"getline", "fclose"}
MainPcs == Starting \cup {"thread", "read", "stat", "open", "send", "mark"} \cup Reading

\* Where the descriptor numbers are valid.
NumbersOK ==
  /\ mainPc \in MainPcs
  /\ desc \in [Fds -> Objects]
  /\ whole \in BOOLEAN /\ broken \in BOOLEAN
  /\ IF mainPc = "connect" THEN clientFd = NoFd ELSE clientFd \in Fds
  /\ mainPc \notin Starting => canFd \in Fds
  /\ canFd # NoFd => canFd \in Fds /\ mainPc \notin Starting
  /\ mainPc \in Reading => fileFd \in Fds
  /\ readerPc # "none" => mainPc \notin Starting \cup {"thread"}

\* The connection's number is not the bus's; until the reader runs it is the
\* connection's, and afterwards nobody but main's file may have it.  No other number
\* is in use.
SharingOK ==
  /\ canFd # NoFd => canFd # clientFd /\ desc[canFd] = "can"
  /\ (mainPc # "connect" /\ readerPc = "none") => desc[clientFd] = "sock"
  /\ mainPc \in Reading => fileFd # canFd
  /\ \A f \in Fds : desc[f] # "free" =>
       f \in {clientFd, canFd} \/ (mainPc \in Reading /\ f = fileFd)

\* While the connection is open main's file has a number of its own, so that what
\* main reads is the whole file.
FileOK ==
  (mainPc # "connect" /\ desc[clientFd] = "sock") =>
    /\ mainPc \in Reading => fileFd # clientFd /\ desc[fileFd] = "file"
    /\ mainPc = "getline" => unread
    /\ (mainPc \in {"fclose", "send"} /\ file = "ok") => whole

DescInv == NumbersOK /\ SharingOK /\ FileOK /\ WholeMessagesOnly

\* A number that was free is not one in use.
LEMMA OpenedWasFree ==
  ASSUME NEW f \in Fds, NEW what, SysOpen(f, what), desc \in [Fds -> Objects],
         what \in Objects
  PROVE  /\ desc[f] = "free" /\ desc'[f] = what /\ desc' \in [Fds -> Objects]
         /\ \A g \in Fds : g # f => desc'[g] = desc[g]
BY DEF SysOpen

\* The program starts in DescInv.
LEMMA DescInit == Init => DescInv
BY DEF Init, DescInv, NumbersOK, SharingOK, FileOK, WholeMessagesOnly, NoFd, Objects,
       MainPcs, Starting, Reading

\* The steps of main up to its loop keep DescInv.
LEMMA DescStart ==
  ASSUME CanAssumption, DescInv,
         Connect \/ Login \/ ReadTemplate \/ OpenCAN \/ StartReader
  PROVE  DescInv'
<1> USE DEF DescInv, NumbersOK, SharingOK, FileOK, WholeMessagesOnly, MainPcs, Starting, Reading,
            fixedVars, mainVars, readerVars, outsideVars, sentVars
<1>0. NoFd \notin Fds
  BY DEF CanAssumption, NoFd
<1>1. CASE Return /\ UNCHANGED <<file, unread, sentVars, outsideVars>>
  BY <1>1 DEF Return
<1>2. CASE Connect
  <2>1. CASE Return
    BY <1>1, <1>2, <2>1 DEF Connect
  <2>2. CASE ~Return
    <3>1. PICK f \in Fds : SysOpen(f, "sock") /\ clientFd' = f
      BY <1>2, <2>2 DEF Connect
    <3>2. /\ desc'[f] = "sock" /\ desc' \in [Fds -> Objects]
          /\ \A g \in Fds : g # f => desc'[g] = desc[g]
      BY <3>1, OpenedWasFree DEF Objects
    <3>3. \A g \in Fds : desc[g] = "free"
      BY <1>0, <1>2 DEF Connect
    <3>4. QED
      BY <1>0, <1>2, <2>2, <3>1, <3>2, <3>3 DEF Connect
  <2>3. QED BY <2>1, <2>2
<1>3. CASE Login
  <2>1. CASE Return
    BY <1>1, <1>3, <2>1 DEF Login
  <2>2. CASE ~Return
    BY <1>3, <2>2 DEF Login
  <2>3. QED BY <2>1, <2>2
<1>4. CASE ReadTemplate
  <2>1. CASE Return
    BY <1>1, <1>4, <2>1 DEF ReadTemplate
  <2>2. CASE ~Return
    BY <1>4, <2>2 DEF ReadTemplate
  <2>3. QED BY <2>1, <2>2
<1>5. CASE OpenCAN
  <2>1. CASE Return
    BY <1>1, <1>5, <2>1 DEF OpenCAN
  <2>2. CASE ~Return
    <3>1. PICK f \in Fds : SysOpen(f, "can") /\ canFd' = f
      BY <1>5, <2>2 DEF OpenCAN
    <3>2. /\ desc[f] = "free" /\ desc'[f] = "can" /\ desc' \in [Fds -> Objects]
          /\ \A g \in Fds : g # f => desc'[g] = desc[g]
      BY <3>1, OpenedWasFree DEF Objects
    <3>3. QED
      BY <1>0, <1>5, <2>2, <3>1, <3>2 DEF OpenCAN
  <2>3. QED BY <2>1, <2>2
<1>6. CASE StartReader
  BY <1>6 DEF StartReader
<1>7. QED BY <1>2, <1>3, <1>4, <1>5, <1>6

\* The steps of main's loop keep DescInv.
LEMMA DescLoop ==
  ASSUME CanAssumption, DescInv,
         ReadCan \/ StatFile \/ OpenFile \/ ReadLines \/ CloseFile \/ SendFrameToNode
           \/ AnswerOnCan
  PROVE  DescInv'
<1> USE DEF DescInv, NumbersOK, SharingOK, FileOK, WholeMessagesOnly, MainPcs, Starting, Reading,
            fixedVars, readerVars, outsideVars, sentVars
<1>0. NoFd \notin Fds
  BY DEF CanAssumption, NoFd
<1>1. CASE ReadCan
  BY <1>1 DEF ReadCan
<1>2. CASE StatFile
  BY <1>2 DEF StatFile
<1>3. CASE OpenFile
  <2>0. \E f \in Fds : desc[f] = "free"
    <3>1. PICK a, b, c \in Fds : a # b /\ b # c /\ a # c
      BY DEF CanAssumption
    <3>2. \A f \in Fds : desc[f] # "free" => f \in {clientFd, canFd}
      BY <1>3 DEF OpenFile
    <3>3. QED BY <3>1, <3>2
  <2>1. CASE file = "ok"
    <3>1. PICK f \in Fds : SysOpen(f, "file") /\ fileFd' = f
      BY <1>3, <2>0, <2>1 DEF OpenFile
    <3>2. /\ desc[f] = "free" /\ desc'[f] = "file" /\ desc' \in [Fds -> Objects]
          /\ \A g \in Fds : g # f => desc'[g] = desc[g]
      BY <3>1, OpenedWasFree DEF Objects
    <3>3. QED
      BY <1>0, <1>3, <2>0, <2>1, <3>1, <3>2 DEF OpenFile
  <2>2. CASE file # "ok"
    BY <1>3, <2>2 DEF OpenFile
  <2>3. QED BY <2>1, <2>2
<1>4. CASE ReadLines
  BY <1>4 DEF ReadLines
<1>5. CASE CloseFile
  BY <1>5 DEF CloseFile, SysClose, Objects
<1>6. CASE SendFrameToNode
  <2>1. UNCHANGED <<desc, fileFd, canFd, clientFd, readerPc, file, unread, whole>>
    BY <1>6 DEF SendFrameToNode
  <2>2. /\ mainPc = "send" /\ mainPc' \in {"send", "mark"}
        /\ peer' = peer \/ peer' \in {"fin", "reset"}
    BY <1>6 DEF SendFrameToNode
  <2>3. broken' = broken \/ (peer = "open" /\ desc[clientFd] = "sock" /\ broken' = (broken \/ ~whole))
    BY <1>6 DEF SendFrameToNode
  <2>4. broken' \in BOOLEAN /\ (broken' => broken \/ (desc[clientFd] = "sock" /\ ~whole))
    <3>1. broken \in BOOLEAN /\ whole \in BOOLEAN
      OBVIOUS
    <3>2. CASE broken' = broken
      BY ONLY <3>1, <3>2
    <3>3. CASE desc[clientFd] = "sock" /\ broken' = (broken \/ ~whole)
      BY ONLY <3>1, <3>3, Zenon
    <3>4. QED BY ONLY <2>3, <3>2, <3>3
  <2>5. QED
    BY <1>6, <2>1, <2>2, <2>4
<1>7. CASE AnswerOnCan
  BY <1>7 DEF AnswerOnCan
<1>8. QED BY <1>1, <1>2, <1>3, <1>4, <1>5, <1>6, <1>7

\* The reader and the world around keep DescInv.
LEMMA DescOthers ==
  ASSUME CanAssumption, DescInv, ReaderThread \/ Outside
  PROVE  DescInv'
<1> USE DEF DescInv, NumbersOK, SharingOK, FileOK, WholeMessagesOnly, MainPcs, Starting, Reading,
            fixedVars, mainVars, outsideVars, sentVars
<1>1. CASE ReaderRead
  BY <1>1 DEF ReaderRead
<1>2. CASE ReaderClose
  BY <1>2 DEF ReaderClose, SysClose, Objects
<1>3. CASE SendMessageToCAN
  BY <1>3 DEF SendMessageToCAN
<1>4. CASE Outside
  BY <1>4 DEF Outside, BusFrame, BrokerSend, BrokerRead, BrokerEnds, RemoveFile, readerVars
<1>5. QED BY <1>1, <1>2, <1>3, <1>4 DEF ReaderThread

\* DescInv is an invariant.
LEMMA DescAlways == Spec => []DescInv
<1>1. DescInv /\ [Next]_vars => DescInv'
  <2> SUFFICES ASSUME DescInv, [Next]_vars PROVE DescInv'
    OBVIOUS
  <2>1. CASE Next
    BY <2>1, CanAssumption, DescStart, DescLoop, DescOthers DEF Next, MainThread
  <2>2. CASE UNCHANGED vars
    BY <2>2 DEF vars, DescInv, NumbersOK, SharingOK, FileOK, WholeMessagesOnly, fixedVars,
                mainVars, readerVars, outsideVars, sentVars
  <2>3. QED BY <2>1, <2>2
<1>2. QED BY <1>1, DescInit, PTL DEF Spec

\* The reader never closes the bus's socket (TSocketClient::readMessage).
THEOREM BusSocketKept == Spec => []CanSocketKept
<1>1. DescInv => CanSocketKept
  BY DEF DescInv, SharingOK, CanSocketKept
<1>2. QED BY <1>1, DescAlways, PTL

\* Everything that reaches the broker was made from the whole file (TMessage::fromFile).
THEOREM BrokerGetsWholeMessages == Spec => []WholeMessagesOnly
<1>1. DescInv => WholeMessagesOnly
  BY DEF DescInv
<1>2. QED BY <1>1, DescAlways, PTL

---------------------------------------------------------------------------
(* Order.                                                                  *)

Increasing(s) == \A i, j \in 1 .. Len(s) : i < j => s[i] < s[j]
IncreasingN(s) == \A i, j \in 1 .. Len(s) : i < j => s[i].n < s[j].n

\* Main has a frame that it has not sent.
Carrying == {"stat", "open", "getline", "fclose", "send"}

\* Frames on their way from the bus: what was forwarded is older than what main
\* carries, and that is older than what is still unread.
ToBrokerOK ==
  /\ arrived \in Nat /\ bus \in Seq(Nat) /\ forwarded \in Seq(Nat) /\ message \in Frames
  /\ mainPc \in Carrying \cup {"mark"} \/ message.kind # "bus"
  /\ Increasing(forwarded) /\ Increasing(bus)
  /\ message.n <= arrived
  /\ \A j \in 1 .. Len(bus) : message.n < bus[j] /\ bus[j] <= arrived
  /\ \A i \in 1 .. Len(forwarded) :
       /\ forwarded[i] <= arrived
       /\ \A j \in 1 .. Len(bus) : forwarded[i] < bus[j]
       /\ (message.kind = "bus" /\ mainPc \in Carrying) => forwarded[i] < message.n

Sent == [n : Nat, payload : BOOLEAN]

\* The same for the messages of the broker.
ToCanOK ==
  /\ posted \in Nat /\ fromBroker \in Seq(InMessages) /\ toCan \in Seq(Sent)
  /\ sMessage \in InMessages
  /\ IncreasingN(toCan) /\ IncreasingN(fromBroker)
  /\ sMessage.n <= posted
  /\ \A j \in 1 .. Len(fromBroker) :
       sMessage.n < fromBroker[j].n /\ fromBroker[j].n <= posted
  /\ \A i \in 1 .. Len(toCan) :
       /\ toCan[i].n <= posted
       /\ \A j \in 1 .. Len(fromBroker) : toCan[i].n < fromBroker[j].n
       /\ readerPc = "can" => toCan[i].n < sMessage.n

\* What is in a sequence to which something was added.
LEMMA AppendMembers ==
  ASSUME NEW S, NEW s \in Seq(S), NEW x \in S
  PROVE  /\ Append(s, x) \in Seq(S)
         /\ \A i \in 1 .. Len(Append(s, x)) :
              Append(s, x)[i] = x \/ (i \in 1 .. Len(s) /\ Append(s, x)[i] = s[i])
OBVIOUS

\* Adding a larger number at the end keeps a sequence increasing.
LEMMA IncreasingAppend ==
  ASSUME NEW s \in Seq(Nat), NEW x \in Nat, Increasing(s),
         \A i \in 1 .. Len(s) : s[i] < x
  PROVE  Increasing(Append(s, x))
BY DEF Increasing

\* Taking the first number away leaves larger ones, still increasing.
LEMMA IncreasingTail ==
  ASSUME NEW s \in Seq(Nat), s # <<>>, Increasing(s)
  PROVE  /\ Increasing(Tail(s))
         /\ \A j \in 1 .. Len(Tail(s)) : s[1] < Tail(s)[j]
<1>1. /\ Len(s) \in Nat /\ Len(Tail(s)) = Len(s) - 1
      /\ \A j \in 1 .. Len(Tail(s)) : Tail(s)[j] = s[j + 1] /\ j + 1 \in 1 .. Len(s)
      /\ 1 \in 1 .. Len(s)
  OBVIOUS
<1>2. \A i, j \in 1 .. Len(s) : i < j => s[i] < s[j]
  BY DEF Increasing
<1>3. ASSUME NEW i \in 1 .. Len(Tail(s)), NEW j \in 1 .. Len(Tail(s)), i < j
      PROVE  Tail(s)[i] < Tail(s)[j]
  <2>1. i + 1 \in 1 .. Len(s) /\ j + 1 \in 1 .. Len(s) /\ i + 1 < j + 1
    BY <1>1, <1>3
  <2>2. s[i + 1] < s[j + 1]
    BY <1>2, <2>1
  <2>3. QED BY <1>1, <2>2
<1>4. ASSUME NEW j \in 1 .. Len(Tail(s))
      PROVE  s[1] < Tail(s)[j]
  <2>1. j + 1 \in 1 .. Len(s) /\ 1 < j + 1
    BY <1>1
  <2>2. QED BY <1>1, <1>2, <2>1
<1>5. QED BY <1>3, <1>4 DEF Increasing

\* The same for records that are ordered by their field n.
LEMMA IncreasingNAppend ==
  ASSUME NEW S, NEW s \in Seq(S), NEW x \in S, IncreasingN(s),
         \A i \in 1 .. Len(s) : s[i].n < x.n
  PROVE  IncreasingN(Append(s, x))
BY DEF IncreasingN

\* The program starts in order.
LEMMA OrderInit == Init => ToBrokerOK /\ ToCanOK
BY DEF Init, ToBrokerOK, ToCanOK, Increasing, IncreasingN, Frames, InMessages, NoMessage,
       Layouts, Sent, Carrying

\* Every step keeps the order of what goes to the broker.
LEMMA ToBrokerNext ==
  ASSUME ToBrokerOK, [Next]_vars
  PROVE  ToBrokerOK'
<1> USE DEF ToBrokerOK, Carrying, Frames
<1>0. ASSUME UNCHANGED <<arrived, bus, forwarded, message>>,
             mainPc' \in Carrying => mainPc \in Carrying,
             mainPc \in Carrying \cup {"mark"} => mainPc' \in Carrying \cup {"mark"}
      PROVE  ToBrokerOK'
  BY <1>0
<1>1. CASE ReadCan
  <2>1. CASE UNCHANGED <<message, bus>>
    BY <1>1, <2>1 DEF ReadCan, sentVars
  <2>2. CASE bus # <<>> /\ message' = [kind |-> "bus", n |-> Head(bus)] /\ bus' = Tail(bus)
    <3>0. bus \in Seq(Nat) /\ bus # <<>> /\ bus' = Tail(bus) /\ Increasing(bus)
      BY <2>2
    <3>1. /\ Head(bus) = bus[1] /\ bus' \in Seq(Nat) /\ Len(bus') = Len(bus) - 1
          /\ \A j \in 1 .. Len(bus') : bus'[j] = bus[j + 1] /\ j + 1 \in 1 .. Len(bus)
          /\ 1 \in 1 .. Len(bus) /\ bus[1] \in Nat
      BY <2>2
    <3>2. Increasing(bus') /\ \A j \in 1 .. Len(bus') : bus[1] < bus'[j]
      BY <3>1, <3>0, IncreasingTail
    <3>4. /\ UNCHANGED <<arrived, forwarded>> /\ mainPc' = "stat"
          /\ message' \in Frames /\ message'.n = bus[1]
      BY <1>1, <2>2, <3>1 DEF ReadCan, sentVars
    <3>5. QED
      BY <3>1, <3>2, <3>4
  <2>3. QED BY <1>1, <2>1, <2>2 DEF ReadCan
<1>2. CASE SendFrameToNode
  <2>1. CASE forwarded' = Append(forwarded, message.n) /\ message.kind = "bus" /\ mainPc' = "mark"
    <3>1. UNCHANGED <<message, bus, arrived>> /\ mainPc = "send"
      BY <1>2 DEF SendFrameToNode
    <3>2. forwarded' \in Seq(Nat) /\ Increasing(forwarded')
      <4>1. /\ forwarded \in Seq(Nat) /\ message.n \in Nat /\ Increasing(forwarded)
            /\ \A i \in 1 .. Len(forwarded) : forwarded[i] < message.n
        BY <2>1, <3>1
      <4>2. Increasing(Append(forwarded, message.n)) /\ Append(forwarded, message.n) \in Seq(Nat)
        BY ONLY <4>1, IncreasingAppend, AppendMembers
      <4>3. QED BY <2>1, <4>2
    <3>3. \A i \in 1 .. Len(forwarded') :
            forwarded'[i] = message.n \/ (i \in 1 .. Len(forwarded) /\ forwarded'[i] = forwarded[i])
      <4>1. forwarded \in Seq(Nat) /\ message.n \in Nat
        OBVIOUS
      <4>2. QED BY ONLY <2>1, <4>1, AppendMembers
    <3>4. \A j \in 1 .. Len(bus) : message.n < bus[j]
      OBVIOUS
    <3>5. \A i \in 1 .. Len(forwarded') :
            /\ forwarded'[i] <= arrived
            /\ \A j \in 1 .. Len(bus) : forwarded'[i] < bus[j]
      BY <3>3, <3>4
    <3>6. QED
      BY <2>1, <3>1, <3>2, <3>5
  <2>2. CASE UNCHANGED forwarded
    BY <1>0, <1>2, <2>2 DEF SendFrameToNode
  <2>3. QED BY <1>2, <2>1, <2>2 DEF SendFrameToNode, sentVars
<1>3. CASE AnswerOnCan
  BY <1>3 DEF AnswerOnCan, outsideVars, sentVars
<1>4. CASE Outside
  <2>1. CASE BusFrame
    <3>1. /\ bus' = Append(bus, arrived + 1) /\ arrived' = arrived + 1
          /\ UNCHANGED <<message, mainPc, forwarded>>
      BY <1>4, <2>1 DEF Outside, BusFrame, mainVars, sentVars
    <3>2. Increasing(bus')
      <4>1. \A j \in 1 .. Len(bus) : bus[j] < arrived + 1
        BY SMT
      <4>2. bus \in Seq(Nat) /\ arrived + 1 \in Nat /\ Increasing(bus)
        BY SMT
      <4>3. Increasing(Append(bus, arrived + 1))
        BY <4>1, <4>2, IncreasingAppend
      <4>4. QED BY <3>1, <4>3
    <3>3. \A j \in 1 .. Len(bus') :
            bus'[j] = arrived + 1 \/ (j \in 1 .. Len(bus) /\ bus'[j] = bus[j])
      <4>1. bus \in Seq(Nat) /\ arrived + 1 \in Nat
        OBVIOUS
      <4>2. QED BY ONLY <3>1, <4>1, AppendMembers
    <3>4. bus' \in Seq(Nat) /\ arrived' \in Nat
      BY <3>1
    <3>5. \A j \in 1 .. Len(bus') : message.n < bus'[j] /\ bus'[j] <= arrived + 1
      BY <3>3
    <3>6. \A i \in 1 .. Len(forwarded) :
            /\ forwarded[i] <= arrived + 1
            /\ \A j \in 1 .. Len(bus') : forwarded[i] < bus'[j]
      <4>1. \A i \in 1 .. Len(forwarded) :
              /\ forwarded[i] \in Nat /\ forwarded[i] <= arrived /\ arrived \in Nat
              /\ \A j \in 1 .. Len(bus) : forwarded[i] < bus[j]
        OBVIOUS
      <4>2. ASSUME NEW i \in 1 .. Len(forwarded), NEW j \in 1 .. Len(bus')
            PROVE  forwarded[i] < bus'[j]
        <5>1. CASE bus'[j] = arrived + 1
          BY ONLY <4>1, <5>1, i \in 1 .. Len(forwarded)
        <5>2. CASE j \in 1 .. Len(bus) /\ bus'[j] = bus[j]
          BY ONLY <4>1, <5>2, i \in 1 .. Len(forwarded)
        <5>3. QED BY <3>3, <5>1, <5>2
      <4>3. \A i \in 1 .. Len(forwarded) : forwarded[i] <= arrived + 1
        BY ONLY <4>1
      <4>4. QED BY ONLY <4>2, <4>3
    <3>7. QED
      BY <3>1, <3>2, <3>4, <3>5, <3>6, SMTT(30)
  <2>2. CASE ~BusFrame
    BY <1>0, <1>4, <2>2
       DEF Outside, BrokerSend, BrokerRead, BrokerEnds, RemoveFile, mainVars, outsideVars, sentVars
  <2>3. QED BY <2>1, <2>2
<1>5. CASE ReaderThread
  BY <1>0, <1>5 DEF ReaderThread, ReaderRead, ReaderClose, SendMessageToCAN, mainVars,
                    outsideVars, sentVars
<1>6. CASE Connect \/ Login \/ ReadTemplate \/ OpenCAN \/ StartReader
  BY <1>0, <1>6 DEF Connect, Login, ReadTemplate, OpenCAN, StartReader, Return, mainVars,
                    outsideVars, sentVars
<1>7. CASE StatFile \/ OpenFile \/ ReadLines \/ CloseFile
  BY <1>0, <1>7 DEF StatFile, OpenFile, ReadLines, CloseFile, outsideVars, sentVars
<1>8. CASE UNCHANGED vars
  BY <1>0, <1>8 DEF vars, mainVars, outsideVars, sentVars
<1>9. QED
  BY <1>1, <1>2, <1>3, <1>4, <1>5, <1>6, <1>7, <1>8 DEF Next, MainThread

\* Every step keeps the order of what goes to the bus.
LEMMA ToCanNext ==
  ASSUME ToCanOK, [Next]_vars
  PROVE  ToCanOK'
<1> USE DEF ToCanOK
<1>0. ASSUME UNCHANGED <<posted, fromBroker, toCan, sMessage>>,
             readerPc' = "can" => readerPc = "can"
      PROVE  ToCanOK'
  BY <1>0 DEF IncreasingN
<1>1. NoMessage \in InMessages /\ NoMessage.n = 0
  BY DEF NoMessage, InMessages, Layouts
<1>2. sMessage.n \in Nat /\ \A i \in 1 .. Len(toCan) : toCan[i].n \in Nat
  <2>1. \A i \in 1 .. Len(toCan) : toCan[i] \in Sent
    OBVIOUS
  <2>2. \A m \in InMessages : m.n \in Nat
    BY DEF InMessages
  <2>3. \A m \in Sent : m.n \in Nat
    BY DEF Sent
  <2>4. sMessage \in InMessages
    OBVIOUS
  <2>5. QED BY ONLY <2>1, <2>2, <2>3, <2>4
<1>3. \A j \in 1 .. Len(fromBroker) : fromBroker[j].n \in Nat /\ 0 < fromBroker[j].n
  <2>1. \A m \in InMessages : m.n \in Nat
    BY DEF InMessages
  <2>2. \A j \in 1 .. Len(fromBroker) : fromBroker[j] \in InMessages
    OBVIOUS
  <2>3. \A j \in 1 .. Len(fromBroker) : fromBroker[j].n \in Nat
    BY ONLY <2>1, <2>2
  <2>4. QED BY <1>2, <2>3
<1>4. CASE ReaderRead
  <2>1. CASE UNCHANGED <<fromBroker, sMessage>> /\ readerPc' # "can"
    BY <1>0, <1>4, <2>1 DEF ReaderRead
  <2>2. CASE fromBroker # <<>> /\ \E k \in 1 .. Len(fromBroker) :
               fromBroker' = SubSeq(fromBroker, k + 1, Len(fromBroker))
    <3>1. PICK k \in 1 .. Len(fromBroker) :
            fromBroker' = SubSeq(fromBroker, k + 1, Len(fromBroker))
      BY <2>2
    <3>2. /\ fromBroker' \in Seq(InMessages)
          /\ \A j \in 1 .. Len(fromBroker') :
               j + k \in 1 .. Len(fromBroker) /\ fromBroker'[j] = fromBroker[j + k]
      BY <3>1
    <3>3. /\ 1 \in 1 .. Len(fromBroker) /\ fromBroker[1] \in InMessages
          /\ Head(fromBroker) = fromBroker[1]
      BY <2>2
    <3>4. IncreasingN(fromBroker')
      <4>1. \A i, j \in 1 .. Len(fromBroker) : i < j => fromBroker[i].n < fromBroker[j].n
        BY DEF IncreasingN
      <4>2. ASSUME NEW i \in 1 .. Len(fromBroker'), NEW j \in 1 .. Len(fromBroker'), i < j
            PROVE  fromBroker'[i].n < fromBroker'[j].n
        <5>1. i + k \in 1 .. Len(fromBroker) /\ j + k \in 1 .. Len(fromBroker) /\ i + k < j + k
          BY ONLY <3>2, <4>2, i \in Int, j \in Int, k \in Int
        <5>2. fromBroker'[i] = fromBroker[i + k] /\ fromBroker'[j] = fromBroker[j + k]
          BY <3>2
        <5>3. fromBroker[i + k].n < fromBroker[j + k].n
          BY ONLY <4>1, <5>1
        <5>4. QED BY ONLY <5>2, <5>3
      <4>3. QED BY <4>2 DEF IncreasingN
    <3>5. \A j \in 1 .. Len(fromBroker') : fromBroker[1].n < fromBroker'[j].n
      BY <3>2, <3>3, SMTT(30) DEF IncreasingN
    <3>6. UNCHANGED <<posted, toCan>>
      BY <1>4 DEF ReaderRead
    <3>7. sMessage' = fromBroker[1] \/ (UNCHANGED sMessage /\ readerPc' # "can")
      BY ONLY <1>4, <3>3 DEF ReaderRead
    <3>8. /\ \A j \in 1 .. Len(fromBroker') :
               sMessage.n < fromBroker'[j].n /\ fromBroker'[j].n <= posted
          /\ \A i \in 1 .. Len(toCan), j \in 1 .. Len(fromBroker') :
               toCan[i].n < fromBroker'[j].n
      BY <3>2
    <3>9. IncreasingN(toCan)'
      BY <3>6 DEF IncreasingN
    <3>10. QED
      BY <3>2, <3>3, <3>4, <3>5, <3>6, <3>7, <3>8, <3>9
  <2>3. QED BY <1>4, <2>1, <2>2 DEF ReaderRead
<1>5. CASE SendMessageToCAN
  <2>1. /\ readerPc = "can" /\ UNCHANGED <<posted, fromBroker>>
        /\ \/ readerPc' = "read" /\ sMessage' = NoMessage
           \/ UNCHANGED <<readerPc, sMessage, toCan>>
    BY <1>5 DEF SendMessageToCAN, outsideVars
  <2>2. IncreasingN(fromBroker)'
    BY <2>1 DEF IncreasingN
  <2>3. CASE UNCHANGED toCan
    <3>1. IncreasingN(toCan)'
      BY <2>3 DEF IncreasingN
    <3>2. QED BY <1>1, <1>2, <1>3, <2>1, <2>2, <2>3, <3>1
  <2>4. CASE /\ readerPc' = "read" /\ sMessage' = NoMessage
             /\ toCan' = Append(toCan, [n |-> sMessage.n,
                                        payload |-> sMessage.layout = "control"])
    <3>1. [n |-> sMessage.n, payload |-> sMessage.layout = "control"] \in Sent
      BY <1>2 DEF Sent
    <3>2. IncreasingN(toCan')
      BY <2>1, <2>4, <3>1, IncreasingNAppend
    <3>3. /\ toCan' \in Seq(Sent)
          /\ \A i \in 1 .. Len(toCan') :
               toCan'[i].n = sMessage.n \/ (i \in 1 .. Len(toCan) /\ toCan'[i] = toCan[i])
      BY <2>4, <3>1
    <3>4. QED
      BY <1>1, <1>2, <1>3, <2>1, <2>2, <2>4, <3>2, <3>3
  <2>5. QED BY <1>5, <2>3, <2>4 DEF SendMessageToCAN
<1>6. CASE ReaderClose
  BY <1>0, <1>6 DEF ReaderClose, outsideVars
<1>7. CASE Outside
  <2>1. CASE BrokerSend
    <3>1. PICK m \in InMessages :
            fromBroker' = Append(fromBroker, m) /\ m.n = posted + 1
      BY <2>1 DEF BrokerSend, InMessages, Layouts
    <3>2. posted' = posted + 1 /\ UNCHANGED <<toCan, sMessage, readerPc>>
      BY <1>7, <2>1 DEF Outside, BrokerSend, readerVars
    <3>3. IncreasingN(fromBroker') /\ fromBroker' \in Seq(InMessages)
      <4>1. \A i \in 1 .. Len(fromBroker) : fromBroker[i].n < m.n
        BY <1>3, <3>1
      <4>2. QED BY <3>1, <4>1, IncreasingNAppend
    <3>4. \A j \in 1 .. Len(fromBroker') :
            fromBroker'[j].n = posted + 1
              \/ (j \in 1 .. Len(fromBroker) /\ fromBroker'[j] = fromBroker[j])
      BY <3>1
    <3>5. IncreasingN(toCan)'
      BY <3>2 DEF IncreasingN
    <3>6. \A j \in 1 .. Len(fromBroker') :
            sMessage'.n < fromBroker'[j].n /\ fromBroker'[j].n <= posted'
      BY <1>2, <1>3, <3>2, <3>4, SMTT(30)
    <3>7. \A i \in 1 .. Len(toCan') :
            /\ toCan'[i].n <= posted'
            /\ \A j \in 1 .. Len(fromBroker') : toCan'[i].n < fromBroker'[j].n
            /\ readerPc' = "can" => toCan'[i].n < sMessage'.n
      <4>1. \A i \in 1 .. Len(toCan) :
              /\ toCan[i].n \in Nat /\ toCan[i].n <= posted /\ posted \in Nat
              /\ \A j \in 1 .. Len(fromBroker) : toCan[i].n < fromBroker[j].n
              /\ readerPc = "can" => toCan[i].n < sMessage.n
        BY <1>2
      <4>2. ASSUME NEW i \in 1 .. Len(toCan), NEW j \in 1 .. Len(fromBroker')
            PROVE  toCan[i].n < fromBroker'[j].n
        <5>1. CASE fromBroker'[j].n = posted + 1
          BY ONLY <4>1, <5>1, i \in 1 .. Len(toCan)
        <5>2. CASE j \in 1 .. Len(fromBroker) /\ fromBroker'[j] = fromBroker[j]
          BY ONLY <4>1, <5>2, i \in 1 .. Len(toCan)
        <5>3. QED BY <3>4, <5>1, <5>2
      <4>3. \A i \in 1 .. Len(toCan) : toCan[i].n <= posted + 1
        BY ONLY <4>1
      <4>4. QED BY ONLY <3>2, <4>1, <4>2, <4>3
    <3>8. /\ posted' \in Nat /\ toCan' \in Seq(Sent) /\ sMessage' \in InMessages
          /\ sMessage'.n <= posted'
      BY <1>2, <3>2
    <3>9. QED
      BY ONLY <3>3, <3>5, <3>6, <3>7, <3>8 DEF ToCanOK
  <2>2. CASE ~BrokerSend
    BY <1>0, <1>7, <2>2
       DEF Outside, BusFrame, BrokerRead, BrokerEnds, RemoveFile, readerVars, outsideVars
  <2>3. QED BY <2>1, <2>2
<1>8. CASE MainThread
  <2>1. /\ UNCHANGED <<posted, fromBroker, toCan, sMessage>>
        /\ readerPc' # "can" \/ UNCHANGED readerPc
    BY <1>8 DEF MainThread, Connect, Login, ReadTemplate, OpenCAN, StartReader, Return, ReadCan,
                StatFile, OpenFile, ReadLines, CloseFile, SendFrameToNode, AnswerOnCan,
                readerVars, outsideVars
  <2>2. QED BY <1>0, <2>1
<1>9. CASE UNCHANGED vars
  BY <1>0, <1>9 DEF vars, readerVars, outsideVars
<1>10. QED
  BY <1>4, <1>5, <1>6, <1>7, <1>8, <1>9 DEF Next, ReaderThread

\* Frames and messages are passed on in order and none twice, in both directions
\* (main and clientNodeReader of canrouter).
THEOREM OrderKept == Spec => []ForwardedInOrder
<1>1. ToBrokerOK /\ ToCanOK => ForwardedInOrder
  BY DEF ToBrokerOK, ToCanOK, Increasing, IncreasingN, ForwardedInOrder
<1>2. QED BY <1>1, OrderInit, ToBrokerNext, ToCanNext, PTL DEF Spec

=============================================================================
