------------------------- MODULE FrameReaderProofs -------------------------
(***************************************************************************)
(* Theorems about FrameReader, for every buffer size and every number of   *)
(* frames.                                                                 *)
(***************************************************************************)
EXTENDS FrameReader, TLAPS

(***************************************************************************)
(* The order of the frames handed over.  Once frame n is handed over,      *)
(* everything of it up to its closing brace has been read and strBuffer is *)
(* empty; what is collected after that lies behind it in the stream, so    *)
(* the next frame that can be found has a greater number.                  *)
(***************************************************************************)
Behind(b, n) ==
  \A i \in 1 .. Len(b) : b[i] = Junk \/ b[i] > Piece(n, 5)

OrderInv ==
  /\ sent \in Nat
  /\ last \in Nat
  /\ pos \in Nat
  /\ strBuffer \in Seq(Nat)
  /\ Piece(last, 5) <= pos
  /\ pos <= FrameLen * sent
  /\ Behind(strBuffer, last)
  /\ \A i \in 1 .. Len(strBuffer) : strBuffer[i] <= pos

\* What Examine is given: strBuffer and the pieces just read.
LEMMA SegmentLemma ==
  ASSUME OrderInv, NEW k \in Nat, pos' = pos + k, NEW j \in {<<>>, <<Junk>>}
  PROVE  LET b == strBuffer \o [i \in 1 .. k |-> pos + i] \o j IN
           /\ b \in Seq(Nat)
           /\ Behind(b, last)
           /\ \A i \in 1 .. Len(b) : b[i] <= pos'
<1> DEFINE d == [i \in 1 .. k |-> pos + i]
           b == strBuffer \o d \o j
<1>1. strBuffer \in Seq(Nat) /\ pos \in Nat /\ last \in Nat
  BY DEF OrderInv
<1>2. d \in Seq(Nat) /\ Len(d) = k
  BY <1>1
<1>3. j \in Seq(Nat) /\ (Len(j) = 0 \/ (j = <<Junk>> /\ Len(j) = 1))
  <2>1. CASE j = <<>>
    BY <2>1
  <2>2. CASE j = <<Junk>>
    BY <2>2 DEF Junk
  <2> QED BY <2>1, <2>2
<1>4. b \in Seq(Nat) /\ Len(b) = Len(strBuffer) + k + Len(j)
  BY <1>1, <1>2, <1>3
<1>5. ASSUME NEW i \in 1 .. Len(b)
      PROVE  b[i] <= pos' /\ (b[i] = Junk \/ b[i] > Piece(last, 5))
  <2>1. CASE i <= Len(strBuffer)
    <3>1. b[i] = strBuffer[i] /\ i \in 1 .. Len(strBuffer)
      BY <1>1, <1>2, <1>3, <2>1
    <3> QED BY <3>1, <1>1 DEF OrderInv, Behind
  <2>2. CASE i > Len(strBuffer) /\ i <= Len(strBuffer) + k
    <3>1. b[i] = pos + (i - Len(strBuffer)) /\ i - Len(strBuffer) \in 1 .. k
      BY <1>1, <1>2, <1>3, <2>2
    <3> QED BY <3>1, <1>1 DEF OrderInv, Piece, FrameLen
  <2>3. CASE i > Len(strBuffer) + k
    <3>1. j = <<Junk>> /\ i = Len(strBuffer) + k + 1
      <4>1. Len(strBuffer) \in Nat
        BY <1>1
      <4> HIDE DEF b
      <4>2. Len(j) \in Nat /\ i \in Nat /\ i <= Len(strBuffer) + k + Len(j)
        BY <4>1, <1>3, <1>4
      <4>3. Len(j) # 0
        BY <4>1, <4>2, <2>3
      <4>4. Len(j) = 1 /\ j = <<Junk>>
        BY <4>3, <1>3, Zenon
      <4> QED BY <4>1, <4>2, <4>4, <2>3
    <3>2. b[i] = Junk
      BY <3>1, <1>1, <1>2 DEF Junk
    <3> QED BY <3>2, <1>1 DEF Junk
  <2> QED BY <2>1, <2>2, <2>3, <1>4
<1> QED BY <1>4, <1>5 DEF Behind

\* Examine of such a segment keeps OrderInv and hands over nothing, or a frame
\* that was sent and comes after the last one.
LEMMA ExamineLemma ==
  ASSUME OrderInv, NEW b \in Seq(Nat), Behind(b, last),
         \A i \in 1 .. Len(b) : b[i] <= pos',
         Examine(b), sent' = sent, pos' \in Nat, pos <= pos', pos' <= FrameLen * sent
  PROVE  /\ OrderInv'
         /\ last' = last \/ (last' \in 1 .. sent /\ last' > last)
<1> USE DEF OrderInv
<1>1. CASE NoHandOver
  <2>1. strBuffer' \in {b, <<>>}
    BY DEF Examine
  <2>2. last' = last
    BY <1>1 DEF NoHandOver
  <2>3. strBuffer' \in Seq(Nat) /\ Behind(strBuffer', last')
          /\ \A i \in 1 .. Len(strBuffer') : strBuffer'[i] <= pos'
    <3>1. CASE strBuffer' = b
      BY <3>1, <2>2 DEF Behind
    <3>2. CASE strBuffer' = <<>>
      BY <3>2 DEF Behind
    <3> QED BY <2>1, <3>1, <3>2
  <2> QED BY <2>2, <2>3 DEF Behind, Piece, FrameLen
<1>2. ASSUME NEW n \in 1 .. sent, MayYield(b, n), HandOver(n), strBuffer' = <<>>
      PROVE  OrderInv' /\ last' \in 1 .. sent /\ last' > last
  <2>1. Holds(b, Piece(n, 5))
    BY <1>2 DEF MayYield, fromRawData
  <2>2. Piece(n, 5) > Piece(last, 5) /\ Piece(n, 5) <= pos'
    <3>1. PICK i \in 1 .. Len(b) : b[i] = Piece(n, 5)
      BY <2>1 DEF Holds
    <3>2. Piece(n, 5) # Junk
      BY DEF Piece, FrameLen, Junk
    <3> QED BY <3>1, <3>2 DEF Behind
  <2>3. last' = n
    BY <1>2 DEF HandOver
  <2> QED BY <2>2, <2>3, <1>2 DEF Piece, FrameLen, Behind
<1> QED BY <1>1, <1>2 DEF Examine

\* OrderInv is inductive, and every step is a step of LossyFifo or leaves its
\* variables alone.
LEMMA OrderStep ==
  OrderInv /\ [Next]_framesVars => OrderInv' /\ [Fifo!FifoNext]_(Fifo!fifoVars)
<1> SUFFICES ASSUME OrderInv, [Next]_framesVars
             PROVE  OrderInv' /\ [Fifo!FifoNext]_(Fifo!fifoVars)
  OBVIOUS
<1> USE DEF Fifo!FifoNext, Fifo!FifoSend, Fifo!FifoHandOver, Fifo!fifoVars
<1>1. CASE writeData
  BY <1>1 DEF writeData, OrderInv, Behind, Piece, FrameLen
<1>2. CASE SenderEnds \/ ReadEnd \/ UNCHANGED framesVars
  BY <1>2 DEF SenderEnds, ReadEnd, framesVars, OrderInv, Behind
<1>3. ASSUME NEW k \in 1 .. BufSize, ReadData(k)
      PROVE  OrderInv' /\ [Fifo!FifoNext]_(Fifo!fifoVars)
  <2> DEFINE d == [i \in 1 .. k |-> pos + i]
  <2>1. k \in Nat /\ k >= 1
    BY FrameAssumption
  <2>2. pos' = pos + k /\ pos + k <= FrameLen * sent /\ sent' = sent
    BY <1>3 DEF ReadData
  <2>3. PICK j \in {<<>>, <<Junk>>} : Examine(strBuffer \o d \o j)
    <3>1. strBuffer \o d \o <<>> = strBuffer \o d
      <4>1. strBuffer \in Seq(Nat) /\ d \in Seq(Nat)
        BY <2>1 DEF OrderInv
      <4> QED BY <4>1
    <3> QED BY <3>1, <1>3 DEF ReadData
  <2> DEFINE b == strBuffer \o d \o j
  <2>4. b \in Seq(Nat) /\ Behind(b, last) /\ \A i \in 1 .. Len(b) : b[i] <= pos'
    BY <2>1, <2>2, SegmentLemma
  <2>5. pos' \in Nat /\ pos <= pos' /\ pos' <= FrameLen * sent
    BY <2>1, <2>2 DEF OrderInv
  <2>6. OrderInv' /\ (last' = last \/ (last' \in 1 .. sent /\ last' > last))
    <3> HIDE DEF b
    <3> QED BY <2>2, <2>3, <2>4, <2>5, ExamineLemma DEF b
  <2> QED BY <2>2, <2>6
<1> QED BY <1>1, <1>2, <1>3 DEF Next

\* TRemoteNode's loop and TSocketClient::readMessage implement LossyFifo: at most
\* once and in the order sent, for every buffer size and every way read() cuts
\* the stream, overruns of buffer included.
THEOREM ReadersImplementFifo == Spec => ReadsInOrder
<1>1. Init => OrderInv /\ Fifo!FifoInit
  BY DEF Init, OrderInv, Behind, Piece, FrameLen, Fifo!FifoInit
<1>2. QED
  BY <1>1, OrderStep, PTL DEF Spec, ReadsInOrder, Fifo!FifoSpec

(***************************************************************************)
(* Alternating traffic.  While no read mixed two frames or overran,        *)
(* strBuffer is exactly what has been read of the frame under way, from    *)
(* its "#begin" on, and all frames before it have been handed over.        *)
(***************************************************************************)
AlternationInv ==
  /\ OrderInv
  /\ (~mixed /\ ~overrun) =>
       /\ last = pos \div FrameLen
       /\ Len(strBuffer) = pos % FrameLen
       /\ \A i \in 1 .. Len(strBuffer) : strBuffer[i] = FrameLen * (pos \div FrameLen) + i

\* A read that stays within one frame and does not overrun extends the collected
\* part of that frame, or completes it.
LEMMA WithinOneFrame ==
  ASSUME AlternationInv, NEW k \in 1 .. BufSize, ReadData(k), ~mixed', ~overrun',
         OrderInv'
  PROVE  AlternationInv'
<1> DEFINE q == pos \div FrameLen
           r == pos % FrameLen
           d == [i \in 1 .. k |-> pos + i]
           b == strBuffer \o d
<1>1. k \in Nat /\ k >= 1 /\ pos \in Nat /\ sent \in Nat /\ strBuffer \in Seq(Nat)
  BY FrameAssumption DEF AlternationInv, OrderInv
<1>2. /\ pos' = pos + k /\ pos + k <= FrameLen * sent /\ sent' = sent
      /\ ~mixed /\ ~overrun
      /\ pos \div FrameLen = (pos + k - 1) \div FrameLen
      /\ Examine(b)
  <2>1. pos' = pos + k /\ pos + k <= FrameLen * sent /\ sent' = sent
    BY DEF ReadData
  <2>2. mixed' = (mixed \/ pos \div FrameLen # (pos + k - 1) \div FrameLen)
    BY DEF ReadData
  <2>3. ~mixed /\ pos \div FrameLen = (pos + k - 1) \div FrameLen
    BY <2>2, Zenon
  <2>4. Examine(b) /\ overrun' = overrun
    BY DEF ReadData
  <2> QED BY <2>1, <2>3, <2>4
<1>3. /\ q \in Nat /\ r \in 0 .. 6 /\ pos = 7 * q + r
      /\ r + k <= 7 /\ q < sent
  <2>1. q \in Nat /\ r \in 0 .. 6 /\ pos = 7 * q + r
    BY <1>1 DEF FrameLen
  <2>2. (pos + k - 1) \div 7 = q
    BY <1>2 DEF FrameLen
  <2> HIDE DEF q, r
  <2> QED BY <2>1, <2>2, <1>1, <1>2 DEF FrameLen
<1>4. /\ last = q
      /\ Len(strBuffer) = r
      /\ \A i \in 1 .. r : strBuffer[i] = 7 * q + i
  BY <1>2 DEF AlternationInv, FrameLen
<1>5. /\ b \in Seq(Nat) /\ Len(b) = r + k
      /\ \A i \in 1 .. r + k : b[i] = 7 * q + i
  <2>1. d \in Seq(Nat) /\ Len(d) = k /\ \A i \in 1 .. k : d[i] = pos + i
    BY <1>1
  <2> HIDE DEF d, q, r
  <2>2. b \in Seq(Nat) /\ Len(b) = r + k
    BY <1>1, <1>3, <1>4, <2>1
  <2>3. ASSUME NEW i \in 1 .. r + k
        PROVE  b[i] = 7 * q + i
    <3>1. CASE i <= r
      <4>1. b[i] = strBuffer[i] /\ i \in 1 .. r
        BY <3>1, <1>1, <1>3, <1>4, <2>1
      <4> QED BY <4>1, <1>4
    <3>2. CASE i > r
      <4>1. b[i] = d[i - r] /\ i - r \in 1 .. k
        <5>1. i \in Int /\ r \in Nat /\ i - r \in 1 .. k
          BY <3>2, <1>1, <1>3
        <5>2. b[i] = d[i - Len(strBuffer)]
          BY <3>2, <1>1, <1>3, <1>4, <2>1, <5>1, SMTT(30)
        <5> QED BY <5>1, <5>2, <1>4
      <4>2. d[i - r] = pos + (i - r)
        BY <4>1, <2>1
      <4>3. i \in Int /\ r \in Int /\ q \in Int /\ pos = 7 * q + r
        BY <1>1, <1>3
      <4>4. pos + (i - r) = 7 * q + i
        BY <4>3
      <4> QED BY <4>1, <4>2, <4>4
    <3>3. i <= r \/ i > r
      BY <1>1, <1>3
    <3> QED BY <3>1, <3>2, <3>3
  <2> QED BY <2>2, <2>3
<1> HIDE DEF b, q, r
<1>6. ~Holds(b, Junk)
  BY <1>3, <1>5 DEF Holds, Junk
<1>7. CASE r + k < 7
  <2>1. ~FindSentinel(b, 6)
    <3> SUFFICES ASSUME NEW n \in 1 .. sent, NEW j \in 1 .. Len(b) - 1,
                        b[j + 1] = Piece(n, 7)
                 PROVE  FALSE
      BY DEF FindSentinel
    <3>1. b[j + 1] = 7 * q + (j + 1) /\ j + 1 \in 1 .. 6
      BY <1>1, <1>3, <1>5, <1>7
    <3> QED BY <3>1, <1>1, <1>3 DEF Piece, FrameLen
  <2>2. strBuffer' = b /\ last' = last
    BY <2>1, <1>2, <1>6 DEF Examine, FindBoth, NoHandOver
  <2>3. pos' \div FrameLen = q /\ pos' % FrameLen = r + k
    BY <1>1, <1>2, <1>3, <1>7 DEF FrameLen
  <2> QED BY <2>2, <2>3, <1>4, <1>5 DEF AlternationInv, FrameLen
<1>8. CASE r + k = 7
  <2>1. FindBoth(b)
    <3>1. q + 1 \in 1 .. sent
      BY <1>1, <1>3
    <3>2. /\ b[1] = Piece(q + 1, 1) /\ b[2] = Piece(q + 1, 2)
          /\ b[6] = Piece(q + 1, 6) /\ b[7] = Piece(q + 1, 7)
      BY <1>3, <1>5, <1>8 DEF Piece, FrameLen
    <3> QED BY <3>1, <3>2, <1>5, <1>8 DEF FindBoth, FindSentinel
  <2>2. MayYield(b, q + 1)
    <3>1. b # <<>> /\ b[1] = Piece(q + 1, 1) /\ b[5] = Piece(q + 1, 5)
      BY <1>3, <1>5, <1>8 DEF Piece, FrameLen
    <3> QED BY <3>1, <1>5, <1>6, <1>8 DEF MayYield, fromRawData, Holds
  <2>3. \A n \in 1 .. sent : MayYield(b, n) => n = q + 1
    <3>1. b[1] = 7 * q + 1
      BY <1>5, <1>8
    <3> QED BY <3>1, <1>1, <1>3, <1>6 DEF MayYield, fromRawData, Piece, FrameLen
  <2>4. strBuffer' = <<>> /\ last' = q + 1
    <3>1. q + 1 \in 1 .. sent
      BY <1>1, <1>3
    <3> QED BY <3>1, <2>1, <2>2, <2>3, <1>2, <1>6 DEF Examine, HandOver
  <2>5. pos' \div FrameLen = q + 1 /\ pos' % FrameLen = 0
    BY <1>1, <1>2, <1>3, <1>8 DEF FrameLen
  <2> QED BY <2>4, <2>5 DEF AlternationInv
<1> QED BY <1>1, <1>3, <1>7, <1>8

\* AlternationInv is inductive.
LEMMA AlternationStep == AlternationInv /\ [Next]_framesVars => AlternationInv'
<1> SUFFICES ASSUME AlternationInv, [Next]_framesVars
             PROVE  AlternationInv'
  OBVIOUS
<1>1. OrderInv'
  BY OrderStep DEF AlternationInv
<1>2. CASE writeData \/ SenderEnds \/ ReadEnd \/ UNCHANGED framesVars
  BY <1>1, <1>2 DEF writeData, SenderEnds, ReadEnd, framesVars, AlternationInv
<1>3. ASSUME NEW k \in 1 .. BufSize, ReadData(k)
      PROVE  AlternationInv'
  <2>1. CASE ~mixed' /\ ~overrun'
    BY <1>1, <1>3, <2>1, WithinOneFrame
  <2>2. CASE mixed' \/ overrun'
    BY <1>1, <2>2 DEF AlternationInv
  <2> QED BY <2>1, <2>2
<1> QED BY <1>2, <1>3 DEF Next

\* On a connection whose frames come one at a time every frame that was read to
\* its end has been handed over: exampleclient's question and answer loses no
\* message, whatever the size of the buffer and of the pieces read() returns.
THEOREM AlternationSafe == Spec => []AlternationLosesNothing
<1>1. Init => AlternationInv
  BY DEF Init, AlternationInv, OrderInv, Behind, Piece, FrameLen
<1>2. AlternationInv => AlternationLosesNothing
  BY DEF AlternationInv, AlternationLosesNothing
<1>3. QED
  BY <1>1, <1>2, AlternationStep, PTL DEF Spec

(***************************************************************************)
(* The length of strBuffer.  Without an overrun it is an unbroken part of  *)
(* the stream, and twelve pieces of the stream in a row, wherever they     *)
(* start, have both sentinels.                                             *)
(***************************************************************************)
Unbroken(b, p) == Len(b) <= p /\ \A i \in 1 .. Len(b) : b[i] = p - Len(b) + i

BoundInv ==
  /\ OrderInv
  /\ ~overrun => Unbroken(strBuffer, pos) /\ Len(strBuffer) < 12

\* A part of the stream with twelve pieces or more has both sentinels.
LEMMA TwelvePieces ==
  ASSUME NEW b \in Seq(Nat), NEW p \in Nat, Unbroken(b, p), sent \in Nat,
         p <= FrameLen * sent, Len(b) >= 12
  PROVE  FindBoth(b)
<1> DEFINE s == p - Len(b)
           q == s \div 7
           r == s % 7
<1>1. s \in Nat /\ Len(b) \in Nat /\ s + 12 <= 7 * sent
  BY DEF Unbroken, FrameLen
<1>2. \A i \in 1 .. 12 : i \in 1 .. Len(b) /\ b[i] = s + i
  <2> SUFFICES ASSUME NEW i \in 1 .. 12
               PROVE  i \in 1 .. Len(b) /\ b[i] = s + i
    OBVIOUS
  <2>1. i \in 1 .. Len(b)
    BY <1>1
  <2>2. b[i] = p - Len(b) + i
    BY <2>1 DEF Unbroken
  <2> QED BY <2>1, <2>2
<1> HIDE DEF s
<1>3. q \in Nat /\ r \in 0 .. 6 /\ s = 7 * q + r
  BY <1>1
<1> HIDE DEF q, r
<1>4. FindSentinel(b, 1)
  <2> DEFINE n == IF r = 0 THEN q + 1 ELSE q + 2
             j == IF r = 0 THEN 1 ELSE 8 - r
  <2>1. n \in 1 .. sent /\ j \in 1 .. 7
    BY <1>1, <1>3
  <2>2. b[j] = Piece(n, 1) /\ b[j + 1] = Piece(n, 2)
    <3>1. b[j] = s + j /\ b[j + 1] = s + (j + 1)
      <4> HIDE DEF n, j
      <4>1. j \in 1 .. 12 /\ j + 1 \in 1 .. 12
        BY <2>1
      <4> QED BY <1>2, <4>1
    <3> QED BY <3>1, <1>1, <1>3 DEF Piece, FrameLen
  <2>3. j \in 1 .. Len(b) - 1
    <3> HIDE DEF j
    <3> QED BY <2>1, <1>1
  <2> HIDE DEF n, j
  <2> QED BY <2>1, <2>2, <2>3 DEF FindSentinel
<1>5. FindSentinel(b, 6)
  <2> DEFINE n == IF r = 6 THEN q + 2 ELSE q + 1
             j == IF r = 6 THEN 7 ELSE 6 - r
  <2>1. n \in 1 .. sent /\ j \in 1 .. 7
    BY <1>1, <1>3
  <2>2. b[j] = Piece(n, 6) /\ b[j + 1] = Piece(n, 7)
    <3>1. b[j] = s + j /\ b[j + 1] = s + (j + 1)
      <4> HIDE DEF n, j
      <4>1. j \in 1 .. 12 /\ j + 1 \in 1 .. 12
        BY <2>1
      <4> QED BY <1>2, <4>1
    <3> QED BY <3>1, <1>1, <1>3 DEF Piece, FrameLen
  <2>3. j \in 1 .. Len(b) - 1
    <3> HIDE DEF j
    <3> QED BY <2>1, <1>1
  <2> HIDE DEF n, j
  <2> QED BY <2>1, <2>2, <2>3 DEF FindSentinel
<1> QED BY <1>4, <1>5 DEF FindBoth

\* BoundInv is inductive.
LEMMA BoundStep == BoundInv /\ [Next]_framesVars => BoundInv'
<1> SUFFICES ASSUME BoundInv, [Next]_framesVars
             PROVE  BoundInv'
  OBVIOUS
<1>1. OrderInv /\ OrderInv'
  BY OrderStep DEF BoundInv
<1>2. CASE writeData \/ SenderEnds \/ ReadEnd \/ UNCHANGED framesVars
  BY <1>1, <1>2 DEF writeData, SenderEnds, ReadEnd, framesVars, BoundInv
<1>3. ASSUME NEW k \in 1 .. BufSize, ReadData(k), ~overrun'
      PROVE  Unbroken(strBuffer', pos') /\ Len(strBuffer') < 12
  <2> DEFINE d == [i \in 1 .. k |-> pos + i]
             b == strBuffer \o d
  <2>1. k \in Nat /\ k >= 1 /\ pos \in Nat /\ strBuffer \in Seq(Nat) /\ sent \in Nat
    BY <1>1, FrameAssumption DEF OrderInv
  <2>2. pos' = pos + k /\ pos' <= FrameLen * sent
    BY <1>3 DEF ReadData
  <2>3. Examine(b) /\ overrun' = overrun
    BY <1>3 DEF ReadData
  <2>4. Unbroken(strBuffer, pos)
    BY <1>3, <2>3 DEF BoundInv
  <2>5. b \in Seq(Nat) /\ Unbroken(b, pos')
    <3>1. d \in Seq(Nat) /\ Len(d) = k /\ \A i \in 1 .. k : d[i] = pos + i
      BY <2>1
    <3> HIDE DEF d
    <3>2. b \in Seq(Nat) /\ Len(b) = Len(strBuffer) + k /\ Len(strBuffer) \in Nat
      BY <2>1, <3>1
    <3>3. ASSUME NEW i \in 1 .. Len(b)
          PROVE  b[i] = pos' - Len(b) + i
      <4>1. CASE i <= Len(strBuffer)
        <5>1. b[i] = strBuffer[i] /\ i \in 1 .. Len(strBuffer)
          BY <4>1, <2>1, <3>1
        <5> HIDE DEF b
        <5> QED BY <5>1, <2>1, <2>2, <2>4, <3>2 DEF Unbroken
      <4>2. CASE i > Len(strBuffer)
        <5>1. b[i] = d[i - Len(strBuffer)] /\ i - Len(strBuffer) \in 1 .. k
          BY <4>2, <2>1, <3>1, <3>2
        <5> HIDE DEF b
        <5> QED BY <5>1, <3>1, <2>1, <2>2, <3>2
      <4>3. i <= Len(strBuffer) \/ i > Len(strBuffer)
        <5> HIDE DEF b
        <5> QED BY <3>2
      <4> QED BY <4>1, <4>2, <4>3
    <3> HIDE DEF b
    <3> QED BY <3>2, <3>3, <2>1, <2>2, <2>4 DEF Unbroken
  <2> HIDE DEF b
  <2>6. ~Holds(b, Junk)
    BY <2>1, <2>2, <2>5 DEF Holds, Unbroken, Junk
  <2>7. CASE strBuffer' = b /\ ~FindBoth(b)
    <3>1. ~(Len(b) >= 12)
      BY <2>1, <2>2, <2>5, <2>7, TwelvePieces
    <3> QED BY <3>1, <2>5, <2>7
  <2>8. CASE strBuffer' = <<>>
    BY <2>1, <2>2, <2>8 DEF Unbroken
  <2> QED BY <2>3, <2>6, <2>7, <2>8 DEF Examine
<1> QED BY <1>1, <1>2, <1>3 DEF Next, BoundInv

\* strBuffer never holds two frames between reads, whatever the size of the
\* buffer, as long as std::string(buffer) stays within what was read.
THEOREM SegmentsBounded == Spec => []SegmentBounded
<1>1. Init => BoundInv
  BY DEF Init, BoundInv, Unbroken, OrderInv, Behind, Piece, FrameLen
<1>2. BoundInv => SegmentBounded
  BY DEF BoundInv, SegmentBounded, FrameLen
<1>3. QED
  BY <1>1, <1>2, BoundStep, PTL DEF Spec

=============================================================================
