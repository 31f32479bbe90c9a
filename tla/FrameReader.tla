---------------------------- MODULE FrameReader ----------------------------
(***************************************************************************)
(* How TMessages are put on a byte stream and found in it again:           *)
(* TMessage::toString and fromRawData, and the two loops that collect      *)
(* bytes in strBuffer, TRemoteNode::operator() and                         *)
(* TSocketClient::readMessage.                                             *)
(*                                                                         *)
(* read() cuts the stream wherever it likes.  A frame is seven pieces, cut *)
(* where it makes a difference to the code:                                *)
(*     1 "#beg"  2 "in"  3 "\n"  4 "{\n"  5 "...}\n\n"  6 "#e"  7 "nd"     *)
(* toString ends without a newline, so the next frame's "#begin" follows   *)
(* "#end" on the same line.  The pieces of the stream are numbered 1, 2,   *)
(* ...; the n-th frame is pieces Piece(n, 1) to Piece(n, 7).               *)
(***************************************************************************)
EXTENDS Integers, Sequences

CONSTANTS
  BufSize,     \* sizeof(buffer), in pieces
  MaxFrames    \* bound: frames sent

ASSUME FrameAssumption == BufSize \in Nat \ {0} /\ MaxFrames \in Nat

VARIABLES
  side,      \* which of the two loops this is
  sender,    \* the other end: open, closed, or reset
  sent,      \* frames it has written
  pos,       \* pieces taken from the stream by read
  strBuffer,
  fresh,     \* buffer has not been cleared since it was declared
  reading,   \* the loop has not met the end of the connection
  last,      \* the frame handed over last
  mixed,     \* history: some read returned pieces of two frames
  overrun    \* history: some std::string(buffer) ran past the bytes read

framesVars == <<side, sender, sent, pos, strBuffer, fresh, reading, last, mixed, overrun>>

FrameLen == 7

Piece(n, i) == FrameLen * (n - 1) + i

\* Bytes behind those that were read, up to the first NUL.
Junk == 0

Init ==
  /\ side \in {"TRemoteNode", "TSocketClient"}
  /\ sender = "open"
  /\ sent = 0
  /\ pos = 0
  /\ strBuffer = <<>>
  /\ fresh = TRUE
  /\ reading = TRUE
  /\ last = 0
  /\ mixed = FALSE
  /\ overrun = FALSE

---------------------------------------------------------------------------
(* The sender.                                                             *)

\* write of toString().
writeData ==
  /\ sender = "open"
  /\ sent < MaxFrames
  /\ sent' = sent + 1
  /\ UNCHANGED <<side, sender, pos, strBuffer, fresh, reading, last, mixed, overrun>>

SenderEnds ==
  /\ sender = "open"
  /\ sender' \in {"fin", "reset"}
  /\ UNCHANGED <<side, sent, pos, strBuffer, fresh, reading, last, mixed, overrun>>

---------------------------------------------------------------------------
(* The reader.                                                             *)

Holds(b, p) == \E i \in 1 .. Len(b) : b[i] = p

\* b.find of a sentinel that is pieces i and i + 1 of a frame.
FindSentinel(b, i) ==
  \E n \in 1 .. sent, j \in 1 .. Len(b) - 1 :
    b[j] = Piece(n, i) /\ b[j + 1] = Piece(n, i + 1)

\* Mutant: the end of the frame is not waited for.
FindBeginOnly(b) == FindSentinel(b, 1)

FindBoth(b) == FindSentinel(b, 1) /\ FindSentinel(b, 6)

\* fromRawData(b) yields the n-th frame: b starts with its "#begin" line, or with
\* the "{" line itself, and has the JSON text to its end.  What comes behind the
\* closing brace is ignored.
fromRawData(b, n) ==
  /\ b # <<>>
  /\ b[1] \in {Piece(n, 1), Piece(n, 4)}
  /\ Holds(b, Piece(n, 5))

\* Where bytes that were never read got into b they may hide or replace a
\* sentinel, end a line or break the JSON text: any frame that is all there
\* may still be found.
MayYield(b, n) ==
  IF Holds(b, Junk) THEN Holds(b, Piece(n, 4)) /\ Holds(b, Piece(n, 5))
                    ELSE fromRawData(b, n)

HandOver(n) == last' = n /\ fresh' = (side = "TSocketClient")

NoHandOver == last' = last /\ fresh' = FALSE

\* Mutant: a message that was parsed stays in strBuffer.
ExamineKeepsParsed(b) ==
  \/ ~FindBoth(b) /\ strBuffer' = b /\ NoHandOver
  \/ FindBoth(b) /\ strBuffer' = b /\ \E n \in 1 .. sent : MayYield(b, n) /\ HandOver(n)
  \/ FindBoth(b) /\ strBuffer' = <<>> /\ (\A n \in 1 .. sent : ~MayYield(b, n)) /\ NoHandOver

\* Mutant: strBuffer is cleared only when parsing it succeeded.
ExamineKeepsFailed(b) ==
  \/ ~FindBoth(b) /\ strBuffer' = b /\ NoHandOver
  \/ FindBoth(b) /\ strBuffer' = <<>> /\ \E n \in 1 .. sent : MayYield(b, n) /\ HandOver(n)
  \/ FindBoth(b) /\ strBuffer' = b /\ (\A n \in 1 .. sent : ~MayYield(b, n)) /\ NoHandOver

\* What both loops do with b = strBuffer + std::string(buffer): nothing until it
\* has both sentinels, then parse it and forget it, also when parsing fails.
\* readMessage returns what it found and begins anew with a fresh buffer.
Examine(b) ==
  \/ /\ Holds(b, Junk) \/ ~FindBoth(b)
     /\ strBuffer' = b
     /\ NoHandOver
  \/ /\ Holds(b, Junk) \/ FindBoth(b)
     /\ strBuffer' = <<>>
     /\ \/ \E n \in 1 .. sent : MayYield(b, n) /\ HandOver(n)
        \/ (Holds(b, Junk) \/ \A n \in 1 .. sent : ~MayYield(b, n)) /\ NoHandOver

\* read() returned k > 0 pieces.  std::string(buffer) stops at the first NUL; there
\* is none behind the bytes read when buffer is full or was never cleared.
ReadData(k) ==
  /\ reading
  /\ k \in 1 .. BufSize
  /\ pos + k <= FrameLen * sent
  /\ pos' = pos + k
  /\ LET data == [i \in 1 .. k |-> pos + i] IN
       \/ Examine(strBuffer \o data) /\ UNCHANGED overrun
       \/ /\ fresh \/ k = BufSize
          /\ Examine(strBuffer \o data \o <<Junk>>)
          /\ overrun' = TRUE
  /\ mixed' = (mixed \/ (pos \div FrameLen) # ((pos + k - 1) \div FrameLen))
  /\ UNCHANGED <<side, sender, sent, reading>>

\* read() returned 0 or, after a reset and perhaps before the bytes in flight, -1:
\* what is in strBuffer is dropped.  (The message loop of TRemoteNode ignores the
\* -1 and gets the 0 next.)
ReadEnd ==
  /\ reading
  /\ sender = "reset" \/ (sender = "fin" /\ pos = FrameLen * sent)
  /\ reading' = FALSE
  /\ UNCHANGED <<side, sender, sent, pos, strBuffer, fresh, last, mixed, overrun>>

---------------------------------------------------------------------------
Next == writeData \/ SenderEnds \/ (\E k \in 1 .. BufSize : ReadData(k)) \/ ReadEnd

Spec == Init /\ [][Next]_framesVars

---------------------------------------------------------------------------
(* Properties.                                                             *)

Fifo == INSTANCE LossyFifo WITH
  sent <- sent,
  last <- last

\* Either loop hands every frame over at most once and in the order sent, wherever
\* the reads cut the stream and whatever the buffer held before.
ReadsInOrder == Fifo!FifoSpec

\* As long as std::string(buffer) stays within what was read, strBuffer is shorter
\* than two frames between reads, although nothing limits it.
SegmentBounded == ~overrun => Len(strBuffer) < 2 * FrameLen - 2

\* A connection on which no read returned parts of two frames, and none overran,
\* has handed over every frame that was read to its end: senders that wait for
\* an answer lose nothing.
AlternationLosesNothing == (~mixed /\ ~overrun) => last = pos \div FrameLen

\* README.md:5 "Delivers JSON messages between nodes.": when everything sent has
\* been read, the last frame has been handed over.
EverythingHandedOver == (~overrun /\ pos = FrameLen * sent) => last = sent

=============================================================================
