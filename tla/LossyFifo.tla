----------------------------- MODULE LossyFifo -----------------------------
(***************************************************************************)
(* What one direction of a connection promises to those who use it: the    *)
(* n-th message sent is handed over at most once and never after a later   *)
(* one; it may be lost.                                                    *)
(***************************************************************************)
EXTENDS Naturals

VARIABLES
  sent,   \* how many messages were sent
  last    \* the number of the message handed over last, 0 before the first

fifoVars == <<sent, last>>

FifoInit == sent = 0 /\ last = 0

FifoSend == sent' = sent + 1 /\ UNCHANGED last

FifoHandOver ==
  /\ \E n \in 1 .. sent : n > last /\ last' = n
  /\ UNCHANGED sent

FifoNext == FifoSend \/ FifoHandOver

FifoSpec == FifoInit /\ [][FifoNext]_fifoVars

=============================================================================
