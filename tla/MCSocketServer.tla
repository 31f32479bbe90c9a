--------------------------- MODULE MCSocketServer ---------------------------
(***************************************************************************)
(* SocketServer for TLC.                                                   *)
(***************************************************************************)
EXTENDS SocketServer, TLC

ConnSymmetry == Permutations(Conns)

=============================================================================
