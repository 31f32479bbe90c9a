---------------------------- MODULE MCOldBroker ----------------------------
(***************************************************************************)
(* OldBroker for TLC.                                                      *)
(***************************************************************************)
EXTENDS OldBroker, TLC

ConnSymmetry == Permutations(Conns)

\* Both ids are in use, so that one of them is shared.
SharedId == {f \in [Conns -> NodeIds] : \E c, d \in Conns : f[c] = 1 /\ f[d] = 2}

\* Bound: how many clients have gone.
OneGone == \A c, d \in Conns : (appPc[c] = "end" /\ appPc[d] = "end") => c = d

=============================================================================
