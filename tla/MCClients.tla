----------------------------- MODULE MCClients -----------------------------
(***************************************************************************)
(* Clients for TLC.                                                        *)
(***************************************************************************)
EXTENDS Clients, TLC

ConnSymmetry == Permutations(Conns)

AnyIds == [Conns -> NodeIds]

\* All clients but one have the same id.
OneDiffers == {f \in AnyIds : \E c \in Conns : f[c] = 2 /\ \A d \in Conns \ {c} : f[d] = 1}

\* Bound: how many clients have gone.
OneGone == \A c, d \in Conns : (appPc[c] = "end" /\ appPc[d] = "end") => c = d

=============================================================================
