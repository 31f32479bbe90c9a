--------------------------- MODULE LoginProtocol ---------------------------
(***************************************************************************)
(* What a login promises: the server grants a client the id it asked for,  *)
(* a client believes it is logged in only when it has been granted, and    *)
(* from then on the server does not change its mind.                       *)
(***************************************************************************)

CONSTANTS
  Parties,   \* the clients
  NoId       \* "nothing granted"

VARIABLES
  asked,     \* the id each client asks for
  granted,   \* the id the server has accepted each client under
  confirmed  \* the clients that know

loginVars == <<asked, granted, confirmed>>

LoginInit ==
  /\ granted = [p \in Parties |-> NoId]
  /\ confirmed = {}

Grant(p) ==
  /\ granted[p] = NoId
  /\ granted' = [granted EXCEPT ![p] = asked[p]]
  /\ UNCHANGED <<asked, confirmed>>

Withdraw(p) ==
  /\ p \notin confirmed
  /\ granted' = [granted EXCEPT ![p] = NoId]
  /\ UNCHANGED <<asked, confirmed>>

Confirm(p) ==
  /\ granted[p] = asked[p]
  /\ confirmed' = confirmed \cup {p}
  /\ UNCHANGED <<asked, granted>>

LoginNext == \E p \in Parties : Grant(p) \/ Withdraw(p) \/ Confirm(p)

LoginSpec == LoginInit /\ [][LoginNext]_loginVars

=============================================================================
