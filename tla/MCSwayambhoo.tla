---------------------------- MODULE MCSwayambhoo ----------------------------
(* Bounded instances of Swayambhoo for TLC. *)
EXTENDS Swayambhoo, TLC

\* The services that have been started and the clients that have come.
Parties == Cardinality({p \in Ports : svcPc[p] # "off"}) + Cardinality({c \in Clients : cli[c] # "new"})

\* Two services and a client, or one service and two clients.
MaxParties == 3

FewSpec == Init /\ [][Next /\ Parties' <= MaxParties]_vars /\ Fairness

Symmetry == Permutations(Clients) \cup Permutations(Ports)
=============================================================================
