----------------------------- MODULE MCAllInOne -----------------------------
(* Bounded instances of AllInOne for TLC. *)
EXTENDS AllInOne

\* Clients are alike: which of them selects which port does not matter.
Increasing == {p \in [Clients -> 1..4] : \A c, d \in Clients : c <= d => p[c] <= p[d]}

\* Seven requests show that S2 answers no more than six.
Asks == <<1, 7, 1, 1>>
=============================================================================
