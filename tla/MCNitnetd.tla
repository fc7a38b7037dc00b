------------------------------ MODULE MCNitnetd -----------------------------
(* Bounded instances of Nitnetd for TLC. *)
EXTENDS Nitnetd, TLC

\* The limits 2 and 3 of nitnetd.c scaled down, so that three connections
\* can use up both counters.
SmallLimit == <<1, 2>>

\* The limits of nitnetd.c.
CodeLimit == <<2, 3>>

Symmetry == Permutations(Conns)
=============================================================================
