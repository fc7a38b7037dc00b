----------------------------- MODULE MCGroupChat ----------------------------
(* Bounded instances of GroupChat for TLC. *)
EXTENDS GroupChat

Everyone == Members
GroupA   == {<<"A", 1>>, <<"A", 2>>, <<"A", 3>>}
=============================================================================
