----------------------------- MODULE TokenRing -----------------------------
(***************************************************************************)
(* What the relay chats over one message queue promise: n processes speak  *)
(* in turn, 1, 2, ..., n, 1, ..., and nobody speaks out of turn.           *)
(***************************************************************************)
EXTENDS Naturals

VARIABLES n,     \* the number of processes, fixed by the initial state
          turn   \* the process whose line is next

TRInit == n \in Nat \ {0} /\ turn = 1

Speak == turn' = (turn % n) + 1 /\ UNCHANGED n

TRSpec == TRInit /\ [][Speak]_<<n, turn>> /\ WF_<<n, turn>>(Speak)
=============================================================================
