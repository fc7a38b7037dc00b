------------------------------ MODULE Broadcast -----------------------------
(***************************************************************************)
(* What the group chat promises: on each channel every client sees the     *)
(* messages that are addressed to it, each one once and in the order in    *)
(* which they were sent, at its own pace.                                  *)
(***************************************************************************)
EXTENDS Naturals, Sequences

CONSTANTS Clients, Channels,
          Addressed(_, _)  \* who gets a message of a client on a channel

VARIABLES log,  \* the sender of each message of a channel, in order
          last  \* the last message of the channel that the client has seen

vars == <<log, last>>

Init ==
  /\ log = [q \in Channels |-> <<>>]
  /\ last = [q \in Channels |-> [c \in Clients |-> 0]]

Publish(c, q) ==
  /\ log' = [log EXCEPT ![q] = Append(@, c)] /\ UNCHANGED last

\* Message n is the next one for c: none between the last one and n is.
Deliver(c, q) ==
  \E n \in 1..Len(log[q]) :
    /\ n > last[q][c] /\ c \in Addressed(q, log[q][n])
    /\ \A m \in (last[q][c] + 1)..(n - 1) : c \notin Addressed(q, log[q][m])
    /\ last' = [last EXCEPT ![q][c] = n] /\ UNCHANGED log

Next == \E c \in Clients, q \in Channels : Publish(c, q) \/ Deliver(c, q)

Spec == Init /\ [][Next]_vars
=============================================================================
