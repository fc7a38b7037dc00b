------------------------------- MODULE MCCore ------------------------------
(***************************************************************************)
(* The three servers with processes of their own behind them: Nitnetd of   *)
(* the end semester exam, AOS of the mid semester exam, and the group chat *)
(* of assignment 10.  They share nothing: each behaviour runs one of them. *)
(***************************************************************************)
EXTENDS MCNitnetd, MCAllInOne, MCGroupChat

\* The system that this behaviour runs.
VARIABLE started

coreVars == <<vars, varsAos, varsGroup, started>>

OnePort == [c \in Clients |-> 1]

InitCore ==
  /\ started \in {"nitnetd", "aos", "group"}
  /\ Init /\ InitAos /\ InitGroup
  /\ started # "aos" => port = OnePort

NextCore ==
  \/ started = "nitnetd" /\ Next /\ UNCHANGED <<varsAos, varsGroup, started>>
  \/ started = "aos" /\ NextAos /\ UNCHANGED <<vars, varsGroup, started>>
  \/ started = "group" /\ NextGroup /\ UNCHANGED <<vars, varsAos, started>>

\* The fairness of each module, for the behaviours that run its system.
FairCore ==
  /\ WF_vars(started = "nitnetd" /\ ServerLoop)
  /\ WF_vars(started = "nitnetd" /\ N2Step)
  /\ \A c \in Conns : WF_vars(started = "nitnetd" /\ ChildStep(c))
  /\ WF_varsAos(started = "aos" /\ AosStep)
  /\ WF_varsAos(started = "aos" /\ S4Killed)
  /\ \A n \in Ports : WF_varsAos(started = "aos" /\ SvcStep(n))
  /\ \A p \in 1..2 : WF_varsAos(started = "aos" /\ S2Exit(p))
  /\ \A q \in Channels : /\ WF_varsGroup(started = "group" /\ Receive(q))
                         /\ WF_varsGroup(started = "group" /\ Forward(q))
  /\ \A c \in Members : WF_varsGroup(started = "group" /\ Send(c))
  /\ \A c \in Members, q \in Channels : WF_varsGroup(started = "group" /\ Read(c, q))

SpecCore == InitCore /\ [][NextCore]_coreVars /\ FairCore
=============================================================================
