------------------------------- MODULE MCIpc -------------------------------
(***************************************************************************)
(* The programs of one machine that meet in message queues, semaphores,    *)
(* signals and shared memory (assignments 1, 2, 5, 7, 8 and 20), and the   *)
(* two pure algorithms (assignments 18 and 19).  They share nothing: each  *)
(* behaviour runs the programs of one component.                           *)
(***************************************************************************)
EXTENDS MsgRing, ChatQueue, KillGroups, Alternation, SigShm, PortDirectory, Calculator, Hamming

Pids(p, q, r) == [c \in Clients |-> CASE c = "c1" -> p [] c = "c2" -> q [] OTHER -> r]

\* The clients' pids: two of them consecutive, the third apart.
MCPids == {Pids(10, 11, 30)}

\* Three runs of service.c, two of them with the same port.
MCPorts == [s \in Svcs |-> IF s = 2 THEN 4 ELSE 3]

vars == <<varsRing, varsChat, varsKill, varsAlt, varsShm, varsDir, varsCalc, varsHamming>>

Init ==
  \E started \in 1..8 :
    /\ IF started = 1 THEN InitRing ELSE IdleRing
    /\ IF started = 2 THEN InitChat ELSE IdleChat
    /\ IF started = 3 THEN InitKill ELSE IdleKill
    /\ IF started = 4 THEN InitAlt ELSE IdleAlt
    /\ IF started = 5 THEN InitShm ELSE IdleShm
    /\ IF started = 6 THEN InitDir ELSE IdleDir
    /\ IF started = 7 THEN InitCalc ELSE IdleCalc
    /\ IF started = 8 THEN InitHamming ELSE IdleHamming

Next ==
  \/ NextRing /\ UNCHANGED <<varsChat, varsKill, varsAlt, varsShm, varsDir, varsCalc, varsHamming>>
  \/ NextChat /\ UNCHANGED <<varsRing, varsKill, varsAlt, varsShm, varsDir, varsCalc, varsHamming>>
  \/ NextKill /\ UNCHANGED <<varsRing, varsChat, varsAlt, varsShm, varsDir, varsCalc, varsHamming>>
  \/ NextAlt /\ UNCHANGED <<varsRing, varsChat, varsKill, varsShm, varsDir, varsCalc, varsHamming>>
  \/ NextShm /\ UNCHANGED <<varsRing, varsChat, varsKill, varsAlt, varsDir, varsCalc, varsHamming>>
  \/ NextDir /\ UNCHANGED <<varsRing, varsChat, varsKill, varsAlt, varsShm, varsCalc, varsHamming>>
  \/ NextCalc /\ UNCHANGED <<varsRing, varsChat, varsKill, varsAlt, varsShm, varsDir, varsHamming>>
  \/ NextHamming /\ UNCHANGED <<varsRing, varsChat, varsKill, varsAlt, varsShm, varsDir, varsCalc>>

Spec == Init /\ [][Next]_vars
        /\ FairRing /\ FairChat /\ FairKill /\ FairAlt /\ FairShm
=============================================================================
