------------------------------ MODULE MCChats ------------------------------
(***************************************************************************)
(* The servers that multiplex with select (assignments 14, 15 and 17 and   *)
(* question 2 of the mid semester exam): each behaviour runs one of them.  *)
(***************************************************************************)
EXTENDS UdpServers, SelectChat, Placement, News

vars == <<varsUdp, varsSel, varsPl, varsNews>>

Init ==
  \E started \in 1..4 :
    /\ IF started = 1 THEN InitUdp ELSE IdleUdp
    /\ IF started = 2 THEN InitSel ELSE IdleSel
    /\ IF started = 3 THEN InitPl ELSE IdlePl
    /\ IF started = 4 THEN InitNews ELSE IdleNews

Next ==
  \/ NextUdp /\ UNCHANGED <<varsSel, varsPl, varsNews>>
  \/ NextSel /\ UNCHANGED <<varsUdp, varsPl, varsNews>>
  \/ NextPl /\ UNCHANGED <<varsUdp, varsSel, varsNews>>
  \/ NextNews /\ UNCHANGED <<varsUdp, varsSel, varsPl>>

Spec == Init /\ [][Next]_vars
        /\ FairSel /\ FairPl
=============================================================================
