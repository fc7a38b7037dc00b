----------------------------- MODULE MCServers -----------------------------
(***************************************************************************)
(* The servers that are started on their own (assignments 13, 16, 17, 18   *)
(* and 21): each behaviour runs one of them with its clients.              *)
(***************************************************************************)
EXTENDS ConnServers, FdPass, Inetd, Handover

vars == <<varsConn, varsFd, varsInetd, varsHand>>

Init ==
  \E started \in 1..4 :
    /\ IF started = 1 THEN InitConn ELSE IdleConn
    /\ IF started = 2 THEN InitFd ELSE IdleFd
    /\ IF started = 3 THEN InitInetd ELSE IdleInetd
    /\ IF started = 4 THEN InitHand ELSE IdleHand

Next ==
  \/ NextConn /\ UNCHANGED <<varsFd, varsInetd, varsHand>>
  \/ NextFd /\ UNCHANGED <<varsConn, varsInetd, varsHand>>
  \/ NextInetd /\ UNCHANGED <<varsConn, varsFd, varsHand>>
  \/ NextHand /\ UNCHANGED <<varsConn, varsFd, varsInetd>>

Spec == Init /\ [][Next]_vars
        /\ FairConn /\ FairInetd
=============================================================================
