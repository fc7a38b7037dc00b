------------------------------- MODULE SigShm -------------------------------
(***************************************************************************)
(* Assignment 5, sig_shm: P1 and P2 exchange lines through two shared      *)
(* segments, X from P1 to P2 and Y from P2 to P1, and announce each line   *)
(* with a signal to the pid they find in the segment.  The segments are    *)
(* never removed: they are fresh, or hold what an earlier pair left.       *)
(*                                                                         *)
(* Left out: x.status, which nobody ever sets to Ready, so that P2 never   *)
(* waits for it, and x.pid1 and y.pid2, which nobody reads.                *)
(***************************************************************************)
EXTENDS Naturals

CONSTANT MaxShmLines   \* bound: lines typed by each process

VARIABLES p1, p2,      \* where P1 and P2 are; "dead" when killed by a signal
          ypid1,       \* y.pid1: "0", "old" (a process that has ended) or "P1"
          xpid2,       \* x.pid2: "0", "old" or "P2"
          yready,      \* y.status is Ready
          xbuff, ybuff,\* the line in each segment, by its number
          usr1, usr2,  \* SIGUSR1 pending for P1, SIGUSR2 pending for P2
          shown1, shown2 \* the last line each has printed

varsShm == <<p1, p2, ypid1, xpid2, yready, xbuff, ybuff, usr1, usr2, shown1, shown2>>

BlankShm == /\ xbuff = 0 /\ ybuff = 0 /\ shown1 = 0 /\ shown2 = 0
            /\ usr1 = FALSE /\ usr2 = FALSE

InitShm ==
  /\ BlankShm /\ p1 = "start" /\ p2 = "start"
  /\ \/ ypid1 = "0" /\ xpid2 = "0" /\ yready = FALSE
     \/ ypid1 = "old" /\ xpid2 = "old" /\ yready \in BOOLEAN

IdleShm == /\ BlankShm /\ p1 = "off" /\ p2 = "off"
           /\ ypid1 = "0" /\ xpid2 = "0" /\ yready = FALSE

Loop1 == {"spin", "fgets", "kill"}
Loop2 == {"fgets", "ready", "kill"}

P1_register ==
  /\ p1 = "start" /\ p1' = "reset" /\ ypid1' = "P1"
  /\ UNCHANGED <<p2, xpid2, yready, xbuff, ybuff, usr1, usr2, shown1, shown2>>

P1_reset ==
  /\ p1 = "reset" /\ p1' = "signal" /\ yready' = FALSE
  /\ UNCHANGED <<p2, ypid1, xpid2, xbuff, ybuff, usr1, usr2, shown1, shown2>>

P1_signal ==
  /\ p1 = "signal" /\ p1' = "spin"
  /\ UNCHANGED <<p2, ypid1, xpid2, yready, xbuff, ybuff, usr1, usr2, shown1, shown2>>

P1_spin ==
  /\ p1 = "spin" /\ yready /\ p1' = "fgets"
  /\ UNCHANGED <<p2, ypid1, xpid2, yready, xbuff, ybuff, usr1, usr2, shown1, shown2>>

P1_fgets ==
  /\ p1 = "fgets" /\ xbuff < MaxShmLines /\ xbuff' = xbuff + 1 /\ p1' = "kill"
  /\ UNCHANGED <<p2, ypid1, xpid2, yready, ybuff, usr1, usr2, shown1, shown2>>

\* kill(0) signals the caller's own group; the signal is not caught there.
P1_kill ==
  /\ p1 = "kill" /\ p1' = (IF xpid2 = "0" THEN "dead" ELSE "spin")
  /\ usr2' = (usr2 \/ (xpid2 = "P2" /\ p2 # "dead"))
  /\ UNCHANGED <<p2, ypid1, xpid2, yready, xbuff, ybuff, usr1, shown1, shown2>>

\* SIGUSR1 at P1: the handler prints Y's line, or the default action ends P1.
P1_handler ==
  /\ usr1 /\ usr1' = FALSE
  /\ IF p1 \in Loop1 THEN shown1' = ybuff /\ UNCHANGED p1
                     ELSE p1' = "dead" /\ UNCHANGED shown1
  /\ UNCHANGED <<p2, ypid1, xpid2, yready, xbuff, ybuff, usr2, shown2>>

P2_register ==
  /\ p2 = "start" /\ p2' = "reset" /\ xpid2' = "P2"
  /\ UNCHANGED <<p1, ypid1, yready, xbuff, ybuff, usr1, usr2, shown1, shown2>>

P2_reset ==
  /\ p2 = "reset" /\ p2' = "signal" /\ yready' = FALSE
  /\ UNCHANGED <<p1, ypid1, xpid2, xbuff, ybuff, usr1, usr2, shown1, shown2>>

P2_signal ==
  /\ p2 = "signal" /\ p2' = "fgets"
  /\ UNCHANGED <<p1, ypid1, xpid2, yready, xbuff, ybuff, usr1, usr2, shown1, shown2>>

P2_fgets ==
  /\ p2 = "fgets" /\ ybuff < MaxShmLines /\ ybuff' = ybuff + 1 /\ p2' = "ready"
  /\ UNCHANGED <<p1, ypid1, xpid2, yready, xbuff, usr1, usr2, shown1, shown2>>

P2_ready ==
  /\ p2 = "ready" /\ p2' = "kill" /\ yready' = TRUE
  /\ UNCHANGED <<p1, ypid1, xpid2, xbuff, ybuff, usr1, usr2, shown1, shown2>>

M_KillsOnce ==
  /\ p2 = "kill" /\ p2' = (IF ypid1 = "0" THEN "dead" ELSE "fgets")
  /\ usr1' = (usr1 \/ (ypid1 = "P1" /\ p1 # "dead" /\ ybuff = 1))
  /\ UNCHANGED <<p1, ypid1, xpid2, yready, xbuff, ybuff, usr2, shown1, shown2>>

P2_kill ==
  /\ p2 = "kill" /\ p2' = (IF ypid1 = "0" THEN "dead" ELSE "fgets")
  /\ usr1' = (usr1 \/ (ypid1 = "P1" /\ p1 # "dead"))
  /\ UNCHANGED <<p1, ypid1, xpid2, yready, xbuff, ybuff, usr2, shown1, shown2>>

P2_handler ==
  /\ usr2 /\ usr2' = FALSE
  /\ IF p2 \in Loop2 THEN shown2' = xbuff /\ UNCHANGED p2
                     ELSE p2' = "dead" /\ UNCHANGED shown2
  /\ UNCHANGED <<p1, ypid1, xpid2, yready, xbuff, ybuff, usr1, shown1>>

P1_main == P1_reset \/ P1_signal \/ P1_spin \/ P1_kill
P2_main == P2_reset \/ P2_signal \/ P2_ready \/ P2_kill

NextShm == \/ P1_register \/ P1_main \/ P1_fgets \/ P1_handler
           \/ P2_register \/ P2_main \/ P2_fgets \/ P2_handler

\* Nobody has to start a process or type a line.
FairShm == /\ WF_varsShm(P1_main) /\ WF_varsShm(P1_handler)
           /\ WF_varsShm(P2_main) /\ WF_varsShm(P2_handler)
-----------------------------------------------------------------------------

(***************************************************************************)
(* However signals coalesce and buffers are overwritten, the last line is  *)
(* printed in the end: P2's, unless P1 is still starting and dies of it,   *)
(* and P1's.                                                               *)
(***************************************************************************)
LastLineShown ==
  /\ (p2 = "kill" /\ ybuff = MaxShmLines /\ ypid1 = "P1")
       ~> (shown1 = MaxShmLines \/ p1 = "dead")
  /\ (p1 = "kill" /\ xbuff = MaxShmLines) ~> (shown2 = MaxShmLines \/ p2 = "dead")
=============================================================================
