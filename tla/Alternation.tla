---------------------------- MODULE Alternation ----------------------------
(***************************************************************************)
(* Assignments 1 and 2: two processes or threads that take turns with two  *)
(* semaphores, each posting the one the other waits for.                   *)
(*   "rounds"  A1 q3: two threads, a number of turns each;                 *)
(*   "shm"     A1 q4: a writer and a reader of shared memory, for ever;    *)
(*   "file"    A2 q1: parent and forked child read lines of one open file; *)
(*   "exec"    A2 q2: the same with a child that execs q2_p2;              *)
(*   "append"  A2 q3: parent and ./q3_p2 append to strings in shared       *)
(*             memory, a number of turns each.                             *)
(* The programs of assignment 2 open the semaphores by name and the parent *)
(* unlinks the names when it is done.  A turn has a beginning and an end.  *)
(***************************************************************************)
EXTENDS Naturals

CONSTANTS Rounds,    \* int count = 4 or 5
          MaxFile,   \* bound: the lines of the file
          MaxTurns   \* bound: the turns of the endless program

VARIABLES aprog,   \* the program, fixed by the initial state
          len,     \* the lines of the file, fixed by the initial state
          apc,     \* where each process is
          sem,     \* sem[p]: the value of the semaphore p waits for
          turns,   \* the turns each process has finished
          named    \* the names of the semaphores exist

varsAlt == <<aprog, len, apc, sem, turns, named>>

Sides == {1, 2}
Peer(p) == 3 - p
ByName == {"file", "exec", "append"}

BlankAlt ==
  /\ sem = [p \in Sides |-> 0]
  /\ turns = [p \in Sides |-> 0]
  /\ named = TRUE

InitAlt ==
  /\ aprog \in {"rounds", "shm", "file", "exec", "append"}
  /\ len \in 0..MaxFile /\ (len = 0 \/ aprog \in {"file", "exec"})
  /\ apc = [p \in Sides |-> "open"]
  /\ BlankAlt

IdleAlt == /\ aprog = "none" /\ len = 0
           /\ apc = [p \in Sides |-> "end"]
           /\ BlankAlt

At(p, pc) == apc[p] = pc
To(p, pc) == apc' = [apc EXCEPT ![p] = pc]

(***************************************************************************)
(* sem_open of a name that is gone returns SEM_FAILED, and the wait on it  *)
(* ends the process.  The first process begins with a turn, the second     *)
(* with a wait.                                                            *)
(***************************************************************************)
Open(p) ==
  /\ At(p, "open")
  /\ To(p, IF ~named /\ aprog \in ByName THEN "crash"
           ELSE IF p = 1 THEN "go" ELSE "wait")
  /\ UNCHANGED <<aprog, len, sem, turns, named>>

Wait(p) ==
  /\ At(p, "wait") /\ sem[p] > 0
  /\ sem' = [sem EXCEPT ![p] = @ - 1]
  /\ To(p, "go")
  /\ UNCHANGED <<aprog, len, turns, named>>

\* Nothing is left: the count is used up, or read returns 0.
Done(p) == CASE aprog \in {"rounds", "append"} -> turns[p] = Rounds
             [] aprog \in {"file", "exec"} -> turns[1] + turns[2] = len
             [] OTHER -> FALSE

Begin(p) ==
  /\ At(p, "go")
  /\ aprog # "shm" \/ turns[p] < MaxTurns
  /\ To(p, IF Done(p) THEN "last" ELSE "in")
  /\ UNCHANGED <<aprog, len, sem, turns, named>>

Finish(p) ==
  /\ At(p, "in")
  /\ turns' = [turns EXCEPT ![p] = @ + 1]
  /\ sem' = [sem EXCEPT ![Peer(p)] = @ + 1]
  /\ To(p, "wait")
  /\ UNCHANGED <<aprog, len, named>>

(***************************************************************************)
(* After the loop: only some of the functions post once more.              *)
(***************************************************************************)
M_LastPost(p) == p = 1
LastPost(p) == p = (IF aprog = "rounds" THEN 1 ELSE 2)

AfterLoop(p) ==
  /\ At(p, "last")
  /\ sem' = IF LastPost(p) THEN [sem EXCEPT ![Peer(p)] = @ + 1] ELSE sem
  /\ named' = (named /\ p # 1 /\ aprog # "file")
  /\ To(p, "end")
  /\ UNCHANGED <<aprog, len, turns>>

Run(p) == Open(p) \/ Wait(p) \/ Begin(p) \/ Finish(p) \/ AfterLoop(p)

q3_P1 == aprog = "rounds" /\ Run(1)
q3_P2 == aprog = "rounds" /\ Run(2)
q4_writer == aprog = "shm" /\ Run(1)
q4_reader == aprog = "shm" /\ Run(2)
q1_p1 == aprog = "file" /\ Run(1)
q1_p2 == aprog = "file" /\ Run(2)
q2_p1 == aprog = "exec" /\ Run(1)
q2_p2 == aprog = "exec" /\ Run(2)
q3_p1_exec == aprog = "append" /\ Run(1)
q3_p2_exec == aprog = "append" /\ Run(2)

NextAlt == \/ q3_P1 \/ q3_P2 \/ q4_writer \/ q4_reader \/ q1_p1 \/ q1_p2
           \/ q2_p1 \/ q2_p2 \/ q3_p1_exec \/ q3_p2_exec

\* Both sides keep running.
FairAlt == \A p \in Sides : WF_varsAlt(aprog # "none" /\ Run(p))
-----------------------------------------------------------------------------

(***************************************************************************)
(* Both sides end, except that the second side of q3_p1.cpp waits once     *)
(* more than it is posted, and that the second reader of a file is left    *)
(* waiting when the first one meets the end of the file; it crashes only   *)
(* when the file has no line at all.                                       *)
(***************************************************************************)
LeftWaiting == aprog = "append" \/ (aprog \in {"file", "exec"} /\ len % 2 = 0)
BothEnd ==
  aprog \notin {"shm", "none"} ~>
    /\ At(1, "end")
    /\ \/ ~LeftWaiting /\ At(2, "end")
       \/ LeftWaiting /\ At(2, "wait") /\ sem[2] = 0
       \/ aprog \in {"file", "exec"} /\ len = 0 /\ At(2, "crash")
=============================================================================
