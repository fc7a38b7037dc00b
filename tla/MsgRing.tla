------------------------------ MODULE MsgRing ------------------------------
(***************************************************************************)
(* Assignment 8, questions 2, 3 and 4: processes that talk in turn over    *)
(* one System V message queue.  Process i sends messages of type i; the    *)
(* first one speaks first and then waits for the type of the last one, the *)
(* others wait for the type of the one before them and then speak.         *)
(*                                                                         *)
(* The programs differ in how many processes there are and in when they    *)
(* look at the queue with IPC_STAT: question 3 looks after every send and  *)
(* after every receive, question 4 looks after every receive to print who  *)
(* sent the message.  msg_lspid belongs to the queue, not to the message,  *)
(* so between msgrcv and IPC_STAT another process could change it.         *)
(***************************************************************************)
EXTENDS Naturals, Sequences

VARIABLES prog,   \* the question whose programs are running
          rpc,    \* where each process is in its loop
          queue,  \* the message queue: <<type>> in order of arrival
          lspid,  \* msg_lspid of the queue: the last process that sent
          shown   \* what a process last printed as the sender after a receive

varsRing == <<prog, rpc, queue, lspid, shown>>

Programs == {"q2", "q3", "q4"}
NumProcs(q) == CASE q = "q4" -> 4 [] q = "none" -> 1 [] OTHER -> 2
Procs == 1..NumProcs(prog)
M_OwnType(p) == p
Before(p) == IF p = 1 THEN NumProcs(prog) ELSE p - 1

InitRing ==
  /\ prog \in Programs
  /\ rpc = [p \in Procs |-> IF p = 1 THEN "type" ELSE "recv"]
  /\ queue = <<>>
  /\ lspid = 0
  /\ shown = [p \in Procs |-> 0]

\* None of the three is running: no action is enabled.
IdleRing ==
  /\ prog = "none"
  /\ rpc = [p \in Procs |-> "type"]
  /\ queue = <<>>
  /\ lspid = 0
  /\ shown = [p \in Procs |-> 0]

Goto(p, label) == rpc' = [rpc EXCEPT ![p] = label]

(***************************************************************************)
(* fgets(...); message.msg_type = p; msgsnd(...).                          *)
(***************************************************************************)
Send(p) ==
  /\ rpc[p] = "type"
  /\ queue' = Append(queue, p)
  /\ lspid' = p
  /\ Goto(p, IF prog = "q3" THEN "statSend" ELSE "recv")
  /\ UNCHANGED <<prog, shown>>

(***************************************************************************)
(* msgrcv(msgid, ..., type, 0): the first message of that type, blocking.  *)
(***************************************************************************)
Receive(p) ==
  /\ rpc[p] = "recv"
  /\ \E i \in DOMAIN queue :
       /\ queue[i] = Before(p)
       /\ \A j \in 1..(i - 1) : queue[j] # Before(p)
       /\ queue' = [j \in 1..(Len(queue) - 1) |->
                      IF j < i THEN queue[j] ELSE queue[j + 1]]
  /\ Goto(p, IF prog = "q2" THEN "type" ELSE "statRecv")
  /\ UNCHANGED <<prog, lspid, shown>>

(***************************************************************************)
(* get_queue_ds: IPC_STAT copies the queue's bookkeeping as it is now.     *)
(***************************************************************************)
get_queue_ds(p) ==
  \/ /\ rpc[p] = "statSend"
     /\ Goto(p, "recv")
     /\ UNCHANGED <<prog, queue, lspid, shown>>
  \/ /\ rpc[p] = "statRecv"
     /\ shown' = [shown EXCEPT ![p] = lspid]
     /\ Goto(p, "type")
     /\ UNCHANGED <<prog, queue, lspid>>

(***************************************************************************)
(* The main functions.                                                     *)
(***************************************************************************)
q2_p2p_p1 == prog = "q2" /\ (Send(1) \/ Receive(1))
q2_p2p_p2 == prog = "q2" /\ (Receive(2) \/ Send(2))
q3_all_info_p1 == prog = "q3" /\ (Send(1) \/ Receive(1) \/ get_queue_ds(1))
q3_all_info_p2 == prog = "q3" /\ (Receive(2) \/ get_queue_ds(2) \/ Send(2))
q4_p1 == prog = "q4" /\ (Send(1) \/ Receive(1) \/ get_queue_ds(1))
q4_p2 == prog = "q4" /\ (Receive(2) \/ get_queue_ds(2) \/ Send(2))
q4_p3 == prog = "q4" /\ (Receive(3) \/ get_queue_ds(3) \/ Send(3))
q4_p4 == prog = "q4" /\ (Receive(4) \/ get_queue_ds(4) \/ Send(4))

NextRing ==
  \/ q2_p2p_p1 \/ q2_p2p_p2
  \/ q3_all_info_p1 \/ q3_all_info_p2
  \/ q4_p1 \/ q4_p2 \/ q4_p3 \/ q4_p4

(***************************************************************************)
(* Every process keeps running and its user keeps typing.                  *)
(***************************************************************************)
FairRing ==
  /\ WF_varsRing(q2_p2p_p1) /\ WF_varsRing(q2_p2p_p2)
  /\ WF_varsRing(q3_all_info_p1) /\ WF_varsRing(q3_all_info_p2)
  /\ WF_varsRing(q4_p1) /\ WF_varsRing(q4_p2)
  /\ WF_varsRing(q4_p3) /\ WF_varsRing(q4_p4)

(***************************************************************************)
(* The process that will speak next: the one at its prompt, the one that   *)
(* has the last message but has not printed it, or the one it waits for.   *)
(***************************************************************************)
Turn == CHOOSE p \in Procs :
          \/ rpc[p] \in {"type", "statRecv"}
          \/ \E i \in DOMAIN queue : queue[i] = Before(p)

T == INSTANCE TokenRing WITH n <- NumProcs(prog), turn <- Turn

\* What a process prints as the sender is the process before it, or nothing yet.
ShownIsSender == \A p \in Procs : shown[p] \in {0, Before(p)}

(***************************************************************************)
(* The loops of the programs take turns: "P1 -> P2 -> P3 -> P4 -> P1"      *)
(* (README, assignment 8), forever, although the only thing that orders    *)
(* them is the type of the one message each waits for.  So no send can     *)
(* slip in between msgrcv and IPC_STAT, and the msg_lspid that q3 and q4   *)
(* print after a receive is the sender of the message received.            *)
(***************************************************************************)
TakesTurns == T!TRSpec /\ []ShownIsSender
=============================================================================
