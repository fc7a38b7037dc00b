------------------------------ MODULE Handover ------------------------------
(***************************************************************************)
(* Assignment 16: the sender reads the beginning of a file and passes the  *)
(* open descriptor to the receiver, which reads on.  Both descriptors      *)
(* share one file offset; the receiver's message tells the sender when it  *)
(* may read again.                                                         *)
(***************************************************************************)
EXTENDS Naturals, Sequences

CONSTANT FileLen   \* the bytes of file.txt

ASSUME FileAssumption == FileLen \in Nat

VARIABLES sd,      \* where the sender is
          rc,      \* where the receiver is
          chan16,  \* the Unix socket, to the receiver and to the sender
          offset,  \* the file offset
          reads    \* the reads made: who, and the offsets they span

varsHand == <<sd, rc, chan16, offset, reads>>

BlankHand == chan16 = [down |-> 0, up |-> 0] /\ offset = 0 /\ reads = <<>>
InitHand == BlankHand /\ sd = "start" /\ rc = "start"
IdleHand == BlankHand /\ sd = "off" /\ rc = "off"

\* read(fd, buff, n) by process p: what is left of the file, n bytes at most.
ReadFile(p, n) ==
  LET end == IF offset + n <= FileLen THEN offset + n ELSE FileLen
  IN  offset' = end /\ reads' = Append(reads, [by |-> p, from |-> offset, to |-> end])

Ended == {"end", "killed"}

sender_listen ==
  /\ sd = "start" /\ sd' = "accept" /\ UNCHANGED <<rc, chan16, offset, reads>>

\* accept, open and the first read.
sender_read ==
  /\ sd = "accept" /\ rc \notin {"start", "failed"}
  /\ sd' = "send" /\ ReadFile("sender", 14) /\ UNCHANGED <<rc, chan16>>

\* A receiver that has gone makes sendmsg raise SIGPIPE.
sender_send_fd ==
  /\ sd = "send"
  /\ IF rc \in Ended THEN sd' = "killed" /\ UNCHANGED chan16
     ELSE sd' = "recv" /\ chan16' = [chan16 EXCEPT !.down = 1]
  /\ UNCHANGED <<rc, offset, reads>>

M_NoAck ==
  /\ sd = "recv" /\ sd' = "end"
  /\ ReadFile("sender", 7) /\ UNCHANGED <<rc, chan16>>

\* recv waits for the receiver's message or its end; then 7 bytes more.
sender_recv ==
  /\ sd = "recv" /\ (chan16.up = 1 \/ rc \in Ended)
  /\ sd' = "end"
  /\ ReadFile("sender", 7) /\ UNCHANGED <<rc, chan16>>

receiver_conn ==
  /\ rc = "start" /\ rc' = (IF sd = "accept" THEN "recv" ELSE "failed")
  /\ UNCHANGED <<sd, chan16, offset, reads>>

receiver_recv_fd ==
  /\ rc = "recv" /\ chan16.down = 1
  /\ rc' = "read" /\ UNCHANGED <<sd, chan16, offset, reads>>

receiver_read ==
  /\ rc = "read" /\ rc' = "ack"
  /\ ReadFile("receiver", 14) /\ UNCHANGED <<sd, chan16>>

receiver_send ==
  /\ rc = "ack" /\ rc' = "end"
  /\ chan16' = [chan16 EXCEPT !.up = 1]
  /\ UNCHANGED <<sd, offset, reads>>

\* The receiver is ended by its user.
receiver_quit ==
  /\ rc \in {"recv", "read", "ack"} /\ rc' = "killed"
  /\ UNCHANGED <<sd, chan16, offset, reads>>

Sender16 == sender_listen \/ sender_read \/ sender_send_fd \/ sender_recv
Receiver16 == receiver_conn \/ receiver_recv_fd \/ receiver_read \/ receiver_send
NextHand == Sender16 \/ Receiver16 \/ receiver_quit
-----------------------------------------------------------------------------
(***************************************************************************)
(* The message orders the reads on the shared offset: the receiver never   *)
(* reads after the sender's second read (sender.c:96-97), so its 14        *)
(* bytes are the ones after the sender's first 14.                         *)
(***************************************************************************)
AckOrdersReads ==
  \A i \in DOMAIN reads :
    reads[i].by = "receiver" => i = 2 /\ reads[1].by = "sender" /\ reads[2].from = reads[1].to
=============================================================================
