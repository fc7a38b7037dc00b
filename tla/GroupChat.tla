------------------------------ MODULE GroupChat -----------------------------
(***************************************************************************)
(* The group chat of assignment 10: server s.cpp, clients a1.cpp to        *)
(* a3.cpp of group A and b1.cpp to b3.cpp of group B.                      *)
(*                                                                         *)
(* Three System V message queues, one for each group and a global one,     *)
(* carry both the clients' messages to the server (type 1) and the copies  *)
(* that the server makes for each client (types 3 to 8).  A queue holds    *)
(* Capacity messages; msgsnd() blocks while it is full.  One thread of the *)
(* server serves each queue; a client has a thread that writes and two     *)
(* that read.                                                              *)
(***************************************************************************)
EXTENDS Naturals, Sequences, FiniteSets, SequencesExt

CONSTANTS Online,    \* the clients that are running
          Capacity,  \* messages a queue holds (msg_qbytes; 146 on Linux)
          MaxLines   \* bound on the lines typed

Members  == {"A", "B"} \X (1..3)
Channels == {"A", "B", "global"}   \* msgqid_group1, msgqid_group2, msgqid_global
ToServer == 1

ASSUME GroupChatAssumption ==
  Online \subseteq Members /\ Capacity \in Nat \ {0} /\ MaxLines \in Nat

VARIABLES
  mq,      \* the messages in each queue: type and number
  server,  \* each thread of the server: its message, the types yet to send
  typed,   \* the queue of the line that a client has typed and not yet sent
  log,     \* who sent the messages of each queue, in order
  last     \* the last message that each reading thread has printed

varsGroup == <<mq, server, typed, log, last>>

Idle == [n |-> 0, todo |-> <<>>]
Nowhere == "none"

\* The types under which a client reads its group's queue and the global one.
LocalType(c) == c[2] + 2

M_SameType(c) == LocalType(c)

GlobalType(c) == IF c[1] = "A" THEN c[2] + 2 ELSE c[2] + 5

TypeFor(q, c) == IF q = "global" THEN GlobalType(c) ELSE LocalType(c)

\* read_g1 and read_g2: the types of the copies, in the order they are sent.
LocalCopies(x) ==
  CASE x = 1 -> <<4, 5>> [] x = 2 -> <<3, 5>> [] OTHER -> <<3, 4>>

\* read_global.
GlobalCopies(y, x) ==
  CASE x = 1 /\ y = "A" -> <<4, 5, 6, 7, 8>>
    [] x = 1 /\ y = "B" -> <<4, 5, 3, 7, 8>>
    [] x = 2 /\ y = "A" -> <<3, 5, 6, 7, 8>>
    [] x = 2 /\ y = "B" -> <<4, 5, 6, 3, 8>>
    [] x = 3 /\ y = "A" -> <<4, 5, 3, 7, 8>>
    [] x = 3 /\ y = "B" -> <<4, 5, 6, 7, 3>>

\* The server knows the sender by the second and third characters.
Copies(q, c) == IF q = "global" THEN GlobalCopies(c[1], c[2]) ELSE LocalCopies(c[2])

\* msgrcv takes the first message of the type.
First(q, t) == SelectInSeq(mq[q], LAMBDA e : e.type = t)

\* msgsnd does not block.
Free(q) == Len(mq[q]) < Capacity

InitGroup ==
  /\ mq = [q \in Channels |-> <<>>] /\ server = [q \in Channels |-> Idle]
  /\ typed = [c \in Members |-> Nowhere]
  /\ log = [q \in Channels |-> <<>>]
  /\ last = [q \in Channels |-> [c \in Members |-> 0]]
-----------------------------------------------------------------------------
(* The clients *)

Lines == Len(log["A"]) + Len(log["B"]) + Len(log["global"])
           + Cardinality({c \in Online : typed[c] # Nowhere})

\* write1: a line and its destination are typed; anything but 0 and 1 drops
\* the line.
Type(c, q) ==
  /\ c \in Online /\ typed[c] = Nowhere /\ Lines < MaxLines
  /\ q \in {c[1], "global"}
  /\ typed' = [typed EXCEPT ![c] = q]
  /\ UNCHANGED <<mq, server, log, last>>

\* msgsnd blocks while the queue is full.
Send(c) ==
  LET q == typed[c] IN
  /\ q # Nowhere /\ Free(q)
  /\ log' = [log EXCEPT ![q] = Append(@, c)]
  /\ mq' = [mq EXCEPT ![q] = Append(@, [type |-> ToServer, n |-> Len(log[q]) + 1])]
  /\ typed' = [typed EXCEPT ![c] = Nowhere]
  /\ UNCHANGED <<server, last>>

\* read1 and read_global1: receive and print.
Read(c, q) ==
  LET k == First(q, TypeFor(q, c)) IN
  /\ c \in Online /\ q \in {c[1], "global"} /\ k # 0
  /\ last' = [last EXCEPT ![q][c] = mq[q][k].n]
  /\ mq' = [mq EXCEPT ![q] = RemoveAt(@, k)]
  /\ UNCHANGED <<server, typed, log>>
-----------------------------------------------------------------------------
(* The server's threads read_g1, read_g2, read_global *)

Receive(q) ==
  LET k == First(q, ToServer) IN
  /\ server[q] = Idle /\ k # 0
  /\ server' = [server EXCEPT ![q] =
                  [n |-> mq[q][k].n, todo |-> Copies(q, log[q][mq[q][k].n])]]
  /\ mq' = [mq EXCEPT ![q] = RemoveAt(@, k)]
  /\ UNCHANGED <<typed, log, last>>

M_AfterCopy(s) == IF Len(s.todo) > 2 THEN [s EXCEPT !.todo = Tail(@)] ELSE Idle

\* The thread after one msgsnd.
AfterCopy(s) == IF Len(s.todo) > 1 THEN [s EXCEPT !.todo = Tail(@)] ELSE Idle

Forward(q) ==
  /\ server[q] # Idle /\ Free(q)
  /\ mq' = [mq EXCEPT ![q] =
                 Append(@, [type |-> Head(server[q].todo), n |-> server[q].n])]
  /\ server' = [server EXCEPT ![q] = AfterCopy(@)]
  /\ UNCHANGED <<typed, log, last>>
-----------------------------------------------------------------------------
\* The threads write1, read1 and read_global1 of a client; the six programs
\* differ in the name they send, the local queue and the types they read.
Client(c) == Send(c) \/ \E q \in Channels : Type(c, q) \/ Read(c, q)

a1 == Client(<<"A", 1>>)
a2 == Client(<<"A", 2>>)
a3 == Client(<<"A", 3>>)
b1 == Client(<<"B", 1>>)
b2 == Client(<<"B", 2>>)
b3 == Client(<<"B", 3>>)

NextGroup ==
  \/ \E q \in Channels : Receive(q) \/ Forward(q)
  \/ a1 \/ a2 \/ a3 \/ b1 \/ b2 \/ b3

SpecGroup == InitGroup /\ [][NextGroup]_varsGroup

\* Every thread that can go on does.  Nobody has to type.
FairGroup ==
  /\ \A q \in Channels : WF_varsGroup(Receive(q)) /\ WF_varsGroup(Forward(q))
  /\ \A c \in Members : WF_varsGroup(Send(c))
  /\ \A c \in Members, q \in Channels : WF_varsGroup(Read(c, q))

FairSpecGroup == SpecGroup /\ FairGroup
-----------------------------------------------------------------------------
(* Properties *)

\* Who the server addresses a message of c on queue q to.
Addressed(q, c) ==
  {d \in Members : (q = d[1] \/ q = "global") /\ TypeFor(q, d) \in Range(Copies(q, c))}

\* Every client sees what is addressed to it once, without a gap and in the
\* order in which it was sent, however the threads of server and clients
\* interleave on the shared queues (s.cpp:16-181).
B == INSTANCE Broadcast WITH Clients <- Members
Ordered == B!Spec

\* README, assignment 10: a global message "gets broadcasted to all the
\* clients".  So with nothing under way, everyone but its sender has seen the
\* last one.
GlobalReachesAll ==
  LET g == log["global"] IN
    mq["global"] = <<>> /\ server["global"] = Idle /\ g # <<>> =>
      \A c \in Online \ {g[Len(g)]} : last["global"][c] = Len(g)

\* Everyone running has seen all that was addressed to it on queue q.
CaughtUp(q) ==
  \A c \in Online, n \in DOMAIN log[q] :
    c \in Addressed(q, log[q][n]) => last[q][c] >= n

\* As long as the queues do not fill up, everyone catches up again and again:
\* no message stays on its way (s.cpp:16-181).
Delivered == []<>(\A q \in Channels : CaughtUp(q))

\* README, assignment 10: a local message "gets broadcasted only to its
\* group", so the group gets it.
LocalDelivered == []<>(CaughtUp("A") /\ CaughtUp("B"))
=============================================================================
