----------------------------- MODULE ChatQueue -----------------------------
(***************************************************************************)
(* Assignment 8, question 5: a chat server over two message queues.  A     *)
(* client announces itself with a message of type pid on the queue the     *)
(* server reads and waits on the SAME queue for a message of type pid + 1. *)
(* The server takes messages of any type from that queue, so it can take   *)
(* its own answer back: it then registers a client pid + 1 that does not   *)
(* exist and answers that one with type pid + 2.                           *)
(***************************************************************************)
EXTENDS Naturals, Sequences, FiniteSets, SequencesExt

CONSTANTS PidChoices,\* the assignments of pids to clients to look at
          NumPids,   \* the length of the server's array pids
          Cap,       \* how many messages a queue holds (msg_qbytes)
          MaxLines   \* bound: lines typed by one client, the request included

Clients == {"c1", "c2", "c3"}   \* c1.c, c2.c, c3.c

\* Processes that run at the same time have different pids.
ASSUME ChatAssumption ==
  \A f \in PidChoices : f \in [Clients -> Nat] /\ \A c, e \in Clients : f[c] = f[e] => c = e

VARIABLES pid,     \* the pids of the clients, fixed by the initial state
          cl,      \* "off", "start", "joining", "in", "deaf" or "lost"
          hand,    \* SIGINT: "none", or what the handler is in: "fgets", "msgsnd"
          typed,   \* how many lines each client has sent
          got,     \* got[c][d]: the last line of d that c has printed
          rq,      \* the queue the server reads
          wq,      \* the queue the server writes
          pids,    \* the registered pids, in order
          sv,      \* what the server is doing, with which message
          sigset,  \* delete_server has been installed for SIGINT
          gone     \* delete_server has removed the queues

varsChat == <<pid, cl, hand, typed, got, rq, wq, pids, sv, sigset, gone>>

ReadyRest ==
  /\ pid \in PidChoices
  /\ hand = [c \in Clients |-> "none"]
  /\ typed = [c \in Clients |-> 0]
  /\ got = [c \in Clients |-> [d \in Clients |-> 0]]
  /\ rq = <<>> /\ wq = <<>> /\ pids = <<>>
  /\ sv = [at |-> "recv", m |-> <<>>, i |-> 1]
  /\ sigset = FALSE /\ gone = FALSE

InitChat == ReadyRest /\ cl = [c \in Clients |-> "start"]

\* Neither the server nor a client is started: no action is enabled.
IdleChat == /\ ReadyRest
            /\ pid = CHOOSE f \in PidChoices : TRUE
            /\ cl = [c \in Clients |-> "off"]

Line(c) == [type |-> pid[c], text |-> typed[c] + 1]
Ack(p) == [type |-> p + 1, text |-> 0]     \* text "101"

M_LastOf(q, t) == CHOOSE i \in DOMAIN q :
                    q[i].type = t /\ \A j \in (i + 1)..Len(q) : q[j].type # t
FirstOf(q, t) == CHOOSE i \in DOMAIN q :
                   q[i].type = t /\ \A j \in 1..(i - 1) : q[j].type # t
HasType(q, t) == \E i \in DOMAIN q : q[i].type = t
ClientOf(t) == CHOOSE c \in Clients : pid[c] = t

(***************************************************************************)
(* The server.                                                             *)
(***************************************************************************)

msgrcv_any ==
  /\ sv.at = "recv" /\ ~gone /\ rq # <<>>
  /\ rq' = Tail(rq)
  /\ LET m == Head(rq)
         known == \E i \in DOMAIN pids : pids[i] = m.type
     IN  /\ sv' = [at |-> CASE known -> "relay"
                            [] ~known /\ Len(pids) = NumPids -> "overflow"
                            [] OTHER -> "ack",
                   m |-> m, i |-> 1]
         /\ pids' = IF sv'.at = "ack" THEN Append(pids, m.type) ELSE pids
  /\ UNCHANGED <<pid, cl, hand, typed, got, wq, sigset, gone>>

M_NoAnswer ==
  /\ sv.at = "ack"
  /\ sv' = [sv EXCEPT !.at = "relay"]
  /\ UNCHANGED <<pid, cl, hand, typed, got, rq, wq, pids, sigset, gone>>

is_there ==
  /\ sv.at = "ack"
  /\ gone \/ Len(rq) < Cap
  /\ rq' = IF gone THEN rq ELSE Append(rq, Ack(sv.m.type))
  /\ sv' = [sv EXCEPT !.at = "relay"]
  /\ UNCHANGED <<pid, cl, hand, typed, got, wq, pids, sigset, gone>>

relay ==
  /\ sv.at = "relay"
  /\ IF sv.i > Len(pids)
     THEN sv' = [sv EXCEPT !.at = "recv"] /\ sigset' = TRUE /\ UNCHANGED wq
     ELSE /\ sv' = [sv EXCEPT !.i = @ + 1]
          /\ IF pids[sv.i] = sv.m.type \/ gone
             THEN UNCHANGED wq
             ELSE /\ Len(wq) < Cap
                  /\ wq' = Append(wq, [type |-> pids[sv.i], from |-> sv.m.type,
                                       text |-> sv.m.text])
          /\ UNCHANGED sigset
  /\ UNCHANGED <<pid, cl, hand, typed, got, rq, pids, gone>>

delete_server ==
  /\ sigset /\ ~gone
  /\ gone' = TRUE /\ rq' = <<>> /\ wq' = <<>>
  /\ UNCHANGED <<pid, cl, hand, typed, got, pids, sv, sigset>>

(***************************************************************************)
(* A client.  first_time sends the request and waits for the answer; a     *)
(* client that takes a message other than the answer, or whose wait is cut *)
(* short by the removal of the queue, derives another key from it and from *)
(* then on reads a queue nobody writes ("deaf").  A client started after   *)
(* the removal creates a queue of its own and waits on it ("lost").        *)
(***************************************************************************)
first_time_send(c) ==
  /\ cl[c] = "start"
  /\ gone \/ Len(rq) < Cap
  /\ rq' = IF gone THEN rq ELSE Append(rq, Line(c))
  /\ typed' = [typed EXCEPT ![c] = @ + 1]
  /\ \E s \in IF gone THEN {"deaf", "lost"} ELSE {"joining"} :
       cl' = [cl EXCEPT ![c] = s]
  /\ UNCHANGED <<pid, hand, got, wq, pids, sv, sigset, gone>>

first_time_recv(c) ==
  /\ cl[c] = "joining"
  /\ \/ /\ gone
        /\ cl' = [cl EXCEPT ![c] = "deaf"]
        /\ UNCHANGED rq
     \/ /\ HasType(rq, pid[c] + 1)
        /\ LET k == FirstOf(rq, pid[c] + 1)
           IN  /\ rq' = RemoveAt(rq, k)
               /\ cl' = [cl EXCEPT ![c] = IF rq[k].text = 0 THEN "in" ELSE "deaf"]
  /\ UNCHANGED <<pid, hand, typed, got, wq, pids, sv, sigset, gone>>

(***************************************************************************)
(* SIGINT lets the user type a line.  The handler runs in the one thread   *)
(* of the client: it reads no message until it has sent the line.  The     *)
(* signal is blocked while the handler runs.                               *)
(***************************************************************************)
sigint(c) ==
  /\ cl[c] \in {"in", "deaf"} /\ hand[c] = "none" /\ typed[c] < MaxLines
  /\ hand' = [hand EXCEPT ![c] = "fgets"]
  /\ UNCHANGED <<pid, cl, typed, got, rq, wq, pids, sv, sigset, gone>>

\* The user types the line.
sigint_fgets(c) ==
  /\ hand[c] = "fgets"
  /\ hand' = [hand EXCEPT ![c] = "msgsnd"]
  /\ UNCHANGED <<pid, cl, typed, got, rq, wq, pids, sv, sigset, gone>>

sigint_msgsnd(c) ==
  /\ hand[c] = "msgsnd"
  /\ gone \/ Len(rq) < Cap
  /\ rq' = IF gone THEN rq ELSE Append(rq, Line(c))
  /\ typed' = [typed EXCEPT ![c] = @ + 1]
  /\ hand' = [hand EXCEPT ![c] = "none"]
  /\ UNCHANGED <<pid, cl, got, wq, pids, sv, sigset, gone>>

read_loop(c) ==
  /\ cl[c] = "in" /\ hand[c] = "none" /\ HasType(wq, pid[c])
  /\ LET k == FirstOf(wq, pid[c])
     IN  /\ wq' = RemoveAt(wq, k)
         /\ got' = IF wq[k].text = 0 THEN got
                   ELSE [got EXCEPT ![c][ClientOf(wq[k].from)] = wq[k].text]
  /\ UNCHANGED <<pid, cl, hand, typed, rq, pids, sv, sigset, gone>>

Server == msgrcv_any \/ is_there \/ relay
M_NeverReads(c) == first_time_send(c) \/ first_time_recv(c) \/ sigint_msgsnd(c)
ClientMain(c) == first_time_send(c) \/ first_time_recv(c) \/ read_loop(c) \/ sigint_msgsnd(c)

\* What the user does.
Keyboard(c) == sigint(c) \/ sigint_fgets(c)

\* The three programs, which differ in the name they print.
c1 == ClientMain("c1") \/ Keyboard("c1")
c2 == ClientMain("c2") \/ Keyboard("c2")
c3 == ClientMain("c3") \/ Keyboard("c3")

NextChat == Server \/ delete_server \/ c1 \/ c2 \/ c3

FairChat == WF_varsChat(Server) /\ \A c \in Clients : WF_varsChat(ClientMain(c))
-----------------------------------------------------------------------------
\* Two clients with consecutive pids share the type of an answer.
Adjacent(c) == \E d \in Clients : pid[c] \in {pid[d] + 1, pid[d] - 1}

Registered == {pids[i] : i \in DOMAIN pids}

(***************************************************************************)
(* A client is left waiting in first_time with neither its request nor its *)
(* answer on the way only if the server took the answer itself and         *)
(* registered pid + 1, or a client with the pid before took the request.   *)
(***************************************************************************)
LeftWaitingOnlyByTheft ==
  \A c \in Clients :
    ( /\ cl[c] = "joining" /\ ~gone
      /\ ~HasType(rq, pid[c]) /\ ~HasType(rq, pid[c] + 1)
      /\ ~(sv.at \in {"ack", "overflow"} /\ sv.m.type \in {pid[c], pid[c] + 1}) )
    => pid[c] + 1 \in Registered \/ Adjacent(c)

(***************************************************************************)
(* Once a client has seen a line of another one it sees the following      *)
(* lines of it in order, each once (unless their pids are consecutive).    *)
(***************************************************************************)
LinesInOrder ==
  [][\A c, e \in Clients :
       got'[c][e] # got[c][e] =>
         \/ got[c][e] = 0
         \/ got'[c][e] = got[c][e] + 1
         \/ Adjacent(e)]_varsChat

(***************************************************************************)
(* The relay loop finishes, unless the array is overrun, the queue with    *)
(* the requests is full when the server has to put an answer into it, or   *)
(* the other one is full of messages that nobody reads: to registered      *)
(* answers, to clients that are still waiting or have derived a wrong key, *)
(* and to clients whose handler waits for its user or for the server.      *)
(***************************************************************************)
InLoop(c) == cl[c] = "in" /\ hand[c] = "none"
Unread(m) == \A c \in Clients : pid[c] = m.type => ~InLoop(c)
RelayEnds ==
  sv.at \in {"ack", "relay"} ~>
    \/ sv.at \in {"recv", "overflow"}
    \/ sv.at = "ack" /\ Len(rq) = Cap
    \/ Len(wq) = Cap /\ \A i \in DOMAIN wq : Unread(wq[i])
=============================================================================
