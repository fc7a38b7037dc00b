---------------------------- MODULE ConnServers ----------------------------
(***************************************************************************)
(* Assignments 13 and 21: the connection oriented servers.  Five programs  *)
(* serve TCP clients in five ways; `kind' says which of them is running:   *)
(*   "iterative"  accept once, read, answer, return from main;             *)
(*   "fork"       accept in a loop, a forked child reads the connection;   *)
(*   "execv"      poll two ports, a child execs ./s1 or ./s2;              *)
(*   "threads"    poll two ports, a thread gets the address of the local   *)
(*                variable that holds the accepted descriptor;             *)
(*   "mn"         select on a range of ports, a thread gets the address of *)
(*                a fresh element of the array nsfd.                       *)
(* A connection is named by its client.  A child whose execvp fails runs   *)
(* on in the server's loop with one of the listening sockets closed, so    *)
(* there may be several acceptors: process 0 is the server that was        *)
(* started, process c the child that was forked for client c.              *)
(***************************************************************************)
EXTENDS Naturals, Sequences, FiniteSets, FiniteSetsExt

CONSTANTS Peers,      \* the clients, positive numbers
          MaxMsgs     \* bound: messages typed by all clients together

ASSUME PeersAssumption == Peers \subseteq Nat \ {0} /\ IsFiniteSet(Peers)

VARIABLES kind,    \* the server program, fixed by the initial state
          built,   \* execv: ./s1 and ./s2 exist; fixed by the initial state
          share,   \* threads: the two blocks' nsfd share a stack slot; fixed
          up,      \* the processes that run the accept loop
          lst,     \* the ports each of them still has open
          todo,    \* ports that poll reported and that are not yet accepted
          bl,      \* the backlog of each port
          cs,      \* each client
          port,    \* the port of each connection
          sent,    \* how many lines each client has sent
          inbox,   \* lines sent and not read, per connection
          h,       \* the child or thread made for each connection
          slot,    \* threads, mn: the contents of the nsfd variables
          fd,      \* threads, mn: the connection a thread works on, 0 before
          acc      \* the connections in the order of their accepts

varsConn == <<kind, built, share, up, lst, todo, bl, cs, port, sent, inbox, h, slot, fd, acc>>

Ports == {1, 2}
Acceptors == {0} \cup Peers
PortsOf(k) == IF k \in {"execv", "threads", "mn"} THEN Ports ELSE {1}

Blank ==
  /\ up = {}
  /\ lst = [s \in Acceptors |-> {}]
  /\ todo = [s \in Acceptors |-> {}]
  /\ bl = [p \in Ports |-> <<>>]
  /\ port = [c \in Peers |-> 1]
  /\ sent = [c \in Peers |-> 0]
  /\ inbox = [c \in Peers |-> <<>>]
  /\ h = [c \in Peers |-> "none"]
  /\ slot = [i \in 1..(Cardinality(Peers) + 2) |-> 0]
  /\ fd = [c \in Peers |-> 0]
  /\ acc = <<>>

InitConn ==
  /\ kind \in {"iterative", "fork", "execv", "threads", "mn"}
  /\ built \in BOOLEAN /\ (built \/ kind = "execv")
  /\ share \in BOOLEAN /\ (share => kind = "threads")
  /\ cs = [c \in Peers |-> "ready"]
  /\ Blank

\* No server of this assignment and none of its clients runs.
IdleConn == /\ kind = "none" /\ built = TRUE /\ share = FALSE
            /\ cs = [c \in Peers |-> "off"]
            /\ Blank

(***************************************************************************)
(* socket, setsockopt, bind, listen.                                       *)
(***************************************************************************)
Start(k) ==
  /\ kind = k /\ acc = <<>> /\ 0 \notin up
  /\ up' = {0}
  /\ lst' = [lst EXCEPT ![0] = PortsOf(k)]
  /\ UNCHANGED <<kind, built, share, todo, bl, cs, port, sent, inbox, h, slot, fd, acc>>

start_iterative == Start("iterative")
start_fork == Start("fork")
start_execv == Start("execv")
start_threads == Start("threads")
start_mn == Start("mn")

(***************************************************************************)
(* Taking the oldest connection c from port p's backlog.                   *)
(***************************************************************************)
Taken(p) == Head(bl[p])
Take(p) == /\ bl[p] # <<>>
           /\ bl' = [bl EXCEPT ![p] = Tail(@)]
           /\ acc' = Append(acc, Taken(p))

(***************************************************************************)
(* The iterative server: one accept, one read, one answer, the end; what   *)
(* waits in the backlog is reset when the process ends.                    *)
(***************************************************************************)
iterative_accept ==
  /\ kind = "iterative" /\ up = {0} /\ acc = <<>>
  /\ Take(1)
  /\ h' = [h EXCEPT ![Taken(1)] = "main"]
  /\ UNCHANGED <<kind, built, share, up, lst, todo, cs, port, sent, inbox, slot, fd>>

iterative_answer ==
  /\ kind = "iterative" /\ up = {0}
  /\ \E c \in Peers :
       /\ h[c] = "main" /\ (inbox[c] # <<>>)
       /\ inbox' = [inbox EXCEPT ![c] = <<>>]
       /\ h' = [h EXCEPT ![c] = "ended"]
       /\ cs' = [d \in Peers |-> IF d = c THEN "answered"
                                 ELSE IF \E i \in DOMAIN bl[1] : bl[1][i] = d
                                      THEN "reset" ELSE cs[d]]
  /\ up' = {}
  /\ lst' = [lst EXCEPT ![0] = {}]
  /\ bl' = [bl EXCEPT ![1] = <<>>]
  /\ UNCHANGED <<kind, built, share, todo, port, sent, slot, fd, acc>>

(***************************************************************************)
(* The forking server and its child, which reads until the end of time:    *)
(* read at end of file returns 0 and the loop goes round.                  *)
(***************************************************************************)
M_ForkOnce ==
  /\ kind = "fork" /\ up = {0} /\ acc = <<>>
  /\ Take(1)
  /\ h' = [h EXCEPT ![Taken(1)] = "child"]
  /\ UNCHANGED <<kind, built, share, up, lst, todo, cs, port, sent, inbox, slot, fd>>

fork_accept ==
  /\ kind = "fork" /\ up = {0}
  /\ Take(1)
  /\ h' = [h EXCEPT ![Taken(1)] = "child"]
  /\ UNCHANGED <<kind, built, share, up, lst, todo, cs, port, sent, inbox, slot, fd>>

fork_child(c) ==
  /\ kind = "fork" /\ h[c] = "child" /\ inbox[c] # <<>>
  /\ inbox' = [inbox EXCEPT ![c] = Tail(@)]
  /\ UNCHANGED <<kind, built, share, up, lst, todo, bl, cs, port, sent, h, slot,
                 fd, acc>>

(***************************************************************************)
(* The polling servers: poll reports the ports with a waiting connection,  *)
(* then the blocks for port 1 and for port 2 run, each with its accept.    *)
(***************************************************************************)

Poll(s) ==
  /\ kind \in {"execv", "threads", "mn"}
  /\ s \in up /\ todo[s] = {}
  /\ LET ready == {p \in lst[s] : bl[p] # <<>>}
     IN  ready # {} /\ todo' = [todo EXCEPT ![s] = ready]
  /\ UNCHANGED <<kind, built, share, up, lst, bl, cs, port, sent, inbox, h, slot, fd, acc>>

execv_accept(s) ==
  /\ kind = "execv" /\ s \in up /\ todo[s] # {}
  /\ LET p == Min(todo[s])
         c == Taken(p)
     IN  /\ Take(p)
         /\ IF built
            THEN /\ h' = [h EXCEPT ![c] = "exec"]
                 /\ todo' = [todo EXCEPT ![s] = @ \ {p}]
                 /\ UNCHANGED <<up, lst, cs>>
            ELSE /\ h' = [h EXCEPT ![c] = "failed"]
                 /\ todo' = [todo EXCEPT ![s] = @ \ {p}, ![c] = todo[s] \ {p}]
                 /\ up' = up \cup {c}
                 /\ lst' = [lst EXCEPT ![c] = lst[s] \ {p}]
                 /\ cs' = [cs EXCEPT ![c] = "reset"]
  /\ UNCHANGED <<kind, built, share, port, sent, inbox, slot, fd>>

(***************************************************************************)
(* ./s1 and ./s2 exit when the line begins with '@'; at end of file the    *)
(* buffer stays empty and the loop goes round.                             *)
(***************************************************************************)
Service(c) ==
  /\ kind = "execv" /\ h[c] = "exec" /\ inbox[c] # <<>>
  /\ inbox' = [inbox EXCEPT ![c] = Tail(@)]
  /\ h' = [h EXCEPT ![c] = IF Head(inbox[c]) = "@" THEN "ended" ELSE "exec"]
  /\ UNCHANGED <<kind, built, share, up, lst, todo, bl, cs, port, sent, slot, fd,
                 acc>>

s1(c) == port[c] = 1 /\ Service(c)
s2(c) == port[c] = 2 /\ Service(c)

(***************************************************************************)
(* The threaded server.  ns = &nsfd: the thread reads the variable when it *)
(* runs, by then the loop may have gone round and stored the next one.     *)
(***************************************************************************)
SlotOf(p) == IF share THEN 1 ELSE p

M_StoredOnce ==
  /\ kind = "threads" /\ up = {0} /\ todo[0] # {}
  /\ LET p == Min(todo[0])
         c == Taken(p)
     IN  /\ Take(p)
         /\ slot' = [slot EXCEPT ![SlotOf(p)] = IF @ = 0 THEN c ELSE @]
         /\ h' = [h EXCEPT ![c] = "new"]
         /\ todo' = [todo EXCEPT ![0] = @ \ {p}]
  /\ UNCHANGED <<kind, built, share, up, lst, cs, port, sent, inbox, fd>>

threads_accept ==
  /\ kind = "threads" /\ up = {0} /\ todo[0] # {}
  /\ LET p == Min(todo[0])
         c == Taken(p)
     IN  /\ Take(p)
         /\ slot' = [slot EXCEPT ![SlotOf(p)] = c]
         /\ h' = [h EXCEPT ![c] = "new"]
         /\ todo' = [todo EXCEPT ![0] = @ \ {p}]
  /\ UNCHANGED <<kind, built, share, up, lst, cs, port, sent, inbox, fd>>

\* int nsfd = *((int *) i);
Deref(c, i) ==
  /\ h[c] = "new"
  /\ fd' = [fd EXCEPT ![c] = slot[i]]
  /\ h' = [h EXCEPT ![c] = "thread"]
  /\ UNCHANGED <<kind, built, share, up, lst, todo, bl, cs, port, sent, inbox, slot,
                 acc>>

thread_start(c) == kind = "threads" /\ Deref(c, SlotOf(port[c]))

\* recv, a line from the operator, send, the end of the thread.
thread_func(c) ==
  /\ kind = "threads" /\ h[c] = "thread"
  /\ inbox[fd[c]] # <<>> \/ cs[fd[c]] = "gone"
  /\ inbox' = [inbox EXCEPT ![fd[c]] = <<>>]
  /\ h' = [h EXCEPT ![c] = "ended"]
  /\ UNCHANGED <<kind, built, share, up, lst, todo, bl, cs, port, sent, slot, fd,
                 acc>>

(***************************************************************************)
(* The m-n server: nsfd[ind++] is a variable of its own per connection;    *)
(* the thread converts what it receives and ends at end of file.           *)
(***************************************************************************)

mn_accept ==
  /\ kind = "mn" /\ up = {0} /\ todo[0] # {}
  /\ LET p == Min(todo[0])
     IN  /\ Take(p)
         /\ h' = [h EXCEPT ![Taken(p)] = "new"]
         /\ slot' = [slot EXCEPT ![Len(acc) + 1] = Taken(p)]
         /\ todo' = [todo EXCEPT ![0] = @ \ {p}]
  /\ UNCHANGED <<kind, built, share, up, lst, cs, port, sent, inbox, fd>>

func1_start(c) == kind = "mn" /\ Deref(c, CHOOSE i \in DOMAIN acc : acc[i] = c)

func1(c) ==
  /\ kind = "mn" /\ h[c] = "thread"
  /\ IF inbox[fd[c]] # <<>>
     THEN inbox' = [inbox EXCEPT ![fd[c]] = Tail(@)] /\ UNCHANGED h
     ELSE cs[fd[c]] = "gone" /\ h' = [h EXCEPT ![c] = "ended"] /\ UNCHANGED inbox
  /\ UNCHANGED <<kind, built, share, up, lst, todo, bl, cs, port, sent, slot, fd,
                 acc>>

(***************************************************************************)
(* The clients.  connect is refused while nobody listens.                  *)
(***************************************************************************)
Connect(c) ==
  /\ cs[c] = "ready"
  /\ \E p \in PortsOf(kind) :
       IF \E s \in up : p \in lst[s]
       THEN /\ bl' = [bl EXCEPT ![p] = Append(@, c)]
            /\ port' = [port EXCEPT ![c] = p]
            /\ cs' = [cs EXCEPT ![c] = "open"]
       ELSE cs' = [cs EXCEPT ![c] = "failed"] /\ UNCHANGED <<bl, port>>
  /\ UNCHANGED <<kind, built, share, up, lst, todo, sent, inbox, h, slot, fd, acc>>

LinesSent == MapThenSumSet(LAMBDA c : sent[c], Peers)

\* The line is sent, unless it begins with '@': then the client ends.

Type(c) ==
  /\ cs[c] = "open" /\ LinesSent < MaxMsgs
  /\ \E line \in {"text", "@"} :
       IF line = "@"
       THEN cs' = [cs EXCEPT ![c] = "gone"] /\ UNCHANGED <<inbox, sent>>
       ELSE /\ inbox' = [inbox EXCEPT ![c] = Append(@, line)]
            /\ sent' = [sent EXCEPT ![c] = @ + 1]
            /\ UNCHANGED cs
  /\ UNCHANGED <<kind, built, share, up, lst, todo, bl, port, h, slot, fd, acc>>

\* The iterative server's client sends one greeting; the forking server's
\* client ends only when it is killed.
Greet(c) ==
  /\ cs[c] = "open" /\ (IF kind = "iterative" THEN sent[c] = 0 ELSE LinesSent < MaxMsgs)
  /\ inbox' = [inbox EXCEPT ![c] = Append(@, "text")]
  /\ sent' = [sent EXCEPT ![c] = @ + 1]
  /\ UNCHANGED <<kind, built, share, up, lst, todo, bl, cs, port, h, slot, fd, acc>>

\* The m-n client waits for the answer to each line before the next one, and
\* ends only when it is killed.  Its enquiry over the raw socket is not
\* modelled: n = atoi(argv[0]) is 0, so it never reads a reply.
Converse(c) ==
  \/ inbox[c] = <<>> /\ Greet(c)
  \/ /\ cs[c] = "open"
     /\ cs' = [cs EXCEPT ![c] = "gone"]
     /\ UNCHANGED <<kind, built, share, up, lst, todo, bl, port, sent, inbox, h,
                    slot, fd, acc>>

\* Every second client runs c2 instead of c1.
RunsC1(c) == c % 2 = 1

iterative_c(c) == kind = "iterative" /\ (Connect(c) \/ Greet(c))
fork_c1(c) == kind = "fork" /\ RunsC1(c) /\ (Connect(c) \/ Greet(c))
fork_c2(c) == kind = "fork" /\ ~RunsC1(c) /\ (Connect(c) \/ Greet(c))
execv_c1(c) == kind = "execv" /\ RunsC1(c) /\ (Connect(c) \/ Type(c))
execv_c2(c) == kind = "execv" /\ ~RunsC1(c) /\ (Connect(c) \/ Type(c))
threads_c1(c) == kind = "threads" /\ RunsC1(c) /\ (Connect(c) \/ Type(c))
threads_c2(c) == kind = "threads" /\ ~RunsC1(c) /\ (Connect(c) \/ Type(c))
mn_client(c) == kind = "mn" /\ (Connect(c) \/ Converse(c))
-----------------------------------------------------------------------------
Serve(s) == Poll(s) \/ execv_accept(s)

NextConn ==
  \/ start_iterative \/ iterative_accept \/ iterative_answer
  \/ start_fork \/ fork_accept
  \/ start_execv \/ \E s \in Acceptors : Serve(s)
  \/ start_threads \/ threads_accept
  \/ start_mn \/ mn_accept
  \/ \E c \in Peers : \/ fork_child(c) \/ s1(c) \/ s2(c)
                       \/ thread_start(c) \/ thread_func(c)
                       \/ func1_start(c) \/ func1(c) \/ mn_client(c)
                       \/ iterative_c(c) \/ fork_c1(c) \/ fork_c2(c)
                       \/ execv_c1(c) \/ execv_c2(c)
                       \/ threads_c1(c) \/ threads_c2(c)

(***************************************************************************)
(* The server's processes and threads keep running.                        *)
(***************************************************************************)
FairConn ==
  /\ WF_varsConn(iterative_accept) /\ WF_varsConn(fork_accept)
  /\ WF_varsConn(threads_accept) /\ WF_varsConn(mn_accept)
  /\ \A s \in Acceptors : WF_varsConn(Serve(s))
  /\ \A c \in Peers : WF_varsConn(thread_start(c))
-----------------------------------------------------------------------------
Accepted == {acc[i] : i \in DOMAIN acc}
Earlier(c, d) == \E i, j \in DOMAIN acc : i < j /\ acc[i] = c /\ acc[j] = d

(***************************************************************************)
(* threads/s.c: the address of the loop's own nsfd is handed to the thread *)
(* and the join is commented out.  A thread that does not work on the      *)
(* connection it was made for works on one accepted later through the same *)
(* variable, never on an earlier one; so a connection that no thread will  *)
(* look at has been overtaken by another one.  m-n server.c hands out a    *)
(* fresh nsfd[ind]: its threads work on their own connection, however late *)
(* they start.                                                             *)
(***************************************************************************)
ThreadsServeLater ==
  /\ \A c \in Peers : fd[c] \in {0, c} \/ (kind = "threads" /\ Earlier(c, fd[c]))
  /\ kind = "threads" =>
       \A c \in Accepted :
         (\A d \in Accepted : fd[d] # 0 /\ fd[d] # c)
           => \E d \in Accepted : fd[c] = d /\ SlotOf(port[c]) = SlotOf(port[d])

(***************************************************************************)
(* Every connection in a backlog is accepted in the end, except by the     *)
(* iterative server: again and again nobody is waiting.  execv/s.c runs    *)
(* the loop in one more process after every failed execvp; then a client   *)
(* is left waiting only while each process that still has its port open    *)
(* sits in the accept() of a port whose connection another process took.   *)
(***************************************************************************)
Waiting(c) == \E p \in Ports : \E i \in DOMAIN bl[p] : bl[p][i] = c
InAccept(s) == todo[s] # {} /\ bl[Min(todo[s])] = <<>>
BacklogIsAccepted ==
  []<>(kind # "iterative" =>
         \A c \in Peers :
           \/ ~Waiting(c)
           \/ ~built /\ \A s \in up : port[c] \in lst[s] => InAccept(s))
=============================================================================
