------------------------------ MODULE Nitnetd -------------------------------
(***************************************************************************)
(* The Nitnetd super server of the end semester exam (nitnetd.c), its      *)
(* overflow server N2 (n2.c), the service processes it forks and execs     *)
(* (capitalize.c, math.cpp) and the clients (client.c).                    *)
(*                                                                         *)
(* Nitnetd listens on the port of every configured service.  It accepts a  *)
(* connection, passes it to N2 when the service's counter is used up, then *)
(* forks a service process and waits for it.  SIGUSR1 makes it read        *)
(* further lines of the configuration file, at any time.                   *)
(*                                                                         *)
(* Services are numbered from 1 in configuration order.  A connection (or  *)
(* a datagram exchange) stands for one turn of a client's loop.            *)
(***************************************************************************)
EXTENDS Integers, Sequences, FiniteSets, FiniteSetsExt, Functions

CONSTANTS NServices,  \* lines the configuration file will ever hold
          InitUsed,   \* lines it holds when Nitnetd starts
          Udp,        \* the services of type udp
          Crashing,   \* the services whose process may be ended by a signal
          Limit,      \* Limit[1], Limit[2]: the limits of the counters s1 and s2
          Conns,      \* the connections
          NoConn      \* not a connection

Services == 1..NServices

ASSUME NitnetdAssumption ==
  /\ NServices \in Nat /\ InitUsed \in 0..NServices
  /\ Udp \subseteq Services /\ Crashing \subseteq Services
  /\ Limit \in [1..2 -> Nat]
  /\ IsFiniteSet(Conns) /\ NoConn \notin Conns

VARIABLES
  pc,       \* where Nitnetd is in its loop
  i,        \* the index of its for loop
  cur,      \* the connection being accepted or waited for
  count,    \* the counters of s1 and s2
  used,     \* the number of services configured so far
  top,      \* the last service below the m + 1 given to select
  readset,  \* the descriptor set of select
  queue,    \* connections (datagrams) that wait on the service's socket
  child,    \* the process forked for the connection
  toN2,     \* connections sent to N2
  rfd,      \* connections N2 holds, in the order of rfd[]
  n2,       \* where N2 is in its loop
  n2rdy,    \* what its last select reported: indices of rfd, 0 for ufd
  conn,     \* the client's end of the connection
  svc       \* the service it is for, 0 before it connects

srvVars == <<pc, i, cur, count, used, top, readset>>
n2Vars  == <<toN2, rfd, n2, n2rdy>>
cliVars == <<conn, svc>>
vars    == <<srvVars, queue, child, n2Vars, cliVars>>

-----------------------------------------------------------------------------
(* The counters: struct sem_buf *)

\* s1 is the first service's counter, s2 that of all the others.
SemOf(k) == IF k = 1 THEN 1 ELSE 2

semaphore_wait(k) == count' = [count EXCEPT ![SemOf(k)] = @ - 1]

M_ReleaseNothing(n, max) == n

\* What semaphore_release makes of a counter.
Released(n, max) == IF n < max THEN n + 1 ELSE n

semaphore_release(k) ==
  count' = [count EXCEPT ![SemOf(k)] = Released(@, Limit[SemOf(k)])]

\* The limit is tested for the first two services only.
Full(k) == k \in {1, 2} /\ count[k] <= 0

Init ==
  /\ pc = "select" /\ i = 1 /\ cur = NoConn
  /\ count = Limit
  /\ used = InitUsed /\ top = InitUsed /\ readset = 1..InitUsed
  /\ queue = [k \in Services |-> <<>>]
  /\ child = [c \in Conns |-> "none"]
  /\ toN2 = <<>> /\ rfd = <<>> /\ n2 = "select" /\ n2rdy = {}
  /\ conn = [c \in Conns |-> "new"] /\ svc = [c \in Conns |-> 0]
-----------------------------------------------------------------------------
(* Nitnetd *)

Ready == {k \in readset : k <= top /\ queue[k] # <<>>}

\* select() leaves the readable descriptors below m + 1 in readset.
Select ==
  /\ pc = "select" /\ Ready # {}
  /\ pc' = "scan" /\ i' = 1 /\ readset' = Ready
  /\ UNCHANGED <<cur, count, used, top, queue, child, n2Vars, cliVars>>

M_NotPutBack(k) == readset
M_PutBackPast(k) == readset \cup {used + 1}

\* FD_SET for a descriptor that was not ready.
PutBack(k) == readset \cup {k}

M_SkipNoElse ==
  /\ pc = "scan" /\ i <= used /\ i \notin readset
  /\ readset' = PutBack(i)
  /\ UNCHANGED <<pc, i, cur, count, used, top, queue, child, n2Vars, cliVars>>

\* A descriptor that is not in readset is put back.
Skip ==
  /\ pc = "scan" /\ i <= used /\ i \notin readset
  /\ readset' = PutBack(i) /\ i' = i + 1
  /\ UNCHANGED <<pc, cur, count, used, top, queue, child, n2Vars, cliVars>>

ScanDone ==
  /\ pc = "scan" /\ i > used /\ pc' = "select" /\ top' = used
  /\ UNCHANGED <<i, cur, count, used, readset, queue, child, n2Vars, cliVars>>

\* A TCP service: accept, pass the client to N2 if the counter is used up,
\* and count the client in any case.  Without N2 the send raises SIGPIPE.
Accept ==
  /\ pc = "scan" /\ i <= used /\ i \in readset \ Udp
  /\ queue[i] # <<>>
  /\ queue' = [queue EXCEPT ![i] = Tail(@)]
  /\ cur' = Head(queue[i])
  /\ \/ /\ Full(i) /\ n2 # "dead"
        /\ toN2' = Append(toN2, cur')
        /\ semaphore_wait(i) /\ pc' = "fork"
     \/ /\ Full(i) /\ n2 = "dead"
        /\ pc' = "dead" /\ UNCHANGED <<toN2, count>>
     \/ /\ ~Full(i)
        /\ semaphore_wait(i) /\ pc' = "fork" /\ UNCHANGED toN2
  /\ UNCHANGED <<i, used, top, readset, child, rfd, n2, n2rdy, cliVars>>

HeldByN2(c) == c \in Range(rfd) \cup Range(toN2)

\* fork() and, in the child, execv(): if that fails the child exits at once,
\* which the client sees unless N2 holds its connection too.
Fork ==
  /\ pc = "fork"
  /\ \/ /\ child' = [child EXCEPT ![cur] = "running"]
        /\ pc' = "waitpid" /\ UNCHANGED <<i, conn>>
     \/ /\ child' = [child EXCEPT ![cur] = "exited"]
        /\ conn' = [conn EXCEPT ![cur] =
                      IF ~HeldByN2(cur) /\ @ \in {"open", "asked"} THEN "done" ELSE @]
        /\ pc' = "waitpid" /\ UNCHANGED i
     \/ /\ child' = [child EXCEPT ![cur] = "forkfailed"]
        /\ pc' = "scan" /\ i' = i + 1 /\ UNCHANGED conn
  /\ UNCHANGED <<cur, count, used, top, readset, queue, n2Vars, svc>>

\* waitpid() for the child just forked; a slot is released only if it
\* exited by itself (WIFEXITED).
Waitpid ==
  /\ pc = "waitpid"
  /\ \/ child[cur] = "exited" /\ semaphore_release(i)
     \/ child[cur] = "signaled" /\ UNCHANGED count
  /\ pc' = "scan" /\ i' = i + 1
  /\ child' = [child EXCEPT ![cur] = IF @ = "exited" THEN "reaped" ELSE "leaked"]
  /\ UNCHANGED <<cur, used, top, readset, queue, n2Vars, cliVars>>

\* A UDP service: receive, encrypt, send back.
ServeUdp ==
  /\ pc = "scan" /\ i <= used /\ i \in readset \cap Udp
  /\ queue[i] # <<>>
  /\ queue' = [queue EXCEPT ![i] = Tail(@)]
  /\ conn' = [conn EXCEPT ![Head(queue[i])] = IF @ = "asked" THEN "done" ELSE @]
  /\ i' = i + 1
  /\ UNCHANGED <<pc, cur, count, used, top, readset, child, n2Vars, svc>>

\* SIGUSR1, also while main() runs: sig_handler configures the next line, or
\* ends Nitnetd when its port cannot be bound.  It interrupts select(), which
\* is then called with the new m, unless m + 1 has been evaluated and select()
\* not been entered.
Reload ==
  /\ pc # "dead" /\ used < NServices
  /\ \/ /\ used' = used + 1 /\ readset' = readset \cup {used + 1}
        /\ top' = top \/ (pc = "select" /\ top' = used + 1)
        /\ UNCHANGED pc
     \/ pc' = "dead" /\ UNCHANGED <<used, top, readset>>
  /\ UNCHANGED <<i, cur, count, queue, child, n2Vars, cliVars>>
-----------------------------------------------------------------------------
(* The service processes: capitalize and math *)

\* The process reads one request from its connection and answers it.
ChildServe(c) ==
  /\ child[c] = "running" /\ conn[c] = "asked"
  /\ conn' = [conn EXCEPT ![c] = "done"]
  /\ child' = [child EXCEPT ![c] = "exited"]
  /\ UNCHANGED <<srvVars, queue, n2Vars, svc>>

\* End of file instead of a request.
ChildEof(c) ==
  /\ child[c] = "running" /\ conn[c] \in {"closed", "reset"}
  /\ child' = [child EXCEPT ![c] = "exited"]
  /\ UNCHANGED <<srvVars, queue, n2Vars, cliVars>>

\* math on a malformed expression pops an empty stack or divides by zero.
\* The client reads end of file, unless N2 holds the connection open.
ChildCrash(c) ==
  /\ child[c] = "running" /\ svc[c] \in Crashing
  /\ \/ /\ conn[c] = "asked"
        /\ conn' = [conn EXCEPT ![c] = IF HeldByN2(c) THEN "lost" ELSE "done"]
     \/ conn[c] \in {"closed", "reset"} /\ UNCHANGED conn
  /\ child' = [child EXCEPT ![c] = "signaled"]
  /\ UNCHANGED <<srvVars, queue, n2Vars, svc>>
-----------------------------------------------------------------------------
(* N2 *)

\* A read returns: a request, end of file or an error.
Readable(c) == conn[c] \in {"asked", "closed", "reset"}

M_AllReady == 1..Len(rfd)

\* The connections select finds readable.
ReadyConns == {k \in 1..Len(rfd) : Readable(rfd[k])}

\* All of rfd[] is put into rset again before every select.
N2Select ==
  LET rdy == ReadyConns \cup (IF toN2 # <<>> THEN {0} ELSE {})
  IN /\ n2 = "select" /\ rdy # {}
     /\ n2' = "recv" /\ n2rdy' = rdy
     /\ UNCHANGED <<srvVars, queue, child, toN2, rfd, cliVars>>

\* recv_fd.  End of file, once Nitnetd is gone, yields a garbage descriptor
\* and is left out.
N2Recv ==
  /\ n2 = "recv"
  /\ \/ 0 \in n2rdy /\ rfd' = Append(rfd, Head(toN2)) /\ toN2' = Tail(toN2)
     \/ 0 \notin n2rdy /\ UNCHANGED <<rfd, toN2>>
  /\ n2' = "read" /\ n2rdy' = n2rdy \ {0}
  /\ UNCHANGED <<srvVars, queue, child, cliVars>>

\* Read from the next ready client, which blocks if the service process was
\* faster, and write the greeting, whatever read says: the first write to a
\* closed connection resets it, the second one raises SIGPIPE.
N2Serve ==
  /\ n2 = "read" /\ n2rdy # {}
  /\ LET c == rfd[Min(n2rdy)] IN
       \/ /\ conn[c] = "asked"
          /\ conn' = [conn EXCEPT ![c] = "done"] /\ UNCHANGED n2
       \/ /\ conn[c] = "closed"
          /\ conn' = [conn EXCEPT ![c] = "reset"] /\ UNCHANGED n2
       \/ /\ conn[c] = "reset"
          /\ n2' = "dead" /\ UNCHANGED conn
  /\ n2rdy' = n2rdy \ {Min(n2rdy)}
  /\ UNCHANGED <<srvVars, queue, child, toN2, rfd, svc>>

N2PassDone ==
  /\ n2 = "read" /\ n2rdy = {} /\ n2' = "select"
  /\ UNCHANGED <<srvVars, queue, child, toN2, rfd, n2rdy, cliVars>>
-----------------------------------------------------------------------------
(* The clients *)

\* tcp_connect and write come apart: the line is typed in between.  A
\* datagram carries the line; one that no socket receives is lost, which the
\* client sees as little as it sees a refused connection's service.
Connect(c, k) ==
  /\ conn[c] = "new"
  /\ \/ /\ k <= used /\ pc # "dead"
        /\ queue' = [queue EXCEPT ![k] = Append(@, c)]
        /\ svc' = [svc EXCEPT ![c] = k]
        /\ conn' = [conn EXCEPT ![c] = IF k \in Udp THEN "asked" ELSE "open"]
     \/ /\ k > used \/ pc = "dead"
        /\ conn' = [conn EXCEPT ![c] = "refused"]
        /\ UNCHANGED <<queue, svc>>
  /\ UNCHANGED <<srvVars, child, n2Vars>>

Ask(c) ==
  /\ conn[c] = "open" /\ conn' = [conn EXCEPT ![c] = "asked"]
  /\ UNCHANGED <<srvVars, queue, child, n2Vars, svc>>

\* The client never closes a connection; the kernel does when it is ended.
Close(c) ==
  /\ conn[c] \in {"open", "asked", "done", "lost"}
  /\ conn' = [conn EXCEPT ![c] = "closed"]
  /\ UNCHANGED <<srvVars, queue, child, n2Vars, svc>>
-----------------------------------------------------------------------------
ServerLoop == Select \/ Skip \/ ScanDone \/ Accept \/ Fork \/ Waitpid \/ ServeUdp
ChildStep(c) == ChildServe(c) \/ ChildEof(c) \/ ChildCrash(c)
N2Step == N2Select \/ N2Recv \/ N2Serve \/ N2PassDone
ClientStep(c) == Ask(c) \/ Close(c) \/ \E k \in Services : Connect(c, k)

Next ==
  \/ ServerLoop \/ Reload \/ N2Step
  \/ \E c \in Conns : ChildStep(c) \/ ClientStep(c)

Spec == Init /\ [][Next]_vars

\* The processes on the server's side run whenever they can.  Nobody makes a
\* client connect, type a line or end.
Fairness ==
  /\ WF_vars(ServerLoop) /\ WF_vars(N2Step)
  /\ \A c \in Conns : WF_vars(ChildStep(c))

FairSpec == Spec /\ Fairness
-----------------------------------------------------------------------------
(* Properties *)

\* Every variable has its type.
TypeOK ==
  /\ pc \in {"select", "scan", "fork", "waitpid", "dead"}
  /\ i \in Nat \ {0} /\ cur \in Conns \cup {NoConn}
  /\ count \in [1..2 -> Int]
  /\ used \in 0..NServices /\ top \in 0..used /\ readset \subseteq 1..used
  /\ queue \in [Services -> Seq(Conns)]
  /\ child \in [Conns -> {"none", "running", "exited", "signaled",
                          "forkfailed", "reaped", "leaked"}]
  /\ toN2 \in Seq(Conns) /\ rfd \in Seq(Conns)
  /\ n2 \in {"select", "recv", "read", "dead"} /\ n2rdy \subseteq Nat
  /\ conn \in [Conns -> {"new", "open", "asked", "done", "lost", "closed",
                         "reset", "refused"}]
  /\ svc \in [Conns -> 0..NServices]

\* The connections that hold a slot of counter k: a process was forked for
\* them, or should have been, and has not been reaped after an exit.
Holding(k) ==
  {c \in Conns : /\ child[c] \in {"running", "exited", "signaled",
                                  "forkfailed", "leaked"}
                 /\ SemOf(svc[c]) = k}

\* A counter is its limit less the connections that hold a slot and the one
\* between semaphore_wait and fork (nitnetd.c:285-311).
CountIsFreeSlots ==
  pc # "dead" => \A k \in 1..2 :
    count[k] = Limit[k] - Cardinality(Holding(k))
                 - (IF pc = "fork" /\ SemOf(i) = k THEN 1 ELSE 0)

Running == {c \in Conns : child[c] \in {"running", "exited", "signaled"}}

\* What waitpid right after fork (nitnetd.c:302) comes to: one service process
\* lives at a time, whichever service it is for.
OneProcessAtATime == Cardinality(Running) <= 1

\* A service of the initial configuration never makes Nitnetd wait in
\* accept(): its descriptor is in readset during the loop only if select put
\* it there (nitnetd.c:264-270), and nobody else accepts on it.
InitialNeverBlocksAccept ==
  pc = "scan" /\ i \in readset /\ i <= InitUsed => queue[i] # <<>>

N2Blocked == n2 = "read" /\ n2rdy # {} /\ ~Readable(rfd[Min(n2rdy)])

\* N2 waits in read() for a request that is not there only when the service
\* process that shares the connection took it between N2's select and read
\* (n2.c:121-136), and then that process has ended.
N2BlockedOnlyByProcess ==
  N2Blocked => /\ conn[rfd[Min(n2rdy)]] \in {"done", "lost"}
               /\ child[rfd[Min(n2rdy)]] \in {"exited", "signaled", "reaped", "leaked"}

\* README, end semester exam: at the limit Nitnetd "will be rejecting
\* connection requests", so a client that N2 got has no process of its own.
RejectedHasNoProcess ==
  \A c \in Conns : HeldByN2(c) => child[c] \in {"none", "forkfailed"}

WaitsForClient ==
  pc = "waitpid" /\ child[cur] = "running" /\ conn[cur] \in {"open", "done", "lost"}

WaitsForNewService == pc = "scan" /\ i \in readset /\ i > InitUsed /\ queue[i] = <<>>

Queued(c) == \E k \in Services : c \in Range(queue[k])

WaitsWithoutNew == pc = "select" /\ Ready = {} /\ \E k \in (top + 1)..used : queue[k] # <<>>

\* A queued client is accepted, unless Nitnetd has ended or waits forever:
\* for a process whose client is silent or is served by N2, or in accept()
\* for a service that SIGUSR1 added during the loop, or in select() without
\* one that SIGUSR1 added just before.
QueuedIsAccepted ==
  \A c \in Conns :
    Queued(c) ~> ~Queued(c) \/ [](\/ pc = "dead" \/ WaitsForClient
                              \/ WaitsForNewService \/ WaitsWithoutNew)

\* README, end semester exam: Nitnetd "can accept a maximum of 2 clients for
\* S1 service", 3 for S2, and rejects "until the running S1, S2 server
\* processes exit".  So a client that stays waits at most for the processes of
\* its own service to fall below the limit (nitnetd.c:279-304).
AcceptsUpToLimit ==
  \A c \in Conns :
    Queued(c) /\ svc[c] \in {1, 2}
      ~> \/ ~Queued(c) \/ conn[c] = "closed" \/ pc = "dead"
         \/ Cardinality({e \in Conns : child[e] = "running" /\ svc[e] = svc[c]})
              >= Limit[svc[c]]
=============================================================================
