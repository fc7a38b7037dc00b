------------------------------- MODULE Inetd -------------------------------
(***************************************************************************)
(* Assignment 18: the super server (supserver.c).  It opens a socket for   *)
(* every line of config.txt, selects on all of them, forks and execs the   *)
(* program of a TCP service per connection and answers the UDP service     *)
(* itself.  SIGUSR1 makes it read the lines that have been added to the    *)
(* file; the handler runs between any two steps of the main loop, also     *)
(* between select and the loop over the sockets that select marked.        *)
(*                                                                         *)
(* Services are the lines of the file, 1..Lines.  Reading on after the end *)
(* of the file has been seen is taken to work, as the code expects.        *)
(***************************************************************************)
EXTENDS Naturals, Sequences

CONSTANTS Lines,    \* the lines config.txt has in the end
          First,    \* the lines it has when the server starts
          Udp,      \* the services that are UDP
          Users     \* the clients

ASSUME LinesAssumption == Lines \in Nat /\ First \in 0..Lines

VARIABLES avail,   \* lines in config.txt
          used,    \* services set up, a prefix of the lines
          readset, \* the descriptor set given to select and filled by it
          mpc,     \* main: "off", "start", "select" or "scan"
          top,     \* main: the last service below the m + 1 given to select
          i,       \* main: the index of the loop
          seen,    \* used when select last returned
          sigp,    \* SIGUSR1 is pending
          q,       \* the clients waiting at each service, in order
          st       \* each client

varsInetd == <<avail, used, readset, mpc, top, i, seen, sigp, q, st>>

Services == 1..Lines

BlankInetd ==
  /\ avail = First /\ used = 0 /\ readset = {} /\ top = 0
  /\ i = 1 /\ seen = 0 /\ sigp = FALSE
  /\ q = [s \in Services |-> <<>>]

InitInetd == BlankInetd /\ mpc = "start" /\ st = [c \in Users |-> "ready"]
IdleInetd == BlankInetd /\ mpc = "off" /\ st = [c \in Users |-> "off"]

(***************************************************************************)
(* sig_handler: a socket, bind and listen per line that is left to read.   *)
(***************************************************************************)

sig_handler ==
  /\ used' = avail
  /\ readset' = readset \cup ((used + 1)..avail)

\* main up to the loop.
main_start ==
  /\ mpc = "start" /\ mpc' = "select"
  /\ sig_handler /\ top' = used'
  /\ UNCHANGED <<avail, i, seen, sigp, q, st>>

\* The signal is delivered; an accept it interrupts is called again, and a
\* select returns so that main goes round with the new m.  But m + 1 has been
\* evaluated before select is entered: a signal between the two comes too late.
Sigusr1 ==
  /\ sigp /\ mpc # "start"
  /\ sigp' = FALSE
  /\ sig_handler
  /\ top' = top \/ (mpc = "select" /\ top' = used')
  /\ UNCHANGED <<avail, mpc, i, seen, q, st>>

Ready == {s \in readset : s <= top /\ q[s] # <<>>}

M_Unnarrowed ==
  /\ mpc = "select"
  /\ Ready # {}
  /\ mpc' = "scan" /\ i' = 1 /\ seen' = used
  /\ UNCHANGED <<avail, used, readset, top, sigp, q, st>>

select_call ==
  /\ mpc = "select"
  /\ Ready # {} /\ readset' = Ready
  /\ mpc' = "scan" /\ i' = 1 /\ seen' = used
  /\ UNCHANGED <<avail, used, top, sigp, q, st>>

(***************************************************************************)
(* One turn of the loop over the services.  accept and recvfrom block when *)
(* nobody waits; fork may fail, and then the accepted connection is left   *)
(* open and forgotten.                                                     *)
(***************************************************************************)
Marked == mpc = "scan" /\ i <= used /\ i \in readset

\* fork before accept: the parent leaves the connection to the child.
M_ChildAccepts ==
  /\ Marked /\ i \notin Udp /\ q[i] # <<>>
  /\ i' = i + 1
  /\ UNCHANGED <<avail, used, readset, mpc, top, seen, sigp, q, st>>

accept_fork ==
  /\ Marked /\ i \notin Udp /\ q[i] # <<>>
  /\ \E outcome \in {"child", "forgotten"} :
       st' = [st EXCEPT ![Head(q[i])] = outcome]
  /\ q' = [q EXCEPT ![i] = Tail(@)]
  /\ i' = i + 1
  /\ UNCHANGED <<avail, used, readset, mpc, top, seen, sigp>>

encrypt_udp ==
  /\ Marked /\ i \in Udp /\ q[i] # <<>>
  /\ st' = [st EXCEPT ![Head(q[i])] = "answered"]
  /\ q' = [q EXCEPT ![i] = Tail(@)]
  /\ i' = i + 1
  /\ UNCHANGED <<avail, used, readset, mpc, top, seen, sigp>>

put_back ==
  /\ mpc = "scan" /\ ~Marked
  /\ IF i <= used
     THEN readset' = readset \cup {i} /\ i' = i + 1 /\ UNCHANGED <<mpc, top>>
     ELSE mpc' = "select" /\ top' = used /\ UNCHANGED <<i, readset>>
  /\ UNCHANGED <<avail, used, seen, sigp, q, st>>

(***************************************************************************)
(* The program of a TCP service answers on its standard output and ends.   *)
(***************************************************************************)
capitalize(c) ==
  /\ st[c] = "child"
  /\ st' = [st EXCEPT ![c] = "answered"]
  /\ UNCHANGED <<avail, used, readset, mpc, top, i, seen, sigp, q>>

(***************************************************************************)
(* A client: tcp_connect exits when the port is not open; a datagram to a  *)
(* port that is not open is lost and the client waits for ever.            *)
(***************************************************************************)
client(c) ==
  /\ st[c] = "ready" /\ mpc # "start"
  /\ \E s \in Services :
       IF s <= used
       THEN /\ st' = [st EXCEPT ![c] = "waiting"]
            /\ q' = [q EXCEPT ![s] = Append(@, c)]
       ELSE /\ st' = [st EXCEPT ![c] = IF s \in Udp THEN "lost" ELSE "exited"]
            /\ UNCHANGED q
  /\ UNCHANGED <<avail, used, readset, mpc, top, i, seen, sigp>>

\* The operator adds a line to config.txt, or sends SIGUSR1.
AddLine ==
  /\ avail < Lines /\ mpc \notin {"off", "start"}
  /\ avail' = avail + 1
  /\ UNCHANGED <<used, readset, mpc, top, i, seen, sigp, q, st>>

Kill ==
  /\ ~sigp /\ mpc \notin {"off", "start"} /\ used < avail
  /\ sigp' = TRUE
  /\ UNCHANGED <<avail, used, readset, mpc, top, i, seen, q, st>>

Main == main_start \/ select_call \/ accept_fork \/ encrypt_udp \/ put_back

NextInetd == \/ Main \/ Sigusr1 \/ AddLine \/ Kill
             \/ \E c \in Users : client(c) \/ capitalize(c)

FairInetd == WF_varsInetd(Main) /\ WF_varsInetd(Sigusr1)
-----------------------------------------------------------------------------
Blocked == Marked /\ q[i] = <<>>

(***************************************************************************)
(* The main loop blocks in accept or recvfrom, away from select, only on a *)
(* service that the handler added while the loop was running: FD_SET in    *)
(* the handler marks it in the set that select has already filled.         *)
(***************************************************************************)
BlockedOnlyOnNew == Blocked => i > seen

\* select waits without the service that a client has asked.
Overlooked == mpc = "select" /\ Ready = {} /\ \E s \in (top + 1)..used : q[s] # <<>>

(***************************************************************************)
(* Every client that is waiting is taken up in the end, unless the loop is *)
(* blocked on a new service, or select waits without one that was added    *)
(* just before it was called: again and again nobody is waiting.           *)
(***************************************************************************)
WaitingIsServed == []<>(Blocked \/ Overlooked \/ \A c \in Users : st[c] # "waiting")
=============================================================================
