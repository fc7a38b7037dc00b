------------------------------- MODULE FdPass -------------------------------
(***************************************************************************)
(* Assignment 17, fd_pass: the main server accepts one TCP client on each  *)
(* of two ports and passes the two connections and its UDP socket to the   *)
(* alternate server, which serves all three with select.                   *)
(*                                                                         *)
(* The alternate server closes a TCP connection after its one answer but   *)
(* keeps putting the descriptor into the set.  From then on select fails   *)
(* with EBADF and leaves the set as it is, everything marked: the reads    *)
(* that follow are made whether or not there is something to read.         *)
(***************************************************************************)
EXTENDS Naturals, Sequences

CONSTANT Datagrams   \* bound: datagrams sent to the UDP port

VARIABLES ms,     \* where the main server is
          alt,    \* where the alternate server is
          passed, \* descriptors passed and not yet received: 1, 2 or 3
          opn,    \* the descriptors the alternate server has open
          rset,   \* its select set after select has returned
          tc,     \* the TCP client of port 1 and of port 2
          udp,    \* datagrams waiting in the UDP socket
          asked,  \* how many datagrams have been sent
          late    \* datagrams answered with one of the TCP connections closed

varsFd == <<ms, alt, passed, opn, rset, tc, udp, asked, late>>

BlankFd == /\ alt = "start" /\ passed = <<>> /\ opn = {} /\ rset = {}
           /\ udp = 0 /\ asked = 0 /\ late = 0

InitFd == BlankFd /\ ms = "start" /\ tc = [i \in {1, 2} |-> "ready"]
IdleFd == BlankFd /\ ms = "off" /\ tc = [i \in {1, 2} |-> "off"]

(***************************************************************************)
(* The main server: sockets, the alternate server, client 1, client 2, and *)
(* the UDP socket, in this order.                                          *)
(***************************************************************************)
serv_listen ==
  /\ ms = "start" /\ ms' = "accept0"
  /\ UNCHANGED <<alt, passed, opn, rset, tc, udp, asked, late>>

accept_alt ==
  /\ ms = "accept0" /\ alt = "recv" /\ ms' = "accept1"
  /\ UNCHANGED <<alt, passed, opn, rset, tc, udp, asked, late>>

send_fd(i) == passed' = Append(passed, i)

accept_client(i) ==
  /\ ms = (IF i = 1 THEN "accept1" ELSE "accept2")
  /\ tc[i] \in {"connected", "wrote"}
  /\ ms' = (IF i = 1 THEN "accept2" ELSE "udp")
  /\ send_fd(i)
  /\ UNCHANGED <<alt, opn, rset, tc, udp, asked, late>>

send_udp ==
  /\ ms = "udp" /\ ms' = "end"
  /\ send_fd(3)
  /\ UNCHANGED <<alt, opn, rset, tc, udp, asked, late>>

(***************************************************************************)
(* The alternate server: cli_conn exits when nobody listens; three         *)
(* receives; then the loop.                                                *)
(***************************************************************************)
cli_conn ==
  /\ alt = "start" /\ ms # "off"
  /\ alt' = (IF ms = "start" THEN "exited" ELSE "recv")
  /\ UNCHANGED <<ms, passed, opn, rset, tc, udp, asked, late>>

recv_fd ==
  /\ alt = "recv" /\ passed # <<>>
  /\ passed' = Tail(passed)
  /\ opn' = opn \cup {Head(passed)}
  /\ alt' = (IF opn' = {1, 2, 3} THEN "select" ELSE "recv")
  /\ UNCHANGED <<ms, rset, tc, udp, asked, late>>

Readable(i) == IF i = 3 THEN udp > 0 ELSE tc[i] = "wrote"

M_Multiplexes ==
  /\ alt = "select"
  /\ \E i \in opn : Readable(i)
  /\ rset' = {i \in opn : Readable(i)}
  /\ alt' = "check1"
  /\ UNCHANGED <<ms, passed, opn, tc, udp, asked, late>>

select ==
  /\ alt = "select"
  /\ IF opn = {1, 2, 3}
     THEN /\ \E i \in opn : Readable(i)
          /\ rset' = {i \in opn : Readable(i)}
     ELSE rset' = {1, 2, 3}                  \* EBADF
  /\ alt' = "check1"
  /\ UNCHANGED <<ms, passed, opn, tc, udp, asked, late>>

Check(i) == <<"check1", "check2", "check3">>[i]
NextCheck(i) == IF i = 1 THEN "check2" ELSE "check3"

\* read, write and close of descriptor i; all three fail when it is closed.
serve_tcp(i) ==
  /\ alt = Check(i)
  /\ alt' = NextCheck(i)
  /\ IF i \in rset /\ i \in opn
     THEN /\ Readable(i)
          /\ tc' = [tc EXCEPT ![i] = "answered"]
          /\ opn' = opn \ {i}
     ELSE UNCHANGED <<tc, opn>>
  /\ UNCHANGED <<ms, passed, rset, udp, asked, late>>

serve_udp ==
  /\ alt = "check3" /\ alt' = "select"
  /\ IF 3 \in rset
     THEN /\ udp > 0 /\ udp' = udp - 1
          /\ late' = IF opn \in {{1, 3}, {2, 3}} THEN late + 1 ELSE late
     ELSE UNCHANGED <<udp, late>>
  /\ UNCHANGED <<ms, passed, opn, rset, tc, asked>>

(***************************************************************************)
(* The clients.  A TCP client whose connect fails writes all the same and  *)
(* is killed by SIGPIPE.                                                   *)
(***************************************************************************)
Listening == ms \notin {"off", "start", "end"}

tcp_client(i) ==
  \/ /\ tc[i] = "ready"
     /\ tc' = [tc EXCEPT ![i] = IF Listening THEN "connected" ELSE "killed"]
     /\ UNCHANGED <<ms, alt, passed, opn, rset, udp, asked, late>>
  \/ /\ tc[i] = "connected"
     /\ tc' = [tc EXCEPT ![i] = "wrote"]
     /\ UNCHANGED <<ms, alt, passed, opn, rset, udp, asked, late>>

tcp_client1 == tcp_client(1)
tcp_client2 == tcp_client(2)

udp_client ==
  /\ asked < Datagrams /\ ms \notin {"off", "start"}
  /\ asked' = asked + 1 /\ udp' = udp + 1
  /\ UNCHANGED <<ms, alt, passed, opn, rset, tc, late>>

MainServer == serv_listen \/ accept_alt \/ accept_client(1) \/ accept_client(2)
              \/ send_udp
AltServer == \/ cli_conn \/ recv_fd \/ select
             \/ serve_tcp(1) \/ serve_tcp(2) \/ serve_udp

NextFd == MainServer \/ AltServer \/ tcp_client1 \/ tcp_client2 \/ udp_client

-----------------------------------------------------------------------------
(***************************************************************************)
(* alt_server.c blocks in read or recvfrom on a descriptor with nothing to *)
(* read, away from select, only after it has closed a TCP connection.  And *)
(* from then on a silent TCP client stops the UDP service: at most one     *)
(* more datagram is answered before that client, however many are waiting. *)
(***************************************************************************)
BlockedOnlyAfterClose ==
  /\ \A i \in {1, 2, 3} :
       (alt = Check(i) /\ i \in rset \cap opn /\ ~Readable(i)) => opn # {1, 2, 3}
  /\ late <= 1
=============================================================================
