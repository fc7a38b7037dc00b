----------------------------- MODULE UdpServers -----------------------------
(***************************************************************************)
(* Assignment 15: the UDP servers.                                         *)
(*   "basic"   one datagram, one answer, the end;                          *)
(*   "chat"    a line typed by the operator answers each datagram;         *)
(*   "one"     select on a TCP and a UDP socket (tcp-udp-select);          *)
(*   "two"     select on two TCP sockets and a UDP socket                  *)
(*             (tcpn-udp1-select).                                         *)
(* A datagram is dropped when no socket is bound to the port or when the   *)
(* socket's buffer is full, and nobody sends it again.  A TCP connection   *)
(* gets a forked child.                                                    *)
(***************************************************************************)
EXTENDS Naturals, Sequences, FiniteSets, SequencesExt

CONSTANTS UdpClients,  \* the clients that send datagrams
          TcpClients,  \* the clients that connect
          Buffer,      \* datagrams the socket holds
          MaxAsks      \* bound: datagrams of one client of the chat

VARIABLES uprog,   \* the server program, fixed by the initial state
          usv,     \* the server: "start", "wait", "answer", "end" or "none"
          ready,   \* the sockets that select has marked: 0 is UDP
          dgrams,  \* the datagrams in the socket's buffer: who sent them
          peer,    \* cliaddr: who sent the datagram being answered
          uc,      \* UDP clients: "type", "wait", "done"
          asks,    \* datagrams each has sent
          answers, \* answers each has received
          lostd,   \* the clients whose last datagram was dropped
          links,    \* the connections waiting to be accepted, per TCP socket
          tc,      \* TCP clients: "off", "new", "open", "sent", "done", "killed"
          kid      \* the connections that have a child

varsUdp == <<uprog, usv, ready, dgrams, peer, uc, asks, answers, lostd, links, tc, kid>>

Selecting == {"one", "two"}
TcpSockets == IF uprog = "two" THEN {1, 2} ELSE {1}

BlankUdp ==
  /\ ready = {} /\ dgrams = <<>> /\ peer \in UdpClients
  /\ peer = CHOOSE c \in UdpClients : TRUE
  /\ uc = [c \in UdpClients |-> "type"]
  /\ asks = [c \in UdpClients |-> 0] /\ answers = [c \in UdpClients |-> 0]
  /\ lostd = {} /\ links = [s \in {1, 2} |-> <<>>] /\ kid = {}

InitUdp ==
  /\ uprog \in {"basic", "chat", "one", "two"}
  /\ usv = "start"
  /\ tc = [c \in TcpClients |-> IF uprog \in Selecting THEN "new" ELSE "off"]
  /\ BlankUdp

IdleUdp == /\ uprog = "none" /\ usv = "none"
           /\ tc = [c \in TcpClients |-> "off"]
           /\ BlankUdp

(***************************************************************************)
(* socket, bind, listen.                                                   *)
(***************************************************************************)
StartUdp(k) ==
  /\ uprog = k /\ usv = "start" /\ usv' = "wait"
  /\ UNCHANGED <<uprog, ready, dgrams, peer, uc, asks, answers, lostd, links, tc, kid>>

start_basic == StartUdp("basic")
start_chat == StartUdp("chat")
start_one == StartUdp("one")
start_two == StartUdp("two")

(***************************************************************************)
(* recvfrom blocks until there is a datagram and stores its sender.        *)
(***************************************************************************)
M_FirstPeer ==
  /\ dgrams # <<>>
  /\ dgrams' = Tail(dgrams)
  /\ peer' = IF peer \in {c \in UdpClients : answers[c] > 0} THEN peer ELSE Head(dgrams)

Recvfrom ==
  /\ dgrams # <<>>
  /\ dgrams' = Tail(dgrams)
  /\ peer' = Head(dgrams)

Sendto(c) ==
  /\ answers' = [answers EXCEPT ![c] = @ + 1]
  /\ uc' = [uc EXCEPT ![c] = IF uprog = "chat" THEN "type" ELSE "done"]

\* The basic server: one exchange, then the process ends.
basic_serve ==
  /\ uprog = "basic" /\ usv = "wait" /\ usv' = "end"
  /\ Recvfrom /\ Sendto(Head(dgrams))
  /\ UNCHANGED <<uprog, ready, asks, lostd, links, tc, kid>>

\* The chat server: while the operator types, further datagrams arrive.
chat_recv ==
  /\ uprog = "chat" /\ usv = "wait" /\ usv' = "answer"
  /\ Recvfrom
  /\ UNCHANGED <<uprog, ready, uc, asks, answers, lostd, links, tc, kid>>

chat_send ==
  /\ uprog = "chat" /\ usv = "answer" /\ usv' = "wait"
  /\ Sendto(peer)
  /\ UNCHANGED <<uprog, ready, dgrams, peer, asks, lostd, links, tc, kid>>

(***************************************************************************)
(* The selecting servers.                                                  *)
(***************************************************************************)
udp_select ==
  /\ uprog \in Selecting /\ usv = "wait"
  /\ ready' = {s \in TcpSockets : links[s] # <<>>}
                \cup (IF dgrams # <<>> THEN {0} ELSE {})
  /\ ready' # {}
  /\ usv' = "answer"
  /\ UNCHANGED <<uprog, dgrams, peer, uc, asks, answers, lostd, links, tc, kid>>

\* accept, fork, close of the parent's copy.

accept_tcp(s) ==
  /\ uprog \in Selecting /\ usv = "answer" /\ s \in ready
  /\ links' = [links EXCEPT ![s] = Tail(@)]
  /\ kid' = kid \cup {Head(links[s])}
  /\ ready' = ready \ {s}
  /\ UNCHANGED <<uprog, usv, dgrams, peer, uc, asks, answers, lostd, tc>>

one_accept == uprog = "one" /\ accept_tcp(1)
two_accept == uprog = "two" /\ accept_tcp(1)
two_accept2 == uprog = "two" /\ 1 \notin ready /\ accept_tcp(2)

\* The UDP block comes last; then the loop goes round.
serve_dgram(k) ==
  /\ uprog = k /\ usv = "answer" /\ ready \subseteq {0}
  /\ usv' = "wait" /\ ready' = {}
  /\ IF 0 \in ready THEN Recvfrom /\ Sendto(Head(dgrams))
                    ELSE UNCHANGED <<dgrams, peer, uc, answers>>
  /\ UNCHANGED <<uprog, asks, lostd, links, tc, kid>>

one_udp == serve_dgram("one")
two_udp == serve_dgram("two")

\* The child: read, write, exit.
child(c) ==
  /\ c \in kid /\ tc[c] = "sent"
  /\ tc' = [tc EXCEPT ![c] = "done"]
  /\ kid' = kid \ {c}
  /\ UNCHANGED <<uprog, usv, ready, dgrams, peer, uc, asks, answers, lostd, links>>

one_child(c) == uprog = "one" /\ child(c)
two_child(c) == uprog = "two" /\ child(c)

(***************************************************************************)
(* The clients.  sendto succeeds whether or not the datagram arrives.      *)
(***************************************************************************)
Bound == usv \in {"wait", "answer"}

Ask(c) ==
  /\ uc[c] = "type" /\ asks[c] < (IF uprog = "chat" THEN MaxAsks ELSE 1)
  /\ asks' = [asks EXCEPT ![c] = @ + 1]
  /\ uc' = [uc EXCEPT ![c] = "wait"]
  /\ IF Bound /\ Len(dgrams) < Buffer
     THEN dgrams' = Append(dgrams, c) /\ UNCHANGED lostd
     ELSE lostd' = lostd \cup {c} /\ UNCHANGED dgrams
  /\ UNCHANGED <<uprog, usv, ready, peer, answers, links, tc, kid>>

basic_client(c) == uprog = "basic" /\ Ask(c)
chat_client(c) == uprog = "chat" /\ Ask(c)
one_udp_client(c) == uprog = "one" /\ Ask(c)
two_udp_client(c) == uprog = "two" /\ Ask(c)

\* A client whose connect fails goes on to write and is killed by SIGPIPE.
Tcp(c, s) ==
  /\ \/ /\ tc[c] = "new" /\ Bound
        /\ links' = [links EXCEPT ![s] = Append(@, c)]
        /\ tc' = [tc EXCEPT ![c] = "open"]
     \/ /\ tc[c] = "new" /\ ~Bound
        /\ tc' = [tc EXCEPT ![c] = "killed"] /\ UNCHANGED links
     \/ /\ tc[c] = "open"
        /\ tc' = [tc EXCEPT ![c] = "sent"] /\ UNCHANGED links
  /\ UNCHANGED <<uprog, usv, ready, dgrams, peer, uc, asks, answers, lostd, kid>>

one_tcp_client(c) == uprog = "one" /\ Tcp(c, 1)
two_tcp_client1(c) == uprog = "two" /\ Tcp(c, 1)
two_tcp_client2(c) == uprog = "two" /\ Tcp(c, 2)
-----------------------------------------------------------------------------
UdpServer == \/ basic_serve \/ chat_recv \/ chat_send \/ udp_select
             \/ one_accept \/ two_accept \/ two_accept2 \/ one_udp \/ two_udp
StartAny == start_basic \/ start_chat \/ start_one \/ start_two

NextUdp ==
  \/ StartAny \/ UdpServer
  \/ \E c \in TcpClients : \/ one_child(c) \/ two_child(c) \/ one_tcp_client(c)
                           \/ two_tcp_client1(c) \/ two_tcp_client2(c)
  \/ \E c \in UdpClients : \/ basic_client(c) \/ chat_client(c)
                           \/ one_udp_client(c) \/ two_udp_client(c)

-----------------------------------------------------------------------------
(***************************************************************************)
(* An answer goes to the client whose datagram it answers: nobody gets     *)
(* more answers than it has asked, though the chat server keeps one        *)
(* cliaddr for all and others ask while the operator types; and a client   *)
(* that waits has a datagram in the buffer or in the server's hands, or it *)
(* was dropped, or the server has ended.                                   *)
(***************************************************************************)
AnswersMatch ==
  \A c \in UdpClients :
    /\ asks[c] - answers[c] = (IF uc[c] = "wait" THEN 1 ELSE 0)
    /\ uc[c] = "wait" /\ c \notin lostd /\ usv # "end" =>
         Contains(dgrams, c) \/ (uprog = "chat" /\ usv = "answer" /\ peer = c)
=============================================================================
