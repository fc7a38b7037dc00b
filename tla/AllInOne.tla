------------------------------ MODULE AllInOne ------------------------------
(***************************************************************************)
(* The "All in one server" of the mid semester exam: AOS (aos.c), the      *)
(* service servers S1..S4 (s1.c to s4.c) and the clients (client.c).       *)
(*                                                                         *)
(* AOS accepts the four services on Unix sockets, in order, then one       *)
(* client on each of four ports, in order, and passes each client to the   *)
(* service of its port.  S4 is to be told by SIGUSR1 that its client comes. *)
(***************************************************************************)
EXTENDS Integers, Sequences, FiniteSets

CONSTANTS Clients,
          NoClient,  \* not a client
          Selections,\* the ports that the clients may select, one by one
          MaxAsk     \* bound on the requests of a client, for each port

ASSUME AllInOneAssumption == 
  /\ NoClient \notin Clients /\ MaxAsk \in [1..4 -> Nat]
  /\ Selections \subseteq [Clients -> 1..4]

Ports   == 1..4   \* PORT1..PORT4, and the services S1..S4 behind them
Reads   == 3      \* the requests a process of S2 reads
Forever == -1     \* the reads of a process that never stops

VARIABLES
  aos,      \* where AOS is
  k,        \* the service or port it is at
  nsfd,     \* the client it has accepted and not yet passed
  sig,      \* SIGUSR1 pending for S4
  serv,     \* the state of each service
  chan,     \* clients in the Unix socket from AOS to each service
  srfd,     \* the client each service has received
  left,     \* the reads left to each process of the service, in any order
  backlog,  \* established connections on each port that AOS has not accepted
  cli,      \* the client's end of its connection
  port,     \* the port it selects, fixed by the initial state
  answers   \* the answers it got

aosVars == <<aos, k, nsfd>>
svcVars == <<serv, srfd, left>>
varsAos == <<aosVars, sig, svcVars, chan, backlog, cli, port, answers>>

\* AOS reaches port n after port n - 1 has had its client, and keeps every
\* listening socket until it ends.
Listening(n) == aos \in {"inet", "signal", "send"} /\ n <= k

InitAos ==
  /\ aos = "off" /\ k = 1 /\ nsfd = NoClient /\ sig = FALSE
  /\ serv = [n \in Ports |-> "off"] /\ chan = [n \in Ports |-> <<>>]
  /\ srfd = [n \in Ports |-> NoClient] /\ left = [n \in Ports |-> <<>>]
  /\ backlog = [n \in Ports |-> <<>>]
  /\ cli = [c \in Clients |-> "new"] /\ port \in Selections
  /\ answers = [c \in Clients |-> 0]

\* What the end of the processes that hold a connection does to its client:
\* read returns 0, and again from then on.
Eof(c) == cli' = [cli EXCEPT ![c] = "eof"]

\* The end of AOS closes the listening sockets, and with them the
\* connections that it never accepted.
ResetBacklog(gone) ==
  cli' = [c \in Clients |->
             IF c \in gone \/ \E n \in Ports : c \in {backlog[n][j] : j \in DOMAIN backlog[n]}
               THEN "eof" ELSE cli[c]]
-----------------------------------------------------------------------------
(* AOS *)

\* serv_listen for the four paths.
AosStart ==
  /\ aos = "off" /\ aos' = "unix"
  /\ UNCHANGED <<k, nsfd, sig, svcVars, chan, backlog, cli, port, answers>>

\* accept S1, S2, S3, S4; then listen on PORT1.
AosAcceptService ==
  /\ aos = "unix" /\ serv[k] = "connected"
  /\ serv' = [serv EXCEPT ![k] = "accepted"]
  /\ \/ k < 4 /\ k' = k + 1 /\ UNCHANGED aos
     \/ k = 4 /\ k' = 1 /\ aos' = "inet"
  /\ UNCHANGED <<nsfd, sig, srfd, left, chan, backlog, cli, port, answers>>

\* S4 is signalled before its client is sent to it.
AfterAccept(n) == IF n = 4 THEN "signal" ELSE "send"

AosAccept ==
  /\ aos = "inet" /\ backlog[k] # <<>>
  /\ nsfd' = Head(backlog[k]) /\ backlog' = [backlog EXCEPT ![k] = Tail(@)]
  /\ aos' = AfterAccept(k)
  /\ UNCHANGED <<k, sig, svcVars, chan, cli, port, answers>>

\* kill(s4_pid, SIGUSR1).  The pid in the shared memory is that of the S4
\* that connected: S4 writes it first.
AosSignal ==
  /\ aos = "signal" /\ sig' = TRUE /\ aos' = "send"
  /\ UNCHANGED <<k, nsfd, svcVars, chan, backlog, cli, port, answers>>

M_SocketOfFirst(n) == 1

\* nufd_s1, nufd_s2, ...: the Unix socket to the service of port n.
SocketOf(n) == n

\* send_fd, then listen on the next port, or end.  If S4 is gone already the
\* send raises SIGPIPE, which ends AOS as well.
AosSend ==
  /\ aos = "send"
  /\ \/ /\ serv[k] # "killed"
        /\ chan' = [chan EXCEPT ![SocketOf(k)] = Append(@, nsfd)]
        /\ \/ k < 4 /\ k' = k + 1 /\ aos' = "inet" /\ UNCHANGED cli
           \/ k = 4 /\ aos' = "exited" /\ UNCHANGED k /\ ResetBacklog({})
     \/ /\ serv[k] = "killed" /\ aos' = "exited" /\ ResetBacklog({nsfd})
        /\ UNCHANGED <<k, chan>>
  /\ UNCHANGED <<nsfd, sig, svcVars, backlog, port, answers>>
-----------------------------------------------------------------------------
(* The services *)

\* cli_conn: connect to AOS's socket; without AOS the service exits.
SvcConnect(n) ==
  /\ serv[n] = "off"
  /\ serv' = [serv EXCEPT ![n] = IF aos = "unix" THEN "connected" ELSE "exited"]
  /\ UNCHANGED <<aosVars, sig, srfd, left, chan, backlog, cli, port, answers>>

\* The processes that serve the client, by the reads left to each.  S1 serves
\* in a thread, S3 itself.  In S2 and S4 c==fork() compares with an
\* uninitialised c and stores nothing, so parent and child take the same
\* branch, whichever c selects: both serve, or (S2) both exit, or (S4) both
\* fork again and nobody serves.  A failed fork leaves one process.
Processes(n) ==
  CASE n \in {1, 3} -> {<<Forever>>}
    [] n = 2 -> {<<Reads, Reads>>, <<Reads>>, <<>>}
    [] n = 4 -> {<<Forever, Forever>>, <<Forever>>, <<0>>}

\* recv_fd returns the client and the service starts to serve it.  S4 runs no
\* instruction with SIGUSR1 pending.
SvcRecv(n) ==
  /\ serv[n] = "accepted" /\ chan[n] # <<>> /\ ~(n = 4 /\ sig)
  /\ chan' = [chan EXCEPT ![n] = Tail(@)]
  /\ srfd' = [srfd EXCEPT ![n] = Head(chan[n])]
  /\ \E l \in Processes(n) :
       /\ left' = [left EXCEPT ![n] = l]
       /\ \/ l # <<>> /\ serv' = [serv EXCEPT ![n] = "serving"] /\ UNCHANGED cli
          \/ l = <<>> /\ serv' = [serv EXCEPT ![n] = "exited"] /\ Eof(Head(chan[n]))
  /\ UNCHANGED <<aosVars, sig, backlog, port, answers>>

M_NoCount(r) == r

\* while(i--) or while(1).
OneReadLess(r) == IF r = Forever THEN r ELSE r - 1

\* A process of the service reads the request and writes its answer.
SvcAnswer(n, p) ==
  /\ serv[n] = "serving" /\ p \in DOMAIN left[n] /\ left[n][p] # 0
  /\ ~(n = 4 /\ sig)
  /\ cli[srfd[n]] = "asked"
  /\ left' = [left EXCEPT ![n][p] = OneReadLess(@)]
  /\ cli' = [cli EXCEPT ![srfd[n]] = "answered"]
  /\ answers' = [answers EXCEPT ![srfd[n]] = @ + 1]
  /\ UNCHANGED <<aosVars, sig, serv, srfd, chan, backlog, port>>

\* A process of S2 that has read its three requests waits in recv_fd for a
\* second client, which AOS never sends, and exits when AOS has.  (It stores
\* a descriptor that recvmsg did not fill in, and does not use it.)
S2Exit(p) ==
  /\ serv[2] = "serving" /\ p \in DOMAIN left[2] /\ left[2][p] = 0
  /\ aos = "exited"
  /\ left' = [left EXCEPT ![2] = [q \in 1..(Len(@) - 1) |-> IF q < p THEN @[q] ELSE @[q + 1]]]
  /\ \/ Len(left[2]) > 1 /\ UNCHANGED <<serv, cli>>
     \/ /\ Len(left[2]) = 1
        /\ serv' = [serv EXCEPT ![2] = "exited"] /\ Eof(srfd[2])
  /\ UNCHANGED <<aosVars, sig, srfd, chan, backlog, port, answers>>

\* SIGUSR1 meets its default action: signal() is called after recv_fd.  The
\* client, if it was sent already, is lost with S4.
S4Killed ==
  /\ sig /\ serv[4] = "accepted"
  /\ serv' = [serv EXCEPT ![4] = "killed"] /\ sig' = FALSE
  /\ \/ chan[4] = <<>> /\ UNCHANGED <<chan, cli>>
     \/ chan[4] # <<>> /\ chan' = [chan EXCEPT ![4] = <<>>] /\ Eof(Head(chan[4]))
  /\ UNCHANGED <<aosVars, srfd, left, backlog, port, answers>>
-----------------------------------------------------------------------------
(* The clients *)

\* cli_connect to the chosen port.  If that fails the client goes on, and its
\* first write ends it.
CliConnect(c) ==
  LET n == port[c] IN
  /\ cli[c] = "new"
  /\ \/ /\ Listening(n)
        /\ backlog' = [backlog EXCEPT ![n] = Append(@, c)]
        /\ cli' = [cli EXCEPT ![c] = "open"]
     \/ /\ ~Listening(n)
        /\ cli' = [cli EXCEPT ![c] = "refused"] /\ UNCHANGED backlog
  /\ UNCHANGED <<aosVars, sig, svcVars, chan, port, answers>>

\* Type a line and write it; the answer to the last one has been read.
CliAsk(c) ==
  /\ cli[c] \in {"open", "answered"} /\ answers[c] < MaxAsk[port[c]]
  /\ cli' = [cli EXCEPT ![c] = "asked"]
  /\ UNCHANGED <<aosVars, sig, svcVars, chan, backlog, port, answers>>
-----------------------------------------------------------------------------
AosStep == AosAcceptService \/ AosAccept \/ AosSignal \/ AosSend
SvcStep(n) == SvcRecv(n) \/ \E p \in 1..2 : SvcAnswer(n, p)

\* The programs s1.c to s4.c.
S1 == SvcConnect(1) \/ SvcStep(1)
S2 == SvcConnect(2) \/ SvcStep(2) \/ \E p \in 1..2 : S2Exit(p)
S3 == SvcConnect(3) \/ SvcStep(3)
S4 == SvcConnect(4) \/ SvcStep(4) \/ S4Killed

NextAos ==
  \/ AosStart \/ AosStep
  \/ S1 \/ S2 \/ S3 \/ S4
  \/ \E c \in Clients : CliAsk(c) \/ CliConnect(c)

SpecAos == InitAos /\ [][NextAos]_varsAos

\* Processes that can run do, and signals are delivered.  Nobody has to start
\* a process or type a line.
FairAos ==
  /\ WF_varsAos(AosStep) /\ WF_varsAos(S4Killed)
  /\ \A n \in Ports : WF_varsAos(SvcStep(n))
  /\ \A p \in 1..2 : WF_varsAos(S2Exit(p))

FairSpecAos == SpecAos /\ FairAos
-----------------------------------------------------------------------------
(* Properties *)

\* The reads left to a process of S2, and to both of them together.
LeftTo(p) == IF p \in DOMAIN left[2] THEN left[2][p] ELSE 0
LeftOfS2 == LeftTo(1) + LeftTo(2)

\* However the processes of S2 compete for the client's requests, and however
\* the uninitialised c turns out (s2.c:127), the reads left and the answers
\* given always add up to what one or two processes of three reads can give.
S2Budget ==
  srfd[2] # NoClient =>
    IF serv[2] = "serving" THEN answers[srfd[2]] + LeftOfS2 \in {Reads, 2 * Reads}
                          ELSE answers[srfd[2]] \in {0, Reads, 2 * Reads}

\* What the order of the calls comes to: no client of the fourth port is ever
\* answered, since AOS sends SIGUSR1 before the descriptor (aos.c:281-285) and
\* S4 calls signal() after it has received the descriptor (s4.c:126-136).
S4NeverAnswers == \A c \in Clients : port[c] = 4 => answers[c] = 0

\* The client that AOS has accepted on a port reaches the service of that
\* port, unless the signal has ended that service.
PassedIsReceived ==
  \A n \in Ports :
    aos = "send" /\ k = n ~> srfd[n] # NoClient \/ serv[n] = "killed"

\* S4's handler says "Signal received from All in one server. Serving now..."
\* (s4.c:35): once AOS has signalled S4 (aos.c:281), S4 comes to serve.
SignalledServes == aos = "send" /\ k = 4 ~> serv[4] = "serving"
=============================================================================
