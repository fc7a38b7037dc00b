----------------------------- MODULE Swayambhoo -----------------------------
(***************************************************************************)
(* The "Svayambhoo server with tracer" of assignment 20: the ingenerate    *)
(* super server ISS (iss.c), the tracer T (tracer.c), the service servers  *)
(* (service.c) and their clients (client.c).                               *)
(*                                                                         *)
(* A service registers with ISS over a Unix socket and accepts its first   *)
(* client itself.  T sniffs the loopback device and reports, once, every   *)
(* service port it sees a packet from.  On a report ISS signals the        *)
(* service, which answers with a copy of its listening descriptor, and     *)
(* from then on ISS accepts clients too and passes them to the service.    *)
(*                                                                         *)
(* A service process is named by the port it is started with: the README   *)
(* starts every service "on a different sfdi".  A TCP connection is named  *)
(* by its client.                                                          *)
(***************************************************************************)
EXTENDS Naturals, Sequences, FiniteSets, FiniteSetsExt, Functions

CONSTANTS Ports,    \* the service ports, all of them in T's packet filter
          Clients,  \* the client processes
          NoPort,   \* not a port: a client that has not connected yet, and
                    \* the 0 that ISS finds in ports[ind] at end of file
          Stdin,    \* not a port: descriptor 0, the initial value of sfd
          MaxInd    \* bound on ISS's ind where only end of file moves it (255)

ASSUME PortsAssumption ==
  NoPort \notin Ports /\ Stdin \notin Ports /\ MaxInd \in Nat

VARIABLES
  issPc,    \* where ISS is in its loop
  issRdy,   \* what ISS's last select reported
  reg,      \* the registered services, in the order of nusfd[] and pids[]
  map,      \* map[port]: index into reg (the C index plus one)
  cur,      \* ports[ind], the report being answered
  tab,      \* ports[0..ind-1] and sfd[0..ind-1]
  tracer,   \* T's life cycle
  cap,      \* ports of captured packets that packet_handler has yet to see
  sent,     \* T's sent[]
  svcPc,    \* where each service is
  svcRdy,   \* what its last select reported
  f,        \* its flag f: the first client has been accepted
  nsfd,     \* its clients, nsfd[0..ind-1]
  fifo,     \* the named pipe from T to ISS
  unixQ,    \* services connected to ISS's socket, not accepted yet
  toIss,    \* descriptors sent by each service to ISS
  toSvc,    \* connections sent by ISS to each service
  sig,      \* SIGUSR1 pending for the service
  backlog,  \* established connections that nobody has accepted
  cli,      \* the client's state
  cport     \* the port it connected to

issVars  == <<issPc, issRdy, reg, map, cur, tab>>
trVars   == <<tracer, cap, sent>>
svcVars  == <<svcPc, svcRdy, f, nsfd>>
unixVars == <<unixQ, toIss, toSvc, sig>>
cliVars  == <<cli, cport>>
vars     == <<issVars, trVars, svcVars, fifo, unixVars, backlog, cliVars>>

-----------------------------------------------------------------------------
(* Descriptors and sockets *)


NoneReadyIss == [usfd |-> FALSE, fifo |-> FALSE, sfd |-> {}]
NoneReadySvc == [sfd |-> FALSE, usfd |-> FALSE, cli |-> {}]

InLoop == {"select", "accept", "usfd", "serve"}
Listening(p) == svcPc[p] \in InLoop

IssListens == issPc \notin {"off", "exited"}

\* The service whose Unix socket nusfd[map[p]] is.  map[] is a zeroed
\* global, so a port that never registered, and port 0, stand for the first
\* service.
Target(p) == IF p \in Ports THEN reg[map[p]] ELSE reg[1]

M_SignalFirst(p) == reg[1]

\* pids[map[p]], the process that is signalled for a report of p.
Signalled(p) == Target(p)

M_PassToFirst(p) == reg[1]

\* nusfd[map[p]], the socket over which a client of sfd[i] is passed.
Receiver(p) == Target(p)

\* The index nind under which a new service is registered.
NewIndex(q) == Len(q) + 1

M_StoreNoIncrement(q, e) == IF q = <<>> THEN <<e>> ELSE [q EXCEPT ![Len(q)] = e]

\* nsfd[ind] = ...; ind++ in a service.
Store(q, e) == Append(q, e)

\* A packet with source port p crosses the loopback device.  A second packet
\* of a port that already waits for packet_handler would change nothing.
Emit(p) == cap' = IF tracer = "up" /\ p \notin Range(cap)
                    THEN Append(cap, p) ELSE cap

Init ==
  /\ issPc = "off" /\ issRdy = NoneReadyIss
  /\ reg = <<>> /\ map = [p \in Ports |-> 1] /\ cur = NoPort /\ tab = <<>>
  /\ tracer = "off" /\ cap = <<>> /\ sent = [p \in Ports |-> FALSE]
  /\ svcPc = [p \in Ports |-> "off"]
  /\ svcRdy = [p \in Ports |-> NoneReadySvc]
  /\ f = [p \in Ports |-> FALSE]
  /\ nsfd = [p \in Ports |-> <<>>]
  /\ fifo = <<>> /\ unixQ = <<>>
  /\ toIss = [p \in Ports |-> <<>>] /\ toSvc = [p \in Ports |-> <<>>]
  /\ sig = [p \in Ports |-> FALSE]
  /\ backlog = [p \in Ports |-> <<>>]
  /\ cli = [c \in Clients |-> "new"] /\ cport = [c \in Clients |-> NoPort]
-----------------------------------------------------------------------------
(* T, the tracer *)

\* Both processes block in open("FIFO") until the other one is there too.
FifoOpen ==
  /\ issPc = "open" /\ tracer = "off"
  /\ issPc' = "select" /\ tracer' = "opened"
  /\ UNCHANGED <<issRdy, reg, map, cur, tab, cap, sent, svcVars, fifo,
                 unixVars, backlog, cliVars>>

\* pcap_open_live and the filter: only later packets are captured.  T exits
\* when one of its calls fails (it needs the privilege to capture).
PcapOpen ==
  /\ tracer = "opened" /\ tracer' \in {"up", "dead"}
  /\ UNCHANGED <<issVars, cap, sent, svcVars, fifo, unixVars, backlog, cliVars>>

\* packet_handler reports a port the first time it is seen.
FirstSeen(p) == ~sent[p]

\* packet_handler.  With ISS gone the write raises SIGPIPE.
PacketHandler ==
  /\ tracer = "up" /\ cap # <<>>
  /\ LET p == Head(cap) IN
       \/ /\ FirstSeen(p) /\ issPc # "exited"
          /\ fifo' = Append(fifo, p)
          /\ sent' = [sent EXCEPT ![p] = TRUE]
          /\ UNCHANGED tracer
       \/ /\ FirstSeen(p) /\ issPc = "exited"
          /\ tracer' = "dead"
          /\ UNCHANGED <<fifo, sent>>
       \/ ~FirstSeen(p) /\ UNCHANGED <<fifo, sent, tracer>>
  /\ cap' = Tail(cap)
  /\ UNCHANGED <<issVars, svcVars, unixVars, backlog, cliVars>>
-----------------------------------------------------------------------------
(* ISS *)

IssStart ==
  /\ issPc = "off" /\ issPc' = "open"
  /\ UNCHANGED <<issRdy, reg, map, cur, tab, trVars, svcVars, fifo, unixVars,
                 backlog, cliVars>>

\* sfd[i] is readable: a client waits in its backlog, or the socket was
\* passed before listen() was called on it, which select reports as well.
\* (Input on a passed Stdin would make accept fail and change nothing.)
Readable(d) == d # Stdin /\ (~Listening(d) \/ backlog[d] # <<>>)

\* The descriptors ISS watches: those that were not ready are put back into
\* readset, those that were ready are still in it.
IssSelect ==
  LET rdy == [usfd |-> unixQ # <<>>,
              fifo |-> fifo # <<>> \/ tracer = "dead",
              sfd |-> {i \in 1..Len(tab) : Readable(tab[i].sock)}]
  IN /\ issPc = "select" /\ rdy # NoneReadyIss
     /\ issPc' = "usfd" /\ issRdy' = rdy
     /\ UNCHANGED <<reg, map, cur, tab, trVars, svcVars, fifo, unixVars,
                    backlog, cliVars>>

\* A new service: accept, receive its port and its pid.
IssRegister ==
  /\ issPc = "usfd" /\ issPc' = "fifo"
  /\ \/ /\ issRdy.usfd
        /\ reg' = Append(reg, Head(unixQ))
        /\ map' = [map EXCEPT ![Head(unixQ)] = NewIndex(reg)]
        /\ unixQ' = Tail(unixQ)
     \/ ~issRdy.usfd /\ UNCHANGED <<reg, map, unixQ>>
  /\ UNCHANGED <<issRdy, cur, tab, trVars, svcVars, fifo, toIss, toSvc, sig,
                 backlog, cliVars>>

\* A report from T, or end of file once T is gone: read() then returns 0 and
\* leaves ports[ind] at 0, and ISS goes on as with a report.
Report ==
  \/ fifo # <<>> /\ cur' = Head(fifo) /\ fifo' = Tail(fifo)
  \/ /\ fifo = <<>> /\ Len(tab) < MaxInd
     /\ cur' = NoPort /\ UNCHANGED fifo

\* Signal the service of the port.  With no service registered pids[0] is 0
\* and kill() signals ISS's own group, which ends ISS.
IssReport ==
  /\ issPc = "fifo"
  /\ \/ /\ issRdy.fifo /\ Report
        /\ \/ /\ reg = <<>> /\ issPc' = "exited" /\ UNCHANGED sig
           \/ /\ reg # <<>> /\ issPc' = "recvfd"
              /\ sig' = [sig EXCEPT ![Signalled(cur')] = TRUE]
     \/ /\ ~issRdy.fifo /\ issPc' = "accept" /\ UNCHANGED <<cur, fifo, sig>>
  /\ UNCHANGED <<issRdy, reg, map, tab, trVars, svcVars, unixQ, toIss, toSvc,
                 backlog, cliVars>>

\* ISS blocks in recvmsg until the signalled service has answered.
IssRecvFd ==
  LET s == Target(cur) IN
  /\ issPc = "recvfd" /\ toIss[s] # <<>>
  /\ tab' = Append(tab, [port |-> cur, sock |-> Head(toIss[s])])
  /\ toIss' = [toIss EXCEPT ![s] = Tail(@)]
  /\ issPc' = "accept"
  /\ UNCHANGED <<issRdy, reg, map, cur, trVars, svcVars, fifo, unixQ, toSvc,
                 sig, backlog, cliVars>>

\* The next ready sfd[i]: accept (which blocks if the service was faster) and
\* pass the connection to the service of ports[i].
IssAccept ==
  /\ issPc = "accept" /\ issRdy.sfd # {}
  /\ LET i == Min(issRdy.sfd)
         d == tab[i].sock
         s == Receiver(tab[i].port)
     IN /\ issRdy' = [issRdy EXCEPT !.sfd = @ \ {i}]
        /\ \/ /\ Listening(d) /\ backlog[d] # <<>>
              /\ toSvc' = [toSvc EXCEPT ![s] = Append(@, Head(backlog[d]))]
              /\ backlog' = [backlog EXCEPT ![d] = Tail(@)]
           \/ ~Listening(d) /\ UNCHANGED <<toSvc, backlog>>
  /\ UNCHANGED <<issPc, reg, map, cur, tab, trVars, svcVars, fifo, unixQ,
                 toIss, sig, cliVars>>

IssPassDone ==
  /\ issPc = "accept" /\ issRdy.sfd = {} /\ issPc' = "select"
  /\ UNCHANGED <<issRdy, reg, map, cur, tab, trVars, svcVars, fifo, unixVars,
                 backlog, cliVars>>

\* sig_handler: SIGINT from the terminal.
IssSigint ==
  /\ IssListens /\ issPc' = "exited"
  /\ UNCHANGED <<issRdy, reg, map, cur, tab, trVars, svcVars, fifo, unixVars,
                 backlog, cliVars>>
-----------------------------------------------------------------------------
(* The service servers *)

\* Start, connect to ISS, send the port and the pid.
SvcConnect(s) ==
  /\ svcPc[s] = "off"
  /\ \/ /\ IssListens /\ unixQ' = Append(unixQ, s)
        /\ svcPc' = [svcPc EXCEPT ![s] = "connected"]
     \/ /\ ~IssListens /\ UNCHANGED unixQ
        /\ svcPc' = [svcPc EXCEPT ![s] = "exited"]
  /\ UNCHANGED <<issVars, trVars, svcRdy, f, nsfd, fifo, toIss, toSvc, sig,
                 backlog, cliVars>>

\* sfd = socket(...): the global is 0 until here.
SvcSocket(s) ==
  /\ svcPc[s] = "connected" /\ svcPc' = [svcPc EXCEPT ![s] = "socket"]
  /\ UNCHANGED <<issVars, trVars, svcRdy, f, nsfd, fifo, unixVars, backlog,
                 cliVars>>

SvcListen(s) ==
  /\ svcPc[s] = "socket" /\ svcPc' = [svcPc EXCEPT ![s] = "select"]
  /\ UNCHANGED <<issVars, trVars, svcRdy, f, nsfd, fifo, unixVars, backlog,
                 cliVars>>

M_NotWithoutSocket(s) ==
  /\ sig[s] /\ svcPc[s] # "exited"
  /\ sig' = [sig EXCEPT ![s] = FALSE]
  /\ \/ /\ issPc # "exited"
        /\ toIss' = [toIss EXCEPT ![s] =
                       IF svcPc[s] = "connected" THEN @ ELSE Append(@, s)]
        /\ UNCHANGED svcPc
     \/ /\ issPc = "exited"
        /\ svcPc' = [svcPc EXCEPT ![s] = "exited"] /\ UNCHANGED toIss
  /\ UNCHANGED <<issVars, trVars, svcRdy, f, nsfd, fifo, unixQ, toSvc,
                 backlog, cliVars>>

\* sig_handler: pass whatever sfd holds now.  With ISS gone the send raises
\* SIGPIPE.
SvcSigusr1(s) ==
  /\ sig[s] /\ svcPc[s] # "exited"
  /\ sig' = [sig EXCEPT ![s] = FALSE]
  /\ \/ /\ issPc # "exited"
        /\ toIss' = [toIss EXCEPT ![s] =
                       Append(@, IF svcPc[s] = "connected" THEN Stdin ELSE s)]
        /\ UNCHANGED svcPc
     \/ /\ issPc = "exited"
        /\ svcPc' = [svcPc EXCEPT ![s] = "exited"] /\ UNCHANGED toIss
  /\ UNCHANGED <<issVars, trVars, svcRdy, f, nsfd, fifo, unixQ, toSvc,
                 backlog, cliVars>>

\* The service watches sfd until it has accepted: FD_CLR and the test of f.
SfdWatched(s) == ~f[s]

M_AskingButLast(s) == {i \in 1..(Len(nsfd[s]) - 1) : cli[nsfd[s][i]] = "req"}

\* The clients of s with a request that s has not read.
Asking(s) == {i \in 1..Len(nsfd[s]) : cli[nsfd[s][i]] = "req"}

SvcSelect(s) ==
  LET rdy == [sfd  |-> SfdWatched(s) /\ backlog[s] # <<>>,
              usfd |-> toSvc[s] # <<>> \/ issPc = "exited",
              cli  |-> Asking(s)]
  IN /\ svcPc[s] = "select" /\ rdy # NoneReadySvc
     /\ svcPc' = [svcPc EXCEPT ![s] = "accept"]
     /\ svcRdy' = [svcRdy EXCEPT ![s] = rdy]
     /\ UNCHANGED <<issVars, trVars, f, nsfd, fifo, unixVars, backlog, cliVars>>

M_AcceptUnasked(s) == TRUE

\* FD_ISSET(sfd, &readset)
SfdReady(s) == svcRdy[s].sfd

\* "Accepting for the first time"; blocks if ISS was faster.
SvcAccept(s) ==
  /\ svcPc[s] = "accept"
  /\ \/ /\ SfdReady(s) /\ backlog[s] # <<>>
        /\ nsfd' = [nsfd EXCEPT ![s] = Store(@, Head(backlog[s]))]
        /\ backlog' = [backlog EXCEPT ![s] = Tail(@)]
        /\ f' = [f EXCEPT ![s] = TRUE]
     \/ ~SfdReady(s) /\ UNCHANGED <<nsfd, backlog, f>>
  /\ svcPc' = [svcPc EXCEPT ![s] = "usfd"]
  /\ UNCHANGED <<issVars, trVars, svcRdy, fifo, unixVars, cliVars>>

\* A connection passed by ISS; end of file on usfd ends the service.
SvcRecvFd(s) ==
  /\ svcPc[s] = "usfd"
  /\ \/ /\ svcRdy[s].usfd /\ toSvc[s] # <<>>
        /\ nsfd' = [nsfd EXCEPT ![s] = Store(@, Head(toSvc[s]))]
        /\ toSvc' = [toSvc EXCEPT ![s] = Tail(@)]
        /\ svcPc' = [svcPc EXCEPT ![s] = "serve"]
     \/ /\ svcRdy[s].usfd /\ toSvc[s] = <<>>
        /\ svcPc' = [svcPc EXCEPT ![s] = "exited"]
        /\ UNCHANGED <<nsfd, toSvc>>
     \/ /\ ~svcRdy[s].usfd
        /\ svcPc' = [svcPc EXCEPT ![s] = "serve"]
        /\ UNCHANGED <<nsfd, toSvc>>
  /\ UNCHANGED <<issVars, trVars, svcRdy, f, fifo, unixQ, toIss, sig, backlog,
                 cliVars>>

\* Read the next ready client's line and send it back in capitals.
SvcServe(s) ==
  /\ svcPc[s] = "serve" /\ svcRdy[s].cli # {}
  /\ LET i == Min(svcRdy[s].cli)
         c == nsfd[s][i]
     IN /\ svcRdy' = [svcRdy EXCEPT ![s].cli = @ \ {i}]
        /\ cli' = [cli EXCEPT ![c] = "rep"]
        /\ Emit(cport[c])
  /\ UNCHANGED <<issVars, tracer, sent, svcPc, f, nsfd, fifo, unixVars,
                 backlog, cport>>

SvcPassDone(s) ==
  /\ svcPc[s] = "serve" /\ svcRdy[s].cli = {}
  /\ svcPc' = [svcPc EXCEPT ![s] = "select"]
  /\ UNCHANGED <<issVars, trVars, svcRdy, f, nsfd, fifo, unixVars, backlog,
                 cliVars>>
-----------------------------------------------------------------------------
(* The clients *)

\* connect() to the port of the command line.  The answer, an established
\* connection or a reset, is a packet from that port.
CliConnect(c, p) ==
  /\ cli[c] = "new"
  /\ \/ /\ Listening(p)
        /\ backlog' = [backlog EXCEPT ![p] = Append(@, c)]
        /\ cli' = [cli EXCEPT ![c] = "idle"]
        /\ cport' = [cport EXCEPT ![c] = p]
     \/ /\ ~Listening(p)
        /\ cli' = [cli EXCEPT ![c] = "refused"]
        /\ UNCHANGED <<backlog, cport>>
  /\ Emit(p)
  /\ UNCHANGED <<issVars, tracer, sent, svcVars, fifo, unixVars>>

\* Send a line; the acknowledgement is a packet from the port.
CliSend(c) ==
  /\ cli[c] = "idle" /\ cli' = [cli EXCEPT ![c] = "req"]
  /\ Emit(cport[c])
  /\ UNCHANGED <<issVars, tracer, sent, svcVars, fifo, unixVars, backlog, cport>>

CliRead(c) ==
  /\ cli[c] = "rep" /\ cli' = [cli EXCEPT ![c] = "idle"]
  /\ UNCHANGED <<issVars, trVars, svcVars, fifo, unixVars, backlog, cport>>
-----------------------------------------------------------------------------
TracerStep  == FifoOpen \/ PcapOpen \/ PacketHandler
IssLoop     == IssSelect \/ IssRegister \/ IssReport \/ IssRecvFd
                 \/ IssAccept \/ IssPassDone
SvcLoop(s)  == SvcSelect(s) \/ SvcAccept(s) \/ SvcRecvFd(s) \/ SvcServe(s)
                 \/ SvcPassDone(s)
SvcStart(s) == SvcConnect(s) \/ SvcSocket(s) \/ SvcListen(s)
CliStep(c)  == CliSend(c) \/ CliRead(c) \/ \E p \in Ports : CliConnect(c, p)

Next ==
  \/ TracerStep \/ IssStart \/ IssLoop \/ IssSigint
  \/ \E s \in Ports : SvcStart(s) \/ SvcSigusr1(s) \/ SvcLoop(s)
  \/ \E c \in Clients : CliStep(c)

Spec == Init /\ [][Next]_vars

\* The kernel keeps every process that can run running, and delivers
\* signals.  Nobody is obliged to start a process, to type a line or to
\* press control-C.
Fairness ==
  /\ WF_vars(TracerStep) /\ WF_vars(IssLoop)
  /\ \A s \in Ports : /\ WF_vars(SvcSocket(s) \/ SvcListen(s))
                      /\ WF_vars(SvcSigusr1(s)) /\ WF_vars(SvcLoop(s))

FairSpec == Spec /\ Fairness
-----------------------------------------------------------------------------
(* Properties *)

\* A signal or a descriptor is on its way only while ISS waits for exactly
\* that answer (iss.c:140-141): a descriptor can never be left over in the
\* Unix socket and be taken for the answer to a later report.
OneAnswerPerReport ==
  \A s \in Ports :
    /\ sig[s] \/ toIss[s] # <<>> =>
         issPc = "exited" \/ (issPc = "recvfd" /\ Target(cur) = s)
    /\ Len(toIss[s]) + (IF sig[s] THEN 1 ELSE 0) <= 1

Held(p) == backlog[p] \o toSvc[p] \o nsfd[p]
Places(c) ==
  UNION {{p} \X {i \in DOMAIN Held(p) : Held(p)[i] = c} : p \in Ports}

\* A connection that was established is in exactly one place, wherever the
\* two competing accept() calls and the two hand-overs put it: a backlog, the
\* Unix socket of a service or the table of a service.
OneHolder ==
  \A c \in Clients :
    Cardinality(Places(c)) = IF cport[c] = NoPort THEN 0 ELSE 1

\* A service waits in accept() for a client that is no longer there only
\* because ISS holds its descriptor too (service.c:176 against iss.c:160).
BlockedOnlyByIss ==
  \A s \in Ports :
    svcPc[s] = "accept" /\ SfdReady(s) /\ backlog[s] = <<>> =>
      \E i \in DOMAIN tab : tab[i].sock = s

GivenTo(s) == Range(toSvc[s]) \cup Range(nsfd[s])

\* A client that is handed to another service than the one it called is a
\* client of the service that registered first: the one every unregistered
\* port stands for in the zeroed map[] (iss.c:28, 140).
MisroutedOnlyFromFirst ==
  \A s \in Ports : \A c \in GivenTo(s) : cport[c] # s => cport[c] = reg[1]

\* README, assignment 20, 5.4: ISS "passes the accepted clients to the
\* corresponding Si".
PassedToOwner == \A s \in Ports : \A c \in GivenTo(s) : cport[c] = s

\* ISS always leaves the recvmsg() that waits for a descriptor (iss.c:141).
ReportAnswered == issPc = "recvfd" ~> issPc # "recvfd"

StuckInAccept(s) ==
  svcPc[s] = "accept" /\ SfdReady(s) /\ backlog[s] = <<>>

\* A client that a service holds gets its answer, unless the service has
\* ended or waits in accept() for a client that ISS has taken.
HeldIsServed ==
  \A s \in Ports : \A c \in Clients :
    c \in Range(nsfd[s]) /\ cli[c] = "req"
      ~> cli[c] # "req" \/ svcPc[s] = "exited" \/ StuckInAccept(s)
=============================================================================
