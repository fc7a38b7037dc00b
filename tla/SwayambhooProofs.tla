--------------------------- MODULE SwayambhooProofs --------------------------
(***************************************************************************)
(* Proofs about Swayambhoo, for any set of services, any set of clients    *)
(* and any length of ISS's table: every report has one answer, every       *)
(* connection one holder, a service waits only for a client that ISS may   *)
(* have taken, and only clients of the first service are handed to the     *)
(* wrong one.                                                              *)
(***************************************************************************)
EXTENDS Swayambhoo, QueueTheorems

\* The states of ISS, of a service and of a client.
IssStates == {"off", "open", "select", "usfd", "fifo", "recvfd", "accept", "exited"}
SvcStates == InLoop \cup {"off", "connected", "socket", "exited"}
CliStates == {"new", "refused", "idle", "req", "rep"}

TypeOK ==
  /\ issPc \in IssStates
  /\ issRdy \in [usfd : BOOLEAN, fifo : BOOLEAN, sfd : SUBSET Nat]
  /\ reg \in Seq(Ports) /\ map \in [Ports -> Nat]
  /\ cur \in Ports \cup {NoPort}
  /\ tab \in Seq([port : Ports \cup {NoPort}, sock : Ports \cup {Stdin}])
  /\ cap \in Seq(Ports)
  /\ svcPc \in [Ports -> SvcStates]
  /\ svcRdy \in [Ports -> [sfd : BOOLEAN, usfd : BOOLEAN, cli : SUBSET Nat]]
  /\ nsfd \in [Ports -> Seq(Clients)]
  /\ fifo \in Seq(Ports) /\ unixQ \in Seq(Ports)
  /\ toIss \in [Ports -> Seq(Ports \cup {Stdin})]
  /\ toSvc \in [Ports -> Seq(Clients)]
  /\ sig \in [Ports -> BOOLEAN]
  /\ backlog \in [Ports -> Seq(Clients)]
  /\ cli \in [Clients -> CliStates]
  /\ cport \in [Clients -> Ports \cup {NoPort}]

\* A client has a port exactly when its connection was established.
ClientInv == \A c \in Clients : cport[c] = NoPort <=> cli[c] \in {"new", "refused"}

\* A service connects to ISS once, so that it waits or is registered once;
\* map[] is right for a registered port and zero for every other.
RegInv ==
  /\ \A n \in 1..Len(unixQ) : svcPc[unixQ[n]] # "off"
  /\ \A n \in 1..Len(reg) : svcPc[reg[n]] # "off" /\ map[reg[n]] = n
  /\ \A n, m \in 1..Len(unixQ) : unixQ[n] = unixQ[m] => n = m
  /\ \A n \in 1..Len(unixQ) : \A m \in 1..Len(reg) : unixQ[n] # reg[m]
  /\ \A p \in Ports : (\A n \in 1..Len(reg) : reg[n] # p) => map[p] = 1

\* What a select reported about the tables is still there to be read.
ReadyInv ==
  /\ issPc = "usfd" /\ issRdy.usfd => unixQ # <<>>
  /\ \A i \in issRdy.sfd : i \in 1..Len(tab) /\ tab[i].sock # Stdin
  /\ \A s \in Ports : svcRdy[s].cli \subseteq 1..Len(nsfd[s])

\* ISS waits for an answer only when some service is registered, and a
\* service answers with its own descriptor or with Stdin.
AnswerInv ==
  /\ OneAnswerPerReport
  /\ issPc = "recvfd" => reg # <<>>
  /\ \A s \in Ports : \A n \in 1..Len(toIss[s]) : toIss[s][n] \in {s, Stdin}

\* The descriptor stored for a port is the first service's or its own.
TabInv ==
  \A i \in 1..Len(tab) :
    /\ reg # <<>>
    /\ \/ tab[i].sock = Stdin
       \/ tab[i].sock = reg[1]
       \/ tab[i].sock = tab[i].port /\ \E n \in 1..Len(reg) : reg[n] = tab[i].port

\* A connection in a backlog is for that port; a connection that was handed
\* over is for that service or for the first one.
Rightful(s, c) == cport[c] = s \/ (reg # <<>> /\ cport[c] = reg[1])
RouteInv ==
  \A s \in Ports :
    /\ \A n \in 1..Len(backlog[s]) : cport[backlog[s][n]] = s
    /\ \A n \in 1..Len(toSvc[s]) : Rightful(s, toSvc[s][n])
    /\ \A n \in 1..Len(nsfd[s]) : Rightful(s, nsfd[s][n])

\* The three places in which a connection of a service can be.
Spots == {"backlog", "toSvc", "nsfd"} \X Ports
Lines ==
  [x \in Spots |->
     IF x[1] = "backlog" THEN backlog[x[2]]
     ELSE IF x[1] = "toSvc" THEN toSvc[x[2]] ELSE nsfd[x[2]]]

HolderInv ==
  /\ OneSpot(Spots, Lines)
  /\ \A c \in Clients : Somewhere(Spots, Lines, c) <=> cport[c] # NoPort

Inv == /\ TypeOK /\ ClientInv /\ RegInv /\ ReadyInv /\ AnswerInv /\ TabInv
       /\ RouteInv /\ HolderInv /\ BlockedOnlyByIss
-----------------------------------------------------------------------------
(* Facts about the operators of the model. *)

\* The service that stands for a port is the first one or the port itself,
\* and for a registered port it is the port itself.
LEMMA TargetIs ==
  ASSUME TypeOK, RegInv, reg # <<>>, NEW p \in Ports \cup {NoPort}
  PROVE  /\ Target(p) \in Ports
         /\ Target(p) = reg[1] \/ (Target(p) = p /\ \E n \in 1..Len(reg) : reg[n] = p)
         /\ \A n \in 1..Len(reg) : reg[n] = p => Target(p) = p
<1>0. reg \in Seq(Ports)
  BY DEF TypeOK
<1>1. 1 \in 1..Len(reg) /\ \A n \in 1..Len(reg) : reg[n] \in Ports
  BY <1>0
<1>2. CASE p \notin Ports
  BY <1>1, <1>2 DEF Target
<1>3. CASE p \in Ports /\ \A n \in 1..Len(reg) : reg[n] # p
  BY <1>1, <1>3 DEF Target, RegInv
<1>4. ASSUME p \in Ports, NEW n \in 1..Len(reg), reg[n] = p
      PROVE  Target(p) = p
  BY <1>4 DEF Target, RegInv
<1> QED
  BY <1>1, <1>2, <1>3, <1>4

\* The types of the queues and tables, apart from the rest of TypeOK.
LEMMA QueuesTyped ==
  ASSUME TypeOK
  PROVE  /\ reg \in Seq(Ports) /\ fifo \in Seq(Ports) /\ unixQ \in Seq(Ports)
         /\ nsfd \in [Ports -> Seq(Clients)] /\ toSvc \in [Ports -> Seq(Clients)]
         /\ backlog \in [Ports -> Seq(Clients)]
         /\ toIss \in [Ports -> Seq(Ports \cup {Stdin})]
         /\ svcPc \in [Ports -> SvcStates] /\ cli \in [Clients -> CliStates]
         /\ cport \in [Clients -> Ports \cup {NoPort}]
         /\ Len(tab) \in Nat
         /\ \A n \in 1..Len(tab) : /\ tab[n].port \in Ports \cup {NoPort}
                                   /\ tab[n].sock \in Ports \cup {Stdin}
<1> DEFINE Entry == [port : Ports \cup {NoPort}, sock : Ports \cup {Stdin}]
<1>1. tab \in Seq(Entry)
  BY DEF TypeOK
<1>2. Len(tab) \in Nat /\ \A n \in 1..Len(tab) : tab[n] \in Entry
  <2> HIDE DEF Entry
  <2> QED
    BY <1>1
<1> QED
  BY <1>1, <1>2 DEF TypeOK

\* Emit keeps the captured packets a sequence of ports.
LEMMA EmitType ==
  ASSUME TypeOK, NEW p \in Ports, Emit(p)
  PROVE  cap' \in Seq(Ports)
BY DEF Emit, TypeOK

-----------------------------------------------------------------------------
(* The initial state and the steps. *)

\* The initial state satisfies the invariant.
LEMMA InitInv == Init => Inv
<1> SUFFICES ASSUME Init PROVE Inv
  OBVIOUS
<1> USE PortsAssumption DEF Init
<1>1. TypeOK
  BY DEF TypeOK, IssStates, SvcStates, CliStates, NoneReadyIss, NoneReadySvc
<1>2. ClientInv /\ RegInv /\ TabInv /\ RouteInv
  BY DEF ClientInv, RegInv, TabInv, RouteInv
<1>3. ReadyInv /\ AnswerInv
  BY DEF ReadyInv, AnswerInv, OneAnswerPerReport, NoneReadyIss, NoneReadySvc
<1>4. HolderInv
  <2>1. \A x \in Spots : Lines[x] = <<>>
    BY DEF Lines, Spots
  <2> QED
    BY <2>1 DEF HolderInv, OneSpot, Somewhere
<1>5. BlockedOnlyByIss
  BY DEF BlockedOnlyByIss
<1> QED
  BY <1>1, <1>2, <1>3, <1>4, <1>5 DEF Inv

\* A client that a service holds, or that is in a backlog, has a port.
LEMMA HeldHasPort ==
  ASSUME TypeOK, HolderInv, NEW s \in Ports, NEW n \in 1..Len(nsfd[s])
  PROVE  nsfd[s][n] \in Clients /\ cport[nsfd[s][n]] \in Ports
<1>1. nsfd[s] \in Seq(Clients) /\ nsfd[s][n] \in Clients
  BY DEF TypeOK
<1>2. <<"nsfd", s>> \in Spots /\ Lines[<<"nsfd", s>>] = nsfd[s]
  BY DEF Lines, Spots
<1>3. Somewhere(Spots, Lines, nsfd[s][n])
  BY <1>2 DEF Somewhere
<1>4. cport[nsfd[s][n]] # NoPort
  BY <1>1, <1>3 DEF HolderInv
<1> QED
  BY <1>1, <1>4 DEF TypeOK

\* Every step preserves the types.
LEMMA TypeStep == Inv /\ [Next]_vars => TypeOK'
<1> SUFFICES ASSUME Inv, [Next]_vars PROVE TypeOK'
  OBVIOUS
<1> USE DEF issVars, trVars, svcVars, unixVars, cliVars, IssStates, SvcStates, InLoop,
            CliStates
<1>0. TypeOK /\ RegInv /\ ReadyInv /\ AnswerInv /\ HolderInv /\ ClientInv
  BY DEF Inv
<1>t. /\ unixQ \in Seq(Ports)
      /\ nsfd \in [Ports -> Seq(Clients)] /\ toSvc \in [Ports -> Seq(Clients)]
      /\ backlog \in [Ports -> Seq(Clients)]
      /\ cli \in [Clients -> CliStates]
      /\ cport \in [Clients -> Ports \cup {NoPort}]
  BY <1>0, QueuesTyped
<1>1. CASE FifoOpen \/ PcapOpen \/ IssStart \/ IssPassDone \/ IssSigint
  BY <1>0, <1>1 DEF TypeOK, FifoOpen, PcapOpen, IssStart, IssPassDone, IssSigint
<1>2. CASE PacketHandler
  <2>1. cap \in Seq(Ports) /\ cap # <<>> /\ fifo \in Seq(Ports)
    BY <1>0, <1>2 DEF PacketHandler, TypeOK
  <2>2. cap' \in Seq(Ports) /\ Head(cap) \in Ports
    BY <1>2, <2>1 DEF PacketHandler
  <2>3. fifo' \in Seq(Ports)
    <3>1. fifo' = fifo \/ fifo' = Append(fifo, Head(cap))
      BY <1>2 DEF PacketHandler
    <3> QED
      BY <2>1, <2>2, <3>1, QueueTypes
  <2> QED
    BY <1>0, <1>2, <2>2, <2>3 DEF TypeOK, PacketHandler
<1>3. CASE IssSelect
  <2>1. issRdy' \in [usfd : BOOLEAN, fifo : BOOLEAN, sfd : SUBSET Nat]
    BY <1>0, <1>3 DEF TypeOK, IssSelect
  <2> QED
    BY <1>0, <1>3, <2>1 DEF TypeOK, IssSelect
<1>4. CASE IssRegister
  <2>1. reg' \in Seq(Ports) /\ map' \in [Ports -> Nat] /\ unixQ' \in Seq(Ports)
    <3>1. CASE issRdy.usfd
      <4>1. unixQ \in Seq(Ports) /\ unixQ # <<>> /\ reg \in Seq(Ports) /\ map \in [Ports -> Nat]
        BY <1>0, <1>4, <3>1 DEF TypeOK, ReadyInv, IssRegister
      <4>2. Head(unixQ) \in Ports /\ Tail(unixQ) \in Seq(Ports) /\ Len(reg) + 1 \in Nat
        BY <4>1
      <4>3. /\ reg' = Append(reg, Head(unixQ)) /\ unixQ' = Tail(unixQ)
            /\ map' = [map EXCEPT ![Head(unixQ)] = Len(reg) + 1]
        BY <1>4, <3>1 DEF IssRegister, NewIndex
      <4>4. reg' \in Seq(Ports)
        BY <4>1, <4>2, <4>3, QueueTypes
      <4>5. map' \in [Ports -> Nat]
        BY <4>1, <4>2, <4>3
      <4> QED
        BY <4>2, <4>3, <4>4, <4>5
    <3>2. CASE ~issRdy.usfd
      BY <1>0, <1>4, <3>2 DEF IssRegister, TypeOK
    <3> QED
      BY <3>1, <3>2
  <2> QED
    BY <1>0, <1>4, <2>1 DEF TypeOK, IssRegister
<1>5. CASE IssReport
  <2>1. cur' \in Ports \cup {NoPort} /\ fifo' \in Seq(Ports)
    <3>1. fifo \in Seq(Ports) /\ cur \in Ports \cup {NoPort}
      BY <1>0 DEF TypeOK
    <3>2. CASE fifo # <<>> /\ cur' = Head(fifo) /\ fifo' = Tail(fifo)
      BY <3>1, <3>2
    <3> QED
      BY <1>5, <3>1, <3>2 DEF IssReport, Report
  <2>2. sig' \in [Ports -> BOOLEAN]
    BY <1>0, <1>5 DEF TypeOK, IssReport
  <2> QED
    BY <1>0, <1>5, <2>1, <2>2 DEF TypeOK, IssReport
<1>6. CASE IssRecvFd
  <2>1. reg # <<>> /\ Target(cur) \in Ports
    <3>1. reg # <<>> /\ cur \in Ports \cup {NoPort}
      BY <1>0, <1>6 DEF AnswerInv, IssRecvFd, TypeOK
    <3> QED
      BY <1>0, <3>1, TargetIs
  <2>2. toIss[Target(cur)] \in Seq(Ports \cup {Stdin}) /\ toIss[Target(cur)] # <<>>
    BY <1>0, <1>6, <2>1 DEF TypeOK, IssRecvFd
  <2>3. /\ Head(toIss[Target(cur)]) \in Ports \cup {Stdin}
        /\ Tail(toIss[Target(cur)]) \in Seq(Ports \cup {Stdin})
    BY <2>2
  <2>4. toIss' \in [Ports -> Seq(Ports \cup {Stdin})]
    BY <1>0, <1>6, <2>3 DEF TypeOK, IssRecvFd
  <2>5. tab' \in Seq([port : Ports \cup {NoPort}, sock : Ports \cup {Stdin}])
    BY <1>0, <1>6, <2>3 DEF TypeOK, IssRecvFd
  <2> QED
    BY <1>0, <1>6, <2>4, <2>5 DEF TypeOK, IssRecvFd
<1>7. CASE IssAccept
  <2> DEFINE i == Min(issRdy.sfd)
             d == tab[i].sock
             s == Receiver(tab[i].port)
  <2>1. issRdy' \in [usfd : BOOLEAN, fifo : BOOLEAN, sfd : SUBSET Nat]
    BY <1>0, <1>7 DEF TypeOK, IssAccept
  <2>2. toSvc' \in [Ports -> Seq(Clients)] /\ backlog' \in [Ports -> Seq(Clients)]
    <3>1. CASE /\ Listening(d) /\ backlog[d] # <<>>
               /\ toSvc' = [toSvc EXCEPT ![s] = Append(@, Head(backlog[d]))]
               /\ backlog' = [backlog EXCEPT ![d] = Tail(@)]
      <4>1. i \in 1..Len(tab) /\ d # Stdin
        BY <1>0, <1>7, MinIsMember DEF ReadyInv, IssAccept, TypeOK
      <4>2. d \in Ports
        <5> HIDE DEF i
        <5> QED
          BY <1>0, <4>1, QueuesTyped
      <4>3. backlog[d] \in Seq(Clients) /\ backlog[d] # <<>>
        BY <1>0, <3>1, <4>2 DEF TypeOK
      <4>4. Head(backlog[d]) \in Clients /\ Tail(backlog[d]) \in Seq(Clients)
        BY <4>3
      <4> HIDE DEF d, s
      <4>5. \A p \in Ports : Append(toSvc[p], Head(backlog[d])) \in Seq(Clients)
        BY <1>0, <4>4, QueueTypes DEF TypeOK
      <4> QED
        BY <1>0, <3>1, <4>4, <4>5 DEF TypeOK
    <3> QED
      BY <1>0, <1>7, <3>1 DEF TypeOK, IssAccept
  <2> QED
    BY <1>0, <1>7, <2>1, <2>2 DEF TypeOK, IssAccept
<1>8. ASSUME NEW s \in Ports, SvcStart(s) PROVE TypeOK'
  <2>1. unixQ' \in Seq(Ports)
    <3>1. unixQ' = unixQ \/ unixQ' = Append(unixQ, s)
      BY <1>8 DEF SvcStart, SvcConnect, SvcSocket, SvcListen
    <3> QED
      BY <1>t, <3>1, QueueTypes, ZenonT(60)
  <2>2. svcPc' \in [Ports -> SvcStates]
    BY <1>0, <1>8, ZenonT(60) DEF TypeOK, SvcStart, SvcConnect, SvcSocket, SvcListen
  <2> QED
    BY <1>0, <1>8, <2>1, <2>2 DEF TypeOK, SvcStart, SvcConnect, SvcSocket, SvcListen
<1>9. ASSUME NEW s \in Ports, SvcSigusr1(s) PROVE TypeOK'
  <2>1. toIss' \in [Ports -> Seq(Ports \cup {Stdin})]
    <3> DEFINE d == IF svcPc[s] = "connected" THEN Stdin ELSE s
    <3>1. toIss' = toIss \/ toIss' = [toIss EXCEPT ![s] = Append(@, d)]
      BY <1>9 DEF SvcSigusr1
    <3>2. d \in Ports \cup {Stdin} /\ toIss \in [Ports -> Seq(Ports \cup {Stdin})]
      BY <1>0 DEF TypeOK
    <3>3. Append(toIss[s], d) \in Seq(Ports \cup {Stdin})
      BY <3>2, QueueTypes
    <3> QED
      BY <3>1, <3>2, <3>3
  <2> QED
    BY <1>0, <1>9, <2>1 DEF TypeOK, SvcSigusr1
<1>10. ASSUME NEW s \in Ports, SvcSelect(s) PROVE TypeOK'
  <2>1. svcRdy' \in [Ports -> [sfd : BOOLEAN, usfd : BOOLEAN, cli : SUBSET Nat]]
    <3>1. Asking(s) \subseteq Nat
      BY DEF Asking
    <3> QED
      BY <1>0, <1>10, <3>1 DEF TypeOK, SvcSelect, SfdWatched
  <2> QED
    BY <1>0, <1>10, <2>1 DEF TypeOK, SvcSelect
<1>11. ASSUME NEW s \in Ports, SvcAccept(s) PROVE TypeOK'
  <2>1. nsfd' \in [Ports -> Seq(Clients)] /\ backlog' \in [Ports -> Seq(Clients)]
    <3>1. CASE backlog[s] # <<>>
      <4>1. Head(backlog[s]) \in Clients /\ Tail(backlog[s]) \in Seq(Clients)
        BY <1>0, <3>1 DEF TypeOK
      <4>2. Append(nsfd[s], Head(backlog[s])) \in Seq(Clients)
        BY <1>0, <4>1, QueueTypes DEF TypeOK
      <4> QED
        BY <1>t, <1>11, <4>1, <4>2 DEF SvcAccept, Store
    <3> QED
      BY <1>0, <1>11, <3>1 DEF TypeOK, SvcAccept
  <2> QED
    BY <1>0, <1>11, <2>1 DEF TypeOK, SvcAccept
<1>12. ASSUME NEW s \in Ports, SvcRecvFd(s) PROVE TypeOK'
  <2>1. nsfd' \in [Ports -> Seq(Clients)] /\ toSvc' \in [Ports -> Seq(Clients)]
    <3>1. CASE toSvc[s] # <<>>
      <4>1. Head(toSvc[s]) \in Clients /\ Tail(toSvc[s]) \in Seq(Clients)
        BY <1>0, <3>1 DEF TypeOK
      <4>2. Append(nsfd[s], Head(toSvc[s])) \in Seq(Clients)
        BY <1>0, <4>1, QueueTypes DEF TypeOK
      <4> QED
        BY <1>t, <1>12, <4>1, <4>2 DEF SvcRecvFd, Store
    <3> QED
      BY <1>0, <1>12, <3>1 DEF TypeOK, SvcRecvFd
  <2> QED
    BY <1>0, <1>12, <2>1 DEF TypeOK, SvcRecvFd
<1>13. ASSUME NEW s \in Ports, SvcServe(s) PROVE TypeOK'
  <2> DEFINE i == Min(svcRdy[s].cli)
  <2>1. i \in 1..Len(nsfd[s])
    BY <1>0, <1>13, MinIsMember DEF ReadyInv, SvcServe, TypeOK
  <2>2. cap' \in Seq(Ports)
    BY <1>0, <1>13, <2>1, HeldHasPort, EmitType DEF SvcServe
  <2>3. svcRdy' \in [Ports -> [sfd : BOOLEAN, usfd : BOOLEAN, cli : SUBSET Nat]]
    <3>1. svcRdy' = [svcRdy EXCEPT ![s].cli = @ \ {i}]
      BY <1>13 DEF SvcServe
    <3>2. svcRdy \in [Ports -> [sfd : BOOLEAN, usfd : BOOLEAN, cli : SUBSET Nat]]
      BY <1>0 DEF TypeOK
    <3> HIDE DEF i
    <3> QED
      BY <3>1, <3>2
  <2> QED
    BY <1>0, <1>13, <2>2, <2>3 DEF TypeOK, SvcServe
<1>14. ASSUME NEW s \in Ports, SvcPassDone(s) PROVE TypeOK'
  BY <1>0, <1>14 DEF TypeOK, SvcPassDone
<1>15. ASSUME NEW c \in Clients, NEW p \in Ports, CliConnect(c, p) PROVE TypeOK'
  <2>1. cap' \in Seq(Ports)
    BY <1>0, <1>15, EmitType DEF CliConnect
  <2>2. backlog' \in [Ports -> Seq(Clients)]
    <3>1. backlog' = backlog \/ backlog' = [backlog EXCEPT ![p] = Append(@, c)]
      BY <1>15 DEF CliConnect
    <3>2. backlog \in [Ports -> Seq(Clients)] /\ Append(backlog[p], c) \in Seq(Clients)
      BY <1>0, QueueTypes DEF TypeOK
    <3> QED
      BY <3>1, <3>2
  <2>3. cli' \in [Clients -> CliStates] /\ cport' \in [Clients -> Ports \cup {NoPort}]
    BY <1>t, <1>15 DEF CliConnect
  <2>4. UNCHANGED <<issVars, tracer, sent, svcVars, fifo, unixVars>>
    BY <1>15 DEF CliConnect
  <2> QED
    BY <1>0, <2>1, <2>2, <2>3, <2>4 DEF TypeOK
<1>16. ASSUME NEW c \in Clients, CliSend(c) PROVE TypeOK'
  <2>1. cport[c] \in Ports
    BY <1>0, <1>16 DEF TypeOK, ClientInv, CliSend
  <2>2. cap' \in Seq(Ports)
    BY <1>0, <1>16, <2>1, EmitType DEF CliSend
  <2> QED
    BY <1>0, <1>16, <2>2 DEF TypeOK, CliSend
<1>17. ASSUME NEW c \in Clients, CliRead(c) PROVE TypeOK'
  BY <1>0, <1>17 DEF TypeOK, CliRead
<1>18. CASE UNCHANGED vars
  BY <1>0, <1>18 DEF TypeOK, vars
<1> QED
  BY <1>1, <1>2, <1>3, <1>4, <1>5, <1>6, <1>7, <1>8, <1>9, <1>10, <1>11, <1>12,
     <1>13, <1>14, <1>15, <1>16, <1>17, <1>18
     DEF Next, TracerStep, IssLoop, SvcLoop, CliStep
-----------------------------------------------------------------------------
\* Every step keeps clients and ports together.
LEMMA ClientStep == Inv /\ [Next]_vars => ClientInv'
<1> SUFFICES ASSUME Inv, [Next]_vars PROVE ClientInv'
  OBVIOUS
<1>0. TypeOK /\ ClientInv /\ HolderInv /\ ReadyInv
  BY DEF Inv
<1>t. cli \in [Clients -> CliStates] /\ cport \in [Clients -> Ports \cup {NoPort}]
  BY <1>0, QueuesTyped
<1>1. ASSUME UNCHANGED cliVars PROVE ClientInv'
  BY <1>0, <1>1 DEF ClientInv, cliVars
<1>2. ASSUME NEW s \in Ports, SvcServe(s) PROVE ClientInv'
  <2> DEFINE c == nsfd[s][Min(svcRdy[s].cli)]
  <2>1. Min(svcRdy[s].cli) \in 1..Len(nsfd[s])
    BY <1>0, <1>2, MinIsMember DEF ReadyInv, SvcServe, TypeOK
  <2>2. c \in Clients /\ cport[c] # NoPort
    BY <1>0, <2>1, HeldHasPort, PortsAssumption
  <2>3. cli' = [cli EXCEPT ![c] = "rep"] /\ cport' = cport
    BY <1>2 DEF SvcServe
  <2> HIDE DEF c
  <2> QED
    BY <1>0, <1>t, <2>2, <2>3 DEF ClientInv
<1>3. ASSUME NEW c \in Clients, NEW p \in Ports, CliConnect(c, p) PROVE ClientInv'
  BY <1>0, <1>t, <1>3, PortsAssumption DEF ClientInv, CliConnect
<1>4. ASSUME NEW c \in Clients, CliSend(c) \/ CliRead(c) PROVE ClientInv'
  BY <1>0, <1>t, <1>4 DEF ClientInv, CliSend, CliRead
<1>5. CASE TracerStep \/ IssStart \/ IssLoop \/ IssSigint \/ UNCHANGED vars
  BY <1>1, <1>5 DEF TracerStep, FifoOpen, PcapOpen, PacketHandler, IssStart, IssLoop,
       IssSelect, IssRegister, IssReport, IssRecvFd, IssAccept, IssPassDone, IssSigint,
       vars
<1>6. ASSUME NEW s \in Ports, \/ SvcStart(s) \/ SvcSigusr1(s) \/ SvcSelect(s)
                              \/ SvcAccept(s) \/ SvcRecvFd(s) \/ SvcPassDone(s)
      PROVE  ClientInv'
  BY <1>1, <1>6 DEF SvcStart, SvcConnect, SvcSocket, SvcListen, SvcSigusr1, SvcSelect,
       SvcAccept, SvcRecvFd, SvcPassDone
<1> QED
  BY <1>2, <1>3, <1>4, <1>5, <1>6 DEF Next, SvcLoop, CliStep
-----------------------------------------------------------------------------
\* Every step keeps the queue of new services, reg[] and map[] as RegInv says.
LEMMA RegStep == Inv /\ [Next]_vars => RegInv'
<1> SUFFICES ASSUME Inv, [Next]_vars PROVE RegInv'
  OBVIOUS
<1>0. TypeOK /\ RegInv /\ ReadyInv
  BY DEF Inv
<1>t. /\ unixQ \in Seq(Ports) /\ reg \in Seq(Ports) /\ svcPc \in [Ports -> SvcStates]
      /\ map \in [Ports -> Nat]
  BY <1>0, QueuesTyped DEF TypeOK
\* A service that has been started stays started.
<1>1. ASSUME UNCHANGED <<unixQ, reg, map>>,
             \A s \in Ports : svcPc[s] # "off" => svcPc'[s] # "off"
      PROVE  RegInv'
  <2>1. \A n \in 1..Len(unixQ) : unixQ[n] \in Ports
    BY <1>t
  <2>2. \A n \in 1..Len(reg) : reg[n] \in Ports
    BY <1>t
  <2> QED
    BY <1>0, <1>1, <2>1, <2>2 DEF RegInv
<1>2. CASE TracerStep \/ IssStart \/ IssSelect \/ IssReport \/ IssRecvFd \/ IssAccept
             \/ IssPassDone \/ IssSigint \/ UNCHANGED vars
  BY <1>1, <1>2 DEF TracerStep, FifoOpen, PcapOpen, PacketHandler, IssStart, IssSelect,
       IssReport, IssRecvFd, IssAccept, IssPassDone, IssSigint, vars, issVars, svcVars,
       unixVars
<1>3. CASE IssRegister
  <2>1. CASE ~issRdy.usfd
    BY <1>1, <1>3, <2>1 DEF IssRegister, svcVars
  <2>2. CASE issRdy.usfd
    <3> DEFINE h == Head(unixQ)
    <3>1. unixQ # <<>> /\ UNCHANGED svcPc
      BY <1>0, <1>3, <2>2 DEF ReadyInv, IssRegister, svcVars
    <3>2. reg' = Append(reg, h) /\ unixQ' = Tail(unixQ)
          /\ map' = [map EXCEPT ![h] = Len(reg) + 1]
      BY <1>3, <2>2 DEF IssRegister, NewIndex
    <3>3. /\ 1 \in 1..Len(unixQ) /\ h = unixQ[1] /\ h \in Ports /\ Len(unixQ) \in Nat
          /\ Len(unixQ') = Len(unixQ) - 1
          /\ \A n \in 1..Len(unixQ') : n + 1 \in 1..Len(unixQ) /\ unixQ'[n] = unixQ[n + 1]
      BY <1>t, <3>1, <3>2
    <3>4. /\ Len(reg) \in Nat /\ Len(reg') = Len(reg) + 1 /\ reg'[Len(reg) + 1] = h
          /\ \A n \in 1..Len(reg) : reg'[n] = reg[n] /\ reg[n] \in Ports
      BY <1>t, <3>2, <3>3
    <3>5. /\ map'[h] = Len(reg) + 1
          /\ \A p \in Ports : p # h => map'[p] = map[p]
      BY <1>t, <3>2, <3>3
    <3> HIDE DEF h
    <3>6. \A n \in 1..Len(unixQ') : svcPc'[unixQ'[n]] # "off"
      BY <1>0, <3>1, <3>3 DEF RegInv
    <3>7. \A n \in 1..Len(reg') : svcPc'[reg'[n]] # "off" /\ map'[reg'[n]] = n
      <4> TAKE n \in 1..Len(reg')
      <4>1. CASE n = Len(reg) + 1
        BY <1>0, <3>1, <3>3, <3>4, <3>5, <4>1 DEF RegInv
      <4>2. CASE n # Len(reg) + 1
        <5>1. n \in 1..Len(reg) /\ reg'[n] = reg[n] /\ reg[n] \in Ports
          BY <3>4, <4>2
        <5>2. reg[n] # h
          BY <1>0, <3>3, <5>1 DEF RegInv
        <5> QED
          BY <1>0, <3>1, <3>5, <5>1, <5>2 DEF RegInv
      <4> QED
        BY <4>1, <4>2
    <3>8. \A n, m \in 1..Len(unixQ') : unixQ'[n] = unixQ'[m] => n = m
      <4> TAKE n, m \in 1..Len(unixQ')
      <4> HAVE unixQ'[n] = unixQ'[m]
      <4>1. n + 1 = m + 1
        BY <1>0, <3>3 DEF RegInv
      <4> QED
        BY <3>3, <4>1
    <3>9. \A n \in 1..Len(unixQ') : \A m \in 1..Len(reg') : unixQ'[n] # reg'[m]
      <4> TAKE n \in 1..Len(unixQ')
      <4> TAKE m \in 1..Len(reg')
      <4>1. n + 1 \in 1..Len(unixQ) /\ unixQ'[n] = unixQ[n + 1] /\ n + 1 # 1
        BY <3>3
      <4>2. CASE m = Len(reg) + 1
        BY <1>0, <3>3, <3>4, <4>1, <4>2 DEF RegInv
      <4>3. CASE m # Len(reg) + 1
        <5>1. m \in 1..Len(reg) /\ reg'[m] = reg[m]
          BY <3>4, <4>3
        <5> QED
          BY <1>0, <4>1, <5>1 DEF RegInv
      <4> QED
        BY <4>2, <4>3
    <3>10. \A p \in Ports : (\A n \in 1..Len(reg') : reg'[n] # p) => map'[p] = 1
      <4> TAKE p \in Ports
      <4> HAVE \A n \in 1..Len(reg') : reg'[n] # p
      <4>1. p # h
        BY <3>4
      <4>2. \A n \in 1..Len(reg) : reg[n] # p
        BY <3>4
      <4> QED
        BY <1>0, <3>5, <4>1, <4>2 DEF RegInv
    <3> QED
      BY <3>6, <3>7, <3>8, <3>9, <3>10 DEF RegInv
  <2> QED
    BY <2>1, <2>2
<1>4. ASSUME NEW s \in Ports, SvcConnect(s) PROVE RegInv'
  <2>1. CASE UNCHANGED unixQ
    BY <1>1, <1>4, <1>t, <2>1 DEF SvcConnect, issVars
  <2>2. CASE unixQ' = Append(unixQ, s) /\ svcPc' = [svcPc EXCEPT ![s] = "connected"]
    <3>1. svcPc[s] = "off" /\ UNCHANGED <<reg, map>>
      BY <1>4 DEF SvcConnect, issVars
    <3>2. /\ Len(unixQ) \in Nat /\ Len(unixQ') = Len(unixQ) + 1
          /\ unixQ'[Len(unixQ) + 1] = s
          /\ \A n \in 1..Len(unixQ) : unixQ'[n] = unixQ[n] /\ unixQ[n] \in Ports
                                      /\ unixQ[n] # s
      BY <1>0, <1>t, <2>2, <3>1 DEF RegInv
    <3>3. \A n \in 1..Len(reg) : reg[n] \in Ports /\ reg[n] # s
      BY <1>0, <1>t, <3>1 DEF RegInv
    <3>4. \A p \in Ports : svcPc[p] # "off" => svcPc'[p] # "off"
      BY <1>t, <2>2
    <3>5. svcPc'[s] # "off"
      BY <1>t, <2>2
    <3>6. \A n \in 1..Len(unixQ') : svcPc'[unixQ'[n]] # "off"
      BY <1>0, <3>2, <3>4, <3>5 DEF RegInv
    <3>7. \A n \in 1..Len(reg) : svcPc'[reg[n]] # "off"
      BY <1>0, <3>3, <3>4 DEF RegInv
    <3>8. \A n, m \in 1..Len(unixQ') : unixQ'[n] = unixQ'[m] => n = m
      BY <1>0, <3>2 DEF RegInv
    <3>9. \A n \in 1..Len(unixQ') : \A m \in 1..Len(reg) : unixQ'[n] # reg[m]
      BY <1>0, <3>2, <3>3 DEF RegInv
    <3> QED
      BY <1>0, <3>1, <3>6, <3>7, <3>8, <3>9 DEF RegInv
  <2> QED
    BY <1>4, <2>1, <2>2 DEF SvcConnect
<1>5. ASSUME NEW s \in Ports, \/ SvcSocket(s) \/ SvcListen(s) \/ SvcSigusr1(s) \/ SvcLoop(s)
      PROVE  RegInv'
  <2>1. UNCHANGED <<unixQ, reg, map>>
    BY <1>5 DEF SvcSocket, SvcListen, SvcSigusr1, SvcLoop, SvcSelect, SvcAccept,
         SvcRecvFd, SvcServe, SvcPassDone, issVars, unixVars
  <2>2. \A p \in Ports : svcPc[p] # "off" => svcPc'[p] # "off"
    BY <1>5, <1>t DEF SvcSocket, SvcListen, SvcSigusr1, SvcLoop, SvcSelect, SvcAccept,
         SvcRecvFd, SvcServe, SvcPassDone
  <2> QED
    BY <1>1, <2>1, <2>2
<1>6. ASSUME NEW c \in Clients, CliStep(c) PROVE RegInv'
  BY <1>1, <1>6 DEF CliStep, CliSend, CliRead, CliConnect, issVars, svcVars, unixVars
<1> QED
  BY <1>2, <1>3, <1>4, <1>5, <1>6 DEF Next, IssLoop, SvcStart
-----------------------------------------------------------------------------
\* Every step keeps what a select reported there.
LEMMA ReadyStep == Inv /\ [Next]_vars => ReadyInv'
<1> SUFFICES ASSUME Inv, [Next]_vars PROVE ReadyInv'
  OBVIOUS
<1>0. TypeOK /\ ReadyInv
  BY DEF Inv
<1>t. /\ unixQ \in Seq(Ports) /\ nsfd \in [Ports -> Seq(Clients)]
      /\ Len(tab) \in Nat /\ issRdy.sfd \subseteq Nat
      /\ \A n \in 1..Len(tab) : tab[n].sock \in Ports \cup {Stdin}
      /\ svcRdy \in [Ports -> [sfd : BOOLEAN, usfd : BOOLEAN, cli : SUBSET Nat]]
  BY <1>0, QueuesTyped DEF TypeOK
\* A step that leaves the tables alone and makes nothing ready.
<1>1. ASSUME unixQ' = unixQ \/ issPc' # "usfd", tab' = tab,
             issPc' = "usfd" => issPc = "usfd",
             issRdy'.sfd \subseteq issRdy.sfd, issRdy'.usfd = issRdy.usfd,
             UNCHANGED <<svcRdy, nsfd>>
      PROVE  ReadyInv'
  BY <1>0, <1>1 DEF ReadyInv
<1>2. CASE TracerStep \/ IssStart \/ IssReport \/ IssPassDone \/ IssSigint
             \/ UNCHANGED vars
  BY <1>1, <1>2 DEF TracerStep, FifoOpen, PcapOpen, PacketHandler, IssStart, IssReport,
       IssPassDone, IssSigint, vars, issVars, svcVars, unixVars
<1>3. CASE IssSelect
  <2>1. /\ issRdy' = [usfd |-> unixQ # <<>>, fifo |-> fifo # <<>> \/ tracer = "dead",
                      sfd |-> {i \in 1..Len(tab) : Readable(tab[i].sock)}]
        /\ UNCHANGED <<unixQ, tab, svcRdy, nsfd>>
    BY <1>3 DEF IssSelect, svcVars, unixVars
  <2>2. issRdy'.usfd = (unixQ' # <<>>)
        /\ \A i \in issRdy'.sfd : i \in 1..Len(tab') /\ tab'[i].sock # Stdin
    BY <2>1 DEF Readable
  <2> QED
    BY <1>0, <2>1, <2>2 DEF ReadyInv
<1>4. CASE IssRegister
  BY <1>1, <1>4 DEF IssRegister, svcVars
<1>5. CASE IssRecvFd
  <2>1. /\ Len(tab') = Len(tab) + 1 /\ \A n \in 1..Len(tab) : tab'[n] = tab[n]
    <3> DEFINE e == [port |-> cur, sock |-> Head(toIss[Target(cur)])]
    <3>1. tab' = Append(tab, e)
      BY <1>5 DEF IssRecvFd
    <3>2. tab \in Seq([port : Ports \cup {NoPort}, sock : Ports \cup {Stdin}])
      BY <1>0 DEF TypeOK
    <3> HIDE DEF e
    <3> QED
      BY <3>1, <3>2
  <2>2. issPc' # "usfd" /\ UNCHANGED <<issRdy, svcRdy, nsfd>>
    BY <1>5 DEF IssRecvFd, svcVars
  <2>3. \A i \in issRdy.sfd : i \in 1..Len(tab') /\ tab'[i].sock # Stdin
    BY <1>0, <1>t, <2>1 DEF ReadyInv
  <2>4. \A s \in Ports : svcRdy'[s].cli \subseteq 1..Len(nsfd'[s])
    BY <1>0, <2>2 DEF ReadyInv
  <2> QED
    BY <2>2, <2>3, <2>4 DEF ReadyInv
<1>6. CASE IssAccept
  <2>1. issRdy \in [usfd : BOOLEAN, fifo : BOOLEAN, sfd : SUBSET Nat]
    BY <1>0 DEF TypeOK
  <2>2. issRdy'.sfd \subseteq issRdy.sfd /\ issRdy'.usfd = issRdy.usfd
    BY <1>6, <2>1 DEF IssAccept
  <2> QED
    BY <1>1, <1>6, <2>2 DEF IssAccept, svcVars
<1>7. ASSUME NEW s \in Ports,
             SvcStart(s) \/ SvcSigusr1(s) \/ SvcPassDone(s)
      PROVE  ReadyInv'
  <2>1. UNCHANGED <<issPc, issRdy, tab, svcRdy, nsfd>>
    BY <1>7 DEF SvcStart, SvcConnect, SvcSocket, SvcListen, SvcSigusr1, SvcPassDone,
         issVars, svcVars
  <2>2. unixQ # <<>> => unixQ' # <<>>
    <3>1. unixQ' = unixQ \/ unixQ' = Append(unixQ, s)
      BY <1>7 DEF SvcStart, SvcConnect, SvcSocket, SvcListen, SvcSigusr1, SvcPassDone,
           unixVars
    <3> QED
      BY <1>t, <3>1
  <2> QED
    BY <1>0, <2>1, <2>2 DEF ReadyInv
<1>8. ASSUME NEW s \in Ports, SvcSelect(s) PROVE ReadyInv'
  <2>1. /\ UNCHANGED <<issPc, issRdy, tab, unixQ, nsfd>>
        /\ svcRdy' = [svcRdy EXCEPT ![s] =
             [sfd  |-> SfdWatched(s) /\ backlog[s] # <<>>,
              usfd |-> toSvc[s] # <<>> \/ issPc = "exited", cli  |-> Asking(s)]]
    BY <1>8 DEF SvcSelect, issVars, unixVars
  <2>2. svcRdy'[s].cli = Asking(s) /\ \A p \in Ports \ {s} : svcRdy'[p] = svcRdy[p]
    BY <1>t, <2>1
  <2>3. Asking(s) \subseteq 1..Len(nsfd[s])
    BY DEF Asking
  <2> QED
    BY <1>0, <2>1, <2>2, <2>3 DEF ReadyInv
<1>9. ASSUME NEW s \in Ports, SvcAccept(s) \/ SvcRecvFd(s) PROVE ReadyInv'
  <2>1. UNCHANGED <<issPc, issRdy, tab, unixQ, svcRdy>>
    BY <1>9 DEF SvcAccept, SvcRecvFd, issVars, unixVars
  <2>2. \/ nsfd' = nsfd
        \/ \E c : nsfd' = [nsfd EXCEPT ![s] = Append(@, c)]
    BY <1>9 DEF SvcAccept, SvcRecvFd, Store
  <2>3. \A p \in Ports : 1..Len(nsfd[p]) \subseteq 1..Len(nsfd'[p])
    <3>1. ASSUME NEW c, nsfd' = [nsfd EXCEPT ![s] = Append(@, c)],
                 NEW p \in Ports
          PROVE  1..Len(nsfd[p]) \subseteq 1..Len(nsfd'[p])
      <4>1. Len(nsfd[p]) \in Nat /\ (nsfd'[p] = nsfd[p] \/ nsfd'[p] = Append(nsfd[p], c))
        BY <1>t, <3>1
      <4>2. Len(Append(nsfd[p], c)) = Len(nsfd[p]) + 1
        BY <1>t
      <4> QED
        BY <4>1, <4>2
    <3> QED
      BY <2>2, <3>1
  <2>4. \A p \in Ports : svcRdy[p].cli \subseteq 1..Len(nsfd'[p])
    BY <1>0, <2>3 DEF ReadyInv
  <2> QED
    BY <1>0, <2>1, <2>4 DEF ReadyInv
<1>10. ASSUME NEW s \in Ports, SvcServe(s) PROVE ReadyInv'
  <2> DEFINE i == Min(svcRdy[s].cli)
  <2>1. UNCHANGED <<issPc, issRdy, tab, unixQ, nsfd>>
        /\ svcRdy' = [svcRdy EXCEPT ![s].cli = @ \ {i}]
    BY <1>10 DEF SvcServe, issVars, unixVars
  <2> HIDE DEF i
  <2>2. \A p \in Ports : svcRdy'[p].cli \subseteq svcRdy[p].cli
    BY <1>t, <2>1
  <2> QED
    BY <1>0, <2>1, <2>2 DEF ReadyInv
<1>11. ASSUME NEW c \in Clients, CliStep(c) PROVE ReadyInv'
  BY <1>1, <1>11 DEF CliStep, CliSend, CliRead, CliConnect, issVars, svcVars, unixVars
<1> QED
  BY <1>2, <1>3, <1>4, <1>5, <1>6, <1>7, <1>8, <1>9, <1>10, <1>11
     DEF Next, IssLoop, SvcLoop
-----------------------------------------------------------------------------
\* Target depends on reg and map only.
LEMMA TargetKept ==
  ASSUME UNCHANGED <<reg, map>>
  PROVE  \A p : Target(p)' = Target(p)
BY DEF Target

\* Every step keeps one answer per report.
LEMMA AnswerStep == Inv /\ [Next]_vars => AnswerInv'
<1> SUFFICES ASSUME Inv, [Next]_vars PROVE AnswerInv'
  OBVIOUS
<1>0. TypeOK /\ RegInv /\ AnswerInv
  BY DEF Inv
<1>t. /\ toIss \in [Ports -> Seq(Ports \cup {Stdin})] /\ sig \in [Ports -> BOOLEAN]
      /\ cur \in Ports \cup {NoPort}
      /\ \A s \in Ports : Len(toIss[s]) \in Nat
  BY <1>0, QueuesTyped, SMTT(30) DEF TypeOK
<1>1. ASSUME UNCHANGED <<issPc, cur, reg, map, sig, toIss>> PROVE AnswerInv'
  BY <1>0, <1>1, TargetKept DEF AnswerInv, OneAnswerPerReport
\* ISS is not waiting for an answer before and after the step.
<1>2. ASSUME issPc \notin {"recvfd", "exited"}, issPc' # "recvfd", UNCHANGED <<sig, toIss>>
      PROVE  AnswerInv'
  BY <1>0, <1>2 DEF AnswerInv, OneAnswerPerReport
<1>3. CASE TracerStep \/ UNCHANGED vars
  <2>1. CASE FifoOpen
    BY <1>2, <2>1 DEF FifoOpen, unixVars
  <2>2. CASE PcapOpen \/ PacketHandler \/ UNCHANGED vars
    BY <1>1, <2>2 DEF PcapOpen, PacketHandler, vars, issVars, unixVars
  <2> QED
    BY <1>3, <2>1, <2>2 DEF TracerStep
<1>4. CASE IssStart \/ IssSelect \/ IssRegister \/ IssAccept \/ IssPassDone
  BY <1>2, <1>4 DEF IssStart, IssSelect, IssRegister, IssAccept, IssPassDone, unixVars
<1>5. CASE IssSigint
  BY <1>0, <1>5 DEF IssSigint, AnswerInv, OneAnswerPerReport, unixVars
<1>6. CASE IssReport
  <2>1. issPc = "fifo" /\ UNCHANGED <<reg, map, toIss>>
    BY <1>6 DEF IssReport
  <2>2. CASE sig' = sig /\ issPc' # "recvfd"
    BY <1>2, <2>1, <2>2
  <2>3. CASE /\ issRdy.fifo /\ Report /\ reg # <<>> /\ issPc' = "recvfd"
             /\ sig' = [sig EXCEPT ![Signalled(cur')] = TRUE]
    <3> DEFINE s == Target(cur')
    <3>1. \A p \in Ports : ~sig[p] /\ toIss[p] = <<>>
      BY <1>0, <2>1 DEF AnswerInv, OneAnswerPerReport
    <3>2. Target(cur)' = s
      BY <2>1 DEF Target
    <3>3. sig' = [sig EXCEPT ![s] = TRUE]
      BY <2>3 DEF Signalled
    <3> HIDE DEF s
    <3>4. \A p \in Ports : sig'[p] => p = s
      BY <1>t, <3>1, <3>3
    <3> QED
      BY <1>t, <2>1, <2>3, <3>1, <3>2, <3>4 DEF AnswerInv, OneAnswerPerReport
  <2> QED
    BY <1>6, <2>2, <2>3 DEF IssReport
<1>7. CASE IssRecvFd
  <2> DEFINE s == Target(cur)
  <2>1. /\ issPc = "recvfd" /\ issPc' = "accept" /\ toIss[s] # <<>>
        /\ toIss' = [toIss EXCEPT ![s] = Tail(@)] /\ sig' = sig
    BY <1>7 DEF IssRecvFd
  <2> HIDE DEF s
  <2>2. \A p \in Ports : sig[p] \/ toIss[p] # <<>> => p = s
    BY <1>0, <2>1 DEF AnswerInv, OneAnswerPerReport, s
  <2>3. s \in Ports
    BY <1>0, <1>t, <2>1, TargetIs DEF AnswerInv, s
  <2>4. ~sig[s] /\ Len(toIss[s]) <= 1 /\ toIss[s] \in Seq(Ports \cup {Stdin})
    <3>1. Len(toIss[s]) + (IF sig[s] THEN 1 ELSE 0) <= 1
      BY <1>0, <2>3 DEF AnswerInv, OneAnswerPerReport
    <3>2. toIss[s] \in Seq(Ports \cup {Stdin}) /\ Len(toIss[s]) \in Nat \ {0}
      BY <1>t, <2>1, <2>3, EmptySeq
    <3>3. CASE sig[s]
      BY <3>1, <3>2, <3>3
    <3>4. CASE ~sig[s]
      BY <3>1, <3>2, <3>4
    <3> QED
      BY <3>3, <3>4
  <2>5. toIss'[s] = <<>>
    <3>1. toIss'[s] = Tail(toIss[s])
      BY <1>t, <2>1, <2>3
    <3> QED
      BY <2>1, <2>4, <3>1, QueueOfOne
  <2>6. \A p \in Ports : toIss'[p] = <<>> /\ ~sig'[p]
    BY <1>t, <2>1, <2>2, <2>3, <2>4, <2>5
  <2>7. \A p \in Ports : Len(toIss'[p]) = 0 /\ \A n \in 1..Len(toIss'[p]) : FALSE
    BY <2>6
  <2>8. \A p \in Ports : Len(toIss'[p]) + (IF sig'[p] THEN 1 ELSE 0) <= 1
    <3> TAKE p \in Ports
    <3>1. (IF sig'[p] THEN 1 ELSE 0) = 0 /\ Len(toIss'[p]) = 0
      BY <2>6, <2>7
    <3> QED
      BY <3>1
  <2> QED
    BY <2>1, <2>6, <2>7, <2>8 DEF AnswerInv, OneAnswerPerReport
<1>8. ASSUME NEW s \in Ports, SvcStart(s) \/ SvcLoop(s) PROVE AnswerInv'
  BY <1>1, <1>8 DEF SvcStart, SvcConnect, SvcSocket, SvcListen, SvcLoop, SvcSelect,
       SvcAccept, SvcRecvFd, SvcServe, SvcPassDone, issVars, unixVars
<1>9. ASSUME NEW s \in Ports, SvcSigusr1(s) PROVE AnswerInv'
  <2>1. sig[s] /\ sig' = [sig EXCEPT ![s] = FALSE] /\ UNCHANGED <<issPc, cur, reg, map>>
    BY <1>9 DEF SvcSigusr1, issVars
  <2>2. Len(toIss[s]) = 0
    BY <1>0, <1>t, <2>1 DEF AnswerInv, OneAnswerPerReport
  <2>3. CASE UNCHANGED toIss
    BY <1>0, <1>t, <2>1, <2>3, TargetKept DEF AnswerInv, OneAnswerPerReport
  <2>4. CASE toIss' # toIss
    <3> DEFINE d == IF svcPc[s] = "connected" THEN Stdin ELSE s
    <3>1. issPc # "exited" /\ toIss' = [toIss EXCEPT ![s] = Append(@, d)]
      BY <1>9, <2>4 DEF SvcSigusr1
    <3>2. d \in {s, Stdin}
      OBVIOUS
    <3> HIDE DEF d
    <3>3. toIss'[s] = Append(toIss[s], d) /\ toIss[s] \in Seq(Ports \cup {Stdin})
      BY <1>t, <3>1
    <3>4. Len(toIss'[s]) = 1 /\ toIss'[s][1] = d
      BY <2>2, <3>3
    <3>5. \A p \in Ports \ {s} : toIss'[p] = toIss[p] /\ sig'[p] = sig[p]
      BY <1>t, <2>1, <3>1
    <3>6. ~sig'[s]
      BY <1>t, <2>1
    <3>7. issPc' = "recvfd" /\ Target(cur)' = s
      <4>1. Target(cur)' = Target(cur)
        BY <2>1 DEF Target
      <4> QED
        BY <1>0, <2>1, <3>1, <4>1 DEF AnswerInv, OneAnswerPerReport
    <3>8. \A p \in Ports \ {s} : ~sig[p] /\ toIss[p] = <<>>
      BY <1>0, <2>1, <3>1, <3>7, TargetKept DEF AnswerInv, OneAnswerPerReport
    <3>9. OneAnswerPerReport'
      <4>1. \A p \in Ports \ {s} : ~sig'[p] /\ toIss'[p] = <<>> /\ Len(toIss'[p]) = 0
        BY <3>5, <3>8
      <4>2. \A p \in Ports : Len(toIss'[p]) + (IF sig'[p] THEN 1 ELSE 0) <= 1
        <5> TAKE p \in Ports
        <5>1. (IF sig'[p] THEN 1 ELSE 0) = 0
          BY <3>6, <4>1
        <5>2. Len(toIss'[p]) = 0 \/ Len(toIss'[p]) = 1
          BY <3>4, <4>1
        <5>3. \A a, b : (a = 0 \/ a = 1) /\ b = 0 => a + b <= 1
          OBVIOUS
        <5> QED
          BY <5>1, <5>2, <5>3, Zenon
      <4> QED
        BY <3>7, <4>1, <4>2 DEF OneAnswerPerReport
    <3>10. \A p \in Ports : \A n \in 1..Len(toIss'[p]) : toIss'[p][n] \in {p, Stdin}
      BY <1>0, <3>2, <3>4, <3>5 DEF AnswerInv
    <3> QED
      BY <1>0, <2>1, <3>9, <3>10 DEF AnswerInv
  <2> QED
    BY <2>3, <2>4
<1>10. ASSUME NEW c \in Clients, CliStep(c) PROVE AnswerInv'
  BY <1>1, <1>10 DEF CliStep, CliSend, CliRead, CliConnect, issVars, unixVars
<1> QED
  BY <1>3, <1>4, <1>5, <1>6, <1>7, <1>8, <1>9, <1>10 DEF Next, IssLoop
-----------------------------------------------------------------------------
\* Every step keeps the stored descriptors the first service's or the port's.
LEMMA TabStep == Inv /\ [Next]_vars => TabInv'
<1> SUFFICES ASSUME Inv, [Next]_vars PROVE TabInv'
  OBVIOUS
<1>0. TypeOK /\ RegInv /\ AnswerInv /\ TabInv
  BY DEF Inv
<1>t. /\ reg \in Seq(Ports) /\ cur \in Ports \cup {NoPort}
      /\ toIss \in [Ports -> Seq(Ports \cup {Stdin})]
  BY <1>0, QueuesTyped DEF TypeOK
<1>1. ASSUME UNCHANGED <<reg, tab>> PROVE TabInv'
  BY <1>0, <1>1 DEF TabInv
<1>2. CASE IssRegister
  <2>1. tab' = tab /\ (reg' = reg \/ reg' = Append(reg, Head(unixQ)))
    BY <1>2 DEF IssRegister
  <2>2. CASE reg' = Append(reg, Head(unixQ))
    <3>1. /\ Len(reg) \in Nat /\ Len(reg') = Len(reg) + 1
          /\ \A n \in 1..Len(reg) : n \in 1..Len(reg') /\ reg'[n] = reg[n]
      BY <1>t, <2>2
    <3>2. reg # <<>> => reg' # <<>> /\ reg'[1] = reg[1]
      <4> HAVE reg # <<>>
      <4>1. 1 \in 1..Len(reg)
        BY <1>t
      <4>2. Len(reg') # 0 /\ reg'[1] = reg[1]
        BY <3>1, <4>1
      <4> QED
        BY <4>2
    <3> QED
      BY <1>0, <2>1, <3>1, <3>2 DEF TabInv
  <2> QED
    BY <1>1, <2>1, <2>2
<1>3. CASE IssRecvFd
  <2> DEFINE s == Target(cur)
             d == Head(toIss[s])
  <2>1. /\ reg # <<>> /\ reg' = reg /\ toIss[s] # <<>>
        /\ tab' = Append(tab, [port |-> cur, sock |-> d])
    BY <1>0, <1>3 DEF IssRecvFd, AnswerInv
  <2>2. /\ s \in Ports
        /\ s = reg[1] \/ (s = cur /\ \E n \in 1..Len(reg) : reg[n] = cur)
    BY <1>0, <1>t, <2>1, TargetIs
  <2>3. d \in {s, Stdin}
    <3>1. toIss[s] \in Seq(Ports \cup {Stdin})
      BY <1>t, <2>2
    <3>2. 1 \in 1..Len(toIss[s]) /\ d = toIss[s][1]
      BY <2>1, <3>1
    <3> HIDE DEF s
    <3> QED
      BY <1>0, <2>2, <3>2 DEF AnswerInv
  <2>4. /\ Len(tab) \in Nat /\ Len(tab') = Len(tab) + 1
        /\ tab'[Len(tab) + 1] = [port |-> cur, sock |-> d]
        /\ \A n \in 1..Len(tab) : tab'[n] = tab[n]
    <3> DEFINE e == [port |-> cur, sock |-> d]
               T == [port : Ports \cup {NoPort}, sock : Ports \cup {Stdin}]
    <3>1. tab \in Seq(T) /\ tab' = Append(tab, e)
      BY <1>0, <2>1 DEF TypeOK
    <3> HIDE DEF e, T
    <3>2. /\ Len(tab) \in Nat /\ Len(tab') = Len(tab) + 1 /\ tab'[Len(tab) + 1] = e
          /\ \A n \in 1..Len(tab) : tab'[n] = tab[n]
      BY <3>1
    <3> QED
      BY <3>2 DEF e
  <2> HIDE DEF s, d
  <2>5. /\ tab'[Len(tab) + 1].port = cur /\ tab'[Len(tab) + 1].sock = d
    BY <2>4
  <2> QED
    BY <1>0, <2>1, <2>2, <2>3, <2>4, <2>5 DEF TabInv
<1>4. CASE TracerStep \/ IssStart \/ IssSelect \/ IssReport \/ IssAccept \/ IssPassDone
             \/ IssSigint \/ UNCHANGED vars
  BY <1>1, <1>4 DEF TracerStep, FifoOpen, PcapOpen, PacketHandler, IssStart, IssSelect,
       IssReport, IssAccept, IssPassDone, IssSigint, vars, issVars
<1>5. ASSUME NEW s \in Ports, SvcStart(s) \/ SvcSigusr1(s) \/ SvcLoop(s) PROVE TabInv'
  BY <1>1, <1>5 DEF SvcStart, SvcConnect, SvcSocket, SvcListen, SvcSigusr1, SvcLoop,
       SvcSelect, SvcAccept, SvcRecvFd, SvcServe, SvcPassDone, issVars
<1>6. ASSUME NEW c \in Clients, CliStep(c) PROVE TabInv'
  BY <1>1, <1>6 DEF CliStep, CliSend, CliRead, CliConnect, issVars
<1> QED
  BY <1>2, <1>3, <1>4, <1>5, <1>6 DEF Next, IssLoop
-----------------------------------------------------------------------------
\* What ISS accepts: the next client of a service's backlog, which it hands
\* to a service that is the right one unless the client's port is the first's.
LEMMA AcceptIs ==
  ASSUME Inv, IssAccept
  PROVE  \/ UNCHANGED <<toSvc, backlog>>
         \/ \E d, s \in Ports :
              /\ backlog[d] # <<>>
              /\ toSvc' = [toSvc EXCEPT ![s] = Append(@, Head(backlog[d]))]
              /\ backlog' = [backlog EXCEPT ![d] = Tail(@)]
              /\ s = d \/ (reg # <<>> /\ d = reg[1])
<1> DEFINE i == Min(issRdy.sfd)
           d == tab[i].sock
           s == Receiver(tab[i].port)
<1>0. TypeOK /\ RegInv /\ ReadyInv /\ TabInv
  BY DEF Inv
<1> SUFFICES ASSUME ~UNCHANGED <<toSvc, backlog>>
             PROVE  /\ d \in Ports /\ s \in Ports
                    /\ backlog[d] # <<>>
                    /\ toSvc' = [toSvc EXCEPT ![s] = Append(@, Head(backlog[d]))]
                    /\ backlog' = [backlog EXCEPT ![d] = Tail(@)]
                    /\ s = d \/ (reg # <<>> /\ d = reg[1])
  OBVIOUS
<1>1. /\ issRdy.sfd # {} /\ backlog[d] # <<>>
      /\ toSvc' = [toSvc EXCEPT ![s] = Append(@, Head(backlog[d]))]
      /\ backlog' = [backlog EXCEPT ![d] = Tail(@)]
  BY DEF IssAccept
<1>2. issRdy.sfd \subseteq Nat
  BY <1>0 DEF TypeOK
<1>3. i \in issRdy.sfd
  BY <1>1, <1>2, MinIsMember
<1> HIDE DEF i
<1>4. i \in 1..Len(tab) /\ tab[i].sock # Stdin
  BY <1>0, <1>3 DEF ReadyInv
<1>5. d \in Ports /\ tab[i].port \in Ports \cup {NoPort}
  BY <1>0, <1>4, QueuesTyped
<1>6. reg # <<>> /\ (d = reg[1] \/ (d = tab[i].port /\ \E n \in 1..Len(reg) : reg[n] = d))
  BY <1>0, <1>4 DEF TabInv
<1>7. s \in Ports
  BY <1>0, <1>5, <1>6, TargetIs DEF Receiver
<1>8. s = d \/ d = reg[1]
  BY <1>0, <1>5, <1>6, TargetIs DEF Receiver
<1> HIDE DEF d, s
<1> QED
  BY <1>1, <1>5, <1>6, <1>7, <1>8

\* A step that changes no queue of clients, forgets no port, and keeps the
\* first service keeps the routes.
LEMMA RouteStep == Inv /\ [Next]_vars => RouteInv'
<1> SUFFICES ASSUME Inv, [Next]_vars PROVE RouteInv'
  OBVIOUS
<1>0. TypeOK /\ RouteInv /\ ClientInv /\ HolderInv
  BY DEF Inv
<1>t. /\ reg \in Seq(Ports)
      /\ nsfd \in [Ports -> Seq(Clients)] /\ toSvc \in [Ports -> Seq(Clients)]
      /\ backlog \in [Ports -> Seq(Clients)]
      /\ cport \in [Clients -> Ports \cup {NoPort}]
  BY <1>0, QueuesTyped
<1>1. ASSUME UNCHANGED <<reg, nsfd, toSvc, backlog, cport>> PROVE RouteInv'
  BY <1>0, <1>1 DEF RouteInv, Rightful
\* The first element of a queue moves to the end of another.
<1>2. ASSUME NEW q \in Seq(Clients), NEW q2 \in Seq(Clients), q2 # <<>>
      PROVE  /\ \A n \in 1..Len(Append(q, Head(q2))) :
                  \/ n \in 1..Len(q) /\ Append(q, Head(q2))[n] = q[n]
                  \/ Append(q, Head(q2))[n] = q2[1] /\ 1 \in 1..Len(q2)
             /\ \A n \in 1..Len(Tail(q2)) : n + 1 \in 1..Len(q2) /\ Tail(q2)[n] = q2[n + 1]
  BY <1>2
<1>3. CASE IssRegister
  <2>1. UNCHANGED <<nsfd, toSvc, backlog, cport>>
        /\ (reg' = reg \/ reg' = Append(reg, Head(unixQ)))
    BY <1>3 DEF IssRegister, svcVars, cliVars
  <2>2. reg # <<>> => reg' # <<>> /\ reg'[1] = reg[1]
    <3>1. CASE reg' = Append(reg, Head(unixQ)) /\ reg # <<>>
      <4>1. 1 \in 1..Len(reg)
        BY <1>t, <3>1
      <4>2. Len(reg') # 0 /\ reg'[1] = reg[1]
        BY <1>t, <3>1, <4>1
      <4> QED
        BY <4>2
    <3> QED
      BY <2>1, <3>1
  <2> QED
    BY <1>0, <2>1, <2>2 DEF RouteInv, Rightful
<1>4. CASE IssAccept
  <2>1. UNCHANGED <<reg, nsfd, cport>>
    BY <1>4 DEF IssAccept, svcVars, cliVars
  <2>2. ASSUME NEW d \in Ports, NEW s \in Ports, backlog[d] # <<>>,
               toSvc' = [toSvc EXCEPT ![s] = Append(@, Head(backlog[d]))],
               backlog' = [backlog EXCEPT ![d] = Tail(@)],
               s = d \/ (reg # <<>> /\ d = reg[1])
        PROVE  RouteInv'
    <3>1. backlog[d] \in Seq(Clients) /\ toSvc[s] \in Seq(Clients)
      BY <1>t
    <3>2. 1 \in 1..Len(backlog[d]) /\ Rightful(s, backlog[d][1])
      BY <1>0, <2>2, <3>1 DEF RouteInv, Rightful
    <3>3. \A n \in 1..Len(toSvc'[s]) : Rightful(s, toSvc'[s][n])
      <4>1. toSvc'[s] = Append(toSvc[s], Head(backlog[d]))
        BY <1>t, <2>2
      <4> QED
        BY <1>0, <1>2, <2>2, <3>1, <3>2, <4>1 DEF RouteInv
    <3>4. \A n \in 1..Len(backlog'[d]) : cport[backlog'[d][n]] = d
      <4>1. backlog'[d] = Tail(backlog[d])
        BY <1>t, <2>2
      <4> QED
        BY <1>0, <1>2, <2>2, <3>1, <4>1 DEF RouteInv
    <3>5. \A p \in Ports : (p # s => toSvc'[p] = toSvc[p]) /\ (p # d => backlog'[p] = backlog[p])
      BY <1>t, <2>2
    <3> QED
      BY <1>0, <2>1, <3>3, <3>4, <3>5 DEF RouteInv, Rightful
  <2> QED
    BY <1>1, <1>4, <2>1, <2>2, AcceptIs
<1>5. ASSUME NEW s \in Ports, SvcAccept(s) PROVE RouteInv'
  <2>1. UNCHANGED <<reg, toSvc, cport>>
    BY <1>5 DEF SvcAccept, issVars, unixVars, cliVars
  <2>2. CASE UNCHANGED <<nsfd, backlog>>
    BY <1>1, <2>1, <2>2
  <2>3. CASE /\ backlog[s] # <<>>
             /\ nsfd' = [nsfd EXCEPT ![s] = Append(@, Head(backlog[s]))]
             /\ backlog' = [backlog EXCEPT ![s] = Tail(@)]
    <3>1. backlog[s] \in Seq(Clients) /\ nsfd[s] \in Seq(Clients)
      BY <1>t
    <3>2. 1 \in 1..Len(backlog[s]) /\ Rightful(s, backlog[s][1])
      BY <1>0, <2>3, <3>1 DEF RouteInv, Rightful
    <3>3. \A n \in 1..Len(nsfd'[s]) : Rightful(s, nsfd'[s][n])
      <4>1. nsfd'[s] = Append(nsfd[s], Head(backlog[s]))
        BY <1>t, <2>3
      <4> QED
        BY <1>0, <1>2, <2>3, <3>1, <3>2, <4>1 DEF RouteInv
    <3>4. \A n \in 1..Len(backlog'[s]) : cport[backlog'[s][n]] = s
      <4>1. backlog'[s] = Tail(backlog[s])
        BY <1>t, <2>3
      <4> QED
        BY <1>0, <1>2, <2>3, <3>1, <4>1 DEF RouteInv
    <3>5. \A p \in Ports \ {s} : nsfd'[p] = nsfd[p] /\ backlog'[p] = backlog[p]
      BY <1>t, <2>3
    <3>6. \A p \in Ports : \A c : Rightful(p, c)' <=> Rightful(p, c)
      BY <2>1 DEF Rightful
    <3>7. \A p \in Ports :
            /\ \A n \in 1..Len(backlog'[p]) : cport[backlog'[p][n]] = p
            /\ \A n \in 1..Len(toSvc'[p]) : Rightful(p, toSvc'[p][n])
            /\ \A n \in 1..Len(nsfd'[p]) : Rightful(p, nsfd'[p][n])
      BY <1>0, <2>1, <3>3, <3>4, <3>5 DEF RouteInv
    <3> QED
      BY <2>1, <3>6, <3>7 DEF RouteInv, Rightful
  <2> QED
    BY <1>5, <2>2, <2>3 DEF SvcAccept, Store
<1>6. ASSUME NEW s \in Ports, SvcRecvFd(s) PROVE RouteInv'
  <2>1. UNCHANGED <<reg, backlog, cport>>
    BY <1>6 DEF SvcRecvFd, issVars, cliVars
  <2>2. CASE UNCHANGED <<nsfd, toSvc>>
    BY <1>1, <2>1, <2>2
  <2>3. CASE /\ toSvc[s] # <<>>
             /\ nsfd' = [nsfd EXCEPT ![s] = Append(@, Head(toSvc[s]))]
             /\ toSvc' = [toSvc EXCEPT ![s] = Tail(@)]
    <3>1. toSvc[s] \in Seq(Clients) /\ nsfd[s] \in Seq(Clients)
      BY <1>t
    <3>2. 1 \in 1..Len(toSvc[s]) /\ Rightful(s, toSvc[s][1])
      BY <1>0, <2>3, <3>1 DEF RouteInv
    <3>3. \A n \in 1..Len(nsfd'[s]) : Rightful(s, nsfd'[s][n])
      <4>1. nsfd'[s] = Append(nsfd[s], Head(toSvc[s]))
        BY <1>t, <2>3
      <4> QED
        BY <1>0, <1>2, <2>3, <3>1, <3>2, <4>1 DEF RouteInv
    <3>4. \A n \in 1..Len(toSvc'[s]) : Rightful(s, toSvc'[s][n])
      <4>1. toSvc'[s] = Tail(toSvc[s])
        BY <1>t, <2>3
      <4> QED
        BY <1>0, <1>2, <2>3, <3>1, <4>1 DEF RouteInv
    <3>5. \A p \in Ports \ {s} : nsfd'[p] = nsfd[p] /\ toSvc'[p] = toSvc[p]
      BY <1>t, <2>3
    <3>6. \A p \in Ports : \A c : Rightful(p, c)' <=> Rightful(p, c)
      BY <2>1 DEF Rightful
    <3>7. \A p \in Ports :
            /\ \A n \in 1..Len(backlog'[p]) : cport[backlog'[p][n]] = p
            /\ \A n \in 1..Len(toSvc'[p]) : Rightful(p, toSvc'[p][n])
            /\ \A n \in 1..Len(nsfd'[p]) : Rightful(p, nsfd'[p][n])
      BY <1>0, <2>1, <3>3, <3>4, <3>5 DEF RouteInv
    <3> QED
      BY <2>1, <3>6, <3>7 DEF RouteInv, Rightful
  <2> QED
    BY <1>6, <2>2, <2>3 DEF SvcRecvFd, Store
\* A client that connects is in no queue yet, so that its port is new to all.
<1>7. ASSUME NEW c \in Clients, NEW p \in Ports, CliConnect(c, p) PROVE RouteInv'
  <2>1. UNCHANGED <<reg, nsfd, toSvc>> /\ cport[c] = NoPort
    BY <1>0, <1>7 DEF CliConnect, ClientInv, issVars, svcVars, unixVars
  <2>2. CASE UNCHANGED <<backlog, cport>>
    BY <1>1, <2>1, <2>2
  <2>3. CASE /\ backlog' = [backlog EXCEPT ![p] = Append(@, c)]
             /\ cport' = [cport EXCEPT ![c] = p]
    <3>1. \A e \in Clients : e # c => cport'[e] = cport[e]
      BY <1>t, <2>3
    <3>2. cport'[c] = p
      BY <1>t, <2>3
    <3>3. \A s \in Ports :
            /\ \A n \in 1..Len(backlog[s]) : backlog[s][n] \in Clients
            /\ \A n \in 1..Len(toSvc[s]) : toSvc[s][n] \in Clients
            /\ \A n \in 1..Len(nsfd[s]) : nsfd[s][n] \in Clients
      BY <1>t
    <3>4. \A s \in Ports :
            /\ \A n \in 1..Len(backlog[s]) : backlog[s][n] # c
            /\ \A n \in 1..Len(toSvc[s]) : toSvc[s][n] # c
            /\ \A n \in 1..Len(nsfd[s]) : nsfd[s][n] # c
      <4> TAKE s \in Ports
      <4>1. ~Somewhere(Spots, Lines, c)
        BY <1>0, <2>1 DEF HolderInv
      <4>2. /\ <<"backlog", s>> \in Spots /\ Lines[<<"backlog", s>>] = backlog[s]
            /\ <<"toSvc", s>> \in Spots /\ Lines[<<"toSvc", s>>] = toSvc[s]
            /\ <<"nsfd", s>> \in Spots /\ Lines[<<"nsfd", s>>] = nsfd[s]
        BY DEF Lines, Spots
      <4> QED
        BY <4>1, <4>2 DEF Somewhere
    <3>5. \A s \in Ports : \A n \in 1..Len(backlog'[s]) :
            \/ s = p /\ backlog'[s][n] = c
            \/ n \in 1..Len(backlog[s]) /\ backlog'[s][n] = backlog[s][n]
      <4>1. \A s \in Ports : backlog'[s] = IF s = p THEN Append(backlog[s], c) ELSE backlog[s]
        BY <1>t, <2>3
      <4>2. \A n \in 1..Len(Append(backlog[p], c)) :
              \/ Append(backlog[p], c)[n] = c
              \/ n \in 1..Len(backlog[p]) /\ Append(backlog[p], c)[n] = backlog[p][n]
        BY <1>t
      <4> QED
        BY <4>1, <4>2
    <3>6. \A s \in Ports : \A n \in 1..Len(backlog'[s]) : cport'[backlog'[s][n]] = s
      <4> SUFFICES ASSUME NEW s \in Ports, NEW n \in 1..Len(backlog'[s])
                   PROVE  cport'[backlog'[s][n]] = s
        OBVIOUS
      <4>1. CASE s = p /\ backlog'[s][n] = c
        BY <3>2, <4>1
      <4>2. CASE n \in 1..Len(backlog[s]) /\ backlog'[s][n] = backlog[s][n]
        <5>1. cport[backlog[s][n]] = s
          BY <1>0, <4>2 DEF RouteInv
        <5> QED
          BY <3>1, <3>3, <3>4, <4>2, <5>1
      <4> QED
        BY <3>5, <4>1, <4>2
    <3>7. \A s \in Ports : /\ \A n \in 1..Len(toSvc[s]) : cport'[toSvc[s][n]] = cport[toSvc[s][n]]
                           /\ \A n \in 1..Len(nsfd[s]) : cport'[nsfd[s][n]] = cport[nsfd[s][n]]
      BY <3>1, <3>3, <3>4
    <3> QED
      BY <1>0, <2>1, <3>6, <3>7 DEF RouteInv, Rightful
  <2> QED
    BY <1>7, <2>2, <2>3 DEF CliConnect
<1>8. CASE TracerStep \/ IssStart \/ IssSelect \/ IssReport \/ IssRecvFd \/ IssPassDone
             \/ IssSigint \/ UNCHANGED vars
  BY <1>1, <1>8 DEF TracerStep, FifoOpen, PcapOpen, PacketHandler, IssStart, IssSelect,
       IssReport, IssRecvFd, IssPassDone, IssSigint, vars, issVars, svcVars, unixVars,
       cliVars
<1>9. ASSUME NEW s \in Ports, \/ SvcStart(s) \/ SvcSigusr1(s) \/ SvcSelect(s)
                              \/ SvcServe(s) \/ SvcPassDone(s)
      PROVE  RouteInv'
  BY <1>1, <1>9 DEF SvcStart, SvcConnect, SvcSocket, SvcListen, SvcSigusr1, SvcSelect,
       SvcServe, SvcPassDone, issVars, svcVars, unixVars, cliVars
<1>10. ASSUME NEW c \in Clients, CliSend(c) \/ CliRead(c) PROVE RouteInv'
  BY <1>1, <1>10 DEF CliSend, CliRead, issVars, svcVars, unixVars
<1> QED
  BY <1>3, <1>4, <1>5, <1>6, <1>7, <1>8, <1>9, <1>10 DEF Next, IssLoop, SvcLoop, CliStep
-----------------------------------------------------------------------------
\* The places are a family of queues of clients.
LEMMA LinesAre ==
  ASSUME TypeOK
  PROVE  /\ \A x \in Spots : Lines[x] \in Seq(Clients)
         /\ \A p \in Ports : /\ Lines[<<"backlog", p>>] = backlog[p]
                             /\ Lines[<<"toSvc", p>>] = toSvc[p]
                             /\ Lines[<<"nsfd", p>>] = nsfd[p]
BY QueuesTyped DEF Lines, Spots

\* Every step keeps every connection with one holder.
LEMMA HolderStep == Inv /\ TypeOK' /\ [Next]_vars => HolderInv'
<1> SUFFICES ASSUME Inv, TypeOK', [Next]_vars PROVE HolderInv'
  OBVIOUS
<1>0. TypeOK /\ HolderInv /\ ClientInv
  BY DEF Inv
<1>t. /\ nsfd \in [Ports -> Seq(Clients)] /\ toSvc \in [Ports -> Seq(Clients)]
      /\ backlog \in [Ports -> Seq(Clients)]
      /\ cport \in [Clients -> Ports \cup {NoPort}]
  BY <1>0, QueuesTyped
<1>l. /\ \A x \in Spots : Lines[x] \in Seq(Clients)
      /\ \A p \in Ports : /\ Lines[<<"backlog", p>>] = backlog[p]
                          /\ Lines[<<"toSvc", p>>] = toSvc[p]
                          /\ Lines[<<"nsfd", p>>] = nsfd[p]
  BY <1>0, LinesAre
<1>m. \A x \in Spots : Lines'[x] \in Seq(Clients)
  BY DEF Lines, Spots, TypeOK
<1>1. ASSUME UNCHANGED <<nsfd, toSvc, backlog, cport>> PROVE HolderInv'
  <2>1. Lines' = Lines
    BY <1>1 DEF Lines
  <2> QED
    BY <1>0, <1>1, <2>1 DEF HolderInv
<1>2. ASSUME NEW a \in Spots, NEW b \in Spots, a # b, Lines[a] # <<>>, UNCHANGED cport,
             \A x \in Spots \ {a, b} : Lines'[x] = Lines[x],
             Lines'[a] = Tail(Lines[a]), Lines'[b] = Append(Lines[b], Head(Lines[a]))
      PROVE  HolderInv'
  <2>1. OneSpot(Spots, Lines') /\ \A e : Somewhere(Spots, Lines', e) <=> Somewhere(Spots, Lines, e)
    BY <1>0, <1>2, <1>l, <1>m, MoveKeeps DEF HolderInv
  <2>2. OneSpot(Spots, Lines)' /\ \A e : Somewhere(Spots, Lines, e)' <=> Somewhere(Spots, Lines', e)
    BY <2>1 DEF OneSpot, Somewhere
  <2> QED
    BY <1>0, <1>2, <2>1, <2>2 DEF HolderInv
<1>3. CASE IssAccept
  <2>1. UNCHANGED <<nsfd, cport>>
    BY <1>3 DEF IssAccept, svcVars, cliVars
  <2>2. ASSUME NEW d \in Ports, NEW s \in Ports, backlog[d] # <<>>,
               toSvc' = [toSvc EXCEPT ![s] = Append(@, Head(backlog[d]))],
               backlog' = [backlog EXCEPT ![d] = Tail(@)]
        PROVE  HolderInv'
    <3> DEFINE a == <<"backlog", d>>
               b == <<"toSvc", s>>
    <3>1. a \in Spots /\ b \in Spots /\ a # b /\ Lines[a] = backlog[d] /\ Lines[b] = toSvc[s]
      BY <1>l DEF Spots
    <3>2. /\ \A x \in Spots \ {a, b} : Lines'[x] = Lines[x]
          /\ Lines'[a] = Tail(Lines[a]) /\ Lines'[b] = Append(Lines[b], Head(Lines[a]))
      BY <1>t, <1>l, <2>1, <2>2, <3>1 DEF Lines, Spots
    <3> HIDE DEF a, b
    <3> QED
      BY <1>2, <2>1, <2>2, <3>1, <3>2
  <2> QED
    BY <1>0, <1>1, <1>3, <2>1, <2>2, AcceptIs
<1>4. ASSUME NEW s \in Ports, SvcAccept(s) PROVE HolderInv'
  <2>1. UNCHANGED <<toSvc, cport>>
    BY <1>4 DEF SvcAccept, unixVars, cliVars
  <2>2. CASE UNCHANGED <<nsfd, backlog>>
    BY <1>1, <2>1, <2>2
  <2>3. CASE /\ backlog[s] # <<>>
             /\ nsfd' = [nsfd EXCEPT ![s] = Append(@, Head(backlog[s]))]
             /\ backlog' = [backlog EXCEPT ![s] = Tail(@)]
    <3> DEFINE a == <<"backlog", s>>
               b == <<"nsfd", s>>
    <3>1. a \in Spots /\ b \in Spots /\ a # b /\ Lines[a] = backlog[s] /\ Lines[b] = nsfd[s]
      BY <1>l DEF Spots
    <3>2. /\ \A x \in Spots \ {a, b} : Lines'[x] = Lines[x]
          /\ Lines'[a] = Tail(Lines[a]) /\ Lines'[b] = Append(Lines[b], Head(Lines[a]))
      BY <1>t, <1>l, <2>1, <2>3, <3>1 DEF Lines, Spots
    <3> HIDE DEF a, b
    <3> QED
      BY <1>2, <2>1, <2>3, <3>1, <3>2
  <2> QED
    BY <1>4, <2>2, <2>3 DEF SvcAccept, Store
<1>5. ASSUME NEW s \in Ports, SvcRecvFd(s) PROVE HolderInv'
  <2>1. UNCHANGED <<backlog, cport>>
    BY <1>5 DEF SvcRecvFd, cliVars
  <2>2. CASE UNCHANGED <<nsfd, toSvc>>
    BY <1>1, <2>1, <2>2
  <2>3. CASE /\ toSvc[s] # <<>>
             /\ nsfd' = [nsfd EXCEPT ![s] = Append(@, Head(toSvc[s]))]
             /\ toSvc' = [toSvc EXCEPT ![s] = Tail(@)]
    <3> DEFINE a == <<"toSvc", s>>
               b == <<"nsfd", s>>
    <3>1. a \in Spots /\ b \in Spots /\ a # b /\ Lines[a] = toSvc[s] /\ Lines[b] = nsfd[s]
      BY <1>l DEF Spots
    <3>2. /\ \A x \in Spots \ {a, b} : Lines'[x] = Lines[x]
          /\ Lines'[a] = Tail(Lines[a]) /\ Lines'[b] = Append(Lines[b], Head(Lines[a]))
      BY <1>t, <1>l, <2>1, <2>3, <3>1 DEF Lines, Spots
    <3> HIDE DEF a, b
    <3> QED
      BY <1>2, <2>1, <2>3, <3>1, <3>2
  <2> QED
    BY <1>5, <2>2, <2>3 DEF SvcRecvFd, Store
<1>6. ASSUME NEW c \in Clients, NEW p \in Ports, CliConnect(c, p) PROVE HolderInv'
  <2>1. UNCHANGED <<nsfd, toSvc>> /\ cport[c] = NoPort
    BY <1>0, <1>6 DEF CliConnect, ClientInv, svcVars, unixVars
  <2>2. CASE UNCHANGED <<backlog, cport>>
    BY <1>1, <2>1, <2>2
  <2>3. CASE /\ backlog' = [backlog EXCEPT ![p] = Append(@, c)]
             /\ cport' = [cport EXCEPT ![c] = p]
    <3> DEFINE b == <<"backlog", p>>
    <3>1. b \in Spots /\ Lines[b] = backlog[p]
      BY <1>l DEF Spots
    <3>2. (\A x \in Spots \ {b} : Lines'[x] = Lines[x]) /\ Lines'[b] = Append(Lines[b], c)
      BY <1>t, <1>l, <2>1, <2>3, <3>1 DEF Lines, Spots
    <3>3. ~Somewhere(Spots, Lines, c)
      BY <1>0, <2>1 DEF HolderInv
    <3> HIDE DEF b
    <3>4. OneSpot(Spots, Lines') /\ \A d : Somewhere(Spots, Lines', d) <=> Somewhere(Spots, Lines, d) \/ d = c
      BY <1>0, <1>l, <1>m, <3>1, <3>2, <3>3, AddKeeps DEF HolderInv
    <3>5. \A d \in Clients : cport'[d] # NoPort <=> cport[d] # NoPort \/ d = c
      BY <1>t, <2>1, <2>3, PortsAssumption
    <3>6. OneSpot(Spots, Lines)' /\ \A d : Somewhere(Spots, Lines, d)' <=> Somewhere(Spots, Lines', d)
      BY <3>4 DEF OneSpot, Somewhere
    <3> QED
      BY <1>0, <3>4, <3>5, <3>6 DEF HolderInv
  <2> QED
    BY <1>6, <2>2, <2>3 DEF CliConnect
<1>7. CASE TracerStep \/ IssStart \/ IssSelect \/ IssRegister \/ IssReport \/ IssRecvFd
             \/ IssPassDone \/ IssSigint \/ UNCHANGED vars
  BY <1>1, <1>7 DEF TracerStep, FifoOpen, PcapOpen, PacketHandler, IssStart, IssSelect,
       IssRegister, IssReport, IssRecvFd, IssPassDone, IssSigint, vars, svcVars, unixVars,
       cliVars
<1>8. ASSUME NEW s \in Ports, \/ SvcStart(s) \/ SvcSigusr1(s) \/ SvcSelect(s)
                              \/ SvcServe(s) \/ SvcPassDone(s)
      PROVE  HolderInv'
  BY <1>1, <1>8 DEF SvcStart, SvcConnect, SvcSocket, SvcListen, SvcSigusr1, SvcSelect,
       SvcServe, SvcPassDone, svcVars, unixVars, cliVars
<1>9. ASSUME NEW c \in Clients, CliSend(c) \/ CliRead(c) PROVE HolderInv'
  BY <1>1, <1>9 DEF CliSend, CliRead, svcVars, unixVars
<1> QED
  BY <1>3, <1>4, <1>5, <1>6, <1>7, <1>8, <1>9 DEF Next, IssLoop, SvcLoop, CliStep
-----------------------------------------------------------------------------
\* Every step keeps a service waiting only for a client that ISS could take.
LEMMA BlockedStep == Inv /\ [Next]_vars => BlockedOnlyByIss'
<1> SUFFICES ASSUME Inv, [Next]_vars PROVE BlockedOnlyByIss'
  OBVIOUS
<1>0. TypeOK /\ BlockedOnlyByIss
  BY DEF Inv
<1>t. /\ svcPc \in [Ports -> SvcStates] /\ backlog \in [Ports -> Seq(Clients)]
      /\ svcRdy \in [Ports -> [sfd : BOOLEAN, usfd : BOOLEAN, cli : SUBSET Nat]]
      /\ tab \in Seq([port : Ports \cup {NoPort}, sock : Ports \cup {Stdin}])
      /\ Len(tab) \in Nat
  BY <1>0, QueuesTyped DEF TypeOK
<1> DEFINE Stuck(s) == svcPc[s] = "accept" /\ svcRdy[s].sfd /\ backlog[s] = <<>>
           Shared(s) == \E i \in DOMAIN tab : tab[i].sock = s
\* No service becomes stuck.
<1>1. ASSUME \A s \in Ports : Stuck(s)' => Stuck(s) \/ Shared(s)',
             \A s \in Ports : Shared(s) => Shared(s)'
      PROVE  BlockedOnlyByIss'
  BY <1>0, <1>1 DEF BlockedOnlyByIss, SfdReady
<1>2. ASSUME UNCHANGED <<svcPc, svcRdy, tab>>,
             \A s \in Ports : backlog'[s] = <<>> => backlog[s] = <<>>
      PROVE  BlockedOnlyByIss'
  BY <1>1, <1>2
<1>3. CASE TracerStep \/ IssStart \/ IssSelect \/ IssRegister \/ IssReport
             \/ IssPassDone \/ IssSigint \/ UNCHANGED vars
  BY <1>2, <1>3 DEF TracerStep, FifoOpen, PcapOpen, PacketHandler, IssStart, IssSelect,
       IssRegister, IssReport, IssPassDone, IssSigint, vars, issVars, svcVars
<1>4. CASE IssRecvFd
  <2> DEFINE e == [port |-> cur, sock |-> Head(toIss[Target(cur)])]
             T == [port : Ports \cup {NoPort}, sock : Ports \cup {Stdin}]
  <2>1. tab' = Append(tab, e) /\ tab \in Seq(T) /\ UNCHANGED <<svcPc, svcRdy, backlog>>
    BY <1>4, <1>t DEF IssRecvFd, svcVars
  <2> HIDE DEF e, T
  <2>2. \A i \in DOMAIN tab : i \in DOMAIN tab' /\ tab'[i] = tab[i]
    BY <2>1
  <2> QED
    BY <1>1, <2>1, <2>2
<1>5. CASE IssAccept
  <2> DEFINE i == Min(issRdy.sfd)
             d == tab[i].sock
  <2>1. UNCHANGED <<svcPc, svcRdy, tab>>
        /\ (backlog' = backlog \/ backlog' = [backlog EXCEPT ![d] = Tail(@)])
    BY <1>5 DEF IssAccept, svcVars
  <2>2. i \in DOMAIN tab
    <3>1. issRdy.sfd \subseteq Nat /\ issRdy.sfd # {}
      BY <1>0, <1>5 DEF TypeOK, IssAccept
    <3>2. i \in issRdy.sfd
      BY <3>1, MinIsMember
    <3> HIDE DEF i
    <3> QED
      BY <1>t, <3>2 DEF Inv, ReadyInv
  <2>3. \A s \in Ports : s # d => backlog'[s] = backlog[s]
    BY <1>t, <2>1
  <2>4. \A s \in Ports : s = d => Shared(s)'
    BY <2>1, <2>2
  <2> HIDE DEF d, i
  <2> QED
    BY <1>1, <2>1, <2>3, <2>4
<1>6. ASSUME NEW s \in Ports, SvcStart(s) \/ SvcSigusr1(s) \/ SvcRecvFd(s) \/ SvcServe(s)
                                \/ SvcPassDone(s)
      PROVE  BlockedOnlyByIss'
  <2>1. UNCHANGED <<tab, backlog>>
    BY <1>6 DEF SvcStart, SvcConnect, SvcSocket, SvcListen, SvcSigusr1, SvcRecvFd,
         SvcServe, SvcPassDone, issVars
  <2>2. \A p \in Ports : svcPc'[p] = "accept" => svcPc[p] = "accept"
    BY <1>6, <1>t DEF SvcStart, SvcConnect, SvcSocket, SvcListen, SvcSigusr1, SvcRecvFd,
         SvcServe, SvcPassDone
  <2>3. \A p \in Ports : svcRdy'[p].sfd = svcRdy[p].sfd
    <3>1. svcRdy' = svcRdy \/ \E i : svcRdy' = [svcRdy EXCEPT ![s].cli = @ \ {i}]
      BY <1>6 DEF SvcStart, SvcConnect, SvcSocket, SvcListen, SvcSigusr1, SvcRecvFd,
           SvcServe, SvcPassDone
    <3> QED
      BY <1>t, <3>1, ZenonT(60)
  <2> QED
    BY <1>1, <2>1, <2>2, <2>3
<1>7. ASSUME NEW s \in Ports, SvcSelect(s) PROVE BlockedOnlyByIss'
  <2>1. /\ UNCHANGED <<tab, backlog>>
        /\ svcPc' = [svcPc EXCEPT ![s] = "accept"]
        /\ svcRdy' = [svcRdy EXCEPT ![s] =
             [sfd  |-> SfdWatched(s) /\ backlog[s] # <<>>,
              usfd |-> toSvc[s] # <<>> \/ issPc = "exited", cli |-> Asking(s)]]
    BY <1>7 DEF SvcSelect, issVars
  <2>2. svcRdy'[s].sfd = (SfdWatched(s) /\ backlog[s] # <<>>)
        /\ \A p \in Ports \ {s} : svcRdy'[p] = svcRdy[p] /\ svcPc'[p] = svcPc[p]
    BY <1>t, <2>1
  <2> QED
    BY <1>1, <2>1, <2>2
<1>8. ASSUME NEW s \in Ports, SvcAccept(s) PROVE BlockedOnlyByIss'
  <2>1. UNCHANGED <<tab, svcRdy>> /\ svcPc' = [svcPc EXCEPT ![s] = "usfd"]
    BY <1>8 DEF SvcAccept, issVars
  <2>2. svcPc'[s] = "usfd" /\ \A p \in Ports \ {s} : svcPc'[p] = svcPc[p]
    BY <1>t, <2>1
  <2>3. \A p \in Ports \ {s} : backlog'[p] = backlog[p]
    BY <1>8, <1>t DEF SvcAccept
  <2> QED
    BY <1>1, <2>1, <2>2, <2>3
<1>9. ASSUME NEW c \in Clients, CliStep(c) PROVE BlockedOnlyByIss'
  <2>1. UNCHANGED <<svcPc, svcRdy, tab>>
    BY <1>9 DEF CliStep, CliSend, CliRead, CliConnect, issVars, svcVars
  <2>2. \A p \in Ports : backlog'[p] = <<>> => backlog[p] = <<>>
    <3>1. backlog' = backlog \/ \E p \in Ports : backlog' = [backlog EXCEPT ![p] = Append(@, c)]
      BY <1>9 DEF CliStep, CliSend, CliRead, CliConnect
    <3>2. \A p \in Ports : Append(backlog[p], c) # <<>>
      BY <1>t, AppendProperties
    <3> QED
      BY <1>t, <3>1, <3>2
  <2> QED
    BY <1>2, <2>1, <2>2
<1> QED
  BY <1>3, <1>4, <1>5, <1>6, <1>7, <1>8, <1>9 DEF Next, IssLoop, SvcLoop
-----------------------------------------------------------------------------
\* The invariant holds in every behaviour.
LEMMA Invariance == Spec => []Inv
<1>1. Inv /\ [Next]_vars => Inv'
  BY TypeStep, ClientStep, RegStep, ReadyStep, AnswerStep, TabStep, RouteStep, HolderStep,
     BlockedStep DEF Inv
<1> QED
  BY InitInv, <1>1, PTL DEF Spec

\* A report has at most one signal or descriptor on its way, to or from the
\* service it is about, and none is left over when ISS goes on (iss.c:140-141).
THEOREM ReportHasOneAnswer == Spec => []OneAnswerPerReport
<1>1. Inv => OneAnswerPerReport
  BY DEF Inv, AnswerInv
<1> QED
  BY Invariance, <1>1, PTL

\* A service waits in accept() for a client that is gone only when ISS holds
\* its descriptor too (service.c:176 against iss.c:160).
THEOREM ServiceBlockedOnlyByIss == Spec => []BlockedOnlyByIss
<1>1. Inv => BlockedOnlyByIss
  BY DEF Inv
<1> QED
  BY Invariance, <1>1, PTL

\* Only clients of the service that registered first are handed to a service
\* they did not call (iss.c:28, 140).
THEOREM OnlyFirstIsMisrouted == Spec => []MisroutedOnlyFromFirst
<1>1. Inv => MisroutedOnlyFromFirst
  <2> SUFFICES ASSUME Inv, NEW s \in Ports, NEW c \in GivenTo(s), cport[c] # s
               PROVE  cport[c] = reg[1]
    BY DEF MisroutedOnlyFromFirst
  <2>1. nsfd[s] \in Seq(Clients) /\ toSvc[s] \in Seq(Clients)
    BY QueuesTyped DEF Inv
  <2>2. \/ \E n \in 1..Len(toSvc[s]) : c = toSvc[s][n]
        \/ \E n \in 1..Len(nsfd[s]) : c = nsfd[s][n]
    BY <2>1 DEF GivenTo, Range
  <2> QED
    BY <2>2 DEF Inv, RouteInv, Rightful
<1> QED
  BY Invariance, <1>1, PTL

\* Where the n-th element of the queue at a spot stands in Held.
Offset(x, n) == IF x[1] = "backlog" THEN n
                ELSE IF x[1] = "toSvc" THEN Len(backlog[x[2]]) + n
                ELSE Len(backlog[x[2]]) + Len(toSvc[x[2]]) + n

\* All that the queues of a service hold is what the spots of it hold.
LEMMA HeldIs ==
  ASSUME TypeOK, NEW p \in Ports
  PROVE  /\ DOMAIN Held(p) = 1..(Len(backlog[p]) + Len(toSvc[p]) + Len(nsfd[p]))
         /\ \A x \in Spots : x[2] = p => \A n \in 1..Len(Lines[x]) :
              Offset(x, n) \in DOMAIN Held(p) /\ Held(p)[Offset(x, n)] = Lines[x][n]
<1> DEFINE B == Len(backlog[p])
           T == Len(toSvc[p])
           N == Len(nsfd[p])
<1>1. backlog[p] \in Seq(Clients) /\ toSvc[p] \in Seq(Clients) /\ nsfd[p] \in Seq(Clients)
  BY QueuesTyped
<1>2. B \in Nat /\ T \in Nat /\ N \in Nat
  BY <1>1
<1>3. /\ DOMAIN Held(p) = 1..(B + T + N)
      /\ \A i \in 1..B : Held(p)[i] = backlog[p][i]
      /\ \A i \in 1..T : Held(p)[B + i] = toSvc[p][i]
      /\ \A i \in 1..N : Held(p)[B + T + i] = nsfd[p][i]
  <2> DEFINE b == backlog[p]
             t == toSvc[p]
             n == nsfd[p]
  <2>1. b \in Seq(Clients) /\ t \in Seq(Clients) /\ n \in Seq(Clients)
    BY <1>1
  <2>2. Held(p) = b \o t \o n
    BY DEF Held
  <2> HIDE DEF b, t, n
  <2>3. /\ DOMAIN (b \o t \o n) = 1..(Len(b) + Len(t) + Len(n))
        /\ \A i \in 1..Len(b) : (b \o t \o n)[i] = b[i]
        /\ \A i \in 1..Len(t) : (b \o t \o n)[Len(b) + i] = t[i]
        /\ \A i \in 1..Len(n) : (b \o t \o n)[Len(b) + Len(t) + i] = n[i]
    BY <2>1, ThreeConcat
  <2>4. /\ DOMAIN Held(p) = 1..(Len(b) + Len(t) + Len(n))
        /\ \A i \in 1..Len(b) : Held(p)[i] = b[i]
        /\ \A i \in 1..Len(t) : Held(p)[Len(b) + i] = t[i]
        /\ \A i \in 1..Len(n) : Held(p)[Len(b) + Len(t) + i] = n[i]
    BY <2>2, <2>3, Zenon
  <2> QED
    BY <2>4, Zenon DEF b, t, n
<1>a. /\ Lines[<<"backlog", p>>] = backlog[p] /\ Lines[<<"toSvc", p>>] = toSvc[p]
      /\ Lines[<<"nsfd", p>>] = nsfd[p]
  BY LinesAre
<1>b. /\ \A k : Offset(<<"backlog", p>>, k) = k
      /\ \A k : Offset(<<"toSvc", p>>, k) = B + k
      /\ \A k : Offset(<<"nsfd", p>>, k) = B + T + k
  BY DEF Offset
<1> HIDE DEF B, T, N
<1> SUFFICES ASSUME NEW x \in Spots, x[2] = p, NEW n \in 1..Len(Lines[x])
             PROVE  Offset(x, n) \in DOMAIN Held(p) /\ Held(p)[Offset(x, n)] = Lines[x][n]
  BY <1>3, Zenon DEF B, T, N
<1>4. x = <<"backlog", p>> \/ x = <<"toSvc", p>> \/ x = <<"nsfd", p>>
  BY DEF Spots
<1>5. CASE x = <<"backlog", p>>
  <2>1. Lines[x] = backlog[p] /\ Offset(x, n) = n
    BY <1>a, <1>b, <1>5
  <2>2. n \in 1..B /\ n \in 1..(B + T + N)
    BY <1>2, <2>1 DEF B
  <2> QED
    BY <1>3, <2>1, <2>2
<1>6. CASE x = <<"toSvc", p>>
  <2>1. Lines[x] = toSvc[p] /\ Offset(x, n) = B + n
    BY <1>a, <1>b, <1>6
  <2>2. n \in 1..T
    BY <2>1 DEF T
  <2>3. B + n \in 1..(B + T + N)
    BY <1>2, <2>2
  <2> QED
    BY <1>3, <2>1, <2>2, <2>3
<1>7. CASE x = <<"nsfd", p>>
  <2>1. Lines[x] = nsfd[p] /\ Offset(x, n) = B + T + n
    BY <1>a, <1>b, <1>7
  <2>2. n \in 1..N
    BY <2>1 DEF N
  <2>3. B + T + n \in 1..(B + T + N)
    BY <1>2, <2>2
  <2> QED
    BY <1>3, <2>1, <2>2, <2>3
<1> QED
  BY <1>4, <1>5, <1>6, <1>7

\* A position in Held(p) is a position in one of the three queues of p.
LEMMA HeldSpot ==
  ASSUME TypeOK, NEW p \in Ports, NEW i \in DOMAIN Held(p)
  PROVE  \E x \in Spots : \E n \in 1..Len(Lines[x]) :
           x[2] = p /\ i = Offset(x, n) /\ Lines[x][n] = Held(p)[i]
<1> DEFINE B == Len(backlog[p])
           T == Len(toSvc[p])
           N == Len(nsfd[p])
<1>1. B \in Nat /\ T \in Nat /\ N \in Nat /\ i \in 1..(B + T + N)
  BY HeldIs, QueuesTyped
<1>2. /\ <<"backlog", p>> \in Spots /\ <<"toSvc", p>> \in Spots /\ <<"nsfd", p>> \in Spots
      /\ Len(Lines[<<"backlog", p>>]) = B /\ Len(Lines[<<"toSvc", p>>]) = T
      /\ Len(Lines[<<"nsfd", p>>]) = N
  BY LinesAre DEF Spots
<1>3. /\ \A n : Offset(<<"backlog", p>>, n) = n
      /\ \A n : Offset(<<"toSvc", p>>, n) = B + n
      /\ \A n : Offset(<<"nsfd", p>>, n) = B + T + n
  BY DEF Offset
<1>4. \A x \in Spots : x[2] = p => \A n \in 1..Len(Lines[x]) :
        Held(p)[Offset(x, n)] = Lines[x][n]
  BY HeldIs
<1> HIDE DEF B, T, N
<1>5. i \in 1..B \/ (\E k \in 1..T : i = B + k) \/ (\E k \in 1..N : i = B + T + k)
  BY <1>1, ThirdOf
<1>6. <<"backlog", p>>[2] = p /\ <<"toSvc", p>>[2] = p /\ <<"nsfd", p>>[2] = p
  OBVIOUS
<1>7. \E x \in Spots : \E n \in 1..Len(Lines[x]) : x[2] = p /\ i = Offset(x, n)
  <2>1. CASE i \in 1..B
    <3>1. i \in 1..Len(Lines[<<"backlog", p>>]) /\ i = Offset(<<"backlog", p>>, i)
      BY <1>2, <1>3, <2>1
    <3> QED
      BY <1>2, <1>6, <3>1
  <2>2. ASSUME NEW k \in 1..T, i = B + k PROVE <1>7!:
    <3>1. k \in 1..Len(Lines[<<"toSvc", p>>]) /\ i = Offset(<<"toSvc", p>>, k)
      BY <1>2, <1>3, <2>2
    <3> QED
      BY <1>2, <1>6, <3>1
  <2>3. ASSUME NEW k \in 1..N, i = B + T + k PROVE <1>7!:
    <3>1. k \in 1..Len(Lines[<<"nsfd", p>>]) /\ i = Offset(<<"nsfd", p>>, k)
      BY <1>2, <1>3, <2>3
    <3> QED
      BY <1>2, <1>6, <3>1
  <2> QED
    BY <1>5, <2>1, <2>2, <2>3
<1> QED
  BY <1>4, <1>7

\* Every established connection is in exactly one place: a backlog, the Unix
\* socket of a service or the table of a service.
THEOREM OneHolderOnly == Spec => []OneHolder
<1>1. Inv => OneHolder
  <2> SUFFICES ASSUME Inv, NEW c \in Clients
               PROVE  Cardinality(Places(c)) = IF cport[c] = NoPort THEN 0 ELSE 1
    BY DEF OneHolder
  <2>0. TypeOK /\ HolderInv
    BY DEF Inv
  <2>1. \A z : z \in Places(c) <=>
          \E p \in Ports : \E i \in DOMAIN Held(p) : z = <<p, i>> /\ Held(p)[i] = c
    BY DEF Places
  <2>2. Places(c) # {} <=> cport[c] # NoPort
    <3>1. Places(c) # {} <=> \E p \in Ports : \E i \in DOMAIN Held(p) : Held(p)[i] = c
      BY <2>1
    <3>2. ASSUME NEW p \in Ports, NEW i \in DOMAIN Held(p), Held(p)[i] = c
          PROVE  Somewhere(Spots, Lines, c)
      BY <2>0, <3>2, HeldSpot DEF Somewhere
    <3>3. ASSUME NEW x \in Spots, NEW n \in 1..Len(Lines[x]), Lines[x][n] = c
          PROVE  \E p \in Ports : \E i \in DOMAIN Held(p) : Held(p)[i] = c
      <4>1. x[2] \in Ports
        BY DEF Spots
      <4>2. Offset(x, n) \in DOMAIN Held(x[2]) /\ Held(x[2])[Offset(x, n)] = c
        BY <2>0, <3>3, <4>1, HeldIs
      <4> QED
        BY <4>1, <4>2
    <3>4. (\E p \in Ports : \E i \in DOMAIN Held(p) : Held(p)[i] = c)
            <=> Somewhere(Spots, Lines, c)
      BY <3>2, <3>3 DEF Somewhere
    <3> QED
      BY <2>0, <3>1, <3>4 DEF HolderInv
  <2>3. \A z1, z2 \in Places(c) : z1 = z2
    <3> SUFFICES ASSUME NEW p \in Ports, NEW i \in DOMAIN Held(p), Held(p)[i] = c,
                        NEW q \in Ports, NEW j \in DOMAIN Held(q), Held(q)[j] = c
                 PROVE  p = q /\ i = j
      BY <2>1
    <3>1. PICK x \in Spots : \E n \in 1..Len(Lines[x]) :
            x[2] = p /\ i = Offset(x, n) /\ Lines[x][n] = Held(p)[i]
      BY <2>0, HeldSpot
    <3>2. PICK n \in 1..Len(Lines[x]) :
            x[2] = p /\ i = Offset(x, n) /\ Lines[x][n] = Held(p)[i]
      BY <3>1
    <3>3. PICK y \in Spots : \E m \in 1..Len(Lines[y]) :
            y[2] = q /\ j = Offset(y, m) /\ Lines[y][m] = Held(q)[j]
      BY <2>0, HeldSpot
    <3>4. PICK m \in 1..Len(Lines[y]) :
            y[2] = q /\ j = Offset(y, m) /\ Lines[y][m] = Held(q)[j]
      BY <3>3
    <3>5. x = y /\ n = m
      BY <2>0, <3>2, <3>4 DEF HolderInv, OneSpot
    <3> QED
      BY <3>2, <3>4, <3>5
  <2>4. CASE cport[c] = NoPort
    BY <2>2, <2>4, FS_EmptySet
  <2>5. CASE cport[c] # NoPort
    <3>1. PICK z : z \in Places(c)
      BY <2>2, <2>5
    <3>2. Places(c) = {z}
      BY <2>3, <3>1
    <3> QED
      BY <2>5, <3>2, FS_Singleton
  <2> QED
    BY <2>4, <2>5
<1> QED
  BY Invariance, <1>1, PTL
=============================================================================
