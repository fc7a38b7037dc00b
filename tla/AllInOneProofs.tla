---------------------------- MODULE AllInOneProofs ---------------------------
(***************************************************************************)
(* Proofs about AllInOne, for any clients that select any ports and ask    *)
(* any number of requests: what S2 answers, and that S4 answers nobody.    *)
(***************************************************************************)
EXTENDS AllInOne, QueueTheorems

SvcStates == {"off", "connected", "accepted", "serving", "exited", "killed"}

TypeOK ==
  /\ aos \in {"off", "unix", "inet", "signal", "send", "exited"}
  /\ k \in Ports /\ nsfd \in Clients \cup {NoClient} /\ sig \in BOOLEAN
  /\ serv \in [Ports -> SvcStates]
  /\ chan \in [Ports -> Seq(Clients)] /\ backlog \in [Ports -> Seq(Clients)]
  /\ srfd \in [Ports -> Clients \cup {NoClient}]
  /\ left \in [Ports -> Seq(Int)]
  /\ port \in [Clients -> Ports] /\ answers \in [Clients -> Nat]

\* A client is where it is for the port it selected, and a service has one
\* only after it has received it.
RouteInv ==
  /\ aos \in {"signal", "send"} => nsfd \in Clients /\ port[nsfd] = k
  /\ \A n \in Ports : \A j \in 1..Len(backlog[n]) : port[backlog[n][j]] = n
  /\ \A n \in Ports : \A j \in 1..Len(chan[n]) : port[chan[n][j]] = n
  /\ \A n \in Ports : srfd[n] # NoClient => port[srfd[n]] = n
  /\ \A n \in Ports : serv[n] \in {"off", "connected", "accepted"} => srfd[n] = NoClient
  /\ \A n \in Ports : serv[n] = "serving" => srfd[n] # NoClient

\* Only a client that a service has received has answers.
AnswerInv == \A c \in Clients : answers[c] # 0 => srfd[port[c]] = c

\* The signal is sent before the client, and is pending until S4 has gone.
SignalInv ==
  /\ serv[4] # "serving" /\ srfd[4] = NoClient
  /\ chan[4] # <<>> \/ (aos = "send" /\ k = 4) => sig \/ serv[4] = "killed"

\* What the processes of S2 have left (l) and have answered (a): one or two of
\* them, each with some of its three reads.
Budgeted(st, l, a) ==
  IF st = "serving" THEN \/ /\ Len(l) = 1 /\ l[1] \in 0..Reads
                            /\ a + l[1] \in {Reads, 2 * Reads}
                         \/ /\ Len(l) = 2 /\ l[1] \in 0..Reads /\ l[2] \in 0..Reads
                            /\ a + (l[1] + l[2]) \in {Reads, 2 * Reads}
                    ELSE a \in {0, Reads, 2 * Reads}

BudgetInv == srfd[2] # NoClient => Budgeted(serv[2], left[2], answers[srfd[2]])

Inv == TypeOK /\ RouteInv /\ AnswerInv /\ SignalInv /\ BudgetInv
-----------------------------------------------------------------------------
\* The actions, one by one.
LEMMA Actions ==
  ASSUME [NextAos]_varsAos
  PROVE  \/ AosStart \/ AosAcceptService \/ AosAccept \/ AosSignal \/ AosSend
         \/ S4Killed \/ UNCHANGED varsAos
         \/ \E n \in Ports : SvcConnect(n) \/ SvcRecv(n)
         \/ \E n \in Ports : \E p \in 1..2 : SvcAnswer(n, p)
         \/ \E p \in 1..2 : S2Exit(p)
         \/ \E c \in Clients : CliAsk(c) \/ CliConnect(c)
BY DEF NextAos, AosStep, S1, S2, S3, S4, SvcStep, Ports

\* The initial state satisfies the invariant.
LEMMA InitInv == InitAos => Inv
<1> SUFFICES ASSUME InitAos PROVE Inv
  OBVIOUS
<1>1. TypeOK
  <2>1. /\ chan \in [Ports -> Seq(Clients)] /\ backlog \in [Ports -> Seq(Clients)]
        /\ left \in [Ports -> Seq(Int)]
    BY DEF InitAos
  <2>2. port \in [Clients -> Ports]
    BY AllInOneAssumption DEF InitAos, Ports
  <2>3. /\ serv \in [Ports -> SvcStates] /\ srfd \in [Ports -> Clients \cup {NoClient}]
        /\ answers \in [Clients -> Nat]
    BY DEF InitAos, SvcStates
  <2>4. aos = "off" /\ k = 1 /\ nsfd = NoClient /\ sig = FALSE
    BY DEF InitAos
  <2>5. k \in Ports
    BY <2>4 DEF Ports
  <2> QED
    BY <2>1, <2>2, <2>3, <2>4, <2>5 DEF TypeOK
<1>2. RouteInv /\ AnswerInv /\ SignalInv /\ BudgetInv
  BY DEF InitAos, RouteInv, AnswerInv, SignalInv, BudgetInv, Ports
<1> QED
  BY <1>1, <1>2 DEF Inv

\* Each number of processes that a service may end up with.
LEMMA ProcessesTyped ==
  \A n \in Ports : \A l \in Processes(n) : l \in Seq(Int)
<1>1. \A a, b \in Int : <<>> \in Seq(Int) /\ <<a>> \in Seq(Int) /\ <<a, b>> \in Seq(Int)
  OBVIOUS
<1>2. Forever \in Int /\ Reads \in Int /\ 0 \in Int
  BY DEF Forever, Reads
<1>3. ASSUME NEW n \in Ports, NEW l \in Processes(n) PROVE l \in Seq(Int)
  <2>1. CASE n \in {1, 3}
    <3>1. l = <<Forever>>
      BY <1>3, <2>1 DEF Processes
    <3> QED
      BY <1>1, <1>2, <3>1
  <2>2. CASE n = 2
    <3>1. l = <<Reads, Reads>> \/ l = <<Reads>> \/ l = <<>>
      BY <1>3, <2>2 DEF Processes
    <3> QED
      BY <1>1, <1>2, <3>1
  <2>3. CASE n = 4
    <3>1. l = <<Forever, Forever>> \/ l = <<Forever>> \/ l = <<0>>
      BY <1>3, <2>3 DEF Processes
    <3> QED
      BY <1>1, <1>2, <3>1
  <2> QED
    BY <2>1, <2>2, <2>3 DEF Ports
<1> QED
  BY <1>3

\* Every step preserves the types.
LEMMA TypeStep == Inv /\ [NextAos]_varsAos => TypeOK'
<1> SUFFICES ASSUME Inv, [NextAos]_varsAos PROVE TypeOK'
  OBVIOUS
<1> USE DEF aosVars, svcVars, SvcStates
<1>0. TypeOK /\ RouteInv
  BY DEF Inv
<1>p. 1 \in Ports /\ 2 \in Ports /\ 4 \in Ports
  BY DEF Ports
<1>t. /\ k \in Ports /\ serv \in [Ports -> SvcStates]
      /\ chan \in [Ports -> Seq(Clients)] /\ backlog \in [Ports -> Seq(Clients)]
      /\ srfd \in [Ports -> Clients \cup {NoClient}] /\ left \in [Ports -> Seq(Int)]
      /\ answers \in [Clients -> Nat]
  BY <1>0 DEF TypeOK
<1>k. /\ \A m : m = k + 1 /\ k < 4 => m \in Ports
      /\ \A m : m = 1 \/ m = k => m \in Ports
  BY <1>t, SMTT(30) DEF Ports
<1>1. CASE AosStart \/ AosSignal \/ UNCHANGED varsAos
  BY <1>0, <1>1 DEF AosStart, AosSignal, varsAos, TypeOK
<1>2. CASE AosAcceptService
  <2>1. serv' \in [Ports -> SvcStates] /\ aos' \in {"unix", "inet"}
    BY <1>2, <1>t DEF AosAcceptService
  <2>2. k' \in Ports
    BY <1>2, <1>k DEF AosAcceptService
  <2> QED
    BY <1>0, <1>2, <2>1, <2>2 DEF AosAcceptService, TypeOK
<1>3. CASE AosAccept
  <2>1. backlog[k] \in Seq(Clients) /\ backlog[k] # <<>>
    BY <1>0, <1>3 DEF AosAccept, TypeOK
  <2>2. Head(backlog[k]) \in Clients /\ Tail(backlog[k]) \in Seq(Clients)
    BY <2>1
  <2> QED
    BY <1>0, <1>3, <2>2 DEF AosAccept, AfterAccept, TypeOK
<1>4. CASE AosSend
  <2>1. k' \in Ports /\ aos' \in {"inet", "exited"}
    BY <1>4, <1>k DEF AosSend
  <2>2. chan' \in [Ports -> Seq(Clients)]
    <3>1. nsfd \in Clients /\ chan[k] \in Seq(Clients)
      BY <1>0, <1>4 DEF AosSend, TypeOK, RouteInv
    <3>2. Append(chan[k], nsfd) \in Seq(Clients)
      BY <3>1
    <3> QED
      BY <1>0, <1>4, <3>2 DEF AosSend, SocketOf, TypeOK
  <2> QED
    BY <1>0, <1>4, <2>1, <2>2 DEF AosSend, TypeOK
<1>5. CASE S4Killed
  <2>1. serv' \in [Ports -> SvcStates] /\ chan' \in [Ports -> Seq(Clients)]
    <3>1. <<>> \in Seq(Clients)
      OBVIOUS
    <3> QED
      BY <1>5, <1>t, <1>p, <3>1, ZenonT(60) DEF S4Killed
  <2> QED
    BY <1>0, <1>5, <2>1 DEF S4Killed, TypeOK
<1>6. ASSUME NEW n \in Ports, SvcConnect(n) PROVE TypeOK'
  BY <1>0, <1>6 DEF SvcConnect, TypeOK
<1>7. ASSUME NEW n \in Ports, SvcRecv(n) PROVE TypeOK'
  <2>1. chan[n] \in Seq(Clients) /\ chan[n] # <<>>
    BY <1>0, <1>7 DEF SvcRecv, TypeOK
  <2>2. Head(chan[n]) \in Clients /\ Tail(chan[n]) \in Seq(Clients)
    BY <2>1
  <2>3. left' \in [Ports -> Seq(Int)]
    BY <1>0, <1>7, ProcessesTyped DEF SvcRecv, TypeOK
  <2>4. serv' \in [Ports -> SvcStates]
    BY <1>0, <1>7 DEF SvcRecv, TypeOK
  <2> QED
    BY <1>0, <1>7, <2>2, <2>3, <2>4 DEF SvcRecv, TypeOK
<1>8. ASSUME NEW n \in Ports, NEW p \in 1..2, SvcAnswer(n, p) PROVE TypeOK'
  <2>1. left[n] \in Seq(Int) /\ p \in DOMAIN left[n] /\ left[n][p] \in Int
    BY <1>0, <1>8 DEF SvcAnswer, TypeOK
  <2>2. [left[n] EXCEPT ![p] = OneReadLess(@)] \in Seq(Int)
    BY <2>1, ExceptSeq DEF OneReadLess, Forever
  <2>3. left' \in [Ports -> Seq(Int)]
    BY <1>0, <1>8, <2>2 DEF SvcAnswer, TypeOK
  <2>4. answers' \in [Clients -> Nat]
    <3>1. answers' = [answers EXCEPT ![srfd[n]] = @ + 1]
      BY <1>8 DEF SvcAnswer
    <3>2. answers \in [Clients -> Nat] /\ \A c \in Clients : answers[c] + 1 \in Nat
      BY <1>t
    <3> QED
      BY <3>1, <3>2
  <2> QED
    BY <1>0, <1>8, <2>3, <2>4 DEF SvcAnswer, TypeOK
<1>9. ASSUME NEW p \in 1..2, S2Exit(p) PROVE TypeOK'
  <2> DEFINE rest == [q \in 1..(Len(left[2]) - 1) |->
                        IF q < p THEN left[2][q] ELSE left[2][q + 1]]
  <2>1. left[2] \in Seq(Int) /\ p \in 1..Len(left[2])
    <3>1. left[2] \in Seq(Int) /\ p \in DOMAIN left[2]
      BY <1>9, <1>t, <1>p DEF S2Exit
    <3> QED
      BY <3>1
  <2>2. rest \in Seq(Int)
    <3>1. Len(left[2]) - 1 \in Nat
      BY <2>1
    <3>2. \A q \in 1..(Len(left[2]) - 1) :
            (IF q < p THEN left[2][q] ELSE left[2][q + 1]) \in Int
      BY <2>1
    <3> QED
      BY <3>1, <3>2, IsASeq
  <2>3. left' = [left EXCEPT ![2] = rest]
    BY <1>9 DEF S2Exit
  <2> HIDE DEF rest
  <2> QED
    <3>1. left' \in [Ports -> Seq(Int)]
      BY <1>t, <2>2, <2>3
    <3>2. serv' \in [Ports -> SvcStates]
      BY <1>9, <1>t DEF S2Exit
    <3> QED
      BY <1>0, <1>9, <3>1, <3>2 DEF S2Exit, TypeOK
<1>10. ASSUME NEW c \in Clients, CliAsk(c) PROVE TypeOK'
  BY <1>0, <1>10 DEF CliAsk, TypeOK
<1>11. ASSUME NEW c \in Clients, CliConnect(c) PROVE TypeOK'
  <2>1. \A n \in Ports : Append(backlog[n], c) \in Seq(Clients)
    BY <1>t
  <2>2. backlog' = backlog \/ backlog' = [backlog EXCEPT ![port[c]] = Append(@, c)]
    BY <1>11 DEF CliConnect
  <2>3. backlog' \in [Ports -> Seq(Clients)]
    <3>1. backlog \in [Ports -> Seq(Clients)]
      BY <1>t
    <3> QED
      BY <2>1, <2>2, <3>1
  <2> QED
    BY <1>0, <1>11, <2>3 DEF CliConnect, TypeOK
<1> QED
  BY <1>1, <1>2, <1>3, <1>4, <1>5, <1>6, <1>7, <1>8, <1>9, <1>10, <1>11, Actions
-----------------------------------------------------------------------------
\* Clients that were for port n still are in a queue that lost its first
\* client, or got a new one for that port.
LEMMA RoutedQueue ==
  ASSUME NEW q \in Seq(Clients), NEW n, \A j \in 1..Len(q) : port[q[j]] = n
  PROVE  /\ q # <<>> => port[Head(q)] = n /\ \A j \in 1..Len(Tail(q)) : port[Tail(q)[j]] = n
         /\ \A c \in Clients : port[c] = n =>
              \A j \in 1..Len(Append(q, c)) : port[Append(q, c)[j]] = n
<1>1. ASSUME q # <<>>
      PROVE  port[Head(q)] = n /\ \A j \in 1..Len(Tail(q)) : port[Tail(q)[j]] = n
  <2>1. Head(q) = q[1] /\ 1 \in 1..Len(q)
    BY <1>1
  <2>2. \A j \in 1..Len(Tail(q)) : Tail(q)[j] = q[j + 1] /\ j + 1 \in 1..Len(q)
    BY <1>1
  <2> QED
    BY <2>1, <2>2
<1>2. ASSUME NEW c \in Clients, port[c] = n
      PROVE  \A j \in 1..Len(Append(q, c)) : port[Append(q, c)[j]] = n
  <2>1. \A j \in 1..Len(Append(q, c)) :
          Append(q, c)[j] = c \/ (j \in 1..Len(q) /\ Append(q, c)[j] = q[j])
    OBVIOUS
  <2> QED
    BY <1>2, <2>1
<1> QED
  BY <1>1, <1>2

\* Every step keeps every client where its port takes it.
LEMMA RouteStep == Inv /\ [NextAos]_varsAos => RouteInv'
<1> SUFFICES ASSUME Inv, [NextAos]_varsAos PROVE RouteInv'
  OBVIOUS
<1> USE DEF aosVars, svcVars
<1>0. TypeOK /\ RouteInv
  BY DEF Inv
<1>t. /\ chan \in [Ports -> Seq(Clients)] /\ backlog \in [Ports -> Seq(Clients)]
      /\ srfd \in [Ports -> Clients \cup {NoClient}] /\ serv \in [Ports -> SvcStates]
      /\ k \in Ports /\ 2 \in Ports /\ 4 \in Ports
  BY <1>0 DEF TypeOK, Ports
<1>s. UNCHANGED port
  BY Actions DEF AosStart, AosAcceptService, AosAccept, AosSignal, AosSend, S4Killed,
     SvcConnect, SvcRecv, SvcAnswer, S2Exit, CliAsk, CliConnect, varsAos
<1>1. CASE AosStart \/ AosSignal \/ UNCHANGED varsAos
           \/ (\E n \in Ports, p \in 1..2 : SvcAnswer(n, p))
           \/ \E c \in Clients : CliAsk(c)
  <2>1. /\ UNCHANGED <<k, nsfd, backlog, chan, srfd, serv, port>>
        /\ aos' \in {"signal", "send"} => aos \in {"signal", "send"}
    BY <1>1 DEF AosStart, AosSignal, varsAos, SvcAnswer, CliAsk
  <2> QED
    BY <1>0, <2>1 DEF RouteInv
<1>2. CASE AosAcceptService
  <2>1. /\ aos' \in {"unix", "inet"} /\ UNCHANGED <<backlog, chan, srfd>>
        /\ serv[k] = "connected" /\ serv' = [serv EXCEPT ![k] = "accepted"]
    BY <1>2 DEF AosAcceptService
  <2>2. \A n \in Ports : serv'[n] = serv[n] \/ (serv[n] = "connected" /\ serv'[n] = "accepted")
    BY <1>t, <2>1
  <2> QED
    BY <1>0, <1>s, <2>1, <2>2 DEF RouteInv
<1>3. CASE AosAccept
  <2>1. /\ backlog[k] # <<>> /\ backlog[k] \in Seq(Clients)
        /\ nsfd' = Head(backlog[k]) /\ backlog' = [backlog EXCEPT ![k] = Tail(@)]
        /\ UNCHANGED <<k, chan, srfd, serv>>
    BY <1>3, <1>t DEF AosAccept
  <2>2. /\ port[nsfd'] = k /\ nsfd' \in Clients
        /\ \A j \in 1..Len(Tail(backlog[k])) : port[Tail(backlog[k])[j]] = k
    <3>1. \A j \in 1..Len(backlog[k]) : port[backlog[k][j]] = k
      BY <1>0, <1>t DEF RouteInv
    <3>2. /\ port[Head(backlog[k])] = k
          /\ \A j \in 1..Len(Tail(backlog[k])) : port[Tail(backlog[k])[j]] = k
      BY <2>1, <3>1, RoutedQueue
    <3>3. Head(backlog[k]) \in Clients
      BY <2>1
    <3> QED
      BY <2>1, <3>2, <3>3
  <2>3. backlog'[k] = Tail(backlog[k]) /\ \A n \in Ports : n # k => backlog'[n] = backlog[n]
    BY <1>t, <2>1
  <2>4. \A n \in Ports : \A j \in 1..Len(backlog'[n]) : port[backlog'[n][j]] = n
    <3>1. \A n \in Ports : \A j \in 1..Len(backlog[n]) : port[backlog[n][j]] = n
      BY <1>0 DEF RouteInv
    <3> QED
      BY <2>2, <2>3, <3>1, ZenonT(60)
  <2> QED
    BY <1>0, <1>s, <2>1, <2>2, <2>4 DEF RouteInv
<1>4. CASE AosSend
  <2>1. aos = "send" /\ aos' \in {"inet", "exited"} /\ UNCHANGED <<backlog, srfd, serv>>
    BY <1>4 DEF AosSend
  <2>2. chan' = chan \/ chan' = [chan EXCEPT ![k] = Append(@, nsfd)]
    BY <1>4 DEF AosSend, SocketOf
  <2>3. \A j \in 1..Len(Append(chan[k], nsfd)) : port[Append(chan[k], nsfd)[j]] = k
    BY <1>0, <1>t, <2>1, RoutedQueue DEF RouteInv
  <2>4. \A n \in Ports : chan'[n] = chan[n] \/ (n = k /\ chan'[n] = Append(chan[k], nsfd))
    BY <1>t, <2>2
  <2>5. \A n \in Ports : \A j \in 1..Len(chan'[n]) : port[chan'[n][j]] = n
    BY <1>0, <2>3, <2>4 DEF RouteInv
  <2> QED
    BY <1>0, <1>s, <2>1, <2>5 DEF RouteInv
<1>5. CASE S4Killed
  <2>1. /\ UNCHANGED <<aos, k, nsfd, backlog, srfd>> /\ serv' = [serv EXCEPT ![4] = "killed"]
        /\ chan' = chan \/ chan' = [chan EXCEPT ![4] = <<>>]
    BY <1>5 DEF S4Killed
  <2>2. \A n \in Ports : serv'[n] = serv[n] \/ serv'[n] = "killed"
    BY <1>t, <2>1
  <2>3. \A n \in Ports : chan'[n] = chan[n] \/ chan'[n] = <<>>
    BY <1>t, <2>1
  <2>4. \A n \in Ports : \A j \in 1..Len(chan'[n]) : port[chan'[n][j]] = n
    BY <1>0, <2>3 DEF RouteInv
  <2> QED
    BY <1>0, <1>s, <2>1, <2>2, <2>4 DEF RouteInv
<1>6. ASSUME NEW n \in Ports, SvcConnect(n) PROVE RouteInv'
  <2>1. /\ UNCHANGED <<aos, k, nsfd, backlog, chan, srfd>> /\ serv[n] = "off"
        /\ \A m \in Ports : m # n => serv'[m] = serv[m]
        /\ serv'[n] \in {"connected", "exited"}
    BY <1>6, <1>t DEF SvcConnect
  <2> QED
    BY <1>0, <1>s, <2>1 DEF RouteInv
<1>7. ASSUME NEW n \in Ports, SvcRecv(n) PROVE RouteInv'
  <2>1. /\ UNCHANGED <<aos, k, nsfd, backlog>> /\ serv[n] = "accepted"
        /\ chan[n] # <<>> /\ chan[n] \in Seq(Clients)
        /\ chan' = [chan EXCEPT ![n] = Tail(@)]
        /\ srfd' = [srfd EXCEPT ![n] = Head(chan[n])]
    BY <1>7, <1>t DEF SvcRecv
  <2>2. /\ Head(chan[n]) \in Clients /\ port[Head(chan[n])] = n
        /\ \A j \in 1..Len(Tail(chan[n])) : port[Tail(chan[n])[j]] = n
    BY <1>0, <2>1, RoutedQueue DEF RouteInv
  <2>3. /\ chan'[n] = Tail(chan[n]) /\ \A m \in Ports : m # n => chan'[m] = chan[m]
        /\ srfd'[n] = Head(chan[n]) /\ \A m \in Ports : m # n => srfd'[m] = srfd[m]
    BY <1>t, <2>1
  <2>4. /\ serv'[n] \in {"serving", "exited"}
        /\ \A m \in Ports : m # n => serv'[m] = serv[m]
    BY <1>7, <1>t DEF SvcRecv
  <2>5. \A m \in Ports : \A j \in 1..Len(chan'[m]) : port[chan'[m][j]] = m
    <3>1. \A m \in Ports : \A j \in 1..Len(chan[m]) : port[chan[m][j]] = m
      BY <1>0 DEF RouteInv
    <3> QED
      BY <2>2, <2>3, <3>1, Zenon
  <2>6. srfd'[n] # NoClient
    BY <2>2, <2>3, AllInOneAssumption
  <2> QED
    BY <1>0, <1>s, <2>1, <2>2, <2>3, <2>4, <2>5, <2>6 DEF RouteInv
<1>8. ASSUME NEW p \in 1..2, S2Exit(p) PROVE RouteInv'
  <2>1. /\ UNCHANGED <<aos, k, nsfd, backlog, chan, srfd>>
        /\ serv' = serv \/ serv' = [serv EXCEPT ![2] = "exited"]
    BY <1>8 DEF S2Exit
  <2>2. \A n \in Ports : serv'[n] = serv[n] \/ serv'[n] = "exited"
    BY <1>t, <2>1
  <2> QED
    BY <1>0, <1>s, <2>1, <2>2 DEF RouteInv
<1>9. ASSUME NEW c \in Clients, CliConnect(c) PROVE RouteInv'
  <2>1. /\ UNCHANGED <<aos, k, nsfd, chan, srfd, serv>>
        /\ backlog' = backlog \/ backlog' = [backlog EXCEPT ![port[c]] = Append(@, c)]
    BY <1>9 DEF CliConnect
  <2>2. \A n \in Ports : backlog'[n] = backlog[n]
                           \/ (n = port[c] /\ backlog'[n] = Append(backlog[n], c))
    BY <1>t, <2>1
  <2>3. \A n \in Ports : \A j \in 1..Len(backlog'[n]) : port[backlog'[n][j]] = n
    <3> TAKE n \in Ports
    <3>1. CASE backlog'[n] = backlog[n]
      BY <1>0, <3>1 DEF RouteInv
    <3>2. CASE n = port[c] /\ backlog'[n] = Append(backlog[n], c)
      BY <1>0, <1>t, <3>2, RoutedQueue DEF RouteInv
    <3> QED
      BY <2>2, <3>1, <3>2
  <2> QED
    BY <1>0, <1>s, <2>1, <2>3 DEF RouteInv
<1> QED
  BY <1>1, <1>2, <1>3, <1>4, <1>5, <1>6, <1>7, <1>8, <1>9, Actions
-----------------------------------------------------------------------------
\* Every step gives answers only to the client that the service holds.
LEMMA AnswerStep == Inv /\ [NextAos]_varsAos => AnswerInv'
<1> SUFFICES ASSUME Inv, [NextAos]_varsAos PROVE AnswerInv'
  OBVIOUS
<1> USE DEF aosVars, svcVars
<1>0. TypeOK /\ RouteInv /\ AnswerInv
  BY DEF Inv
<1>t. /\ srfd \in [Ports -> Clients \cup {NoClient}] /\ answers \in [Clients -> Nat]
      /\ port \in [Clients -> Ports]
  BY <1>0 DEF TypeOK
<1>1. CASE UNCHANGED <<srfd, answers, port>>
  BY <1>0, <1>1 DEF AnswerInv
<1>2. ASSUME NEW n \in Ports, SvcRecv(n) PROVE AnswerInv'
  <2>1. /\ serv[n] = "accepted" /\ srfd' = [srfd EXCEPT ![n] = Head(chan[n])]
        /\ UNCHANGED <<answers, port>>
    BY <1>2 DEF SvcRecv
  <2>2. srfd[n] = NoClient
    BY <1>0, <2>1 DEF RouteInv
  <2>3. \A m \in Ports : m # n => srfd'[m] = srfd[m]
    BY <1>t, <2>1
  <2>4. \A c \in Clients : answers[c] # 0 => port[c] # n
    BY <1>0, <2>2, AllInOneAssumption DEF AnswerInv
  <2> QED
    BY <1>0, <1>t, <2>1, <2>3, <2>4 DEF AnswerInv
<1>3. ASSUME NEW n \in Ports, NEW p \in 1..2, SvcAnswer(n, p) PROVE AnswerInv'
  <2>1. /\ answers' = [answers EXCEPT ![srfd[n]] = @ + 1] /\ UNCHANGED <<srfd, port>>
        /\ serv[n] = "serving"
    BY <1>3 DEF SvcAnswer
  <2>2. srfd[n] # NoClient /\ port[srfd[n]] = n
    BY <1>0, <2>1 DEF RouteInv
  <2>3. \A c \in Clients : c # srfd[n] => answers'[c] = answers[c]
    BY <1>t, <2>1
  <2> QED
    BY <1>0, <2>1, <2>2, <2>3 DEF AnswerInv
<1> QED
  BY <1>1, <1>2, <1>3, Actions DEF AosStart, AosAcceptService, AosAccept, AosSignal,
     AosSend, S4Killed, SvcConnect, S2Exit, CliAsk, CliConnect, varsAos
-----------------------------------------------------------------------------
\* Every step has S4's client come after the signal.
LEMMA SignalStep == Inv /\ [NextAos]_varsAos => SignalInv'
<1> SUFFICES ASSUME Inv, [NextAos]_varsAos PROVE SignalInv'
  OBVIOUS
<1> USE DEF aosVars, svcVars
<1>0. TypeOK /\ SignalInv
  BY DEF Inv
<1>t. /\ srfd \in [Ports -> Clients \cup {NoClient}] /\ serv \in [Ports -> SvcStates] /\ chan \in [Ports -> Seq(Clients)]
      /\ k \in Ports /\ 2 \in Ports /\ 4 \in Ports /\ 2 # 4
  BY <1>0 DEF TypeOK, Ports
<1>1. CASE AosStart \/ UNCHANGED varsAos \/ (\E c \in Clients : CliAsk(c) \/ CliConnect(c))
           \/ (\E n \in Ports, p \in 1..2 : SvcAnswer(n, p))
  <2>1. UNCHANGED <<k, sig, serv, chan, srfd>> /\ (aos' = "send" => aos = "send")
    BY <1>1 DEF AosStart, varsAos, CliAsk, CliConnect, SvcAnswer
  <2> QED
    BY <1>0, <2>1 DEF SignalInv
<1>2. CASE AosAcceptService
  <2>1. /\ aos' # "send" /\ UNCHANGED <<sig, chan, srfd>> /\ serv[k] = "connected"
        /\ serv' = [serv EXCEPT ![k] = "accepted"]
    BY <1>2 DEF AosAcceptService
  <2>2. serv'[4] = serv[4] \/ (serv[4] = "connected" /\ serv'[4] = "accepted")
    BY <1>t, <2>1
  <2> QED
    BY <1>0, <2>1, <2>2 DEF SignalInv
<1>3. CASE AosAccept
  <2>1. UNCHANGED <<k, sig, chan, serv, srfd>> /\ (k = 4 => aos' = "signal")
    BY <1>3 DEF AosAccept, AfterAccept
  <2> QED
    BY <1>0, <2>1 DEF SignalInv
<1>4. CASE AosSignal
  BY <1>0, <1>4 DEF AosSignal, SignalInv
<1>5. CASE AosSend
  <2>1. aos = "send" /\ aos' # "send" /\ UNCHANGED <<sig, serv, srfd>>
    BY <1>5 DEF AosSend
  <2>2. chan' = chan \/ chan' = [chan EXCEPT ![k] = Append(@, nsfd)]
    BY <1>5 DEF AosSend, SocketOf
  <2>3. k # 4 => chan'[4] = chan[4]
    BY <1>t, <2>2
  <2> QED
    BY <1>0, <2>1, <2>3 DEF SignalInv
<1>6. CASE S4Killed
  <2>1. serv'[4] = "killed" /\ UNCHANGED srfd
    BY <1>6, <1>t DEF S4Killed
  <2> QED
    BY <1>0, <2>1 DEF SignalInv
<1>7. ASSUME NEW n \in Ports, SvcConnect(n) PROVE SignalInv'
  <2>1. UNCHANGED <<aos, k, sig, chan, srfd>> /\ serv[n] = "off"
        /\ \A m \in Ports : m # n => serv'[m] = serv[m]
        /\ serv'[n] \in {"connected", "exited"}
    BY <1>7, <1>t DEF SvcConnect
  <2> QED
    BY <1>0, <1>t, <2>1 DEF SignalInv
<1>8. ASSUME NEW n \in Ports, SvcRecv(n) PROVE SignalInv'
  <2>1. n # 4
    BY <1>0, <1>8 DEF SvcRecv, SignalInv
  <2>2. UNCHANGED <<aos, k, sig>> /\ serv'[4] = serv[4] /\ chan'[4] = chan[4]
        /\ srfd'[4] = srfd[4]
    BY <1>8, <1>t, <2>1 DEF SvcRecv
  <2> QED
    BY <1>0, <2>2 DEF SignalInv
<1>9. ASSUME NEW p \in 1..2, S2Exit(p) PROVE SignalInv'
  <2>1. UNCHANGED <<aos, k, sig, chan, srfd>> /\ serv'[4] = serv[4]
    BY <1>9, <1>t DEF S2Exit
  <2> QED
    BY <1>0, <2>1 DEF SignalInv
<1> QED
  BY <1>1, <1>2, <1>3, <1>4, <1>5, <1>6, <1>7, <1>8, <1>9, Actions
-----------------------------------------------------------------------------
\* The reads left to S2, spelled out.
LEMMA LeftIs ==
  ASSUME NEW l \in Seq(Int), left[2] = l
  PROVE  /\ Len(l) = 1 => LeftOfS2 = l[1]
         /\ Len(l) = 2 => LeftOfS2 = l[1] + l[2]
<1>1. ASSUME Len(l) = 1 PROVE LeftOfS2 = l[1]
  <2>1. DOMAIN l = 1..1
    BY <1>1
  <2>2. LeftTo(1) = l[1] /\ LeftTo(2) = 0
    BY <2>1 DEF LeftTo
  <2>3. l[1] \in Int
    BY <1>1
  <2> QED
    BY <2>2, <2>3 DEF LeftOfS2
<1>2. ASSUME Len(l) = 2 PROVE LeftOfS2 = l[1] + l[2]
  <2>1. DOMAIN l = 1..2
    BY <1>2
  <2> QED
    BY <2>1 DEF LeftTo, LeftOfS2
<1> QED
  BY <1>1, <1>2

\* Every step keeps what S2 has left and has answered adding up.
LEMMA BudgetStep == Inv /\ [NextAos]_varsAos => BudgetInv'
<1> SUFFICES ASSUME Inv, [NextAos]_varsAos PROVE BudgetInv'
  OBVIOUS
<1> USE DEF aosVars, svcVars
<1>0. TypeOK /\ RouteInv /\ AnswerInv /\ BudgetInv
  BY DEF Inv
<1>t. /\ srfd \in [Ports -> Clients \cup {NoClient}] /\ answers \in [Clients -> Nat]
      /\ port \in [Clients -> Ports] /\ left \in [Ports -> Seq(Int)]
      /\ serv \in [Ports -> SvcStates] /\ k \in Ports /\ 2 \in Ports
  BY <1>0, SMTT(30) DEF TypeOK, Ports
\* A step that leaves S2's client, its answers and S2's processes alone.
<1>1. ASSUME UNCHANGED <<srfd, answers, left>>,
             serv'[2] = serv[2] \/ serv[2] \in {"off", "connected"}
      PROVE  BudgetInv'
  <2>1. CASE serv'[2] = serv[2]
    BY <1>0, <1>1, <2>1 DEF BudgetInv
  <2>2. CASE serv[2] \in {"off", "connected"}
    <3>1. srfd'[2] = NoClient
      BY <1>0, <1>t, <1>1, <2>2 DEF RouteInv
    <3> QED
      BY <3>1 DEF BudgetInv
  <2> QED
    BY <1>1, <2>1, <2>2
<1>2. CASE AosAcceptService
  <2>1. /\ UNCHANGED <<srfd, answers, left>> /\ serv[k] = "connected"
        /\ serv' = [serv EXCEPT ![k] = "accepted"]
    BY <1>2 DEF AosAcceptService
  <2>2. serv'[2] = serv[2] \/ serv[2] = "connected"
    BY <1>t, <2>1
  <2> QED
    BY <1>1, <2>1, <2>2
<1>3. CASE S4Killed
  <2>1. UNCHANGED <<srfd, answers, left>> /\ serv' = [serv EXCEPT ![4] = "killed"]
    BY <1>3 DEF S4Killed
  <2> QED
    BY <1>1, <1>t, <2>1
<1>4. ASSUME NEW n \in Ports, SvcConnect(n) PROVE BudgetInv'
  <2>1. /\ UNCHANGED <<srfd, answers, left>> /\ serv[n] = "off"
        /\ \A m \in Ports : m # n => serv'[m] = serv[m]
    BY <1>4, <1>t DEF SvcConnect
  <2> QED
    BY <1>1, <1>t, <2>1
<1>5. ASSUME NEW n \in Ports, SvcRecv(n) PROVE BudgetInv'
  <2>1. /\ serv[n] = "accepted" /\ chan[n] # <<>> /\ UNCHANGED answers
        /\ \A m \in Ports : m # n =>
             srfd'[m] = srfd[m] /\ left'[m] = left[m] /\ serv'[m] = serv[m]
        /\ srfd'[n] = Head(chan[n])
        /\ left'[n] \in Processes(n)
        /\ serv'[n] = IF left'[n] = <<>> THEN "exited" ELSE "serving"
    BY <1>5, <1>t DEF SvcRecv
  <2>2. CASE n # 2
    BY <1>0, <1>t, <2>1, <2>2 DEF BudgetInv
  <2>3. CASE n = 2
    <3>1. srfd[2] = NoClient
      BY <1>0, <2>1, <2>3 DEF RouteInv
    <3>2. srfd'[2] \in Clients /\ port[srfd'[2]] = 2
      <4>1. chan[2] \in Seq(Clients)
        BY <1>0, <1>t DEF TypeOK
      <4>2. Head(chan[2]) = chan[2][1] /\ 1 \in 1..Len(chan[2]) /\ chan[2][1] \in Clients
        BY <2>1, <2>3, <4>1
      <4>3. port[chan[2][1]] = 2
        BY <1>0, <1>t, <4>2 DEF RouteInv
      <4> QED
        BY <2>1, <2>3, <4>2, <4>3
    <3>3. answers[srfd'[2]] = 0
      BY <1>0, <3>1, <3>2, AllInOneAssumption DEF AnswerInv
    <3>4. left'[2] = <<Reads, Reads>> \/ left'[2] = <<Reads>> \/ left'[2] = <<>>
      BY <2>1, <2>3 DEF Processes
    <3>5. Budgeted(serv'[2], left'[2], answers'[srfd'[2]])
      <4>1. answers'[srfd'[2]] = 0
        BY <2>1, <3>3
      <4>2. CASE left'[2] = <<Reads, Reads>>
        <5>1. serv'[2] = "serving"
          BY <2>1, <2>3, <4>2
        <5> QED
          BY <4>1, <4>2, <5>1 DEF Budgeted, Reads
      <4>3. CASE left'[2] = <<Reads>>
        <5>1. serv'[2] = "serving"
          BY <2>1, <2>3, <4>3
        <5> QED
          BY <4>1, <4>3, <5>1 DEF Budgeted, Reads
      <4>4. CASE left'[2] = <<>>
        <5>1. serv'[2] = "exited"
          BY <2>1, <2>3, <4>4
        <5> QED
          BY <4>1, <5>1 DEF Budgeted
      <4> QED
        BY <3>4, <4>2, <4>3, <4>4
    <3> QED
      BY <3>5 DEF BudgetInv
  <2> QED
    BY <2>2, <2>3
<1>6. ASSUME NEW n \in Ports, NEW p \in 1..2, SvcAnswer(n, p) PROVE BudgetInv'
  <2>1. /\ serv[n] = "serving" /\ p \in DOMAIN left[n] /\ left[n][p] # 0
        /\ UNCHANGED <<serv, srfd>>
        /\ left' = [left EXCEPT ![n][p] = OneReadLess(@)]
        /\ answers' = [answers EXCEPT ![srfd[n]] = @ + 1]
    BY <1>6 DEF SvcAnswer
  <2>2. srfd[n] \in Clients /\ port[srfd[n]] = n
    BY <1>0, <1>t, <2>1 DEF RouteInv
  <2>3. CASE n # 2
    <3>1. left'[2] = left[2]
      BY <1>t, <2>1, <2>3
    <3>2. srfd[2] # NoClient => srfd[2] \in Clients /\ srfd[2] # srfd[n]
      BY <1>0, <1>t, <2>2, <2>3 DEF RouteInv
    <3>3. srfd[2] # NoClient => answers'[srfd[2]] = answers[srfd[2]]
      BY <1>t, <2>1, <3>2
    <3> QED
      BY <1>0, <2>1, <3>1, <3>3 DEF BudgetInv
  <2>4. CASE n = 2
    <3> DEFINE l == left[2]
               a == answers[srfd[2]]
               m == left'[2]
    <3>1. l \in Seq(Int) /\ a \in Nat /\ answers'[srfd[2]] = a + 1
      BY <1>t, <2>1, <2>2, <2>4
    <3>2. m = [l EXCEPT ![p] = OneReadLess(@)]
      BY <1>t, <2>1, <2>4
    <3>3. Budgeted("serving", l, a) /\ p \in DOMAIN l /\ l[p] # 0
      BY <1>0, <2>1, <2>2, <2>4, AllInOneAssumption DEF BudgetInv
    <3> HIDE DEF l, a, m
    <3>4. Len(m) = Len(l) /\ \A q \in DOMAIN l : m[q] = IF q = p THEN OneReadLess(l[q]) ELSE l[q]
      <4>1. m \in Seq(Int) /\ Len(m) = Len(l)
        <5>1. l[p] \in Int
          BY <3>1, <3>3
        <5>2. OneReadLess(l[p]) \in Int
          BY <5>1 DEF OneReadLess, Forever
        <5> QED
          BY <3>1, <3>2, <3>3, <5>2, ExceptSeq
      <4> QED
        BY <3>1, <3>2, <4>1
    <3>5. \A r \in 0..Reads : r # 0 => OneReadLess(r) = r - 1 /\ r - 1 \in 0..Reads
      BY DEF OneReadLess, Forever, Reads
    <3>6. Budgeted("serving", m, a + 1)
      <4>1. CASE Len(l) = 1 /\ l[1] \in 0..Reads /\ a + l[1] \in {Reads, 2 * Reads}
        <5>1. DOMAIN l = 1..1 /\ p = 1
          BY <3>1, <3>3, <4>1
        <5>2. Len(m) = 1 /\ m[1] = l[1] - 1 /\ m[1] \in 0..Reads
          BY <3>3, <3>4, <3>5, <4>1, <5>1
        <5>3. (a + 1) + m[1] = a + l[1]
          BY <3>1, <4>1, <5>2 DEF Reads
        <5> QED
          BY <4>1, <5>2, <5>3 DEF Budgeted
      <4>2. CASE /\ Len(l) = 2 /\ l[1] \in 0..Reads /\ l[2] \in 0..Reads
                 /\ a + (l[1] + l[2]) \in {Reads, 2 * Reads}
        <5>1. DOMAIN l = 1..2 /\ (p = 1 \/ p = 2)
          BY <3>1, <3>3, <4>2
        <5>2. /\ Len(m) = 2 /\ m[1] \in 0..Reads /\ m[2] \in 0..Reads
              /\ \/ m[1] = l[1] - 1 /\ m[2] = l[2]
                 \/ m[1] = l[1] /\ m[2] = l[2] - 1
          BY <3>3, <3>4, <3>5, <4>2, <5>1
        <5>3. (a + 1) + (m[1] + m[2]) = a + (l[1] + l[2])
          BY <3>1, <4>2, <5>2 DEF Reads
        <5> QED
          BY <4>2, <5>2, <5>3 DEF Budgeted
      <4> QED
        BY <3>3, <4>1, <4>2 DEF Budgeted
    <3> QED
      BY <2>1, <2>4, <3>1, <3>6 DEF BudgetInv, m
  <2> QED
    BY <2>3, <2>4
<1>7. ASSUME NEW p \in 1..2, S2Exit(p) PROVE BudgetInv'
  <2> DEFINE l == left[2]
             m == left'[2]
             a == answers[srfd[2]]
  <2>1. /\ serv[2] = "serving" /\ p \in DOMAIN l /\ l[p] = 0
        /\ UNCHANGED <<srfd, answers>>
        /\ left' = [left EXCEPT ![2] = [q \in 1..(Len(@) - 1) |->
                                          IF q < p THEN @[q] ELSE @[q + 1]]]
        /\ \/ Len(l) > 1 /\ serv' = serv
           \/ Len(l) = 1 /\ serv' = [serv EXCEPT ![2] = "exited"]
    BY <1>7 DEF S2Exit
  <2>2. /\ l \in Seq(Int)
        /\ m = [q \in 1..(Len(l) - 1) |-> IF q < p THEN l[q] ELSE l[q + 1]]
        /\ Len(l) = 1 => serv'[2] = "exited"
        /\ Len(l) = 2 => serv'[2] = "serving"
    <3>1. l \in Seq(Int)
      BY <1>t
    <3>2. m = [q \in 1..(Len(l) - 1) |-> IF q < p THEN l[q] ELSE l[q + 1]]
      BY <1>t, <2>1
    <3>3. Len(l) = 1 => serv'[2] = "exited"
      BY <1>t, <2>1
    <3>4. Len(l) = 2 => serv'[2] = "serving"
      BY <1>t, <2>1
    <3> QED
      BY <3>1, <3>2, <3>3, <3>4, Zenon
  <2>3. srfd[2] \in Clients
    BY <1>0, <1>t, <2>1 DEF RouteInv
  <2>4. Budgeted("serving", l, a) /\ a \in Nat
    BY <1>0, <1>t, <2>1, <2>3, AllInOneAssumption DEF BudgetInv
  <2> HIDE DEF l, a, m
  <2>5. CASE Len(l) = 1 /\ l[1] \in 0..Reads /\ a + l[1] \in {Reads, 2 * Reads}
    <3>1. p = 1
      BY <2>1, <2>2, <2>5
    <3>2. a \in {Reads, 2 * Reads}
      BY <2>1, <2>4, <2>5, <3>1
    <3>3. Budgeted("exited", m, a)
      BY <3>2 DEF Budgeted
    <3> QED
      BY <2>1, <2>2, <2>5, <3>3 DEF BudgetInv, m, a
  <2>6. CASE /\ Len(l) = 2 /\ l[1] \in 0..Reads /\ l[2] \in 0..Reads
             /\ a + (l[1] + l[2]) \in {Reads, 2 * Reads}
    <3>1. p = 1 \/ p = 2
      BY <2>1, <2>2, <2>6
    <3>2. m = [q \in 1..1 |-> IF q < p THEN l[q] ELSE l[q + 1]]
      BY <2>2, <2>6
    <3>3. Len(m) = 1 /\ m[1] = (IF p = 1 THEN l[2] ELSE l[1])
      <4>1. m[1] = (IF p = 1 THEN l[2] ELSE l[1])
        BY <3>1, <3>2
      <4>2. Len(m) = 1
        BY <3>2
      <4> QED
        BY <4>1, <4>2
    <3>4. m[1] \in 0..Reads /\ a + m[1] = a + (l[1] + l[2])
      BY <2>1, <2>4, <2>6, <3>1, <3>3 DEF Reads
    <3>5. Budgeted("serving", m, a)
      BY <2>6, <3>3, <3>4 DEF Budgeted
    <3> QED
      BY <2>1, <2>2, <2>6, <3>5 DEF BudgetInv, m, a
  <2> QED
    BY <2>4, <2>5, <2>6 DEF Budgeted
<1> QED
  BY <1>1, <1>2, <1>3, <1>4, <1>5, <1>6, <1>7, Actions DEF AosStart, AosAccept,
     AosSignal, AosSend, CliAsk, CliConnect, varsAos
-----------------------------------------------------------------------------
\* The invariant holds in every behaviour.
LEMMA Invariance == SpecAos => []Inv
<1>1. Inv /\ [NextAos]_varsAos => Inv'
  BY TypeStep, RouteStep, AnswerStep, SignalStep, BudgetStep DEF Inv
<1> QED
  BY InitInv, <1>1, PTL DEF SpecAos

\* However the processes of S2 share the requests of their client, the reads
\* left and the answers given add up to three or six (s2.c:127-139).
THEOREM S2Answers == SpecAos => []S2Budget
<1>1. Inv => S2Budget
  <2> SUFFICES ASSUME Inv, srfd[2] # NoClient
               PROVE  IF serv[2] = "serving"
                        THEN answers[srfd[2]] + LeftOfS2 \in {Reads, 2 * Reads}
                        ELSE answers[srfd[2]] \in {0, Reads, 2 * Reads}
    BY DEF S2Budget
  <2>1. Budgeted(serv[2], left[2], answers[srfd[2]]) /\ left[2] \in Seq(Int)
    BY DEF Inv, BudgetInv, TypeOK, Ports
  <2>2. /\ Len(left[2]) = 1 => LeftOfS2 = left[2][1]
        /\ Len(left[2]) = 2 => LeftOfS2 = left[2][1] + left[2][2]
    BY <2>1, LeftIs
  <2> QED
    BY <2>1, <2>2 DEF Budgeted
<1> QED
  BY Invariance, <1>1, PTL

\* No client of the fourth port is ever answered: S4 is gone, or about to go,
\* when its client comes (aos.c:281-285, s4.c:126-136).
THEOREM S4AnswersNobody == SpecAos => []S4NeverAnswers
<1>1. Inv => S4NeverAnswers
  <2> SUFFICES ASSUME Inv, NEW c \in Clients, port[c] = 4, answers[c] # 0
               PROVE  FALSE
    BY DEF S4NeverAnswers
  <2>1. srfd[4] = c
    BY DEF Inv, AnswerInv
  <2>2. srfd[4] = NoClient
    BY DEF Inv, SignalInv
  <2> QED
    BY <2>1, <2>2, AllInOneAssumption
<1> QED
  BY Invariance, <1>1, PTL
=============================================================================
