---------------------------- MODULE ServersProofs ----------------------------
(***************************************************************************)
(* Proofs about the servers that are started on their own, for any number  *)
(* of clients, services, datagrams and bytes: where the super server and   *)
(* the alternate server may block, who reads the shared file when, and     *)
(* which connection a thread works on.                                     *)
(***************************************************************************)
EXTENDS MCServers, QueueTheorems

-----------------------------------------------------------------------------
(* Handover: the reads on the shared offset. *)

ReadRecords == [by : {"sender", "receiver"}, from : Nat, to : Nat]

HandType ==
  /\ sd \in {"off", "start", "accept", "send", "recv", "end", "killed"}
  /\ rc \in {"off", "start", "failed", "recv", "read", "ack", "end", "killed"}
  /\ chan16 \in [down : {0, 1}, up : {0, 1}]
  /\ offset \in Nat /\ reads \in Seq(ReadRecords)

\* How far the two have come together, and that the sender's first read is the
\* only one as long as the receiver has not read.
HandInv ==
  /\ HandType
  /\ sd \in {"off", "start", "accept"} => reads = <<>>
  /\ rc = "start" => sd \in {"start", "accept"}
  /\ rc = "failed" => reads = <<>> /\ sd # "send"
  /\ rc \in {"recv", "read", "ack"} => sd \in {"accept", "send", "recv"} /\ chan16.up = 0
  /\ chan16.down = 1 => sd \in {"recv", "end"}
  /\ chan16.up = 1 => rc = "end"
  /\ rc = "read" => sd = "recv"
  /\ (rc = "read" \/ (rc = "recv" /\ sd \in {"send", "recv"})) =>
       Len(reads) = 1 /\ reads[1].by = "sender" /\ reads[1].to = offset
  /\ AckOrdersReads

LEMMA HandInit == InitHand \/ IdleHand => HandInv
<1> SUFFICES ASSUME InitHand \/ IdleHand PROVE HandInv
  OBVIOUS
<1>1. reads = <<>> /\ AckOrdersReads
  BY DEF InitHand, IdleHand, BlankHand, AckOrdersReads
<1>2. reads \in Seq(ReadRecords)
  BY <1>1, Empty
<1>3. HandType
  BY <1>2 DEF InitHand, IdleHand, BlankHand, HandType
<1> QED
  BY <1>1, <1>3 DEF InitHand, IdleHand, BlankHand, HandInv

\* A read adds one record, of the process that reads, at the file offset.
LEMMA ReadAdds ==
  ASSUME HandType, NEW w \in {"sender", "receiver"}, NEW n \in Nat, ReadFile(w, n)
  PROVE  /\ offset' \in Nat /\ reads' \in Seq(ReadRecords)
         /\ Len(reads') = Len(reads) + 1
         /\ \A j \in 1..Len(reads) : reads'[j] = reads[j]
         /\ reads'[Len(reads) + 1].by = w
         /\ reads'[Len(reads) + 1].from = offset
         /\ reads'[Len(reads) + 1].to = offset'
<1> DEFINE r == [by |-> w, from |-> offset, to |-> offset']
<1>1. reads' = Append(reads, r) /\ offset' \in Nat
  BY FileAssumption DEF ReadFile, HandType
<1>2. r \in ReadRecords /\ r.by = w /\ r.from = offset /\ r.to = offset'
  BY <1>1 DEF HandType, ReadRecords
<1>3. reads \in Seq(ReadRecords)
  BY DEF HandType
<1> HIDE DEF r
<1> QED
  BY <1>1, <1>2, <1>3

LEMMA HandStep == HandInv /\ [NextHand]_varsHand => HandInv'
<1> SUFFICES ASSUME HandInv, [NextHand]_varsHand PROVE HandInv'
  OBVIOUS
<1>t. HandType
  BY DEF HandInv
<1>1. CASE UNCHANGED varsHand
  BY <1>1 DEF varsHand, HandInv, HandType, AckOrdersReads
<1>2. CASE sender_listen \/ sender_send_fd
  BY <1>2 DEF HandInv, HandType, AckOrdersReads, sender_listen, sender_send_fd, Ended
<1>3. CASE receiver_conn \/ receiver_recv_fd \/ receiver_send \/ receiver_quit
  BY <1>3 DEF HandInv, HandType, AckOrdersReads, receiver_conn, receiver_recv_fd,
              receiver_send, receiver_quit
<1>4. CASE sender_read
  <2>1. ReadFile("sender", 14)
    BY <1>4 DEF sender_read
  <2>2. sd = "accept" /\ reads = <<>> /\ Len(reads) = 0
    BY <1>4 DEF sender_read, HandInv
  <2>3. Len(reads') = 1 /\ reads'[1].by = "sender" /\ reads'[1].to = offset'
    BY <1>t, <2>1, <2>2, ReadAdds
  <2>4. HandType'
    BY <1>t, <1>4, <2>1, ReadAdds DEF sender_read, HandType
  <2>5. AckOrdersReads'
    BY <2>3, <2>4 DEF AckOrdersReads, HandType
  <2> QED
    BY <1>4, <2>2, <2>3, <2>4, <2>5 DEF sender_read, HandInv
<1>5. CASE sender_recv
  <2>1. ReadFile("sender", 7)
    BY <1>5 DEF sender_recv
  <2>2. HandType' /\ sd' = "end" /\ rc' = rc /\ chan16' = chan16
    BY <1>t, <1>5, <2>1, ReadAdds DEF sender_recv, HandType
  <2>3. rc \notin {"start", "recv", "read", "ack"}
    BY <1>t, <1>5 DEF sender_recv, HandInv, HandType, Ended
  <2>5. AckOrdersReads'
    <3>1. Len(reads) \in Nat /\ AckOrdersReads
      BY <1>t DEF HandType, HandInv
    <3>2. /\ Len(reads') = Len(reads) + 1 /\ reads'[Len(reads) + 1].by = "sender"
          /\ \A j \in 1..Len(reads) : reads'[j] = reads[j]
          /\ DOMAIN reads' = 1..Len(reads') /\ DOMAIN reads = 1..Len(reads)
      BY <1>t, <2>1, <2>2, ReadAdds DEF HandType
    <3> QED
      BY <3>1, <3>2 DEF AckOrdersReads
  <2> QED
    BY <1>5, <2>2, <2>3, <2>5 DEF sender_recv, HandInv, Ended
<1>6. CASE receiver_read
  <2>1. ReadFile("receiver", 14)
    BY <1>6 DEF receiver_read
  <2>2. HandType' /\ sd' = sd /\ rc' = "ack" /\ chan16' = chan16
    BY <1>t, <1>6, <2>1, ReadAdds DEF receiver_read, HandType
  <2>3. sd = "recv" /\ chan16.up = 0 /\ Len(reads) = 1
        /\ reads[1].by = "sender" /\ reads[1].to = offset
    BY <1>6 DEF receiver_read, HandInv
  <2>4. /\ Len(reads') = 2 /\ reads'[1] = reads[1] /\ reads'[2].from = offset
        /\ DOMAIN reads' = 1..Len(reads')
    BY <1>t, <2>1, <2>2, <2>3, ReadAdds DEF HandType
  <2>5. AckOrdersReads'
    BY <2>3, <2>4 DEF AckOrdersReads
  <2> QED
    BY <2>2, <2>3, <2>5 DEF HandInv
<1> QED
  BY <1>1, <1>2, <1>3, <1>4, <1>5, <1>6 DEF NextHand, Sender16, Receiver16

-----------------------------------------------------------------------------
(* FdPass: where the alternate server blocks. *)

Connections == {1, 2, 3}

FdType ==
  /\ alt \in {"start", "recv", "exited", "select", "check1", "check2", "check3"}
  /\ passed \in Seq(Connections) /\ opn \subseteq Connections
  /\ rset \subseteq Connections
  /\ tc \in [{1, 2} -> {"off", "ready", "connected", "wrote", "answered", "killed"}]
  /\ udp \in Nat /\ late \in Nat

\* As long as all three are open everything marked is readable; after that the
\* set stays full, so that both connections have been closed by the next check
\* of the UDP socket but one.
FdInv ==
  /\ FdType
  /\ alt \in {"start", "recv", "exited"} => late = 0
  /\ alt \in {"select", "check1", "check2", "check3"} =>
       opn \in {{1, 2, 3}, {1, 3}, {2, 3}, {3}}
  /\ opn = {1, 2, 3} => late = 0
  /\ opn = {1, 2, 3} =>
       \A n, j \in Connections : alt = Check(n) /\ n <= j /\ j \in rset => Readable(j)
  /\ alt = "check1" /\ opn # {1, 2, 3} => rset = {1, 2, 3}
  /\ alt = "check2" => opn # {1, 3} /\ (opn = {2, 3} => late = 0 \/ 2 \in rset)
  /\ alt = "check3" /\ opn # {3} => late = 0
  /\ late <= 1

LEMMA Checks == Check(1) = "check1" /\ Check(2) = "check2" /\ Check(3) = "check3"
BY DEF Check

LEMMA FdInit == InitFd \/ IdleFd => FdInv
<1> SUFFICES ASSUME InitFd \/ IdleFd PROVE FdInv
  OBVIOUS
<1>1. passed \in Seq(Connections)
  BY Empty DEF InitFd, IdleFd, BlankFd
<1>2. tc \in [{1, 2} -> {"off", "ready", "connected", "wrote", "answered", "killed"}]
  BY DEF InitFd, IdleFd
<1>3. FdType
  BY <1>1, <1>2 DEF InitFd, IdleFd, BlankFd, FdType
<1> QED
  BY <1>3 DEF InitFd, IdleFd, BlankFd, FdInv

LEMMA FdStep == FdInv /\ [NextFd]_varsFd => FdInv'
<1> SUFFICES ASSUME FdInv, [NextFd]_varsFd PROVE FdInv'
  OBVIOUS
<1>t. FdType
  BY DEF FdInv
<1>u. ASSUME alt' = alt, opn' = opn, rset' = rset, late' = late, FdType',
             \A j \in Connections : Readable(j) => Readable(j)'
      PROVE  FdInv'
  BY <1>u, Checks DEF FdInv, Check
<1>1. CASE UNCHANGED varsFd
  BY <1>1, <1>t, <1>u DEF varsFd, FdType, Readable
<1>2. CASE serv_listen \/ accept_alt
  BY <1>2, <1>t, <1>u DEF serv_listen, accept_alt, FdType, Readable
<1>3. CASE accept_client(1) \/ accept_client(2) \/ send_udp
  <2>1. \E d \in Connections : passed' = Append(passed, d)
    BY <1>3 DEF accept_client, send_udp, send_fd, Connections
  <2>2. passed' \in Seq(Connections)
    BY <1>t, <2>1 DEF FdType
  <2> QED
    BY <1>3, <1>t, <1>u, <2>2 DEF accept_client, send_udp, FdType, Readable
<1>4. CASE cli_conn
  BY <1>4, <1>t DEF cli_conn, FdInv, FdType, Check, Connections
<1>5. CASE recv_fd
  <2>1. Head(passed) \in Connections /\ passed' \in Seq(Connections)
    BY <1>5, <1>t DEF recv_fd, FdType
  <2>2. FdType'
    BY <1>5, <1>t, <2>1 DEF recv_fd, FdType
  <2>3. late' = 0 /\ alt' \in {"recv", "select"}
    BY <1>5 DEF recv_fd, FdInv
  <2>4. alt' = "select" => opn' = {1, 2, 3}
    BY <1>5 DEF recv_fd
  <2> QED
    BY <2>2, <2>3, <2>4 DEF FdInv, Check, Connections
<1>6. CASE select
  <2>1. FdType'
    BY <1>6, <1>t DEF select, FdType, Connections
  <2>2. /\ alt = "select" /\ alt' = "check1" /\ opn' = opn /\ late' = late
        /\ udp' = udp /\ tc' = tc
    BY <1>6 DEF select
  <2>3. opn = {1, 2, 3} => \A j \in rset' : Readable(j)
    BY <1>6 DEF select
  <2>4. opn # {1, 2, 3} => rset' = {1, 2, 3}
    BY <1>6 DEF select
  <2> QED
    BY <2>1, <2>2, <2>3, <2>4 DEF FdInv, Check, Connections, Readable
<1>7. CASE serve_tcp(1)
  <2>1. FdType'
    BY <1>7, <1>t DEF serve_tcp, FdType, NextCheck
  <2>2. /\ alt = "check1" /\ alt' = "check2" /\ rset' = rset /\ late' = late
        /\ udp' = udp
    BY <1>7 DEF serve_tcp, Check, NextCheck
  <2>3. CASE 1 \in rset /\ 1 \in opn
    <3>1. opn' = opn \ {1}
      BY <1>7, <2>3 DEF serve_tcp
    <3> QED
      BY <2>1, <2>2, <2>3, <3>1 DEF FdInv, Check, Connections
  <2>4. CASE ~(1 \in rset /\ 1 \in opn)
    <3>1. opn' = opn /\ tc' = tc
      BY <1>7, <2>4 DEF serve_tcp
    <3> QED
      BY <2>1, <2>2, <2>4, <3>1 DEF FdInv, Check, Connections, Readable
  <2> QED
    BY <2>3, <2>4
<1>8. CASE serve_tcp(2)
  <2>1. FdType'
    BY <1>8, <1>t DEF serve_tcp, FdType, NextCheck
  <2>2. /\ alt = "check2" /\ alt' = "check3" /\ rset' = rset /\ late' = late
        /\ udp' = udp
    BY <1>8 DEF serve_tcp, Check, NextCheck
  <2>3. CASE 2 \in rset /\ 2 \in opn
    <3>1. opn' = opn \ {2}
      BY <1>8, <2>3 DEF serve_tcp
    <3> QED
      BY <2>1, <2>2, <2>3, <3>1 DEF FdInv, Check, Connections
  <2>4. CASE ~(2 \in rset /\ 2 \in opn)
    <3>1. opn' = opn /\ tc' = tc
      BY <1>8, <2>4 DEF serve_tcp
    <3> QED
      BY <2>1, <2>2, <2>4, <3>1 DEF FdInv, Check, Connections, Readable
  <2> QED
    BY <2>3, <2>4
<1>9. CASE serve_udp
  <2>1. /\ alt = "check3" /\ alt' = "select" /\ rset' = rset /\ opn' = opn
    BY <1>9 DEF serve_udp
  <2>2. udp' \in Nat /\ late' \in Nat /\ late' \in {late, late + 1}
    BY <1>9, <1>t DEF serve_udp, FdType
  <2>3. late' = late \/ opn \in {{1, 3}, {2, 3}}
    BY <1>9 DEF serve_udp
  <2>4. FdType'
    BY <1>9, <1>t, <2>1, <2>2 DEF serve_udp, FdType
  <2> QED
    <3>1. late' <= 1
      <4>1. CASE late' = late
        BY <4>1 DEF FdInv
      <4>2. CASE opn \in {{1, 3}, {2, 3}}
        <5>1. opn # {3}
          BY <4>2
        <5>2. late = 0
          BY <2>1, <5>1 DEF FdInv
        <5> QED
          BY <2>2, <5>2
      <4> QED
        BY <2>3, <4>1, <4>2
    <3>2. opn = {1, 2, 3} => late' = 0
      <4>1. opn = {1, 2, 3} => late' = late
        BY <2>3
      <4> QED
        BY <4>1 DEF FdInv
    <3> QED
      BY <2>1, <2>4, <3>1, <3>2 DEF FdInv, Check, Connections
<1>10. CASE tcp_client1 \/ tcp_client2
  <2>1. PICK n \in {1, 2} : tcp_client(n)
    BY <1>10 DEF tcp_client1, tcp_client2
  <2>2. FdType'
    BY <1>t, <2>1 DEF tcp_client, FdType
  <2>3. \A j \in Connections : Readable(j) => Readable(j)'
    BY <1>t, <2>1 DEF tcp_client, Readable, FdType, Connections
  <2> QED
    BY <1>u, <2>1, <2>2, <2>3 DEF tcp_client
<1>11. CASE udp_client
  BY <1>11, <1>t, <1>u DEF udp_client, FdType, Readable
<1> QED
  BY <1>1, <1>2, <1>3, <1>4, <1>5, <1>6, <1>7, <1>8, <1>9, <1>10, <1>11
     DEF NextFd, MainServer, AltServer

LEMMA FdBlocks == FdInv => BlockedOnlyAfterClose
BY DEF FdInv, BlockedOnlyAfterClose, Connections

-----------------------------------------------------------------------------
(* Inetd: where the super server blocks. *)

InetdType ==
  /\ avail \in 0..Lines /\ used \in Nat /\ i \in Nat \ {0} /\ seen \in Nat
  /\ readset \subseteq Nat
  /\ mpc \in {"off", "start", "select", "scan"}
  /\ q \in [Services -> Seq(Users)]

\* What is left of the set that select has filled is readable.
InetdInv ==
  /\ InetdType
  /\ seen <= used /\ used <= avail
  /\ \A s \in readset : s \in 1..used
  /\ mpc = "scan" => \A s \in readset : s >= i /\ s <= seen => q[s] # <<>>

LEMMA InetdInit == InitInetd \/ IdleInetd => InetdInv
<1> SUFFICES ASSUME InitInetd \/ IdleInetd PROVE InetdInv
  OBVIOUS
<1>1. q \in [Services -> Seq(Users)]
  BY Empty DEF InitInetd, IdleInetd, BlankInetd
<1>2. avail = First /\ used = 0 /\ readset = {} /\ i = 1 /\ seen = 0 /\ mpc \in {"off", "start"}
  BY DEF InitInetd, IdleInetd, BlankInetd
<1> QED
  BY <1>1, <1>2, LinesAssumption DEF InetdInv, InetdType

LEMMA InetdStep == InetdInv /\ [NextInetd]_varsInetd => InetdInv'
<1> SUFFICES ASSUME InetdInv, [NextInetd]_varsInetd PROVE InetdInv'
  OBVIOUS
<1>t. /\ avail \in 0..Lines /\ used \in Nat /\ i \in Nat /\ seen \in Nat
      /\ readset \subseteq Nat
      /\ q \in [Services -> Seq(Users)]
      /\ readset \subseteq Services
  BY LinesAssumption DEF InetdInv, InetdType, Services
<1>1. CASE UNCHANGED varsInetd
  BY <1>1 DEF varsInetd, InetdInv, InetdType
<1>2. CASE main_start \/ Sigusr1
  <2>1. used' = avail /\ readset' = readset \cup ((used + 1)..avail)
    BY <1>2 DEF main_start, Sigusr1, sig_handler
  <2>2. readset' \subseteq Nat /\ \A s \in readset' : s \in 1..used' /\ (s \in readset \/ s > seen)
    BY <1>t, <2>1, LinesAssumption DEF InetdInv
  <2>3. /\ UNCHANGED <<avail, i, seen, q>>
        /\ mpc' = mpc \/ mpc' = "select"
    BY <1>2 DEF main_start, Sigusr1
  <2>4. seen' <= used' /\ used' <= avail' /\ used' \in Nat
    BY <1>t, <2>1, <2>3, LinesAssumption DEF InetdInv
  <2>5. mpc' = "scan" => \A s \in readset' : s >= i /\ s <= seen => q[s] # <<>>
    BY <1>t, <2>2, <2>3 DEF InetdInv
  <2> QED
    BY <1>t, <2>2, <2>3, <2>4, <2>5 DEF InetdInv, InetdType
<1>3. CASE select_call
  <2>1. /\ readset' \subseteq readset /\ \A s \in readset' : q[s] # <<>>
        /\ mpc' = "scan" /\ i' = 1 /\ seen' = used
        /\ UNCHANGED <<avail, used, q>>
    BY <1>3 DEF select_call, Ready
  <2> QED
    BY <1>t, <2>1 DEF InetdInv, InetdType
<1>4. CASE accept_fork \/ encrypt_udp
  <2>1. /\ Marked /\ q[i] # <<>> /\ q' = [q EXCEPT ![i] = Tail(@)] /\ i' = i + 1
        /\ UNCHANGED <<avail, used, readset, mpc, seen>>
    BY <1>4 DEF accept_fork, encrypt_udp
  <2>2. i \in Services /\ Tail(q[i]) \in Seq(Users)
    BY <1>t, <2>1 DEF Marked
  <2>3. q' \in [Services -> Seq(Users)]
    BY <1>t, <2>1, <2>2
  <2>4. \A s \in readset : s # i => q'[s] = q[s]
    BY <1>t, <2>1
  <2> QED
    BY <1>t, <2>1, <2>3, <2>4 DEF InetdInv, InetdType
<1>5. CASE put_back
  <2>0. mpc = "scan" /\ UNCHANGED <<avail, used, seen, q>>
    BY <1>5 DEF put_back
  <2>1. CASE i <= used
    <3>1. readset' = readset \cup {i} /\ i' = i + 1 /\ mpc' = mpc
      BY <1>5, <2>1 DEF put_back
    <3>2. i \in Nat \ {0}
      BY DEF InetdInv, InetdType
    <3> QED
      BY <1>t, <2>0, <2>1, <3>1, <3>2 DEF InetdInv, InetdType
  <2>2. CASE ~(i <= used)
    BY <1>5, <1>t, <2>0, <2>2 DEF put_back, InetdInv, InetdType
  <2> QED
    BY <2>1, <2>2
<1>6. ASSUME NEW c \in Users, client(c)
      PROVE  InetdInv'
  <2>0. UNCHANGED <<avail, used, readset, mpc, i, seen>>
    BY <1>6 DEF client
  <2>1. q' \in [Services -> Seq(Users)] /\ \A s \in Services : q[s] # <<>> => q'[s] # <<>>
    <3>1. CASE UNCHANGED q
      BY <1>t, <3>1
    <3>2. CASE ~UNCHANGED q
      <4>1. PICK s \in Services : q' = [q EXCEPT ![s] = Append(@, c)]
        BY <1>6, <3>2 DEF client
      <4>2. Append(q[s], c) \in Seq(Users) /\ Append(q[s], c) # <<>>
        BY <1>t
      <4> QED
        BY <1>t, <4>1, <4>2
    <3> QED
      BY <3>1, <3>2
  <2> QED
    BY <1>t, <2>0, <2>1 DEF InetdInv, InetdType
<1>7. ASSUME NEW c \in Users, capitalize(c)
      PROVE  InetdInv'
  BY <1>7 DEF capitalize, InetdInv, InetdType
<1>8. CASE AddLine \/ Kill
  <2>1. /\ avail' \in 0..Lines /\ avail <= avail'
        /\ UNCHANGED <<used, readset, mpc, i, seen, q>>
    BY <1>8, <1>t, LinesAssumption DEF AddLine, Kill
  <2>2. used <= avail'
    BY <1>t, <2>1 DEF InetdInv
  <2> QED
    BY <2>1, <2>2 DEF InetdInv, InetdType
<1> QED
  BY <1>1, <1>2, <1>3, <1>4, <1>5, <1>6, <1>7, <1>8 DEF NextInetd, Main

LEMMA InetdBlocks == InetdInv => BlockedOnlyOnNew
BY DEF InetdInv, InetdType, BlockedOnlyOnNew, Blocked, Marked

-----------------------------------------------------------------------------
(* ConnServers: the threads and the connections they get. *)

\* The servers that give a thread the address of a variable.
Threaded == kind \in {"threads", "mn"}

ConnType ==
  /\ bl \in [Ports -> Seq(Peers)] /\ acc \in Seq(Peers)
  /\ lst \in [Acceptors -> SUBSET Ports] /\ todo \in [Acceptors -> SUBSET Ports]
  /\ port \in [Peers -> Ports]
  /\ cs \in [Peers -> {"ready", "open", "failed", "gone"}]
  /\ h \in [Peers -> {"none", "new", "thread", "ended"}]
  /\ slot \in [1..(Cardinality(Peers) + 2) -> {0} \cup Peers]
  /\ fd \in [Peers -> {0} \cup Peers]

\* A connection waits in the backlog of its port or has been accepted: the
\* places are the ports and, for the accepted connections, 0.
Places == {0} \cup Ports
Queues == [x \in Places |-> IF x = 0 THEN acc ELSE bl[x]]

PlaceInv ==
  /\ OneSpot(Places, Queues)
  /\ \A p \in Ports : \A n \in 1..Len(bl[p]) : port[bl[p][n]] = p
  /\ \A c \in Peers : cs[c] = "ready" => ~Somewhere(Places, Queues, c)

\* The variable a thread looks at holds its own connection or a later one that
\* was accepted in the same variable.
SlotInv ==
  /\ kind = "mn" => \A n \in 1..Len(acc) : slot[n] = acc[n]
  /\ kind = "threads" =>
       \A n \in 1..Len(acc) : \E m \in n..Len(acc) :
         /\ acc[m] = slot[SlotOf(port[acc[n]])]
         /\ SlotOf(port[acc[m]]) = SlotOf(port[acc[n]])

Overtaken(c) ==
  \E n, m \in 1..Len(acc) : /\ n < m /\ acc[n] = c /\ acc[m] = fd[c]
                            /\ SlotOf(port[acc[m]]) = SlotOf(port[c])

ThreadInv ==
  \A c \in Peers :
    /\ h[c] # "none" => \E n \in 1..Len(acc) : acc[n] = c
    /\ fd[c] \in {0, c} \/ (kind = "threads" /\ Overtaken(c))

ConnInv ==
  IF Threaded THEN ConnType /\ PlaceInv /\ SlotInv /\ ThreadInv
  ELSE \A c \in Peers : fd[c] = 0

LEMMA ConnInit == InitConn \/ IdleConn => ConnInv
<1> SUFFICES ASSUME InitConn \/ IdleConn PROVE ConnInv
  OBVIOUS
<1>1. Blank /\ kind \in {"iterative", "fork", "execv", "threads", "mn", "none"}
      /\ (Threaded => cs = [c \in Peers |-> "ready"])
  BY DEF InitConn, IdleConn, Threaded
<1>2. bl \in [Ports -> Seq(Peers)] /\ acc \in Seq(Peers)
  BY <1>1, Empty DEF Blank
<1>3. slot \in [1..(Cardinality(Peers) + 2) -> {0} \cup Peers]
  BY <1>1 DEF Blank
<1>4. Threaded => ConnType
  <2>1. /\ lst \in [Acceptors -> SUBSET Ports] /\ todo \in [Acceptors -> SUBSET Ports]
        /\ port \in [Peers -> Ports]
    BY <1>1 DEF Blank, Ports
  <2>2. /\ h \in [Peers -> {"none", "new", "thread", "ended"}]
        /\ fd \in [Peers -> {0} \cup Peers]
    BY <1>1 DEF Blank
  <2>3. Threaded => cs \in [Peers -> {"ready", "open", "failed", "gone"}]
    BY <1>1
  <2> QED
    BY <1>2, <1>3, <2>1, <2>2, <2>3 DEF ConnType
<1>5. \A x \in Places : Queues[x] = <<>>
  BY <1>1 DEF Queues, Places, Blank
<1>6. Threaded => PlaceInv
  <2>1. OneSpot(Places, Queues) /\ \A c : ~Somewhere(Places, Queues, c)
    BY <1>5 DEF OneSpot, Somewhere
  <2> QED
    BY <1>1, <2>1 DEF PlaceInv, Blank
<1>7. SlotInv /\ ThreadInv /\ \A c \in Peers : fd[c] = 0
  BY <1>1 DEF SlotInv, ThreadInv, Blank
<1> QED
  BY <1>4, <1>6, <1>7 DEF ConnInv

\* What a step of the other servers leaves alone.
LEMMA OtherStep ==
  ASSUME ~Threaded, [NextConn]_varsConn
  PROVE  kind' = kind /\ fd' = fd
BY DEF Threaded, NextConn, varsConn, start_iterative, iterative_accept, iterative_answer,
       start_fork, fork_accept, start_execv, Serve, Poll, execv_accept, start_threads,
       threads_accept, start_mn, mn_accept, Start, fork_child, s1, s2, Service,
       thread_start, thread_func, func1_start, func1, mn_client, iterative_c, fork_c1,
       fork_c2, execv_c1, execv_c2, threads_c1, threads_c2, Connect, Type, Greet, Converse

\* The steps of a server that gives its threads an address, one by one.
LEMMA ThreadedActions ==
  ASSUME Threaded, [NextConn]_varsConn
  PROVE  \/ Start("threads") \/ Start("mn") \/ threads_accept \/ mn_accept
         \/ \E s \in Acceptors : Poll(s)
         \/ \E c \in Peers : \/ thread_start(c) \/ func1_start(c)
                             \/ thread_func(c) \/ func1(c)
                             \/ Connect(c) \/ Type(c) \/ Converse(c)
         \/ UNCHANGED varsConn
BY DEF Threaded, NextConn, start_iterative, iterative_accept, iterative_answer,
       start_fork, fork_accept, start_execv, Serve, execv_accept, start_threads,
       start_mn, Start, fork_child, s1, s2, Service, mn_client, iterative_c, fork_c1,
       fork_c2, execv_c1, execv_c2, threads_c1, threads_c2

\* A step that moves no connection and starts no thread.
LEMMA QuietStep ==
  ASSUME Threaded, ConnInv, ConnType', UNCHANGED <<kind, share, bl, acc, port, slot, fd>>,
         \A c \in Peers : cs'[c] = "ready" => cs[c] = "ready",
         \A c \in Peers : h'[c] # "none" => h[c] # "none"
  PROVE  ConnInv'
<1>1. ConnType /\ PlaceInv /\ SlotInv /\ ThreadInv
  BY DEF ConnInv
<1>2. Queues' = Queues
  BY DEF Queues
<1>3. PlaceInv'
  <2>1. OneSpot(Places, Queues)'
    BY <1>1, <1>2 DEF PlaceInv, OneSpot, Places
  <2>2. \A c : Somewhere(Places, Queues, c)' <=> Somewhere(Places, Queues, c)
    BY <1>2 DEF Somewhere, Places
  <2> QED
    BY <1>1, <2>1, <2>2 DEF PlaceInv
<1>4. SlotInv' /\ ThreadInv'
  BY <1>1 DEF SlotInv, ThreadInv, SlotOf, Overtaken
<1> QED
  BY <1>3, <1>4 DEF ConnInv, Threaded

\* Fewer connections are accepted than there are clients and variables.
LEMMA Room ==
  ASSUME ConnType, PlaceInv
  PROVE  Len(acc) \in Nat /\ Len(acc) <= Cardinality(Peers) /\ Cardinality(Peers) \in Nat
<1>1. /\ acc \in Seq(Peers) /\ Len(acc) \in Nat /\ acc \in [1..Len(acc) -> Peers]
  BY DEF ConnType
<1>2. IsFiniteSet(1..Len(acc)) /\ Cardinality(1..Len(acc)) = Len(acc)
  BY <1>1, FS_Interval
<1>3. \A n, m \in 1..Len(acc) : acc[n] = acc[m] => n = m
  <2>1. 0 \in Places /\ Queues[0] = acc
    BY DEF Places, Queues
  <2> QED
    BY <2>1 DEF PlaceInv, OneSpot
<1>4. acc \in Injection(1..Len(acc), Peers)
  BY <1>1, <1>3 DEF Injection, IsInjective
<1>6. Cardinality(1..Len(acc)) <= Cardinality(Peers)
  BY <1>4, PeersAssumption, FS_Injection
<1> QED
  BY <1>1, <1>2, <1>6, PeersAssumption, FS_CardinalityType

\* Accepting the oldest connection of a port's backlog.
LEMMA TakeKeeps ==
  ASSUME ConnType, PlaceInv, NEW p \in Ports, Take(p), UNCHANGED <<port, cs>>,
         \A x \in Ports \ {p} : bl'[x] = bl[x]
  PROVE  /\ PlaceInv' /\ Taken(p) \in Peers /\ port[Taken(p)] = p
         /\ bl' \in [Ports -> Seq(Peers)] /\ acc' \in Seq(Peers)
         /\ Len(acc') = Len(acc) + 1 /\ Len(acc) \in Nat
         /\ acc'[Len(acc) + 1] = Taken(p)
         /\ \A n \in 1..Len(acc) : acc'[n] = acc[n]
<1>1. /\ bl[p] \in Seq(Peers) /\ bl[p] # <<>> /\ acc \in Seq(Peers)
      /\ acc' = Append(acc, Taken(p)) /\ Taken(p) = Head(bl[p])
      /\ bl' = [bl EXCEPT ![p] = Tail(bl[p])] /\ bl \in [Ports -> Seq(Peers)]
  BY DEF ConnType, Take, Taken
<1>2. /\ Taken(p) \in Peers /\ Tail(bl[p]) \in Seq(Peers) /\ Taken(p) = bl[p][1]
      /\ 1 \in 1..Len(bl[p])
      /\ \A n \in 1..Len(Tail(bl[p])) : n + 1 \in 1..Len(bl[p]) /\ Tail(bl[p])[n] = bl[p][n + 1]
  BY <1>1
<1>3. bl' \in [Ports -> Seq(Peers)] /\ bl'[p] = Tail(bl[p])
  BY <1>1, <1>2
<1>4. /\ acc' \in Seq(Peers) /\ Len(acc') = Len(acc) + 1 /\ Len(acc) \in Nat
      /\ acc'[Len(acc) + 1] = Taken(p) /\ \A n \in 1..Len(acc) : acc'[n] = acc[n]
  BY <1>1, <1>2
<1>5. port[Taken(p)] = p
  BY <1>2 DEF PlaceInv
<1>6. PlaceInv'
  <2>1. /\ p \in Places /\ 0 \in Places /\ p # 0
        /\ Queues[p] = bl[p] /\ Queues[0] = acc
        /\ Queues'[p] = bl'[p] /\ Queues'[0] = acc'
        /\ \A x \in Places \ {p, 0} : Queues'[x] = Queues[x]
    BY DEF Places, Queues, Ports
  <2>2. \A x \in Places : Queues[x] \in Seq(Peers)
    BY DEF Places, Queues, Ports, ConnType
  <2>3. /\ OneSpot(Places, Queues')
        /\ \A e : Somewhere(Places, Queues', e) <=> Somewhere(Places, Queues, e)
    <3>1. OneSpot(Places, Queues)
      BY DEF PlaceInv
    <3>2. /\ p \in Places /\ 0 \in Places /\ p # 0 /\ Queues[p] # <<>>
          /\ \A x \in Places \ {p, 0} : Queues'[x] = Queues[x]
          /\ Queues'[p] = Tail(Queues[p])
          /\ Queues'[0] = Append(Queues[0], Head(Queues[p]))
      BY <1>1, <1>3, <2>1
    <3>3. ASSUME NEW a \in Places, NEW b \in Places, a # b, Queues[a] # <<>>,
                 \A x \in Places \ {a, b} : Queues'[x] = Queues[x],
                 Queues'[a] = Tail(Queues[a]), Queues'[b] = Append(Queues[b], Head(Queues[a]))
          PROVE  /\ OneSpot(Places, Queues')
                 /\ \A e : Somewhere(Places, Queues', e) <=> Somewhere(Places, Queues, e)
      BY <2>2, <3>1, <3>3, MoveKeeps
    <3> QED
      BY <3>2, <3>3
  <2>4. OneSpot(Places, Queues)' /\ \A e : Somewhere(Places, Queues, e)' <=> Somewhere(Places, Queues, e)
    BY <2>3 DEF OneSpot, Somewhere, Places
  <2>5. \A x \in Ports : \A n \in 1..Len(bl'[x]) : port[bl'[x][n]] = x
    <3>1. \A n \in 1..Len(bl'[p]) : port[bl'[p][n]] = p
      BY <1>2, <1>3 DEF PlaceInv
    <3>2. \A x \in Ports \ {p} : \A n \in 1..Len(bl'[x]) : port[bl'[x][n]] = x
      BY DEF PlaceInv
    <3> QED
      BY <3>1, <3>2
  <2> QED
    BY <2>4, <2>5 DEF PlaceInv
<1> QED
  BY <1>2, <1>3, <1>4, <1>5, <1>6

\* Accepting keeps what the threads have.
LEMMA AcceptKeepsThreads ==
  ASSUME ThreadInv, ConnType, UNCHANGED <<kind, share, port, fd>>, NEW c \in Peers,
         h' = [h EXCEPT ![c] = "new"],
         acc' \in Seq(Peers), Len(acc') = Len(acc) + 1, acc'[Len(acc) + 1] = c,
         \A n \in 1..Len(acc) : acc'[n] = acc[n]
  PROVE  ThreadInv'
<1>0. acc \in Seq(Peers)
  BY DEF ConnType
<1>1. Len(acc) \in Nat /\ \A n \in 1..Len(acc) : n \in 1..Len(acc')
  <2>1. Len(acc) \in Nat
    BY <1>0
  <2> QED
    BY <2>1
<1> SUFFICES ASSUME NEW d \in Peers
             PROVE  /\ h'[d] # "none" => \E n \in 1..Len(acc') : acc'[n] = d
                    /\ fd'[d] \in {0, d} \/ (kind' = "threads" /\ Overtaken(d)')
  BY DEF ThreadInv
<1>2. h'[d] # "none" => \E n \in 1..Len(acc') : acc'[n] = d
  <2>1. CASE d = c
    <3>1. Len(acc) + 1 \in 1..Len(acc')
      BY <1>1
    <3> QED
      BY <2>1, <3>1
  <2>2. CASE d # c
    <3>1. h'[d] = h[d]
      BY <2>2 DEF ConnType
    <3> QED
      BY <1>1, <3>1 DEF ThreadInv
  <2> QED
    BY <2>1, <2>2
<1>3. Overtaken(d) => Overtaken(d)'
  <2> SUFFICES ASSUME Overtaken(d) PROVE Overtaken(d)'
    OBVIOUS
  <2>1. PICK n, m \in 1..Len(acc) : n < m /\ acc[n] = d /\ acc[m] = fd[d]
                                    /\ SlotOf(port[acc[m]]) = SlotOf(port[d])
    BY DEF Overtaken
  <2>2. acc'[n] = d /\ acc'[m] = fd'[d] /\ n \in 1..Len(acc') /\ m \in 1..Len(acc')
    BY <1>1, <2>1
  <2>3. SlotOf(port[acc[m]])' = SlotOf(port[d])'
    BY <2>1, <2>2 DEF SlotOf
  <2> QED
    BY <2>1, <2>2, <2>3 DEF Overtaken, SlotOf
<1> QED
  BY <1>2, <1>3 DEF ThreadInv

\* A thread gets the connection that its variable holds.
LEMMA DerefKeeps ==
  ASSUME Threaded, ConnInv, NEW c \in Peers, NEW e \in 1..(Cardinality(Peers) + 2),
         Deref(c, e), slot[e] = c \/ (kind = "threads" /\
           \E n, m \in 1..Len(acc) : /\ n < m /\ acc[n] = c /\ acc[m] = slot[e]
                                     /\ SlotOf(port[acc[m]]) = SlotOf(port[c]))
  PROVE  ConnInv'
<1>1. ConnType /\ PlaceInv /\ SlotInv /\ ThreadInv
  BY DEF ConnInv
<1>2. /\ h[c] = "new" /\ fd' = [fd EXCEPT ![c] = slot[e]] /\ h' = [h EXCEPT ![c] = "thread"]
      /\ UNCHANGED <<kind, share, lst, todo, bl, cs, port, slot, acc>>
  BY DEF Deref
<1>3. ConnType'
  <2>1. slot[e] \in {0} \cup Peers
    BY <1>1 DEF ConnType
  <2>2. /\ fd' \in [Peers -> {0} \cup Peers]
        /\ h' \in [Peers -> {"none", "new", "thread", "ended"}]
    BY <1>1, <1>2, <2>1 DEF ConnType
  <2> QED
    BY <1>1, <1>2, <2>2 DEF ConnType
<1>4. PlaceInv' /\ SlotInv'
  <2>1. Queues' = Queues
    BY <1>2 DEF Queues
  <2>2. OneSpot(Places, Queues)' /\ \A d : Somewhere(Places, Queues, d)' <=> Somewhere(Places, Queues, d)
    BY <1>1, <2>1 DEF PlaceInv, OneSpot, Somewhere, Places
  <2> QED
    BY <1>1, <1>2, <2>2 DEF PlaceInv, SlotInv, SlotOf
<1>5. ASSUME NEW d \in Peers
      PROVE  /\ h'[d] # "none" => \E n \in 1..Len(acc') : acc'[n] = d
             /\ fd'[d] \in {0, d} \/ (kind' = "threads" /\ Overtaken(d)')
  <2>1. h'[d] # "none" => h[d] # "none"
    BY <1>1, <1>2 DEF ConnType
  <2>2. fd'[d] = IF d = c THEN slot[e] ELSE fd[d]
    BY <1>1, <1>2 DEF ConnType
  <2>3. fd'[d] \in {0, d} \/ (kind' = "threads" /\ Overtaken(d)')
    <3>1. CASE d = c
      BY <1>2, <2>2, <3>1 DEF Overtaken, SlotOf
    <3>2. CASE d # c
      BY <1>1, <1>2, <2>2, <3>2 DEF ThreadInv, Overtaken, SlotOf
    <3> QED
      BY <3>1, <3>2
  <2> QED
    BY <1>1, <1>2, <2>1, <2>3 DEF ThreadInv
<1> QED
  BY <1>2, <1>3, <1>4, <1>5 DEF ConnInv, Threaded, ThreadInv

LEMMA ConnStep == ConnInv /\ [NextConn]_varsConn => ConnInv'
<1> SUFFICES ASSUME ConnInv, [NextConn]_varsConn PROVE ConnInv'
  OBVIOUS
<1>0. CASE ~Threaded
  BY <1>0, OtherStep DEF ConnInv, Threaded
<1> SUFFICES ASSUME Threaded PROVE ConnInv'
  BY <1>0
<1>t. ConnType /\ PlaceInv /\ SlotInv /\ ThreadInv
  BY DEF ConnInv
<1>1. CASE UNCHANGED varsConn
  <2>1. ConnType'
    BY <1>1, <1>t DEF varsConn, ConnType
  <2> QED
    BY <1>1, <2>1, QuietStep DEF varsConn
<1>2. CASE Start("threads") \/ Start("mn")
  <2>1. ConnType'
    BY <1>2, <1>t DEF Start, ConnType, PortsOf, Ports
  <2> QED
    BY <1>2, <2>1, QuietStep DEF Start
<1>3. ASSUME NEW s \in Acceptors, Poll(s)
      PROVE  ConnInv'
  <2>1. ConnType'
    BY <1>3, <1>t DEF Poll, ConnType
  <2> QED
    BY <1>3, <2>1, QuietStep DEF Poll
<1>4. CASE threads_accept
  <2> DEFINE p == Min(todo[0])
  <2> DEFINE c == Taken(p)
  <2>1. todo[0] \subseteq Ports /\ todo[0] # {} /\ 0 \in Acceptors
    BY <1>4, <1>t DEF threads_accept, ConnType, Acceptors
  <2>2. p \in Ports
    BY <2>1, MinIsMember DEF Ports
  <2>3. /\ Take(p) /\ slot' = [slot EXCEPT ![SlotOf(p)] = c]
        /\ h' = [h EXCEPT ![c] = "new"] /\ todo' = [todo EXCEPT ![0] = @ \ {p}]
        /\ kind = "threads"
        /\ UNCHANGED <<kind, share, lst, cs, port, fd>>
    BY <1>4 DEF threads_accept
  <2> HIDE DEF p
  <2>4. \A x \in Ports \ {p} : bl'[x] = bl[x]
    BY <1>t, <2>3 DEF Take, ConnType
  <2>5. /\ PlaceInv' /\ c \in Peers /\ port[c] = p
        /\ bl' \in [Ports -> Seq(Peers)] /\ acc' \in Seq(Peers)
        /\ Len(acc') = Len(acc) + 1 /\ Len(acc) \in Nat
        /\ acc'[Len(acc) + 1] = c
        /\ \A n \in 1..Len(acc) : acc'[n] = acc[n]
    BY <1>t, <2>2, <2>3, <2>4, TakeKeeps
  <2> HIDE DEF c
  <2>6. SlotOf(p) \in 1..(Cardinality(Peers) + 2)
    BY <1>t, <2>2, Room DEF SlotOf, Ports
  <2>7. ConnType'
    <3>1. /\ slot' \in [1..(Cardinality(Peers) + 2) -> {0} \cup Peers]
          /\ h' \in [Peers -> {"none", "new", "thread", "ended"}]
          /\ todo' \in [Acceptors -> SUBSET Ports]
      BY <1>t, <2>1, <2>3, <2>5, <2>6 DEF ConnType
    <3> QED
      BY <1>t, <2>3, <2>5, <3>1 DEF ConnType
  <2>8. ThreadInv'
    BY <1>t, <2>3, <2>5, AcceptKeepsThreads
  <2>9. SlotInv'
    <3> SUFFICES ASSUME NEW n \in 1..Len(acc')
                 PROVE  \E m \in n..Len(acc') :
                          /\ acc'[m] = slot'[SlotOf(port[acc'[n]])]
                          /\ SlotOf(port[acc'[m]]) = SlotOf(port[acc'[n]])
      BY <2>3 DEF SlotInv, SlotOf
    <3>0. slot'[SlotOf(p)] = c /\ Len(acc') \in n..Len(acc')
      BY <1>t, <2>3, <2>5, <2>6 DEF ConnType
    <3>1. CASE n = Len(acc) + 1
      BY <2>5, <3>0, <3>1
    <3>2. CASE n # Len(acc) + 1 /\ SlotOf(port[acc[n]]) = SlotOf(p)
      <4>1. n \in 1..Len(acc)
        BY <2>5, <3>2
      <4> QED
        BY <2>5, <3>0, <3>2, <4>1
    <3>3. CASE n # Len(acc) + 1 /\ SlotOf(port[acc[n]]) # SlotOf(p)
      <4>1. n \in 1..Len(acc)
        BY <2>5, <3>3
      <4>2. PICK m \in n..Len(acc) : /\ acc[m] = slot[SlotOf(port[acc[n]])]
                                     /\ SlotOf(port[acc[m]]) = SlotOf(port[acc[n]])
        BY <1>t, <2>3, <4>1 DEF SlotInv
      <4>3. slot'[SlotOf(port[acc[n]])] = slot[SlotOf(port[acc[n]])]
        <5>1. acc[n] \in Peers /\ port[acc[n]] \in Ports
          BY <1>t, <4>1 DEF ConnType
        <5>2. SlotOf(port[acc[n]]) \in 1..(Cardinality(Peers) + 2)
          BY <1>t, <5>1, Room DEF SlotOf, Ports
        <5> QED
          BY <1>t, <2>3, <3>3, <5>2 DEF ConnType
      <4>4. m \in n..Len(acc') /\ m \in 1..Len(acc)
        BY <2>5, <4>1, <4>2
      <4> QED
        BY <2>5, <4>1, <4>2, <4>3, <4>4
    <3> QED
      BY <3>1, <3>2, <3>3
  <2> QED
    BY <2>3, <2>5, <2>7, <2>8, <2>9 DEF ConnInv, Threaded
<1>5. CASE mn_accept
  <2> DEFINE p == Min(todo[0])
  <2> DEFINE c == Taken(p)
  <2>1. todo[0] \subseteq Ports /\ todo[0] # {} /\ 0 \in Acceptors
    BY <1>5, <1>t DEF mn_accept, ConnType, Acceptors
  <2>2. p \in Ports
    BY <2>1, MinIsMember DEF Ports
  <2>3. /\ Take(p) /\ slot' = [slot EXCEPT ![Len(acc) + 1] = c]
        /\ h' = [h EXCEPT ![c] = "new"] /\ todo' = [todo EXCEPT ![0] = @ \ {p}]
        /\ kind = "mn"
        /\ UNCHANGED <<kind, share, lst, cs, port, fd>>
    BY <1>5 DEF mn_accept
  <2> HIDE DEF p
  <2>4. \A x \in Ports \ {p} : bl'[x] = bl[x]
    BY <1>t, <2>3 DEF Take, ConnType
  <2>5. /\ PlaceInv' /\ c \in Peers /\ port[c] = p
        /\ bl' \in [Ports -> Seq(Peers)] /\ acc' \in Seq(Peers)
        /\ Len(acc') = Len(acc) + 1 /\ Len(acc) \in Nat
        /\ acc'[Len(acc) + 1] = c
        /\ \A n \in 1..Len(acc) : acc'[n] = acc[n]
    BY <1>t, <2>2, <2>3, <2>4, TakeKeeps
  <2> HIDE DEF c
  <2>6. /\ Len(acc) + 1 \in 1..(Cardinality(Peers) + 2)
        /\ \A n \in 1..Len(acc) : n \in 1..(Cardinality(Peers) + 2) /\ n # Len(acc) + 1
    BY <1>t, Room
  <2>7. ConnType'
    <3>1. /\ slot' \in [1..(Cardinality(Peers) + 2) -> {0} \cup Peers]
          /\ h' \in [Peers -> {"none", "new", "thread", "ended"}]
          /\ todo' \in [Acceptors -> SUBSET Ports]
      BY <1>t, <2>1, <2>3, <2>5, <2>6 DEF ConnType
    <3> QED
      BY <1>t, <2>3, <2>5, <3>1 DEF ConnType
  <2>8. ThreadInv'
    BY <1>t, <2>3, <2>5, AcceptKeepsThreads
  <2>9. SlotInv'
    <3> SUFFICES ASSUME NEW n \in 1..Len(acc') PROVE slot'[n] = acc'[n]
      BY <2>3 DEF SlotInv
    <3>1. CASE n = Len(acc) + 1
      BY <1>t, <2>3, <2>5, <2>6, <3>1 DEF ConnType
    <3>2. CASE n # Len(acc) + 1
      <4>1. n \in 1..Len(acc)
        BY <2>5, <3>2
      <4> QED
        BY <1>t, <2>3, <2>5, <2>6, <4>1 DEF ConnType, SlotInv
    <3> QED
      BY <3>1, <3>2
  <2> QED
    BY <2>3, <2>5, <2>7, <2>8, <2>9 DEF ConnInv, Threaded
<1>6. ASSUME NEW c \in Peers, thread_start(c)
      PROVE  ConnInv'
  <2>1. kind = "threads" /\ Deref(c, SlotOf(port[c])) /\ h[c] = "new"
    BY <1>6 DEF thread_start, Deref
  <2>2. SlotOf(port[c]) \in 1..(Cardinality(Peers) + 2)
    <3>1. port[c] \in Ports
      BY <1>t DEF ConnType
    <3> QED
      BY <1>t, <3>1, Room DEF SlotOf, Ports
  <2>3. PICK n \in 1..Len(acc) : acc[n] = c
    BY <1>t, <2>1 DEF ThreadInv
  <2>4. PICK m \in n..Len(acc) : /\ acc[m] = slot[SlotOf(port[c])]
                                 /\ SlotOf(port[acc[m]]) = SlotOf(port[c])
    BY <1>t, <2>1, <2>3 DEF SlotInv
  <2>5. m = n \/ (n < m /\ m \in 1..Len(acc))
    BY <2>4
  <2> QED
    BY <2>1, <2>2, <2>3, <2>4, <2>5, DerefKeeps
<1>7. ASSUME NEW c \in Peers, func1_start(c)
      PROVE  ConnInv'
  <2> DEFINE e == CHOOSE n \in DOMAIN acc : acc[n] = c
  <2>1. kind = "mn" /\ Deref(c, e) /\ h[c] = "new"
    BY <1>7 DEF func1_start, Deref
  <2>2. DOMAIN acc = 1..Len(acc)
    BY <1>t DEF ConnType
  <2>3. \E n \in 1..Len(acc) : acc[n] = c
    BY <1>t, <2>1 DEF ThreadInv
  <2>4. e \in 1..Len(acc) /\ acc[e] = c
    BY <2>2, <2>3
  <2>5. slot[e] = c /\ e \in 1..(Cardinality(Peers) + 2)
    BY <1>t, <2>1, <2>4, Room DEF SlotInv
  <2> HIDE DEF e
  <2> QED
    BY <2>1, <2>5, DerefKeeps
<1>8. ASSUME NEW c \in Peers, thread_func(c) \/ func1(c)
      PROVE  ConnInv'
  <2>1. /\ h' = h \/ (h' = [h EXCEPT ![c] = "ended"] /\ h[c] = "thread")
        /\ UNCHANGED <<kind, share, lst, todo, bl, cs, port, slot, fd, acc>>
    BY <1>8 DEF thread_func, func1
  <2>2. ConnType'
    BY <1>t, <2>1 DEF ConnType
  <2>3. \A d \in Peers : h'[d] # "none" => h[d] # "none"
    BY <1>t, <2>1 DEF ConnType
  <2> QED
    BY <2>1, <2>2, <2>3, QuietStep
<1>9. ASSUME NEW c \in Peers, Type(c) \/ Converse(c)
      PROVE  ConnInv'
  <2>1. /\ cs' = cs \/ cs' = [cs EXCEPT ![c] = "gone"]
        /\ UNCHANGED <<kind, share, lst, todo, bl, port, h, slot, fd, acc>>
    BY <1>9 DEF Type, Converse, Greet
  <2>2. ConnType'
    BY <1>t, <2>1 DEF ConnType
  <2>3. \A d \in Peers : cs'[d] = "ready" => cs[d] = "ready"
    BY <1>t, <2>1 DEF ConnType
  <2> QED
    BY <2>1, <2>2, <2>3, QuietStep
<1>10. ASSUME NEW c \in Peers, Connect(c)
       PROVE  ConnInv'
  <2>0. cs[c] = "ready" /\ UNCHANGED <<kind, share, lst, todo, h, slot, fd, acc>>
    BY <1>10 DEF Connect
  <2>1. CASE cs' = [cs EXCEPT ![c] = "failed"] /\ UNCHANGED <<bl, port>>
    <3>1. ConnType' /\ \A d \in Peers : cs'[d] = "ready" => cs[d] = "ready"
      BY <1>t, <2>0, <2>1 DEF ConnType
    <3> QED
      BY <2>0, <2>1, <3>1, QuietStep
  <2>2. CASE ~(cs' = [cs EXCEPT ![c] = "failed"] /\ UNCHANGED <<bl, port>>)
    <3>1. PICK p \in Ports : /\ bl' = [bl EXCEPT ![p] = Append(@, c)]
                             /\ port' = [port EXCEPT ![c] = p]
                             /\ cs' = [cs EXCEPT ![c] = "open"]
      BY <1>10, <2>2 DEF Connect, PortsOf, Ports
    <3>2. bl[p] \in Seq(Peers) /\ Append(bl[p], c) \in Seq(Peers)
      BY <1>t DEF ConnType
    <3>3. bl' \in [Ports -> Seq(Peers)] /\ bl'[p] = Append(bl[p], c)
      BY <1>t, <3>1, <3>2 DEF ConnType
    <3>4. ConnType'
      <4>1. /\ port' \in [Peers -> Ports]
            /\ cs' \in [Peers -> {"ready", "open", "failed", "gone"}]
        BY <1>t, <3>1 DEF ConnType
      <4> QED
        BY <1>t, <2>0, <3>3, <4>1 DEF ConnType
    \* The client was nowhere before.
    <3>5. /\ \A n \in 1..Len(acc) : acc[n] \in Peers \ {c}
          /\ \A x \in Ports : \A n \in 1..Len(bl[x]) : bl[x][n] \in Peers \ {c}
      <4>1. ~Somewhere(Places, Queues, c)
        BY <1>t, <2>0 DEF PlaceInv
      <4>2. /\ \A n \in 1..Len(acc) : acc[n] # c
            /\ \A x \in Ports : \A n \in 1..Len(bl[x]) : bl[x][n] # c
        BY <4>1 DEF Somewhere, Places, Queues, Ports
      <4> QED
        BY <1>t, <4>2 DEF ConnType
    <3>6. \A d \in Peers \ {c} : port'[d] = port[d] /\ cs'[d] = cs[d]
      BY <1>t, <3>1 DEF ConnType
    <3>7. PlaceInv'
      <4>1. \A x \in Places : Queues[x] \in Seq(Peers)
        BY <1>t DEF Places, Queues, Ports, ConnType
      <4>2. /\ p \in Places /\ Queues'[p] = Append(Queues[p], c)
            /\ \A x \in Places \ {p} : Queues'[x] = Queues[x]
        <5>1. p # 0 /\ \A x \in Ports \ {p} : bl'[x] = bl[x]
          BY <1>t, <3>1 DEF ConnType, Ports
        <5> QED
          BY <2>0, <3>3, <5>1 DEF Places, Queues
      <4>3. OneSpot(Places, Queues) /\ ~Somewhere(Places, Queues, c)
        BY <1>t, <2>0 DEF PlaceInv
      <4>4. /\ OneSpot(Places, Queues')
            /\ \A d : Somewhere(Places, Queues', d) <=> Somewhere(Places, Queues, d) \/ d = c
        BY <4>1, <4>2, <4>3, AddKeeps
      <4>5. /\ OneSpot(Places, Queues)'
            /\ \A d : Somewhere(Places, Queues, d)' <=> Somewhere(Places, Queues, d) \/ d = c
        BY <4>4 DEF OneSpot, Somewhere, Places
      <4>6. \A d \in Peers : cs'[d] = "ready" => cs[d] = "ready" /\ d # c
        BY <1>t, <3>1 DEF ConnType
      <4>7. \A x \in Ports : \A n \in 1..Len(bl'[x]) : port'[bl'[x][n]] = x
        <5>1. \A x \in Ports : \A n \in 1..Len(bl[x]) : port'[bl[x][n]] = x
          BY <1>t, <3>5, <3>6 DEF PlaceInv
        <5>2. port'[c] = p
          BY <1>t, <3>1 DEF ConnType
        <5>3. \A n \in 1..Len(bl'[p]) :
                 \/ n \in 1..Len(bl[p]) /\ bl'[p][n] = bl[p][n]
                 \/ bl'[p][n] = c
          BY <3>2, <3>3
        <5>4. \A x \in Ports \ {p} : bl'[x] = bl[x]
          BY <1>t, <3>1 DEF ConnType
        <5> QED
          BY <5>1, <5>2, <5>3, <5>4
      <4> QED
        BY <1>t, <4>5, <4>6, <4>7 DEF PlaceInv
    <3>8. \A n \in 1..Len(acc) : acc'[n] = acc[n] /\ port'[acc[n]] = port[acc[n]]
      BY <2>0, <3>5, <3>6
    <3>9. SlotInv'
      BY <1>t, <2>0, <3>8 DEF SlotInv, SlotOf
    <3>10. ThreadInv'
      <4> SUFFICES ASSUME NEW d \in Peers, Overtaken(d)
                   PROVE  Overtaken(d)'
        BY <1>t, <2>0 DEF ThreadInv
      <4>1. PICK n, m \in 1..Len(acc) : /\ n < m /\ acc[n] = d /\ acc[m] = fd[d]
                                        /\ SlotOf(port[acc[m]]) = SlotOf(port[d])
        BY DEF Overtaken
      <4>2. port'[acc[m]] = port[acc[m]] /\ port'[d] = port[d]
        BY <3>8, <4>1
      <4> QED
        BY <2>0, <4>1, <4>2 DEF Overtaken, SlotOf
    <3> QED
      BY <2>0, <3>4, <3>7, <3>9, <3>10 DEF ConnInv, Threaded
  <2> QED
    BY <2>1, <2>2
<1> QED
  BY <1>1, <1>2, <1>3, <1>4, <1>5, <1>6, <1>7, <1>8, <1>9, <1>10, ThreadedActions

LEMMA ConnServes == ConnInv => ThreadsServeLater
<1> SUFFICES ASSUME ConnInv PROVE ThreadsServeLater
  OBVIOUS
<1>1. CASE ~Threaded
  BY <1>1 DEF ConnInv, Threaded, ThreadsServeLater
<1>2. CASE Threaded
  <2>1. ConnType /\ ThreadInv
    BY <1>2 DEF ConnInv
  <2>2. DOMAIN acc = 1..Len(acc)
    BY <2>1 DEF ConnType
  <2>3. \A c \in Accepted : c \in Peers
    BY <2>1, <2>2 DEF Accepted, ConnType
  <2>4. \A c \in Peers : Overtaken(c) => /\ Earlier(c, fd[c]) /\ fd[c] \in Accepted
                                         /\ SlotOf(port[c]) = SlotOf(port[fd[c]])
    BY <2>2 DEF Overtaken, Earlier, Accepted
  <2> QED
    BY <2>1, <2>3, <2>4 DEF ThreadInv, ThreadsServeLater
<1> QED
  BY <1>1, <1>2

-----------------------------------------------------------------------------
(* The theorems. *)

LEMMA Invariance == Spec => [](HandInv /\ FdInv /\ InetdInv /\ ConnInv)
<1>1. Init => HandInv /\ FdInv /\ InetdInv /\ ConnInv
  BY HandInit, FdInit, InetdInit, ConnInit DEF Init
<1>2. HandInv /\ FdInv /\ InetdInv /\ ConnInv /\ [Next]_vars
        => (HandInv /\ FdInv /\ InetdInv /\ ConnInv)'
  BY HandStep, FdStep, InetdStep, ConnStep DEF Next, vars
<1> QED
  BY <1>1, <1>2, PTL DEF Spec

\* The receiver never reads after the sender's second read, and its bytes are
\* the ones after the sender's first (assignment 16), however long the file is.
THEOREM MessageOrdersReads == Spec => []AckOrdersReads
<1>1. HandInv => AckOrdersReads
  BY DEF HandInv
<1> QED
  BY <1>1, Invariance, PTL

\* The alternate server of fd_pass blocks on a silent descriptor only after it
\* has closed one, and then answers at most one more datagram before it stops.
THEOREM CloseComesFirst == Spec => []BlockedOnlyAfterClose
BY FdBlocks, Invariance, PTL

\* The super server blocks away from select only on a service that SIGUSR1 has
\* added since select returned, however many lines config.txt gets.
THEOREM OnlyNewServiceBlocks == Spec => []BlockedOnlyOnNew
BY InetdBlocks, Invariance, PTL

\* A thread of the threaded server works on its own connection or on one that
\* was accepted later through the same variable; a thread of the m-n server
\* works on its own.
THEOREM ThreadsServeNoEarlier == Spec => []ThreadsServeLater
BY ConnServes, Invariance, PTL

=============================================================================
