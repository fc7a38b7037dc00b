--------------------------- MODULE GroupChatProofs ---------------------------
(***************************************************************************)
(* The group chat implements Broadcast, for any set of running clients and *)
(* any capacity of the queues: every client sees the messages addressed to *)
(* it in order, none twice and none left out.                              *)
(*                                                                         *)
(* A queue is shared by the messages to the server and the copies for all  *)
(* clients, and each queue has a thread, a log and readers of its own: so  *)
(* the argument is about one queue Q, the thread's state S, the senders L  *)
(* and what has been seen, la, and every step is a lemma about these.      *)
(***************************************************************************)
EXTENDS GroupChat, QueueTheorems

Messages == [type : 1..8, n : Nat]
ServerStates == [n : Nat, todo : Seq(3..8)]

\* Who reads a queue.
Readers(q) == {d \in Members : q = d[1] \/ q = "global"}

TypeOK ==
  /\ mq \in [Channels -> Seq(Messages)] /\ server \in [Channels -> ServerStates]
  /\ typed \in [Members -> Channels \cup {Nowhere}]
  /\ log \in [Channels -> Seq(Members)]
  /\ last \in [Channels -> [Members -> Nat]]

InTodo(t, S) == \E j \in 1..Len(S.todo) : S.todo[j] = t
HasMsg(Q, t, n) == \E j \in 1..Len(Q) : Q[j].type = t /\ Q[j].n = n

\* The numbers in a queue: increasing for each type, the copies before the
\* message the thread is at, and that before what it has not received.
OrderInv(Q, S, L) ==
  /\ \A j, m \in 1..Len(Q) : j < m /\ Q[j].type = Q[m].type => Q[j].n < Q[m].n
  /\ \A j \in 1..Len(Q) : Q[j].n \in 1..Len(L)
  /\ \A j, m \in 1..Len(Q) : Q[j].type # ToServer /\ Q[m].type = ToServer => Q[j].n < Q[m].n
  /\ \A j \in 1..Len(Q) : Q[j].type = ToServer => S.n < Q[j].n
  /\ \A j \in 1..Len(Q) : S # Idle /\ Q[j].type # ToServer => Q[j].n <= S.n
  /\ \A j \in 1..Len(Q) : InTodo(Q[j].type, S) => Q[j].n < S.n

\* The thread sends each of its copies once.
ThreadInv(S, L) ==
  S # Idle => /\ S.n \in 1..Len(L) /\ S.todo # <<>>
              /\ \A j, m \in 1..Len(S.todo) : S.todo[j] = S.todo[m] => j = m

\* What is under way for a reader d: messages it has not seen and is to see,
\* and all of these.
ReaderInv(q, Q, S, L, la, d) ==
  LET t == TypeFor(q, d) IN
  /\ la <= Len(L)
  /\ \A j \in 1..Len(Q) : Q[j].type \in {ToServer, t} => la < Q[j].n
  /\ \A j \in 1..Len(Q) : Q[j].type = t => d \in Addressed(q, L[Q[j].n])
  /\ InTodo(t, S) => la < S.n /\ d \in Addressed(q, L[S.n])
  /\ \A n \in 1..Len(L) : la < n /\ d \in Addressed(q, L[n]) =>
       \/ HasMsg(Q, ToServer, n) \/ HasMsg(Q, t, n)
       \/ S.n = n /\ InTodo(t, S)

ChannelInv(q, Q, S, L, la) ==
  /\ OrderInv(Q, S, L) /\ ThreadInv(S, L)
  /\ \A d \in Readers(q) : ReaderInv(q, Q, S, L, la[d], d)

Inv == TypeOK /\ \A q \in Channels : ChannelInv(q, mq[q], server[q], log[q], last[q])
-----------------------------------------------------------------------------
(* The types of the messages. *)

\* Two readers of a queue read different types, none of them the server's.
LEMMA TypesDiffer ==
  ASSUME NEW q \in Channels, NEW d \in Readers(q)
  PROVE  /\ TypeFor(q, d) \in 3..8
         /\ \A e \in Readers(q) : TypeFor(q, e) = TypeFor(q, d) => e = d
<1>1. \A e \in Readers(q) : /\ e = <<e[1], e[2]>> /\ e[1] \in {"A", "B"} /\ e[2] \in 1..3
                            /\ q = e[1] \/ q = "global"
  BY DEF Readers, Members
<1>2. \A e \in Readers(q) :
        TypeFor(q, e) = IF q = "global" /\ e[1] = "B" THEN e[2] + 5 ELSE e[2] + 2
  BY <1>1 DEF TypeFor, GlobalType, LocalType
<1>3. TypeFor(q, d) \in 3..8
  BY <1>1, <1>2
<1>4. ASSUME NEW e \in Readers(q), TypeFor(q, e) = TypeFor(q, d)
      PROVE  e[1] = d[1] /\ e[2] = d[2]
  BY <1>1, <1>2, <1>4
<1>5. \A e \in Readers(q) : TypeFor(q, e) = TypeFor(q, d) => e = d
  BY <1>1, <1>4
<1> QED
  BY <1>3, <1>5

\* The server makes a copy for each of those it addresses, each type once.
LEMMA CopiesAre ==
  ASSUME NEW q \in Channels, NEW c \in Members
  PROVE  /\ Copies(q, c) \in Seq(3..8) /\ Copies(q, c) # <<>>
         /\ \A j, m \in 1..Len(Copies(q, c)) : Copies(q, c)[j] = Copies(q, c)[m] => j = m
         /\ \A d \in Readers(q) : d \in Addressed(q, c) <=>
              \E j \in 1..Len(Copies(q, c)) : Copies(q, c)[j] = TypeFor(q, d)
<1>1. c[1] \in {"A", "B"} /\ c[2] \in {1, 2, 3}
  BY DEF Members
<1>2. \/ \E u, v \in 3..5 : u # v /\ Copies(q, c) = <<u, v>>
      \/ \E u, v, w, x, y \in 3..8 :
           /\ Copies(q, c) = <<u, v, w, x, y>>
           /\ u # v /\ u # w /\ u # x /\ u # y /\ v # w /\ v # x /\ v # y
           /\ w # x /\ w # y /\ x # y
  <2>1. CASE q # "global"
    <3>1. LocalCopies(c[2]) \in {<<4, 5>>, <<3, 5>>, <<3, 4>>}
      BY <1>1 DEF LocalCopies
    <3>2. Copies(q, c) \in {<<4, 5>>, <<3, 5>>, <<3, 4>>}
      BY <2>1, <3>1 DEF Copies
    <3> QED
      BY <3>2
  <2>2. CASE q = "global"
    <3>1. Copies(q, c) = GlobalCopies(c[1], c[2])
      BY <2>2 DEF Copies
    <3> DEFINE g == GlobalCopies(c[1], c[2])
    <3>2. /\ c[2] = 1 /\ c[1] = "A" => g = <<4, 5, 6, 7, 8>>
          /\ c[2] = 1 /\ c[1] = "B" => g = <<4, 5, 3, 7, 8>>
          /\ c[2] = 2 /\ c[1] = "A" => g = <<3, 5, 6, 7, 8>>
          /\ c[2] = 2 /\ c[1] = "B" => g = <<4, 5, 6, 3, 8>>
          /\ c[2] = 3 /\ c[1] = "A" => g = <<4, 5, 3, 7, 8>>
          /\ c[2] = 3 /\ c[1] = "B" => g = <<4, 5, 6, 7, 3>>
      BY DEF GlobalCopies
    <3> HIDE DEF g
    <3>3. g \in {<<4, 5, 6, 7, 8>>, <<4, 5, 3, 7, 8>>, <<3, 5, 6, 7, 8>>,
                <<4, 5, 6, 3, 8>>, <<4, 5, 6, 7, 3>>}
      BY <1>1, <3>2
    <3>4. \E u, v, w, x, y \in 3..8 :
           /\ g = <<u, v, w, x, y>>
           /\ u # v /\ u # w /\ u # x /\ u # y /\ v # w /\ v # x /\ v # y
           /\ w # x /\ w # y /\ x # y
      BY <3>3
    <3> QED
      BY <3>1, <3>4 DEF g
  <2> QED
    BY <2>1, <2>2
<1>3. /\ Copies(q, c) \in Seq(3..8) /\ Copies(q, c) # <<>>
      /\ \A j, m \in 1..Len(Copies(q, c)) : Copies(q, c)[j] = Copies(q, c)[m] => j = m
  <2>1. CASE \E u, v \in 3..5 : u # v /\ Copies(q, c) = <<u, v>>
    BY <2>1
  <2>2. CASE ~ \E u, v \in 3..5 : u # v /\ Copies(q, c) = <<u, v>>
    <3>1. PICK u, v, w, x, y \in 3..8 :
           /\ Copies(q, c) = <<u, v, w, x, y>>
           /\ u # v /\ u # w /\ u # x /\ u # y /\ v # w /\ v # x /\ v # y
           /\ w # x /\ w # y /\ x # y
      BY <1>2, <2>2
    <3> DEFINE f == Copies(q, c)
    <3>2. f \in Seq(3..8)
      BY <3>1
    <3>3. Len(f) = 5 /\ f[1] = u /\ f[2] = v /\ f[3] = w /\ f[4] = x /\ f[5] = y
      BY <3>1
    <3> HIDE DEF f
    <3>4. \A j \in 1..Len(f) : j = 1 \/ j = 2 \/ j = 3 \/ j = 4 \/ j = 5
      BY <3>3
    <3>5. f # <<>>
      BY <3>3
    <3>6. \A j, m \in 1..Len(f) : f[j] = f[m] => j = m
      BY <3>1, <3>3, <3>4
    <3> QED
      BY <3>2, <3>5, <3>6 DEF f
  <2> QED
    BY <2>1, <2>2
<1>4. DOMAIN Copies(q, c) = 1..Len(Copies(q, c))
  BY <1>3
<1>5. \A d \in Readers(q) : d \in Addressed(q, c) <=>
        \E j \in 1..Len(Copies(q, c)) : Copies(q, c)[j] = TypeFor(q, d)
  BY <1>4 DEF Addressed, Readers, Range
<1> QED
  BY <1>3, <1>5

\* The first message of a type.
LEMMA FirstIs ==
  ASSUME NEW q, NEW t, NEW k, k = First(q, t), k # 0, Len(mq[q]) \in Nat
  PROVE  /\ k \in 1..Len(mq[q]) /\ mq[q][k].type = t
         /\ \A j \in 1..Len(mq[q]) : mq[q][j].type = t => k <= j
<1> DEFINE I == {j \in 1..Len(mq[q]) : mq[q][j].type = t}
<1>1. k = (IF I # {} THEN Min(I) ELSE 0)
  BY DEF First, SelectInSeq
<1>2. I # {} /\ k = Min(I) /\ I \subseteq Nat
  BY <1>1
<1> HIDE DEF I
<1>3. k \in I /\ \A j \in I : k <= j
  BY <1>2, MinIsLeast
<1> QED
  BY <1>3 DEF I

\* No copy is a message to the server.
LEMMA TodoTypes ==
  ASSUME NEW S \in ServerStates, NEW j \in 1..Len(S.todo)
  PROVE  S.todo[j] \in 3..8 /\ S.todo[j] # ToServer
<1>1. S.todo \in Seq(3..8)
  BY DEF ServerStates
<1>2. S.todo[j] \in 3..8
  BY <1>1
<1> QED
  BY <1>2 DEF ToServer

LEMMA IdleIs == /\ Idle.n = 0 /\ Idle.todo = <<>> /\ \A t : ~InTodo(t, Idle)
                /\ Idle \in ServerStates
<1>1. Idle.n = 0 /\ Idle.todo = <<>> /\ <<>> \in Seq(3..8)
  BY EmptySeq DEF Idle
<1> QED
  BY <1>1 DEF InTodo, Idle, ServerStates
-----------------------------------------------------------------------------
(* The steps, on one queue. *)

\* A thread of the server receives.
LEMMA ReceiveKeeps ==
  ASSUME NEW q \in Channels, NEW Q \in Seq(Messages), NEW L \in Seq(Members),
         NEW la \in [Members -> Nat], ChannelInv(q, Q, Idle, L, la),
         NEW k \in 1..Len(Q), Q[k].type = ToServer,
         \A j \in 1..Len(Q) : Q[j].type = ToServer => k <= j,
         NEW S, S = [n |-> Q[k].n, todo |-> Copies(q, L[Q[k].n])],
         NEW R, R = RemoveAt(Q, k)
  PROVE  S \in ServerStates /\ R \in Seq(Messages) /\ ChannelInv(q, R, S, L, la)
<1> DEFINE n == Q[k].n
<1>o. OrderInv(Q, Idle, L) /\ \A d \in Readers(q) : ReaderInv(q, Q, Idle, L, la[d], d)
  BY DEF ChannelInv
<1>p. R \in Seq(Messages) /\ KeepsOthers(Q, k, R)
  BY Rest
<1>q. /\ \A j \in 1..Len(R) : \E i \in 1..Len(Q) : i # k /\ R[j] = Q[i]
      /\ \A j, m \in 1..Len(R) : j < m =>
           \E i, l \in 1..Len(Q) : i < l /\ R[j] = Q[i] /\ R[m] = Q[l]
      /\ \A i \in 1..Len(Q) : i # k => \E j \in 1..Len(R) : R[j] = Q[i]
  BY <1>p DEF KeepsOthers
<1>n. n \in 1..Len(L) /\ n \in Nat /\ L[n] \in Members /\ Len(L) \in Nat
  BY <1>o DEF OrderInv
<1>t. \A i \in 1..Len(Q) : Q[i].n \in Nat /\ Q[i].type \in 1..8
  <2>1. \A i \in 1..Len(Q) : Q[i] \in Messages
    OBVIOUS
  <2> QED
    BY <2>1 DEF Messages
<1> HIDE DEF n
<1>1. S.n = n /\ S.todo = Copies(q, L[n])
  BY DEF n
<1>2. S \in ServerStates /\ S # Idle
  <2>1. Copies(q, L[n]) \in Seq(3..8)
    BY <1>n, CopiesAre
  <2>2. S \in ServerStates
    BY <1>n, <2>1 DEF ServerStates, n
  <2>3. S.n # Idle.n
    BY <1>1, <1>n, IdleIs
  <2> QED
    BY <2>2, <2>3
<1>3. \A j \in 1..Len(S.todo) : S.todo[j] # ToServer
  BY <1>2, TodoTypes
\* What is left is before or after what has been received.
<1>4. \A i \in 1..Len(Q) : /\ Q[i].type # ToServer => Q[i].n < n
                           /\ Q[i].type = ToServer /\ i # k => n < Q[i].n
  <2> SUFFICES ASSUME NEW i \in 1..Len(Q)
               PROVE  /\ Q[i].type # ToServer => Q[i].n < n
                      /\ Q[i].type = ToServer /\ i # k => n < Q[i].n
    OBVIOUS
  <2>1. Q[i].type # ToServer => Q[i].n < n
    BY <1>o DEF OrderInv, n
  <2>2. Q[i].type = ToServer /\ i # k => k < i
    OBVIOUS
  <2>3. Q[i].type = ToServer /\ i # k => n < Q[i].n
    BY <1>o, <2>2 DEF OrderInv, n
  <2> QED
    BY <2>1, <2>3
<1>5. OrderInv(R, S, L)
  <2>1. \A j, m \in 1..Len(R) : j < m /\ R[j].type = R[m].type => R[j].n < R[m].n
    <3> SUFFICES ASSUME NEW j \in 1..Len(R), NEW m \in 1..Len(R), j < m,
                        R[j].type = R[m].type
                 PROVE  R[j].n < R[m].n
      OBVIOUS
    <3>1. PICK i, l \in 1..Len(Q) : i < l /\ R[j] = Q[i] /\ R[m] = Q[l]
      BY <1>q
    <3> QED
      BY <1>o, <3>1 DEF OrderInv
  <2>2. \A j \in 1..Len(R) : R[j].n \in 1..Len(L)
    BY <1>o, <1>q, ZenonT(60) DEF OrderInv
  <2>3. \A j, m \in 1..Len(R) : R[j].type # ToServer /\ R[m].type = ToServer => R[j].n < R[m].n
    <3> SUFFICES ASSUME NEW j \in 1..Len(R), NEW m \in 1..Len(R),
                        R[j].type # ToServer, R[m].type = ToServer
                 PROVE  R[j].n < R[m].n
      OBVIOUS
    <3>1. PICK i \in 1..Len(Q) : R[j] = Q[i]
      BY <1>q
    <3>2. PICK l \in 1..Len(Q) : R[m] = Q[l]
      BY <1>q
    <3> QED
      BY <1>o, <3>1, <3>2 DEF OrderInv
  <2>4. ASSUME NEW j \in 1..Len(R)
        PROVE  /\ R[j].type = ToServer => S.n < R[j].n
               /\ R[j].type # ToServer => R[j].n < S.n /\ R[j].n <= S.n
               /\ InTodo(R[j].type, S) => R[j].n < S.n
    <3>1. PICK i \in 1..Len(Q) : i # k /\ R[j] = Q[i]
      BY <1>q
    <3>2. InTodo(R[j].type, S) => R[j].type # ToServer
      BY <1>3 DEF InTodo
    <3>3. R[j].n \in Nat /\ S.n \in Nat
      BY <3>1, <1>t, <1>1, <1>n
    <3>4. /\ R[j].type = ToServer => S.n < R[j].n
          /\ R[j].type # ToServer => R[j].n < S.n
      BY <1>1, <1>4, <3>1
    <3> QED
      BY <3>2, <3>3, <3>4
  <2> QED
    BY <2>1, <2>2, <2>3, <2>4 DEF OrderInv
<1>6. ThreadInv(S, L)
  <2>1. /\ S.todo # <<>>
        /\ \A j, m \in 1..Len(S.todo) : S.todo[j] = S.todo[m] => j = m
    BY <1>1, <1>n, CopiesAre
  <2> QED
    BY <1>1, <1>n, <2>1 DEF ThreadInv
<1>7. ASSUME NEW d \in Readers(q)
      PROVE  ReaderInv(q, R, S, L, la[d], d)
  <2> DEFINE t == TypeFor(q, d)
  <2>0. t \in 3..8 /\ d \in Members
    BY TypesDiffer DEF Readers
  <2>1. /\ la[d] <= Len(L)
        /\ \A i \in 1..Len(Q) : Q[i].type \in {ToServer, t} => la[d] < Q[i].n
        /\ \A i \in 1..Len(Q) : Q[i].type = t => d \in Addressed(q, L[Q[i].n])
        /\ \A m \in 1..Len(L) : la[d] < m /\ d \in Addressed(q, L[m]) =>
             HasMsg(Q, ToServer, m) \/ HasMsg(Q, t, m)
    BY <1>o, IdleIs DEF ReaderInv
  <2>2. InTodo(t, S) <=> d \in Addressed(q, L[n])
    <3>1. d \in Addressed(q, L[n]) <=>
            \E j \in 1..Len(Copies(q, L[n])) : Copies(q, L[n])[j] = TypeFor(q, d)
      BY <1>n, CopiesAre
    <3> QED
      BY <1>1, <3>1, Zenon DEF InTodo
  <2>3. la[d] < S.n
    BY <1>1, <2>1 DEF n
  <2> HIDE DEF t
  <2>4. \A i \in 1..Len(Q) : i # k => HasMsg(R, Q[i].type, Q[i].n)
    BY <1>q DEF HasMsg
  <2>5. ASSUME NEW m \in 1..Len(L), la[d] < m, d \in Addressed(q, L[m])
        PROVE  HasMsg(R, ToServer, m) \/ HasMsg(R, t, m) \/ (S.n = m /\ InTodo(t, S))
    <3>1. PICK i \in 1..Len(Q) : Q[i].type \in {ToServer, t} /\ Q[i].n = m
      BY <2>1, <2>5 DEF HasMsg
    <3>2. CASE i = k
      BY <1>1, <2>2, <2>5, <3>1, <3>2 DEF n
    <3>3. CASE i # k
      BY <2>4, <3>1, <3>3
    <3> QED
      BY <3>2, <3>3
  <2>6. /\ \A j \in 1..Len(R) : R[j].type \in {ToServer, t} => la[d] < R[j].n
        /\ \A j \in 1..Len(R) : R[j].type = t => d \in Addressed(q, L[R[j].n])
    <3> SUFFICES ASSUME NEW j \in 1..Len(R)
                 PROVE  /\ R[j].type \in {ToServer, t} => la[d] < R[j].n
                        /\ R[j].type = t => d \in Addressed(q, L[R[j].n])
      OBVIOUS
    <3>1. PICK i \in 1..Len(Q) : i # k /\ R[j] = Q[i]
      BY <1>q
    <3> QED
      BY <2>1, <3>1
  <2> QED
    BY <1>1, <2>1, <2>2, <2>3, <2>5, <2>6 DEF ReaderInv, t
<1> QED
  BY <1>2, <1>5, <1>6, <1>7, <1>p DEF ChannelInv

\* A thread of the server sends a copy.
LEMMA ForwardKeeps ==
  ASSUME NEW q \in Channels, NEW Q \in Seq(Messages), NEW L \in Seq(Members),
         NEW la \in [Members -> Nat], NEW S \in ServerStates, S # Idle,
         ChannelInv(q, Q, S, L, la),
         NEW e, e = [type |-> Head(S.todo), n |-> S.n],
         NEW R, R = Append(Q, e), NEW U, U = AfterCopy(S)
  PROVE  U \in ServerStates /\ R \in Seq(Messages) /\ ChannelInv(q, R, U, L, la)
<1>o. /\ OrderInv(Q, S, L) /\ ThreadInv(S, L)
      /\ \A d \in Readers(q) : ReaderInv(q, Q, S, L, la[d], d)
  BY DEF ChannelInv
<1>n. /\ S.n \in 1..Len(L) /\ S.n \in Nat /\ S.todo \in Seq(3..8) /\ S.todo # <<>>
      /\ \A j, m \in 1..Len(S.todo) : S.todo[j] = S.todo[m] => j = m
  BY <1>o DEF ThreadInv, ServerStates
<1>h. /\ Len(S.todo) \in Nat /\ Len(S.todo) >= 1 /\ Head(S.todo) = S.todo[1]
      /\ S.todo[1] \in 3..8 /\ Tail(S.todo) \in Seq(3..8)
      /\ Len(Tail(S.todo)) = Len(S.todo) - 1
      /\ \A j \in 1..(Len(S.todo) - 1) : Tail(S.todo)[j] = S.todo[j + 1]
  BY <1>n
<1>l. Len(S.todo) \in Nat /\ Len(S.todo) >= 1 /\ Tail(S.todo) \in Seq(3..8)
  BY <1>h
<1>e. e \in Messages /\ e.type = S.todo[1] /\ e.n = S.n /\ e.type # ToServer
  BY <1>n, <1>h DEF Messages, ToServer
<1>r. /\ R \in Seq(Messages) /\ Len(R) = Len(Q) + 1 /\ Len(Q) \in Nat /\ R[Len(Q) + 1] = e
      /\ \A j \in 1..Len(Q) : R[j] = Q[j] /\ j \in 1..Len(R)
      /\ \A j \in 1..Len(R) : j = Len(Q) + 1 \/ j \in 1..Len(Q)
  BY <1>e, More
<1>t. \A i \in 1..Len(Q) : Q[i].n \in Nat /\ Q[i].type \in 1..8
  <2>1. \A i \in 1..Len(Q) : Q[i] \in Messages
    OBVIOUS
  <2> QED
    BY <2>1 DEF Messages
\* What is left to do, without the copy.
<1>u. /\ U \in ServerStates
      /\ \A t \in 3..8 : InTodo(t, U) <=> InTodo(t, S) /\ t # e.type
      /\ U = Idle \/ (U.n = S.n /\ U.todo = Tail(S.todo) /\ U.todo # <<>>)
  <2>1. CASE Len(S.todo) > 1
    <3>1. U = [S EXCEPT !.todo = Tail(S.todo)]
      BY <2>1 DEF AfterCopy
    <3>2. U.n = S.n /\ U.todo = Tail(S.todo) /\ U \in ServerStates
      <4>1. U = [n |-> S.n, todo |-> Tail(S.todo)]
        BY <3>1 DEF ServerStates
      <4> QED
        <5>1. S.n \in Nat
          BY <1>n
        <5> QED
          BY <1>l, <4>1, <5>1 DEF ServerStates
    <3>3. U.todo # <<>>
      BY <1>n, <1>h, <2>1, <3>2, Shorter
    <3>4. ASSUME NEW t \in 3..8
          PROVE  InTodo(t, U) <=> InTodo(t, S) /\ t # e.type
      <4>1. ASSUME NEW j \in 1..Len(U.todo), U.todo[j] = t
            PROVE  InTodo(t, S) /\ t # e.type
        <5>1. j + 1 \in 1..Len(S.todo) /\ S.todo[j + 1] = t /\ 1 \in 1..Len(S.todo) /\ j + 1 # 1
          BY <1>h, <3>2, <4>1
        <5> QED
          BY <1>n, <1>e, <5>1 DEF InTodo
      <4>2. ASSUME NEW j \in 1..Len(S.todo), S.todo[j] = t, t # e.type
            PROVE  InTodo(t, U)
        <5>1. j - 1 \in 1..Len(U.todo) /\ (j - 1) + 1 = j
          BY <1>e, <1>h, <3>2, <4>2
        <5> QED
          BY <1>h, <3>2, <4>2, <5>1 DEF InTodo
      <4> QED
        BY <4>1, <4>2 DEF InTodo
    <3> QED
      BY <3>2, <3>3, <3>4
  <2>2. CASE ~(Len(S.todo) > 1)
    <3>0. U = Idle
      BY <2>2 DEF AfterCopy
    <3>1. U = Idle /\ Len(S.todo) = 1
      <4>1. \A x \in Nat : x >= 1 /\ ~(x > 1) => x = 1
        OBVIOUS
      <4>2. Len(S.todo) = 1
        BY <1>l, <2>2, <4>1, Zenon
      <4> QED
        BY <3>0, <4>2
    <3>2. \A t \in 3..8 : InTodo(t, S) <=> t = e.type
      BY <1>e, <3>1 DEF InTodo
    <3> QED
      BY <3>1, <3>2, IdleIs
  <2> QED
    BY <2>1, <2>2
<1>v. U.n \in Nat /\ U.n <= S.n /\ (U # Idle => U.n = S.n)
  BY <1>n, <1>u, IdleIs, SMTT(30)
<1>w. \A t \in 1..8 : InTodo(t, U) => U.n = S.n /\ InTodo(t, S) /\ t # e.type
  <2> SUFFICES ASSUME NEW t \in 1..8, InTodo(t, U)
               PROVE  U.n = S.n /\ InTodo(t, S) /\ t # e.type
    OBVIOUS
  <2>1. U # Idle /\ U.n = S.n
    BY <1>u, IdleIs
  <2>2. t \in 3..8
    <3>1. PICK j \in 1..Len(U.todo) : U.todo[j] = t
      BY Zenon DEF InTodo
    <3>2. U \in ServerStates
      BY <1>u
    <3>3. U.todo[j] \in 3..8
      BY <3>2, TodoTypes
    <3> QED
      BY <3>1, <3>3
  <2> QED
    BY <1>u, <2>1, <2>2
<1>x. InTodo(e.type, S)
  BY <1>e, <1>h DEF InTodo
<1>5. OrderInv(R, U, L)
  <2>1. \A j, m \in 1..Len(R) : j < m /\ R[j].type = R[m].type => R[j].n < R[m].n
    <3> SUFFICES ASSUME NEW j \in 1..Len(R), NEW m \in 1..Len(R), j < m,
                        R[j].type = R[m].type
                 PROVE  R[j].n < R[m].n
      BY ZenonT(60)
    <3>1. j \in 1..Len(Q) /\ R[j] = Q[j]
      BY <1>r
    <3>2. CASE m \in 1..Len(Q)
      BY <1>o, <1>r, <3>1, <3>2 DEF OrderInv
    <3>3. CASE m = Len(Q) + 1
      <4>1. InTodo(Q[j].type, S)
        BY <1>e, <1>r, <1>x, <3>1, <3>3
      <4> QED
        BY <1>o, <1>e, <1>r, <3>1, <3>3, <4>1 DEF OrderInv
    <3> QED
      BY <1>r, <3>2, <3>3
  <2>2. \A j \in 1..Len(R) : R[j].n \in 1..Len(L)
    BY <1>o, <1>n, <1>e, <1>r DEF OrderInv
  <2>3. \A j, m \in 1..Len(R) : R[j].type # ToServer /\ R[m].type = ToServer => R[j].n < R[m].n
    BY <1>o, <1>n, <1>e, <1>r DEF OrderInv
  <2>4. ASSUME NEW j \in 1..Len(R)
        PROVE  /\ R[j].type = ToServer => U.n < R[j].n
               /\ U # Idle /\ R[j].type # ToServer => R[j].n <= U.n
               /\ InTodo(R[j].type, U) => R[j].n < U.n
    <3>1. CASE j \in 1..Len(Q)
      <4>1. R[j] = Q[j] /\ Q[j].n \in Nat /\ Q[j].type \in 1..8
        BY <1>r, <1>t, <3>1
      <4>2. /\ Q[j].type = ToServer => S.n < Q[j].n
            /\ Q[j].type # ToServer => Q[j].n <= S.n
            /\ InTodo(Q[j].type, S) => Q[j].n < S.n
        BY <1>o, <3>1 DEF OrderInv
      <4>3. InTodo(Q[j].type, U) => U.n = S.n /\ InTodo(Q[j].type, S)
        BY <1>w, <4>1
      <4>4. /\ Q[j].type = ToServer => U.n < Q[j].n
            /\ U # Idle /\ Q[j].type # ToServer => Q[j].n <= U.n
            /\ InTodo(Q[j].type, U) => Q[j].n < U.n
        BY <1>n, <1>v, <4>1, <4>2, <4>3
      <4> QED
        BY <4>1, <4>4
    <3>2. CASE j = Len(Q) + 1
      <4>1. R[j] = e /\ e.type \in 1..8
        BY <1>r, <1>e, <1>h, <3>2
      <4> QED
        BY <1>n, <1>e, <1>v, <1>w, <4>1
    <3> QED
      BY <1>r, <3>1, <3>2
  <2> QED
    BY <2>1, <2>2, <2>3, <2>4 DEF OrderInv
<1>6. ThreadInv(U, L)
  <2> SUFFICES ASSUME U # Idle PROVE ThreadInv(U, L)
    BY DEF ThreadInv
  <2>1. U.n = S.n /\ U.todo = Tail(S.todo) /\ U.todo # <<>>
    BY <1>u
  <2>2. \A j, m \in 1..Len(U.todo) : U.todo[j] = U.todo[m] => j = m
    <3> SUFFICES ASSUME NEW j \in 1..Len(U.todo), NEW m \in 1..Len(U.todo),
                        U.todo[j] = U.todo[m]
                 PROVE  j = m
      OBVIOUS
    <3>1. /\ j + 1 \in 1..Len(S.todo) /\ m + 1 \in 1..Len(S.todo)
          /\ j \in 1..(Len(S.todo) - 1) /\ m \in 1..(Len(S.todo) - 1)
      BY <1>h, <2>1
    <3>2. S.todo[j + 1] = S.todo[m + 1]
      BY <1>h, <2>1, <3>1
    <3>3. j + 1 = m + 1
      BY <1>n, <3>1, <3>2
    <3> QED
      BY <3>1, <3>3
  <2> QED
    BY <1>n, <2>1, <2>2 DEF ThreadInv
<1>7. ASSUME NEW d \in Readers(q)
      PROVE  ReaderInv(q, R, U, L, la[d], d)
  <2> DEFINE t == TypeFor(q, d)
  <2>0. t \in 3..8 /\ d \in Members
    BY TypesDiffer DEF Readers
  <2>1. /\ la[d] <= Len(L)
        /\ \A i \in 1..Len(Q) : Q[i].type \in {ToServer, t} => la[d] < Q[i].n
        /\ \A i \in 1..Len(Q) : Q[i].type = t => d \in Addressed(q, L[Q[i].n])
        /\ InTodo(t, S) => la[d] < S.n /\ d \in Addressed(q, L[S.n])
        /\ \A m \in 1..Len(L) : la[d] < m /\ d \in Addressed(q, L[m]) =>
             \/ HasMsg(Q, ToServer, m) \/ HasMsg(Q, t, m)
             \/ S.n = m /\ InTodo(t, S)
    BY <1>o DEF ReaderInv
  <2> HIDE DEF t
  <2>2. InTodo(t, U) => la[d] < U.n /\ d \in Addressed(q, L[U.n])
    BY <1>w, <2>0, <2>1
  <2>3. \A m, s : HasMsg(Q, s, m) => HasMsg(R, s, m)
    BY <1>r DEF HasMsg
  <2>4. HasMsg(R, e.type, S.n)
    BY <1>r, <1>e DEF HasMsg
  <2>5. ASSUME NEW m \in 1..Len(L), la[d] < m, d \in Addressed(q, L[m])
        PROVE  HasMsg(R, ToServer, m) \/ HasMsg(R, t, m) \/ (U.n = m /\ InTodo(t, U))
    <3>1. CASE HasMsg(Q, ToServer, m) \/ HasMsg(Q, t, m)
      BY <2>3, <3>1
    <3>2. CASE S.n = m /\ InTodo(t, S) /\ t = e.type
      BY <2>4, <3>2
    <3>3. CASE S.n = m /\ InTodo(t, S) /\ t # e.type
      <4>1. InTodo(t, U)
        BY <1>u, <2>0, <3>3
      <4>2. U # Idle
        BY <4>1, IdleIs
      <4> QED
        BY <1>v, <3>3, <4>1, <4>2
    <3> QED
      BY <2>1, <2>5, <3>1, <3>2, <3>3
  <2>6. ASSUME NEW j \in 1..Len(R)
        PROVE  /\ R[j].type \in {ToServer, t} => la[d] < R[j].n
               /\ R[j].type = t => d \in Addressed(q, L[R[j].n])
    <3>1. CASE j \in 1..Len(Q)
      BY <1>r, <2>1, <3>1
    <3>2. CASE j = Len(Q) + 1
      BY <1>r, <1>e, <1>x, <2>1, <3>2
    <3> QED
      BY <1>r, <3>1, <3>2
  <2> QED
    BY <2>1, <2>2, <2>5, <2>6 DEF ReaderInv, t
<1> QED
  BY <1>u, <1>5, <1>6, <1>7, <1>r DEF ChannelInv

\* A client sends a line.
LEMMA SendKeeps ==
  ASSUME NEW q \in Channels, NEW Q \in Seq(Messages), NEW L \in Seq(Members),
         NEW la \in [Members -> Nat], NEW S \in ServerStates,
         ChannelInv(q, Q, S, L, la), NEW c \in Members,
         NEW e, e = [type |-> ToServer, n |-> Len(L) + 1],
         NEW R, R = Append(Q, e), NEW K, K = Append(L, c)
  PROVE  R \in Seq(Messages) /\ K \in Seq(Members) /\ ChannelInv(q, R, S, K, la)
<1>o. /\ OrderInv(Q, S, L) /\ ThreadInv(S, L)
      /\ \A d \in Readers(q) : ReaderInv(q, Q, S, L, la[d], d)
  BY DEF ChannelInv
<1>k. /\ K \in Seq(Members) /\ Len(K) = Len(L) + 1 /\ Len(L) \in Nat
      /\ \A n \in 1..Len(L) : K[n] = L[n] /\ n \in 1..Len(K)
      /\ \A n \in 1..Len(K) : n = Len(L) + 1 \/ n \in 1..Len(L)
  BY More
<1>e. e \in Messages /\ e.type = ToServer /\ e.n = Len(L) + 1
  <2>1. Len(L) + 1 \in Nat
    BY <1>k
  <2> QED
    BY <2>1 DEF Messages, ToServer
<1>r. /\ R \in Seq(Messages) /\ Len(R) = Len(Q) + 1 /\ Len(Q) \in Nat /\ R[Len(Q) + 1] = e
      /\ \A j \in 1..Len(Q) : R[j] = Q[j] /\ j \in 1..Len(R)
      /\ \A j \in 1..Len(R) : j = Len(Q) + 1 \/ j \in 1..Len(Q)
  BY <1>e, More
<1>s. S.n \in Nat /\ S.n <= Len(L) /\ (S # Idle => S.n \in 1..Len(L))
  <2>1. S.n \in Nat
    BY DEF ServerStates
  <2>2. S # Idle => S.n \in 1..Len(L)
    BY <1>o DEF ThreadInv
  <2>3. S = Idle => S.n = 0
    BY IdleIs
  <2> QED
    BY <1>k, <2>1, <2>2, <2>3
<1>q. \A j \in 1..Len(Q) : Q[j].n \in 1..Len(L) /\ Q[j].n < e.n
  BY <1>o, <1>e, <1>k DEF OrderInv
<1>5. OrderInv(R, S, K)
  <2>1. \A j, m \in 1..Len(R) : j < m /\ R[j].type = R[m].type => R[j].n < R[m].n
    <3> SUFFICES ASSUME NEW j \in 1..Len(R), NEW m \in 1..Len(R), j < m,
                        R[j].type = R[m].type
                 PROVE  R[j].n < R[m].n
      BY SMTT(30)
    <3>1. j \in 1..Len(Q) /\ R[j] = Q[j]
      BY <1>r
    <3>2. CASE m \in 1..Len(Q)
      BY <1>o, <1>r, <3>1, <3>2 DEF OrderInv
    <3>3. CASE m = Len(Q) + 1
      BY <1>q, <1>r, <3>1, <3>3
    <3> QED
      BY <1>r, <3>2, <3>3
  <2>2. \A j \in 1..Len(R) : R[j].n \in 1..Len(K)
    BY <1>q, <1>e, <1>r, <1>k
  <2>3. \A j, m \in 1..Len(R) : R[j].type # ToServer /\ R[m].type = ToServer => R[j].n < R[m].n
    <3> SUFFICES ASSUME NEW j \in 1..Len(R), NEW m \in 1..Len(R),
                        R[j].type # ToServer, R[m].type = ToServer
                 PROVE  R[j].n < R[m].n
      OBVIOUS
    <3>1. j \in 1..Len(Q) /\ R[j] = Q[j]
      BY <1>e, <1>r
    <3>2. CASE m \in 1..Len(Q)
      BY <1>o, <1>r, <3>1, <3>2 DEF OrderInv
    <3>3. CASE m = Len(Q) + 1
      BY <1>q, <1>r, <3>1, <3>3
    <3> QED
      BY <1>r, <3>2, <3>3
  <2>4. ASSUME NEW j \in 1..Len(R)
        PROVE  /\ R[j].type = ToServer => S.n < R[j].n
               /\ S # Idle /\ R[j].type # ToServer => R[j].n <= S.n
               /\ InTodo(R[j].type, S) => R[j].n < S.n
    <3>1. CASE j \in 1..Len(Q)
      BY <1>o, <1>r, <3>1 DEF OrderInv
    <3>2. CASE j = Len(Q) + 1
      <4>1. R[j] = e
        BY <1>r, <3>2
      <4>2. ~InTodo(ToServer, S)
        BY TodoTypes DEF InTodo
      <4>3. S.n < e.n
        BY <1>e, <1>k, <1>s
      <4> QED
        BY <1>e, <4>1, <4>2, <4>3
    <3> QED
      BY <1>r, <3>1, <3>2
  <2> QED
    BY <2>1, <2>2, <2>3, <2>4 DEF OrderInv
<1>6. ThreadInv(S, K)
  BY <1>o, <1>k DEF ThreadInv
<1>7. ASSUME NEW d \in Readers(q)
      PROVE  ReaderInv(q, R, S, K, la[d], d)
  <2> DEFINE t == TypeFor(q, d)
  <2>0. t \in 3..8 /\ d \in Members /\ la[d] \in Nat
    BY TypesDiffer DEF Readers
  <2>1. /\ la[d] <= Len(L)
        /\ \A i \in 1..Len(Q) : Q[i].type \in {ToServer, t} => la[d] < Q[i].n
        /\ \A i \in 1..Len(Q) : Q[i].type = t => d \in Addressed(q, L[Q[i].n])
        /\ InTodo(t, S) => la[d] < S.n /\ d \in Addressed(q, L[S.n])
        /\ \A m \in 1..Len(L) : la[d] < m /\ d \in Addressed(q, L[m]) =>
             \/ HasMsg(Q, ToServer, m) \/ HasMsg(Q, t, m)
             \/ S.n = m /\ InTodo(t, S)
    BY <1>o DEF ReaderInv
  <2>t. t # ToServer
    BY <2>0 DEF ToServer
  <2> HIDE DEF t
  <2>2. InTodo(t, S) => la[d] < S.n /\ d \in Addressed(q, K[S.n])
    <3>1. InTodo(t, S) => S # Idle
      BY IdleIs
    <3> QED
      BY <1>s, <1>k, <2>1, <3>1
  <2>3. \A m, s : HasMsg(Q, s, m) => HasMsg(R, s, m)
    BY <1>r DEF HasMsg
  <2>4. HasMsg(R, ToServer, Len(L) + 1)
    BY <1>r, <1>e DEF HasMsg
  <2>5. ASSUME NEW m \in 1..Len(K), la[d] < m, d \in Addressed(q, K[m])
        PROVE  HasMsg(R, ToServer, m) \/ HasMsg(R, t, m) \/ (S.n = m /\ InTodo(t, S))
    <3>1. CASE m \in 1..Len(L)
      BY <1>k, <2>1, <2>3, <2>5, <3>1
    <3>2. CASE m = Len(L) + 1
      BY <2>4, <3>2
    <3> QED
      BY <1>k, <3>1, <3>2
  <2>6. ASSUME NEW j \in 1..Len(R)
        PROVE  /\ R[j].type \in {ToServer, t} => la[d] < R[j].n
               /\ R[j].type = t => d \in Addressed(q, K[R[j].n])
    <3>1. CASE j \in 1..Len(Q)
      <4>1. R[j] = Q[j] /\ K[Q[j].n] = L[Q[j].n]
        BY <1>k, <1>q, <1>r, <3>1
      <4> QED
        BY <2>1, <3>1, <4>1
    <3>2. CASE j = Len(Q) + 1
      <4>1. R[j] = e /\ la[d] < e.n /\ e.type # t
        BY <1>e, <1>k, <1>r, <2>0, <2>1, <2>t, <3>2
      <4> QED
        BY <4>1
    <3> QED
      BY <1>r, <3>1, <3>2
  <2>7. la[d] <= Len(K)
    BY <1>k, <2>0, <2>1
  <2> QED
    BY <2>2, <2>5, <2>6, <2>7 DEF ReaderInv, t
<1> QED
  BY <1>5, <1>6, <1>7, <1>r, <1>k DEF ChannelInv

\* The k-th message of a queue is the one its reader c takes.
ReadAt(q, Q, S, L, la, c, k) ==
  /\ q \in Channels /\ Q \in Seq(Messages) /\ L \in Seq(Members)
  /\ la \in [Members -> Nat] /\ S \in ServerStates
  /\ ChannelInv(q, Q, S, L, la) /\ c \in Readers(q)
  /\ k \in 1..Len(Q) /\ Q[k].type = TypeFor(q, c)
  /\ \A j \in 1..Len(Q) : Q[j].type = TypeFor(q, c) => k <= j

\* What a client reads is the next message that is addressed to it.
LEMMA ReadIsNext ==
  ASSUME NEW q, NEW Q, NEW S, NEW L, NEW la, NEW c, NEW k, ReadAt(q, Q, S, L, la, c, k)
  PROVE  /\ Q[k].n \in 1..Len(L) /\ Q[k].n > la[c] /\ c \in Addressed(q, L[Q[k].n])
         /\ \A m \in (la[c] + 1)..(Q[k].n - 1) : c \notin Addressed(q, L[m])
<1> /\ q \in Channels /\ Q \in Seq(Messages) /\ L \in Seq(Members)
    /\ la \in [Members -> Nat] /\ S \in ServerStates
    /\ ChannelInv(q, Q, S, L, la) /\ c \in Readers(q)
    /\ k \in 1..Len(Q) /\ Q[k].type = TypeFor(q, c)
    /\ \A j \in 1..Len(Q) : Q[j].type = TypeFor(q, c) => k <= j
  BY DEF ReadAt
<1> DEFINE t == TypeFor(q, c)
           n == Q[k].n
<1>o. OrderInv(Q, S, L) /\ ReaderInv(q, Q, S, L, la[c], c)
  BY DEF ChannelInv
<1>t. t \in 3..8 /\ t # ToServer /\ c \in Members /\ la[c] \in Nat
  <2>1. t \in 3..8 /\ c \in Members
    BY TypesDiffer DEF Readers
  <2> QED
    BY <2>1 DEF ToServer
<1>1. n \in 1..Len(L) /\ Len(L) \in Nat
  BY <1>o DEF OrderInv
<1>2. n > la[c] /\ c \in Addressed(q, L[n])
  <2>1. la[c] < n
    BY <1>o DEF ReaderInv
  <2> QED
    BY <1>o, <1>1, <1>t, <2>1 DEF ReaderInv
<1>3. ASSUME NEW m \in (la[c] + 1)..(n - 1), c \in Addressed(q, L[m])
      PROVE  FALSE
  <2>1. m \in 1..Len(L) /\ la[c] < m /\ m < n
    <3>1. la[c] \in Nat /\ n \in Nat /\ Len(L) \in Nat /\ n <= Len(L)
      BY <1>1, <1>t
    <3> HIDE DEF n
    <3> QED
      BY <3>1
  <2>2. HasMsg(Q, ToServer, m) \/ HasMsg(Q, t, m) \/ (S.n = m /\ InTodo(t, S))
    BY <1>o, <1>3, <2>1 DEF ReaderInv
  <2>3. CASE HasMsg(Q, ToServer, m)
    <3>1. PICK j \in 1..Len(Q) : Q[j].type = ToServer /\ Q[j].n = m
      BY <2>3 DEF HasMsg
    <3>2. n < m
      BY <1>o, <1>t, <3>1 DEF OrderInv
    <3> QED
      BY <1>1, <2>1, <3>2
  <2>4. CASE HasMsg(Q, t, m)
    <3>1. PICK j \in 1..Len(Q) : Q[j].type = t /\ Q[j].n = m
      BY <2>4 DEF HasMsg
    <3>2. k < j
      BY <2>1, <3>1
    <3>3. n < m
      BY <1>o, <3>1, <3>2 DEF OrderInv
    <3> QED
      BY <1>1, <2>1, <3>3
  <2>5. CASE S.n = m /\ InTodo(t, S)
    <3>1. n < m
      BY <1>o, <2>5 DEF OrderInv
    <3> QED
      BY <1>1, <2>1, <3>1
  <2> QED
    BY <2>2, <2>3, <2>4, <2>5
<1> QED
  BY <1>1, <1>2, <1>3

\* A client reads.
LEMMA ReadKeeps ==
  ASSUME NEW q, NEW Q, NEW S, NEW L, NEW la, NEW c, NEW k, ReadAt(q, Q, S, L, la, c, k),
         NEW R, R = RemoveAt(Q, k), NEW lb, lb = [la EXCEPT ![c] = Q[k].n]
  PROVE  /\ R \in Seq(Messages) /\ lb \in [Members -> Nat]
         /\ ChannelInv(q, R, S, L, lb)
<1> /\ q \in Channels /\ Q \in Seq(Messages) /\ L \in Seq(Members)
    /\ la \in [Members -> Nat] /\ S \in ServerStates
    /\ ChannelInv(q, Q, S, L, la) /\ c \in Readers(q)
    /\ k \in 1..Len(Q) /\ Q[k].type = TypeFor(q, c)
    /\ \A j \in 1..Len(Q) : Q[j].type = TypeFor(q, c) => k <= j
  BY DEF ReadAt
<1> DEFINE n == Q[k].n
<1>o. /\ OrderInv(Q, S, L) /\ ThreadInv(S, L)
      /\ \A d \in Readers(q) : ReaderInv(q, Q, S, L, la[d], d)
  BY DEF ChannelInv
<1>p. R \in Seq(Messages) /\ KeepsOthers(Q, k, R)
  BY Rest
<1>q. /\ \A j \in 1..Len(R) : \E i \in 1..Len(Q) : i # k /\ R[j] = Q[i]
      /\ \A j, m \in 1..Len(R) : j < m =>
           \E i, l \in 1..Len(Q) : i < l /\ R[j] = Q[i] /\ R[m] = Q[l]
      /\ \A i \in 1..Len(Q) : i # k => \E j \in 1..Len(R) : R[j] = Q[i]
  BY <1>p DEF KeepsOthers
<1>n. n \in 1..Len(L) /\ n \in Nat /\ Len(L) \in Nat
  BY <1>o DEF OrderInv
<1>l. /\ lb \in [Members -> Nat] /\ c \in Members /\ lb[c] = n
      /\ \A d \in Members : d # c => lb[d] = la[d]
  BY <1>n DEF Readers
<1> HIDE DEF n
<1>5. OrderInv(R, S, L)
  <2>1. \A j, m \in 1..Len(R) : j < m /\ R[j].type = R[m].type => R[j].n < R[m].n
    <3> SUFFICES ASSUME NEW j \in 1..Len(R), NEW m \in 1..Len(R), j < m,
                        R[j].type = R[m].type
                 PROVE  R[j].n < R[m].n
      OBVIOUS
    <3>1. PICK i, l \in 1..Len(Q) : i < l /\ R[j] = Q[i] /\ R[m] = Q[l]
      BY <1>q
    <3> QED
      BY <1>o, <3>1 DEF OrderInv
  <2>3. \A j, m \in 1..Len(R) : R[j].type # ToServer /\ R[m].type = ToServer => R[j].n < R[m].n
    <3> SUFFICES ASSUME NEW j \in 1..Len(R), NEW m \in 1..Len(R),
                        R[j].type # ToServer, R[m].type = ToServer
                 PROVE  R[j].n < R[m].n
      OBVIOUS
    <3>1. PICK i \in 1..Len(Q) : R[j] = Q[i]
      BY <1>q
    <3>2. PICK l \in 1..Len(Q) : R[m] = Q[l]
      BY <1>q
    <3> QED
      BY <1>o, <3>1, <3>2 DEF OrderInv
  <2>4. ASSUME NEW j \in 1..Len(R)
        PROVE  /\ R[j].n \in 1..Len(L)
               /\ R[j].type = ToServer => S.n < R[j].n
               /\ S # Idle /\ R[j].type # ToServer => R[j].n <= S.n
               /\ InTodo(R[j].type, S) => R[j].n < S.n
    <3>1. PICK i \in 1..Len(Q) : R[j] = Q[i]
      BY <1>q
    <3> QED
      BY <1>o, <3>1 DEF OrderInv
  <2> QED
    BY <2>1, <2>3, <2>4 DEF OrderInv
<1>6. ASSUME NEW d \in Readers(q), d # c
      PROVE  ReaderInv(q, R, S, L, lb[d], d)
  <2> DEFINE t == TypeFor(q, d)
  <2>0. t # Q[k].type /\ Q[k].type # ToServer /\ lb[d] = la[d]
    <3>1. t # TypeFor(q, c) /\ d \in Members
      BY <1>6, TypesDiffer DEF Readers
    <3>2. TypeFor(q, c) \in 3..8
      BY TypesDiffer
    <3> QED
      BY <1>6, <1>l, <3>1, <3>2 DEF ToServer
  <2>1. /\ la[d] <= Len(L)
        /\ \A i \in 1..Len(Q) : Q[i].type \in {ToServer, t} => la[d] < Q[i].n
        /\ \A i \in 1..Len(Q) : Q[i].type = t => d \in Addressed(q, L[Q[i].n])
        /\ InTodo(t, S) => la[d] < S.n /\ d \in Addressed(q, L[S.n])
        /\ \A m \in 1..Len(L) : la[d] < m /\ d \in Addressed(q, L[m]) =>
             \/ HasMsg(Q, ToServer, m) \/ HasMsg(Q, t, m)
             \/ S.n = m /\ InTodo(t, S)
    BY <1>o DEF ReaderInv
  <2> HIDE DEF t
  <2>2. \A i \in 1..Len(Q) : Q[i].type \in {ToServer, t} => HasMsg(R, Q[i].type, Q[i].n)
    <3> SUFFICES ASSUME NEW i \in 1..Len(Q), Q[i].type \in {ToServer, t}
                 PROVE  HasMsg(R, Q[i].type, Q[i].n)
      OBVIOUS
    <3>1. i # k
      BY <2>0
    <3> QED
      BY <1>q, <3>1 DEF HasMsg
  <2>3. ASSUME NEW m, NEW s \in {ToServer, t}, HasMsg(Q, s, m)
        PROVE  HasMsg(R, s, m)
    BY <2>2, <2>3 DEF HasMsg
  <2>4. ASSUME NEW j \in 1..Len(R)
        PROVE  /\ R[j].type \in {ToServer, t} => la[d] < R[j].n
               /\ R[j].type = t => d \in Addressed(q, L[R[j].n])
    <3>1. PICK i \in 1..Len(Q) : R[j] = Q[i]
      BY <1>q
    <3> QED
      BY <2>1, <3>1
  <2> QED
    BY <2>0, <2>1, <2>3, <2>4 DEF ReaderInv, t
<1>7. ReaderInv(q, R, S, L, n, c)
  <2> DEFINE t == TypeFor(q, c)
  <2>0. t \in 3..8 /\ Q[k].type = t /\ t # ToServer /\ la[c] \in Nat
    <3>1. t \in 3..8
      BY TypesDiffer
    <3> QED
      BY <1>l, <3>1 DEF ToServer
  <2>1. /\ \A i \in 1..Len(Q) : Q[i].type = t => c \in Addressed(q, L[Q[i].n])
        /\ InTodo(t, S) => c \in Addressed(q, L[S.n])
        /\ \A m \in 1..Len(L) : la[c] < m /\ c \in Addressed(q, L[m]) =>
             \/ HasMsg(Q, ToServer, m) \/ HasMsg(Q, t, m)
             \/ S.n = m /\ InTodo(t, S)
    BY <1>o DEF ReaderInv
  <2>2. la[c] < n
    BY <1>o DEF ReaderInv, n
  <2> HIDE DEF t
  <2>3. ASSUME NEW i \in 1..Len(Q), i # k, Q[i].type \in {ToServer, t}
        PROVE  n < Q[i].n
    <3>1. CASE Q[i].type = ToServer
      BY <1>o, <2>0, <3>1 DEF OrderInv, n
    <3>2. CASE Q[i].type = t
      <4>1. k < i
        BY <2>0, <2>3, <3>2 DEF t
      <4> QED
        BY <1>o, <2>0, <3>2, <4>1 DEF OrderInv, n
    <3> QED
      BY <2>3, <3>1, <3>2
  <2>4. InTodo(t, S) => n < S.n
    BY <1>o, <2>0 DEF OrderInv, n
  <2>5. ASSUME NEW j \in 1..Len(R)
        PROVE  /\ R[j].type \in {ToServer, t} => n < R[j].n
               /\ R[j].type = t => c \in Addressed(q, L[R[j].n])
    <3>1. PICK i \in 1..Len(Q) : i # k /\ R[j] = Q[i]
      BY <1>q
    <3> QED
      BY <2>1, <2>3, <3>1
  <2>6. ASSUME NEW m \in 1..Len(L), n < m, c \in Addressed(q, L[m])
        PROVE  HasMsg(R, ToServer, m) \/ HasMsg(R, t, m) \/ (S.n = m /\ InTodo(t, S))
    <3>1. la[c] < m
      BY <1>n, <2>0, <2>2, <2>6
    <3>2. CASE S.n = m /\ InTodo(t, S)
      BY <3>2
    <3>3. CASE HasMsg(Q, ToServer, m) \/ HasMsg(Q, t, m)
      <4>1. PICK i \in 1..Len(Q) : Q[i].type \in {ToServer, t} /\ Q[i].n = m
        BY <3>3 DEF HasMsg
      <4>2. i # k
        BY <1>n, <2>6, <4>1 DEF n
      <4>3. PICK j \in 1..Len(R) : R[j] = Q[i]
        BY <1>q, <4>2
      <4> QED
        BY <4>1, <4>3 DEF HasMsg
    <3> QED
      BY <2>1, <2>6, <3>1, <3>2, <3>3
  <2>7. n <= Len(L)
    BY <1>n
  <2> QED
    BY <2>1, <2>4, <2>5, <2>6, <2>7 DEF ReaderInv, t
<1>8. \A d \in Readers(q) : ReaderInv(q, R, S, L, lb[d], d)
  BY <1>6, <1>7, <1>l
<1> QED
  BY <1>o, <1>5, <1>8, <1>l, <1>p DEF ChannelInv
-----------------------------------------------------------------------------
(* The steps, on the state. *)

LEMMA TypesAre ==
  ASSUME Inv, NEW q \in Channels
  PROVE  /\ mq[q] \in Seq(Messages) /\ Len(mq[q]) \in Nat
         /\ server[q] \in ServerStates /\ log[q] \in Seq(Members) /\ Len(log[q]) \in Nat
         /\ last[q] \in [Members -> Nat]
         /\ ChannelInv(q, mq[q], server[q], log[q], last[q])
<1>1. /\ mq[q] \in Seq(Messages) /\ server[q] \in ServerStates
      /\ log[q] \in Seq(Members) /\ last[q] \in [Members -> Nat]
  BY DEF Inv, TypeOK
<1> QED
  BY <1>1 DEF Inv

LEMMA InitInv == InitGroup => Inv
<1> SUFFICES ASSUME InitGroup PROVE Inv
  OBVIOUS
<1>1. TypeOK
  <2>1. <<>> \in Seq(Messages) /\ <<>> \in Seq(Members)
    BY EmptySeq
  <2> QED
    BY <2>1, IdleIs DEF InitGroup, TypeOK
<1>2. ASSUME NEW q \in Channels
      PROVE  ChannelInv(q, mq[q], server[q], log[q], last[q])
  <2>1. /\ mq[q] = <<>> /\ server[q] = Idle /\ log[q] = <<>>
        /\ last[q] = [c \in Members |-> 0]
    BY DEF InitGroup
  <2>2. 1..Len(<<>>) = {} /\ Len(<<>>) = 0
    OBVIOUS
  <2>3. OrderInv(<<>>, Idle, <<>>) /\ ThreadInv(Idle, <<>>)
    BY <2>2 DEF OrderInv, ThreadInv
  <2>4. ASSUME NEW d \in Readers(q)
        PROVE  ReaderInv(q, <<>>, Idle, <<>>, 0, d)
    BY <2>2, IdleIs DEF ReaderInv
  <2>5. \A d \in Readers(q) : last[q][d] = 0
    BY <2>1 DEF Readers
  <2> QED
    BY <2>1, <2>3, <2>4, <2>5 DEF ChannelInv
<1> QED
  BY <1>1, <1>2 DEF Inv

\* The other queues are as they were.
LEMMA OthersKeep ==
  ASSUME Inv, NEW q \in Channels,
         \A p \in Channels : p # q => /\ mq'[p] = mq[p] /\ server'[p] = server[p]
                                     /\ log'[p] = log[p] /\ last'[p] = last[p],
         ChannelInv(q, mq'[q], server'[q], log'[q], last'[q]), TypeOK'
  PROVE  Inv'
<1>1. ASSUME NEW p \in Channels
      PROVE  ChannelInv(p, mq'[p], server'[p], log'[p], last'[p])
  <2>1. ChannelInv(p, mq[p], server[p], log[p], last[p])
    BY TypesAre
  <2>2. CASE p = q
    BY <2>2
  <2>3. CASE p # q
    BY <2>1, <2>3
  <2> QED
    BY <2>2, <2>3
<1> QED
  BY <1>1 DEF Inv

LEMMA TypeStep ==
  ASSUME Inv, NEW c \in Members, NEW q \in Channels, Type(c, q)
  PROVE  Inv'
<1>1. typed' \in [Members -> Channels \cup {Nowhere}]
  BY DEF Type, Inv, TypeOK
<1>2. UNCHANGED <<mq, server, log, last>>
  BY DEF Type
<1> QED
  BY <1>1, <1>2 DEF Inv, TypeOK

\* A client sends: publish.
LEMMA SendStep ==
  ASSUME Inv, NEW c \in Members, Send(c)
  PROVE  Inv' /\ \E q \in Channels : B!Publish(c, q)
<1> DEFINE q == typed[c]
           e == [type |-> ToServer, n |-> Len(log[q]) + 1]
<1>1. q \in Channels
  BY DEF Send, Inv, TypeOK
<1>2. /\ log' = [log EXCEPT ![q] = Append(log[q], c)]
      /\ mq' = [mq EXCEPT ![q] = Append(mq[q], e)]
      /\ typed' = [typed EXCEPT ![c] = Nowhere] /\ UNCHANGED <<server, last>>
  BY DEF Send
<1>p. B!Publish(c, q)
  BY <1>2 DEF B!Publish
<1>t. typed' \in [Members -> Channels \cup {Nowhere}]
  BY <1>2 DEF Inv, TypeOK
<1>3. /\ mq \in [Channels -> Seq(Messages)] /\ log \in [Channels -> Seq(Members)]
      /\ server' \in [Channels -> ServerStates]
      /\ last' \in [Channels -> [Members -> Nat]]
  BY <1>2 DEF Inv, TypeOK
<1> HIDE DEF q, e
<1>4. /\ Append(mq[q], e) \in Seq(Messages) /\ Append(log[q], c) \in Seq(Members)
      /\ ChannelInv(q, Append(mq[q], e), server[q], Append(log[q], c), last[q])
  BY <1>1, TypesAre, SendKeeps DEF e
<1>5. /\ mq' \in [Channels -> Seq(Messages)] /\ mq'[q] = Append(mq[q], e)
      /\ \A p \in Channels : p # q => mq'[p] = mq[p]
  BY <1>1, <1>2, <1>3, <1>4, Updated
<1>6. /\ log' \in [Channels -> Seq(Members)] /\ log'[q] = Append(log[q], c)
      /\ \A p \in Channels : p # q => log'[p] = log[p]
  BY <1>1, <1>2, <1>3, <1>4, Updated
<1>7. TypeOK'
  BY <1>t, <1>3, <1>5, <1>6 DEF TypeOK
<1>8. Inv'
  BY <1>1, <1>2, <1>4, <1>5, <1>6, <1>7, OthersKeep
<1> QED
  BY <1>1, <1>8, <1>p

\* A client reads: deliver.
LEMMA ReadStep ==
  ASSUME Inv, NEW c \in Members, NEW q \in Channels, Read(c, q)
  PROVE  Inv' /\ B!Deliver(c, q)
<1> DEFINE k == First(q, TypeFor(q, c))
           R == RemoveAt(mq[q], k)
           lb == [last[q] EXCEPT ![c] = mq[q][k].n]
<1>r. c \in Readers(q)
  BY DEF Read, Readers
<1>1. /\ mq \in [Channels -> Seq(Messages)] /\ server \in [Channels -> ServerStates]
      /\ typed \in [Members -> Channels \cup {Nowhere}]
      /\ log \in [Channels -> Seq(Members)] /\ last \in [Channels -> [Members -> Nat]]
  BY DEF Inv, TypeOK
<1>2. /\ mq' = [mq EXCEPT ![q] = R] /\ last' = [last EXCEPT ![q] = lb]
      /\ UNCHANGED <<server, typed, log>> /\ k # 0
  BY <1>1 DEF Read
<1>d. last' = [last EXCEPT ![q][c] = mq[q][k].n]
  BY DEF Read
<1>k. k = First(q, TypeFor(q, c))
  OBVIOUS
<1>R. R = RemoveAt(mq[q], k) /\ lb = [last[q] EXCEPT ![c] = mq[q][k].n]
  OBVIOUS
<1> HIDE DEF k, R, lb
<1>3. /\ k \in 1..Len(mq[q]) /\ mq[q][k].type = TypeFor(q, c)
      /\ \A j \in 1..Len(mq[q]) : mq[q][j].type = TypeFor(q, c) => k <= j
  BY <1>2, <1>k, FirstIs, TypesAre
<1>y. /\ mq[q] \in Seq(Messages) /\ Len(mq[q]) \in Nat
      /\ server[q] \in ServerStates /\ log[q] \in Seq(Members)
      /\ last[q] \in [Members -> Nat]
      /\ ChannelInv(q, mq[q], server[q], log[q], last[q])
  BY TypesAre
<1>a. ReadAt(q, mq[q], server[q], log[q], last[q], c, k)
  BY <1>3, <1>r, <1>y DEF ReadAt
<1>4. /\ mq[q][k].n \in 1..Len(log[q]) /\ mq[q][k].n > last[q][c]
      /\ c \in Addressed(q, log[q][mq[q][k].n])
      /\ \A m \in (last[q][c] + 1)..(mq[q][k].n - 1) : c \notin Addressed(q, log[q][m])
  BY <1>a, ReadIsNext
<1>5. B!Deliver(c, q)
  BY <1>4, <1>d, <1>2 DEF B!Deliver
<1>6. /\ R \in Seq(Messages) /\ lb \in [Members -> Nat]
      /\ ChannelInv(q, R, server[q], log[q], lb)
  BY <1>a, <1>R, ReadKeeps
<1>7. /\ mq' \in [Channels -> Seq(Messages)] /\ mq'[q] = R
      /\ \A p \in Channels : p # q => mq'[p] = mq[p]
  BY <1>1, <1>2, <1>6, Updated
<1>8. /\ last' \in [Channels -> [Members -> Nat]] /\ last'[q] = lb
      /\ \A p \in Channels : p # q => last'[p] = last[p]
  BY <1>1, <1>2, <1>6, Updated
<1>9. TypeOK'
  BY <1>1, <1>2, <1>7, <1>8 DEF TypeOK
<1>10. Inv'
  BY <1>2, <1>6, <1>7, <1>8, <1>9, OthersKeep
<1> QED
  BY <1>5, <1>10

LEMMA ReceiveStep ==
  ASSUME Inv, NEW q \in Channels, Receive(q)
  PROVE  Inv'
<1> DEFINE k == First(q, ToServer)
           R == RemoveAt(mq[q], k)
           S == [n |-> mq[q][k].n, todo |-> Copies(q, log[q][mq[q][k].n])]
<1>1. /\ mq \in [Channels -> Seq(Messages)] /\ server \in [Channels -> ServerStates]
      /\ typed \in [Members -> Channels \cup {Nowhere}]
      /\ log \in [Channels -> Seq(Members)] /\ last \in [Channels -> [Members -> Nat]]
  BY DEF Inv, TypeOK
<1>2. /\ mq' = [mq EXCEPT ![q] = R] /\ server' = [server EXCEPT ![q] = S]
      /\ UNCHANGED <<typed, log, last>> /\ k # 0 /\ server[q] = Idle
  BY DEF Receive
<1>k. k = First(q, ToServer)
  OBVIOUS
<1>R. /\ R = RemoveAt(mq[q], k)
      /\ S = [n |-> mq[q][k].n, todo |-> Copies(q, log[q][mq[q][k].n])]
  OBVIOUS
<1> HIDE DEF k, R, S
<1>3. /\ k \in 1..Len(mq[q]) /\ mq[q][k].type = ToServer
      /\ \A j \in 1..Len(mq[q]) : mq[q][j].type = ToServer => k <= j
  BY <1>2, <1>k, FirstIs, TypesAre
<1>4. ChannelInv(q, mq[q], Idle, log[q], last[q])
  BY <1>2, TypesAre
<1>6. S \in ServerStates /\ R \in Seq(Messages) /\ ChannelInv(q, R, S, log[q], last[q])
  BY <1>3, <1>4, <1>R, TypesAre, ReceiveKeeps
<1>7. /\ mq' \in [Channels -> Seq(Messages)] /\ mq'[q] = R
      /\ \A p \in Channels : p # q => mq'[p] = mq[p]
  BY <1>1, <1>2, <1>6, Updated
<1>8. /\ server' \in [Channels -> ServerStates] /\ server'[q] = S
      /\ \A p \in Channels : p # q => server'[p] = server[p]
  BY <1>1, <1>2, <1>6, Updated
<1>9. TypeOK'
  BY <1>1, <1>2, <1>7, <1>8 DEF TypeOK
<1> QED
  BY <1>2, <1>6, <1>7, <1>8, <1>9, OthersKeep

LEMMA ForwardStep ==
  ASSUME Inv, NEW q \in Channels, Forward(q)
  PROVE  Inv'
<1> DEFINE e == [type |-> Head(server[q].todo), n |-> server[q].n]
           R == Append(mq[q], e)
           U == AfterCopy(server[q])
<1>1. /\ mq \in [Channels -> Seq(Messages)] /\ server \in [Channels -> ServerStates]
      /\ typed \in [Members -> Channels \cup {Nowhere}]
      /\ log \in [Channels -> Seq(Members)] /\ last \in [Channels -> [Members -> Nat]]
  BY DEF Inv, TypeOK
<1>2. /\ mq' = [mq EXCEPT ![q] = R] /\ server' = [server EXCEPT ![q] = U]
      /\ UNCHANGED <<typed, log, last>> /\ server[q] # Idle
  BY DEF Forward
<1>e. e = [type |-> Head(server[q].todo), n |-> server[q].n]
  OBVIOUS
<1>R. R = Append(mq[q], e) /\ U = AfterCopy(server[q])
  OBVIOUS
<1> HIDE DEF e, R, U
<1>y. /\ mq[q] \in Seq(Messages) /\ Len(mq[q]) \in Nat
      /\ server[q] \in ServerStates /\ log[q] \in Seq(Members)
      /\ last[q] \in [Members -> Nat]
      /\ ChannelInv(q, mq[q], server[q], log[q], last[q])
  BY TypesAre
<1>6. U \in ServerStates /\ R \in Seq(Messages) /\ ChannelInv(q, R, U, log[q], last[q])
  <2>1. ASSUME NEW Q \in Seq(Messages), NEW L \in Seq(Members), NEW la \in [Members -> Nat],
               NEW s \in ServerStates, s # Idle, ChannelInv(q, Q, s, L, la)
        PROVE  \A f, g, h : f = [type |-> Head(s.todo), n |-> s.n] /\ g = Append(Q, f)
                              /\ h = AfterCopy(s) =>
                   h \in ServerStates /\ g \in Seq(Messages) /\ ChannelInv(q, g, h, L, la)
    BY <2>1, ForwardKeeps
  <2>2. \A f, g, h : f = [type |-> Head(server[q].todo), n |-> server[q].n]
                       /\ g = Append(mq[q], f) /\ h = AfterCopy(server[q]) =>
          h \in ServerStates /\ g \in Seq(Messages) /\ ChannelInv(q, g, h, log[q], last[q])
    BY <1>2, <1>y, <2>1
  <2> QED
    BY <1>e, <1>R, <2>2
<1>7. /\ mq' \in [Channels -> Seq(Messages)] /\ mq'[q] = R
      /\ \A p \in Channels : p # q => mq'[p] = mq[p]
  BY <1>1, <1>2, <1>6, Updated
<1>8. /\ server' \in [Channels -> ServerStates] /\ server'[q] = U
      /\ \A p \in Channels : p # q => server'[p] = server[p]
  BY <1>1, <1>2, <1>6, Updated
<1>9. TypeOK'
  BY <1>1, <1>2, <1>7, <1>8 DEF TypeOK
<1> QED
  BY <1>2, <1>6, <1>7, <1>8, <1>9, OthersKeep

\* Every step keeps the invariant and is one of Broadcast or changes nothing of it.
LEMMA Step == Inv /\ [NextGroup]_varsGroup => Inv' /\ [B!Next]_(B!vars)
<1> SUFFICES ASSUME Inv, [NextGroup]_varsGroup
             PROVE  Inv' /\ [B!Next]_(B!vars)
  OBVIOUS
<1>1. ASSUME NEW q \in Channels, Receive(q)
      PROVE  Inv' /\ UNCHANGED <<log, last>>
  BY <1>1, ReceiveStep DEF Receive
<1>2. ASSUME NEW q \in Channels, Forward(q)
      PROVE  Inv' /\ UNCHANGED <<log, last>>
  BY <1>2, ForwardStep DEF Forward
<1>3. ASSUME NEW c \in Members, Client(c)
      PROVE  Inv' /\ [B!Next]_(B!vars)
  <2>1. CASE Send(c)
    BY <2>1, SendStep DEF B!Next
  <2>2. ASSUME NEW q \in Channels, Type(c, q)
        PROVE  Inv' /\ UNCHANGED <<log, last>>
    BY <2>2, TypeStep DEF Type
  <2>3. ASSUME NEW q \in Channels, Read(c, q)
        PROVE  Inv' /\ B!Next
    BY <2>3, ReadStep DEF B!Next
  <2> QED
    BY <1>3, <2>1, <2>2, <2>3 DEF Client, B!vars
<1>4. CASE a1 \/ a2 \/ a3 \/ b1 \/ b2 \/ b3
  <2>1. /\ <<"A", 1>> \in Members /\ <<"A", 2>> \in Members /\ <<"A", 3>> \in Members
        /\ <<"B", 1>> \in Members /\ <<"B", 2>> \in Members /\ <<"B", 3>> \in Members
    BY DEF Members
  <2>2. \E c \in Members : Client(c)
    BY <1>4, <2>1 DEF a1, a2, a3, b1, b2, b3
  <2> QED
    BY <1>3, <2>2
<1>5. CASE UNCHANGED varsGroup
  BY <1>5 DEF Inv, TypeOK, varsGroup, B!vars
<1> QED
  BY <1>1, <1>2, <1>4, <1>5 DEF NextGroup, B!vars

LEMMA InitRefines == InitGroup => B!Init
BY DEF InitGroup, B!Init

\* Every behaviour of the server and the clients, threads interleaved in any
\* way on queues that fill up, is one of Broadcast: s.cpp:16-181.
THEOREM ImplementsBroadcast == SpecGroup => Ordered
<1>1. InitGroup => Inv /\ B!Init
  BY InitInv, InitRefines
<1>2. Inv /\ [NextGroup]_varsGroup => Inv' /\ [B!Next]_(B!vars)
  BY Step
<1> QED
  BY <1>1, <1>2, PTL DEF SpecGroup, Ordered, B!Spec
=============================================================================
