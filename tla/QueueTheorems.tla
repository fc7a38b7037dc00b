---------------------------- MODULE QueueTheorems ----------------------------
(***************************************************************************)
(* Facts about the data the models are built from: the smallest member of  *)
(* a set of indices, and queues of which each element is in one only.      *)
(***************************************************************************)
EXTENDS Naturals, Sequences, FiniteSets, FiniteSetsExt, SequencesExt, FiniteSetTheorems,
        SequenceTheorems, WellFoundedInduction, TLAPS

\* No element is in two places of the family H of queues.
OneSpot(X, H) ==
  \A x, y \in X : \A n \in 1..Len(H[x]) : \A m \in 1..Len(H[y]) :
    H[x][n] = H[y][m] => x = y /\ n = m

\* An element is in a queue of the family.
Somewhere(X, H, e) == \E x \in X : \E n \in 1..Len(H[x]) : H[x][n] = e

\* The smallest member of a set of indices is a member of it and the least.
LEMMA MinIsLeast ==
  ASSUME NEW S, S \subseteq Nat, S # {}
  PROVE  Min(S) \in S /\ \A y \in S : Min(S) <= y
<1> DEFINE R == {ss \in Nat \X Nat : ss[1] < ss[2]}
<1>1. IsWellFoundedOn(R, Nat)
  BY NatLessThanWellFounded DEF OpToRel
<1>2. PICK x \in S : \A y \in S : ~(<<y, x>> \in R)
  <2> HIDE DEF R
  <2> QED
    BY <1>1, WFMin
<1>3. \A y \in S : x <= y
  <2> TAKE y \in S
  <2>1. x \in Nat /\ y \in Nat /\ ~(<<y, x>> \in R)
    BY <1>2
  <2>2. ~(y < x)
    BY <2>1
  <2> QED
    BY <2>1, <2>2
<1> QED
  BY <1>3 DEF Min

LEMMA MinIsMember ==
  ASSUME NEW S, S \subseteq Nat, S # {}
  PROVE  Min(S) \in S
BY MinIsLeast

\* The empty sequence is a sequence of anything.
LEMMA Empty == \A C : <<>> \in Seq(C)
BY EmptySeq

\* A function that is changed at one point.
LEMMA Updated ==
  ASSUME NEW X, NEW C, NEW f \in [X -> C], NEW q \in X, NEW v \in C,
         NEW g, g = [f EXCEPT ![q] = v]
  PROVE  g \in [X -> C] /\ g[q] = v /\ \A p \in X : p # q => g[p] = f[p]
OBVIOUS

\* Appending and removing keep a sequence one.
LEMMA QueueTypes ==
  ASSUME NEW C
  PROVE  /\ \A q \in Seq(C) : \A e \in C : Append(q, e) \in Seq(C)
         /\ \A q \in Seq(C) : q # <<>> => Head(q) \in C /\ Tail(q) \in Seq(C)
OBVIOUS

\* A queue of one element is empty without it.
LEMMA QueueOfOne ==
  ASSUME NEW C, NEW q \in Seq(C), q # <<>>, Len(q) <= 1
  PROVE  Len(q) = 1 /\ Tail(q) = <<>>
<1>1. Len(q) = 1
  <2>1. Len(q) \in Nat \ {0}
    BY EmptySeq
  <2> QED
    BY <2>1
<1>2. Tail(q) \in Seq(C) /\ Len(Tail(q)) = 0
  BY <1>1, HeadTailProperties
<1> QED
  BY <1>1, <1>2, EmptySeq

\* Taking the first element of one queue of a family to the end of another
\* keeps every element in one place, and in the family.
LEMMA MoveKeeps ==
  ASSUME NEW X, NEW C, NEW H, \A x \in X : H[x] \in Seq(C), NEW a \in X, NEW b \in X, a # b,
         H[a] # <<>>, OneSpot(X, H),
         NEW G, \A x \in X \ {a, b} : G[x] = H[x],
         G[a] = Tail(H[a]), G[b] = Append(H[b], Head(H[a]))
  PROVE  /\ OneSpot(X, G)
         /\ \A e : Somewhere(X, G, e) <=> Somewhere(X, H, e)
<1> DEFINE h == Head(H[a])
<1>1. /\ \A x \in X : Len(H[x]) \in Nat
      /\ Len(H[a]) > 0 /\ h = H[a][1]
  OBVIOUS
<1>2. Len(G[a]) = Len(H[a]) - 1 /\ \A n \in 1..Len(G[a]) : G[a][n] = H[a][n + 1]
  OBVIOUS
<1>3. /\ Len(G[b]) = Len(H[b]) + 1 /\ G[b][Len(H[b]) + 1] = h
      /\ \A n \in 1..Len(H[b]) : G[b][n] = H[b][n]
  OBVIOUS
<1>4. \A x \in X \ {a, b} : G[x] = H[x]
  OBVIOUS
\* Where the element of H comes from that stands at n in G[x].
<1> DEFINE From(x, n) == IF x = a THEN <<a, n + 1>>
                         ELSE IF x = b /\ n = Len(H[b]) + 1 THEN <<a, 1>>
                         ELSE <<x, n>>
<1>5. ASSUME NEW x \in X, NEW n \in 1..Len(G[x])
      PROVE  \E y \in X : \E m \in 1..Len(H[y]) :
               From(x, n) = <<y, m>> /\ G[x][n] = H[y][m]
  <2>1. CASE x = a
    <3>0. n \in 1..Len(G[a]) /\ Len(G[a]) = Len(H[a]) - 1 /\ Len(H[a]) \in Nat
      BY <1>1, <1>2, <2>1
    <3>1. n + 1 \in 1..Len(H[a]) /\ G[a][n] = H[a][n + 1]
      BY <1>2, <3>0
    <3>2. From(x, n) = <<a, n + 1>>
      BY <2>1
    <3> HIDE DEF From
    <3> QED
      BY <2>1, <3>1, <3>2
  <2>2. CASE x = b /\ n = Len(H[b]) + 1
    <3>1. 1 \in 1..Len(H[a]) /\ G[x][n] = H[a][1]
      BY <1>1, <1>3, <2>2
    <3>2. From(x, n) = <<a, 1>>
      BY <2>2
    <3> HIDE DEF From
    <3> QED
      BY <3>1, <3>2
  <2>3. CASE x = b /\ n # Len(H[b]) + 1
    <3>1. n \in 1..Len(H[b])
      BY <1>1, <1>3, <2>3
    <3> QED
      BY <1>3, <2>3, <3>1
  <2>4. CASE x \in X \ {a, b}
    BY <1>4, <2>4
  <2> QED
    BY <2>1, <2>2, <2>3, <2>4
<1>6. ASSUME NEW x \in X, NEW y \in X, NEW n \in 1..Len(G[x]), NEW m \in 1..Len(G[y]),
             From(x, n) = From(y, m)
      PROVE  x = y /\ n = m
  <2>1. n \in Nat /\ m \in Nat /\ n > 0 /\ m > 0
    BY <1>1, <1>2, <1>3, <1>4
  <2> QED
    BY <1>6, <2>1
<1>7. OneSpot(X, G)
  <2> SUFFICES ASSUME NEW x \in X, NEW y \in X,
                      NEW n \in 1..Len(G[x]), NEW m \in 1..Len(G[y]),
                      G[x][n] = G[y][m]
               PROVE  x = y /\ n = m
    BY <1>1 DEF OneSpot
  <2>1. PICK u \in X : \E k \in 1..Len(H[u]) :
               From(x, n) = <<u, k>> /\ G[x][n] = H[u][k]
    BY <1>5
  <2>2. PICK k \in 1..Len(H[u]) : From(x, n) = <<u, k>> /\ G[x][n] = H[u][k]
    BY <2>1
  <2>3. PICK v \in X : \E l \in 1..Len(H[v]) :
               From(y, m) = <<v, l>> /\ G[y][m] = H[v][l]
    BY <1>5
  <2>4. PICK l \in 1..Len(H[v]) : From(y, m) = <<v, l>> /\ G[y][m] = H[v][l]
    BY <2>3
  <2>5. u = v /\ k = l
    <3>1. H[u][k] = H[v][l]
      BY <2>2, <2>4
    <3> QED
      BY <3>1 DEF OneSpot
  <2>6. From(x, n) = From(y, m)
    BY <2>2, <2>4, <2>5
  <2> HIDE DEF From
  <2> QED
    BY <1>6, <2>6
<1>8. ASSUME NEW e, Somewhere(X, G, e) PROVE Somewhere(X, H, e)
  <2> HIDE DEF From
  <2> QED
    BY <1>1, <1>5, <1>8, ZenonT(60) DEF Somewhere
<1>9. ASSUME NEW e, Somewhere(X, H, e) PROVE Somewhere(X, G, e)
  <2>1. PICK x \in X : \E n \in 1..Len(H[x]) : H[x][n] = e
    BY <1>1, <1>9 DEF Somewhere
  <2>2. PICK n \in 1..Len(H[x]) : H[x][n] = e
    BY <2>1
  <2>3. CASE x = a /\ n = 1
    <3>1. Len(H[b]) + 1 \in 1..Len(G[b]) /\ G[b][Len(H[b]) + 1] = e
      BY <1>1, <1>3, <2>2, <2>3
    <3> QED
      BY <1>1, <3>1 DEF Somewhere
  <2>4. CASE x = a /\ n # 1
    <3>1. n - 1 \in 1..Len(G[a]) /\ (n - 1) + 1 = n
      BY <1>1, <1>2, <2>4
    <3>2. G[a][n - 1] = e
      BY <1>2, <2>2, <2>4, <3>1
    <3> QED
      BY <1>1, <3>1, <3>2 DEF Somewhere
  <2>5. CASE x = b
    <3>1. n \in 1..Len(G[b]) /\ G[b][n] = e
      BY <1>1, <1>3, <2>2, <2>5
    <3> QED
      BY <1>1, <3>1 DEF Somewhere
  <2>6. CASE x \in X \ {a, b}
    BY <1>1, <1>4, <2>2, <2>6 DEF Somewhere
  <2> QED
    BY <2>3, <2>4, <2>5, <2>6
<1> QED
  BY <1>7, <1>8, <1>9

\* So does a new element at the end of a queue.
LEMMA AddKeeps ==
  ASSUME NEW X, NEW C, NEW H, \A x \in X : H[x] \in Seq(C), NEW b \in X, NEW e \in C,
         OneSpot(X, H), ~Somewhere(X, H, e),
         NEW G, \A x \in X \ {b} : G[x] = H[x], G[b] = Append(H[b], e)
  PROVE  /\ OneSpot(X, G)
         /\ \A d : Somewhere(X, G, d) <=> Somewhere(X, H, d) \/ d = e
<1>1. /\ \A x \in X : Len(H[x]) \in Nat
  OBVIOUS
<1>2. /\ Len(G[b]) = Len(H[b]) + 1 /\ G[b][Len(H[b]) + 1] = e
      /\ \A n \in 1..Len(H[b]) : G[b][n] = H[b][n]
  OBVIOUS
<1>3. \A x \in X \ {b} : G[x] = H[x]
  OBVIOUS
<1>4. \A x \in X : \A n \in 1..Len(H[x]) : H[x][n] # e
  BY Zenon DEF Somewhere
<1>5. ASSUME NEW x \in X, NEW n \in 1..Len(G[x])
      PROVE  \/ x = b /\ n = Len(H[b]) + 1 /\ G[x][n] = e
             \/ n \in 1..Len(H[x]) /\ G[x][n] = H[x][n] /\ G[x][n] # e
  <2>1. CASE x = b /\ n = Len(H[b]) + 1
    BY <1>2, <2>1
  <2>2. CASE x = b /\ n # Len(H[b]) + 1
    <3>1. n \in 1..Len(H[b])
      BY <1>1, <1>2, <2>2
    <3> QED
      BY <1>2, <1>4, <2>2, <3>1
  <2>3. CASE x # b
    BY <1>3, <1>4, <2>3
  <2> QED
    BY <2>1, <2>2, <2>3
<1>6. OneSpot(X, G)
  BY <1>1, <1>5 DEF OneSpot
<1>7. ASSUME NEW d, Somewhere(X, G, d) PROVE Somewhere(X, H, d) \/ d = e
  BY <1>1, <1>5, <1>7 DEF Somewhere
<1>8. Somewhere(X, G, e)
  <2>1. Len(H[b]) + 1 \in 1..Len(G[b])
    BY <1>1, <1>2
  <2> QED
    BY <1>1, <1>2, <2>1 DEF Somewhere
<1>9. ASSUME NEW d, Somewhere(X, H, d) PROVE Somewhere(X, G, d)
  <2>1. \A x \in X : \A n \in 1..Len(H[x]) : n \in 1..Len(G[x]) /\ G[x][n] = H[x][n]
    BY <1>1, <1>2, <1>3
  <2> QED
    BY <1>1, <1>9, <2>1 DEF Somewhere
<1> QED
  BY <1>6, <1>7, <1>8, <1>9

\* What stands at a position of three sequences laid end to end.
LEMMA ThreeConcat ==
  ASSUME NEW S, NEW b \in Seq(S), NEW t \in Seq(S), NEW n \in Seq(S)
  PROVE  /\ (b \o t \o n) \in Seq(S)
         /\ Len(b \o t \o n) = Len(b) + Len(t) + Len(n)
         /\ DOMAIN (b \o t \o n) = 1..(Len(b) + Len(t) + Len(n))
         /\ \A i \in 1..Len(b) : (b \o t \o n)[i] = b[i]
         /\ \A i \in 1..Len(t) : (b \o t \o n)[Len(b) + i] = t[i]
         /\ \A i \in 1..Len(n) : (b \o t \o n)[Len(b) + Len(t) + i] = n[i]
<1>1. Len(b) \in Nat /\ Len(t) \in Nat /\ Len(n) \in Nat
  OBVIOUS
<1> DEFINE bt == b \o t
<1>2. /\ bt \in Seq(S) /\ Len(bt) = Len(b) + Len(t)
      /\ \A i \in 1..(Len(b) + Len(t)) : bt[i] = IF i <= Len(b) THEN b[i] ELSE t[i - Len(b)]
  BY ConcatProperties
<1>3. \A i \in 1..Len(b) : bt[i] = b[i]
  BY <1>1, <1>2
<1>4. \A i \in 1..Len(t) : bt[Len(b) + i] = t[i]
  BY <1>1, <1>2
<1>a. bt \in Seq(S)
  BY <1>2
<1> HIDE DEF bt
<1>5. /\ (bt \o n) \in Seq(S) /\ Len(bt \o n) = Len(bt) + Len(n)
      /\ \A i \in 1..(Len(bt) + Len(n)) :
           (bt \o n)[i] = IF i <= Len(bt) THEN bt[i] ELSE n[i - Len(bt)]
  BY <1>a, ConcatProperties, Zenon
<1> DEFINE all == bt \o n
<1> HIDE DEF all
<1>6. /\ all \in Seq(S) /\ Len(all) = Len(bt) + Len(n)
      /\ \A i \in 1..(Len(bt) + Len(n)) :
           all[i] = IF i <= Len(bt) THEN bt[i] ELSE n[i - Len(bt)]
  BY <1>5 DEF all
<1>7. \A i \in 1..Len(b) : all[i] = b[i]
  BY <1>1, <1>2, <1>3, <1>6
<1>8. \A i \in 1..Len(t) : all[Len(b) + i] = t[i]
  BY <1>1, <1>2, <1>4, <1>6
<1>9. \A i \in 1..Len(n) : all[Len(b) + Len(t) + i] = n[i]
  <2> TAKE i \in 1..Len(n)
  <2> DEFINE j == Len(b) + Len(t) + i
  <2>1. j \in 1..(Len(bt) + Len(n)) /\ ~(j <= Len(bt)) /\ j - Len(bt) = i
    BY <1>1, <1>2
  <2> HIDE DEF j
  <2>2. all[j] = n[i]
    BY <1>6, <2>1
  <2> QED
    BY <2>2 DEF j
<1>10. DOMAIN all = 1..Len(all)
  BY <1>6
<1>11. all = b \o t \o n
  BY DEF all, bt
<1> QED
  BY <1>2, <1>6, <1>7, <1>8, <1>9, <1>10, <1>11

\* A position of three sequences laid end to end is one of the three's.
LEMMA ThirdOf ==
  ASSUME NEW x \in Nat, NEW y \in Nat, NEW z \in Nat, NEW i \in 1..(x + y + z)
  PROVE  \/ i \in 1..x
         \/ \E k \in 1..y : i = x + k
         \/ \E k \in 1..z : i = x + y + k
<1>1. CASE i <= x
  BY <1>1
<1>2. CASE i > x /\ i <= x + y
  <2>1. i - x \in 1..y /\ i = x + (i - x)
    BY <1>2
  <2> QED
    BY <2>1
<1>3. CASE i > x + y
  <2>1. i - (x + y) \in 1..z /\ i = x + y + (i - (x + y))
    BY <1>3
  <2> QED
    BY <2>1
<1> QED
  BY <1>1, <1>2, <1>3

\* Taking an element out of a sequence.
LEMMA Removed ==
  ASSUME NEW C, NEW Q \in Seq(C), NEW k \in 1..Len(Q)
  PROVE  /\ RemoveAt(Q, k) \in Seq(C) /\ Len(RemoveAt(Q, k)) = Len(Q) - 1
         /\ \A j \in 1..(Len(Q) - 1) : RemoveAt(Q, k)[j] = IF j < k THEN Q[j] ELSE Q[j + 1]
<1> DEFINE a == SubSeq(Q, 1, k - 1)
           b == SubSeq(Q, k + 1, Len(Q))
<1>1. Len(Q) \in Nat /\ k \in Nat /\ k >= 1 /\ k <= Len(Q)
  OBVIOUS
<1>2. a \in Seq(C) /\ Len(a) = k - 1 /\ \A j \in 1..(k - 1) : a[j] = Q[j]
  BY <1>1
<1>3. b \in Seq(C) /\ Len(b) = Len(Q) - k /\ \A j \in 1..(Len(Q) - k) : b[j] = Q[k + j]
  BY <1>1
<1>4. RemoveAt(Q, k) = a \o b
  BY DEF RemoveAt
<1> HIDE DEF a, b
<1>5. /\ a \o b \in Seq(C) /\ Len(a \o b) = Len(Q) - 1
      /\ \A j \in 1..(Len(Q) - 1) : (a \o b)[j] = IF j < k THEN a[j] ELSE b[j - (k - 1)]
  <2>1. /\ a \o b \in Seq(C) /\ Len(a \o b) = Len(a) + Len(b)
        /\ \A j \in 1..(Len(a) + Len(b)) :
             (a \o b)[j] = IF j <= Len(a) THEN a[j] ELSE b[j - Len(a)]
    BY <1>2, <1>3, ConcatProperties
  <2>2. Len(a) + Len(b) = Len(Q) - 1 /\ \A j \in 1..(Len(Q) - 1) : j < k <=> j <= Len(a)
    BY <1>1, <1>2, <1>3
  <2> QED
    BY <1>2, <2>1, <2>2
<1>6. ASSUME NEW j \in 1..(Len(Q) - 1)
      PROVE  (a \o b)[j] = IF j < k THEN Q[j] ELSE Q[j + 1]
  <2>1. CASE j < k
    BY <1>1, <1>2, <1>5, <2>1
  <2>2. CASE ~(j < k)
    <3>1. j - (k - 1) \in 1..(Len(Q) - k) /\ k + (j - (k - 1)) = j + 1
      BY <1>1, <2>2
    <3> QED
      BY <1>3, <1>5, <2>2, <3>1
  <2> QED
    BY <2>1, <2>2
<1> QED
  BY <1>4, <1>5, <1>6

\* What a queue holds after element k has been taken out: the others, in order.
KeepsOthers(Q, k, R) ==
  /\ \A j \in 1..Len(R) : \E i \in 1..Len(Q) : i # k /\ R[j] = Q[i]
  /\ \A j, m \in 1..Len(R) : j < m =>
       \E i, l \in 1..Len(Q) : i < l /\ R[j] = Q[i] /\ R[m] = Q[l]
  /\ \A i \in 1..Len(Q) : i # k => \E j \in 1..Len(R) : R[j] = Q[i]

LEMMA Rest ==
  ASSUME NEW C, NEW Q \in Seq(C), NEW k \in 1..Len(Q)
  PROVE  RemoveAt(Q, k) \in Seq(C) /\ KeepsOthers(Q, k, RemoveAt(Q, k))
<1> DEFINE R == RemoveAt(Q, k)
<1>0. /\ R \in Seq(C) /\ Len(R) = Len(Q) - 1
      /\ \A j \in 1..(Len(Q) - 1) : R[j] = IF j < k THEN Q[j] ELSE Q[j + 1]
  BY Removed
<1> HIDE DEF R
<1>1. /\ R \in Seq(C) /\ Len(R) = Len(Q) - 1 /\ Len(Q) \in Nat
      /\ \A j \in 1..Len(R) : R[j] = IF j < k THEN Q[j] ELSE Q[j + 1]
  BY <1>0
<1> DEFINE old(j) == IF j < k THEN j ELSE j + 1
<1>2. \A j \in 1..Len(R) : old(j) \in 1..Len(Q) /\ old(j) # k /\ R[j] = Q[old(j)]
  BY <1>1
<1>3. \A j, m \in 1..Len(R) : j < m => old(j) < old(m)
  BY <1>1
<1>4. ASSUME NEW i \in 1..Len(Q), i # k
      PROVE  \E j \in 1..Len(R) : R[j] = Q[i]
  <2>1. CASE i < k
    BY <1>1, <2>1
  <2>2. CASE i > k
    <3>1. i - 1 \in 1..Len(R) /\ ~(i - 1 < k) /\ (i - 1) + 1 = i
      BY <1>1, <2>2
    <3> QED
      BY <1>1, <3>1
  <2> QED
    BY <1>1, <1>4, <2>1, <2>2
<1> HIDE DEF old
<1>5. KeepsOthers(Q, k, R)
  BY <1>2, <1>3, <1>4 DEF KeepsOthers
<1> QED
  BY <1>1, <1>5 DEF R

\* What it holds after an element has been added.
LEMMA More ==
  ASSUME NEW C, NEW Q \in Seq(C), NEW e \in C, NEW R, R = Append(Q, e)
  PROVE  /\ R \in Seq(C) /\ Len(R) = Len(Q) + 1 /\ Len(Q) \in Nat /\ R[Len(Q) + 1] = e
         /\ \A j \in 1..Len(Q) : R[j] = Q[j] /\ j \in 1..Len(R)
         /\ \A j \in 1..Len(R) : j = Len(Q) + 1 \/ j \in 1..Len(Q)
OBVIOUS

\* A sequence of more than one element is not empty without its first one.
LEMMA Shorter ==
  ASSUME NEW C, NEW f \in Seq(C), Len(f) > 1
  PROVE  Tail(f) # <<>>
<1>1. Tail(f) \in Seq(C) /\ Len(Tail(f)) = Len(f) - 1 /\ Len(f) \in Nat
  OBVIOUS
<1>2. Len(Tail(f)) # 0
  BY <1>1
<1> QED
  BY <1>1, <1>2, EmptySeq

\* Without its first element a queue of different ones holds the others.
LEMMA WithoutFirst ==
  ASSUME NEW C, NEW q \in Seq(C), q # <<>>,
         \A i, j \in 1..Len(q) : q[i] = q[j] => i = j
  PROVE  /\ Head(q) = q[1] /\ 1 \in 1..Len(q) /\ Head(q) \in C /\ Tail(q) \in Seq(C)
         /\ \A i \in 1..Len(Tail(q)) :
              /\ i + 1 \in 1..Len(q) /\ Tail(q)[i] = q[i + 1]
              /\ Tail(q)[i] # Head(q)
         /\ \A i, j \in 1..Len(Tail(q)) : Tail(q)[i] = Tail(q)[j] => i = j
         /\ \A e \in C : e # Head(q) /\ Contains(q, e) => Contains(Tail(q), e)
<1> DEFINE t == Tail(q)
<1>1. /\ Head(q) = q[1] /\ 1 \in 1..Len(q) /\ Head(q) \in C /\ t \in Seq(C)
      /\ Len(t) = Len(q) - 1 /\ Len(q) \in Nat
      /\ \A i \in 1..Len(t) : t[i] = q[i + 1]
  OBVIOUS
<1> HIDE DEF t
<1>2. \A i \in 1..Len(t) : i + 1 \in 1..Len(q) /\ t[i] = q[i + 1] /\ t[i] # Head(q)
  <2> TAKE i \in 1..Len(t)
  <2>1. i + 1 \in 1..Len(q) /\ i + 1 # 1
    BY <1>1
  <2> QED
    BY <1>1, <2>1
<1>3. \A i, j \in 1..Len(t) : t[i] = t[j] => i = j
  <2> TAKE i, j \in 1..Len(t)
  <2>1. t[i] = t[j] => i + 1 = j + 1
    BY <1>2
  <2> QED
    BY <2>1
<1>4. ASSUME NEW e \in C, e # Head(q), Contains(q, e)
      PROVE  Contains(t, e)
  <2>1. PICK k \in 1..Len(q) : q[k] = e
    BY <1>4 DEF Contains
  <2>2. k - 1 \in 1..Len(t) /\ (k - 1) + 1 = k
    BY <1>1, <1>4, <2>1
  <2> QED
    BY <1>1, <2>1, <2>2 DEF Contains
<1> QED
  BY <1>1, <1>2, <1>3, <1>4 DEF t

\* A stack whose first element is exchanged.
LEMMA FirstChanged ==
  ASSUME NEW C, NEW q \in Seq(C), q # <<>>, NEW x \in C, NEW r, r = <<x>> \o Tail(q)
  PROVE  /\ r \in Seq(C) /\ r # <<>>
         /\ \A k \in 1..Len(r) : r[k] = x \/ \E l \in 1..Len(q) : r[k] = q[l]
<1>1. /\ Tail(q) \in Seq(C) /\ <<x>> \in Seq(C) /\ Len(<<x>>) = 1 /\ <<x>>[1] = x
      /\ Len(q) \in Nat /\ Len(q) >= 1 /\ Len(Tail(q)) = Len(q) - 1
      /\ \A k \in 1..Len(Tail(q)) : Tail(q)[k] = q[k + 1]
  OBVIOUS
<1>2. /\ r \in Seq(C) /\ Len(r) = Len(<<x>>) + Len(Tail(q))
      /\ \A k \in 1..(Len(<<x>>) + Len(Tail(q))) :
           r[k] = IF k <= Len(<<x>>) THEN <<x>>[k] ELSE Tail(q)[k - Len(<<x>>)]
  BY <1>1, ConcatProperties
<1>3. r # <<>>
  BY <1>1, <1>2
<1>4. ASSUME NEW k \in 1..Len(r)
      PROVE  r[k] = x \/ \E l \in 1..Len(q) : r[k] = q[l]
  <2>1. CASE k = 1
    BY <1>1, <1>2, <2>1
  <2>2. CASE k # 1
    <3>1. /\ k - 1 \in 1..Len(Tail(q)) /\ (k - 1) + 1 = k /\ k \in 1..Len(q)
          /\ k \in 1..(Len(<<x>>) + Len(Tail(q))) /\ ~(k <= 1)
      BY <1>1, <1>2, <2>2
    <3>2. r[k] = Tail(q)[k - 1]
      BY <1>1, <1>2, <3>1
    <3> QED
      BY <1>1, <3>1, <3>2
  <2> QED
    BY <2>1, <2>2
<1> QED
  BY <1>2, <1>3, <1>4

\* A stack onto which an element is laid.
LEMMA FirstAdded ==
  ASSUME NEW C, NEW q \in Seq(C), NEW x \in C, NEW r, r = <<x>> \o q
  PROVE  /\ r \in Seq(C) /\ r # <<>>
         /\ \A k \in 1..Len(r) : r[k] = x \/ \E l \in 1..Len(q) : r[k] = q[l]
<1>1. /\ <<x>> \in Seq(C) /\ Len(<<x>>) = 1 /\ <<x>>[1] = x /\ Len(q) \in Nat
  OBVIOUS
<1>2. /\ r \in Seq(C) /\ Len(r) = Len(<<x>>) + Len(q)
      /\ \A k \in 1..(Len(<<x>>) + Len(q)) :
           r[k] = IF k <= Len(<<x>>) THEN <<x>>[k] ELSE q[k - Len(<<x>>)]
  BY <1>1, ConcatProperties
<1>3. r # <<>>
  BY <1>1, <1>2
<1>4. ASSUME NEW k \in 1..Len(r)
      PROVE  r[k] = x \/ \E l \in 1..Len(q) : r[k] = q[l]
  <2>1. CASE k = 1
    BY <1>1, <1>2, <2>1
  <2>2. CASE k # 1
    <3>1. k - 1 \in 1..Len(q) /\ k \in 1..(Len(<<x>>) + Len(q)) /\ ~(k <= 1)
      BY <1>1, <1>2, <2>2
    <3>2. r[k] = q[k - 1]
      BY <1>1, <1>2, <3>1
    <3> QED
      BY <3>1, <3>2
  <2> QED
    BY <2>1, <2>2
<1> QED
  BY <1>2, <1>3, <1>4

\* Induction over the numbers, for a set of them.
LEMMA NatSet ==
  ASSUME NEW P, 0 \in P, \A n \in Nat : n \in P => n + 1 \in P
  PROVE  Nat \subseteq P
<1> SUFFICES ASSUME NEW x \in Nat, x \notin P PROVE FALSE
  OBVIOUS
<1> DEFINE S == Nat \ P
<1>1. PICK m \in S : \A y \in S : m <= y
  <2>1. S \subseteq Nat /\ S # {}
    OBVIOUS
  <2> HIDE DEF S
  <2> QED
    BY <2>1, MinIsLeast
<1>2. m # 0 /\ m - 1 \in Nat /\ (m - 1) + 1 = m
  BY <1>1
<1>3. m - 1 \in P
  BY <1>1, <1>2
<1> QED
  BY <1>1, <1>2, <1>3

\* Two functions that begin alike and go on alike are alike.
LEMMA SameRecursion ==
  ASSUME NEW N \in Nat, NEW g, NEW h, g[0] = h[0],
         \A n \in 0..(N - 1) : g[n] = h[n] => g[n + 1] = h[n + 1]
  PROVE  \A n \in 0..N : g[n] = h[n]
<1> DEFINE P == {n \in Nat : n <= N => g[n] = h[n]}
<1>1. 0 \in P
  OBVIOUS
<1>2. ASSUME NEW n \in Nat, n \in P PROVE n + 1 \in P
  BY <1>2
<1>3. Nat \subseteq P
  <2> HIDE DEF P
  <2> QED
    BY <1>1, <1>2, NatSet
<1> QED
  BY <1>3

\* The values of a recursion: D[n] takes the n-th to the next.
Recursion(g, N, c, D) == g[0] = c /\ \A n \in 0..(N - 1) : g[n + 1] = D[n][g[n]]
Unending(g, c, D) == g[0] = c /\ \A n \in Nat : g[n + 1] = D[n][g[n]]

LEMMA Recursions ==
  ASSUME NEW X, NEW c \in X, NEW D \in [Nat -> [X -> X]]
  PROVE  \A N \in Nat : \E g \in [0..N -> X] : Recursion(g, N, c, D)
<1> DEFINE P == {N \in Nat : \E g \in [0..N -> X] : Recursion(g, N, c, D)}
<1>1. 0 \in P
  <2>1. [n \in 0..0 |-> c] \in [0..0 -> X] /\ Recursion([n \in 0..0 |-> c], 0, c, D)
    BY DEF Recursion
  <2> QED
    BY <2>1
<1>2. ASSUME NEW N \in Nat, N \in P PROVE N + 1 \in P
  <2>1. PICK g \in [0..N -> X] : Recursion(g, N, c, D)
    BY <1>2
  <2> DEFINE h == [n \in 0..(N + 1) |-> IF n = N + 1 THEN D[N][g[N]] ELSE g[n]]
  <2>2. h \in [0..(N + 1) -> X]
    OBVIOUS
  <2>3. Recursion(h, N + 1, c, D)
    BY <2>1 DEF Recursion
  <2> QED
    BY <2>2, <2>3
<1>3. Nat \subseteq P
  <2> HIDE DEF P
  <2> QED
    BY <1>1, <1>2, NatSet
<1> QED
  BY <1>3

LEMMA RecursionOnNat ==
  ASSUME NEW X, NEW c \in X, NEW D \in [Nat -> [X -> X]]
  PROVE  \E g \in [Nat -> X] : Unending(g, c, D)
<1> DEFINE Up(N) == CHOOSE g \in [0..N -> X] : Recursion(g, N, c, D)
           G == [n \in Nat |-> Up(n)[n]]
<1>1. \A N \in Nat : Up(N) \in [0..N -> X] /\ Recursion(Up(N), N, c, D)
  BY Recursions
<1> HIDE DEF Up
<1>2. G \in [Nat -> X] /\ G[0] = c
  <2>1. \A n \in Nat : Up(n)[n] \in X
    BY <1>1
  <2>2. Up(0)[0] = c
    BY <1>1 DEF Recursion
  <2> QED
    BY <2>1, <2>2
<1>3. ASSUME NEW n \in Nat PROVE G[n + 1] = D[n][G[n]]
  <2>1. PICK g, h : g = Up(n) /\ h = Up(n + 1)
    OBVIOUS
  <2>2. Recursion(g, n, c, D) /\ Recursion(h, n + 1, c, D)
    BY <1>1, <2>1
  <2>3. h[n + 1] = D[n][h[n]]
    BY <2>2 DEF Recursion
  <2>4. g[0] = h[0] /\ \A m \in 0..(n - 1) : g[m] = h[m] => g[m + 1] = h[m + 1]
    BY <2>2 DEF Recursion
  <2>5. \A m \in 0..n : g[m] = h[m]
    BY <2>4, SameRecursion
  <2> QED
    BY <2>1, <2>3, <2>5
<1>4. Unending(G, c, D)
  BY <1>2, <1>3 DEF Unending
<1> QED
  BY <1>2, <1>4
==============================================================================
