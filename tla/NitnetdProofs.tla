---------------------------- MODULE NitnetdProofs ---------------------------
(***************************************************************************)
(* Proofs about Nitnetd, for any configuration, any limits and any finite  *)
(* set of connections: type correctness, one service process at a time,    *)
(* the meaning of the counters, and where the two servers can be blocked.  *)
(***************************************************************************)
EXTENDS Nitnetd, QueueTheorems

ChildStates == {"none", "running", "exited", "signaled", "forkfailed",
                "reaped", "leaked"}

\* The loop's cursor: between accept and the end of waitpid, cur is the
\* connection of service i, and no other connection has a process that has
\* not been waited for.
CursorInv ==
  /\ pc \in {"fork", "waitpid"} =>
       cur \in Conns /\ i \in Services /\ svc[cur] = i
  /\ pc = "fork" => child[cur] = "none"
  /\ pc = "waitpid" => child[cur] \in {"running", "exited", "signaled"}
  /\ pc # "dead" => \A c \in Conns :
       child[c] \in {"running", "exited", "signaled"} => pc = "waitpid" /\ c = cur
  /\ \A c \in Conns :
       child[c] \in {"running", "exited", "signaled"} => c = cur

\* A queued connection is for the service it waits on, waits once, and has
\* no process; a connection that has not connected is for no service.
WaitingInv(k) ==
  /\ \A n \in 1..Len(queue[k]) :
       /\ queue[k][n] \in Conns
       /\ svc[queue[k][n]] = k /\ child[queue[k][n]] = "none"
       /\ pc = "fork" => queue[k][n] # cur
  /\ \A n, m \in 1..Len(queue[k]) : queue[k][m] = queue[k][n] => m = n

QueueInv ==
  /\ \A c \in Conns : conn[c] = "new" => svc[c] = 0
  /\ \A c \in Conns : svc[c] = 0 => child[c] = "none"
  /\ \A k \in Services : WaitingInv(k)

\* N2 calls recv_fd only when Nitnetd has sent something.
N2Inv == n2 = "recv" /\ 0 \in n2rdy => toN2 # <<>>

Inv == TypeOK /\ CursorInv /\ QueueInv /\ N2Inv /\ CountIsFreeSlots

-----------------------------------------------------------------------------
\* Every service uses one of the two counters.
LEMMA SemOfType == \A k : SemOf(k) \in 1..2
BY DEF SemOf

\* Every set of connections that hold a slot is finite.
LEMMA HoldingFinite ==
  \A k \in 1..2 : IsFiniteSet(Holding(k)) /\ Cardinality(Holding(k)) \in Nat
<1> TAKE k \in 1..2
<1>1. Holding(k) \in SUBSET Conns
  BY DEF Holding
<1> QED
  BY <1>1, FS_Subset, FS_CardinalityType, NitnetdAssumption

\* The initial state has the types of the type invariant.
LEMMA InitType == Init => TypeOK
BY NitnetdAssumption DEF Init, TypeOK, Services

\* Every step preserves the type invariant.
LEMMA TypeStep == TypeOK /\ N2Inv /\ [Next]_vars => TypeOK'
<1> SUFFICES ASSUME TypeOK, N2Inv, [Next]_vars PROVE TypeOK'
  OBVIOUS
<1> USE NitnetdAssumption, SemOfType DEF TypeOK, Services
<1>1. CASE Select
  <2>1. pc' = "scan" /\ i' = 1 /\ readset' \subseteq readset
    BY <1>1 DEF Select, Ready
  <2>2. UNCHANGED <<cur, count, used, top, queue, child, toN2, rfd, n2, n2rdy, conn, svc>>
    BY <1>1 DEF Select, n2Vars, cliVars
  <2> QED
    BY <2>1, <2>2
<1>2. CASE Skip
  BY <1>2 DEF Skip, PutBack, n2Vars, cliVars
<1>3. CASE ScanDone
  BY <1>3 DEF ScanDone, n2Vars, cliVars
<1>4. CASE Accept
  <2>1. i \in Services /\ queue[i] \in Seq(Conns) /\ queue[i] # <<>>
    BY <1>4 DEF Accept
  <2>2. Head(queue[i]) \in Conns /\ Tail(queue[i]) \in Seq(Conns)
    BY <2>1
  <2>3. queue' \in [Services -> Seq(Conns)] /\ cur' \in Conns
    BY <1>4, <2>2 DEF Accept
  <2>4. count' \in [1..2 -> Int]
    BY <1>4, SMTT(30) DEF Accept, semaphore_wait
  <2>5. toN2' \in Seq(Conns) /\ pc' \in {"fork", "dead"}
    <3>1. CASE toN2' = Append(toN2, cur') /\ pc' = "fork"
      BY <2>3, <3>1
    <3>2. CASE toN2' = toN2 /\ pc' \in {"fork", "dead"}
      BY <3>2
    <3> QED
      BY <1>4, <3>1, <3>2 DEF Accept
  <2> QED
    BY <1>4, <2>3, <2>4, <2>5 DEF Accept, cliVars
<1>5. CASE Fork
  <2>1. child' \in [Conns -> ChildStates]
    BY <1>5 DEF Fork, ChildStates
  <2>2. pc' \in {"waitpid", "scan"} /\ i' \in Nat \ {0}
    BY <1>5 DEF Fork
  <2>3. conn' \in [Conns -> {"new", "open", "asked", "done", "lost", "closed",
                            "reset", "refused"}]
    BY <1>5 DEF Fork
  <2> QED
    BY <1>5, <2>1, <2>2, <2>3 DEF Fork, ChildStates, n2Vars
<1>6. CASE Waitpid
  <2>1. count' \in [1..2 -> Int]
    BY <1>6 DEF Waitpid, semaphore_release, Released
  <2>2. child' \in [Conns -> ChildStates]
    BY <1>6 DEF Waitpid, ChildStates
  <2> QED
    BY <1>6, <2>1, <2>2 DEF Waitpid, ChildStates, n2Vars, cliVars
<1>7. CASE ServeUdp
  <2>1. i \in Services /\ queue[i] \in Seq(Conns) /\ queue[i] # <<>>
    BY <1>7 DEF ServeUdp
  <2>2. queue' \in [Services -> Seq(Conns)]
    BY <1>7, <2>1 DEF ServeUdp
  <2>3. conn' \in [Conns -> {"new", "open", "asked", "done", "lost", "closed",
                            "reset", "refused"}]
    BY <1>7 DEF ServeUdp
  <2>4. i' \in Nat \ {0}
        /\ UNCHANGED <<pc, cur, count, used, top, readset, child, n2Vars, svc>>
    BY <1>7 DEF ServeUdp
  <2> QED
    BY <2>2, <2>3, <2>4 DEF n2Vars
<1>8. CASE Reload
  <2>1. used' \in 0..NServices /\ top' \in 0..used' /\ readset' \subseteq 1..used'
    <3>1. CASE /\ used' = used + 1 /\ readset' = readset \cup {used + 1}
               /\ top' = top \/ top' = used + 1
      BY <1>8, <3>1 DEF Reload
    <3>2. CASE UNCHANGED <<used, top, readset>>
      BY <3>2
    <3> QED
      BY <1>8, <3>1, <3>2 DEF Reload
  <2>2. pc' = pc \/ pc' = "dead"
    BY <1>8 DEF Reload
  <2> QED
    BY <1>8, <2>1, <2>2 DEF Reload, n2Vars, cliVars
<1>9. CASE N2Select \/ N2PassDone
  <2>1. n2' \in {"recv", "select"} /\ n2rdy' \subseteq Nat
    <3>1. ReadyConns \subseteq Nat
      BY DEF ReadyConns
    <3>2. CASE N2Select
      <4>1. (IF toN2 # <<>> THEN {0} ELSE {}) \subseteq Nat
        OBVIOUS
      <4>2. n2rdy' = ReadyConns \cup (IF toN2 # <<>> THEN {0} ELSE {}) /\ n2' = "recv"
        BY <3>2 DEF N2Select
      <4> QED
        BY <3>1, <4>1, <4>2
    <3>3. CASE N2PassDone
      BY <3>3 DEF N2PassDone
    <3> QED
      BY <1>9, <3>2, <3>3
  <2>2. UNCHANGED <<srvVars, queue, child, toN2, rfd, cliVars>>
    BY <1>9 DEF N2Select, N2PassDone
  <2> QED
    BY <2>1, <2>2 DEF srvVars, cliVars
<1>10. CASE N2Recv \/ N2Serve
  <2>1. CASE N2Recv
    <3>1. rfd' \in Seq(Conns) /\ toN2' \in Seq(Conns)
      <4>1. CASE /\ toN2 # <<>> /\ rfd' = Append(rfd, Head(toN2))
                 /\ toN2' = Tail(toN2)
        <5>1. Head(toN2) \in Conns /\ Tail(toN2) \in Seq(Conns)
          BY <4>1
        <5> QED
          BY <4>1, <5>1
      <4>2. CASE UNCHANGED <<rfd, toN2>>
        BY <4>2
      <4> QED
        BY <2>1, <4>1, <4>2 DEF N2Recv, N2Inv
    <3> QED
      BY <2>1, <3>1 DEF N2Recv, srvVars, cliVars
  <2>2. CASE N2Serve
    BY <2>2 DEF N2Serve, srvVars
  <2> QED
    BY <1>10, <2>1, <2>2
<1>11. ASSUME NEW c \in Conns, ChildServe(c) \/ ChildEof(c) \/ ChildCrash(c)
       PROVE TypeOK'
  BY <1>11 DEF ChildServe, ChildEof, ChildCrash, srvVars, n2Vars, cliVars
<1>12. ASSUME NEW c \in Conns, NEW k \in Services, Connect(c, k) PROVE TypeOK'
  <2>1. Append(queue[k], c) \in Seq(Conns)
    OBVIOUS
  <2>2. queue' \in [Services -> Seq(Conns)] /\ svc' \in [Conns -> 0..NServices]
    <3>1. CASE /\ queue' = [queue EXCEPT ![k] = Append(@, c)]
              /\ svc' = [svc EXCEPT ![c] = k]
      BY <2>1, <3>1
    <3>2. CASE UNCHANGED <<queue, svc>>
      BY <3>2
    <3> QED
      BY <1>12, <3>1, <3>2 DEF Connect
  <2>3. conn' \in [Conns -> {"new", "open", "asked", "done", "lost", "closed",
                            "reset", "refused"}]
    BY <1>12 DEF Connect
  <2> QED
    BY <1>12, <2>2, <2>3 DEF Connect, srvVars, n2Vars
<1>13. ASSUME NEW c \in Conns, Ask(c) \/ Close(c) PROVE TypeOK'
  BY <1>13 DEF Ask, Close, srvVars, n2Vars
<1>14. CASE UNCHANGED vars
  BY <1>14 DEF vars, srvVars, n2Vars, cliVars
<1> QED
  BY <1>1, <1>2, <1>3, <1>4, <1>5, <1>6, <1>7, <1>8, <1>9, <1>10, <1>11,
     <1>12, <1>13, <1>14
     DEF Next, ServerLoop, N2Step, ChildStep, ClientStep
-----------------------------------------------------------------------------
\* Every step keeps what N2's select saw on its Unix socket there.
LEMMA RecvStep == TypeOK /\ N2Inv /\ [Next]_vars => N2Inv'
<1> SUFFICES ASSUME TypeOK, N2Inv, [Next]_vars PROVE N2Inv'
  OBVIOUS
<1>1. CASE N2Step
  BY <1>1 DEF N2Inv, N2Step, N2Select, N2Recv, N2Serve, N2PassDone, ReadyConns
<1>2. CASE Accept
  <2>1. CASE toN2' = Append(toN2, cur')
    BY <2>1 DEF TypeOK, N2Inv
  <2>2. CASE toN2' = toN2
    BY <1>2, <2>2 DEF Accept, N2Inv
  <2> QED
    BY <1>2, <2>1, <2>2 DEF Accept
<1>3. ASSUME UNCHANGED n2Vars PROVE N2Inv'
  BY <1>3 DEF N2Inv, n2Vars
<1> QED
  BY <1>1, <1>2, <1>3
     DEF Next, ServerLoop, Select, Skip, ScanDone, Fork, Waitpid, ServeUdp, Reload,
         ChildStep, ChildServe, ChildEof, ChildCrash, ClientStep, Ask, Close, Connect,
         vars
-----------------------------------------------------------------------------
\* Every step keeps the cursor on the one connection being served.
LEMMA CursorStep == Inv /\ [Next]_vars => CursorInv'
<1> SUFFICES ASSUME Inv, [Next]_vars PROVE CursorInv'
  OBVIOUS
<1> USE NitnetdAssumption DEF Inv, TypeOK, CursorInv, Services
<1>1. CASE Select
  <2>1. pc = "select" /\ pc' = "scan" /\ UNCHANGED <<cur, child, svc>>
    BY <1>1 DEF Select, cliVars
  <2> QED
    BY <2>1
<1>2. CASE Skip \/ ScanDone \/ ServeUdp
  <2>1. pc = "scan" /\ pc' \in {"scan", "select"} /\ UNCHANGED <<cur, child, svc>>
    BY <1>2 DEF Skip, ScanDone, ServeUdp, cliVars
  <2> QED
    BY <2>1
<1>3. CASE Accept
  <2>1. i \in Services /\ queue[i] \in Seq(Conns) /\ queue[i] # <<>> /\ pc = "scan"
    BY <1>3 DEF Accept
  <2>2. cur' = queue[i][1] /\ 1 \in 1..Len(queue[i]) /\ cur' \in Conns
    BY <1>3, <2>1 DEF Accept
  <2>3. svc[cur'] = i /\ child[cur'] = "none"
    BY <2>1, <2>2 DEF QueueInv, WaitingInv
  <2>4. pc' \in {"fork", "dead"} /\ UNCHANGED <<i, child, svc>>
    BY <1>3 DEF Accept, cliVars
  <2> QED
    BY <2>1, <2>2, <2>3, <2>4
<1>4. CASE Fork
  <2>1. pc = "fork" /\ UNCHANGED <<cur, svc>>
    BY <1>4 DEF Fork
  <2>2. CASE /\ \/ child' = [child EXCEPT ![cur] = "running"]
                \/ child' = [child EXCEPT ![cur] = "exited"]
             /\ pc' = "waitpid" /\ i' = i
    BY <2>1, <2>2
  <2>3. CASE child' = [child EXCEPT ![cur] = "forkfailed"] /\ pc' = "scan"
    BY <2>1, <2>3
  <2> QED
    BY <1>4, <2>2, <2>3 DEF Fork
<1>5. CASE Waitpid
  <2>1. pc = "waitpid" /\ pc' = "scan" /\ UNCHANGED <<cur, svc>>
    BY <1>5 DEF Waitpid, cliVars
  <2>2. child'[cur] \in {"reaped", "leaked"}
    BY <1>5, <2>1 DEF Waitpid
  <2>3. \A c \in Conns : c # cur => child'[c] = child[c]
    BY <1>5 DEF Waitpid
  <2> QED
    BY <2>1, <2>2, <2>3
<1>6. CASE Reload
  <2>1. (pc' = pc \/ pc' = "dead") /\ UNCHANGED <<i, cur, child, svc>>
    BY <1>6 DEF Reload, cliVars
  <2> QED
    BY <2>1
<1>7. CASE N2Step
  BY <1>7 DEF N2Step, N2Select, N2Recv, N2Serve, N2PassDone, srvVars, cliVars
<1>8. ASSUME NEW c \in Conns, ChildStep(c) PROVE CursorInv'
  <2>1. child[c] = "running" /\ UNCHANGED <<pc, i, cur, svc>>
    BY <1>8 DEF ChildStep, ChildServe, ChildEof, ChildCrash, srvVars, cliVars
  <2>2. \/ child' = [child EXCEPT ![c] = "exited"]
        \/ child' = [child EXCEPT ![c] = "signaled"]
    BY <1>8 DEF ChildStep, ChildServe, ChildEof, ChildCrash
  <2> QED
    BY <2>1, <2>2
<1>9. ASSUME NEW c \in Conns, ClientStep(c) PROVE CursorInv'
  <2>1. UNCHANGED <<pc, i, cur, child>>
    BY <1>9 DEF ClientStep, Ask, Close, Connect, srvVars
  <2>2. \A d \in Conns : svc[d] # 0 => svc'[d] = svc[d]
    BY <1>9 DEF ClientStep, Ask, Close, Connect, QueueInv
  <2> QED
    BY <2>1, <2>2
<1>10. CASE UNCHANGED vars
  BY <1>10 DEF vars, srvVars, cliVars
<1> QED
  BY <1>1, <1>2, <1>3, <1>4, <1>5, <1>6, <1>7, <1>8, <1>9, <1>10
     DEF Next, ServerLoop
-----------------------------------------------------------------------------
\* A connection that waits stays as WaitingInv says when it stays where it
\* is, or when the connection in front of it is taken.
LEMMA WaitingKept ==
  ASSUME NEW k, WaitingInv(k), queue[k] \in Seq(Conns),
         queue'[k] = queue[k] \/ (queue[k] # <<>> /\ queue'[k] = Tail(queue[k])),
         \A n \in 1..Len(queue'[k]) :
           LET c == queue'[k][n] IN
           /\ svc'[c] = svc[c] /\ child'[c] = child[c]
           /\ pc' = "fork" => c # cur'
  PROVE  WaitingInv(k)'
<1>1. CASE queue'[k] = queue[k]
  BY <1>1 DEF WaitingInv
<1>2. CASE queue[k] # <<>> /\ queue'[k] = Tail(queue[k])
  <2>1. /\ Len(queue'[k]) = Len(queue[k]) - 1 /\ Len(queue[k]) \in Nat
        /\ \A n \in 1..Len(queue'[k]) :
             n + 1 \in 1..Len(queue[k]) /\ queue'[k][n] = queue[k][n + 1]
    BY <1>2
  <2>2. \A n \in 1..Len(queue'[k]) :
          /\ queue'[k][n] \in Conns
          /\ svc'[queue'[k][n]] = k /\ child'[queue'[k][n]] = "none"
          /\ pc' = "fork" => queue'[k][n] # cur'
    BY <2>1 DEF WaitingInv
  <2>3. \A n, m \in 1..Len(queue'[k]) : queue'[k][m] = queue'[k][n] => m = n
    <3> TAKE n, m \in 1..Len(queue'[k])
    <3> HAVE queue'[k][m] = queue'[k][n]
    <3>1. m + 1 = n + 1
      BY <2>1 DEF WaitingInv
    <3> QED
      BY <2>1, <3>1
  <2> QED
    BY <2>2, <2>3 DEF WaitingInv
<1> QED
  BY <1>1, <1>2

\* The queues of the listening sockets stay as QueueInv says.
LEMMA QueueStep == Inv /\ [Next]_vars => QueueInv'
<1> SUFFICES ASSUME Inv, [Next]_vars PROVE QueueInv'
  OBVIOUS
<1>a. /\ \A c \in Conns : conn[c] = "new" => svc[c] = 0
      /\ \A c \in Conns : svc[c] = 0 => child[c] = "none"
      /\ \A k \in Services : WaitingInv(k) /\ queue[k] \in Seq(Conns)
      /\ queue \in [Services -> Seq(Conns)] /\ child \in [Conns -> ChildStates]
      /\ svc \in [Conns -> 0..NServices] /\ DOMAIN conn = Conns
      /\ used \in 0..NServices /\ i \in Nat \ {0} /\ NServices \in Nat
  BY NitnetdAssumption DEF Inv, QueueInv, TypeOK, ChildStates
<1>b. \A k \in Services : \A n \in 1..Len(queue[k]) :
        LET c == queue[k][n] IN
        c \in Conns /\ svc[c] = k /\ child[c] = "none" /\ (pc = "fork" => c # cur)
  BY <1>a DEF WaitingInv
\* A step that takes no connection from a queue and adds none.
<1>c. ASSUME queue' = queue, pc' = "fork" => pc = "fork" /\ cur' = cur,
             \A c \in Conns : svc'[c] = svc[c] /\ (conn'[c] = "new" => conn[c] = "new"),
             \A c \in Conns : child[c] = "none" /\ ~(pc = "fork" /\ c = cur) =>
                                child'[c] = "none",
             pc = "fork" /\ child' # child => svc[cur] # 0
      PROVE  QueueInv'
  <2>1. \A k \in Services : WaitingInv(k)'
    BY <1>a, <1>b, <1>c, WaitingKept
  <2>2. \A c \in Conns : svc'[c] = 0 => child'[c] = "none"
    BY <1>a, <1>c
  <2> QED
    BY <1>a, <1>c, <2>1, <2>2 DEF QueueInv
<1>1. CASE Select \/ Skip \/ ScanDone \/ Reload \/ UNCHANGED vars
  <2>1. queue' = queue /\ child' = child /\ conn' = conn /\ svc' = svc
    BY <1>1 DEF Select, Skip, ScanDone, Reload, vars, cliVars
  <2>2. pc' = "fork" => pc = "fork" /\ cur' = cur
    BY <1>1 DEF Select, Skip, ScanDone, Reload, vars, srvVars
  <2> QED
    BY <1>c, <2>1, <2>2
<1>2. CASE Accept
  <2>1. /\ i \in Services /\ queue[i] # <<>> /\ cur' = Head(queue[i])
        /\ queue' = [queue EXCEPT ![i] = Tail(queue[i])]
        /\ UNCHANGED <<child, conn, svc>>
    BY <1>2, <1>a DEF Accept, cliVars, Services
  <2>2. cur' = queue[i][1] /\ 1 \in 1..Len(queue[i])
    BY <1>a, <2>1
  <2>3. \A k \in Services : \A n \in 1..Len(queue'[k]) : queue'[k][n] # cur'
    <3> TAKE k \in Services
    <3> TAKE n \in 1..Len(queue'[k])
    <3>1. CASE k = i
      <4>1. n + 1 \in 1..Len(queue[i]) /\ queue'[k][n] = queue[i][n + 1] /\ n + 1 # 1
        BY <1>a, <2>1, <3>1
      <4> QED
        BY <1>a, <2>1, <2>2, <4>1 DEF WaitingInv
    <3>2. CASE k # i
      <4>1. queue'[k] = queue[k]
        BY <1>a, <2>1, <3>2
      <4>2. svc[queue'[k][n]] = k /\ svc[cur'] = i
        BY <1>b, <2>1, <2>2, <4>1
      <4> QED
        BY <3>2, <4>2
    <3> QED
      BY <3>1, <3>2
  <2>4. \A k \in Services : queue'[k] = queue[k] \/
                            (queue[k] # <<>> /\ queue'[k] = Tail(queue[k]))
    BY <1>a, <2>1
  <2>5. \A k \in Services : WaitingInv(k)'
    BY <1>a, <2>1, <2>3, <2>4, WaitingKept
  <2> QED
    BY <1>a, <2>1, <2>5 DEF QueueInv
<1>3. CASE Fork
  <2>1. /\ pc = "fork" /\ pc' # "fork" /\ svc[cur] # 0
        /\ queue' = queue /\ svc' = svc
    BY <1>3, <1>a DEF Fork, Inv, CursorInv, Services
  <2>2. \A c \in Conns : c # cur => child'[c] = child[c]
    BY <1>3, <1>a DEF Fork
  <2>3. \A c \in Conns : conn'[c] = "new" => conn[c] = "new"
    BY <1>3, <1>a DEF Fork
  <2> QED
    BY <1>c, <2>1, <2>2, <2>3
<1>4. CASE Waitpid
  <2>1. /\ pc = "waitpid" /\ pc' = "scan" /\ child[cur] # "none"
        /\ queue' = queue /\ conn' = conn /\ svc' = svc
    BY <1>4 DEF Waitpid, Inv, CursorInv, cliVars
  <2>2. \A c \in Conns : c # cur => child'[c] = child[c]
    BY <1>4, <1>a DEF Waitpid
  <2> QED
    BY <1>c, <2>1, <2>2
<1>5. CASE ServeUdp
  <2>1. /\ i \in Services /\ queue[i] # <<>> /\ pc' = "scan"
        /\ queue' = [queue EXCEPT ![i] = Tail(queue[i])]
        /\ child' = child /\ svc' = svc
    BY <1>5, <1>a DEF ServeUdp, Services
  <2>2. \A c \in Conns : conn'[c] = "new" => conn[c] = "new"
    BY <1>5, <1>a DEF ServeUdp
  <2>3. \A k \in Services : queue'[k] = queue[k] \/
                            (queue[k] # <<>> /\ queue'[k] = Tail(queue[k]))
    BY <1>a, <2>1
  <2>4. \A k \in Services : WaitingInv(k)'
    BY <1>a, <2>1, <2>3, WaitingKept
  <2> QED
    BY <1>a, <2>1, <2>2, <2>4 DEF QueueInv
<1>6. CASE N2Step
  <2>1. pc' = pc /\ cur' = cur /\ queue' = queue /\ child' = child /\ svc' = svc
    BY <1>6 DEF N2Step, N2Select, N2Recv, N2Serve, N2PassDone, srvVars, cliVars
  <2>2. \A c \in Conns : conn'[c] = "new" => conn[c] = "new"
    BY <1>6, <1>a DEF N2Step, N2Select, N2Recv, N2Serve, N2PassDone, cliVars
  <2> QED
    BY <1>c, <2>1, <2>2
<1>7. ASSUME NEW c \in Conns, ChildStep(c) PROVE QueueInv'
  <2>1. /\ child[c] = "running" /\ pc' = pc /\ cur' = cur
        /\ queue' = queue /\ svc' = svc
    BY <1>7 DEF ChildStep, ChildServe, ChildEof, ChildCrash, srvVars, cliVars
  <2>2. \A d \in Conns : d # c => child'[d] = child[d]
    BY <1>7, <1>a DEF ChildStep, ChildServe, ChildEof, ChildCrash
  <2>3. \A d \in Conns : conn'[d] = "new" => conn[d] = "new"
    BY <1>7, <1>a DEF ChildStep, ChildServe, ChildEof, ChildCrash, cliVars
  <2>4. pc # "fork"
    BY <2>1 DEF Inv, CursorInv
  <2> QED
    BY <1>c, <2>1, <2>2, <2>3, <2>4
<1>8. ASSUME NEW c \in Conns, Ask(c) \/ Close(c) PROVE QueueInv'
  <2>1. pc' = pc /\ cur' = cur /\ queue' = queue /\ child' = child /\ svc' = svc
    BY <1>8 DEF Ask, Close, srvVars
  <2>2. \A d \in Conns : conn'[d] = "new" => conn[d] = "new"
    BY <1>8, <1>a DEF Ask, Close
  <2> QED
    BY <1>c, <2>1, <2>2
<1>9. ASSUME NEW c \in Conns, NEW k \in Services, Connect(c, k) PROVE QueueInv'
  <2>1. /\ conn[c] = "new" /\ svc[c] = 0 /\ child[c] = "none"
        /\ pc' = pc /\ cur' = cur /\ child' = child
    BY <1>9, <1>a DEF Connect, srvVars
  <2>2. CASE queue' = queue /\ svc' = svc
    <3>1. \A d \in Conns : conn'[d] = "new" => conn[d] = "new"
      BY <1>9, <1>a, <2>2 DEF Connect
    <3> QED
      BY <1>c, <2>1, <2>2, <3>1
  <2>3. CASE /\ queue' = [queue EXCEPT ![k] = Append(queue[k], c)]
             /\ svc' = [svc EXCEPT ![c] = k]
             /\ conn' = [conn EXCEPT ![c] = IF k \in Udp THEN "asked" ELSE "open"]
    <3>1. \A l \in Services : \A n \in 1..Len(queue[l]) :
            queue[l][n] \in Conns /\ queue[l][n] # c /\ svc'[queue[l][n]] = svc[queue[l][n]]
      BY <1>a, <1>b, <2>1, <2>3 DEF Services
    <3>2. \A l \in Services : l # k => WaitingInv(l)'
      <4> TAKE l \in Services
      <4> HAVE l # k
      <4>1. queue'[l] = queue[l]
        BY <1>a, <2>3
      <4> QED
        BY <1>a, <1>b, <2>1, <3>1, <4>1 DEF WaitingInv
    <3>3. WaitingInv(k)'
      <4>1. /\ Len(queue'[k]) = Len(queue[k]) + 1 /\ Len(queue[k]) \in Nat
            /\ \A n \in 1..Len(queue[k]) : queue'[k][n] = queue[k][n]
            /\ queue'[k][Len(queue[k]) + 1] = c
        BY <1>a, <2>3
      <4>2. pc = "fork" => cur # c
        BY <2>1 DEF Inv, CursorInv, Services
      <4>3. svc'[c] = k
        BY <1>a, <2>3
      <4>4. \A n \in 1..Len(queue'[k]) :
              n \in 1..Len(queue[k]) \/ n = Len(queue[k]) + 1
        BY <4>1
      <4>5. \A n \in 1..Len(queue'[k]) :
              /\ queue'[k][n] \in Conns
              /\ svc'[queue'[k][n]] = k /\ child'[queue'[k][n]] = "none"
              /\ pc' = "fork" => queue'[k][n] # cur'
        BY <1>b, <2>1, <3>1, <4>1, <4>2, <4>3, <4>4
      <4>6. \A n, m \in 1..Len(queue'[k]) : queue'[k][m] = queue'[k][n] => m = n
        BY <1>a, <3>1, <4>1, <4>4, SMTT(30) DEF WaitingInv
      <4> QED
        BY <4>5, <4>6 DEF WaitingInv
    <3>4. \A d \in Conns : conn'[d] = "new" => svc'[d] = 0
      BY <1>a, <2>3
    <3>5. \A d \in Conns : svc'[d] = 0 => child'[d] = "none"
      BY <1>a, <2>1, <2>3
    <3> QED
      BY <3>2, <3>3, <3>4, <3>5 DEF QueueInv
  <2> QED
    BY <1>9, <2>2, <2>3 DEF Connect
<1> QED
  BY <1>1, <1>2, <1>3, <1>4, <1>5, <1>6, <1>7, <1>8, <1>9
     DEF Next, ServerLoop, ClientStep
-----------------------------------------------------------------------------
\* The states of a process that hold a slot.
HoldStates == {"running", "exited", "signaled", "forkfailed", "leaked"}

\* Initially no slot is held.
LEMMA InitInv == Init => Inv
<1> SUFFICES ASSUME Init PROVE Inv
  OBVIOUS
<1>1. TypeOK
  BY InitType
<1>2. CursorInv
  BY DEF Init, CursorInv
<1>3. QueueInv
  BY DEF Init, QueueInv, WaitingInv, Services
<1>4. N2Inv /\ \A k \in 1..2 : Holding(k) = {}
  BY DEF Init, Holding, N2Inv
<1>5. CountIsFreeSlots
  <2>1. \A k \in 1..2 : Cardinality(Holding(k)) = 0
    BY <1>4, FS_EmptySet
  <2>2. pc = "select" /\ count = Limit
    BY DEF Init
  <2> QED
    BY <2>1, <2>2, NitnetdAssumption DEF CountIsFreeSlots
<1> QED
  BY <1>1, <1>2, <1>3, <1>4, <1>5 DEF Inv

\* Every step keeps the counters what CountIsFreeSlots says.
LEMMA CountStep == Inv /\ [Next]_vars => CountIsFreeSlots'
<1> SUFFICES ASSUME Inv, [Next]_vars PROVE CountIsFreeSlots'
  OBVIOUS
<1>a. /\ count \in [1..2 -> Int] /\ Limit \in [1..2 -> Nat]
      /\ child \in [Conns -> ChildStates] /\ svc \in [Conns -> 0..NServices]
      /\ i \in Nat \ {0}
  BY NitnetdAssumption DEF Inv, TypeOK, ChildStates
<1>b. pc # "dead" => \A k \in 1..2 :
        count[k] = Limit[k] - Cardinality(Holding(k))
                     - (IF pc = "fork" /\ SemOf(i) = k THEN 1 ELSE 0)
  BY DEF Inv, CountIsFreeSlots
<1>h. \A k \in 1..2, c \in Conns :
        c \in Holding(k) <=> child[c] \in HoldStates /\ SemOf(svc[c]) = k
  BY DEF Holding, HoldStates
<1>hp. \A k \in 1..2, c \in Conns :
        c \in Holding(k)' <=> child'[c] \in HoldStates /\ SemOf(svc'[c]) = k
  BY DEF Holding, HoldStates
<1>s. \A k \in 1..2 : Holding(k) \subseteq Conns /\ Holding(k)' \subseteq Conns
  BY DEF Holding
\* A step in which nobody takes or gives back a slot.
<1>c. ASSUME \A k \in 1..2 : Holding(k)' = Holding(k), count' = count,
             pc' # "dead" => pc # "dead" /\ (pc' = "fork" <=> pc = "fork"),
             pc' = "fork" => i' = i
      PROVE  CountIsFreeSlots'
  BY <1>b, <1>c DEF CountIsFreeSlots
\* A step that leaves every process holding or not holding as it was.
<1>d. ASSUME \A c \in Conns : child[c] \in HoldStates \/ child'[c] \in HoldStates =>
               svc'[c] = svc[c] /\ child[c] \in HoldStates /\ child'[c] \in HoldStates
      PROVE  \A k \in 1..2 : Holding(k)' = Holding(k)
  <2> TAKE k \in 1..2
  <2>1. \A c \in Conns : c \in Holding(k)' <=> c \in Holding(k)
    BY <1>d, <1>h, <1>hp
  <2> QED
    BY <2>1, <1>s
<1>1. CASE Select \/ Skip \/ ScanDone \/ ServeUdp \/ Reload \/ UNCHANGED vars
  <2>1. child' = child /\ svc' = svc /\ count' = count
    BY <1>1 DEF Select, Skip, ScanDone, ServeUdp, Reload, vars, srvVars, cliVars
  <2>2. /\ pc' # "dead" => pc # "dead" /\ (pc' = "fork" <=> pc = "fork")
        /\ pc' = "fork" => i' = i
    BY <1>1 DEF Select, Skip, ScanDone, ServeUdp, Reload, vars, srvVars
  <2> QED
    BY <1>c, <1>d, <2>1, <2>2
<1>2. CASE Accept
  <2>1. pc = "scan" /\ child' = child /\ svc' = svc /\ i' = i
    BY <1>2 DEF Accept, cliVars
  <2>2. pc' # "dead" => pc' = "fork" /\ count' = [count EXCEPT ![SemOf(i)] = @ - 1]
    BY <1>2 DEF Accept, semaphore_wait
  <2>3. \A k \in 1..2 : Holding(k)' = Holding(k)
    BY <1>d, <2>1
  <2> QED
    BY <1>a, <1>b, <2>1, <2>2, <2>3, SemOfType, HoldingFinite DEF CountIsFreeSlots
<1>3. CASE Fork
  <2>0. PICK s \in 1..2 : s = SemOf(i)
    BY SemOfType
  <2>1. /\ pc = "fork" /\ pc' \in {"waitpid", "scan"} /\ count' = count /\ svc' = svc
        /\ cur \in Conns /\ svc[cur] = i /\ child[cur] = "none"
    BY <1>3 DEF Fork, Inv, CursorInv
  <2>2. child'[cur] \in HoldStates /\ \A c \in Conns : c # cur => child'[c] = child[c]
    BY <1>3, <1>a, <2>1 DEF Fork, HoldStates
  <2>3. cur \notin Holding(s) /\ Holding(s)' = Holding(s) \cup {cur}
    <3>1. \A c \in Conns : c \in Holding(s)' <=> c \in Holding(s) \/ c = cur
      BY <1>h, <1>hp, <2>0, <2>1, <2>2
    <3>2. cur \notin Holding(s)
      BY <2>0, <2>1 DEF Holding
    <3> QED
      BY <3>1, <3>2, <1>s, <2>1
  <2>4. \A k \in 1..2 : k # s => Holding(k)' = Holding(k)
    <3> TAKE k \in 1..2
    <3> HAVE k # s
    <3>1. \A c \in Conns : c \in Holding(k)' <=> c \in Holding(k)
      BY <1>h, <1>hp, <2>0, <2>1, <2>2
    <3> QED
      BY <3>1, <1>s
  <2>5. Cardinality(Holding(s) \cup {cur}) = Cardinality(Holding(s)) + 1
    BY <2>3, FS_AddElement, HoldingFinite
  <2>6. count'[s] = Limit[s] - Cardinality(Holding(s)')
    <3>1. count[s] = Limit[s] - Cardinality(Holding(s)) - 1
      BY <1>b, <2>0, <2>1
    <3>2. Cardinality(Holding(s)') = Cardinality(Holding(s)) + 1
      BY <2>3, <2>5
    <3>3. count[s] \in Int /\ Limit[s] \in Nat /\ Cardinality(Holding(s)) \in Nat
      BY <1>a, HoldingFinite
    <3> QED
      BY <3>1, <3>2, <3>3, <2>1
  <2>7. \A k \in 1..2 : k # s => count'[k] = Limit[k] - Cardinality(Holding(k)')
    <3> TAKE k \in 1..2
    <3> HAVE k # s
    <3>1. count[k] = Limit[k] - Cardinality(Holding(k)) - 0
      BY <1>b, <2>0, <2>1
    <3>2. Limit[k] \in Nat /\ Cardinality(Holding(k)) \in Nat
      BY <1>a, HoldingFinite
    <3> QED
      BY <3>1, <3>2, <2>1, <2>4
  <2>8. \A k \in 1..2 : Limit[k] \in Nat /\ Cardinality(Holding(k)') \in Nat
    BY <1>a, HoldingFinite, <2>3, <2>4, <2>5
  <2>9. \A k \in 1..2 : count'[k] = Limit[k] - Cardinality(Holding(k)') - 0
    BY <2>6, <2>7, <2>8
  <2> QED
    BY <2>1, <2>9 DEF CountIsFreeSlots
<1>4. CASE Waitpid
  <2>0. PICK s \in 1..2 : s = SemOf(i)
    BY SemOfType
  <2>1. /\ pc = "waitpid" /\ pc' = "scan" /\ svc' = svc
        /\ cur \in Conns /\ svc[cur] = i /\ child[cur] \in {"exited", "signaled"}
        /\ \A c \in Conns : c # cur => child'[c] = child[c]
    BY <1>4, <1>a DEF Waitpid, Inv, CursorInv, cliVars
  <2>2. CASE child[cur] = "signaled"
    <3>1. count' = count /\ child'[cur] = "leaked"
      BY <1>4, <1>a, <2>1, <2>2 DEF Waitpid
    <3>2. \A k \in 1..2 : Holding(k)' = Holding(k)
      BY <1>d, <2>1, <2>2, <3>1 DEF HoldStates
    <3> QED
      BY <1>c, <2>1, <3>1, <3>2
  <2>3. CASE child[cur] = "exited"
    <3>1. /\ count' = [count EXCEPT ![s] = Released(@, Limit[s])]
          /\ child'[cur] = "reaped"
      BY <1>4, <1>a, <2>0, <2>1, <2>3 DEF Waitpid, semaphore_release
    <3>2. cur \in Holding(s) /\ Holding(s)' = Holding(s) \ {cur}
      <4>1. \A c \in Conns : c \in Holding(s)' <=> c \in Holding(s) /\ c # cur
        BY <1>h, <1>hp, <2>0, <2>1, <3>1 DEF HoldStates
      <4>2. cur \in Holding(s)
        BY <2>0, <2>1, <2>3 DEF Holding
      <4> QED
        BY <4>1, <4>2, <1>s
    <3>3. \A k \in 1..2 : k # s => Holding(k)' = Holding(k)
      <4> TAKE k \in 1..2
      <4> HAVE k # s
      <4>1. \A c \in Conns : c \in Holding(k)' <=> c \in Holding(k)
        BY <1>h, <1>hp, <2>0, <2>1, <3>1 DEF HoldStates
      <4> QED
        BY <4>1, <1>s
    <3>4. /\ Cardinality(Holding(s) \ {cur}) = Cardinality(Holding(s)) - 1
          /\ Cardinality(Holding(s) \ {cur}) \in Nat
      <4>1. IsFiniteSet(Holding(s) \ {cur})
            /\ Cardinality(Holding(s) \ {cur}) = Cardinality(Holding(s)) - 1
        BY <3>2, FS_RemoveElement, HoldingFinite
      <4> QED
        BY <4>1, FS_CardinalityType
    <3>5. count[s] < Limit[s]
      BY <1>a, <1>b, <2>0, <2>1, <3>4, HoldingFinite
    <3>6. count'[s] = count[s] + 1
      BY <1>a, <3>1, <3>5 DEF Released
    <3>7. count'[s] = Limit[s] - Cardinality(Holding(s)')
      <4>1. count[s] = Limit[s] - Cardinality(Holding(s)) - 0
        BY <1>b, <2>0, <2>1
      <4>2. count[s] \in Int /\ Limit[s] \in Nat /\ Cardinality(Holding(s)) \in Nat
        BY <1>a, HoldingFinite
      <4> QED
        BY <4>1, <4>2, <3>2, <3>4, <3>6
    <3>8. \A k \in 1..2 : k # s => count'[k] = Limit[k] - Cardinality(Holding(k)')
      <4> TAKE k \in 1..2
      <4> HAVE k # s
      <4>1. count[k] = Limit[k] - Cardinality(Holding(k)) - 0 /\ count'[k] = count[k]
        BY <1>a, <1>b, <2>0, <2>1, <3>1
      <4>2. Limit[k] \in Nat /\ Cardinality(Holding(k)) \in Nat
        BY <1>a, HoldingFinite
      <4> QED
        BY <4>1, <4>2, <3>3
    <3>9. \A k \in 1..2 : Limit[k] \in Nat /\ Cardinality(Holding(k)') \in Nat
      BY <1>a, HoldingFinite, <3>2, <3>3, <3>4
    <3>10. \A k \in 1..2 : count'[k] = Limit[k] - Cardinality(Holding(k)') - 0
      BY <3>7, <3>8, <3>9
    <3> QED
      BY <2>1, <3>10 DEF CountIsFreeSlots
  <2> QED
    BY <2>1, <2>2, <2>3
<1>5. CASE N2Step
  <2>1. UNCHANGED <<pc, i, count, child, svc>>
    BY <1>5 DEF N2Step, N2Select, N2Recv, N2Serve, N2PassDone, srvVars, cliVars
  <2> QED
    BY <1>c, <1>d, <2>1
<1>6. ASSUME NEW c \in Conns, ChildStep(c) PROVE CountIsFreeSlots'
  <2>1. UNCHANGED <<pc, i, count, svc>> /\ child[c] = "running"
    BY <1>6 DEF ChildStep, ChildServe, ChildEof, ChildCrash, srvVars, cliVars
  <2>2. /\ child'[c] \in {"exited", "signaled"}
        /\ \A d \in Conns : d # c => child'[d] = child[d]
    BY <1>6, <1>a DEF ChildStep, ChildServe, ChildEof, ChildCrash
  <2>3. \A k \in 1..2 : Holding(k)' = Holding(k)
    BY <1>d, <2>1, <2>2 DEF HoldStates
  <2> QED
    BY <1>c, <2>1, <2>3
<1>7. ASSUME NEW c \in Conns, ClientStep(c) PROVE CountIsFreeSlots'
  <2>1. UNCHANGED <<pc, i, count, child>>
    BY <1>7 DEF ClientStep, Ask, Close, Connect, srvVars
  <2>2. \A d \in Conns : svc[d] # 0 => svc'[d] = svc[d]
    BY <1>7, <1>a DEF ClientStep, Ask, Close, Connect, Inv, QueueInv
  <2>3. \A d \in Conns : child[d] \in HoldStates => svc[d] # 0
    BY DEF Inv, QueueInv, HoldStates
  <2>4. \A k \in 1..2 : Holding(k)' = Holding(k)
    BY <1>d, <2>1, <2>2, <2>3
  <2> QED
    BY <1>c, <2>1, <2>4
<1> QED
  BY <1>1, <1>2, <1>3, <1>4, <1>5, <1>6, <1>7 DEF Next, ServerLoop
-----------------------------------------------------------------------------
\* Inv is an inductive invariant of the specification.
LEMMA Invariance == Spec => []Inv
<1>1. Inv /\ [Next]_vars => Inv'
  BY TypeStep, RecvStep, CursorStep, QueueStep, CountStep DEF Inv
<1> QED
  BY InitInv, <1>1, PTL DEF Spec

\* Nitnetd keeps every variable within its type: its loop index never leaves
\* the configured services when it accepts (nitnetd.c:262-266), and the
\* connections it hands to N2 and to the service processes are real ones.
THEOREM TypeCorrect == Spec => []TypeOK
<1>1. Inv => TypeOK
  BY DEF Inv
<1> QED
  BY Invariance, <1>1, PTL

\* The counters of nitnetd.c:47-71 count what they are meant to: the limit
\* less the connections that hold a slot, for every configuration, every
\* limit, and whatever happens to the processes meanwhile.
THEOREM CountersCorrect == Spec => []CountIsFreeSlots
<1>1. Inv => CountIsFreeSlots
  BY DEF Inv
<1> QED
  BY Invariance, <1>1, PTL

\* Nitnetd never has two service processes at a time (nitnetd.c:292-312): the
\* limits of the README can never be reached by processes that run.
THEOREM SerialService == Spec => []OneProcessAtATime
<1>1. Inv => OneProcessAtATime
  <2> SUFFICES ASSUME Inv PROVE OneProcessAtATime
    OBVIOUS
  <2>1. Running \subseteq {cur}
    BY DEF Running, Inv, CursorInv
  <2>2. IsFiniteSet({cur}) /\ Cardinality({cur}) = 1
    BY FS_Singleton
  <2>3. Cardinality(Running) <= Cardinality({cur})
    BY <2>1, <2>2, FS_Subset
  <2> QED
    BY <2>2, <2>3 DEF OneProcessAtATime
<1> QED
  BY Invariance, <1>1, PTL
-----------------------------------------------------------------------------
(* What the two select() calls reported and is still to be looked at. *)

\* The services of the initial configuration that the loop has not come to,
\* and that are in readset, have a client that waits.
ReportedInv ==
  /\ used >= InitUsed
  /\ pc = "scan" =>
       \A k \in readset : k >= i /\ k <= InitUsed => queue[k] # <<>>
  /\ pc \in {"fork", "waitpid"} =>
       \A k \in readset : k > i /\ k <= InitUsed => queue[k] # <<>>

\* The two places in which N2 has connections.
N2Spots == {"toN2", "rfd"}
N2Lines == [x \in N2Spots |-> IF x = "toN2" THEN toN2 ELSE rfd]
Sent(c) == Somewhere(N2Spots, N2Lines, c)

\* A connection is passed to N2 once, and after it was accepted.
PassedInv ==
  /\ OneSpot(N2Spots, N2Lines)
  /\ \A c \in Conns : Sent(c) =>
       /\ svc[c] # 0
       /\ \A k \in Services : \A n \in 1..Len(queue[k]) : queue[k][n] # c

\* A connection of which the service process took the request.
Taken(c) ==
  conn[c] \in {"done", "lost"} /\ child[c] \in {"exited", "signaled", "reaped", "leaked"}

\* A connection that N2's select reported is readable, or was.
N2ReadyInv ==
  /\ n2 \in {"recv", "read"} =>
       \A k \in n2rdy \ {0} :
         k \in 1..Len(rfd) /\ (Readable(rfd[k]) \/ Taken(rfd[k]))
  /\ n2 = "read" => 0 \notin n2rdy

\* Every step keeps what Nitnetd's select reported there.
LEMMA ReportedStep == Inv /\ ReportedInv /\ [Next]_vars => ReportedInv'
<1> SUFFICES ASSUME Inv, ReportedInv, [Next]_vars PROVE ReportedInv'
  OBVIOUS
<1>a. /\ queue \in [Services -> Seq(Conns)] /\ i \in Nat \ {0}
      /\ used \in 0..NServices /\ readset \subseteq 1..used
      /\ InitUsed \in 0..NServices /\ NServices \in Nat
  BY NitnetdAssumption DEF Inv, TypeOK
<1>b. readset \subseteq Services
  BY <1>a DEF Services
<1> USE DEF ReportedInv
<1>1. CASE Select
  BY <1>1, <1>a DEF Select, Ready
<1>2. CASE Skip
  BY <1>2, <1>a DEF Skip, PutBack
<1>3. CASE ScanDone
  BY <1>3 DEF ScanDone
<1>4. CASE Accept
  <2>1. /\ pc = "scan" /\ pc' \in {"fork", "dead"} /\ i \in Services
        /\ UNCHANGED <<i, used, readset>> /\ queue' = [queue EXCEPT ![i] = Tail(@)]
    BY <1>4, <1>b DEF Accept
  <2>2. \A k \in Services : k # i => queue'[k] = queue[k]
    BY <1>a, <2>1
  <2>3. \A k \in readset : k > i => k # i
    BY <1>a
  <2> QED
    BY <1>a, <1>b, <2>1, <2>2, <2>3
<1>5. CASE Fork
  BY <1>5, <1>a DEF Fork
<1>6. CASE Waitpid
  BY <1>6, <1>a DEF Waitpid
<1>7. CASE ServeUdp
  <2>1. /\ pc = "scan" /\ pc' = "scan" /\ i' = i + 1 /\ i \in Services
        /\ UNCHANGED <<used, readset>> /\ queue' = [queue EXCEPT ![i] = Tail(@)]
    BY <1>7, <1>b DEF ServeUdp
  <2>2. \A k \in Services : k # i => queue'[k] = queue[k]
    BY <1>a, <2>1
  <2>3. \A k \in readset : k >= i + 1 => k # i /\ k >= i
    BY <1>a
  <2> QED
    BY <1>a, <1>b, <2>1, <2>2, <2>3
<1>8. CASE Reload
  <2>1. UNCHANGED <<i, queue>> /\ (pc' = pc \/ pc' = "dead")
    BY <1>8 DEF Reload
  <2>2. CASE used' = used + 1 /\ readset' = readset \cup {used + 1}
    <3>1. ~(used + 1 <= InitUsed)
      BY <1>a
    <3> QED
      BY <1>a, <2>1, <2>2, <3>1
  <2>3. CASE UNCHANGED <<used, readset>>
    BY <2>1, <2>3
  <2> QED
    BY <1>8, <2>2, <2>3 DEF Reload
<1>9. ASSUME NEW c \in Conns, NEW k \in Services, Connect(c, k) PROVE ReportedInv'
  <2>1. UNCHANGED <<pc, i, used, readset>>
    BY <1>9 DEF Connect, srvVars
  <2>2. \A l \in Services : queue'[l] = <<>> => queue[l] = <<>>
    <3>1. queue' = queue \/ queue' = [queue EXCEPT ![k] = Append(@, c)]
      BY <1>9 DEF Connect
    <3>2. Append(queue[k], c) # <<>>
      BY <1>a
    <3> QED
      BY <1>a, <3>1, <3>2
  <2> QED
    BY <1>b, <2>1, <2>2
<1>10. CASE UNCHANGED <<srvVars, queue>>
  BY <1>10 DEF srvVars
<1> QED
  BY <1>1, <1>2, <1>3, <1>4, <1>5, <1>6, <1>7, <1>8, <1>9, <1>10
     DEF Next, ServerLoop, N2Step, N2Select, N2Recv, N2Serve, N2PassDone, ChildStep,
         ChildServe, ChildEof, ChildCrash, ClientStep, Ask, Close, vars

\* The connections that N2 has, in the words of the model.
LEMMA SentIs ==
  ASSUME TypeOK
  PROVE  /\ \A x \in N2Spots : N2Lines[x] \in Seq(Conns)
         /\ N2Lines["toN2"] = toN2 /\ N2Lines["rfd"] = rfd
         /\ \A c \in Conns : Sent(c) <=> HeldByN2(c)
<1>1. toN2 \in Seq(Conns) /\ rfd \in Seq(Conns)
  BY DEF TypeOK
<1>2. N2Lines["toN2"] = toN2 /\ N2Lines["rfd"] = rfd
  BY DEF N2Lines, N2Spots
<1>3. \A c : Sent(c) <=> (\E n \in 1..Len(toN2) : toN2[n] = c)
                           \/ (\E n \in 1..Len(rfd) : rfd[n] = c)
  BY <1>2 DEF Sent, Somewhere, N2Spots
<1>4. \A c : HeldByN2(c) <=> (\E n \in 1..Len(toN2) : toN2[n] = c)
                               \/ (\E n \in 1..Len(rfd) : rfd[n] = c)
  BY <1>1 DEF HeldByN2, Range
<1> QED
  BY <1>1, <1>2, <1>3, <1>4 DEF N2Spots

\* Every step keeps the connections of N2 apart and out of the queues.
LEMMA PassedStep == Inv /\ TypeOK' /\ PassedInv /\ [Next]_vars => PassedInv'
<1> SUFFICES ASSUME Inv, TypeOK', PassedInv, [Next]_vars PROVE PassedInv'
  OBVIOUS
<1>a. /\ queue \in [Services -> Seq(Conns)] /\ svc \in [Conns -> 0..NServices]
      /\ conn \in [Conns -> {"new", "open", "asked", "done", "lost", "closed",
                             "reset", "refused"}]
      /\ toN2 \in Seq(Conns) /\ rfd \in Seq(Conns) /\ readset \subseteq Services
  <2>1. /\ readset \subseteq 1..used /\ used \in 0..NServices /\ NServices \in Nat
    BY NitnetdAssumption DEF Inv, TypeOK
  <2>2. readset \subseteq Services
    BY <2>1 DEF Services
  <2> QED
    BY <2>2 DEF Inv, TypeOK, Services
<1>b. TypeOK /\ QueueInv /\ NServices \in Nat
  BY NitnetdAssumption DEF Inv
<1>c. /\ \A x \in N2Spots : N2Lines[x] \in Seq(Conns)
      /\ N2Lines["toN2"] = toN2 /\ N2Lines["rfd"] = rfd
  BY <1>b, SentIs
<1>d. N2Lines'["toN2"] = toN2' /\ N2Lines'["rfd"] = rfd'
  BY DEF N2Lines, N2Spots
<1>e. "toN2" \in N2Spots /\ "rfd" \in N2Spots /\ "toN2" # "rfd"
  BY DEF N2Spots
\* A step that neither passes a connection to N2 nor queues one.
<1>f. ASSUME UNCHANGED <<toN2, rfd>>,
             \A c \in Conns : svc[c] # 0 => svc'[c] # 0,
             \A c \in Conns : Sent(c) => \A k \in Services : \A n \in 1..Len(queue'[k]) :
                                           queue'[k][n] # c
      PROVE  PassedInv'
  <2>1. N2Lines' = N2Lines
    BY <1>f DEF N2Lines
  <2>2. \A c : Sent(c)' <=> Sent(c)
    BY <2>1 DEF Sent
  <2>3. OneSpot(N2Spots, N2Lines)'
    BY <2>1 DEF PassedInv
  <2> QED
    BY <1>f, <2>2, <2>3 DEF PassedInv
\* Taking the first client of queue i.
<1>g. ASSUME i \in Services, queue[i] # <<>>, queue' = [queue EXCEPT ![i] = Tail(@)]
      PROVE  /\ Head(queue[i]) \in Conns /\ svc[Head(queue[i])] = i
             /\ ~Sent(Head(queue[i]))
             /\ \A k \in Services : \A n \in 1..Len(queue'[k]) :
                  /\ queue'[k][n] # Head(queue[i])
                  /\ \E m \in 1..Len(queue[k]) : queue'[k][n] = queue[k][m]
  <2>1. /\ queue[i] \in Seq(Conns) /\ Head(queue[i]) = queue[i][1] /\ 1 \in 1..Len(queue[i])
    BY <1>a, <1>g
  <2>2. Head(queue[i]) \in Conns /\ svc[Head(queue[i])] = i
    BY <1>b, <1>g, <2>1 DEF QueueInv, WaitingInv
  <2>3. ~Sent(Head(queue[i]))
    BY <1>g, <2>1, <2>2 DEF PassedInv
  <2>4. ASSUME NEW k \in Services, NEW n \in 1..Len(queue'[k])
        PROVE  /\ queue'[k][n] # Head(queue[i])
               /\ \E m \in 1..Len(queue[k]) : queue'[k][n] = queue[k][m]
    <3>1. CASE k = i
      <4>1. queue'[k] = Tail(queue[i])
        BY <1>a, <1>g, <3>1
      <4>2. n + 1 \in 1..Len(queue[i]) /\ queue'[k][n] = queue[i][n + 1] /\ n + 1 # 1
        BY <2>1, <2>4, <4>1
      <4>3. queue[i][n + 1] # queue[i][1]
        BY <1>b, <1>g, <2>1, <4>2 DEF QueueInv, WaitingInv
      <4> QED
        BY <2>1, <3>1, <4>2, <4>3
    <3>2. CASE k # i
      <4>1. queue'[k] = queue[k]
        BY <1>a, <1>g, <3>2
      <4>2. svc[queue[k][n]] = k
        BY <1>b, <2>4, <4>1 DEF QueueInv, WaitingInv
      <4> QED
        BY <2>2, <2>4, <3>2, <4>1, <4>2
    <3> QED
      BY <3>1, <3>2
  <2> QED
    BY <2>2, <2>3, <2>4
<1>1. CASE Accept
  <2>1. /\ i \in Services /\ queue[i] # <<>> /\ queue' = [queue EXCEPT ![i] = Tail(@)]
        /\ cur' = Head(queue[i]) /\ UNCHANGED <<rfd, svc>>
        /\ toN2' = toN2 \/ toN2' = Append(toN2, cur')
    BY <1>1, <1>a DEF Accept, cliVars
  <2>2. /\ cur' \in Conns /\ svc[cur'] = i /\ ~Sent(cur')
        /\ \A k \in Services : \A n \in 1..Len(queue'[k]) :
             /\ queue'[k][n] # cur'
             /\ \E m \in 1..Len(queue[k]) : queue'[k][n] = queue[k][m]
    BY <1>g, <2>1
  <2>3. \A c \in Conns : Sent(c) \/ c = cur' =>
          /\ svc'[c] # 0
          /\ \A k \in Services : \A n \in 1..Len(queue'[k]) : queue'[k][n] # c
    <3>1. ASSUME NEW c \in Conns, Sent(c)
          PROVE  /\ svc'[c] # 0
                 /\ \A k \in Services : \A n \in 1..Len(queue'[k]) : queue'[k][n] # c
      BY <2>1, <2>2, <3>1 DEF PassedInv
    <3>2. svc'[cur'] # 0
      BY <1>b, <2>1, <2>2 DEF Services
    <3> QED
      BY <2>2, <3>1, <3>2
  <2>4. CASE toN2' = toN2
    BY <1>f, <2>1, <2>3, <2>4
  <2>5. CASE toN2' = Append(toN2, cur')
    <3>1. /\ \A x \in N2Spots \ {"toN2"} : N2Lines'[x] = N2Lines[x]
          /\ N2Lines'["toN2"] = Append(N2Lines["toN2"], cur')
      BY <1>c, <1>d, <2>1, <2>5 DEF N2Spots
    <3>2. OneSpot(N2Spots, N2Lines) /\ ~Somewhere(N2Spots, N2Lines, cur')
      BY <2>2 DEF PassedInv, Sent
    <3>3. /\ OneSpot(N2Spots, N2Lines')
          /\ \A d : Somewhere(N2Spots, N2Lines', d)
                      <=> Somewhere(N2Spots, N2Lines, d) \/ d = cur'
      BY <1>c, <1>e, <2>2, <3>1, <3>2, AddKeeps
    <3>4. \A d : Sent(d)' <=> Sent(d) \/ d = cur'
      BY <3>3 DEF Sent
    <3> QED
      BY <2>3, <3>3, <3>4 DEF PassedInv
  <2> QED
    BY <2>1, <2>4, <2>5
<1>2. CASE ServeUdp
  <2>1. /\ i \in Services /\ queue[i] # <<>> /\ queue' = [queue EXCEPT ![i] = Tail(@)]
        /\ UNCHANGED <<toN2, rfd, svc>>
    BY <1>2, <1>a DEF ServeUdp, n2Vars
  <2>2. \A k \in Services : \A n \in 1..Len(queue'[k]) :
          \E m \in 1..Len(queue[k]) : queue'[k][n] = queue[k][m]
    BY <1>g, <2>1
  <2> QED
    BY <1>f, <2>1, <2>2, SMTT(30) DEF PassedInv
<1>3. CASE N2Recv
  <2>1. UNCHANGED <<queue, svc>>
    BY <1>3 DEF N2Recv, cliVars
  <2>2. CASE UNCHANGED <<rfd, toN2>>
    BY <1>f, <2>1, <2>2 DEF PassedInv
  <2>3. CASE 0 \in n2rdy /\ rfd' = Append(rfd, Head(toN2)) /\ toN2' = Tail(toN2)
    <3>1. toN2 # <<>>
      BY <1>3, <2>3 DEF N2Recv, Inv, N2Inv
    <3>2. /\ \A x \in N2Spots \ {"toN2", "rfd"} : N2Lines'[x] = N2Lines[x]
          /\ N2Lines'["toN2"] = Tail(N2Lines["toN2"])
          /\ N2Lines'["rfd"] = Append(N2Lines["rfd"], Head(N2Lines["toN2"]))
      BY <1>c, <1>d, <2>3 DEF N2Spots
    <3>3. /\ OneSpot(N2Spots, N2Lines')
          /\ \A d : Somewhere(N2Spots, N2Lines', d) <=> Somewhere(N2Spots, N2Lines, d)
      <4>1. OneSpot(N2Spots, N2Lines) /\ N2Lines["toN2"] # <<>>
        BY <1>c, <3>1 DEF PassedInv
      <4> QED
        BY <1>c, <1>e, <3>2, <4>1, MoveKeeps, ZenonT(60)
    <3>4. \A d : Sent(d)' <=> Sent(d)
      BY <3>3 DEF Sent
    <3> QED
      BY <2>1, <3>3, <3>4 DEF PassedInv
  <2> QED
    BY <1>3, <2>2, <2>3 DEF N2Recv
<1>4. ASSUME NEW c \in Conns, NEW k \in Services, Connect(c, k) PROVE PassedInv'
  <2>1. conn[c] = "new" /\ UNCHANGED <<toN2, rfd>>
    BY <1>4 DEF Connect, n2Vars
  <2>2. svc[c] = 0 /\ ~Sent(c)
    BY <1>b, <2>1 DEF QueueInv, PassedInv
  <2>3. CASE UNCHANGED <<queue, svc>>
    BY <1>f, <2>1, <2>3 DEF PassedInv
  <2>4. CASE queue' = [queue EXCEPT ![k] = Append(@, c)] /\ svc' = [svc EXCEPT ![c] = k]
    <3>1. \A d \in Conns : svc[d] # 0 => svc'[d] # 0
      BY <1>a, <1>b, <2>2, <2>4 DEF Services
    <3>2. \A l \in Services : \A n \in 1..Len(queue'[l]) :
            queue'[l][n] = c \/ \E m \in 1..Len(queue[l]) : queue'[l][n] = queue[l][m]
      <4> TAKE l \in Services
      <4>1. queue[l] \in Seq(Conns)
        BY <1>a
      <4>2. queue'[l] = queue[l] \/ queue'[l] = Append(queue[l], c)
        BY <1>a, <2>4
      <4> QED
        BY <4>1, <4>2
    <3> QED
      BY <1>f, <2>1, <2>2, <3>1, <3>2 DEF PassedInv
  <2> QED
    BY <1>4, <2>3, <2>4 DEF Connect
<1>5. CASE UNCHANGED <<queue, toN2, rfd, svc>>
  BY <1>f, <1>5 DEF PassedInv
<1> QED
  BY <1>1, <1>2, <1>3, <1>4, <1>5
     DEF Next, ServerLoop, Select, Skip, ScanDone, Fork, Waitpid, Reload, N2Step,
         N2Select, N2Serve, N2PassDone, ChildStep, ChildServe, ChildEof, ChildCrash,
         ClientStep, Ask, Close, vars, n2Vars, cliVars

\* Every step keeps what N2's select reported readable, or taken by the
\* service process.
LEMMA N2ReadyStep ==
  Inv /\ TypeOK' /\ PassedInv /\ N2ReadyInv /\ [Next]_vars => N2ReadyInv'
<1> SUFFICES ASSUME Inv, TypeOK', PassedInv, N2ReadyInv, [Next]_vars PROVE N2ReadyInv'
  OBVIOUS
<1>a. /\ queue \in [Services -> Seq(Conns)] /\ svc \in [Conns -> 0..NServices]
      /\ conn \in [Conns -> {"new", "open", "asked", "done", "lost", "closed",
                             "reset", "refused"}]
      /\ child \in [Conns -> ChildStates]
      /\ toN2 \in Seq(Conns) /\ rfd \in Seq(Conns) /\ n2rdy \subseteq Nat
  BY DEF Inv, TypeOK, ChildStates
<1>b. TypeOK /\ QueueInv /\ CursorInv /\ readset \subseteq Services
  <2>1. /\ readset \subseteq 1..used /\ used \in 0..NServices /\ NServices \in Nat
    BY NitnetdAssumption DEF Inv, TypeOK
  <2> QED
    BY <2>1 DEF Inv, Services
\* A connection in rfd is in no queue, has connected and is where N2 holds it.
<1>c. \A k \in 1..Len(rfd) :
        /\ rfd[k] \in Conns /\ HeldByN2(rfd[k]) /\ conn[rfd[k]] # "new"
        /\ \A s \in Services : \A n \in 1..Len(queue[s]) : queue[s][n] # rfd[k]
        /\ \A l \in 1..Len(rfd) : rfd[l] = rfd[k] => l = k
  <2> TAKE k \in 1..Len(rfd)
  <2>1. rfd[k] \in Conns /\ N2Lines["rfd"] = rfd /\ "rfd" \in N2Spots
    BY <1>a, <1>b, SentIs DEF N2Spots
  <2>2. Sent(rfd[k])
    BY <2>1 DEF Sent, Somewhere
  <2>3. HeldByN2(rfd[k])
    BY <1>b, <2>1, <2>2, SentIs
  <2>4. svc[rfd[k]] # 0
        /\ \A s \in Services : \A n \in 1..Len(queue[s]) : queue[s][n] # rfd[k]
    BY <2>1, <2>2 DEF PassedInv
  <2>5. \A l \in 1..Len(rfd) : rfd[l] = rfd[k] => l = k
    BY <2>1 DEF PassedInv, OneSpot
  <2> QED
    BY <1>b, <2>1, <2>3, <2>4, <2>5 DEF QueueInv
\* A step that leaves N2 alone and every connection of rfd readable or taken.
<1>d. ASSUME UNCHANGED <<rfd, n2, n2rdy>>,
             \A c \in Conns : Readable(c) \/ Taken(c) =>
               \/ Readable(c)' \/ Taken(c)'
               \/ \A k \in 1..Len(rfd) : rfd[k] # c
      PROVE  N2ReadyInv'
  BY <1>c, <1>d DEF N2ReadyInv
<1>1. CASE N2Select
  BY <1>1, <1>a DEF N2Select, N2ReadyInv, ReadyConns, Readable, cliVars
<1>2. CASE N2Recv
  <2>1. /\ n2 = "recv" /\ n2' = "read" /\ n2rdy' = n2rdy \ {0} /\ UNCHANGED <<conn, child>>
    BY <1>2 DEF N2Recv, cliVars
  <2>2. \A k \in 1..Len(rfd) : k \in 1..Len(rfd') /\ rfd'[k] = rfd[k]
    <3>1. CASE 0 \in n2rdy /\ rfd' = Append(rfd, Head(toN2))
      <4>1. toN2 # <<>>
        BY <2>1, <3>1 DEF Inv, N2Inv
      <4>2. Head(toN2) \in Conns
        BY <1>a, <4>1
      <4> QED
        BY <1>a, <3>1, <4>2
    <3> QED
      BY <1>2, <3>1 DEF N2Recv
  <2>3. \A c : Readable(c) => Readable(c)'
    BY <2>1 DEF Readable
  <2>4. \A c : Taken(c) => Taken(c)'
    BY <2>1 DEF Taken
  <2> QED
    BY <2>1, <2>2, <2>3, <2>4 DEF N2ReadyInv
<1>3. CASE N2Serve
  <2> DEFINE m == Min(n2rdy)
             c == rfd[m]
  <2>1. /\ n2 = "read" /\ n2rdy # {} /\ n2' \in {"read", "dead"}
        /\ n2rdy' = n2rdy \ {m} /\ UNCHANGED <<rfd, child>>
        /\ \/ conn' = conn \/ conn' = [conn EXCEPT ![c] = "done"]
           \/ conn' = [conn EXCEPT ![c] = "reset"]
    BY <1>3 DEF N2Serve
  <2>2. m \in n2rdy
    BY <1>a, <2>1, MinIsMember
  <2> HIDE DEF m
  <2>3. m \in 1..Len(rfd)
    BY <2>1, <2>2 DEF N2ReadyInv
  <2>4. \A k \in n2rdy' : k \in 1..Len(rfd) /\ rfd[k] # c /\ (Readable(rfd[k]) \/ Taken(rfd[k]))
    BY <1>c, <2>1, <2>3 DEF N2ReadyInv
  <2>5. \A k \in 1..Len(rfd) : rfd[k] # c => conn'[rfd[k]] = conn[rfd[k]]
    BY <1>a, <1>c, <2>1
  <2>6. \A k \in n2rdy' : \A d : d = rfd[k] => Readable(d)' \/ Taken(d)'
    BY <2>1, <2>4, <2>5 DEF Readable, Taken
  <2> HIDE DEF c
  <2>7. 0 \notin n2rdy'
    BY <2>1 DEF N2ReadyInv
  <2> QED
    BY <2>1, <2>4, <2>6, <2>7 DEF N2ReadyInv
<1>4. CASE N2PassDone
  BY <1>4 DEF N2PassDone, N2ReadyInv
<1>5. CASE Select \/ Skip \/ ScanDone \/ Accept \/ Reload \/ UNCHANGED vars
  <2>1. UNCHANGED <<rfd, n2, n2rdy, conn, child>>
    BY <1>5 DEF Select, Skip, ScanDone, Accept, Reload, vars, n2Vars, cliVars
  <2> QED
    BY <1>d, <2>1 DEF Readable, Taken
<1>6. CASE Fork
  <2>1. UNCHANGED <<rfd, n2, n2rdy>>
        /\ cur \in Conns /\ child[cur] = "none"
    BY <1>6, <1>b DEF Fork, n2Vars, CursorInv
  <2>2. \A c \in Conns : c # cur => child'[c] = child[c] /\ conn'[c] = conn[c]
    BY <1>6, <1>a, <2>1 DEF Fork
  <2>3. ~Taken(cur)
    BY <2>1 DEF Taken
  <2>4. HeldByN2(cur) => conn'[cur] = conn[cur]
    BY <1>6, <1>a, <2>1 DEF Fork
  <2> QED
    BY <1>c, <1>d, <2>1, <2>2, <2>3, <2>4 DEF Readable, Taken
<1>7. CASE Waitpid
  <2>1. UNCHANGED <<rfd, n2, n2rdy, conn>> /\ cur \in Conns
    BY <1>7, <1>b DEF Waitpid, n2Vars, cliVars, CursorInv
  <2>2. /\ child'[cur] \in {"reaped", "leaked"}
        /\ \A c \in Conns : c # cur => child'[c] = child[c]
    BY <1>7, <1>a, <2>1 DEF Waitpid
  <2> QED
    BY <1>d, <2>1, <2>2 DEF Readable, Taken
<1>8. CASE ServeUdp
  <2>1. /\ UNCHANGED <<rfd, n2, n2rdy, child>> /\ i \in Services /\ queue[i] # <<>>
        /\ conn' = [conn EXCEPT ![Head(queue[i])] = IF @ = "asked" THEN "done" ELSE @]
    BY <1>8, <1>b DEF ServeUdp, n2Vars
  <2>2. Head(queue[i]) = queue[i][1] /\ 1 \in 1..Len(queue[i])
    BY <1>a, <2>1
  <2>3. \A k \in 1..Len(rfd) : rfd[k] # Head(queue[i])
    BY <1>c, <2>1, <2>2
  <2>4. \A c \in Conns : c # Head(queue[i]) => conn'[c] = conn[c]
    BY <1>a, <2>1
  <2> QED
    BY <1>d, <2>1, <2>3, <2>4 DEF Readable, Taken
<1>9. ASSUME NEW c \in Conns, ChildStep(c) PROVE N2ReadyInv'
  <2>1. UNCHANGED <<rfd, n2, n2rdy>> /\ child[c] = "running"
    BY <1>9 DEF ChildStep, ChildServe, ChildEof, ChildCrash, n2Vars
  <2>2. \A d \in Conns : d # c => child'[d] = child[d] /\ conn'[d] = conn[d]
    BY <1>9, <1>a DEF ChildStep, ChildServe, ChildEof, ChildCrash, cliVars
  <2>3. Readable(c) => Readable(c)' \/ Taken(c)'
    BY <1>9, <1>a DEF ChildStep, ChildServe, ChildEof, ChildCrash, cliVars, Readable, Taken
  <2>4. ~Taken(c)
    BY <2>1 DEF Taken
  <2>5. \A d \in Conns : d # c => (Readable(d) => Readable(d)') /\ (Taken(d) => Taken(d)')
    BY <2>2 DEF Readable, Taken
  <2> QED
    BY <1>d, <2>1, <2>3, <2>4, <2>5
<1>10. ASSUME NEW c \in Conns, ClientStep(c) PROVE N2ReadyInv'
  <2>1. UNCHANGED <<rfd, n2, n2rdy, child>>
    BY <1>10 DEF ClientStep, Ask, Close, Connect, n2Vars
  <2>2. \A d \in Conns : d # c => conn'[d] = conn[d]
    BY <1>10, <1>a DEF ClientStep, Ask, Close, Connect
  <2>3. conn[c] = "new" \/ conn'[c] \in {"asked", "closed"}
    BY <1>10, <1>a DEF ClientStep, Ask, Close, Connect
  <2> QED
    BY <1>c, <1>d, <2>1, <2>2, <2>3 DEF Readable, Taken
<1> QED
  BY <1>1, <1>2, <1>3, <1>4, <1>5, <1>6, <1>7, <1>8, <1>9, <1>10
     DEF Next, ServerLoop, N2Step
-----------------------------------------------------------------------------
\* What the two select() calls reported stays as the three invariants say.
LEMMA BlockingInvariance == Spec => [](ReportedInv /\ PassedInv /\ N2ReadyInv)
<1>1. Init => ReportedInv /\ PassedInv /\ N2ReadyInv
  <2> SUFFICES ASSUME Init PROVE ReportedInv /\ PassedInv /\ N2ReadyInv
    OBVIOUS
  <2>1. \A x \in N2Spots : N2Lines[x] = <<>>
    BY DEF Init, N2Lines, N2Spots
  <2>2. PassedInv
    BY <2>1 DEF PassedInv, OneSpot, Sent, Somewhere
  <2>3. ReportedInv
    BY NitnetdAssumption DEF Init, ReportedInv
  <2> QED
    BY <2>2, <2>3 DEF Init, N2ReadyInv
<1>2. TypeOK' /\ Inv /\ ReportedInv /\ PassedInv /\ N2ReadyInv /\ [Next]_vars
        => (ReportedInv /\ PassedInv /\ N2ReadyInv)'
  BY ReportedStep, PassedStep, N2ReadyStep
<1> QED
  BY <1>1, <1>2, Invariance, TypeCorrect, PTL DEF Spec

\* A service of the initial configuration never makes Nitnetd wait in
\* accept(), whatever SIGUSR1 adds meanwhile (nitnetd.c:264-270).
THEOREM AcceptNeverBlocks == Spec => []InitialNeverBlocksAccept
<1>1. Inv /\ ReportedInv => InitialNeverBlocksAccept
  <2> SUFFICES ASSUME Inv, ReportedInv, pc = "scan", i \in readset, i <= InitUsed
               PROVE  queue[i] # <<>>
    BY DEF InitialNeverBlocksAccept
  <2>1. i \in Nat
    BY DEF Inv, TypeOK
  <2> QED
    BY <2>1 DEF ReportedInv
<1> QED
  BY Invariance, BlockingInvariance, <1>1, PTL

\* N2 waits for a request that is not there only when the service process
\* that shares the connection took it and ended (n2.c:121-136).
THEOREM N2WaitsOnlyForTaken == Spec => []N2BlockedOnlyByProcess
<1>1. Inv /\ N2ReadyInv => N2BlockedOnlyByProcess
  <2> SUFFICES ASSUME Inv, N2ReadyInv, N2Blocked PROVE Taken(rfd[Min(n2rdy)])
    BY DEF N2BlockedOnlyByProcess, Taken
  <2>1. n2rdy \subseteq Nat /\ n2 = "read" /\ n2rdy # {} /\ ~Readable(rfd[Min(n2rdy)])
    BY DEF Inv, TypeOK, N2Blocked
  <2>2. Min(n2rdy) \in n2rdy
    BY <2>1, MinIsMember
  <2> QED
    BY <2>1, <2>2 DEF N2ReadyInv
<1> QED
  BY Invariance, BlockingInvariance, <1>1, PTL
=============================================================================
