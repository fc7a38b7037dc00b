----------------------------- MODULE ChatsProofs -----------------------------
(***************************************************************************)
(* Proofs about the servers that multiplex with select, for any number of  *)
(* clients, reports, datagrams and lines: where the editor is caught, how  *)
(* far the placement server's programs come, whom an answer reaches, and   *)
(* when a chat server shows a line twice or is killed.                     *)
(***************************************************************************)
EXTENDS MCChats, QueueTheorems

(* News: what select has seen and the loop has not reached. *)

NewsType ==
  /\ esel \subseteq Reporters /\ ei \in 1..3
  /\ dfds \in Seq(Reporters) /\ wire \in Seq(Reporters)
  /\ pipe \in [Reporters -> Seq({"text", "/d"})]
  /\ wrote \in [Reporters -> Nat]

\* A pipe that select has marked can be read until the editor gets there,
\* unless the document process has it as well.
NewsInv ==
  /\ NewsType
  /\ doc = "read" => di \in 1..Len(dfds)
  /\ ed = "scan" => \A r \in esel : r >= ei => CanRead(r) \/ Contains(dfds, r)

LEMMA NewsInit == InitNews \/ IdleNews => NewsInv
<1> SUFFICES ASSUME InitNews \/ IdleNews PROVE NewsInv
  OBVIOUS
<1>1. /\ esel = {} /\ ei = 1 /\ dfds = <<>> /\ wire = <<>> /\ doc = "start" /\ ed # "scan"
      /\ pipe = [r \in Reporters |-> <<>>] /\ wrote = [r \in Reporters |-> 0]
  BY DEF InitNews, IdleNews, BlankNews
<1>2. <<>> \in Seq(Reporters) /\ <<>> \in Seq({"text", "/d"})
  BY Empty
<1>3. NewsType
  BY <1>1, <1>2 DEF NewsType
<1> QED
  BY <1>1, <1>3 DEF NewsInv

\* Taking a report out of a pipe leaves the others alone.
LEMMA ConsumeKeeps ==
  ASSUME NewsType, NEW x \in Reporters, Consume(x)
  PROVE  /\ pipe' \in [Reporters -> Seq({"text", "/d"})]
         /\ \A r \in Reporters : r # x => pipe'[r] = pipe[r]
<1>1. pipe[x] \in Seq({"text", "/d"})
  BY DEF NewsType
<1>2. pipe[x] # <<>> => Tail(pipe[x]) \in Seq({"text", "/d"})
  BY <1>1
<1> QED
  BY <1>1, <1>2 DEF NewsType, Consume

LEMMA NewsStep == NewsInv /\ (NextNews \/ UNCHANGED varsNews) => NewsInv'
<1> SUFFICES ASSUME NewsInv, NextNews \/ UNCHANGED varsNews PROVE NewsInv'
  OBVIOUS
<1>t. /\ NewsType /\ esel \subseteq Reporters /\ ei \in 1..3
      /\ dfds \in Seq(Reporters) /\ wire \in Seq(Reporters)
      /\ pipe \in [Reporters -> Seq({"text", "/d"})] /\ wrote \in [Reporters -> Nat]
      /\ Reporters = 1..3
  BY NewsAssumption DEF NewsInv, NewsType
<1>1. CASE editor_popen \/ news_listen \/ editor_accept \/ doc_conn
  <2>1. /\ UNCHANGED <<ei, esel, di, dfds, wire, pipe, wrote>>
        /\ (ed' # "scan" \/ ed' = ed) /\ (doc' # "read" \/ doc' = doc)
    BY <1>1 DEF editor_popen, news_listen, editor_accept, doc_conn
  <2> QED
    BY <2>1 DEF NewsInv, NewsType, CanRead, Ended
<1>2. CASE editor_select
  <2>1. /\ esel' = {r \in Reporters : CanRead(r)} /\ ei' = 1
        /\ UNCHANGED <<doc, di, dfds, wire, pipe, wrote>>
    BY <1>2 DEF editor_select
  <2> QED
    BY <1>t, <2>1 DEF NewsInv, NewsType, CanRead, Ended
<1>3. CASE editor_read
  <2>1. UNCHANGED <<esel, doc, di, dfds, wrote>> /\ ed = "scan"
    BY <1>3 DEF editor_read
  <2>2. ei' \in 1..3 /\ (ed' = "scan" => ei' = ei + 1)
    BY <1>3, <1>t DEF editor_read
  <2>3. /\ pipe' \in [Reporters -> Seq({"text", "/d"})]
        /\ \A r \in Reporters : r # ei => pipe'[r] = pipe[r]
    <3>1. CASE ei \in esel
      BY <1>3, <1>t, <3>1, ConsumeKeeps DEF editor_read
    <3>2. CASE ei \notin esel
      BY <1>3, <1>t, <3>2 DEF editor_read
    <3> QED
      BY <3>1, <3>2
  <2>4. wire' \in Seq(Reporters)
    <3>1. wire' = wire \/ wire' = Append(wire, ei)
      BY <1>3 DEF editor_read, news_send_fd
    <3>2. ei \in Reporters /\ wire \in Seq(Reporters)
      BY <1>t
    <3>3. Append(wire, ei) \in Seq(Reporters)
      BY <3>2, QueueTypes
    <3> QED
      BY <3>1, <3>2, <3>3
  <2>5. ASSUME NEW r \in esel, ed' = "scan", r >= ei'
        PROVE  CanRead(r)' \/ Contains(dfds, r)
    <3>1. r \in Reporters /\ r >= ei /\ r # ei
      BY <1>t, <2>2, <2>5
    <3>2. CanRead(r) \/ Contains(dfds, r)
      BY <2>1, <3>1 DEF NewsInv
    <3> QED
      BY <2>1, <2>3, <3>1, <3>2 DEF CanRead, Ended
  <2> QED
    BY <1>t, <2>1, <2>2, <2>3, <2>4, <2>5 DEF NewsInv, NewsType
<1>4. CASE doc_recv
  <2>1. UNCHANGED <<ed, ei, esel, pipe, wrote>> /\ wire' = Tail(wire) /\ wire # <<>>
    BY <1>4 DEF doc_recv
  <2>2. /\ dfds' \in Seq(Reporters) /\ (doc' = "read" => di' \in 1..Len(dfds'))
        /\ \A r : Contains(dfds, r) => Contains(dfds', r)
    <3>1. CASE Len(dfds) = 3
      BY <1>4, <1>t, <3>1 DEF doc_recv
    <3>2. CASE Len(dfds) # 3
      <4>1. Head(wire) \in Reporters /\ dfds' = Append(dfds, Head(wire)) /\ di' = 1
        BY <1>4, <1>t, <2>1, <3>2 DEF doc_recv
      <4> HIDE DEF NewsInv
      <4>2. /\ dfds' \in Seq(Reporters) /\ Len(dfds') = Len(dfds) + 1 /\ Len(dfds) \in Nat
            /\ \A j \in 1..Len(dfds) : dfds'[j] = dfds[j] /\ j \in 1..Len(dfds')
        BY <1>t, <4>1, More
      <4> QED
        BY <4>1, <4>2 DEF Contains
    <3> QED
      BY <3>1, <3>2
  <2>3. wire' \in Seq(Reporters)
    BY <1>t, <2>1
  <2> QED
    BY <1>t, <2>1, <2>2, <2>3 DEF NewsInv, NewsType, CanRead, Ended
<1>5. CASE doc_read
  <2>1. UNCHANGED <<ed, ei, esel, dfds, wire, wrote>> /\ di \in 1..Len(dfds)
    BY <1>5 DEF doc_read, NewsInv
  <2>2. dfds[di] \in Reporters /\ Contains(dfds, dfds[di]) /\ Len(dfds) \in Nat
    BY <1>t, <2>1 DEF Contains
  <2>3. /\ pipe' \in [Reporters -> Seq({"text", "/d"})]
        /\ \A r \in Reporters : r # dfds[di] => pipe'[r] = pipe[r]
    BY <1>5, <1>t, <2>2, ConsumeKeeps DEF doc_read
  <2>4. doc' = "read" => di' \in 1..Len(dfds)
    BY <1>5, <2>1, <2>2 DEF doc_read
  <2>5. ASSUME NEW r \in esel, ed = "scan", r >= ei
        PROVE  CanRead(r)' \/ Contains(dfds, r)
    <3>1. CASE r = dfds[di]
      BY <2>2, <3>1
    <3>2. CASE r # dfds[di]
      BY <1>t, <2>1, <2>3, <2>5, <3>2 DEF NewsInv, CanRead, Ended
    <3> QED
      BY <3>1, <3>2
  <2> QED
    BY <1>t, <2>1, <2>3, <2>4, <2>5 DEF NewsInv, NewsType
<1>6. ASSUME NEW x \in Reporters, reporter(x)
      PROVE  NewsInv'
  <2>1. /\ UNCHANGED <<ed, ei, esel, doc, di, dfds, wire>>
        /\ wrote' = [wrote EXCEPT ![x] = @ + 1] /\ wrote[x] < MaxReports
    BY <1>6 DEF reporter
  <2>2. PICK kind \in {"text", "/d"} : pipe' = [pipe EXCEPT ![x] = Append(@, kind)]
    BY <1>6 DEF reporter
  <2>3. /\ pipe' \in [Reporters -> Seq({"text", "/d"})] /\ pipe'[x] # <<>>
        /\ \A r \in Reporters : r # x => pipe'[r] = pipe[r] /\ wrote'[r] = wrote[r]
    <3>1. pipe[x] \in Seq({"text", "/d"})
      BY <1>t
    <3>2. Append(pipe[x], kind) \in Seq({"text", "/d"}) /\ Append(pipe[x], kind) # <<>>
      BY <3>1, EmptySeq
    <3> QED
      BY <1>t, <2>1, <2>2, <3>2
  <2>4. wrote' \in [Reporters -> Nat]
    BY <1>t, <2>1
  <2>5. ASSUME NEW r \in Reporters, CanRead(r)
        PROVE  CanRead(r)'
    BY <2>3, <2>5 DEF CanRead, Ended
  <2> QED
    BY <1>t, <2>1, <2>3, <2>4, <2>5 DEF NewsInv, NewsType
<1>7. CASE UNCHANGED varsNews
  BY <1>7 DEF varsNews, NewsInv, NewsType, CanRead, Ended
<1> QED
  BY <1>1, <1>2, <1>3, <1>4, <1>5, <1>6, <1>7 DEF NextNews, Editor, Document

LEMMA NewsCaught == NewsInv => CaughtOnlyOnPassed
<1> SUFFICES ASSUME NewsInv, EditorCaught PROVE Contains(dfds, ei)
  BY DEF CaughtOnlyOnPassed
<1>1. ei \in Nat /\ ei \in esel /\ ei >= ei
  BY DEF NewsInv, NewsType, EditorCaught
<1> QED
  BY <1>1 DEF NewsInv, EditorCaught
-----------------------------------------------------------------------------
(* Placement: how far the four programs come. *)

PlType ==
  /\ step \in [Programs2 -> Nat] /\ state \in [Programs2 -> {"up", "exited", "killed"}]
  /\ owner \in [Names -> Programs2 \cup {"nobody"}]
  /\ pend \in [Programs2 \X Names -> Nat]
  /\ nsfd8 \in Seq(Students)
  /\ stu \in [Students -> {"off", "new", "wait", "open", "left"}]

\* R3 exits at its second call; R1 waits at its fifth for a connection of R3,
\* R2 at its fifth for one that only R1 would make after that.
StartInv ==
  /\ step["AT"] \in 1..7 /\ step["R1"] \in 1..5 /\ step["R2"] \in 1..5 /\ step["R3"] \in 1..2
  /\ owner["fsock6"] = "nobody"
  /\ owner["fsock4"] = "R2" => step["R2"] > 3
  /\ pend[<<"R2", "fsock4">>] = 0 /\ pend[<<"R1", "fscok5">>] = 0
  /\ pend[<<"AT", "fsock3">>] > 0 \/ step["AT"] > 6 => step["R3"] > 1

\* What has killed AT is still there.
KillInv ==
  state["AT"] = "killed" =>
    \/ \E s \in Students : stu[s] = "left"
    \/ Len(nsfd8) >= 3
    \/ state["R1"] # "up" \/ state["R2"] # "up"

PlInv == PlType /\ StartInv /\ KillInv

LEMMA PlInit == InitPl \/ IdlePl => PlInv
<1> SUFFICES ASSUME InitPl \/ IdlePl PROVE PlInv
  OBVIOUS
<1>1. BlankPl /\ stu \in [Students -> {"off", "new", "wait", "open", "left"}]
  BY DEF InitPl, IdlePl
<1>2. nsfd8 \in Seq(Students)
  BY <1>1, Empty DEF BlankPl
<1>3. PlType
  BY <1>1, <1>2 DEF PlType, BlankPl
<1>4. StartInv /\ KillInv
  BY <1>1 DEF BlankPl, StartInv, KillInv, Programs2, Rounds3, Names
<1> QED
  BY <1>3, <1>4 DEF PlInv

\* The calls of each program up to the one it does not get past.
LEMMA Scripts ==
  /\ Len(Script("AT")) = 6 /\ Len(Script("R1")) = 7
  /\ Len(Script("R2")) = 7 /\ Len(Script("R3")) = 7
  /\ Script("AT")[1] = listen("fsock1") /\ Script("AT")[2] = listen("fsock2")
  /\ Script("AT")[3] = listen("fsock3") /\ Script("AT")[4] = accept("fsock1")
  /\ Script("AT")[5] = accept("fsock2") /\ Script("AT")[6] = accept("fsock3")
  /\ Script("R1")[1] = conn("fsock1") /\ Script("R1")[2] = listen("fsock4")
  /\ Script("R1")[3] = listen("fscok5") /\ Script("R1")[4] = accept("fsock4")
  /\ Script("R1")[5] = accept("fscok5")
  /\ Script("R2")[1] = conn("fsock2") /\ Script("R2")[2] = conn("fsock4")
  /\ Script("R2")[3] = listen("fsock4") /\ Script("R2")[4] = listen("fscok6")
  /\ Script("R2")[5] = accept("fsock4")
  /\ Script("R3")[1] = conn("fsock3") /\ Script("R3")[2] = conn("fsock6")
<1>1. /\ Script("AT") = AT_script /\ Script("R1") = R1_script
      /\ Script("R2") = R2_script /\ Script("R3") = R3_script
  BY DEF Script
<1> QED
  BY <1>1 DEF AT_script, R1_script, R2_script, R3_script

\* What the call e of program p may change.
Call(p, e) ==
  /\ UNCHANGED <<nsfd8, stu>>
  /\ \A q \in Programs2 : q # p => step'[q] = step[q] /\ state'[q] = state[q]
  /\ \/ step'[p] = step[p] + 1 /\ state'[p] = state[p]
     \/ step'[p] = step[p] /\ state'[p] = "exited"
  /\ e.op = "accept" => pend[<<p, e.name>>] > 0 
  /\ e.op = "conn" /\ owner[e.name] = "nobody" => step'[p] = step[p]
  /\ \A n \in Names : owner'[n] = owner[n]
                        \/ (e.op = "listen" /\ n = e.name /\ owner'[n] = p
                              /\ step'[p] = step[p] + 1)
  /\ \A l \in Programs2, n \in Names :
       pend'[<<l, n>>] <= pend[<<l, n>>]
         \/ (e.op = "conn" /\ n = e.name /\ l = owner[n] /\ step'[p] = step[p] + 1)

LEMMA CallIs ==
  ASSUME PlType, NEW p \in Programs2, StartUp(p), NEW e, e = Script(p)[step[p]], e.name \in Names
  PROVE  PlType' /\ Call(p, e) /\ step[p] <= Len(Script(p)) /\ state[p] = "up"
<1>t. /\ step \in [Programs2 -> Nat] /\ state \in [Programs2 -> {"up", "exited", "killed"}]
      /\ owner \in [Names -> Programs2 \cup {"nobody"}]
      /\ pend \in [Programs2 \X Names -> Nat]
  BY DEF PlType
<1>n. Name(p) = e.name /\ "nobody" \notin Programs2
  BY DEF Name, Programs2, Rounds3
<1>g. ASSUME Go(p) \/ Exit(p)
      PROVE  /\ step' \in [Programs2 -> Nat]
             /\ state' \in [Programs2 -> {"up", "exited", "killed"}]
             /\ \A q \in Programs2 : q # p => step'[q] = step[q] /\ state'[q] = state[q]
             /\ \/ step'[p] = step[p] + 1 /\ state'[p] = state[p]
                \/ step'[p] = step[p] /\ state'[p] = "exited"
             /\ Go(p) => step'[p] = step[p] + 1
             /\ Exit(p) => step'[p] = step[p]
  BY <1>g, <1>t DEF Go, Exit
<1>1. CASE cli_conn8(p)
  <2> DEFINE l == owner[e.name]
  <2>1. /\ e.op = "conn" /\ step[p] <= Len(Script(p)) /\ state[p] = "up"
        /\ UNCHANGED <<owner, nsfd8, stu>>
    BY <1>1 DEF cli_conn8, At2
  <2>2. \/ l # "nobody" /\ Go(p) /\ pend' = [pend EXCEPT ![<<l, e.name>>] = @ + 1]
        \/ Exit(p) /\ UNCHANGED pend
    BY <1>1, <1>n DEF cli_conn8
  <2>3. l \in Programs2 \cup {"nobody"}
    BY <1>t
  <2>4. CASE l # "nobody" /\ Go(p) /\ pend' = [pend EXCEPT ![<<l, e.name>>] = @ + 1]
    <3>1. l \in Programs2 /\ <<l, e.name>> \in Programs2 \X Names
      BY <2>3, <2>4
    <3>2. /\ pend' \in [Programs2 \X Names -> Nat]
          /\ \A x \in Programs2 \X Names : x # <<l, e.name>> => pend'[x] = pend[x]
      BY <1>t, <2>4, <3>1
    <3>3. \A m \in Programs2, n \in Names :
            (m = l /\ n = e.name) \/ pend'[<<m, n>>] <= pend[<<m, n>>]
      <4> TAKE m \in Programs2, n \in Names
      <4>1. <<m, n>> \in Programs2 \X Names /\ pend[<<m, n>>] \in Nat
        BY <1>t
      <4>2. CASE <<m, n>> = <<l, e.name>>
        BY <4>2
      <4>3. CASE <<m, n>> # <<l, e.name>>
        BY <3>2, <4>1, <4>3
      <4> QED
        BY <4>2, <4>3
    <3>4. Call(p, e)
      BY <1>g, <2>1, <2>4, <3>3 DEF Call
    <3>5. PlType'
      BY <1>g, <2>1, <2>4, <3>2 DEF PlType
    <3> QED
      BY <2>1, <3>4, <3>5
  <2>5. CASE Exit(p) /\ UNCHANGED pend
    <3>1. PlType'
      BY <1>g, <2>1, <2>5 DEF PlType
    <3>2. \A m \in Programs2, n \in Names : pend[<<m, n>>] \in Nat
      BY <1>t
    <3>3. Call(p, e)
      BY <1>g, <2>1, <2>5, <3>2 DEF Call
    <3> QED
      BY <2>1, <3>1, <3>3
  <2> QED
    BY <2>2, <2>4, <2>5
<1>2. CASE serv_listen8(p)
  <2>1. /\ e.op = "listen" /\ step[p] <= Len(Script(p)) /\ state[p] = "up" /\ Go(p)
        /\ UNCHANGED <<pend, nsfd8, stu>> /\ owner' = [owner EXCEPT ![e.name] = p]
    BY <1>2, <1>n DEF serv_listen8, At2
  <2>2. PlType'
    BY <1>g, <1>t, <2>1 DEF PlType
  <2>3. \A m \in Programs2, n \in Names : pend[<<m, n>>] \in Nat
    BY <1>t
  <2>4. Call(p, e)
    BY <1>g, <1>t, <2>1, <2>3 DEF Call
  <2> QED
    BY <2>1, <2>2, <2>4
<1>3. CASE accept8(p)
  <2>1. /\ e.op = "accept" /\ step[p] <= Len(Script(p)) /\ state[p] = "up"
        /\ Go(p) \/ Exit(p)
        /\ UNCHANGED <<owner, nsfd8, stu>>
        /\ pend' = [pend EXCEPT ![<<p, e.name>>] = @ - 1] /\ pend[<<p, e.name>>] > 0
    BY <1>3, <1>n DEF accept8, At2
  <2>2. /\ pend' \in [Programs2 \X Names -> Nat]
        /\ \A x \in Programs2 \X Names : pend'[x] <= pend[x]
    <3> DEFINE x == <<p, e.name>>
    <3>1. x \in Programs2 \X Names /\ pend[x] \in Nat /\ pend[x] - 1 \in Nat
      <4>1. x \in Programs2 \X Names
        OBVIOUS
      <4>2. pend[x] \in Nat /\ pend[x] > 0
        BY <1>t, <2>1, <4>1
      <4> QED
        BY <4>1, <4>2
    <3>2. pend' = [pend EXCEPT ![x] = pend[x] - 1]
      BY <2>1
    <3> HIDE DEF x
    <3> QED
      BY <1>t, <3>1, <3>2
  <2>3. PlType'
    BY <1>g, <2>1, <2>2 DEF PlType
  <2>4. Call(p, e)
    BY <1>g, <2>1, <2>2 DEF Call
  <2> QED
    BY <2>1, <2>3, <2>4
<1> QED
  BY <1>1, <1>2, <1>3 DEF StartUp

\* The steps of the start-up, of each program.
LEMMA StartKeeps ==
  ASSUME PlInv, NEW p \in Programs2, StartUp(p)
  PROVE  PlInv'
<1> DEFINE e == Script(p)[step[p]]
<1>t. PlType /\ StartInv /\ KillInv
  BY DEF PlInv
<1>p. p \in {"AT", "R1", "R2", "R3"}
  BY DEF Programs2, Rounds3
<1>s. step[p] \in 1..7 /\ step[p] <= Len(Script(p))
  <2>1. step[p] \in 1..7
    BY <1>t, <1>p DEF StartInv
  <2>2. step[p] <= Len(Script(p))
    BY DEF StartUp, cli_conn8, serv_listen8, accept8, At2
  <2> QED
    BY <2>1, <2>2
<1>e. /\ p = "AT" => \/ step[p] \in 1..3 /\ e.op = "listen" /\ e.name \in {"fsock1", "fsock2", "fsock3"}
                     \/ step[p] \in 4..5 /\ e.op = "accept" /\ e.name \in {"fsock1", "fsock2"}
                     \/ step[p] = 6 /\ e.op = "accept" /\ e.name = "fsock3"
      /\ p = "R1" => \/ step[p] = 1 /\ e.op = "conn" /\ e.name = "fsock1"
                     \/ step[p] \in 2..3 /\ e.op = "listen" /\ e.name \in {"fsock4", "fscok5"}
                     \/ step[p] = 4 /\ e.op = "accept" /\ e.name = "fsock4"
                     \/ step[p] = 5 /\ e.op = "accept" /\ e.name = "fscok5"
      /\ p = "R2" => \/ step[p] = 1 /\ e.op = "conn" /\ e.name = "fsock2"
                     \/ step[p] = 2 /\ e.op = "conn" /\ e.name = "fsock4"
                     \/ step[p] = 3 /\ e.op = "listen" /\ e.name = "fsock4"
                     \/ step[p] = 4 /\ e.op = "listen" /\ e.name = "fscok6"
                     \/ step[p] = 5 /\ e.op = "accept" /\ e.name = "fsock4"
      /\ p = "R3" => \/ step[p] = 1 /\ e.op = "conn" /\ e.name = "fsock3"
                     \/ step[p] = 2 /\ e.op = "conn" /\ e.name = "fsock6"
  <2>1. CASE p = "AT"
    <3>1. step[p] \in {1, 2, 3, 4, 5, 6}
      <4>1. Len(Script(p)) = 6
        BY <2>1, Scripts
      <4> QED
        BY <1>s, <4>1
    <3> QED
      BY <2>1, <3>1, Scripts DEF conn, listen, accept
  <2>2. CASE p = "R1"
    <3>1. step[p] \in {1, 2, 3, 4, 5}
      BY <1>t, <2>2 DEF StartInv
    <3> QED
      BY <2>2, <3>1, Scripts DEF conn, listen, accept
  <2>3. CASE p = "R2"
    <3>1. step[p] \in {1, 2, 3, 4, 5}
      BY <1>t, <2>3 DEF StartInv
    <3> QED
      BY <2>3, <3>1, Scripts DEF conn, listen, accept
  <2>4. CASE p = "R3"
    <3>1. step[p] \in {1, 2}
      BY <1>t, <2>4 DEF StartInv
    <3> QED
      BY <2>4, <3>1, Scripts DEF conn, listen, accept
  <2> QED
    BY <1>p, <2>1, <2>2, <2>3, <2>4
<1>f. e = Script(p)[step[p]]
  OBVIOUS
<1> HIDE DEF e
<1>n. e.name \in Names
  BY <1>p, <1>e DEF Names
<1>c. PlType' /\ Call(p, e) /\ state[p] = "up"
  BY <1>t, <1>n, <1>f, CallIs
<1>m. /\ "AT" \in Programs2 /\ "R1" \in Programs2 /\ "R2" \in Programs2 /\ "R3" \in Programs2
      /\ "fsock6" \in Names /\ "fsock4" \in Names /\ "fscok5" \in Names /\ "fsock3" \in Names
  BY DEF Programs2, Rounds3, Names
<1>x. /\ \A q \in Programs2 : step[q] \in Nat
      /\ pend[<<"R2", "fsock4">>] \in Nat /\ pend'[<<"R2", "fsock4">>] \in Nat
      /\ pend[<<"R1", "fscok5">>] \in Nat /\ pend'[<<"R1", "fscok5">>] \in Nat
      /\ pend[<<"AT", "fsock3">>] \in Nat /\ pend'[<<"AT", "fsock3">>] \in Nat
  BY <1>t, <1>c, <1>m DEF PlType
<1>1. /\ step'["AT"] \in 1..7 /\ step'["R1"] \in 1..5 /\ step'["R2"] \in 1..5
      /\ step'["R3"] \in 1..2
  <2>1. \A q \in Programs2 : q # p => step'[q] = step[q]
    BY <1>c DEF Call
  <2>2. step'[p] = step[p] + 1 \/ step'[p] = step[p]
    BY <1>c DEF Call
  <2>3. p = "R1" /\ step[p] = 5 => pend[<<"R1", "fscok5">>] > 0
    BY <1>c, <1>e DEF Call
  <2>4. p = "R2" /\ step[p] = 5 => pend[<<"R2", "fsock4">>] > 0
    BY <1>c, <1>e DEF Call
  <2>5. p = "R3" /\ step[p] = 2 => step'[p] = step[p]
    BY <1>t, <1>c, <1>e DEF Call, StartInv
  <2> QED
    BY <1>t, <1>p, <1>s, <1>m, <1>e, <2>1, <2>2, <2>3, <2>4, <2>5 DEF StartInv
<1>2. /\ owner'["fsock6"] = "nobody"
      /\ owner'["fsock4"] = "R2" => step'["R2"] > 3
  <2>1. owner'["fsock6"] = "nobody"
    BY <1>t, <1>c, <1>e, <1>m, <1>p DEF Call, StartInv
  <2>2. ASSUME owner'["fsock4"] = "R2"
        PROVE  step'["R2"] > 3
    <3>1. CASE owner["fsock4"] = "R2"
      BY <1>t, <1>c, <1>m, <1>x, <3>1 DEF Call, StartInv
    <3>2. CASE owner["fsock4"] # "R2"
      <4>1. /\ p = "R2" /\ e.op = "listen" /\ e.name = "fsock4" /\ step'[p] = step[p] + 1
        BY <1>c, <1>m, <2>2, <3>2 DEF Call
      <4> QED
        BY <1>e, <4>1
    <3> QED
      BY <3>1, <3>2
  <2> QED
    BY <2>1, <2>2
<1>3. pend'[<<"R2", "fsock4">>] = 0 /\ pend'[<<"R1", "fscok5">>] = 0
  <2>1. ~(e.op = "conn" /\ "fsock4" = e.name /\ "R2" = owner["fsock4"])
    BY <1>t, <1>e, <1>p DEF StartInv
  <2>2. ~(e.op = "conn" /\ "fscok5" = e.name)
    BY <1>e, <1>p
  <2>3. /\ pend'[<<"R2", "fsock4">>] <= pend[<<"R2", "fsock4">>]
        /\ pend'[<<"R1", "fscok5">>] <= pend[<<"R1", "fscok5">>]
    BY <1>c, <1>m, <2>1, <2>2 DEF Call
  <2> QED
    BY <1>t, <1>x, <2>3 DEF StartInv
<1>4. ASSUME pend'[<<"AT", "fsock3">>] > 0 \/ step'["AT"] > 6
      PROVE  step'["R3"] > 1
  <2>1. step'["R3"] >= step["R3"] /\ step["R3"] \in 1..2
    BY <1>t, <1>c, <1>m, <1>x DEF Call, StartInv
  <2>2. CASE pend[<<"AT", "fsock3">>] > 0 \/ step["AT"] > 6
    BY <1>t, <1>1, <2>1, <2>2 DEF StartInv
  <2>3. CASE ~(pend[<<"AT", "fsock3">>] > 0 \/ step["AT"] > 6)
    <3>1. CASE pend'[<<"AT", "fsock3">>] > 0
      <4>1. ~(pend'[<<"AT", "fsock3">>] <= pend[<<"AT", "fsock3">>])
        BY <1>x, <2>3, <3>1
      <4>2. e.op = "conn" /\ e.name = "fsock3" /\ step'[p] = step[p] + 1
        BY <1>c, <1>m, <4>1 DEF Call
      <4>3. p = "R3"
        BY <1>e, <1>p, <4>2
      <4> QED
        BY <2>1, <4>2, <4>3
    <3>2. CASE step'["AT"] > 6
      <4>1. p = "AT" /\ step[p] = 6
        BY <1>c, <1>m, <1>x, <2>3, <3>2, <1>p DEF Call
      <4>2. e.op = "accept" /\ e.name = "fsock3"
        BY <1>e, <4>1
      <4>3. pend[<<"AT", "fsock3">>] > 0
        BY <1>c, <4>1, <4>2 DEF Call
      <4> QED
        BY <2>3, <4>3
    <3> QED
      BY <1>4, <3>1, <3>2
  <2> QED
    BY <2>2, <2>3
<1>5. StartInv'
  BY <1>1, <1>2, <1>3, <1>4 DEF StartInv
<1>6. KillInv'
  <2>1. /\ nsfd8' = nsfd8 /\ stu' = stu
        /\ \A q \in Programs2 : state'[q] = state[q] \/ state'[q] = "exited"
    BY <1>c DEF Call
  <2> QED
    BY <1>t, <1>m, <2>1 DEF KillInv
<1> QED
  BY <1>c, <1>5, <1>6 DEF PlInv

\* AT serves whoever can be read: only the third student and the ones after it
\* go to R3.
LEMMA ServeKeeps ==
  ASSUME PlInv, NEW i \in DOMAIN nsfd8, at_serve(i)
  PROVE  PlInv'
<1>t. PlType /\ StartInv /\ KillInv
  BY DEF PlInv
<1>1. UNCHANGED <<step, owner, pend, nsfd8, stu>>
  BY DEF at_serve
<1>2. \/ UNCHANGED state
      \/ state' = [state EXCEPT !["AT"] = "killed"]
  BY DEF at_serve, send_fd8
<1>3. "AT" \in Programs2 /\ "R1" \in Programs2 /\ "R2" \in Programs2 /\ "R3" \in Programs2
  BY DEF Programs2, Rounds3
<1>4. PlType'
  BY <1>t, <1>1, <1>2 DEF PlType
<1>5. StartInv'
  BY <1>t, <1>1 DEF StartInv
<1>i. i \in 1..Len(nsfd8) /\ Len(nsfd8) \in Nat /\ nsfd8[i] \in Students
  BY <1>t DEF PlType
<1>6. ASSUME state'["AT"] = "killed", ~UNCHANGED state
      PROVE  KillInv'
  <2>1. \/ stu[nsfd8[i]] = "left"
        \/ state[Target8(i)] # "up"
    BY <1>6 DEF at_serve, send_fd8
  <2>2. \/ Target8(i) \in {"R1", "R2"}
        \/ Target8(i) = "R3" /\ i >= 3
    BY <1>i DEF Target8
  <2>3. state'["R1"] = state["R1"] /\ state'["R2"] = state["R2"]
    BY <1>t, <1>2, <1>3 DEF PlType
  <2>4. CASE stu[nsfd8[i]] = "left"
    BY <1>1, <1>i, <2>4 DEF KillInv
  <2>5. CASE state[Target8(i)] # "up" /\ Target8(i) \in {"R1", "R2"}
    BY <2>3, <2>5 DEF KillInv
  <2>6. CASE Target8(i) = "R3" /\ i >= 3
    <3>1. Len(nsfd8) >= 3
      BY <1>i, <2>6
    <3> QED
      BY <1>1, <3>1 DEF KillInv
  <2> QED
    BY <2>1, <2>2, <2>4, <2>5, <2>6
<1>7. KillInv'
  <2>1. CASE UNCHANGED state
    BY <1>t, <1>1, <2>1 DEF KillInv
  <2>2. CASE state'["AT"] # "killed"
    BY <2>2 DEF KillInv
  <2> QED
    BY <1>6, <2>1, <2>2
<1> QED
  BY <1>4, <1>5, <1>7 DEF PlInv

LEMMA PlStep == PlInv /\ (NextPl \/ UNCHANGED varsPl) => PlInv'
<1> SUFFICES ASSUME PlInv, NextPl \/ UNCHANGED varsPl PROVE PlInv'
  OBVIOUS
<1>t. PlType /\ StartInv /\ KillInv
  BY DEF PlInv
<1>1. CASE AT_main \/ R1_main \/ R2_main \/ R3_main
  <2>1. StartUp("AT") \/ StartUp("R1") \/ StartUp("R2") \/ StartUp("R3")
    BY <1>1 DEF AT_main, R1_main, R2_main, R3_main, StartUp
  <2>2. "AT" \in Programs2 /\ "R1" \in Programs2 /\ "R2" \in Programs2 /\ "R3" \in Programs2
    BY DEF Programs2, Rounds3
  <2> QED
    BY <2>1, <2>2, StartKeeps
<1>2. CASE at_accept
  <2>1. PICK s \in New : stu' = [stu EXCEPT ![s] = "open"] /\ nsfd8' = Append(nsfd8, s)
    BY <1>2 DEF at_accept
  <2>2. s \in Students /\ stu[s] = "wait"
    BY DEF New
  <2>3. UNCHANGED <<step, state, owner, pend>>
    BY <1>2 DEF at_accept
  <2>4. /\ nsfd8' \in Seq(Students) /\ Len(nsfd8') = Len(nsfd8) + 1 /\ Len(nsfd8) \in Nat
    BY <1>t, <2>1, <2>2 DEF PlType
  <2>5. PlType'
    BY <1>t, <2>1, <2>2, <2>3, <2>4 DEF PlType
  <2>6. \A q \in Students : stu[q] = "left" => stu'[q] = "left"
    BY <1>t, <2>1, <2>2 DEF PlType
  <2>7. KillInv'
    BY <1>t, <2>3, <2>4, <2>6 DEF KillInv
  <2> QED
    BY <1>t, <2>3, <2>5, <2>7 DEF PlInv, StartInv
<1>3. ASSUME NEW i \in DOMAIN nsfd8, at_serve(i) PROVE PlInv'
  BY <1>3, ServeKeeps
<1>4. ASSUME NEW s \in Students, student(s) PROVE PlInv'
  <2>1. UNCHANGED <<step, state, owner, pend, nsfd8>>
    BY <1>4 DEF student
  <2>2. stu' \in [Students -> {"off", "new", "wait", "open", "left"}]
    BY <1>4, <1>t DEF student, PlType
  <2>3. \A q \in Students : stu[q] = "left" => stu'[q] = "left"
    BY <1>4, <1>t DEF student, PlType
  <2>4. PlType'
    BY <1>t, <2>1, <2>2 DEF PlType
  <2> QED
    BY <1>t, <2>1, <2>3, <2>4 DEF PlInv, StartInv, KillInv
<1>5. CASE UNCHANGED varsPl
  BY <1>t, <1>5 DEF varsPl, PlInv, PlType, StartInv, KillInv
<1> QED
  BY <1>1, <1>2, <1>3, <1>4, <1>5 DEF NextPl, AT

LEMMA PlStuck == PlInv => NoRoundStarts /\ ThirdStudentKills
<1> SUFFICES ASSUME PlInv PROVE NoRoundStarts /\ ThirdStudentKills
  OBVIOUS
<1>1. StartInv /\ KillInv
  BY DEF PlInv
<1>2. NoRoundStarts
  <2>1. ~InLoop("R1") /\ ~InLoop("R2") /\ ~InLoop("R3")
    BY <1>1, Scripts DEF InLoop, StartInv
  <2> QED
    BY <2>1 DEF NoRoundStarts, Rounds3
<1>3. ThirdStudentKills
  <2>1. InLoop("AT") => step["R3"] > 1
    BY <1>1, Scripts DEF InLoop, StartInv
  <2> QED
    BY <1>1, <2>1 DEF ThirdStudentKills, KillInv
<1> QED
  BY <1>2, <1>3
-----------------------------------------------------------------------------
(* UdpServers: whose datagram is where. *)

UdpType ==
  /\ dgrams \in Seq(UdpClients) /\ peer \in UdpClients
  /\ uc \in [UdpClients -> {"type", "wait", "done"}]
  /\ asks \in [UdpClients -> Nat] /\ answers \in [UdpClients -> Nat]

\* A client's datagram is in the chat server's hands.
InHand(c) == uprog = "chat" /\ usv = "answer" /\ peer = c

\* A client that does not wait has no datagram anywhere, one that waits has one.
UdpInv ==
  /\ UdpType
  /\ \A c \in UdpClients : asks[c] = answers[c] + (IF uc[c] = "wait" THEN 1 ELSE 0)
  /\ \A i \in 1..Len(dgrams) : uc[dgrams[i]] = "wait"
  /\ \A i, j \in 1..Len(dgrams) : dgrams[i] = dgrams[j] => i = j
  /\ \A c \in UdpClients : InHand(c) => uc[c] = "wait" /\ ~Contains(dgrams, c)
  /\ \A c \in UdpClients : uc[c] = "wait" /\ c \notin lostd /\ usv # "end" =>
       Contains(dgrams, c) \/ InHand(c)

LEMMA UdpInit == InitUdp \/ IdleUdp => UdpInv
<1> SUFFICES ASSUME InitUdp \/ IdleUdp PROVE UdpInv
  OBVIOUS
<1>1. /\ dgrams = <<>> /\ peer \in UdpClients /\ usv # "answer"
      /\ uc = [c \in UdpClients |-> "type"]
      /\ asks = [c \in UdpClients |-> 0] /\ answers = [c \in UdpClients |-> 0]
  BY DEF InitUdp, IdleUdp, BlankUdp
<1>2. dgrams \in Seq(UdpClients) /\ Len(dgrams) = 0
  BY <1>1, Empty
<1>3. UdpType
  BY <1>1, <1>2 DEF UdpType
<1> QED
  BY <1>1, <1>2, <1>3 DEF UdpInv, InHand

\* The server receives the first datagram and answers it.
LEMMA AnswerFirst ==
  ASSUME UdpInv, uprog # "chat", Recvfrom, Sendto(Head(dgrams)),
         UNCHANGED <<uprog, asks, lostd>>, usv' = "end" \/ usv # "end"
  PROVE  UdpInv'
<1> DEFINE h == Head(dgrams)
<1>t. /\ UdpType /\ dgrams \in Seq(UdpClients) /\ dgrams # <<>>
      /\ \A i, j \in 1..Len(dgrams) : dgrams[i] = dgrams[j] => i = j
      /\ \A i \in 1..Len(dgrams) : uc[dgrams[i]] = "wait"
  BY DEF UdpInv, UdpType, Recvfrom
<1>1. /\ h = dgrams[1] /\ 1 \in 1..Len(dgrams) /\ h \in UdpClients
      /\ dgrams' \in Seq(UdpClients)
      /\ \A i \in 1..Len(dgrams') :
           /\ i + 1 \in 1..Len(dgrams) /\ dgrams'[i] = dgrams[i + 1] /\ dgrams'[i] # h
      /\ \A i, j \in 1..Len(dgrams') : dgrams'[i] = dgrams'[j] => i = j
      /\ \A e \in UdpClients : e # h /\ Contains(dgrams, e) => Contains(dgrams', e)
  <2>1. dgrams' = Tail(dgrams)
    BY DEF Recvfrom
  <2> QED
    BY <1>t, <2>1, WithoutFirst
<1>2. uc[h] = "wait" /\ peer' = h
  BY <1>t, <1>1 DEF Recvfrom
<1>3. /\ answers' = [answers EXCEPT ![h] = @ + 1]
      /\ uc' = [uc EXCEPT ![h] = "done"]
  BY DEF Sendto
<1> HIDE DEF h
<1>4. UdpType'
  BY <1>t, <1>1, <1>2, <1>3 DEF UdpType
<1>5. \A c \in UdpClients : asks'[c] = answers'[c] + (IF uc'[c] = "wait" THEN 1 ELSE 0)
  BY <1>t, <1>1, <1>2, <1>3 DEF UdpInv, UdpType
<1>6. \A i \in 1..Len(dgrams') : uc'[dgrams'[i]] = "wait"
  <2> TAKE i \in 1..Len(dgrams')
  <2>1. uc[dgrams'[i]] = "wait" /\ dgrams'[i] # h /\ dgrams'[i] \in UdpClients
    BY <1>t, <1>1
  <2> QED
    BY <1>t, <1>3, <2>1 DEF UdpType
<1>7. \A c \in UdpClients : ~InHand(c)' /\ ~InHand(c)
  BY DEF InHand
<1>8. ASSUME NEW c \in UdpClients, uc'[c] = "wait", c \notin lostd, usv' # "end"
      PROVE  Contains(dgrams', c)
  <2>1. c # h /\ uc[c] = "wait"
    BY <1>t, <1>1, <1>3, <1>8 DEF UdpType
  <2>2. Contains(dgrams, c)
    BY <1>7, <1>8, <2>1 DEF UdpInv
  <2> QED
    BY <1>1, <2>1, <2>2
<1> QED
  BY <1>1, <1>4, <1>5, <1>6, <1>7, <1>8 DEF UdpInv

\* A client sends a datagram.
LEMMA AskKeeps ==
  ASSUME UdpInv, NEW c \in UdpClients, Ask(c)
  PROVE  UdpInv'
<1>t. /\ UdpType /\ dgrams \in Seq(UdpClients)
      /\ uc \in [UdpClients -> {"type", "wait", "done"}]
  BY DEF UdpInv, UdpType
<1>1. /\ uc[c] = "type" /\ uc' = [uc EXCEPT ![c] = "wait"]
      /\ asks' = [asks EXCEPT ![c] = @ + 1]
      /\ UNCHANGED <<uprog, usv, peer, answers>>
  BY DEF Ask
<1>2. \/ dgrams' = Append(dgrams, c) /\ UNCHANGED lostd
      \/ lostd' = lostd \cup {c} /\ UNCHANGED dgrams
  BY DEF Ask
<1>3. \A d \in UdpClients : InHand(d)' <=> InHand(d)
  BY <1>1 DEF InHand
<1>4. /\ \A i \in 1..Len(dgrams) : dgrams[i] # c
      /\ ~InHand(c)
  BY <1>1 DEF UdpInv
<1>5. /\ dgrams' \in Seq(UdpClients)
      /\ \A i \in 1..Len(dgrams') :
           dgrams'[i] = c \/ (i \in 1..Len(dgrams) /\ dgrams'[i] = dgrams[i])
      /\ \A i, j \in 1..Len(dgrams') : dgrams'[i] = dgrams'[j] => i = j
      /\ \A d : Contains(dgrams, d) => Contains(dgrams', d)
      /\ \A d : d # c /\ Contains(dgrams', d) => Contains(dgrams, d)
      /\ c \notin lostd' => Contains(dgrams', c)
  <2>1. CASE dgrams' = Append(dgrams, c) /\ UNCHANGED lostd
    <3> HIDE DEF UdpInv
    <3>1. /\ dgrams' \in Seq(UdpClients) /\ Len(dgrams') = Len(dgrams) + 1
          /\ Len(dgrams) \in Nat /\ dgrams'[Len(dgrams) + 1] = c
          /\ \A j \in 1..Len(dgrams) : dgrams'[j] = dgrams[j] /\ j \in 1..Len(dgrams')
          /\ \A j \in 1..Len(dgrams') : j = Len(dgrams) + 1 \/ j \in 1..Len(dgrams)
      BY <1>t, <2>1, More
    <3>2. \A i \in 1..Len(dgrams') :
            dgrams'[i] = c \/ (i \in 1..Len(dgrams) /\ dgrams'[i] = dgrams[i])
      BY <3>1
    <3>3. \A i, j \in 1..Len(dgrams') : dgrams'[i] = dgrams'[j] => i = j
      <4> TAKE i, j \in 1..Len(dgrams')
      <4>1. \A k, l \in 1..Len(dgrams) : dgrams[k] = dgrams[l] => k = l
        BY DEF UdpInv
      <4> QED
        BY <1>4, <3>1, <4>1
    <3>4. \A d : Contains(dgrams, d) => Contains(dgrams', d)
      BY <3>1 DEF Contains
    <3>5. Len(dgrams) + 1 \in 1..Len(dgrams')
      BY <3>1
    <3>7. \A d : d # c /\ Contains(dgrams', d) => Contains(dgrams, d)
      BY <3>2 DEF Contains
    <3>6. Contains(dgrams', c)
      BY <3>1, <3>5 DEF Contains
    <3> QED
      BY <3>1, <3>2, <3>3, <3>4, <3>6, <3>7
  <2>2. CASE lostd' = lostd \cup {c} /\ UNCHANGED dgrams
    BY <1>t, <2>2 DEF UdpInv
  <2> QED
    BY <1>2, <2>1, <2>2
<1>6. UdpType'
  BY <1>t, <1>1, <1>5 DEF UdpType
<1>7. \A d \in UdpClients : asks'[d] = answers'[d] + (IF uc'[d] = "wait" THEN 1 ELSE 0)
  BY <1>t, <1>1 DEF UdpInv, UdpType
<1>8. \A i \in 1..Len(dgrams') : uc'[dgrams'[i]] = "wait"
  <2> SUFFICES ASSUME NEW i \in 1..Len(dgrams')
               PROVE  uc'[dgrams'[i]] = "wait"
    OBVIOUS
  <2>1. CASE dgrams'[i] = c
    BY <1>t, <1>1, <2>1
  <2>2. CASE i \in 1..Len(dgrams) /\ dgrams'[i] = dgrams[i]
    <3>1. uc[dgrams[i]] = "wait" /\ dgrams[i] \in UdpClients
      BY <1>t, <2>2 DEF UdpInv
    <3> QED
      BY <1>t, <1>1, <2>2, <3>1
  <2> QED
    BY <1>5, <2>1, <2>2
<1>9. \A d \in UdpClients : InHand(d)' => uc'[d] = "wait" /\ ~Contains(dgrams', d)
  <2> SUFFICES ASSUME NEW d \in UdpClients, InHand(d)'
               PROVE  uc'[d] = "wait" /\ ~Contains(dgrams', d)
    OBVIOUS
  <2>1. InHand(d) /\ d # c
    BY <1>3, <1>4
  <2>2. uc[d] = "wait" /\ ~Contains(dgrams, d)
    BY <2>1 DEF UdpInv
  <2> QED
    BY <1>t, <1>1, <1>5, <2>1, <2>2
<1>10. ASSUME NEW d \in UdpClients, uc'[d] = "wait", d \notin lostd', usv' # "end"
       PROVE  Contains(dgrams', d) \/ InHand(d)'
  <2>1. CASE d = c
    BY <1>5, <1>10, <2>1
  <2>2. CASE d # c
    <3>1. uc[d] = "wait" /\ d \notin lostd /\ usv # "end"
      BY <1>t, <1>1, <1>2, <1>10, <2>2
    <3>2. Contains(dgrams, d) \/ InHand(d)
      BY <3>1 DEF UdpInv
    <3> QED
      BY <1>3, <1>5, <3>2
  <2> QED
    BY <2>1, <2>2
<1> QED
  BY <1>5, <1>6, <1>7, <1>8, <1>9, <1>10 DEF UdpInv

\* A step that moves no datagram.
LEMMA NothingMoves ==
  ASSUME UdpInv, UNCHANGED <<uprog, dgrams, peer, uc, asks, answers, lostd>>,
         usv # "end" \/ usv' = "end",
         uprog = "chat" => (usv' = "answer" <=> usv = "answer")
  PROVE  UdpInv'
<1>1. InHand(peer)' <=> InHand(peer)
  BY DEF InHand
<1>2. \A c : InHand(c)' <=> InHand(c)
  BY DEF InHand
<1> QED
  BY <1>2 DEF UdpInv, UdpType

LEMMA UdpStep == UdpInv /\ (NextUdp \/ UNCHANGED varsUdp) => UdpInv'
<1> SUFFICES ASSUME UdpInv, NextUdp \/ UNCHANGED varsUdp PROVE UdpInv'
  OBVIOUS
<1>t. /\ UdpType /\ dgrams \in Seq(UdpClients)
      /\ \A i, j \in 1..Len(dgrams) : dgrams[i] = dgrams[j] => i = j
  BY DEF UdpInv, UdpType
<1>1. ASSUME NEW k, StartUdp(k) PROVE UdpInv'
  BY <1>1, NothingMoves DEF StartUdp
<1>2. CASE basic_serve
  BY <1>2, AnswerFirst DEF basic_serve
<1>3. CASE chat_recv
  <2>1. /\ uprog = "chat" /\ uprog' = "chat" /\ usv = "wait" /\ usv' = "answer"
        /\ dgrams # <<>> /\ dgrams' = Tail(dgrams) /\ peer' = Head(dgrams)
        /\ UNCHANGED <<uc, asks, answers, lostd>>
    BY <1>3 DEF chat_recv, Recvfrom
  <2> DEFINE h == Head(dgrams)
  <2>2. /\ h = dgrams[1] /\ 1 \in 1..Len(dgrams) /\ h \in UdpClients
        /\ dgrams' \in Seq(UdpClients)
        /\ \A i \in 1..Len(dgrams') :
             /\ i + 1 \in 1..Len(dgrams) /\ dgrams'[i] = dgrams[i + 1] /\ dgrams'[i] # h
        /\ \A i, j \in 1..Len(dgrams') : dgrams'[i] = dgrams'[j] => i = j
        /\ \A e \in UdpClients : e # h /\ Contains(dgrams, e) => Contains(dgrams', e)
    BY <1>t, <2>1, WithoutFirst
  <2>3. peer' = h
    BY <2>1
  <2> HIDE DEF h
  <2>4. \A c \in UdpClients : InHand(c)' <=> c = h
    BY <2>1, <2>3 DEF InHand
  <2>5. UdpType'
    BY <1>t, <2>1, <2>2, <2>3 DEF UdpType
  <2>6. \A i \in 1..Len(dgrams') : uc'[dgrams'[i]] = "wait"
    BY <2>1, <2>2 DEF UdpInv
  <2>7. uc'[h] = "wait" /\ ~Contains(dgrams', h)
    BY <2>1, <2>2 DEF UdpInv, Contains
  <2>8. ASSUME NEW c \in UdpClients, uc'[c] = "wait", c \notin lostd'
        PROVE  Contains(dgrams', c) \/ InHand(c)'
    <3>1. Contains(dgrams, c)
      BY <2>1, <2>8 DEF UdpInv, InHand
    <3> QED
      BY <2>2, <2>4, <3>1
  <2>9. \A c \in UdpClients : asks'[c] = answers'[c] + (IF uc'[c] = "wait" THEN 1 ELSE 0)
    BY <2>1 DEF UdpInv
  <2> QED
    BY <2>2, <2>4, <2>5, <2>6, <2>7, <2>8, <2>9 DEF UdpInv
<1>4. CASE chat_send
  <2>1. /\ uprog = "chat" /\ usv = "answer" /\ usv' = "wait"
        /\ answers' = [answers EXCEPT ![peer] = @ + 1]
        /\ uc' = [uc EXCEPT ![peer] = "type"]
        /\ UNCHANGED <<uprog, dgrams, peer, asks, lostd>>
    BY <1>4 DEF chat_send, Sendto
  <2>2. peer \in UdpClients /\ uc[peer] = "wait" /\ InHand(peer)
    BY <1>t, <2>1 DEF UdpInv, UdpType, InHand
  <2>3. \A i \in 1..Len(dgrams) : dgrams[i] # peer /\ dgrams[i] \in UdpClients
    BY <1>t, <2>2 DEF UdpInv, Contains
  <2>4. UdpType'
    BY <1>t, <2>1 DEF UdpType
  <2>5. \A c : ~InHand(c)'
    BY <2>1 DEF InHand
  <2>6. \A c \in UdpClients : asks'[c] = answers'[c] + (IF uc'[c] = "wait" THEN 1 ELSE 0)
    BY <1>t, <2>1, <2>2 DEF UdpInv, UdpType
  <2>7. \A i \in 1..Len(dgrams) : uc'[dgrams[i]] = "wait"
    BY <1>t, <2>1, <2>3 DEF UdpInv, UdpType
  <2>8. \A c \in UdpClients : uc'[c] = "wait" => uc[c] = "wait" /\ ~InHand(c)
    BY <1>t, <2>1, <2>2 DEF UdpType, InHand
  <2> QED
    BY <2>1, <2>4, <2>5, <2>6, <2>7, <2>8 DEF UdpInv
<1>5. CASE udp_select
  <2>1. /\ uprog # "chat" /\ usv = "wait"
        /\ UNCHANGED <<uprog, dgrams, peer, uc, asks, answers, lostd>>
    BY <1>5 DEF udp_select, Selecting
  <2> QED
    BY <2>1, NothingMoves
<1>6. ASSUME NEW s, accept_tcp(s) PROVE UdpInv'
  <2>1. UNCHANGED <<uprog, usv, dgrams, peer, uc, asks, answers, lostd>>
    BY <1>6 DEF accept_tcp
  <2> QED
    BY <2>1, NothingMoves
<1>7. ASSUME NEW k \in {"one", "two"}, serve_dgram(k) PROVE UdpInv'
  <2>1. uprog # "chat" /\ usv = "answer" /\ usv' = "wait" /\ UNCHANGED <<uprog, asks, lostd>>
    BY <1>7 DEF serve_dgram
  <2>2. CASE 0 \in ready
    BY <1>7, <2>1, <2>2, AnswerFirst DEF serve_dgram
  <2>3. CASE 0 \notin ready
    <3>1. UNCHANGED <<dgrams, peer, uc, answers>>
      BY <1>7, <2>3 DEF serve_dgram
    <3> QED
      BY <2>1, <3>1, NothingMoves
  <2> QED
    BY <2>2, <2>3
<1>8. ASSUME NEW c, NEW s, child(c) \/ Tcp(c, s) PROVE UdpInv'
  <2>1. UNCHANGED <<uprog, usv, dgrams, peer, uc, asks, answers, lostd>>
    BY <1>8 DEF child, Tcp
  <2> QED
    BY <2>1, NothingMoves
<1>9. CASE UNCHANGED varsUdp
  BY <1>9, NothingMoves DEF varsUdp
<1>10. CASE StartAny \/ UdpServer
  BY <1>1, <1>2, <1>3, <1>4, <1>5, <1>6, <1>7, <1>10
     DEF StartAny, UdpServer, start_basic, start_chat, start_one, start_two,
         one_accept, two_accept, two_accept2, one_udp, two_udp
<1>11. ASSUME NEW c \in TcpClients,
              \/ one_child(c) \/ two_child(c) \/ one_tcp_client(c)
              \/ two_tcp_client1(c) \/ two_tcp_client2(c)
       PROVE  UdpInv'
  <2>1. child(c) \/ Tcp(c, 1) \/ Tcp(c, 2)
    BY <1>11 DEF one_child, two_child, one_tcp_client, two_tcp_client1, two_tcp_client2
  <2> QED
    BY <1>8, <2>1
<1>12. ASSUME NEW c \in UdpClients,
              \/ basic_client(c) \/ chat_client(c)
              \/ one_udp_client(c) \/ two_udp_client(c)
       PROVE  UdpInv'
  <2>1. Ask(c)
    BY <1>12 DEF basic_client, chat_client, one_udp_client, two_udp_client
  <2> QED
    BY <2>1, AskKeeps
<1> QED
  BY <1>9, <1>10, <1>11, <1>12 DEF NextUdp

LEMMA UdpAnswers == UdpInv => AnswersMatch
<1> SUFFICES ASSUME UdpInv, NEW c \in UdpClients
             PROVE  /\ asks[c] - answers[c] = (IF uc[c] = "wait" THEN 1 ELSE 0)
                    /\ uc[c] = "wait" /\ c \notin lostd /\ usv # "end" =>
                         Contains(dgrams, c) \/ (uprog = "chat" /\ usv = "answer" /\ peer = c)
  BY DEF AnswersMatch
<1>1. answers[c] \in Nat /\ asks[c] \in Nat
  BY DEF UdpInv, UdpType
<1>2. asks[c] - answers[c] = (IF uc[c] = "wait" THEN 1 ELSE 0)
  BY <1>1 DEF UdpInv
<1> QED
  BY <1>2 DEF UdpInv, InHand
-----------------------------------------------------------------------------
(* SelectChat: before the first client has gone, every line is in one place *)
(* on its way to each client.                                              *)

ChatLines == [name : Chatters \cup {""}, data : Nat]

SelType ==
  /\ nsfd \in Seq(Chatters) /\ backlog \in Seq(Chatters \X {1, 2})
  /\ newset \subseteq {1, 2} /\ marked \subseteq Nat /\ to \in [i : Nat, j : Nat]
  /\ smsg \in ChatLines
  /\ up2srv \in [Chatters -> Seq(ChatLines)] /\ down \in [Chatters -> Seq(ChatLines)]
  /\ saw \in [Chatters -> SUBSET ChatLines] /\ said \in [Chatters -> Nat]
  /\ ust \in [Chatters -> {"off", "new", "failed", "link", "in", "write", "left"}]

\* A line that has been typed, by the counts N.
Typed(N, m) == m.name \in Chatters /\ m.data \in 1..N[m.name]

\* d has printed m or has it coming: D is down, V is saw.
Got(D, V, d, m) == Contains(D[d], m) \/ m \in V[d]

\* What the server has not read, U, nobody has got, nor is it the line R that
\* is being passed on.
Upstream(U, D, V, N, R) ==
  \A c \in Chatters :
    /\ \A k \in 1..Len(U[c]) :
         /\ U[c][k].name = c /\ U[c][k].data \in 1..N[c] /\ U[c][k] \notin R
         /\ \A d \in Chatters : ~Got(D, V, d, U[c][k])
    /\ \A k, l \in 1..Len(U[c]) : U[c][k] = U[c][l] => k = l

\* To each client comes the greeting first and then typed lines, each one once.
Downstream(D, V, N, st) ==
  \A d \in Chatters :
    /\ \A k \in 1..Len(D[d]) :
         /\ IF D[d][k].data = Linked THEN k = 1 /\ st[d] = "link" ELSE Typed(N, D[d][k])
         /\ D[d][k] \notin V[d]
    /\ \A k, l \in 1..Len(D[d]) : D[d][k] = D[d][l] => k = l
    /\ \A m \in V[d] : Typed(N, m)

\* Every client is taken in once.
TakenIn ==
  /\ \A i, j \in 1..Len(nsfd) : nsfd[i] = nsfd[j] => i = j
  /\ \A i, j \in 1..Len(backlog) : backlog[i][1] = backlog[j][1] => i = j
  /\ \A i \in 1..Len(backlog) : ust[backlog[i][1]] = "link" /\ ~Contains(nsfd, backlog[i][1])
  /\ \A i \in 1..Len(nsfd) : ust[nsfd[i]] # "new"
  /\ \A c \in Chatters : ~Contains(nsfd, c) => down[c] = <<>>

\* What select has marked is there when the loop gets to it.
Marks ==
  /\ \A i \in marked : i \in 1..Len(nsfd) /\ up2srv[nsfd[i]] # <<>>
  /\ newset # {} => srv = "accept"
  /\ \A p \in newset : \E k \in 1..Len(backlog) : backlog[k][2] = p

Relayed == IF srv \in {"write", "answer"} THEN {smsg} ELSE {}

\* Those the line is still to be written to have not got it.
Relay ==
  /\ srv \in {"write", "answer"} =>
       Typed(said, smsg) /\ to.i \in 1..Len(nsfd) /\ to.j >= 1
  /\ srv = "write" => \A j \in 1..Len(nsfd) :
       j >= to.j /\ j # to.i => ~Got(down, saw, nsfd[j], smsg)
  /\ srv = "answer" => ~Got(down, saw, nsfd[to.i], smsg)

Quiet ==
  /\ srv # "dead" /\ rst = {} /\ ~phantom
  /\ TakenIn /\ Marks /\ Relay
  /\ Upstream(up2srv, down, saw, said, Relayed)
  /\ Downstream(down, saw, said, ust)

UstType == ust \in [Chatters -> {"off", "new", "failed", "link", "in", "write", "left"}]

SelInv == UstType /\ (SomebodyLeft \/ (SelType /\ Quiet))

\* Counts only grow.
LEMMA TypedStays ==
  ASSUME NEW N \in [Chatters -> Nat], NEW M \in [Chatters -> Nat],
         \A c \in Chatters : N[c] <= M[c], NEW m, Typed(N, m)
  PROVE  Typed(M, m)
<1>1. m.name \in Chatters /\ m.data \in 1..N[m.name] /\ N[m.name] <= M[m.name]
      /\ N[m.name] \in Nat /\ M[m.name] \in Nat
  BY DEF Typed
<1> QED
  BY <1>1 DEF Typed

LEMMA TypedIsNoGreeting ==
  ASSUME NEW N, NEW m, Typed(N, m)
  PROVE  m.data # Linked
BY DEF Typed, Linked

\* What c may be written: the greeting, or a typed line in R that c has not got.
MayGet(D, V, N, R, st, c, m) ==
  \/ m.data = Linked /\ D[c] = <<>> /\ st[c] = "link"
  \/ Typed(N, m) /\ m \in R /\ ~Got(D, V, c, m)

\* E is D after m has been written to c.
Writes(D, c, m, E) ==
  /\ E \in [Chatters -> Seq(ChatLines)] /\ E[c] = Append(D[c], m)
  /\ \A d \in Chatters : d # c => E[d] = D[d]

\* With E nobody has got more than with D, but c has got m.
GotOnly(D, V, c, m, E) ==
  \A d \in Chatters : \A x : Got(E, V, d, x) => Got(D, V, d, x) \/ (d = c /\ x = m)

\* Something is written to c.
LEMMA Written ==
  ASSUME NEW U, NEW D \in [Chatters -> Seq(ChatLines)], NEW V, NEW N, NEW R, NEW st,
         Upstream(U, D, V, N, R), Downstream(D, V, N, st),
         NEW c \in Chatters, NEW m \in ChatLines,
         MayGet(D, V, N, R, st, c, m), NEW E, Writes(D, c, m, E)
  PROVE  /\ Upstream(U, E, V, N, R) /\ Downstream(E, V, N, st)
         /\ GotOnly(D, V, c, m, E)
<1>0. \/ m.data = Linked /\ D[c] = <<>> /\ st[c] = "link"
      \/ Typed(N, m) /\ m \in R /\ ~Got(D, V, c, m)
  BY DEF MayGet
<1>1. E[c] = Append(D[c], m) /\ \A d \in Chatters : d # c => E[d] = D[d]
  BY DEF Writes
<1>2. D[c] \in Seq(ChatLines)
  OBVIOUS
<1>3. /\ Len(E[c]) = Len(D[c]) + 1 /\ Len(D[c]) \in Nat /\ E[c][Len(D[c]) + 1] = m
      /\ \A j \in 1..Len(D[c]) : E[c][j] = D[c][j] /\ j \in 1..Len(E[c])
      /\ \A j \in 1..Len(E[c]) : j = Len(D[c]) + 1 \/ j \in 1..Len(D[c])
  BY <1>1, <1>2, More
<1>4. \A x : Contains(E[c], x) => Contains(D[c], x) \/ x = m
  BY <1>3 DEF Contains
<1>5. ASSUME NEW d \in Chatters, NEW x, Got(E, V, d, x)
      PROVE  Got(D, V, d, x) \/ (d = c /\ x = m)
  <2>1. CASE d = c
    BY <1>4, <1>5, <2>1 DEF Got
  <2>2. CASE d # c
    BY <1>1, <1>5, <2>2 DEF Got
  <2> QED
    BY <2>1, <2>2
<1>6. Upstream(U, E, V, N, R)
  <2>1. ASSUME NEW a \in Chatters, NEW k \in 1..Len(U[a])
        PROVE  /\ U[a][k].name = a /\ U[a][k].data \in 1..N[a] /\ U[a][k] \notin R
               /\ \A d \in Chatters : ~Got(E, V, d, U[a][k])
    <3>1. /\ U[a][k].name = a /\ U[a][k].data \in 1..N[a] /\ U[a][k] \notin R
          /\ \A d \in Chatters : ~Got(D, V, d, U[a][k])
      BY DEF Upstream
    <3>2. U[a][k] # m
      <4>1. U[a][k].data # Linked
        BY <3>1 DEF Linked
      <4> QED
        BY <1>0, <3>1, <4>1
    <3> QED
      BY <1>5, <3>1, <3>2
  <2> QED
    BY <2>1 DEF Upstream
<1>7. \A k \in 1..Len(D[c]) :
        /\ IF D[c][k].data = Linked THEN k = 1 /\ st[c] = "link" ELSE Typed(N, D[c][k])
        /\ D[c][k] \notin V[c] /\ D[c][k] # m
  <2> SUFFICES ASSUME NEW k \in 1..Len(D[c])
               PROVE  /\ IF D[c][k].data = Linked THEN k = 1 /\ st[c] = "link" ELSE Typed(N, D[c][k])
                      /\ D[c][k] \notin V[c] /\ D[c][k] # m
    OBVIOUS
  <2>1. /\ IF D[c][k].data = Linked THEN k = 1 /\ st[c] = "link" ELSE Typed(N, D[c][k])
        /\ D[c][k] \notin V[c]
    BY DEF Downstream
  <2>2. CASE D[c] = <<>>
    BY <2>2
  <2>3. CASE ~Got(D, V, c, m)
    BY <2>1, <2>3 DEF Got, Contains
  <2> QED
    BY <1>0, <2>1, <2>2, <2>3
<1>8. /\ IF m.data = Linked THEN Len(D[c]) + 1 = 1 /\ st[c] = "link" ELSE Typed(N, m)
      /\ m \notin V[c] /\ \A x \in V[c] : Typed(N, x)
  <2>1. \A x \in V[c] : Typed(N, x)
    BY DEF Downstream
  <2>2. CASE m.data = Linked /\ D[c] = <<>> /\ st[c] = "link"
    <3>1. m \notin V[c]
      BY <2>1, <2>2, TypedIsNoGreeting
    <3>2. Len(D[c]) = 0
      BY <2>2
    <3> QED
      BY <2>1, <2>2, <3>1, <3>2
  <2>3. CASE Typed(N, m) /\ m \in R /\ ~Got(D, V, c, m)
    BY <2>1, <2>3, TypedIsNoGreeting DEF Got
  <2> QED
    BY <1>0, <2>2, <2>3
<1>9. \A k, l \in 1..Len(D[c]) : D[c][k] = D[c][l] => k = l
  BY DEF Downstream
<1>10. ASSUME NEW d \in Chatters
       PROVE  /\ \A k \in 1..Len(E[d]) :
                   /\ IF E[d][k].data = Linked THEN k = 1 /\ st[d] = "link" ELSE Typed(N, E[d][k])
                   /\ E[d][k] \notin V[d]
              /\ \A k, l \in 1..Len(E[d]) : E[d][k] = E[d][l] => k = l
              /\ \A x \in V[d] : Typed(N, x)
  <2>1. CASE d # c
    BY <1>1, <2>1 DEF Downstream
  <2>2. CASE d = c
    <3>1. \A k \in 1..Len(E[c]) :
            /\ IF E[c][k].data = Linked THEN k = 1 /\ st[c] = "link" ELSE Typed(N, E[c][k])
            /\ E[c][k] \notin V[c]
      <4> SUFFICES ASSUME NEW k \in 1..Len(E[c])
                   PROVE  /\ IF E[c][k].data = Linked THEN k = 1 /\ st[c] = "link"
                                                      ELSE Typed(N, E[c][k])
                          /\ E[c][k] \notin V[c]
        OBVIOUS
      <4>1. CASE k \in 1..Len(D[c])
        BY <1>3, <1>7, <4>1
      <4>2. CASE k = Len(D[c]) + 1
        BY <1>3, <1>8, <4>2
      <4> QED
        BY <1>3, <4>1, <4>2
    <3>2. \A k, l \in 1..Len(E[c]) : E[c][k] = E[c][l] => k = l
      BY <1>3, <1>7, <1>9
    <3> QED
      BY <1>8, <2>2, <3>1, <3>2
  <2> QED
    BY <2>1, <2>2
<1>11. Downstream(E, V, N, st)
  BY <1>10 DEF Downstream
<1> QED
  BY <1>5, <1>6, <1>11 DEF GotOnly

\* E and W are D and V after c has taken its first message, to print it or not.
Takes(D, V, c, E, W) ==
  /\ E \in [Chatters -> Seq(ChatLines)] /\ E[c] = Tail(D[c])
  /\ W \in [Chatters -> SUBSET ChatLines]
  /\ W[c] = V[c] \/ (Head(D[c]).data # Linked /\ W[c] = V[c] \cup {Head(D[c])})
  /\ \A d \in Chatters : d # c => E[d] = D[d] /\ W[d] = V[d]

\* All clients but c are as they were.
OnlyOf(c, st, s) == \A d \in Chatters : d # c => s[d] = st[d]

\* Nobody has got more with E and W than with D and V.
NoMoreGot(D, V, E, W) == \A d \in Chatters : \A x : Got(E, W, d, x) => Got(D, V, d, x)

\* The first message to a client is new to it.
LEMMA FirstIsNew ==
  ASSUME NEW D \in [Chatters -> Seq(ChatLines)], NEW V, NEW N, NEW st,
         Downstream(D, V, N, st), NEW c \in Chatters, D[c] # <<>>
  PROVE  Head(D[c]) \notin V[c] /\ (Head(D[c]).data = Linked => st[c] = "link")
<1>1. D[c] \in Seq(ChatLines)
  OBVIOUS
<1>2. Head(D[c]) = D[c][1] /\ 1 \in 1..Len(D[c])
  BY <1>1
<1> QED
  BY <1>2 DEF Downstream

\* c takes the first message: it is gone, or printed if it is a typed line.
LEMMA Taken ==
  ASSUME NEW U, NEW D \in [Chatters -> Seq(ChatLines)],
         NEW V \in [Chatters -> SUBSET ChatLines], NEW N, NEW R, NEW st,
         Upstream(U, D, V, N, R), Downstream(D, V, N, st),
         NEW c \in Chatters, D[c] # <<>>,
         NEW s, OnlyOf(c, st, s), NEW E, NEW W, Takes(D, V, c, E, W)
  PROVE  /\ Upstream(U, E, W, N, R) /\ Downstream(E, W, N, s)
         /\ NoMoreGot(D, V, E, W)
<1> DEFINE h == Head(D[c])
<1>0. D[c] \in Seq(ChatLines) /\ \A k, l \in 1..Len(D[c]) : D[c][k] = D[c][l] => k = l
  BY DEF Downstream
<1>1. /\ h = D[c][1] /\ 1 \in 1..Len(D[c]) /\ h \in ChatLines /\ Tail(D[c]) \in Seq(ChatLines)
      /\ \A i \in 1..Len(Tail(D[c])) :
           /\ i + 1 \in 1..Len(D[c]) /\ Tail(D[c])[i] = D[c][i + 1]
           /\ Tail(D[c])[i] # h
      /\ \A i, j \in 1..Len(Tail(D[c])) : Tail(D[c])[i] = Tail(D[c])[j] => i = j
  BY <1>0, WithoutFirst
<1> HIDE DEF h
<1>2. E[c] = Tail(D[c]) /\ \A d \in Chatters : d # c => E[d] = D[d]
  BY DEF Takes
<1>3. \A d \in Chatters : d # c => s[d] = st[d]
  BY DEF OnlyOf
<1>4. /\ \A d \in Chatters : d # c => W[d] = V[d]
      /\ W[c] = V[c] \/ (h.data # Linked /\ W[c] = V[c] \cup {h})
  BY DEF Takes, h
<1>5. /\ h \notin V[c]
      /\ IF h.data = Linked THEN st[c] = "link" ELSE Typed(N, h)
  BY <1>1 DEF Downstream
<1>6. ASSUME NEW d \in Chatters, NEW x, Got(E, W, d, x)
      PROVE  Got(D, V, d, x)
  <2>1. CASE d # c
    BY <1>2, <1>4, <1>6, <2>1 DEF Got
  <2>2. CASE d = c /\ Contains(E[c], x)
    <3>1. Contains(D[c], x)
      BY <1>1, <1>2, <2>2 DEF Contains
    <3> QED
      BY <2>2, <3>1 DEF Got
  <2>3. CASE d = c /\ x = h
    <3>1. Contains(D[c], x)
      BY <1>1, <2>3 DEF Contains
    <3> QED
      BY <2>3, <3>1 DEF Got
  <2>4. CASE d = c /\ x \in V[c]
    BY <2>4 DEF Got
  <2> QED
    BY <1>4, <1>6, <2>1, <2>2, <2>3, <2>4 DEF Got
<1>7. Upstream(U, E, W, N, R)
  BY <1>6 DEF Upstream
<1>8. ASSUME NEW d \in Chatters
      PROVE  /\ \A k \in 1..Len(E[d]) :
                  /\ IF E[d][k].data = Linked THEN k = 1 /\ s[d] = "link" ELSE Typed(N, E[d][k])
                  /\ E[d][k] \notin W[d]
             /\ \A k, l \in 1..Len(E[d]) : E[d][k] = E[d][l] => k = l
             /\ \A x \in W[d] : Typed(N, x)
  <2>1. CASE d # c
    BY <1>2, <1>3, <1>4, <2>1 DEF Downstream
  <2>2. CASE d = c
    <3>1. \A k \in 1..Len(E[c]) : E[c][k].data # Linked /\ Typed(N, E[c][k]) /\ E[c][k] \notin W[c]
      <4> SUFFICES ASSUME NEW k \in 1..Len(E[c])
                   PROVE  E[c][k].data # Linked /\ Typed(N, E[c][k]) /\ E[c][k] \notin W[c]
        OBVIOUS
      <4>1. k + 1 \in 1..Len(D[c]) /\ E[c][k] = D[c][k + 1] /\ E[c][k] # h /\ k + 1 # 1
        BY <1>1, <1>2
      <4>2. D[c][k + 1].data # Linked /\ Typed(N, D[c][k + 1]) /\ D[c][k + 1] \notin V[c]
        BY <4>1 DEF Downstream
      <4> QED
        BY <1>4, <4>1, <4>2
    <3>2. \A x \in W[c] : Typed(N, x)
      BY <1>4, <1>5 DEF Downstream
    <3>3. \A k, l \in 1..Len(E[c]) : E[c][k] = E[c][l] => k = l
      BY <1>1, <1>2
    <3> QED
      BY <2>2, <3>1, <3>2, <3>3
  <2> QED
    BY <2>1, <2>2
<1>9. Downstream(E, W, N, s)
  BY <1>8 DEF Downstream
<1> QED
  BY <1>6, <1>7, <1>9 DEF NoMoreGot

\* M is N after c has typed m.
Counts(N, c, m, M) ==
  /\ M \in [Chatters -> Nat] /\ M[c] = N[c] + 1
  /\ \A d \in Chatters : d # c => M[d] = N[d]
  /\ m.name = c /\ m.data = N[c] + 1

\* c types a line.
LEMMA Said ==
  ASSUME NEW U \in [Chatters -> Seq(ChatLines)], NEW D, NEW V,
         NEW N \in [Chatters -> Nat], NEW R, \A m \in R : Typed(N, m), NEW st,
         Upstream(U, D, V, N, R), Downstream(D, V, N, st),
         NEW c \in Chatters, NEW m \in ChatLines, NEW M, Counts(N, c, m, M),
         NEW T, Writes(U, c, m, T)
  PROVE  /\ Upstream(T, D, V, M, R) /\ Downstream(D, V, M, st)
         /\ \A d \in Chatters : N[d] <= M[d]
         /\ \A d \in Chatters : U[d] # <<>> => T[d] # <<>>
<1>1. /\ M[c] = N[c] + 1 /\ N[c] \in Nat
      /\ \A d \in Chatters : M[d] \in Nat /\ N[d] <= M[d]
  <2>1. ASSUME NEW d \in Chatters PROVE M[d] \in Nat /\ N[d] <= M[d]
    <3>1. M[d] \in Nat /\ N[d] \in Nat
      BY DEF Counts
    <3>2. CASE d = c
      BY <3>1, <3>2 DEF Counts
    <3>3. CASE d # c
      BY <3>1, <3>3 DEF Counts
    <3> QED
      BY <3>2, <3>3
  <2> QED
    BY <2>1 DEF Counts
<1>2. /\ m \in ChatLines /\ m.name = c /\ m.data = N[c] + 1 /\ U[c] \in Seq(ChatLines)
      /\ M \in [Chatters -> Nat] /\ \A d \in Chatters : d # c => M[d] = N[d]
  BY DEF Counts
<1>4. T[c] = Append(U[c], m) /\ \A d \in Chatters : d # c => T[d] = U[d]
  BY DEF Writes
<1>5. /\ Len(T[c]) = Len(U[c]) + 1 /\ Len(U[c]) \in Nat /\ T[c][Len(U[c]) + 1] = m
      /\ \A j \in 1..Len(U[c]) : T[c][j] = U[c][j] /\ j \in 1..Len(T[c])
      /\ \A j \in 1..Len(T[c]) : j = Len(U[c]) + 1 \/ j \in 1..Len(U[c])
  BY <1>2, <1>4, More
<1>6. ASSUME NEW x, Typed(N, x)
      PROVE  Typed(M, x) /\ x # m
  <2>1. x # m
    BY <1>1, <1>2, <1>6 DEF Typed
  <2> QED
    BY <1>1, <1>2, <1>6, <2>1, TypedStays
<1>7. ASSUME NEW d \in Chatters PROVE ~Got(D, V, d, m)
  <2>1. m.data # Linked
    BY <1>1, <1>2 DEF Linked
  <2>2. \A k \in 1..Len(D[d]) : D[d][k] # m
    BY <1>6, <2>1 DEF Downstream
  <2>3. m \notin V[d]
    BY <1>6 DEF Downstream
  <2> QED
    BY <2>2, <2>3 DEF Got, Contains
<1>8. m \notin R
  BY <1>6
<1>9. ASSUME NEW a \in Chatters
      PROVE  /\ \A k \in 1..Len(T[a]) :
                  /\ T[a][k].name = a /\ T[a][k].data \in 1..M[a] /\ T[a][k] \notin R
                  /\ \A d \in Chatters : ~Got(D, V, d, T[a][k])
             /\ \A k, l \in 1..Len(T[a]) : T[a][k] = T[a][l] => k = l
  <2>0. /\ \A k \in 1..Len(U[a]) :
             /\ U[a][k].name = a /\ U[a][k].data \in 1..N[a] /\ U[a][k] \notin R
             /\ \A d \in Chatters : ~Got(D, V, d, U[a][k])
        /\ \A k, l \in 1..Len(U[a]) : U[a][k] = U[a][l] => k = l
    BY DEF Upstream
  <2>1. CASE a # c
    <3>1. M[a] = N[a] /\ T[a] = U[a]
      BY <1>2, <1>4, <2>1
    <3> QED
      BY <2>0, <3>1
  <2>2. CASE a = c
    <3>1. \A k \in 1..Len(T[c]) :
            /\ T[c][k].name = c /\ T[c][k].data \in 1..M[c] /\ T[c][k] \notin R
            /\ \A d \in Chatters : ~Got(D, V, d, T[c][k])
      <4> SUFFICES ASSUME NEW k \in 1..Len(T[c])
                   PROVE  /\ T[c][k].name = c /\ T[c][k].data \in 1..M[c] /\ T[c][k] \notin R
                          /\ \A d \in Chatters : ~Got(D, V, d, T[c][k])
        OBVIOUS
      <4>1. CASE k \in 1..Len(U[c])
        <5>1. T[c][k] = U[c][k] /\ U[c][k].data \in 1..M[c]
          BY <1>1, <1>5, <2>0, <2>2, <4>1
        <5> QED
          BY <2>0, <2>2, <4>1, <5>1
      <4>2. CASE k = Len(U[c]) + 1
        <5>1. T[c][k] = m /\ m.data \in 1..M[c]
          BY <1>1, <1>2, <1>5, <4>2
        <5> QED
          BY <1>2, <1>7, <1>8, <5>1
      <4> QED
        BY <1>5, <4>1, <4>2
    <3>2. \A k \in 1..Len(U[c]) : U[c][k] # m
      BY <1>1, <1>2, <2>0, <2>2
    <3>3. \A k, l \in 1..Len(T[c]) : T[c][k] = T[c][l] => k = l
      BY <1>5, <2>0, <2>2, <3>2
    <3> QED
      BY <2>2, <3>1, <3>3
  <2> QED
    BY <2>1, <2>2
<1>10. Upstream(T, D, V, M, R)
  BY <1>9 DEF Upstream
<1>11. Downstream(D, V, M, st)
  BY <1>6 DEF Downstream
<1>12. \A d \in Chatters : U[d] # <<>> => T[d] # <<>>
  <2>1. Len(T[c]) # 0
    BY <1>5
  <2>2. Len(<<>>) = 0
    OBVIOUS
  <2>3. T[c] # <<>>
    BY <2>1, <2>2
  <2> QED
    BY <1>4, <2>3
<1> QED
  BY <1>1, <1>10, <1>11, <1>12

\* The server reads the first line of c, to pass it on.
LEMMA ReadUp ==
  ASSUME NEW U \in [Chatters -> Seq(ChatLines)], NEW D, NEW V, NEW N, NEW st,
         Upstream(U, D, V, N, {}), NEW c \in Chatters, U[c] # <<>>,
         NEW T \in [Chatters -> Seq(ChatLines)], T[c] = Tail(U[c]),
         \A d \in Chatters : d # c => T[d] = U[d], NEW m, m = Head(U[c])
  PROVE  /\ m \in ChatLines /\ Typed(N, m)
         /\ Upstream(T, D, V, N, {m})
         /\ \A d \in Chatters : ~Got(D, V, d, m)
<1>0. U[c] \in Seq(ChatLines) /\ \A k, l \in 1..Len(U[c]) : U[c][k] = U[c][l] => k = l
  BY DEF Upstream
<1>1. /\ m = U[c][1] /\ 1 \in 1..Len(U[c]) /\ m \in ChatLines /\ Tail(U[c]) \in Seq(ChatLines)
      /\ \A i \in 1..Len(Tail(U[c])) :
           /\ i + 1 \in 1..Len(U[c]) /\ Tail(U[c])[i] = U[c][i + 1]
           /\ Tail(U[c])[i] # m
      /\ \A i, j \in 1..Len(Tail(U[c])) : Tail(U[c])[i] = Tail(U[c])[j] => i = j
  BY <1>0, WithoutFirst
<1>2. T[c] = Tail(U[c]) /\ \A d \in Chatters : d # c => T[d] = U[d]
  OBVIOUS
<1>3. /\ m.name = c /\ m.data \in 1..N[c]
      /\ \A d \in Chatters : ~Got(D, V, d, m)
  BY <1>1 DEF Upstream
<1>4. ASSUME NEW a \in Chatters
      PROVE  /\ \A k \in 1..Len(T[a]) :
                  /\ T[a][k].name = a /\ T[a][k].data \in 1..N[a] /\ T[a][k] \notin {m}
                  /\ \A d \in Chatters : ~Got(D, V, d, T[a][k])
             /\ \A k, l \in 1..Len(T[a]) : T[a][k] = T[a][l] => k = l
  <2>0. /\ \A k \in 1..Len(U[a]) :
             /\ U[a][k].name = a /\ U[a][k].data \in 1..N[a]
             /\ \A d \in Chatters : ~Got(D, V, d, U[a][k])
        /\ \A k, l \in 1..Len(U[a]) : U[a][k] = U[a][l] => k = l
    BY DEF Upstream
  <2>1. CASE a # c
    BY <1>2, <1>3, <2>0, <2>1
  <2>2. CASE a = c
    <3>1. \A k \in 1..Len(T[c]) :
            k + 1 \in 1..Len(U[c]) /\ T[c][k] = U[c][k + 1] /\ T[c][k] # m
      BY <1>1, <1>2
    <3>2. \A i, j \in 1..Len(T[c]) : T[c][i] = T[c][j] => i = j
      BY <1>1, <1>2
    <3>3. \A k \in 1..Len(T[c]) :
            /\ T[c][k].name = c /\ T[c][k].data \in 1..N[c] /\ T[c][k] \notin {m}
            /\ \A d \in Chatters : ~Got(D, V, d, T[c][k])
      <4> SUFFICES ASSUME NEW k \in 1..Len(T[c])
                   PROVE  /\ T[c][k].name = c /\ T[c][k].data \in 1..N[c]
                          /\ T[c][k] \notin {m}
                          /\ \A d \in Chatters : ~Got(D, V, d, T[c][k])
        OBVIOUS
      <4>1. k + 1 \in 1..Len(U[c]) /\ T[c][k] = U[c][k + 1] /\ T[c][k] # m
        BY <3>1
      <4>2. /\ U[c][k + 1].name = c /\ U[c][k + 1].data \in 1..N[c]
            /\ \A d \in Chatters : ~Got(D, V, d, U[c][k + 1])
        BY <2>0, <2>2, <4>1
      <4> QED
        BY <4>1, <4>2
    <3> QED
      BY <2>2, <3>2, <3>3
  <2> QED
    BY <2>1, <2>2
<1>5. Upstream(T, D, V, N, {m})
  BY <1>4 DEF Upstream
<1> QED
  BY <1>1, <1>2, <1>3, <1>5 DEF Typed

\* A smaller R is less to keep apart.
LEMMA Forget ==
  ASSUME NEW U, NEW D, NEW V, NEW N, NEW R, Upstream(U, D, V, N, R)
  PROVE  Upstream(U, D, V, N, {})
BY DEF Upstream

\* As long as nobody has left.
Calm == SelType /\ Quiet /\ ~SomebodyLeft

LEMMA CalmIs ==
  ASSUME Calm
  PROVE  /\ nsfd \in Seq(Chatters) /\ backlog \in Seq(Chatters \X {1, 2})
         /\ newset \subseteq {1, 2} /\ marked \subseteq Nat /\ to \in [i : Nat, j : Nat]
         /\ smsg \in ChatLines
         /\ up2srv \in [Chatters -> Seq(ChatLines)] /\ down \in [Chatters -> Seq(ChatLines)]
         /\ saw \in [Chatters -> SUBSET ChatLines] /\ said \in [Chatters -> Nat]
         /\ srv # "dead" /\ rst = {} /\ ~phantom
         /\ TakenIn /\ Marks /\ Relay
         /\ Upstream(up2srv, down, saw, said, Relayed)
         /\ Downstream(down, saw, said, ust)
         /\ \A c \in Chatters : ust[c] # "left"
BY DEF Calm, SelType, Quiet, SomebodyLeft

\* The write of the model is such a one.
LEMMA WritesIs ==
  ASSUME NEW D \in [Chatters -> Seq(ChatLines)], NEW c \in Chatters, NEW m \in ChatLines,
         NEW E, E = [D EXCEPT ![c] = Append(D[c], m)]
  PROVE  Writes(D, c, m, E)
<1>1. Append(D[c], m) \in Seq(ChatLines)
  <2>1. D[c] \in Seq(ChatLines)
    OBVIOUS
  <2> QED
    BY <2>1, QueueTypes
<1>2. E = [D EXCEPT ![c] = Append(D[c], m)]
  OBVIOUS
<1> QED
  BY <1>1, <1>2, Updated DEF Writes

\* While everybody is there a write is one.
LEMMA WriteIs ==
  ASSUME Calm, NEW c \in Chatters, NEW m, NEW next, WriteTo(c, m, next)
  PROVE  srv' = next /\ rst' = {} /\ down' = [down EXCEPT ![c] = Append(down[c], m)]
<1>1. c \notin rst /\ ust[c] # "left" /\ rst = {}
  BY CalmIs
<1> QED
  BY <1>1 DEF WriteTo

\* The first element taken out.
LEMMA RestOfTail ==
  ASSUME NEW C, NEW Q \in Seq(C), Q # <<>>
  PROVE  Tail(Q) \in Seq(C) /\ KeepsOthers(Q, 1, Tail(Q)) /\ 1 \in 1..Len(Q)
<1> DEFINE R == Tail(Q)
<1>1. /\ R \in Seq(C) /\ Len(R) = Len(Q) - 1 /\ Len(Q) \in Nat /\ 1 \in 1..Len(Q)
      /\ \A j \in 1..Len(R) : R[j] = Q[j + 1]
  OBVIOUS
<1> HIDE DEF R
<1>2. \A j \in 1..Len(R) : j + 1 \in 1..Len(Q) /\ j + 1 # 1 /\ R[j] = Q[j + 1]
  BY <1>1
<1>3. \A j, m \in 1..Len(R) : j < m => j + 1 < m + 1
  BY <1>1
<1>4. ASSUME NEW i \in 1..Len(Q), i # 1
      PROVE  \E j \in 1..Len(R) : R[j] = Q[i]
  <2>1. i - 1 \in 1..Len(R) /\ (i - 1) + 1 = i
    BY <1>1, <1>4
  <2> QED
    BY <1>1, <2>1
<1>5. KeepsOthers(Q, 1, R)
  BY <1>2, <1>3, <1>4 DEF KeepsOthers
<1> QED
  BY <1>1, <1>5 DEF R

\* Somebody who waits is taken in and greeted.
LEMMA TakeIn ==
  ASSUME Calm, srv \in {"select", "accept"}, srv' \in {"select", "accept"},
         NEW k \in 1..Len(backlog), NEW c, c = backlog[k][1],
         backlog' \in Seq(Chatters \X {1, 2}), KeepsOthers(backlog, k, backlog'),
         smsg' = [smsg EXCEPT !.data = Linked], WriteTo(c, smsg', srv'),
         nsfd' = Append(nsfd, c),
         UNCHANGED <<marked, to, ust, said, up2srv, saw, phantom>>,
         newset' \subseteq newset, newset' # {} => srv' = "accept",
         \A p \in newset' : p # backlog[k][2]
  PROVE  Calm'
<1>t. /\ nsfd \in Seq(Chatters) /\ backlog \in Seq(Chatters \X {1, 2})
      /\ smsg \in ChatLines /\ up2srv \in [Chatters -> Seq(ChatLines)]
      /\ down \in [Chatters -> Seq(ChatLines)] /\ TakenIn /\ Marks
      /\ Upstream(up2srv, down, saw, said, Relayed) /\ Downstream(down, saw, said, ust)
      /\ newset \subseteq {1, 2} /\ ~phantom
  BY CalmIs
<1>c. c \in Chatters /\ ust[c] = "link" /\ ~Contains(nsfd, c) /\ down[c] = <<>>
  <2>1. backlog[k] \in Chatters \X {1, 2}
    BY <1>t
  <2> QED
    BY <1>t, <2>1 DEF TakenIn
<1>m. smsg' \in ChatLines /\ smsg'.data = Linked
  BY <1>t DEF ChatLines, Linked
<1>w. rst' = {} /\ down' = [down EXCEPT ![c] = Append(down[c], smsg')]
  BY <1>c, WriteIs
<1>r. Relayed = {} /\ Relayed' = {}
  BY DEF Relayed
<1>1. /\ down' \in [Chatters -> Seq(ChatLines)]
      /\ Upstream(up2srv, down', saw, said, {}) /\ Downstream(down', saw, said, ust)
  <2>1. Upstream(up2srv, down, saw, said, {}) /\ Downstream(down, saw, said, ust)
    BY <1>t, <1>r
  <2>2. down \in [Chatters -> Seq(ChatLines)] /\ c \in Chatters /\ smsg' \in ChatLines
    BY <1>t, <1>c, <1>m
  <2>3. smsg'.data = Linked /\ down[c] = <<>> /\ ust[c] = "link"
    BY <1>c, <1>m
  <2>4. Writes(down, c, smsg', down')
    BY <1>w, <2>2, WritesIs
  <2>5. MayGet(down, saw, said, {}, ust, c, smsg')
    BY <2>3 DEF MayGet
  <2>6. down' \in [Chatters -> Seq(ChatLines)]
    BY <2>4 DEF Writes
  <2> QED
    BY <2>1, <2>2, <2>4, <2>5, <2>6, Written
<1>2. /\ nsfd' \in Seq(Chatters) /\ Len(nsfd') = Len(nsfd) + 1 /\ Len(nsfd) \in Nat
      /\ nsfd'[Len(nsfd) + 1] = c
      /\ \A j \in 1..Len(nsfd) : nsfd'[j] = nsfd[j] /\ j \in 1..Len(nsfd')
      /\ \A j \in 1..Len(nsfd') : j = Len(nsfd) + 1 \/ j \in 1..Len(nsfd)
  <2>1. nsfd \in Seq(Chatters) /\ c \in Chatters /\ nsfd' = Append(nsfd, c)
    BY <1>t, <1>c
  <2> QED
    BY <2>1, More
<1>3. \A j \in 1..Len(nsfd) : nsfd[j] # c
  BY <1>c DEF Contains
<1>4. \A d : Contains(nsfd', d) <=> Contains(nsfd, d) \/ d = c
  <2>1. Len(nsfd) + 1 \in 1..Len(nsfd')
    BY <1>2
  <2> QED
    BY <1>2, <2>1 DEF Contains
<1>5. /\ \A j \in 1..Len(backlog') : \E i \in 1..Len(backlog) : i # k /\ backlog'[j] = backlog[i]
      /\ \A j, m \in 1..Len(backlog') : j < m =>
           \E i, l \in 1..Len(backlog) : i < l /\ backlog'[j] = backlog[i] /\ backlog'[m] = backlog[l]
      /\ \A i \in 1..Len(backlog) : i # k => \E j \in 1..Len(backlog') : backlog'[j] = backlog[i]
  BY DEF KeepsOthers
<1>6. \A i, j \in 1..Len(backlog) : backlog[i][1] = backlog[j][1] => i = j
  BY <1>t DEF TakenIn
<1>7. TakenIn'
  <2>1. \A i, j \in 1..Len(nsfd') : nsfd'[i] = nsfd'[j] => i = j
    <3>1. \A i, j \in 1..Len(nsfd) : nsfd[i] = nsfd[j] => i = j
      BY <1>t DEF TakenIn
    <3> QED
      BY <1>2, <1>3, <3>1
  <2>2. \A i, j \in 1..Len(backlog') : backlog'[i][1] = backlog'[j][1] => i = j
    <3> SUFFICES ASSUME NEW i \in 1..Len(backlog'), NEW j \in 1..Len(backlog'),
                        backlog'[i][1] = backlog'[j][1], i # j
                 PROVE  FALSE
      OBVIOUS
    <3>1. CASE i < j
      <4>1. PICK a, b \in 1..Len(backlog) :
              a < b /\ backlog'[i] = backlog[a] /\ backlog'[j] = backlog[b]
        BY <1>5, <3>1
      <4> QED
        BY <1>6, <4>1, SMTT(30)
    <3>2. CASE j < i
      <4>1. PICK a, b \in 1..Len(backlog) :
              a < b /\ backlog'[j] = backlog[a] /\ backlog'[i] = backlog[b]
        BY <1>5, <3>2
      <4> QED
        BY <1>6, <4>1
    <3> QED
      BY <3>1, <3>2
  <2>3. \A i \in 1..Len(backlog') :
          ust[backlog'[i][1]] = "link" /\ ~Contains(nsfd', backlog'[i][1])
    <3> SUFFICES ASSUME NEW i \in 1..Len(backlog')
                 PROVE  ust[backlog'[i][1]] = "link" /\ ~Contains(nsfd', backlog'[i][1])
      OBVIOUS
    <3>1. PICK j \in 1..Len(backlog) : j # k /\ backlog'[i] = backlog[j]
      BY <1>5
    <3>2. backlog[j][1] # c
      BY <1>6, <3>1
    <3>3. ust[backlog[j][1]] = "link" /\ ~Contains(nsfd, backlog[j][1])
      BY <1>t DEF TakenIn
    <3> QED
      BY <1>4, <3>1, <3>2, <3>3
  <2>4. \A i \in 1..Len(nsfd') : ust[nsfd'[i]] # "new"
    BY <1>c, <1>2, <1>t DEF TakenIn
  <2>5. \A d \in Chatters : ~Contains(nsfd', d) => down'[d] = <<>>
    <3>1. \A d \in Chatters : d # c => down'[d] = down[d]
      BY <1>t, <1>w
    <3> QED
      BY <1>4, <1>t, <3>1 DEF TakenIn
  <2> QED
    BY <2>1, <2>2, <2>3, <2>4, <2>5 DEF TakenIn
<1>8. Marks'
  <2>1. \A i \in marked : i \in 1..Len(nsfd') /\ up2srv[nsfd'[i]] # <<>>
    BY <1>t, <1>2 DEF Marks
  <2>2. ASSUME NEW p \in newset'
        PROVE  \E j \in 1..Len(backlog') : backlog'[j][2] = p
    <3>1. p \in newset /\ p # backlog[k][2]
      OBVIOUS
    <3>2. PICK i \in 1..Len(backlog) : backlog[i][2] = p
      BY <1>t, <3>1 DEF Marks
    <3>3. i # k
      BY <3>1, <3>2
    <3> QED
      BY <1>5, <3>2, <3>3
  <2> QED
    BY <2>1, <2>2 DEF Marks
<1>9. Relay'
  BY DEF Relay
<1>10. SelType'
  <2>1. newset' \subseteq {1, 2}
    BY <1>t
  <2> QED
    BY <1>1, <1>2, <1>m, <2>1 DEF Calm, SelType
<1>11. ~SomebodyLeft' /\ srv' # "dead"
  BY DEF Calm, SomebodyLeft
<1> QED
  BY <1>1, <1>t, <1>w, <1>r, <1>7, <1>8, <1>9, <1>10, <1>11 DEF Calm, Quiet

LEMMA AcceptStep ==
  ASSUME Calm, accept_link
  PROVE  Calm'
<1>1. /\ srv = "select" /\ backlog # <<>> /\ backlog' = Tail(backlog)
      /\ smsg' = [smsg EXCEPT !.data = Linked]
      /\ WriteTo(Head(backlog)[1], smsg', "select")
      /\ nsfd' = Append(nsfd, Head(backlog)[1])
      /\ UNCHANGED <<newset, marked, to, ust, said, up2srv, saw, phantom>>
  BY DEF accept_link
<1>t. backlog \in Seq(Chatters \X {1, 2}) /\ Marks
  BY CalmIs
<1>2. /\ Tail(backlog) \in Seq(Chatters \X {1, 2})
      /\ KeepsOthers(backlog, 1, Tail(backlog)) /\ 1 \in 1..Len(backlog)
  BY <1>1, <1>t, RestOfTail
<1>3. Head(backlog) = backlog[1] /\ newset = {}
  BY <1>1, <1>t DEF Marks
<1>4. backlog[1] \in Chatters \X {1, 2}
  BY <1>2, <1>t
<1>5. srv' = "select"
  BY <1>1, <1>3, <1>4, WriteIs
<1> QED
  BY <1>1, <1>2, <1>3, <1>5, TakeIn

LEMMA SvcAcceptStep ==
  ASSUME Calm, svc_accept
  PROVE  Calm'
<1>t. /\ backlog \in Seq(Chatters \X {1, 2}) /\ Marks /\ newset \subseteq {1, 2}
      /\ Upstream(up2srv, down, saw, said, Relayed)
  BY CalmIs
<1>1. srv = "accept" /\ UNCHANGED <<marked, to, ust, said, up2srv, saw, phantom>>
  BY DEF svc_accept
<1>2. CASE newset = {}
  <2>1. srv' = "scan" /\ UNCHANGED <<newset, nsfd, backlog, smsg, down, rst>>
    BY <1>2 DEF svc_accept
  <2>2. Relayed = {} /\ Relayed' = {}
    BY <1>1, <2>1 DEF Relayed
  <2>3. SelType'
    BY <1>1, <2>1 DEF Calm, SelType
  <2>4. TakenIn' /\ Marks' /\ Relay'
    BY <1>1, <1>2, <2>1 DEF Calm, Quiet, TakenIn, Marks, Relay
  <2> QED
    BY <1>1, <2>1, <2>2, <2>3, <2>4 DEF Calm, Quiet, SomebodyLeft
<1>3. CASE newset # {}
  <2> DEFINE p == CHOOSE x \in newset : \A y \in newset : x <= y
             k == CHOOSE x \in DOMAIN backlog :
                    backlog[x][2] = p /\ \A y \in 1..(x - 1) : backlog[y][2] # p
  <2>1. /\ newset' = newset \ {p} /\ backlog' = RemoveAt(backlog, k)
        /\ smsg' = [smsg EXCEPT !.data = Linked]
        /\ WriteTo(backlog[k][1], smsg', "accept")
        /\ nsfd' = Append(nsfd, backlog[k][1])
    BY <1>3 DEF svc_accept
  <2>2. p \in newset
    <3>1. p = Min(newset)
      BY DEF Min
    <3>2. newset \subseteq Nat
      BY <1>t
    <3> HIDE DEF p
    <3> QED
      BY <1>3, <3>1, <3>2, MinIsLeast
  <2> HIDE DEF p
  <2>3. k \in 1..Len(backlog) /\ backlog[k][2] = p
    <3> DEFINE I == {x \in 1..Len(backlog) : backlog[x][2] = p}
    <3>1. I # {} /\ I \subseteq Nat
      <4>1. PICK x \in 1..Len(backlog) : backlog[x][2] = p
        BY <1>t, <2>2 DEF Marks
      <4> QED
        BY <4>1
    <3>2. Min(I) \in I /\ \A y \in I : Min(I) <= y
      BY <3>1, MinIsLeast
    <3>3. \E x \in DOMAIN backlog :
            backlog[x][2] = p /\ \A y \in 1..(x - 1) : backlog[y][2] # p
      <4> DEFINE x == Min(I)
      <4>1. x \in 1..Len(backlog) /\ backlog[x][2] = p
        BY <3>2
      <4>2. \A y \in 1..Len(backlog) : backlog[y][2] = p => x <= y
        BY <3>2
      <4> HIDE DEF x
      <4>3. \A y \in 1..(x - 1) : backlog[y][2] # p
        BY <1>t, <4>1, <4>2
      <4>4. DOMAIN backlog = 1..Len(backlog)
        BY <1>t
      <4> QED
        BY <4>1, <4>3, <4>4
    <3>4. DOMAIN backlog = 1..Len(backlog)
      BY <1>t
    <3> QED
      BY <3>3, <3>4
  <2> HIDE DEF k
  <2>4. backlog' \in Seq(Chatters \X {1, 2}) /\ KeepsOthers(backlog, k, backlog')
    BY <1>t, <2>1, <2>3, Rest
  <2>5. backlog[k] \in Chatters \X {1, 2}
    BY <1>t, <2>3
  <2>6. srv' = "accept"
    BY <2>1, <2>5, WriteIs
  <2>7. /\ newset' \subseteq newset /\ \A q \in newset' : q # backlog[k][2]
    BY <2>1, <2>3
  <2> QED
    BY <1>1, <2>1, <2>3, <2>4, <2>6, <2>7, TakeIn
<1> QED
  BY <1>2, <1>3

LEMMA SelectStep ==
  ASSUME Calm, sel_select \/ svc_select
  PROVE  Calm'
<1>t. nsfd \in Seq(Chatters) /\ backlog \in Seq(Chatters \X {1, 2}) /\ Marks
  BY CalmIs
<1>1. /\ srv = "select" /\ srv' \in {"scan", "accept"}
      /\ marked' = {i \in DOMAIN nsfd : Readable14(nsfd[i])}
      /\ \/ newset' = newset
         \/ newset' = PortsWaiting /\ srv' = "accept"
      /\ UNCHANGED <<nsfd, backlog, smsg, to, ust, said, up2srv, down, rst, saw, phantom>>
  BY DEF sel_select, svc_select
<1>2. newset = {}
  BY <1>1, <1>t DEF Marks
<1>3. DOMAIN nsfd = 1..Len(nsfd) /\ DOMAIN backlog = 1..Len(backlog)
  BY <1>t
<1>4. /\ newset' \subseteq {1, 2} /\ (newset' # {} => srv' = "accept")
      /\ \A p \in newset' : \E k \in 1..Len(backlog) : backlog[k][2] = p
  <2>1. \A k \in 1..Len(backlog) : backlog[k] \in Chatters \X {1, 2}
    BY <1>t
  <2> QED
    BY <1>1, <1>2, <1>3, <2>1 DEF PortsWaiting
<1>5. \A i \in marked' : i \in 1..Len(nsfd) /\ up2srv[nsfd[i]] # <<>>
  <2>1. \A c \in Chatters : ust[c] # "left"
    BY CalmIs
  <2>2. \A i \in 1..Len(nsfd) : nsfd[i] \in Chatters
    BY <1>t
  <2> QED
    BY <1>1, <1>3, <2>1, <2>2 DEF Readable14
<1>6. SelType'
  <2>1. marked' \subseteq Nat
    BY <1>5
  <2> QED
    BY <1>1, <1>4, <2>1 DEF Calm, SelType
<1>7. Marks'
  BY <1>1, <1>4, <1>5 DEF Marks
<1>8. TakenIn' /\ Relay'
  BY <1>1 DEF Calm, Quiet, TakenIn, Relay
<1>9. Relayed = {} /\ Relayed' = {}
  BY <1>1 DEF Relayed
<1> QED
  BY <1>1, <1>6, <1>7, <1>8, <1>9 DEF Calm, Quiet, SomebodyLeft

LEMMA ListenStep ==
  ASSUME Calm, sel_listen \/ svc_listen
  PROVE  Calm'
<1>1. /\ srv = "start" /\ srv' = "select"
      /\ UNCHANGED <<newset, marked, nsfd, backlog, smsg, to, ust, said, up2srv, down, rst, saw, phantom>>
  BY DEF sel_listen, svc_listen, Listen14
<1>2. Relayed = {} /\ Relayed' = {}
  BY <1>1 DEF Relayed
<1>3. SelType'
  BY <1>1 DEF Calm, SelType
<1>4. TakenIn' /\ Marks' /\ Relay'
  BY <1>1 DEF Calm, Quiet, TakenIn, Marks, Relay
<1> QED
  BY <1>1, <1>2, <1>3, <1>4 DEF Calm, Quiet, SomebodyLeft

LEMMA ReadStep ==
  ASSUME Calm, relay_read
  PROVE  Calm'
<1>t. /\ nsfd \in Seq(Chatters) /\ marked \subseteq Nat /\ TakenIn /\ Marks
      /\ up2srv \in [Chatters -> Seq(ChatLines)]
      /\ Upstream(up2srv, down, saw, said, Relayed)
  BY CalmIs
<1>1. /\ srv = "scan"
      /\ UNCHANGED <<newset, nsfd, backlog, ust, said, down, rst, saw, phantom>>
  BY DEF relay_read
<1>2. Relayed = {} /\ newset = {}
  BY <1>1, <1>t DEF Relayed, Marks
<1>3. CASE marked = {}
  <2>1. srv' = "select" /\ UNCHANGED <<marked, smsg, up2srv, to>>
    BY <1>3 DEF relay_read
  <2>2. Relayed' = {}
    BY <2>1 DEF Relayed
  <2>3. SelType'
    BY <1>1, <2>1 DEF Calm, SelType
  <2>4. TakenIn' /\ Marks' /\ Relay'
    BY <1>1, <1>2, <2>1 DEF Calm, Quiet, TakenIn, Marks, Relay
  <2> QED
    BY <1>1, <1>2, <2>1, <2>2, <2>3, <2>4 DEF Calm, Quiet, SomebodyLeft
<1>4. CASE marked # {}
  <2> DEFINE i == CHOOSE k \in marked : \A l \in marked : k <= l
             c == nsfd[i]
  <2>1. /\ marked' = marked \ {i} /\ ReadFrom(c) /\ to' = [i |-> i, j |-> 1]
        /\ srv' \in {"answer", "write"}
    BY <1>4 DEF relay_read
  <2>2. i \in marked
    <3>1. i = Min(marked)
      BY DEF Min
    <3> HIDE DEF i
    <3> QED
      BY <1>4, <1>t, <3>1, MinIsLeast
  <2> HIDE DEF i
  <2>3. i \in 1..Len(nsfd) /\ up2srv[c] # <<>> /\ i \in Nat
    BY <1>t, <2>2 DEF Marks
  <2>4. c \in Chatters
    BY <1>t, <2>3
  <2> HIDE DEF c
  <2>5. smsg' = Head(up2srv[c]) /\ up2srv' = [up2srv EXCEPT ![c] = Tail(up2srv[c])]
    BY <2>1, <2>3 DEF ReadFrom
  <2>6. /\ up2srv' \in [Chatters -> Seq(ChatLines)] /\ up2srv'[c] = Tail(up2srv[c])
        /\ \A d \in Chatters : d # c => up2srv'[d] = up2srv[d]
    <3>1. Tail(up2srv[c]) \in Seq(ChatLines)
      BY <1>t, <2>3, <2>4, QueueTypes
    <3> QED
      BY <1>t, <2>4, <2>5, <3>1, Updated
  <2>7. /\ smsg' \in ChatLines /\ Typed(said, smsg')
        /\ Upstream(up2srv', down, saw, said, {smsg'})
        /\ \A d \in Chatters : ~Got(down, saw, d, smsg')
    <3>1. Upstream(up2srv, down, saw, said, {})
      BY <1>t, <1>2
    <3> QED
      BY <1>t, <2>3, <2>4, <2>5, <2>6, <3>1, ReadUp
  <2>8. Relayed' = {smsg'}
    BY <2>1 DEF Relayed
  <2>9. Marks'
    <3>1. \A k \in marked' : k \in 1..Len(nsfd) /\ up2srv[nsfd[k]] # <<>> /\ k # i
      BY <1>t, <2>1 DEF Marks
    <3>2. \A k \in marked' : nsfd[k] # c /\ nsfd[k] \in Chatters
      BY <1>t, <2>3, <3>1 DEF TakenIn, c
    <3>3. \A k \in marked' : up2srv'[nsfd[k]] # <<>>
      BY <2>6, <3>1, <3>2
    <3> QED
      BY <1>1, <1>2, <3>1, <3>3 DEF Marks
  <2>10. Relay'
    <3>1. \A j \in 1..Len(nsfd) : nsfd[j] \in Chatters
      BY <1>t
    <3>2. to'.i = i /\ to'.j = 1
      BY <2>1
    <3>3. \A j \in 1..Len(nsfd) : ~Got(down', saw', nsfd'[j], smsg')
      BY <1>1, <2>7, <3>1
    <3> QED
      BY <1>1, <2>3, <2>7, <3>2, <3>3 DEF Relay
  <2>11. SelType'
    <3>1. to' \in [i : Nat, j : Nat] /\ marked' \subseteq Nat
      BY <1>t, <2>1, <2>3
    <3> QED
      BY <1>1, <2>6, <2>7, <3>1 DEF Calm, SelType
  <2>12. TakenIn'
    BY <1>1, <1>t DEF TakenIn
  <2> QED
    BY <1>1, <2>1, <2>7, <2>8, <2>9, <2>10, <2>11, <2>12 DEF Calm, Quiet, SomebodyLeft
<1> QED
  BY <1>3, <1>4

\* The line that was read is written to one that is to get it.
LEMMA PassOn ==
  ASSUME Calm, srv \in {"write", "answer"}, NEW k \in 1..Len(nsfd), NEW c, c = nsfd[k],
         ~Got(down, saw, c, smsg), NEW next, WriteTo(c, smsg, next)
  PROVE  /\ c \in Chatters /\ srv' = next /\ rst' = {}
         /\ down' \in [Chatters -> Seq(ChatLines)]
         /\ \A d \in Chatters : d # c => down'[d] = down[d]
         /\ Upstream(up2srv, down', saw, said, {smsg}) /\ Downstream(down', saw, said, ust)
         /\ GotOnly(down, saw, c, smsg, down')
<1>1. /\ nsfd \in Seq(Chatters) /\ smsg \in ChatLines /\ Relay
      /\ down \in [Chatters -> Seq(ChatLines)]
      /\ Upstream(up2srv, down, saw, said, Relayed) /\ Downstream(down, saw, said, ust)
  BY CalmIs
<1>2. c \in Chatters
  BY <1>1
<1>3. Relayed = {smsg} /\ Typed(said, smsg)
  BY <1>1 DEF Relayed, Relay
<1>4. srv' = next /\ rst' = {} /\ down' = [down EXCEPT ![c] = Append(down[c], smsg)]
  BY <1>2, WriteIs
<1>5. Writes(down, c, smsg, down')
  BY <1>1, <1>2, <1>4, WritesIs
<1>6. MayGet(down, saw, said, {smsg}, ust, c, smsg)
  BY <1>3 DEF MayGet
<1>7. Upstream(up2srv, down, saw, said, {smsg})
  BY <1>1, <1>3
<1>8. /\ Upstream(up2srv, down', saw, said, {smsg}) /\ Downstream(down', saw, said, ust)
      /\ GotOnly(down, saw, c, smsg, down')
  BY <1>1, <1>2, <1>5, <1>6, <1>7, Written
<1> QED
  BY <1>2, <1>4, <1>5, <1>8 DEF Writes

LEMMA WriteStep ==
  ASSUME Calm, relay_write
  PROVE  Calm'
<1>t. /\ nsfd \in Seq(Chatters) /\ to \in [i : Nat, j : Nat] /\ TakenIn /\ Marks /\ Relay
      /\ Upstream(up2srv, down, saw, said, Relayed) /\ Downstream(down, saw, said, ust)
      /\ Len(nsfd) \in Nat
  BY CalmIs
<1>1. /\ srv = "write" /\ to' = [to EXCEPT !.j = to.j + 1]
      /\ UNCHANGED <<newset, marked, nsfd, backlog, smsg, ust, said, up2srv, saw, phantom>>
  BY DEF relay_write
<1>2. /\ Relayed = {smsg} /\ newset = {} /\ Typed(said, smsg) /\ to.i \in 1..Len(nsfd)
      /\ to.j \in Nat /\ to.j >= 1
  BY <1>1, <1>t DEF Relayed, Marks, Relay
<1>3. to' \in [i : Nat, j : Nat] /\ to'.i = to.i /\ to'.j = to.j + 1
  BY <1>1, <1>t
<1>4. \A j \in 1..Len(nsfd) : j >= to.j /\ j # to.i => ~Got(down, saw, nsfd[j], smsg)
  BY <1>1, <1>t DEF Relay
<1>5. Marks'
  BY <1>1, <1>2, <1>t DEF Marks
<1>6. CASE to.j > Len(nsfd)
  <2>1. srv' = "scan" /\ UNCHANGED <<down, rst>>
    BY <1>6 DEF relay_write
  <2>2. Relayed' = {}
    BY <2>1 DEF Relayed
  <2>3. Upstream(up2srv, down, saw, said, {})
    BY <1>t, Forget
  <2>4. SelType'
    BY <1>1, <1>3, <2>1 DEF Calm, SelType
  <2>5. TakenIn' /\ Relay'
    BY <1>1, <1>t, <2>1 DEF TakenIn, Relay
  <2> QED
    BY <1>1, <1>5, <2>1, <2>2, <2>3, <2>4, <2>5 DEF Calm, Quiet, SomebodyLeft
<1>7. CASE ~(to.j > Len(nsfd)) /\ to.j = to.i
  <2>1. UNCHANGED <<srv, down, rst>>
    BY <1>7 DEF relay_write
  <2>2. Relayed' = {smsg}
    BY <1>1, <2>1 DEF Relayed
  <2>3. SelType'
    BY <1>1, <1>3, <2>1 DEF Calm, SelType
  <2>4. TakenIn'
    BY <1>1, <1>t, <2>1 DEF TakenIn
  <2>5. Relay'
    <3>1. \A j \in 1..Len(nsfd) :
            j >= to'.j /\ j # to'.i => ~Got(down, saw, nsfd[j], smsg)
      BY <1>2, <1>3, <1>4, <1>t
    <3>2. to'.j >= 1
      BY <1>2, <1>3
    <3> QED
      BY <1>1, <1>2, <1>3, <2>1, <3>1, <3>2 DEF Relay
  <2> QED
    BY <1>1, <1>2, <1>5, <2>1, <2>2, <2>3, <2>4, <2>5 DEF Calm, Quiet, SomebodyLeft
<1>8. CASE ~(to.j > Len(nsfd)) /\ to.j # to.i
  <2> DEFINE c == nsfd[to.j]
  <2>1. WriteTo(c, smsg, "write")
    BY <1>8 DEF relay_write
  <2>2. to.j \in 1..Len(nsfd)
    BY <1>2, <1>8, <1>t
  <2>3. ~Got(down, saw, c, smsg)
    BY <1>2, <1>4, <1>8, <2>2
  <2>4. c = nsfd[to.j]
    OBVIOUS
  <2> HIDE DEF c
  <2>5. /\ c \in Chatters /\ srv' = "write" /\ rst' = {}
        /\ down' \in [Chatters -> Seq(ChatLines)]
        /\ \A d \in Chatters : d # c => down'[d] = down[d]
        /\ Upstream(up2srv, down', saw, said, {smsg}) /\ Downstream(down', saw, said, ust)
        /\ GotOnly(down, saw, c, smsg, down')
    BY <1>1, <2>1, <2>2, <2>3, <2>4, PassOn, ZenonT(60)
  <2>6. Relayed' = {smsg}
    BY <1>1, <2>5 DEF Relayed
  <2>7. SelType'
    BY <1>1, <1>3, <2>5 DEF Calm, SelType
  <2>8. TakenIn'
    <3>1. Contains(nsfd, c)
      BY <2>2, <2>4 DEF Contains
    <3>2. \A d \in Chatters : ~Contains(nsfd, d) => down'[d] = <<>>
      BY <1>t, <2>5, <3>1 DEF TakenIn
    <3> QED
      BY <1>1, <1>t, <3>2 DEF TakenIn
  <2>9. Relay'
    <3>1. ASSUME NEW j \in 1..Len(nsfd), j >= to'.j, j # to'.i
          PROVE  ~Got(down', saw, nsfd[j], smsg)
      <4>1. j >= to.j /\ j # to.i /\ j # to.j
        BY <1>2, <1>3, <1>t, <3>1
      <4>2. ~Got(down, saw, nsfd[j], smsg)
        BY <1>4, <4>1
      <4>3. nsfd[j] # c /\ nsfd[j] \in Chatters
        BY <1>t, <2>2, <2>4, <4>1 DEF TakenIn
      <4> QED
        BY <2>5, <4>2, <4>3 DEF GotOnly
    <3>2. to'.j >= 1
      BY <1>2, <1>3
    <3> QED
      BY <1>1, <1>2, <1>3, <2>5, <3>1, <3>2 DEF Relay
  <2> QED
    BY <1>1, <1>2, <1>5, <2>5, <2>6, <2>7, <2>8, <2>9 DEF Calm, Quiet, SomebodyLeft
<1> QED
  BY <1>6, <1>7, <1>8

LEMMA AnswerStep ==
  ASSUME Calm, svc_answer
  PROVE  Calm'
<1>t. /\ nsfd \in Seq(Chatters) /\ TakenIn /\ Marks /\ Relay
  BY CalmIs
<1> DEFINE c == nsfd[to.i]
<1>1. /\ srv = "answer" /\ WriteTo(c, smsg, "scan")
      /\ UNCHANGED <<newset, marked, nsfd, backlog, smsg, to, ust, said, up2srv, saw, phantom>>
  BY DEF svc_answer
<1>2. newset = {} /\ to.i \in 1..Len(nsfd) /\ ~Got(down, saw, c, smsg) /\ c = nsfd[to.i]
  BY <1>1, <1>t DEF Marks, Relay
<1> HIDE DEF c
<1>3. /\ c \in Chatters /\ srv' = "scan" /\ rst' = {}
      /\ down' \in [Chatters -> Seq(ChatLines)]
      /\ \A d \in Chatters : d # c => down'[d] = down[d]
      /\ Upstream(up2srv, down', saw, said, {smsg}) /\ Downstream(down', saw, said, ust)
  BY <1>1, <1>2, PassOn, ZenonT(60)
<1>4. Relayed' = {} /\ Upstream(up2srv, down', saw, said, {})
  BY <1>3, Forget DEF Relayed
<1>5. SelType'
  BY <1>1, <1>3 DEF Calm, SelType
<1>6. TakenIn'
  <2>1. Contains(nsfd, c)
    BY <1>2 DEF Contains
  <2>2. \A d \in Chatters : ~Contains(nsfd, d) => down'[d] = <<>>
    BY <1>t, <1>3, <2>1 DEF TakenIn
  <2> QED
    BY <1>1, <1>t, <2>2 DEF TakenIn
<1>7. Marks' /\ Relay'
  BY <1>1, <1>2, <1>3, <1>t DEF Marks, Relay
<1> QED
  BY <1>1, <1>3, <1>4, <1>5, <1>6, <1>7 DEF Calm, Quiet, SomebodyLeft

LEMMA ConnectStep ==
  ASSUME Calm, NEW c \in Chatters, sel_connect(c), cprog \in {"chat", "svayambhoo"}
  PROVE  Calm'
<1>t. /\ nsfd \in Seq(Chatters) /\ backlog \in Seq(Chatters \X {1, 2})
      /\ TakenIn /\ Marks /\ Downstream(down, saw, said, ust)
      /\ ust \in [Chatters -> {"off", "new", "failed", "link", "in", "write", "left"}]
      /\ \A d \in Chatters : ust[d] # "left"
  BY CalmIs DEF Calm, SelType
<1>1. /\ ust[c] = "new"
      /\ UNCHANGED <<srv, newset, marked, nsfd, smsg, to, said, up2srv, down, rst, saw, phantom>>
  BY DEF sel_connect
<1>2. PICK w \in {"failed", "link"} : ust' = [ust EXCEPT ![c] = w]
                                    /\ (w = "failed" => backlog' = backlog)
                                    /\ (w = "link" => \E p \in {1, 2} :
                                          backlog' = Append(backlog, <<c, p>>))
  BY DEF sel_connect, SfdPorts
<1>3. /\ ust' \in [Chatters -> {"off", "new", "failed", "link", "in", "write", "left"}] /\ ust'[c] = w
      /\ \A d \in Chatters : d # c => ust'[d] = ust[d]
  BY <1>t, <1>2, Updated
<1>4. /\ \A i \in 1..Len(nsfd) : nsfd[i] # c /\ nsfd[i] \in Chatters
      /\ \A i \in 1..Len(backlog) : backlog[i][1] # c /\ backlog[i][1] \in Chatters
  <2>1. /\ \A i \in 1..Len(nsfd) : nsfd[i] \in Chatters
        /\ \A i \in 1..Len(backlog) : backlog[i] \in Chatters \X {1, 2}
    BY <1>t
  <2> QED
    BY <1>1, <1>t, <2>1 DEF TakenIn
<1>5. Downstream(down, saw, said, ust')
  BY <1>1, <1>3, <1>t DEF Downstream
<1>6. /\ backlog' \in Seq(Chatters \X {1, 2})
      /\ \A i \in 1..Len(backlog) : i \in 1..Len(backlog') /\ backlog'[i] = backlog[i]
      /\ \A i \in 1..Len(backlog') :
           \/ i \in 1..Len(backlog)
           \/ i = Len(backlog) + 1 /\ backlog'[i][1] = c /\ w = "link"
  <2>1. CASE w = "failed"
    BY <1>2, <1>t, <2>1
  <2>2. CASE w = "link"
    <3>1. PICK p \in {1, 2} : backlog' = Append(backlog, <<c, p>>)
      BY <1>2, <2>2
    <3> DEFINE e == <<c, p>>
    <3>2. e \in Chatters \X {1, 2} /\ e[1] = c /\ backlog' = Append(backlog, e)
      BY <3>1
    <3> HIDE DEF e
    <3>3. /\ backlog' \in Seq(Chatters \X {1, 2}) /\ backlog'[Len(backlog) + 1] = e
          /\ \A j \in 1..Len(backlog) : backlog'[j] = backlog[j] /\ j \in 1..Len(backlog')
          /\ \A j \in 1..Len(backlog') : j = Len(backlog) + 1 \/ j \in 1..Len(backlog)
      BY <1>t, <3>2, More
    <3> QED
      BY <2>2, <3>2, <3>3
  <2> QED
    BY <2>1, <2>2
<1>7. TakenIn'
  <2>1. ASSUME NEW i \in 1..Len(backlog'), NEW j \in 1..Len(backlog'),
               backlog'[i][1] = backlog'[j][1]
        PROVE  i = j
    <3>1. CASE i \in 1..Len(backlog) /\ j \in 1..Len(backlog)
      BY <1>6, <1>t, <2>1, <3>1 DEF TakenIn
    <3>2. CASE i = Len(backlog) + 1 /\ j = Len(backlog) + 1
      BY <3>2
    <3>3. CASE i \in 1..Len(backlog) /\ backlog'[j][1] = c
      BY <1>4, <1>6, <2>1, <3>3
    <3>4. CASE j \in 1..Len(backlog) /\ backlog'[i][1] = c
      BY <1>4, <1>6, <2>1, <3>4
    <3> QED
      BY <1>6, <3>1, <3>2, <3>3, <3>4
  <2>2. \A i \in 1..Len(backlog') :
          ust'[backlog'[i][1]] = "link" /\ ~Contains(nsfd, backlog'[i][1])
    <3> SUFFICES ASSUME NEW i \in 1..Len(backlog')
                 PROVE  ust'[backlog'[i][1]] = "link" /\ ~Contains(nsfd, backlog'[i][1])
      OBVIOUS
    <3>1. CASE i \in 1..Len(backlog)
      <4>1. ust[backlog[i][1]] = "link" /\ ~Contains(nsfd, backlog[i][1])
        BY <1>t, <3>1 DEF TakenIn
      <4> QED
        BY <1>3, <1>4, <1>6, <3>1, <4>1
    <3>2. CASE backlog'[i][1] = c /\ w = "link"
      BY <1>3, <1>4, <3>2 DEF Contains
    <3> QED
      BY <1>6, <3>1, <3>2
  <2>3. \A i \in 1..Len(nsfd) : ust'[nsfd[i]] # "new"
    BY <1>3, <1>4, <1>t DEF TakenIn
  <2> QED
    BY <1>1, <1>t, <2>1, <2>2, <2>3 DEF TakenIn
<1>8. Marks'
  <2>1. \A p \in newset : \E k \in 1..Len(backlog') : backlog'[k][2] = p
    <3> SUFFICES ASSUME NEW p \in newset
                 PROVE  \E k \in 1..Len(backlog') : backlog'[k][2] = p
      OBVIOUS
    <3>1. PICK k \in 1..Len(backlog) : backlog[k][2] = p
      BY <1>t DEF Marks
    <3> QED
      BY <1>6, <3>1
  <2> QED
    BY <1>1, <1>t, <2>1 DEF Marks
<1>9. Relay' /\ Relayed' = Relayed
  BY <1>1 DEF Calm, Quiet, Relay, Relayed
<1>10. SelType'
  BY <1>1, <1>3, <1>6 DEF Calm, SelType
<1>11. ~SomebodyLeft'
  <2>1. w # "left"
    OBVIOUS
  <2> QED
    BY <1>3, <1>t, <2>1 DEF SomebodyLeft
<1> QED
  BY <1>1, <1>5, <1>7, <1>8, <1>9, <1>10, <1>11 DEF Calm, Quiet

\* A client takes its first message: the greeting, or a line to print.
LEMMA TakeStep ==
  ASSUME Calm, NEW c \in Chatters, sel_link(c) \/ sel_show(c)
  PROVE  Calm' \/ SomebodyLeft'
<1>t. /\ nsfd \in Seq(Chatters) /\ backlog \in Seq(Chatters \X {1, 2})
      /\ TakenIn /\ Marks /\ Relay
      /\ Upstream(up2srv, down, saw, said, Relayed) /\ Downstream(down, saw, said, ust)
      /\ ust \in [Chatters -> {"off", "new", "failed", "link", "in", "write", "left"}]
      /\ down \in [Chatters -> Seq(ChatLines)] /\ saw \in [Chatters -> SUBSET ChatLines]
      /\ ~phantom /\ \A d \in Chatters : ust[d] # "left"
  BY CalmIs DEF Calm, SelType
<1> DEFINE h == Head(down[c])
<1>1. /\ ust[c] \in {"link", "in"} /\ down[c] # <<>>
      /\ down' = [down EXCEPT ![c] = Tail(down[c])]
      /\ UNCHANGED <<srv, newset, marked, nsfd, backlog, smsg, to, said, up2srv, rst>>
  BY DEF sel_link, sel_show
<1>2. down[c] \in Seq(ChatLines) /\ Tail(down[c]) \in Seq(ChatLines) /\ h \in ChatLines
  <2>1. down[c] \in Seq(ChatLines)
    BY <1>t
  <2> QED
    BY <1>1, <2>1, QueueTypes
<1> HIDE DEF h
<1>3. /\ down' \in [Chatters -> Seq(ChatLines)] /\ down'[c] = Tail(down[c])
      /\ \A d \in Chatters : d # c => down'[d] = down[d]
  BY <1>1, <1>2, <1>t, Updated
<1>4. Contains(nsfd, c)
  BY <1>1, <1>t DEF TakenIn
<1>5. h \notin saw[c] /\ (h.data = Linked => ust[c] = "link")
  BY <1>1, <1>t, FirstIsNew DEF h
<1>6. /\ \A d \in Chatters : d # c => ust'[d] = ust[d] /\ saw'[d] = saw[d]
      /\ saw' \in [Chatters -> SUBSET ChatLines]
      /\ saw'[c] = saw[c] \/ (h.data # Linked /\ saw'[c] = saw[c] \cup {h})
      /\ ust' \in [Chatters -> {"off", "new", "failed", "link", "in", "write", "left"}]
      /\ ust'[c] \in {"in", "left"} /\ ~phantom'
  <2>1. CASE sel_link(c)
    <3>1. PICK w \in {"in", "left"} : ust' = [ust EXCEPT ![c] = w]
      BY <2>1 DEF sel_link
    <3>2. saw' = saw /\ ~phantom'
      BY <1>t, <2>1 DEF sel_link
    <3> QED
      BY <1>t, <3>1, <3>2
  <2>2. CASE sel_show(c)
    <3>1. ust[c] = "in" /\ ust' = ust
      BY <2>2 DEF sel_show
    <3>2. h.data # Linked
      BY <1>5, <3>1
    <3>3. saw' = [saw EXCEPT ![c] = saw[c] \cup {h}] /\ ~phantom'
      <4>1. saw' = IF h.data = Linked THEN saw ELSE [saw EXCEPT ![c] = saw[c] \cup {h}]
        BY <2>2 DEF sel_show, h
      <4>2. phantom' = (phantom \/ h \in saw[c] \/ h.data = Linked)
        BY <2>2 DEF sel_show, h
      <4>3. ~phantom'
        BY <1>5, <1>t, <3>2, <4>2, Zenon
      <4> QED
        BY <3>2, <4>1, <4>3
    <3>4. saw[c] \cup {h} \in SUBSET ChatLines
      BY <1>2, <1>t
    <3>5. /\ saw' \in [Chatters -> SUBSET ChatLines] /\ saw'[c] = saw[c] \cup {h}
          /\ \A d \in Chatters : d # c => saw'[d] = saw[d]
      BY <1>t, <3>3, <3>4, Updated
    <3> QED
      BY <1>t, <3>1, <3>2, <3>3, <3>5
  <2> QED
    BY <2>1, <2>2
<1>7. /\ Upstream(up2srv, down', saw', said, Relayed) /\ Downstream(down', saw', said, ust')
      /\ \A d \in Chatters : \A x : Got(down', saw', d, x) => Got(down, saw, d, x)
  <2>1. Takes(down, saw, c, down', saw')
    BY <1>3, <1>6 DEF Takes, h
  <2>2. OnlyOf(c, ust, ust')
    BY <1>6 DEF OnlyOf
  <2>3. /\ Upstream(up2srv, down', saw', said, Relayed) /\ Downstream(down', saw', said, ust')
        /\ NoMoreGot(down, saw, down', saw')
    <3>1. /\ Upstream(up2srv, down, saw, said, Relayed) /\ Downstream(down, saw, said, ust)
          /\ down \in [Chatters -> Seq(ChatLines)] /\ saw \in [Chatters -> SUBSET ChatLines]
      BY <1>t
    <3>2. down[c] # <<>>
      BY <1>1
    <3> QED
      BY <2>1, <2>2, <3>1, <3>2, Taken
  <2> QED
    BY <2>3 DEF NoMoreGot
<1>8. TakenIn'
  <2>1. /\ \A i \in 1..Len(nsfd) : nsfd[i] \in Chatters
        /\ \A i \in 1..Len(backlog) : backlog[i][1] \in Chatters
    <3>1. \A i \in 1..Len(backlog) : backlog[i] \in Chatters \X {1, 2}
      BY <1>t
    <3> QED
      BY <1>t, <3>1
  <2>2. \A i \in 1..Len(backlog) : ust'[backlog[i][1]] = "link" /\ ~Contains(nsfd, backlog[i][1])
    BY <1>4, <1>6, <1>t, <2>1 DEF TakenIn
  <2>3. \A i \in 1..Len(nsfd) : ust'[nsfd[i]] # "new"
    BY <1>6, <1>t, <2>1 DEF TakenIn
  <2>4. \A d \in Chatters : ~Contains(nsfd, d) => down'[d] = <<>>
    BY <1>3, <1>4, <1>t DEF TakenIn
  <2> QED
    BY <1>1, <1>t, <2>2, <2>3, <2>4 DEF TakenIn
<1>9. Marks' /\ Relayed' = Relayed
  BY <1>1, <1>t DEF Marks, Relayed
<1>10. Relay'
  <2>1. \A i \in 1..Len(nsfd) : nsfd[i] \in Chatters
    BY <1>t
  <2> QED
    BY <1>1, <1>7, <1>t, <2>1 DEF Relay
<1>11. SelType'
  BY <1>1, <1>3, <1>6 DEF Calm, SelType
<1>12. srv' # "dead" /\ rst' = {}
  BY <1>1, CalmIs
<1> QED
  BY <1>1, <1>6, <1>7, <1>8, <1>9, <1>10, <1>11, <1>12 DEF Calm, Quiet

\* A client goes from its select loop to a write or back.
LEMMA LoopKeeps ==
  ASSUME TakenIn, UNCHANGED <<nsfd, backlog, down>>,
         nsfd \in Seq(Chatters), backlog \in Seq(Chatters \X {1, 2}),
         ust \in [Chatters -> {"off", "new", "failed", "link", "in", "write", "left"}],
         \A d \in Chatters : ust[d] # "left",
         NEW N \in [Chatters -> Nat], Downstream(down, saw, N, ust),
         NEW c \in Chatters, NEW w \in {"in", "write"},
         ust[c] \in {"in", "write"}, ust' = [ust EXCEPT ![c] = w]
  PROVE  /\ ust' \in [Chatters -> {"off", "new", "failed", "link", "in", "write", "left"}]
         /\ \A d \in Chatters : ust'[d] # "left"
         /\ TakenIn' /\ Downstream(down, saw, N, ust')
<1>1. /\ ust' \in [Chatters -> {"off", "new", "failed", "link", "in", "write", "left"}]
      /\ ust'[c] = w /\ \A d \in Chatters : d # c => ust'[d] = ust[d]
  BY Updated
<1>2. /\ \A i \in 1..Len(nsfd) : nsfd[i] \in Chatters
      /\ \A i \in 1..Len(backlog) : backlog[i][1] \in Chatters
  <2>1. \A i \in 1..Len(backlog) : backlog[i] \in Chatters \X {1, 2}
    OBVIOUS
  <2> QED
    BY <2>1
<1>3. \A i \in 1..Len(backlog) : ust'[backlog[i][1]] = "link" /\ ~Contains(nsfd, backlog[i][1])
  BY <1>1, <1>2 DEF TakenIn
<1>4. \A i \in 1..Len(nsfd) : ust'[nsfd[i]] # "new"
  BY <1>1, <1>2 DEF TakenIn
<1>5. TakenIn'
  BY <1>3, <1>4 DEF TakenIn
<1>6. Downstream(down, saw, N, ust')
  <2>1. \A d \in Chatters : ust[d] = "link" <=> ust'[d] = "link"
    BY <1>1
  <2> QED
    BY <2>1 DEF Downstream
<1> QED
  BY <1>1, <1>5, <1>6

LEMMA TypeStep ==
  ASSUME Calm, NEW c \in Chatters, sel_type(c)
  PROVE  Calm'
<1>t. /\ nsfd \in Seq(Chatters) /\ backlog \in Seq(Chatters \X {1, 2})
      /\ TakenIn /\ Marks /\ Relay
      /\ Upstream(up2srv, down, saw, said, Relayed) /\ Downstream(down, saw, said, ust)
      /\ said \in [Chatters -> Nat] /\ \A d \in Chatters : ust[d] # "left"
      /\ ust \in [Chatters -> {"off", "new", "failed", "link", "in", "write", "left"}]
  BY CalmIs DEF Calm, SelType
<1>1. /\ ust[c] = "in" /\ ust' = [ust EXCEPT ![c] = "write"]
      /\ UNCHANGED <<srv, newset, marked, nsfd, backlog, smsg, to, said, up2srv, down, rst, saw, phantom>>
  BY DEF sel_type
<1>2. /\ ust' \in [Chatters -> {"off", "new", "failed", "link", "in", "write", "left"}]
      /\ \A d \in Chatters : ust'[d] # "left"
      /\ TakenIn' /\ Downstream(down, saw, said, ust')
  BY <1>1, <1>t, LoopKeeps
<1>3. Marks' /\ Relay' /\ Relayed' = Relayed
  BY <1>1, <1>t DEF Marks, Relay, Relayed
<1>4. SelType'
  BY <1>1, <1>2 DEF Calm, SelType
<1> QED
  BY <1>1, <1>2, <1>3, <1>4, <1>t DEF Calm, Quiet, SomebodyLeft

LEMMA ClientWriteStep ==
  ASSUME Calm, NEW c \in Chatters, sel_write(c)
  PROVE  Calm'
<1>t. /\ nsfd \in Seq(Chatters) /\ backlog \in Seq(Chatters \X {1, 2})
      /\ TakenIn /\ Marks /\ Relay
      /\ Upstream(up2srv, down, saw, said, Relayed) /\ Downstream(down, saw, said, ust)
      /\ up2srv \in [Chatters -> Seq(ChatLines)] /\ said \in [Chatters -> Nat]
      /\ srv # "dead" /\ \A d \in Chatters : ust[d] # "left"
      /\ ust \in [Chatters -> {"off", "new", "failed", "link", "in", "write", "left"}]
  BY CalmIs DEF Calm, SelType
<1> DEFINE m == [name |-> c, data |-> said'[c]]
<1>1. /\ said' = [said EXCEPT ![c] = said[c] + 1]
      /\ up2srv' = [up2srv EXCEPT ![c] = Append(up2srv[c], m)]
      /\ ust[c] = "write" /\ ust' = [ust EXCEPT ![c] = "in"]
      /\ UNCHANGED <<srv, newset, marked, nsfd, backlog, smsg, to, down, rst, saw, phantom>>
  BY <1>t DEF sel_write
<1>2. /\ said' \in [Chatters -> Nat] /\ said'[c] = said[c] + 1
      /\ \A d \in Chatters : d # c => said'[d] = said[d]
  <2>1. said[c] + 1 \in Nat
    BY <1>t
  <2> QED
    BY <1>1, <1>t, <2>1, Updated
<1>3. m \in ChatLines /\ m.name = c /\ m.data = said[c] + 1
  BY <1>2 DEF ChatLines
<1> HIDE DEF m
<1>4. /\ up2srv' \in [Chatters -> Seq(ChatLines)] /\ up2srv'[c] = Append(up2srv[c], m)
      /\ \A d \in Chatters : d # c => up2srv'[d] = up2srv[d]
  <2>1. up2srv[c] \in Seq(ChatLines)
    BY <1>t
  <2>2. Append(up2srv[c], m) \in Seq(ChatLines)
    BY <1>3, <2>1, QueueTypes
  <2> QED
    BY <1>1, <1>t, <2>2, Updated
<1>5. \A x \in Relayed : Typed(said, x)
  BY <1>t DEF Relayed, Relay
<1>6. /\ Upstream(up2srv', down, saw, said', Relayed) /\ Downstream(down, saw, said', ust)
      /\ \A d \in Chatters : said[d] <= said'[d]
      /\ \A d \in Chatters : up2srv[d] # <<>> => up2srv'[d] # <<>>
  <2>1. Writes(up2srv, c, m, up2srv')
    BY <1>4 DEF Writes
  <2>2. Counts(said, c, m, said')
    BY <1>2, <1>3 DEF Counts
  <2>3. /\ Upstream(up2srv, down, saw, said, Relayed) /\ Downstream(down, saw, said, ust)
        /\ up2srv \in [Chatters -> Seq(ChatLines)] /\ said \in [Chatters -> Nat]
    BY <1>t
  <2> QED
    BY <1>3, <1>5, <2>1, <2>2, <2>3, Said
<1>7. Marks' /\ Relayed' = Relayed
  <2>1. \A i \in 1..Len(nsfd) : nsfd[i] \in Chatters
    BY <1>t
  <2> QED
    BY <1>1, <1>6, <1>t, <2>1 DEF Marks, Relayed
<1>8. Relay'
  <2>1. Typed(said, smsg) => Typed(said', smsg)
    BY <1>2, <1>6, <1>t, TypedStays
  <2> QED
    BY <1>1, <1>t, <2>1 DEF Relay
<1>9. /\ ust' \in [Chatters -> {"off", "new", "failed", "link", "in", "write", "left"}]
      /\ \A d \in Chatters : ust'[d] # "left"
      /\ TakenIn' /\ Downstream(down, saw, said', ust')
  BY <1>1, <1>2, <1>6, <1>t, LoopKeeps
<1>10. SelType'
  BY <1>1, <1>2, <1>4, <1>9 DEF Calm, SelType
<1> QED
  BY <1>1, <1>6, <1>7, <1>8, <1>9, <1>10, <1>t DEF Calm, Quiet, SomebodyLeft

\* Who has left does not come back.
LEMMA LeftForGood ==
  ASSUME UstType, NextSel
  PROVE  UstType' /\ (SomebodyLeft => SomebodyLeft')
<1>1. \/ ust' = ust
      \/ \E c \in Chatters :
           /\ ust[c] # "left"
           /\ \E w \in {"failed", "link", "in", "write", "left"} : ust' = [ust EXCEPT ![c] = w]
  <2>1. ASSUME NEW c \in Chatters, chat_user(c) \/ svc_user(c)
        PROVE  \/ ust' = ust
               \/ /\ ust[c] # "left"
                  /\ \E w \in {"failed", "link", "in", "write", "left"} : ust' = [ust EXCEPT ![c] = w]
    <3>1. CASE sel_connect(c)
      BY <3>1 DEF sel_connect
    <3>2. CASE sel_link(c)
      BY <3>2 DEF sel_link
    <3>3. CASE sel_show(c)
      BY <3>3 DEF sel_show
    <3>4. CASE sel_type(c)
      BY <3>4 DEF sel_type
    <3>6. CASE sel_write(c)
      BY <3>6 DEF sel_write
    <3>5. CASE sel_quit(c)
      BY <3>5 DEF sel_quit
    <3> QED
      BY <2>1, <3>1, <3>2, <3>3, <3>4, <3>5, <3>6
         DEF chat_user, svc_user, SelUser, SelClient
  <2>2. CASE sel_listen \/ svc_listen \/ SelServer
    BY <2>2 DEF sel_listen, svc_listen, Listen14, SelServer, accept_link, sel_select,
                relay_read, relay_write, svc_select, svc_accept, svc_answer
  <2> QED
    BY <2>1, <2>2 DEF NextSel
<1> QED
  BY <1>1 DEF UstType, SomebodyLeft

LEMMA SelInit == InitSel \/ IdleSel => SelInv
<1> SUFFICES ASSUME InitSel \/ IdleSel PROVE SelInv
  OBVIOUS
<1>1. /\ newset = {} /\ marked = {} /\ nsfd = <<>> /\ backlog = <<>>
      /\ smsg = [name |-> "", data |-> 0] /\ to = [i |-> 0, j |-> 0]
      /\ said = [c \in Chatters |-> 0]
      /\ up2srv = [c \in Chatters |-> <<>>] /\ down = [c \in Chatters |-> <<>>]
      /\ rst = {} /\ saw = [c \in Chatters |-> {}] /\ phantom = FALSE
      /\ srv \in {"start", "off"}
      /\ ust \in [Chatters -> {"off", "new", "failed", "link", "in", "write", "left"}]
  BY DEF InitSel, IdleSel, BlankSel
<1>2. <<>> \in Seq(Chatters) /\ <<>> \in Seq(Chatters \X {1, 2}) /\ <<>> \in Seq(ChatLines)
  BY Empty
<1>3. Len(<<>>) = 0 /\ 1..0 = {}
  OBVIOUS
<1>4. SelType
  BY <1>1, <1>2 DEF SelType, ChatLines
<1>5. TakenIn /\ Marks /\ Relay /\ Relayed = {}
  BY <1>1, <1>3 DEF TakenIn, Marks, Relay, Relayed
<1>6. Upstream(up2srv, down, saw, said, Relayed) /\ Downstream(down, saw, said, ust)
  BY <1>1, <1>3 DEF Upstream, Downstream
<1> QED
  BY <1>1, <1>4, <1>5, <1>6 DEF SelInv, UstType, Quiet

LEMMA SelStep == SelInv /\ (NextSel \/ UNCHANGED varsSel) => SelInv'
<1> SUFFICES ASSUME SelInv, NextSel \/ UNCHANGED varsSel PROVE SelInv'
  OBVIOUS
<1>1. CASE NextSel
  <2>1. UstType' /\ (SomebodyLeft => SomebodyLeft')
    BY <1>1, LeftForGood DEF SelInv
  <2>2. ASSUME Calm PROVE Calm' \/ SomebodyLeft'
    <3>1. CASE sel_listen \/ svc_listen
      BY <2>2, <3>1, ListenStep
    <3>2. CASE SelServer
      BY <2>2, <3>2, AcceptStep, SelectStep, ReadStep, WriteStep, SvcAcceptStep, AnswerStep
         DEF SelServer
    <3>3. ASSUME NEW c \in Chatters, chat_user(c) \/ svc_user(c)
          PROVE  Calm' \/ SomebodyLeft'
      <4>1. CASE sel_connect(c)
        BY <2>2, <3>3, <4>1, ConnectStep DEF chat_user, svc_user
      <4>2. CASE sel_link(c) \/ sel_show(c)
        BY <2>2, <4>2, TakeStep
      <4>3. CASE sel_type(c)
        BY <2>2, <4>3, TypeStep
      <4>5. CASE sel_write(c)
        BY <2>2, <4>5, ClientWriteStep
      <4>4. CASE sel_quit(c)
        <5>1. ust'[c] = "left"
          BY <2>2, <4>4 DEF sel_quit, Calm, SelType
        <5> QED
          BY <5>1 DEF SomebodyLeft
      <4> QED
        BY <3>3, <4>1, <4>2, <4>3, <4>4, <4>5 DEF chat_user, svc_user, SelUser, SelClient
    <3> QED
      BY <1>1, <3>1, <3>2, <3>3 DEF NextSel
  <2> QED
    BY <2>1, <2>2 DEF SelInv, Calm
<1>2. CASE UNCHANGED varsSel
  <2>1. UNCHANGED <<cprog, srv, newset, marked, nsfd, backlog, smsg, to, ust, said, up2srv,
                    down, rst, saw, phantom, owed>>
    BY <1>2 DEF varsSel
  <2>2. UstType' = UstType /\ SomebodyLeft' = SomebodyLeft
    BY <2>1 DEF UstType, SomebodyLeft
  <2>3. SelType' = SelType
    BY <2>1 DEF SelType
  <2>4. TakenIn' = TakenIn /\ Marks' = Marks
    BY <2>1 DEF TakenIn, Marks
  <2>5. Relay' = Relay /\ Relayed' = Relayed
    BY <2>1 DEF Relay, Relayed
  <2>6. Quiet' = Quiet
    BY <2>1, <2>4, <2>5 DEF Quiet
  <2> QED
    BY <2>2, <2>3, <2>6 DEF SelInv
<1> QED
  BY <1>1, <1>2

LEMMA SelFaults == SelInv => FaultsOnlyAfterLeave
BY DEF SelInv, Quiet, FaultsOnlyAfterLeave
-----------------------------------------------------------------------------
(* The theorems. *)

ChatsInv == UdpInv /\ SelInv /\ PlInv /\ NewsInv

LEMMA Invariance == Spec => []ChatsInv
<1>1. Init => ChatsInv
  <2>1. Init => /\ InitUdp \/ IdleUdp
                /\ InitSel \/ IdleSel
                /\ InitPl \/ IdlePl
                /\ InitNews \/ IdleNews
    BY DEF Init
  <2> QED
    BY <2>1, UdpInit, SelInit, PlInit, NewsInit DEF ChatsInv
<1>2. ChatsInv /\ [Next]_vars => ChatsInv'
  <2>1. [Next]_vars => /\ NextUdp \/ UNCHANGED varsUdp
                       /\ NextSel \/ UNCHANGED varsSel
                       /\ NextPl \/ UNCHANGED varsPl
                       /\ NextNews \/ UNCHANGED varsNews
    BY DEF Next, vars
  <2> QED
    BY <2>1, UdpStep, SelStep, PlStep, NewsStep DEF ChatsInv
<1> QED
  BY <1>1, <1>2, PTL DEF Spec

\* An answer of the UDP servers (assignment 15) goes to the client whose
\* datagram it answers, however many clients ask while the operator types,
\* and who waits in vain has lost its datagram or the server.
THEOREM AnswersReachAskers == Spec => []AnswersMatch
<1>1. ChatsInv => AnswersMatch
  BY UdpAnswers DEF ChatsInv
<1> QED
  BY <1>1, Invariance, PTL

\* No client of the select chat servers (assignments 14 and 20) prints a line
\* twice or a greeting as a line, and SIGPIPE does not kill the server, before
\* the first client has gone, whatever the number of clients and of lines and
\* the size of the socket buffers.
THEOREM FaultsNeedLeave == Spec => []FaultsOnlyAfterLeave
<1>1. ChatsInv => FaultsOnlyAfterLeave
  BY SelFaults DEF ChatsInv
<1> QED
  BY <1>1, Invariance, PTL

\* No order of starting the four programs of the placement server (question 2
\* of the mid semester exam) gets a round into its loop, whatever else happens.
THEOREM RoundsNeverStart == Spec => []NoRoundStarts
<1>1. ChatsInv => NoRoundStarts
  BY PlStuck DEF ChatsInv
<1> QED
  BY <1>1, Invariance, PTL

\* While R1 and R2 are up and every student stays, AT is killed only after it
\* has taken in three students; and it is in its loop only if R3 has connected.
THEOREM OnlyThirdStudentKills == Spec => []ThirdStudentKills
<1>1. ChatsInv => ThirdStudentKills
  BY PlStuck DEF ChatsInv
<1> QED
  BY <1>1, Invariance, PTL

\* The editor of NITW News (assignment 17) blocks away from its select only on
\* a reporter it has passed to the document process.
THEOREM EditorCaughtOnPassed == Spec => []CaughtOnlyOnPassed
<1>1. ChatsInv => CaughtOnlyOnPassed
  BY NewsCaught DEF ChatsInv
<1> QED
  BY <1>1, Invariance, PTL

=============================================================================
