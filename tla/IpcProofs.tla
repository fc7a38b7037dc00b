------------------------------ MODULE IpcProofs ------------------------------
(***************************************************************************)
(* Proofs about the programs that meet in message queues, signals and      *)
(* shared memory: the shared list of ports, the fifos of the process       *)
(* groups, the chat server over two queues and the ring over one.          *)
(***************************************************************************)
EXTENDS MCIpc, QueueTheorems

(* PortDirectory: the list while no two services have met. *)

Regs == {"start", "store", "load", "add", "in", "ended"}
Asks == {"new", "wait", "told", "lost"}
Answers == [c : Askers \cup {"none"}, i : Nat]

\* One service at a time is between the two lines, and knows the count.
Alone ==
  /\ ind \in Nat /\ reg \in [Svcs -> Regs] /\ idx \in [Svcs -> Nat]
  /\ \A s, t \in Svcs : Inside(s) /\ Inside(t) => s = t
  /\ \A s \in Svcs : reg[s] \in {"store", "add"} => idx[s] = ind

\* The table holds what has been entered, and behind it what is about to be.
Listed ==
  /\ ports \in [0..(Room - 1) -> Nat] /\ entered \in Seq(Nat)
  /\ ind = Len(entered) /\ ind <= Room
  /\ \A k \in 1..Len(entered) : entered[k] = ports[k - 1]
  /\ \A s \in Svcs : reg[s] \in {"load", "add"} => ind < Room /\ ports[ind] = PortOf[s]

AskTypes ==
  /\ asked \in Seq(Askers) /\ ask \in [Askers -> Asks] /\ told \in [Askers -> Seq(Nat)]
  /\ tpos \in Answers /\ since \in [Askers -> Nat]

\* The client has been told the beginning of the list.
Beginning(c) ==
  /\ Len(told[c]) <= Len(entered) /\ since[c] <= Len(entered)
  /\ \A k \in 1..Len(told[c]) : told[c][k] = entered[k]
  /\ ask[c] = "new" => told[c] = <<>>
  /\ ask[c] = "told" => since[c] <= Len(told[c])

ToldList ==
  /\ \A c \in Askers : Beginning(c)
  /\ \A i \in 1..Len(asked) : told[asked[i]] = <<>> /\ ask[asked[i]] = "wait"
  /\ \A i, j \in 1..Len(asked) : asked[i] = asked[j] => i = j
  /\ tpos # Nobody => /\ tpos.c \in Askers /\ Len(told[tpos.c]) = tpos.i
                      /\ ask[tpos.c] = "wait" /\ ~Contains(asked, tpos.c)

DirInv == raced \/ (Alone /\ (Overrun \/ (Listed /\ AskTypes /\ ToldList)))

LEMMA DirInit == InitDir \/ IdleDir => DirInv
<1> SUFFICES ASSUME InitDir \/ IdleDir PROVE DirInv
  OBVIOUS
<1>1. BlankDir
  BY DEF InitDir, IdleDir
<1>2. <<>> \in Seq(Askers) /\ <<>> \in Seq(Nat) /\ Len(<<>>) = 0 /\ 1..0 = {}
  BY Empty
<1>3. Alone
  BY <1>1 DEF BlankDir, Alone, Inside, Regs
<1>4. Listed
  BY <1>1, <1>2, PortsAssumption DEF BlankDir, Listed
<1>5. AskTypes
  BY <1>1, <1>2 DEF BlankDir, AskTypes, Asks, Answers, Nobody
<1>6. ToldList
  BY <1>1, <1>2 DEF BlankDir, ToldList, Beginning, Nobody
<1> QED
  BY <1>3, <1>4, <1>5, <1>6 DEF DirInv

\* What the steps of a service do to reg.
LEMMA RegMoves ==
  ASSUME Alone, NEW s \in Svcs, NEW w \in Regs, Goes(s, w), Inside(s) \/ \A t \in Svcs : ~Inside(t)
  PROVE  /\ reg' \in [Svcs -> Regs] /\ reg'[s] = w
         /\ \A t \in Svcs : t # s => reg'[t] = reg[t] /\ ~Inside(t)
         /\ \A t, u \in Svcs : Inside(t)' /\ Inside(u)' => t = u
<1>1. reg \in [Svcs -> Regs] /\ reg' = [reg EXCEPT ![s] = w]
  BY DEF Alone, Goes
<1>2. /\ reg' \in [Svcs -> Regs] /\ reg'[s] = w
      /\ \A t \in Svcs : t # s => reg'[t] = reg[t]
  BY <1>1, Updated
<1>3. \A t \in Svcs : t # s => ~Inside(t)
  BY DEF Alone
<1>4. \A t, u \in Svcs : Inside(t)' /\ Inside(u)' => t = u
  BY <1>2, <1>3 DEF Inside
<1> QED
  BY <1>2, <1>3, <1>4

\* A service that reads the count, or ends, changes nothing in the list.
LEMMA EnterListed ==
  ASSUME Alone, NEW s \in Svcs, ~raced', enter_read(s) \/ enter_load(s) \/ svc_end(s)
  PROVE  /\ Alone' /\ UNCHANGED <<ind, entered, askVars>>
         /\ Listed => Listed'
<1>t. ind \in Nat /\ idx \in [Svcs -> Nat]
  BY DEF Alone
<1>1. PICK w \in {"store", "add", "ended"} :
        /\ Goes(s, w)
        /\ w # "ended" => idx' = [idx EXCEPT ![s] = ind]
        /\ w = "ended" => idx' = idx
        /\ w = "store" => \A t \in Svcs : ~Inside(t)
        /\ w = "add" => reg[s] = "load"
        /\ UNCHANGED <<ports, ind, entered, askVars>>
  BY DEF enter_read, enter_load, svc_end, Meets, Inside
<1>2. w \in Regs
  BY DEF Regs
<1>3. /\ reg' \in [Svcs -> Regs] /\ reg'[s] = w
      /\ \A t \in Svcs : t # s => reg'[t] = reg[t]
      /\ w # "ended" => \A t \in Svcs : t # s => ~Inside(t)
      /\ \A t, u \in Svcs : Inside(t)' /\ Inside(u)' => t = u
  <2>1. CASE w # "ended"
    <3>1. Inside(s) \/ \A t \in Svcs : ~Inside(t)
      BY <1>1, <2>1 DEF Inside
    <3> QED
      BY <1>1, <1>2, <3>1, RegMoves
  <2>2. CASE w = "ended"
    <3>1. reg \in [Svcs -> Regs] /\ reg' = [reg EXCEPT ![s] = w]
      BY <1>1 DEF Alone, Goes
    <3>2. /\ reg' \in [Svcs -> Regs] /\ reg'[s] = w
          /\ \A t \in Svcs : t # s => reg'[t] = reg[t]
      BY <1>2, <3>1, Updated
    <3>3. \A t, u \in Svcs : Inside(t)' /\ Inside(u)' => t = u
      BY <2>2, <3>2 DEF Inside, Alone
    <3> QED
      BY <2>2, <3>2, <3>3
  <2> QED
    BY <2>1, <2>2
<1>4. idx' \in [Svcs -> Nat] /\ (w # "ended" => idx'[s] = ind)
      /\ \A t \in Svcs : t # s => idx'[t] = idx[t]
  <2>1. CASE w = "ended"
    BY <1>1, <1>t, <2>1
  <2>2. CASE w # "ended"
    BY <1>1, <1>t, <2>2, Updated
  <2> QED
    BY <2>1, <2>2
<1>5. \A t \in Svcs : reg'[t] \in {"store", "add"} => idx'[t] = ind
  BY <1>3, <1>4 DEF Alone
<1>6. Alone'
  BY <1>1, <1>3, <1>4, <1>5, <1>t DEF Alone
<1>7. \A t \in Svcs : reg'[t] \in {"load", "add"} => reg[t] \in {"load", "add"}
  BY <1>1, <1>3
<1>8. Listed => Listed'
  BY <1>1, <1>7 DEF Listed
<1> QED
  BY <1>1, <1>6, <1>8

\* It enters its port behind the others, or overruns the list.
LEMMA StoreListed ==
  ASSUME Alone, NEW s \in Svcs, enter_store(s)
  PROVE  /\ Alone' /\ UNCHANGED <<entered, askVars>>
         /\ Overrun => Overrun'
         /\ Listed => Overrun' \/ Listed'
<1>t. /\ ind \in Nat /\ idx \in [Svcs -> Nat] /\ idx[s] = ind
      /\ PortOf[s] \in Nat /\ Room \in Nat /\ PortOf[s] > Room
      /\ UNCHANGED <<idx, entered, askVars>> /\ reg[s] = "store"
  BY PortsAssumption DEF Alone, enter_store
<1>1. PICK w \in {"load", "ended"} : Goes(s, w)
  BY DEF enter_store
<1>2. w \in Regs /\ Inside(s)
  BY <1>t DEF Regs, Inside
<1>3. /\ reg' \in [Svcs -> Regs] /\ reg'[s] = w
      /\ \A t \in Svcs : t # s => reg'[t] = reg[t] /\ ~Inside(t)
      /\ \A t, u \in Svcs : Inside(t)' /\ Inside(u)' => t = u
  BY <1>1, <1>2, RegMoves
<1>4. \A t \in Svcs : reg'[t] \notin {"store", "add"}
  BY <1>3 DEF Inside
<1>5. ind' \in Nat
  BY <1>t DEF enter_store
<1>6. Alone'
  BY <1>3, <1>4, <1>5, <1>t DEF Alone
<1>7. Overrun => Overrun'
  BY <1>t DEF Overrun, enter_store
<1>8. ASSUME Listed, ~Overrun' PROVE Listed'
  <2>1. /\ ind < Room /\ ports' = [ports EXCEPT ![ind] = PortOf[s]] /\ UNCHANGED ind
    BY <1>8, <1>t DEF Listed, Overrun, enter_store
  <2>2. /\ ports \in [0..(Room - 1) -> Nat] /\ ind \in 0..(Room - 1)
    BY <1>8, <1>t, <2>1 DEF Listed
  <2>3. /\ ports' \in [0..(Room - 1) -> Nat] /\ ports'[ind] = PortOf[s]
        /\ \A k \in 0..(Room - 1) : k # ind => ports'[k] = ports[k]
    BY <1>t, <2>1, <2>2, Updated
  <2>4. \A k \in 1..Len(entered) : k - 1 \in 0..(Room - 1) /\ k - 1 # ind
    BY <1>8, <1>t DEF Listed
  <2>5. \A k \in 1..Len(entered) : entered[k] = ports'[k - 1]
    BY <1>8, <2>3, <2>4 DEF Listed
  <2>6. \A t \in Svcs : reg'[t] \in {"load", "add"} => t = s
    BY <1>3 DEF Inside
  <2> QED
    BY <1>8, <1>t, <2>1, <2>3, <2>5, <2>6 DEF Listed
<1> QED
  BY <1>6, <1>7, <1>8, <1>t

\* The count takes it in.
LEMMA AddListed ==
  ASSUME Alone, NEW s \in Svcs, enter_add(s)
  PROVE  /\ Alone' /\ UNCHANGED askVars
         /\ Overrun => Overrun'
         /\ Listed => Listed' /\ entered' = Append(entered, PortOf[s])
<1>t. /\ ind \in Nat /\ idx[s] = ind /\ ind' = ind + 1 /\ Room \in Nat
      /\ PortOf[s] \in Nat /\ entered' = Append(entered, PortOf[s])
      /\ UNCHANGED <<ports, idx, askVars>> /\ reg[s] = "add" /\ Goes(s, "in")
  BY PortsAssumption DEF Alone, enter_add
<1>1. "in" \in Regs /\ Inside(s)
  BY <1>t DEF Regs, Inside
<1>2. /\ reg' \in [Svcs -> Regs] /\ reg'[s] = "in"
      /\ \A t \in Svcs : t # s => reg'[t] = reg[t] /\ ~Inside(t)
      /\ \A t, u \in Svcs : Inside(t)' /\ Inside(u)' => t = u
  BY <1>1, <1>t, RegMoves
<1>3. \A t \in Svcs : reg'[t] \notin {"store", "load", "add"}
  BY <1>2 DEF Inside
<1>4. Alone'
  BY <1>2, <1>3, <1>t DEF Alone
<1>5. ASSUME Listed PROVE Listed'
  <2>1. entered \in Seq(Nat) /\ Len(entered) = ind /\ ind < Room /\ ports[ind] = PortOf[s]
    BY <1>5, <1>t DEF Listed
  <2>2. /\ entered' \in Seq(Nat) /\ Len(entered') = ind + 1 /\ entered'[ind + 1] = PortOf[s]
        /\ \A k \in 1..Len(entered) : entered'[k] = entered[k]
        /\ \A k \in 1..Len(entered') : k = ind + 1 \/ k \in 1..Len(entered)
    BY <1>t, <2>1, More
  <2>3. (ind + 1) - 1 = ind
    BY <1>t
  <2>4. \A k \in 1..Len(entered') : entered'[k] = ports[k - 1]
    BY <1>5, <2>1, <2>2, <2>3 DEF Listed
  <2>5. ind + 1 <= Room
    BY <1>t, <2>1
  <2> QED
    BY <1>3, <1>5, <1>t, <2>2, <2>4, <2>5 DEF Listed
<1> QED
  BY <1>4, <1>5, <1>t DEF Overrun

\* A longer list still begins with what the clients have been told.
LEMMA LongerTold ==
  ASSUME AskTypes, ToldList, NEW p \in Nat, entered \in Seq(Nat), entered' = Append(entered, p),
         UNCHANGED askVars
  PROVE  AskTypes' /\ ToldList'
<1>1. /\ Len(entered) \in Nat /\ Len(entered') = Len(entered) + 1
      /\ \A k \in 1..Len(entered) : entered'[k] = entered[k]
  BY More
<1>2. UNCHANGED <<asked, tpos, ask, told, since>>
  BY DEF askVars
<1>3. AskTypes'
  BY <1>2 DEF AskTypes
<1>4. ASSUME NEW c \in Askers PROVE Beginning(c)'
  <2>1. Beginning(c) /\ Len(told[c]) \in Nat /\ since[c] \in Nat
    BY DEF ToldList, AskTypes
  <2>2. \A k \in 1..Len(told[c]) : k \in 1..Len(entered)
    BY <1>1, <2>1 DEF Beginning
  <2>3. Len(told[c]) <= Len(entered') /\ since[c] <= Len(entered')
    BY <1>1, <2>1 DEF Beginning
  <2> QED
    BY <1>1, <1>2, <2>1, <2>2, <2>3 DEF Beginning
<1> QED
  BY <1>2, <1>3, <1>4 DEF ToldList

LEMMA RecvTold ==
  ASSUME AskTypes, ToldList, func2_recv
  PROVE  AskTypes' /\ ToldList'
<1>t. asked \in Seq(Askers)
  BY DEF AskTypes
<1>1. /\ asked # <<>> /\ tpos' = [c |-> Head(asked), i |-> 0] /\ asked' = Tail(asked)
      /\ UNCHANGED <<entered, ask, told, since>>
  BY DEF func2_recv, enterVars
<1>2. \A i, j \in 1..Len(asked) : asked[i] = asked[j] => i = j
  BY DEF ToldList
<1>3. /\ Head(asked) = asked[1] /\ 1 \in 1..Len(asked) /\ Head(asked) \in Askers
      /\ Tail(asked) \in Seq(Askers)
      /\ \A i \in 1..Len(Tail(asked)) :
           /\ i + 1 \in 1..Len(asked) /\ Tail(asked)[i] = asked[i + 1]
           /\ Tail(asked)[i] # Head(asked)
      /\ \A i, j \in 1..Len(Tail(asked)) : Tail(asked)[i] = Tail(asked)[j] => i = j
  BY <1>1, <1>2, <1>t, WithoutFirst
<1>4. told[Head(asked)] = <<>> /\ ask[Head(asked)] = "wait"
  BY <1>3 DEF ToldList
<1>5. ~Contains(Tail(asked), Head(asked))
  BY <1>3 DEF Contains
<1>6. \A i \in 1..Len(asked') : told[asked'[i]] = <<>> /\ ask[asked'[i]] = "wait"
  BY <1>1, <1>3 DEF ToldList
<1>7. Len(<<>>) = 0
  OBVIOUS
<1>8. \A c \in Askers : Beginning(c)'
  BY <1>1 DEF ToldList, Beginning
<1>9. ToldList'
  BY <1>1, <1>3, <1>4, <1>5, <1>6, <1>7, <1>8 DEF ToldList
<1> QED
  BY <1>1, <1>3, <1>9 DEF AskTypes, Answers

LEMMA SendTold ==
  ASSUME Listed, AskTypes, ToldList, ind \in Nat, func2_send
  PROVE  AskTypes' /\ ToldList'
<1> DEFINE c == tpos.c
<1>t. /\ told \in [Askers -> Seq(Nat)] /\ ask \in [Askers -> Asks]
      /\ tpos \in Answers /\ asked \in Seq(Askers) /\ since \in [Askers -> Nat]
  BY DEF AskTypes
<1>u. Room \in Nat /\ ind <= Room /\ ind = Len(entered) /\ entered \in Seq(Nat)
  BY PortsAssumption DEF Listed
<1>1. /\ tpos # Nobody
      /\ UNCHANGED <<ports, ind, entered, asked, since>>
  BY DEF func2_send, enterVars
<1>2. /\ c \in Askers /\ Len(told[c]) = tpos.i /\ ask[c] = "wait" /\ ~Contains(asked, c)
      /\ tpos.i \in Nat
  BY <1>1, <1>t DEF ToldList, Answers
<1>o. \A e \in Askers : Beginning(e)
  BY DEF ToldList
<1>3. CASE tpos.i < ind
  <2> DEFINE v == ports[tpos.i]
  <2>1. /\ PortAt(tpos.i) = {<<v>>}
    BY <1>2, <1>3, <1>u DEF PortAt
  <2>2. /\ told' = [told EXCEPT ![c] = told[c] \o <<v>>]
        /\ tpos' = [tpos EXCEPT !.i = tpos.i + 1] /\ ask' = ask
    BY <1>3, <1>u, <1>2, <2>1 DEF func2_send
  <2>3. /\ tpos' \in Answers /\ tpos'.c = c /\ tpos'.i = tpos.i + 1
    <3> DEFINE n == tpos.i + 1
    <3>1. n \in Nat /\ tpos' = [tpos EXCEPT !.i = n]
      BY <1>2, <2>2
    <3> HIDE DEF n
    <3>2. tpos' \in Answers /\ tpos'.c = tpos.c /\ tpos'.i = n
      BY <1>t, <3>1 DEF Answers
    <3> QED
      BY <3>2 DEF n
  <2>4. v \in Nat /\ v = entered[tpos.i + 1] /\ tpos.i + 1 <= Len(entered)
    <3>1. tpos.i + 1 \in 1..Len(entered) /\ (tpos.i + 1) - 1 = tpos.i
      BY <1>2, <1>3, <1>u
    <3>2. entered[tpos.i + 1] = v
      BY <3>1 DEF Listed
    <3> QED
      BY <1>u, <3>1, <3>2
  <2> HIDE DEF c, v
  <2>5. told[c] \in Seq(Nat)
    BY <1>2, <1>t
  <2>6. told[c] \o <<v>> = Append(told[c], v)
    BY <2>4, <2>5
  <2>7. /\ Append(told[c], v) \in Seq(Nat)
        /\ Len(Append(told[c], v)) = tpos.i + 1
        /\ Append(told[c], v)[tpos.i + 1] = v
        /\ \A k \in 1..Len(told[c]) : Append(told[c], v)[k] = told[c][k]
        /\ \A k \in 1..Len(Append(told[c], v)) : k = tpos.i + 1 \/ k \in 1..Len(told[c])
    BY <1>2, <2>4, <2>5, More
  <2>8. /\ told' \in [Askers -> Seq(Nat)] /\ told'[c] = Append(told[c], v)
        /\ \A e \in Askers : e # c => told'[e] = told[e]
    BY <1>2, <1>t, <2>2, <2>6, <2>7, Updated
  <2>9. ASSUME NEW e \in Askers PROVE Beginning(e)'
    <3>1. CASE e # c
      BY <1>1, <1>o, <2>2, <2>8, <3>1 DEF Beginning
    <3>2. CASE e = c
      <4>1. \A k \in 1..Len(told[c]) : told[c][k] = entered[k]
        BY <1>2, <1>o DEF Beginning
      <4>2. \A k \in 1..Len(told'[c]) : told'[c][k] = entered[k]
        BY <2>4, <2>7, <2>8, <4>1
      <4>3. Len(told'[c]) <= Len(entered) /\ since[c] <= Len(entered)
        BY <1>2, <1>o, <2>4, <2>7, <2>8 DEF Beginning
      <4> QED
        BY <1>1, <1>2, <2>2, <3>2, <4>2, <4>3 DEF Beginning
    <3> QED
      BY <3>1, <3>2
  <2>10. \A i \in 1..Len(asked) : asked[i] # c /\ asked[i] \in Askers
    BY <1>2, <1>t DEF Contains
  <2>11. \A i \in 1..Len(asked) : told'[asked[i]] = <<>> /\ ask[asked[i]] = "wait"
    BY <2>8, <2>10 DEF ToldList
  <2>12. ToldList'
    BY <1>1, <1>2, <2>2, <2>3, <2>7, <2>8, <2>9, <2>11 DEF ToldList
  <2> QED
    BY <1>1, <1>t, <2>2, <2>3, <2>8, <2>12 DEF AskTypes
<1>4. CASE ~(tpos.i < ind)
  <2>1. ask' = [ask EXCEPT ![c] = "told"] /\ tpos' = Nobody /\ told' = told
    BY <1>4 DEF func2_send
  <2> HIDE DEF c
  <2>2. /\ ask' \in [Askers -> Asks] /\ ask'[c] = "told"
        /\ \A e \in Askers : e # c => ask'[e] = ask[e]
    BY <1>2, <1>t, <2>1, Updated DEF Asks
  <2>3. \A i \in 1..Len(asked) : asked[i] # c /\ asked[i] \in Askers
    BY <1>2, <1>t DEF Contains
  <2>4. since[c] <= Len(told[c])
    <3>1. since[c] <= Len(entered) /\ since[c] \in Nat
      BY <1>2, <1>o, <1>t DEF Beginning
    <3> QED
      BY <1>2, <1>4, <1>u, <3>1
  <2>5. \A e \in Askers : Beginning(e)'
    BY <1>1, <1>2, <1>o, <2>1, <2>2, <2>4 DEF Beginning
  <2>6. \A i \in 1..Len(asked) : told[asked[i]] = <<>> /\ ask'[asked[i]] = "wait"
    BY <2>2, <2>3 DEF ToldList
  <2>7. ToldList'
    BY <1>1, <2>1, <2>5, <2>6 DEF ToldList
  <2>8. Nobody \in Answers
    BY DEF Nobody, Answers
  <2> QED
    BY <1>1, <1>t, <2>1, <2>2, <2>7, <2>8 DEF AskTypes
<1> QED
  BY <1>3, <1>4

\* T ends, and every client that waits is lost.
LEMMA EndTold ==
  ASSUME AskTypes, ToldList, t_end
  PROVE  AskTypes' /\ ToldList'
<1>1. /\ asked' = <<>> /\ tpos' = Nobody /\ UNCHANGED <<entered, told, since>>
      /\ ask' = [c \in Askers |-> IF ask[c] = "wait" THEN "lost" ELSE ask[c]]
  BY DEF t_end, enterVars
<1>2. <<>> \in Seq(Askers) /\ 1..Len(<<>>) = {} /\ Nobody \in Answers
  BY Empty DEF Nobody, Answers
<1>3. ask' \in [Askers -> Asks]
  BY <1>1 DEF AskTypes, Asks
<1>4. \A c \in Askers : Beginning(c)'
  BY <1>1 DEF ToldList, Beginning
<1> QED
  BY <1>1, <1>2, <1>3, <1>4 DEF AskTypes, ToldList

LEMMA AskTold ==
  ASSUME AskTypes, ToldList, entered \in Seq(Nat), NEW c \in Askers, client_ask(c)
  PROVE  AskTypes' /\ ToldList'
<1>t. asked \in Seq(Askers) /\ ask \in [Askers -> Asks] /\ since \in [Askers -> Nat]
  BY DEF AskTypes
<1>1. /\ ask[c] = "new" /\ since' = [since EXCEPT ![c] = Len(entered)]
      /\ UNCHANGED <<entered, tpos, told>>
  BY DEF client_ask, enterVars
<1>2. PICK w \in {"wait", "lost"} :
        /\ ask' = [ask EXCEPT ![c] = w]
        /\ w = "wait" => asked' = Append(asked, c)
        /\ w = "lost" => asked' = asked
  BY DEF client_ask
<1>3. /\ ask' \in [Askers -> Asks] /\ ask'[c] = w
      /\ \A e \in Askers : e # c => ask'[e] = ask[e]
  BY <1>2, <1>t, Updated DEF Asks
<1>s. /\ since' \in [Askers -> Nat] /\ since'[c] = Len(entered) /\ Len(entered) \in Nat
      /\ \A e \in Askers : e # c => since'[e] = since[e]
  BY <1>1, <1>t, Updated
<1>4. told[c] = <<>> /\ (tpos # Nobody => tpos.c # c)
  BY <1>1 DEF ToldList, Beginning
<1>5. \A i \in 1..Len(asked) : asked[i] # c /\ asked[i] \in Askers
  BY <1>1, <1>t DEF ToldList
<1>6. /\ asked' \in Seq(Askers)
      /\ \A i \in 1..Len(asked) : asked'[i] = asked[i] /\ i \in 1..Len(asked')
      /\ \A i \in 1..Len(asked') :
           \/ i \in 1..Len(asked)
           \/ i = Len(asked) + 1 /\ asked'[i] = c /\ w = "wait"
  <2>1. CASE w = "lost"
    BY <1>2, <1>t, <2>1
  <2>2. CASE w = "wait"
    <3>1. asked' = Append(asked, c)
      BY <1>2, <2>2
    <3>2. /\ asked' \in Seq(Askers) /\ asked'[Len(asked) + 1] = c
          /\ \A j \in 1..Len(asked) : asked'[j] = asked[j] /\ j \in 1..Len(asked')
          /\ \A j \in 1..Len(asked') : j = Len(asked) + 1 \/ j \in 1..Len(asked)
      BY <1>t, <3>1, More
    <3> QED
      BY <2>2, <3>2
  <2> QED
    BY <2>1, <2>2
<1>7. \A i \in 1..Len(asked') : told[asked'[i]] = <<>> /\ ask'[asked'[i]] = "wait"
  <2> SUFFICES ASSUME NEW i \in 1..Len(asked')
               PROVE  told[asked'[i]] = <<>> /\ ask'[asked'[i]] = "wait"
    OBVIOUS
  <2>1. CASE i \in 1..Len(asked)
    <3>1. told[asked[i]] = <<>> /\ ask[asked[i]] = "wait"
      BY <2>1 DEF ToldList
    <3> QED
      BY <1>3, <1>5, <1>6, <2>1, <3>1
  <2>2. CASE asked'[i] = c /\ w = "wait"
    BY <1>3, <1>4, <2>2
  <2> QED
    BY <1>6, <2>1, <2>2
<1>8. ASSUME NEW i \in 1..Len(asked'), NEW j \in 1..Len(asked'), asked'[i] = asked'[j]
      PROVE  i = j
  <2>1. CASE i \in 1..Len(asked) /\ j \in 1..Len(asked)
    BY <1>6, <1>8, <2>1 DEF ToldList
  <2>2. CASE i = Len(asked) + 1 /\ j = Len(asked) + 1
    BY <2>2
  <2>3. CASE i \in 1..Len(asked) /\ asked'[j] = c
    BY <1>5, <1>6, <1>8, <2>3
  <2>4. CASE j \in 1..Len(asked) /\ asked'[i] = c
    BY <1>5, <1>6, <1>8, <2>4
  <2> QED
    BY <1>6, <2>1, <2>2, <2>3, <2>4
<1>9. ASSUME NEW e \in Askers PROVE Beginning(e)'
  <2>1. Beginning(e)
    BY DEF ToldList
  <2>2. CASE e # c
    BY <1>1, <1>3, <1>s, <2>1, <2>2 DEF Beginning
  <2>3. CASE e = c
    BY <1>1, <1>3, <1>4, <1>s, <2>1, <2>3 DEF Beginning
  <2> QED
    BY <2>2, <2>3
<1>10. tpos # Nobody => /\ ask'[tpos.c] = "wait" /\ ~Contains(asked', tpos.c)
  <2> SUFFICES ASSUME tpos # Nobody
               PROVE  ask'[tpos.c] = "wait" /\ ~Contains(asked', tpos.c)
    OBVIOUS
  <2>1. tpos.c \in Askers /\ ask[tpos.c] = "wait" /\ ~Contains(asked, tpos.c) /\ tpos.c # c
    BY <1>4 DEF ToldList
  <2>2. ~Contains(asked', tpos.c)
    BY <1>6, <2>1 DEF Contains
  <2> QED
    BY <1>3, <2>1, <2>2
<1>11. ToldList'
  BY <1>1, <1>7, <1>8, <1>9, <1>10 DEF ToldList
<1> QED
  BY <1>1, <1>3, <1>6, <1>s, <1>11 DEF AskTypes

LEMMA DirStep == DirInv /\ (NextDir \/ UNCHANGED varsDir) => DirInv'
<1> SUFFICES ASSUME DirInv, NextDir \/ UNCHANGED varsDir, ~raced' PROVE DirInv'
  BY DEF DirInv
<1>1. ~raced
  BY DEF NextDir, Func2, Service, Enter, dir_bind, func2_recv, func2_send, t_end, enter_read,
         enter_store, enter_load, enter_add, svc_end, client_ask, Meets, varsDir, enterVars
<1>2. Alone /\ (Overrun \/ (Listed /\ AskTypes /\ ToldList))
  BY <1>1 DEF DirInv
<1>3. UNCHANGED <<reg, ind, idx>> => Alone' = Alone /\ Overrun' = Overrun
  BY DEF Alone, Inside, Overrun
<1>4. UNCHANGED <<reg, ind, ports, entered>> => Listed' = Listed
  BY DEF Listed
<1>5. UNCHANGED <<entered, askVars>> => AskTypes' = AskTypes /\ ToldList' = ToldList
  BY DEF AskTypes, ToldList, Beginning, askVars
<1>n. ind \in Nat /\ (Listed => entered \in Seq(Nat))
  BY <1>2 DEF Alone, Listed
<1>6. CASE dir_bind \/ UNCHANGED varsDir
  <2>1. UNCHANGED <<reg, ind, ports, idx, entered, askVars>>
    BY <1>6 DEF dir_bind, varsDir, enterVars
  <2> QED
    BY <1>2, <1>3, <1>4, <1>5, <2>1 DEF DirInv
<1>7. CASE Func2 \/ t_end \/ \E c \in Askers : client_ask(c)
  <2>1. UNCHANGED <<reg, ind, ports, idx, entered>>
    BY <1>7 DEF Func2, func2_recv, func2_send, t_end, client_ask, enterVars
  <2>2. Listed /\ AskTypes /\ ToldList => AskTypes' /\ ToldList'
    BY <1>7, <1>n, RecvTold, SendTold, EndTold, AskTold DEF Func2
  <2> QED
    BY <1>2, <1>3, <1>4, <2>1, <2>2 DEF DirInv
<1>8. ASSUME NEW s \in Svcs, Service(s) PROVE DirInv'
  <2>1. CASE enter_read(s) \/ enter_load(s) \/ svc_end(s)
    <3>1. Alone' /\ UNCHANGED <<ind, entered, askVars>> /\ (Listed => Listed')
      BY <1>2, <2>1, EnterListed
    <3>2. Overrun' = Overrun
      BY <3>1 DEF Overrun
    <3> QED
      BY <1>2, <1>5, <3>1, <3>2 DEF DirInv
  <2>2. CASE enter_store(s)
    <3>1. /\ Alone' /\ UNCHANGED <<entered, askVars>>
          /\ Overrun => Overrun'
          /\ Listed => Overrun' \/ Listed'
      BY <1>2, <2>2, StoreListed
    <3> QED
      BY <1>2, <1>5, <3>1 DEF DirInv
  <2>3. CASE enter_add(s)
    <3>1. /\ Alone' /\ UNCHANGED askVars
          /\ Overrun => Overrun'
          /\ Listed => Listed' /\ entered' = Append(entered, PortOf[s])
      BY <1>2, <2>3, AddListed
    <3>2. PortOf[s] \in Nat
      BY PortsAssumption
    <3>3. Listed /\ AskTypes /\ ToldList => AskTypes' /\ ToldList'
      BY <1>n, <3>1, <3>2, LongerTold
    <3> QED
      BY <1>2, <3>1, <3>3 DEF DirInv
  <2> QED
    BY <1>8, <2>1, <2>2, <2>3 DEF Service, Enter
<1> QED
  BY <1>6, <1>7, <1>8 DEF NextDir

LEMMA DirListed == DirInv => ListWrongOnlyAfterRace
<1> SUFFICES ASSUME Listed, AskTypes, ToldList, NEW c \in Askers
             PROVE  /\ Len(told[c]) <= Len(entered)
                    /\ \A k \in DOMAIN told[c] : told[c][k] = entered[k]
                    /\ ask[c] = "told" => Len(told[c]) >= since[c]
  BY DEF DirInv, ListWrongOnlyAfterRace
<1>1. /\ told[c] \in Seq(Nat) /\ since[c] \in Nat /\ Beginning(c)
  BY DEF AskTypes, ToldList
<1>2. DOMAIN told[c] = 1..Len(told[c]) /\ Len(told[c]) \in Nat
  BY <1>1
<1> QED
  BY <1>1, <1>2 DEF Beginning

(* KillGroups: what S writes into a fifo, and who reads it. *)

Frames == [g : Groups, pc : {"stop", "cont", "usr1", "open", "write"}, i : {1, 2}]

\* The child into whose fifo a handler writes next.
Aim(f) == Members(f.g)[f.i]

KillType ==
  /\ frames \in Seq(Frames) /\ alive \in {"run", "stopped", "killed"}
  /\ heard \in [Children -> Nat] /\ fifo \in [Children -> Seq({0, 1, 2})]
  /\ cpc \in [Children -> {"loop", "open", "read", "close"}] /\ buff \in {0, 1, 2}

\* A message for the child has been written, or it has its end open to read one.
Served(h, f, c) == h[c] + Len(f[c]) >= 1
Safe(h, f, p, c) == Served(h, f, c) \/ p[c] = "read"

\* Every handler that is about to write, also one that another one has
\* interrupted, finds the child there or has written to it before.
WritesSafely ==
  /\ \A k \in 1..Len(frames) : frames[k].pc = "write" => Safe(heard, fifo, cpc, Aim(frames[k]))
  /\ \A c \in Children : cpc[c] = "close" => heard[c] >= 1

KillInv ==
  /\ KillType
  /\ alive # "killed" => WritesSafely
  /\ alive = "killed" => frames # <<>> /\ Served(heard, fifo, Target)

LEMMA AimIsChild == \A f \in Frames : Aim(f) \in Children
<1> TAKE f \in Frames
<1>1. f.g \in {1, 2} /\ f.i \in {1, 2}
  BY DEF Frames, Groups
<1> QED
  BY <1>1 DEF Aim, Members, Children

LEMMA TargetIsAim ==
  ASSUME frames \in Seq(Frames), frames # <<>>
  PROVE  /\ Target = Aim(frames[1]) /\ Target \in Children /\ Top = frames[1]
         /\ 1 \in 1..Len(frames) /\ Top \in Frames
<1>1. Head(frames) = frames[1] /\ 1 \in 1..Len(frames) /\ frames[1] \in Frames
  OBVIOUS
<1> QED
  BY <1>1, AimIsChild DEF Target, Top, Aim

LEMMA KillInit == InitKill \/ IdleKill => KillInv
<1> SUFFICES ASSUME BlankKill PROVE KillInv
  BY DEF InitKill, IdleKill
<1>1. <<>> \in Seq(Frames) /\ <<>> \in Seq({0, 1, 2}) /\ Len(<<>>) = 0 /\ 1..0 = {}
  BY Empty
<1>2. KillType
  BY <1>1 DEF BlankKill, KillType
<1>3. WritesSafely
  BY <1>1 DEF BlankKill, WritesSafely
<1> QED
  BY <1>2, <1>3 DEF KillInv, BlankKill

\* The running handler goes on, or a new one interrupts it.
LEMMA TopMoves ==
  ASSUME KillType, WritesSafely, NEW x \in Frames,
         \/ frames # <<>> /\ frames' = <<x>> \o Tail(frames)
         \/ frames' = <<x>> \o frames,
         \A c \in Children : Safe(heard, fifo, cpc, c) => Safe(heard', fifo', cpc', c),
         x.pc = "write" => Safe(heard', fifo', cpc', Aim(x)),
         \A c \in Children : cpc'[c] = "close" => heard'[c] >= 1
  PROVE  frames' \in Seq(Frames) /\ frames' # <<>> /\ WritesSafely'
<1>1. frames \in Seq(Frames)
  BY DEF KillType
<1>2. /\ frames' \in Seq(Frames) /\ frames' # <<>>
      /\ \A k \in 1..Len(frames') :
           frames'[k] = x \/ \E l \in 1..Len(frames) : frames'[k] = frames[l]
  <2>1. CASE frames # <<>> /\ frames' = <<x>> \o Tail(frames)
    BY <1>1, <2>1, FirstChanged
  <2>2. CASE frames' = <<x>> \o frames
    BY <1>1, <2>2, FirstAdded
  <2> QED
    BY <2>1, <2>2
<1>3. \A l \in 1..Len(frames) :
        frames[l].pc = "write" => /\ Safe(heard, fifo, cpc, Aim(frames[l]))
                                  /\ Aim(frames[l]) \in Children
  <2>1. \A l \in 1..Len(frames) : frames[l] \in Frames
    BY <1>1
  <2> QED
    BY <2>1, AimIsChild DEF WritesSafely
<1>4. ASSUME NEW k \in 1..Len(frames'), frames'[k].pc = "write"
      PROVE  Safe(heard', fifo', cpc', Aim(frames'[k]))
  <2>1. CASE frames'[k] = x
    BY <1>4, <2>1
  <2>2. CASE \E l \in 1..Len(frames) : frames'[k] = frames[l]
    BY <1>3, <1>4, <2>2
  <2> QED
    BY <1>2, <2>1, <2>2
<1> QED
  BY <1>2, <1>4 DEF WritesSafely

\* The steps of a handler before it opens a fifo.
LEMMA SignalKill ==
  ASSUME KillInv, killpg_stop \/ killpg_cont \/ killpg_usr1 \/ \E g \in Groups : handler_enter(g)
  PROVE  KillInv'
<1>1. KillType /\ WritesSafely /\ alive = "run"
  BY DEF KillInv, killpg_stop, killpg_cont, killpg_usr1, handler_enter, InHandler
<1>2. UNCHANGED <<heard, fifo, cpc, buff>> /\ alive' \in {"run", "stopped"}
  BY <1>1 DEF killpg_stop, killpg_cont, killpg_usr1, handler_enter
<1>3. PICK x \in Frames : /\ x.pc # "write"
                          /\ \/ frames # <<>> /\ frames' = <<x>> \o Tail(frames)
                             \/ frames' = <<x>> \o frames
  <2>1. CASE \E g \in Groups : handler_enter(g)
    <3>1. PICK g \in Groups : handler_enter(g)
      BY <2>1
    <3>2. [g |-> g, pc |-> "stop", i |-> 1] \in Frames
      BY DEF Frames
    <3> QED
      BY <3>1, <3>2 DEF handler_enter
  <2>2. CASE killpg_stop \/ killpg_cont \/ killpg_usr1
    <3>1. PICK w \in {"cont", "usr1", "open"} : frames # <<>> /\ Resume(w)
      BY <2>2 DEF killpg_stop, killpg_cont, killpg_usr1, InHandler
    <3>2. Top \in Frames
      BY <1>1, <3>1, TargetIsAim DEF KillType
    <3>3. [Top EXCEPT !.pc = w] \in Frames /\ [Top EXCEPT !.pc = w].pc = w
      BY <3>2 DEF Frames
    <3> QED
      BY <3>1, <3>3 DEF Resume
  <2> QED
    BY <2>1, <2>2
<1>4. \A c \in Children : Safe(heard, fifo, cpc, c) => Safe(heard', fifo', cpc', c)
  BY <1>2
<1>5. \A c \in Children : cpc'[c] = "close" => heard'[c] >= 1
  BY <1>1, <1>2 DEF WritesSafely
<1>6. frames' \in Seq(Frames) /\ WritesSafely'
  BY <1>1, <1>3, <1>4, <1>5, TopMoves
<1>7. KillType'
  BY <1>1, <1>2, <1>6 DEF KillType
<1> QED
  BY <1>2, <1>6, <1>7 DEF KillInv

\* The open ends: the child has its end open, to read or after it has read.
LEMMA OpenKill ==
  ASSUME KillInv, handler_open
  PROVE  KillInv'
<1>1. KillType /\ WritesSafely /\ alive = "run" /\ frames # <<>>
  BY DEF KillInv, handler_open, InHandler
<1>2. UNCHANGED <<heard, fifo, cpc, buff, alive>> /\ Resume("write") /\ Reading(Target)
  BY DEF handler_open
<1>3. Top \in Frames /\ Target \in Children
  BY <1>1, TargetIsAim DEF KillType
<1>4. PICK x \in Frames : Aim(x) = Target /\ frames' = <<x>> \o Tail(frames)
  <2>1. [Top EXCEPT !.pc = "write"] \in Frames
    BY <1>3 DEF Frames
  <2>2. Aim([Top EXCEPT !.pc = "write"]) = Target
    BY <1>3 DEF Frames, Aim, Target
  <2> QED
    BY <1>2, <2>1, <2>2 DEF Resume
<1>5. \A c \in Children : Safe(heard, fifo, cpc, c) => Safe(heard', fifo', cpc', c)
  BY <1>2
<1>6. Safe(heard', fifo', cpc', Target)
  <2>1. CASE cpc[Target] = "read"
    BY <1>2, <2>1 DEF Safe
  <2>2. CASE cpc[Target] = "close"
    <3>1. heard[Target] >= 1 /\ heard[Target] \in Nat /\ Len(fifo[Target]) \in Nat
      BY <1>1, <1>3, <2>2 DEF WritesSafely, KillType
    <3> QED
      BY <1>2, <3>1 DEF Safe, Served
  <2> QED
    BY <1>2, <2>1, <2>2 DEF Reading
<1>7. \A c \in Children : cpc'[c] = "close" => heard'[c] >= 1
  BY <1>1, <1>2 DEF WritesSafely
<1>8. frames' \in Seq(Frames) /\ WritesSafely'
  BY <1>1, <1>4, <1>5, <1>6, <1>7, TopMoves
<1>9. KillType'
  BY <1>1, <1>2, <1>8 DEF KillType
<1> QED
  BY <1>1, <1>2, <1>8, <1>9 DEF KillInv

\* The two opens meet, or the child finds the fifo open.
LEMMA ChildOpenKill ==
  ASSUME KillInv, NEW c \in Children, child_open(c)
  PROVE  KillInv'
<1>t. cpc \in [Children -> {"loop", "open", "read", "close"}]
  BY DEF KillInv, KillType
<1>1. /\ KillType /\ cpc' = [cpc EXCEPT ![c] = "read"]
      /\ UNCHANGED <<heard, fifo, buff, alive>>
      /\ \/ UNCHANGED frames
         \/ InHandler("open") /\ Target = c /\ Resume("write")
  BY DEF KillInv, child_open
<1>2. /\ cpc' \in [Children -> {"loop", "open", "read", "close"}] /\ cpc'[c] = "read"
      /\ \A e \in Children : e # c => cpc'[e] = cpc[e]
  BY <1>t, <1>1, Updated
<1>3. \A e \in Children : Safe(heard, fifo, cpc, e) => Safe(heard', fifo', cpc', e)
  BY <1>1, <1>2 DEF Safe
<1>4. WritesSafely => \A e \in Children : cpc'[e] = "close" => heard'[e] >= 1
  BY <1>1, <1>2 DEF WritesSafely
<1>5. CASE UNCHANGED frames
  <2>1. KillType'
    BY <1>1, <1>2, <1>5 DEF KillType
  <2>2. \A k \in 1..Len(frames) : Aim(frames[k]) \in Children
    BY <1>1, AimIsChild DEF KillType
  <2>3. WritesSafely => WritesSafely'
    BY <1>3, <1>4, <1>5, <2>2 DEF WritesSafely
  <2>4. Target' = Target
    BY <1>5 DEF Target, Top
  <2> QED
    BY <1>1, <1>5, <2>1, <2>3, <2>4 DEF KillInv
<1>6. CASE InHandler("open") /\ Target = c /\ Resume("write")
  <2>1. alive = "run" /\ frames # <<>> /\ WritesSafely
    BY <1>6 DEF KillInv, InHandler
  <2>2. Top \in Frames
    BY <1>1, <2>1, TargetIsAim DEF KillType
  <2>3. PICK x \in Frames : Aim(x) = c /\ frames' = <<x>> \o Tail(frames)
    <3>1. [Top EXCEPT !.pc = "write"] \in Frames
      BY <2>2 DEF Frames
    <3>2. Aim([Top EXCEPT !.pc = "write"]) = c
      BY <1>6, <2>2 DEF Frames, Aim, Target
    <3> QED
      BY <1>6, <3>1, <3>2 DEF Resume
  <2>4. Safe(heard', fifo', cpc', Aim(x))
    BY <1>2, <2>3 DEF Safe
  <2>5. frames' \in Seq(Frames) /\ WritesSafely'
    BY <1>1, <1>3, <1>4, <2>1, <2>3, <2>4, TopMoves
  <2>6. KillType'
    BY <1>1, <1>2, <2>5 DEF KillType
  <2> QED
    BY <1>1, <2>1, <2>5, <2>6 DEF KillInv
<1> QED
  BY <1>1, <1>5, <1>6

\* S writes: it is killed only when the child has closed its end after a message.
LEMMA WriteKill ==
  ASSUME KillInv, handler_write
  PROVE  KillInv'
<1>1. KillType /\ WritesSafely /\ alive = "run" /\ frames # <<>> /\ Top.pc = "write"
  BY DEF KillInv, handler_write, InHandler
<1>2. /\ Target \in Children /\ Top \in Frames /\ Top = frames[1] /\ Target = Aim(frames[1])
      /\ 1 \in 1..Len(frames)
  BY <1>1, TargetIsAim DEF KillType
<1>3. UNCHANGED <<heard, cpc, buff>>
  BY DEF handler_write
<1>4. CASE ~Reading(Target)
  <2>1. alive' = "killed" /\ fifo' = fifo /\ frames' = frames
    BY <1>4 DEF handler_write
  <2>2. Safe(heard, fifo, cpc, Target)
    BY <1>1, <1>2 DEF WritesSafely
  <2>3. Served(heard, fifo, Target)
    BY <1>4, <2>2 DEF Safe, Reading
  <2>4. KillType'
    BY <1>1, <1>3, <2>1 DEF KillType
  <2>5. Target' = Target
    BY <2>1 DEF Target, Top
  <2> QED
    BY <1>1, <1>3, <2>1, <2>3, <2>4, <2>5 DEF KillInv
<1>5. CASE Reading(Target)
  <2>t. fifo \in [Children -> Seq({0, 1, 2})] /\ heard \in [Children -> Nat] /\ buff \in {0, 1, 2}
    BY <1>1 DEF KillType
  <2>1. /\ alive' = alive /\ fifo' = [fifo EXCEPT ![Target] = Append(fifo[Target], buff)]
        /\ frames' = IF Top.i = 2 THEN Tail(frames)
                     ELSE <<[Top EXCEPT !.pc = "open", !.i = 2]>> \o Tail(frames)
    BY <1>5 DEF handler_write
  <2>2. /\ Append(fifo[Target], buff) \in Seq({0, 1, 2})
        /\ Len(Append(fifo[Target], buff)) = Len(fifo[Target]) + 1
        /\ Len(fifo[Target]) \in Nat
    BY <1>2, <2>t, More
  <2>3. /\ fifo' \in [Children -> Seq({0, 1, 2})]
        /\ fifo'[Target] = Append(fifo[Target], buff)
        /\ \A e \in Children : e # Target => fifo'[e] = fifo[e]
    BY <1>2, <2>t, <2>1, <2>2, Updated
  <2>4. \A e \in Children : Safe(heard, fifo, cpc, e) => Safe(heard', fifo', cpc', e)
    <3> SUFFICES ASSUME NEW e \in Children, Safe(heard, fifo, cpc, e)
                 PROVE  Safe(heard', fifo', cpc', e)
      OBVIOUS
    <3>1. CASE e # Target
      BY <1>3, <2>3, <3>1 DEF Safe, Served
    <3>2. CASE e = Target
      <4>1. heard'[e] \in Nat /\ Len(fifo'[e]) = Len(fifo[e]) + 1 /\ Len(fifo[e]) \in Nat
        BY <1>3, <2>t, <2>2, <2>3, <3>2
      <4> QED
        BY <4>1 DEF Safe, Served
    <3> QED
      BY <3>1, <3>2
  <2>5. \A c \in Children : cpc'[c] = "close" => heard'[c] >= 1
    BY <1>1, <1>3 DEF WritesSafely
  <2>6. frames' \in Seq(Frames) /\ WritesSafely'
    <3>1. CASE Top.i = 2
      <4>1. frames' = Tail(frames)
        BY <2>1, <3>1
      <4>2. frames \in Seq(Frames)
        BY <1>1 DEF KillType
      <4>3. /\ frames' \in Seq(Frames)
            /\ \A k \in 1..Len(frames') : k + 1 \in 1..Len(frames) /\ frames'[k] = frames[k + 1]
        BY <1>1, <4>1, <4>2
      <4>4. \A k \in 1..Len(frames) : frames[k].pc = "write" =>
              Safe(heard, fifo, cpc, Aim(frames[k])) /\ Aim(frames[k]) \in Children
        BY <1>1, <4>2, AimIsChild DEF WritesSafely
      <4>5. \A k \in 1..Len(frames') : frames'[k].pc = "write" =>
              Safe(heard', fifo', cpc', Aim(frames'[k]))
        BY <2>4, <4>3, <4>4
      <4> QED
        BY <2>5, <4>3, <4>5 DEF WritesSafely
    <3>2. CASE Top.i # 2
      <4>1. frames' = <<[Top EXCEPT !.pc = "open", !.i = 2]>> \o Tail(frames)
        BY <2>1, <3>2
      <4>2. /\ [Top EXCEPT !.pc = "open", !.i = 2] \in Frames
            /\ [Top EXCEPT !.pc = "open", !.i = 2].pc # "write"
        BY <1>2 DEF Frames
      <4>3. PICK x \in Frames : x.pc # "write" /\ frames' = <<x>> \o Tail(frames)
        BY <4>1, <4>2
      <4> QED
        BY <1>1, <2>4, <2>5, <4>3, TopMoves
    <3> QED
      BY <3>1, <3>2
  <2>7. KillType'
    BY <1>1, <1>3, <2>1, <2>3, <2>6 DEF KillType
  <2> QED
    BY <1>1, <2>1, <2>6, <2>7 DEF KillInv
<1> QED
  BY <1>4, <1>5

\* A child reads a message; after S has been killed it may find the end of the fifo.
LEMMA ReadKill ==
  ASSUME KillInv, NEW c \in Children, child_read(c)
  PROVE  KillInv'
<1>t. /\ fifo \in [Children -> Seq({0, 1, 2})] /\ heard \in [Children -> Nat]
      /\ cpc \in [Children -> {"loop", "open", "read", "close"}]
  BY DEF KillInv, KillType
<1>1. /\ KillType /\ UNCHANGED <<frames, alive, buff>>
      /\ cpc' = [cpc EXCEPT ![c] = "close"] /\ cpc[c] = "read"
      /\ fifo[c] # <<>> \/ alive = "killed"
  BY DEF KillInv, child_read
<1>2. PICK q \in Seq({0, 1, 2}), n \in Nat :
        /\ fifo' = [fifo EXCEPT ![c] = q] /\ heard' = [heard EXCEPT ![c] = n]
        /\ n + Len(q) = heard[c] + Len(fifo[c])
        /\ fifo[c] # <<>> => n >= 1
  <2>1. CASE fifo[c] = <<>>
    <3>1. fifo' = [fifo EXCEPT ![c] = fifo[c]] /\ heard' = [heard EXCEPT ![c] = heard[c]]
      BY <2>1 DEF child_read
    <3> QED
      BY <1>t, <2>1, <3>1
  <2>2. CASE fifo[c] # <<>>
    <3>1. /\ fifo' = [fifo EXCEPT ![c] = Tail(fifo[c])]
          /\ heard' = [heard EXCEPT ![c] = heard[c] + 1]
      BY <2>2 DEF child_read
    <3>2. /\ Tail(fifo[c]) \in Seq({0, 1, 2}) /\ Len(Tail(fifo[c])) = Len(fifo[c]) - 1
          /\ Len(fifo[c]) \in Nat /\ heard[c] \in Nat
      BY <1>t, <2>2
    <3>3. (heard[c] + 1) + Len(Tail(fifo[c])) = heard[c] + Len(fifo[c])
          /\ heard[c] + 1 \in Nat /\ heard[c] + 1 >= 1
      BY <3>2
    <3> QED
      BY <3>1, <3>2, <3>3
  <2> QED
    BY <2>1, <2>2
<1>3. /\ cpc' \in [Children -> {"loop", "open", "read", "close"}] /\ cpc'[c] = "close"
      /\ \A e \in Children : e # c => cpc'[e] = cpc[e]
  BY <1>t, <1>1, Updated
<1>4. /\ fifo' \in [Children -> Seq({0, 1, 2})] /\ fifo'[c] = q
      /\ \A e \in Children : e # c => fifo'[e] = fifo[e]
  BY <1>t, <1>2, Updated
<1>5. /\ heard' \in [Children -> Nat] /\ heard'[c] = n
      /\ \A e \in Children : e # c => heard'[e] = heard[e]
  BY <1>t, <1>2, Updated
<1>6. KillType'
  BY <1>1, <1>3, <1>4, <1>5 DEF KillType
<1>7. \A e \in Children : Served(heard, fifo, e) => Served(heard', fifo', e)
  <2> SUFFICES ASSUME NEW e \in Children, Served(heard, fifo, e)
               PROVE  Served(heard', fifo', e)
    OBVIOUS
  <2>1. CASE e = c
    BY <1>2, <1>4, <1>5, <2>1 DEF Served
  <2>2. CASE e # c
    BY <1>4, <1>5, <2>2 DEF Served
  <2> QED
    BY <2>1, <2>2
<1>8. \A k \in 1..Len(frames) : Aim(frames[k]) \in Children
  BY <1>1, AimIsChild DEF KillType
<1>9. CASE alive = "killed"
  <2>1. frames # <<>> /\ Served(heard, fifo, Target)
    BY <1>9 DEF KillInv
  <2>2. Target \in Children
    BY <1>1, <2>1, TargetIsAim DEF KillType
  <2>3. Target' = Target
    BY <1>1 DEF Target, Top
  <2> QED
    BY <1>1, <1>6, <1>7, <1>9, <2>1, <2>2, <2>3 DEF KillInv
<1>10. CASE alive # "killed"
  <2>1. WritesSafely /\ n >= 1
    BY <1>1, <1>2, <1>10 DEF KillInv
  <2>2. Served(heard', fifo', c)
    <3>1. Len(q) \in Nat
      OBVIOUS
    <3> QED
      BY <1>4, <1>5, <2>1, <3>1 DEF Served
  <2>3. \A e \in Children : Safe(heard, fifo, cpc, e) => Safe(heard', fifo', cpc', e)
    BY <1>3, <1>7, <2>2 DEF Safe
  <2>4. \A e \in Children : cpc'[e] = "close" => heard'[e] >= 1
    BY <1>3, <1>5, <2>1 DEF WritesSafely
  <2>5. WritesSafely'
    BY <1>1, <1>8, <2>1, <2>3, <2>4 DEF WritesSafely
  <2> QED
    BY <1>1, <1>6, <1>10, <2>5 DEF KillInv
<1> QED
  BY <1>9, <1>10

\* The child enters its handler or leaves it.
LEMMA ChildMoves ==
  ASSUME KillInv, NEW c \in Children, child_enter(c) \/ child_close(c)
  PROVE  KillInv'
<1>t. cpc \in [Children -> {"loop", "open", "read", "close"}]
  BY DEF KillInv, KillType
<1>1. PICK w \in {"open", "loop"} :
        /\ cpc' = [cpc EXCEPT ![c] = w] /\ cpc[c] \in {"loop", "close"}
        /\ UNCHANGED <<frames, heard, fifo, alive, buff>>
  BY DEF child_enter, child_close
<1>2. /\ cpc' \in [Children -> {"loop", "open", "read", "close"}] /\ cpc'[c] = w
      /\ \A e \in Children : e # c => cpc'[e] = cpc[e]
  BY <1>t, <1>1, Updated
<1>3. KillType'
  BY <1>1, <1>2 DEF KillInv, KillType
<1>4. \A e \in Children : Safe(heard, fifo, cpc, e) => Safe(heard', fifo', cpc', e)
  BY <1>1, <1>2 DEF Safe
<1>5. \A k \in 1..Len(frames) : Aim(frames[k]) \in Children
  BY AimIsChild DEF KillInv, KillType
<1>6. WritesSafely => WritesSafely'
  BY <1>1, <1>2, <1>4, <1>5 DEF WritesSafely
<1>7. Target' = Target
  BY <1>1 DEF Target, Top
<1> QED
  BY <1>1, <1>3, <1>6, <1>7 DEF KillInv

LEMMA KillStep == KillInv /\ (NextKill \/ UNCHANGED varsKill) => KillInv'
<1> SUFFICES ASSUME KillInv, NextKill \/ UNCHANGED varsKill PROVE KillInv'
  OBVIOUS
<1>1. CASE SMain \/ polling \/ C1 \/ C2 \/ D \/ UNCHANGED varsKill
  <2>1. UNCHANGED <<frames, alive, heard, fifo, cpc>>
    BY <1>1 DEF SMain, main_publish, main_fork, main_setpgid, polling, C1, C2, Write,
                D, D_start, D_read, D_kill, varsKill
  <2>2. buff' \in {0, 1, 2}
    <3>1. buff \in {0, 1, 2}
      BY DEF KillInv, KillType
    <3> QED
      BY <1>1, <3>1 DEF SMain, main_publish, main_fork, main_setpgid, polling, C1, C2, Write,
                D, D_start, D_read, D_kill, varsKill, Groups
  <2>3. KillType'
    BY <2>1, <2>2 DEF KillInv, KillType
  <2>4. WritesSafely' = WritesSafely
    BY <2>1 DEF WritesSafely
  <2>5. Target' = Target
    BY <2>1 DEF Target, Top
  <2> QED
    BY <2>1, <2>3, <2>4, <2>5 DEF KillInv
<1>2. CASE Handler
  BY <1>2, SignalKill, OpenKill, WriteKill DEF Handler
<1>3. CASE handler_sc1 \/ handler_sc2 \/ handler_a \/ handler_b
  <2>1. PICK c \in Children : child_enter(c) \/ child_open(c) \/ child_read(c) \/ child_close(c)
    BY <1>3 DEF handler_sc1, handler_sc2, handler_a, handler_b, Children
  <2> QED
    BY <2>1, ChildMoves, ChildOpenKill, ReadKill
<1> QED
  BY <1>1, <1>2, <1>3 DEF NextKill

LEMMA KillArrives == KillInv => FirstMessageArrives
BY DEF KillInv, FirstMessageArrives, Served

(* ChatQueue: the request of a client and the answer to it. *)

Msgs == [type : Nat, text : Nat]

ChatType ==
  /\ pid \in [Clients -> Nat] /\ \A c, e \in Clients : pid[c] = pid[e] => c = e
  /\ rq \in Seq(Msgs) /\ pids \in Seq(Nat) /\ typed \in [Clients -> Nat]
  /\ cl \in [Clients -> {"off", "start", "joining", "in", "deaf", "lost"}]
  /\ sv \in [at : {"recv", "ack", "relay", "overflow"}, m : Msgs \cup {<<>>}, i : Nat]

\* The server has taken a message of this type and not answered it.
Holding(s, t) == s.at \in {"ack", "overflow"} /\ s.m.type = t

\* The answer to c is on the way, in the server's hands or has been taken for a request.
Answered(c) == \/ HasType(rq, pid[c] + 1) \/ Holding(sv, pid[c] + 1)
               \/ pid[c] + 1 \in Registered

\* The request of a waiting client has not been lost, and a pid is registered
\* only by the step that goes on to answer it.
Waits(c) ==
  /\ cl[c] = "joining" => HasType(rq, pid[c]) \/ Holding(sv, pid[c]) \/ Answered(c)
  /\ cl[c] \in {"start", "joining"} /\ pid[c] \in Registered =>
       (sv.at = "ack" /\ sv.m.type = pid[c]) \/ Answered(c)

AckRegistered == sv.at = "ack" => sv.m \in Msgs /\ sv.m.type \in Registered

ChatInv == gone \/ /\ ChatType /\ AckRegistered
                   /\ \A c \in Clients : Adjacent(c) \/ Waits(c)

LEMMA HasMore ==
  ASSUME NEW C, NEW q \in Seq(C), NEW e \in C, NEW r, r = Append(q, e)
  PROVE  /\ r \in Seq(C)
         /\ \A t : HasType(q, t) \/ e.type = t => HasType(r, t)
<1>1. /\ r \in Seq(C) /\ Len(r) = Len(q) + 1 /\ Len(q) \in Nat /\ r[Len(q) + 1] = e
      /\ \A j \in 1..Len(q) : r[j] = q[j] /\ j \in 1..Len(r)
  BY More
<1>2. DOMAIN q = 1..Len(q) /\ DOMAIN r = 1..Len(r) /\ Len(q) + 1 \in 1..Len(r)
  BY <1>1
<1> QED
  BY <1>1, <1>2 DEF HasType

LEMMA HasFirst ==
  ASSUME NEW C, NEW q \in Seq(C), q # <<>>
  PROVE  /\ Head(q) \in C /\ Tail(q) \in Seq(C)
         /\ \A t : HasType(q, t) => Head(q).type = t \/ HasType(Tail(q), t)
<1>1. /\ Head(q) = q[1] /\ Head(q) \in C /\ Tail(q) \in Seq(C)
      /\ Len(Tail(q)) = Len(q) - 1 /\ Len(q) \in Nat
      /\ \A k \in 1..Len(Tail(q)) : Tail(q)[k] = q[k + 1]
      /\ DOMAIN q = 1..Len(q) /\ DOMAIN Tail(q) = 1..Len(Tail(q))
  OBVIOUS
<1>2. ASSUME NEW t, HasType(q, t), Head(q).type # t
      PROVE  HasType(Tail(q), t)
  <2>1. PICK k \in 1..Len(q) : q[k].type = t
    BY <1>1, <1>2 DEF HasType
  <2>2. k - 1 \in 1..Len(Tail(q)) /\ (k - 1) + 1 = k
    BY <1>1, <1>2, <2>1
  <2> QED
    BY <1>1, <2>1, <2>2 DEF HasType
<1> QED
  BY <1>1, <1>2

\* FirstOf is the first message of a type.
LEMMA FirstOfIs ==
  ASSUME NEW C, NEW q \in Seq(C), NEW t, HasType(q, t)
  PROVE  /\ FirstOf(q, t) \in 1..Len(q) /\ q[FirstOf(q, t)].type = t
         /\ \A j \in 1..(FirstOf(q, t) - 1) : q[j].type # t
<1> DEFINE S == {i \in 1..Len(q) : q[i].type = t}
           k == FirstOf(q, t)
<1>1. S \subseteq Nat /\ S # {} /\ DOMAIN q = 1..Len(q)
  BY DEF HasType
<1>2. PICK x \in S : \A y \in S : x <= y
  <2> HIDE DEF S
  <2>1. Min(S) \in S /\ \A y \in S : Min(S) <= y
    BY <1>1, MinIsLeast
  <2> QED
    BY <2>1
<1>3. x \in DOMAIN q /\ q[x].type = t /\ \A j \in 1..(x - 1) : q[j].type # t
  <2>1. ASSUME NEW j \in 1..(x - 1), q[j].type = t PROVE FALSE
    <3>1. j \in 1..Len(q) /\ ~(x <= j) /\ x \in 1..Len(q)
      OBVIOUS
    <3> QED
      BY <1>2, <2>1, <3>1
  <2> QED
    BY <1>1, <2>1
<1>4. k \in DOMAIN q /\ q[k].type = t /\ \A j \in 1..(k - 1) : q[j].type # t
  BY <1>3 DEF FirstOf
<1> QED
  BY <1>1, <1>4

LEMMA HasOthers ==
  ASSUME NEW C, NEW q \in Seq(C), NEW t, HasType(q, t)
  PROVE  /\ RemoveAt(q, FirstOf(q, t)) \in Seq(C)
         /\ \A u : u # t /\ HasType(q, u) => HasType(RemoveAt(q, FirstOf(q, t)), u)
<1> DEFINE k == FirstOf(q, t)
           r == RemoveAt(q, k)
<1>1. DOMAIN q = 1..Len(q)
  OBVIOUS
<1>5. k \in 1..Len(q) /\ q[k].type = t
  BY FirstOfIs
<1> HIDE DEF k
<1>6. r \in Seq(C) /\ KeepsOthers(q, k, r)
  BY <1>5, Rest
<1> HIDE DEF r
<1>7. DOMAIN r = 1..Len(r)
  BY <1>6
<1>8. ASSUME NEW u, u # t, HasType(q, u) PROVE HasType(r, u)
  <2>1. PICK n \in 1..Len(q) : q[n].type = u
    BY <1>1, <1>8 DEF HasType
  <2>2. n # k
    BY <1>5, <1>8, <2>1
  <2>3. PICK j \in 1..Len(r) : r[j] = q[n]
    BY <1>6, <2>2 DEF KeepsOthers
  <2> QED
    BY <1>7, <2>1, <2>3 DEF HasType
<1> QED
  BY <1>6, <1>8 DEF r, k

LEMMA ChatInit == InitChat \/ IdleChat => ChatInv
<1> SUFFICES ASSUME InitChat \/ IdleChat PROVE ChatInv
  OBVIOUS
<1>1. ReadyRest /\ \E w \in {"off", "start"} : cl = [c \in Clients |-> w]
  BY DEF InitChat, IdleChat
<1>2. pid \in [Clients -> Nat] /\ \A c, e \in Clients : pid[c] = pid[e] => c = e
  BY <1>1, ChatAssumption DEF ReadyRest
<1>3. <<>> \in Seq(Msgs) /\ <<>> \in Seq(Nat) /\ DOMAIN <<>> = {}
  BY Empty
<1>4. ChatType
  BY <1>1, <1>2, <1>3 DEF ReadyRest, ChatType
<1>5. AckRegistered
  BY <1>1 DEF ReadyRest, AckRegistered
<1>6. Registered = {}
  BY <1>1, <1>3 DEF ReadyRest, Registered
<1>7. \A c \in Clients : cl[c] # "joining"
  BY <1>1
<1>8. \A c \in Clients : Waits(c)
  BY <1>6, <1>7 DEF Waits
<1> QED
  BY <1>4, <1>5, <1>8 DEF ChatInv

\* What a client asks or types goes to the end of the queue.
LEMMA TypeChat ==
  ASSUME ChatInv, ~gone, NEW e \in Clients, first_time_send(e) \/ sigint_msgsnd(e)
  PROVE  ChatInv'
<1>t. /\ ChatType /\ AckRegistered /\ pid \in [Clients -> Nat] /\ typed \in [Clients -> Nat]
      /\ rq \in Seq(Msgs)
      /\ cl \in [Clients -> {"off", "start", "joining", "in", "deaf", "lost"}]
  BY DEF ChatInv, ChatType
<1>1. /\ rq' = Append(rq, Line(e)) /\ typed' = [typed EXCEPT ![e] = typed[e] + 1]
      /\ UNCHANGED <<pid, pids, sv, gone>>
      /\ \/ cl' = [cl EXCEPT ![e] = "joining"] /\ cl[e] = "start"
         \/ cl' = cl
  BY DEF first_time_send, sigint_msgsnd
<1>2. Line(e) \in Msgs /\ Line(e).type = pid[e]
  BY <1>t DEF Line, Msgs
<1>3. rq' \in Seq(Msgs) /\ \A t : HasType(rq, t) \/ Line(e).type = t => HasType(rq', t)
  BY <1>t, <1>1, <1>2, HasMore
<1>4. typed' \in [Clients -> Nat]
  BY <1>t, <1>1
<1>5. /\ cl' \in [Clients -> {"off", "start", "joining", "in", "deaf", "lost"}]
      /\ \A c \in Clients : c # e => cl'[c] = cl[c]
      /\ (cl'[e] = "joining" /\ cl[e] = "start") \/ cl'[e] = cl[e]
  BY <1>t, <1>1
<1>6. ChatType'
  BY <1>t, <1>1, <1>3, <1>4, <1>5 DEF ChatType
<1>7. Registered' = Registered /\ AckRegistered'
  BY <1>t, <1>1 DEF Registered, AckRegistered
<1>8. ASSUME NEW c \in Clients, ~Adjacent(c)' PROVE Waits(c)'
  <2>1. Waits(c)
    BY <1>1, <1>8 DEF ChatInv, Adjacent
  <2>2. Answered(c) => Answered(c)'
    BY <1>1, <1>3, <1>7 DEF Answered
  <2>3. CASE c # e
    BY <1>1, <1>3, <1>5, <1>7, <2>1, <2>2, <2>3 DEF Waits
  <2>4. CASE c = e
    <3>1. HasType(rq', pid'[c])
      BY <1>1, <1>2, <1>3, <2>4
    <3>2. cl'[c] \in {"start", "joining"} => cl[c] \in {"start", "joining"}
      BY <1>5, <2>4
    <3> QED
      BY <1>1, <1>7, <2>1, <2>2, <3>1, <3>2 DEF Waits
  <2> QED
    BY <2>3, <2>4
<1> QED
  BY <1>6, <1>7, <1>8 DEF ChatInv

\* A client takes the answer to it, and the one to a client with its pid only.
LEMMA JoinChat ==
  ASSUME ChatInv, ~gone, NEW e \in Clients, first_time_recv(e)
  PROVE  ChatInv'
<1>t. /\ ChatType /\ AckRegistered /\ pid \in [Clients -> Nat] /\ rq \in Seq(Msgs)
      /\ cl \in [Clients -> {"off", "start", "joining", "in", "deaf", "lost"}]
      /\ \A c, f \in Clients : pid[c] = pid[f] => c = f
  BY DEF ChatInv, ChatType
<1>1. /\ HasType(rq, pid[e] + 1) /\ rq' = RemoveAt(rq, FirstOf(rq, pid[e] + 1))
      /\ \E w \in {"in", "deaf"} : cl' = [cl EXCEPT ![e] = w]
      /\ UNCHANGED <<pid, typed, pids, sv, gone>>
  BY DEF first_time_recv
<1>2. rq' \in Seq(Msgs) /\ \A u : u # pid[e] + 1 /\ HasType(rq, u) => HasType(rq', u)
  BY <1>t, <1>1, HasOthers
<1>3. /\ cl' \in [Clients -> {"off", "start", "joining", "in", "deaf", "lost"}]
      /\ \A c \in Clients : c # e => cl'[c] = cl[c]
      /\ cl'[e] \in {"in", "deaf"}
  BY <1>t, <1>1
<1>4. ChatType'
  BY <1>t, <1>1, <1>2, <1>3 DEF ChatType
<1>5. Registered' = Registered /\ AckRegistered'
  BY <1>t, <1>1 DEF Registered, AckRegistered
<1>6. ASSUME NEW c \in Clients, ~Adjacent(c)' PROVE Waits(c)'
  <2>1. Waits(c) /\ ~Adjacent(c)
    BY <1>1, <1>6 DEF ChatInv, Adjacent
  <2>2. CASE c = e
    BY <1>3, <2>2 DEF Waits
  <2>3. CASE c # e
    <3>1. pid[c] # pid[e] + 1
      BY <2>1 DEF Adjacent
    <3>2. pid[c] + 1 # pid[e] + 1
      <4>1. pid[c] \in Nat /\ pid[e] \in Nat /\ pid[c] # pid[e]
        BY <1>t, <2>3
      <4> QED
        BY <4>1
    <3>3. /\ HasType(rq, pid[c]) => HasType(rq', pid[c])
          /\ HasType(rq, pid[c] + 1) => HasType(rq', pid[c] + 1)
      BY <1>2, <3>1, <3>2
    <3>4. Answered(c) => Answered(c)'
      BY <1>1, <1>5, <3>3 DEF Answered
    <3> QED
      BY <1>1, <1>3, <1>5, <2>1, <2>3, <3>3, <3>4 DEF Waits
  <2> QED
    BY <2>2, <2>3
<1> QED
  BY <1>4, <1>5, <1>6 DEF ChatInv

\* The server takes a message: it knows the type, or registers it and will answer.
LEMMA TakeChat ==
  ASSUME ChatInv, msgrcv_any
  PROVE  ChatInv'
<1> DEFINE m == Head(rq)
<1>1. /\ ~gone /\ sv.at = "recv" /\ rq # <<>> /\ rq' = Tail(rq)
      /\ UNCHANGED <<pid, cl, typed, gone>>
      /\ \/ (\E i \in DOMAIN pids : pids[i] = m.type) /\ sv' = [at |-> "relay", m |-> m, i |-> 1]
         \/ sv' = [at |-> "overflow", m |-> m, i |-> 1]
         \/ sv' = [at |-> "ack", m |-> m, i |-> 1]
      /\ pids' = IF sv'.at = "ack" THEN Append(pids, m.type) ELSE pids
  BY DEF msgrcv_any
<1>t. /\ ChatType /\ rq \in Seq(Msgs) /\ pids \in Seq(Nat) /\ pid \in [Clients -> Nat]
  BY <1>1 DEF ChatInv, ChatType
<1>2. m \in Msgs /\ rq' \in Seq(Msgs) /\ \A t : HasType(rq, t) => m.type = t \/ HasType(rq', t)
  BY <1>t, <1>1, HasFirst
<1>3. m.type \in Nat
  BY <1>2 DEF Msgs
<1> HIDE DEF m
<1>4. PICK w \in {"relay", "overflow", "ack"} :
        /\ sv' = [at |-> w, m |-> m, i |-> 1]
        /\ w = "relay" => m.type \in Registered
        /\ w = "ack" => pids' = Append(pids, m.type)
        /\ w # "ack" => pids' = pids
  BY <1>1 DEF Registered
<1>5. /\ sv' \in [at : {"recv", "ack", "relay", "overflow"}, m : Msgs \cup {<<>>}, i : Nat]
      /\ sv'.at = w /\ sv'.m = m
  BY <1>2, <1>4
<1>6. /\ pids' \in Seq(Nat) /\ Registered \subseteq Registered'
      /\ w = "ack" => m.type \in Registered'
      /\ Registered' \subseteq Registered \cup {m.type}
      /\ w # "ack" => Registered' = Registered
  <2>1. CASE w # "ack"
    BY <1>t, <1>4, <2>1 DEF Registered
  <2>2. CASE w = "ack"
    <3>1. pids' = Append(pids, m.type)
      BY <1>4, <2>2
    <3>2. /\ pids' \in Seq(Nat) /\ Len(pids') = Len(pids) + 1 /\ Len(pids) \in Nat
          /\ pids'[Len(pids) + 1] = m.type
          /\ \A j \in 1..Len(pids) : pids'[j] = pids[j] /\ j \in 1..Len(pids')
          /\ \A j \in 1..Len(pids') : j = Len(pids) + 1 \/ j \in 1..Len(pids)
      BY <1>t, <1>3, <3>1, More
    <3>3. DOMAIN pids = 1..Len(pids) /\ DOMAIN pids' = 1..Len(pids') /\ Len(pids) + 1 \in 1..Len(pids')
      BY <1>t, <3>2
    <3> QED
      BY <2>2, <3>2, <3>3 DEF Registered
  <2> QED
    BY <2>1, <2>2
<1>7. ChatType'
  BY <1>t, <1>1, <1>2, <1>5, <1>6 DEF ChatType
<1>8. AckRegistered'
  BY <1>2, <1>5, <1>6 DEF AckRegistered
<1>9. ASSUME NEW c \in Clients, ~Adjacent(c)' PROVE Waits(c)'
  <2>1. Waits(c)
    BY <1>1, <1>9 DEF ChatInv, Adjacent
  <2>2. ~Holding(sv, pid[c]) /\ ~Holding(sv, pid[c] + 1) /\ sv.at # "ack"
    BY <1>1 DEF Holding
  <2>3. pid[c] \in Nat /\ pid[c] + 1 # pid[c]
    BY <1>t
  <2>4. m.type = pid[c] + 1 => Answered(c)'
    BY <1>1, <1>4, <1>5, <1>6 DEF Answered, Holding
  <2>5. Answered(c) => Answered(c)'
    BY <1>1, <1>2, <1>6, <2>2, <2>4 DEF Answered
  <2>6. m.type = pid[c] /\ w # "relay" => Holding(sv', pid[c])
    BY <1>4, <1>5 DEF Holding
  <2>7. pid[c] \in Registered /\ cl[c] \in {"start", "joining"} => Answered(c)
    BY <2>1, <2>2 DEF Waits
  <2>8. cl[c] = "joining" => HasType(rq', pid[c]) \/ Holding(sv', pid[c]) \/ Answered(c)'
    BY <1>2, <1>4, <2>1, <2>2, <2>5, <2>6, <2>7 DEF Waits
  <2>9. cl[c] \in {"start", "joining"} /\ pid[c] \in Registered' =>
          (w = "ack" /\ m.type = pid[c]) \/ Answered(c)'
    BY <1>6, <2>5, <2>7
  <2> QED
    BY <1>1, <1>5, <2>8, <2>9 DEF Waits
<1> QED
  BY <1>7, <1>8, <1>9 DEF ChatInv

\* It answers: the pid is registered, and the answer is on the way.
LEMMA AnswerChat ==
  ASSUME ChatInv, ~gone, is_there
  PROVE  ChatInv'
<1>t. /\ ChatType /\ AckRegistered /\ rq \in Seq(Msgs) /\ pid \in [Clients -> Nat]
      /\ sv \in [at : {"recv", "ack", "relay", "overflow"}, m : Msgs \cup {<<>>}, i : Nat]
  BY DEF ChatInv, ChatType
<1>1. /\ sv.at = "ack" /\ rq' = Append(rq, Ack(sv.m.type)) /\ sv' = [sv EXCEPT !.at = "relay"]
      /\ UNCHANGED <<pid, cl, typed, pids, gone>>
  BY DEF is_there
<1>2. sv.m \in Msgs /\ sv.m.type \in Registered /\ sv.m.type \in Nat
  BY <1>t, <1>1 DEF AckRegistered, Msgs
<1>3. Ack(sv.m.type) \in Msgs /\ Ack(sv.m.type).type = sv.m.type + 1
  BY <1>2 DEF Ack, Msgs
<1>4. /\ rq' \in Seq(Msgs)
      /\ \A t : HasType(rq, t) \/ Ack(sv.m.type).type = t => HasType(rq', t)
  <2> DEFINE e == Ack(sv.m.type)
  <2>1. e \in Msgs /\ rq' = Append(rq, e)
    BY <1>1, <1>3
  <2> HIDE DEF e
  <2>2. rq' \in Seq(Msgs) /\ \A t : HasType(rq, t) \/ e.type = t => HasType(rq', t)
    BY <1>t, <2>1, HasMore
  <2> QED
    BY <2>2 DEF e
<1>5. /\ sv' \in [at : {"recv", "ack", "relay", "overflow"}, m : Msgs \cup {<<>>}, i : Nat]
      /\ sv'.at = "relay"
  BY <1>t, <1>1
<1>6. ChatType'
  BY <1>t, <1>1, <1>4, <1>5 DEF ChatType
<1>7. Registered' = Registered /\ AckRegistered'
  BY <1>1, <1>5 DEF Registered, AckRegistered
<1>8. ASSUME NEW c \in Clients, ~Adjacent(c)' PROVE Waits(c)'
  <2>1. Waits(c)
    BY <1>1, <1>8 DEF ChatInv, Adjacent
  <2>2. Holding(sv, pid[c] + 1) => pid[c] + 1 \in Registered
    BY <1>2 DEF Holding
  <2>3. Answered(c) => Answered(c)'
    BY <1>1, <1>4, <1>7, <2>2 DEF Answered
  <2>4. sv.m.type = pid[c] => Answered(c)'
    BY <1>1, <1>3, <1>4 DEF Answered
  <2>5. Holding(sv, pid[c]) => sv.m.type = pid[c]
    BY DEF Holding
  <2> QED
    BY <1>1, <1>4, <1>7, <2>1, <2>3, <2>4, <2>5 DEF Waits
<1> QED
  BY <1>6, <1>7, <1>8 DEF ChatInv

\* It passes the line on to the clients, which changes neither.
LEMMA RelayChat ==
  ASSUME ChatInv, ~gone, relay
  PROVE  ChatInv'
<1>t. /\ ChatType
      /\ sv \in [at : {"recv", "ack", "relay", "overflow"}, m : Msgs \cup {<<>>}, i : Nat]
  BY DEF ChatInv, ChatType
<1>1. /\ sv.at = "relay" /\ UNCHANGED <<pid, cl, typed, pids, gone, rq>>
      /\ sv' = [sv EXCEPT !.at = "recv"] \/ sv' = [sv EXCEPT !.i = sv.i + 1]
  BY DEF relay
<1>2. /\ sv' \in [at : {"recv", "ack", "relay", "overflow"}, m : Msgs \cup {<<>>}, i : Nat]
      /\ sv'.at \in {"recv", "relay"}
  <2>1. CASE sv' = [sv EXCEPT !.at = "recv"]
    BY <1>t, <2>1
  <2>2. CASE sv' = [sv EXCEPT !.i = sv.i + 1]
    <3>0. sv.i \in Nat
      BY <1>t
    <3>1. PICK n \in Nat : sv' = [sv EXCEPT !.i = n]
      BY <2>2, <3>0
    <3> QED
      BY <1>t, <1>1, <3>1
  <2> QED
    BY <1>1, <2>1, <2>2
<1>3. ChatType'
  BY <1>t, <1>1, <1>2 DEF ChatType
<1>4. Registered' = Registered /\ AckRegistered'
  BY <1>1, <1>2 DEF Registered, AckRegistered
<1>5. ASSUME NEW c \in Clients, ~Adjacent(c)' PROVE Waits(c)'
  <2>1. Waits(c)
    BY <1>1, <1>5 DEF ChatInv, Adjacent
  <2>2. ~Holding(sv, pid[c]) /\ ~Holding(sv, pid[c] + 1)
    BY <1>1 DEF Holding
  <2>3. Answered(c) => Answered(c)'
    BY <1>1, <1>4, <2>2 DEF Answered
  <2> QED
    BY <1>1, <1>4, <2>1, <2>2, <2>3 DEF Waits
<1> QED
  BY <1>3, <1>4, <1>5 DEF ChatInv

LEMMA ChatStep == ChatInv /\ (NextChat \/ UNCHANGED varsChat) => ChatInv'
<1> SUFFICES ASSUME ChatInv, NextChat \/ UNCHANGED varsChat, ~gone' PROVE ChatInv'
  BY DEF ChatInv
<1>1. ~gone
  BY DEF NextChat, Server, msgrcv_any, is_there, relay, delete_server, c1, c2, c3, ClientMain,
         first_time_send, first_time_recv, read_loop, sigint_msgsnd, Keyboard, sigint,
         sigint_fgets, varsChat
<1>2. CASE Server
  BY <1>1, <1>2, TakeChat, AnswerChat, RelayChat DEF Server
<1>3. CASE delete_server
  BY <1>3 DEF delete_server
<1>4. ASSUME NEW e \in Clients, first_time_send(e) \/ first_time_recv(e) \/ sigint_msgsnd(e)
      PROVE  ChatInv'
  BY <1>1, <1>4, TypeChat, JoinChat
<1>5. ASSUME UNCHANGED <<pid, cl, typed, rq, pids, sv, gone>>
      PROVE  ChatInv'
  <2>1. ChatType' = ChatType
    BY <1>5 DEF ChatType
  <2>2. Registered' = Registered
    BY <1>5 DEF Registered
  <2>3. \A c \in Clients : Waits(c)' = Waits(c)
    BY <1>5, <2>2 DEF Waits, Answered
  <2>4. \A c \in Clients : Adjacent(c)' = Adjacent(c)
    BY <1>5 DEF Adjacent
  <2>5. AckRegistered' = AckRegistered
    BY <1>5, <2>2 DEF AckRegistered
  <2> QED
    BY <1>1, <2>1, <2>3, <2>4, <2>5 DEF ChatInv
<1>6. CASE (\E e \in Clients : read_loop(e) \/ Keyboard(e)) \/ UNCHANGED varsChat
  BY <1>5, <1>6 DEF read_loop, Keyboard, sigint, sigint_fgets, varsChat
<1> QED
  BY <1>2, <1>3, <1>4, <1>6 DEF NextChat, c1, c2, c3, ClientMain, Clients

LEMMA ChatWaits == ChatInv => LeftWaitingOnlyByTheft
BY DEF ChatInv, Waits, Answered, Holding, LeftWaitingOnlyByTheft

(* ChatQueue: the lines of a client, as they come to another one. *)

CopyMsgs == [type : Nat, from : Nat, text : Nat]

\* The lines that the client with pid p typed, and their copies for the client with pid r.
LinesOf(p) == {m \in Msgs : m.type = p /\ m.text > 0}
CopiesOf(p, r) == {w \in CopyMsgs : w.type = r /\ w.from = p /\ w.text > 0}

\* The numbers of the messages of a queue that are in L.
NumbersIn(Q, L) == {Q[j].text : j \in {i \in 1..Len(Q) : Q[i] \in L}}

Rising(Q, L) == \A i, j \in 1..Len(Q) : i < j /\ Q[i] \in L /\ Q[j] \in L => Q[i].text < Q[j].text

\* The number of the line of p that the server has in hand and has still to copy for r.
Due(S, P, p, r) ==
  {S.m.text : x \in {y \in {S.at} : /\ y # "recv" /\ S.m \in LinesOf(p)
                                    /\ y = "relay" => \E i \in 1..Len(P) : S.i <= i /\ P[i] = r}}

\* Of the n lines of p those in U have not been read by the server, that in D is
\* in its hands, those in K have been copied for r, who has seen the g-th last.
\* They follow each other, and after one that r gets (g or one of these) there
\* is none missing: copies are made for registered clients.
Flow(U, Z, K, g, n, known) ==
  /\ g \in 0..n /\ U \subseteq 1..n /\ Z \subseteq 1..n /\ K \subseteq 1..n
  /\ \A x \in Z : \A y \in U : x < y
  /\ \A x \in K : \A y \in U \cup Z : x < y
  /\ \A x \in U \cup Z \cup K : g < x
  /\ g > 0 \/ K # {} => known
  /\ \A m \in 1..(n - 1) : m = g \/ m \in U \cup Z \cup K => m + 1 \in U \cup Z \cup K

\* The n-th line is typed, the first unread one is taken, copied, read.
LEMMA FlowTyped ==
  ASSUME NEW n \in Nat, NEW U, NEW Z, NEW K, NEW g, NEW known, Flow(U, Z, K, g, n, known)
  PROVE  Flow(U \cup {n + 1}, Z, K, g, n + 1, known)
<1>1. g \in Nat /\ g < n + 1 /\ \A x \in U \cup Z \cup K : x \in Nat /\ x < n + 1
  BY DEF Flow
<1>2. U \cup {n + 1} \subseteq 1..(n + 1) /\ Z \subseteq 1..(n + 1) /\ K \subseteq 1..(n + 1)
  BY DEF Flow
<1>3. ASSUME NEW m \in 1..n, m = g \/ m \in (U \cup {n + 1}) \cup Z \cup K
      PROVE  m + 1 \in (U \cup {n + 1}) \cup Z \cup K
  <2>1. CASE m = n
    BY <2>1
  <2>2. CASE m # n
    <3>1. m \in 1..(n - 1) /\ m # n + 1
      BY <2>2
    <3> QED
      BY <1>3, <3>1 DEF Flow
  <2> QED
    BY <2>1, <2>2
<1>4. (n + 1) - 1 = n /\ g \in 0..(n + 1)
  BY <1>1
<1> QED
  BY <1>1, <1>2, <1>3, <1>4 DEF Flow

LEMMA FlowTaken ==
  ASSUME NEW n \in Nat, NEW U, NEW K, NEW g, NEW known, Flow(U, {}, K, g, n, known),
         NEW x \in U, \A y \in U : x <= y, NEW knows, known => knows,
         NEW Z, Z \subseteq {x}, known => Z = {x}
  PROVE  Flow(U \ {x}, Z, K, g, n, knows)
<1>1. \A y \in U \cup K : y \in 1..n
  BY DEF Flow
<1>2. ASSUME NEW m \in 1..(n - 1), m = g \/ m \in (U \ {x}) \cup Z \cup K
      PROVE  m + 1 \in (U \ {x}) \cup Z \cup K
  <2>1. m = g \/ m \in U \cup {} \cup K
    BY <1>2
  <2>2. m + 1 \in U \cup K
    BY <2>1 DEF Flow
  <2>3. CASE m + 1 = x
    <3>1. m \notin U
      BY <1>1, <2>3
    <3>2. m = g \/ m \in K
      BY <1>2, <3>1
    <3>3. known
      BY <3>2 DEF Flow
    <3> QED
      BY <2>3, <3>3
  <2> QED
    BY <2>2, <2>3
<1>3. /\ \A z \in Z : \A y \in U \ {x} : z < y
      /\ \A k \in K : \A y \in (U \ {x}) \cup Z : k < y
      /\ \A y \in (U \ {x}) \cup Z \cup K : g < y
  BY <1>1 DEF Flow
<1> QED
  BY <1>1, <1>2, <1>3 DEF Flow

\* The line in hand is not copied for one who is not registered.
LEMMA FlowDropped ==
  ASSUME NEW n \in Nat, NEW U, NEW Z, NEW K, NEW g, NEW known, Flow(U, Z, K, g, n, known),
         NEW E, E \subseteq Z, known => E = Z, \A x, y \in Z : x = y
  PROVE  Flow(U, E, K, g, n, known)
<1>1. \A y \in U \cup Z \cup K : y \in 1..n
  BY DEF Flow
<1>2. ASSUME NEW m \in 1..(n - 1), m = g \/ m \in U \cup E \cup K
      PROVE  m + 1 \in U \cup E \cup K
  <2>1. m + 1 \in U \cup Z \cup K
    BY <1>2 DEF Flow
  <2>2. CASE known
    BY <2>1, <2>2
  <2>3. CASE ~known
    <3>1. g = 0 /\ K = {} /\ m # 0
      BY <2>3 DEF Flow
    <3>2. m \in U \cup E
      BY <1>2, <3>1
    <3>3. m + 1 \notin Z
      BY <1>1, <3>2 DEF Flow
    <3> QED
      BY <2>1, <3>3
  <2> QED
    BY <2>2, <2>3
<1> QED
  BY <1>1, <1>2 DEF Flow

LEMMA FlowCopied ==
  ASSUME NEW n \in Nat, NEW U, NEW Z, NEW K, NEW g, NEW known, Flow(U, Z, K, g, n, known),
         NEW x, Z = {x}, known
  PROVE  Flow(U, {}, K \cup {x}, g, n, known)
BY DEF Flow

LEMMA FlowRead ==
  ASSUME NEW n \in Nat, NEW U, NEW Z, NEW K, NEW g, NEW known, Flow(U, Z, K, g, n, known),
         NEW x \in K, \A y \in K : x <= y
  PROVE  /\ Flow(U, Z, K \ {x}, x, n, known)
         /\ g = 0 \/ x = g + 1
<1>1. \A y \in U \cup Z \cup K : y \in 1..n
  BY DEF Flow
<1>2. \A y \in U \cup Z \cup K : x = y \/ x < y
  BY <1>1 DEF Flow
<1>3. g \in Nat /\ g < x /\ known
  BY DEF Flow
<1>4. ASSUME g > 0 PROVE x = g + 1
  <2>1. g \in 1..(n - 1)
    BY <1>1, <1>3, <1>4
  <2>2. g + 1 \in U \cup Z \cup K
    BY <2>1 DEF Flow
  <2>3. x = g + 1
    BY <1>1, <1>2, <1>3, <2>2
  <2> QED
    BY <2>3
<1>5. \A m \in 1..(n - 1) : m = x \/ m \in U \cup Z \cup (K \ {x}) =>
        m + 1 \in U \cup Z \cup (K \ {x})
  <2> SUFFICES ASSUME NEW m \in 1..(n - 1), m = x \/ m \in U \cup Z \cup (K \ {x})
               PROVE  m + 1 \in U \cup Z \cup (K \ {x})
    OBVIOUS
  <2>1. m + 1 \in U \cup Z \cup K
    BY DEF Flow
  <2>2. m + 1 # x
    BY <1>1, <1>2
  <2> QED
    BY <2>1, <2>2
<1>6. Flow(U, Z, K \ {x}, x, n, known)
  BY <1>1, <1>2, <1>3, <1>5 DEF Flow
<1>7. g \in Nat
  BY <1>3
<1>8. g = 0 \/ x = g + 1
  BY <1>4, <1>7
<1> QED
  BY <1>6, <1>8

\* What a queue holds after an element was added, or taken out.
Adds(N, U, e, L) == \A x : x \in N <=> x \in U \/ (e \in L /\ x = e.text)

LEMMA NumbersMore ==
  ASSUME NEW C, NEW Q \in Seq(C), NEW e \in C, NEW R, R = Append(Q, e), NEW L
  PROVE  /\ Adds(NumbersIn(R, L), NumbersIn(Q, L), e, L)
         /\ Rising(Q, L) /\ (e \in L => \A x \in NumbersIn(Q, L) : x < e.text) => Rising(R, L)
<1>1. /\ Len(R) = Len(Q) + 1 /\ Len(Q) \in Nat /\ R[Len(Q) + 1] = e
      /\ \A j \in 1..Len(Q) : R[j] = Q[j] /\ j \in 1..Len(R)
      /\ \A j \in 1..Len(R) : j = Len(Q) + 1 \/ j \in 1..Len(Q)
  BY More
<1>2. \A i, j \in 1..Len(R) : i < j => i \in 1..Len(Q)
  BY <1>1
<1>3. \A x : x \in NumbersIn(R, L) <=> x \in NumbersIn(Q, L) \/ (e \in L /\ x = e.text)
  BY <1>1 DEF NumbersIn
<1>4. ASSUME Rising(Q, L), e \in L => \A x \in NumbersIn(Q, L) : x < e.text
      PROVE  Rising(R, L)
  <2> SUFFICES ASSUME NEW i \in 1..Len(R), NEW j \in 1..Len(R), i < j, R[i] \in L, R[j] \in L
               PROVE  R[i].text < R[j].text
    BY DEF Rising
  <2>1. i \in 1..Len(Q) /\ R[i] = Q[i]
    BY <1>1, <1>2
  <2>2. CASE j \in 1..Len(Q)
    BY <1>1, <1>4, <2>1, <2>2 DEF Rising
  <2>3. CASE j = Len(Q) + 1
    <3>1. Q[i].text \in NumbersIn(Q, L)
      BY <2>1 DEF NumbersIn
    <3> QED
      BY <1>1, <1>4, <2>1, <2>3, <3>1
  <2> QED
    BY <1>1, <2>2, <2>3
<1> QED
  BY <1>3, <1>4 DEF Adds

LEMMA NumbersLess ==
  ASSUME NEW Q, NEW k \in 1..Len(Q), NEW R, KeepsOthers(Q, k, R), NEW L, Rising(Q, L),
         \A j \in 1..Len(Q) : Q[j] \in L => Q[j].text \in Nat
  PROVE  /\ Rising(R, L)
         /\ Q[k] \notin L => NumbersIn(R, L) = NumbersIn(Q, L)
         /\ Q[k] \in L => NumbersIn(R, L) = NumbersIn(Q, L) \ {Q[k].text}
         /\ Q[k] \in L /\ (\A j \in 1..(k - 1) : Q[j] \notin L) =>
              \A x \in NumbersIn(Q, L) : Q[k].text <= x
<1>1. /\ \A j \in 1..Len(R) : \E i \in 1..Len(Q) : i # k /\ R[j] = Q[i]
      /\ \A j, m \in 1..Len(R) : j < m =>
           \E i, l \in 1..Len(Q) : i < l /\ R[j] = Q[i] /\ R[m] = Q[l]
      /\ \A i \in 1..Len(Q) : i # k => \E j \in 1..Len(R) : R[j] = Q[i]
  BY DEF KeepsOthers
<1>2. Rising(R, L)
  <2> SUFFICES ASSUME NEW j \in 1..Len(R), NEW m \in 1..Len(R), j < m, R[j] \in L, R[m] \in L
               PROVE  R[j].text < R[m].text
    BY DEF Rising
  <2>1. PICK i, l \in 1..Len(Q) : i < l /\ R[j] = Q[i] /\ R[m] = Q[l]
    BY <1>1
  <2> QED
    BY <2>1 DEF Rising
<1>3. ASSUME NEW x \in NumbersIn(R, L)
      PROVE  \E i \in 1..Len(Q) : i # k /\ Q[i] \in L /\ x = Q[i].text
  <2>1. PICK j \in 1..Len(R) : R[j] \in L /\ x = R[j].text
    BY DEF NumbersIn
  <2>2. PICK i \in 1..Len(Q) : i # k /\ R[j] = Q[i]
    BY <1>1
  <2> QED
    BY <2>1, <2>2
<1>4. ASSUME NEW i \in 1..Len(Q), i # k, Q[i] \in L
      PROVE  Q[i].text \in NumbersIn(R, L)
  <2>1. PICK j \in 1..Len(R) : R[j] = Q[i]
    BY <1>1, <1>4
  <2> QED
    BY <1>4, <2>1 DEF NumbersIn
<1>5. ASSUME Q[k] \in L, NEW i \in 1..Len(Q), i # k, Q[i] \in L
      PROVE  Q[i].text # Q[k].text
  <2>1. i < k \/ k < i
    BY <1>5
  <2>2. Q[i].text < Q[k].text \/ Q[k].text < Q[i].text
    BY <1>5, <2>1 DEF Rising
  <2> QED
    BY <1>5, <2>2
<1>6. Q[k] \in L => Q[k].text \notin NumbersIn(R, L)
  BY <1>3, <1>5
<1>8. \A x : x \in NumbersIn(Q, L) <=> \E i \in 1..Len(Q) : Q[i] \in L /\ x = Q[i].text
  BY DEF NumbersIn
<1>9. Q[k] \notin L => NumbersIn(R, L) = NumbersIn(Q, L)
  BY <1>3, <1>4, <1>8
<1>10. Q[k] \in L => NumbersIn(R, L) = NumbersIn(Q, L) \ {Q[k].text}
  BY <1>3, <1>4, <1>6, <1>8
<1>7. ASSUME Q[k] \in L, \A j \in 1..(k - 1) : Q[j] \notin L, NEW x \in NumbersIn(Q, L)
      PROVE  Q[k].text <= x
  <2>1. PICK i \in 1..Len(Q) : Q[i] \in L /\ x = Q[i].text
    BY DEF NumbersIn
  <2>2. i \notin 1..(k - 1)
    BY <1>7, <2>1
  <2>3. i = k \/ k < i
    BY <2>2
  <2>4. Q[k].text \in Nat
    BY <1>7
  <2>5. k < i => Q[k].text < Q[i].text
    BY <1>7, <2>1 DEF Rising
  <2>6. Q[i].text \in Nat
    BY <2>1
  <2> QED
    BY <2>1, <2>3, <2>4, <2>5, <2>6
<1> QED
  BY <1>2, <1>7, <1>9, <1>10

\* The first element of a queue is taken.
LEMMA FirstTaken ==
  ASSUME NEW C, NEW Q \in Seq(C), Q # <<>>
  PROVE  /\ Tail(Q) \in Seq(C) /\ 1 \in 1..Len(Q) /\ Head(Q) = Q[1] /\ Head(Q) \in C
         /\ KeepsOthers(Q, 1, Tail(Q))
<1> DEFINE R == Tail(Q)
<1>1. /\ R \in Seq(C) /\ 1 \in 1..Len(Q) /\ Head(Q) = Q[1] /\ Head(Q) \in C
      /\ Len(R) = Len(Q) - 1 /\ Len(Q) \in Nat
      /\ \A j \in 1..Len(R) : R[j] = Q[j + 1]
  OBVIOUS
<1> HIDE DEF R
<1>2. \A j \in 1..Len(R) : j + 1 \in 1..Len(Q) /\ j + 1 # 1
  BY <1>1
<1>3. ASSUME NEW i \in 1..Len(Q), i # 1
      PROVE  \E j \in 1..Len(R) : R[j] = Q[i]
  <2>1. i - 1 \in 1..Len(R) /\ (i - 1) + 1 = i
    BY <1>1, <1>3
  <2> QED
    BY <1>1, <2>1
<1>4. \A j, m \in 1..Len(R) : j < m =>
        \E i, l \in 1..Len(Q) : i < l /\ R[j] = Q[i] /\ R[m] = Q[l]
  <2> TAKE j, m \in 1..Len(R)
  <2>1. j < m => j + 1 < m + 1
    OBVIOUS
  <2> QED
    BY <1>1, <1>2, <2>1
<1>5. KeepsOthers(Q, 1, R)
  BY <1>1, <1>2, <1>3, <1>4 DEF KeepsOthers
<1> QED
  BY <1>1, <1>5 DEF R

\* The lines of p on their way to r.
PairInv(Q, S, P, W, g, n, p, r) ==
  /\ Rising(Q, LinesOf(p)) /\ Rising(W, CopiesOf(p, r))
  /\ Flow(NumbersIn(Q, LinesOf(p)), Due(S, P, p, r), NumbersIn(W, CopiesOf(p, r)), g, n,
          \E i \in 1..Len(P) : P[i] = r)

LEMMA DueIs ==
  ASSUME NEW S, NEW P, NEW p, NEW r
  PROVE  /\ Due(S, P, p, r) \subseteq {S.m.text}
         /\ Due(S, P, p, r) # {} <=>
              /\ S.at # "recv" /\ S.m \in LinesOf(p)
              /\ S.at = "relay" => \E i \in 1..Len(P) : S.i <= i /\ P[i] = r
BY DEF Due

\* The text that the message being served still brings.
Brings(S, P, p, r) ==
  /\ S.at # "recv" /\ S.m \in LinesOf(p)
  /\ S.at = "relay" => \E i \in 1..Len(P) : S.i <= i /\ P[i] = r

LEMMA DueWhen ==
  ASSUME NEW S, NEW P, NEW p, NEW r
  PROVE  Due(S, P, p, r) # {} <=> Brings(S, P, p, r)
BY DEF Due, Brings

LEMMA MsgTypes ==
  /\ \A Q \in Seq(Msgs) : \A j \in 1..Len(Q) : Q[j].text \in Nat
  /\ \A W \in Seq(CopyMsgs) : \A j \in 1..Len(W) : W[j].text \in Nat
<1>1. ASSUME NEW Q \in Seq(Msgs), NEW j \in 1..Len(Q)
      PROVE  Q[j].text \in Nat
  <2>1. Q[j] \in Msgs
    OBVIOUS
  <2> QED
    BY <2>1 DEF Msgs
<1>2. ASSUME NEW W \in Seq(CopyMsgs), NEW j \in 1..Len(W)
      PROVE  W[j].text \in Nat
  <2>1. W[j] \in CopyMsgs
    OBVIOUS
  <2> QED
    BY <2>1 DEF CopyMsgs
<1> QED
  BY <1>1, <1>2

\* Sets of at most one element.
LEMMA AtMostOne ==
  ASSUME NEW t, NEW Z, Z \subseteq {t}, NEW E, E \subseteq {t}, E # {} => Z # {}
  PROVE  E \subseteq Z /\ \A x, y \in Z : x = y
OBVIOUS

\* A client types the next line; a message of another type is added.
LEMMA PairTyped ==
  ASSUME NEW Q \in Seq(Msgs), NEW S, NEW P, NEW W, NEW g, NEW n \in Nat, NEW p, NEW r,
         PairInv(Q, S, P, W, g, n, p, r), NEW e \in Msgs, NEW R, R = Append(Q, e)
  PROVE  /\ e \in LinesOf(p) /\ e.text = n + 1 => PairInv(R, S, P, W, g, n + 1, p, r)
         /\ e \notin LinesOf(p) => PairInv(R, S, P, W, g, n, p, r)
<1> DEFINE L == LinesOf(p)
           Z == Due(S, P, p, r)
           K == NumbersIn(W, CopiesOf(p, r))
           U == NumbersIn(Q, L)
           known == \E i \in 1..Len(P) : P[i] = r
<1>1. Rising(Q, L) /\ Rising(W, CopiesOf(p, r)) /\ Flow(U, Z, K, g, n, known)
  BY DEF PairInv
<1>l. U = NumbersIn(Q, L)
  OBVIOUS
<1>3. PairInv(R, S, P, W, g, n + 1, p, r) <=>
        Rising(R, L) /\ Rising(W, CopiesOf(p, r)) /\ Flow(NumbersIn(R, L), Z, K, g, n + 1, known)
  BY DEF PairInv
<1>4. PairInv(R, S, P, W, g, n, p, r) <=>
        Rising(R, L) /\ Rising(W, CopiesOf(p, r)) /\ Flow(NumbersIn(R, L), Z, K, g, n, known)
  BY DEF PairInv
<1> HIDE DEF L, Z, K, U, known
<1>2. /\ e \in L => NumbersIn(R, L) = U \cup {e.text}
      /\ e \notin L => NumbersIn(R, L) = U
      /\ Rising(Q, L) /\ (e \in L => \A x \in U : x < e.text) => Rising(R, L)
  <2>1. /\ Adds(NumbersIn(R, L), NumbersIn(Q, L), e, L)
        /\ Rising(Q, L) /\ (e \in L => \A x \in NumbersIn(Q, L) : x < e.text) => Rising(R, L)
    BY NumbersMore, Zenon
  <2> QED
    BY <1>l, <2>1 DEF Adds
<1>5. \A x \in U : x < n + 1
  BY <1>1 DEF Flow
<1>6. ASSUME e \in L, e.text = n + 1
      PROVE  Rising(R, L) /\ Flow(NumbersIn(R, L), Z, K, g, n + 1, known)
  <2>1. NumbersIn(R, L) = U \cup {n + 1}
    BY <1>2, <1>6
  <2>2. Flow(U \cup {n + 1}, Z, K, g, n + 1, known)
    BY <1>1, FlowTyped
  <2> QED
    BY <1>1, <1>2, <1>5, <1>6, <2>1, <2>2
<1>7. ASSUME e \notin L
      PROVE  Rising(R, L) /\ Flow(NumbersIn(R, L), Z, K, g, n, known)
  <2>1. NumbersIn(R, L) = U
    BY <1>2, <1>7
  <2> QED
    BY <1>1, <1>2, <1>7, <2>1
<1> QED
  BY <1>1, <1>3, <1>4, <1>6, <1>7 DEF L

\* A message that is no line of p is taken by a client.
LEMMA PairJoined ==
  ASSUME NEW Q \in Seq(Msgs), NEW S, NEW P, NEW W, NEW g, NEW n, NEW p, NEW r,
         PairInv(Q, S, P, W, g, n, p, r), NEW k \in 1..Len(Q), Q[k] \notin LinesOf(p),
         NEW R, KeepsOthers(Q, k, R)
  PROVE  PairInv(R, S, P, W, g, n, p, r)
<1>1. \A j \in 1..Len(Q) : Q[j].text \in Nat
  BY MsgTypes
<1>2. Rising(R, LinesOf(p)) /\ NumbersIn(R, LinesOf(p)) = NumbersIn(Q, LinesOf(p))
  BY <1>1, NumbersLess DEF PairInv
<1> QED
  BY <1>2 DEF PairInv

\* The server takes the first message and registers its type or knows it.
LEMMA PairTaken ==
  ASSUME NEW Q \in Seq(Msgs), NEW S, NEW P \in Seq(Nat), NEW W, NEW g, NEW n \in Nat, NEW p, NEW r,
         PairInv(Q, S, P, W, g, n, p, r), S.at = "recv", Q # <<>>,
         NEW Y, Y.at # "recv", Y.m = Q[1], Y.i = 1,
         NEW M, Y.at = "relay" => M = P, \A i \in 1..Len(P) : i \in 1..Len(M) /\ M[i] = P[i]
  PROVE  PairInv(Tail(Q), Y, M, W, g, n, p, r)
<1> DEFINE L == LinesOf(p)
           K == NumbersIn(W, CopiesOf(p, r))
           U == NumbersIn(Q, L)
           known == \E i \in 1..Len(P) : P[i] = r
           knows == \E i \in 1..Len(M) : M[i] = r
           Z == Due(Y, M, p, r)
           R == Tail(Q)
<1>1. Rising(Q, L) /\ Rising(W, CopiesOf(p, r)) /\ Flow(U, {}, K, g, n, known)
  <2>1. Due(S, P, p, r) = {}
    BY DueIs
  <2> QED
    BY <2>1 DEF PairInv
<1>2. known => knows
  OBVIOUS
<1>3. Z \subseteq {Q[1].text}
  BY DueIs
<1>4. Q[1] \in L /\ known => Z = {Q[1].text}
  <2>1. SUFFICES ASSUME Q[1] \in L, known PROVE Z # {}
    BY <1>3
  <2>2. PICK i \in 1..Len(P) : P[i] = r
    BY <2>1
  <2>3. i \in 1..Len(M) /\ M[i] = r /\ Y.i <= i
    BY <2>2
  <2>4. Z # {} <=> Brings(Y, M, p, r)
    BY DueWhen
  <2>5. Y.at # "recv" /\ Y.m \in L
    BY <2>1
  <2>6. Brings(Y, M, p, r)
    BY <2>3, <2>5 DEF Brings
  <2> QED
    BY <2>4, <2>6
<1>5. Q[1] \notin L => Z = {}
  BY DueIs
<1>6. 1 \in 1..Len(Q) /\ KeepsOthers(Q, 1, R) /\ Q[1] \in Msgs
  BY FirstTaken
<1>7. \A j \in 1..Len(Q) : Q[j].text \in Nat
  BY MsgTypes
<1>8. PairInv(R, Y, M, W, g, n, p, r) <=>
        Rising(R, L) /\ Rising(W, CopiesOf(p, r)) /\ Flow(NumbersIn(R, L), Z, K, g, n, knows)
  BY DEF PairInv
<1> HIDE DEF L, K, U, known, knows, Z, R
<1>9. \A j \in 1..0 : Q[j] \notin L
  OBVIOUS
<1>10. /\ Rising(R, L)
       /\ Q[1] \notin L => NumbersIn(R, L) = U
       /\ Q[1] \in L => /\ NumbersIn(R, L) = U \ {Q[1].text}
                        /\ \A x \in U : Q[1].text <= x
  BY <1>1, <1>6, <1>7, NumbersLess DEF U
<1>11. CASE Q[1] \in L
  <2>1. Q[1].text \in U
    BY <1>6, <1>11 DEF U, NumbersIn
  <2>2. Flow(U \ {Q[1].text}, Z, K, g, n, knows)
    BY <1>1, <1>2, <1>3, <1>4, <1>10, <1>11, <2>1, FlowTaken
  <2> QED
    BY <1>1, <1>8, <1>10, <1>11, <2>2 DEF R
<1>12. CASE Q[1] \notin L
  <2>1. Flow(U, {}, K, g, n, knows)
    BY <1>1, <1>2 DEF Flow
  <2> QED
    BY <1>1, <1>5, <1>8, <1>10, <1>12, <2>1 DEF R
<1> QED
  BY <1>11, <1>12

\* It has answered and begins to copy.
LEMMA PairAnswered ==
  ASSUME NEW Q, NEW S, NEW P \in Seq(Nat), NEW W, NEW g, NEW n \in Nat, NEW p, NEW r,
         PairInv(Q, S, P, W, g, n, p, r), S.at = "ack",
         NEW Y, Y.at = "relay", Y.m = S.m, Y.i = 1
  PROVE  PairInv(Q, Y, P, W, g, n, p, r)
<1> DEFINE U == NumbersIn(Q, LinesOf(p))
           K == NumbersIn(W, CopiesOf(p, r))
           known == \E i \in 1..Len(P) : P[i] = r
           Z == Due(S, P, p, r)
           E == Due(Y, P, p, r)
<1>1. /\ E \subseteq {S.m.text} /\ Z \subseteq {S.m.text} /\ (E # {} => Z # {})
      /\ known /\ Z # {} => E # {}
  <2>1. E \subseteq {S.m.text} /\ Z \subseteq {S.m.text}
    BY DueIs
  <2>2. (Z # {} <=> Brings(S, P, p, r)) /\ (E # {} <=> Brings(Y, P, p, r))
    BY DueWhen
  <2>3. Brings(S, P, p, r) <=> S.m \in LinesOf(p)
    BY DEF Brings
  <2>4. Brings(Y, P, p, r) <=> S.m \in LinesOf(p) /\ known
    <3>1. \A i \in 1..Len(P) : 1 <= i
      OBVIOUS
    <3>2. Brings(Y, P, p, r) <=> S.m \in LinesOf(p) /\ \E i \in 1..Len(P) : 1 <= i /\ P[i] = r
      BY DEF Brings
    <3> QED
      BY <3>1, <3>2
  <2> QED
    BY <2>1, <2>2, <2>3, <2>4
<1>3. Flow(U, Z, K, g, n, known)
  BY DEF PairInv
<1>4. Flow(U, E, K, g, n, known) => PairInv(Q, Y, P, W, g, n, p, r)
  BY DEF PairInv
<1> HIDE DEF U, K, known, Z, E
<1>2. E \subseteq Z /\ (known => E = Z) /\ \A x, y \in Z : x = y
  <2>1. E \subseteq Z /\ \A x, y \in Z : x = y
    BY <1>1, AtMostOne
  <2>2. known => Z \subseteq E
    BY <1>1, AtMostOne
  <2> QED
    BY <2>1, <2>2
<1> QED
  BY <1>2, <1>3, <1>4, FlowDropped

\* The loop over the registered pids ends, or takes a turn: a message for the
\* pid it is at is added unless it is the sender's.
LEMMA PairRelayed ==
  ASSUME NEW Q, NEW S, NEW P \in Seq(Nat), NEW W \in Seq(CopyMsgs), NEW g, NEW n \in Nat,
         NEW p, NEW r, p # r,
         PairInv(Q, S, P, W, g, n, p, r), S.at = "relay", S.m \in Msgs, S.i \in Nat,
         \A i, j \in 1..Len(P) : P[i] = P[j] => i = j,
         NEW Y, NEW V,
         \/ S.i > Len(P) /\ Y.at = "recv" /\ V = W
         \/ /\ S.i \in 1..Len(P) /\ Y.at = "relay" /\ Y.m = S.m /\ Y.i = S.i + 1
            /\ V = IF P[S.i] = S.m.type THEN W
                   ELSE Append(W, [type |-> P[S.i], from |-> S.m.type, text |-> S.m.text])
  PROVE  PairInv(Q, Y, P, V, g, n, p, r)
<1> DEFINE U == NumbersIn(Q, LinesOf(p))
           L == CopiesOf(p, r)
           K == NumbersIn(W, L)
           known == \E i \in 1..Len(P) : P[i] = r
           Z == Due(S, P, p, r)
           E == Due(Y, P, p, r)
           e == [type |-> P[S.i], from |-> S.m.type, text |-> S.m.text]
<1>1. Rising(Q, LinesOf(p)) /\ Rising(W, L) /\ Flow(U, Z, K, g, n, known)
  BY DEF PairInv
<1>2. PairInv(Q, Y, P, V, g, n, p, r) <=>
        Rising(Q, LinesOf(p)) /\ Rising(V, L) /\ Flow(U, E, NumbersIn(V, L), g, n, known)
  BY DEF PairInv
<1>3. Z \subseteq {S.m.text} /\ (Z # {} <=> S.m \in LinesOf(p) /\ \E i \in 1..Len(P) : S.i <= i /\ P[i] = r)
  <2>1. Z \subseteq {S.m.text}
    BY DueIs
  <2>2. Z # {} <=> Brings(S, P, p, r)
    BY DueWhen
  <2>3. Brings(S, P, p, r) <=> S.m \in LinesOf(p) /\ \E i \in 1..Len(P) : S.i <= i /\ P[i] = r
    BY DEF Brings
  <2> QED
    BY <2>1, <2>2, <2>3
<1>4. /\ Y.at = "recv" => E = {}
      /\ Y.at = "relay" /\ Y.m = S.m =>
           /\ E \subseteq {S.m.text}
           /\ E # {} <=> S.m \in LinesOf(p) /\ \E i \in 1..Len(P) : Y.i <= i /\ P[i] = r
  BY DueIs
<1>5. S.i \in 1..Len(P) => e \in CopyMsgs
  <2>1. S.i \in 1..Len(P) => P[S.i] \in Nat
    BY ElementOfSeq
  <2>2. S.m.type \in Nat /\ S.m.text \in Nat
    BY DEF Msgs
  <2> QED
    BY <2>1, <2>2 DEF CopyMsgs
<1>6. S.i \in 1..Len(P) => (e \in L <=> P[S.i] = r /\ S.m \in LinesOf(p))
  BY <1>5 DEF CopiesOf, LinesOf
<1>e. e.text = S.m.text
  OBVIOUS
<1>m. P[S.i] = r /\ S.m \in LinesOf(p) => P[S.i] # S.m.type
  BY DEF LinesOf
<1>v. S.i \in 1..Len(P) /\ Y.at = "relay" => V = IF P[S.i] = S.m.type THEN W ELSE Append(W, e)
  OBVIOUS
<1>k. K = NumbersIn(W, L)
  OBVIOUS
<1> HIDE DEF U, L, K, known, Z, E, e
<1>n. ASSUME NEW f \in CopyMsgs, V = Append(W, f)
      PROVE  /\ f \in L => NumbersIn(V, L) = K \cup {f.text}
             /\ f \notin L => NumbersIn(V, L) = K
             /\ Rising(W, L) /\ (f \in L => \A x \in K : x < f.text) => Rising(V, L)
  <2>1. /\ Adds(NumbersIn(V, L), NumbersIn(W, L), f, L)
        /\ Rising(W, L) /\ (f \in L => \A x \in NumbersIn(W, L) : x < f.text) => Rising(V, L)
    BY <1>n, NumbersMore, Zenon
  <2> QED
    BY <1>k, <2>1 DEF Adds
<1>7. CASE S.i > Len(P) /\ Y.at = "recv" /\ V = W
  <2>1. Z = {} /\ E = {}
    BY <1>3, <1>4, <1>7
  <2> QED
    BY <1>1, <1>2, <1>7, <2>1 DEF K
<1>8. CASE S.i \in 1..Len(P) /\ Y.at = "relay" /\ Y.m = S.m /\ Y.i = S.i + 1
  <2>1. ASSUME P[S.i] = r, S.m \in LinesOf(p)
        PROVE  PairInv(Q, Y, P, V, g, n, p, r)
    <3>1. Z = {S.m.text} /\ known
      BY <1>3, <1>8, <2>1 DEF known
    <3>2. E = {}
      <4>1. \A i \in 1..Len(P) : P[i] = r => i = S.i
        BY <1>8, <2>1
      <4> QED
        BY <1>4, <1>8, <4>1
    <3>3. V = Append(W, e) /\ e \in L /\ e \in CopyMsgs
      BY <1>5, <1>6, <1>8, <1>m, <1>v, <2>1
    <3>4. /\ e \in L => NumbersIn(V, L) = K \cup {e.text}
          /\ e \notin L => NumbersIn(V, L) = K
          /\ Rising(W, L) /\ (e \in L => \A x \in K : x < e.text) => Rising(V, L)
      BY <1>n, <3>3
    <3>5. NumbersIn(V, L) = K \cup {S.m.text}
      BY <1>e, <3>3, <3>4
    <3>6. \A x \in K : x < S.m.text
      BY <1>1, <3>1 DEF Flow
    <3>7. Flow(U, {}, K \cup {S.m.text}, g, n, known)
      BY <1>1, <3>1, FlowCopied
    <3> QED
      BY <1>1, <1>2, <1>e, <3>2, <3>4, <3>5, <3>6, <3>7
  <2>2. ASSUME ~(P[S.i] = r /\ S.m \in LinesOf(p))
        PROVE  PairInv(Q, Y, P, V, g, n, p, r)
    <3>1. NumbersIn(V, L) = K /\ Rising(V, L)
      <4>1. CASE V = W
        BY <1>1, <4>1 DEF K
      <4>2. CASE V = Append(W, e)
        <5>1. e \notin L /\ e \in CopyMsgs
          BY <1>5, <1>6, <1>8, <2>2
        <5>2. /\ e \in L => NumbersIn(V, L) = K \cup {e.text}
              /\ e \notin L => NumbersIn(V, L) = K
              /\ Rising(W, L) /\ (e \in L => \A x \in K : x < e.text) => Rising(V, L)
          BY <1>n, <4>2, <5>1
        <5> QED
          BY <1>1, <5>1, <5>2
      <4> QED
        BY <1>8, <1>v, <4>1, <4>2
    <3>2. E = Z
      <4>1. \A i \in 1..Len(P) : P[i] = r /\ S.m \in LinesOf(p) => (S.i <= i <=> S.i + 1 <= i)
        BY <2>2, SMTT(30)
      <4>2. E # {} <=> Z # {}
        BY <1>3, <1>4, <1>8, <4>1
      <4>3. E \subseteq Z
        BY <1>3, <1>4, <1>8, <4>2, AtMostOne
      <4>4. Z \subseteq E
        BY <1>3, <1>4, <1>8, <4>2, AtMostOne
      <4> QED
        BY <4>3, <4>4
    <3> QED
      BY <1>1, <1>2, <3>1, <3>2
  <2> QED
    BY <2>1, <2>2
<1> QED
  BY <1>7, <1>8

\* A message is read: no copy for r of a line of p, or the first one.
LEMMA PairRead ==
  ASSUME NEW Q, NEW S, NEW P, NEW W \in Seq(CopyMsgs), NEW g, NEW n \in Nat, NEW p, NEW r,
         PairInv(Q, S, P, W, g, n, p, r), NEW k \in 1..Len(W), NEW V, KeepsOthers(W, k, V)
  PROVE  /\ W[k] \notin CopiesOf(p, r) => PairInv(Q, S, P, V, g, n, p, r)
         /\ W[k] \in CopiesOf(p, r) /\ (\A j \in 1..(k - 1) : W[j] \notin CopiesOf(p, r)) =>
              /\ PairInv(Q, S, P, V, W[k].text, n, p, r)
              /\ g = 0 \/ W[k].text = g + 1
<1> DEFINE U == NumbersIn(Q, LinesOf(p))
           L == CopiesOf(p, r)
           K == NumbersIn(W, L)
           known == \E i \in 1..Len(P) : P[i] = r
           Z == Due(S, P, p, r)
           x == W[k].text
<1>1. Rising(Q, LinesOf(p)) /\ Rising(W, L) /\ Flow(U, Z, K, g, n, known)
  BY DEF PairInv
<1>2. \A h : PairInv(Q, S, P, V, h, n, p, r) <=>
        Rising(Q, LinesOf(p)) /\ Rising(V, L) /\ Flow(U, Z, NumbersIn(V, L), h, n, known)
  BY DEF PairInv
<1>3. \A j \in 1..Len(W) : W[j].text \in Nat
  BY MsgTypes
<1> HIDE DEF U, L, K, known, Z, x
<1>4. /\ Rising(V, L)
      /\ W[k] \notin L => NumbersIn(V, L) = K
      /\ W[k] \in L => NumbersIn(V, L) = K \ {x}
      /\ W[k] \in L /\ (\A j \in 1..(k - 1) : W[j] \notin L) => \A y \in K : x <= y
  BY <1>1, <1>3, NumbersLess DEF K, x
<1>5. W[k] \in L => x \in K
  BY DEF K, x, NumbersIn
<1>6. ASSUME W[k] \in L, \A j \in 1..(k - 1) : W[j] \notin L
      PROVE  PairInv(Q, S, P, V, x, n, p, r) /\ (g = 0 \/ x = g + 1)
  <2>1. Flow(U, Z, K \ {x}, x, n, known) /\ (g = 0 \/ x = g + 1)
    BY <1>1, <1>4, <1>5, <1>6, FlowRead
  <2> QED
    BY <1>1, <1>2, <1>4, <1>6, <2>1
<1>7. W[k] \notin L => PairInv(Q, S, P, V, g, n, p, r)
  BY <1>1, <1>2, <1>4
<1> QED
  BY <1>6, <1>7 DEF L, x

\* Lines carry the pid of a client, copies go to somebody else, and the server
\* registers each pid once.
Genuine ==
  /\ \A j \in 1..Len(rq) : rq[j].text > 0 => \E c \in Clients : rq[j].type = pid[c]
  /\ sv.at # "recv" => sv.m \in Msgs /\ (sv.m.text > 0 => \E c \in Clients : sv.m.type = pid[c])
  /\ sv.i >= 1 /\ (sv.at = "ack" => sv.i = 1)
  /\ \A j \in 1..Len(wq) : /\ wq[j].from # wq[j].type
                           /\ wq[j].text > 0 => \E c \in Clients : wq[j].from = pid[c]
  /\ \A i, j \in 1..Len(pids) : pids[i] = pids[j] => i = j

LineType == wq \in Seq(CopyMsgs) /\ got \in [Clients -> [Clients -> Nat]]

LinesFlow ==
  \A c, z \in Clients : c # z /\ ~Adjacent(z) =>
    PairInv(rq, sv, pids, wq, got[c][z], typed[z], pid[z], pid[c])

LineInv == \/ gone /\ wq = <<>>
           \/ ~gone /\ LineType /\ Genuine /\ LinesFlow

LEMMA LineTypes ==
  ASSUME ChatInv, LineInv, ~gone
  PROVE  /\ pid \in [Clients -> Nat] /\ \A c, e \in Clients : pid[c] = pid[e] => c = e
         /\ rq \in Seq(Msgs) /\ pids \in Seq(Nat) /\ typed \in [Clients -> Nat]
         /\ sv \in [at : {"recv", "ack", "relay", "overflow"}, m : Msgs \cup {<<>>}, i : Nat]
         /\ wq \in Seq(CopyMsgs) /\ got \in [Clients -> [Clients -> Nat]]
         /\ Genuine /\ LinesFlow
BY DEF ChatInv, ChatType, LineInv, LineType

\* A client types a line.
LEMMA TypedLines ==
  ASSUME ChatInv, LineInv, ~gone, NEW e \in Clients, first_time_send(e) \/ sigint_msgsnd(e)
  PROVE  LineInv' /\ got' = got
<1>t. /\ pid \in [Clients -> Nat] /\ \A c, f \in Clients : pid[c] = pid[f] => c = f
      /\ rq \in Seq(Msgs) /\ typed \in [Clients -> Nat]
      /\ wq \in Seq(CopyMsgs) /\ got \in [Clients -> [Clients -> Nat]]
      /\ Genuine /\ LinesFlow
  BY LineTypes
<1>1. /\ rq' = Append(rq, Line(e)) /\ typed' = [typed EXCEPT ![e] = typed[e] + 1]
      /\ UNCHANGED <<pid, pids, sv, gone, got, wq>>
  BY DEF first_time_send, sigint_msgsnd
<1>2. PICK m \in Msgs : m = Line(e)
  <2>1. pid[e] \in Nat /\ typed[e] + 1 \in Nat
    BY <1>t
  <2> QED
    BY <2>1 DEF Line, Msgs
<1>3. m.type = pid[e] /\ m.text = typed[e] + 1
  BY <1>2 DEF Line
<1>4. /\ \A j \in 1..Len(rq) : rq'[j] = rq[j]
      /\ \A j \in 1..Len(rq') : j = Len(rq) + 1 \/ j \in 1..Len(rq)
      /\ rq'[Len(rq) + 1] = m /\ rq' = Append(rq, m)
  BY <1>t, <1>1, <1>2, More
<1>5. Genuine'
  <2>1. \A j \in 1..Len(rq') : rq'[j].text > 0 => \E c \in Clients : rq'[j].type = pid[c]
    BY <1>t, <1>3, <1>4 DEF Genuine
  <2> QED
    BY <1>t, <1>1, <2>1 DEF Genuine
<1>6. ASSUME NEW c \in Clients, NEW z \in Clients, c # z, ~Adjacent(z)'
      PROVE  PairInv(rq', sv, pids, wq, got[c][z], typed'[z], pid[z], pid[c])
  <2>1. PairInv(rq, sv, pids, wq, got[c][z], typed[z], pid[z], pid[c]) /\ typed[z] \in Nat
    BY <1>t, <1>1, <1>6 DEF LinesFlow, Adjacent
  <2>2. CASE z = e
    <3>1. m \in LinesOf(pid[z]) /\ m.text = typed[z] + 1 /\ typed'[z] = typed[z] + 1
      BY <1>t, <1>1, <1>3, <2>1, <2>2 DEF LinesOf
    <3>2. PairInv(rq', sv, pids, wq, got[c][z], typed[z] + 1, pid[z], pid[c])
      BY <1>t, <1>4, <2>1, <3>1, PairTyped
    <3> QED
      BY <3>1, <3>2
  <2>3. CASE z # e
    <3>1. m \notin LinesOf(pid[z]) /\ typed'[z] = typed[z]
      BY <1>t, <1>1, <1>3, <2>3 DEF LinesOf
    <3>2. PairInv(rq', sv, pids, wq, got[c][z], typed[z], pid[z], pid[c])
      BY <1>t, <1>4, <2>1, <3>1, PairTyped
    <3> QED
      BY <3>1, <3>2
  <2> QED
    BY <2>2, <2>3
<1>7. LinesFlow'
  BY <1>1, <1>6 DEF LinesFlow
<1> QED
  BY <1>t, <1>1, <1>5, <1>7 DEF LineInv, LineType

\* A client takes a message that is no line, or one of a client with the next pid.
LEMMA JoinedLines ==
  ASSUME ChatInv, LineInv, ~gone, NEW e \in Clients, first_time_recv(e)
  PROVE  LineInv' /\ got' = got
<1>t. /\ pid \in [Clients -> Nat] /\ \A c, f \in Clients : pid[c] = pid[f] => c = f
      /\ rq \in Seq(Msgs) /\ typed \in [Clients -> Nat]
      /\ wq \in Seq(CopyMsgs) /\ got \in [Clients -> [Clients -> Nat]]
      /\ Genuine /\ LinesFlow
  BY LineTypes
<1>1. /\ HasType(rq, pid[e] + 1) /\ rq' = RemoveAt(rq, FirstOf(rq, pid[e] + 1))
      /\ UNCHANGED <<pid, typed, pids, sv, gone, got, wq>>
  BY DEF first_time_recv
<1>2. PICK k \in 1..Len(rq) : rq' = RemoveAt(rq, k) /\ rq[k].type = pid[e] + 1
  BY <1>t, <1>1, FirstOfIs
<1>3. KeepsOthers(rq, k, rq')
  BY <1>t, <1>2, Rest
<1>4. Genuine'
  <2>1. ASSUME NEW j \in 1..Len(rq'), rq'[j].text > 0
        PROVE  \E c \in Clients : rq'[j].type = pid[c]
    <3>1. PICK i \in 1..Len(rq) : rq'[j] = rq[i]
      BY <1>3 DEF KeepsOthers
    <3> QED
      BY <1>t, <2>1, <3>1 DEF Genuine
  <2> QED
    BY <1>t, <1>1, <2>1 DEF Genuine
<1>5. ASSUME NEW c \in Clients, NEW z \in Clients, c # z, ~Adjacent(z)'
      PROVE  PairInv(rq', sv, pids, wq, got[c][z], typed[z], pid[z], pid[c])
  <2>1. PairInv(rq, sv, pids, wq, got[c][z], typed[z], pid[z], pid[c]) /\ pid[z] # pid[e] + 1
    BY <1>t, <1>1, <1>5 DEF LinesFlow, Adjacent
  <2>2. rq[k] \notin LinesOf(pid[z])
    BY <1>2, <2>1 DEF LinesOf
  <2> QED
    BY <1>t, <1>3, <2>1, <2>2, PairJoined
<1>6. LinesFlow'
  BY <1>1, <1>5 DEF LinesFlow
<1> QED
  BY <1>t, <1>1, <1>4, <1>6 DEF LineInv, LineType

\* The server takes a message.
LEMMA TakenLines ==
  ASSUME ChatInv, LineInv, msgrcv_any
  PROVE  LineInv' /\ got' = got
<1> DEFINE m == Head(rq)
<1>1. /\ ~gone /\ sv.at = "recv" /\ rq # <<>> /\ rq' = Tail(rq)
      /\ UNCHANGED <<pid, cl, typed, gone, got, wq>>
      /\ \/ (\E i \in DOMAIN pids : pids[i] = m.type) /\ sv' = [at |-> "relay", m |-> m, i |-> 1]
         \/ sv' = [at |-> "overflow", m |-> m, i |-> 1]
         \/ /\ ~\E i \in DOMAIN pids : pids[i] = m.type
            /\ sv' = [at |-> "ack", m |-> m, i |-> 1]
      /\ pids' = IF sv'.at = "ack" THEN Append(pids, m.type) ELSE pids
  BY DEF msgrcv_any
<1>t. /\ rq \in Seq(Msgs) /\ pids \in Seq(Nat) /\ typed \in [Clients -> Nat]
      /\ wq \in Seq(CopyMsgs) /\ got \in [Clients -> [Clients -> Nat]]
      /\ Genuine /\ LinesFlow
  BY <1>1, LineTypes
<1>2. /\ 1 \in 1..Len(rq) /\ m = rq[1] /\ m \in Msgs /\ KeepsOthers(rq, 1, Tail(rq))
  BY <1>t, <1>1, FirstTaken
<1>3. m.type \in Nat
  BY <1>2 DEF Msgs
<1> HIDE DEF m
<1>4. PICK w \in {"relay", "overflow", "ack"} :
        /\ sv' = [at |-> w, m |-> m, i |-> 1]
        /\ w = "ack" => /\ pids' = Append(pids, m.type)
                        /\ ~\E i \in 1..Len(pids) : pids[i] = m.type
        /\ w # "ack" => pids' = pids
  BY <1>1, <1>t
<1>5. sv'.at = w /\ sv'.m = m /\ sv'.i = 1
  BY <1>4
<1>6. /\ \A i \in 1..Len(pids) : i \in 1..Len(pids') /\ pids'[i] = pids[i]
      /\ \A i, j \in 1..Len(pids') : pids'[i] = pids'[j] => i = j
  <2>1. CASE w # "ack"
    BY <1>t, <1>4, <2>1 DEF Genuine
  <2>2. CASE w = "ack"
    <3>0. PICK y \in Nat : y = m.type /\ pids' = Append(pids, y)
      BY <1>3, <1>4, <2>2
    <3>1. /\ Len(pids') = Len(pids) + 1 /\ Len(pids) \in Nat /\ pids'[Len(pids) + 1] = m.type
          /\ \A j \in 1..Len(pids) : pids'[j] = pids[j] /\ j \in 1..Len(pids')
          /\ \A j \in 1..Len(pids') : j = Len(pids) + 1 \/ j \in 1..Len(pids)
      BY <1>t, <3>0, More
    <3>2. \A i, j \in 1..Len(pids) : pids[i] = pids[j] => i = j
      BY <1>t DEF Genuine
    <3>3. \A i \in 1..Len(pids) : pids[i] # m.type
      BY <1>4, <2>2
    <3> QED
      BY <3>1, <3>2, <3>3
  <2> QED
    BY <2>1, <2>2
<1>7. Genuine'
  <2>1. ASSUME NEW j \in 1..Len(rq'), rq'[j].text > 0
        PROVE  \E c \in Clients : rq'[j].type = pid[c]
    <3>1. PICK i \in 1..Len(rq) : rq'[j] = rq[i]
      BY <1>1, <1>2 DEF KeepsOthers
    <3> QED
      BY <1>t, <2>1, <3>1 DEF Genuine
  <2>2. m.text > 0 => \E c \in Clients : m.type = pid[c]
    BY <1>t, <1>2 DEF Genuine
  <2> QED
    BY <1>t, <1>1, <1>2, <1>5, <1>6, <2>1, <2>2 DEF Genuine
<1>8. ASSUME NEW c \in Clients, NEW z \in Clients, c # z, ~Adjacent(z)'
      PROVE  PairInv(rq', sv', pids', wq, got[c][z], typed[z], pid[z], pid[c])
  <2>1. PairInv(rq, sv, pids, wq, got[c][z], typed[z], pid[z], pid[c]) /\ typed[z] \in Nat
    BY <1>t, <1>1, <1>8 DEF LinesFlow, Adjacent
  <2>2. /\ sv'.at # "recv" /\ sv'.m = rq[1] /\ sv'.i = 1
        /\ sv'.at = "relay" => pids' = pids
    BY <1>2, <1>4, <1>5
  <2>3. PICK S, Y, M, g : S = sv /\ Y = sv' /\ M = pids' /\ g = got[c][z]
    OBVIOUS
  <2>4. /\ PairInv(rq, S, pids, wq, g, typed[z], pid[z], pid[c])
        /\ S.at = "recv" /\ Y.at # "recv" /\ Y.m = rq[1] /\ Y.i = 1 /\ (Y.at = "relay" => M = pids)
        /\ \A i \in 1..Len(pids) : i \in 1..Len(M) /\ M[i] = pids[i]
    BY <1>1, <1>6, <2>1, <2>2, <2>3
  <2>5. PairInv(Tail(rq), Y, M, wq, g, typed[z], pid[z], pid[c])
    BY <1>t, <1>1, <2>1, <2>4, PairTaken
  <2> QED
    BY <1>1, <2>3, <2>5
<1>9. LinesFlow'
  BY <1>1, <1>8 DEF LinesFlow
<1> QED
  BY <1>t, <1>1, <1>7, <1>9 DEF LineInv, LineType

\* It answers.
LEMMA AnsweredLines ==
  ASSUME ChatInv, LineInv, ~gone, is_there
  PROVE  LineInv' /\ got' = got
<1>t. /\ rq \in Seq(Msgs) /\ pids \in Seq(Nat) /\ typed \in [Clients -> Nat]
      /\ sv \in [at : {"recv", "ack", "relay", "overflow"}, m : Msgs \cup {<<>>}, i : Nat]
      /\ wq \in Seq(CopyMsgs) /\ got \in [Clients -> [Clients -> Nat]]
      /\ Genuine /\ LinesFlow
  BY LineTypes
<1>1. /\ sv.at = "ack" /\ rq' = Append(rq, Ack(sv.m.type)) /\ sv' = [sv EXCEPT !.at = "relay"]
      /\ UNCHANGED <<pid, typed, pids, gone, got, wq>>
  BY DEF is_there
<1>2. sv.m \in Msgs /\ sv.i = 1 /\ (sv.m.text > 0 => \E c \in Clients : sv.m.type = pid[c])
  BY <1>t, <1>1 DEF Genuine
<1>3. PICK a \in Msgs : a = Ack(sv.m.type) /\ a.text = 0
  <2>1. PICK y \in Nat : y = sv.m.type
    BY <1>2 DEF Msgs
  <2>2. Ack(y) \in Msgs /\ Ack(y).text = 0
    BY DEF Ack, Msgs
  <2> QED
    BY <2>1, <2>2
<1>4. sv'.at = "relay" /\ sv'.m = sv.m /\ sv'.i = 1
  BY <1>t, <1>1, <1>2
<1>a. rq' = Append(rq, a)
  BY <1>1, <1>3
<1>5. /\ \A j \in 1..Len(rq) : rq'[j] = rq[j]
      /\ \A j \in 1..Len(rq') : j = Len(rq) + 1 \/ j \in 1..Len(rq)
      /\ rq'[Len(rq) + 1] = a /\ rq' = Append(rq, a)
  BY <1>t, <1>a, More
<1>6. Genuine'
  <2>1. \A j \in 1..Len(rq') : rq'[j].text > 0 => \E c \in Clients : rq'[j].type = pid[c]
    BY <1>t, <1>3, <1>5 DEF Genuine
  <2> QED
    BY <1>t, <1>1, <1>2, <1>4, <2>1 DEF Genuine
<1>7. ASSUME NEW c \in Clients, NEW z \in Clients, c # z, ~Adjacent(z)'
      PROVE  PairInv(rq', sv', pids, wq, got[c][z], typed[z], pid[z], pid[c])
  <2>1. PairInv(rq, sv, pids, wq, got[c][z], typed[z], pid[z], pid[c]) /\ typed[z] \in Nat
    BY <1>t, <1>1, <1>7 DEF LinesFlow, Adjacent
  <2>2. a \notin LinesOf(pid[z])
    BY <1>3 DEF LinesOf
  <2>3. PairInv(rq', sv, pids, wq, got[c][z], typed[z], pid[z], pid[c])
    BY <1>t, <1>5, <2>1, <2>2, PairTyped
  <2> QED
    BY <1>t, <1>1, <1>4, <2>1, <2>3, PairAnswered
<1>8. LinesFlow'
  BY <1>1, <1>7 DEF LinesFlow
<1> QED
  BY <1>t, <1>1, <1>6, <1>8 DEF LineInv, LineType

\* It takes a turn of its loop, or ends it.
LEMMA RelayedLines ==
  ASSUME ChatInv, LineInv, ~gone, relay
  PROVE  LineInv' /\ got' = got
<1> DEFINE e == [type |-> pids[sv.i], from |-> sv.m.type, text |-> sv.m.text]
<1>t. /\ pid \in [Clients -> Nat] /\ \A c, f \in Clients : pid[c] = pid[f] => c = f
      /\ pids \in Seq(Nat) /\ typed \in [Clients -> Nat]
      /\ sv \in [at : {"recv", "ack", "relay", "overflow"}, m : Msgs \cup {<<>>}, i : Nat]
      /\ wq \in Seq(CopyMsgs) /\ got \in [Clients -> [Clients -> Nat]]
      /\ Genuine /\ LinesFlow
  BY LineTypes
<1>1. /\ sv.at = "relay" /\ UNCHANGED <<pid, typed, pids, gone, rq, got>>
      /\ \/ sv.i > Len(pids) /\ sv' = [sv EXCEPT !.at = "recv"] /\ wq' = wq
         \/ /\ ~(sv.i > Len(pids)) /\ sv' = [sv EXCEPT !.i = sv.i + 1]
            /\ wq' = IF pids[sv.i] = sv.m.type THEN wq ELSE Append(wq, e)
  BY DEF relay
<1>2. /\ sv.m \in Msgs /\ (sv.m.text > 0 => \E c \in Clients : sv.m.type = pid[c])
      /\ sv.i \in Nat /\ Len(pids) \in Nat
  BY <1>t, <1>1 DEF Genuine
<1>3. \/ sv.i > Len(pids) /\ sv'.at = "recv" /\ wq' = wq
      \/ /\ ~(sv.i > Len(pids)) /\ sv'.at = "relay" /\ sv'.m = sv.m /\ sv'.i = sv.i + 1
         /\ wq' = IF pids[sv.i] = sv.m.type THEN wq ELSE Append(wq, e)
  BY <1>t, <1>1
<1>4. \A i, j \in 1..Len(pids) : pids[i] = pids[j] => i = j
  BY <1>t DEF Genuine
<1>5. sv.i >= 1 /\ sv.i \in Nat
  BY <1>t, <1>2 DEF Genuine
<1>6. ~(sv.i > Len(pids)) => sv.i \in 1..Len(pids)
  BY <1>2, <1>5
<1>7. ~(sv.i > Len(pids)) => e \in CopyMsgs /\ e.from = sv.m.type /\ e.type = pids[sv.i] /\ e.text = sv.m.text
  <2> SUFFICES ASSUME ~(sv.i > Len(pids)) PROVE e \in CopyMsgs
    OBVIOUS
  <2>1. pids[sv.i] \in Nat
    BY <1>t, <1>6
  <2>2. sv.m.type \in Nat /\ sv.m.text \in Nat
    BY <1>2 DEF Msgs
  <2> QED
    BY <2>1, <2>2 DEF CopyMsgs
<1> HIDE DEF e
<1>8. /\ wq' \in Seq(CopyMsgs)
      /\ \A j \in 1..Len(wq') : /\ wq'[j].from # wq'[j].type
                                /\ wq'[j].text > 0 => \E c \in Clients : wq'[j].from = pid[c]
  <2>1. CASE wq' = wq
    BY <1>t, <2>1 DEF Genuine
  <2>2. CASE ~(sv.i > Len(pids)) /\ pids[sv.i] # sv.m.type /\ wq' = Append(wq, e)
    <3>0. PICK f \in CopyMsgs : /\ f.from = sv.m.type /\ f.type = pids[sv.i] /\ f.text = sv.m.text
                                /\ wq' = Append(wq, f)
      BY <1>7, <2>2
    <3>1. /\ wq' \in Seq(CopyMsgs) /\ wq'[Len(wq) + 1] = f
          /\ \A j \in 1..Len(wq) : wq'[j] = wq[j]
          /\ \A j \in 1..Len(wq') : j = Len(wq) + 1 \/ j \in 1..Len(wq)
      BY <1>t, <3>0, More
    <3>2. f.from # f.type /\ (f.text > 0 => \E c \in Clients : f.from = pid[c])
      BY <1>2, <2>2, <3>0
    <3>3. \A j \in 1..Len(wq) : /\ wq[j].from # wq[j].type
                                /\ wq[j].text > 0 => \E c \in Clients : wq[j].from = pid[c]
      BY <1>t DEF Genuine
    <3>4. ASSUME NEW j \in 1..Len(wq')
          PROVE  /\ wq'[j].from # wq'[j].type
                 /\ wq'[j].text > 0 => \E c \in Clients : wq'[j].from = pid[c]
      <4>1. CASE j = Len(wq) + 1
        <5>1. wq'[j] = f
          BY <3>1, <4>1
        <5> QED
          BY <3>2, <5>1
      <4>2. CASE j \in 1..Len(wq)
        <5>1. wq'[j] = wq[j]
          BY <3>1, <4>2
        <5> QED
          BY <3>3, <4>2, <5>1
      <4> QED
        BY <3>1, <4>1, <4>2
    <3> QED
      BY <3>1, <3>4
  <2> QED
    BY <1>3, <2>1, <2>2
<1>9. Genuine'
  <2>1. /\ sv'.at # "recv" => sv'.m \in Msgs /\ (sv'.m.text > 0 => \E c \in Clients : sv'.m.type = pid[c])
        /\ sv'.at # "ack"
    BY <1>2, <1>3
  <2>2. sv'.i >= 1
    <3>1. sv'.i = sv.i \/ sv'.i = sv.i + 1
      BY <1>1, <1>t
    <3> QED
      BY <1>5, <3>1
  <2> QED
    BY <1>t, <1>1, <1>8, <2>1, <2>2 DEF Genuine
<1>10. ASSUME NEW c \in Clients, NEW z \in Clients, c # z, ~Adjacent(z)'
       PROVE  PairInv(rq, sv', pids, wq', got[c][z], typed[z], pid[z], pid[c])
  <2>1. PairInv(rq, sv, pids, wq, got[c][z], typed[z], pid[z], pid[c]) /\ typed[z] \in Nat
    BY <1>t, <1>1, <1>10 DEF LinesFlow, Adjacent
  <2>2. pid[z] # pid[c]
    BY <1>t, <1>10
  <2>3. PICK S, Y, V, g, p, r : /\ S = sv /\ Y = sv' /\ V = wq' /\ g = got[c][z]
                               /\ p = pid[z] /\ r = pid[c]
    OBVIOUS
  <2>4. PairInv(rq, S, pids, wq, g, typed[z], p, r) /\ p # r
    BY <2>1, <2>2, <2>3
  <2>5. S.at = "relay" /\ S.m \in Msgs /\ S.i \in Nat
    BY <1>1, <1>2, <2>3
  <2>6. \/ S.i > Len(pids) /\ Y.at = "recv" /\ V = wq
        \/ /\ S.i \in 1..Len(pids) /\ Y.at = "relay" /\ Y.m = S.m /\ Y.i = S.i + 1
           /\ V = IF pids[S.i] = S.m.type THEN wq
                  ELSE Append(wq, [type |-> pids[S.i], from |-> S.m.type, text |-> S.m.text])
    BY <1>3, <1>6, <2>3 DEF e
  <2>7. PairInv(rq, Y, pids, V, g, typed[z], p, r)
    BY <1>t, <1>4, <2>1, <2>4, <2>5, <2>6, PairRelayed
  <2> QED
    BY <2>3, <2>7
<1>11. LinesFlow'
  BY <1>1, <1>10 DEF LinesFlow
<1> QED
  BY <1>t, <1>1, <1>8, <1>9, <1>11 DEF LineInv, LineType

\* A client reads: of each other client it sees the line after the last one.
LEMMA ReadLines ==
  ASSUME ChatInv, LineInv, ~gone, NEW e \in Clients, read_loop(e)
  PROVE  /\ LineInv'
         /\ \A c, z \in Clients : got'[c][z] # got[c][z] =>
              got[c][z] = 0 \/ got'[c][z] = got[c][z] + 1 \/ Adjacent(z)
<1>t. /\ pid \in [Clients -> Nat] /\ \A c, f \in Clients : pid[c] = pid[f] => c = f
      /\ typed \in [Clients -> Nat]
      /\ wq \in Seq(CopyMsgs) /\ got \in [Clients -> [Clients -> Nat]]
      /\ Genuine /\ LinesFlow
  BY LineTypes
<1> DEFINE k == FirstOf(wq, pid[e])
<1>1. /\ HasType(wq, pid[e]) /\ wq' = RemoveAt(wq, k)
      /\ got' = IF wq[k].text = 0 THEN got
                ELSE [got EXCEPT ![e][ClientOf(wq[k].from)] = wq[k].text]
      /\ UNCHANGED <<pid, typed, rq, pids, sv, gone>>
  BY DEF read_loop
<1>2. k \in 1..Len(wq) /\ wq[k].type = pid[e] /\ \A j \in 1..(k - 1) : wq[j].type # pid[e]
  BY <1>t, <1>1, FirstOfIs
<1> HIDE DEF k
<1>3. wq' \in Seq(CopyMsgs) /\ KeepsOthers(wq, k, wq')
  BY <1>t, <1>1, <1>2, Rest
<1>4. Genuine'
  <2>1. ASSUME NEW j \in 1..Len(wq')
        PROVE  /\ wq'[j].from # wq'[j].type
               /\ wq'[j].text > 0 => \E c \in Clients : wq'[j].from = pid[c]
    <3>1. PICK i \in 1..Len(wq) : wq'[j] = wq[i]
      BY <1>3 DEF KeepsOthers
    <3> QED
      BY <1>t, <3>1 DEF Genuine
  <2> QED
    BY <1>t, <1>1, <2>1 DEF Genuine
<1>5. PICK w \in CopyMsgs : w = wq[k]
  BY <1>t, <1>2
<1>6. w.text \in Nat /\ w.type = pid[e] /\ w.from # w.type
  BY <1>2, <1>5, <1>t DEF CopyMsgs, Genuine
\* The line that is read: of f, who is somebody else.
<1>7. ASSUME w.text # 0
      PROVE  \E f \in Clients : w.from = pid[f] /\ f # e /\ got' = [got EXCEPT ![e][f] = w.text]
  <2>1. w.text > 0
    BY <1>6, <1>7
  <2>2. PICK f \in Clients : w.from = pid[f]
    BY <1>2, <1>5, <1>t, <2>1 DEF Genuine
  <2>3. ClientOf(w.from) = f
    BY <1>t, <2>2 DEF ClientOf
  <2> QED
    BY <1>1, <1>5, <1>6, <1>7, <2>2, <2>3
<1>8. got' \in [Clients -> [Clients -> Nat]]
  <2>1. CASE w.text = 0
    BY <1>1, <1>5, <1>t, <2>1
  <2>2. CASE w.text # 0
    <3>1. PICK f \in Clients : got' = [got EXCEPT ![e][f] = w.text]
      BY <1>7, <2>2
    <3> QED
      BY <1>6, <1>t, <3>1
  <2> QED
    BY <2>1, <2>2
<1>9. ASSUME NEW c \in Clients, NEW z \in Clients
      PROVE  \/ got'[c][z] = got[c][z]
             \/ /\ c = e /\ c # z /\ w.text > 0 /\ w.from = pid[z] /\ got'[c][z] = w.text
  <2>1. CASE w.text = 0
    BY <1>1, <1>5, <2>1
  <2>2. CASE w.text # 0
    <3>1. PICK f \in Clients : w.from = pid[f] /\ f # e /\ got' = [got EXCEPT ![e][f] = w.text]
      BY <1>7, <2>2
    <3>2. w.text > 0
      BY <1>6, <2>2
    <3> QED
      BY <1>t, <3>1, <3>2
  <2> QED
    BY <2>1, <2>2
<1>10. ASSUME NEW c \in Clients, NEW z \in Clients, c # z, ~Adjacent(z)
       PROVE  /\ PairInv(rq, sv, pids, wq', got'[c][z], typed[z], pid[z], pid[c])
              /\ got'[c][z] # got[c][z] => got[c][z] = 0 \/ got'[c][z] = got[c][z] + 1
  <2>1. PairInv(rq, sv, pids, wq, got[c][z], typed[z], pid[z], pid[c]) /\ typed[z] \in Nat
    BY <1>t, <1>10 DEF LinesFlow
  <2>2. PICK K, S, Q, P, W, n, V, g, p, r : /\ K = k /\ S = sv /\ Q = rq /\ P = pids /\ W = wq
                                           /\ n = typed[z] /\ V = wq' /\ g = got[c][z]
                                           /\ p = pid[z] /\ r = pid[c]
    OBVIOUS
  <2>r. /\ W[K] \notin CopiesOf(p, r) => PairInv(Q, S, P, V, g, n, p, r)
        /\ W[K] \in CopiesOf(p, r) /\ (\A j \in 1..(K - 1) : W[j] \notin CopiesOf(p, r)) =>
             /\ PairInv(Q, S, P, V, W[K].text, n, p, r)
             /\ g = 0 \/ W[K].text = g + 1
    <3>1. PairInv(Q, S, P, W, g, n, p, r) /\ KeepsOthers(W, K, V)
      BY <1>3, <2>1, <2>2
    <3>2. W \in Seq(CopyMsgs) /\ n \in Nat /\ K \in 1..Len(W)
      BY <1>2, <1>t, <2>1, <2>2
    <3> QED
      BY <3>1, <3>2, PairRead
  <2>3. /\ wq[k] \notin CopiesOf(p, r) => PairInv(rq, sv, pids, V, g, typed[z], p, r)
        /\ wq[k] \in CopiesOf(p, r) /\ (\A j \in 1..(k - 1) : wq[j] \notin CopiesOf(p, r)) =>
             /\ PairInv(rq, sv, pids, V, wq[k].text, typed[z], p, r)
             /\ g = 0 \/ wq[k].text = g + 1
    BY <2>2, <2>r
  <2>4. wq[k] \in CopiesOf(p, r) <=> c = e /\ w.text > 0 /\ w.from = pid[z]
    BY <1>5, <1>6, <1>t, <2>2 DEF CopiesOf
  <2>5. CASE wq[k] \notin CopiesOf(p, r)
    <3>1. got'[c][z] = got[c][z]
      BY <1>9, <2>4, <2>5
    <3> QED
      BY <2>2, <2>3, <2>5, <3>1
  <2>6. CASE wq[k] \in CopiesOf(p, r)
    <3>1. c = e /\ w.from = pid[z] /\ w.text > 0
      BY <2>4, <2>6
    <3>2. got'[c][z] = w.text
      <4>1. PICK f \in Clients : w.from = pid[f] /\ got' = [got EXCEPT ![e][f] = w.text]
        BY <1>6, <1>7, <3>1
      <4>2. f = z
        BY <1>t, <3>1, <4>1
      <4> QED
        BY <1>t, <3>1, <4>1, <4>2
    <3>3. \A j \in 1..(k - 1) : wq[j] \notin CopiesOf(p, r)
      BY <1>2, <2>2, <3>1 DEF CopiesOf
    <3> QED
      BY <1>5, <2>2, <2>3, <2>6, <3>2, <3>3
  <2> QED
    BY <2>5, <2>6
<1>11. LinesFlow'
  BY <1>1, <1>10 DEF LinesFlow, Adjacent
<1>12. LineInv'
  BY <1>1, <1>3, <1>4, <1>8, <1>11 DEF LineInv, LineType
<1>13. \A c, z \in Clients : got'[c][z] # got[c][z] =>
         got[c][z] = 0 \/ got'[c][z] = got[c][z] + 1 \/ Adjacent(z)
  BY <1>9, <1>10
<1> QED
  BY <1>12, <1>13

LEMMA LineInit == InitChat \/ IdleChat => LineInv
<1> SUFFICES ASSUME InitChat \/ IdleChat PROVE LineInv
  OBVIOUS
<1>1. ReadyRest
  BY DEF InitChat, IdleChat
<1>2. <<>> \in Seq(CopyMsgs) /\ Len(<<>>) = 0 /\ \A j : j \notin 1..0
  BY Empty
<1>3. LineType
  BY <1>1, <1>2 DEF ReadyRest, LineType
<1>4. rq = <<>> /\ wq = <<>> /\ pids = <<>> /\ sv = [at |-> "recv", m |-> <<>>, i |-> 1] /\ ~gone
  BY <1>1 DEF ReadyRest
<1>5. Genuine
  BY <1>2, <1>4 DEF Genuine
<1>6. ASSUME NEW p, NEW r
      PROVE  PairInv(rq, sv, pids, wq, 0, 0, p, r)
  <2>1. \A L : NumbersIn(<<>>, L) = {} /\ Rising(<<>>, L)
    BY <1>2 DEF NumbersIn, Rising
  <2>2. Due(sv, pids, p, r) = {}
    BY <1>4, DueIs
  <2>3. \A known : Flow({}, {}, {}, 0, 0, known)
    BY DEF Flow
  <2> QED
    BY <1>4, <2>1, <2>2, <2>3 DEF PairInv
<1>7. \A c, z \in Clients : got[c][z] = 0 /\ typed[z] = 0
  BY <1>1 DEF ReadyRest
<1>8. LinesFlow
  BY <1>6, <1>7 DEF LinesFlow
<1> QED
  BY <1>3, <1>4, <1>5, <1>8 DEF LineInv

InOrder ==
  \A c, e \in Clients :
    got'[c][e] # got[c][e] =>
      \/ got[c][e] = 0
      \/ got'[c][e] = got[c][e] + 1
      \/ Adjacent(e)

LEMMA LineStep ==
  ChatInv /\ LineInv /\ (NextChat \/ UNCHANGED varsChat) => LineInv' /\ InOrder
<1> SUFFICES ASSUME ChatInv, LineInv, NextChat \/ UNCHANGED varsChat PROVE LineInv' /\ InOrder
  OBVIOUS
<1>1. CASE gone
  <2>1. wq = <<>> /\ ~HasType(wq, pid)
    BY <1>1 DEF LineInv, HasType
  <2>2. \A t : ~HasType(wq, t)
    BY <2>1 DEF HasType
  <2>3. gone' /\ wq' = <<>> /\ got' = got
    BY <1>1, <2>1, <2>2 DEF NextChat, Server, msgrcv_any, is_there, relay, delete_server,
       c1, c2, c3, ClientMain, first_time_send, first_time_recv, read_loop, sigint_msgsnd,
       Keyboard, sigint, sigint_fgets, varsChat
  <2> QED
    BY <2>3 DEF LineInv, InOrder
<1>2. CASE ~gone
  <2>1. CASE Server
    <3>1. LineInv' /\ got' = got
      BY <1>2, <2>1, TakenLines, AnsweredLines, RelayedLines DEF Server
    <3> QED
      BY <3>1 DEF InOrder
  <2>2. CASE delete_server
    BY <2>2 DEF delete_server, LineInv, InOrder
  <2>3. ASSUME NEW e \in Clients, first_time_send(e) \/ first_time_recv(e) \/ sigint_msgsnd(e)
        PROVE  LineInv' /\ InOrder
    <3>1. LineInv' /\ got' = got
      BY <1>2, <2>3, TypedLines, JoinedLines
    <3> QED
      BY <3>1 DEF InOrder
  <2>4. ASSUME NEW e \in Clients, read_loop(e)
        PROVE  LineInv' /\ InOrder
    BY <1>2, <2>4, ReadLines DEF InOrder
  <2>5. CASE (\E e \in Clients : Keyboard(e)) \/ UNCHANGED varsChat
    <3>1. UNCHANGED <<pid, typed, got, rq, wq, pids, sv, gone>>
      BY <2>5 DEF Keyboard, sigint, sigint_fgets, varsChat
    <3>2. Genuine' /\ LinesFlow' /\ LineType' <=> Genuine /\ LinesFlow /\ LineType
      BY <3>1 DEF Genuine, LinesFlow, LineType, Adjacent
    <3> QED
      BY <1>2, <3>1, <3>2 DEF LineInv, InOrder
  <2> QED
    BY <2>1, <2>2, <2>3, <2>4, <2>5 DEF NextChat, c1, c2, c3, ClientMain, Clients
<1> QED
  BY <1>1, <1>2

(* MsgRing: whose turn it is. *)

RingType ==
  /\ prog \in Programs \cup {"none"}
  /\ rpc \in [Procs -> {"type", "statSend", "recv", "statRecv"}]
  /\ shown \in [Procs -> Nat]

\* There is one message, or one process that has the floor; lspid is the
\* sender as long as the one who has received the message has not looked.
Floor(t) ==
  /\ t \in Procs
  /\ \A p \in Procs : p # t => rpc[p] \in {"recv", "statSend"}
  /\ \/ queue = <<>> /\ rpc[t] \in {"type", "statRecv"}
     \/ queue = <<Before(t)>> /\ rpc[t] \in {"recv", "statSend"}
  /\ queue # <<>> \/ rpc[t] = "statRecv" => lspid = Before(t)

RingInv == RingType /\ ShownIsSender /\ \E t \in Procs : Floor(t)

LEMMA RingOf ==
  ASSUME prog \in Programs \cup {"none"}
  PROVE  /\ NumProcs(prog) \in {1, 2, 4} /\ Procs \subseteq Nat \ {0} /\ 1 \in Procs
         /\ prog # "none" => NumProcs(prog) # 1
         /\ \A p \in Procs : Before(p) \in Procs /\ (Before(p) % NumProcs(prog)) + 1 = p
         /\ \A p \in Procs : /\ (p % NumProcs(prog)) + 1 \in Procs
                             /\ Before((p % NumProcs(prog)) + 1) = p
                             /\ NumProcs(prog) # 1 => (p % NumProcs(prog)) + 1 # p
<1> DEFINE N == NumProcs(prog)
<1>1. N \in {1, 2, 4} /\ (prog # "none" => N # 1)
  BY DEF NumProcs, Programs
<1>2. Procs = 1..N /\ \A p : Before(p) = IF p = 1 THEN N ELSE p - 1
  BY DEF Procs, Before
<1> HIDE DEF N
<1>3. CASE N = 1
  <2>1. Procs = {1}
    BY <1>2, <1>3
  <2>2. (1 % 1) + 1 = 1
    OBVIOUS
  <2> QED
    BY <1>1, <1>2, <1>3, <2>1, <2>2 DEF N
<1>4. CASE N = 2
  <2>1. Procs = {1, 2}
    BY <1>2, <1>4
  <2>2. (1 % 2) + 1 = 2 /\ (2 % 2) + 1 = 1
    OBVIOUS
  <2> QED
    BY <1>1, <1>2, <1>4, <2>1, <2>2 DEF N
<1>5. CASE N = 4
  <2>1. Procs = {1, 2, 3, 4}
    BY <1>2, <1>5
  <2>2. (1 % 4) + 1 = 2 /\ (2 % 4) + 1 = 3 /\ (3 % 4) + 1 = 4 /\ (4 % 4) + 1 = 1
    OBVIOUS
  <2> QED
    BY <1>1, <1>2, <1>5, <2>1, <2>2 DEF N
<1> QED
  BY <1>1, <1>3, <1>4, <1>5

\* The process with the floor is the one whose turn it is.
LEMMA FloorIsTurn ==
  \A t : prog \in Programs \cup {"none"} /\ Floor(t) => Turn = t
<1> SUFFICES ASSUME NEW t, prog \in Programs \cup {"none"}, Floor(t)
             PROVE  Turn = t
  OBVIOUS
<1>0. t \in Procs
  BY DEF Floor
<1> DEFINE Speaks(p) == \/ rpc[p] \in {"type", "statRecv"}
                        \/ \E i \in DOMAIN queue : queue[i] = Before(p)
<1>1. Turn = CHOOSE p \in Procs : Speaks(p)
  BY DEF Turn
<1>2. Speaks(t)
  <2>1. CASE rpc[t] \in {"type", "statRecv"}
    BY <2>1
  <2>2. CASE queue = <<Before(t)>>
    <3>1. 1 \in DOMAIN queue /\ queue[1] = Before(t)
      BY <2>2
    <3> QED
      BY <3>1
  <2> QED
    BY <2>1, <2>2 DEF Floor
<1>3. ASSUME NEW p \in Procs, p # t PROVE ~Speaks(p)
  <2>1. rpc[p] \in {"recv", "statSend"}
    BY <1>3 DEF Floor
  <2>2. Before(p) # Before(t)
    <3>1. /\ (Before(p) % NumProcs(prog)) + 1 = p
          /\ (Before(t) % NumProcs(prog)) + 1 = t
      BY <1>0, RingOf
    <3> QED
      BY <1>3, <3>1
  <2>3. \A i \in DOMAIN queue : queue[i] = Before(t)
    <3>1. CASE queue = <<>>
      BY <3>1
    <3>2. CASE queue = <<Before(t)>>
      BY <3>2
    <3> QED
      BY <3>1, <3>2 DEF Floor
  <2> QED
    BY <2>1, <2>2, <2>3
<1>4. \A p \in Procs : Speaks(p) <=> p = t
  BY <1>2, <1>3
<1> HIDE DEF Speaks
<1> QED
  BY <1>0, <1>1, <1>4

LEMMA TurnOfNext == (\A t : prog \in Programs \cup {"none"} /\ Floor(t) => Turn = t)'
BY FloorIsTurn, PTL

LEMMA RingInit == InitRing \/ IdleRing => RingInv /\ T!TRInit
<1> SUFFICES ASSUME InitRing \/ IdleRing PROVE RingInv /\ T!TRInit
  OBVIOUS
<1>1. prog \in Programs \cup {"none"}
  BY DEF InitRing, IdleRing
<1>2. NumProcs(prog) \in Nat \ {0} /\ 1 \in Procs /\ (prog = "none" => Procs = {1})
  BY <1>1, RingOf DEF Procs, NumProcs
<1>3. /\ rpc = [p \in Procs |-> IF p = 1 THEN "type" ELSE "recv"]
      /\ queue = <<>> /\ shown = [p \in Procs |-> 0]
  <2>1. CASE InitRing
    BY <2>1 DEF InitRing
  <2>2. CASE IdleRing
    BY <1>2, <2>2 DEF IdleRing
  <2> QED
    BY <2>1, <2>2
<1>4. RingType /\ ShownIsSender
  BY <1>1, <1>3 DEF RingType, ShownIsSender
<1>5. Floor(1)
  BY <1>2, <1>3 DEF Floor
<1>6. Turn = 1
  BY <1>1, <1>2, <1>5, FloorIsTurn
<1>7. T!TRInit
  BY <1>2, <1>6 DEF T!TRInit
<1> QED
  BY <1>2, <1>4, <1>5, <1>7 DEF RingInv

\* The process with the floor sends: the next one has it.
LEMMA SendRing ==
  ASSUME RingInv, NEW t \in Procs, Floor(t), NEW p \in Procs, prog # "none", Send(p),
         NEW u, u = (t % NumProcs(prog)) + 1
  PROVE  RingInv' /\ Floor(u)' /\ prog' = prog
<1>t. /\ prog \in Programs \cup {"none"} /\ ShownIsSender
      /\ rpc \in [Procs -> {"type", "statSend", "recv", "statRecv"}] /\ shown \in [Procs -> Nat]
  BY DEF RingInv, RingType
<1>1. /\ rpc[p] = "type" /\ queue' = Append(queue, p) /\ lspid' = p
      /\ UNCHANGED <<prog, shown>>
      /\ \E w \in {"statSend", "recv"} : rpc' = [rpc EXCEPT ![p] = w]
  BY DEF Send, Goto
<1>2. p = t /\ queue = <<>>
  BY <1>1 DEF Floor
<1>3. queue' = <<t>>
  BY <1>1, <1>2
<1>4. u \in Procs /\ Before(u) = t /\ u # t
  BY <1>t, RingOf
<1>5. /\ rpc' \in [Procs -> {"type", "statSend", "recv", "statRecv"}]
      /\ \A q \in Procs : rpc'[q] \in {"recv", "statSend"}
  <2>1. \A q \in Procs : q # t => rpc[q] \in {"recv", "statSend"}
    BY DEF Floor
  <2> QED
    BY <1>t, <1>1, <1>2, <2>1
<1>6. Procs' = Procs /\ \A q : Before(q)' = Before(q)
  BY <1>1 DEF Procs, Before
<1>7. Floor(u)'
  BY <1>1, <1>2, <1>3, <1>4, <1>5, <1>6 DEF Floor
<1>8. RingType' /\ ShownIsSender'
  BY <1>t, <1>1, <1>5, <1>6 DEF RingType, ShownIsSender
<1> QED
  BY <1>1, <1>4, <1>6, <1>7, <1>8 DEF RingInv

\* It gets the message, or a process looks at the queue: the floor stays.
LEMMA LookRing ==
  ASSUME RingInv, NEW t \in Procs, Floor(t), NEW p \in Procs, Receive(p) \/ get_queue_ds(p)
  PROVE  RingInv' /\ Floor(t)' /\ prog' = prog
<1>t. /\ prog \in Programs \cup {"none"} /\ ShownIsSender
      /\ rpc \in [Procs -> {"type", "statSend", "recv", "statRecv"}] /\ shown \in [Procs -> Nat]
  BY DEF RingInv, RingType
<1>0. prog' = prog
  BY DEF Receive, get_queue_ds
<1>6. Procs' = Procs /\ \A q : Before(q)' = Before(q)
  BY <1>0 DEF Procs, Before
<1>b. Before(t) \in Procs /\ Procs \subseteq Nat
  BY <1>t, RingOf
<1>1. CASE Receive(p)
  <2>1. PICK i \in DOMAIN queue :
          /\ queue[i] = Before(p)
          /\ queue' = [j \in 1..(Len(queue) - 1) |-> IF j < i THEN queue[j] ELSE queue[j + 1]]
    BY <1>1 DEF Receive
  <2>2. queue = <<Before(t)>>
    BY <2>1 DEF Floor
  <2>3. Before(p) = Before(t) /\ Len(queue) = 1
    BY <2>1, <2>2
  <2>4. p = t
    <3>1. /\ (Before(p) % NumProcs(prog)) + 1 = p
          /\ (Before(t) % NumProcs(prog)) + 1 = t
      BY <1>t, RingOf
    <3> QED
      BY <2>3, <3>1
  <2>5. queue' = <<>>
    BY <2>1, <2>3
  <2>6. /\ UNCHANGED <<lspid, shown>> /\ lspid = Before(t)
        /\ \E w \in {"type", "statRecv"} : rpc' = [rpc EXCEPT ![t] = w]
    BY <1>1, <2>2, <2>4 DEF Receive, Goto, Floor
  <2>7. /\ rpc' \in [Procs -> {"type", "statSend", "recv", "statRecv"}]
        /\ rpc'[t] \in {"type", "statRecv"}
        /\ \A q \in Procs : q # t => rpc'[q] = rpc[q]
    BY <1>t, <2>6
  <2>8. Floor(t)'
    BY <1>6, <2>5, <2>6, <2>7 DEF Floor
  <2>9. RingType' /\ ShownIsSender'
    BY <1>t, <1>0, <1>6, <2>6, <2>7 DEF RingType, ShownIsSender
  <2> QED
    BY <1>0, <1>6, <2>8, <2>9 DEF RingInv
<1>2. CASE rpc[p] = "statSend" /\ Goto(p, "recv") /\ UNCHANGED <<prog, queue, lspid, shown>>
  <2>1. /\ rpc' \in [Procs -> {"type", "statSend", "recv", "statRecv"}]
        /\ rpc'[p] = "recv" /\ \A q \in Procs : q # p => rpc'[q] = rpc[q]
    BY <1>t, <1>2 DEF Goto
  <2>2. Floor(t)'
    BY <1>2, <1>6, <2>1 DEF Floor
  <2>3. RingType' /\ ShownIsSender'
    BY <1>t, <1>2, <1>6, <2>1 DEF RingType, ShownIsSender
  <2> QED
    BY <1>0, <1>6, <2>2, <2>3 DEF RingInv
<1>3. CASE /\ rpc[p] = "statRecv" /\ shown' = [shown EXCEPT ![p] = lspid]
           /\ Goto(p, "type") /\ UNCHANGED <<prog, queue, lspid>>
  <2>1. p = t /\ lspid = Before(t) /\ queue = <<>>
    BY <1>3 DEF Floor
  <2>2. /\ rpc' \in [Procs -> {"type", "statSend", "recv", "statRecv"}]
        /\ rpc'[t] = "type" /\ \A q \in Procs : q # t => rpc'[q] = rpc[q]
    BY <1>t, <1>3, <2>1 DEF Goto
  <2>3. /\ shown' \in [Procs -> Nat] /\ shown'[t] = Before(t)
        /\ \A q \in Procs : q # t => shown'[q] = shown[q]
    BY <1>t, <1>3, <1>b, <2>1
  <2>4. Floor(t)'
    BY <1>3, <1>6, <2>1, <2>2 DEF Floor
  <2>5. RingType' /\ ShownIsSender'
    BY <1>t, <1>3, <1>6, <2>2, <2>3 DEF RingType, ShownIsSender
  <2> QED
    BY <1>0, <1>6, <2>4, <2>5 DEF RingInv
<1> QED
  BY <1>1, <1>2, <1>3 DEF get_queue_ds

LEMMA RingStep ==
  RingInv /\ (NextRing \/ UNCHANGED varsRing)
    => RingInv' /\ [T!Speak]_<<NumProcs(prog), Turn>>
<1> SUFFICES ASSUME RingInv, NextRing \/ UNCHANGED varsRing
             PROVE  RingInv' /\ [T!Speak]_<<NumProcs(prog), Turn>>
  OBVIOUS
<1>1. PICK t \in Procs : Floor(t)
  BY DEF RingInv
<1>2. prog \in Programs \cup {"none"} /\ Turn = t
  BY <1>1, FloorIsTurn DEF RingInv, RingType
<1>3. CASE UNCHANGED varsRing
  <2>1. UNCHANGED <<prog, rpc, queue, lspid, shown>>
    BY <1>3 DEF varsRing
  <2>2. Procs' = Procs /\ \A q : Before(q)' = Before(q)
    BY <2>1 DEF Procs, Before
  <2>3. Floor(t)'
    BY <1>1, <2>1, <2>2 DEF Floor
  <2>4. RingInv'
    BY <2>1, <2>2, <2>3 DEF RingInv, RingType, ShownIsSender
  <2>5. Turn' = Turn
    BY <2>1, <2>2 DEF Turn
  <2> QED
    BY <2>1, <2>4, <2>5
<1>4. ASSUME NEW p \in Procs, prog # "none", Send(p)
      PROVE  RingInv' /\ [T!Speak]_<<NumProcs(prog), Turn>>
  <2>0. PICK u : u = (t % NumProcs(prog)) + 1
    OBVIOUS
  <2>1. RingInv' /\ Floor(u)' /\ prog' = prog
    BY <1>1, <1>4, <2>0, SendRing
  <2>3. Turn' = u
    BY <1>2, <2>1, TurnOfNext
  <2>4. T!Speak
    BY <1>2, <2>0, <2>1, <2>3 DEF T!Speak
  <2> QED
    BY <2>1, <2>4
<1>5. ASSUME NEW p \in Procs, Receive(p) \/ get_queue_ds(p)
      PROVE  RingInv' /\ [T!Speak]_<<NumProcs(prog), Turn>>
  <2>1. RingInv' /\ Floor(t)' /\ prog' = prog
    BY <1>1, <1>5, LookRing
  <2>2. Turn' = t
    BY <1>2, <2>1, TurnOfNext
  <2> QED
    BY <1>2, <2>1, <2>2
<1>6. NextRing => \E p \in Procs : \/ prog # "none" /\ Send(p)
                                   \/ Receive(p) \/ get_queue_ds(p)
  <2>1. CASE prog = "q4"
    <3>1. Procs = {1, 2, 3, 4}
      BY <2>1 DEF Procs, NumProcs
    <3> QED
      BY <2>1, <3>1 DEF NextRing, q2_p2p_p1, q2_p2p_p2, q3_all_info_p1, q3_all_info_p2,
                        q4_p1, q4_p2, q4_p3, q4_p4
  <2>2. CASE prog \in {"q2", "q3"}
    <3>1. Procs = {1, 2}
      BY <2>2 DEF Procs, NumProcs
    <3> QED
      BY <2>2, <3>1 DEF NextRing, q2_p2p_p1, q2_p2p_p2, q3_all_info_p1, q3_all_info_p2,
                        q4_p1, q4_p2, q4_p3, q4_p4
  <2>3. CASE prog \notin {"q2", "q3", "q4"}
    BY <2>3 DEF NextRing, q2_p2p_p1, q2_p2p_p2, q3_all_info_p1, q3_all_info_p2,
                q4_p1, q4_p2, q4_p3, q4_p4
  <2> QED
    BY <2>1, <2>2, <2>3
<1> QED
  BY <1>3, <1>4, <1>5, <1>6
-----------------------------------------------------------------------------
(* Hamming: the powers of two. *)

LEMMA Pow2Is ==
  /\ Pow2 \in [Nat -> Nat] /\ Pow2[0] = 1
  /\ \A n \in Nat : Pow2[n + 1] = 2 * Pow2[n]
<1> DEFINE Iter == [n \in Nat |-> [x \in Nat |-> 2 * x]]
           Is(g) == g = [n \in Nat |-> IF n = 0 THEN 1 ELSE 2 * g[n - 1]]
<1>1. PICK g \in [Nat -> Nat] : Unending(g, 1, Iter)
  <2>1. Iter \in [Nat -> [Nat -> Nat]] /\ 1 \in Nat
    OBVIOUS
  <2> HIDE DEF Iter
  <2> QED
    BY <2>1, RecursionOnNat
<1>g. g[0] = 1 /\ \A n \in Nat : g[n + 1] = 2 * g[n]
  BY <1>1 DEF Unending
<1>2. Is(g)
  <2>1. \A n \in Nat : g[n] = IF n = 0 THEN 1 ELSE 2 * g[n - 1]
    <3> TAKE n \in Nat
    <3>1. CASE n = 0
      BY <1>g, <3>1
    <3>2. CASE n # 0
      <4>1. n - 1 \in Nat /\ (n - 1) + 1 = n
        BY <3>2
      <4> QED
        BY <1>g, <3>2, <4>1
    <3> QED
      BY <3>1, <3>2
  <2> QED
    BY <1>1, <2>1
<1>3. Pow2 = CHOOSE f : Is(f)
  BY DEF Pow2
<1>4. Is(Pow2)
  <2> HIDE DEF Is
  <2> QED
    BY <1>2, <1>3
<1> HIDE DEF Iter
<1>5. \A n \in Nat : Pow2[n] = IF n = 0 THEN 1 ELSE 2 * Pow2[n - 1]
  BY <1>4
<1>6. \A n \in Nat : Pow2[n + 1] = 2 * Pow2[n]
  <2> TAKE n \in Nat
  <2>1. n + 1 \in Nat /\ n + 1 # 0 /\ (n + 1) - 1 = n
    OBVIOUS
  <2> QED
    BY <1>5, <2>1
<1>7. \A n \in Nat : Pow2[n] \in Nat
  <2> DEFINE P == {n \in Nat : Pow2[n] \in Nat}
  <2>1. 0 \in P /\ \A n \in Nat : n \in P => n + 1 \in P
    BY <1>5, <1>6
  <2>2. Nat \subseteq P
    <3> HIDE DEF P
    <3> QED
      BY <2>1, NatSet
  <2> QED
    BY <2>2
<1>8. Pow2 \in [Nat -> Nat]
  BY <1>4, <1>7
<1> QED
  BY <1>5, <1>6, <1>8

LEMMA Pow2Large == \A n \in Nat : Pow2[n] \in Nat /\ Pow2[n] > n
<1> DEFINE P == {n \in Nat : Pow2[n] > n}
<1>1. 0 \in P /\ \A n \in Nat : n \in P => n + 1 \in P
  BY Pow2Is
<1>2. Nat \subseteq P
  <2> HIDE DEF P
  <2> QED
    BY <1>1, NatSet
<1> QED
  BY <1>2, Pow2Is

LEMMA Pow2Sum ==
  ASSUME NEW n \in Nat, NEW k \in Nat
  PROVE  Pow2[n + k] = Pow2[n] * Pow2[k]
<1> DEFINE P == {i \in Nat : Pow2[n + i] = Pow2[n] * Pow2[i]}
<1>1. 0 \in P
  BY Pow2Is
<1>2. ASSUME NEW i \in Nat, i \in P PROVE i + 1 \in P
  <2>1. Pow2[n] \in Nat /\ Pow2[i] \in Nat /\ Pow2[n + i] \in Nat /\ n + i \in Nat
    BY Pow2Is
  <2>2. Pow2[i + 1] = 2 * Pow2[i] /\ Pow2[(n + i) + 1] = 2 * Pow2[n + i]
    BY Pow2Is, <2>1
  <2>3. (n + i) + 1 = n + (i + 1)
    OBVIOUS
  <2>4. \A a, b \in Nat : 2 * (a * b) = a * (2 * b)
    OBVIOUS
  <2> QED
    BY <1>2, <2>1, <2>2, <2>3, <2>4
<1>3. Nat \subseteq P
  <2> HIDE DEF P
  <2> QED
    BY <1>1, <1>2, NatSet
<1> QED
  BY <1>3

\* A power is a multiple of twice each smaller one.
LEMMA Pow2Above ==
  ASSUME NEW n \in Nat, NEW m \in Nat, n < m
  PROVE  \E x \in Nat : x >= 1 /\ Pow2[m] = Pow2[n] * (2 * x)
<1>1. PICK k \in Nat : m = n + (k + 1) /\ k + 1 \in Nat
  <2>1. m - n - 1 \in Nat /\ m = n + ((m - n - 1) + 1)
    OBVIOUS
  <2> QED
    BY <2>1
<1>2. Pow2[n + (k + 1)] = Pow2[n] * Pow2[k + 1]
  BY <1>1, Pow2Sum
<1>3. Pow2[k + 1] = 2 * Pow2[k]
  BY Pow2Is
<1>4. Pow2[k] \in Nat /\ Pow2[k] >= 1
  BY Pow2Large
<1> QED
  BY <1>1, <1>2, <1>3, <1>4, Zenon

LEMMA Pow2Less ==
  ASSUME NEW n \in Nat, NEW m \in Nat, n < m
  PROVE  2 * Pow2[n] <= Pow2[m] /\ Pow2[n] < Pow2[m]
<1>1. PICK x \in Nat : x >= 1 /\ Pow2[m] = Pow2[n] * (2 * x)
  BY Pow2Above
<1>2. PICK b \in Nat : b = Pow2[n] /\ b >= 1
  BY Pow2Large
<1>3. \A y, z \in Nat : z >= 1 => 2 * y <= y * (2 * z)
  OBVIOUS
<1>4. 2 * b <= Pow2[m] /\ Pow2[m] \in Nat
  BY <1>1, <1>2, <1>3, Pow2Large
<1> QED
  BY <1>2, <1>4

\* p has the bit 2^i.
Covers(p, i) == (p \div Pow2[i]) % 2 = 1

LEMMA PowerIn ==
  ASSUME NEW i \in Nat, NEW j \in Nat
  PROVE  Covers(Pow2[i], j) <=> i = j
<1>t. PICK a, b \in Nat : a = Pow2[i] /\ b = Pow2[j] /\ a > 0 /\ b > 0
  <2>1. \A n \in Nat : Pow2[n] \in Nat /\ Pow2[n] > 0
    BY Pow2Large
  <2> QED
    BY <2>1
<1>0. PICK dg \in Nat : dg = a \div b /\ (Covers(Pow2[i], j) <=> dg % 2 = 1)
  BY <1>t DEF Covers
<1>1. CASE i < j
  <2>1. a < b
    BY <1>1, <1>t, Pow2Less
  <2>2. dg = 0
    BY <1>0, <2>1
  <2> QED
    BY <1>0, <1>1, <2>2
<1>2. CASE i = j
  <2>2. dg = 1
    BY <1>0, <1>t, <1>2
  <2> QED
    BY <1>0, <1>2, <2>2
<1>3. CASE j < i
  <2>1. PICK x \in Nat : a = b * (2 * x)
    BY <1>t, <1>3, Pow2Above
  <2>2. dg = 2 * x
    BY <1>0, <1>t, <2>1
  <2>3. (2 * x) % 2 = 0
    OBVIOUS
  <2> QED
    BY <1>0, <1>3, <2>2, <2>3
<1> QED
  BY <1>1, <1>2, <1>3

\* What p is, up to the bit i.
LEMMA LowBits ==
  ASSUME NEW p \in Nat, NEW i \in Nat
  PROVE  /\ p % Pow2[i + 1] = (p % Pow2[i]) + (IF Covers(p, i) THEN Pow2[i] ELSE 0)
         /\ p % Pow2[0] = 0
         /\ p < Pow2[i] => p % Pow2[i] = p /\ ~Covers(p, i)
<1> DEFINE b == Pow2[i]
<1>1. b \in Nat /\ b > 0 /\ Pow2[i + 1] = 2 * b /\ Pow2[0] = 1
  <2>1. Pow2[i] \in Nat /\ Pow2[i] > 0
    BY Pow2Large
  <2> QED
    BY <2>1, Pow2Is
<1>2. Covers(p, i) <=> (p \div b) % 2 = 1
  BY DEF Covers
<1> HIDE DEF b
<1>3. PICK q, r \in Nat : p = q * b + r /\ r < b /\ p \div b = q /\ p % b = r
  BY <1>1
<1>4. PICK s, t \in Nat : q = 2 * s + t /\ t < 2 /\ q % 2 = t
  <2>1. q = 2 * (q \div 2) + (q % 2) /\ q \div 2 \in Nat /\ q % 2 \in Nat /\ q % 2 < 2
    OBVIOUS
  <2> QED
    BY <2>1
<1>5. p = s * (2 * b) + (t * b + r) /\ t * b + r < 2 * b /\ t * b + r \in Nat
  <2>1. \A x, y, z : x \in Nat /\ y \in Nat /\ z \in Nat => (2 * x + y) * z = x * (2 * z) + y * z
    OBVIOUS
  <2>2. t * b = IF t = 1 THEN b ELSE 0
    BY <1>1, <1>4
  <2> QED
    BY <1>1, <1>3, <1>4, <2>1, <2>2
<1>6. p % (2 * b) = t * b + r
  <2>1. \A x, y, z \in Nat : z < y => (x * y + z) % y = z
    OBVIOUS
  <2> QED
    BY <1>1, <1>5, <2>1
<1>7. t * b = IF Covers(p, i) THEN b ELSE 0
  BY <1>1, <1>2, <1>3, <1>4
<1>8. p < b => p % b = p /\ ~Covers(p, i)
  <2>1. p < b => p \div b = 0 /\ p % b = p
    BY <1>1
  <2> QED
    BY <1>2, <2>1
<1>9. p % 1 = 0
  OBVIOUS
<1>10. p % (2 * b) = (p % b) + (IF Covers(p, i) THEN b ELSE 0)
  BY <1>1, <1>3, <1>6, <1>7
<1> QED
  BY <1>1, <1>8, <1>9, <1>10 DEF b

(* The words and their parities. *)

Words(n) == [1..n -> Bit]

LEMMA WordLen ==
  ASSUME NEW n \in Nat, NEW w \in Words(n)
  PROVE  Len(w) = n
BY DEF Words

LEMMA SameWord ==
  ASSUME NEW n \in Nat, NEW v \in Words(n), NEW w \in Words(n), \A p \in 1..n : v[p] = w[p]
  PROVE  v = w
BY DEF Words

Ones(w, n, i) == {p \in 1..n : Covers(p, i) /\ w[p] = 1}
Parity(w, n, i) == Cardinality(Ones(w, n, i)) % 2

LEMMA ParityIs ==
  ASSUME NEW n \in Nat, NEW w \in Words(n), NEW i \in Nat
  PROVE  get_parity_bit(find_positions(Pow2[i], Len(w)), w) = Parity(w, n, i)
<1>1. Len(w) = n
  BY WordLen
<1>2. {p \in find_positions(Pow2[i], n) : w[p] = 1} = Ones(w, n, i)
  BY DEF find_positions, Ones, Covers
<1> QED
  BY <1>1, <1>2 DEF get_parity_bit, Parity

LEMMA OneMore ==
  ASSUME NEW S, IsFiniteSet(S), NEW x, x \notin S
  PROVE  /\ Cardinality(S) % 2 \in {0, 1}
         /\ Cardinality(S \cup {x}) % 2 = 1 - (Cardinality(S) % 2)
<1>1. PICK k \in Nat : k = Cardinality(S) /\ Cardinality(S \cup {x}) = k + 1
  BY FS_CardinalityType, FS_AddElement
<1>2. k % 2 \in {0, 1} /\ (k + 1) % 2 = 1 - (k % 2)
  OBVIOUS
<1> QED
  BY <1>1, <1>2

LEMMA OnesFinite ==
  ASSUME NEW n \in Nat, NEW w, NEW i
  PROVE  IsFiniteSet(Ones(w, n, i)) /\ Parity(w, n, i) \in {0, 1}
<1>1. IsFiniteSet(1..n)
  BY FS_Interval
<1>2. IsFiniteSet(Ones(w, n, i))
  BY <1>1, FS_Subset DEF Ones
<1>3. PICK k \in Nat : k = Cardinality(Ones(w, n, i))
  BY <1>2, FS_CardinalityType
<1>4. k % 2 \in {0, 1}
  OBVIOUS
<1> QED
  BY <1>2, <1>3, <1>4 DEF Parity

Flipped(w, p) == [w EXCEPT ![p] = 1 - w[p]]

\* Changing a bit changes the parities that cover it and no other.
LEMMA FlipParity ==
  ASSUME NEW n \in Nat, NEW w \in Words(n), NEW p \in 1..n, NEW i \in Nat,
         NEW v, v = Flipped(w, p)
  PROVE  /\ v \in Words(n)
         /\ Covers(p, i) => Parity(v, n, i) = 1 - Parity(w, n, i)
         /\ ~Covers(p, i) => Parity(v, n, i) = Parity(w, n, i)
<1>1. /\ v \in Words(n) /\ v[p] = 1 - w[p] /\ w[p] \in {0, 1}
      /\ \A q \in 1..n : q # p => v[q] = w[q]
  BY DEF Words, Bit, Flipped
<1>2. ~Covers(p, i) => Ones(v, n, i) = Ones(w, n, i)
  BY <1>1 DEF Ones
<1>3. ASSUME Covers(p, i), w[p] = 0 PROVE Parity(v, n, i) = 1 - Parity(w, n, i)
  <2>1. PICK S, Ts : S = Ones(w, n, i) /\ Ts = Ones(v, n, i) /\ IsFiniteSet(S)
    BY OnesFinite
  <2>2. p \notin S /\ Ts = S \cup {p}
    BY <1>1, <1>3, <2>1 DEF Ones
  <2>3. Cardinality(Ts) % 2 = 1 - (Cardinality(S) % 2)
    BY <2>1, <2>2, OneMore
  <2> QED
    BY <2>1, <2>3 DEF Parity
<1>4. ASSUME Covers(p, i), w[p] = 1 PROVE Parity(v, n, i) = 1 - Parity(w, n, i)
  <2>1. PICK S, Ts : S = Ones(w, n, i) /\ Ts = Ones(v, n, i) /\ IsFiniteSet(Ts)
    BY OnesFinite
  <2>2. p \notin Ts /\ S = Ts \cup {p}
    BY <1>1, <1>4, <2>1 DEF Ones
  <2>3. Cardinality(S) % 2 = 1 - (Cardinality(Ts) % 2) /\ Cardinality(Ts) % 2 \in {0, 1}
    BY <2>1, <2>2, OneMore
  <2>4. Parity(w, n, i) = 1 - Parity(v, n, i) /\ Parity(v, n, i) \in {0, 1}
    BY <2>1, <2>3 DEF Parity
  <2> QED
    BY <2>4
<1> QED
  BY <1>1, <1>2, <1>3, <1>4 DEF Parity

\* A parity bit that is 0 is filled: its parity is even and no other changes.
LEMMA FillOne ==
  ASSUME NEW n \in Nat, NEW w \in Words(n), NEW i \in Nat
  PROVE  /\ Fill(w, i) \in Words(n)
         /\ \A p \in 1..n : p # Pow2[i] => Fill(w, i)[p] = w[p]
         /\ Pow2[i] \in 1..n /\ w[Pow2[i]] = 0 =>
              /\ Parity(Fill(w, i), n, i) = 0
              /\ \A j \in Nat : j # i => Parity(Fill(w, i), n, j) = Parity(w, n, j)
<1>1. PICK b : b = Pow2[i]
  OBVIOUS
<1>2. Fill(w, i) = [w EXCEPT ![b] = Parity(w, n, i)]
  BY <1>1, ParityIs DEF Fill
<1>3. PICK x \in {0, 1} : x = Parity(w, n, i)
  BY OnesFinite
<1>4. PICK v : v = [w EXCEPT ![b] = x] /\ v = Fill(w, i)
  BY <1>2, <1>3
<1>5. v \in Words(n) /\ \A p \in 1..n : p # b => v[p] = w[p]
  BY <1>4 DEF Words, Bit
<1>6. ASSUME b \in 1..n, w[b] = 0
      PROVE  Parity(v, n, i) = 0 /\ \A j \in Nat : j # i => Parity(v, n, j) = Parity(w, n, j)
  <2>1. CASE x = 0
    <3>1. v = w
      BY <1>4, <1>6, <2>1 DEF Words
    <3> QED
      BY <1>3, <2>1, <3>1
  <2>2. CASE x = 1
    <3>1. v = Flipped(w, b)
      BY <1>4, <1>6, <2>2 DEF Flipped
    <3>2. \A j \in Nat : Covers(b, j) <=> i = j
      BY <1>1, PowerIn
    <3>3. ASSUME NEW j \in Nat
          PROVE  /\ Covers(b, j) => Parity(v, n, j) = 1 - Parity(w, n, j)
                 /\ ~Covers(b, j) => Parity(v, n, j) = Parity(w, n, j)
      <4>1. b \in 1..n
        BY <1>6
      <4> QED
        BY <3>1, <4>1, FlipParity
    <3>4. Parity(v, n, i) = 0
      <4>1. Covers(b, i)
        BY <3>2
      <4>2. Parity(v, n, i) = 1 - 1
        BY <1>3, <2>2, <3>3, <4>1
      <4> QED
        BY <4>2
    <3>5. \A j \in Nat : j # i => Parity(v, n, j) = Parity(w, n, j)
      BY <3>2, <3>3
    <3> QED
      BY <3>4, <3>5
  <2> QED
    BY <2>1, <2>2
<1> QED
  BY <1>1, <1>4, <1>5, <1>6

LEMMA PowersAre ==
  /\ \A i \in Nat : PowerOfTwo(Pow2[i])
  /\ \A i, j \in Nat : i # j => Pow2[i] # Pow2[j]
<1>1. \A i \in Nat : i \in 0..Pow2[i]
  <2>1. \A i \in Nat : Pow2[i] \in Nat /\ Pow2[i] > i
    BY Pow2Large
  <2> QED
    BY <2>1
<1>2. ASSUME NEW i \in Nat, NEW j \in Nat, i # j PROVE Pow2[i] # Pow2[j]
  <2>1. Covers(Pow2[i], i) /\ ~Covers(Pow2[i], j) /\ Covers(Pow2[j], j)
    BY <1>2, PowerIn
  <2> QED
    BY <2>1
<1> QED
  BY <1>1, <1>2 DEF PowerOfTwo

\* The loop of process_string.
LEMMA FillLoop ==
  ASSUME NEW n \in Nat, NEW w \in Words(n), NEW r \in Nat
  PROVE  \E f : /\ f[0] = w /\ process_string(w, r) = f[r]
                /\ \A i \in 0..(r - 1) : f[i + 1] = Fill(f[i], i)
<1> DEFINE Iter == [i \in Nat |-> [x \in Words(n) |-> Fill(x, i)]]
           Is(g) == g = [i \in 0..r |-> IF i = 0 THEN w ELSE Fill(g[i - 1], i - 1)]
<1>1. PICK g \in [0..r -> Words(n)] : Recursion(g, r, w, Iter)
  <2>1. Iter \in [Nat -> [Words(n) -> Words(n)]]
    BY FillOne
  <2> HIDE DEF Iter
  <2> QED
    BY <2>1, Recursions
<1>d. \A i \in Nat, x \in Words(n) : Iter[i][x] = Fill(x, i)
  OBVIOUS
<1>2. g[0] = w /\ \A i \in 0..(r - 1) : g[i + 1] = Fill(g[i], i)
  <2> HIDE DEF Iter
  <2>1. \A i \in 0..(r - 1) : g[i] \in Words(n) /\ i \in Nat
    OBVIOUS
  <2> QED
    BY <1>1, <1>d, <2>1 DEF Recursion
<1>3. Is(g)
  <2>1. ASSUME NEW i \in 0..r
        PROVE  g[i] = IF i = 0 THEN w ELSE Fill(g[i - 1], i - 1)
    <3>1. CASE i = 0
      BY <1>2, <3>1
    <3>2. CASE i # 0
      <4>1. i - 1 \in 0..(r - 1) /\ (i - 1) + 1 = i
        BY <3>2
      <4> QED
        BY <1>2, <3>2, <4>1
    <3> QED
      BY <3>1, <3>2
  <2> QED
    BY <2>1
<1> DEFINE f == CHOOSE h : Is(h)
<1>4. process_string(w, r) = f[r]
  BY DEF process_string
<1>5. Is(f)
  <2> HIDE DEF Is
  <2> QED
    BY <1>3
<1> HIDE DEF f, Iter
<1>6. \A i \in 0..r : f[i] = IF i = 0 THEN w ELSE Fill(f[i - 1], i - 1)
  BY <1>5
<1>7. f[0] = w /\ \A i \in 0..(r - 1) : f[i + 1] = Fill(f[i], i)
  <2>1. f[0] = w
    BY <1>6
  <2>2. ASSUME NEW i \in 0..(r - 1) PROVE f[i + 1] = Fill(f[i], i)
    <3>1. i + 1 \in 0..r /\ i + 1 # 0 /\ (i + 1) - 1 = i
      OBVIOUS
    <3> QED
      BY <1>6, <3>1
  <2> QED
    BY <2>1, <2>2
<1> QED
  BY <1>4, <1>7

\* After it every parity is even, and the data are where they were.
LEMMA FillAll ==
  ASSUME NEW n \in Nat, NEW w \in Words(n), NEW r \in Nat,
         \A i \in 0..(r - 1) : Pow2[i] \in 1..n /\ w[Pow2[i]] = 0
  PROVE  /\ process_string(w, r) \in Words(n)
         /\ \A i \in 0..(r - 1) : Parity(process_string(w, r), n, i) = 0
         /\ \A p \in 1..n : ~PowerOfTwo(p) => process_string(w, r)[p] = w[p]
<1>1. PICK f : /\ f[0] = w /\ process_string(w, r) = f[r]
               /\ \A i \in 0..(r - 1) : f[i + 1] = Fill(f[i], i)
  BY FillLoop, SMTT(30)
<1> DEFINE Filled(x, k) ==
             /\ x \in Words(n) /\ \A i \in 0..(k - 1) : Parity(x, n, i) = 0
             /\ \A i \in k..(r - 1) : x[Pow2[i]] = 0
             /\ \A p \in 1..n : ~PowerOfTwo(p) => x[p] = w[p]
           P == {k \in Nat : k <= r => Filled(f[k], k)}
<1>2. 0 \in P
  BY <1>1
<1>3. ASSUME NEW k \in Nat, k \in P PROVE k + 1 \in P
  <2> SUFFICES ASSUME k + 1 <= r PROVE Filled(f[k + 1], k + 1)
    OBVIOUS
  <2>1. PICK x, y : x = f[k] /\ y = f[k + 1] /\ y = Fill(x, k) /\ Filled(x, k)
    BY <1>1, <1>3
  <2>2. Pow2[k] \in 1..n /\ x[Pow2[k]] = 0 /\ x \in Words(n)
    BY <2>1
  <2>3. /\ y \in Words(n) /\ \A p \in 1..n : p # Pow2[k] => y[p] = x[p]
        /\ Parity(y, n, k) = 0 /\ \A j \in Nat : j # k => Parity(y, n, j) = Parity(x, n, j)
    <3>1. /\ Fill(x, k) \in Words(n)
          /\ \A p \in 1..n : p # Pow2[k] => Fill(x, k)[p] = x[p]
          /\ Pow2[k] \in 1..n /\ x[Pow2[k]] = 0 =>
               /\ Parity(Fill(x, k), n, k) = 0
               /\ \A j \in Nat : j # k => Parity(Fill(x, k), n, j) = Parity(x, n, j)
      BY <2>2, FillOne
    <3>2. y = Fill(x, k)
      BY <2>1
    <3> QED
      BY <2>2, <3>1, <3>2
  <2>4. \A i \in 0..k : Parity(y, n, i) = 0
    <3>1. \A i \in 0..k : i = k \/ (i # k /\ i \in Nat /\ i \in 0..(k - 1))
      OBVIOUS
    <3> QED
      BY <2>1, <2>3, <3>1
  <2>5. \A i \in (k + 1)..(r - 1) : y[Pow2[i]] = 0
    <3>1. \A i \in (k + 1)..(r - 1) : i # k /\ i \in Nat /\ i \in k..(r - 1) /\ i \in 0..(r - 1)
      OBVIOUS
    <3> QED
      BY <2>1, <2>3, <3>1, PowersAre
  <2>6. \A p \in 1..n : ~PowerOfTwo(p) => y[p] = w[p]
    BY <2>1, <2>3, PowersAre
  <2> QED
    BY <2>1, <2>3, <2>4, <2>5, <2>6
<1>4. Nat \subseteq P
  <2> HIDE DEF P
  <2> QED
    BY <1>2, <1>3, NatSet
<1>5. Filled(f[r], r)
  BY <1>4
<1> QED
  BY <1>1, <1>5

\* The loop of correction.
LEMMA CorrectionLoop ==
  ASSUME NEW n \in Nat, NEW w \in Words(n), NEW r \in Nat
  PROVE  \E f : /\ f[0] = 0 /\ correction(w, r) = f[r]
                /\ \A i \in 0..(r - 1) :
                     f[i + 1] = f[i] + IF Parity(w, n, i) = 1 THEN Pow2[i] ELSE 0
<1> DEFINE Add(i) == IF Parity(w, n, i) = 1 THEN Pow2[i] ELSE 0
           Bits(i) == get_parity_bit(find_positions(Pow2[i], Len(w)), w)
           Iter == [i \in Nat |-> [x \in Nat |-> x + Add(i)]]
           Is(g) == g = [i \in 0..r |->
                           IF i = 0 THEN 0
                           ELSE g[i - 1] + IF Bits(i - 1) = 1 THEN Pow2[i - 1] ELSE 0]
<1>b. \A i \in Nat : Bits(i) = Parity(w, n, i)
  BY ParityIs
<1>a. \A i \in Nat : Add(i) \in Nat /\ Add(i) = IF Bits(i) = 1 THEN Pow2[i] ELSE 0
  BY <1>b, Pow2Is
<1>1. PICK g \in [0..r -> Nat] : Recursion(g, r, 0, Iter)
  <2>1. Iter \in [Nat -> [Nat -> Nat]] /\ 0 \in Nat
    <3>1. ASSUME NEW i \in Nat, NEW x \in Nat PROVE x + Add(i) \in Nat
      <4>1. Add(i) \in Nat
        BY <1>a
      <4> HIDE DEF Add
      <4> QED
        BY <4>1
    <3> HIDE DEF Add
    <3> QED
      BY <3>1
  <2> HIDE DEF Iter
  <2> QED
    BY <2>1, Recursions
<1>d. \A i \in Nat, x \in Nat : Iter[i][x] = x + Add(i)
  <2> HIDE DEF Add
  <2> QED
    OBVIOUS
<1>2. g[0] = 0 /\ \A i \in 0..(r - 1) : g[i + 1] = g[i] + Add(i)
  <2> HIDE DEF Iter, Add
  <2>1. \A i \in 0..(r - 1) : g[i] \in Nat /\ i \in Nat
    OBVIOUS
  <2> QED
    BY <1>1, <1>d, <2>1 DEF Recursion
<1> HIDE DEF Iter, Bits, Add
<1>3. Is(g)
  <2>1. ASSUME NEW i \in 0..r
        PROVE  g[i] = IF i = 0 THEN 0
                      ELSE g[i - 1] + IF Bits(i - 1) = 1 THEN Pow2[i - 1] ELSE 0
    <3>1. CASE i = 0
      BY <1>2, <3>1
    <3>2. CASE i # 0
      <4>1. i - 1 \in 0..(r - 1) /\ (i - 1) + 1 = i /\ i - 1 \in Nat
        BY <3>2
      <4>2. g[i] = g[i - 1] + Add(i - 1)
        BY <1>2, <4>1
      <4>3. Add(i - 1) = IF Bits(i - 1) = 1 THEN Pow2[i - 1] ELSE 0
        BY <1>a, <4>1
      <4> QED
        BY <3>2, <4>2, <4>3
    <3> QED
      BY <3>1, <3>2
  <2> QED
    BY <2>1
<1> DEFINE f == CHOOSE h : Is(h)
<1>4. correction(w, r) = f[r]
  BY DEF correction, Bits
<1>5. Is(f)
  <2> HIDE DEF Is
  <2> QED
    BY <1>3
<1> HIDE DEF f
<1>6. \A i \in 0..r : f[i] = IF i = 0 THEN 0
                             ELSE f[i - 1] + IF Bits(i - 1) = 1 THEN Pow2[i - 1] ELSE 0
  BY <1>5
<1>7. ASSUME NEW i \in 0..(r - 1)
      PROVE  f[i + 1] = f[i] + IF Parity(w, n, i) = 1 THEN Pow2[i] ELSE 0
  <2>1. i + 1 \in 0..r /\ i + 1 # 0 /\ (i + 1) - 1 = i /\ i \in Nat
    OBVIOUS
  <2>2. f[i + 1] = f[i] + IF Bits(i) = 1 THEN Pow2[i] ELSE 0
    BY <1>6, <2>1
  <2> QED
    BY <1>b, <2>1, <2>2
<1>8. f[0] = 0
  BY <1>6
<1> QED
  BY <1>4, <1>7, <1>8

\* It points at p if exactly the parities that cover p are odd.
LEMMA CorrectionIs ==
  ASSUME NEW n \in Nat, NEW w \in Words(n), NEW r \in Nat
  PROVE  /\ correction(w, r) \in Nat /\ correction(w, r) < Pow2[r]
         /\ \A p \in Nat : (\A i \in 0..(r - 1) : Parity(w, n, i) = 1 <=> Covers(p, i)) =>
                             correction(w, r) = p % Pow2[r]
<1>1. PICK f : /\ f[0] = 0 /\ correction(w, r) = f[r]
               /\ \A i \in 0..(r - 1) :
                    f[i + 1] = f[i] + IF Parity(w, n, i) = 1 THEN Pow2[i] ELSE 0
  BY CorrectionLoop
<1>2. f[r] \in Nat /\ f[r] < Pow2[r]
  <2> DEFINE P == {k \in Nat : k <= r => f[k] \in Nat /\ f[k] < Pow2[k]}
  <2>1. 0 \in P
    BY <1>1, Pow2Is
  <2>2. ASSUME NEW k \in Nat, k \in P PROVE k + 1 \in P
    <3> SUFFICES ASSUME k + 1 <= r PROVE f[k + 1] \in Nat /\ f[k + 1] < Pow2[k + 1]
      OBVIOUS
    <3>1. f[k] \in Nat /\ f[k] < Pow2[k]
      BY <2>2
    <3>2. Pow2[k] \in Nat /\ Pow2[k + 1] = 2 * Pow2[k]
      BY Pow2Is
    <3>3. f[k + 1] = f[k] + Pow2[k] \/ f[k + 1] = f[k] + 0
      BY <1>1
    <3> QED
      BY <3>1, <3>2, <3>3
  <2>3. Nat \subseteq P
    <3> HIDE DEF P
    <3> QED
      BY <2>1, <2>2, NatSet
  <2> QED
    BY <2>3
<1>3. ASSUME NEW p \in Nat, \A i \in 0..(r - 1) : Parity(w, n, i) = 1 <=> Covers(p, i)
      PROVE  f[r] = p % Pow2[r]
  <2> DEFINE P == {k \in Nat : k <= r => f[k] = p % Pow2[k]}
  <2>1. 0 \in P
    BY <1>1, LowBits
  <2>2. ASSUME NEW k \in Nat, k \in P PROVE k + 1 \in P
    <3> SUFFICES ASSUME k + 1 <= r PROVE f[k + 1] = p % Pow2[k + 1]
      OBVIOUS
    <3>1. f[k] = p % Pow2[k]
      BY <2>2
    <3>2. p % Pow2[k + 1] = (p % Pow2[k]) + (IF Covers(p, k) THEN Pow2[k] ELSE 0)
      BY LowBits
    <3>3. f[k + 1] = f[k] + IF Parity(w, n, k) = 1 THEN Pow2[k] ELSE 0
      BY <1>1
    <3>4. Parity(w, n, k) = 1 <=> Covers(p, k)
      BY <1>3
    <3> QED
      BY <3>1, <3>2, <3>3, <3>4
  <2>3. Nat \subseteq P
    <3> HIDE DEF P
    <3> QED
      BY <2>1, <2>2, NatSet
  <2> QED
    BY <2>3
<1> QED
  BY <1>1, <1>2, <1>3

(* The lengths. *)

LEMMA RedunIs ==
  ASSUME NEW n \in Nat, NEW r \in Nat \ {0}, Pow2[r] >= n, Pow2[r - 1] < n
  PROVE  find_redun_len(n) = r
<1> DEFINE S == {x \in 0..n : Pow2[x] >= n}
<1>1. r \in S
  <2>1. Pow2[r - 1] > r - 1 /\ Pow2[r - 1] \in Nat
    BY Pow2Large
  <2> QED
    BY <2>1
<1>2. \A x \in S : r <= x
  <2> SUFFICES ASSUME NEW x \in S, x < r PROVE FALSE
    OBVIOUS
  <2>1. x = r - 1 \/ x < r - 1
    OBVIOUS
  <2>2. Pow2[x] <= Pow2[r - 1] /\ Pow2[x] \in Nat /\ Pow2[r - 1] \in Nat
    <3>1. Pow2[x] \in Nat /\ Pow2[r - 1] \in Nat
      BY Pow2Large
    <3>2. x < r - 1 => Pow2[x] < Pow2[r - 1]
      BY Pow2Less
    <3> QED
      BY <2>1, <3>1, <3>2
  <2> QED
    BY <2>2
<1>3. find_redun_len(n) = Min(S)
  BY DEF find_redun_len
<1>4. S \subseteq Nat
  OBVIOUS
<1> HIDE DEF S
<1>5. Min(S) \in S /\ \A y \in S : Min(S) <= y
  BY <1>1, <1>4, MinIsLeast
<1>6. Min(S) <= r /\ r <= Min(S) /\ Min(S) \in Nat
  BY <1>1, <1>2, <1>4, <1>5
<1> QED
  BY <1>3, <1>6

LEMMA Lengths ==
  ASSUME NEW size \in Nat \ {0}
  PROVE  \E r \in Nat \ {0} :
           /\ find_length(size) = size + r /\ find_redun_len(size + r) = r
           /\ Pow2[r] > size + r /\ Pow2[r - 1] < size + r
<1> DEFINE S == {x \in 0..(size + 1) : Pow2[x] >= size + x + 1}
<1>1. size + 1 \in S
  <2>1. Pow2[size] > size /\ Pow2[size] \in Nat /\ Pow2[size + 1] = 2 * Pow2[size]
    BY Pow2Large, Pow2Is
  <2> QED
    BY <2>1
<1>2. find_length(size) = size + Min(S)
  BY DEF find_length
<1>3. S \subseteq Nat
  OBVIOUS
<1>4. PICK r \in S : r = Min(S) /\ \A y \in S : r <= y
  <2> HIDE DEF S
  <2> QED
    BY <1>1, <1>3, MinIsLeast
<1>5. r # 0 /\ r \in Nat
  BY Pow2Is
<1>6. Pow2[r] > size + r
  BY Pow2Is
<1>7. Pow2[r - 1] < size + r
  <2>1. r - 1 \notin S
    BY <1>4, <1>5
  <2>2. r - 1 \in 0..(size + 1)
    BY <1>5
  <2>3. ~(Pow2[r - 1] >= size + (r - 1) + 1)
    BY <2>1, <2>2
  <2>4. Pow2[r - 1] \in Nat
    BY <2>2, Pow2Is
  <2> QED
    BY <1>5, <2>3, <2>4
<1>8. find_redun_len(size + r) = r
  <2>1. size + r \in Nat /\ r \in Nat \ {0} /\ Pow2[r] >= size + r
    BY <1>5, <1>6, Pow2Is
  <2> QED
    BY <1>7, <2>1, RedunIs
<1> QED
  BY <1>2, <1>4, <1>5, <1>6, <1>7, <1>8

(* The positions of the data. *)

Data(n) == {q \in 1..n : ~PowerOfTwo(q)}

\* A word has r powers of two among its n positions: the others are the data's.
LEMMA PowersUpTo ==
  ASSUME NEW n \in Nat, NEW r \in Nat \ {0}, Pow2[r] > n, Pow2[r - 1] < n
  PROVE  /\ \A i \in 0..(r - 1) : Pow2[i] \in 1..n
         /\ \A p \in 1..n, i \in Nat : i >= r => ~Covers(p, i) /\ p % Pow2[i] = p
         /\ IsFiniteSet(Data(n)) /\ Cardinality(Data(n)) = n - r
<1>1. ASSUME NEW i \in 0..(r - 1) PROVE Pow2[i] \in 1..n
  <2>1. i = r - 1 \/ i < r - 1
    OBVIOUS
  <2>2. r - 1 \in Nat /\ i \in Nat
    OBVIOUS
  <2>3. Pow2[i] \in Nat /\ Pow2[r - 1] \in Nat /\ Pow2[i] > i
    BY <2>2, Pow2Large
  <2>4. i < r - 1 => Pow2[i] < Pow2[r - 1]
    BY <2>2, Pow2Less
  <2> QED
    BY <2>1, <2>3, <2>4
<1>2. ASSUME NEW p \in 1..n, NEW i \in Nat, i >= r PROVE ~Covers(p, i) /\ p % Pow2[i] = p
  <2>1. Pow2[r] \in Nat /\ Pow2[i] \in Nat
    BY Pow2Large
  <2>2. i = r \/ Pow2[r] < Pow2[i]
    BY <1>2, Pow2Less
  <2>3. p < Pow2[i]
    BY <2>1, <2>2
  <2> QED
    BY <2>3, LowBits
<1> DEFINE Pows == {q \in 1..n : PowerOfTwo(q)}
           f == [i \in 0..(r - 1) |-> Pow2[i]]
<1>3. f \in Bijection(0..(r - 1), Pows)
  <2>1. f \in [0..(r - 1) -> Pows]
    <3>1. \A i \in 0..(r - 1) : Pow2[i] \in Pows
      BY <1>1, PowersAre
    <3> QED
      BY <3>1
  <2>2. \A i, j \in 0..(r - 1) : f[i] = f[j] => i = j
    BY PowersAre
  <2>3. ASSUME NEW q \in Pows PROVE \E i \in 0..(r - 1) : f[i] = q
    <3>1. PICK k \in 0..q : Pow2[k] = q
      BY DEF PowerOfTwo
    <3>2. k < r
      <4>1. k = r \/ r < k => Pow2[r] <= Pow2[k]
        <5>1. r < k => Pow2[r] < Pow2[k]
          BY Pow2Less
        <5>2. Pow2[r] \in Nat /\ Pow2[k] \in Nat
          BY Pow2Large
        <5> QED
          BY <5>1, <5>2
      <4>2. Pow2[r] \in Nat
        BY Pow2Large
      <4> QED
        BY <3>1, <4>1, <4>2
    <3> QED
      BY <3>1, <3>2
  <2> HIDE DEF f, Pows
  <2> QED
    BY <2>1, <2>2, <2>3 DEF Bijection, Injection, Surjection, IsInjective
<1>4. IsFiniteSet(0..(r - 1)) /\ Cardinality(0..(r - 1)) = r
  <2>1. 0 \in Int /\ r - 1 \in Int /\ ~(0 > r - 1)
    OBVIOUS
  <2> QED
    BY <2>1, FS_Interval
<1>5. IsFiniteSet(Pows) /\ Cardinality(Pows) = r
  <2> HIDE DEF Pows, f
  <2>1. ExistsBijection(0..(r - 1), Pows)
    BY <1>3 DEF ExistsBijection
  <2> QED
    BY <1>4, <2>1, FS_Bijection
<1>6. IsFiniteSet(1..n) /\ Cardinality(1..n) = n
  <2>1. 1 \in Int /\ n \in Int
    OBVIOUS
  <2> QED
    BY <2>1, FS_Interval
<1>7. /\ Data(n) \in SUBSET (1..n)
      /\ Data(n) \cup Pows = 1..n /\ Data(n) \cap Pows = {}
  BY DEF Data
<1> HIDE DEF Pows
<1>8. IsFiniteSet(Data(n)) /\ Cardinality(Data(n)) \in Nat
  BY <1>6, <1>7, FS_Subset, FS_CardinalityType
<1>9. n = Cardinality(Data(n)) + r - 0
  <2>1. Cardinality(Data(n) \cup Pows) = Cardinality(Data(n)) + Cardinality(Pows) - Cardinality(Data(n) \cap Pows)
    BY <1>5, <1>8, FS_Union
  <2> QED
    BY <1>5, <1>6, <1>7, <2>1, FS_EmptySet
<1> QED
  BY <1>1, <1>2, <1>8, <1>9

\* The data positions are numbered from 1 to their number.
LEMMA Ranks ==
  ASSUME NEW n \in Nat, NEW size \in Nat, Cardinality(Data(n)) = size
  PROVE  /\ \A p \in Data(n) : Cardinality(Data(p)) \in 1..size
         /\ \A k \in 1..size : \E p \in Data(n) : Cardinality(Data(p)) = k
         /\ \A p, q \in Data(n) : Cardinality(Data(p)) = Cardinality(Data(q)) => p = q
<1>f. \A p \in Nat : IsFiniteSet(Data(p)) /\ Cardinality(Data(p)) \in Nat
  <2> SUFFICES ASSUME NEW p \in Nat PROVE IsFiniteSet(Data(p)) /\ Cardinality(Data(p)) \in Nat
    OBVIOUS
  <2>1. IsFiniteSet(1..p) /\ Data(p) \in SUBSET (1..p)
    BY FS_Interval DEF Data
  <2> QED
    BY <2>1, FS_Subset, FS_CardinalityType
<1>1. ASSUME NEW p \in Nat, NEW q \in Nat, p <= q
      PROVE  /\ Cardinality(Data(p)) <= Cardinality(Data(q))
             /\ Cardinality(Data(p)) = Cardinality(Data(q)) => Data(p) = Data(q)
  <2>1. Data(p) \in SUBSET Data(q)
    BY <1>1 DEF Data
  <2> QED
    BY <1>f, <2>1, FS_Subset
<1>2. \A p \in Data(n) : p \in Nat /\ p <= n /\ p \in Data(p)
  BY DEF Data
<1>3. ASSUME NEW p \in Data(n) PROVE Cardinality(Data(p)) \in 1..size
  <2>1. Cardinality(Data(p)) <= size /\ Cardinality(Data(p)) \in Nat
    BY <1>f, <1>1, <1>2
  <2>2. Cardinality(Data(p)) # 0
    BY <1>f, <1>2, FS_EmptySet
  <2> QED
    BY <2>1, <2>2
<1>4. ASSUME NEW p \in Data(n), NEW q \in Data(n), Cardinality(Data(p)) = Cardinality(Data(q))
      PROVE  p = q
  <2>1. p <= q \/ q <= p
    BY <1>2
  <2>2. Data(p) = Data(q)
    BY <1>1, <1>2, <1>4, <2>1
  <2>3. p \in Data(q) /\ q \in Data(p)
    BY <1>2, <2>2
  <2> QED
    BY <2>3 DEF Data
<1> DEFINE f == [p \in Data(n) |-> Cardinality(Data(p))]
<1>5. f \in Injection(Data(n), 1..size)
  <2>1. f \in [Data(n) -> 1..size]
    BY <1>3
  <2>2. \A p, q \in Data(n) : f[p] = f[q] => p = q
    BY <1>4
  <2> HIDE DEF f
  <2> QED
    BY <2>1, <2>2 DEF Injection, IsInjective
<1>6. f \in Surjection(Data(n), 1..size)
  <2>1. IsFiniteSet(1..size) /\ Cardinality(1..size) = size
    <3>1. 1 \in Int /\ size \in Int
      OBVIOUS
    <3> QED
      BY <3>1, FS_Interval
  <2> HIDE DEF f
  <2> QED
    BY <1>5, <2>1, FS_Injection
<1>7. \A k \in 1..size : \E p \in Data(n) : f[p] = k
  <2> HIDE DEF f
  <2> QED
    BY <1>6 DEF Surjection
<1> QED
  BY <1>3, <1>4, <1>7

(* The generator's word. *)

Code(s) == process_string(generate_unprocessed_code(s, find_length(Len(s))),
                          find_length(Len(s)) - Len(s))

\* c is a word for the data s with even parities.
IsCode(c, s, n, r) ==
  /\ n \in Nat /\ r \in Nat \ {0} /\ Pow2[r] > n /\ Pow2[r - 1] < n /\ find_redun_len(n) = r
  /\ s \in Words(Len(s)) /\ Len(s) \in Nat /\ Cardinality(Data(n)) = Len(s)
  /\ c \in Words(n) /\ \A i \in 0..(r - 1) : Parity(c, n, i) = 0
  /\ \A p \in Data(n) : c[p] = s[Cardinality(Data(p))]

LEMMA CodeIs ==
  ASSUME NEW s, s \in Words(Len(s)), Len(s) \in Nat \ {0}
  PROVE  \E n, r : IsCode(Code(s), s, n, r)
<1>1. PICK size \in Nat \ {0} : size = Len(s) /\ s \in Words(size)
  OBVIOUS
<1>2. PICK r \in Nat \ {0} :
           /\ find_length(size) = size + r /\ find_redun_len(size + r) = r
           /\ Pow2[r] > size + r /\ Pow2[r - 1] < size + r
  BY Lengths
<1>3. PICK n \in Nat : n = size + r
  OBVIOUS
<1>4. /\ \A i \in 0..(r - 1) : Pow2[i] \in 1..n
      /\ Cardinality(Data(n)) = size
  BY <1>2, <1>3, PowersUpTo
<1>5. \A p \in Data(n) : Cardinality(Data(p)) \in 1..size
  BY <1>4, Ranks
<1>6. PICK g : g = generate_unprocessed_code(s, n)
  OBVIOUS
<1>7. g = [p \in 1..n |-> IF PowerOfTwo(p) THEN 0 ELSE s[Cardinality(Data(p))]]
  BY <1>6 DEF generate_unprocessed_code, Data
<1>8. g \in Words(n)
  <2>1. ASSUME NEW p \in 1..n, ~PowerOfTwo(p) PROVE s[Cardinality(Data(p))] \in Bit
    <3>1. p \in Data(n)
      BY <2>1 DEF Data
    <3> QED
      BY <1>1, <1>5, <3>1 DEF Words
  <2> QED
    BY <1>7, <2>1 DEF Words, Bit
<1>9. \A i \in 0..(r - 1) : g[Pow2[i]] = 0
  BY <1>4, <1>7, PowersAre
<1>10. PICK c : c = Code(s) /\ c = process_string(g, r)
  BY <1>1, <1>2, <1>3, <1>6 DEF Code
<1>11. /\ c \in Words(n) /\ \A i \in 0..(r - 1) : Parity(c, n, i) = 0
       /\ \A p \in 1..n : ~PowerOfTwo(p) => c[p] = g[p]
  BY <1>4, <1>8, <1>9, <1>10, FillAll
<1>12. \A p \in Data(n) : c[p] = s[Cardinality(Data(p))]
  BY <1>7, <1>11 DEF Data
<1>13. IsCode(c, s, n, r)
  BY <1>1, <1>2, <1>3, <1>4, <1>11, <1>12 DEF IsCode
<1> QED
  BY <1>10, <1>13

\* The data are read back from it.
LEMMA PayloadIs ==
  ASSUME NEW c, NEW s, NEW n, NEW r, IsCode(c, s, n, r)
  PROVE  Payload(c) = s
<1>1. PICK size \in Nat : size = Len(s) /\ s \in [1..size -> Bit] /\ Cardinality(Data(n)) = size
  BY DEF IsCode, Words
<1>2. /\ n \in Nat /\ DOMAIN c = 1..n /\ \A p \in Data(n) : c[p] = s[Cardinality(Data(p))]
  BY DEF IsCode, Words
<1>3. DataAt(c) = Data(n)
  BY <1>2 DEF DataAt, Data
<1>4. \A p \in Data(n) : {q \in Data(n) : q <= p} = Data(p)
  BY <1>2 DEF Data
<1>5. Payload(c) = [k \in 1..size |-> c[Nth(c, k)]]
  BY <1>1, <1>3 DEF Payload
<1>6. ASSUME NEW k \in 1..size PROVE Nth(c, k) \in Data(n) /\ Cardinality(Data(Nth(c, k))) = k
  <2>1. \E p \in Data(n) : Cardinality(Data(p)) = k
    BY <1>1, <1>2, Ranks
  <2>2. Nth(c, k) \in Data(n) /\ Cardinality({q \in Data(n) : q <= Nth(c, k)}) = k
    BY <1>3, <1>4, <2>1 DEF Nth
  <2> QED
    BY <1>4, <2>2
<1>7. \A k \in 1..size : c[Nth(c, k)] = s[k]
  BY <1>2, <1>6
<1> QED
  BY <1>1, <1>5, <1>7

(* The invariant. *)

\* The word is the generator's, but for the positions that changed.
Carried ==
  \E n, r :
    /\ IsCode(Code(inp), inp, n, r) /\ word \in Words(n)
    /\ IsFiniteSet(flipped) /\ flipped \subseteq 1..n
    /\ \A p \in 1..n : word[p] = IF p \in flipped THEN 1 - Code(inp)[p] ELSE Code(inp)[p]

\* What the checker has made of it.
Repaired ==
  LET position == correction(word, find_redun_len(Len(word)))
  IN  /\ hpc = "checked" =>
           /\ ~(position > Len(word))
           /\ out = IF position = 0 THEN word ELSE [word EXCEPT ![position] = 1 - @]
      /\ hpc = "overrun" => position > Len(word)

HamInv ==
  \/ hpc = "off"
  \/ /\ hpc = "gen" /\ flipped = {}
     /\ inp \in Words(Len(inp)) /\ Len(inp) \in Nat \ {0}
  \/ hpc = "way" /\ Carried
  \/ hpc \in {"checked", "overrun"} /\ Carried /\ Repaired

LEMMA HamInit == InitHamming \/ IdleHamming => HamInv
<1>1. ASSUME InitHamming PROVE HamInv
  <2>1. PICK n \in 1..MaxData : inp \in [1..n -> Bit]
    BY <1>1 DEF InitHamming
  <2>2. n \in Nat \ {0} /\ inp \in Words(n)
    BY <2>1 DEF Words
  <2>3. Len(inp) = n
    BY <2>2, WordLen
  <2> QED
    BY <1>1, <2>2, <2>3 DEF InitHamming, HamInv
<1> QED
  BY <1>1 DEF IdleHamming, HamInv

LEMMA HamStep == HamInv /\ (NextHamming \/ UNCHANGED varsHamming) => HamInv'
<1> SUFFICES ASSUME HamInv, NextHamming \/ UNCHANGED varsHamming PROVE HamInv'
  OBVIOUS
<1>1. CASE gen_main
  <2>1. /\ hpc = "gen" /\ hpc' = "way" /\ UNCHANGED <<inp, flipped>> /\ word' = Code(inp)
        /\ flipped = {} /\ inp \in Words(Len(inp)) /\ Len(inp) \in Nat \ {0}
    BY <1>1 DEF gen_main, Code, HamInv
  <2>2. PICK n, r : IsCode(Code(inp), inp, n, r)
    BY <2>1, CodeIs
  <2>3. Code(inp) \in Words(n)
    BY <2>2 DEF IsCode
  <2>4. Carried'
    BY <2>1, <2>2, <2>3, FS_EmptySet DEF Carried
  <2> QED
    BY <2>1, <2>4 DEF HamInv
<1>2. ASSUME NEW q \in DOMAIN word, Flip(q) PROVE HamInv'
  <2>1. /\ hpc = "way" /\ hpc' = "way" /\ q \notin flipped /\ flipped' = flipped \cup {q}
        /\ word' = [word EXCEPT ![q] = 1 - word[q]] /\ inp' = inp /\ Carried
    BY <1>2 DEF Flip, HamInv
  <2>2. PICK n, r :
           /\ IsCode(Code(inp), inp, n, r) /\ word \in Words(n)
           /\ IsFiniteSet(flipped) /\ flipped \subseteq 1..n
           /\ \A p \in 1..n : word[p] = IF p \in flipped THEN 1 - Code(inp)[p] ELSE Code(inp)[p]
    BY <2>1 DEF Carried
  <2>3. q \in 1..n /\ n \in Nat
    BY <1>2, <2>2 DEF Words, IsCode
  <2>4. word' = Flipped(word, q) /\ 0 \in Nat
    BY <2>1 DEF Flipped
  <2>5. word' \in Words(n)
    BY <2>2, <2>3, <2>4, FlipParity
  <2>6. \A p \in 1..n : word'[p] = IF p = q THEN 1 - word[q] ELSE word[p]
    BY <2>1, <2>2, <2>3 DEF Words
  <2>7. \A p \in 1..n : word'[p] = IF p \in flipped' THEN 1 - Code(inp)[p] ELSE Code(inp)[p]
    BY <2>1, <2>2, <2>6
  <2>8. IsFiniteSet(flipped') /\ flipped' \subseteq 1..n
    BY <2>1, <2>2, <2>3, FS_AddElement
  <2>9. Carried'
    BY <2>1, <2>2, <2>5, <2>7, <2>8 DEF Carried
  <2> QED
    BY <2>1, <2>9 DEF HamInv
<1>3. CASE check_main
  <2>1. hpc = "way" /\ Carried /\ UNCHANGED <<inp, word, flipped>> /\ hpc' \in {"checked", "overrun"}
    BY <1>3 DEF check_main, HamInv
  <2>2. Carried'
    BY <2>1 DEF Carried
  <2>3. Repaired'
    BY <1>3 DEF check_main, Repaired
  <2> QED
    BY <2>1, <2>2, <2>3 DEF HamInv
<1>4. CASE UNCHANGED varsHamming
  <2>1. UNCHANGED <<inp, word, flipped, out, hpc>>
    BY <1>4 DEF varsHamming
  <2>2. (Carried' <=> Carried) /\ (Repaired' <=> Repaired)
    BY <2>1 DEF Carried, Repaired
  <2> QED
    BY <2>1, <2>2 DEF HamInv
<1> QED
  BY <1>1, <1>2, <1>3, <1>4 DEF NextHamming

\* The position of the one changed bit is found, and no position is beyond a
\* word that has all of them.
LEMMA Found ==
  ASSUME Carried
  PROVE  /\ flipped = {} =>
              /\ correction(word, find_redun_len(Len(word))) = 0
              /\ word = Code(inp)
         /\ \A p : flipped = {p} =>
              /\ correction(word, find_redun_len(Len(word))) = p
              /\ p # 0 /\ ~(p > Len(word))
              /\ [word EXCEPT ![p] = 1 - @] = Code(inp)
         /\ PowerOfTwo(Len(word) + 1) =>
              ~(correction(word, find_redun_len(Len(word))) > Len(word))
<1>0. PICK c, w, F : c = Code(inp) /\ w = word /\ F = flipped
  OBVIOUS
<1>1. PICK n, r :
           /\ c = Code(inp) /\ w = word /\ F = flipped
           /\ IsCode(c, inp, n, r) /\ w \in Words(n) /\ F \subseteq 1..n
           /\ \A p \in 1..n : w[p] = IF p \in F THEN 1 - c[p] ELSE c[p]
  BY <1>0 DEF Carried
<1>2. /\ n \in Nat /\ r \in Nat \ {0} /\ Pow2[r] > n /\ Pow2[r - 1] < n /\ find_redun_len(n) = r
      /\ c \in Words(n) /\ \A i \in 0..(r - 1) : Parity(c, n, i) = 0
  BY <1>1 DEF IsCode
<1>3. Len(w) = n
  BY <1>1, <1>2, WordLen
<1>4. /\ correction(w, r) \in Nat /\ correction(w, r) < Pow2[r]
      /\ \A p \in Nat : (\A i \in 0..(r - 1) : Parity(w, n, i) = 1 <=> Covers(p, i)) =>
                          correction(w, r) = p % Pow2[r]
  BY <1>1, <1>2, CorrectionIs
<1>5. ASSUME F = {} PROVE correction(w, r) = 0 /\ w = c
  <2>1. w = c
    BY <1>1, <1>2, <1>5 DEF Words
  <2>2. \A i \in Nat : ~Covers(0, i) /\ 0 % Pow2[i] = 0
    <3>1. \A i \in Nat : 0 < Pow2[i]
      <4>1. \A i \in Nat : Pow2[i] \in Nat /\ Pow2[i] > i
        BY Pow2Large
      <4> QED
        BY <4>1
    <3> QED
      BY <3>1, LowBits
  <2>3. correction(w, r) = 0 % Pow2[r]
    BY <1>2, <1>4, <2>1, <2>2
  <2> QED
    BY <1>2, <2>1, <2>2, <2>3
<1>6. ASSUME NEW p, F = {p}
      PROVE  /\ correction(w, r) = p /\ p # 0 /\ ~(p > n)
             /\ [w EXCEPT ![p] = 1 - w[p]] = c
  <2>1. p \in 1..n
    BY <1>1, <1>6
  <2>2. w = Flipped(c, p)
    <3>1. Flipped(c, p) \in Words(n) /\ \A q \in 1..n : w[q] = Flipped(c, p)[q]
      BY <1>1, <1>2, <1>6, <2>1 DEF Flipped, Words, Bit
    <3> QED
      BY <1>1, <1>2, <3>1, SameWord
  <2>3. \A i \in Nat : /\ Covers(p, i) => Parity(w, n, i) = 1 - Parity(c, n, i)
                       /\ ~Covers(p, i) => Parity(w, n, i) = Parity(c, n, i)
    <3> TAKE i \in Nat
    <3> QED
      BY <1>2, <2>1, <2>2, FlipParity
  <2>4. \A i \in 0..(r - 1) : Parity(w, n, i) = 1 <=> Covers(p, i)
    <3> TAKE i \in 0..(r - 1)
    <3>1. Parity(c, n, i) = 0 /\ i \in Nat
      BY <1>2
    <3> QED
      BY <2>3, <3>1
  <2>5. p % Pow2[r] = p
    BY <1>2, <2>1, PowersUpTo
  <2>6. [w EXCEPT ![p] = 1 - w[p]] = c
    <3>1. [w EXCEPT ![p] = 1 - w[p]] \in [1..n -> Bit]
      BY <1>1, <2>1 DEF Words, Bit
    <3>2. \A q \in 1..n : [w EXCEPT ![p] = 1 - w[p]][q] = c[q]
      BY <1>1, <1>2, <1>6, <2>1 DEF Words, Bit
    <3> QED
      BY <1>2, <3>1, <3>2 DEF Words
  <2>7. correction(w, r) = p % Pow2[r] /\ p # 0 /\ ~(p > n)
    <3>1. p \in Nat /\ p # 0 /\ ~(p > n)
      BY <1>2, <2>1
    <3> QED
      BY <1>4, <2>4, <3>1
  <2> QED
    BY <2>5, <2>6, <2>7
<1>7. ASSUME PowerOfTwo(n + 1) PROVE ~(correction(w, r) > n)
  <2>1. PICK k \in 0..(n + 1) : Pow2[k] = n + 1
    BY <1>7 DEF PowerOfTwo
  <2>2. k <= r
    <3>1. r < k => Pow2[r] < Pow2[k]
      BY <1>2, Pow2Less
    <3>2. Pow2[r] \in Nat
      BY <1>2, Pow2Large
    <3> QED
      BY <1>2, <2>1, <3>1, <3>2
  <2>3. r <= k
    <3>1. k < r - 1 => Pow2[k] < Pow2[r - 1]
      BY <1>2, Pow2Less
    <3>2. Pow2[r - 1] \in Nat
      BY <1>2, Pow2Large
    <3>3. k = r - 1 \/ k < r - 1 \/ r <= k
      BY <1>2
    <3> QED
      BY <1>2, <2>1, <3>1, <3>2, <3>3
  <2> QED
    BY <1>2, <1>4, <2>1, <2>2, <2>3
<1> QED
  BY <1>1, <1>2, <1>3, <1>5, <1>6, <1>7

LEMMA HamRepairs == HamInv => OneFlipIsRepaired
<1> SUFFICES ASSUME HamInv, hpc \in {"checked", "overrun"} PROVE OneFlipIsRepaired
  BY DEF HamInv, OneFlipIsRepaired
<1>1. Carried /\ Repaired
  BY DEF HamInv
<1>2. PICK P : P = correction(word, find_redun_len(Len(word)))
  OBVIOUS
<1>3. /\ hpc = "checked" => /\ ~(P > Len(word))
                            /\ out = IF P = 0 THEN word ELSE [word EXCEPT ![P] = 1 - @]
      /\ hpc = "overrun" => P > Len(word)
  BY <1>1, <1>2 DEF Repaired
<1>4. hpc = "overrun" => ~PowerOfTwo(Len(word) + 1)
  BY <1>1, <1>2, <1>3, Found
<1>5. ASSUME Cardinality(flipped) <= 1
      PROVE  hpc # "overrun" /\ (hpc = "checked" => out = Code(inp))
  <2>1. flipped = {} \/ \E p : flipped = {p}
    <3>1. IsFiniteSet(flipped)
      BY <1>1 DEF Carried
    <3>2. Cardinality(flipped) \in Nat
      BY <3>1, FS_CardinalityType
    <3>3. Cardinality(flipped) = 0 \/ Cardinality(flipped) = 1
      BY <1>5, <3>2
    <3> QED
      BY <3>1, <3>3, FS_EmptySet, FS_Singleton
  <2>2. CASE flipped = {}
    <3>1. P = 0 /\ word = Code(inp) /\ ~(0 > Len(word))
      <4>1. PICK n \in Nat : word \in Words(n)
        BY <1>1 DEF Carried, IsCode
      <4>2. Len(word) = n
        BY <4>1, WordLen
      <4> QED
        BY <1>1, <1>2, <2>2, <4>2, Found
    <3> QED
      BY <1>3, <3>1
  <2>3. ASSUME NEW p, flipped = {p}
        PROVE  hpc # "overrun" /\ (hpc = "checked" => out = Code(inp))
    <3>1. P = p /\ p # 0 /\ ~(p > Len(word)) /\ [word EXCEPT ![p] = 1 - @] = Code(inp)
      BY <1>1, <1>2, <2>3, Found
    <3> QED
      BY <1>3, <3>1
  <2> QED
    BY <2>1, <2>2, <2>3
<1>6. \E n, r : IsCode(Code(inp), inp, n, r)
  BY <1>1 DEF Carried
<1>7. Payload(Code(inp)) = inp
  BY <1>6, PayloadIs
<1> QED
  BY <1>4, <1>5, <1>7 DEF OneFlipIsRepaired

(* Calculator: the stacks. *)

Chars == Ops \cup {"(", ")"} \cup {Digits[dg] : dg \in DOMAIN Digits}

\* A number that is being read is on the stack of values.
Machine ==
  {m \in [vals : Seq(Int), ops : Seq(Chars), num : BOOLEAN, dead : BOOLEAN] :
     m.num => m.vals # <<>>}

LEMMA CharsAre ==
  /\ Ops \subseteq Chars /\ "(" \in Chars /\ ")" \in Chars /\ "(" \notin Ops /\ ")" \notin Ops
  /\ ~IsDigit("(") /\ ~IsDigit(")") /\ \A o \in Ops : ~IsDigit(o)
  /\ \A dg \in 0..9 : /\ Digits[dg + 1] \in Chars /\ IsDigit(Digits[dg + 1])
                      /\ DigitOf(Digits[dg + 1]) = dg
                      /\ Digits[dg + 1] \notin Ops \cup {"(", ")"}
<1>1. DOMAIN Digits = 1..10
  BY DEF Digits
<1>2. /\ Digits[1] = "0" /\ Digits[2] = "1" /\ Digits[3] = "2" /\ Digits[4] = "3" /\ Digits[5] = "4"
      /\ Digits[6] = "5" /\ Digits[7] = "6" /\ Digits[8] = "7" /\ Digits[9] = "8" /\ Digits[10] = "9"
  BY DEF Digits
<1>3. \A dg \in 1..10 : dg \in {1, 2, 3, 4, 5, 6, 7, 8, 9, 10}
  OBVIOUS
<1>4. \A dg \in 1..10 : Digits[dg] \in {"0", "1", "2", "3", "4", "5", "6", "7", "8", "9"}
  BY <1>2, <1>3
<1>5. \A ch : IsDigit(ch) => ch \in {"0", "1", "2", "3", "4", "5", "6", "7", "8", "9"}
  BY <1>1, <1>4 DEF IsDigit
<1>6. \A dg, e \in 1..10 : Digits[dg] = Digits[e] => dg = e
  BY <1>2, <1>3
<1>7. ASSUME NEW dg \in 0..9
      PROVE  /\ Digits[dg + 1] \in Chars /\ IsDigit(Digits[dg + 1])
             /\ DigitOf(Digits[dg + 1]) = dg
             /\ Digits[dg + 1] \notin Ops \cup {"(", ")"}
  <2>1. dg + 1 \in 1..10 /\ (dg + 1) - 1 = dg
    OBVIOUS
  <2>2. Digits[dg + 1] \in Chars /\ IsDigit(Digits[dg + 1])
    BY <1>1, <2>1 DEF Chars, IsDigit
  <2>3. (CHOOSE e \in DOMAIN Digits : Digits[e] = Digits[dg + 1]) = dg + 1
    BY <1>1, <1>6, <2>1
  <2>4. DigitOf(Digits[dg + 1]) = dg
    BY <2>1, <2>3 DEF DigitOf
  <2>5. Digits[dg + 1] \notin Ops \cup {"(", ")"}
    BY <1>4, <2>1 DEF Ops
  <2> QED
    BY <2>2, <2>4, <2>5
<1>8. /\ Ops \subseteq Chars /\ "(" \in Chars /\ ")" \in Chars /\ "(" \notin Ops /\ ")" \notin Ops
  BY DEF Chars, Ops
<1>9. ~IsDigit("(") /\ ~IsDigit(")") /\ \A o \in Ops : ~IsDigit(o)
  BY <1>5 DEF Ops
<1> QED
  BY <1>7, <1>8, <1>9

LEMMA Pushing ==
  ASSUME NEW S, NEW s \in Seq(S), NEW e \in S
  PROVE  /\ <<e>> \o s \in Seq(S) /\ Len(<<e>> \o s) = Len(s) + 1 /\ <<e>> \o s # <<>>
         /\ Head(<<e>> \o s) = e /\ Tail(<<e>> \o s) = s
OBVIOUS

LEMMA ApplyType ==
  ASSUME NEW a \in Int, NEW b \in Int, NEW o \in Ops, ~(o = "/" /\ b = 0)
  PROVE  applyOp(a, b, o) \in Int
<1>1. ASSUME b # 0 PROVE Quotient(a, b) \in Int
  <2> DEFINE Abs(x) == IF x < 0 THEN -x ELSE x
  <2>1. PICK x, y \in Nat : x = Abs(a) /\ y = Abs(b) /\ y # 0
    <3>1. Abs(a) \in Nat /\ Abs(b) \in Nat /\ Abs(b) # 0
      BY <1>1
    <3> QED
      BY <3>1
  <2>2. x \div y \in Nat
    BY <2>1
  <2>3. Quotient(a, b) = IF (a < 0) = (b < 0) THEN x \div y ELSE -(x \div y)
    BY <2>1 DEF Quotient
  <2> QED
    BY <2>2, <2>3
<1> QED
  BY <1>1 DEF applyOp, Ops

LEMMA OneOnTop ==
  ASSUME NEW q \in Seq(Int), Len(q) >= 1
  PROVE  Head(q) \in Int /\ Tail(q) \in Seq(Int) /\ Len(Tail(q)) = Len(q) - 1
<1>1. Head(q) = q[1] /\ 1 \in 1..Len(q) /\ q \in [1..Len(q) -> Int] /\ q # <<>>
  OBVIOUS
<1>2. Tail(q) \in Seq(Int) /\ Len(Tail(q)) = Len(q) - 1
  BY <1>1
<1> QED
  BY <1>1, <1>2

LEMMA TwoOnTop ==
  ASSUME NEW q \in Seq(Int), ~(Len(q) < 2)
  PROVE  /\ Head(q) \in Int /\ Tail(q) \in Seq(Int) /\ Head(Tail(q)) \in Int
         /\ Tail(Tail(q)) \in Seq(Int)
<1>1. Len(q) \in Nat /\ Len(q) >= 1 /\ Len(q) - 1 >= 1
  OBVIOUS
<1>2. Head(q) \in Int /\ Tail(q) \in Seq(Int) /\ Len(Tail(q)) >= 1
  BY <1>1, OneOnTop
<1> QED
  BY <1>2, OneOnTop

\* A reduction of a state with two values.
LEMMA ReduceTypes ==
  ASSUME NEW m \in Machine, m.ops # <<>>
  PROVE  /\ Reduce(m) \in Machine
         /\ Reduce(m).dead \/ (Reduce(m).dead = m.dead /\ Len(Reduce(m).ops) = Len(m.ops) - 1)
<1>t. /\ m.vals \in Seq(Int) /\ m.ops \in Seq(Chars) /\ m.num \in BOOLEAN /\ m.dead \in BOOLEAN
      /\ m = [vals |-> m.vals, ops |-> m.ops, num |-> m.num, dead |-> m.dead]
      /\ (m.num => m.vals # <<>>)
  BY DEF Machine
<1>1. CASE Len(m.vals) < 2 \/ (Head(m.ops) = "/" /\ Head(m.vals) = 0) \/ Head(m.ops) \notin Ops
  <2>1. Reduce(m) = [m EXCEPT !.dead = TRUE]
    BY <1>1 DEF Reduce, Crash
  <2> QED
    BY <1>t, <2>1 DEF Machine
<1>2. CASE ~(Len(m.vals) < 2 \/ (Head(m.ops) = "/" /\ Head(m.vals) = 0) \/ Head(m.ops) \notin Ops)
  <2>1. /\ Head(m.vals) \in Int /\ Tail(m.vals) \in Seq(Int) /\ Head(Tail(m.vals)) \in Int
        /\ Tail(Tail(m.vals)) \in Seq(Int)
    BY <1>t, <1>2, TwoOnTop
  <2>2. PICK v \in Int : v = applyOp(Head(Tail(m.vals)), Head(m.vals), Head(m.ops))
    BY <1>2, <2>1, ApplyType
  <2>3. Reduce(m) = [m EXCEPT !.vals = <<v>> \o Tail(Tail(m.vals)), !.ops = Tail(m.ops)]
    BY <1>2, <2>2 DEF Reduce
  <2>4. /\ <<v>> \o Tail(Tail(m.vals)) \in Seq(Int) /\ <<v>> \o Tail(Tail(m.vals)) # <<>>
        /\ Tail(m.ops) \in Seq(Chars) /\ Len(Tail(m.ops)) = Len(m.ops) - 1
    BY <1>t, <2>1, Pushing
  <2> QED
    BY <1>t, <2>3, <2>4 DEF Machine
<1> QED
  BY <1>1, <1>2

Stopped(m, A) == m.dead \/ m.ops = <<>> \/ Head(m.ops) \notin A

LEMMA OnceTypes ==
  ASSUME NEW m \in Machine, NEW A
  PROVE  /\ ReduceOnce(m, A) \in Machine
         /\ Stopped(m, A) => ReduceOnce(m, A) = m
         /\ ~Stopped(m, A) => /\ ReduceOnce(m, A) = Reduce(m) /\ m.ops # <<>> /\ ~m.dead
BY ReduceTypes DEF ReduceOnce, Stopped

Chain(f, m, A) == f[0] = m /\ \A n \in Nat : f[n + 1] = ReduceOnce(f[n], A)

LEMMA ChainIs ==
  ASSUME NEW m \in Machine, NEW A
  PROVE  \E f \in [Nat -> Machine] : Chain(f, m, A)
<1> DEFINE Iter == [n \in Nat |-> [x \in Machine |-> ReduceOnce(x, A)]]
<1>1. Iter \in [Nat -> [Machine -> Machine]]
  BY OnceTypes
<1>2. \A n \in Nat, x \in Machine : Iter[n][x] = ReduceOnce(x, A)
  OBVIOUS
<1> HIDE DEF Iter
<1>3. PICK f \in [Nat -> Machine] : Unending(f, m, Iter)
  BY <1>1, RecursionOnNat
<1>4. Chain(f, m, A)
  BY <1>2, <1>3 DEF Unending, Chain
<1> QED
  BY <1>4

LEMMA WhileIsChain ==
  ASSUME NEW m \in Machine, NEW A, NEW f \in [Nat -> Machine], Chain(f, m, A)
  PROVE  ReduceWhile(m, A) = f[Len(m.ops)]
<1>t. m.ops \in Seq(Chars) /\ Len(m.ops) \in Nat
  BY DEF Machine
<1> DEFINE Is(g) == g = [n \in 0..Len(m.ops) |-> IF n = 0 THEN m ELSE ReduceOnce(g[n - 1], A)]
           h == [n \in 0..Len(m.ops) |-> f[n]]
           after == CHOOSE g : Is(g)
<1>1. Is(h)
  <2>1. ASSUME NEW n \in 0..Len(m.ops)
        PROVE  f[n] = IF n = 0 THEN m ELSE ReduceOnce(h[n - 1], A)
    <3>1. CASE n = 0
      BY <3>1 DEF Chain
    <3>2. CASE n # 0
      <4>1. n - 1 \in Nat /\ n - 1 \in 0..Len(m.ops) /\ (n - 1) + 1 = n
        BY <1>t, <3>2
      <4>2. f[n] = ReduceOnce(f[n - 1], A)
        BY <4>1 DEF Chain
      <4> QED
        BY <3>2, <4>1, <4>2
    <3> QED
      BY <3>1, <3>2
  <2> QED
    BY <2>1
<1>2. ReduceWhile(m, A) = after[Len(m.ops)]
  BY DEF ReduceWhile
<1>3. Is(after)
  <2> HIDE DEF Is, h
  <2> QED
    BY <1>1
<1> HIDE DEF after, h
<1>4. \A n \in 0..Len(m.ops) : after[n] = IF n = 0 THEN m ELSE ReduceOnce(after[n - 1], A)
  BY <1>3
<1> HIDE DEF Is
<1>5. ASSUME NEW n \in 0..(Len(m.ops) - 1), f[n] = after[n] PROVE f[n + 1] = after[n + 1]
  <2>1. n \in Nat /\ n + 1 \in 0..Len(m.ops) /\ n + 1 # 0 /\ (n + 1) - 1 = n
    BY <1>t
  <2>2. after[n + 1] = ReduceOnce(after[n], A)
    BY <1>4, <2>1
  <2> QED
    BY <1>5, <2>1, <2>2 DEF Chain
<1>6. f[0] = after[0]
  BY <1>t, <1>4 DEF Chain
<1>7. \A n \in 0..Len(m.ops) : f[n] = after[n]
  BY <1>t, <1>5, <1>6, SameRecursion
<1> QED
  BY <1>t, <1>2, <1>7

\* What has stopped stays as it is.
LEMMA ChainStays ==
  ASSUME NEW m, NEW A, NEW f \in [Nat -> Machine], Chain(f, m, A),
         NEW k \in Nat, Stopped(f[k], A)
  PROVE  \A j \in Nat : f[k + j] = f[k]
<1> DEFINE P == {j \in Nat : f[k + j] = f[k]}
<1>1. 0 \in P
  OBVIOUS
<1>2. ASSUME NEW j \in Nat, j \in P PROVE j + 1 \in P
  <2>1. f[k + j] = f[k] /\ k + j \in Nat /\ (k + j) + 1 = k + (j + 1)
    BY <1>2
  <2>2. f[(k + j) + 1] = ReduceOnce(f[k + j], A)
    BY <2>1 DEF Chain
  <2>3. ReduceOnce(f[k], A) = f[k]
    BY OnceTypes
  <2> QED
    BY <2>1, <2>2, <2>3
<1>3. Nat \subseteq P
  <2> HIDE DEF P
  <2> QED
    BY <1>1, <1>2, NatSet
<1> QED
  BY <1>3

\* The loop as a recursion.
LEMMA Reducing ==
  ASSUME NEW m \in Machine, NEW A
  PROVE  /\ ReduceWhile(m, A) \in Machine
         /\ Stopped(m, A) => ReduceWhile(m, A) = m
         /\ ~Stopped(m, A) => ReduceWhile(m, A) = ReduceWhile(Reduce(m), A)
<1>t. m.ops \in Seq(Chars) /\ Len(m.ops) \in Nat
  BY DEF Machine
<1>1. PICK f \in [Nat -> Machine] : Chain(f, m, A)
  BY ChainIs
<1>2. ReduceWhile(m, A) = f[Len(m.ops)]
  BY <1>1, WhileIsChain
<1>3. ReduceWhile(m, A) \in Machine
  BY <1>t, <1>2
<1>4. f[0] = m /\ f[0 + 1] = ReduceOnce(m, A)
  BY <1>1 DEF Chain
<1>5. ASSUME Stopped(m, A) PROVE ReduceWhile(m, A) = m
  <2>1. \A j \in Nat : f[0 + j] = f[0]
    BY <1>1, <1>4, <1>5, ChainStays
  <2> QED
    BY <1>t, <1>2, <1>4, <2>1
<1>6. ASSUME ~Stopped(m, A) PROVE ReduceWhile(m, A) = ReduceWhile(Reduce(m), A)
  <2>1. PICK r \in Machine : r = Reduce(m) /\ f[1] = r
    BY <1>4, <1>6, OnceTypes, ReduceTypes
  <2>2. /\ m.ops # <<>> /\ Len(m.ops) >= 1
        /\ r.dead \/ Len(r.ops) = Len(m.ops) - 1
        /\ r.ops \in Seq(Chars) /\ Len(r.ops) \in Nat
    <3>1. m.ops # <<>>
      BY <1>6, OnceTypes
    <3>2. Len(m.ops) >= 1
      BY <1>t, <3>1
    <3>3. r.dead \/ Len(r.ops) = Len(m.ops) - 1
      BY <2>1, <3>1, ReduceTypes
    <3>4. r.ops \in Seq(Chars)
      BY DEF Machine
    <3>5. Len(r.ops) \in Nat
      BY <3>4
    <3> QED
      BY <3>1, <3>2, <3>3, <3>4, <3>5
  <2> DEFINE g == [n \in Nat |-> f[n + 1]]
  <2>3. g \in [Nat -> Machine] /\ Chain(g, r, A)
    BY <1>1, <2>1 DEF Chain
  <2>4. ReduceWhile(r, A) = g[Len(r.ops)]
    BY <2>3, WhileIsChain
  <2>5. ReduceWhile(r, A) = f[Len(r.ops) + 1]
    BY <2>2, <2>4
  <2>6. CASE r.dead
    <3>1. Stopped(f[1], A)
      BY <2>1, <2>6 DEF Stopped
    <3>2. \A j \in Nat : f[1 + j] = f[1]
      BY <1>1, <3>1, ChainStays
    <3>3. /\ Len(r.ops) + 1 = 1 + Len(r.ops) /\ Len(m.ops) = 1 + (Len(m.ops) - 1)
          /\ Len(m.ops) - 1 \in Nat
      BY <1>t, <2>2
    <3>4. f[Len(r.ops) + 1] = f[1]
      BY <2>2, <3>2, <3>3
    <3>5. f[Len(m.ops)] = f[1]
      BY <3>2, <3>3
    <3> QED
      BY <1>2, <2>1, <2>5, <3>4, <3>5
  <2>7. CASE ~r.dead
    <3>1. Len(r.ops) + 1 = Len(m.ops)
      BY <1>t, <2>2, <2>7
    <3> QED
      BY <1>2, <2>1, <2>5, <3>1
  <2> QED
    BY <2>6, <2>7
<1> QED
  BY <1>3, <1>5, <1>6

(* Calculator: the characters one by one. *)

AtLeast(s) == {o \in Ops : precedence(o) >= s}
Then(m, ch) == [vals |-> m.vals, ops |-> <<ch>> \o m.ops, num |-> FALSE, dead |-> m.dead]
Up(m, x, b) == [vals |-> <<x>> \o m.vals, ops |-> m.ops, num |-> b, dead |-> FALSE]

LEMMA FieldsAre ==
  ASSUME NEW m \in Machine
  PROVE  /\ m.vals \in Seq(Int) /\ m.ops \in Seq(Chars) /\ m.num \in BOOLEAN /\ m.dead \in BOOLEAN
         /\ (m.num => m.vals # <<>>)
         /\ m = [vals |-> m.vals, ops |-> m.ops, num |-> m.num, dead |-> m.dead]
BY DEF Machine

LEMMA Made ==
  ASSUME NEW v \in Seq(Int), NEW q \in Seq(Chars), NEW b \in BOOLEAN, NEW dg \in BOOLEAN,
         b => v # <<>>
  PROVE  [vals |-> v, ops |-> q, num |-> b, dead |-> dg] \in Machine
BY DEF Machine

LEMMA ThenIs ==
  ASSUME NEW m \in Machine, NEW ch \in Chars
  PROVE  /\ Then(m, ch) \in Machine /\ Then(m, ch).vals = m.vals /\ Then(m, ch).dead = m.dead
         /\ ~Then(m, ch).num /\ Then(m, ch).ops # <<>>
         /\ Head(Then(m, ch).ops) = ch /\ Tail(Then(m, ch).ops) = m.ops
<1>1. <<ch>> \o m.ops \in Seq(Chars) /\ <<ch>> \o m.ops # <<>>
      /\ Head(<<ch>> \o m.ops) = ch /\ Tail(<<ch>> \o m.ops) = m.ops
  BY FieldsAre, Pushing
<1> QED
  BY <1>1, FieldsAre DEF Then, Machine

LEMMA UpIs ==
  ASSUME NEW m \in Machine, NEW x \in Int, NEW b \in BOOLEAN
  PROVE  /\ Up(m, x, b).ops = m.ops /\ ~Up(m, x, b).dead
         /\ Up(m, x, b).num = b /\ Up(m, x, b).vals = <<x>> \o m.vals
         /\ Up(m, x, b).vals # <<>> /\ Len(Up(m, x, b).vals) = Len(m.vals) + 1
         /\ Head(Up(m, x, b).vals) = x /\ Tail(Up(m, x, b).vals) = m.vals
<1>1. /\ <<x>> \o m.vals \in Seq(Int) /\ <<x>> \o m.vals # <<>>
      /\ Len(<<x>> \o m.vals) = Len(m.vals) + 1
      /\ Head(<<x>> \o m.vals) = x /\ Tail(<<x>> \o m.vals) = m.vals
  BY FieldsAre, Pushing
<1> QED
  BY <1>1 DEF Up

LEMMA UpIn ==
  ASSUME NEW m \in Machine, NEW x \in Int, NEW b \in BOOLEAN
  PROVE  Up(m, x, b) \in Machine
<1>1. <<x>> \o m.vals \in Seq(Int) /\ <<x>> \o m.vals # <<>> /\ m.ops \in Seq(Chars)
  BY FieldsAre, Pushing
<1> QED
  BY <1>1, Made DEF Up

LEMMA StepDead ==
  ASSUME NEW m, m.dead, NEW ch
  PROVE  Step(m, ch) = m
BY DEF Step

LEMMA StepOpen ==
  ASSUME NEW m \in Machine, ~m.dead
  PROVE  Step(m, "(") = Then(m, "(")
<1>1. ~IsDigit("(") /\ "(" # ")"
  BY CharsAre
<1>2. Step(m, "(") = [m EXCEPT !.ops = <<"(">> \o @, !.num = FALSE]
  BY <1>1 DEF Step
<1> QED
  BY <1>2, FieldsAre DEF Then

LEMMA StepOp ==
  ASSUME NEW m \in Machine, ~m.dead, NEW o \in Ops
  PROVE  Step(m, o) = Then(ReduceWhile(m, AtLeast(precedence(o))), o)
<1>1. PICK r \in Machine : r = ReduceWhile(m, AtLeast(precedence(o)))
  BY Reducing
<1>2. ~IsDigit(o) /\ o # "(" /\ o # ")"
  BY CharsAre
<1>3. Step(m, o) = [r EXCEPT !.ops = <<o>> \o @, !.num = FALSE]
  BY <1>1, <1>2 DEF Step, AtLeast
<1>4. PICK v, q, b, dg : r = [vals |-> v, ops |-> q, num |-> b, dead |-> dg]
  BY FieldsAre
<1>5. PICK p : p = <<o>> \o q
  OBVIOUS
<1>6. r.vals = v /\ r.ops = q /\ r.dead = dg
  BY <1>4
<1>7. Step(m, o) = [r EXCEPT !.ops = p, !.num = FALSE]
  BY <1>3, <1>5, <1>6
<1>8. Then(r, o) = [vals |-> v, ops |-> p, num |-> FALSE, dead |-> dg]
  BY <1>5, <1>6 DEF Then
<1>9. [r EXCEPT !.ops = p, !.num = FALSE] = [vals |-> v, ops |-> p, num |-> FALSE, dead |-> dg]
  <2>1. PICK x, no : x = [vals |-> v, ops |-> p, num |-> b, dead |-> dg] /\ no = FALSE
    OBVIOUS
  <2>2. [r EXCEPT !.ops = p] = x
    BY <1>4, <2>1
  <2>3. [x EXCEPT !.num = no] = [vals |-> v, ops |-> p, num |-> no, dead |-> dg]
    BY <2>1
  <2> QED
    BY <2>1, <2>2, <2>3
<1> QED
  BY <1>1, <1>7, <1>8, <1>9

LEMMA StepClose ==
  ASSUME NEW m \in Machine, ~m.dead,
         NEW r \in Machine, r = ReduceWhile(m, Ops), r.ops # <<>>
  PROVE  Step(m, ")") = [vals |-> r.vals, ops |-> Tail(r.ops), num |-> FALSE, dead |-> r.dead]
<1>1. ~IsDigit(")")
  BY CharsAre
<1>2. Step(m, ")") = [r EXCEPT !.ops = IF @ = <<>> THEN @ ELSE Tail(@), !.num = FALSE]
  BY <1>1 DEF Step
<1> QED
  BY <1>2, FieldsAre

\* A process that has crashed on the way to the parenthesis.
LEMMA StepCloseDead ==
  ASSUME NEW m \in Machine, ~m.dead, ReduceWhile(m, Ops).dead
  PROVE  Step(m, ")") \in Machine /\ Step(m, ")").dead
<1>1. PICK r \in Machine : r = ReduceWhile(m, Ops)
  BY Reducing
<1>2. ~IsDigit(")")
  BY CharsAre
<1>3. PICK ops : ops = IF r.ops = <<>> THEN r.ops ELSE Tail(r.ops)
  OBVIOUS
<1>4. ops \in Seq(Chars)
  BY <1>3, FieldsAre
<1>5. Step(m, ")") = [r EXCEPT !.ops = ops, !.num = FALSE]
  BY <1>1, <1>2, <1>3 DEF Step
<1>6. Step(m, ")") = [vals |-> r.vals, ops |-> ops, num |-> FALSE, dead |-> r.dead]
  BY <1>5, FieldsAre
<1>7. r.vals \in Seq(Int) /\ r.dead /\ r.dead \in BOOLEAN
  BY <1>1, FieldsAre
<1>8. Step(m, ")") \in Machine
  BY <1>4, <1>6, <1>7, Made
<1>9. Step(m, ")").dead
  BY <1>6, <1>7
<1> QED
  BY <1>8, <1>9

LEMMA StepDigit ==
  ASSUME NEW m \in Machine, ~m.dead, NEW dg \in 0..9
  PROVE  /\ ~m.num => Step(m, Digits[dg + 1]) = Up(m, dg, TRUE)
         /\ \A k \in Machine, x \in Int :
              m = Up(k, x, TRUE) => Step(m, Digits[dg + 1]) = Up(k, 10 * x + dg, TRUE)
<1>1. PICK ch : ch = Digits[dg + 1] /\ IsDigit(ch) /\ ch # "(" /\ ch # ")" /\ DigitOf(ch) = dg
  BY CharsAre
<1>2. ASSUME ~m.num PROVE Step(m, ch) = Up(m, dg, TRUE)
  <2>1. Step(m, ch) = [m EXCEPT !.vals = <<dg>> \o @, !.num = TRUE]
    BY <1>1, <1>2 DEF Step
  <2>2. PICK v, q, b, e : m = [vals |-> v, ops |-> q, num |-> b, dead |-> e] /\ e = FALSE
    BY FieldsAre
  <2>3. PICK p : p = <<dg>> \o v
    OBVIOUS
  <2>4. Step(m, ch) = [m EXCEPT !.vals = p, !.num = TRUE]
    BY <2>1, <2>2, <2>3
  <2> QED
    BY <2>2, <2>3, <2>4 DEF Up
<1>3. ASSUME NEW k \in Machine, NEW x \in Int, m = Up(k, x, TRUE)
      PROVE  Step(m, ch) = Up(k, 10 * x + dg, TRUE)
  <2>1. m.num /\ Head(m.vals) = x /\ Tail(m.vals) = k.vals /\ m.ops = k.ops
    BY <1>3, UpIs
  <2>2. Step(m, ch) = [m EXCEPT !.vals = <<10 * x + dg>> \o k.vals]
    BY <1>1, <2>1 DEF Step
  <2> QED
    BY <2>1, <2>2, FieldsAre DEF Up
<1> QED
  BY <1>1, <1>2, <1>3

\* The states that the characters of a text lead to.
Follows(f, m, s) == f[0] = m /\ \A n \in 0..(Len(s) - 1) : f[n + 1] = Step(f[n], s[n + 1])
Reads(m, s, r) == \E f \in [0..Len(s) -> Machine] : Follows(f, m, s) /\ f[Len(s)] = r

LEMMA ReadOne ==
  ASSUME NEW m \in Machine, NEW ch \in Chars, NEW r \in Machine, r = Step(m, ch)
  PROVE  Reads(m, <<ch>>, r) /\ <<ch>> \in Seq(Chars)
<1> DEFINE f == [n \in 0..1 |-> IF n = 0 THEN m ELSE r]
<1>1. Len(<<ch>>) = 1 /\ <<ch>>[1] = ch /\ <<ch>> \in Seq(Chars)
  OBVIOUS
<1>2. f \in [0..1 -> Machine] /\ f[0] = m /\ f[1] = r
  OBVIOUS
<1> HIDE DEF f
<1>3. Follows(f, m, <<ch>>)
  <2>1. \A n \in 0..(1 - 1) : n = 0 /\ n + 1 = 1
    OBVIOUS
  <2> QED
    BY <1>1, <1>2, <2>1 DEF Follows
<1> QED
  BY <1>1, <1>2, <1>3 DEF Reads

LEMMA ReadOn ==
  ASSUME NEW m, NEW a \in Seq(Chars), NEW b \in Seq(Chars), NEW k, NEW r,
         Reads(m, a, k), Reads(k, b, r)
  PROVE  Reads(m, a \o b, r) /\ a \o b \in Seq(Chars)
<1>1. PICK f \in [0..Len(a) -> Machine] : Follows(f, m, a) /\ f[Len(a)] = k
  BY DEF Reads
<1>2. PICK g \in [0..Len(b) -> Machine] : Follows(g, k, b) /\ g[Len(b)] = r
  BY DEF Reads
<1>3. PICK A, B \in Nat : A = Len(a) /\ B = Len(b)
  OBVIOUS
<1>4. PICK c : c = a \o b
  OBVIOUS
<1>5. /\ c \in Seq(Chars) /\ Len(c) = A + B
      /\ \A i \in 1..A : c[i] = a[i]
      /\ \A i \in 1..B : c[A + i] = b[i]
  BY <1>3, <1>4
<1> DEFINE h == [n \in 0..(A + B) |-> IF n <= A THEN f[n] ELSE g[n - A]]
<1>6. h \in [0..(A + B) -> Machine]
  BY <1>1, <1>2, <1>3
<1>7. h[0] = m /\ h[A + B] = r
  <2>1. f[0] = m /\ g[0] = k /\ f[A] = k /\ g[B] = r
    BY <1>1, <1>2, <1>3 DEF Follows
  <2>2. h[0] = f[0]
    OBVIOUS
  <2>3. h[A + B] = IF B = 0 THEN f[A] ELSE g[B]
    <3>1. A + B \in 0..(A + B) /\ (A + B <= A <=> B = 0) /\ (A + B) - A = B
      OBVIOUS
    <3>2. B = 0 => A + B = A
      OBVIOUS
    <3>3. h[A + B] = IF A + B <= A THEN f[A + B] ELSE g[(A + B) - A]
      BY <3>1
    <3> QED
      BY <3>1, <3>2, <3>3
  <2> QED
    BY <2>1, <2>2, <2>3
<1>8. ASSUME NEW n \in 0..((A + B) - 1) PROVE h[n + 1] = Step(h[n], c[n + 1])
  <2>1. CASE n + 1 <= A
    <3>1. h[n + 1] = f[n + 1] /\ h[n] = f[n] /\ n \in 0..(A - 1) /\ n + 1 \in 1..A
      BY <2>1
    <3>2. f[n + 1] = Step(f[n], a[n + 1])
      BY <1>1, <1>3, <3>1 DEF Follows
    <3> QED
      BY <1>5, <3>1, <3>2
  <2>2. CASE ~(n + 1 <= A)
    <3>1. PICK i \in 0..(B - 1) : n = A + i
      <4>1. n - A \in 0..(B - 1) /\ n = A + (n - A)
        BY <2>2
      <4> QED
        BY <4>1
    <3>2. h[n + 1] = g[i + 1]
      BY <2>2, <3>1
    <3>3. h[n] = g[i]
      <4>1. CASE i = 0
        <5>1. h[n] = f[A]
          BY <3>1, <4>1
        <5>2. f[A] = g[0]
          BY <1>1, <1>2, <1>3 DEF Follows
        <5> QED
          BY <4>1, <5>1, <5>2
      <4>2. CASE i # 0
        BY <3>1, <4>2
      <4> QED
        BY <4>1, <4>2
    <3>4. g[i + 1] = Step(g[i], b[i + 1])
      BY <1>2, <1>3 DEF Follows
    <3>5. i + 1 \in 1..B /\ n + 1 = A + (i + 1)
      BY <3>1
    <3>6. c[n + 1] = b[i + 1]
      <4>1. c[A + (i + 1)] = b[i + 1]
        BY <1>5, <3>5
      <4> QED
        BY <3>5, <4>1
    <3> QED
      BY <3>2, <3>3, <3>4, <3>6
  <2> QED
    BY <2>1, <2>2
<1> HIDE DEF h
<1>9. Follows(h, m, c)
  BY <1>5, <1>7, <1>8 DEF Follows
<1> QED
  BY <1>4, <1>5, <1>6, <1>7, <1>9 DEF Reads

LEMMA ReadDead ==
  ASSUME NEW m \in Machine, m.dead, NEW s \in Seq(Chars)
  PROVE  Reads(m, s, m)
<1> DEFINE f == [n \in 0..Len(s) |-> m]
<1>1. PICK N \in Nat : N = Len(s)
  OBVIOUS
<1>2. f \in [0..Len(s) -> Machine] /\ f[0] = m /\ f[Len(s)] = m
  BY <1>1
<1>3. \A n \in 0..(N - 1) : f[n + 1] = m /\ f[n] = m
  BY <1>1
<1>4. Follows(f, m, s)
  BY <1>1, <1>2, <1>3, StepDead DEF Follows
<1> QED
  BY <1>2, <1>4 DEF Reads

\* What is printed when r is the state after the last character.
Answer(r) ==
  LET end == ReduceWhile(r, Ops \cup {"("})
  IN  IF end.dead \/ end.vals = <<>> THEN <<>> ELSE <<Head(end.vals)>>

LEMMA EvaluateIs ==
  ASSUME NEW s \in Seq(Chars), NEW r, Reads(Start, s, r)
  PROVE  evaluate(s) = Answer(r)
<1>1. PICK f \in [0..Len(s) -> Machine] : Follows(f, Start, s) /\ f[Len(s)] = r
  BY DEF Reads
<1>2. PICK N \in Nat : N = Len(s)
  OBVIOUS
<1> DEFINE Is(g) == g = [n \in 0..Len(s) |-> IF n = 0 THEN Start ELSE Step(g[n - 1], s[n])]
           read == CHOOSE g : Is(g)
<1>3. Is(f)
  <2>1. ASSUME NEW n \in 0..N
        PROVE  f[n] = IF n = 0 THEN Start ELSE Step(f[n - 1], s[n])
    <3>1. CASE n = 0
      BY <1>1, <3>1 DEF Follows
    <3>2. CASE n # 0
      <4>1. n - 1 \in 0..(N - 1) /\ (n - 1) + 1 = n
        BY <3>2
      <4>2. f[(n - 1) + 1] = Step(f[n - 1], s[(n - 1) + 1])
        BY <1>1, <1>2, <4>1 DEF Follows
      <4> QED
        BY <3>2, <4>1, <4>2
    <3> QED
      BY <3>1, <3>2
  <2> QED
    BY <1>2, <2>1
<1>4. evaluate(s) = Answer(read[Len(s)])
  BY DEF evaluate, Answer
<1>5. Is(read)
  <2> HIDE DEF Is
  <2> QED
    BY <1>3
<1> HIDE DEF read
<1>6. \A n \in 0..N : read[n] = IF n = 0 THEN Start ELSE Step(read[n - 1], s[n])
  BY <1>2, <1>5
<1> HIDE DEF Is
<1>7. f[0] = read[0]
  BY <1>1, <1>6 DEF Follows
<1>8. ASSUME NEW n \in 0..(N - 1), f[n] = read[n] PROVE f[n + 1] = read[n + 1]
  <2>1. n + 1 \in 0..N /\ n + 1 # 0 /\ (n + 1) - 1 = n
    OBVIOUS
  <2>2. read[n + 1] = Step(read[n], s[n + 1])
    BY <1>6, <2>1
  <2>3. f[n + 1] = Step(f[n], s[n + 1])
    BY <1>1, <1>2 DEF Follows
  <2> QED
    BY <1>8, <2>2, <2>3
<1>9. \A n \in 0..N : f[n] = read[n]
  BY <1>7, <1>8, SameRecursion
<1>10. read[Len(s)] = r
  BY <1>1, <1>2, <1>9
<1> QED
  BY <1>4, <1>10

(* Calculator: what a text does to the stacks.  A text that is worth v leaves, *)
(* however it is read on, a state that reduces as if v were on the stack.      *)

Ctx(m, s) == m.ops = <<>> \/ Head(m.ops) \notin AtLeast(s)
Values == {<<>>} \cup {<<x>> : x \in Int}
Pending(r, m, v, s) ==
  /\ v = <<>> => \A A : AtLeast(s) \subseteq A => ReduceWhile(r, A).dead
  /\ \A x \in Int : v = <<x>> =>
       \E b \in BOOLEAN : \A A : AtLeast(s) \subseteq A =>
                                   ReduceWhile(r, A) = ReduceWhile(Up(m, x, b), A)
Leads(w, v, s, m) == \E r \in Machine : Reads(m, w, r) /\ Pending(r, m, v, s)
Understood(w, v, s) ==
  /\ w \in Seq(Chars) /\ v \in Values
  /\ \A m \in Machine : ~m.dead /\ ~m.num /\ Ctx(m, s) => Leads(w, v, s, m)

LEMMA OneValue ==
  ASSUME NEW x \in Int
  PROVE  <<x>> \in Values /\ <<x>> # <<>> /\ <<x>>[1] = x /\ \A y \in Int : <<x>> = <<y>> => x = y
BY DEF Values

LEMMA Levels ==
  /\ AtLeast(3) = {} /\ \A o \in Ops : precedence(o) \in 1..2 /\ o \in AtLeast(precedence(o))
  /\ \A s \in 1..3 : AtLeast(s) \subseteq Ops
  /\ \A s, r \in 1..3 : r <= s => AtLeast(s) \subseteq AtLeast(r)
  /\ \A o \in Ops : o \notin AtLeast(precedence(o) + 1)
<1>1. \A o \in Ops : precedence(o) \in 1..2
  BY DEF Ops, precedence
<1> QED
  BY <1>1 DEF AtLeast

\* A state that has crashed reduces to itself.
LEMMA DeadReduces ==
  ASSUME NEW m \in Machine, m.dead, NEW A
  PROVE  ReduceWhile(m, A) = m
BY Reducing DEF Stopped

LEMMA DeadLeads ==
  ASSUME NEW m \in Machine, NEW w \in Seq(Chars), NEW r \in Machine, Reads(m, w, r), r.dead, NEW s
  PROVE  Leads(w, <<>>, s, m)
<1>1. Pending(r, m, <<>>, s)
  <2>1. \A x \in Int : <<>> # <<x>>
    OBVIOUS
  <2> QED
    BY <2>1, DeadReduces DEF Pending
<1> QED
  BY <1>1 DEF Leads

LEMMA Weaker ==
  ASSUME NEW w, NEW v, NEW s \in 1..3, NEW q \in 1..3, q <= s, Understood(w, v, s)
  PROVE  Understood(w, v, q)
<1>1. AtLeast(s) \subseteq AtLeast(q)
  BY Levels
<1>2. ASSUME NEW m \in Machine, ~m.dead, ~m.num, Ctx(m, q)
      PROVE  Leads(w, v, q, m)
  <2>1. Ctx(m, s)
    BY <1>1, <1>2 DEF Ctx
  <2>2. PICK r \in Machine : Reads(m, w, r) /\ Pending(r, m, v, s)
    BY <1>2, <2>1 DEF Understood, Leads
  <2>3. \A A : AtLeast(q) \subseteq A => AtLeast(s) \subseteq A
    BY <1>1
  <2>4. Pending(r, m, v, q)
    BY <2>2, <2>3 DEF Pending
  <2> QED
    BY <2>2, <2>4 DEF Leads
<1> QED
  BY <1>2 DEF Understood

\* A value that is on the stack as soon as nothing below is to be reduced.
LEMMA Ready ==
  ASSUME NEW m \in Machine, NEW x \in Int, NEW r \in Machine, NEW s, NEW A,
         AtLeast(s) \subseteq A, Pending(r, m, <<x>>, s), m.ops = <<>> \/ Head(m.ops) \notin A
  PROVE  ~r.dead /\ \E b \in BOOLEAN : ReduceWhile(r, A) = Up(m, x, b)
<1>1. PICK b \in BOOLEAN : ReduceWhile(r, A) = ReduceWhile(Up(m, x, b), A)
  BY DEF Pending
<1>2. PICK u \in Machine : u = Up(m, x, b) /\ u.ops = m.ops /\ ~u.dead
  BY UpIs, UpIn
<1>3. ReduceWhile(u, A) = u
  BY <1>2, Reducing DEF Stopped
<1>4. ~r.dead
  BY <1>1, <1>2, <1>3, DeadReduces
<1> QED
  BY <1>1, <1>2, <1>3, <1>4

LEMMA IsPending ==
  ASSUME NEW m, NEW x \in Int, NEW b \in BOOLEAN, NEW s
  PROVE  Pending(Up(m, x, b), m, <<x>>, s)
BY OneValue DEF Pending

LEMMA Wrapped ==
  ASSUME NEW w, NEW v, NEW s \in 1..3, Understood(w, v, s)
  PROVE  Understood(<<"(">> \o w \o <<")">>, v, 3)
<1>1. w \in Seq(Chars) /\ v \in Values /\ "(" \in Chars /\ ")" \in Chars
  BY CharsAre DEF Understood
<1>2. PICK a, c : a = <<"(">> /\ c = <<")">> /\ a \in Seq(Chars) /\ c \in Seq(Chars)
  <2>1. \A ch \in Chars : <<ch>> \in Seq(Chars)
    OBVIOUS
  <2> QED
    BY <1>1, <2>1
<1>3. a \o w \in Seq(Chars) /\ (a \o w) \o c \in Seq(Chars)
  BY <1>1, <1>2
<1>4. ASSUME NEW m \in Machine, ~m.dead, ~m.num
      PROVE  Leads((a \o w) \o c, v, 3, m)
  <2>1. PICK k \in Machine : /\ k = Then(m, "(") /\ k.vals = m.vals /\ ~k.dead /\ ~k.num
                             /\ k.ops # <<>> /\ Head(k.ops) = "(" /\ Tail(k.ops) = m.ops
    BY <1>1, <1>4, ThenIs
  <2>2. Reads(m, a, k)
    BY <1>1, <1>2, <1>4, <2>1, StepOpen, ReadOne
  <2>3. AtLeast(s) \subseteq Ops /\ Head(k.ops) \notin Ops
    BY <2>1, Levels, CharsAre
  <2>4. Ctx(k, s)
    BY <2>3 DEF Ctx
  <2>5. PICK r \in Machine : Reads(k, w, r) /\ Pending(r, k, v, s)
    BY <2>1, <2>4 DEF Understood, Leads
  <2>6. Reads(m, a \o w, r)
    BY <1>1, <1>2, <2>2, <2>5, ReadOn
  <2>7. ASSUME NEW e \in Machine, e = Step(r, ")") PROVE Reads(m, (a \o w) \o c, e)
    <3>1. Reads(r, c, e)
      BY <1>1, <1>2, <2>7, ReadOne
    <3> QED
      BY <1>2, <1>3, <2>6, <3>1, ReadOn
  <2>8. CASE v = <<>>
    <3>1. ReduceWhile(r, Ops).dead
      BY <2>3, <2>5, <2>8 DEF Pending
    <3>2. PICK e \in Machine : e = Step(r, ")") /\ e.dead
      <4>1. CASE r.dead
        BY <4>1, StepDead
      <4>2. CASE ~r.dead
        BY <3>1, <4>2, StepCloseDead
      <4> QED
        BY <4>1, <4>2
    <3> QED
      BY <1>3, <2>7, <2>8, <3>2, DeadLeads
  <2>9. ASSUME NEW x \in Int, v = <<x>> PROVE Leads((a \o w) \o c, v, 3, m)
    <3>1. ~r.dead /\ \E b \in BOOLEAN : ReduceWhile(r, Ops) = Up(k, x, b)
      BY <2>3, <2>5, <2>9, Ready
    <3>2. PICK b \in BOOLEAN : ReduceWhile(r, Ops) = Up(k, x, b)
      BY <3>1
    <3>3. PICK u \in Machine : /\ u = ReduceWhile(r, Ops) /\ u.ops = k.ops /\ ~u.dead
                               /\ u.dead = FALSE
                               /\ u.vals = <<x>> \o m.vals
      <4>1. PICK u \in Machine : u = Up(k, x, b) /\ u.ops = k.ops /\ ~u.dead /\ u.vals = <<x>> \o k.vals
        BY UpIs, UpIn
      <4>2. u.dead \in BOOLEAN
        BY FieldsAre
      <4> QED
        BY <2>1, <3>2, <4>1, <4>2
    <3>4. Step(r, ")") = [vals |-> u.vals, ops |-> Tail(u.ops), num |-> FALSE, dead |-> u.dead]
      BY <2>1, <3>1, <3>3, StepClose
    <3>5. Step(r, ")") = Up(m, x, FALSE)
      BY <2>1, <3>3, <3>4 DEF Up
    <3>6. Up(m, x, FALSE) \in Machine
      BY UpIs, UpIn
    <3>7. Pending(Up(m, x, FALSE), m, v, 3)
      BY <2>9, IsPending
    <3> QED
      BY <2>7, <3>5, <3>6, <3>7 DEF Leads
  <2> QED
    BY <1>1, <2>8, <2>9 DEF Values
<1> QED
  BY <1>1, <1>2, <1>3, <1>4 DEF Understood

Under(k, m, x, b, o) == k = Then(Up(m, x, b), o)
Over(u, k, y, c) == u = Up(k, y, c)

Reduced(u, m, x, y, o, c) ==
  /\ (o = "/" /\ y = 0) => Reduce(u) \in Machine /\ Reduce(u).dead
  /\ ~(o = "/" /\ y = 0) => Reduce(u) = Up(m, applyOp(x, y, o), c)
  /\ u.ops # <<>> /\ Head(u.ops) = o /\ ~u.dead

LEMMA OverIs ==
  ASSUME NEW k \in Machine, NEW y \in Int, NEW c \in BOOLEAN, NEW u, Over(u, k, y, c)
  PROVE  /\ u.ops = k.ops /\ ~u.dead /\ u.num = c /\ Len(u.vals) = Len(k.vals) + 1
         /\ Head(u.vals) = y /\ Tail(u.vals) = k.vals /\ u.vals # <<>>
<1>1. Up(k, y, c).ops = k.ops /\ ~Up(k, y, c).dead /\ Up(k, y, c).num = c
  BY UpIs
<1>2. Up(k, y, c).vals # <<>> /\ Len(Up(k, y, c).vals) = Len(k.vals) + 1
  BY UpIs
<1>3. Head(Up(k, y, c).vals) = y /\ Tail(Up(k, y, c).vals) = k.vals
  BY UpIs
<1> QED
  BY <1>1, <1>2, <1>3 DEF Over

LEMMA ReduceUp ==
  ASSUME NEW m \in Machine, NEW x \in Int, NEW y \in Int, NEW o \in Ops,
         NEW b \in BOOLEAN, NEW c \in BOOLEAN,
         NEW k \in Machine, Under(k, m, x, b, o), NEW u \in Machine, Over(u, k, y, c)
  PROVE  Reduced(u, m, x, y, o, c)
<1>1. o \in Chars
  BY CharsAre
<1>2. PICK p \in Machine : /\ p = Up(m, x, b) /\ p.ops = m.ops /\ ~p.dead
                           /\ p.vals = <<x>> \o m.vals /\ Len(p.vals) = Len(m.vals) + 1
                           /\ Head(p.vals) = x /\ Tail(p.vals) = m.vals
  BY UpIs, UpIn
<1>3. /\ k.vals = p.vals /\ ~k.dead /\ k.ops # <<>> /\ Head(k.ops) = o /\ Tail(k.ops) = m.ops
  BY <1>1, <1>2, ThenIs DEF Under
<1>4. /\ u.ops = k.ops /\ ~u.dead /\ u.num = c /\ Len(u.vals) = Len(k.vals) + 1
      /\ Head(u.vals) = y /\ Tail(u.vals) = k.vals /\ u.vals # <<>>
  BY OverIs
<1>5. u.ops # <<>> /\ Head(u.ops) = o /\ ~u.dead /\ Tail(u.ops) = m.ops
  BY <1>3, <1>4
<1>6. ~(Len(u.vals) < 2)
  <2>1. m.vals \in Seq(Int)
    BY FieldsAre
  <2>2. Len(m.vals) \in Nat /\ Len(u.vals) = (Len(m.vals) + 1) + 1
    BY <1>2, <1>3, <1>4, <2>1
  <2> QED
    BY <2>2
<1>7. ASSUME o = "/" /\ y = 0 PROVE Reduce(u) \in Machine /\ Reduce(u).dead
  <2>1. Reduce(u) = [u EXCEPT !.dead = TRUE]
    BY <1>4, <1>5, <1>7 DEF Reduce, Crash
  <2>2. Reduce(u) = [vals |-> u.vals, ops |-> u.ops, num |-> u.num, dead |-> TRUE]
    <3>1. u = [vals |-> u.vals, ops |-> u.ops, num |-> u.num, dead |-> u.dead]
      BY FieldsAre
    <3> QED
      BY <2>1, <3>1
  <2>3. u.vals \in Seq(Int) /\ u.ops \in Seq(Chars) /\ u.num \in BOOLEAN
    BY FieldsAre
  <2>4. [vals |-> u.vals, ops |-> u.ops, num |-> u.num, dead |-> TRUE] \in Machine
    BY <1>4, <2>3, Made
  <2> QED
    BY <2>2, <2>4
<1>8. ASSUME ~(o = "/" /\ y = 0) PROVE Reduce(u) = Up(m, applyOp(x, y, o), c)
  <2>1. PICK z : z = applyOp(x, y, o)
    OBVIOUS
  <2>2. PICK q, v : v = <<z>> \o m.vals /\ q = m.ops
    OBVIOUS
  <2>3. Reduce(u) = [u EXCEPT !.vals = v, !.ops = q]
    <3>1. /\ ~(Len(u.vals) < 2 \/ (Head(u.ops) = "/" /\ Head(u.vals) = 0) \/ Head(u.ops) \notin Ops)
      BY <1>4, <1>5, <1>6, <1>8
    <3>2. Reduce(u) = [u EXCEPT !.vals = <<applyOp(Head(Tail(u.vals)), Head(u.vals), Head(u.ops))>>
                                           \o Tail(Tail(u.vals)),
                                !.ops = Tail(u.ops)]
      BY <3>1 DEF Reduce
    <3>3. Head(Tail(u.vals)) = x /\ Tail(Tail(u.vals)) = m.vals
      BY <1>2, <1>3, <1>4
    <3>4. <<applyOp(Head(Tail(u.vals)), Head(u.vals), Head(u.ops))>> \o Tail(Tail(u.vals)) = v
      BY <1>4, <1>5, <2>1, <2>2, <3>3
    <3> QED
      BY <1>5, <2>2, <3>2, <3>4
  <2>4. PICK v1, q1, n1, d1 : u = [vals |-> v1, ops |-> q1, num |-> n1, dead |-> d1]
    BY FieldsAre
  <2>5. n1 = c /\ d1 = FALSE
    BY <1>4, <2>4, FieldsAre
  <2>6. [u EXCEPT !.vals = v, !.ops = q] = [vals |-> v, ops |-> q, num |-> n1, dead |-> d1]
    <3>1. PICK t : t = [vals |-> v, ops |-> q1, num |-> n1, dead |-> d1]
      OBVIOUS
    <3>2. [u EXCEPT !.vals = v] = t
      BY <2>4, <3>1
    <3>3. [t EXCEPT !.ops = q] = [vals |-> v, ops |-> q, num |-> n1, dead |-> d1]
      BY <3>1
    <3> QED
      BY <3>2, <3>3
  <2> QED
    BY <2>1, <2>2, <2>3, <2>5, <2>6 DEF Up
<1> QED
  BY <1>5, <1>7, <1>8 DEF Reduced

Combined(v1, v2, o) ==
  IF v1 = <<>> \/ v2 = <<>> \/ (o = "/" /\ v2 = <<0>>) THEN <<>>
  ELSE <<applyOp(v1[1], v2[1], o)>>

LEMMA CombinedType ==
  ASSUME NEW v1 \in Values, NEW v2 \in Values, NEW o \in Ops
  PROVE  Combined(v1, v2, o) \in Values
<1>1. CASE v1 = <<>> \/ v2 = <<>> \/ (o = "/" /\ v2 = <<0>>)
  BY <1>1 DEF Combined, Values
<1>2. CASE ~(v1 = <<>> \/ v2 = <<>> \/ (o = "/" /\ v2 = <<0>>))
  <2>1. PICK x \in Int, y \in Int : v1 = <<x>> /\ v2 = <<y>>
    BY <1>2 DEF Values
  <2>2. ~(o = "/" /\ y = 0) /\ v1[1] = x /\ v2[1] = y
    BY <1>2, <2>1, OneValue
  <2>3. applyOp(x, y, o) \in Int
    BY <2>2, ApplyType
  <2> QED
    BY <1>2, <2>2, <2>3 DEF Combined, Values
<1> QED
  BY <1>1, <1>2

LEMMA Joined ==
  ASSUME NEW w1, NEW v1, NEW w2, NEW v2, NEW o \in Ops,
         Understood(w1, v1, precedence(o)), Understood(w2, v2, precedence(o) + 1)
  PROVE  Understood((w1 \o <<o>>) \o w2, Combined(v1, v2, o), precedence(o))
<1>1. PICK p \in 1..2 : p = precedence(o)
  BY Levels
<1>2. /\ o \in AtLeast(p) /\ o \notin AtLeast(p + 1) /\ AtLeast(p + 1) \subseteq AtLeast(p)
      /\ p \in 1..3 /\ p + 1 \in 1..3
  <2>1. p \in 1..3 /\ p + 1 \in 1..3 /\ p <= p + 1
    OBVIOUS
  <2> QED
    BY <1>1, <2>1, Levels
<1>3. w1 \in Seq(Chars) /\ v1 \in Values /\ w2 \in Seq(Chars) /\ v2 \in Values /\ o \in Chars
  BY CharsAre DEF Understood
<1>4. PICK a : a = <<o>> /\ a \in Seq(Chars)
  <2>1. \A ch \in Chars : <<ch>> \in Seq(Chars)
    OBVIOUS
  <2> QED
    BY <1>3, <2>1
<1>5. w1 \o a \in Seq(Chars) /\ (w1 \o a) \o w2 \in Seq(Chars)
  BY <1>3, <1>4
<1>6. ASSUME NEW m \in Machine, ~m.dead, ~m.num, Ctx(m, p)
      PROVE  Leads((w1 \o a) \o w2, Combined(v1, v2, o), p, m)
  <2>1. PICK r \in Machine : Reads(m, w1, r) /\ Pending(r, m, v1, p)
    BY <1>1, <1>6 DEF Understood, Leads
  <2>2. ASSUME NEW e \in Machine, e = Step(r, o) PROVE Reads(m, w1 \o a, e)
    <3>1. Reads(r, a, e)
      BY <1>3, <1>4, <2>2, ReadOne
    <3> QED
      BY <1>3, <1>4, <2>1, <3>1, ReadOn
  <2>3. CASE v1 = <<>>
    <3>1. ReduceWhile(r, AtLeast(p)) \in Machine /\ ReduceWhile(r, AtLeast(p)).dead
      BY <2>1, <2>3, Reducing DEF Pending
    <3>2. PICK e \in Machine : e = Step(r, o) /\ e.dead
      <4>1. CASE r.dead
        BY <4>1, StepDead
      <4>2. CASE ~r.dead
        BY <1>1, <1>3, <3>1, <4>2, StepOp, ThenIs
      <4> QED
        BY <4>1, <4>2
    <3>3. Reads(e, w2, e)
      BY <1>3, <3>2, ReadDead
    <3>4. Reads(m, (w1 \o a) \o w2, e)
      BY <1>3, <1>5, <2>2, <3>2, <3>3, ReadOn
    <3>5. Combined(v1, v2, o) = <<>>
      BY <2>3 DEF Combined
    <3> QED
      BY <1>5, <3>2, <3>4, <3>5, DeadLeads
  <2>4. ASSUME NEW x \in Int, v1 = <<x>>
        PROVE  Leads((w1 \o a) \o w2, Combined(v1, v2, o), p, m)
    <3>1. ~r.dead /\ \E b \in BOOLEAN : ReduceWhile(r, AtLeast(p)) = Up(m, x, b)
      <4>1. PICK B : B = AtLeast(p)
        OBVIOUS
      <4>2. AtLeast(p) \subseteq B /\ Pending(r, m, <<x>>, p) /\ (m.ops = <<>> \/ Head(m.ops) \notin B)
        BY <1>6, <2>1, <2>4, <4>1 DEF Ctx
      <4> QED
        BY <4>1, <4>2, Ready
    <3>2. PICK b \in BOOLEAN : ReduceWhile(r, AtLeast(p)) = Up(m, x, b)
      BY <3>1
    <3>3. PICK z \in Machine : z = Up(m, x, b) /\ ~z.dead
      BY UpIs, UpIn
    <3>4. PICK k \in Machine : /\ k = Then(z, o) /\ ~k.dead /\ ~k.num /\ Head(k.ops) = o
      BY <1>3, <3>3, ThenIs
    <3>5. Under(k, m, x, b, o)
      BY <3>3, <3>4 DEF Under
    <3>6. Reads(m, w1 \o a, k)
      BY <1>1, <2>2, <3>1, <3>2, <3>3, <3>4, StepOp
    <3>7. Ctx(k, p + 1)
      BY <1>2, <3>4 DEF Ctx
    <3>8. PICK q \in Machine : Reads(k, w2, q) /\ Pending(q, k, v2, p + 1)
      BY <1>1, <3>4, <3>7 DEF Understood, Leads
    <3>9. Reads(m, (w1 \o a) \o w2, q)
      BY <1>3, <1>5, <3>6, <3>8, ReadOn
    <3>10. Pending(q, m, Combined(v1, v2, o), p)
      <4>1. ASSUME NEW A, AtLeast(p) \subseteq A
            PROVE  AtLeast(p + 1) \subseteq A /\ o \in A
        BY <1>2, <4>1
      <4>2. CASE v2 = <<>>
        <5>1. Combined(v1, v2, o) = <<>> /\ \A n \in Int : <<>> # <<n>>
          BY <4>2 DEF Combined
        <5>2. \A A : AtLeast(p) \subseteq A => ReduceWhile(q, A).dead
          BY <3>8, <4>1, <4>2 DEF Pending
        <5> QED
          BY <5>1, <5>2 DEF Pending
      <4>3. ASSUME NEW y \in Int, v2 = <<y>>
            PROVE  Pending(q, m, Combined(v1, v2, o), p)
        <5>1. PICK c \in BOOLEAN : \A A : AtLeast(p + 1) \subseteq A =>
                                            ReduceWhile(q, A) = ReduceWhile(Up(k, y, c), A)
          BY <3>8, <4>3 DEF Pending
        <5>2. PICK u \in Machine : u = Up(k, y, c)
          BY UpIn
        <5>3. Over(u, k, y, c)
          BY <5>2 DEF Over
        <5>4. /\ (o = "/" /\ y = 0) => Reduce(u) \in Machine /\ Reduce(u).dead
              /\ ~(o = "/" /\ y = 0) => Reduce(u) = Up(m, applyOp(x, y, o), c)
              /\ u.ops # <<>> /\ Head(u.ops) = o /\ ~u.dead
          <6>1. Reduced(u, m, x, y, o, c)
            BY <3>5, <5>3, ReduceUp
          <6> QED
            BY <6>1 DEF Reduced
        <5>5. ASSUME NEW A, AtLeast(p) \subseteq A
              PROVE  ReduceWhile(q, A) = ReduceWhile(Reduce(u), A)
          <6>1. ReduceWhile(q, A) = ReduceWhile(u, A)
            BY <4>1, <5>1, <5>2, <5>5
          <6>2. ~Stopped(u, A)
            BY <4>1, <5>4, <5>5 DEF Stopped
          <6> QED
            BY <6>1, <6>2, Reducing
        <5>6. CASE o = "/" /\ y = 0
          <6>1. Combined(v1, v2, o) = <<>> /\ \A n \in Int : <<>> # <<n>>
            BY <4>3, <5>6 DEF Combined
          <6>2. \A A : AtLeast(p) \subseteq A => ReduceWhile(q, A).dead
            BY <5>4, <5>5, <5>6, DeadReduces
          <6> QED
            BY <6>1, <6>2 DEF Pending
        <5>7. CASE ~(o = "/" /\ y = 0)
          <6>1. v2 # <<>> /\ v1 # <<>> /\ ~(o = "/" /\ v2 = <<0>>) /\ v1[1] = x /\ v2[1] = y
            BY <2>4, <4>3, <5>7, OneValue
          <6>2. PICK n \in Int : n = applyOp(x, y, o)
            BY <5>7, ApplyType
          <6>3. Combined(v1, v2, o) = <<n>>
            BY <6>1, <6>2 DEF Combined
          <6>4. \A A : AtLeast(p) \subseteq A => ReduceWhile(q, A) = ReduceWhile(Up(m, n, c), A)
            BY <5>4, <5>5, <5>7, <6>2
          <6>5. <<n>> # <<>> /\ \A i \in Int : <<n>> = <<i>> => i = n
            BY OneValue
          <6> QED
            BY <6>3, <6>4, <6>5 DEF Pending
        <5> QED
          BY <5>6, <5>7
      <4> QED
        BY <1>3, <4>2, <4>3 DEF Values
    <3> QED
      BY <3>9, <3>10 DEF Leads
  <2> QED
    BY <1>3, <2>3, <2>4 DEF Values
<1> QED
  BY <1>1, <1>3, <1>4, <1>5, <1>6, CombinedType DEF Understood

Number(n) ==
  IF n < 10 THEN <<Digits[n + 1]>> ELSE <<Digits[(n \div 10) + 1], Digits[(n % 10) + 1]>>

LEMMA TwoLetters ==
  ASSUME NEW g \in Chars, NEW h \in Chars
  PROVE  <<g, h>> = <<g>> \o <<h>>
<1>1. PICK s : s = <<g, h>>
  OBVIOUS
<1>2. PICK t : t = <<g>> \o <<h>>
  OBVIOUS
<1>3. s \in Seq(Chars) /\ Len(s) = 2 /\ s[1] = g /\ s[2] = h
  BY <1>1
<1>4. t \in Seq(Chars) /\ Len(t) = 2 /\ t[1] = g /\ t[2] = h
  BY <1>2
<1>5. \A i \in 1..2 : i = 1 \/ i = 2
  OBVIOUS
<1>6. s = t
  BY <1>3, <1>4, <1>5, SeqEqual
<1> QED
  BY <1>1, <1>2, <1>6

LEMMA NumberLeads ==
  ASSUME NEW n \in 0..99
  PROVE  Understood(Number(n), <<n>>, 3)
<1>1. ASSUME NEW m \in Machine, ~m.dead, ~m.num, NEW dg \in 0..9
      PROVE  /\ Up(m, dg, TRUE) \in Machine /\ Digits[dg + 1] \in Chars
             /\ Reads(m, <<Digits[dg + 1]>>, Up(m, dg, TRUE))
             /\ <<Digits[dg + 1]>> \in Seq(Chars)
  <2>1. Up(m, dg, TRUE) \in Machine /\ Digits[dg + 1] \in Chars
    <3>1. dg \in Int
      OBVIOUS
    <3> QED
      BY <3>1, UpIn, CharsAre
  <2>2. Step(m, Digits[dg + 1]) = Up(m, dg, TRUE)
    BY <1>1, StepDigit
  <2> QED
    BY <2>1, <2>2, ReadOne
<1>2. CASE n < 10
  <2>1. n \in 0..9 /\ n \in Int
    BY <1>2
  <2>2. ASSUME NEW m \in Machine, ~m.dead, ~m.num
        PROVE  Leads(Number(n), <<n>>, 3, m)
    <3>1. Up(m, n, TRUE) \in Machine /\ Reads(m, Number(n), Up(m, n, TRUE))
      BY <1>1, <1>2, <2>1, <2>2 DEF Number
    <3>2. Pending(Up(m, n, TRUE), m, <<n>>, 3)
      BY <2>1, IsPending
    <3> QED
      BY <3>1, <3>2 DEF Leads
  <2>3. <<Digits[n + 1]>> \in Seq(Chars)
    BY <2>1, CharsAre
  <2> QED
    BY <1>2, <2>1, <2>2, <2>3, OneValue DEF Number, Understood
<1>3. CASE ~(n < 10)
  <2>1. PICK dg \in 0..9, e \in 0..9 : dg = n \div 10 /\ e = n % 10 /\ 10 * dg + e = n
    <3>1. n \div 10 \in 0..9 /\ n % 10 \in 0..9 /\ 10 * (n \div 10) + (n % 10) = n
      OBVIOUS
    <3> QED
      BY <3>1
  <2>2. PICK g, h : g = Digits[dg + 1] /\ h = Digits[e + 1] /\ g \in Chars /\ h \in Chars
    BY CharsAre
  <2>3. Number(n) = <<g>> \o <<h>> /\ <<g>> \in Seq(Chars) /\ <<h>> \in Seq(Chars)
        /\ Number(n) \in Seq(Chars) /\ n \in Int
    <3>1. Number(n) = <<g, h>>
      BY <1>3, <2>1, <2>2 DEF Number
    <3>2. <<g, h>> = <<g>> \o <<h>>
      BY <2>2, TwoLetters
    <3>3. <<g, h>> \in Seq(Chars) /\ <<g>> \in Seq(Chars) /\ <<h>> \in Seq(Chars)
      BY <2>2
    <3> QED
      BY <3>1, <3>2, <3>3
  <2>4. ASSUME NEW m \in Machine, ~m.dead, ~m.num
        PROVE  Leads(Number(n), <<n>>, 3, m)
    <3>1. PICK k \in Machine : k = Up(m, dg, TRUE) /\ Reads(m, <<g>>, k)
      BY <1>1, <2>2, <2>4
    <3>a. dg \in Int
      OBVIOUS
    <3>b. ~k.dead
      BY <3>1, <3>a, UpIs
    <3>2. Step(k, h) = Up(m, 10 * dg + e, TRUE)
      <4>1. \A j \in Machine, i \in Int :
              k = Up(j, i, TRUE) => Step(k, Digits[e + 1]) = Up(j, 10 * i + e, TRUE)
        BY <3>b, StepDigit
      <4> QED
        BY <2>2, <3>1, <3>a, <4>1
    <3>3. Step(k, h) = Up(m, n, TRUE)
      BY <2>1, <3>2
    <3>4. PICK r \in Machine : r = Up(m, n, TRUE)
      BY <2>3, UpIn
    <3>5. Reads(k, <<h>>, r)
      BY <2>2, <3>3, <3>4, ReadOne
    <3>6. Reads(m, Number(n), r)
      <4>1. Reads(m, <<g>> \o <<h>>, r)
        BY <2>3, <3>1, <3>5, ReadOn
      <4> QED
        BY <2>3, <4>1
    <3>7. Pending(Up(m, n, TRUE), m, <<n>>, 3)
      BY <2>3, IsPending
    <3> QED
      BY <3>4, <3>6, <3>7 DEF Leads
  <2> QED
    BY <2>3, <2>4, OneValue DEF Understood
<1> QED
  BY <1>2, <1>3

\* A text by itself.
LEMMA UnderstoodIsEvaluated ==
  ASSUME NEW w, NEW v, NEW s \in 1..3, Understood(w, v, s)
  PROVE  evaluate(w) = v
<1>1. Start \in Machine /\ ~Start.dead /\ ~Start.num /\ Start.ops = <<>> /\ Start.vals = <<>>
  BY DEF Start, Machine
<1>2. Ctx(Start, s)
  BY <1>1 DEF Ctx
<1>3. PICK r \in Machine : Reads(Start, w, r) /\ Pending(r, Start, v, s)
  BY <1>1, <1>2 DEF Understood, Leads
<1>4. w \in Seq(Chars) /\ v \in Values
  BY DEF Understood
<1>5. evaluate(w) = Answer(r)
  BY <1>3, <1>4, EvaluateIs
<1>6. PICK A : A = Ops \cup {"("} /\ AtLeast(s) \subseteq A
  <2>1. AtLeast(s) \subseteq Ops
    BY Levels
  <2> QED
    BY <2>1
<1>7. CASE v = <<>>
  <2>1. ReduceWhile(r, A).dead
    BY <1>3, <1>6, <1>7 DEF Pending
  <2> QED
    BY <1>5, <1>6, <1>7, <2>1 DEF Answer
<1>8. ASSUME NEW x \in Int, v = <<x>> PROVE evaluate(w) = v
  <2>1. PICK b \in BOOLEAN : ReduceWhile(r, A) = Up(Start, x, b)
    BY <1>1, <1>3, <1>6, <1>8, Ready
  <2>2. PICK m \in Machine : m = Start
    BY <1>1
  <2>3. ~Up(m, x, b).dead /\ Up(m, x, b).vals # <<>> /\ Head(Up(m, x, b).vals) = x
    BY UpIs
  <2> QED
    BY <1>5, <1>6, <1>8, <2>1, <2>2, <2>3 DEF Answer
<1> QED
  BY <1>4, <1>7, <1>8 DEF Values

(* Calculator: the trees. *)

Small == {Leaf(n) : n \in Leaves}
Middle == Grow(Small)

LEMMA NodeIs ==
  ASSUME NEW o \in Ops, NEW l, NEW r
  PROVE  Node(o, l, r).op = o /\ Node(o, l, r).l = l /\ Node(o, l, r).r = r /\ o # "num"
BY DEF Node, Ops

LEMMA LeafIs ==
  ASSUME NEW t \in Small
  PROVE  t.op = "num" /\ t.n \in 0..99
BY LeavesAssumption DEF Small, Leaf

LEMMA TreesAre ==
  /\ Small \subseteq Middle /\ Middle \subseteq Trees
  /\ \A t \in Middle : t \in Small \/ \E o \in Ops, l \in Small, r \in Small : t = Node(o, l, r)
  /\ \A t \in Trees : t \in Small \/ \E o \in Ops, l \in Middle, r \in Middle : t = Node(o, l, r)
<1>1. Trees = Grow(Middle)
  BY DEF Trees, Middle, Small
<1>2. \A Ts : Ts \subseteq Grow(Ts) /\ \A t \in Grow(Ts) :
               t \in Ts \/ \E o \in Ops, l \in Ts, r \in Ts : t = Node(o, l, r)
  BY DEF Grow
<1>3. Small \subseteq Middle /\ Middle \subseteq Trees
  BY <1>1, <1>2 DEF Middle
<1>4. \A t \in Middle : t \in Small \/ \E o \in Ops, l \in Small, r \in Small : t = Node(o, l, r)
  BY <1>2 DEF Middle
<1>5. \A t \in Trees : t \in Middle \/ \E o \in Ops, l \in Middle, r \in Middle : t = Node(o, l, r)
  BY <1>1, <1>2
<1>6. ASSUME NEW t \in Trees
      PROVE  t \in Small \/ \E o \in Ops, l \in Middle, r \in Middle : t = Node(o, l, r)
  <2>1. CASE t \in Middle
    BY <1>3, <1>4, <2>1
  <2>2. CASE t \notin Middle
    BY <1>5, <2>2
  <2> QED
    BY <2>1, <2>2
<1> QED
  BY <1>3, <1>4, <1>6

\* A subtree is a smaller tree.
LEMMA Subtrees ==
  /\ \A t \in Middle : t.op # "num" => t.l \in Small /\ t.r \in Small
  /\ \A t \in Trees : t.op # "num" => t.l \in Middle /\ t.r \in Middle
<1>1. ASSUME NEW t \in Middle, t.op # "num" PROVE t.l \in Small /\ t.r \in Small
  BY <1>1, TreesAre, NodeIs, LeafIs
<1>2. ASSUME NEW t \in Trees, t.op # "num" PROVE t.l \in Middle /\ t.r \in Middle
  BY <1>2, TreesAre, NodeIs, LeafIs
<1> QED
  BY <1>1, <1>2

Wrap(w, weak) == IF weak THEN <<"(">> \o w \o <<")">> ELSE w
TextOf(a, b, t) ==
  IF t.op = "num" THEN Number(t.n)
  ELSE Wrap(a, Strength(t.l) < Strength(t)) \o <<t.op>> \o Wrap(b, Strength(t.r) <= Strength(t))
WorthOf(a, b, t) == IF t.op = "num" THEN <<t.n>> ELSE Combined(a, b, t.op)

LEMMA ShownIs == \A t \in Trees : Shown[t] = TextOf(Shown[t.l], Shown[t.r], t)
<1> DEFINE g == [t \in Trees |-> Number(t.n)]
           h == [t \in Trees |-> TextOf(g[t.l], g[t.r], t)]
           f == [t \in Trees |-> TextOf(h[t.l], h[t.r], t)]
           Is(k) == k = [t \in Trees |-> TextOf(k[t.l], k[t.r], t)]
<1>1. \A a, b, t : t.op = "num" => TextOf(a, b, t) = Number(t.n)
  BY DEF TextOf
<1>2. /\ \A t \in Trees : g[t] = Number(t.n)
      /\ \A t \in Trees : h[t] = TextOf(g[t.l], g[t.r], t)
      /\ \A t \in Trees : f[t] = TextOf(h[t.l], h[t.r], t)
      /\ f = [t \in Trees |-> TextOf(h[t.l], h[t.r], t)]
  OBVIOUS
<1> HIDE DEF f, g, h
<1>3. ASSUME NEW t \in Small PROVE g[t] = h[t]
  <2>1. t.op = "num" /\ t \in Trees
    BY LeafIs, TreesAre
  <2> QED
    BY <1>1, <1>2, <2>1
<1>4. ASSUME NEW t \in Middle PROVE h[t] = f[t]
  <2>1. t \in Trees
    BY TreesAre
  <2>2. CASE t.op = "num"
    BY <1>1, <1>2, <2>1, <2>2
  <2>3. CASE t.op # "num"
    <3>1. g[t.l] = h[t.l] /\ g[t.r] = h[t.r]
      BY <1>3, <2>3, Subtrees
    <3> QED
      BY <1>2, <2>1, <3>1
  <2> QED
    BY <2>2, <2>3
<1>5. ASSUME NEW t \in Trees PROVE TextOf(h[t.l], h[t.r], t) = TextOf(f[t.l], f[t.r], t)
  <2>1. CASE t.op = "num"
    BY <1>1, <2>1
  <2>2. CASE t.op # "num"
    <3>1. h[t.l] = f[t.l] /\ h[t.r] = f[t.r]
      BY <1>4, <2>2, Subtrees
    <3> QED
      BY <3>1
  <2> QED
    BY <2>1, <2>2
<1>6. Is(f)
  BY <1>2, <1>5
<1>7. Shown = CHOOSE k : Is(k)
  BY DEF Shown, TextOf, Wrap, Number
<1>8. Is(Shown)
  <2> HIDE DEF Is
  <2> QED
    BY <1>6, <1>7
<1> QED
  BY <1>8

LEMMA WorthIs == \A t \in Trees : Worth[t] = WorthOf(Worth[t.l], Worth[t.r], t)
<1> DEFINE g == [t \in Trees |-> <<t.n>>]
           h == [t \in Trees |-> WorthOf(g[t.l], g[t.r], t)]
           f == [t \in Trees |-> WorthOf(h[t.l], h[t.r], t)]
           Is(k) == k = [t \in Trees |-> WorthOf(k[t.l], k[t.r], t)]
<1>1. \A a, b, t : t.op = "num" => WorthOf(a, b, t) = <<t.n>>
  BY DEF WorthOf
<1>2. /\ \A t \in Trees : g[t] = <<t.n>>
      /\ \A t \in Trees : h[t] = WorthOf(g[t.l], g[t.r], t)
      /\ \A t \in Trees : f[t] = WorthOf(h[t.l], h[t.r], t)
      /\ f = [t \in Trees |-> WorthOf(h[t.l], h[t.r], t)]
  OBVIOUS
<1> HIDE DEF f, g, h
<1>3. ASSUME NEW t \in Small PROVE g[t] = h[t]
  <2>1. t.op = "num" /\ t \in Trees
    BY LeafIs, TreesAre
  <2> QED
    BY <1>1, <1>2, <2>1
<1>4. ASSUME NEW t \in Middle PROVE h[t] = f[t]
  <2>1. t \in Trees
    BY TreesAre
  <2>2. CASE t.op = "num"
    BY <1>1, <1>2, <2>1, <2>2
  <2>3. CASE t.op # "num"
    <3>1. g[t.l] = h[t.l] /\ g[t.r] = h[t.r]
      BY <1>3, <2>3, Subtrees
    <3> QED
      BY <1>2, <2>1, <3>1
  <2> QED
    BY <2>2, <2>3
<1>5. ASSUME NEW t \in Trees PROVE WorthOf(h[t.l], h[t.r], t) = WorthOf(f[t.l], f[t.r], t)
  <2>1. CASE t.op = "num"
    BY <1>1, <2>1
  <2>2. CASE t.op # "num"
    <3>1. h[t.l] = f[t.l] /\ h[t.r] = f[t.r]
      BY <1>4, <2>2, Subtrees
    <3> QED
      BY <3>1
  <2> QED
    BY <2>1, <2>2
<1>6. Is(f)
  BY <1>2, <1>5
<1>7. Worth = CHOOSE k : Is(k)
  BY DEF Worth, WorthOf, Combined
<1>8. Is(Worth)
  <2> HIDE DEF Is
  <2> QED
    BY <1>6, <1>7
<1> QED
  BY <1>8

Good(t) == Strength(t) \in 1..3 /\ Understood(Shown[t], Worth[t], Strength(t))

LEMMA GoodLeaf ==
  ASSUME NEW t \in Small
  PROVE  Good(t)
<1>1. t.op = "num" /\ t.n \in 0..99 /\ t \in Trees
  BY LeafIs, TreesAre
<1>2. Strength(t) = 3
  BY <1>1 DEF Strength
<1>3. Shown[t] = Number(t.n) /\ Worth[t] = <<t.n>>
  BY <1>1, ShownIs, WorthIs DEF TextOf, WorthOf
<1>4. PICK n \in 0..99 : n = t.n
  BY <1>1
<1>5. Understood(Number(n), <<n>>, 3)
  BY NumberLeads
<1>6. Strength(t) \in 1..3
  BY <1>2
<1> QED
  BY <1>2, <1>3, <1>4, <1>5, <1>6 DEF Good

LEMMA GoodNode ==
  ASSUME NEW o \in Ops, NEW l, NEW r, NEW t \in Trees, t = Node(o, l, r), Good(l), Good(r)
  PROVE  Good(t)
<1>1. t.op = o /\ t.l = l /\ t.r = r /\ o # "num"
  BY NodeIs
<1>2. PICK p \in 1..2 : p = precedence(o)
  BY Levels
<1>3. Strength(t) = p
  BY <1>1, <1>2 DEF Strength, precedence, Ops
<1>4. PICK a, b : a = Wrap(Shown[l], Strength(l) < p) /\ b = Wrap(Shown[r], Strength(r) <= p)
  OBVIOUS
<1>5. Shown[t] = (a \o <<o>>) \o b
  BY <1>1, <1>3, <1>4, ShownIs DEF TextOf
<1>6. Worth[t] = Combined(Worth[l], Worth[r], o)
  BY <1>1, WorthIs DEF WorthOf
<1>7. p \in 1..3 /\ p + 1 \in 1..3 /\ p <= 3 /\ p + 1 <= 3
  OBVIOUS
<1>8. Understood(a, Worth[l], p)
  <2>1. CASE Strength(l) < p
    <3>1. Understood(a, Worth[l], 3)
      BY <1>4, <2>1, Wrapped DEF Wrap, Good
    <3> QED
      BY <1>7, <3>1, Weaker
  <2>2. CASE ~(Strength(l) < p)
    <3>1. a = Shown[l] /\ p <= Strength(l)
      BY <1>4, <2>2 DEF Wrap, Good
    <3> QED
      BY <1>7, <3>1, Weaker DEF Good
  <2> QED
    BY <2>1, <2>2
<1>9. Understood(b, Worth[r], p + 1)
  <2>1. CASE Strength(r) <= p
    <3>1. Understood(b, Worth[r], 3)
      BY <1>4, <2>1, Wrapped DEF Wrap, Good
    <3> QED
      BY <1>7, <3>1, Weaker
  <2>2. CASE ~(Strength(r) <= p)
    <3>1. b = Shown[r] /\ p + 1 <= Strength(r)
      BY <1>4, <2>2 DEF Wrap, Good
    <3> QED
      BY <1>7, <3>1, Weaker DEF Good
  <2> QED
    BY <2>1, <2>2
<1>10. Understood((a \o <<o>>) \o b, Combined(Worth[l], Worth[r], o), p)
  BY <1>2, <1>8, <1>9, Joined
<1> QED
  BY <1>3, <1>5, <1>6, <1>7, <1>10 DEF Good

LEMMA GoodTrees == \A t \in Trees : Good(t)
<1>1. \A t \in Small : Good(t)
  BY GoodLeaf
<1>2. ASSUME NEW t \in Middle PROVE Good(t)
  <2>1. CASE t \in Small
    BY <1>1, <2>1
  <2>2. ASSUME NEW o \in Ops, NEW l \in Small, NEW r \in Small, t = Node(o, l, r) PROVE Good(t)
    <3>1. t \in Trees /\ Good(l) /\ Good(r)
      BY <1>1, TreesAre
    <3> QED
      BY <2>2, <3>1, GoodNode
  <2> QED
    BY <2>1, <2>2, TreesAre
<1>3. ASSUME NEW t \in Trees PROVE Good(t)
  <2>1. CASE t \in Small
    BY <1>1, <2>1
  <2>2. ASSUME NEW o \in Ops, NEW l \in Middle, NEW r \in Middle, t = Node(o, l, r) PROVE Good(t)
    <3>1. Good(l) /\ Good(r)
      BY <1>2
    <3> QED
      BY <2>2, <3>1, GoodNode
  <2> QED
    BY <2>1, <2>2, TreesAre
<1> QED
  BY <1>3

CalcInv ==
  \/ line = <<"none">> /\ ended
  \/ /\ tree \in Trees /\ line \in {<<>>, Shown[tree]}
     /\ ended => line = Shown[tree] /\ printed = evaluate(line)

LEMMA CalcInit == InitCalc \/ IdleCalc => CalcInv
BY DEF InitCalc, IdleCalc, CalcInv

LEMMA CalcStep == CalcInv /\ (NextCalc \/ UNCHANGED varsCalc) => CalcInv'
<1> SUFFICES ASSUME CalcInv, NextCalc \/ UNCHANGED varsCalc PROVE CalcInv'
  OBVIOUS
<1>1. CASE UNCHANGED varsCalc
  BY <1>1 DEF CalcInv, varsCalc
<1>2. CASE Ask
  <2>1. <<"none">> # <<>>
    OBVIOUS
  <2>2. /\ tree \in Trees /\ tree' = tree /\ line = <<>> /\ line' = Shown[tree]
        /\ printed' = printed /\ ended' = ended /\ (ended => line = Shown[tree] /\ printed = evaluate(line))
    BY <1>2, <2>1 DEF CalcInv, Ask
  <2> QED
    BY <2>2 DEF CalcInv
<1>3. CASE math_main
  BY <1>3 DEF CalcInv, math_main
<1> QED
  BY <1>1, <1>2, <1>3 DEF NextCalc

LEMMA CalcEvaluates == CalcInv => EvaluatesTree
<1> SUFFICES ASSUME CalcInv, ended, line # <<"none">> PROVE printed = Worth[tree]
  BY DEF EvaluatesTree
<1>1. tree \in Trees /\ printed = evaluate(Shown[tree])
  BY DEF CalcInv
<1>2. Good(tree)
  BY <1>1, GoodTrees
<1>3. evaluate(Shown[tree]) = Worth[tree]
  BY <1>2, UnderstoodIsEvaluated DEF Good
<1> QED
  BY <1>1, <1>3

(* The theorems. *)

IpcInv == DirInv /\ KillInv /\ ChatInv /\ LineInv /\ RingInv /\ HamInv /\ CalcInv

LEMMA Begins == Init => IpcInv /\ T!TRInit
<1>1. Init => /\ InitDir \/ IdleDir
              /\ InitKill \/ IdleKill
              /\ InitChat \/ IdleChat
              /\ InitRing \/ IdleRing
              /\ InitHamming \/ IdleHamming
              /\ InitCalc \/ IdleCalc
  BY DEF Init
<1> QED
  BY <1>1, DirInit, KillInit, ChatInit, LineInit, RingInit, HamInit, CalcInit DEF IpcInv

LEMMA Continues ==
  IpcInv /\ [Next]_vars => IpcInv' /\ [T!Speak]_<<NumProcs(prog), Turn>> /\ InOrder
<1>1. [Next]_vars => /\ NextDir \/ UNCHANGED varsDir
                     /\ NextKill \/ UNCHANGED varsKill
                     /\ NextChat \/ UNCHANGED varsChat
                     /\ NextRing \/ UNCHANGED varsRing
                     /\ NextHamming \/ UNCHANGED varsHamming
                     /\ NextCalc \/ UNCHANGED varsCalc
  BY DEF Next, vars
<1> QED
  BY <1>1, DirStep, KillStep, ChatStep, LineStep, RingStep, HamStep, CalcStep DEF IpcInv

LEMMA Invariance == Spec => []IpcInv
BY Begins, Continues, PTL DEF Spec

\* However many services there are, the list of ports of the Svayambhoo server
\* (assignment 20) is complete and a client is told no zero and no port twice,
\* as long as no two services were inside ports[ind] = port; ind++; at once;
\* T may read the list at any moment.
THEOREM ListWrongNeedsRace == Spec => []ListWrongOnlyAfterRace
<1>1. IpcInv => ListWrongOnlyAfterRace
  BY DirListed DEF IpcInv
<1> QED
  BY <1>1, Invariance, PTL

\* S of assignment 7 is not killed by SIGPIPE while it writes the first message
\* to a child, also when its handlers interrupt each other, for any number of
\* signals and of lines.
THEOREM FirstMessageIsRead == Spec => []FirstMessageArrives
<1>1. IpcInv => FirstMessageArrives
  BY KillArrives DEF IpcInv
<1> QED
  BY <1>1, Invariance, PTL

\* A client of the chat server over two queues (assignment 8, question 5) waits
\* for an answer that is not on the way only if the server has taken the answer
\* for a request or another client has the pid before or after, for all pids
\* and every length of the queues.
THEOREM WaitingOnlyByTheft == Spec => []LeftWaitingOnlyByTheft
<1>1. IpcInv => LeftWaitingOnlyByTheft
  BY ChatWaits DEF IpcInv
<1> QED
  BY <1>1, Invariance, PTL

\* A client of that server that has seen a line of another one sees the lines
\* that follow, each once and in order, unless the other one's pid is next to
\* a client's: for all pids and every number of lines.
THEOREM LinesComeInOrder == Spec => LinesInOrder
<1>1. IpcInv /\ [Next]_vars => [InOrder]_varsChat
  BY Continues
<1> QED
  BY <1>1, Invariance, PTL DEF Spec, LinesInOrder, InOrder

\* The processes of assignment 8, questions 2, 3 and 4, implement a ring in
\* which they speak in turn, and what they print as the sender of a message is
\* the process that sent it: TakesTurns without its liveness.
THEOREM ImplementsTokenRing ==
  Spec => T!TRInit /\ [][T!Speak]_<<NumProcs(prog), Turn>> /\ []ShownIsSender
<1>1. IpcInv => ShownIsSender
  BY DEF IpcInv, RingInv
<1> QED
  BY <1>1, Begins, Continues, Invariance, PTL DEF Spec

\* What hamming_code_check.cpp makes of a word of hamming_code_gen.cpp, for data
\* of any length: with at most one bit turned over on the way, a parity bit
\* included, it prints a word with the generator's data; and however many bits
\* were turned over, it never writes behind a word of full length.
THEOREM OneFlipRepaired == Spec => []OneFlipIsRepaired
<1>1. IpcInv => OneFlipIsRepaired
  BY HamRepairs DEF IpcInv
<1> QED
  BY <1>1, Invariance, PTL

\* The service math of inetd and Nitnetd prints the value of the expression
\* from which the line was made, with the parentheses it needs and no others,
\* and crashes only on a division by zero: for every set of numbers of one or
\* two digits, and expressions of up to four of them.
THEOREM PrintsTheValue == Spec => []EvaluatesTree
<1>1. IpcInv => EvaluatesTree
  BY CalcEvaluates DEF IpcInv
<1> QED
  BY <1>1, Invariance, PTL

==============================================================================
