----------------------------- MODULE Placement -----------------------------
(***************************************************************************)
(* Mid semester exam, question 2: the placement server AT takes in         *)
(* students and passes them to the rounds R1, R2 and R3.  The four         *)
(* programs first connect to each other over named Unix sockets; each      *)
(* start-up is the sequence of calls that the program makes, in order:     *)
(* connect (which exits when nobody listens on the name), listen (which    *)
(* takes the name over) and accept (which blocks).                         *)
(*                                                                         *)
(* The rounds pass an uninitialised length to accept, which fails when it  *)
(* happens to be negative.  J blocks in its first open until R1 has a      *)
(* result for it, so it takes no step of its own before the rounds do.     *)
(***************************************************************************)
EXTENDS Naturals, Sequences, FiniteSets

CONSTANTS Students,   \* the clients of AT, an external program
          MaxForms,   \* bound: messages sent by one student
          MaxGone     \* bound: students that leave

VARIABLES exam,    \* the programs have been started: TRUE or FALSE
          step,    \* how far each program has come in its start-up
          state,   \* each program: "up", "exited" or "killed"
          owner,   \* who listens on each name last, or "nobody"
          pend,    \* connections waiting: <<listener, name>> -> number
          nsfd8,   \* AT: the students taken in, in order
          stu,     \* each student: "off", "new", "wait", "open" or "left"
          forms,   \* messages each has sent
          inq,     \* messages not read by AT
          resetq,  \* the connections that have been reset
          given    \* AT: how many descriptors each round has been sent

varsPl == <<exam, step, state, owner, pend, nsfd8, stu, forms, inq, resetq, given>>

Rounds3 == {"R1", "R2", "R3"}
Programs2 == {"AT"} \cup Rounds3
Names == {"fsock1", "fsock2", "fsock3", "fsock4", "fscok5", "fscok6", "fsock6"}

conn(name) == [op |-> "conn", name |-> name]
listen(name) == [op |-> "listen", name |-> name]
accept(name) == [op |-> "accept", name |-> name]

(***************************************************************************)
(* The start-ups, with the names as they are spelled in each file.         *)
(***************************************************************************)
AT_script == << listen("fsock1"), listen("fsock2"), listen("fsock3"),
                accept("fsock1"), accept("fsock2"), accept("fsock3") >>
R1_script == << conn("fsock1"), listen("fsock4"), listen("fscok5"),
                accept("fsock4"), accept("fscok5"), conn("fsock4"), conn("fscok5") >>
R2_script == << conn("fsock2"), conn("fsock4"), listen("fsock4"), listen("fscok6"),
                accept("fsock4"), accept("fscok6"), conn("fscok6") >>
R3_script == << conn("fsock3"), conn("fsock6"), conn("fscok5"), listen("fsock6"),
                listen("fscok5"), accept("fsock6"), accept("fscok5") >>

Script(p) == CASE p = "AT" -> AT_script [] p = "R1" -> R1_script
               [] p = "R2" -> R2_script [] p = "R3" -> R3_script

BlankPl ==
  /\ step = [p \in Programs2 |-> 1] /\ state = [p \in Programs2 |-> "up"]
  /\ owner = [n \in Names |-> "nobody"]
  /\ pend = [l \in Programs2 \X Names |-> 0]
  /\ nsfd8 = <<>> /\ forms = [s \in Students |-> 0] /\ inq = [s \in Students |-> 0]
  /\ resetq = {} /\ given = [r \in Rounds3 |-> 0]

InitPl == exam = TRUE /\ stu = [s \in Students |-> "new"] /\ BlankPl
IdlePl == exam = FALSE /\ stu = [s \in Students |-> "off"] /\ BlankPl

InLoop(p) == state[p] = "up" /\ step[p] > Len(Script(p))
At2(p, op) == exam /\ state[p] = "up" /\ step[p] <= Len(Script(p))
                   /\ Script(p)[step[p]].op = op
Name(p) == Script(p)[step[p]].name
Exit(p) == state' = [state EXCEPT ![p] = "exited"] /\ UNCHANGED step
Go(p) == step' = [step EXCEPT ![p] = @ + 1] /\ UNCHANGED state

cli_conn8(p) ==
  /\ At2(p, "conn")
  /\ LET l == owner[Name(p)]
     IN  IF l # "nobody" /\ state[l] = "up"
         THEN Go(p) /\ pend' = [pend EXCEPT ![<<l, Name(p)>>] = @ + 1]
         ELSE Exit(p) /\ UNCHANGED pend
  /\ UNCHANGED <<exam, owner, nsfd8, stu, forms, inq, resetq, given>>

serv_listen8(p) ==
  /\ At2(p, "listen")
  /\ owner' = [owner EXCEPT ![Name(p)] = p]
  /\ Go(p)
  /\ UNCHANGED <<exam, pend, nsfd8, stu, forms, inq, resetq, given>>

\* AT initialises its lengths, the rounds do not.
accept8(p) ==
  /\ At2(p, "accept") /\ pend[p, Name(p)] > 0
  /\ pend' = [pend EXCEPT ![<<p, Name(p)>>] = @ - 1]
  /\ Go(p) \/ (p # "AT" /\ Exit(p))
  /\ UNCHANGED <<exam, owner, nsfd8, stu, forms, inq, resetq, given>>

StartUp(p) == cli_conn8(p) \/ serv_listen8(p) \/ accept8(p)
AT_main == serv_listen8("AT") \/ accept8("AT")
R1_main == StartUp("R1")
R2_main == StartUp("R2")
R3_main == StartUp("R3")

(***************************************************************************)
(* AT's loop: whoever is waiting is taken in first; a student that can be  *)
(* read gets an answer and is passed to a round by its index.  The first   *)
(* write to a student that has gone is answered with a reset; the next one *)
(* and a descriptor sent to a round that has exited are SIGPIPE.           *)
(***************************************************************************)
New == {s \in Students : stu[s] = "wait"}

at_accept ==
  /\ InLoop("AT") /\ New # {}
  /\ \E s \in New : /\ stu' = [stu EXCEPT ![s] = "open"]
                    /\ nsfd8' = Append(nsfd8, s)
  /\ UNCHANGED <<exam, step, state, owner, pend, forms, inq, resetq, given>>

M_Target(i) == IF i % 2 = 1 THEN "R1" ELSE "R3"
Target8(i) == CASE i % 3 = 1 -> "R1" [] i % 3 = 2 -> "R2" [] OTHER -> "R3"
send_fd8(r) == IF state[r] = "up" THEN given' = [given EXCEPT ![r] = @ + 1] /\ UNCHANGED state
               ELSE state' = [state EXCEPT !["AT"] = "killed"] /\ UNCHANGED given

at_serve(i) ==
  /\ InLoop("AT") /\ New = {}
  /\ LET s == nsfd8[i]
     IN  /\ inq[s] > 0 \/ stu[s] = "left"
         /\ inq' = [inq EXCEPT ![s] = IF @ > 0 THEN @ - 1 ELSE @]
         /\ IF stu[s] = "left" /\ s \in resetq
            THEN state' = [state EXCEPT !["AT"] = "killed"] /\ UNCHANGED <<resetq, given>>
            ELSE /\ resetq' = IF stu[s] = "left" THEN resetq \cup {s} ELSE resetq
                 /\ send_fd8(Target8(i))
  /\ UNCHANGED <<exam, step, owner, pend, nsfd8, stu, forms>>

(***************************************************************************)
(* The students: client.c does not compile (opt is declared twice), so     *)
(* this is what AT expects of its clients.                                 *)
(***************************************************************************)
student(s) ==
  /\ \/ /\ stu[s] = "new" /\ step["AT"] > 1
        /\ stu' = [stu EXCEPT ![s] = IF state["AT"] = "up" THEN "wait" ELSE "left"]
        /\ UNCHANGED <<forms, inq>>
     \/ /\ stu[s] = "open" /\ forms[s] < MaxForms
        /\ forms' = [forms EXCEPT ![s] = @ + 1] /\ inq' = [inq EXCEPT ![s] = @ + 1]
        /\ UNCHANGED stu
     \/ /\ stu[s] = "open" /\ Cardinality({t \in Students : stu[t] = "left"}) < MaxGone
        /\ stu' = [stu EXCEPT ![s] = "left"] /\ UNCHANGED <<forms, inq>>
  /\ UNCHANGED <<exam, step, state, owner, pend, nsfd8, resetq, given>>
-----------------------------------------------------------------------------
AT == AT_main \/ at_accept \/ \E i \in DOMAIN nsfd8 : at_serve(i)

NextPl == AT \/ R1_main \/ R2_main \/ R3_main \/ \E s \in Students : student(s)

\* The programs run once they are started; nobody has to be a student.
FairPl ==
  /\ WF_varsPl(AT)
  /\ WF_varsPl(R1_main) /\ WF_varsPl(R2_main) /\ WF_varsPl(R3_main)
-----------------------------------------------------------------------------
(***************************************************************************)
(* No order of starting the programs gets a round into its loop: R3        *)
(* connects to "./fsock6" while R2 listens on "./fscok6", so R3 exits, R1  *)
(* waits for R3 and R2 for R1.  The students AT has passed on stay in the  *)
(* sockets of rounds that never read them.                                 *)
(***************************************************************************)
NoRoundStarts == \A r \in Rounds3 : ~InLoop(r)

(***************************************************************************)
(* "A Ci has to have all rounds of interview in any of the sequences       *)
(* R1R2R3 or R2R3R1 or R3R1R2" (image.png): a round that AT has passed a   *)
(* student to comes to its loop, where it receives it.  R2 exits if it is  *)
(* started before R1 listens (r2.c:197); that is the operator's mistake.   *)
(***************************************************************************)
PassedIsInterviewed ==
  \A r \in Rounds3 : given[r] > 0 ~> InLoop(r) \/ state["R2"] = "exited"

(***************************************************************************)
(* AT is killed by SIGPIPE when it passes a student to a round that has    *)
(* exited.  While every student stays and R1 and R2 are up, it is the      *)
(* third student that kills it; AT in its loop at all means that R3 once   *)
(* got as far as connecting.                                               *)
(***************************************************************************)
ThirdStudentKills ==
  /\ (state["AT"] = "killed" /\ state["R1"] = "up" /\ state["R2"] = "up"
        /\ \A s \in Students : stu[s] # "left") => Len(nsfd8) >= 3
  /\ InLoop("AT") => step["R3"] > 1
=============================================================================
