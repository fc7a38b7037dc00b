--------------------------- MODULE PortDirectory ---------------------------
(***************************************************************************)
(* The Svayambhoo server with tracer (assignment 20): the list of ports in *)
(* shared memory.  A service enters its port when it starts, with the      *)
(* semaphore that should protect the two statements commented out; T's     *)
(* second thread answers a client's '?' with one datagram per port and a   *)
(* last one of -1.                                                         *)
(*                                                                         *)
(* The segment is never removed: both calls of IPC_RMID stand behind an    *)
(* endless loop (service.c:243, tracer.c:176).  So the list holds what all *)
(* runs of service.c have entered since the segment was created, those     *)
(* that have ended, at any point, included.  What services and clients do  *)
(* with each other is the subject of module Swayambhoo.                    *)
(***************************************************************************)
EXTENDS Naturals, Sequences

CONSTANTS Svcs,      \* the runs of service.c, at the same time or one by one
          PortOf,    \* the port each is started with
          Askers,    \* the clients
          Room       \* the length of ports[] in shared memory

\* An index that is a port number lies behind the segment.
ASSUME PortsAssumption ==
  Room \in Nat /\ PortOf \in [Svcs -> Nat] /\ \A s \in Svcs : PortOf[s] > Room

VARIABLES dir,     \* T: "start", "bound"; "off" when nothing is started
          ports,   \* shared memory: the ports, 0 where nothing was entered
          ind,     \* shared memory: how many there are
          reg,     \* each service: where it is in service.c:93-94
          idx,     \* each service: the value of ind it has read
          raced,   \* history: two services were between these lines at once
          entered, \* history: the ports whose service got past these lines
          asked,   \* the clients whose '?' T has not taken, in order
          tpos,    \* T: [c, i] the client it answers and the next index, or none
          ask,     \* each client: "new", "wait", "told" or "lost"
          told,    \* what each client has been told
          since    \* history: the length of entered when each client asked

enterVars == <<ports, ind, reg, idx, raced, entered>>
askVars   == <<asked, tpos, ask, told, since>>
varsDir   == <<dir, enterVars, askVars>>

Nobody == [c |-> "none", i |-> 0]

BlankDir ==
  /\ ports = [k \in 0..(Room - 1) |-> 0] /\ ind = 0
  /\ reg = [s \in Svcs |-> "start"] /\ idx = [s \in Svcs |-> 0]
  /\ raced = FALSE /\ entered = <<>>
  /\ asked = <<>> /\ tpos = Nobody /\ ask = [c \in Askers |-> "new"]
  /\ told = [c \in Askers |-> <<>>] /\ since = [c \in Askers |-> 0]

InitDir == dir = "start" /\ BlankDir
IdleDir == dir = "off" /\ BlankDir

(***************************************************************************)
(* ports[ind] = port; ind++; as the four memory accesses they are.         *)
(***************************************************************************)
Inside(s) == reg[s] \in {"store", "load", "add"}
Goes(s, where) == reg' = [reg EXCEPT ![s] = where]

Meets == raced' = (raced \/ \E t \in Svcs : Inside(t))

M_PreIncrement(s) ==
  /\ dir # "off" /\ reg[s] = "start" /\ Goes(s, "store") /\ Meets
  /\ idx' = [idx EXCEPT ![s] = ind + 1]
  /\ UNCHANGED <<dir, ports, ind, entered, askVars>>

enter_read(s) ==
  /\ dir # "off" /\ reg[s] = "start" /\ Goes(s, "store") /\ Meets
  /\ idx' = [idx EXCEPT ![s] = ind]
  /\ UNCHANGED <<dir, ports, ind, entered, askVars>>

\* ports[Room] is ind itself.  An index beyond it is a port number, far behind
\* the segment: the store is a segmentation fault or hits something else.
enter_store(s) ==
  /\ reg[s] = "store"
  /\ \/ /\ idx[s] < Room /\ Goes(s, "load")
        /\ ports' = [ports EXCEPT ![idx[s]] = PortOf[s]] /\ UNCHANGED ind
     \/ /\ idx[s] = Room /\ Goes(s, "load")
        /\ ind' = PortOf[s] /\ UNCHANGED ports
     \/ /\ idx[s] > Room /\ (Goes(s, "load") \/ Goes(s, "ended"))
        /\ UNCHANGED <<ports, ind>>
  /\ UNCHANGED <<dir, idx, raced, entered, askVars>>

enter_load(s) ==
  /\ reg[s] = "load" /\ Goes(s, "add")
  /\ idx' = [idx EXCEPT ![s] = ind]
  /\ UNCHANGED <<dir, ports, ind, raced, entered, askVars>>

enter_add(s) ==
  /\ reg[s] = "add" /\ Goes(s, "in")
  /\ ind' = idx[s] + 1
  /\ entered' = Append(entered, PortOf[s])
  /\ UNCHANGED <<dir, ports, idx, raced, askVars>>

\* A service ends, also between the two lines, and takes nothing back.
svc_end(s) ==
  /\ Inside(s) \/ reg[s] = "in"
  /\ Goes(s, "ended")
  /\ UNCHANGED <<dir, ports, ind, idx, raced, entered, askVars>>

(***************************************************************************)
(* T's second thread reads ind anew in every turn of its loop.             *)
(***************************************************************************)
dir_bind ==
  /\ dir = "start" /\ dir' = "bound"
  /\ UNCHANGED <<enterVars, askVars>>

func2_recv ==
  /\ dir = "bound" /\ tpos = Nobody /\ asked # <<>>
  /\ tpos' = [c |-> Head(asked), i |-> 0]
  /\ asked' = Tail(asked)
  /\ UNCHANGED <<dir, enterVars, ask, told, since>>

\* What sendto finds at ports[i]: behind the list ind, then zeros and, where
\* the segment ends, nothing that it could send.
PortAt(i) == CASE i < Room -> {<<ports[i]>>}
               [] i = Room -> {<<ind>>}
               [] OTHER -> {<<0>>, <<>>}

func2_send ==
  /\ tpos # Nobody
  /\ \/ /\ tpos.i < ind
        /\ \E m \in PortAt(tpos.i) : told' = [told EXCEPT ![tpos.c] = @ \o m]
        /\ tpos' = [tpos EXCEPT !.i = @ + 1] /\ UNCHANGED ask
     \/ /\ tpos.i >= ind
        /\ ask' = [ask EXCEPT ![tpos.c] = "told"]
        /\ tpos' = Nobody /\ UNCHANGED told
  /\ UNCHANGED <<dir, enterVars, asked, since>>

\* T ends, with what is in its socket, and may be started again.
t_end ==
  /\ dir = "bound" /\ dir' = "start"
  /\ asked' = <<>> /\ tpos' = Nobody
  /\ ask' = [c \in Askers |-> IF ask[c] = "wait" THEN "lost" ELSE ask[c]]
  /\ UNCHANGED <<enterVars, told, since>>

\* A '?' sent while T is not bound is lost, and the client waits for ever.
client_ask(c) ==
  /\ dir # "off" /\ ask[c] = "new"
  /\ since' = [since EXCEPT ![c] = Len(entered)]
  /\ \/ /\ dir = "bound"
        /\ ask' = [ask EXCEPT ![c] = "wait"] /\ asked' = Append(asked, c)
     \/ /\ dir # "bound"
        /\ ask' = [ask EXCEPT ![c] = "lost"] /\ UNCHANGED asked
  /\ UNCHANGED <<dir, enterVars, tpos, told>>
-----------------------------------------------------------------------------
Enter(s) == enter_read(s) \/ enter_store(s) \/ enter_load(s) \/ enter_add(s)
Service(s) == Enter(s) \/ svc_end(s)
Func2 == func2_recv \/ func2_send

NextDir == \/ dir_bind \/ Func2 \/ t_end
           \/ \E s \in Svcs : Service(s)
           \/ \E c \in Askers : client_ask(c)

-----------------------------------------------------------------------------
\* More services have run than there is room for, and ind is overwritten.
Overrun == ind > Room

(***************************************************************************)
(* service.c:93-94 without the semaphore.  Every client is told the ports  *)
(* in the order they were entered, each as often as services entered it,   *)
(* and at least those entered before it asked, unless two services were    *)
(* between these lines at the same time or the list was overrun.  T may    *)
(* read the list at any moment, since a port is stored before ind counts   *)
(* it; and a service may end between the lines, since the next one uses    *)
(* its place.                                                              *)
(***************************************************************************)
ListWrongOnlyAfterRace ==
  raced \/ Overrun \/
    \A c \in Askers :
      /\ Len(told[c]) <= Len(entered)
      /\ \A k \in DOMAIN told[c] : told[c][k] = entered[k]
      /\ ask[c] = "told" => Len(told[c]) >= since[c]
=============================================================================
