----------------------------- MODULE SelectChat -----------------------------
(***************************************************************************)
(* Two chat servers with select: "chat" of assignment 14 and "svayambhoo"  *)
(* of assignment 20.  A server greets a new client with "Linked" and       *)
(* passes what a client sends on to all the others.  Nobody is ever taken  *)
(* out of nsfd, and the result of read is not looked at: the end of a      *)
(* client's connection makes the server use the last message again.        *)
(*                                                                         *)
(* "chat" listens on one port and takes in a new client before anything    *)
(* else.  "svayambhoo" listens on three, takes in one client from each     *)
(* port that has one, reads on in the same pass, and answers a client      *)
(* whose user calls himself "lowercase", "capitalize" or "encrypt" itself; *)
(* what these compute is left out.                                         *)
(*                                                                         *)
(* server.c of assignment 14 has five stray lines (58-62), a copy of the   *)
(* relay loop outside of it, that keep it from compiling; the model leaves *)
(* them out.                                                               *)
(***************************************************************************)
EXTENDS Naturals, Sequences, FiniteSets, SequencesExt

CONSTANTS Chatters,    \* the clients
          Callers,     \* those of them that have the name of a service
          SockBuf,     \* messages a socket holds before write blocks
          MaxSaid,     \* bound: lines typed by all clients together (see Spent)
          MaxLeft      \* bound: clients that are ended by their users

VARIABLES cprog,   \* the server program, fixed by the initial state
          srv,     \* the server: "off", "start", "select", "accept", "scan",
                   \* "write", "answer", "dead"
          newset,  \* "svayambhoo": ports select has marked and not accepted from
          marked,  \* indexes select has marked and the loop has not reached
          nsfd,    \* the clients taken in, in order
          backlog, \* the clients waiting to be accepted, with their ports
          smsg,    \* the server's msg: [name, data]
          to,      \* the write loop: [i, j], from nsfd[i], to nsfd[j] next
          ust,     \* each client: "off", "new", "failed", "link", "in", "write",
                   \* "left"
          said,    \* the lines each has written
          up2srv,  \* messages from each client, not yet read by the server
          down,    \* messages to each client, not yet read by it
          rst,     \* the connections whose end has been reset
          saw,     \* the messages each client has printed
          phantom, \* a client has printed a message twice, or "Linked"
          owed     \* history: lines typed while a client was taken in, not shown to it

varsSel == <<cprog, srv, newset, marked, nsfd, backlog, smsg, to, ust, said, up2srv, down, rst, saw, phantom, owed>>

BlankSel ==
  /\ newset = {} /\ marked = {} /\ nsfd = <<>> /\ backlog = <<>>
  /\ smsg = [name |-> "", data |-> 0] /\ to = [i |-> 0, j |-> 0]
  /\ said = [c \in Chatters |-> 0]
  /\ up2srv = [c \in Chatters |-> <<>>] /\ down = [c \in Chatters |-> <<>>]
  /\ rst = {} /\ saw = [c \in Chatters |-> {}] /\ phantom = FALSE /\ owed = {}

InitSel == /\ BlankSel /\ cprog \in {"chat", "svayambhoo"} /\ srv = "start"
           /\ ust = [c \in Chatters |-> "new"]
IdleSel == /\ BlankSel /\ cprog = "none" /\ srv = "off"
           /\ ust = [c \in Chatters |-> "off"]

\* The ports of "svayambhoo" that clients use: two of the three.
SfdPorts == {1, 2}

\* "Linked", which is the number of no line.
Linked == 0

Listen14(k) ==
  /\ cprog = k /\ srv = "start" /\ srv' = "select"
  /\ UNCHANGED <<cprog, newset, marked, nsfd, backlog, smsg, to, ust, said, up2srv, down, rst, saw, phantom, owed>>

sel_listen == Listen14("chat")
svc_listen == Listen14("svayambhoo")

(***************************************************************************)
(* write to a client: blocks when its socket is full; the first write      *)
(* after the client has gone is answered with a reset, the next one is     *)
(* SIGPIPE.                                                                *)
(***************************************************************************)
M_DropsWhenFull(c, m, next) ==
  /\ srv' = next
  /\ down' = IF Len(down[c]) < SockBuf /\ ust[c] # "left"
             THEN [down EXCEPT ![c] = Append(@, m)] ELSE down
  /\ UNCHANGED rst

WriteTo(c, m, next) ==
  CASE c \in rst -> srv' = "dead" /\ UNCHANGED <<down, rst>>
    [] c \notin rst /\ ust[c] = "left" ->
         srv' = next /\ rst' = rst \cup {c} /\ UNCHANGED down
    [] OTHER -> /\ Len(down[c]) < SockBuf
                /\ down' = [down EXCEPT ![c] = Append(@, m)]
                /\ srv' = next /\ UNCHANGED rst

\* select, and accept with its greeting when somebody new is waiting.
accept_link ==
  /\ cprog = "chat" /\ srv = "select" /\ backlog # <<>>
  /\ backlog' = Tail(backlog)
  /\ smsg' = [smsg EXCEPT !.data = Linked]
  /\ WriteTo(Head(backlog)[1], smsg', "select")
  /\ nsfd' = Append(nsfd, Head(backlog)[1])
  /\ UNCHANGED <<cprog, newset, marked, to, ust, said, up2srv, saw, phantom, owed>>

Readable14(c) == up2srv[c] # <<>> \/ ust[c] = "left"

sel_select ==
  /\ cprog = "chat" /\ srv = "select" /\ backlog = <<>>
  /\ marked' = {i \in DOMAIN nsfd : Readable14(nsfd[i])}
  /\ marked' # {} /\ srv' = "scan"
  /\ UNCHANGED <<cprog, newset, nsfd, backlog, smsg, to, ust, said, up2srv, down, rst, saw, phantom, owed>>

\* read: at the end of the connection msg stays what it was.
M_Peeks(c) ==
  smsg' = (IF up2srv[c] # <<>> THEN Head(up2srv[c]) ELSE smsg) /\ UNCHANGED up2srv

ReadFrom(c) ==
  IF up2srv[c] # <<>>
  THEN smsg' = Head(up2srv[c]) /\ up2srv' = [up2srv EXCEPT ![c] = Tail(@)]
  ELSE UNCHANGED <<smsg, up2srv>>

\* Who gets what has been read: everybody else or, from a caller, itself.
Answered(m) == cprog = "svayambhoo" /\ m.name \in Callers

relay_read ==
  /\ srv = "scan"
  /\ IF marked = {} THEN srv' = "select" /\ UNCHANGED <<cprog, newset, marked, smsg, up2srv, to>>
     ELSE LET i == CHOOSE k \in marked : \A l \in marked : k <= l
          IN  /\ marked' = marked \ {i}
              /\ ReadFrom(nsfd[i])
              /\ to' = [i |-> i, j |-> 1]
              /\ srv' = IF Answered(smsg') THEN "answer" ELSE "write"
  /\ UNCHANGED <<cprog, newset, nsfd, backlog, ust, said, down, rst, saw, phantom, owed>>

relay_write ==
  /\ srv = "write"
  /\ to' = [to EXCEPT !.j = @ + 1]
  /\ IF to.j > Len(nsfd) THEN srv' = "scan" /\ UNCHANGED <<down, rst>>
     ELSE IF to.j = to.i THEN UNCHANGED <<srv, down, rst>>
     ELSE WriteTo(nsfd[to.j], smsg, "write")
  /\ UNCHANGED <<cprog, newset, marked, nsfd, backlog, smsg, ust, said, up2srv, saw, phantom, owed>>

(***************************************************************************)
(* The loop of "svayambhoo": clients and ports are looked at in one pass.  *)
(***************************************************************************)
PortsWaiting == {backlog[k][2] : k \in DOMAIN backlog}

svc_select ==
  /\ cprog = "svayambhoo" /\ srv = "select"
  /\ newset' = PortsWaiting
  /\ marked' = {i \in DOMAIN nsfd : Readable14(nsfd[i])}
  /\ newset' # {} \/ marked' # {}
  /\ srv' = "accept"
  /\ UNCHANGED <<cprog, nsfd, backlog, smsg, to, ust, said, up2srv, down, rst, saw, phantom, owed>>

svc_accept ==
  /\ srv = "accept"
  /\ IF newset = {}
     THEN srv' = "scan" /\ UNCHANGED <<newset, nsfd, backlog, smsg, down, rst>>
     ELSE LET p == CHOOSE x \in newset : \A y \in newset : x <= y
              k == CHOOSE x \in DOMAIN backlog :
                     backlog[x][2] = p /\ \A y \in 1..(x - 1) : backlog[y][2] # p
          IN  /\ newset' = newset \ {p}
              /\ backlog' = RemoveAt(backlog, k)
              /\ smsg' = [smsg EXCEPT !.data = Linked]
              /\ WriteTo(backlog[k][1], smsg', "accept")
              /\ nsfd' = Append(nsfd, backlog[k][1])
  /\ UNCHANGED <<cprog, marked, to, ust, said, up2srv, saw, phantom, owed>>

svc_answer ==
  /\ srv = "answer"
  /\ WriteTo(nsfd[to.i], smsg, "scan")
  /\ UNCHANGED <<cprog, newset, marked, nsfd, backlog, smsg, to, ust, said, up2srv, saw, phantom, owed>>

(***************************************************************************)
(* The client.                                                             *)
(***************************************************************************)

\* What MaxSaid bounds: the lines typed, and two for each client that connects.
Spent == FoldFunction(+, 0, said) + Cardinality({c \in Chatters : ust[c] = "write"})
          + 2 * Cardinality({c \in Chatters : ust[c] \notin {"off", "new"}})

sel_connect(c) ==
  /\ ust[c] = "new" /\ Spent + 2 <= MaxSaid
  /\ IF srv \in {"start", "dead"}
     THEN ust' = [ust EXCEPT ![c] = "failed"] /\ UNCHANGED backlog
     ELSE /\ ust' = [ust EXCEPT ![c] = "link"]
          /\ \E p \in (IF cprog = "chat" THEN {1} ELSE SfdPorts) :
               backlog' = Append(backlog, <<c, p>>)
  /\ UNCHANGED <<cprog, srv, newset, marked, nsfd, smsg, to, said, up2srv, down, rst, saw, phantom, owed>>

sel_link(c) ==
  /\ ust[c] = "link" /\ down[c] # <<>>
  /\ ust' = [ust EXCEPT ![c] = IF Head(down[c]).data = Linked THEN "in" ELSE "left"]
  /\ down' = [down EXCEPT ![c] = Tail(@)]
  /\ UNCHANGED <<cprog, srv, newset, marked, nsfd, backlog, smsg, to, said, up2srv, rst, saw, phantom, owed>>

\* A client whose server is dead prints its last message for ever: no change.
sel_show(c) ==
  /\ ust[c] = "in" /\ down[c] # <<>>
  /\ LET m == Head(down[c])
         again == m \in saw[c] \/ m.data = Linked
     IN  /\ saw' = IF m.data = Linked THEN saw ELSE [saw EXCEPT ![c] = @ \cup {m}]
         /\ phantom' = (phantom \/ again)
         /\ owed' = owed \ {<<c, m>>}
  /\ down' = [down EXCEPT ![c] = Tail(@)]
  /\ UNCHANGED <<cprog, srv, newset, marked, nsfd, backlog, smsg, to, ust, said, up2srv, rst>>

\* The user types a line.
sel_type(c) ==
  /\ ust[c] = "in" /\ Spent < MaxSaid
  /\ ust' = [ust EXCEPT ![c] = "write"]
  /\ LET m == [name |-> c, data |-> said[c] + 1]
     IN  owed' = owed \cup
           {<<d, m>> : d \in IF Answered(m) THEN {c} ELSE Range(nsfd) \ {c}}
  /\ UNCHANGED <<cprog, srv, newset, marked, nsfd, backlog, smsg, to, said, up2srv, down, rst, saw, phantom>>

\* write to the server blocks on a full socket, too; the client does not read
\* meanwhile.
sel_write(c) ==
  /\ ust[c] = "write"
  /\ IF srv = "dead"
     THEN ust' = [ust EXCEPT ![c] = "left"] /\ UNCHANGED <<said, up2srv>>
     ELSE /\ Len(up2srv[c]) < SockBuf
          /\ said' = [said EXCEPT ![c] = @ + 1]
          /\ up2srv' = [up2srv EXCEPT ![c] = Append(@, [name |-> c, data |-> said'[c]])]
          /\ ust' = [ust EXCEPT ![c] = "in"]
  /\ UNCHANGED <<cprog, srv, newset, marked, nsfd, backlog, smsg, to, down, rst, saw, phantom, owed>>

\* The user ends the client; data it has not read make the end a reset.
sel_quit(c) ==
  /\ ust[c] \in {"link", "in", "write"}
  /\ Cardinality({d \in Chatters : ust[d] = "left"}) < MaxLeft
  /\ ust' = [ust EXCEPT ![c] = "left"]
  /\ rst' = IF down[c] # <<>> THEN rst \cup {c} ELSE rst
  /\ down' = [down EXCEPT ![c] = <<>>]
  /\ UNCHANGED <<cprog, srv, newset, marked, nsfd, backlog, smsg, to, said, up2srv, saw, phantom, owed>>
-----------------------------------------------------------------------------
SelServer == \/ accept_link \/ sel_select \/ relay_read \/ relay_write
             \/ svc_select \/ svc_accept \/ svc_answer
SelClient(c) == sel_link(c) \/ sel_show(c) \/ sel_write(c)
SelUser(c) == sel_connect(c) \/ SelClient(c) \/ sel_type(c) \/ sel_quit(c)
chat_user(c) == cprog = "chat" /\ SelUser(c)
svc_user(c) == cprog = "svayambhoo" /\ SelUser(c)

NextSel == \/ sel_listen \/ svc_listen \/ SelServer
           \/ \E c \in Chatters : chat_user(c) \/ svc_user(c)

\* The server and the clients' select loops run; nobody has to type.
FairSel == WF_varsSel(SelServer) /\ \A c \in Chatters : WF_varsSel(SelClient(c))
-----------------------------------------------------------------------------
SomebodyLeft == \E c \in Chatters : ust[c] = "left"

(***************************************************************************)
(* No message is printed twice, no greeting is printed as a message, and   *)
(* the server is not killed by SIGPIPE, before the first client has gone.  *)
(***************************************************************************)
FaultsOnlyAfterLeave == phantom \/ srv = "dead" => SomebodyLeft

\* The server is writing to c.
WritesTo(c) == \/ /\ srv = "write" /\ to.j \in DOMAIN nsfd /\ to.j # to.i
                  /\ nsfd[to.j] = c
               \/ srv = "answer" /\ nsfd[to.i] = c

\* The server (server.c:111) and a client (client.c:83) both wait in write for
\* the other one to read.
BothWrite ==
  \E c \in Chatters : /\ WritesTo(c) /\ ust[c] = "write"
                      /\ Len(down[c]) >= SockBuf /\ Len(up2srv[c]) >= SockBuf

(***************************************************************************)
(* A line reaches everybody the server had taken in when it was typed, as  *)
(* long as nobody leaves, unless the server and a client whose sockets are *)
(* full in both directions wait for each other.                            *)
(***************************************************************************)
ChatDelivered == []<>(owed = {} \/ SomebodyLeft \/ BothWrite)
=============================================================================
