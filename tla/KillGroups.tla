----------------------------- MODULE KillGroups -----------------------------
(***************************************************************************)
(* Assignment 7: S has four children in two process groups.  D sends       *)
(* SIGUSR1 for group 1 and SIGUSR2 for group 2; S's handler stops the      *)
(* other group, continues the group that is asked for, sends it SIGUSR1    *)
(* and writes the line it last had from C1 or C2 into the fifo of each     *)
(* member, whose own handler opens and reads it.                           *)
(*                                                                         *)
(* signal() blocks only the signal that is being handled, so the handler   *)
(* for one group may interrupt the handler for the other.  An open of a    *)
(* fifo waits for the other end; S never closes the ends it has opened.    *)
(* A stopped process is not waiting in open.                               *)
(***************************************************************************)
EXTENDS Naturals, Sequences, FiniteSets

CONSTANTS MaxSignals,  \* bound: the signals D sends
          MaxTyped     \* bound: the lines C1 and C2 send together

VARIABLES phase,   \* S's main: "off", "start", "published", "forked", "ready"
          alive,   \* S: "run", "stopped" or "killed" (SIGPIPE)
          frames,  \* S's handlers, the running one first
          spend,   \* the groups whose signal is pending for S
          d,       \* D: where it is, and the group it has read
          sends,   \* signals D has sent
          runs,    \* the groups that are not stopped
          cpend,   \* the children with a pending SIGUSR1
          cpc,     \* each child: "loop", "open", "read" or "close"
          wopen,   \* the fifos S has open for writing
          fifo,    \* the fifo of each child
          heard,     \* how many messages each child has read
          buff,    \* buff_c1: the client whose line it holds, 0 for none
          lines,   \* the fifos c1 and c2: lines not read
          typed7,  \* lines each client has sent
          overlap  \* history: a handler was entered in another or too early

varsKill == <<phase, alive, frames, spend, d, sends, runs, cpend, cpc, wopen,
              fifo, heard, buff, lines, typed7, overlap>>

Groups == {1, 2}
Other(g) == 3 - g
Children == {"sc1", "sc2", "a", "b"}
Members(g) == IF g = 1 THEN <<"sc1", "sc2">> ELSE <<"a", "b">>
GroupOf(c) == IF c \in {"sc1", "sc2"} THEN 1 ELSE 2

BlankKill ==
  /\ alive = "run" /\ frames = <<>> /\ spend = {}
  /\ d = [at |-> "start", g |-> 1] /\ sends = 0
  /\ runs = Groups /\ cpend = {} /\ cpc = [c \in Children |-> "loop"]
  /\ wopen = {} /\ fifo = [c \in Children |-> <<>>] /\ heard = [c \in Children |-> 0]
  /\ buff = 0 /\ lines = [g \in Groups |-> 0] /\ typed7 = [g \in Groups |-> 0]
  /\ overlap = FALSE

InitKill == phase = "start" /\ BlankKill
IdleKill == phase = "off" /\ BlankKill

(***************************************************************************)
(* S's main: the pid is published, the four children are forked (one step  *)
(* here), and after a sleep they are put into groups and stopped.  Main    *)
(* does not go on while a handler runs.                                    *)
(***************************************************************************)
main_publish ==
  /\ phase = "start" /\ phase' = "published"
  /\ UNCHANGED <<alive, frames, spend, d, sends, runs, cpend, cpc, wopen, fifo,
                 heard, buff, lines, typed7, overlap>>

main_fork ==
  /\ phase = "published" /\ frames = <<>> /\ alive = "run"
  /\ phase' = "forked"
  /\ UNCHANGED <<alive, frames, spend, d, sends, runs, cpend, cpc, wopen, fifo,
                 heard, buff, lines, typed7, overlap>>

main_setpgid ==
  /\ phase = "forked" /\ frames = <<>> /\ alive = "run"
  /\ phase' = "ready" /\ runs' = {}
  /\ UNCHANGED <<alive, frames, spend, d, sends, cpend, cpc, wopen, fifo,
                 heard, buff, lines, typed7, overlap>>

(***************************************************************************)
(* S's handler.  The counter of calls in shared memory, which is only      *)
(* printed, is left out.                                                   *)
(***************************************************************************)
Top == Head(frames)
Resume(pc) == frames' = <<[Top EXCEPT !.pc = pc]>> \o Tail(frames)
InHandler(pc) == alive = "run" /\ frames # <<>> /\ Top.pc = pc

handler_enter(g) ==
  /\ phase # "start" /\ alive = "run"
  /\ g \in spend /\ \A f \in DOMAIN frames : frames[f].g # g
  /\ spend' = spend \ {g}
  /\ frames' = <<[g |-> g, pc |-> "stop", i |-> 1]>> \o frames
  /\ overlap' = (overlap \/ frames # <<>> \/ phase # "ready")
  /\ UNCHANGED <<phase, alive, d, sends, runs, cpend, cpc, wopen, fifo, heard,
                 buff, lines, typed7>>

\* children[] is zero before the forks, and killpg(0, SIGSTOP) stops S itself;
\* before setpgid there are no such groups and killpg fails.

killpg_stop ==
  /\ InHandler("stop")
  /\ IF phase = "published" THEN alive' = "stopped" ELSE UNCHANGED alive
  /\ runs' = IF phase = "ready" THEN runs \ {Other(Top.g)} ELSE runs
  /\ Resume("cont")
  /\ UNCHANGED <<phase, spend, d, sends, cpend, cpc, wopen, fifo, heard, buff,
                 lines, typed7, overlap>>

killpg_cont ==
  /\ InHandler("cont")
  /\ runs' = IF phase = "ready" THEN runs \cup {Top.g} ELSE runs
  /\ Resume("usr1")
  /\ UNCHANGED <<phase, alive, spend, d, sends, cpend, cpc, wopen, fifo, heard,
                 buff, lines, typed7, overlap>>

M_NoUsr1 ==
  /\ InHandler("usr1")
  /\ Resume("open")
  /\ UNCHANGED <<phase, alive, spend, d, sends, runs, cpend, cpc, wopen, fifo,
                 heard, buff, lines, typed7, overlap>>

killpg_usr1 ==
  /\ InHandler("usr1")
  /\ cpend' = IF phase = "ready" THEN cpend \cup {c \in Children : GroupOf(c) = Top.g}
              ELSE cpend
  /\ Resume("open")
  /\ UNCHANGED <<phase, alive, spend, d, sends, runs, cpc, wopen, fifo, heard,
                 buff, lines, typed7, overlap>>

Target == Members(Top.g)[Top.i]
Reading(c) == cpc[c] \in {"read", "close"}

M_OpensAtOnce ==
  /\ InHandler("open")
  /\ wopen' = wopen \cup {Target}
  /\ Resume("write")
  /\ UNCHANGED <<phase, alive, spend, d, sends, runs, cpend, cpc, fifo, heard,
                 buff, lines, typed7, overlap>>

\* open(..., O_WRONLY) at once, because the child has its end open.
handler_open ==
  /\ InHandler("open") /\ Reading(Target)
  /\ wopen' = wopen \cup {Target}
  /\ Resume("write")
  /\ UNCHANGED <<phase, alive, spend, d, sends, runs, cpend, cpc, fifo, heard,
                 buff, lines, typed7, overlap>>

handler_write ==
  /\ InHandler("write")
  /\ IF Reading(Target)
     THEN /\ fifo' = [fifo EXCEPT ![Target] = Append(@, buff)]
          /\ frames' = IF Top.i = 2 THEN Tail(frames)
                       ELSE <<[Top EXCEPT !.pc = "open", !.i = 2]>> \o Tail(frames)
          /\ UNCHANGED alive
     ELSE alive' = "killed" /\ UNCHANGED <<fifo, frames>>
  /\ UNCHANGED <<phase, spend, d, sends, runs, cpend, cpc, wopen, heard, buff,
                 lines, typed7, overlap>>

(***************************************************************************)
(* The handlers of the children; they run while their group is not stopped.*)
(***************************************************************************)
child_enter(c) ==
  /\ GroupOf(c) \in runs /\ cpc[c] = "loop" /\ c \in cpend
  /\ cpend' = cpend \ {c}
  /\ cpc' = [cpc EXCEPT ![c] = "open"]
  /\ UNCHANGED <<phase, alive, frames, spend, d, sends, runs, wopen, fifo, heard,
                 buff, lines, typed7, overlap>>

\* The open ends at once when S has the fifo open; otherwise the two opens meet.
child_open(c) ==
  /\ GroupOf(c) \in runs /\ cpc[c] = "open"
  /\ cpc' = [cpc EXCEPT ![c] = "read"]
  /\ \/ c \in wopen /\ UNCHANGED <<wopen, frames>>
     \/ /\ c \notin wopen /\ InHandler("open") /\ Target = c
        /\ wopen' = wopen \cup {c}
        /\ Resume("write")
  /\ UNCHANGED <<phase, alive, spend, d, sends, runs, cpend, fifo, heard, buff,
                 lines, typed7, overlap>>

child_read(c) ==
  /\ GroupOf(c) \in runs /\ cpc[c] = "read"
  /\ fifo[c] # <<>> \/ alive = "killed"
  /\ fifo' = [fifo EXCEPT ![c] = IF @ = <<>> THEN @ ELSE Tail(@)]
  /\ heard' = [heard EXCEPT ![c] = IF fifo[c] = <<>> THEN @ ELSE @ + 1]
  /\ cpc' = [cpc EXCEPT ![c] = "close"]
  /\ UNCHANGED <<phase, alive, frames, spend, d, sends, runs, cpend, wopen,
                 buff, lines, typed7, overlap>>

child_close(c) ==
  /\ GroupOf(c) \in runs /\ cpc[c] = "close"
  /\ cpc' = [cpc EXCEPT ![c] = "loop"]
  /\ UNCHANGED <<phase, alive, frames, spend, d, sends, runs, cpend, wopen,
                 fifo, heard, buff, lines, typed7, overlap>>

handler_sc1 == child_enter("sc1") \/ child_open("sc1") \/ child_read("sc1")
                 \/ child_close("sc1")
handler_sc2 == child_enter("sc2") \/ child_open("sc2") \/ child_read("sc2")
                 \/ child_close("sc2")
handler_a == child_enter("a") \/ child_open("a") \/ child_read("a") \/ child_close("a")
handler_b == child_enter("b") \/ child_open("b") \/ child_read("b") \/ child_close("b")

(***************************************************************************)
(* The polling thread and the clients C1 and C2.                           *)
(***************************************************************************)
polling ==
  /\ phase = "ready" /\ alive = "run"
  /\ \E g \in Groups : /\ lines[g] > 0
                       /\ lines' = [lines EXCEPT ![g] = @ - 1]
                       /\ buff' = g
  /\ UNCHANGED <<phase, alive, frames, spend, d, sends, runs, cpend, cpc, wopen,
                 fifo, heard, typed7, overlap>>

\* A line written before S has opened the fifo is lost with the last close.
Write(g) ==
  /\ phase \notin {"off", "start"} /\ typed7[1] + typed7[2] < MaxTyped
  /\ lines' = IF phase = "ready" THEN [lines EXCEPT ![g] = @ + 1] ELSE lines
  /\ typed7' = [typed7 EXCEPT ![g] = @ + 1]
  /\ UNCHANGED <<phase, alive, frames, spend, d, sends, runs, cpend, cpc, wopen,
                 fifo, heard, buff, overlap>>

C1 == Write(1)
C2 == Write(2)

(***************************************************************************)
(* D.  Started before S it has no pid and no counter, and dies of it.      *)
(***************************************************************************)
D_start ==
  /\ d.at = "start" /\ phase # "off"
  /\ d' = [d EXCEPT !.at = IF phase = "start" THEN "dead" ELSE "scanf"]
  /\ UNCHANGED <<phase, alive, frames, spend, sends, runs, cpend, cpc, wopen,
                 fifo, heard, buff, lines, typed7, overlap>>

D_read ==
  /\ d.at = "scanf" /\ sends < MaxSignals
  /\ \E g \in Groups : d' = [at |-> "kill", g |-> g]
  /\ UNCHANGED <<phase, alive, frames, spend, sends, runs, cpend, cpc, wopen,
                 fifo, heard, buff, lines, typed7, overlap>>

D_kill ==
  /\ d.at = "kill"
  /\ spend' = IF alive = "killed" THEN spend ELSE spend \cup {d.g}
  /\ sends' = sends + 1
  /\ d' = [d EXCEPT !.at = "scanf"]
  /\ UNCHANGED <<phase, alive, frames, runs, cpend, cpc, wopen, fifo, heard, buff,
                 lines, typed7, overlap>>
-----------------------------------------------------------------------------
Handler == \/ killpg_stop \/ killpg_cont \/ killpg_usr1
           \/ handler_open \/ handler_write \/ \E g \in Groups : handler_enter(g)
SMain == main_publish \/ main_fork \/ main_setpgid
D == D_start \/ D_read \/ D_kill

NextKill == \/ SMain \/ Handler \/ polling \/ C1 \/ C2 \/ D
            \/ handler_sc1 \/ handler_sc2 \/ handler_a \/ handler_b

\* The processes and threads that can run do run; nobody has to type.
FairKill ==
  /\ WF_varsKill(SMain) /\ WF_varsKill(Handler) /\ WF_varsKill(polling)
  /\ WF_varsKill(handler_sc1) /\ WF_varsKill(handler_sc2)
  /\ WF_varsKill(handler_a) /\ WF_varsKill(handler_b)
-----------------------------------------------------------------------------

(***************************************************************************)
(* S waits inside a signal handler for its children to open their fifos.   *)
(* It gets out of it, unless a second handler has stopped the group that   *)
(* the first one waits for, or the signal came before the groups were set  *)
(* up.                                                                     *)
(***************************************************************************)
HandlersEnd == frames # <<>> ~> (frames = <<>> \/ overlap \/ alive = "killed")

(***************************************************************************)
(* S writes into a fifo that a child may have closed again: it can be      *)
(* killed by SIGPIPE, but not while it writes the first message to a       *)
(* child, whose reader waits for it.                                       *)
(***************************************************************************)
FirstMessageArrives ==
  alive = "killed" => heard[Target] + Len(fifo[Target]) >= 1
=============================================================================
