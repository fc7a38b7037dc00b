-------------------------------- MODULE News --------------------------------
(***************************************************************************)
(* Assignment 17, NITW News: the editor starts three reporters and selects *)
(* on their pipes.  A report that begins with "/d" makes it pass the       *)
(* descriptor of that pipe to the document process.  The editor goes on    *)
(* selecting on a pipe it has passed, so both read it, each report going   *)
(* to whoever is first; the document process stores every descriptor it    *)
(* is sent in an array of three and then reads all it has, one by one.     *)
(*                                                                         *)
(* A pipe holds more than the ten reports a reporter writes.  The live     *)
(* telecaster, the screen and the news readers are not part of this: the   *)
(* news readers that would connect them are empty.                         *)
(***************************************************************************)
EXTENDS Naturals, Sequences, SequencesExt

CONSTANTS Reporters,   \* 1..3, their pipes in the order of popen
          MaxReports,  \* bound: reports of one reporter (10 in reporter.c)
          MaxNews      \* bound: reports of all reporters together

ASSUME NewsAssumption == Reporters = 1..3 /\ MaxReports \in Nat /\ MaxNews \in Nat

VARIABLES ed,      \* editor: "off", "popen", "listen", "accept", "select", "scan"
          ei,      \* editor: the index of the loop
          esel,    \* editor: the pipes that select has marked
          doc,     \* document: "start", "recv", "read", "exited", "overrun"
          di,      \* document: the index of the loop
          dfds,    \* document: reportfds, the pipes it has been passed
          wire,    \* descriptors passed and not yet received
          pipe,    \* the reports in each pipe
          wrote    \* how many reports each reporter has written

varsNews == <<ed, ei, esel, doc, di, dfds, wire, pipe, wrote>>

BlankNews ==
  /\ ei = 1 /\ esel = {} /\ doc = "start" /\ di = 1 /\ dfds = <<>> /\ wire = <<>>
  /\ pipe = [r \in Reporters |-> <<>>]
  /\ wrote = [r \in Reporters |-> 0]

InitNews == ed = "popen" /\ BlankNews
IdleNews == ed = "off" /\ BlankNews

\* read blocks on an empty pipe until its reporter has ended.
Ended(r) == wrote[r] = MaxReports
CanRead(r) == pipe[r] # <<>> \/ Ended(r)
Consume(r) == pipe' = [pipe EXCEPT ![r] = IF @ = <<>> THEN @ ELSE Tail(@)]

(***************************************************************************)
(* The editor.                                                             *)
(***************************************************************************)
editor_popen ==
  /\ ed = "popen" /\ ed' = "listen"
  /\ UNCHANGED <<ei, esel, doc, di, dfds, wire, pipe, wrote>>

news_listen ==
  /\ ed = "listen" /\ ed' = "accept"
  /\ UNCHANGED <<ei, esel, doc, di, dfds, wire, pipe, wrote>>

editor_accept ==
  /\ ed = "accept" /\ doc = "recv" /\ ed' = "select"
  /\ UNCHANGED <<ei, esel, doc, di, dfds, wire, pipe, wrote>>

\* The set is made after select instead of before it.
M_MarksAll ==
  /\ ed = "select" /\ \E r \in Reporters : pipe[r] # <<>>
  /\ esel' = Reporters
  /\ ed' = "scan" /\ ei' = 1
  /\ UNCHANGED <<doc, di, dfds, wire, pipe, wrote>>

\* A select that only sees pipes at their end changes nothing and is left out.
editor_select ==
  /\ ed = "select" /\ \E r \in Reporters : pipe[r] # <<>>
  /\ esel' = {r \in Reporters : CanRead(r)}
  /\ ed' = "scan" /\ ei' = 1
  /\ UNCHANGED <<doc, di, dfds, wire, pipe, wrote>>

news_send_fd(r) ==
  wire' = IF pipe[r] # <<>> /\ Head(pipe[r]) = "/d" THEN Append(wire, r) ELSE wire

editor_read ==
  /\ ed = "scan"
  /\ IF ei \in esel THEN CanRead(ei) /\ Consume(ei) /\ news_send_fd(ei)
                    ELSE UNCHANGED <<pipe, wire>>
  /\ IF ei < 3 THEN ei' = ei + 1 /\ UNCHANGED ed ELSE ed' = "select" /\ UNCHANGED ei
  /\ UNCHANGED <<esel, doc, di, dfds, wrote>>

(***************************************************************************)
(* The document process.                                                   *)
(***************************************************************************)
doc_conn ==
  /\ doc = "start" /\ ed # "off"
  /\ doc' = IF ed \in {"popen", "listen"} THEN "exited" ELSE "recv"
  /\ UNCHANGED <<ed, ei, esel, di, dfds, wire, pipe, wrote>>

\* reportfds[doc_reporters++] = recv_fd(ufd)
doc_recv ==
  /\ doc = "recv" /\ wire # <<>>
  /\ wire' = Tail(wire)
  /\ IF Len(dfds) = 3 THEN doc' = "overrun" /\ UNCHANGED <<dfds, di>>
     ELSE doc' = "read" /\ dfds' = Append(dfds, Head(wire)) /\ di' = 1
  /\ UNCHANGED <<ed, ei, esel, pipe, wrote>>

doc_read ==
  /\ doc = "read"
  /\ CanRead(dfds[di]) /\ Consume(dfds[di])
  /\ IF di < Len(dfds) THEN di' = di + 1 /\ UNCHANGED doc ELSE doc' = "recv" /\ UNCHANGED di
  /\ UNCHANGED <<ed, ei, esel, dfds, wire, wrote>>

reporter(r) ==
  /\ ed \notin {"off", "popen"} /\ wrote[r] < MaxReports
  /\ wrote[1] + wrote[2] + wrote[3] < MaxNews
  /\ \E kind \in {"text", "/d"} :
       pipe' = [pipe EXCEPT ![r] = Append(@, kind)]
  /\ wrote' = [wrote EXCEPT ![r] = @ + 1]
  /\ UNCHANGED <<ed, ei, esel, doc, di, dfds, wire>>
-----------------------------------------------------------------------------
Editor == editor_popen \/ news_listen \/ editor_accept \/ editor_select \/ editor_read
Document == doc_recv \/ doc_read

NextNews == Editor \/ doc_conn \/ Document \/ \E r \in Reporters : reporter(r)

-----------------------------------------------------------------------------
(***************************************************************************)
(* The editor is caught in read on an empty pipe, away from select, only   *)
(* on a pipe it has passed on: the document process took the report that   *)
(* select had seen.                                                        *)
(***************************************************************************)
EditorCaught == ed = "scan" /\ ei \in esel /\ ~CanRead(ei)
CaughtOnlyOnPassed == EditorCaught => Contains(dfds, ei)
=============================================================================
