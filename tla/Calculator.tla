----------------------------- MODULE Calculator -----------------------------
(***************************************************************************)
(* The service `math' of inetd and Nitnetd (math.cpp): it reads one line   *)
(* and evaluates it with a stack of values and a stack of operators, from  *)
(* left to right.  A line is a sequence of characters.  The reference is   *)
(* the value of the syntax tree that the line was printed from, with the   *)
(* parentheses that precedence and left associativity make necessary and   *)
(* no others.                                                              *)
(***************************************************************************)
EXTENDS Integers, Sequences

CONSTANTS Leaves    \* the numbers of the expressions

\* Numbers of one or two digits: no value of an expression overflows an int.
ASSUME LeavesAssumption == Leaves \subseteq 0..99

VARIABLES tree,     \* the expression that is asked for, fixed initially
          line,     \* the line the client sends
          printed,  \* what the service has printed: nothing or a number
          ended     \* the service has ended

varsCalc == <<tree, line, printed, ended>>

Ops == {"+", "-", "*", "/"}
Digits == <<"0", "1", "2", "3", "4", "5", "6", "7", "8", "9">>
IsDigit(ch) == \E d \in DOMAIN Digits : Digits[d] = ch
DigitOf(ch) == (CHOOSE d \in DOMAIN Digits : Digits[d] = ch) - 1

M_precedence(op) == IF op \in {"+", "-", "*", "/"} THEN 1 ELSE 0
precedence(op) == CASE op \in {"+", "-"} -> 1
                    [] op \in {"*", "/"} -> 2
                    [] OTHER -> 0

\* C divides towards zero; dividing by zero ends the process (SIGFPE).
Quotient(a, b) ==
  LET Abs(x) == IF x < 0 THEN -x ELSE x
      d == Abs(a) \div Abs(b)
  IN  IF (a < 0) = (b < 0) THEN d ELSE -d

applyOp(a, b, op) ==
  CASE op = "+" -> a + b
    [] op = "-" -> a - b
    [] op = "*" -> a * b
    [] op = "/" -> Quotient(a, b)

(***************************************************************************)
(* The state of evaluate: both stacks with the top first, whether the last *)
(* character was a digit, and whether the process has crashed (a division  *)
(* by zero, or a pop of an empty stack).                                   *)
(***************************************************************************)
Crash(m) == [m EXCEPT !.dead = TRUE]

Reduce(m) ==
  IF Len(m.vals) < 2 \/ (Head(m.ops) = "/" /\ Head(m.vals) = 0) \/ Head(m.ops) \notin Ops
  THEN Crash(m)
  ELSE [m EXCEPT !.vals = <<applyOp(Head(Tail(@)), Head(@), Head(m.ops))>> \o Tail(Tail(@)),
                 !.ops = Tail(@)]

\* while(!ops.empty() && ...): every one takes an operator away or crashes.
ReduceOnce(m, among) ==
  IF m.dead \/ m.ops = <<>> \/ Head(m.ops) \notin among THEN m ELSE Reduce(m)
ReduceWhile(m, among) ==
  LET after[n \in 0..Len(m.ops)] == IF n = 0 THEN m ELSE ReduceOnce(after[n - 1], among)
  IN  after[Len(m.ops)]

\* One turn of the for loop; a run of digits is one turn of the source's loop.
Step(m, ch) ==
  LET closed == ReduceWhile(m, Ops)
      ready == ReduceWhile(m, {o \in Ops : precedence(o) >= precedence(ch)})
  IN  IF m.dead THEN m
      ELSE CASE ch = "(" -> [m EXCEPT !.ops = <<ch>> \o @, !.num = FALSE]
             [] IsDigit(ch) /\ m.num ->
                  [m EXCEPT !.vals = <<10 * Head(@) + DigitOf(ch)>> \o Tail(@)]
             [] IsDigit(ch) /\ ~m.num ->
                  [m EXCEPT !.vals = <<DigitOf(ch)>> \o @, !.num = TRUE]
             [] ch = ")" -> [closed EXCEPT !.ops = IF @ = <<>> THEN @ ELSE Tail(@),
                                           !.num = FALSE]
             [] OTHER -> [ready EXCEPT !.ops = <<ch>> \o @, !.num = FALSE]

Start == [vals |-> <<>>, ops |-> <<>>, num |-> FALSE, dead |-> FALSE]

evaluate(s) ==
  LET read[n \in 0..Len(s)] == IF n = 0 THEN Start ELSE Step(read[n - 1], s[n])
      end == ReduceWhile(read[Len(s)], Ops \cup {"("})
  IN  IF end.dead \/ end.vals = <<>> THEN <<>> ELSE <<Head(end.vals)>>

(***************************************************************************)
(* Syntax trees, how they are printed and what they are worth.             *)
(***************************************************************************)
Leaf(n) == [op |-> "num", n |-> n]
Node(o, l, r) == [op |-> o, l |-> l, r |-> r]
Grow(T) == T \cup {Node(o, l, r) : o \in Ops, l \in T, r \in T}
Trees == Grow(Grow({Leaf(n) : n \in Leaves}))

Strength(t) == IF t.op = "num" THEN 3 ELSE IF t.op \in {"+", "-"} THEN 1 ELSE 2

Shown[t \in Trees] ==
  IF t.op = "num"
  THEN IF t.n < 10 THEN <<Digits[t.n + 1]>>
       ELSE <<Digits[(t.n \div 10) + 1], Digits[(t.n % 10) + 1]>>
  ELSE LET Wrap(u, weak) == IF weak THEN <<"(">> \o Shown[u] \o <<")">> ELSE Shown[u]
       IN  Wrap(t.l, Strength(t.l) < Strength(t)) \o <<t.op>>
             \o Wrap(t.r, Strength(t.r) <= Strength(t))

Worth[t \in Trees] ==
  IF t.op = "num" THEN <<t.n>>
  ELSE LET a == Worth[t.l]
           b == Worth[t.r]
       IN  IF a = <<>> \/ b = <<>> \/ (t.op = "/" /\ b = <<0>>) THEN <<>>
           ELSE <<applyOp(a[1], b[1], t.op)>>
-----------------------------------------------------------------------------
InitCalc == /\ tree \in Trees
            /\ line = <<>> /\ printed = <<>> /\ ended = FALSE

\* No client asks.
IdleCalc == /\ tree = Leaf(0)
            /\ line = <<"none">> /\ printed = <<>> /\ ended = TRUE

Ask == /\ line = <<>>
       /\ line' = Shown[tree]
       /\ UNCHANGED <<tree, printed, ended>>

math_main == /\ line # <<>> /\ ~ended
             /\ printed' = evaluate(line)
             /\ ended' = TRUE
             /\ UNCHANGED <<tree, line>>

NextCalc == Ask \/ math_main
-----------------------------------------------------------------------------
(***************************************************************************)
(* math.cpp prints the value of the expression, with the usual precedence  *)
(* and from left to right among equals, and neither stack is popped empty: *)
(* it crashes, printing nothing, only on a division by zero.               *)
(***************************************************************************)
EvaluatesTree == ended /\ line # <<"none">> => printed = Worth[tree]
=============================================================================
