----------------------------- MODULE RoundRobin -----------------------------
(***************************************************************************)
(* What the scheduler promises: the runnable tasks form a cyclic order     *)
(* that never changes once scheduling has started, the head of the line is *)
(* the task on the CPU, and every scheduling decision moves the head to    *)
(* the end.  No task is ever lost, duplicated or overtaken.                *)
(***************************************************************************)
EXTENDS Integers, Sequences

CONSTANT Task       \* the identities a task can have

VARIABLES started,  \* has the scheduler dispatched anything yet?
          line      \* the tasks, the one on the CPU first

vars == <<started, line>>

Init == started = FALSE /\ line = << >>

\* A task is created before scheduling starts.
Admit(t) ==
  /\ ~started
  /\ \A k \in DOMAIN line : line[k] # t
  /\ line' = Append(line, t)
  /\ UNCHANGED started

\* The first decision dispatches the oldest task.
Start == ~started /\ started' = TRUE /\ UNCHANGED line

\* The running task goes to the end, its successor runs.
Rotate ==
  /\ started
  /\ line # << >>
  /\ line' = Append(Tail(line), Head(line))
  /\ UNCHANGED started

Next == (\E t \in Task : Admit(t)) \/ Start \/ Rotate

Spec == Init /\ [][Next]_vars
=============================================================================
