----------------------------- MODULE RoundRobin -----------------------------
(***************************************************************************)
(* What the scheduler of kadai10 promises its tasks, free of stacks,       *)
(* interrupt frames and address spaces: a machine with a context for every *)
(* task, which the tasks have in turns, in the order 0, 1, ..., 0.  Only   *)
(* the task whose turn it is computes, on its own context, and a change of *)
(* turn touches no context at all.                                         *)
(*                                                                         *)
(* The promise is off for good once the machine is broken.                 *)
(***************************************************************************)
EXTENDS Naturals

CONSTANTS
    TASK_NUM,       \* how many tasks there are
    Fresh           \* the context of a task that has not run yet

VARIABLES
    turn,           \* the task that has the machine, or had it last
    running,        \* whether it is running, or has been preempted
    context,        \* context[i]: what task i computes on
    broken          \* whether the promise is off

vars == <<turn, running, context, broken>>

Tasks == 0 .. TASK_NUM - 1

Init ==
    /\ turn = 0 /\ running = TRUE
    /\ \A i \in Tasks \ {0} : context[i] = Fresh
    /\ broken = FALSE

\* The task whose turn it is computes.
Run ==
    /\ running
    /\ \A i \in Tasks \ {turn} : context'[i] = context[i]
    /\ UNCHANGED <<turn, running, broken>>

Preempt ==
    /\ running /\ running' = FALSE
    /\ UNCHANGED <<turn, context, broken>>

\* The next task goes on, or begins.
Dispatch ==
    /\ ~running /\ running' = TRUE
    /\ turn' = (turn + 1) % TASK_NUM
    /\ UNCHANGED <<context, broken>>

Break == broken' = TRUE

Next == Break \/ Run \/ Preempt \/ Dispatch

Spec == Init /\ [][Next]_vars
=============================================================================
