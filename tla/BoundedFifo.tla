---------------------------- MODULE BoundedFifo ----------------------------
(***************************************************************************)
(* What bb.c promises its callers, free of mutexes and condition           *)
(* variables: a first-in first-out queue of at most Capacity items.        *)
(* Producer p puts the items <<p, 1>>, <<p, 2>>, ... in that order, and a  *)
(* get returns the oldest item and removes it, both in one step.           *)
(***************************************************************************)
EXTENDS Naturals, Sequences

CONSTANTS
    Producers,      \* the threads that call bb_put
    Consumers,      \* the threads that call bb_get
    Capacity        \* the length of bounded_buffer.buf

VARIABLES
    queue,          \* the items in the buffer, oldest first
    puts,           \* puts[p]: how many items producer p has put
    gets            \* gets[c]: the items consumer c has got, oldest first

vars == <<queue, puts, gets>>

Init ==
    /\ queue = << >>
    /\ puts = [p \in Producers |-> 0]
    /\ gets = [c \in Consumers |-> << >>]

\* bb_put(bb, n) takes effect: n becomes the youngest item.
Put(p) ==
    /\ Len(queue) < Capacity
    /\ queue' = Append(queue, <<p, puts[p] + 1>>)
    /\ puts' = [puts EXCEPT ![p] = @ + 1]
    /\ UNCHANGED gets

\* bb_get(bb) takes effect: the oldest item leaves the buffer.
Get(c) ==
    /\ queue # << >>
    /\ gets' = [gets EXCEPT ![c] = Append(@, Head(queue))]
    /\ queue' = Tail(queue)
    /\ UNCHANGED puts

Next ==
    \/ \E p \in Producers : Put(p)
    \/ \E c \in Consumers : Get(c)

Spec == Init /\ [][Next]_vars
=============================================================================
