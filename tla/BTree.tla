------------------------------- MODULE BTree -------------------------------
(***************************************************************************)
(* The binary tree of kadai3 that several threads insert into              *)
(* (kadai-b/btree.c, driven by kadai-b/main.c).  Threads walk the tree     *)
(* without the mutex and take it only to hang a new node below the one     *)
(* they stopped at, after checking the link again.  The check at line 37,  *)
(* on the left branch, looks at the right link, as line 23 does.           *)
(*                                                                         *)
(* A step is one access to a link or one mutex call.  As compiled (-O2),   *)
(* btree_insert reads each link of a walk once and fills a new node before *)
(* it publishes it, so a node is its value here and both its links are     *)
(* Null until somebody sets them.  main inserts every value once.          *)
(***************************************************************************)
EXTENDS Naturals, Sequences, FiniteSets

CONSTANTS
    Threads,        \* the threads running fun1 .. fun8
    Share,          \* Share[t]: the values thread t inserts, in order
    Null,           \* NULL
    NoThread        \* the mutex is free

Root == 0

ValuesOf(t) == {Share[t][i] : i \in DOMAIN Share[t]}
Values == UNION {ValuesOf(t) : t \in Threads}
Nodes == Values \union {Root}

\* Every thread has a share of its own; btree_create makes the root 0.
ASSUME ShareAssumption ==
    /\ Share \in [Threads -> Seq(Nat \ {0})]
    /\ \A t \in Threads : Cardinality(ValuesOf(t)) = Len(Share[t])
    /\ \A s, t \in Threads : s # t => ValuesOf(s) \intersect ValuesOf(t) = {}

ASSUME NamesAssumption == Null \notin Nat /\ NoThread \notin Threads

VARIABLES
    left, right,    \* the links of each node
    mutex,          \* the thread that holds the mutex, or NoThread
    pc,             \* where each thread is in btree_insert
    pos,            \* the node it is looking at
    todo,           \* the values it has yet to insert, the current one first
    cut             \* history: the nodes a left link led to before it was set again

vars == <<left, right, mutex, pc, pos, todo, cut>>

Init ==
    /\ left = [n \in Nodes |-> Null]
    /\ right = [n \in Nodes |-> Null]
    /\ mutex = NoThread
    /\ pc = [t \in Threads |-> "walk"]
    /\ pos = [t \in Threads |-> Root]
    /\ todo = Share
    /\ cut = {}

-----------------------------------------------------------------------------
Goto(t, from, to) ==
    /\ pc[t] = from
    /\ pc' = [pc EXCEPT ![t] = to]

Value(t) == Head(todo[t])

\* pos->num < v
GoesRight(t) == pos[t] < Value(t)

\* Plausible slips in the steps below, for the mutant runs: no second look at
\* the link (as in kadai-a), the second look negated, the mutex given back
\* between the second look and the new link, a return that keeps the mutex, and
\* the new node always hung on the left.
RecheckNothing(t) ==
    /\ Goto(t, "recheck", "link")
    /\ UNCHANGED <<left, right, mutex, pos, todo, cut>>

RecheckNegated(t) ==
    /\ Goto(t, "recheck", IF right[pos[t]] = Null THEN "giveup" ELSE "link")
    /\ UNCHANGED <<left, right, mutex, pos, todo, cut>>

RecheckUnlocks(t) ==
    /\ Goto(t, "recheck", IF right[pos[t]] # Null THEN "giveup" ELSE "link")
    /\ mutex' = NoThread
    /\ UNCHANGED <<left, right, pos, todo, cut>>

GiveUpLocked(t) ==
    /\ Goto(t, "giveup", "follow")
    /\ UNCHANGED <<left, right, mutex, pos, todo, cut>>

LinkLeft(t) ==
    /\ Goto(t, "link", "unlock")
    /\ left' = [left EXCEPT ![pos[t]] = Value(t)]
    /\ cut' = cut \union ({left[pos[t]]} \ {Null})
    /\ UNCHANGED <<right, mutex, pos, todo>>

\* Follow the link on the side of v, or stop when it is NULL.
Walk(t) ==
    /\ pc[t] = "walk" /\ todo[t] # <<>>
    /\ LET child == IF GoesRight(t) THEN right[pos[t]] ELSE left[pos[t]]
       IN  IF child # Null
           THEN pos' = [pos EXCEPT ![t] = child] /\ UNCHANGED pc
           ELSE Goto(t, "walk", "lock") /\ UNCHANGED pos
    /\ UNCHANGED <<left, right, mutex, todo, cut>>

Lock(t) ==
    /\ Goto(t, "lock", "recheck")
    /\ mutex = NoThread
    /\ mutex' = t
    /\ UNCHANGED <<left, right, pos, todo, cut>>

\* if (pos->right != NULL), on both branches.
Recheck(t) ==
    /\ Goto(t, "recheck", IF right[pos[t]] # Null THEN "giveup" ELSE "link")
    /\ UNCHANGED <<left, right, mutex, pos, todo, cut>>

\* The link has been taken meanwhile: unlock, and insert below it.
GiveUp(t) ==
    /\ Goto(t, "giveup", "follow")
    /\ mutex' = NoThread
    /\ UNCHANGED <<left, right, pos, todo, cut>>

\* btree_insert(v, pos->right), on both branches.
Follow(t) ==
    /\ Goto(t, "follow", "walk")
    /\ pos' = [pos EXCEPT ![t] = right[pos[t]]]
    /\ UNCHANGED <<left, right, mutex, todo, cut>>

\* Hang the new node on the side of v.
Link(t) ==
    /\ Goto(t, "link", "unlock")
    /\ IF GoesRight(t)
       THEN /\ right' = [right EXCEPT ![pos[t]] = Value(t)]
            /\ UNCHANGED <<left, cut>>
       ELSE /\ left' = [left EXCEPT ![pos[t]] = Value(t)]
            /\ cut' = cut \union ({left[pos[t]]} \ {Null})
            /\ UNCHANGED right
    /\ UNCHANGED <<mutex, pos, todo>>

\* Unlock, return, and start on the next value of the share at the root.
Unlock(t) ==
    /\ Goto(t, "unlock", "walk")
    /\ mutex' = NoThread
    /\ pos' = [pos EXCEPT ![t] = Root]
    /\ todo' = [todo EXCEPT ![t] = Tail(@)]
    /\ UNCHANGED <<left, right, cut>>

Step(t) ==
    Walk(t) \/ Lock(t) \/ Recheck(t) \/ GiveUp(t) \/ Follow(t) \/ Link(t) \/ Unlock(t)

AllDone == \A t \in Threads : todo[t] = <<>>

\* main has joined every thread and dumps the tree.
Terminated == AllDone /\ UNCHANGED vars

Next == (\E t \in Threads : Step(t)) \/ Terminated

Spec == Init /\ [][Next]_vars

\* Every thread that can run gets to run.
FairSpec == Spec /\ \A t \in Threads : WF_vars(Step(t))

-----------------------------------------------------------------------------
Children(n) == {left[n], right[n]} \ {Null}

Closed(C) == \A n \in C : Children(n) \subseteq C

\* The nodes of S and those below them: the least set with S that leaves out no
\* child.
Subtree(S) ==
    LET closed == {C \in SUBSET Nodes : S \subseteq C /\ Closed(C)}
    IN  {m \in Nodes : \A C \in closed : m \in C}

\* What btree_dump prints: every node it reaches from the root.
Dumped == Subtree({Root})

\* What a thread has yet to hang: at the unlock, the first value is in the tree.
Later(t) == {todo[t][i] : i \in (IF pc[t] = "unlock" THEN 2 ELSE 1) .. Len(todo[t])}

\* The values that have been hung.
Inserted == Values \ UNION {Later(t) : t \in Threads}

\* Type invariant.
TypeOK ==
    /\ left \in [Nodes -> Nodes \union {Null}]
    /\ right \in [Nodes -> Nodes \union {Null}]
    /\ mutex \in Threads \union {NoThread}
    /\ pc \in [Threads -> {"walk", "lock", "recheck", "giveup", "follow", "link", "unlock"}]
    /\ pos \in [Threads -> Nodes]
    /\ todo \in [Threads -> Seq(Values)]
    /\ cut \subseteq Nodes

\* A right link, once set, is never changed: the second look under the mutex
\* does for the right branch what it is there for.
RightLinksStable ==
    [][\A n \in Nodes : right[n] # Null => right'[n] = right[n]]_vars

\* A node that has been hung stays where btree_dump finds it, unless it is below
\* one that a left link no longer leads to: what two threads insert is lost by
\* the look at the wrong link on line 37 only, on the right never.
LostOnlyLeft == Inserted \subseteq Subtree({Root} \union cut)

\* Everything below a left link is smaller than the node it hangs from, also
\* when line 37 has sent an insertion down the wrong side.
LeftIsSmaller ==
    \A n \in Nodes : left[n] # Null => \A m \in Subtree({left[n]}) : m < n

\* Every insertion comes to an end: no walk goes round and the mutex is
\* always given back.
EveryInsertReturns == <>AllDone

\* "The output is always 10000 lines" (kadai-b/report.txt:7): when all threads
\* have been joined, the dump prints every node.
NoNodeLost == AllDone => Dumped = Nodes
=============================================================================
