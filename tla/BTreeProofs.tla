---------------------------- MODULE BTreeProofs ----------------------------
(***************************************************************************)
(* Theorems about BTree for any number of threads and values.              *)
(***************************************************************************)
EXTENDS BTree, SequenceTheorems, FiniteSetTheorems, TLAPS

Places == {"walk", "lock", "recheck", "giveup", "follow", "link", "unlock"}
Locked == {"recheck", "giveup", "link", "unlock"}

\* Only the thread that holds the mutex is between lock and unlock.
MutexInv == \A t \in Threads : pc[t] \in Locked => mutex = t

\* A thread past the walk has a value to insert.
BusyInv == \A t \in Threads : pc[t] # "walk" => todo[t] # <<>>

\* What a thread knows of the right link of its node: about to follow it, that
\* it is set; about to set a link under the mutex, that it is not.
LinkInv ==
    \A t \in Threads :
        /\ pc[t] \in {"giveup", "follow"} => right[pos[t]] # Null
        /\ pc[t] = "link" => right[pos[t]] = Null

IInv == TypeOK /\ MutexInv /\ BusyInv /\ LinkInv

\* Values are numbers, so none of them is NULL.
LEMMA NodesAreNumbers == Nodes \subseteq Nat /\ Null \notin Nodes
  <1>1. \A t \in Threads : ValuesOf(t) \subseteq Nat
    BY ShareAssumption DEF ValuesOf
  <1> QED
    BY <1>1, NamesAssumption DEF Nodes, Values, Root

\* The invariant holds when the threads are created.
LEMMA IInvInit == Init => IInv
  <1> SUFFICES ASSUME Init PROVE IInv
    OBVIOUS
  <1>1. Share \in [Threads -> Seq(Values)]
    <2>1. ASSUME NEW t \in Threads PROVE Share[t] \in Seq(Values)
      <3>1. Share[t] \in Seq(Nat \ {0})
        BY ShareAssumption
      <3>2. \A i \in 1 .. Len(Share[t]) : Share[t][i] \in Values
        BY <3>1 DEF Values, ValuesOf
      <3> QED
        BY <3>1, <3>2
    <2> QED
      BY <2>1, ShareAssumption
  <1>2. TypeOK
    BY <1>1 DEF Init, TypeOK, Nodes
  <1> QED
    BY <1>2 DEF Init, IInv, MutexInv, BusyInv, LinkInv, Locked

\* Every step of btree_insert keeps it.
LEMMA IInvStep == IInv /\ [Next]_vars => IInv'
  <1> SUFFICES ASSUME IInv, [Next]_vars PROVE IInv'
    OBVIOUS
  <1> USE NamesAssumption DEF IInv
  <1>1. ASSUME NEW t \in Threads, Walk(t) PROVE IInv'
    BY ZenonT(60), <1>1 DEF Walk, Goto, TypeOK, MutexInv, BusyInv, LinkInv, Locked
  <1>2. ASSUME NEW t \in Threads, Lock(t) PROVE IInv'
    BY <1>2 DEF Lock, Goto, TypeOK, MutexInv, BusyInv, LinkInv, Locked
  <1>3. ASSUME NEW t \in Threads, Recheck(t) PROVE IInv'
    BY <1>3 DEF Recheck, Goto, TypeOK, MutexInv, BusyInv, LinkInv, Locked
  <1>4. ASSUME NEW t \in Threads, GiveUp(t) PROVE IInv'
    BY <1>4 DEF GiveUp, Goto, TypeOK, MutexInv, BusyInv, LinkInv, Locked
  <1>5. ASSUME NEW t \in Threads, Follow(t) PROVE IInv'
    BY <1>5 DEF Follow, Goto, TypeOK, MutexInv, BusyInv, LinkInv, Locked
  \* The mutex keeps every other thread away from the links.
  <1>6. ASSUME NEW t \in Threads, Link(t) PROVE IInv'
    <2>1. pc[t] = "link" /\ mutex = t /\ todo[t] # <<>> /\ pos[t] \in Nodes
      BY <1>6 DEF Link, Goto, TypeOK, MutexInv, BusyInv, Locked
    <2>2. Value(t) \in Nodes /\ Value(t) # Null
      BY <2>1, NodesAreNumbers, HeadTailProperties DEF TypeOK, Nodes, Value
    <2>3. TypeOK'
      <3>1. {left[pos[t]]} \ {Null} \subseteq Nodes
        BY <2>1 DEF TypeOK
      <3>2. cut' \subseteq Nodes
        BY <1>6, <3>1 DEF Link, TypeOK
      <3> QED
        BY <1>6, <2>1, <2>2, <3>2 DEF Link, Goto, TypeOK
    <2>4. MutexInv' /\ BusyInv'
      BY <1>6, <2>1 DEF Link, Goto, TypeOK, MutexInv, BusyInv, Locked
    <2>5. LinkInv'
      BY <1>6, <2>1, <2>2 DEF Link, Goto, TypeOK, MutexInv, LinkInv, Locked
    <2> QED
      BY <2>3, <2>4, <2>5
  <1>7. ASSUME NEW t \in Threads, Unlock(t) PROVE IInv'
    <2>1. pc[t] = "unlock" /\ todo[t] # <<>>
      BY <1>7 DEF Unlock, Goto, BusyInv
    <2>2. TypeOK'
      <3>1. Tail(todo[t]) \in Seq(Values)
        BY <2>1, HeadTailProperties DEF TypeOK
      <3>2. Root \in Nodes
        BY DEF Nodes
      <3> QED
        BY <1>7, <3>1, <3>2 DEF Unlock, Goto, TypeOK
    <2>3. MutexInv' /\ BusyInv' /\ LinkInv'
      BY <1>7, <2>1 DEF Unlock, Goto, TypeOK, MutexInv, BusyInv, LinkInv, Locked
    <2> QED
      BY <2>2, <2>3
  <1>8. CASE UNCHANGED vars
    BY <1>8 DEF vars, TypeOK, MutexInv, BusyInv, LinkInv
  <1> QED
    BY <1>1, <1>2, <1>3, <1>4, <1>5, <1>6, <1>7, <1>8 DEF Next, Step, Terminated

\* No thread ever follows a NULL link or leaves its share.
THEOREM TypeCorrect == Spec => []TypeOK
  <1>1. IInv => TypeOK
    BY DEF IInv
  <1> QED
    BY <1>1, IInvInit, IInvStep, PTL DEF Spec

\* A right link that has been set keeps its node for ever: of what is
\* inserted on a right link, no thread loses anything.
THEOREM RightLinksStableAlways == Spec => RightLinksStable
  <1>1. IInv /\ [Next]_vars => [\A n \in Nodes : right[n] # Null => right'[n] = right[n]]_vars
    <2> SUFFICES ASSUME IInv, Next, NEW n \in Nodes, right[n] # Null PROVE right'[n] = right[n]
      OBVIOUS
    <2>1. ASSUME NEW t \in Threads, Link(t) PROVE right'[n] = right[n]
      <3>1. pos[t] \in Nodes /\ right[pos[t]] = Null /\ right \in [Nodes -> Nodes \union {Null}]
        BY <2>1 DEF IInv, Link, Goto, TypeOK, LinkInv
      <3> QED
        BY <2>1, <3>1 DEF Link
    <2> QED
      BY <2>1 DEF Next, Step, Walk, Lock, Recheck, GiveUp, Follow, Unlock, Terminated, vars
  <1> QED
    BY <1>1, IInvInit, IInvStep, PTL DEF Spec, RightLinksStable

-----------------------------------------------------------------------------
\* Trees, as pairs of links, and what hanging a leaf does to them.

Links == [Nodes -> Values \union {Null}]

Kids(l, r, n) == {l[n], r[n]} \ {Null}

\* Subtree(S) by the links l and r.
Hull(l, r, S) ==
    {m \in Nodes : \A C \in SUBSET Nodes :
        S \subseteq C /\ (\A n \in C : Kids(l, r, n) \subseteq C) => m \in C}

\* No node hangs below two others or below itself.
Forest(l, r) ==
    /\ \A m, n \in Nodes : m # n => Kids(l, r, m) \intersect Kids(l, r, n) = {}
    /\ \A n \in Nodes :
           /\ l[n] # Null => l[n] # r[n]
           /\ n \notin Hull(l, r, Kids(l, r, n))

Smaller(l, r) == \A n \in Nodes : l[n] # Null => \A m \in Hull(l, r, {l[n]}) : m < n

LEMMA SubtreeIsHull == \A S : Subtree(S) = Hull(left, right, S)
  BY DEF Subtree, Closed, Children, Hull, Kids

LEMMA SmallerIsSmaller == LeftIsSmaller <=> Smaller(left, right)
  BY SubtreeIsHull, Zenon DEF LeftIsSmaller, Smaller

LEMMA ValuesAreNodes == Values \subseteq Nat \ {0} /\ Values \subseteq Nodes /\ Null \notin Values /\ Root \notin Values
  <1>1. \A t \in Threads : ValuesOf(t) \subseteq Nat \ {0}
    BY ShareAssumption DEF ValuesOf
  <1> QED
    BY <1>1, NamesAssumption DEF Nodes, Values, Root

LEMMA HullInside ==
    ASSUME NEW l, NEW r, NEW S, NEW C \in SUBSET Nodes, S \subseteq C,
           \A n \in C : Kids(l, r, n) \subseteq C
    PROVE  Hull(l, r, S) \subseteq C
  BY DEF Hull

LEMMA HullHas ==
    ASSUME NEW l \in Links, NEW r \in Links, NEW S \in SUBSET Nodes
    PROVE  /\ Hull(l, r, S) \in SUBSET Nodes /\ S \subseteq Hull(l, r, S)
           /\ \A n \in Hull(l, r, S) : Kids(l, r, n) \subseteq Hull(l, r, S)
  <1>1. \A n \in Nodes : Kids(l, r, n) \subseteq Nodes
    BY ValuesAreNodes DEF Links, Kids
  <1> QED
    BY <1>1 DEF Hull

\* What is below S is in S or hangs from something below S.
LEMMA HullParent ==
    ASSUME NEW l \in Links, NEW r \in Links, NEW S \in SUBSET Nodes,
           NEW c \in Hull(l, r, S), c \notin S
    PROVE  \E p \in Hull(l, r, S) : c \in Kids(l, r, p)
  <1> SUFFICES ASSUME \A p \in Hull(l, r, S) : c \notin Kids(l, r, p)
               PROVE  FALSE
    OBVIOUS
  <1> DEFINE C == Hull(l, r, S) \ {c}
  <1>1. C \in SUBSET Nodes /\ S \subseteq C /\ \A n \in C : Kids(l, r, n) \subseteq C
    BY HullHas
  <1> HIDE DEF C
  <1>2. Hull(l, r, S) \subseteq C
    BY <1>1, HullInside
  <1> QED
    BY <1>2 DEF C

\* The root hangs from nothing.
LEMMA RootOnTop ==
    ASSUME NEW l \in Links, NEW r \in Links, NEW S \in SUBSET Nodes, Root \notin S
    PROVE  Root \notin Hull(l, r, S)
  <1>1. \A p \in Nodes : Root \notin Kids(l, r, p)
    BY ValuesAreNodes DEF Links, Kids
  <1> QED
    BY <1>1, HullHas, HullParent

\* A node without children is alone in its subtree.
LEMMA LeafAlone ==
    ASSUME NEW l, NEW r, NEW v \in Nodes, l[v] = Null, r[v] = Null
    PROVE  Hull(l, r, {v}) \subseteq {v}
  <1>1. \A n \in {v} : Kids(l, r, n) \subseteq {v}
    BY DEF Kids
  <1> DEFINE C == {v}
  <1>2. C \in SUBSET Nodes /\ C \subseteq C /\ \A n \in C : Kids(l, r, n) \subseteq C
    BY <1>1
  <1> HIDE DEF C
  <1>3. Hull(l, r, C) \subseteq C
    BY <1>2, HullInside
  <1> QED
    BY <1>3 DEF C

\* l2 and r2 are l and r but for a leaf v that hangs from q.
Hung(l, r, l2, r2, q, v) ==
    /\ {l, r, l2, r2} \subseteq Links /\ q \in Nodes /\ v \in Values /\ v # q
    /\ l[v] = Null /\ r[v] = Null
    /\ \A n \in Nodes : v \notin Kids(l, r, n) /\ (n # q => l2[n] = l[n] /\ r2[n] = r[n])
    /\ \/ l2[q] = v /\ r2[q] = r[q]
       \/ l2[q] = l[q] /\ r2[q] = v

LEMMA HungKids ==
    ASSUME NEW l, NEW r, NEW l2, NEW r2, NEW q, NEW v, Hung(l, r, l2, r2, q, v)
    PROVE  /\ \A n \in Nodes : n # q => Kids(l2, r2, n) = Kids(l, r, n)
           /\ Kids(l2, r2, q) \subseteq Kids(l, r, q) \union {v}
           /\ Kids(l, r, v) = {} /\ Kids(l2, r2, v) = {}
           /\ \A n \in Nodes : Kids(l, r, n) \subseteq Nodes /\ Kids(l2, r2, n) \subseteq Nodes
           /\ v \in Nodes /\ l2[v] = Null /\ r2[v] = Null
  BY ValuesAreNodes DEF Hung, Kids, Links

\* Hanging a leaf adds at most that leaf to a subtree, and nothing to a subtree
\* without q.
LEMMA Grows ==
    ASSUME NEW l, NEW r, NEW l2, NEW r2, NEW q, NEW v, Hung(l, r, l2, r2, q, v),
           NEW S \in SUBSET Nodes, NEW S2 \in SUBSET Nodes, S2 \subseteq S \union {v}
    PROVE  /\ Hull(l2, r2, S2) \subseteq Hull(l, r, S) \union {v}
           /\ q \notin Hull(l, r, S) /\ S2 = S => Hull(l2, r2, S2) \subseteq Hull(l, r, S)
  <1> DEFINE H == Hull(l, r, S)
  <1>0. v \in Nodes
    BY HungKids
  <1>1. l \in Links /\ r \in Links /\ v \in Nodes
    BY <1>0 DEF Hung
  <1>2. H \in SUBSET Nodes /\ S \subseteq H /\ \A n \in H : Kids(l, r, n) \subseteq H
    BY <1>1, HullHas
  <1> HIDE DEF H
  <1>3. \A n \in H \union {v} : Kids(l2, r2, n) \subseteq H \union {v}
    BY <1>2, HungKids
  <1>4. Hull(l2, r2, S2) \subseteq H \union {v}
    <2> DEFINE C == H \union {v}
    <2>1. C \in SUBSET Nodes /\ S2 \subseteq C /\ \A n \in C : Kids(l2, r2, n) \subseteq C
      BY <1>1, <1>2, <1>3
    <2> HIDE DEF C
    <2>2. Hull(l2, r2, S2) \subseteq C
      BY <2>1, HullInside
    <2> QED
      BY <2>2 DEF C
  <1>5. ASSUME q \notin H, S2 = S
        PROVE  Hull(l2, r2, S2) \subseteq H
    <2>1. \A n \in H : Kids(l2, r2, n) \subseteq H
      BY <1>2, <1>5, HungKids
    <2> QED
      BY <1>2, <1>5, <2>1, HullInside
  <1> QED
    BY <1>4, <1>5 DEF H

LEMMA ForestGrows ==
    ASSUME NEW l, NEW r, NEW l2, NEW r2, NEW q, NEW v, Hung(l, r, l2, r2, q, v), Forest(l, r)
    PROVE  Forest(l2, r2)
  <1>1. ASSUME NEW m \in Nodes, NEW n \in Nodes, m # n
        PROVE  Kids(l2, r2, m) \intersect Kids(l2, r2, n) = {}
    <2>1. Kids(l, r, m) \intersect Kids(l, r, n) = {}
      BY <1>1 DEF Forest
    <2>2. v \notin Kids(l, r, m) /\ v \notin Kids(l, r, n)
      BY DEF Hung
    <2> QED
      BY <1>1, <2>1, <2>2, HungKids
  <1>2. ASSUME NEW n \in Nodes, l2[n] # Null
        PROVE  l2[n] # r2[n]
    <2>1. (l[n] # Null => l[n] # r[n]) /\ v \notin Kids(l, r, n)
      BY DEF Forest, Hung
    <2>2. v # Null
      BY ValuesAreNodes DEF Hung
    <2> QED
      BY <1>2, <2>1, <2>2 DEF Hung, Kids
  <1>3. ASSUME NEW n \in Nodes
        PROVE  n \notin Hull(l2, r2, Kids(l2, r2, n))
    <2>1. n \notin Hull(l, r, Kids(l, r, n))
      BY DEF Forest
    <2>2. Kids(l2, r2, n) \subseteq Kids(l, r, n) \union {v} /\ Kids(l, r, n) \in SUBSET Nodes
          /\ Kids(l2, r2, n) \in SUBSET Nodes
      BY HungKids
    <2>3. Hull(l2, r2, Kids(l2, r2, n)) \subseteq Hull(l, r, Kids(l, r, n)) \union {v}
      BY <2>2, Grows
    <2>4. CASE n = v
      <3>1. Kids(l2, r2, n) \subseteq {}
        BY <2>4, HungKids
      <3> QED
        BY <3>1, HullInside
    <2> QED
      BY <2>1, <2>3, <2>4
  <1> QED
    BY <1>1, <1>2, <1>3 DEF Forest

LEMMA SmallerGrows ==
    ASSUME NEW l, NEW r, NEW l2, NEW r2, NEW q, NEW v, Hung(l, r, l2, r2, q, v), Smaller(l, r),
           l2[q] = v => v < q,
           \A n \in Nodes : l[n] # Null /\ q \in Hull(l, r, {l[n]}) => v < n
    PROVE  Smaller(l2, r2)
  <1> SUFFICES ASSUME NEW n \in Nodes, l2[n] # Null, NEW m \in Hull(l2, r2, {l2[n]})
               PROVE  m < n
    BY DEF Smaller
  <1>1. CASE n = q /\ l2[q] = v
    <2>1. v \in Nodes /\ l2[v] = Null /\ r2[v] = Null
      BY HungKids
    <2>2. Hull(l2, r2, {v}) \subseteq {v}
      BY <2>1, LeafAlone
    <2>3. m = v
      BY <1>1, <2>2
    <2> QED
      BY <1>1, <2>3
  <1>2. CASE l2[n] = l[n]
    <2>1. {l[n]} \in SUBSET Nodes
      BY <1>2, ValuesAreNodes DEF Hung, Links
    <2>2. m \in Hull(l, r, {l[n]}) \union {v}
      BY <1>2, <2>1, Grows
    <2>3. q \notin Hull(l, r, {l[n]}) => m \in Hull(l, r, {l[n]})
      BY <1>2, <2>1, Grows
    <2>4. \A k \in Hull(l, r, {l[n]}) : k < n
      BY <1>2 DEF Smaller
    <2> QED
      BY <1>2, <2>2, <2>3, <2>4
  <1> QED
    BY <1>1, <1>2 DEF Hung

-----------------------------------------------------------------------------
\* The tree and the walks through it.

\* What a thread has yet to insert are values of its own, each there once, and
\* nobody has met in the tree what it has yet to hang.
OwnInv ==
    \A t \in Threads :
        /\ \A i \in 1 .. Len(todo[t]) : todo[t][i] \in ValuesOf(t)
        /\ \A i, j \in 1 .. Len(todo[t]) : todo[t][i] = todo[t][j] => i = j

FreshInv ==
    \A t \in Threads : \A v \in Later(t) :
        /\ left[v] = Null /\ right[v] = Null
        /\ \A n \in Nodes : v \notin Kids(left, right, n)
        /\ \A s \in Threads : pos[s] # v

TreeInv == left \in Links /\ right \in Links /\ Forest(left, right) /\ Smaller(left, right)

\* A thread on the left of a node inserts something smaller, also if it was sent
\* to the right below there.
WalkInv ==
    \A t \in Threads : \A n \in Nodes :
        /\ left[n] # Null /\ pc[t] # "unlock" /\ todo[t] # <<>>
        /\ pos[t] \in Hull(left, right, {left[n]})
        => Value(t) < n

ShapeInv == IInv /\ OwnInv /\ FreshInv /\ TreeInv /\ WalkInv

\* No thread has a value twice.
LEMMA SharesOnce ==
    \A t \in Threads : \A i, j \in 1 .. Len(Share[t]) : Share[t][i] = Share[t][j] => i = j
  <1> SUFFICES ASSUME NEW t \in Threads
               PROVE  \A i, j \in 1 .. Len(Share[t]) : Share[t][i] = Share[t][j] => i = j
    OBVIOUS
  <1> DEFINE s == Share[t]
             D == 1 .. Len(s)
  <1>1. s \in Seq(Nat \ {0}) /\ Len(s) \in Nat /\ DOMAIN s = D
    BY ShareAssumption
  <1>2. s \in Surjection(D, ValuesOf(t))
    BY <1>1 DEF ValuesOf, Surjection
  <1>3. IsFiniteSet(D) /\ Cardinality(D) = Len(s)
    BY <1>1, FS_Interval
  <1>4. Cardinality(D) = Cardinality(ValuesOf(t))
    BY <1>3, ShareAssumption
  <1>5. s \in Injection(D, ValuesOf(t))
    BY <1>2, <1>3, <1>4, FS_SurjSameCardinalityImpliesInj
  <1> QED
    BY <1>5 DEF Injection, IsInjective

LEMMA ShapeInit == Init => ShapeInv
  <1> SUFFICES ASSUME Init PROVE ShapeInv
    OBVIOUS
  <1>1. left \in Links /\ right \in Links /\ \A n \in Nodes : left[n] = Null /\ right[n] = Null
    BY DEF Init, Links
  <1>2. \A n \in Nodes : Kids(left, right, n) = {}
    BY <1>1 DEF Kids
  <1>3. Hull(left, right, {}) = {}
    <2>1. Hull(left, right, {}) \subseteq {}
      BY HullInside
    <2> QED
      BY <2>1
  <1>4. TreeInv
    BY <1>1, <1>2, <1>3 DEF TreeInv, Forest, Smaller
  <1>5. \A t \in Threads : \A i \in 1 .. Len(todo[t]) : todo[t][i] \in ValuesOf(t)
    BY ShareAssumption DEF Init, ValuesOf
  <1>6. OwnInv
    BY <1>5, SharesOnce DEF Init, OwnInv
  <1>7. FreshInv
    <2> SUFFICES ASSUME NEW t \in Threads, NEW v \in Later(t)
                 PROVE  v \in Values
      BY <1>1, <1>2, ValuesAreNodes DEF FreshInv, Init
    <2>1. PICK i \in 1 .. Len(todo[t]) : v = todo[t][i]
      BY DEF Later, Init
    <2> QED
      BY <1>5, <2>1 DEF Values
  <1>8. WalkInv
    BY <1>1 DEF WalkInv
  <1> QED
    BY <1>4, <1>6, <1>7, <1>8, IInvInit DEF ShapeInv

\* The value in hand is one to hang.
LEMMA ValueIsLater ==
    ASSUME IInv, OwnInv, NEW t \in Threads, todo[t] # <<>>
    PROVE  /\ Value(t) = todo[t][1] /\ 1 \in 1 .. Len(todo[t]) /\ Len(todo[t]) \in Nat
           /\ Value(t) \in ValuesOf(t) /\ Value(t) \in Values
           /\ pc[t] # "unlock" => Value(t) \in Later(t)
  <1>1. todo[t] \in Seq(Values) /\ Len(todo[t]) \in Nat /\ Len(todo[t]) # 0
    BY EmptySeq DEF IInv, TypeOK
  <1>2. 1 \in 1 .. Len(todo[t])
    BY <1>1
  <1>3. Value(t) = todo[t][1]
    BY <1>1 DEF Value
  <1> QED
    BY <1>1, <1>2, <1>3 DEF OwnInv, Later, Values

\* A step that sets no link: somebody goes to the root or to a child.
LEMMA StayShape ==
    ASSUME ShapeInv, IInv', UNCHANGED <<left, right>>,
           OwnInv', \A t \in Threads : Later(t)' \subseteq Later(t),
           NEW t \in Threads, \A s \in Threads : s # t =>
               pos'[s] = pos[s] /\ todo'[s] = todo[s] /\ (pc'[s] # "unlock" => pc[s] # "unlock"),
           \/ pos'[t] = Root
           \/ todo'[t] = todo[t] /\ pc[t] # "unlock" /\ pos'[t] = pos[t]
           \/ /\ todo'[t] = todo[t] /\ pc[t] # "unlock" /\ pos'[t] \in Kids(left, right, pos[t])
              /\ pos'[t] = left[pos[t]] => pos'[t] = right[pos[t]] \/ todo[t] = <<>> \/ Value(t) < pos[t]
    PROVE  ShapeInv'
  <1> USE DEF ShapeInv
  <1>1. TreeInv'
    BY DEF TreeInv
  <1>2. FreshInv'
    <2> SUFFICES ASSUME NEW u \in Threads, NEW v \in Later(u)', NEW s \in Threads
                 PROVE  pos'[s] # v
      BY DEF FreshInv
    <2>1. /\ v \in Later(u) /\ pos[s] # v /\ pos[t] \in Nodes
          /\ \A n \in Nodes : v \notin Kids(left, right, n)
      BY DEF FreshInv, IInv, TypeOK
    <2>2. v # Root
      <3>1. PICK i \in 1 .. Len(todo[u]) : v = todo[u][i]
        BY <2>1 DEF Later
      <3> QED
        BY <3>1, ValuesAreNodes DEF OwnInv, Values
    <2> QED
      BY <2>1, <2>2
  <1>3. WalkInv'
    <2> SUFFICES ASSUME NEW s \in Threads, NEW n \in Nodes, left[n] # Null,
                        pc'[s] # "unlock", todo'[s] # <<>>,
                        pos'[s] \in Hull(left, right, {left[n]})
                 PROVE  Value(s)' < n
      BY DEF WalkInv
    <2>1. /\ left \in Links /\ right \in Links /\ left[n] \in Nodes /\ {left[n]} \in SUBSET Nodes
          /\ left[n] # Root
      BY ValuesAreNodes DEF TreeInv, Links
    <2>2. pos'[s] # Root
      BY <2>1, RootOnTop
    <2>3. ASSUME pos'[s] = pos[s], todo'[s] = todo[s], pc[s] # "unlock"
          PROVE  Value(s)' < n
      BY <2>3 DEF WalkInv, Value
    <2>4. CASE /\ s = t /\ todo'[t] = todo[t] /\ pc[t] # "unlock" /\ pos'[t] \in Kids(left, right, pos[t])
               /\ pos'[t] = left[pos[t]] => pos'[t] = right[pos[t]] \/ todo[t] = <<>> \/ Value(t) < pos[t]
      <3>1. pos[t] \in Nodes /\ Value(t)' = Value(t) /\ todo[t] # <<>>
        BY <2>4 DEF IInv, TypeOK, Value
      <3>2. CASE pos'[t] = left[n]
        <4>1. pos'[t] \in Kids(left, right, n)
          BY <3>2 DEF Kids
        <4>2. pos[t] = n
          BY <2>4, <3>1, <4>1 DEF TreeInv, Forest
        <4>3. left[n] # right[n]
          BY DEF TreeInv, Forest
        <4> QED
          BY <2>4, <3>1, <3>2, <4>2, <4>3
      <3>3. CASE pos'[t] # left[n]
        <4>1. PICK p \in Hull(left, right, {left[n]}) : pos'[t] \in Kids(left, right, p)
          BY <2>1, <2>4, <3>3, HullParent
        <4>2. p \in Nodes
          BY <2>1, <4>1, HullHas
        <4>3. p = pos[t]
          BY <2>4, <3>1, <4>1, <4>2 DEF TreeInv, Forest
        <4> QED
          BY <2>4, <3>1, <4>1, <4>3 DEF WalkInv
      <3> QED
        BY <3>2, <3>3
    <2>5. CASE s # t
      BY <2>3, <2>5
    <2>6. CASE s = t
      <3>1. CASE pos'[t] = Root
        BY <2>2, <2>6, <3>1
      <3>2. CASE todo'[t] = todo[t] /\ pc[t] # "unlock" /\ pos'[t] = pos[t]
        BY <2>3, <2>6, <3>2
      <3> QED
        BY <2>4, <2>6, <3>1, <3>2
    <2> QED
      BY <2>5, <2>6
  <1> QED
    BY <1>1, <1>2, <1>3

LEMMA LinkShape == ASSUME ShapeInv, IInv', NEW t \in Threads, Link(t) PROVE ShapeInv'
  <1> USE DEF ShapeInv
  <1> DEFINE q == pos[t]
             v == Value(t)
  <1>1. pc[t] = "link" /\ todo[t] # <<>> /\ q \in Nodes /\ todo' = todo /\ pos' = pos
    BY DEF Link, Goto, IInv, BusyInv, TypeOK
  <1>2. pc' = [pc EXCEPT ![t] = "unlock"] /\ pc'[t] = "unlock" /\ \A s \in Threads : s # t => pc'[s] = pc[s]
    BY DEF Link, Goto, IInv, TypeOK
  <1>3. v \in Values /\ v \in Nat /\ v \in Nodes /\ v # Null /\ v = todo[t][1] /\ v \in Later(t) /\ v \in ValuesOf(t)
        /\ 1 \in 1 .. Len(todo[t])
    BY <1>1, ValueIsLater, ValuesAreNodes
  <1>4. /\ left[v] = Null /\ right[v] = Null /\ \A s \in Threads : pos[s] # v
        /\ \A n \in Nodes : v \notin Kids(left, right, n)
    BY <1>3 DEF FreshInv
  <1>5. left \in Links /\ right \in Links /\ left' \in Links /\ right' \in Links
    BY <1>3 DEF TreeInv, Link, Links
  <1>6. /\ \A n \in Nodes : n # q => left'[n] = left[n] /\ right'[n] = right[n]
        /\ \/ left'[q] = v /\ right'[q] = right[q] /\ ~(q < v)
           \/ left'[q] = left[q] /\ right'[q] = v /\ q < v
    BY <1>1, <1>5 DEF Link, Links, GoesRight
  <1>7. Hung(left, right, left', right', q, v)
    BY <1>1, <1>3, <1>4, <1>5, <1>6 DEF Hung
  <1>8. left'[q] = v => v < q
    <2>1. left[q] # v /\ v # q /\ q \in Nat
      BY <1>1, <1>3, <1>4, NodesAreNumbers DEF Kids
    <2> QED
      BY <1>3, <1>6, <2>1
  <1>9. \A n \in Nodes : left[n] # Null /\ q \in Hull(left, right, {left[n]}) => v < n
    BY <1>1 DEF WalkInv
  <1> HIDE DEF q, v
  <1>10. TreeInv'
    BY <1>5, <1>7, <1>8, <1>9, ForestGrows, SmallerGrows DEF TreeInv
  <1>11. OwnInv'
    BY <1>1 DEF OwnInv
  <1>12. FreshInv'
    <2> SUFFICES ASSUME NEW s \in Threads, NEW u \in Later(s)'
                 PROVE  /\ left'[u] = Null /\ right'[u] = Null
                        /\ \A n \in Nodes : u \notin Kids(left', right', n)
                        /\ \A r \in Threads : pos'[r] # u
      BY DEF FreshInv, Kids
    <2>1. Len(todo[s]) \in Nat /\ Len(todo[t]) \in Nat
      BY DEF IInv, TypeOK
    <2>2. PICK i \in (IF pc'[s] = "unlock" THEN 2 ELSE 1) .. Len(todo[s]) : u = todo[s][i]
      BY <1>1 DEF Later
    <2>3. i \in 1 .. Len(todo[s]) /\ u \in ValuesOf(s) /\ u \in Values
      BY <2>1, <2>2 DEF OwnInv, Values
    <2>4. u \in Later(s)
      BY <1>1, <1>2, <2>1, <2>2 DEF Later
    <2>5. u # v
      <3>1. CASE s = t
        <4>1. i # 1
          BY <1>2, <2>1, <2>2, <3>1
        <4> QED
          BY <1>3, <2>2, <2>3, <3>1, <4>1 DEF OwnInv
      <3>2. CASE s # t
        BY <1>3, <2>3, <3>2, ShareAssumption
      <3> QED
        BY <3>1, <3>2
    <2>6. /\ left[u] = Null /\ right[u] = Null /\ u # q
          /\ \A n \in Nodes : u \notin Kids(left, right, n)
          /\ \A r \in Threads : pos[r] # u
      BY <2>4 DEF FreshInv, q
    <2>7. u \in Nodes
      BY <2>3, ValuesAreNodes
    <2>8. \A n \in Nodes : u \notin Kids(left', right', n)
      BY <1>1, <1>7, <2>5, <2>6, HungKids
    <2> QED
      BY <1>1, <1>6, <2>6, <2>7, <2>8
  <1>13. WalkInv'
    <2> SUFFICES ASSUME NEW s \in Threads, NEW n \in Nodes, left'[n] # Null,
                        pc'[s] # "unlock", todo'[s] # <<>>,
                        pos'[s] \in Hull(left', right', {left'[n]})
                 PROVE  Value(s)' < n
      BY DEF WalkInv, Hull, Kids
    <2>1. s # t /\ pc[s] # "unlock" /\ todo[s] # <<>> /\ Value(s)' = Value(s) /\ pos[s] # v
      BY <1>1, <1>2, <1>4 DEF Value, v
    <2>2. pos[s] \in Hull(left', right', {left'[n]})
      BY <1>1
    <2>3. CASE left'[n] = v
      <3>0. v \in Nodes /\ left'[v] = Null /\ right'[v] = Null
        BY <1>7, HungKids
      <3>1. Hull(left', right', {v}) \subseteq {v}
        BY <3>0, LeafAlone
      <3> QED
        BY <2>1, <2>2, <2>3, <3>1
    <2>4. CASE left'[n] = left[n]
      <3>1. {left[n]} \in SUBSET Nodes
        BY <1>5, <2>4, ValuesAreNodes DEF Links
      <3>2. Hull(left', right', {left'[n]}) \subseteq Hull(left, right, {left[n]}) \union {v}
        BY <1>7, <2>4, <3>1, Grows
      <3>3. pos[s] \in Hull(left, right, {left[n]})
        BY <2>1, <2>2, <3>2
      <3> QED
        BY <2>1, <2>4, <3>3 DEF WalkInv
    <2> QED
      BY <1>6, <2>3, <2>4
  <1> QED
    BY <1>10, <1>11, <1>12, <1>13

LEMMA UnlockKeepsOwn ==
    ASSUME ShapeInv, NEW t \in Threads, Unlock(t)
    PROVE  OwnInv' /\ \A s \in Threads : Later(s)' \subseteq Later(s)
  <1> USE DEF ShapeInv
  <1>1. pc[t] = "unlock" /\ todo[t] # <<>> /\ todo[t] \in Seq(Values) /\ pc'[t] = "walk"
    BY DEF Unlock, Goto, IInv, BusyInv, TypeOK
  <1>2. /\ todo'[t] = Tail(todo[t])
        /\ \A s \in Threads : s # t => todo'[s] = todo[s] /\ pc'[s] = pc[s]
    BY DEF Unlock, Goto, IInv, TypeOK
  <1>3. /\ Len(Tail(todo[t])) = Len(todo[t]) - 1 /\ Len(todo[t]) \in Nat
        /\ \A i \in 1 .. Len(Tail(todo[t])) : Tail(todo[t])[i] = todo[t][i + 1]
    BY <1>1, HeadTailProperties
  <1>4. \A i \in 1 .. Len(todo'[t]) : i + 1 \in 2 .. Len(todo[t]) /\ i + 1 \in 1 .. Len(todo[t]) /\ todo'[t][i] = todo[t][i + 1]
    BY <1>2, <1>3
  <1>5. ASSUME NEW s \in Threads
        PROVE  /\ \A i \in 1 .. Len(todo'[s]) : todo'[s][i] \in ValuesOf(s)
               /\ \A i, j \in 1 .. Len(todo'[s]) : todo'[s][i] = todo'[s][j] => i = j
               /\ Later(s)' \subseteq Later(s)
    <2>1. CASE s = t
      <3>1. \A i \in 1 .. Len(todo'[t]) : todo'[t][i] \in ValuesOf(t)
        BY <1>4 DEF OwnInv
      <3>2. ASSUME NEW i \in 1 .. Len(todo'[t]), NEW j \in 1 .. Len(todo'[t]), todo'[t][i] = todo'[t][j]
            PROVE  i = j
        <4>1. i + 1 = j + 1
          BY <1>4, <3>2 DEF OwnInv
        <4> QED
          BY <1>2, <1>3, <4>1
      <3>3. Later(t)' \subseteq Later(t)
        BY <1>1, <1>4 DEF Later
      <3> QED
        BY <2>1, <3>1, <3>2, <3>3
    <2>2. CASE s # t
      BY <1>2, <2>2 DEF OwnInv, Later
    <2> QED
      BY <2>1, <2>2
  <1> QED
    BY <1>5 DEF OwnInv

LEMMA ShapeStep == ShapeInv /\ [Next]_vars => ShapeInv'
  <1> SUFFICES ASSUME ShapeInv, [Next]_vars PROVE ShapeInv'
    OBVIOUS
  <1>1. IInv /\ IInv'
    BY IInvStep DEF ShapeInv
  <1>2. CASE UNCHANGED vars
    BY <1>1, <1>2 DEF ShapeInv, vars, OwnInv, FreshInv, TreeInv, WalkInv, Later, Value
  <1>3. ASSUME NEW t \in Threads, Step(t)
        PROVE  ShapeInv'
    <2>1. CASE Link(t)
      BY <1>1, <2>1, LinkShape
    <2>2. CASE Unlock(t)
      <3>1. pos'[t] = Root /\ \A s \in Threads : s # t => pos'[s] = pos[s] /\ todo'[s] = todo[s] /\ pc'[s] = pc[s]
        BY <1>1, <2>2 DEF Unlock, Goto, IInv, TypeOK
      <3>2. UNCHANGED <<left, right>>
        BY <2>2 DEF Unlock
      <3> QED
        BY <1>1, <2>2, <3>1, <3>2, UnlockKeepsOwn, StayShape
    <2>3. CASE ~Link(t) /\ ~Unlock(t)
      <3>1. Walk(t) \/ Lock(t) \/ Recheck(t) \/ GiveUp(t) \/ Follow(t)
        BY <1>3, <2>3 DEF Step
      <3>2. /\ UNCHANGED <<left, right, todo>> /\ pc[t] # "unlock" /\ pc'[t] # "unlock"
            /\ \A s \in Threads : s # t => pc'[s] = pc[s] /\ pos'[s] = pos[s]
        BY <1>1, <3>1 DEF Walk, Lock, Recheck, GiveUp, Follow, Goto, IInv, TypeOK
      <3>3. OwnInv'
        BY <3>2 DEF ShapeInv, OwnInv
      <3>4. \A s \in Threads : Later(s)' \subseteq Later(s)
        BY <3>2 DEF Later
      <3>5. CASE pos'[t] = pos[t]
        BY <1>1, <3>2, <3>3, <3>4, <3>5, StayShape
      <3>6. CASE pos'[t] # pos[t]
        <4>1. Walk(t) \/ Follow(t)
          BY <3>1, <3>6 DEF Lock, Recheck, GiveUp
        <4>2. pos'[t] \in Kids(left, right, pos[t])
          BY <1>1, <3>6, <4>1 DEF Walk, Follow, Goto, Kids, IInv, TypeOK, LinkInv
        <4>3. pos'[t] = right[pos[t]] \/ ~GoesRight(t)
          BY <1>1, <3>6, <4>1 DEF Walk, Follow, Goto, IInv, TypeOK
        <4>4. todo[t] = <<>> \/ (Value(t) \in Nat /\ pos[t] \in Nat /\ Value(t) # pos[t])
          <5> SUFFICES ASSUME todo[t] # <<>>
                       PROVE  Value(t) \in Nat /\ pos[t] \in Nat /\ Value(t) # pos[t]
            OBVIOUS
          <5>1. Value(t) \in Values /\ Value(t) \in Later(t)
            BY <3>2, ValueIsLater DEF ShapeInv
          <5>2. pos[t] \in Nodes
            BY <1>1 DEF IInv, TypeOK
          <5> QED
            BY <5>1, <5>2, ValuesAreNodes, NodesAreNumbers DEF ShapeInv, FreshInv
        <4>5. pos'[t] = right[pos[t]] \/ todo[t] = <<>> \/ Value(t) < pos[t]
          BY <4>3, <4>4 DEF GoesRight
        <4> QED
          BY <1>1, <3>2, <3>3, <3>4, <4>2, <4>5, StayShape
      <3> QED
        BY <3>5, <3>6
    <2> QED
      BY <2>1, <2>2, <2>3
  <1> QED
    BY <1>2, <1>3 DEF Next, Terminated

LEMMA ShapeInvariance == Spec => []ShapeInv
  BY ShapeInit, ShapeStep, PTL DEF Spec

\* What hangs on the left of a node is smaller, although line 39 goes on to the
\* right of a node whose left link had been NULL.
THEOREM LeftIsSmallerAlways == Spec => []LeftIsSmaller
  <1>1. ShapeInv => LeftIsSmaller
    BY SmallerIsSmaller DEF ShapeInv, TreeInv
  <1> QED
    BY <1>1, ShapeInvariance, PTL

-----------------------------------------------------------------------------
\* Nothing but line 37 loses a node.

\* What a dump from the root finds, and what is below an overwritten left link.
Reach == Hull(left, right, {Root} \union cut)

\* Threads walk there too, so what they hang is there.
ReachInv == Inserted \subseteq Reach /\ \A t \in Threads : pos[t] \in Reach

LEMMA ReachHas ==
    ASSUME ShapeInv
    PROVE  /\ Reach \in SUBSET Nodes /\ {Root} \union cut \subseteq Reach
           /\ \A n \in Reach : Kids(left, right, n) \subseteq Reach
  <1>1. left \in Links /\ right \in Links /\ {Root} \union cut \in SUBSET Nodes
    BY DEF ShapeInv, TreeInv, IInv, TypeOK, Nodes
  <1> QED
    BY <1>1, HullHas DEF Reach

LEMMA ReachInit == Init => ReachInv
  <1> SUFFICES ASSUME Init PROVE ReachInv
    OBVIOUS
  <1>1. Root \in Reach
    BY ShapeInit, ReachHas
  <1>2. ASSUME NEW v \in Values PROVE v \in UNION {Later(t) : t \in Threads}
    <2>1. PICK t \in Threads : v \in ValuesOf(t)
      BY DEF Values
    <2>2. PICK i \in DOMAIN Share[t] : v = Share[t][i]
      BY <2>1 DEF ValuesOf
    <2>3. i \in 1 .. Len(todo[t]) /\ v = todo[t][i] /\ pc[t] = "walk"
      BY <2>2, ShareAssumption DEF Init
    <2> QED
      BY <2>3 DEF Later
  <1> QED
    BY <1>1, <1>2 DEF ReachInv, Inserted, Init

\* A step that sets no link: what has been hung and how it is reached stay.
LEMMA StayReach ==
    ASSUME ShapeInv, ReachInv, UNCHANGED <<left, right, cut>>,
           \A t \in Threads : Later(t) \subseteq Later(t)',
           \A t \in Threads : pos'[t] \in {Root, pos[t]} \union Kids(left, right, pos[t])
    PROVE  ReachInv'
  <1>1. Reach' = Reach
    BY DEF Reach, Hull, Kids
  <1>2. \A t \in Threads : pos'[t] \in Reach
    BY ReachHas DEF ReachInv
  <1>3. UNION {Later(t) : t \in Threads} \subseteq (UNION {Later(t) : t \in Threads})'
    OBVIOUS
  <1> QED
    BY <1>1, <1>2, <1>3 DEF ReachInv, Inserted

\* A new link: it replaces none on the right, and what it replaces on the left
\* is in cut.
LEMMA LinkReach ==
    ASSUME ShapeInv, ShapeInv', ReachInv, NEW t \in Threads, Link(t)
    PROVE  ReachInv'
  <1> DEFINE q == pos[t]
             v == Value(t)
             H == Reach'
  <1>1. /\ pc[t] = "link" /\ todo[t] # <<>> /\ q \in Nodes /\ right[q] = Null
        /\ todo' = todo /\ pos' = pos
        /\ pc' = [pc EXCEPT ![t] = "unlock"] /\ pc \in [Threads -> Places]
    BY DEF Link, Goto, ShapeInv, IInv, BusyInv, LinkInv, TypeOK, Places
  <1>2. v \in Values /\ v # Null /\ v = todo[t][1]
    BY <1>1, ValueIsLater, ValuesAreNodes DEF ShapeInv
  <1>3. /\ H \in SUBSET Nodes /\ {Root} \union cut' \subseteq H
        /\ \A n \in H : Kids(left', right', n) \subseteq H
    <2>1. left' \in Links /\ right' \in Links /\ {Root} \union cut' \in SUBSET Nodes
      BY DEF ShapeInv, TreeInv, IInv, TypeOK, Nodes
    <2> QED
      BY <2>1, HullHas DEF Reach, Hull, Kids
  <1>4. /\ \A n \in Nodes : n # q => left'[n] = left[n] /\ right'[n] = right[n]
        /\ \/ left'[q] = v /\ right'[q] = right[q] /\ {left[q]} \ {Null} \subseteq cut'
           \/ left'[q] = left[q] /\ right'[q] = v
        /\ cut \subseteq cut'
    BY <1>1 DEF Link, ShapeInv, TreeInv, Links
  <1> HIDE DEF v, H
  <1>5. Reach \subseteq H
    <2>1. ASSUME NEW n \in H PROVE Kids(left, right, n) \subseteq H
      <3>1. n \in Nodes /\ Kids(left', right', n) \subseteq H
        BY <1>3
      <3>2. CASE n # q
        BY <1>4, <3>1, <3>2 DEF Kids
      <3>3. CASE n = q
        BY <1>1, <1>3, <1>4, <3>1, <3>3 DEF Kids
      <3> QED
        BY <3>2, <3>3
    <2>2. {Root} \union cut \subseteq H
      BY <1>3, <1>4
    <2> QED
      BY <1>3, <2>1, <2>2, HullInside DEF Reach
  <1>6. v \in H
    <2>1. q \in H
      BY <1>5 DEF ReachInv
    <2>2. v \in Kids(left', right', q)
      BY <1>2, <1>4 DEF Kids
    <2> QED
      BY <1>3, <2>1, <2>2
  <1>7. Inserted' \subseteq Inserted \union {v}
    <2>1. ASSUME NEW s \in Threads, NEW u \in Later(s), u # v
          PROVE  u \in Later(s)'
      <3>1. Len(todo[s]) \in Nat
        BY DEF ShapeInv, IInv, TypeOK
      <3>2. PICK i \in (IF pc[s] = "unlock" THEN 2 ELSE 1) .. Len(todo[s]) : u = todo[s][i]
        BY DEF Later
      <3>3. CASE s = t
        <4>1. i # 1 /\ i \in 1 .. Len(todo[s])
          BY <1>1, <1>2, <2>1, <3>2, <3>3
        <4>2. i \in 2 .. Len(todo'[s]) /\ u = todo'[s][i] /\ pc'[s] = "unlock"
          BY <1>1, <3>1, <3>2, <3>3, <4>1
        <4> QED
          BY <4>2 DEF Later
      <3>4. CASE s # t
        BY <1>1, <3>2, <3>4 DEF Later
      <3> QED
        BY <3>3, <3>4
    <2> QED
      BY <2>1 DEF Inserted
  <1>8. \A s \in Threads : pos'[s] \in H
    BY <1>1, <1>5 DEF ReachInv
  <1>9. Inserted' \subseteq H
    BY <1>5, <1>6, <1>7 DEF ReachInv
  <1> QED
    BY <1>8, <1>9 DEF ReachInv, H

LEMMA ReachStep == ShapeInv /\ ReachInv /\ [Next]_vars => ReachInv'
  <1> SUFFICES ASSUME ShapeInv, ReachInv, [Next]_vars PROVE ReachInv'
    OBVIOUS
  <1>1. ShapeInv'
    BY ShapeStep
  <1>2. CASE UNCHANGED vars
    <2>1. UNCHANGED <<left, right, cut, pos>> /\ \A t \in Threads : Later(t)' = Later(t)
      BY <1>2 DEF vars, Later
    <2> QED
      BY <2>1, StayReach
  <1>3. ASSUME NEW t \in Threads, Link(t)
        PROVE  ReachInv'
    BY <1>1, <1>3, LinkReach
  <1>4. ASSUME NEW t \in Threads, Unlock(t)
        PROVE  ReachInv'
    <2>1. /\ UNCHANGED <<left, right, cut>> /\ pc[t] = "unlock" /\ pc'[t] = "walk"
          /\ todo[t] \in Seq(Values) /\ todo[t] # <<>> /\ todo'[t] = Tail(todo[t])
          /\ \A s \in Threads : /\ pos'[s] \in {Root, pos[s]}
                                /\ s # t => pc'[s] = pc[s] /\ todo'[s] = todo[s]
      BY <1>4 DEF Unlock, Goto, ShapeInv, IInv, BusyInv, TypeOK
    <2>2. /\ Len(todo'[t]) = Len(todo[t]) - 1 /\ Len(todo[t]) \in Nat
          /\ \A i \in 1 .. Len(todo'[t]) : todo'[t][i] = todo[t][i + 1]
      BY <2>1, HeadTailProperties
    <2>3. \A i \in 2 .. Len(todo[t]) : i - 1 \in 1 .. Len(todo'[t]) /\ todo[t][i] = todo'[t][i - 1]
      <3> SUFFICES ASSUME NEW i \in 2 .. Len(todo[t])
                   PROVE  i - 1 \in 1 .. Len(todo'[t]) /\ todo[t][i] = todo'[t][i - 1]
        OBVIOUS
      <3>1. i - 1 \in 1 .. Len(todo'[t]) /\ (i - 1) + 1 = i
        BY <2>2
      <3> QED
        BY <2>2, <3>1
    <2>4. \A s \in Threads : Later(s) \subseteq Later(s)'
      <3> SUFFICES ASSUME NEW s \in Threads
                   PROVE  Later(s) \subseteq Later(s)'
        OBVIOUS
      <3>1. CASE s = t
        <4>1. /\ Later(t) = {todo[t][i] : i \in 2 .. Len(todo[t])}
              /\ Later(t)' = {todo'[t][i] : i \in 1 .. Len(todo'[t])}
          BY <2>1 DEF Later
        <4> QED
          BY <2>3, <3>1, <4>1
      <3>2. CASE s # t
        BY <2>1, <3>2 DEF Later
      <3> QED
        BY <3>1, <3>2
    <2> QED
      BY <2>1, <2>4, StayReach
  <1>5. ASSUME NEW t \in Threads, Walk(t) \/ Lock(t) \/ Recheck(t) \/ GiveUp(t) \/ Follow(t)
        PROVE  ReachInv'
    <2>1. /\ UNCHANGED <<left, right, cut, todo>>
          /\ \A s \in Threads : pc'[s] = "unlock" <=> pc[s] = "unlock"
      BY <1>5 DEF Walk, Lock, Recheck, GiveUp, Follow, Goto, ShapeInv, IInv, TypeOK
    <2>2. \A s \in Threads : pos'[s] \in {Root, pos[s]} \union Kids(left, right, pos[s])
      BY <1>5 DEF Walk, Lock, Recheck, GiveUp, Follow, Goto, Kids, ShapeInv, IInv, TypeOK, LinkInv
    <2>3. \A s \in Threads : Later(s)' = Later(s)
      BY <2>1 DEF Later
    <2> QED
      BY <2>1, <2>2, <2>3, StayReach
  <1> QED
    BY <1>2, <1>3, <1>4, <1>5 DEF Next, Step, Terminated

\* However the threads interleave, what they have hung is in the dump or below a
\* node whose place on the left was given to another: every right link is safe.
THEOREM LostOnlyLeftAlways == Spec => []LostOnlyLeft
  <1>1. ReachInv => LostOnlyLeft
    BY SubtreeIsHull DEF ReachInv, Reach, LostOnlyLeft
  <1> QED
    BY <1>1, ShapeInit, ShapeStep, ReachInit, ReachStep, PTL DEF Spec
=============================================================================
