------------------------ MODULE BoundedBufferProofs ------------------------
(***************************************************************************)
(* Theorems about BoundedBuffer for any number of threads and slots that   *)
(* satisfy its assumptions.                                                *)
(***************************************************************************)
EXTENDS BoundedBuffer, FiniteSetTheorems, SequenceTheorems, TLAPS

Places == {"lock", "test", "copy", "signal", "unlock", "done"}
Inside == {"test", "copy", "signal", "unlock"}

\* A thread is inside its call exactly when it holds the mutex.
MutexInv == \A t \in Threads : pc[t] \in Inside <=> mutex = t

\* Only a thread that has to take the mutex again can be asleep.
SleepInv == \A t \in sleeping : pc[t] = "lock"

\* A thread that has yet to change num has a call left to make.
CallsInv == \A t \in Threads : pc[t] \in {"lock", "test"} => calls[t] < Rounds[t]

\* num at the halfway points, and the slots that hold an item.
Filled == num + OneIf(Halfway(Consumers)) - OneIf(Halfway(Producers))

SlotsInv ==
    /\ Halfway(Producers) => num > 0
    /\ Halfway(Consumers) => num < Capacity
    /\ \A i \in Slots : i <= Filled => buf[i] \in Items

\* A getter past Take carries an item.
AnsInv == \A c \in Consumers : pc[c] \in {"copy", "signal", "unlock"} => ans[c] \in Items

TypeInv == TypeOK /\ MutexInv /\ SleepInv /\ CallsInv /\ SlotsInv /\ AnsInv

\* The empty slot is not an item.
LEMMA EmptyNotItem == Empty \notin Items
  BY DEF Empty, Items

\* The invariant holds when the threads are created.
LEMMA TypeInvInit == Init => TypeInv
  <1> SUFFICES ASSUME Init PROVE TypeInv
    OBVIOUS
  <1> USE CapacityAssumption, RoundsAssumption, ThreadsAssumption, MaxSpuriousAssumption
      DEF Init, Threads
  <1>1. TypeOK
    BY DEF TypeOK, Slots, Items
  <1>2. MutexInv
    BY DEF MutexInv, Inside
  <1>3. SleepInv
    BY DEF SleepInv
  <1>4. CallsInv
    BY DEF CallsInv
  <1>5. SlotsInv
    BY DEF SlotsInv, Filled, Halfway, OneIf, Slots
  <1>6. AnsInv
    BY DEF AnsInv
  <1> QED
    BY <1>1, <1>2, <1>3, <1>4, <1>5, <1>6 DEF TypeInv

\* Every step of the buffer keeps it.
LEMMA TypeInvStep == TypeInv /\ [Next]_vars => TypeInv'
  <1> SUFFICES ASSUME TypeInv, [Next]_vars PROVE TypeInv'
    OBVIOUS
  <1> USE CapacityAssumption, RoundsAssumption, ThreadsAssumption, MaxSpuriousAssumption
      DEF TypeInv, Threads
  <1>1. ASSUME NEW t \in Threads, Lock(t) PROVE TypeInv'
    BY <1>1 DEF Lock, Goto, TypeOK, MutexInv, SleepInv, CallsInv, SlotsInv, AnsInv, Inside,
                Filled, Halfway, OneIf, Slots
  <1>2. ASSUME NEW t \in Threads, Wait(t) PROVE TypeInv'
    BY <1>2 DEF Wait, Goto, TypeOK, MutexInv, SleepInv, CallsInv, SlotsInv, AnsInv, Inside,
                Filled, Halfway, OneIf, Slots
  <1>3. ASSUME NEW c \in Consumers, Take(c) PROVE TypeInv'
    BY <1>3 DEF Take, Goto, TypeOK, MutexInv, SleepInv, CallsInv, SlotsInv, AnsInv, Inside,
                Filled, Halfway, OneIf, Slots
  <1>4. ASSUME NEW c \in Consumers, Shift(c) PROVE TypeInv'
    BY <1>4 DEF Shift, Goto, TypeOK, MutexInv, SleepInv, CallsInv, SlotsInv, AnsInv, Inside,
                Filled, Halfway, OneIf, Slots
  <1>5. ASSUME NEW p \in Producers, Reserve(p) PROVE TypeInv'
    BY <1>5 DEF Reserve, Goto, TypeOK, MutexInv, SleepInv, CallsInv, SlotsInv, AnsInv, Inside,
                Filled, Halfway, OneIf, Slots
  <1>6. ASSUME NEW p \in Producers, Store(p) PROVE TypeInv'
    BY <1>6 DEF Store, Goto, TypeOK, MutexInv, SleepInv, CallsInv, SlotsInv, AnsInv, Inside,
                Filled, Halfway, OneIf, Slots, Items
  <1>7. ASSUME NEW t \in Threads, Signal(t) PROVE TypeInv'
    BY <1>7 DEF Signal, Goto, TypeOK, MutexInv, SleepInv, CallsInv, SlotsInv, AnsInv, Inside,
                Filled, Halfway, OneIf, Slots
  <1>8. ASSUME NEW t \in Threads, Unlock(t) PROVE TypeInv'
    BY <1>8 DEF Unlock, Goto, TypeOK, MutexInv, SleepInv, CallsInv, SlotsInv, AnsInv, Inside,
                Filled, Halfway, OneIf, Slots
  <1>9. ASSUME NEW t \in Threads, SpuriousWakeup(t) PROVE TypeInv'
    BY <1>9 DEF SpuriousWakeup, TypeOK, MutexInv, SleepInv, CallsInv, SlotsInv, AnsInv, Inside,
                Filled, Halfway, OneIf, Slots
  <1>10. CASE UNCHANGED vars
    BY <1>10 DEF vars, TypeOK, MutexInv, SleepInv, CallsInv, SlotsInv, AnsInv, Inside,
                Filled, Halfway, OneIf, Slots
  <1> QED
    BY <1>1, <1>2, <1>3, <1>4, <1>5, <1>6, <1>7, <1>8, <1>9, <1>10
    DEF Next, PutStep, GetStep, WaitForItem, WaitForSlot, Terminated

\* Every variable of the buffer stays in its range: num never leaves the
\* slots, and what bb_get returns is an item somebody put.
THEOREM TypeCorrect == Spec => []TypeOK
  <1>1. TypeInv => TypeOK
    BY DEF TypeInv
  <1> QED
    BY <1>1, TypeInvInit, TypeInvStep, PTL DEF Spec

-----------------------------------------------------------------------------
\* The invariant behind the absence of lost wake-ups.  Neither half is
\* inductive alone: while getters sleep, NoLostWakeup is kept by a put because
\* its signal reaches a getter, which OneKindSleeps guarantees; and a getter
\* that goes to sleep keeps OneKindSleeps because, by NoLostWakeup, a putter
\* asleep at an empty buffer would need Capacity putters awake.
WakeInv == TypeInv /\ OneKindSleeps /\ NoLostWakeup

\* The threads of one kind that are awake are finitely many, and fewer than
\* all of them when one sleeps.
LEMMA AwakeSize ==
    ASSUME NEW S \in {Producers, Consumers}
    PROVE  /\ IsFiniteSet(Awake(S))
           /\ Cardinality(Awake(S)) \in Nat
           /\ sleeping \intersect S # {} => Cardinality(Awake(S)) < Capacity
  <1>1. IsFiniteSet(S) /\ Cardinality(S) <= Capacity
    BY ThreadsAssumption, CapacityAssumption
  <1>2. Awake(S) \subseteq S
    BY DEF Awake
  <1>3. IsFiniteSet(Awake(S)) /\ Cardinality(Awake(S)) \in Nat /\ Cardinality(S) \in Nat
    BY <1>1, <1>2, FS_Subset, FS_CardinalityType
  <1>4. ASSUME sleeping \intersect S # {} PROVE Cardinality(Awake(S)) < Capacity
    <2>1. Awake(S) # S
      BY <1>4 DEF Awake
    <2>2. Cardinality(Awake(S)) < Cardinality(S)
      BY <1>1, <1>2, <1>3, <2>1, FS_Subset
    <2> QED
      BY <1>1, <1>3, <2>2, CapacityAssumption
  <1> QED
    BY <1>3, <1>4

\* A thread that wakes, or leaves, changes the number awake by one.
LEMMA OneMoreAwake ==
    ASSUME NEW A, NEW t, t \notin A, IsFiniteSet(A)
    PROVE  Cardinality(A \union {t}) = Cardinality(A) + 1
  BY FS_AddElement

LEMMA OneFewerAwake ==
    ASSUME NEW A, NEW t \in A, IsFiniteSet(A)
    PROVE  Cardinality(A \ {t}) = Cardinality(A) - 1
  BY FS_RemoveElement

\* WakeInv holds at first: nobody sleeps.
LEMMA WakeInvInit == Init => WakeInv
  <1> SUFFICES ASSUME Init PROVE WakeInv
    OBVIOUS
  <1>1. sleeping = {}
    BY DEF Init
  <1> QED
    BY <1>1, TypeInvInit DEF WakeInv, OneKindSleeps, NoLostWakeup

\* Every step keeps it.
LEMMA WakeInvStep == WakeInv /\ [Next]_vars => WakeInv'
  <1> SUFFICES ASSUME WakeInv, [Next]_vars PROVE OneKindSleeps' /\ NoLostWakeup'
    BY TypeInvStep DEF WakeInv
  <1> USE ThreadsAssumption, CapacityAssumption DEF Threads, OneIf
  <1>0. /\ TypeOK /\ MutexInv /\ SleepInv
        /\ OneKindSleeps /\ NoLostWakeup
    BY DEF WakeInv, TypeInv
  <1>a. /\ num \in 0 .. Capacity
        /\ mutex \in Threads \union {NoThread}
        /\ sleeping \subseteq Threads
        /\ pc \in [Threads -> Places]
    BY <1>0 DEF TypeOK, Places
  <1>b. \A t \in Threads : pc[t] \in Inside => mutex = t
    BY <1>0 DEF MutexInv
  <1>c. \A S \in {Producers, Consumers} :
           /\ IsFiniteSet(Awake(S))
           /\ Cardinality(Awake(S)) \in Nat
           /\ sleeping \intersect S # {} => Cardinality(Awake(S)) < Capacity
    BY AwakeSize
  \* Steps that leave both sets of awake threads alone.
  <1>1. ASSUME NEW t \in Threads, Lock(t) PROVE OneKindSleeps' /\ NoLostWakeup'
    <2>1. Awake(Producers)' = Awake(Producers) /\ Awake(Consumers)' = Awake(Consumers)
      BY <1>1, <1>a DEF Lock, Goto, Awake, Places
    <2> QED
      BY <1>0, <1>1, <1>a, <1>c, <2>1 DEF Lock, Goto, OneKindSleeps, NoLostWakeup, HolderAt, Places
  <1>2. ASSUME NEW c \in Consumers, Take(c) PROVE OneKindSleeps' /\ NoLostWakeup'
    <2>1. Awake(Producers)' = Awake(Producers) /\ Awake(Consumers)' = Awake(Consumers)
      BY <1>2, <1>a DEF Take, Goto, Awake, Places
    <2>2. mutex = c
      BY <1>2, <1>b DEF Take, Goto, Inside
    <2> QED
      BY <1>0, <1>2, <1>a, <1>c, <2>1, <2>2 DEF Take, Goto, OneKindSleeps, NoLostWakeup, HolderAt, Places
  <1>3. ASSUME NEW c \in Consumers, Shift(c) PROVE OneKindSleeps' /\ NoLostWakeup'
    <2>1. Awake(Producers)' = Awake(Producers) /\ Awake(Consumers)' = Awake(Consumers)
      BY <1>3, <1>a DEF Shift, Goto, Awake, Places
    <2>2. mutex = c
      BY <1>3, <1>b DEF Shift, Goto, Inside
    <2> QED
      BY <1>0, <1>3, <1>a, <1>c, <2>1, <2>2 DEF Shift, Goto, OneKindSleeps, NoLostWakeup, HolderAt, Places
  <1>4. ASSUME NEW p \in Producers, Reserve(p) PROVE OneKindSleeps' /\ NoLostWakeup'
    <2>1. Awake(Producers)' = Awake(Producers) /\ Awake(Consumers)' = Awake(Consumers)
      BY <1>4, <1>a DEF Reserve, Goto, Awake, Places
    <2>2. mutex = p
      BY <1>4, <1>b DEF Reserve, Goto, Inside
    <2> QED
      BY <1>0, <1>4, <1>a, <1>c, <2>1, <2>2 DEF Reserve, Goto, OneKindSleeps, NoLostWakeup, HolderAt, Places
  <1>5. ASSUME NEW p \in Producers, Store(p) PROVE OneKindSleeps' /\ NoLostWakeup'
    <2>1. Awake(Producers)' = Awake(Producers) /\ Awake(Consumers)' = Awake(Consumers)
      BY <1>5, <1>a DEF Store, Goto, Awake, Places
    <2>2. mutex = p
      BY <1>5, <1>b DEF Store, Goto, Inside
    <2> QED
      BY <1>0, <1>5, <1>a, <1>c, <2>1, <2>2 DEF Store, Goto, OneKindSleeps, NoLostWakeup, HolderAt, Places
  \* A getter goes to sleep: no putter can be asleep at an empty buffer.
  <1>6. ASSUME NEW c \in Consumers, WaitForItem(c) PROVE OneKindSleeps' /\ NoLostWakeup'
    <2>1. mutex = c /\ num = 0 /\ pc[c] = "test"
      BY <1>6, <1>b DEF WaitForItem, Wait, Goto, Inside
    <2>2. sleeping \intersect Producers = {}
      BY <1>0, <1>a, <1>c, <2>1 DEF NoLostWakeup, HolderAt
    <2>3. sleeping' = sleeping \union {c} /\ num' = 0 /\ mutex' = NoThread
      BY <1>6, <2>1 DEF WaitForItem, Wait
    <2>4. Cardinality(Awake(Consumers))' \in Nat
      <3>1. Awake(Consumers)' \subseteq Consumers
        BY DEF Awake
      <3> QED
        BY <3>1, FS_Subset, FS_CardinalityType
    <2> QED
      BY <2>2, <2>3, <2>4 DEF OneKindSleeps, NoLostWakeup, HolderAt
  \* A putter goes to sleep: no getter can be asleep at a full buffer.
  <1>7. ASSUME NEW p \in Producers, WaitForSlot(p) PROVE OneKindSleeps' /\ NoLostWakeup'
    <2>1. mutex = p /\ num = Capacity /\ pc[p] = "test"
      BY <1>7, <1>b DEF WaitForSlot, Wait, Goto, Inside
    <2>2. sleeping \intersect Consumers = {}
      BY <1>0, <1>a, <1>c, <2>1 DEF NoLostWakeup, HolderAt
    <2>3. sleeping' = sleeping \union {p} /\ num' = Capacity /\ mutex' = NoThread
      BY <1>7, <2>1 DEF WaitForSlot, Wait
    <2>4. Cardinality(Awake(Producers))' \in Nat
      <3>1. Awake(Producers)' \subseteq Producers
        BY DEF Awake
      <3> QED
        BY <3>1, FS_Subset, FS_CardinalityType
    <2> QED
      BY <2>2, <2>3, <2>4 DEF OneKindSleeps, NoLostWakeup, HolderAt
  \* A signal wakes a thread of the only kind that sleeps.
  <1>8. ASSUME NEW t \in Threads, Signal(t) PROVE OneKindSleeps' /\ NoLostWakeup'
    <2>1. mutex = t /\ pc[t] = "signal" /\ pc' = [pc EXCEPT ![t] = "unlock"]
          /\ num' = num /\ mutex' = mutex
      BY <1>8, <1>b DEF Signal, Goto, Inside
    <2>2. CASE sleeping = {} /\ UNCHANGED sleeping
      BY <2>2 DEF OneKindSleeps, NoLostWakeup
    <2>3. ASSUME NEW s \in sleeping, sleeping' = sleeping \ {s}
          PROVE  OneKindSleeps' /\ NoLostWakeup'
      <3>1. pc[s] = "lock" /\ s \in Threads /\ s # t
        BY <1>0, <1>a, <2>1 DEF SleepInv
      <3>2. ASSUME NEW S \in {Producers, Consumers}, s \in S
            PROVE  Cardinality(Awake(S))' = Cardinality(Awake(S)) + 1
        <4>1. Awake(S)' = Awake(S) \union {s} /\ s \notin Awake(S)
          BY <1>a, <2>1, <2>3, <3>1, <3>2 DEF Awake, Places
        <4> QED
          BY <1>c, <4>1, OneMoreAwake
      <3> QED
        BY <1>0, <1>a, <1>c, <2>1, <2>3, <3>1, <3>2 DEF OneKindSleeps, NoLostWakeup, HolderAt, Places
    <2> QED
      BY <1>8, <2>2, <2>3 DEF Signal
  \* A thread that returns for the last time takes its claim with it.
  <1>9. ASSUME NEW t \in Threads, Unlock(t) PROVE OneKindSleeps' /\ NoLostWakeup'
    <2>1. mutex = t /\ pc[t] = "unlock" /\ mutex' = NoThread /\ num' = num /\ sleeping' = sleeping
          /\ pc' \in {[pc EXCEPT ![t] = "done"], [pc EXCEPT ![t] = "lock"]}
      BY <1>9, <1>b DEF Unlock, Goto, Inside
    <2>2. t \notin sleeping
      BY <1>0, <2>1 DEF SleepInv
    <2>3. ASSUME NEW S \in {Producers, Consumers}, t \notin S PROVE Awake(S)' = Awake(S)
      BY <1>a, <2>1, <2>3 DEF Awake, Places
    <2>4. ASSUME NEW S \in {Producers, Consumers}, t \in S
          PROVE  /\ Cardinality(Awake(S))' \in Nat
                 /\ Cardinality(Awake(S))' >= Cardinality(Awake(S)) - 1
      <3>1. t \in Awake(S) /\ (Awake(S)' = Awake(S) \/ Awake(S)' = Awake(S) \ {t})
        BY <1>a, <2>1, <2>2, <2>4 DEF Awake, Places
      <3>2. Cardinality(Awake(S) \ {t}) = Cardinality(Awake(S)) - 1
        BY <1>c, <3>1, OneFewerAwake
      <3>3. IsFiniteSet(Awake(S)') /\ Cardinality(Awake(S)') \in Nat
        BY <1>c, <3>1, FS_RemoveElement, FS_CardinalityType
      <3> QED
        BY <1>c, <3>1, <3>2, <3>3
    <2> QED
      BY <1>0, <1>a, <1>c, <2>1, <2>3, <2>4 DEF OneKindSleeps, NoLostWakeup, HolderAt, Places
  \* A wake-up out of nothing only adds to the threads awake.
  <1>10. ASSUME NEW t \in Threads, SpuriousWakeup(t) PROVE OneKindSleeps' /\ NoLostWakeup'
    <2>1. t \in sleeping /\ sleeping' = sleeping \ {t} /\ pc' = pc /\ num' = num /\ mutex' = mutex
      BY <1>10 DEF SpuriousWakeup
    <2>2. pc[t] = "lock"
      BY <1>0, <2>1 DEF SleepInv
    <2>3. ASSUME NEW S \in {Producers, Consumers}, t \notin S PROVE Awake(S)' = Awake(S)
      BY <2>1, <2>3 DEF Awake
    <2>4. ASSUME NEW S \in {Producers, Consumers}, t \in S
          PROVE  Cardinality(Awake(S))' = Cardinality(Awake(S)) + 1
      <3>1. Awake(S)' = Awake(S) \union {t} /\ t \notin Awake(S)
        BY <2>1, <2>2, <2>4 DEF Awake
      <3> QED
        BY <1>c, <3>1, OneMoreAwake
    <2> QED
      BY <1>0, <1>a, <1>c, <2>1, <2>3, <2>4 DEF OneKindSleeps, NoLostWakeup, HolderAt
  <1>11. CASE UNCHANGED vars
    BY <1>0, <1>11 DEF vars, OneKindSleeps, NoLostWakeup, HolderAt, Awake
  <1> QED
    BY <1>1, <1>2, <1>3, <1>4, <1>5, <1>6, <1>7, <1>8, <1>9, <1>10, <1>11
    DEF Next, PutStep, GetStep, Terminated

\* A signal can only reach a thread of the kind that needs it, although both
\* kinds wait on the same condition variable: putters and getters never sleep
\* together when neither kind outnumbers the slots.
THEOREM OneKindSleepsAlways == Spec => []OneKindSleeps
  <1>1. WakeInv => OneKindSleeps
    BY DEF WakeInv
  <1> QED
    BY <1>1, WakeInvInit, WakeInvStep, PTL DEF Spec

\* One signal per call is enough: no sleeper is left behind with work for it
\* and nobody awake to do that work.
THEOREM NoLostWakeupEver == Spec => []NoLostWakeup
  <1>1. WakeInv => NoLostWakeup
    BY DEF WakeInv
  <1> QED
    BY <1>1, WakeInvInit, WakeInvStep, PTL DEF Spec

-----------------------------------------------------------------------------
\* What the abstract queue sees of the buffer.
AbsPuts == [p \in Producers |-> PutsSoFar(p)]
AbsGets == [c \in Consumers |-> GotSoFar(c)]

\* The length of the abstract queue.
Held == IF Halfway(Producers) THEN num - 1 ELSE num

\* The abstract queue is a sequence of Held items.
LEMMA ContentsShape ==
    ASSUME TypeInv
    PROVE  /\ Held \in 0 .. Capacity
           /\ Contents = [i \in 1 .. Held |-> IF Halfway(Consumers) THEN buf[i + 1] ELSE buf[i]]
           /\ Contents \in Seq(Items)
           /\ Len(Contents) = Held
  <1> USE ThreadsAssumption, CapacityAssumption DEF Held, Halfway, Threads
  <1>0. /\ num \in 0 .. Capacity /\ buf \in [Slots -> Items \union {Empty}]
        /\ SlotsInv
    BY DEF TypeInv, TypeOK
  <1>1. ~ (Halfway(Producers) /\ Halfway(Consumers))
    OBVIOUS
  <1>2. Held \in 0 .. Capacity
    BY <1>0 DEF SlotsInv
  <1>3. Contents = [i \in 1 .. Held |-> IF Halfway(Consumers) THEN buf[i + 1] ELSE buf[i]]
    BY <1>1 DEF Contents
  <1>4. \A i \in 1 .. Held : (IF Halfway(Consumers) THEN buf[i + 1] ELSE buf[i]) \in Items
    BY <1>0, <1>1, <1>2 DEF SlotsInv, Filled, OneIf, Slots
  <1>5. Contents \in [1 .. Held -> Items]
    BY <1>3, <1>4
  <1>6. Contents \in Seq(Items) /\ Len(Contents) = Held
    BY <1>2, <1>5
  <1> QED
    BY <1>2, <1>3, <1>6

\* The initial buffer is the empty queue.
LEMMA FifoInit == Init => Fifo!Init
  <1> SUFFICES ASSUME Init PROVE Fifo!Init
    OBVIOUS
  <1>1. TypeInv
    BY TypeInvInit
  <1>2. Held = 0
    BY ThreadsAssumption DEF Init, Held, Halfway, Threads
  <1>3. Contents = <<>>
    BY <1>1, <1>2, ContentsShape
  <1>4. AbsPuts = [p \in Producers |-> 0] /\ AbsGets = [c \in Consumers |-> <<>>]
    BY DEF Init, AbsPuts, AbsGets, PutsSoFar, GotSoFar, Threads
  <1> QED
    BY <1>3, <1>4 DEF Fifo!Init, AbsPuts, AbsGets

\* Every step of the threads is a put, a get or nothing to the queue.
LEMMA FifoStep == TypeInv /\ [Next]_vars => [Fifo!Next]_(Fifo!vars)
  <1> SUFFICES ASSUME TypeInv, [Next]_vars PROVE [Fifo!Next]_(Fifo!vars)
    OBVIOUS
  <1> DEFINE Same == Contents' = Contents /\ AbsPuts' = AbsPuts /\ AbsGets' = AbsGets
  <1> USE ThreadsAssumption, CapacityAssumption DEF Threads
  <1>0. /\ TypeOK /\ MutexInv /\ SlotsInv /\ AnsInv
    BY DEF TypeInv
  <1>a. /\ num \in 0 .. Capacity
        /\ mutex \in Threads \union {NoThread}
        /\ pc \in [Threads -> Places]
        /\ calls \in [Threads -> Nat]
        /\ buf \in [Slots -> Items \union {Empty}]
        /\ returned \in [Consumers -> Seq(Items)]
    BY <1>0 DEF TypeOK, Places
  <1>b. \A t \in Threads : pc[t] \in Inside => mutex = t
    BY <1>0 DEF MutexInv
  <1>1. ASSUME NEW t \in Threads, Lock(t) PROVE Same
    BY <1>1, <1>a DEF Lock, Goto, Contents, Halfway, AbsPuts, AbsGets, PutsSoFar, GotSoFar, Places
  <1>2. ASSUME NEW t \in Threads, Wait(t) PROVE Same
    <2>1. mutex = t
      BY <1>2, <1>b DEF Wait, Goto, Inside
    <2> QED
      BY <1>2, <1>a, <2>1 DEF Wait, Goto, Contents, Halfway, AbsPuts, AbsGets, PutsSoFar, GotSoFar, Places
  \* A get takes effect at Take.
  <1>3. ASSUME NEW c \in Consumers, Take(c) PROVE Fifo!Get(c)
    <2>1. mutex = c /\ pc[c] = "test" /\ pc' = [pc EXCEPT ![c] = "copy"]
          /\ num' = num - 1 /\ num > 0 /\ buf' = buf /\ mutex' = mutex
          /\ calls' = [calls EXCEPT ![c] = @ + 1] /\ returned' = returned
          /\ ans' = [ans EXCEPT ![c] = buf[1]]
      BY <1>3, <1>b DEF Take, Goto, Inside
    <2>2. Held = num /\ Contents = [i \in 1 .. num |-> buf[i]] /\ Contents \in Seq(Items)
          /\ Len(Contents) = num
      BY <1>a, <2>1, ContentsShape DEF Held, Halfway
    <2>3. Contents' = [i \in 1 .. num - 1 |-> buf[i + 1]]
      BY <1>a, <2>1 DEF Contents, Halfway
    <2>4. Contents # <<>> /\ Head(Contents) = buf[1] /\ Contents' = Tail(Contents)
      <3>1. num \in Nat \ {0}
        BY <1>a, <2>1
      <3>2. Contents # <<>>
        BY <2>2, <3>1
      <3>3. Head(Contents) = buf[1]
        BY <2>2, <3>1
      <3>4. Len(Tail(Contents)) = num - 1 /\ Tail(Contents) \in Seq(Items)
            /\ \A i \in 1 .. num - 1 : Tail(Contents)[i] = Contents[i + 1]
        BY <2>2, <3>1, <3>2, HeadTailProperties
      <3>5. \A i \in 1 .. num - 1 : Contents[i + 1] = buf[i + 1]
        BY <2>2, <3>1
      <3>6. Contents' \in Seq(Items) /\ Len(Contents') = num - 1
        <4>1. \A i \in 1 .. num - 1 : buf[i + 1] \in Items
          BY <2>2, <3>1, <3>5
        <4>2. Contents' \in [1 .. num - 1 -> Items]
          BY <2>3, <4>1
        <4> QED
          BY <3>1, <4>2
      <3>7. \A i \in 1 .. num - 1 : Contents'[i] = buf[i + 1]
        BY <2>3
      <3>8. Contents' = Tail(Contents)
        BY <3>4, <3>5, <3>6, <3>7, SeqEqual
      <3> QED
        BY <3>2, <3>3, <3>8
    <2>5. AbsPuts' = AbsPuts
      BY <1>a, <2>1 DEF AbsPuts, PutsSoFar
    <2>6. AbsGets' = [AbsGets EXCEPT ![c] = Append(@, buf[1])]
      <3>1. ans \in [Consumers -> Items \union {Empty}]
        BY <1>0 DEF TypeOK
      <3>2. ASSUME NEW d \in Consumers, d # c PROVE GotSoFar(d)' = GotSoFar(d)
        BY <1>a, <2>1, <3>1, <3>2 DEF GotSoFar
      <3>3. GotSoFar(c)' = Append(returned[c], buf[1]) /\ GotSoFar(c) = returned[c]
        BY <1>a, <2>1, <3>1 DEF GotSoFar
      <3> QED
        BY <3>2, <3>3 DEF AbsGets
    <2> QED
      BY <2>4, <2>5, <2>6 DEF Fifo!Get, AbsPuts, AbsGets
  <1>4. ASSUME NEW c \in Consumers, Shift(c) PROVE Same
    <2>1. mutex = c /\ pc[c] = "copy" /\ pc' = [pc EXCEPT ![c] = "signal"]
          /\ num' = num /\ mutex' = mutex /\ calls' = calls /\ returned' = returned /\ ans' = ans
          /\ buf' = [i \in Slots |-> IF i <= num THEN buf[i + 1] ELSE buf[i]]
      BY <1>4, <1>b DEF Shift, Goto, Inside
    <2>2. num < Capacity
      BY <1>0, <2>1 DEF SlotsInv, Halfway
    <2>3. Contents = [i \in 1 .. num |-> buf[i + 1]] /\ Contents' = [i \in 1 .. num |-> buf'[i]]
      BY <1>a, <2>1 DEF Contents, Halfway
    <2>4. \A i \in 1 .. num : buf'[i] = buf[i + 1]
      BY <1>a, <2>1, <2>2 DEF Slots
    <2> QED
      BY <1>a, <2>1, <2>3, <2>4 DEF AbsPuts, AbsGets, PutsSoFar, GotSoFar
  <1>5. ASSUME NEW p \in Producers, Reserve(p) PROVE Same
    <2>1. mutex = p /\ pc[p] = "test" /\ pc' = [pc EXCEPT ![p] = "copy"] /\ num' = num + 1
          /\ mutex' = mutex /\ calls' = [calls EXCEPT ![p] = @ + 1] /\ buf' = buf
          /\ returned' = returned /\ ans' = ans
      BY <1>5, <1>b DEF Reserve, Goto, Inside
    <2>2. Contents' = Contents
      BY <1>a, <2>1 DEF Contents, Halfway
    <2> QED
      BY <1>a, <2>1, <2>2 DEF AbsPuts, AbsGets, PutsSoFar, GotSoFar
  \* A put takes effect at Store.
  <1>6. ASSUME NEW p \in Producers, Store(p) PROVE Fifo!Put(p)
    <2>1. mutex = p /\ pc[p] = "copy" /\ pc' = [pc EXCEPT ![p] = "signal"] /\ num' = num
          /\ mutex' = mutex /\ calls' = calls /\ returned' = returned /\ ans' = ans
          /\ buf' = [buf EXCEPT ![num] = <<p, calls[p]>>]
      BY <1>6, <1>b DEF Store, Goto, Inside
    <2>2. num > 0
      BY <1>0, <2>1 DEF SlotsInv, Halfway
    <2>3. Contents = [i \in 1 .. num - 1 |-> buf[i]] /\ Contents' = [i \in 1 .. num |-> buf'[i]]
          /\ Len(Contents) = num - 1 /\ Contents \in Seq(Items)
      BY <1>a, <2>1, <2>2, ContentsShape DEF Contents, Halfway, Held
    <2>4. \A i \in 1 .. num : buf'[i] = IF i = num THEN <<p, calls[p]>> ELSE buf[i]
      BY <1>a, <2>1, <2>2 DEF Slots
    <2>5. Contents' = Append(Contents, <<p, calls[p]>>)
      BY <1>a, <2>2, <2>3, <2>4
    <2>6. AbsPuts[p] = calls[p] - 1 /\ AbsPuts' = [AbsPuts EXCEPT ![p] = calls[p]]
      BY <1>a, <2>1 DEF AbsPuts, PutsSoFar
    <2>7. AbsGets' = AbsGets
      BY <1>a, <2>1 DEF AbsGets, GotSoFar
    <2>8. Len(Contents) < Capacity
      <3>1. Len(Contents) = num - 1
        BY <2>3
      <3> QED
        BY <1>a, <2>2, <3>1
    <2>9. AbsPuts[p] + 1 = calls[p]
      BY <1>a, <2>6
    <2>10. AbsPuts' = [AbsPuts EXCEPT ![p] = @ + 1]
      BY <2>6, <2>9
    <2> QED
      BY <2>5, <2>7, <2>8, <2>9, <2>10 DEF Fifo!Put, AbsPuts, AbsGets
  <1>7. ASSUME NEW t \in Threads, Signal(t) PROVE Same
    <2>1. mutex = t
      BY <1>7, <1>b DEF Signal, Goto, Inside
    <2> QED
      BY <1>7, <1>a, <2>1 DEF Signal, Goto, Contents, Halfway, AbsPuts, AbsGets, PutsSoFar, GotSoFar, Places
  <1>8. ASSUME NEW t \in Threads, Unlock(t) PROVE Same
    <2>1. mutex = t /\ pc[t] = "unlock" /\ mutex' = NoThread /\ num' = num /\ buf' = buf
          /\ pc' \in {[pc EXCEPT ![t] = "done"], [pc EXCEPT ![t] = "lock"]}
          /\ calls' = calls /\ ans' = ans
          /\ returned' = IF t \in Consumers THEN [returned EXCEPT ![t] = Append(@, ans[t])] ELSE returned
      BY <1>8, <1>b DEF Unlock, Goto, Inside
    <2>2. Contents' = Contents
      BY <1>a, <2>1 DEF Contents, Halfway
    <2>3. AbsPuts' = AbsPuts
      BY <1>a, <2>1 DEF AbsPuts, PutsSoFar
    <2>4. ASSUME NEW c \in Consumers PROVE GotSoFar(c)' = GotSoFar(c)
      <3>1. CASE c = t
        BY <1>a, <2>1, <3>1 DEF GotSoFar
      <3>2. CASE c # t
        BY <1>a, <2>1, <3>2 DEF GotSoFar
      <3> QED
        BY <3>1, <3>2
    <2> QED
      BY <2>2, <2>3, <2>4 DEF AbsGets
  <1>9. ASSUME NEW t \in Threads, SpuriousWakeup(t) PROVE Same
    BY <1>9 DEF SpuriousWakeup, Contents, Halfway, AbsPuts, AbsGets, PutsSoFar, GotSoFar
  <1>10. ASSUME UNCHANGED vars PROVE Same
    BY <1>10 DEF vars, Contents, Halfway, AbsPuts, AbsGets, PutsSoFar, GotSoFar
  <1>11. CASE Same
    BY <1>11 DEF Fifo!vars, AbsPuts, AbsGets
  <1>12. ASSUME NEW p \in Producers, PutStep(p) PROVE Same \/ Fifo!Put(p)
    BY <1>12, <1>1, <1>2, <1>5, <1>6, <1>7, <1>8 DEF PutStep, WaitForSlot
  <1>13. ASSUME NEW c \in Consumers, GetStep(c) PROVE Same \/ Fifo!Get(c)
    BY <1>13, <1>1, <1>2, <1>3, <1>4, <1>7, <1>8 DEF GetStep, WaitForItem
  <1>14. Same \/ Fifo!Next
    BY <1>9, <1>10, <1>12, <1>13 DEF Next, Terminated, Fifo!Next
  <1> QED
    BY <1>11, <1>14

\* bb.c implements a bounded FIFO queue: items come out in the order in which
\* they went in, each exactly once, whatever the threads' interleaving.
THEOREM BufferImplementsFifo == Spec => ImplementsFifo
  <1> QED
    BY TypeInvInit, TypeInvStep, FifoInit, FifoStep, PTL DEF Spec, ImplementsFifo, Fifo!Spec

-----------------------------------------------------------------------------
\* What the queue of BoundedFifo holds and what has been got from it is what
\* has been put, each item once.

InPut(p, x) == \E t \in Producers : \E k \in 1 .. p[t] : x = <<t, k>>

Once(q, p, g) ==
    /\ \A i \in 1 .. Len(q) : InPut(p, q[i])
    /\ \A c \in Consumers : \A i \in 1 .. Len(g[c]) : InPut(p, g[c][i])
    /\ \A x : InPut(p, x) =>
           \/ \E i \in 1 .. Len(q) : q[i] = x
           \/ \E c \in Consumers : \E i \in 1 .. Len(g[c]) : g[c][i] = x
    /\ \A i, j \in 1 .. Len(q) : q[i] = q[j] => i = j
    /\ \A c, d \in Consumers : \A i \in 1 .. Len(g[c]) : \A j \in 1 .. Len(g[d]) :
           g[c][i] = g[d][j] => c = d /\ i = j
    /\ \A i \in 1 .. Len(q) : \A c \in Consumers : \A j \in 1 .. Len(g[c]) : q[i] # g[c][j]

LEMMA PutKeepsOnce ==
    ASSUME NEW q \in Seq(Items), NEW p \in [Producers -> Nat], NEW g, NEW t \in Producers, Once(q, p, g)
    PROVE  Once(Append(q, <<t, p[t] + 1>>), [p EXCEPT ![t] = @ + 1], g)
  <1> DEFINE x == <<t, p[t] + 1>>
             q2 == Append(q, x)
             p2 == [p EXCEPT ![t] = @ + 1]
  <1>1. /\ Len(q) \in Nat /\ Len(q2) = Len(q) + 1 /\ q2[Len(q) + 1] = x
        /\ \A i \in 1 .. Len(q) : q2[i] = q[i]
    <2>1. x \in Items
      BY DEF Items
    <2> QED
      BY <2>1, AppendProperties
  <1>2. \A i \in 1 .. Len(q2) : i \in 1 .. Len(q) \/ i = Len(q) + 1
    BY <1>1
  <1>3. \A i \in 1 .. Len(q) : i \in 1 .. Len(q2) /\ i # Len(q) + 1
    BY <1>1
  <1>4. ~InPut(p, x)
    BY DEF InPut
  <1>5. \A y : InPut(p2, y) <=> InPut(p, y) \/ y = x
    <2>1. \A s \in Producers : p2[s] = IF s = t THEN p[t] + 1 ELSE p[s]
      OBVIOUS
    <2>2. \A k : k \in 1 .. p[t] + 1 <=> k \in 1 .. p[t] \/ k = p[t] + 1
      OBVIOUS
    <2> QED
      BY <2>1, <2>2 DEF InPut
  <1>6. Len(q) + 1 \in 1 .. Len(q2)
    BY <1>1
  <1> HIDE DEF x, q2, p2
  <1>7. /\ \A i \in 1 .. Len(q2) : InPut(p2, q2[i])
        /\ \A c \in Consumers : \A i \in 1 .. Len(g[c]) : InPut(p2, g[c][i])
    BY <1>1, <1>2, <1>5 DEF Once
  <1>8. \A y : InPut(p2, y) =>
           \/ \E i \in 1 .. Len(q2) : q2[i] = y
           \/ \E c \in Consumers : \E i \in 1 .. Len(g[c]) : g[c][i] = y
    BY <1>1, <1>3, <1>5, <1>6 DEF Once
  <1>9. \A i \in 1 .. Len(q) : q[i] # x
    BY <1>4 DEF Once
  <1>10. \A i, j \in 1 .. Len(q2) : q2[i] = q2[j] => i = j
    BY <1>1, <1>2, <1>9 DEF Once
  <1>11. \A i \in 1 .. Len(q2) : \A c \in Consumers : \A j \in 1 .. Len(g[c]) : q2[i] # g[c][j]
    BY <1>1, <1>2, <1>4 DEF Once
  <1>12. Once(q2, p2, g)
    BY <1>7, <1>8, <1>10, <1>11 DEF Once
  <1> QED
    BY <1>12 DEF x, q2, p2

LEMMA GetKeepsOnce ==
    ASSUME NEW q \in Seq(Items), q # <<>>, NEW p, NEW g \in [Consumers -> Seq(Items)],
           NEW c \in Consumers, Once(q, p, g)
    PROVE  Once(Tail(q), p, [g EXCEPT ![c] = Append(@, Head(q))])
  <1> DEFINE x == Head(q)
             q2 == Tail(q)
             g2 == [g EXCEPT ![c] = Append(@, x)]
             n == Len(g[c])
  <1>1. /\ Len(q) \in Nat /\ Len(q) # 0 /\ Len(q2) = Len(q) - 1 /\ x = q[1] /\ x \in Items
        /\ \A i \in 1 .. Len(q2) : q2[i] = q[i + 1]
    BY EmptySeq, HeadTailProperties
  <1>2. \A i \in 1 .. Len(q2) : i + 1 \in 1 .. Len(q) /\ i + 1 # 1 /\ i \in Int
    BY <1>1
  <1>3. \A i \in 1 .. Len(q) : i = 1 \/ (i - 1 \in 1 .. Len(q2) /\ (i - 1) + 1 = i)
    BY <1>1
  <1>4. 1 \in 1 .. Len(q)
    BY <1>1
  <1>5. g[c] \in Seq(Items) /\ n \in Nat
    OBVIOUS
  <1>6. /\ \A d \in Consumers : d # c => g2[d] = g[d]
        /\ g2[c] = Append(g[c], x)
    OBVIOUS
  <1>7. Len(g2[c]) = n + 1 /\ g2[c][n + 1] = x /\ \A i \in 1 .. n : g2[c][i] = g[c][i]
    BY <1>1, <1>5, <1>6, AppendProperties
  <1>8. /\ \A i \in 1 .. Len(g2[c]) : i \in 1 .. n \/ i = n + 1
        /\ \A i \in 1 .. n : i \in 1 .. Len(g2[c])
        /\ n + 1 \in 1 .. Len(g2[c])
    BY <1>5, <1>7
  <1> HIDE DEF x, q2, g2
  \* What has been got now is x or had been got before.
  <1>9. ASSUME NEW d \in Consumers, NEW i \in 1 .. Len(g2[d])
        PROVE  \/ d = c /\ i = n + 1 /\ g2[d][i] = x
               \/ i \in 1 .. Len(g[d]) /\ g2[d][i] = g[d][i]
    BY <1>6, <1>7, <1>8
  <1>10. /\ \A i \in 1 .. Len(q2) : InPut(p, q2[i])
         /\ \A d \in Consumers : \A i \in 1 .. Len(g2[d]) : InPut(p, g2[d][i])
    <2>1. InPut(p, x) /\ \A i \in 1 .. Len(q2) : InPut(p, q2[i])
      BY <1>1, <1>2, <1>4 DEF Once
    <2>2. ASSUME NEW d \in Consumers, NEW i \in 1 .. Len(g2[d])
          PROVE  InPut(p, g2[d][i])
      <3>1. CASE g2[d][i] = x
        BY <2>1, <3>1
      <3>2. CASE i \in 1 .. Len(g[d]) /\ g2[d][i] = g[d][i]
        BY <3>2 DEF Once
      <3> QED
        BY <1>9, <3>1, <3>2
    <2> QED
      BY <2>1, <2>2
  <1>11. ASSUME NEW y, InPut(p, y)
         PROVE  \/ \E i \in 1 .. Len(q2) : q2[i] = y
                \/ \E d \in Consumers : \E i \in 1 .. Len(g2[d]) : g2[d][i] = y
    <2>1. CASE \E i \in 1 .. Len(q) : q[i] = y
      <3>1. PICK i \in 1 .. Len(q) : q[i] = y
        BY <2>1
      <3>2. CASE i = 1
        BY <1>1, <1>7, <1>8, <3>1, <3>2
      <3>3. CASE i # 1
        BY <1>1, <1>3, <3>1, <3>3
      <3> QED
        BY <3>2, <3>3
    <2>2. CASE \E d \in Consumers : \E i \in 1 .. Len(g[d]) : g[d][i] = y
      <3>0. PICK d \in Consumers : \E i \in 1 .. Len(g[d]) : g[d][i] = y
        BY <2>2
      <3>1. PICK i \in 1 .. Len(g[d]) : g[d][i] = y
        BY <3>0
      <3>2. i \in 1 .. Len(g2[d]) /\ g2[d][i] = y
        BY <1>6, <1>7, <1>8, <3>1
      <3> QED
        BY <3>2
    <2> QED
      BY <1>11, <2>1, <2>2 DEF Once
  <1>12. ASSUME NEW i \in 1 .. Len(q2), NEW j \in 1 .. Len(q2), q2[i] = q2[j]
         PROVE  i = j
    <2>1. i + 1 = j + 1
      BY <1>1, <1>2, <1>12 DEF Once
    <2> QED
      BY <2>1
  <1>13. ASSUME NEW d \in Consumers, NEW e \in Consumers,
                NEW i \in 1 .. Len(g2[d]), NEW j \in 1 .. Len(g2[e]), g2[d][i] = g2[e][j]
         PROVE  d = e /\ i = j
    <2>1. \A f \in Consumers : \A k \in 1 .. Len(g[f]) : g[f][k] # x
      BY <1>1, <1>4 DEF Once
    <2>2. \/ d = c /\ i = n + 1 /\ g2[d][i] = x
          \/ i \in 1 .. Len(g[d]) /\ g2[d][i] = g[d][i]
      BY <1>9
    <2>3. \/ e = c /\ j = n + 1 /\ g2[e][j] = x
          \/ j \in 1 .. Len(g[e]) /\ g2[e][j] = g[e][j]
      BY <1>9
    <2> QED
      BY <1>13, <2>1, <2>2, <2>3 DEF Once
  <1>14. ASSUME NEW i \in 1 .. Len(q2), NEW d \in Consumers, NEW j \in 1 .. Len(g2[d])
         PROVE  q2[i] # g2[d][j]
    <2>1. q2[i] = q[i + 1] /\ i + 1 \in 1 .. Len(q) /\ i + 1 # 1
      BY <1>1, <1>2
    <2>2. q[i + 1] # x
      BY <1>1, <1>4, <2>1 DEF Once
    <2> QED
      BY <1>9, <2>1, <2>2 DEF Once
  <1>15. Once(q2, p, g2)
    BY <1>10, <1>11, <1>12, <1>13, <1>14 DEF Once
  <1> QED
    BY <1>15 DEF x, q2, g2

\* ItemsConserved says of the three parts of the state what Once says of three
\* values.
LEMMA OnceIsConserved ==
    ASSUME TypeInv, Once(Contents, AbsPuts, AbsGets)
    PROVE  ItemsConserved
  <1> DEFINE held == {<<NoThread, i>> : i \in 1 .. Len(Contents)}
                     \union UNION {{<<c, i>> : i \in 1 .. Len(GotSoFar(c))} : c \in Consumers}
             At(h) == IF h[1] = NoThread THEN Contents[h[2]] ELSE GotSoFar(h[1])[h[2]]
             put == UNION {{<<p, k>> : k \in 1 .. PutsSoFar(p)} : p \in Producers}
  <1>1. /\ \A p \in Producers : AbsPuts[p] = PutsSoFar(p)
        /\ \A c \in Consumers : AbsGets[c] = GotSoFar(c)
    BY DEF AbsPuts, AbsGets
  <1>2. \A x : x \in put <=> InPut(AbsPuts, x)
    BY <1>1 DEF InPut
  <1>3. \A h \in held :
           \/ \E i \in 1 .. Len(Contents) : h = <<NoThread, i>> /\ At(h) = Contents[i]
           \/ \E c \in Consumers : \E i \in 1 .. Len(GotSoFar(c)) :
                h = <<c, i>> /\ At(h) = GotSoFar(c)[i]
    BY ThreadsAssumption DEF Threads
  <1>4. /\ \A i \in 1 .. Len(Contents) : <<NoThread, i>> \in held /\ At(<<NoThread, i>>) = Contents[i]
        /\ \A c \in Consumers : \A i \in 1 .. Len(GotSoFar(c)) :
               <<c, i>> \in held /\ At(<<c, i>>) = GotSoFar(c)[i]
    BY ThreadsAssumption DEF Threads
  <1> HIDE DEF held, At, put
  <1>5. \A h \in held : At(h) \in put
    BY <1>1, <1>2, <1>3 DEF Once
  <1>6. ASSUME NEW x \in put
        PROVE  \E h \in held : At(h) = x
    <2>1. \/ \E i \in 1 .. Len(Contents) : Contents[i] = x
          \/ \E c \in Consumers : \E i \in 1 .. Len(AbsGets[c]) : AbsGets[c][i] = x
      BY <1>2 DEF Once
    <2>2. CASE \E i \in 1 .. Len(Contents) : Contents[i] = x
      BY <1>4, <2>2
    <2>3. CASE \E c \in Consumers : \E i \in 1 .. Len(AbsGets[c]) : AbsGets[c][i] = x
      BY <1>1, <1>4, <2>3
    <2> QED
      BY <2>1, <2>2, <2>3
  <1>7. \A f, h \in held : At(f) = At(h) => f = h
    BY SMTT(60), <1>1, <1>3 DEF Once
  <1>8. {At(h) : h \in held} = put
    BY <1>5, <1>6
  <1> QED
    BY <1>7, <1>8 DEF ItemsConserved, held, At, put

OnceInv == TypeInv /\ AbsPuts \in [Producers -> Nat] /\ Once(Contents, AbsPuts, AbsGets)

LEMMA OnceStep == OnceInv /\ [Next]_vars => OnceInv'
  <1> SUFFICES ASSUME OnceInv, [Next]_vars PROVE OnceInv'
    OBVIOUS
  <1>1. TypeInv /\ TypeInv'
    BY TypeInvStep DEF OnceInv
  <1>2. Contents \in Seq(Items) /\ AbsPuts \in [Producers -> Nat] /\ AbsGets \in [Consumers -> Seq(Items)]
    <2>1. \A c \in Consumers : GotSoFar(c) \in Seq(Items)
      BY <1>1 DEF GotSoFar, TypeInv, TypeOK, AnsInv
    <2> QED
      BY <1>1, <2>1, ContentsShape DEF AbsGets, OnceInv
  <1>3. [Fifo!Next]_(Fifo!vars)
    BY <1>1, FifoStep
  <1>4. CASE UNCHANGED Fifo!vars
    BY <1>1, <1>4 DEF OnceInv, Fifo!vars, AbsPuts, AbsGets
  <1>5. ASSUME NEW p \in Producers, Fifo!Put(p)
        PROVE  OnceInv'
    <2>1. /\ Contents' = Append(Contents, <<p, AbsPuts[p] + 1>>)
          /\ AbsPuts' = [AbsPuts EXCEPT ![p] = @ + 1]
          /\ AbsGets' = AbsGets
      BY <1>5 DEF Fifo!Put, AbsPuts, AbsGets
    <2>2. Once(Append(Contents, <<p, AbsPuts[p] + 1>>), [AbsPuts EXCEPT ![p] = @ + 1], AbsGets)
      BY <1>2, PutKeepsOnce DEF OnceInv
    <2>3. Once(Contents, AbsPuts, AbsGets)'
      BY <2>1, <2>2
    <2>4. AbsPuts' \in [Producers -> Nat]
      BY <1>2, <2>1
    <2> QED
      BY <1>1, <2>3, <2>4 DEF OnceInv
  <1>6. ASSUME NEW c \in Consumers, Fifo!Get(c)
        PROVE  OnceInv'
    <2>1. /\ Contents # <<>> /\ Contents' = Tail(Contents)
          /\ AbsGets' = [AbsGets EXCEPT ![c] = Append(@, Head(Contents))]
          /\ AbsPuts' = AbsPuts
      BY <1>6 DEF Fifo!Get, AbsPuts, AbsGets
    <2> QED
      BY <1>1, <1>2, <2>1, GetKeepsOnce DEF OnceInv
  <1> QED
    BY <1>3, <1>4, <1>5, <1>6 DEF Fifo!Next

\* The initial buffer is empty, and so is what has been put and got.
LEMMA OnceInit == Init => OnceInv
  <1> SUFFICES ASSUME Init PROVE OnceInv
    OBVIOUS
  <1>1. TypeInv /\ Fifo!Init
    BY TypeInvInit, FifoInit
  <1>2. Contents = <<>> /\ AbsPuts = [p \in Producers |-> 0] /\ AbsGets = [c \in Consumers |-> <<>>]
    BY <1>1 DEF Fifo!Init, AbsPuts, AbsGets
  <1>3. Once(<<>>, [p \in Producers |-> 0], [c \in Consumers |-> <<>>])
    BY DEF Once, InPut
  <1> QED
    BY <1>1, <1>2, <1>3 DEF OnceInv

\* No item is lost between a putter and a getter, and none is handed out
\* twice, however the two halves of puts and gets fall (bb.c:24-28, 49-51).
THEOREM ItemsConservedAlways == Spec => []ItemsConserved
  <1>1. OnceInv => ItemsConserved
    BY OnceIsConserved DEF OnceInv
  <1> QED
    BY <1>1, OnceInit, OnceStep, PTL DEF Spec

-----------------------------------------------------------------------------
\* A thread finishes with its last call, and a getter has got one item for
\* each call it has begun to carry out.
CountInv ==
    /\ \A t \in Threads : pc[t] = "done" => calls[t] = Rounds[t]
    /\ \A c \in Consumers : Len(GotSoFar(c)) = calls[c]

LEMMA CountInvInit == Init => CountInv
  BY DEF Init, CountInv, GotSoFar, Threads

\* Every step keeps the count.
LEMMA CountInvStep == TypeInv /\ CountInv /\ [Next]_vars => CountInv'
  <1> SUFFICES ASSUME TypeInv, CountInv, [Next]_vars PROVE CountInv'
    OBVIOUS
  <1> USE DEF Threads
  <1>a. /\ pc \in [Threads -> Places]
        /\ calls \in [Threads -> Nat]
        /\ returned \in [Consumers -> Seq(Items)]
        /\ ans \in [Consumers -> Items \union {Empty}]
    BY DEF TypeInv, TypeOK, Places
  <1>b. \A c \in Consumers : pc[c] \in {"copy", "signal", "unlock"} => ans[c] \in Items
    BY DEF TypeInv, AnsInv
  <1>c. /\ \A t \in Threads : pc[t] = "done" => calls[t] = Rounds[t]
        /\ \A c \in Consumers : Len(GotSoFar(c)) = calls[c]
    BY DEF CountInv
  \* A step that leaves what a getter has got alone.
  <1>1. ASSUME AbsGets' = AbsGets, calls' = calls,
               \A t \in Threads : pc'[t] = "done" => pc[t] = "done" \/ calls[t] = Rounds[t]
        PROVE  CountInv'
    <2>1. \A c \in Consumers : GotSoFar(c)' = GotSoFar(c)
      BY <1>1 DEF AbsGets
    <2> QED
      BY <1>1, <1>c, <2>1 DEF CountInv
  <1>2. ASSUME NEW c \in Consumers, Take(c) PROVE CountInv'
    <2>1. /\ pc[c] = "test" /\ pc' = [pc EXCEPT ![c] = "copy"]
          /\ calls' = [calls EXCEPT ![c] = @ + 1]
          /\ returned' = returned
          /\ ans' = [ans EXCEPT ![c] = buf[1]]
      BY <1>2 DEF Take, Goto
    <2>2. ans'[c] \in Items
      BY TypeInvStep, <1>a, <2>1 DEF TypeInv, AnsInv
    <2>3. GotSoFar(c)' = Append(returned[c], ans'[c]) /\ GotSoFar(c) = returned[c]
      BY <1>a, <2>1 DEF GotSoFar
    <2>4. Len(GotSoFar(c)') = Len(GotSoFar(c)) + 1
      BY <1>a, <2>2, <2>3, AppendProperties
    <2>5. ASSUME NEW d \in Consumers, d # c PROVE GotSoFar(d)' = GotSoFar(d)
      BY <1>a, <2>1, <2>5 DEF GotSoFar
    <2> QED
      BY <1>a, <1>c, <2>1, <2>4, <2>5 DEF CountInv
  <1>3. ASSUME NEW p \in Producers, Reserve(p) PROVE CountInv'
    <2>1. /\ pc[p] = "test" /\ pc' = [pc EXCEPT ![p] = "copy"]
          /\ calls' = [calls EXCEPT ![p] = @ + 1]
          /\ returned' = returned /\ ans' = ans
      BY <1>3 DEF Reserve, Goto
    <2>2. \A d \in Consumers : GotSoFar(d)' = GotSoFar(d) /\ d # p
      BY <1>a, <2>1, ThreadsAssumption DEF GotSoFar
    <2> QED
      BY <1>a, <1>c, <2>1, <2>2 DEF CountInv
  <1>4. ASSUME NEW t \in Threads, Unlock(t) PROVE CountInv'
    <2>1. /\ pc[t] = "unlock"
          /\ pc' = [pc EXCEPT ![t] = IF calls[t] = Rounds[t] THEN "done" ELSE "lock"]
          /\ calls' = calls /\ ans' = ans
          /\ returned' = IF t \in Consumers THEN [returned EXCEPT ![t] = Append(@, ans[t])] ELSE returned
      BY <1>4 DEF Unlock, Goto
    <2>2. \A d \in Consumers : GotSoFar(d)' = GotSoFar(d)
      BY <1>a, <2>1 DEF GotSoFar
    <2> QED
      BY <1>a, <1>1, <2>1, <2>2 DEF AbsGets
  <1>5. ASSUME NEW t \in Threads, Lock(t) \/ Wait(t) \/ Signal(t)
        PROVE CountInv'
    BY <1>5, <1>1, <1>a DEF Lock, Wait, Signal, Goto, AbsGets, GotSoFar, Places
  <1>6. ASSUME NEW t \in Threads, Shift(t) \/ Store(t)
        PROVE CountInv'
    BY <1>6, <1>1, <1>a DEF Shift, Store, Goto, AbsGets, GotSoFar, Places
  <1>7. ASSUME NEW t \in Threads, SpuriousWakeup(t)
        PROVE CountInv'
    BY <1>7, <1>1 DEF SpuriousWakeup, AbsGets, GotSoFar
  <1>8. CASE UNCHANGED vars
    BY <1>8, <1>1 DEF vars, AbsGets, GotSoFar
  <1> QED
    BY <1>2, <1>3, <1>4, <1>5, <1>6, <1>7, <1>8
    DEF Next, PutStep, GetStep, WaitForItem, WaitForSlot, Terminated

\* The calls of either kind are finitely many.
LEMMA CallsFinite ==
    ASSUME NEW S \in {Producers, Consumers}
    PROVE  IsFiniteSet(CallsOf(S)) /\ Cardinality(CallsOf(S)) \in Nat
  <1>1. IsFiniteSet(S) /\ S \subseteq Threads
    BY ThreadsAssumption DEF Threads
  <1> DEFINE Own(t) == {<<t, k>> : k \in 1 .. Rounds[t]}
             Sets == {Own(t) : t \in S}
  <1>2. ASSUME NEW t \in S PROVE IsFiniteSet(Own(t))
    <2> DEFINE f == [k \in 1 .. Rounds[t] |-> <<t, k>>]
    <2>1. Rounds[t] \in Nat
      BY <1>1, RoundsAssumption
    <2>2. IsFiniteSet(1 .. Rounds[t])
      BY <2>1, FS_Interval
    <2>3. f \in Surjection(1 .. Rounds[t], Own(t))
      BY DEF Surjection
    <2> HIDE DEF f, Own
    <2> QED
      BY <2>2, <2>3, FS_Surjection
  <1>3. IsFiniteSet(Sets)
    <2> DEFINE f == [t \in S |-> Own(t)]
    <2>1. f \in Surjection(S, Sets)
      BY DEF Surjection
    <2> HIDE DEF f, Own, Sets
    <2> QED
      BY <1>1, <2>1, FS_Surjection
  <1>4. IsFiniteSet(UNION Sets)
    <2>1. \A T \in Sets : IsFiniteSet(T)
      BY <1>2
    <2> HIDE DEF Sets
    <2> QED
      BY <1>3, <2>1, FS_UNION
  <1>5. CallsOf(S) = UNION Sets
    BY DEF CallsOf
  <1> QED
    BY <1>4, <1>5, FS_CardinalityType

\* Where nobody can step, the mutex is free and everyone is asleep or done.
LEMMA StuckShape ==
    ASSUME TypeInv, \A t \in Threads : ~CanStep(t)
    PROVE  mutex = NoThread /\ \A t \in Threads : t \in sleeping \/ pc[t] = "done"
  <1>1. TypeOK /\ MutexInv /\ SleepInv
    BY DEF TypeInv
  <1>2. mutex \notin Threads
    <2> SUFFICES ASSUME mutex \in Threads PROVE FALSE
      OBVIOUS
    <2>1. pc[mutex] \in Inside
      BY <1>1 DEF MutexInv
    <2>2. CanStep(mutex)
      BY <1>1, <2>1 DEF CanStep, SleepInv, Inside
    <2> QED
      BY <2>2
  <1>3. mutex = NoThread
    BY <1>1, <1>2 DEF TypeOK
  <1> QED
    BY <1>3 DEF CanStep

\* The items one side still has to move are in the buffer, so the two kinds
\* cannot both be held up: getters would all have to be short of an item that
\* the finished putters have put, or putters of a slot that the finished
\* getters have emptied.
LEMMA StuckImpossible ==
    ASSUME WakeInv, OnceInv, CountInv
    PROVE  NeverStuck
  <1> SUFFICES ASSUME \A t \in Threads : ~CanStep(t), ~AllDone PROVE FALSE
    BY DEF NeverStuck
  <1>1. TypeInv /\ TypeOK /\ SleepInv /\ CallsInv /\ OneKindSleeps /\ NoLostWakeup
    BY DEF WakeInv, TypeInv
  <1>2. mutex = NoThread /\ \A t \in Threads : t \in sleeping \/ pc[t] = "done"
    BY <1>1, StuckShape
  <1>3. /\ mutex \notin Threads /\ Producers \subseteq Threads /\ Consumers \subseteq Threads
        /\ Threads = Producers \union Consumers
    BY <1>2, ThreadsAssumption DEF Threads
  <1>4. /\ \A t \in Threads : calls[t] \in Nat /\ Rounds[t] \in Nat /\ calls[t] <= Rounds[t]
        /\ \A t \in sleeping : calls[t] < Rounds[t]
        /\ \A t \in Threads : t \notin sleeping => calls[t] = Rounds[t]
        /\ \A p \in Producers : AbsPuts[p] = calls[p]
        /\ \A c \in Consumers : Len(AbsGets[c]) = calls[c]
    <2>1. \A t \in Threads : calls[t] \in Nat /\ Rounds[t] \in Nat /\ calls[t] <= Rounds[t]
      BY <1>1, RoundsAssumption DEF TypeOK
    <2>2. \A t \in sleeping : pc[t] = "lock" /\ t \in Threads
      BY <1>1 DEF SleepInv, TypeOK
    <2>3. \A t \in sleeping : calls[t] < Rounds[t]
      BY <1>1, <2>2 DEF CallsInv
    <2>4. \A t \in Threads : t \notin sleeping => calls[t] = Rounds[t]
      BY <1>2 DEF CountInv
    <2>5. \A t \in Threads : pc[t] # "copy"
      BY <1>2, <2>2
    <2>6. \A p \in Producers : AbsPuts[p] = calls[p]
      BY <1>3, <2>5 DEF AbsPuts, PutsSoFar
    <2>7. \A c \in Consumers : Len(AbsGets[c]) = calls[c]
      BY DEF AbsGets, CountInv
    <2> QED
      BY <2>1, <2>3, <2>4, <2>6, <2>7
  <1>5. Once(Contents, AbsPuts, AbsGets)
    BY DEF OnceInv
  <1>6. PICK s \in sleeping : s \in Threads
    BY <1>1, <1>2 DEF AllDone, TypeOK
  <1>7. \A S \in {Producers, Consumers} : IsFiniteSet(CallsOf(S)) /\ Cardinality(CallsOf(S)) \in Nat
    BY CallsFinite
  <1> DEFINE Got == UNION {{<<c, i>> : i \in 1 .. calls[c]} : c \in Consumers}
             Put == UNION {{<<p, k>> : k \in 1 .. calls[p]} : p \in Producers}
  <1>8. \A x : x \in Put <=> InPut(AbsPuts, x)
    BY <1>4 DEF InPut
  <1>9. CASE s \in Consumers
    <2>1. sleeping \intersect Consumers # {} /\ sleeping \intersect Producers = {}
      BY <1>1, <1>6, <1>9 DEF OneKindSleeps
    <2>2. Awake(Consumers) = {}
      BY <1>2, <1>3 DEF Awake
    <2>3. num = 0
      <3>1. /\ ~HolderAt(Consumers, {"copy", "signal", "unlock"})
            /\ ~HolderAt(Producers, {"copy", "signal"})
        BY <1>3 DEF HolderAt
      <3>2. num \in Nat /\ num <= Cardinality(Awake(Consumers))
        BY <1>1, <2>1, <3>1 DEF NoLostWakeup, OneIf, TypeOK
      <3> QED
        BY <2>2, <3>2, FS_EmptySet
    <2>4. Len(Contents) = 0
      BY <1>1, <1>3, <2>3, ContentsShape DEF Held, Halfway
    <2>5. Put = CallsOf(Producers)
      BY <1>3, <1>4, <2>1 DEF CallsOf
    <2>6. Got \subseteq CallsOf(Consumers)
      <3> SUFFICES ASSUME NEW c \in Consumers, NEW i \in 1 .. calls[c]
                   PROVE  i \in 1 .. Rounds[c]
        BY DEF CallsOf
      <3> QED
        BY <1>3, <1>4
    <2>7. <<s, Rounds[s]>> \in CallsOf(Consumers) /\ <<s, Rounds[s]>> \notin Got
      <3>1. calls[s] < Rounds[s] /\ calls[s] \in Nat /\ Rounds[s] \in Nat
        BY <1>4, <1>6
      <3>2. Rounds[s] \in 1 .. Rounds[s] /\ Rounds[s] \notin 1 .. calls[s]
        BY <3>1
      <3> QED
        BY <1>9, <3>2 DEF CallsOf
    <2>8. \E f : f \in Surjection(Got, Put)
      <3> DEFINE f == [h \in Got |-> AbsGets[h[1]][h[2]]]
      <3>1. ASSUME NEW h \in Got PROVE f[h] \in Put
        <4>1. PICK c \in Consumers : \E i \in 1 .. Len(AbsGets[c]) : h = <<c, i>>
          BY <1>4
        <4> QED
          BY <1>5, <1>8, <4>1 DEF Once
      <3>2. ASSUME NEW x \in Put PROVE \E h \in Got : f[h] = x
        <4>1. \E c \in Consumers : \E i \in 1 .. Len(AbsGets[c]) : AbsGets[c][i] = x
          BY <1>5, <1>8, <2>4 DEF Once
        <4>2. PICK c \in Consumers : \E i \in 1 .. calls[c] : AbsGets[c][i] = x
          BY <1>4, <4>1
        <4>3. PICK i \in 1 .. calls[c] : AbsGets[c][i] = x
          BY <4>2
        <4>4. <<c, i>> \in Got /\ f[<<c, i>>] = x
          BY <4>3
        <4> QED
          BY <4>4
      <3>3. f \in [Got -> Put]
        BY <3>1
      <3> HIDE DEF f, Got, Put
      <3>4. f \in Surjection(Got, Put)
        BY <3>2, <3>3 DEF Surjection
      <3> QED
        BY <3>4
    <2> HIDE DEF Got, Put
    <2>9. IsFiniteSet(Got) /\ Cardinality(Got) \in Nat /\ Cardinality(Got) < Cardinality(CallsOf(Consumers))
      BY <1>7, <2>6, <2>7, FS_Subset, FS_CardinalityType
    <2>10. Cardinality(Put) <= Cardinality(Got)
      BY <2>8, <2>9, FS_Surjection
    <2> QED
      BY <1>7, <2>5, <2>9, <2>10, BalanceAssumption
  <1>10. CASE s \in Producers
    <2>1. sleeping \intersect Consumers = {}
      BY <1>1, <1>6, <1>10 DEF OneKindSleeps
    <2>5. Got = CallsOf(Consumers)
      BY <1>3, <1>4, <2>1 DEF CallsOf
    <2>6. Put \subseteq CallsOf(Producers)
      <3> SUFFICES ASSUME NEW c \in Producers, NEW i \in 1 .. calls[c]
                   PROVE  i \in 1 .. Rounds[c]
        BY DEF CallsOf
      <3> QED
        BY <1>3, <1>4
    <2>7. <<s, Rounds[s]>> \in CallsOf(Producers) /\ <<s, Rounds[s]>> \notin Put
      <3>1. calls[s] < Rounds[s] /\ calls[s] \in Nat /\ Rounds[s] \in Nat
        BY <1>4, <1>6
      <3>2. Rounds[s] \in 1 .. Rounds[s] /\ Rounds[s] \notin 1 .. calls[s]
        BY <3>1
      <3> QED
        BY <1>10, <3>2 DEF CallsOf
    <2>8. \E f : f \in Injection(Got, Put)
      <3> DEFINE f == [h \in Got |-> AbsGets[h[1]][h[2]]]
      <3>0. ASSUME NEW h \in Got
            PROVE  \E c \in Consumers : \E i \in 1 .. Len(AbsGets[c]) : h = <<c, i>> /\ f[h] = AbsGets[c][i]
        BY <1>4
      <3>1. ASSUME NEW h \in Got PROVE f[h] \in Put
        BY <1>5, <1>8, <3>0 DEF Once
      <3>2. ASSUME NEW g \in Got, NEW h \in Got, f[g] = f[h] PROVE g = h
        <4> HIDE DEF f, Got
        <4>1. PICK c \in Consumers : \E i \in 1 .. Len(AbsGets[c]) : g = <<c, i>> /\ f[g] = AbsGets[c][i]
          BY <3>0
        <4>2. PICK i \in 1 .. Len(AbsGets[c]) : g = <<c, i>> /\ f[g] = AbsGets[c][i]
          BY <4>1
        <4>3. PICK d \in Consumers : \E j \in 1 .. Len(AbsGets[d]) : h = <<d, j>> /\ f[h] = AbsGets[d][j]
          BY <3>0
        <4>4. PICK j \in 1 .. Len(AbsGets[d]) : h = <<d, j>> /\ f[h] = AbsGets[d][j]
          BY <4>3
        <4>5. c = d /\ i = j
          BY <1>5, <3>2, <4>2, <4>4 DEF Once
        <4> QED
          BY <4>2, <4>4, <4>5
      <3>3. f \in [Got -> Put]
        BY <3>1
      <3> HIDE DEF f, Got, Put
      <3>4. f \in Injection(Got, Put)
        BY <3>2, <3>3 DEF Injection, IsInjective
      <3> QED
        BY <3>4
    <2> HIDE DEF Got, Put
    <2>9. IsFiniteSet(Put) /\ Cardinality(Put) \in Nat /\ Cardinality(Put) < Cardinality(CallsOf(Producers))
      BY <1>7, <2>6, <2>7, FS_Subset, FS_CardinalityType
    <2>10. Cardinality(Got) <= Cardinality(Put)
      BY <2>8, <2>9, FS_Injection
    <2> QED
      BY <1>7, <2>5, <2>9, <2>10, BalanceAssumption
  <1> QED
    BY <1>3, <1>6, <1>9, <1>10

\* The threads of main.c never deadlock on the one condition variable that
\* putters and getters share, however many there are and whoever a signal
\* reaches, as long as they put as many items as they get.
THEOREM NeverStuckEver == Spec => []NeverStuck
  <1>1. Init => WakeInv /\ OnceInv /\ CountInv
    BY WakeInvInit, OnceInit, CountInvInit
  <1>2. WakeInv /\ OnceInv /\ CountInv /\ [Next]_vars => (WakeInv /\ OnceInv /\ CountInv)'
    BY WakeInvStep, OnceStep, CountInvStep DEF WakeInv
  <1>3. WakeInv /\ OnceInv /\ CountInv => NeverStuck
    BY StuckImpossible
  <1> QED
    BY <1>1, <1>2, <1>3, PTL DEF Spec
=============================================================================
