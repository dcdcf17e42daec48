--------------------------- MODULE BoundedBuffer ---------------------------
(***************************************************************************)
(* The bounded buffer of kadai3 (kadai-c/bb.c) and the threads of its      *)
(* main.c: an array of Capacity slots and a count num, ONE mutex, and ONE  *)
(* condition variable on which getters wait for an item and putters wait   *)
(* for a slot.  Every successful call signals once, so a signal can reach  *)
(* a thread of either kind.                                                *)
(*                                                                         *)
(* One step is what a thread does between two points at which another      *)
(* thread can act or look: the mutex calls, the wait, the signal, and the  *)
(* two halves of a put (num, then the slot) and of a get (num and slot 0,  *)
(* then the shift).  bb_get's fast path (lines 22-29) and what follows its *)
(* wait loop (lines 34-39) are the same statements, so both go through     *)
(* Take, Shift, Signal, Unlock; likewise for bb_put.  sched_yield at line  *)
(* 30 runs with the mutex held and changes no state.                       *)
(*                                                                         *)
(* main.c puts the value 1 every time; here each item carries the name of  *)
(* its putter and a running number, so that items can be told apart.       *)
(***************************************************************************)
EXTENDS Integers, Sequences, FiniteSets

CONSTANTS
    Producers,      \* the threads running put1, put2, put3
    Consumers,      \* the threads running get1, get2, get3
    Capacity,       \* 10 in bb.c
    Rounds,         \* Rounds[t]: how many calls thread t makes
    MaxSpurious,    \* bound on the spurious wake-ups POSIX allows
    NoThread        \* the mutex is free

Threads == Producers \union Consumers

\* Putters and getters are different threads, and no thread is NoThread.
ASSUME ThreadsAssumption ==
    /\ Producers \intersect Consumers = {}
    /\ NoThread \notin Threads
    /\ IsFiniteSet(Producers)
    /\ IsFiniteSet(Consumers)

\* main.c starts 3 putters and 3 getters on a buffer of 10.  What the proofs
\* and the runs need of these numbers is that neither kind outnumbers the slots.
ASSUME CapacityAssumption ==
    /\ Capacity \in Nat \ {0}
    /\ Cardinality(Producers) <= Capacity
    /\ Cardinality(Consumers) <= Capacity

\* Every thread makes at least one call (3334 or 3333 of them in main.c).
ASSUME RoundsAssumption == Rounds \in [Threads -> Nat \ {0}]

\* The calls the threads of S make, numbered for each thread.
CallsOf(S) == UNION {{<<t, k>> : k \in 1 .. Rounds[t]} : t \in S}

\* put1 to put3 share out N puts and get1 to get3 as many gets.
ASSUME BalanceAssumption == Cardinality(CallsOf(Producers)) = Cardinality(CallsOf(Consumers))

ASSUME MaxSpuriousAssumption == MaxSpurious \in Nat

VARIABLES
    buf,            \* bb->buf, slot 0 of the code is slot 1 here
    num,            \* bb->num
    mutex,          \* the thread that holds the mutex, or NoThread
    sleeping,       \* the threads blocked in pthread_cond_wait, not yet woken
    pc,             \* where each thread is in its call
    calls,          \* calls[t]: how many calls thread t has begun to carry out
    ans,            \* ans[c]: the local variable of bb_get
    returned,       \* returned[c]: the items bb_get has returned to c, in order
    spurious        \* how many spurious wake-ups there have been

vars == <<buf, num, mutex, sleeping, pc, calls, ans, returned, spurious>>

Slots == 1 .. Capacity

\* bb_create zeroes the slots: no item.
Empty == <<>>

Items == Producers \X Nat

Init ==
    /\ buf = [i \in Slots |-> Empty]
    /\ num = 0
    /\ mutex = NoThread
    /\ sleeping = {}
    /\ pc = [t \in Threads |-> "lock"]
    /\ calls = [t \in Threads |-> 0]
    /\ ans = [c \in Consumers |-> Empty]
    /\ returned = [c \in Consumers |-> <<>>]
    /\ spurious = 0

-----------------------------------------------------------------------------
\* Thread t moves from one place of its call to another.
Goto(t, from, to) ==
    /\ pc[t] = from
    /\ pc' = [pc EXCEPT ![t] = to]

\* pthread_mutex_lock on entry, or the re-acquisition inside
\* pthread_cond_wait by a thread that has been woken.
Lock(t) ==
    /\ Goto(t, "lock", "test")
    /\ t \notin sleeping
    /\ mutex = NoThread
    /\ mutex' = t
    /\ UNCHANGED <<buf, num, sleeping, calls, ans, returned, spurious>>

\* pthread_cond_wait: give up the mutex and go to sleep in one step.
Wait(t) ==
    /\ Goto(t, "test", "lock")
    /\ mutex' = NoThread
    /\ sleeping' = sleeping \union {t}
    /\ UNCHANGED <<buf, num, calls, ans, returned, spurious>>

\* bb_get finds num == 0.
WaitForItem(c) == num = 0 /\ Wait(c)

\* bb_put finds num == 10.
WaitForSlot(p) == num = Capacity /\ Wait(p)

\* Plausible slips in the calls below, for the mutant runs: a wait that is
\* not repeated, a get from the young end, a shift that stops early, a signal
\* only when the buffer stops being empty or full, a lost signal, and a path
\* that keeps the mutex.
TakeUnguarded(c) ==
    /\ Goto(c, "test", "copy")
    /\ num' = num - 1
    /\ ans' = [ans EXCEPT ![c] = buf[1]]
    /\ calls' = [calls EXCEPT ![c] = @ + 1]
    /\ UNCHANGED <<buf, mutex, sleeping, returned, spurious>>

TakeYoungest(c) ==
    /\ Goto(c, "test", "copy")
    /\ num > 0
    /\ num' = num - 1
    /\ ans' = [ans EXCEPT ![c] = buf[num]]
    /\ calls' = [calls EXCEPT ![c] = @ + 1]
    /\ UNCHANGED <<buf, mutex, sleeping, returned, spurious>>

SignalOnEdge(t) ==
    /\ Goto(t, "signal", "unlock")
    /\ IF sleeping # {} /\ (num = 1 \/ num = Capacity - 1)
       THEN \E s \in sleeping : sleeping' = sleeping \ {s}
       ELSE UNCHANGED sleeping
    /\ UNCHANGED <<buf, num, mutex, calls, ans, returned, spurious>>

SignalNobody(t) ==
    /\ Goto(t, "signal", "unlock")
    /\ UNCHANGED <<buf, num, mutex, sleeping, calls, ans, returned, spurious>>

UnlockForgotten(t) ==
    /\ Goto(t, "unlock", IF calls[t] = Rounds[t] THEN "done" ELSE "lock")
    /\ returned' = IF t \in Consumers
                   THEN [returned EXCEPT ![t] = Append(@, ans[t])]
                   ELSE returned
    /\ UNCHANGED <<buf, num, mutex, sleeping, calls, ans, spurious>>

\* bb->num--; ans = bb->buf[0]
Take(c) ==
    /\ Goto(c, "test", "copy")
    /\ num > 0
    /\ num' = num - 1
    /\ ans' = [ans EXCEPT ![c] = buf[1]]
    /\ calls' = [calls EXCEPT ![c] = @ + 1]
    /\ UNCHANGED <<buf, mutex, sleeping, returned, spurious>>

\* for (i = 0; i < bb->num; i++) bb->buf[i] = bb->buf[i+1]
Shift(c) ==
    /\ Goto(c, "copy", "signal")
    /\ buf' = [i \in Slots |-> IF i <= num THEN buf[i + 1] ELSE buf[i]]
    /\ UNCHANGED <<num, mutex, sleeping, calls, ans, returned, spurious>>

\* bb->num++
Reserve(p) ==
    /\ Goto(p, "test", "copy")
    /\ num < Capacity
    /\ num' = num + 1
    /\ calls' = [calls EXCEPT ![p] = @ + 1]
    /\ UNCHANGED <<buf, mutex, sleeping, ans, returned, spurious>>

\* bb->buf[bb->num-1] = n
Store(p) ==
    /\ Goto(p, "copy", "signal")
    /\ buf' = [buf EXCEPT ![num] = <<p, calls[p]>>]
    /\ UNCHANGED <<num, mutex, sleeping, calls, ans, returned, spurious>>

\* pthread_cond_signal wakes one thread that waits on cond, whichever it is,
\* and is lost when there is none.
Signal(t) ==
    /\ Goto(t, "signal", "unlock")
    /\ \/ sleeping = {} /\ UNCHANGED sleeping
       \/ \E s \in sleeping : sleeping' = sleeping \ {s}
    /\ UNCHANGED <<buf, num, mutex, calls, ans, returned, spurious>>

\* pthread_mutex_unlock and the return to the loop of main.c, which ends
\* after the thread's last call.
Unlock(t) ==
    /\ Goto(t, "unlock", IF calls[t] = Rounds[t] THEN "done" ELSE "lock")
    /\ mutex' = NoThread
    /\ returned' = IF t \in Consumers
                   THEN [returned EXCEPT ![t] = Append(@, ans[t])]
                   ELSE returned
    /\ UNCHANGED <<buf, num, sleeping, calls, ans, spurious>>

\* POSIX lets pthread_cond_wait return without a signal.  Bound: MaxSpurious.
SpuriousWakeup(t) ==
    /\ t \in sleeping
    /\ spurious < MaxSpurious
    /\ spurious' = spurious + 1
    /\ sleeping' = sleeping \ {t}
    /\ UNCHANGED <<buf, num, mutex, pc, calls, ans, returned>>

\* One step of bb_put and of bb_get.
PutStep(p) == Lock(p) \/ WaitForSlot(p) \/ Reserve(p) \/ Store(p) \/ Signal(p) \/ Unlock(p)
GetStep(c) == Lock(c) \/ WaitForItem(c) \/ Take(c) \/ Shift(c) \/ Signal(c) \/ Unlock(c)

AllDone == \A t \in Threads : pc[t] = "done"

\* The six joins of main succeed and the program ends.
Terminated == AllDone /\ UNCHANGED vars

Next ==
    \/ \E p \in Producers : PutStep(p)
    \/ \E c \in Consumers : GetStep(c)
    \/ \E t \in Threads : SpuriousWakeup(t)
    \/ Terminated

Spec == Init /\ [][Next]_vars

\* The kernel runs every runnable thread sooner or later.  Nothing is assumed
\* of the order in which threads get the mutex or which one a signal wakes.
Fairness ==
    /\ \A p \in Producers : WF_vars(PutStep(p))
    /\ \A c \in Consumers : WF_vars(GetStep(c))

FairSpec == Spec /\ Fairness

-----------------------------------------------------------------------------
\* The thread that holds the mutex is between the two halves of its call:
\* num has changed and the slots have not.
Halfway(S) == mutex \in S /\ pc[mutex] = "copy"

\* The items in the buffer, oldest first.  A get counts from Take on, a put
\* from Store on.
Contents ==
    IF Halfway(Consumers) THEN [i \in 1 .. num |-> buf[i + 1]]
    ELSE [i \in 1 .. (IF Halfway(Producers) THEN num - 1 ELSE num) |-> buf[i]]

\* How many items p has put, and which ones c has got.
PutsSoFar(p) == IF pc[p] = "copy" THEN calls[p] - 1 ELSE calls[p]

GotSoFar(c) ==
    IF pc[c] \in {"copy", "signal", "unlock"} THEN Append(returned[c], ans[c])
    ELSE returned[c]

Fifo == INSTANCE BoundedFifo WITH
    queue <- Contents,
    puts <- [p \in Producers |-> PutsSoFar(p)],
    gets <- [c \in Consumers |-> GotSoFar(c)]

\* Threads of S that are neither asleep nor finished: the ones that will look
\* at the buffer again without being woken.
Awake(S) == {t \in S : t \notin sleeping /\ pc[t] # "done"}

\* One thread of S holds the mutex at one of these places.
HolderAt(S, places) == mutex \in S /\ pc[mutex] \in places

OneIf(b) == IF b THEN 1 ELSE 0

\* Thread t can take its next step without being woken: nothing but a taken
\* mutex, in Lock, ever holds up a thread that is not asleep.
CanStep(t) ==
    /\ pc[t] # "done"
    /\ t \notin sleeping
    /\ pc[t] = "lock" => mutex = NoThread

-----------------------------------------------------------------------------
\* Type invariant: every variable stays in its range, and in particular num
\* never leaves 0..Capacity, so that bb->buf[bb->num-1] is a slot.
TypeOK ==
    /\ buf \in [Slots -> Items \union {Empty}]
    /\ num \in 0 .. Capacity
    /\ mutex \in Threads \union {NoThread}
    /\ sleeping \subseteq Threads
    /\ pc \in [Threads -> {"lock", "test", "copy", "signal", "unlock", "done"}]
    /\ calls \in [Threads -> Nat]
    /\ \A t \in Threads : calls[t] <= Rounds[t]
    /\ ans \in [Consumers -> Items \union {Empty}]
    /\ returned \in [Consumers -> Seq(Items)]
    /\ spurious \in 0 .. MaxSpurious

\* Putters and getters never sleep on the shared condition variable at the
\* same time, so that a signal cannot wake a thread of the wrong kind.
OneKindSleeps ==
    sleeping \intersect Producers = {} \/ sleeping \intersect Consumers = {}

\* No wake-up is lost: while a getter sleeps, every item in the buffer has a
\* getter awake that will come for it, and likewise the free slots while a
\* putter sleeps.  In the middle of a call the count is corrected by the
\* signal the call has yet to send and the item or slot it has claimed.
NoLostWakeup ==
    /\ sleeping \intersect Consumers # {} =>
           num + OneIf(HolderAt(Consumers, {"copy", "signal", "unlock"}))
               - OneIf(HolderAt(Producers, {"copy", "signal"}))
             <= Cardinality(Awake(Consumers))
    /\ sleeping \intersect Producers # {} =>
           (Capacity - num) + OneIf(HolderAt(Producers, {"copy", "signal", "unlock"}))
               - OneIf(HolderAt(Consumers, {"copy", "signal"}))
             <= Cardinality(Awake(Producers))

\* No item is lost and none is delivered twice: the items put so far are in
\* the buffer or with a getter, each in one place.
ItemsConserved ==
    LET held == {<<NoThread, i>> : i \in 1 .. Len(Contents)}
                \union UNION {{<<c, i>> : i \in 1 .. Len(GotSoFar(c))} : c \in Consumers}
        At(h) == IF h[1] = NoThread THEN Contents[h[2]] ELSE GotSoFar(h[1])[h[2]]
        put == UNION {{<<p, k>> : k \in 1 .. PutsSoFar(p)} : p \in Producers}
    IN  /\ {At(h) : h \in held} = put
        /\ \A g, h \in held : At(g) = At(h) => g = h

\* No deadlock: while a thread of main.c has not finished, some thread can go
\* on without waiting for a wake-up that POSIX does not promise.
NeverStuck == AllDone \/ \E t \in Threads : CanStep(t)

\* The buffer behaves as a bounded FIFO queue with atomic puts and gets.
ImplementsFifo == Fifo!Spec

\* When main.c puts as many items as it gets, every call returns and the
\* program ends: nobody waits for ever.
EveryCallReturns == <>AllDone
=============================================================================
