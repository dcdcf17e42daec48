--------------------------- MODULE PmTimerProofs ---------------------------
(***************************************************************************)
(* How long pm_timer_wait_millisec takes, for counters of any two widths,  *)
(* whichever of them the kernel takes the hardware to have, any frequency, *)
(* any waits, and polls at any distance.                                   *)
(***************************************************************************)
EXTENDS PmTimer, Integers, TLAPS

-----------------------------------------------------------------------------
\* Arithmetic.

LEMMA Product ==
    ASSUME NEW m \in Nat, NEW p \in Nat, NEW q \in Nat, p < q
    PROVE  m * p + m <= m * q
<1>1. PICK d \in Nat : q = p + 1 + d
  BY SMT
<1>2. m * q = m * p + m + m * d
  BY SMT, <1>1
<1>3. m * d \in Nat
  BY SMT
<1> QED
  BY SMT, <1>2, <1>3

LEMMA ModType ==
    ASSUME NEW a \in Nat, NEW m \in Nat \ {0}
    PROVE  a % m \in Nat /\ a % m < m /\ (a < m => a % m = a)
  BY SMT

LEMMA DivMod ==
    ASSUME NEW a \in Nat, NEW m \in Nat \ {0}
    PROVE  a = m * (a \div m) + (a % m) /\ a \div m \in Nat /\ a % m \in 0 .. m - 1
  BY SMT

LEMMA ModOnce ==
    ASSUME NEW a \in Nat, NEW m \in Nat \ {0}, m <= a, a < 2 * m
    PROVE  a % m = a - m
  BY SMT

\* Quotient and remainder are unique.
LEMMA Unique ==
    ASSUME NEW m \in Nat \ {0}, NEW p \in Nat, NEW q \in Nat,
           NEW r \in 0 .. m - 1, NEW s \in 0 .. m - 1, m * p + r = m * q + s
    PROVE  r = s
<1> DEFINE x == m * p
           y == m * q
<1>1. x \in Nat /\ y \in Nat
  BY SMT
<1>2. p < q => x + m <= y
  BY Product
<1>3. q < p => y + m <= x
  BY Product
<1>4. p = q => x = y
  OBVIOUS
<1>5. p < q \/ q < p \/ p = q
  BY SMT
<1>6. x + r = y + s
  OBVIOUS
<1> HIDE DEF x, y
<1> QED
  BY SMT, <1>1, <1>2, <1>3, <1>4, <1>5, <1>6

\* A counter one further on.
LEMMA ModSucc ==
    ASSUME NEW a \in Nat, NEW m \in Nat \ {0}
    PROVE  (a + 1) % m = IF (a % m) + 1 < m THEN (a % m) + 1 ELSE 0
<1> DEFINE q == a \div m
           r == a % m
           Q == (a + 1) \div m
           R == (a + 1) % m
<1>1. a = m * q + r /\ q \in Nat /\ r \in 0 .. m - 1
  BY DivMod
<1>2. a + 1 = m * Q + R /\ Q \in Nat /\ R \in 0 .. m - 1
  <2>1. a + 1 \in Nat
    OBVIOUS
  <2> QED
    BY <2>1, DivMod
<1> HIDE DEF q, r, Q, R
<1>3. CASE r + 1 < m
  <2>1. m * q + (r + 1) = m * Q + R /\ r + 1 \in 0 .. m - 1
    BY SMT, <1>1, <1>2, <1>3
  <2>2. r + 1 = R
    BY <1>1, <1>2, <2>1, Unique
  <2> QED
    BY <1>3, <2>2 DEF r, R
<1>4. CASE r + 1 = m
  <2>1. m * (q + 1) + 0 = m * Q + R /\ 0 \in 0 .. m - 1 /\ q + 1 \in Nat
    BY SMT, <1>1, <1>2, <1>4
  <2>2. 0 = R
    BY <1>1, <1>2, <2>1, Unique
  <2> QED
    BY SMT, <1>4, <2>2 DEF r, R
<1>5. r + 1 < m \/ r + 1 = m
  BY SMT, <1>1
<1> QED
  BY <1>3, <1>4, <1>5

\* The last value before a multiple of m is m - 1.
LEMMA ModLast ==
    ASSUME NEW a \in Nat, NEW m \in Nat \ {0}, (a + 1) % m = 0
    PROVE  a % m = m - 1
<1>1. a % m \in Nat /\ a % m < m
  BY ModType
<1>2. ~((a % m) + 1 < m)
  <2>1. (a + 1) % m = IF (a % m) + 1 < m THEN (a % m) + 1 ELSE 0
    BY ModSucc
  <2>2. (a % m) + 1 # 0
    BY <1>1
  <2> QED
    BY <2>1, <2>2
<1> QED
  BY <1>1, <1>2

LEMMA DivMonotonic ==
    ASSUME NEW m \in Nat \ {0}, NEW a \in Nat, NEW b \in Nat, a <= b
    PROVE  a \div m <= b \div m
<1> DEFINE p == a \div m
           q == b \div m
           x == m * p
           y == m * q
<1>1. a = x + (a % m) /\ p \in Nat /\ a % m \in 0 .. m - 1
  BY DivMod
<1>2. b = y + (b % m) /\ q \in Nat /\ b % m \in 0 .. m - 1
  BY DivMod
<1>3. x \in Nat /\ y \in Nat
  BY SMT, <1>1, <1>2
<1>4. q < p => y + m <= x
  BY <1>1, <1>2, Product
<1> HIDE DEF p, q, x, y
<1>5. ~(q < p)
  BY SMT, <1>1, <1>2, <1>3, <1>4
<1> QED
  BY SMT, <1>1, <1>2, <1>5 DEF p, q

-----------------------------------------------------------------------------
\* The two widths and the target.

Flags == {"one", "ext", "other"}

\* Where the value the kernel sees comes round first.
Narrow == IF mod < HwMod THEN mod ELSE HwMod

LEMMA Widths ==
    ASSUME flags \in Flags
    PROVE  /\ mod \in Nat \ {0} /\ HwMod \in Nat \ {0}
           /\ HwMod <= mod \/ (mod <= HwMod /\ HwMod % mod = 0)
           /\ mod_small <= HwMod
  BY ModAssumption DEF Flags, mod, HwMod

\* The product of line 40 is below 2^32 and the quotient below 2^24: no wait is
\* longer than a turn of the counter, of either width.
LEMMA TargetRange ==
    ASSUME flags \in Flags, msec \in Msecs
    PROVE  target \in Nat /\ target < mod /\ target <= HwMod
<1> DEFINE a == (msec * freq_hz) % Word
           t == a \div Thousand
<1>1. {mod_small, mod_large, freq_hz, Thousand, MaxLag} \subseteq Nat \ {0}
  BY ModAssumption
<1>2. msec \in Nat /\ msec * freq_hz \in Nat /\ Word \in Nat \ {0} /\ Thousand \in Nat \ {0}
  BY <1>1, InputAssumption DEF Word
<1>3. a \in Nat /\ a <= Word
  BY <1>2, ModType
<1> HIDE DEF a
<1>4. t \in Nat /\ t <= Word \div Thousand
  BY <1>2, <1>3, DivMod, DivMonotonic
<1>5. Word \div Thousand <= mod_small /\ Word \div Thousand \in Nat
  <2>1. Word \div Thousand \in Nat
    BY <1>2, DivMod
  <2> QED
    BY <1>1, <2>1, ModAssumption
<1>6. mod \in Nat \ {0} /\ HwMod \in Nat \ {0} /\ mod_small <= HwMod
  BY Widths
<1>7. target = t % mod
  BY DEF target, a
<1> HIDE DEF t
<1>8. target \in Nat /\ target < mod /\ target <= t
  <2>1. t % mod \in Nat /\ t % mod < mod
    BY <1>4, <1>6, ModType
  <2>2. t % mod <= t
    <3>1. t < mod => t % mod = t
      BY <1>4, <1>6, ModType
    <3> QED
      BY <1>4, <1>6, <2>1, <3>1
  <2> QED
    BY <1>7, <2>1, <2>2
<1> DEFINE u == Word \div Thousand
<1>9. u \in Nat /\ t <= u /\ u <= mod_small
  BY <1>4, <1>5
<1> HIDE DEF u
<1> QED
  BY <1>1, <1>4, <1>6, <1>8, <1>9

-----------------------------------------------------------------------------
\* The invariant.

Ranges ==
    /\ flags \in Flags /\ msec \in Msecs
    /\ pc \in {"measure", "wait", "poll", "end", "exec", "done"}
    /\ counter \in Nat /\ counter < HwMod
    /\ start \in Nat /\ start < mod
    /\ elapsed \in Nat /\ elapsed <= HwMod
    /\ lag \in Nat /\ lag <= MaxLag

\* While the wait goes on, what the kernel would read is no further on than the
\* ticks since the start, and exactly as far until it comes round; and a poll
\* would have seen the target.
Polling ==
    pc = "poll" =>
        /\ elapsed = HwMod \/ (start + elapsed < mod => get_time <= start + elapsed)
        /\ start + elapsed < Narrow => get_time = start + elapsed
        /\ InOneTurn /\ target # 0 => elapsed < target + lag

\* After the wait the ticks of the target are over, unless it is the wrap.
TargetReached == AfterWait => elapsed >= target \/ start + target = mod

OnTimeIfAhead == target # 0 => OnTime

IInv == Ranges /\ Polling /\ TargetReached /\ OnTimeIfAhead

\* One tick, as the kernel sees it.
LEMMA TickTime ==
    ASSUME Ranges, counter' = (counter + 1) % HwMod, UNCHANGED <<mod, HwMod>>
    PROVE  /\ counter' \in Nat /\ counter' < HwMod
           /\ get_time \in Nat /\ get_time' \in Nat
           /\ get_time' <= get_time + 1
           /\ get_time + 1 < Narrow => get_time' = get_time + 1
<1>1. /\ mod \in Nat \ {0} /\ HwMod \in Nat \ {0}
      /\ HwMod <= mod \/ (mod <= HwMod /\ HwMod % mod = 0)
  BY Widths DEF Ranges
<1>2. counter \in Nat /\ counter < HwMod /\ counter + 1 \in Nat
  BY DEF Ranges
<1>3. counter' = IF counter + 1 < HwMod THEN counter + 1 ELSE 0
  <2>1. counter % HwMod = counter
    BY <1>1, <1>2, ModType
  <2> QED
    BY <1>1, <1>2, <2>1, ModSucc
<1>4. counter' \in Nat /\ counter' < HwMod
  BY <1>1, <1>2, <1>3
<1>5. get_time = counter % mod /\ get_time' = counter' % mod
  BY DEF get_time
<1>6. get_time \in Nat /\ get_time' \in Nat /\ get_time < mod
  BY <1>1, <1>2, <1>4, <1>5, ModType
<1>7. 0 % mod = 0
  BY <1>1, ModType
<1>8. CASE HwMod <= mod
  <2>1. counter < mod /\ counter' < mod
    BY <1>1, <1>2, <1>4, <1>8
  <2>2. get_time = counter /\ get_time' = counter'
    BY <1>1, <1>2, <1>4, <1>5, <2>1, ModType
  <2>3. Narrow = HwMod
    BY <1>1, <1>8 DEF Narrow
  <2> QED
    BY <1>1, <1>2, <1>3, <1>4, <2>2, <2>3
<1>9. CASE mod <= HwMod /\ HwMod % mod = 0
  <2>1. Narrow = mod
    BY <1>1, <1>9 DEF Narrow
  <2>2. CASE counter + 1 < HwMod
    <3>1. get_time' = IF get_time + 1 < mod THEN get_time + 1 ELSE 0
      BY <1>1, <1>2, <1>3, <1>5, <2>2, ModSucc
    <3> QED
      BY <1>4, <1>6, <2>1, <3>1
  <2>3. CASE ~(counter + 1 < HwMod)
    <3>1. counter + 1 = HwMod /\ counter' = 0
      BY <1>1, <1>2, <1>3, <2>3
    <3>2. get_time' = 0
      BY <1>5, <1>7, <3>1
    <3>3. get_time = mod - 1
      BY <1>1, <1>2, <1>5, <1>9, <3>1, ModLast
    <3> QED
      BY <1>1, <1>4, <1>6, <2>1, <3>2, <3>3
  <2> QED
    BY <2>2, <2>3
<1> QED
  BY <1>1, <1>8, <1>9

LEMMA IInvInit == Init => IInv
<1> SUFFICES ASSUME Init PROVE IInv
  OBVIOUS
<1>1. mod \in Nat \ {0} /\ HwMod \in Nat \ {0}
  BY Widths DEF Init, Flags
<1>2. MaxLag \in Nat \ {0}
  BY ModAssumption
<1> QED
  BY <1>1, <1>2 DEF Init, IInv, Ranges, Flags, Polling, TargetReached, OnTimeIfAhead, OnTime, AfterWait

LEMMA TickKeeps == ASSUME IInv, Tick PROVE IInv'
<1>1. UNCHANGED <<flags, msec, pc, start>> /\ pc # "done" /\ lag < MaxLag /\ lag' = lag + 1
  BY DEF Tick, fixed, results
<1>2. UNCHANGED <<mod, HwMod, target, Narrow, InOneTurn>>
  BY <1>1 DEF mod, HwMod, target, Narrow, InOneTurn
<1>3. /\ counter' \in Nat /\ counter' < HwMod
      /\ get_time \in Nat /\ get_time' \in Nat
      /\ get_time' <= get_time + 1
      /\ get_time + 1 < Narrow => get_time' = get_time + 1
  BY <1>2, TickTime DEF Tick, IInv
<1>4. mod \in Nat \ {0} /\ HwMod \in Nat \ {0} /\ target \in Nat /\ MaxLag \in Nat
  BY Widths, TargetRange, ModAssumption DEF IInv, Ranges
<1>5. elapsed' = IF pc = "poll" /\ elapsed < HwMod THEN elapsed + 1 ELSE elapsed
  BY DEF Tick
<1>6. Ranges'
  BY <1>1, <1>2, <1>3, <1>4, <1>5 DEF IInv, Ranges
<1>7. Polling'
  <2> SUFFICES ASSUME pc = "poll" PROVE Polling'
    BY <1>1 DEF Polling
  <2>1. start \in Nat /\ elapsed \in Nat /\ elapsed <= HwMod /\ lag \in Nat
    BY DEF IInv, Ranges
  <2>2. Narrow \in Nat /\ Narrow <= HwMod
    BY <1>4 DEF Narrow
  <2>3. /\ elapsed = HwMod \/ (start + elapsed < mod => get_time <= start + elapsed)
        /\ start + elapsed < Narrow => get_time = start + elapsed
        /\ InOneTurn /\ target # 0 => elapsed < target + lag
    BY DEF IInv, Polling
  <2>4. elapsed' = HwMod \/ (start + elapsed' < mod => get_time' <= start + elapsed')
    BY <1>3, <1>4, <1>5, <2>1, <2>3
  <2>5. start + elapsed' < Narrow => get_time' = start + elapsed'
    BY <1>3, <1>4, <1>5, <2>1, <2>2, <2>3
  <2>6. InOneTurn /\ target # 0 => elapsed' < target + lag'
    BY <1>1, <1>4, <1>5, <2>1, <2>3
  <2> QED
    BY <1>1, <1>2, <2>4, <2>5, <2>6 DEF Polling
<1>8. TargetReached' /\ OnTimeIfAhead'
  BY <1>1, <1>2, <1>5 DEF IInv, TargetReached, OnTimeIfAhead, OnTime, AfterWait
<1> QED
  BY <1>6, <1>7, <1>8 DEF IInv

\* The poll that ends the wait, and one that does not.
LEMMA PollKeeps == ASSUME IInv, Poll PROVE IInv'
<1>1. UNCHANGED <<flags, msec, counter, start, elapsed>> /\ pc = "poll" /\ lag' = 0
      /\ pc' = IF Returns THEN "end" ELSE "poll"
  BY DEF Poll, Step, fixed, hardware, results
<1>2. UNCHANGED <<mod, HwMod, target, Narrow, InOneTurn, get_time>>
  BY <1>1 DEF mod, HwMod, target, Narrow, InOneTurn, get_time
<1>3. /\ mod \in Nat \ {0} /\ HwMod \in Nat \ {0} /\ MaxLag \in Nat \ {0}
      /\ target \in Nat /\ target < mod /\ target <= HwMod
  BY Widths, TargetRange, ModAssumption DEF IInv, Ranges
<1>4. start \in Nat /\ start < mod /\ elapsed \in Nat /\ elapsed <= HwMod /\ lag \in Nat /\ lag <= MaxLag
  BY DEF IInv, Ranges
<1>5. /\ elapsed = HwMod \/ (start + elapsed < mod => get_time <= start + elapsed)
      /\ start + elapsed < Narrow => get_time = start + elapsed
      /\ InOneTurn /\ target # 0 => elapsed < target + lag
  BY <1>1 DEF IInv, Polling
<1>6. get_time \in Nat
  BY <1>3, ModType DEF get_time, IInv, Ranges
<1>7. Narrow \in Nat /\ Narrow <= mod
  BY <1>3 DEF Narrow
<1>8. InOneTurn => start + target + MaxLag <= Narrow
  BY DEF InOneTurn, Narrow
<1>9. Ranges'
  BY <1>1, <1>2, <1>3 DEF IInv, Ranges
<1>10. target + start < mod => (Returns <=> start + target <= get_time)
  BY DEF Returns
<1>11. target + start >= mod /\ Returns => start + target = mod
  <2> SUFFICES ASSUME target + start >= mod, Returns PROVE start + target = mod
    OBVIOUS
  <2>1. (start + target) % mod <= 0
    BY <1>3, <1>4 DEF Returns
  <2>2. start + target \in Nat /\ mod <= start + target /\ start + target < 2 * mod
    BY <1>3, <1>4
  <2>3. \A a \in Nat : mod <= a /\ a < 2 * mod => a % mod = a - mod
    BY <1>3, ModOnce
  <2> QED
    BY <1>3, <2>1, <2>2, <2>3
<1>12. TargetReached'
  <2>1. Returns => elapsed >= target \/ start + target = mod
    BY <1>3, <1>4, <1>5, <1>6, <1>10, <1>11
  <2> QED
    BY <1>1, <1>2, <2>1 DEF TargetReached, AfterWait
<1>13. InOneTurn /\ target # 0 => elapsed < target + MaxLag /\ (~Returns => elapsed < target)
  <2> SUFFICES ASSUME InOneTurn, target # 0
               PROVE  elapsed < target + MaxLag /\ (~Returns => elapsed < target)
    OBVIOUS
  <2>1. elapsed < target + MaxLag
    BY <1>3, <1>4, <1>5
  <2>2. start + elapsed < Narrow
    BY <1>3, <1>4, <1>7, <1>8, <2>1
  <2>3. target + start < mod
    BY <1>3, <1>4, <1>7, <1>8
  <2> QED
    BY <1>3, <1>4, <1>5, <1>10, <2>1, <2>2, <2>3
<1>14. OnTimeIfAhead'
  BY <1>1, <1>2, <1>13 DEF OnTimeIfAhead, OnTime, AfterWait
<1>15. Polling'
  BY <1>1, <1>2, <1>3, <1>4, <1>5, <1>13 DEF Polling
<1> QED
  BY <1>9, <1>12, <1>14, <1>15 DEF IInv

LEMMA BeginKeeps == ASSUME IInv, BeginWait PROVE IInv'
<1>1. UNCHANGED <<flags, msec, counter>> /\ pc' = "poll" /\ lag' = 0 /\ elapsed' = 0 /\ start' = get_time
  BY DEF BeginWait, Step, fixed, hardware
<1>2. UNCHANGED <<mod, HwMod, target, Narrow, get_time>>
  BY <1>1 DEF mod, HwMod, target, Narrow, get_time
<1>3. mod \in Nat \ {0} /\ HwMod \in Nat \ {0} /\ target \in Nat /\ MaxLag \in Nat
  BY Widths, TargetRange, ModAssumption DEF IInv, Ranges
<1>4. get_time \in Nat /\ get_time < mod
  BY <1>3, ModType DEF get_time, IInv, Ranges
<1>5. Ranges'
  BY <1>1, <1>2, <1>3, <1>4 DEF IInv, Ranges
<1>6. Polling'
  BY <1>1, <1>2, <1>3, <1>4 DEF Polling
<1>7. TargetReached' /\ OnTimeIfAhead'
  BY <1>1 DEF TargetReached, OnTimeIfAhead, OnTime, AfterWait
<1> QED
  BY <1>5, <1>6, <1>7 DEF IInv

LEMMA RestKeeps ==
    ASSUME IInv, Measure \/ Measured \/ Exec \/ UNCHANGED vars
    PROVE  IInv'
<1>1. UNCHANGED <<flags, msec, counter, start, elapsed>>
  BY DEF Measure, Measured, Exec, Step, vars, fixed, hardware, results
<1>2. UNCHANGED <<mod, HwMod, target, Narrow, get_time, InOneTurn>>
  BY <1>1 DEF mod, HwMod, target, Narrow, get_time, InOneTurn
<1>3. \/ pc = "measure" /\ pc' = "wait" /\ lag' = 0
      \/ pc = "end" /\ pc' = "exec" /\ lag' = 0
      \/ pc = "exec" /\ pc' = "done" /\ lag' = 0
      \/ pc' = pc /\ lag' = lag
  BY DEF Measure, Measured, Exec, Step, vars
<1>4. MaxLag \in Nat
  BY ModAssumption
<1>5. Ranges'
  BY <1>1, <1>2, <1>3, <1>4 DEF IInv, Ranges
<1>6. Polling'
  BY <1>1, <1>2, <1>3 DEF IInv, Polling
<1>7. TargetReached' /\ OnTimeIfAhead'
  BY <1>1, <1>2, <1>3 DEF IInv, TargetReached, OnTimeIfAhead, OnTime, AfterWait
<1> QED
  BY <1>5, <1>6, <1>7 DEF IInv

LEMMA Invariance == Spec => []IInv
<1>1. IInv /\ [Next]_vars => IInv'
  BY TickKeeps, PollKeeps, BeginKeeps, RestKeeps DEF Next, KernelStep, Done
<1> QED
  BY <1>1, IInvInit, PTL DEF Spec

\* Without a wrap of the product, the target is what the milliseconds make.
LEMMA TicksAreTarget ==
    ASSUME flags \in Flags, msec \in Msecs, ProductFits
    PROVE  target = Ticks
<1> DEFINE a == msec * freq_hz
           u == Word \div Thousand
<1>1. a \in Nat /\ Word \in Nat \ {0} /\ Thousand \in Nat \ {0} /\ mod_small \in Nat /\ mod_large \in Nat
  BY ModAssumption, InputAssumption DEF Word
<1>2. mod \in Nat \ {0} /\ mod_small <= mod
  BY Widths, ModAssumption DEF mod
<1>3. a < Word /\ Ticks = a \div Thousand /\ target = ((a % Word) \div Thousand) % mod
  BY DEF ProductFits, Ticks, target
<1> HIDE DEF a
<1>4. a % Word = a
  BY <1>1, <1>3, ModType
<1>5. Ticks \in Nat /\ Ticks <= u
  <2>1. a \div Thousand \in Nat
    BY <1>1, DivMod
  <2>2. a <= Word /\ Word \in Nat
    BY <1>1, <1>3
  <2>3. a \div Thousand <= Word \div Thousand
    BY <1>1, <2>2, DivMonotonic
  <2> QED
    BY <1>3, <2>1, <2>3
<1>6. u \in Nat /\ u < mod_small
  BY <1>1, DivMod, ModAssumption
<1> HIDE DEF u
<1>7. Ticks < mod
  BY <1>1, <1>2, <1>5, <1>6
<1>8. Ticks % mod = Ticks
  BY <1>2, <1>5, <1>7, ModType
<1> QED
  BY <1>3, <1>4, <1>8

\* NeverEarly: whichever width the kernel takes the counter to have
\* (pm_timer.c:20), however it is polled and wherever the wait begins, it ends
\* no sooner than the milliseconds it was asked for, where line 40 does not
\* overflow and the target is not the wrap itself.
THEOREM NeverEarlyAlways == Spec => []NeverEarly
<1>1. IInv => NeverEarly
  BY TicksAreTarget DEF IInv, Ranges, TargetReached, NeverEarly
<1> QED
  BY <1>1, Invariance, PTL

\* OnTime: a target that is ahead and clear of the wrap is seen by the first
\* poll after it (pm_timer.c:43).
THEOREM OnTimeAlways == Spec => [](target # 0 => OnTime)
<1>1. IInv => (target # 0 => OnTime)
  BY DEF IInv, OnTimeIfAhead
<1> QED
  BY <1>1, Invariance, PTL

-----------------------------------------------------------------------------
\* Types: the LAPIC's count only goes down, so the difference that is measured
\* is not negative.

TypeInv == TypeOK /\ (pc # "measure" => current_count <= lstart)

LEMMA TypeInvInit == Init => TypeInv
<1> SUFFICES ASSUME Init PROVE TypeInv
  OBVIOUS
<1>1. mod \in Nat \ {0} /\ HwMod \in Nat \ {0}
  BY Widths DEF Init, Flags
<1>2. MaxLag \in Nat /\ Word \in Nat \ {0} /\ Thousand \in Nat \ {0}
  BY ModAssumption DEF Word
<1>3. (Word - 1) \div Thousand \in Nat
  BY <1>2, DivMod
<1> QED
  BY <1>1, <1>2, <1>3 DEF Init, TypeInv, TypeOK

LEMMA TypeInvStep == TypeInv /\ [Next]_vars => TypeInv'
<1> SUFFICES ASSUME TypeInv, [Next]_vars PROVE TypeInv'
  OBVIOUS
<1>1. /\ flags \in Flags /\ speed \in Nat \ {0} /\ msec \in Msecs
      /\ counter \in Nat /\ counter < HwMod
      /\ current_count \in 0 .. Word - 1 /\ lstart \in 0 .. Word - 1
  BY InputAssumption, Widths DEF TypeInv, TypeOK, Flags
<1>2. mod \in Nat \ {0} /\ HwMod \in Nat \ {0} /\ MaxLag \in Nat
      /\ Word \in Nat \ {0} /\ Thousand \in Nat \ {0}
  BY <1>1, Widths, ModAssumption DEF Word
<1>3. UNCHANGED fixed
  BY DEF Next, Tick, KernelStep, Measure, BeginWait, Poll, Measured, Exec, Step, Done, vars
<1>4. UNCHANGED <<flags, speed, msec, mod, HwMod>>
  BY <1>3 DEF fixed, mod, HwMod
<1> USE DEF TypeInv, TypeOK
<1>5. CASE Tick
  <2>1. counter' \in 0 .. HwMod - 1
    <3>1. counter + 1 \in Nat
      BY <1>1
    <3>2. (counter + 1) % HwMod \in Nat /\ (counter + 1) % HwMod < HwMod
      BY <1>2, <3>1, ModType
    <3> QED
      BY <1>2, <1>5, <3>2 DEF Tick
  <2>2. current_count' \in 0 .. Word - 1 /\ current_count' <= current_count
    BY <1>1, <1>2, <1>5 DEF Tick, Count
  <2>3. elapsed' \in 0 .. HwMod /\ lag' \in 0 .. MaxLag /\ UNCHANGED <<pc, lstart, start, freq_khz, initial_count>>
    BY <1>2, <1>5 DEF Tick, results
  <2> QED
    BY <1>1, <1>2, <1>4, <2>1, <2>2, <2>3
<1>6. CASE Measure
  BY <1>1, <1>2, <1>4, <1>6 DEF Measure, Step, hardware
<1>7. CASE BeginWait
  <2>1. get_time \in 0 .. mod - 1 /\ get_time < HwMod
    <3>1. get_time \in Nat /\ get_time < mod /\ (counter < mod => get_time = counter)
      BY <1>1, <1>2, ModType DEF get_time
    <3> QED
      BY <1>1, <1>2, <3>1
  <2> QED
    BY <1>1, <1>2, <1>4, <1>7, <2>1 DEF BeginWait, Step, hardware
<1>8. CASE Poll
  BY <1>1, <1>2, <1>4, <1>8 DEF Poll, Step, hardware, results
<1>9. CASE Measured
  <2> DEFINE d == lstart - current_count
  <2>1. d \in Nat /\ d <= Word - 1 /\ Word - 1 \in Nat
    BY <1>1, <1>2, <1>9 DEF Measured, Step
  <2> HIDE DEF d
  <2>2. d \div Thousand \in Nat /\ d \div Thousand <= (Word - 1) \div Thousand
    BY <1>2, <2>1, DivMod, DivMonotonic
  <2>3. (Word - 1) \div Thousand \in Nat
    BY <1>2, <2>1, DivMod
  <2>4. freq_khz' = d \div Thousand
    BY <1>9 DEF Measured, d
  <2>5. freq_khz' \in 0 .. (Word - 1) \div Thousand
    BY <2>2, <2>3, <2>4
  <2> QED
    BY <1>1, <1>2, <1>4, <1>9, <2>5 DEF Measured, Step, hardware
<1>10. CASE Exec
  <2>1. freq_khz \in Nat
    <3>1. Word - 1 \in Nat
      BY <1>2
    <3>2. (Word - 1) \div Thousand \in Nat
      BY <1>2, <3>1, DivMod
    <3> QED
      BY <3>2
  <2>2. freq_khz * Thousand \in Nat
    BY <1>2, <2>1
  <2>3. (freq_khz * Thousand) % Word \in 0 .. Word - 1
    BY <1>2, <2>2, DivMod
  <2>4. initial_count' \in 0 .. Word - 1
    BY <1>10, <2>3 DEF Exec
  <2> QED
    BY <1>1, <1>2, <1>4, <1>10, <2>4 DEF Exec, Step, hardware
<1>11. CASE UNCHANGED vars
  BY <1>4, <1>11 DEF vars, hardware, results
<1> QED
  BY <1>5, <1>6, <1>7, <1>8, <1>9, <1>10, <1>11 DEF Next, KernelStep, Done

\* TypeOK: in particular the frequency that measure_lapic_freq_khz computes and
\* the count that lapic_periodic_exec writes fit their words (lapic_timer.c).
THEOREM TypeCorrect == Spec => []TypeOK
<1>1. TypeInv => TypeOK
  BY DEF TypeInv
<1> QED
  BY <1>1, TypeInvInit, TypeInvStep, PTL DEF Spec

-----------------------------------------------------------------------------
\* The period that the calibration ends with.

LEMMA TimesSucc ==
    ASSUME NEW m \in Nat, NEW a \in Nat
    PROVE  m * a \in Nat /\ m * (a + 1) = m * a + m
  BY SMT

LEMMA TimesMonotonic ==
    ASSUME NEW m \in Nat, NEW a \in Nat, NEW b \in Nat, a <= b
    PROVE  m * a <= m * b
<1>1. PICK d \in Nat : b = a + d
  BY SMT
<1>2. m * b = m * a + m * d /\ m * d \in Nat /\ m * a \in Nat
  BY SMT, <1>1
<1> QED
  BY <1>2

\* The count goes down by speed in a tick, or has come to its end.
CountInv ==
    /\ pc = "measure" => Word - 1 <= current_count + speed * lag
    /\ pc # "measure" => Word - 1 <= lstart + speed * MaxLag
    /\ pc \in {"poll", "end"} => current_count = 0 \/ current_count + speed * elapsed <= lstart

\* What the measured frequency makes of a second, before it is written.
PeriodInv ==
    /\ pc # "done" => initial_count = 0
    /\ pc \in {"exec", "done"} => freq_khz * Thousand < Word
    /\ pc \in {"exec", "done"} /\ start + target # mod /\ CountLasts =>
           freq_khz * Thousand + Thousand > speed * target
    /\ pc = "done" => initial_count = freq_khz * Thousand

LInv == IInv /\ TypeInv /\ CountInv /\ PeriodInv

\* The values an LInv proof starts from.
LEMMA LTypes ==
    ASSUME LInv
    PROVE  /\ speed \in Nat \ {0} /\ lag \in Nat /\ elapsed \in Nat /\ target \in Nat /\ MaxLag \in Nat
           /\ current_count \in Nat /\ lstart \in Nat /\ lstart < Word /\ freq_khz \in Nat /\ initial_count \in Nat
           /\ Word \in Nat \ {0} /\ Thousand \in Nat \ {0}
           /\ start \in Nat /\ mod \in Nat \ {0}
<1>1. Word \in Nat \ {0} /\ Thousand \in Nat \ {0} /\ MaxLag \in Nat
  BY ModAssumption DEF Word
<1>2. (Word - 1) \div Thousand \in Nat
  BY <1>1, DivMod
<1>3. target \in Nat /\ mod \in Nat \ {0}
  BY Widths, TargetRange DEF LInv, IInv, Ranges
<1> QED
  BY <1>1, <1>2, <1>3, InputAssumption DEF LInv, IInv, Ranges, TypeInv, TypeOK

LEMMA LInvInit == Init => CountInv /\ PeriodInv
<1> SUFFICES ASSUME Init PROVE CountInv /\ PeriodInv
  OBVIOUS
<1>1. speed \in Nat /\ Word \in Nat
  BY InputAssumption, ModAssumption DEF Init, Word
<1>2. speed * 0 = 0
  BY SMT, <1>1
<1> QED
  BY <1>1, <1>2 DEF Init, CountInv, PeriodInv

LEMMA CountInvStep == ASSUME LInv, [Next]_vars PROVE CountInv'
<1>1. UNCHANGED fixed
  BY DEF Next, Tick, KernelStep, Measure, BeginWait, Poll, Measured, Exec, Step, Done, vars
<1>2. UNCHANGED speed
  BY <1>1 DEF fixed
<1>3. /\ speed \in Nat \ {0} /\ lag \in Nat /\ elapsed \in Nat /\ MaxLag \in Nat
      /\ current_count \in Nat /\ lstart \in Nat /\ Word \in Nat \ {0}
  BY LTypes
<1>4. CountInv /\ lag <= MaxLag /\ (pc # "measure" => current_count <= lstart)
  BY DEF LInv, IInv, Ranges, TypeInv
<1>5. CASE Tick
  <2>1. /\ UNCHANGED <<pc, lstart>> /\ lag' = lag + 1
        /\ current_count' = IF current_count > speed THEN current_count - speed ELSE 0
        /\ elapsed' = elapsed \/ elapsed' = elapsed + 1
    BY <1>5 DEF Tick, results, Count
  <2> DEFINE L == speed * lag
             E == speed * elapsed
  <2>2. L \in Nat /\ E \in Nat /\ speed * (lag + 1) = L + speed /\ speed * (elapsed + 1) = E + speed
    BY <1>3, TimesSucc
  <2>3. speed * lag' = L + speed /\ (speed * elapsed' = E \/ speed * elapsed' = E + speed)
    BY <2>1, <2>2
  <2>4. /\ pc = "measure" => Word - 1 <= current_count + L
        /\ pc # "measure" => Word - 1 <= lstart + speed * MaxLag
        /\ pc \in {"poll", "end"} => current_count = 0 \/ current_count + E <= lstart
    BY <1>4 DEF CountInv
  <2> HIDE DEF L, E
  <2>5. pc = "measure" => Word - 1 <= current_count' + (L + speed)
    BY <1>3, <2>1, <2>2, <2>4
  <2>6. pc \in {"poll", "end"} => current_count' = 0 \/ current_count' + (speed * elapsed') <= lstart
    BY <1>3, <2>1, <2>2, <2>3, <2>4
  <2> QED
    BY <1>2, <2>1, <2>3, <2>4, <2>5, <2>6 DEF CountInv
<1>6. CASE Measure
  <2>1. pc = "measure" /\ pc' = "wait" /\ lstart' = current_count
    BY <1>6 DEF Measure, Step
  <2> DEFINE L == speed * lag
             M == speed * MaxLag
  <2>2. L <= M /\ L \in Nat /\ M \in Nat
    BY <1>3, <1>4, TimesSucc, TimesMonotonic
  <2>3. Word - 1 <= current_count + L
    BY <1>4, <2>1 DEF CountInv
  <2> HIDE DEF L, M
  <2>4. Word - 1 <= current_count + M
    BY <1>3, <2>2, <2>3
  <2> QED
    BY <1>2, <2>1, <2>4 DEF CountInv, M
<1>7. CASE BeginWait
  <2>1. pc = "wait" /\ pc' = "poll" /\ lstart' = lstart /\ current_count' = current_count /\ elapsed' = 0
    BY <1>7 DEF BeginWait, Step, hardware
  <2>2. speed * 0 = 0
    BY SMT, <1>3
  <2> QED
    BY <1>2, <1>3, <1>4, <2>1, <2>2 DEF CountInv
<1>8. CASE Poll
  BY <1>2, <1>4, <1>8 DEF Poll, Step, hardware, results, CountInv
<1>9. CASE Measured \/ Exec
  BY <1>2, <1>4, <1>9 DEF Measured, Exec, Step, hardware, CountInv
<1>10. CASE UNCHANGED vars
  BY <1>4, <1>10 DEF vars, fixed, hardware, results, CountInv
<1> QED
  BY <1>5, <1>6, <1>7, <1>8, <1>9, <1>10 DEF Next, KernelStep, Done

\* The count that is gone when the wait has been measured.
LEMMA CountGone ==
    ASSUME LInv, pc = "end", start + target # mod, CountLasts
    PROVE  speed * target <= lstart - current_count
<1>1. /\ speed \in Nat \ {0} /\ elapsed \in Nat /\ MaxLag \in Nat /\ target \in Nat
      /\ current_count \in Nat /\ lstart \in Nat /\ Word \in Nat \ {0}
  BY LTypes
<1>2. target <= elapsed
  BY <1>1 DEF LInv, IInv, TargetReached, AfterWait
<1> DEFINE T == speed * target
           M == speed * MaxLag
           E == speed * elapsed
<1>3. T \in Nat /\ M \in Nat /\ E \in Nat /\ T <= E
  BY <1>1, <1>2, TimesSucc, TimesMonotonic
<1>4. T + M < Word
  <2>1. speed * (target + MaxLag) = T + M
    BY SMT, <1>1
  <2> QED
    BY <2>1 DEF CountLasts
<1>5. Word - 1 <= lstart + M /\ (current_count = 0 \/ current_count + E <= lstart)
  BY DEF LInv, CountInv
<1> HIDE DEF T, M, E
<1>6. T <= lstart - current_count
  BY <1>1, <1>3, <1>4, <1>5
<1> QED
  BY <1>6 DEF T

LEMMA PeriodInvStep == ASSUME LInv, [Next]_vars PROVE PeriodInv'
<1>1. UNCHANGED fixed
  BY DEF Next, Tick, KernelStep, Measure, BeginWait, Poll, Measured, Exec, Step, Done, vars
<1>2. UNCHANGED <<speed, mod, target, CountLasts>>
  BY <1>1 DEF fixed, mod, target, CountLasts
<1>3. /\ speed \in Nat \ {0} /\ target \in Nat
      /\ current_count \in Nat /\ lstart \in Nat /\ lstart < Word /\ freq_khz \in Nat /\ initial_count \in Nat
      /\ Word \in Nat \ {0} /\ Thousand \in Nat \ {0}
  BY LTypes
<1>4. PeriodInv /\ (pc # "measure" => current_count <= lstart)
  BY DEF LInv, TypeInv
<1>5. CASE Tick
  BY <1>2, <1>4, <1>5 DEF Tick, results, PeriodInv
<1>6. CASE Measure \/ BeginWait \/ Poll
  BY <1>2, <1>4, <1>6 DEF Measure, BeginWait, Poll, Step, results, PeriodInv
<1>7. CASE Measured
  <2>1. /\ pc = "end" /\ pc' = "exec" /\ start' = start /\ initial_count' = initial_count
        /\ freq_khz' = (lstart - current_count) \div Thousand
    BY <1>7 DEF Measured, Step
  <2> DEFINE d == lstart - current_count
             q == d \div Thousand
             x == Thousand * q
             T == speed * target
  <2>2. d \in Nat /\ d < Word /\ T \in Nat
    BY <1>3, <1>4, <2>1, TimesSucc
  <2>3. start + target # mod /\ CountLasts => T <= d
    BY <2>1, CountGone
  <2>4. freq_khz' = q
    BY <2>1
  <2> HIDE DEF d, T
  <2>5. d = x + (d % Thousand) /\ q \in Nat /\ d % Thousand \in 0 .. Thousand - 1
    BY <1>3, <2>2, DivMod
  <2> HIDE DEF q
  <2>6. x \in Nat /\ q * Thousand = x
    BY SMT, <1>3, <2>5
  <2> HIDE DEF x
  <2>7. x < Word /\ d < x + Thousand
    BY <1>3, <2>2, <2>5, <2>6
  <2>8. freq_khz' * Thousand = x
    BY <2>4, <2>6
  <2>9. start + target # mod /\ CountLasts => x + Thousand > T
    BY <1>3, <2>2, <2>3, <2>6, <2>7
  <2> QED
    BY <1>2, <1>4, <2>1, <2>7, <2>8, <2>9 DEF PeriodInv, T
<1>8. CASE Exec
  <2> DEFINE x == freq_khz * Thousand
  <2>1. /\ pc = "exec" /\ pc' = "done" /\ UNCHANGED <<start, freq_khz>>
        /\ initial_count' = IF freq_khz = 0 THEN initial_count ELSE x % Word
    BY <1>8 DEF Exec, Step
  <2>2. x < Word /\ x \in Nat /\ initial_count = 0
    BY <1>3, <1>4, <2>1 DEF PeriodInv
  <2>3. freq_khz = 0 => x = 0
    BY SMT, <1>3
  <2> HIDE DEF x
  <2>4. x % Word = x
    BY <1>3, <2>2, ModType
  <2>5. initial_count' = x
    BY <2>1, <2>2, <2>3, <2>4
  <2> QED
    BY <1>2, <1>4, <2>1, <2>5 DEF PeriodInv, x
<1>9. CASE UNCHANGED vars
  BY <1>2, <1>4, <1>9 DEF vars, results, PeriodInv
<1> QED
  BY <1>5, <1>6, <1>7, <1>8, <1>9 DEF Next, KernelStep, Done

\* PeriodLongEnough: while the LAPIC's count lasts for the second, the period
\* that lapic_periodic_exec starts is no shorter than what the PM timer waited
\* for, but for the division by 1000 (lapic_timer.c:28), at whatever distance the
\* kernel reads the two counters; neither subtraction nor product wraps.
THEOREM PeriodLongEnoughAlways == Spec => []PeriodLongEnough
<1>1. Init => LInv
  BY IInvInit, TypeInvInit, LInvInit DEF LInv
<1>2. IInv /\ [Next]_vars => IInv'
  BY TickKeeps, PollKeeps, BeginKeeps, RestKeeps DEF Next, KernelStep, Done
<1>3. LInv /\ [Next]_vars => LInv'
  BY <1>2, TypeInvStep, CountInvStep, PeriodInvStep DEF LInv
<1>4. LInv => PeriodLongEnough
  BY DEF LInv, PeriodInv, PeriodLongEnough
<1> QED
  BY <1>1, <1>3, <1>4, PTL DEF Spec
=============================================================================
