------------------------------ MODULE PmTimer ------------------------------
(***************************************************************************)
(* The ACPI PM timer's wait (pm_timer.c) and the calibration of the LAPIC  *)
(* timer that rests on it (lapic_timer.c), from measure_lapic_freq_khz to  *)
(* lapic_periodic_exec in start(): two hardware counters that go on at     *)
(* their own rates while the kernel reads them.                            *)
(*                                                                         *)
(* The unit of time is a tick of the PM timer.  What the kernel does       *)
(* between two reads (puts, loop, a machine that is slow to answer) takes  *)
(* any time up to MaxLag ticks.  Interrupts are still off.                 *)
(*                                                                         *)
(* CountRound, ReturnsUnwrapped and ReturnsLate are slips for the mutant   *)
(* runs, each of the definition after it.                                  *)
(***************************************************************************)
EXTENDS Naturals

CONSTANTS
    mod_small, mod_large,   \* 2^24 and 2^32
    freq_hz,                \* ticks in a second
    Thousand,               \* milliseconds in a second
    Msecs,                  \* what is waited for; the one caller waits for 1000
    Speeds,                 \* LAPIC counts in a tick
    MaxLag                  \* BOUND on the ticks between two steps of the kernel

\* An unsigned int has 2^32 values, and COUNT_MAX is the last one.
Word == mod_large

ASSUME ModAssumption ==
    /\ {mod_small, mod_large, freq_hz, Thousand, MaxLag} \subseteq Nat \ {0}
    /\ mod_small <= mod_large /\ mod_large % mod_small = 0
    /\ Word \div Thousand < mod_small
ASSUME InputAssumption == Msecs \subseteq Nat /\ Speeds \subseteq Nat \ {0}

VARIABLES
    flags,              \* of the FADT: "one", "ext" or "other", see HwMod
    speed, msec,
    pc,
    counter,            \* the PM timer's register
    current_count,      \* of the LAPIC timer
    lstart, start,      \* start in measure_lapic_freq_khz and in the wait
    freq_khz, initial_count,
    lag,                \* ticks since the kernel's last step
    elapsed             \* history: ticks since the wait's start was read, up to one turn

fixed == <<flags, speed, msec>>
hardware == <<counter, current_count>>
results == <<lstart, start, freq_khz, initial_count>>
vars == <<fixed, pc, hardware, results, lag, elapsed>>

\* TMR_VAL_EXT ("ext", bit 8 of the flags) says that the counter has 32 bits;
\* in the value 1 ("one") that bit is clear.
HwMod == IF flags = "ext" THEN mod_large ELSE mod_small

\* init_acpi_pm_timer compares the flags with 1.
mod == IF flags = "one" THEN mod_large ELSE mod_small

\* The product is a 32-bit one.
target == (((msec * freq_hz) % Word) \div Thousand) % mod

get_time == counter % mod

Init ==
    /\ flags \in {"one", "ext", "other"} /\ speed \in Speeds /\ msec \in Msecs
    /\ pc = "measure"
    /\ counter \in 0 .. HwMod - 1
    /\ current_count = Word - 1
    /\ lstart = 0 /\ start = 0 /\ freq_khz = 0 /\ initial_count = 0
    /\ lag = 0 /\ elapsed = 0

\* One-shot: the count stays at 0.
CountRound == (current_count + Word - speed) % Word
Count == IF current_count > speed THEN current_count - speed ELSE 0

Tick ==
    /\ pc # "done" /\ lag < MaxLag
    /\ counter' = (counter + 1) % HwMod
    /\ current_count' = Count
    /\ lag' = lag + 1
    /\ elapsed' = IF pc = "poll" /\ elapsed < HwMod THEN elapsed + 1 ELSE elapsed
    /\ UNCHANGED <<fixed, pc, results>>

Step(from, to) ==
    /\ pc = from /\ pc' = to /\ lag' = 0
    /\ UNCHANGED <<fixed, hardware>>

Measure ==
    /\ Step("measure", "wait")
    /\ lstart' = current_count
    /\ UNCHANGED <<start, freq_khz, initial_count, elapsed>>

BeginWait ==
    /\ Step("wait", "poll")
    /\ start' = get_time
    /\ elapsed' = 0
    /\ UNCHANGED <<lstart, freq_khz, initial_count>>

\* One evaluation of a while's condition is FALSE.  Past the wrap, > binds
\* tighter than =, and ret is the truth of the comparison.
ReturnsUnwrapped == (start + target) % mod <= get_time
ReturnsLate == start + target < get_time
Returns ==
    IF target + start < mod
    THEN start + target <= get_time
    ELSE LET ret == IF get_time > start THEN 1 ELSE 0
         IN  ret = 0 /\ (start + target) % mod <= ret

Poll ==
    /\ Step("poll", IF Returns THEN "end" ELSE "poll")
    /\ UNCHANGED <<results, elapsed>>

\* The rest of measure_lapic_freq_khz.
Measured ==
    /\ Step("end", "exec")
    /\ freq_khz' = (lstart - current_count) \div Thousand
    /\ UNCHANGED <<lstart, start, initial_count, elapsed>>

\* lapic_periodic_exec, for one second.  It leaves the timer alone without a
\* frequency.
Exec ==
    /\ Step("exec", "done")
    /\ initial_count' = IF freq_khz = 0 THEN initial_count ELSE (freq_khz * Thousand) % Word
    /\ UNCHANGED <<lstart, start, freq_khz, elapsed>>

Done == pc = "done" /\ UNCHANGED vars

KernelStep == Measure \/ BeginWait \/ Poll \/ Measured \/ Exec

Next == Tick \/ KernelStep \/ Done

Spec == Init /\ [][Next]_vars

\* The counter runs and so does the kernel.
FairSpec == Spec /\ WF_vars(Tick) /\ WF_vars(KernelStep)

-----------------------------------------------------------------------------
\* Type invariant.
TypeOK ==
    /\ flags \in {"one", "ext", "other"} /\ speed \in Speeds /\ msec \in Msecs
    /\ pc \in {"measure", "wait", "poll", "end", "exec", "done"}
    /\ counter \in 0 .. HwMod - 1
    /\ {current_count, lstart, initial_count} \subseteq 0 .. Word - 1
    /\ start \in 0 .. mod - 1 /\ start < HwMod
    /\ freq_khz \in 0 .. (Word - 1) \div Thousand
    /\ lag \in 0 .. MaxLag /\ elapsed \in 0 .. HwMod

AfterWait == pc \in {"end", "exec", "done"}

\* How long the wait should take.
Ticks == (msec * freq_hz) \div Thousand

\* The 32-bit product is the real one: up to 1199 ms.  A longer wait is cut short.
ProductFits == msec * freq_hz < Word

\* The milliseconds have passed when the wait is over, whichever width the kernel
\* takes the counter to have, with two exceptions: the product of line 40 has
\* wrapped, or the target is the wrap itself, and then a first poll in the same
\* tick as the start ends the wait.
NeverEarly == AfterWait /\ ProductFits /\ start + target # mod => elapsed >= Ticks

\* The target is ahead by so much before the counter wraps, or mod does, that
\* a poll must fall in between.
InOneTurn == start + target + MaxLag <= IF mod < HwMod THEN mod ELSE HwMod

\* The wait is over within one round of the loop after the target that the kernel
\* has computed, unless that is so close to the wrap that the polls may fall on
\* either side.
OnTime == AfterWait /\ InOneTurn => elapsed < target + MaxLag

\* The LAPIC's count is not run out when the kernel is due to read it.
CountLasts == speed * (target + MaxLag) < Word

\* The scheduler's period is no shorter, but for the division's rounding, than
\* the wait it was measured by, at whatever distance the two counters are read;
\* and even if the wait takes turns too many and the count runs out in them.
PeriodLongEnough ==
    pc = "done" /\ start + target # mod /\ CountLasts
        => initial_count + Thousand > speed * target

\* The calibration ends.  (A target past the wrap is never reached: WaitEnds.)
CalibrationEnds == pc = "poll" /\ InOneTurn ~> pc = "done"

\* "// Wait 1000ms" (lapic_timer.c:22): the wait comes to an end.
WaitEnds == pc = "poll" ~> pc = "end"
=============================================================================
