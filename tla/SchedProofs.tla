---------------------------- MODULE SchedProofs ----------------------------
(***************************************************************************)
(* Proofs about the kernel's scheduler, for two or three tasks: what is    *)
(* kept of a task's context, and what a tick that comes too early leads    *)
(* to.                                                                     *)
(***************************************************************************)
EXTENDS Sched, PagingProofs

Rest == TaskIds \ {0}

\* The stack a task runs on: task 0 has inherited start()'s.
Home(i) == IF i = 0 THEN "kstack" ELSE "ustack"

KFrame == Slot(Kernel, "kstack")
UFrame(i) == Slot(i, "ustack")

After(i) == IF i = TASK_NUM - 1 THEN 0 ELSE i + 1

\* Task i's context is in frame F.
Matches(F, i) ==
    F # Garbage /\ F.flow = i /\ \A k \in DOMAIN Pushes : F.saved[k] = view[i][Pushes[k]]

Holds(i) == Matches(frame[Slot(i, Home(i))], i)
Ready(i) == sp[i] = Home(i) /\ Holds(i)

Built(i) == i < idx \/ (i = idx /\ bpc \in {"leave", "current", "jump", "gone"})

\* A task that start() makes is ready from SetSp on and untouched before.
Waits(i) == IF Built(i) THEN Ready(i) ELSE sp[i] = Garbage /\ view[i] = Zero

\* What init_tasks has done so far.
Progress ==
    /\ IF bpc \in {"sti", "arm", "spaces"}
       THEN idx = 1 /\ \A i \in TaskIds : space[i] = Garbage
       ELSE \A i \in TaskIds : space[i] = i
    /\ bpc \in {"current", "jump", "gone"} => idx = TASK_NUM - 1
    /\ frame[UFrame(0)] = Garbage

\* A task that has been resumed, and its way through the handler.
Running ==
    flow \in TaskIds =>
        /\ cr3 = flow /\ stack = Home(flow)
        /\ hpc = "none" => current_task = flow /\ \A r \in Pushed : regs[r] = view[flow][r]
        /\ hpc = "save" => current_task = flow /\ Holds(flow)
        /\ hpc \in {"eoi", "resume"} => current_task = After(flow) /\ Ready(flow)

InBoot == flow = Boot /\ hpc \in {"none", "save"}

\* start() runs: it has never been left, or come back to at its very end.
BootMode ==
    /\ InBoot /\ bpc # "gone"
    /\ stack = IF bpc = "frame" THEN "ustack" ELSE "kstack"
    /\ bpc \in {"pushfq", "frame", "sp"} => cr3 = idx
    /\ bpc = "sp" => Holds(idx)
    /\ bpc = "jump" => current_task = 0
    /\ \/ sp[0] = Garbage
       \/ current_task = 0 /\ bpc \in {"leave", "current", "jump"} /\ idx = TASK_NUM - 1
    /\ hpc = "save" => /\ bpc = "jump" \/ tooEarly
                       /\ frame[Slot(cr3, stack)] # Garbage /\ frame[Slot(cr3, stack)].flow = Boot
    /\ \A i \in Rest : Waits(i)

\* The tasks go round; in place 0 is task 0, or start() until it gets there.
RoundMode ==
    /\ ~InBoot
    /\ flow = Boot => bpc # "gone" /\ current_task = 1
    /\ flow = 0 => bpc = "gone"
    /\ flow \in Rest => Built(flow)
    /\ bpc \in {"jump", "gone"} \/ tooEarly
    /\ ~(flow = 0 /\ hpc \in {"none", "save"}) =>
        /\ sp[0] = "kstack"
        /\ IF bpc = "gone" THEN Holds(0)
           ELSE bpc # "frame" /\ frame[KFrame] # Garbage /\ frame[KFrame].flow = Boot
    /\ \A i \in Rest : ~(flow = i /\ hpc \in {"none", "save"}) => Waits(i)

\* start() has been left in another task's place, or with another stack: the
\* tasks run up to the last one, and place 0 has no frame.
DoomedMode ==
    /\ ~InBoot /\ tooEarly /\ flow # 0
    /\ sp[0] # "kstack"
    /\ \A i \in Rest :
        (IF hpc \in {"none", "save"} THEN current_task < i ELSE 0 < current_task /\ current_task <= i)
            => sp[i] = Garbage \/ Ready(i)

Modes ==
    IF flow = Wild THEN tooEarly /\ hpc = "none" ELSE Running /\ (BootMode \/ RoundMode \/ DoomedMode)

IInv == TypeOK /\ Progress /\ Modes

-----------------------------------------------------------------------------
\* The tasks are numbered 0, 1 and, if there are three, 2.
LEMMA Tasks ==
    /\ TaskIds \subseteq Nat /\ 0 \in TaskIds /\ 1 \in TaskIds /\ TASK_NUM - 1 \in Rest
    /\ \A i \in TaskIds : 0 <= i /\ i <= TASK_NUM - 1
    /\ Rest \subseteq TaskIds /\ \A i \in 1 .. TASK_NUM - 1 : i \in Rest
    /\ \A i \in TaskIds : After(i) \in TaskIds
    /\ TASK_NUM \in Nat /\ TASK_NUM >= 2
<1>1. TASK_NUM = 2 \/ TASK_NUM = 3
  BY TaskNumAssumption
<1>2. CASE TASK_NUM = 2
  BY <1>2 DEF TaskIds, Rest, After
<1>3. CASE TASK_NUM = 3
  BY <1>3 DEF TaskIds, Rest, After
<1> QED
  BY <1>1, <1>2, <1>3

LEMMA Succ == \A i \in TaskIds : (i + 1) % TASK_NUM = After(i)
<1>1. TASK_NUM = 2 \/ TASK_NUM = 3
  BY TaskNumAssumption
<1>2. CASE TASK_NUM = 2
  BY <1>2 DEF TaskIds, After
<1>3. CASE TASK_NUM = 3
  BY <1>3 DEF TaskIds, After
<1> QED
  BY <1>1, <1>2, <1>3

LEMMA Names ==
    /\ Boot \notin TaskIds /\ Wild \notin TaskIds /\ Boot # Wild
    /\ Kernel \notin TaskIds /\ Garbage \notin TaskIds /\ Garbage # Kernel
    /\ Garbage \notin Frames /\ Garbage # "kstack" /\ Garbage # "ustack"
  BY Tasks, NamesAssumption, KernelAssumption, GarbageAssumption

\* start()'s stack is the same frame in every space; every task has a frame of
\* its own besides.
LEMMA Slots ==
    /\ \A c \in TaskIds \union {Kernel} : Slot(c, "kstack") = KFrame
    /\ \A c \in TaskIds : UFrame(c) # KFrame
    /\ \A c, d \in TaskIds : UFrame(c) = UFrame(d) => c = d
<1>1. KstackPage \in KernelPages /\ UstackPage \in AppPages
  BY SMT DEF KstackPage, KernelPages, KernelPage, UstackPage, AppPages
<1>2. ASSUME NEW c \in TaskIds PROVE Slot(c, "kstack") = KFrame
  BY <1>1, KernelShared DEF Slot, KFrame
<1>3. ASSUME NEW c \in TaskIds PROVE UFrame(c) # KFrame
  <2>1. UFrame(c) = app_address(c) + (UstackPage % 512)
    BY <1>1, AppTranslation DEF UFrame, Slot
  <2>2. KFrame = KstackPage
    BY DEF KFrame, Slot, Translate
  <2>3. c \in Nat
    BY Tasks
  <2> QED
    BY SMT, <2>1, <2>2, <2>3 DEF app_address, KstackPage, UstackPage, KernelPage
<1>4. ASSUME NEW c \in TaskIds, NEW d \in TaskIds, UFrame(c) = UFrame(d) PROVE c = d
  BY <1>1, <1>4, SpacesDisjoint DEF UFrame, Slot
<1> QED
  BY <1>2, <1>3, <1>4 DEF KFrame

LEMMA SlotFrames ==
    ASSUME NEW c \in TaskIds \union {Kernel}, NEW s \in {"kstack", "ustack"}
    PROVE  Slot(c, s) \in StackFrames /\ Slot(c, s) # Garbage
<1>1. Slot(c, s) \in StackFrames
  BY DEF StackFrames
<1>2. CASE s = "kstack"
  <2>1. Slot(c, s) = KstackPage
    BY <1>2, Slots DEF KFrame, Slot, Translate
  <2> QED
    BY SMT, <1>1, <2>1, KernelAssumption DEF KstackPage, KernelPage
<1>3. CASE s = "ustack" /\ c \in TaskIds
  <2>1. UstackPage \in AppPages
    BY SMT DEF UstackPage, AppPages
  <2>2. Slot(c, s) = app_address(c) + (UstackPage % 512)
    BY <1>3, <2>1, AppTranslation DEF Slot
  <2>3. Slot(c, s) \in Nat
    BY SMT, <1>3, <2>2, Tasks DEF app_address, UstackPage
  <2> QED
    BY <1>1, <2>3, KernelAssumption
<1>4. CASE s = "ustack" /\ c = Kernel
  <2>1. Slot(c, s) = UstackPage
    BY <1>4 DEF Slot, Translate
  <2> QED
    BY SMT, <1>1, <2>1, KernelAssumption DEF UstackPage
<1> QED
  BY <1>2, <1>3, <1>4

\* There is nothing behind a stack without an address space.
LEMMA NoSpace == \A s : Slot(Garbage, s) = Garbage
  BY Names DEF Slot, Translate

-----------------------------------------------------------------------------
\* Registers.

LEMMA Stacked ==
    /\ DOMAIN Pushes = 1 .. 7 /\ Len(TimerPops) = 7 /\ Len(SyscallPops) = 7
    /\ DOMAIN TimerPops = 1 .. 7 /\ DOMAIN SyscallPops = 1 .. 7
    /\ \A k \in 1 .. 7 : Pushes[k] \in Pushed
    /\ \A r \in Pushed : \E k \in 1 .. 7 : r = Pushes[k]
    /\ Pushed \subseteq Regs
  BY DEF Pushes, TimerPops, SyscallPops, Pushed, Regs

LEMMA Greatest ==
    ASSUME NEW S \in SUBSET (1 .. 7), S # {}
    PROVE  \E k \in S : \A j \in S : j <= k
<1>1. \E k \in 1 .. 7 : k \in S
  OBVIOUS
<1> QED
  BY <1>1

LEMMA FillType ==
    ASSUME NEW owner \in {Boot, Kernel} \union TaskIds, NEW version \in {0, 1}
    PROVE  Fill(owner, version) \in RegFiles
  BY DEF Fill, RegFiles, Values

LEMMA SavedType == ASSUME regs \in RegFiles PROVE Saved \in [DOMAIN Pushes -> Values]
  BY Stacked DEF Saved, RegFiles

LEMMA RestoredType ==
    ASSUME NEW saved \in [DOMAIN Pushes -> Values], NEW pops \in {TimerPops, SyscallPops},
           NEW now \in RegFiles
    PROVE  Restored(saved, pops, now) \in RegFiles
<1> SUFFICES ASSUME NEW r \in Regs PROVE Restored(saved, pops, now)[r] \in Values
  BY DEF Restored, RegFiles
<1> DEFINE at == {k \in DOMAIN pops : pops[k] = r}
           last == CHOOSE k \in at : \A j \in at : j <= k
<1>1. CASE at = {}
  BY <1>1 DEF Restored, RegFiles
<1>2. CASE at # {}
  <2>1. at \in SUBSET (1 .. 7)
    BY Stacked
  <2>2. last \in at
    <3>1. \E k \in at : \A j \in at : j <= k
      BY <1>2, <2>1, Greatest
    <3> QED
      BY <3>1
  <2>3. Len(pops) + 1 - last \in 1 .. 7
    <3>1. Len(pops) = 7
      BY Stacked
    <3>2. last \in 1 .. 7
      BY <2>1, <2>2
    <3> HIDE DEF last
    <3> QED
      BY <3>1, <3>2
  <2>4. Restored(saved, pops, now)[r] = saved[Len(pops) + 1 - last]
    BY <1>2 DEF Restored
  <2> QED
    BY <2>3, <2>4, Stacked
<1> QED
  BY <1>1, <1>2

\* What the timer handler pops is what it has pushed.
LEMMA PopsUndoPushes ==
    ASSUME NEW saved, NEW now, NEW k \in 1 .. 7
    PROVE  Restored(saved, TimerPops, now)[Pushes[k]] = saved[k]
<1> DEFINE r == Pushes[k]
           at == {j \in DOMAIN TimerPops : TimerPops[j] = r}
<1>1. r \in Regs
  BY Stacked
<1>2. at = {8 - k}
  BY Stacked DEF Pushes, TimerPops
<1>3. (CHOOSE j \in at : \A l \in at : l <= j) = 8 - k
  BY <1>2
<1>4. Restored(saved, TimerPops, now)[r] = saved[7 + 1 - (8 - k)]
  BY <1>1, <1>2, <1>3, Stacked DEF Restored
<1> QED
  BY <1>4

-----------------------------------------------------------------------------
\* Types.

LEMMA TypeInit == Init => TypeOK
<1> SUFFICES ASSUME Init PROVE TypeOK
  OBVIOUS
<1>1. regs \in RegFiles /\ Zero \in RegFiles
  BY FillType DEF Init, Zero
<1>2. 1 \in 1 .. TASK_NUM - 1
  BY TaskNumAssumption
<1> QED
  BY <1>1, <1>2 DEF Init, TypeOK

LEMMA TypeStep == TypeOK /\ Progress /\ Modes /\ [Next]_vars => TypeOK'
<1> SUFFICES ASSUME TypeOK, Progress, Modes, [Next]_vars PROVE TypeOK'
  OBVIOUS
<1> USE Names, Tasks DEF TypeOK, BootGoto, cpu, table, lapic
<1>1. CASE EnableInterrupts \/ StartTimer \/ PushFlags \/ SetCurrent
  BY <1>1 DEF EnableInterrupts, StartTimer, PushFlags, SetCurrent
<1>0. CASE SetSpaces \/ SetSp
  BY <1>0 DEF SetSpaces, SetSp
<1>2. CASE EnterSpace
  BY <1>2 DEF EnterSpace, Progress
<1>3. CASE FillFrame
  <2>1. cr3 \in TaskIds
    BY <1>3 DEF FillFrame, Modes, BootMode, RoundMode, DoomedMode, InBoot, Running
  <2>2. NewFrame \in Frames
    BY <2>1, FillType, Stacked DEF NewFrame, Frames, Zero, RegFiles
  <2> QED
    BY <1>3, <2>1, <2>2, SlotFrames DEF FillFrame
<1>4. CASE LeaveSpace
  BY <1>4 DEF LeaveSpace
<1>5. CASE JumpToTask0
  BY <1>5 DEF JumpToTask0, Progress
<1>6. CASE Tick
  BY <1>6 DEF Tick
<1>7. ASSUME NEW i \in TaskIds, Compute(i) PROVE TypeOK'
  <2>1. regs' \in RegFiles
    BY <1>7, FillType DEF Compute
  <2> QED
    BY <1>7, <2>1 DEF Compute
<1>8. ASSUME NEW i \in TaskIds, Syscall(i) PROVE TypeOK'
  <2>1. AfterSyscall \in RegFiles
    <3>1. Fill(Kernel, 1) \in RegFiles /\ Zero \in RegFiles
      BY FillType DEF Zero
    <3>2. "rax" \in Regs
      BY DEF Regs, Pushed, Pushes
    <3> QED
      BY <3>1, <3>2 DEF AfterSyscall, RegFiles
  <2>2. regs' \in RegFiles
    BY <1>8, <2>1, SavedType, RestoredType DEF Syscall
  <2> QED
    BY <1>8, <2>2 DEF Syscall
<1>9. CASE Interrupt
  <2>1. [flow |-> flow, saved |-> Saved, if |-> TRUE] \in Frames
    BY <1>9, SavedType DEF Interrupt, Frames
  <2>2. regs' \in RegFiles
    BY <1>9, FillType DEF Interrupt
  <2> QED
    BY <1>9, <2>1, <2>2, SlotFrames DEF Interrupt
<1>10. CASE SaveAndAdvance
  BY <1>10, Succ DEF SaveAndAdvance
<1>11. CASE EndOfInterrupt
  BY ZenonT(60), <1>11 DEF EndOfInterrupt
<1>12. CASE Resume
  <2>1. CASE NextFrame = Garbage
    BY <1>12, <2>1 DEF Resume
  <2>2. CASE NextFrame # Garbage
    <3>1. space[current_task] \in TaskIds
      BY <2>2, NoSpace DEF NextFrame
    <3>2. NextFrame \in Frames
      BY <2>2, <3>1, SlotFrames DEF NextFrame
    <3>3. regs' \in RegFiles
      BY <1>12, <2>2, <3>2, RestoredType DEF Resume, Frames
    <3>4. sp[current_task] # Garbage
      BY <2>2 DEF NextFrame
    <3> QED
      BY <1>12, <2>2, <3>1, <3>2, <3>3, <3>4 DEF Resume, Frames
  <2> QED
    BY <2>1, <2>2
<1>13. CASE UNCHANGED vars
  BY <1>13 DEF vars
<1> QED
  BY <1>0, <1>1, <1>2, <1>3, <1>4, <1>5, <1>6, <1>7, <1>8, <1>9, <1>10, <1>11, <1>12, <1>13
     DEF Next, BootStep, HandlerStep, Lost

-----------------------------------------------------------------------------
\* The steps of start(), from BootMode to BootMode or, at the end, RoundMode.

LEMMA HeldOn == UNCHANGED <<frame, view>> => \A i \in TaskIds : Holds(i)' = Holds(i)
  BY DEF Holds, Matches, Slot

LEMMA ModesInit == Init => Progress /\ Modes
<1> SUFFICES ASSUME Init PROVE Progress /\ Modes
  OBVIOUS
<1>1. UFrame(0) \in StackFrames
  BY Tasks, SlotFrames DEF UFrame
<1>2. ASSUME NEW i \in Rest PROVE Waits(i)
  BY <1>2, Tasks DEF Init, Waits, Built, Rest
<1> QED
  BY <1>1, <1>2, Names, Tasks DEF Init, Progress, Modes, Running, BootMode, InBoot

LEMMA BootKeepsModes ==
    ASSUME TypeOK, Progress, Modes, BootStep
    PROVE  Progress' /\ Modes'
<1>1. BootMode /\ hpc = "none" /\ flow = Boot
  BY Names DEF BootStep, BootGoto, EnableInterrupts, StartTimer, SetSpaces, EnterSpace, PushFlags,
               FillFrame, SetSp, LeaveSpace, SetCurrent, JumpToTask0, Modes, InBoot, RoundMode, DoomedMode
<1> USE <1>1, Names, Tasks, TaskNumAssumption
    DEF TypeOK, BootGoto, cpu, table, lapic, Progress, Modes, Running, BootMode, InBoot, Waits, Built, Ready
<1>2. CASE EnableInterrupts \/ StartTimer \/ EnterSpace \/ PushFlags \/ SetCurrent
  <2>1. UNCHANGED <<frame, view, sp, space, flow, hpc, idx>>
    BY <1>2 DEF EnableInterrupts, StartTimer, EnterSpace, PushFlags, SetCurrent
  <2>2. \A i \in TaskIds : Holds(i)' = Holds(i)
    BY <2>1, HeldOn
  <2>3. Progress'
    BY <1>2, <2>1 DEF EnableInterrupts, StartTimer, EnterSpace, PushFlags, SetCurrent, UFrame, Slot
  <2>4. BootMode'
    BY <1>2, <2>1, <2>2 DEF EnableInterrupts, StartTimer, EnterSpace, PushFlags, SetCurrent
  <2> QED
    BY <2>1, <2>3, <2>4
<1>3. CASE SetSpaces
  <2>1. \A i \in TaskIds : Holds(i)' = Holds(i)
    BY <1>3, HeldOn DEF SetSpaces
  <2> QED
    BY <1>3, <2>1 DEF SetSpaces, UFrame, Slot
<1>4. CASE FillFrame
  <2>1. idx \in Rest /\ cr3 = idx /\ view[idx] = Zero
    BY <1>4 DEF FillFrame
  <2>2. frame' = [frame EXCEPT ![UFrame(idx)] = NewFrame] /\ view' = view /\ UFrame(idx) \in StackFrames
    BY <1>4, <2>1, SlotFrames DEF FillFrame, UFrame
  <2>3. Holds(idx)'
    <3>1. NewFrame \in Frames /\ NewFrame.flow = idx
      BY <2>1, FillType, Stacked DEF NewFrame, Frames, Zero, RegFiles
    <3>2. \A k \in DOMAIN Pushes : NewFrame.saved[k] = view[idx][Pushes[k]]
      BY <2>1 DEF NewFrame
    <3>3. frame'[Slot(idx, Home(idx))] = NewFrame
      BY <2>1, <2>2 DEF Home, Rest, UFrame
    <3> QED
      BY <1>4, <2>2, <3>1, <3>2, <3>3 DEF Holds, Matches, FillFrame, Slot
  <2>4. ASSUME NEW i \in TaskIds, i # idx PROVE Holds(i)' = Holds(i)
    <3>1. Slot(i, Home(i)) # UFrame(idx)
      BY <2>1, <2>4, Slots DEF Home, UFrame
    <3> QED
      BY <2>2, <3>1 DEF Holds, Matches, Slot
  <2>5. frame'[UFrame(0)] = frame[UFrame(0)]
    BY <2>1, <2>2, Slots DEF Rest
  <2>6. Progress'
    BY <1>4, <2>5 DEF FillFrame, UFrame, Slot
  <2>7. BootMode'
    BY <1>4, <2>1, <2>3, <2>4 DEF FillFrame
  <2> QED
    BY <1>4, <2>6, <2>7 DEF FillFrame
<1>5. CASE SetSp
  <2>1. \A i \in TaskIds : Holds(i)' = Holds(i)
    BY <1>5, HeldOn DEF SetSp
  <2>2. idx \in Rest
    BY <1>5
  <2>3. Progress'
    BY <1>5 DEF SetSp, UFrame, Slot
  <2>4. BootMode'
    BY <1>5, <2>1, <2>2 DEF SetSp, Rest, Home
  <2> QED
    BY <1>5, <2>3, <2>4 DEF SetSp
<1>6. CASE LeaveSpace
  <2>1. \A i \in TaskIds : Holds(i)' = Holds(i)
    BY <1>6, HeldOn DEF LeaveSpace
  <2>2. Progress'
    BY <1>6 DEF LeaveSpace, UFrame, Slot
  <2>3. \A i \in Rest : Built(i)' = Built(i)
    BY <1>6 DEF LeaveSpace, Rest
  <2>4. \A i \in Rest : Waits(i)'
    BY <1>6, <2>1, <2>3 DEF LeaveSpace
  <2>5. BootMode'
    BY <1>6, <2>4 DEF LeaveSpace
  <2> QED
    BY <1>6, <2>2, <2>5 DEF LeaveSpace
<1>7. CASE JumpToTask0
  <2>1. \A i \in Rest : Holds(i)' = Holds(i)
    BY <1>7 DEF JumpToTask0, Holds, Matches, Slot, Rest
  <2>2. Progress'
    BY <1>7 DEF JumpToTask0, UFrame, Slot
  <2>3. Running'
    BY <1>7, Stacked DEF JumpToTask0, Home
  <2>4. \A i \in Rest : Waits(i)'
    BY ZenonT(60), <1>7, <2>1 DEF JumpToTask0, Rest
  <2>5. RoundMode'
    BY <1>7, <2>4 DEF JumpToTask0, RoundMode, Rest
  <2> QED
    BY <1>7, <2>2, <2>3, <2>5 DEF JumpToTask0
<1> QED
  BY <1>2, <1>3, <1>4, <1>5, <1>6, <1>7 DEF BootStep

-----------------------------------------------------------------------------
\* The steps of a task, and those of the timer that touch no context.

LEMMA TaskKeepsModes ==
    ASSUME TypeOK, Progress, Modes, NEW i \in TaskIds, flow = i, hpc = "none",
           view' = [view EXCEPT ![i] = regs'],
           UNCHANGED <<flow, bpc, idx, hpc, cr3, stack, frame, sp, space, current_task, tooEarly>>
    PROVE  Progress' /\ Modes'
<1> USE Names, Tasks
<1>1. flow # Wild /\ flow # Boot /\ ~InBoot /\ Running /\ (RoundMode \/ DoomedMode)
  BY DEF Modes, BootMode, InBoot
<1>2. \A j \in TaskIds : j # i => Holds(j)' = Holds(j) /\ Ready(j)' = Ready(j) /\ view'[j] = view[j]
  BY DEF TypeOK, Holds, Matches, Ready, Slot
<1>3. \A j \in Rest : j # i => Waits(j)' = Waits(j)
  BY <1>2 DEF Waits, Built
<1>4. Progress'
  BY DEF Progress, UFrame, Slot
<1>5. Running'
  BY <1>1, Stacked DEF TypeOK, Running
<1>6. CASE RoundMode
  <2>1. RoundMode'
    BY <1>2, <1>3, <1>6 DEF RoundMode, InBoot, Built, KFrame, Slot
  <2> QED
    BY <1>1, <1>4, <1>5, <2>1 DEF Modes
<1>7. CASE DoomedMode
  <2>1. current_task = i
    BY <1>1 DEF Running
  <2>2. ASSUME NEW j \in Rest, current_task < j PROVE sp[j] = Garbage \/ Ready(j)'
    <3>1. j # i
      BY <2>1, <2>2
    <3>2. sp[j] = Garbage \/ Ready(j)
      BY <1>7, <2>2 DEF DoomedMode
    <3> QED
      BY <1>2, <3>1, <3>2
  <2>3. DoomedMode'
    BY <1>7, <2>2 DEF DoomedMode, InBoot
  <2> QED
    BY <1>1, <1>4, <1>5, <2>3 DEF Modes
<1> QED
  BY <1>1, <1>6, <1>7

LEMMA TimerKeepsModes ==
    ASSUME TypeOK, Progress, Modes, Tick \/ EndOfInterrupt \/ UNCHANGED vars
    PROVE  Progress' /\ Modes'
<1>1. UNCHANGED <<flow, bpc, idx, cr3, stack, regs, frame, sp, space, current_task, view, tooEarly>>
  BY DEF Tick, EndOfInterrupt, vars, cpu, table
<1>2. hpc' = hpc \/ (hpc = "eoi" /\ hpc' = "resume")
  BY DEF Tick, EndOfInterrupt, vars
<1>3. \A i \in TaskIds : Holds(i)' = Holds(i) /\ Ready(i)' = Ready(i)
  BY <1>1, HeldOn DEF Ready
<1>4. \A i \in Rest : Waits(i)' = Waits(i)
  BY <1>1, <1>3 DEF Waits, Built, Rest
<1>5. Progress'
  BY <1>1 DEF Progress, UFrame, Slot
<1>6. Running => Running'
  BY <1>1, <1>2, <1>3 DEF Running
<1>7. BootMode => BootMode'
  BY <1>1, <1>2, <1>3, <1>4, Tasks DEF BootMode, InBoot, Slot, TypeOK
<1>8. RoundMode => RoundMode'
  BY <1>1, <1>2, <1>3, <1>4, Tasks DEF RoundMode, InBoot, Built, KFrame, Slot
<1>9. DoomedMode => DoomedMode'
  BY <1>1, <1>2, <1>3 DEF DoomedMode, InBoot, Rest
<1> QED
  BY <1>1, <1>2, <1>5, <1>6, <1>7, <1>8, <1>9 DEF Modes

-----------------------------------------------------------------------------
\* The handler's entry: what it writes spoils no context but the one it keeps.

LEMMA InterruptWrites ==
    ASSUME TypeOK, Interrupt
    PROVE  \E F \in Frames :
        /\ F.flow = flow /\ \A k \in DOMAIN Pushes : F.saved[k] = regs[Pushes[k]]
        /\ Slot(cr3, stack) \in StackFrames
        /\ frame' = [frame EXCEPT ![Slot(cr3, stack)] = F]
<1> DEFINE F == [flow |-> flow, saved |-> Saved, if |-> TRUE]
<1>1. F \in Frames
  BY SavedType DEF TypeOK, Interrupt, Frames
<1>2. F.flow = flow /\ \A k \in DOMAIN Pushes : F.saved[k] = regs[Pushes[k]]
  BY DEF Saved
<1>3. Slot(cr3, stack) \in StackFrames
  BY SlotFrames DEF TypeOK
<1>4. frame' = [frame EXCEPT ![Slot(cr3, stack)] = F]
  BY DEF Interrupt
<1> HIDE DEF F
<1> QED
  BY <1>1, <1>2, <1>3, <1>4

LEMMA BootIsInterrupted ==
    ASSUME TypeOK, Progress, Modes, Interrupt, flow = Boot
    PROVE  Progress' /\ Modes'
<1> DEFINE p == Slot(cr3, stack)
<1>1. BootMode /\ flow # Wild /\ flow \notin TaskIds /\ hpc = "none" /\ hpc' = "save"
  BY Names DEF Interrupt, Modes, RoundMode, DoomedMode, InBoot
<1>2. PICK F \in Frames : F.flow = flow /\ p \in StackFrames /\ frame' = [frame EXCEPT ![p] = F]
  BY InterruptWrites
<1>3. UNCHANGED <<flow, bpc, idx, cr3, stack, sp, space, current_task, view>>
  BY DEF Interrupt, table
<1>4. tooEarly' = (tooEarly \/ bpc # "jump")
  BY DEF Interrupt
<1> HIDE DEF p
<1>5. IF bpc = "frame" THEN idx \in Rest /\ p = UFrame(idx) ELSE p = KFrame
  BY <1>1, Slots, Tasks DEF BootMode, TypeOK, p, UFrame
<1>6. ASSUME NEW i \in Rest, Built(i) PROVE Holds(i)' = Holds(i)
  <2>1. i \in TaskIds /\ i # 0
    BY DEF Rest
  <2>2. Slot(i, Home(i)) # p
    <3>1. Slot(i, Home(i)) = UFrame(i)
      BY <2>1 DEF Home, UFrame
    <3>2. bpc = "frame" => i # idx
      BY <1>6, Tasks, <2>1 DEF Built
    <3>3. idx \in TaskIds
      BY Tasks DEF TypeOK
    <3> QED
      BY <1>5, <2>1, <3>1, <3>2, <3>3, Slots
  <2>3. frame'[Slot(i, Home(i))] = frame[Slot(i, Home(i))]
    BY <1>2, <2>2 DEF TypeOK
  <2> QED
    BY <1>3, <2>3 DEF Holds, Matches, Slot
<1>7. ASSUME NEW i \in Rest PROVE Waits(i)'
  <2>1. Waits(i) /\ Built(i)' = Built(i)
    BY <1>1, <1>3, <1>7 DEF BootMode, Built
  <2> QED
    BY <1>3, <1>6, <1>7, <2>1 DEF Waits, Ready
<1>8. Progress'
  <2>1. UFrame(0) # p
    BY <1>5, Slots, Tasks DEF Rest
  <2> QED
    BY <1>2, <1>3, <2>1 DEF Progress, UFrame, Slot, TypeOK
<1>9. bpc = "sp" => Holds(idx)'
  BY <1>1, <1>2, <1>3, <1>5, Slots, Tasks DEF BootMode, Holds, Matches, Slot, Home, UFrame, TypeOK, Rest
<1>10. frame'[p] # Garbage /\ frame'[p].flow = Boot
  BY <1>2, Names DEF TypeOK
<1>11. BootMode'
  BY <1>1, <1>3, <1>4, <1>7, <1>9, <1>10 DEF BootMode, InBoot, Slot, p
<1>12. Running'
  BY <1>1, <1>3 DEF Running
<1> QED
  BY <1>1, <1>3, <1>8, <1>11, <1>12 DEF Modes

LEMMA TaskIsInterrupted ==
    ASSUME TypeOK, Progress, Modes, Interrupt, NEW i \in TaskIds, flow = i
    PROVE  Progress' /\ Modes'
<1> DEFINE p == Slot(i, Home(i))
<1>1. ~InBoot /\ flow # Wild /\ Running /\ (RoundMode \/ DoomedMode) /\ hpc = "none" /\ hpc' = "save"
  BY Names DEF Interrupt, Modes, BootMode, InBoot
<1>2. cr3 = i /\ stack = Home(i) /\ current_task = i /\ \A r \in Pushed : regs[r] = view[i][r]
  BY <1>1 DEF Running
<1>3. PICK F \in Frames : /\ F.flow = i /\ \A k \in DOMAIN Pushes : F.saved[k] = regs[Pushes[k]]
                          /\ p \in StackFrames /\ frame' = [frame EXCEPT ![p] = F]
  BY <1>2, InterruptWrites
<1>4. UNCHANGED <<flow, bpc, idx, cr3, stack, sp, space, current_task, view>>
  BY DEF Interrupt, table
<1>5. tooEarly' = tooEarly
  BY Names DEF Interrupt, TypeOK
<1>6. Holds(i)'
  BY <1>2, <1>3, <1>4, Names, Stacked DEF Holds, Matches, Slot, TypeOK
<1>7. ASSUME NEW j \in TaskIds, j # i PROVE Holds(j)' = Holds(j) /\ Ready(j)' = Ready(j)
  <2>1. Slot(j, Home(j)) # p
    BY <1>7, Slots DEF Home, UFrame
  <2>2. frame'[Slot(j, Home(j))] = frame[Slot(j, Home(j))]
    BY <1>3, <2>1 DEF TypeOK
  <2> QED
    BY <1>4, <2>2 DEF Holds, Matches, Ready, Slot
<1>8. ASSUME NEW j \in Rest, j # i PROVE Waits(j)' = Waits(j)
  BY <1>4, <1>7, <1>8, Tasks DEF Waits, Built
<1>9. Progress'
  <2>1. UFrame(0) # p
    BY Slots, Tasks DEF Home, UFrame
  <2> QED
    BY <1>3, <1>4, <2>1 DEF Progress, UFrame, Slot, TypeOK
<1>10. Running'
  BY <1>1, <1>2, <1>4, <1>6 DEF Running
<1>11. CASE RoundMode
  <2>1. i # 0 => frame'[KFrame] = frame[KFrame] /\ Holds(0)' = Holds(0)
    BY <1>3, <1>7, Slots, Tasks DEF Home, UFrame, TypeOK
  <2>2. RoundMode'
    BY <1>1, <1>4, <1>5, <1>8, <1>11, <2>1 DEF RoundMode, InBoot, Built, KFrame, Slot
  <2> QED
    BY <1>1, <1>4, <1>9, <1>10, <2>2 DEF Modes
<1>12. CASE DoomedMode
  <2>1. ASSUME NEW j \in Rest, current_task < j PROVE sp[j] = Garbage \/ Ready(j)'
    <3>1. j # i /\ j \in TaskIds
      BY <1>2, <2>1, Tasks
    <3>2. sp[j] = Garbage \/ Ready(j)
      BY <1>1, <1>12, <2>1 DEF DoomedMode
    <3> QED
      BY <1>7, <3>1, <3>2
  <2>2. DoomedMode'
    BY <1>1, <1>4, <1>5, <1>12, <2>1 DEF DoomedMode, InBoot
  <2> QED
    BY <1>1, <1>4, <1>9, <1>10, <2>2 DEF Modes
<1> QED
  BY <1>1, <1>11, <1>12

-----------------------------------------------------------------------------
\* schedule(): whose stack pointer goes where, and who is next.

LEMMA BootGivesWay ==
    ASSUME TypeOK, Progress, Modes, SaveAndAdvance, flow = Boot
    PROVE  Progress' /\ Modes'
<1>1. BootMode /\ flow # Wild /\ flow \notin TaskIds /\ hpc = "save" /\ hpc' = "eoi"
  BY Names DEF SaveAndAdvance, Modes, RoundMode, DoomedMode, InBoot
<1>2. UNCHANGED <<flow, bpc, idx, cr3, stack, frame, space, view, tooEarly>>
  BY DEF SaveAndAdvance, cpu
<1>3. current_task \in TaskIds /\ current_task' = After(current_task)
  BY Succ DEF SaveAndAdvance, TypeOK
<1>4. sp' = [sp EXCEPT ![current_task] = stack] /\ sp'[current_task] = stack
  BY <1>3 DEF SaveAndAdvance, TypeOK
<1>5. \A i \in TaskIds : Holds(i)' = Holds(i)
  BY <1>2, HeldOn
<1>6. ASSUME NEW i \in Rest, i # current_task PROVE Waits(i)' /\ (sp'[i] = Garbage \/ Ready(i)')
  <2>1. i \in TaskIds /\ Waits(i) /\ Built(i)' = Built(i) /\ sp'[i] = sp[i]
    BY <1>1, <1>2, <1>3, <1>4, <1>6, Tasks DEF BootMode, Built, TypeOK
  <2> QED
    BY <1>2, <1>5, <2>1 DEF Waits, Ready
<1>7. Progress'
  BY <1>2 DEF Progress, UFrame, Slot
<1>8. Running'
  BY <1>1, <1>2 DEF Running
<1>9. CASE current_task = 0 /\ stack = "kstack"
  <2>1. current_task' = 1
    BY <1>3, <1>9, Tasks DEF After
  <2>2. bpc # "frame" /\ frame[KFrame] # Garbage /\ frame[KFrame].flow = Boot
    BY <1>1, <1>9, Slots DEF BootMode, TypeOK
  <2>3. \A i \in Rest : Waits(i)'
    BY <1>6, <1>9 DEF Rest
  <2>4. RoundMode'
    BY <1>1, <1>2, <1>4, <1>9, <2>1, <2>2, <2>3, Names, Tasks
       DEF RoundMode, BootMode, InBoot, KFrame, Slot
  <2> QED
    BY <1>1, <1>2, <1>7, <1>8, <2>4 DEF Modes
<1>10. CASE ~(current_task = 0 /\ stack = "kstack")
  <2>1. tooEarly
    BY <1>1, <1>10 DEF BootMode
  <2>2. sp'[0] # "kstack"
    BY <1>1, <1>3, <1>4, <1>10, Names, Tasks DEF BootMode, TypeOK
  <2>3. ASSUME NEW i \in Rest, 0 < current_task', current_task' <= i
        PROVE  sp'[i] = Garbage \/ Ready(i)'
    <3>1. i # current_task
      BY <1>3, <2>3, Tasks DEF After
    <3> QED
      BY <1>6, <3>1
  <2>4. DoomedMode'
    BY <1>1, <1>2, <2>1, <2>2, <2>3, Names, Tasks DEF DoomedMode, InBoot
  <2> QED
    BY <1>1, <1>2, <1>7, <1>8, <2>4 DEF Modes
<1> QED
  BY <1>9, <1>10

LEMMA TaskGivesWay ==
    ASSUME TypeOK, Progress, Modes, SaveAndAdvance, NEW i \in TaskIds, flow = i
    PROVE  Progress' /\ Modes'
<1>1. ~InBoot /\ flow # Wild /\ flow # Boot /\ hpc = "save" /\ hpc' = "eoi"
      /\ Running /\ (RoundMode \/ DoomedMode)
  BY Names DEF SaveAndAdvance, Modes, BootMode, InBoot
<1>2. UNCHANGED <<flow, bpc, idx, cr3, stack, frame, space, view, tooEarly>>
  BY DEF SaveAndAdvance, cpu
<1>3. cr3 = i /\ stack = Home(i) /\ current_task = i /\ Holds(i) /\ current_task' = After(i)
  BY <1>1, Succ DEF SaveAndAdvance, Running
<1>4. sp' = [sp EXCEPT ![i] = Home(i)] /\ sp'[i] = Home(i)
  BY <1>3 DEF SaveAndAdvance, TypeOK
<1>5. \A j \in TaskIds : Holds(j)' = Holds(j)
  BY <1>2, HeldOn
<1>6. Ready(i)' /\ Holds(i)'
  BY <1>2, <1>3, <1>4, <1>5 DEF Ready
<1>7. ASSUME NEW j \in TaskIds, j # i PROVE sp'[j] = sp[j] /\ Ready(j)' = Ready(j)
  BY <1>4, <1>5, <1>7 DEF Ready, TypeOK
<1>8. ASSUME NEW j \in Rest, j # i PROVE Waits(j)' = Waits(j)
  BY <1>2, <1>7, <1>8, Tasks DEF Waits, Built
<1>9. Progress'
  BY <1>2 DEF Progress, UFrame, Slot
<1>10. Running'
  BY <1>1, <1>2, <1>3, <1>6 DEF Running
<1>11. CASE RoundMode
  <2>1. \A j \in Rest : Waits(j)'
    BY <1>1, <1>2, <1>6, <1>8, <1>11 DEF RoundMode, Waits, Built
  <2>2. /\ sp'[0] = "kstack"
        /\ IF bpc = "gone" THEN Holds(0)'
           ELSE bpc # "frame" /\ frame[KFrame] # Garbage /\ frame[KFrame].flow = Boot
    <3>1. CASE i = 0
      BY <1>4, <1>6, <1>11, <3>1 DEF RoundMode, Home
    <3>2. CASE i # 0
      BY <1>5, <1>7, <1>11, <3>2, Tasks DEF RoundMode
    <3> QED
      BY <3>1, <3>2
  <2>3. RoundMode'
    BY <1>1, <1>2, <1>11, <2>1, <2>2 DEF RoundMode, InBoot, Built, KFrame, Slot
  <2> QED
    BY <1>1, <1>2, <1>9, <1>10, <2>3 DEF Modes
<1>12. CASE DoomedMode
  <2>1. sp'[0] # "kstack"
    BY <1>7, <1>12, Tasks DEF DoomedMode
  <2>2. ASSUME NEW j \in Rest, 0 < current_task', current_task' <= j
        PROVE  sp'[j] = Garbage \/ Ready(j)'
    <3>1. current_task < j /\ j # i /\ j \in TaskIds
      BY <1>3, <2>2, Tasks DEF After
    <3>2. sp[j] = Garbage \/ Ready(j)
      BY <1>1, <1>12, <3>1 DEF DoomedMode
    <3> QED
      BY <1>7, <3>1, <3>2
  <2>3. DoomedMode'
    BY <1>1, <1>2, <1>12, <2>1, <2>2 DEF DoomedMode, InBoot
  <2> QED
    BY <1>1, <1>2, <1>9, <1>10, <2>3 DEF Modes
<1> QED
  BY <1>1, <1>11, <1>12

-----------------------------------------------------------------------------
\* The way out of the handler.

LEMMA SpacesSet == Progress => \A i \in TaskIds : space[i] \in TaskIds => space[i] = i
  BY Names DEF Progress

LEMMA SpaceOfBuilt ==
    ASSUME TypeOK, Progress, NEW i \in Rest, Built(i)
    PROVE  \A j \in TaskIds : space[j] = j
<1>1. bpc \notin {"sti", "arm", "spaces"}
  BY Tasks DEF TypeOK, Progress, Built, Rest
<1> QED
  BY <1>1 DEF Progress

\* A task whose context is kept gets it back.
LEMMA ReadyResumes ==
    ASSUME TypeOK, Resume, NEW i \in TaskIds, current_task = i, space[i] = i, Ready(i)
    PROVE  /\ flow' = i /\ cr3' = i /\ stack' = Home(i)
           /\ \A r \in Pushed : regs'[r] = view[i][r]
<1>1. NextFrame = frame[Slot(i, Home(i))] /\ NextFrame # Garbage
  BY Names, SlotFrames DEF Ready, Holds, Matches, NextFrame, Home
<1>2. NextFrame.flow = i /\ \A k \in DOMAIN Pushes : NextFrame.saved[k] = view[i][Pushes[k]]
  BY <1>1 DEF Ready, Holds, Matches
<1>3. regs' = Restored(NextFrame.saved, TimerPops, regs)
  BY <1>1 DEF Resume
<1>4. ASSUME NEW r \in Pushed PROVE regs'[r] = view[i][r]
  <2>1. PICK k \in 1 .. 7 : r = Pushes[k]
    BY Stacked
  <2>2. regs'[r] = NextFrame.saved[k]
    BY <1>3, <2>1, PopsUndoPushes
  <2> QED
    BY <1>2, <2>1, <2>2, Stacked
<1>5. flow' = i /\ cr3' = i /\ stack' = Home(i)
  BY <1>1, <1>2 DEF Resume, Ready
<1> QED
  BY <1>4, <1>5

LEMMA ResumeKeepsRound ==
    ASSUME TypeOK, Progress, Modes, RoundMode, Resume, flow # Wild
    PROVE  Modes'
<1>1. hpc = "resume" /\ hpc' = "none"
      /\ UNCHANGED <<bpc, idx, frame, sp, space, current_task, view, tooEarly>>
  BY DEF Resume, table
<1>2. \A i \in TaskIds : Holds(i)' = Holds(i)
  BY <1>1, HeldOn
<1>3. \A i \in Rest : Waits(i) /\ Waits(i)'
  <2>1. \A i \in Rest : Waits(i)
    BY <1>1 DEF RoundMode
  <2> QED
    BY <1>1, <1>2, <2>1, Tasks DEF Waits, Built, Ready
<1>4. /\ sp[0] = "kstack"
      /\ IF bpc = "gone" THEN Holds(0)
         ELSE bpc # "frame" /\ frame[KFrame] # Garbage /\ frame[KFrame].flow = Boot
  BY <1>1 DEF RoundMode
<1>5. CASE current_task = 0
  <2>1. flow = TASK_NUM - 1 /\ flow \in Rest
    BY <1>1, <1>5, Names, Tasks DEF RoundMode, Modes, Running, After, TypeOK
  <2>2. idx = TASK_NUM - 1 /\ bpc \in {"leave", "current", "jump", "gone"}
    BY <2>1, Tasks DEF RoundMode, Built, TypeOK
  <2>3. space[0] = 0
    BY <2>2, Tasks DEF Progress
  <2>4. CASE bpc = "gone"
    <3>1. Ready(0)
      BY <1>4, <2>4 DEF Ready, Home
    <3>2. flow' = 0 /\ cr3' = 0 /\ stack' = Home(0) /\ \A r \in Pushed : regs'[r] = view[0][r]
      BY <1>5, <2>3, <3>1, Tasks, ReadyResumes
    <3>3. Running'
      BY <1>1, <1>5, <3>2 DEF Running
    <3>4. RoundMode'
      BY <1>1, <1>3, <2>4, <3>2, Names, Tasks DEF RoundMode, InBoot, Rest
    <3> QED
      BY <3>2, <3>3, <3>4, Names, Tasks DEF Modes
  <2>5. CASE bpc # "gone"
    <3>1. NextFrame = frame[KFrame]
      BY <1>4, <1>5, <2>3, <2>5, Slots, SlotFrames, Names, Tasks DEF NextFrame
    <3>2. flow' = Boot /\ stack' = "kstack"
      BY <1>4, <1>5, <2>5, <3>1 DEF Resume
    <3>3. BootMode'
      BY <1>1, <1>3, <1>4, <1>5, <2>2, <2>5, <3>2 DEF BootMode, InBoot
    <3> QED
      BY <3>2, <3>3, Names DEF Modes, Running
  <2> QED
    BY <2>4, <2>5
<1>6. CASE current_task # 0
  <2> DEFINE c == current_task
  <2>1. c \in Rest /\ c \in TaskIds
    BY <1>6 DEF Rest, TypeOK
  <2> HIDE DEF c
  <2>2. CASE Built(c)
    <3>1. Ready(c) /\ space[c] = c
      BY <1>3, <2>1, <2>2, SpaceOfBuilt DEF Waits
    <3>2. flow' = c /\ cr3' = c /\ stack' = Home(c) /\ \A r \in Pushed : regs'[r] = view[c][r]
      BY <2>1, <3>1, ReadyResumes DEF c
    <3>3. Running'
      BY <1>1, <3>2 DEF Running, c
    <3>4. Built(flow)'
      BY <1>1, <2>2, <3>2 DEF Built
    <3>5. RoundMode'
      BY <1>1, <1>2, <1>3, <1>4, <2>1, <3>2, <3>4, Names, Tasks
         DEF RoundMode, InBoot, KFrame, Slot, Rest
    <3> QED
      BY <2>1, <3>2, <3>3, <3>5, Names DEF Modes
  <2>3. CASE ~Built(c)
    <3>1. sp[c] = Garbage
      BY <1>3, <2>1, <2>3 DEF Waits
    <3>2. flow' = Wild
      BY <3>1 DEF NextFrame, Resume, c
    <3>3. tooEarly
      BY <2>1, <2>3, Tasks DEF RoundMode, Progress, Built
    <3> QED
      BY <1>1, <3>2, <3>3 DEF Modes
  <2> QED
    BY <2>2, <2>3
<1> QED
  BY <1>5, <1>6

LEMMA ResumeKeepsDoomed ==
    ASSUME TypeOK, Progress, DoomedMode, Resume
    PROVE  Modes'
<1>1. hpc = "resume" /\ hpc' = "none" /\ tooEarly /\ sp[0] # "kstack"
      /\ UNCHANGED <<bpc, idx, frame, sp, space, current_task, view, tooEarly>>
  BY DEF Resume, DoomedMode, table
<1>2. CASE NextFrame = Garbage
  BY <1>1, <1>2 DEF Resume, Modes
<1>3. CASE NextFrame # Garbage
  <2> DEFINE c == current_task
  <2>1. c \in TaskIds /\ sp[c] # Garbage /\ space[c] = c /\ NextFrame = frame[Slot(c, sp[c])]
    <3>1. c \in TaskIds /\ space[c] \in TaskIds
      BY <1>3, NoSpace DEF NextFrame, TypeOK
    <3>2. space[c] = c
      BY <3>1, SpacesSet
    <3> QED
      BY <1>3, <3>1, <3>2 DEF NextFrame
  <2> HIDE DEF c
  <2>2. c # 0
    BY <1>1, <1>3, <2>1 DEF TypeOK, Progress, UFrame
  <2>3. c \in Rest /\ Ready(c)
    <3>1. c \in Rest /\ 0 < c
      BY <2>1, <2>2, Tasks DEF Rest
    <3>2. sp[c] = Garbage \/ Ready(c)
      BY <1>1, <3>1, Tasks DEF DoomedMode, c
    <3> QED
      BY <2>1, <3>1, <3>2
  <2>4. flow' = c /\ cr3' = c /\ stack' = Home(c) /\ \A r \in Pushed : regs'[r] = view[c][r]
    BY <2>1, <2>3, ReadyResumes DEF c
  <2>5. ASSUME NEW j \in Rest, c < j PROVE sp[j] = Garbage \/ Ready(j)'
    <3>1. \A i \in TaskIds : Holds(i)' = Holds(i)
      BY <1>1, HeldOn
    <3>2. sp[j] = Garbage \/ Ready(j)
      BY <1>1, <2>1, <2>2, <2>5, Tasks DEF DoomedMode, c
    <3> QED
      BY <1>1, <2>5, <3>1, <3>2, Tasks DEF Ready
  <2>6. Running'
    BY <1>1, <2>4 DEF Running, c
  <2>7. DoomedMode'
    BY <1>1, <2>2, <2>4, <2>5, <2>1, Names DEF DoomedMode, InBoot, c
  <2> QED
    BY <2>1, <2>4, <2>6, <2>7, Names DEF Modes
<1> QED
  BY <1>2, <1>3

-----------------------------------------------------------------------------
\* The invariant.

LEMMA ModesStep == TypeOK /\ Progress /\ Modes /\ [Next]_vars => Progress' /\ Modes'
<1> SUFFICES ASSUME TypeOK, Progress, Modes, [Next]_vars PROVE Progress' /\ Modes'
  OBVIOUS
<1>1. CASE BootStep
  BY <1>1, BootKeepsModes
<1>2. CASE Tick \/ EndOfInterrupt \/ UNCHANGED vars
  BY <1>2, TimerKeepsModes
<1>3. ASSUME NEW i \in TaskIds, Compute(i) \/ Syscall(i) PROVE Progress' /\ Modes'
  <2>1. /\ flow = i /\ hpc = "none" /\ view' = [view EXCEPT ![i] = regs']
        /\ UNCHANGED <<flow, bpc, idx, hpc, cr3, stack, frame, sp, space, current_task, tooEarly>>
    BY <1>3 DEF Compute, Syscall, table
  <2> QED
    BY <2>1, TaskKeepsModes
<1>4. CASE Interrupt
  <2>1. flow = Boot \/ flow \in TaskIds
    BY <1>4 DEF Interrupt, TypeOK
  <2> QED
    BY <1>4, <2>1, BootIsInterrupted, TaskIsInterrupted
<1>5. CASE SaveAndAdvance
  <2>1. flow = Boot \/ flow \in TaskIds
    BY <1>5 DEF SaveAndAdvance, Modes, TypeOK
  <2> QED
    BY <1>5, <2>1, BootGivesWay, TaskGivesWay
<1>6. CASE Resume
  <2>1. Progress'
    BY <1>6 DEF Resume, Progress, UFrame, Slot, table
  <2>2. flow # Wild /\ (RoundMode \/ DoomedMode)
    BY <1>6 DEF Resume, Modes, BootMode, InBoot
  <2> QED
    BY <1>6, <2>1, <2>2, ResumeKeepsRound, ResumeKeepsDoomed
<1> QED
  BY <1>1, <1>2, <1>3, <1>4, <1>5, <1>6 DEF Next, HandlerStep, Lost

LEMMA Invariance == Spec => []IInv
<1>1. Init => IInv
  BY TypeInit, ModesInit DEF IInv
<1>2. IInv /\ [Next]_vars => IInv'
  BY TypeStep, ModesStep DEF IInv
<1> QED
  BY <1>1, <1>2, PTL DEF Spec

\* TypeOK: each variable keeps the type of what it stands for; in particular the
\* address spaces, the stack pointers and the frames that schedule() uses
\* (sched.c:115-132) are those of a task or garbage, whatever is interrupted.
THEOREM TypeCorrect == Spec => []TypeOK
<1>1. IInv => TypeOK
  BY DEF IInv
<1> QED
  BY <1>1, Invariance, PTL

\* ContextKept: a task that runs is in its own address space, with the registers
\* that lapic_intr_handler (interrupt_handler.S) saves as it left them.
THEOREM ContextKeptAlways == Spec => []ContextKept
<1>1. IInv => ContextKept
  BY Names DEF IInv, Modes, Running, ContextKept
<1> QED
  BY <1>1, Invariance, PTL

\* WildOnlyIfTooEarly: the frame that schedule() resumes from is missing only
\* after a tick between sti and init_tasks' current_task = 0 (sched.c:108).
THEOREM WildOnlyIfTooEarlyAlways == Spec => []WildOnlyIfTooEarly
<1>1. IInv => WildOnlyIfTooEarly
  BY DEF IInv, Modes, WildOnlyIfTooEarly
<1> QED
  BY <1>1, Invariance, PTL

-----------------------------------------------------------------------------
\* The refinement: a round-robin machine.

\* The saved registers as task i left them.
Seen(i) == [k \in DOMAIN Pushes |-> view[i][Pushes[k]]]

\* Before task 0 starts, place 0 has start()'s registers, in the CPU or on its
\* stack; every other context is what its task has last seen.
ContextsSeen ==
    /\ \A i \in Rest : Context(i) = Seen(i)
    /\ Context(0) = IF bpc = "gone" THEN Seen(0)
                    ELSE IF flow = Boot /\ hpc = "none" THEN Saved ELSE frame[KFrame].saved

LEMMA MatchesSeen ==
    ASSUME NEW F \in Frames, NEW i \in TaskIds, Matches(F, i)
    PROVE  F.saved = Seen(i)
  BY DEF Matches, Seen, Frames

LEMMA HoldsSeen ==
    ASSUME TypeOK, NEW i \in TaskIds, Holds(i)
    PROVE  /\ FrameAt(i, Home(i)) # Garbage
           /\ FrameAt(i, Home(i)).saved = Seen(i)
<1>1. FrameAt(i, Home(i)) = frame[Slot(i, Home(i))] /\ Slot(i, Home(i)) \in StackFrames
  BY Names, SlotFrames DEF FrameAt, Home
<1>2. frame[Slot(i, Home(i))] # Garbage /\ frame[Slot(i, Home(i))] \in Frames
  BY <1>1 DEF TypeOK, Holds, Matches
<1> QED
  BY <1>1, <1>2, MatchesSeen DEF Holds

\* Without a tick that came too early nothing is lost.
Sound == flow # Wild /\ Running /\ (BootMode \/ RoundMode)

LEMMA NothingLost ==
    ASSUME TypeOK, Progress, Modes, ~tooEarly
    PROVE  Sound
  BY DEF Modes, DoomedMode, Sound

LEMMA SeenRunning ==
    ASSUME TypeOK, Running, NEW i \in TaskIds, flow = i
    PROVE  /\ hpc \in {"none", "save"} => Context(i) = Seen(i)
           /\ hpc \in {"eoi", "resume"} => Ready(i)
<1>1. Turn = i
  BY Names DEF Turn
<1>2. CASE hpc = "none"
  <2>1. Saved = Seen(i)
    BY <1>2, Stacked DEF Running, Saved, Seen
  <2> QED
    BY <1>1, <1>2, <2>1 DEF Context
<1>3. CASE hpc = "save"
  <2>1. FrameOf(i) = FrameAt(i, Home(i)) /\ Holds(i)
    BY <1>1, <1>3 DEF Running, FrameOf
  <2> QED
    BY <1>3, <2>1, HoldsSeen DEF Context
<1>4. CASE hpc \in {"eoi", "resume"}
  BY <1>4 DEF Running
<1> QED
  BY <1>2, <1>3, <1>4

LEMMA SeenWaiting ==
    ASSUME TypeOK, NEW i \in TaskIds, ~(flow = i /\ hpc \in {"none", "save"}),
           i = 0 => flow # Boot \/ hpc \notin {"none", "save"}, Ready(i), space[i] = i
    PROVE  Context(i) = Seen(i)
<1>1. FrameOf(i) = FrameAt(i, Home(i)) /\ (hpc = "none" => Turn # i)
  BY Names DEF FrameOf, Turn, Ready
<1> QED
  BY <1>1, HoldsSeen DEF Context, Ready

LEMMA ContextsAreSeen ==
    ASSUME TypeOK, Progress, Modes, ~tooEarly
    PROVE  ContextsSeen
<1>1. flow # Wild /\ Running /\ (BootMode \/ RoundMode)
  BY NothingLost DEF Sound
<1>2. ASSUME NEW i \in Rest PROVE Context(i) = Seen(i)
  <2>1. i \in TaskIds /\ i # 0
    BY DEF Rest
  <2>2. CASE flow = i /\ hpc \in {"none", "save"}
    BY <1>1, <2>1, <2>2, SeenRunning
  <2>3. CASE ~(flow = i /\ hpc \in {"none", "save"})
    <3>1. Waits(i)
      BY <1>1, <2>3 DEF BootMode, RoundMode
    <3>2. CASE Built(i)
      <4>1. Ready(i) /\ space[i] = i
        BY <2>1, <3>1, <3>2, SpaceOfBuilt DEF Waits
      <4> QED
        BY <2>1, <2>3, <4>1, SeenWaiting
    <3>3. CASE ~Built(i)
      <4>1. sp[i] = Garbage /\ view[i] = Zero
        BY <3>1, <3>3 DEF Waits
      <4>2. FrameOf(i) = Garbage /\ (hpc = "none" => Turn # i)
        BY <2>1, <2>3, <4>1 DEF FrameOf, FrameAt, Turn
      <4> QED
        BY <4>1, <4>2 DEF Context, ZeroContext, Seen
    <3> QED
      BY <3>2, <3>3
  <2> QED
    BY <2>2, <2>3
<1>3. CASE bpc = "gone"
  <2>1. RoundMode /\ flow # Boot /\ space[0] = 0
    BY <1>1, <1>3, Tasks DEF BootMode, RoundMode, Progress
  <2>2. CASE flow = 0 /\ hpc \in {"none", "save"}
    BY <1>1, <1>2, <1>3, <2>2, SeenRunning, Tasks DEF ContextsSeen
  <2>3. CASE ~(flow = 0 /\ hpc \in {"none", "save"})
    <3>1. Ready(0)
      BY <1>3, <2>1, <2>3 DEF RoundMode, Ready, Home
    <3> QED
      BY <1>2, <1>3, <2>1, <2>3, <3>1, SeenWaiting, Tasks DEF ContextsSeen
  <2> QED
    BY <2>2, <2>3
<1>4. CASE bpc # "gone" /\ flow = Boot /\ hpc = "none"
  BY <1>2, <1>4 DEF ContextsSeen, Context, Turn
<1>5. CASE bpc # "gone" /\ flow = Boot /\ hpc = "save"
  <2>1. bpc = "jump" /\ stack = "kstack" /\ frame[Slot(cr3, stack)] # Garbage
    BY <1>1, <1>5 DEF BootMode, RoundMode, InBoot
  <2>2. FrameOf(0) = frame[KFrame]
    BY <1>5, <2>1, Slots, Names DEF FrameOf, FrameAt, Turn, TypeOK
  <2> QED
    BY <1>2, <1>5, <2>1, <2>2, Slots DEF ContextsSeen, Context, TypeOK
<1>6. CASE bpc # "gone" /\ ~InBoot
  <2>1. RoundMode /\ flow # 0 /\ sp[0] = "kstack" /\ frame[KFrame] # Garbage /\ space[0] = 0
    BY <1>1, <1>6, Tasks DEF BootMode, RoundMode, Progress
  <2>2. FrameOf(0) = frame[KFrame] /\ (hpc = "none" => Turn # 0)
    BY <1>6, <2>1, Slots, Names, Tasks DEF FrameOf, FrameAt, Turn, InBoot
  <2> QED
    BY <1>2, <1>6, <2>1, <2>2 DEF ContextsSeen, Context, InBoot
<1> QED
  BY <1>3, <1>4, <1>5, <1>6 DEF InBoot

AllContexts == [i \in TaskIds |-> Context(i)]

\* The contexts are the same when the tasks have seen the same and place 0 is.
LEMMA SameContexts ==
    ASSUME ContextsSeen, ContextsSeen', UNCHANGED Context(0), \A i \in Rest : view'[i] = view[i]
    PROVE  UNCHANGED AllContexts
<1>1. \A i \in Rest : Context(i)' = Context(i)
  BY DEF ContextsSeen, Seen
<1>2. \A i \in TaskIds : Context(i)' = Context(i)
  BY <1>1 DEF Rest
<1> QED
  BY <1>2 DEF AllContexts

LEMMA RoundRobinInit == Init => RR!Init
<1> SUFFICES ASSUME Init PROVE RR!Init
  OBVIOUS
<1>1. ASSUME NEW i \in TaskIds \ {0} PROVE Context(i) = ZeroContext
  BY <1>1 DEF Init, Context, Turn, FrameOf, FrameAt
<1> QED
  BY <1>1 DEF Init, Turn, RR!Init, RR!Tasks, TaskIds

LEMMA RoundRobinStep == IInv /\ IInv' /\ [Next]_vars => [RR!Next]_(RR!vars)
<1> SUFFICES ASSUME IInv, IInv', [Next]_vars, ~tooEarly' PROVE [RR!Next]_(RR!vars)
  BY DEF RR!Next, RR!Break, IInv, TypeOK
<1> USE DEF IInv
<1>1. ~tooEarly
  BY Names DEF TypeOK, Next, BootStep, EnableInterrupts, StartTimer, SetSpaces, EnterSpace, PushFlags,
     FillFrame, SetSp, LeaveSpace, SetCurrent, JumpToTask0, Tick, HandlerStep, Interrupt,
     SaveAndAdvance, EndOfInterrupt, Resume, Compute, Syscall, Lost, vars
<1>2. ContextsSeen /\ ContextsSeen'
  <2>1. ContextsSeen
    BY <1>1, ContextsAreSeen
  <2>2. ContextsSeen'
    BY ContextsAreSeen, PTL
  <2> QED
    BY <2>1, <2>2
<1>3. /\ flow # Wild /\ Running /\ (BootMode \/ RoundMode)
      /\ flow' # Wild /\ Running' /\ (BootMode' \/ RoundMode')
  <2>1. Sound
    BY <1>1, NothingLost
  <2>2. Sound'
    BY NothingLost, PTL
  <2> QED
    BY <2>1, <2>2 DEF Sound
<1>4. tooEarly' = tooEarly
  BY <1>1 DEF TypeOK
<1>5. CASE BootStep
  <2> USE DEF BootGoto, cpu, table
  <2>1. flow = Boot /\ bpc # "gone" /\ hpc = "none" /\ hpc' = hpc /\ regs' = regs
    BY <1>3, <1>5, Names DEF BootMode, RoundMode, BootStep, EnableInterrupts, StartTimer, SetSpaces, EnterSpace,
       PushFlags, FillFrame, SetSp, LeaveSpace, SetCurrent, JumpToTask0
  <2>2. \A i \in Rest : view'[i] = view[i]
    BY <1>5 DEF Rest, TypeOK, BootStep, EnableInterrupts, StartTimer, SetSpaces, EnterSpace,
       PushFlags, FillFrame, SetSp, LeaveSpace, SetCurrent, JumpToTask0
  <2>3. Context(0) = Saved /\ Saved' = Saved
    BY <1>2, <2>1 DEF ContextsSeen, Saved
  <2>4. Context(0)' = Saved /\ Turn' = Turn
    <3>1. CASE JumpToTask0
      <4>1. flow' = 0 /\ bpc' = "gone" /\ view'[0] = regs
        BY <3>1, Tasks DEF JumpToTask0, TypeOK
      <4>2. Seen(0)' = Saved
        BY <4>1 DEF Seen, Saved
      <4> QED
        BY <1>2, <2>1, <4>1, <4>2, Names, Tasks DEF ContextsSeen, Turn
    <3>2. CASE ~JumpToTask0
      <4>1. flow' = Boot /\ bpc' # "gone"
        BY <1>5, <2>1, <3>2 DEF BootStep, EnableInterrupts, StartTimer, SetSpaces, EnterSpace,
           PushFlags, FillFrame, SetSp, LeaveSpace, SetCurrent
      <4> QED
        BY <1>2, <2>1, <2>3, <4>1 DEF ContextsSeen, Turn
    <3> QED
      BY <3>1, <3>2
  <2>5. UNCHANGED AllContexts
    BY <1>2, <2>2, <2>3, <2>4, SameContexts
  <2> QED
    BY <1>4, <2>1, <2>4, <2>5 DEF RR!vars, AllContexts
<1>6. CASE Tick \/ EndOfInterrupt \/ SaveAndAdvance \/ UNCHANGED vars
  <2>1. /\ UNCHANGED <<flow, bpc, regs, frame, view>>
        /\ (hpc = "none") = (hpc' = "none")
    BY <1>6 DEF Tick, EndOfInterrupt, SaveAndAdvance, vars, cpu, table
  <2>2. UNCHANGED <<Context(0), Turn>>
    BY <1>2, <2>1 DEF ContextsSeen, Seen, Saved, KFrame, Slot, Turn
  <2>3. UNCHANGED AllContexts
    BY <1>2, <2>1, <2>2, SameContexts
  <2> QED
    BY <1>4, <2>1, <2>2, <2>3 DEF RR!vars, AllContexts
<1>7. ASSUME NEW i \in TaskIds, Compute(i) \/ Syscall(i) PROVE RR!Run
  <2>1. /\ flow = i /\ hpc = "none" /\ view' = [view EXCEPT ![i] = regs']
        /\ UNCHANGED <<flow, bpc, hpc, frame>>
    BY <1>7 DEF Compute, Syscall
  <2>2. Turn = i /\ Turn' = i
    BY <2>1, Names DEF Turn
  <2>3. ASSUME NEW j \in TaskIds, j # i PROVE Context(j)' = Context(j)
    <3>1. view'[j] = view[j] /\ flow # Boot
      BY <2>1, <2>3, Names DEF TypeOK
    <3> QED
      BY <1>2, <2>1, <3>1 DEF ContextsSeen, Seen, KFrame, Slot, Rest
  <2> QED
    BY <1>4, <2>1, <2>2, <2>3 DEF RR!Run, RR!Tasks, TaskIds
<1>8. CASE Interrupt
  <2>1. /\ hpc = "none" /\ hpc' = "save"
        /\ UNCHANGED <<flow, bpc, cr3, stack, view>>
    BY <1>8 DEF Interrupt, table
  <2>2. Context(0)' = Context(0)
    <3>1. CASE bpc = "gone"
      BY <1>2, <2>1, <3>1 DEF ContextsSeen, Seen
    <3>2. CASE bpc # "gone" /\ flow = Boot
      <4>1. bpc = "jump"
        BY <1>4, <1>8, <1>1, <3>2 DEF Interrupt, TypeOK
      <4>2. Slot(cr3, stack) = KFrame
        BY <1>3, <2>1, <3>2, <4>1, Slots DEF BootMode, RoundMode, InBoot, TypeOK
      <4>3. frame'[KFrame].saved = Saved
        BY <1>8, <4>2, SlotFrames DEF Interrupt, TypeOK
      <4> QED
        BY <1>2, <2>1, <3>2, <4>3 DEF ContextsSeen, KFrame, Slot
    <3>3. CASE bpc # "gone" /\ flow # Boot
      <4>1. flow \in Rest /\ cr3 = flow /\ stack = "ustack"
        BY <1>3, <2>1, <3>3 DEF BootMode, RoundMode, InBoot, Running, Home, Rest, TypeOK
      <4>2. Slot(cr3, stack) # KFrame
        BY <4>1, Slots DEF UFrame, Rest
      <4>3. frame'[KFrame] = frame[KFrame]
        BY <1>8, <4>2, SlotFrames DEF Interrupt, TypeOK, KFrame
      <4> QED
        BY <1>2, <2>1, <3>3, <4>3 DEF ContextsSeen, KFrame, Slot
    <3> QED
      BY <3>1, <3>2, <3>3
  <2>3. UNCHANGED AllContexts
    BY <1>2, <2>1, <2>2, SameContexts
  <2> QED
    BY <1>4, <2>1, <2>3 DEF RR!Next, RR!Preempt, AllContexts, Turn
<1>9. CASE Resume
  <2>1. /\ hpc = "resume" /\ hpc' = "none" /\ ~InBoot
        /\ UNCHANGED <<bpc, frame, sp, space, current_task, view>>
    BY <1>9 DEF Resume, InBoot, table
  <2>2. RoundMode /\ bpc \in {"jump", "gone"}
    BY <1>1, <1>3, <2>1 DEF BootMode, RoundMode, InBoot
  <2>3. current_task = After(Turn) /\ Turn \in TaskIds
    <3>1. CASE flow = Boot
      BY <2>2, <3>1, Tasks DEF RoundMode, Turn, After
    <3>2. CASE flow # Boot
      BY <1>3, <2>1, <3>2, Names DEF Running, Turn, TypeOK
    <3> QED
      BY <3>1, <3>2
  <2>4. Turn' = current_task
    <3>1. CASE flow' = Boot
      <4>1. BootMode' /\ bpc' = "jump"
        BY <1>3, <2>1, <2>2, <3>1 DEF BootMode, RoundMode, InBoot
      <4> QED
        BY <2>1, <3>1, <4>1 DEF BootMode, Turn
    <3>2. CASE flow' # Boot
      BY <1>3, <2>1, <3>2, Names DEF Running, Turn, TypeOK
    <3> QED
      BY <3>1, <3>2
  <2>5. Turn' = (Turn + 1) % TASK_NUM
    BY <2>3, <2>4, Succ
  <2>6. Context(0)' = Context(0)
    <3>1. CASE bpc = "gone" \/ flow' # Boot
      BY <1>2, <2>1, <3>1 DEF ContextsSeen, Seen, KFrame, Slot
    <3>2. CASE bpc # "gone" /\ flow' = Boot
      <4>1. current_task = 0 /\ space[0] = 0 /\ sp[0] = "kstack"
        BY <2>1, <2>2, <2>4, <3>2, Tasks DEF RoundMode, Progress, Turn
      <4>2. NextFrame = frame[KFrame] /\ NextFrame # Garbage
        BY <2>1, <2>2, <3>2, <4>1, Slots, SlotFrames, Names, Tasks DEF NextFrame, RoundMode
      <4>3. regs' = Restored(NextFrame.saved, TimerPops, regs)
        BY <1>9, <4>2 DEF Resume
      <4>4. NextFrame \in Frames
        BY <4>2, SlotFrames DEF KFrame, TypeOK
      <4>5. Saved' = NextFrame.saved
        BY <4>3, <4>4, PopsUndoPushes, Stacked DEF Saved, Frames
      <4> QED
        BY <1>2, <2>1, <3>2, <4>2, <4>5 DEF ContextsSeen
    <3> QED
      BY <3>1, <3>2
  <2>7. UNCHANGED AllContexts
    BY <1>2, <2>1, <2>6, SameContexts
  <2> QED
    BY <1>4, <2>1, <2>5, <2>7 DEF RR!Next, RR!Dispatch, AllContexts
<1> QED
  BY <1>5, <1>6, <1>7, <1>8, <1>9 DEF Next, HandlerStep, Lost, RR!Next

\* ImplementsRoundRobin: unless a tick comes before current_task = 0
\* (sched.c:108), what lapic_intr_handler and schedule (sched.c:115-132) do is
\* to hand the machine from one task to the next, each with its own context.
THEOREM SchedImplementsRoundRobin == Spec => ImplementsRoundRobin
<1>1. Init => RR!Init
  BY RoundRobinInit
<1>2. IInv /\ IInv' /\ [Next]_vars => [RR!Next]_(RR!vars)
  BY RoundRobinStep
<1> QED
  BY <1>1, <1>2, Invariance, PTL DEF Spec, ImplementsRoundRobin, RR!Spec
=============================================================================
