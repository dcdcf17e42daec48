------------------------------- MODULE Sched -------------------------------
(***************************************************************************)
(* How the kernel of kadai10 starts its tasks and switches between them:   *)
(* the end of start() (kernel.c), init_intr (interrupt.c), init_tasks and  *)
(* schedule (sched.c), the handlers of interrupt_handler.S and the LAPIC   *)
(* timer that drives them (lapic_timer.c).                                 *)
(*                                                                         *)
(* One CPU runs one flow of control at a time: Boot (start() and what it   *)
(* calls), or a task.  Only the timer is concurrent with it.  Interrupts   *)
(* use the interrupted flow's own stack, and interrupt gates keep IF clear *)
(* until iretq, so nothing interrupts a handler; it has three steps here   *)
(* because the timer can tick between them.                                *)
(*                                                                         *)
(* A stack pointer is the stack it points into: "kstack" is start()'s, and *)
(* "ustack" is below 0x41000000; the memory behind each is what the page   *)
(* tables (Paging) make of it.  Nothing zeroes the kernel's .bss (the      *)
(* loader clears that of the image it loads last), so tasks[] and          *)
(* current_task start with what the memory held: a resume through such an  *)
(* sp or cr3 runs Wild.                                                    *)
(*                                                                         *)
(* A register holds <<owner, register, version>>: a task's computing flips *)
(* the version, the C code of a handler leaves the kernel's behind.  "r8"  *)
(* stands for r8..r15, which no handler saves.                             *)
(***************************************************************************)
EXTENDS Paging, Sequences

CONSTANTS
    Boot, Wild      \* the flows that are not tasks

ASSUME NamesAssumption == Boot \notin Nat /\ Wild \notin Nat /\ Boot # Wild

\* The pushes of both handlers, and the pops that undo them.  The last pop of
\* the system call handler goes to rbx again, so that rax keeps the result.
Pushes == <<"rax", "rbx", "rcx", "rdx", "rdi", "rsi", "rbp">>
TimerPops == <<"rbp", "rsi", "rdi", "rdx", "rcx", "rbx", "rax">>
SyscallPops == <<"rbp", "rsi", "rdi", "rdx", "rcx", "rbx", "rbx">>

Pushed == {Pushes[k] : k \in DOMAIN Pushes}

Regs == Pushed \union {"r8"}

VARIABLES
    flow,           \* who is running: Boot, a task or Wild
    bpc, idx,       \* where Boot is, and the task it is preparing
    hpc,            \* where the timer handler is, "none" outside it
    cr3, stack, iflag, regs,  \* the CPU: address space, rsp, RFLAGS.IF, registers
    frame,          \* frame[p]: the interrupt frame in page frame p
    sp, space,      \* tasks[i].sp and tasks[i].cr3
    current_task,
    armed, pending, inService,   \* the LAPIC timer: running, tick waiting, EOI due
    view,           \* history: the registers as each task left them
    tooEarly        \* history: a tick came before current_task was set

cpu == <<cr3, stack, iflag, regs>>
lapic == <<armed, pending, inService>>
table == <<sp, space, current_task>>
vars == <<flow, bpc, idx, hpc, cpu, frame, table, lapic, view, tooEarly>>

\* The page frame in which the top of a stack is, in address space c.
Slot(c, s) == Translate(c, IF s = "kstack" THEN KstackPage ELSE UstackPage)

StackFrames == {Slot(c, s) : c \in TaskIds \union {Kernel}, s \in {"kstack", "ustack"}}

\* What registers hold, and what an interrupt leaves on a stack.
Values == ({Boot, Kernel} \union TaskIds) \X Regs \X {0, 1}
RegFiles == [Regs -> Values]
Frames == [flow : TaskIds \union {Boot}, saved : [DOMAIN Pushes -> Values], if : BOOLEAN]

\* Garbage makes no frame that iretq could return to, and no stack.
ASSUME GarbageAssumption == Garbage \notin Frames \union {"kstack", "ustack"}

Fill(owner, version) == [r \in Regs |-> <<owner, r, version>>]

\* The registers that init_task puts into a new task's frame, all zero.
Zero == Fill(Kernel, 0)

Init ==
    /\ flow = Boot /\ bpc = "sti" /\ idx = 1 /\ hpc = "none"
    /\ cr3 = Kernel /\ stack = "kstack" /\ iflag = FALSE /\ regs = Fill(Boot, 0)
    /\ frame = [p \in StackFrames |-> Garbage]
    /\ sp = [i \in TaskIds |-> Garbage]
    /\ space = [i \in TaskIds |-> Garbage]
    /\ current_task \in TaskIds
    /\ armed = FALSE /\ pending = FALSE /\ inService = FALSE
    /\ view = [i \in TaskIds |-> Zero]
    /\ tooEarly = FALSE

-----------------------------------------------------------------------------
\* Boot, in the order of start().

BootGoto(from, to) ==
    /\ flow = Boot /\ hpc = "none"
    /\ bpc = from
    /\ bpc' = to

\* init_intr ends with sti.
EnableInterrupts ==
    /\ BootGoto("sti", "arm")
    /\ iflag' = TRUE
    /\ UNCHANGED <<flow, idx, hpc, cr3, stack, regs, frame, table, lapic, view, tooEarly>>

\* lapic_periodic_exec(1000, schedule): the periodic timer starts.
StartTimer ==
    /\ BootGoto("arm", "spaces")
    /\ armed' = TRUE
    /\ UNCHANGED <<flow, idx, hpc, cpu, frame, table, pending, inService, view, tooEarly>>

\* init_tasks: tasks[i].cr3 = task_cr3s[i]
SetSpaces ==
    /\ BootGoto("spaces", "enter")
    /\ space' = [i \in TaskIds |-> i]
    /\ UNCHANGED <<flow, idx, hpc, cpu, frame, sp, current_task, lapic, view, tooEarly>>

\* init_task(idx, ...): move into the task's address space.
EnterSpace ==
    /\ BootGoto("enter", "pushfq")
    /\ cr3' = space[idx]
    /\ UNCHANGED <<flow, idx, hpc, stack, iflag, regs, frame, table, lapic, view, tooEarly>>

\* The frame a new task is resumed from: interrupts as Boot has them (pushfq),
\* the entry point, and seven zeroes.
NewFrame == [flow |-> cr3, saved |-> [k \in DOMAIN Pushes |-> Zero[Pushes[k]]], if |-> iflag]

\* rsp is the new stack while pushfq runs.
PushFlags ==
    /\ BootGoto("pushfq", "frame")
    /\ stack' = "ustack"
    /\ UNCHANGED <<flow, idx, hpc, cr3, iflag, regs, frame, table, lapic, view, tooEarly>>

\* A slip for the mutant runs: an rflags of 0 in the new frame.
FillFrameZero ==
    /\ BootGoto("frame", "sp")
    /\ stack' = "kstack"
    /\ frame' = [frame EXCEPT ![Slot(cr3, "ustack")] = [NewFrame EXCEPT !.if = FALSE]]
    /\ UNCHANGED <<flow, idx, hpc, cr3, iflag, regs, table, lapic, view, tooEarly>>

\* Back on Boot's own stack, the rest of the frame is filled in, over what a
\* tick in between has left there.
FillFrame ==
    /\ BootGoto("frame", "sp")
    /\ stack' = "kstack"
    /\ frame' = [frame EXCEPT ![Slot(cr3, "ustack")] = NewFrame]
    /\ UNCHANGED <<flow, idx, hpc, cr3, iflag, regs, table, lapic, view, tooEarly>>

\* tasks[idx].sp = sp
SetSp ==
    /\ BootGoto("sp", "leave")
    /\ sp' = [sp EXCEPT ![idx] = "ustack"]
    /\ UNCHANGED <<flow, idx, hpc, cpu, frame, space, current_task, lapic, view, tooEarly>>

\* A slip for the mutant runs: the last task is forgotten.
LeaveSpaceEarly ==
    /\ BootGoto("leave", IF idx < TASK_NUM - 2 THEN "enter" ELSE "current")
    /\ idx' = IF idx < TASK_NUM - 2 THEN idx + 1 ELSE idx
    /\ cr3' = Kernel
    /\ UNCHANGED <<flow, hpc, stack, iflag, regs, frame, table, lapic, view, tooEarly>>

\* Back in the kernel's address space, on to the next task.
LeaveSpace ==
    /\ BootGoto("leave", IF idx < TASK_NUM - 1 THEN "enter" ELSE "current")
    /\ idx' = IF idx < TASK_NUM - 1 THEN idx + 1 ELSE idx
    /\ cr3' = Kernel
    /\ UNCHANGED <<flow, hpc, stack, iflag, regs, frame, table, lapic, view, tooEarly>>

\* current_task = 0
SetCurrent ==
    /\ BootGoto("current", "jump")
    /\ current_task' = 0
    /\ UNCHANGED <<flow, idx, hpc, cpu, frame, sp, space, lapic, view, tooEarly>>

\* Task 0 starts on Boot's stack, with Boot's registers, in its own space.
JumpToTask0 ==
    /\ BootGoto("jump", "gone")
    /\ cr3' = space[0]
    /\ flow' = 0
    /\ view' = [view EXCEPT ![0] = regs]
    /\ UNCHANGED <<idx, hpc, stack, iflag, regs, frame, table, lapic, tooEarly>>

BootStep ==
    \/ EnableInterrupts \/ StartTimer \/ SetSpaces
    \/ EnterSpace \/ PushFlags \/ FillFrame \/ SetSp \/ LeaveSpace
    \/ SetCurrent \/ JumpToTask0

-----------------------------------------------------------------------------
\* The values on the stack after the pushes, and the registers after the pops:
\* a register popped twice keeps the later value, one not popped what it has.
Saved == [k \in DOMAIN Pushes |-> regs[Pushes[k]]]

Restored(saved, pops, now) ==
    [r \in Regs |->
        LET at == {k \in DOMAIN pops : pops[k] = r}
        IN  IF at = {} THEN now[r]
            ELSE saved[Len(pops) + 1 - (CHOOSE k \in at : \A j \in at : j <= k)]]

\* A task computes.
Compute(i) ==
    /\ flow = i /\ hpc = "none"
    /\ regs' = LET v == IF regs = Fill(i, 0) THEN 1 ELSE 0 IN Fill(i, v)
    /\ view' = [view EXCEPT ![i] = regs']
    /\ UNCHANGED <<flow, bpc, idx, hpc, cr3, stack, iflag, frame, table, lapic, tooEarly>>

\* The registers when syscall_handler_internal returns the 0 of syscall_puts.
AfterSyscall == [Fill(Kernel, 1) EXCEPT !["rax"] = Zero["rax"]]

\* A task calls puts: int 0x80 runs to its iretq with IF clear.
Syscall(i) ==
    /\ flow = i /\ hpc = "none"
    /\ regs' = Restored(Saved, SyscallPops, AfterSyscall)
    /\ view' = [view EXCEPT ![i] = regs']
    /\ UNCHANGED <<flow, bpc, idx, hpc, cr3, stack, iflag, frame, table, lapic, tooEarly>>

-----------------------------------------------------------------------------
\* The timer counts down to 0; a tick that is still waiting absorbs the next.
Tick ==
    /\ armed /\ ~pending
    /\ pending' = TRUE
    /\ UNCHANGED <<flow, bpc, idx, hpc, cpu, frame, table, armed, inService, view, tooEarly>>

\* lapic_intr_handler is entered: the frame and the registers go onto the
\* stack of whoever was running, and C code takes the registers over.
Interrupt ==
    /\ pending /\ iflag /\ ~inService /\ hpc = "none" /\ flow # Wild
    /\ hpc' = "save"
    /\ pending' = FALSE /\ inService' = TRUE
    /\ iflag' = FALSE
    /\ frame' = [frame EXCEPT ![Slot(cr3, stack)] = [flow |-> flow, saved |-> Saved, if |-> TRUE]]
    /\ regs' = Fill(Kernel, 1)
    /\ tooEarly' = (tooEarly \/ (flow = Boot /\ bpc # "jump"))
    /\ UNCHANGED <<flow, bpc, idx, cr3, stack, table, armed, view>>

\* A slip for the mutant runs: a task index that is not wrapped.
SaveAndAdvanceUnwrapped ==
    /\ hpc = "save" /\ hpc' = "eoi"
    /\ sp' = [sp EXCEPT ![current_task] = stack]
    /\ current_task' = current_task + 1
    /\ UNCHANGED <<flow, bpc, idx, cpu, frame, space, lapic, view, tooEarly>>

\* A slip for the mutant runs: the next task is chosen first.
AdvanceAndSave ==
    /\ hpc = "save" /\ hpc' = "eoi"
    /\ current_task' = (current_task + 1) % TASK_NUM
    /\ sp' = [sp EXCEPT ![current_task'] = stack]
    /\ UNCHANGED <<flow, bpc, idx, cpu, frame, space, lapic, view, tooEarly>>

\* schedule: keep the interrupted sp and choose the next task.
SaveAndAdvance ==
    /\ hpc = "save" /\ hpc' = "eoi"
    /\ sp' = [sp EXCEPT ![current_task] = stack]
    /\ current_task' = (current_task + 1) % TASK_NUM
    /\ UNCHANGED <<flow, bpc, idx, cpu, frame, space, lapic, view, tooEarly>>

\* schedule: lapic_set_eoi().  The call after reserved_callback in
\* lapic_intr_handler_internal is never reached.
EndOfInterrupt ==
    /\ hpc = "eoi" /\ hpc' = "resume"
    /\ inService' = FALSE
    /\ UNCHANGED <<flow, bpc, idx, cpu, frame, table, armed, pending, view, tooEarly>>

\* The frame that the next task's sp points to in the next task's space.
NextFrame ==
    LET p == Slot(space[current_task], sp[current_task])
    IN  IF sp[current_task] # Garbage /\ p # Garbage THEN frame[p] ELSE Garbage

\* A slip for the mutant runs: the old address space is kept.
ResumeHere ==
    /\ hpc = "resume" /\ hpc' = "none"
    /\ IF NextFrame = Garbage
       THEN flow' = Wild /\ UNCHANGED cpu
       ELSE /\ flow' = NextFrame.flow
            /\ stack' = sp[current_task]
            /\ UNCHANGED cr3
            /\ regs' = Restored(NextFrame.saved, TimerPops, regs)
            /\ iflag' = NextFrame.if
    /\ UNCHANGED <<bpc, idx, frame, table, lapic, view, tooEarly>>

\* schedule: load rsp and cr3, pop the registers, iretq.
Resume ==
    /\ hpc = "resume" /\ hpc' = "none"
    /\ IF NextFrame = Garbage
       THEN flow' = Wild /\ UNCHANGED cpu
       ELSE /\ flow' = NextFrame.flow
            /\ stack' = sp[current_task]
            /\ cr3' = space[current_task]
            /\ regs' = Restored(NextFrame.saved, TimerPops, regs)
            /\ iflag' = NextFrame.if
    /\ UNCHANGED <<bpc, idx, frame, table, lapic, view, tooEarly>>

HandlerStep == Interrupt \/ SaveAndAdvance \/ EndOfInterrupt \/ Resume

\* Nothing is known of what a wild CPU does.
Lost == flow = Wild /\ UNCHANGED vars

Next ==
    \/ BootStep
    \/ Tick
    \/ HandlerStep
    \/ \E i \in TaskIds : Compute(i) \/ Syscall(i)
    \/ Lost

Spec == Init /\ [][Next]_vars

\* The CPU keeps executing and the timer keeps ticking.  A period is a second,
\* so Boot, when it is resumed again and again, gets on: strong fairness.
FairSpec == Spec /\ SF_vars(BootStep) /\ WF_vars(Tick) /\ WF_vars(HandlerStep)

-----------------------------------------------------------------------------
\* Type invariant.
TypeOK ==
    /\ flow \in TaskIds \union {Boot, Wild}
    /\ idx \in 1 .. TASK_NUM - 1
    /\ hpc \in {"none", "save", "eoi", "resume"}
    /\ bpc \in {"sti", "arm", "spaces", "enter", "pushfq", "frame", "sp", "leave", "current",
                "jump", "gone"}
    /\ cr3 \in TaskIds \union {Kernel}
    /\ stack \in {"kstack", "ustack"}
    /\ iflag \in BOOLEAN /\ armed \in BOOLEAN /\ pending \in BOOLEAN /\ inService \in BOOLEAN
    /\ tooEarly \in BOOLEAN
    /\ regs \in RegFiles
    /\ frame \in [StackFrames -> Frames \union {Garbage}]
    /\ sp \in [TaskIds -> {"kstack", "ustack", Garbage}]
    /\ space \in [TaskIds -> TaskIds \union {Garbage}]
    /\ current_task \in TaskIds
    /\ view \in [TaskIds -> RegFiles]

\* Whenever a task runs, it runs in its own address space and finds the seven
\* saved registers as it left them, however often it has been preempted.  (Of
\* r8..r15 this is false: any preemption loses them.)
ContextKept ==
    flow \in TaskIds /\ hpc = "none" => cr3 = flow /\ \A r \in Pushed : regs[r] = view[flow][r]

\* The CPU can only be lost to a tick that comes before init_tasks has set
\* current_task: interrupts are on and the timer runs well before that.  A
\* tick between that point and the jump to task 0 does no harm.
WildOnlyIfTooEarly == flow = Wild => tooEarly

\* The task whose turn it is, until iretq; start() is what becomes task 0.
Turn == IF flow = Boot THEN 0 ELSE flow

\* Task i's context, the seven registers: in the CPU, on the stack that the
\* handler has been entered on, or where the task's sp and cr3 say.
FrameAt(c, s) == IF c = Garbage \/ s = Garbage THEN Garbage ELSE frame[Slot(c, s)]

FrameOf(i) == IF hpc = "save" /\ i = Turn THEN FrameAt(cr3, stack) ELSE FrameAt(space[i], sp[i])

ZeroContext == [k \in DOMAIN Pushes |-> Zero[Pushes[k]]]

Context(i) ==
    IF hpc = "none" /\ i = Turn THEN Saved
    ELSE IF FrameOf(i) = Garbage THEN ZeroContext ELSE FrameOf(i).saved

RR == INSTANCE RoundRobin WITH
    Fresh <- ZeroContext,
    turn <- Turn,
    running <- (hpc = "none"),
    context <- [i \in TaskIds |-> Context(i)],
    broken <- tooEarly

\* Unless a tick comes too early, the machine is a round-robin one: the tasks
\* take turns, start() begins as task 0, and from one turn to the next a task's
\* context is its own, whatever happens to the CPU, the stacks and the tables.
ImplementsRoundRobin == RR!Spec

\* Round robin: every task gets the CPU again and again.
EveryTaskRuns ==
    \A i \in TaskIds : []<>(flow = Wild \/ (flow = i /\ hpc = "none"))

\* "Save Registers" (interrupt_handler.S:23): a system call returns to the task
\* with the registers it was made with, but for the result in rax.
SyscallSavesRegisters ==
    [][\A i \in TaskIds : Syscall(i) => \A r \in Regs \ {"rax"} : regs'[r] = regs[r]]_vars
=============================================================================
