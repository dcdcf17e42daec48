# A verification project for the Syspro exercises

This directory holds TLA+ models of the concurrent and interrupt-driven programs of the
repository, TLC configurations that check them on small instances, and TLAPS proofs of
their main invariants for every instance. The repository is a course's worth of separate
C programs (`kadai1` .. `kadai10`), not one system. What they share is their subject:
threads, signals, processes, sockets and, in `kadai8`..`kadai10`, a small kernel.

Paths below are relative to `src/`.

## 1. Inventory

### Bounded buffer (`kadai3/report3/kadai-c/bb.c`, `main.c`)

* State: an array of 10 slots, the count `num`, one mutex, one condition variable.
* Operations: `bb_get`, `bb_put`. Six threads of `main.c`, three that put and three that
  get, share 10 000 calls of each kind.
* Hard: both kinds wait on the same condition variable and each call signals once;
  spurious wake-ups; a get and a put change `num` and the slots in separate statements.
* Correct when: no wake-up is lost or reaches only threads that cannot use it, items
  come out once and in order, `num` stays in range, every call returns.

### Concurrent binary tree (`kadai3/report3/kadai-b/btree.c`, `main.c`)

* State: the links of the nodes, one mutex. Operation: `btree_insert`, by eight threads;
  `btree_dump` after they are joined.
* Hard: links are read without the mutex and checked again under it; the check on the
  left branch (line 37) is at the wrong link.
* Correct when: a set link is never changed, no node is lost, every insertion ends, and
  the dump prints every value in order.

### Kernel (`kadai10/report10/kernel`)

* Tasks and scheduler (`sched.c`, `interrupt_handler.S`): `tasks[]`, `current_task`, the
  CPU's registers, `rsp`, `cr3` and `RFLAGS.IF`, one stack per address space.
  Operations: `init_tasks`, `schedule`, `int 0x80`.
* Interrupts and timers (`interrupt.c`, `lapic_timer.c`, `pm_timer.c`): the IDT, the
  periodic LAPIC timer, EOI, and waiting on the ACPI counter, by which the LAPIC timer
  is calibrated.
* Memory (`memory.c`): the page tables of each application and the kernel.
* Console (`util.c`): the cursor and the frame buffer.
* Interaction: the timer interrupts whoever runs, including `start()` while it builds
  the tasks, and the handler switches stacks and page tables.
* Hard: the order of set-up against the first tick; stacks with the same address in
  different spaces; the handler never returns to its caller; counters that wrap, or run
  out, while the kernel polls them at uneven times.
* Correct when: a resumed task finds its address space and registers as it left them,
  every task runs again and again, no tick meets half-built state, applications share no
  frame, and a wait takes the time it names.

### Boot loader (`kadai10/report10/bootloader`) and applications (`apps`)

Firmware calls and copies in one flow of control. The applications print through `int
0x80` in a loop.

### Shell with job control (`kadai6/report6/kadai6_test/kadai-bcde/main.c`)

* State: the list of background jobs, the list of suspended jobs, the signal mask, the
  terminal's foreground group; in the kernel, the jobs' processes and the pending
  SIGCHLD.
* Operations: run a job in the foreground or background, `bg n`, `fg n`, `exit`; the
  SIGCHLD handler; the terminal's Ctrl-C and Ctrl-Z.
* Hard: the handler interrupts the main flow anywhere, including its waits; SIGCHLD
  signals are merged; a job may end before it is entered in the list; a job may be
  entered twice.
* Correct when: jobs that end are reaped, the terminal returns to the shell, a stopped
  job can be continued, and the shell gets back to its prompt.

`parser/parse.c` turns a line into a job. `kadai6_test/report6` and `*_cpy` are other
copies of the shell.

### A line of programs (`kadai5/report5/kadai-bcde/main.c`, and `piperec` and `dojob` of kadai6)

* State: the processes of a line, the pipes between them and who has which end open, the
  redirection; in kadai6 what Ctrl-Z has stopped.
* Operations: `dojob`, `piperec` in each process, the shell's wait, Ctrl-Z and `fg`.
* Hard: a process makes its pipe and forks the program before it, so that ends are
  inherited down the line; a program may not exist, may end early, or never; a stop or a
  continue reaches the group or the leader alone.
* Correct when: the output is what the line means, the shell gets back to its prompt,
  and no process is left behind.

### Network programs (`kadai4/report4`)

* TCP echo (b): a client that sends its input in blocks of 256 bytes and receives once
  for each; a server of 50 threads, each serving one connection after another; a server
  that is one loop over edge-triggered epoll events. State: the bytes of each connection
  under way in either direction, the threads, epoll's ready list and the events in hand.
  Hard: receives that return part of a block; edges; a closing that arrives with data; a
  reset that brings the server down with all its connections. Correct when: a client's
  output is its input, clients come to an end, and the server keeps no connection whose
  client has left.
* UDP echo (a), one-way throughput (c), two-way throughput with two threads and a flag
  on each side of a socket (d).

### The rest

`kadai2`: `mycp`, `mywc`, `myls_l` (read loops over short reads) and measurements.
`kadai3` a and d: the tree without the mutex, and `clone` with a `sleep` for a join.
`kadai1`: build exercises, and GNU coreutils 8.9 as data for one of them (third-party).
`kadai8` and `kadai9`: earlier stages of the kernel.

`PROJECT.json` lists each component with its status, and every hazard at its line.

## 2. Plan

The order follows what concurrency makes hardest to test.

| | modules | state |
|---|---|---|
| 1 | `BoundedFifo` (abstract), `BoundedBuffer`, `BoundedBufferProofs` | done |
| 2 | `BTree`, `BTreeProofs` | done |
| 3 | `RoundRobin` (abstract), `Sched`, `SchedProofs` | done |
| 4 | `Ish`, `IshProofs` | done |
| 5 | `TcpEcho`, `TcpEchoProofs`: clients and a server of either kind over the byte streams between them | done |
| 6 | `PmTimer`, `PmTimerProofs`: the wait loop on a counter of either width, and the calibration that rests on it | done |
| 7 | `Paging`, `PagingProofs`: `init_virtual_memory` as a function, and who shares what | done; composed with `Sched` |
| 8 | `Pipeline`, `PipelineProofs`: the processes and pipes of one line, with a stop and `fg` | done |
| 9 | `Duplex` (iperf), `Console`, `CopyLoop` | not planned any more, see section 6 |

`BoundedBuffer` refines `BoundedFifo`, and `Sched` refines `RoundRobin`. `Sched` extends
`Paging`: every access to a stack goes through `Translate`, so that an application's
stack is at one address and in different memory in each space. `Ish` and `Pipeline`
model the same shell from two sides: `Ish` has several jobs of one process each, and
`Pipeline` one job of several processes. They meet in the job's leader, which is the
shell's child and the only process whose end or stop the shell sees.

Theorems worth proving: the invariants that hold for any number of threads, jobs or
tasks (all safety properties of the passing runs), and the two refinements. Left for
later: an abstract job control that `Ish` refines, and a variant for the walks of
`BTree`.

## 3. Modules and what their runs show

Mutated forms of definitions (`TakeYoungest`, `BlockForgotten`, ...) stand beside the
definition they are a slip of. No specification uses them; each property is checked to
fail under one of them.

### `BoundedFifo`, `BoundedBuffer`, `MCBoundedBuffer`

A step of `BoundedBuffer` is what a thread does between two points at which another
thread can act or look. `pc[t]` is the thread's place in its call:

| pc | code |
|---|---|
| `lock` | before `pthread_mutex_lock`, or inside `pthread_cond_wait` |
| `test` | at `if`/`while` on `num` |
| `copy` | `num` has changed, the slots have not |
| `signal`, `unlock` | before these calls |
| `done` | after the thread's last call |

`sleeping` is the set of threads blocked on `cond`. `Signal` removes any one of them,
and `SpuriousWakeup` (POSIX allows it, at most `MaxSpurious` times here) too. The fast
path of each operation and what follows its wait loop are the same statements, hence the
same actions. The single-threaded check at the start of `main` (`main.c:57-61`) uses the
same operations and is not modelled apart. Items carry their putter and a number, where
`main.c` puts the value 1, so that loss and duplication can be told.

`BoundedFifo` is what callers rely on: atomic `Put` and `Get` on a bounded queue. The
refinement mapping (`Fifo` in `BoundedBuffer`) counts a get from its `Take` on and a put
from its `Store` on; the other steps stutter.

Run **bounded_buffer** (295 366 states): three putters and three getters as in `main.c`,
3 slots instead of 10, 5 items, one spurious wake-up. `CapacityAssumption` (neither kind
outnumbers the slots) is what `main.c` satisfies with 3 <= 10, and 3 slots are its
tightest case. `OneKindSleeps` depends on it: with more putters than slots both kinds
can sleep at once. `NeverStuck` depends on `BalanceAssumption` (as many gets as puts, 10
000 of each in `main.c`): some thread can always move, even if spurious wake-ups never
come. `EveryCallReturns` is under weak fairness of each thread: the kernel runs every
runnable thread; nothing is assumed about who gets the mutex or which sleeper a signal
wakes.

### `BTree`, `MCBTree`

One step per access to a link or mutex call. As compiled (`-O2`) each link is read once
per visit and a node is filled in before it is hung (stores are not reordered on x86),
so a node is its value and `btree_create` is part of `Link`. `Recheck` is the second
look under the mutex, at `pos->right` on both branches, as in the code. Each thread
inserts a share of the values of its own (`Share`), as `i % 8` does in `main.c`. The
history variable `cut` records what a left link led to before it was set a second time.

Run **btree** (18 308 states): three threads, values 1..6. Two threads can race for one
link while a third walks through it, and the shares start with 3, 1 and 2, so that both
branches race at the root's child. What survives line 37: right links are stable,
insertions end, what is below a left link is smaller, and a node is lost only below an
overwritten left link (`LostOnlyLeft`). The last is what the mutex and the second look
are there for, on the right branch: it fails if the second look is left out, and also if
the mutex is given back between that look and the new link (`RecheckUnlocks`). Run
**btree_lost**: `NoNodeLost` is violated through line 37. Fairness: each thread that can
move does.

### `RoundRobin`, `Sched`

The flow of control is `Boot` (`start()` from `init_intr` on), a task, or `Wild` (the
CPU has returned through garbage). Only the timer is concurrent. A stack pointer is the
stack it points into, `"kstack"` or `"ustack"`, and the memory behind it is the frame
that `Translate` (`Paging`) gives for that stack's page under the current `cr3`
(`Slot`); so loading `rsp` and `cr3` in `Resume` picks a frame exactly as the hardware
does, and a wrong or stale `cr3` shows up as another task's frame. A register holds a
token naming its owner and version, and the handlers' pushes and pops are tuples of
register names, in the order of the assembly; `"r8"` stands for `r8`..`r15`, which no
handler saves. `view[i]` records what task `i` left in the registers.

`RoundRobin` is what a task may rely on. One task runs and changes its own context
(registers, stack and page tables); a tick puts it aside; the next in the order 0, 1, 2,
0 is dispatched, and neither touches any context. The mapping (`RR` and `Context` in
`Sched`) looks for a context where the code has it: in the CPU while the task runs,
behind the stack on which the handler was entered until `schedule` stores `sp`, and from
then on where `sp` and `cr3` in `tasks[]` lead. `start()` counts as task 0, whose place
it takes. The promise ends (`broken`) with a tick that comes too early.

Assumptions: `lapic_timer_freq_khz` is not 0 (otherwise `lapic_periodic_exec` returns
and nothing is scheduled); the loader zeroes only the `.bss` of the image it loads last,
so `tasks[]` and `current_task` start arbitrary; the 128 bytes below `rsp` that
unoptimised leaf functions use are not modelled; `start()`'s own `int 0x80` before the
timer is armed changes none of the modelled state.

Run **sched** (86 292 states, `TASK_NUM` = 3 as in `sched.h`): the timer may tick at any
moment once armed. `ContextKept` is the purpose of the context switch; it is about the
seven registers that are saved, since any preemption loses the others.
`WildOnlyIfTooEarly` says exactly how early is too early: a tick is harmless from
`current_task = 0` on, even before the jump to task 0. In the real program the period is
a second and `init_tasks` takes far less, which nothing enforces. `ImplementsRoundRobin`
is the refinement, the seven saved registers being the context. `EveryTaskRuns` is round
robin without starvation. Fairness: the CPU executes and the timer ticks (weak), and
`BootStep` is strongly fair, because a resumed `start()` has a whole period to advance
in. Run **sched_syscall**: `interrupt_handler.S:44-45` pops `rbx` twice, and a system
call returns with the caller's `rax` in `rbx`. `ContextKept` compares with the registers
as the task last left them and is about preemption only.

### `Ish`

The shell's main flow is at `spc` with the job `cur` in hand; the handler (`hpc`,
`hjob`) runs on top of it and the main flow waits (`At`). A job is the single child the
shell forks, and stands for its process id and its group; the processes of a pipeline
below it are not modelled. `st[j]` is the process as the kernel sees it:

| st | meaning |
|---|---|
| `forked`, `run` | before and after `setpgid` |
| `stopping`, `stopped` | stopped, and the stop not yet or already reported by `waitpid` |
| `cont` | SIGCONT sent, SIGCHLD for it not yet |
| `zombie`, `gone` | ended, and waited for |

`pend` is the pending SIGCHLD with its first sender's pid; a second one is merged into
it. `Deliver` also interrupts a `waitpid` that blocks (no `SA_RESTART`), unless the main
flow had not reached it yet; and as the code then reads a `status` that was never
written, `WaitInterrupted` and `FgFails` go either way. Four history variables record
the exceptions the properties make: `missed` (an end no handler call acted on),
`swallowed` (the handler's `waitpid` took a job's stop), `abandoned` (a foreground wait
was interrupted), and `misentered` (entered as suspended twice, or without having
stopped).

Left out: reuse of process ids; the jobs' fate after the shell is gone; Ctrl-C in the
moment in which `set_foreground_signal` has made SIGINT fatal for the shell itself (`Fg`
gives the terminal away in one step); a child's and parent's order around `fork` is
modelled, but `fork` and the preceding `set_ish_signal` are one step. `bg` is four steps
(`Block`, `Link`, `BgContinue`, `BgDrop`), because SIGCHLD is unblocked between its
`kill` (line 229) and `destruct_suspended` (line 230): the job may stop again there, the
handler's `waitpid` may report that, and then line 230 drops the entry of a stopped job.

Run **ish** (318 790 states): two jobs, each foreground or background, and at most 3
`fg`/`bg` commands (`MaxResumes`). Merging a signal, interrupting a wait and
handler-on-top-of-append each involve two jobs; entering a job twice and then resuming
it through the stale entry takes three resumes. (Three jobs with one resume, 1.6 million
states, show the same.) Fairness: the shell's and the handler's steps, and the jobs'
set-up and continuing, are weakly fair, as is `End`: `PromptReturns` is about jobs that
come to an end. Its safety side is `StuckOnlyIfMisentered`: the `waitpid`s of the main
flow, of `fg` and of the handler do not compete for a process, so each of them has one
that can still end. The user need not type. `JobsAreKept` follows each job that lives
through the lists and the hands of the main flow and the handler: one that is in neither
can be neither reaped nor continued, and the property names the two ways in which that
happens, `abandoned` and `swallowed`. That a job is otherwise never lost depends on
`bg`'s order, the background list first, and on the mask. The runs **ish_zombie** and
**ish_handler** show two disagreements with what the tests and the report say (section
5).

### `TcpEcho`

TCP keeps the order of bytes and the server sends what it has received, so a connection
is four counters, `sent[c] >= arrived[c] >= got[c] >= back[c]`: of the client's input
sent, arrived at the server, received (and sent back) by it, and received back by the
client. A client's output is the first `back[c]` bytes of its input.

| state | code |
|---|---|
| `cpc[c]`, `readsize[c]` | the client between its calls; at `last` it waits for the echo of the block that was not full, and leaves the loop |
| `conn[c]` | the connection as its server has it: `queued` in the backlog, `open`, or closed with (`rst`) or without (`fin`) bytes unread |
| `ends[c]` | what has arrived of the client's closing: `fin`, and `rst` if it left with an echo unread |
| `ready`, `batch` | epoll's ready list, and the part of `events[]` from the current one on |

`kind` chooses the server in `Init`: both share the sockets and differ in
`ThreadAccept`, `ThreadEcho` on one side and `EpollWait`, `AcceptEvent`, `UseFd` on the
other. A server's `recv` and the `send` after it are one step, as nothing else touches
that connection at that end. Of the kernel's behaviour the model takes: `connect`
succeeds before `accept`; a `recv` of 0 bytes still waits until something has arrived;
`EPOLL_CTL_ADD` puts what is readable on the ready list; closing with unread bytes sends
a reset; and a `send` to a reset connection ends the program, by `exit(1)` or SIGPIPE.
Left out: full socket buffers (a block is 256 bytes, and one is under way per client at
a time), the limits of the backlog and of 10 events per wait.

Run **tcp_echo** (57 801 states): two clients, `bufsize` 2, inputs of 3 and 4 bytes (a
short last block, and an empty one), one thread, so that the second client has to queue
for it. Blocks arrive in pieces, so each receive of either end may be short.
`RightIfWhole` says when the programs are right, and `DownOnlyByReset` what may bring
the server down; in particular no edge leads to a `recv` that finds nothing.
`LeavingIsNoticed` is about closings, which may come in one event with data: a client's
leaving is read, or there is still an event or a thread by which it will be.
`UnreadIsNotWaitedFor` is about the edge-triggered loop, which receives once per event:
what it leaves behind is never what its client waits for. The two liveness properties
are under weak fairness of each client, connection and server: processes run and the
network delivers. `EveryClientEnds` excepts the client whose input ends with a full
block (section 5), and, on the server with threads, those that need its thread.

### `PmTimer`

One tick of the ACPI counter is the unit of time. The kernel's steps (`Measure`,
`BeginWait`, `Poll`, ...) are each one read of a counter and what is done with it;
between two of them the hardware makes up to `MaxLag` ticks, so polls may skip values.
The LAPIC's count goes down by `speed` in each tick and stays at 0. `flags` is the
FADT's word as far as it matters: the bit that says that the counter has 32 bits
(`ext`), the value 1 which the code takes for it (`one`), or neither; so `HwMod` and
`mod` may differ. `elapsed` is what the properties compare with.

Run **pm_timer** (593 614 states): widths of 4 and 5 bits for 24 and 32, 6 ticks in a
"second" of 4 "milliseconds", any position in the turn at the start, up to 3 ticks
between steps, and waits of 4, whose product fits its word, and of 6, whose product
wraps (in the program, from 1200 ms on; its one caller waits for 1000). `NeverEarly`
compares the time that has passed with the milliseconds asked for (`Ticks`), and names
the two ways in which the loop does end too early: the product of line 40 has wrapped
(`ProductFits`), or the target is the wrap itself, where a first poll in the same tick
as the start ends the wait. `OnTime` is the bound on the other side, for both widths,
relative to the target that the kernel has computed; it says what the loop needs, that a
poll falls between the target and the wrap. `PeriodLongEnough` carries this through the
division and the product to the scheduler's period, wherever the LAPIC's count lasts for
the wait (`CountLasts`: 2^32 - 1 do, for a second, up to 4 GHz; at speed 4 of the run
they do not, and the period comes out too short). `CalibrationEnds` is under weak
fairness of the counter and the kernel. Run **pm_timer_wrap**: a target past the wrap is
never reached (section 5).

### `Paging`

No state: `Translate(c, p)` is the frame of page `p` under the page tables of task `c`,
from the loops of `init_virtual_memory` as they leave the tables. Entries of which the
code sets only the present bit are `Garbage`. It keeps the real page numbers. The order
of the stores matters in one place: `PDs[i][0..7]` are set twice, and the second loop
leads all of them to the first page table. It is used by `Sched` and proved about in
`PagingProofs`.

One thing is assumed. `memory.c` clears the bit `huge_page` in the PML4s and the page
tables, but in no entry of `PDPs`, `PDs`, `io_PD` and `kernel_PD`, and the other flag
bits (user, caching, no-execute) nowhere; and the kernel's `.bss` is not zeroed
(`bootloader.c:186`). `Translate` takes these bits as 0. A 1 would make an entry a page
of 1 GiB or 2 MiB, or a fault. The theorems `SpacesDisjoint` and `KernelShared`, and
`Sched` with its proofs, rest on this.

### `Pipeline`

Process `last` is the shell's child; each other process is the child of the one after
it. `pc[i]` is where process `i` is on its way through `piperec`:

| pc | code |
|---|---|
| `born` | before `dojob`'s `open`, or at the head of `piperec` |
| `forked` | has made pipe `i` and forked process `i-1`, and not yet closed its own write end |
| `run` | `execvp` has succeeded |
| `waiting` | `execvp` has failed: at `waitpid`, with the read end open |

The leader of a line that kadai6 runs has taken the terminal once `terminal` is TRUE,
with `pc` still `born`; `pipe` and `fork` are then one step (`Begin`), as is each
`close`, `dup2` and `execvp` sequence (`Exec`). A program is one of five that make lines
behave differently: a source that ends or does not, a filter that copies, one that ends
early (`head`), and one that cannot be executed. `Writers(i)` is who has pipe `i` open
for writing: every process upstream of it, by inheritance, and its maker until it closes
its end. `Write` without a reader is SIGPIPE. `Flow` is what a line means, as a function
of its programs.

Run **pipeline** (50 708 states): all lines of up to four programs over pipes of two
items, with sources of three, so that a pipe fills up; the output's `open` may fail;
Ctrl-Z is pressed at most once, at any step from the leader's `tcsetpgrp`
(`TakeTerminal`) to its end, and `fg` may follow. Four programs are the fewest that have
a pipe neither of whose ends is at an end of the line and a process two forks away from
it. `LineEnds` and `LeftoversEnd` are under weak fairness of each process and of the
shell's return, and name the exceptions: lines without an end, a program that is missing
behind more data than a pipe holds, a leader caught by Ctrl-Z on its way to its program,
and processes that `fg` does not continue. TLC's deadlock check is off because these
lines do stop; `JamsOnlyIfUnread` takes its place: with no process stopped and no output
missing, the processes of a line block each other only around a program that is missing
in front of a pipe that is full.

## 4. Proofs

All are checked by `tlapm` for every value of the constants that satisfies the named
assumptions. Each module's main invariant is inductive, and `PROJECT.json` lists the
theorems.

* `BoundedBufferProofs`. `TypeInv` strengthens `TypeOK` with who holds the mutex
  (`MutexInv`), that sleepers are at `lock`, and which slots hold items halfway through
  a call. `NoLostWakeup` and `OneKindSleeps` are inductive only together (`WakeInv`): a
  put keeps `NoLostWakeup` because its signal reaches a getter, which is
  `OneKindSleeps`; and a getter that goes to sleep keeps `OneKindSleeps` because a
  putter asleep at an empty buffer would need all the putters awake. This is where
  `CapacityAssumption` is used. `NeverStuckEver`: if nothing could move, the mutex would
  be free and each thread asleep or done (`StuckShape`), all sleepers of one kind; but a
  getter then finds more calls of `put` to come than of `get` (`CountInv`,
  `BalanceAssumption`), and the reverse (`StuckImpossible`). `BufferImplementsFifo` maps
  each step to one of `BoundedFifo` or a stutter, and `ItemsConservedAlways` follows
  from it, so that no run checks it apart: that each item is in one place is a property
  of the abstract queue (`Once`, kept by `FifoStep`), which the mapping carries over.
* `BTreeProofs`. `RightLinksStableAlways`: a thread between a recheck and its link holds
  the mutex and has seen the right link empty. `LeftIsSmallerAlways` rests on
  `ShapeInv`. What a thread has yet to hang nobody has met (`FreshInv`), so that `Link`
  hangs a new leaf, even when it overwrites a left link; and a thread on the left of a
  node inserts something smaller than it (`WalkInv`), even where line 37 has sent it to
  the right further down. "Below" is the least set that leaves out no child (`Subtree`),
  and the lemmas on `Hull` say what one new leaf does to it. `LostOnlyLeftAlways` needs
  that threads walk only where nodes are not lost, or below `cut` (`ReachInv`): what
  they hang is then there too, and nothing else is taken from there, because by
  `LinkInv` a right link that is set was empty, and what a left link is taken from
  enters `cut`. That no two nodes are one follows from `ShareAssumption`, by counting
  (`SharesOnce`).
* `PagingProofs`. `AppTranslation` computes the frame of any page of an application;
  from it, `SpacesDisjoint` (two pages share a frame exactly if they belong to one
  application and lie a multiple of 2 MiB apart) and `KernelShared` (the kernel, the
  mapped part of the frame buffer and the LAPIC are at the same frames under every
  `cr3`). They are what `SchedProofs` rests on: a task's stack is in a frame of its own,
  and `start()` finds its own stack in any space.
* `SchedProofs`, for `TASK_NUM` 2 and 3 (the tables of `memory.c` have room for three).
  A boot is in one of three modes: `start()` is still running or back at its end
  (`BootMode`); the tasks go round, with `start()` in the place of task 0 until it jumps
  (`RoundMode`); or a tick came too early, `start()` has been left in another's place,
  and the tasks only run up to the last one (`DoomedMode`). `ContextKept` holds in all
  three, since what is in a task's frame is what it left in the registers (`Matches`);
  that `Wild` is entered from the last mode only is `WildOnlyIfTooEarly`.
  `SchedImplementsRoundRobin`: in the first two modes no context gets lost between the
  places in which the mapping looks for it (`ContextsSeen`), so that `Interrupt` is a
  preemption, `Resume` a dispatch, a task's own step a step of its context, and every
  other step a stutter.
* `IshProofs`. `AppendNeverDisturbed`: the mask keeps the handler away for as long as
  the main flow holds an end of the list. `PromptOwnsTerminalAlways` and
  `ZombieOnlyIfMissedAlways`, by an invariant that says where the main flow, the handler
  and the terminal can be together. `TypeCorrect` needs `InHand`, that the entry which
  `bg` is about to drop stays where it is while the handler works on the other list;
  `JobsAreKeptAlways` is inductive with `Handed`: when `bg` drops a job's entry (line
  230), the job is in the background list, or the handler has taken it from there and is
  waiting for it, or it is one of the exceptions. What the lists of the code do is in
  lemmas on sequences. `StuckOnlyIfMisenteredAlways` needs to know who answers for each
  job (`HeldInv`): a list (`OnLists`), the main flow (`ByMain`) or the handler
  (`ByHandler`), no two of them for one job unless it was misentered. The delicate place
  is `bg`, between its `kill` and the end of its mask: a signal that comes there can
  only mean that the job was killed.
* `TcpEchoProofs`, for any number of clients and threads, any block size and lengths.
  `TypeCorrect` keeps the four counters of a connection in order.
  `LeavingIsNoticedAlways` is inductive together with it. `DownOnlyByResetAlways` and
  `UnreadIsNotWaitedForEver` follow from `TypeInv`: a closing comes only from a client
  that has ended, and a reset only if an echo was left. `RightIfWholeAlways` needs
  `InStep`, where the bytes of a connection are while receives are whole, together with
  the server's staying up: each is kept by the other.
* `PmTimerProofs`, for any two widths of which the smaller divides the larger and is
  larger than 2^32/1000 (`ModAssumption`; a wait is then shorter than a turn,
  `TargetRange`). `Polling` says how what the kernel would read lags behind the time
  that has passed, whichever of the two widths it takes the counter to have.
  `NeverEarlyAlways` is in two parts: no wait ends before the target that the kernel has
  computed (`TargetReached`), and where the product fits, that is the time asked for
  (`TicksAreTarget`). `OnTimeAlways` excepts a target of 0 ticks, which the program does
  not ask for: for that, a first poll as late as `MaxLag` is not in time.
  `PeriodLongEnoughAlways`: as long as the LAPIC's count lasts (`CountLasts`), the
  difference of the two readings is what has passed at its speed (`CountInv`), and the
  division and the product lose less than 1000 of it (`PeriodInv`).
* `PipelineProofs`, for lines of any length and pipes of any size. What each program has
  written is not in the state, and the invariant says that there are such numbers
  (`Counts`): what program `i` has written is in its pipe, in the next program's hands,
  or written by that in turn (`Balanced`), and a program that has ended had written all
  of it or had lost its reader (`Complete`). `OutputRightAlways` follows for the last
  program, which has no reader to lose. `JamsOnlyIfUnreadAlways`: of the processes left,
  the first can only be stuck as a writer without room (`WhyStuck`); the first one after
  it that is not stuck so has a full pipe before it and does not read, so that it is a
  program that failed (`NoJam`).

Only model-checked: liveness (`EveryCallReturns`, `EveryInsertReturns`, `EveryTaskRuns`,
`PromptReturns`, `EveryClientEnds`, `ServerLetsGo`, `CalibrationEnds`, `LineEnds`,
`LeftoversEnd`), which the prover does not reach.

## 5. Disagreements found

Shown by runs:

1. `kadai3/report3/kadai-b/btree.c:37` checks the wrong link; a node can be lost
   (`kadai-b/report.txt:7`: the output is always 10000 lines).
2. `kadai10/report10/kernel/interrupt_handler.S:45`: `rbx` is not restored by a system
   call.
3. `kadai6/.../main.c:299`: a background job that ends before it is entered into the
   list stays a zombie (`kadai6_test.sh:114` calls that an error).
4. `kadai6/.../main.c:190,206`: the handler also runs for jobs that are continued, and
   then waits for a running job (`report.txt:19-20` says it waits for ended ones).
5. `kadai10/report10/kernel/pm_timer.c:44`: past the wrap of the counter, `>` binds
   tighter than `=` and the wait never ends. With a 24-bit counter that is one boot in
   about five (`lapic_timer.c:22`: "Wait 1000ms").

Named as exceptions in properties, or seen in the code:

* `kadai4/.../tcpechoclient.c:54`: a client whose input is a multiple of 256 bytes long
  sends an empty block and waits for its echo for ever, keeping its server's thread
  (`Stuck` in `TcpEcho`).
* `kadai4/.../tcpechoclient.c:41`: one `recv` per `send`; a short one leaves bytes for
  the next block, and the client ends without the last ones (`RightIfWhole` holds only
  as long as no receive is short). It then closes with bytes unread, and the reset ends
  the server (`tcpechoserver1.c:29`).
* `kadai5/.../main.c:39-43`: if a program past the first cannot be executed, its process
  waits for the one before it with the pipe open and unread; more data than the pipe
  holds and the line never ends (`Fits` in `Pipeline`).
* `kadai6/.../main.c:246`: `fg` sends SIGCONT to the leader only; the other processes of
  a stopped line stay stopped (`LineEnds`).
* `kadai6/.../main.c:77-84`: `handler_suspended` waits with `sigwait` for a SIGCONT that
  is not blocked, and never returns (`"caught"` in `Pipeline`).
* `kadai6/.../main.c:190`: the handler's `waitpid` has `WUNTRACED`, so it takes the stop
  of a background job like an end; the job's entry is gone, it is in no list, and nobody
  can continue it (`swallowed` in `Ish`).
* `kadai6/.../main.c:223-224,238-239`: `bg n` and `fg n` go `n` entries on from the
  first one, so that `n` counts from 0, where the comments there say the n-th job that
  was stopped. (`Pick` takes any entry.)
* `kadai10/report10/kernel/pm_timer.c:40`: `msec * freq_hz` is computed in 32 bits, and
  a wait of 1200 ms or more is cut short; the one caller waits for 1000 (`ProductFits`).
* `kadai10/report10/kernel/pm_timer.c:44`: if the target is the wrap itself, a first
  poll in the same tick as the start ends the wait (`NeverEarly`).
* `kadai6/.../parser/parse.c:17`: `errno` stays EINTR after an interrupted read, so an
  end of input that follows is taken for an interruption, again and again.
* `kadai10/report10/kernel/memory.c:60`: only the first 2 MiB of an application's 16
  (`SpacesDisjoint`), and only the first 2 MiB of the frame buffer (`memory.c:98`) are
  mapped.
* `kadai4/.../iperfc_double.c:48`: the byte that ends a measurement may be taken from
  the flood of the other direction, so the measured time is not that of a delivery.

## 6. Not modelled

* GNU coreutils 8.9 with its gnulib (`kadai1/kadai-b`): third-party code, by far the
  most lines of the repository, that an exercise only searches through.
* The throughput programs of kadai4 (c, d) and UDP echo (a): the former measure a time,
  which a model of steps has not, and the latter have no state from one datagram to the
  next.
* The kernel's console, segmentation and the boot loader: one flow of control over
  constants, pixels or firmware calls. What the boot loader leaves undone, zeroing the
  kernel's `.bss`, is in `Sched`'s `Init`. Its processors add to one sum without the
  ticket lock a comment asks for (`bootloader.c:55-59`); the kernel ignores the sum.
* The parser: a scanner over one line; `Ish` and `Pipeline` start from what it returns.
* `kadai2`, `kadai3` a and d, `kadai8` and `kadai9`: one flow of control each, or
  earlier stages of what is modelled.
* The allocator under the SIGCHLD handler (`main.c:189`): `free` may run on top of a
  `malloc` of the main flow.

## 7. Running

    tlc -workers 2 -config MCBoundedBuffer.cfg MCBoundedBuffer.tla
    tlc -workers 2 -config MCIsh.cfg Ish.tla
    tlc -workers 2 -config MCPmTimerWrap.cfg PmTimer.tla
    tlapm BoundedBufferProofs.tla

`PROJECT.json` lists all runs, the mutated definitions each property is checked against,
and the lines of code each definition stands for.
