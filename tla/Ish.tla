-------------------------------- MODULE Ish --------------------------------
(***************************************************************************)
(* Job control in the shell of kadai6 (kadai-bcde/main.c): the shell's     *)
(* main loop with bg and fg, its SIGCHLD handler, the list of background   *)
(* jobs and the list of suspended ones, the jobs' processes, the terminal  *)
(* and the kernel's side of fork, waitpid, kill and SIGCHLD.               *)
(*                                                                         *)
(* The shell forks one child per job; the child leads the job's process    *)
(* group, runs the last program of the pipeline and has the others as its  *)
(* own children, so a job is ONE child of the shell here, and a job also   *)
(* stands for its process id and its group.  Process ids are not reused.   *)
(*                                                                         *)
(* SIGCHLD is one bit with the process id of its first sender: a signal    *)
(* sent while one is pending is lost.  The handler runs on top of the main *)
(* flow, which waits for it to return; it interrupts a waitpid that has    *)
(* nothing to report (sa_flags has no SA_RESTART), and then main reads a   *)
(* status that waitpid did not write: any value.                           *)
(***************************************************************************)
EXTENDS Naturals, SequencesExt

CONSTANTS
    Jobs,           \* the command lines the user may run
    Shell,          \* the shell's own process group
    NoJob,          \* no signal is pending
    MaxResumes      \* bound on the fg and bg commands

ASSUME NamesAssumption == Shell \notin Jobs /\ NoJob \notin Jobs
ASSUME MaxResumesAssumption == MaxResumes \in Nat

VARIABLES
    mode,           \* mode[j]: job.mode, fixed by the command line
    st,             \* st[j]: the state of the job's process
    grouped,        \* the jobs that have called setpgid
    tty,            \* the foreground process group of the terminal
    spc,            \* where the shell's main flow is
    cur, pos,       \* the job it works on, and that job's place in susp or 0
    back,           \* back_info, without its first entry
    tail,           \* append_background's c: how many entries it has passed
    susp,           \* suspended_list, without its first entry
    pend, masked,   \* the pending SIGCHLD's sender, and SIG_BLOCK
    hpc, hjob,      \* where the handler is, and its info->si_pid
    resumes,        \* how many fg and bg commands there have been
    missed,         \* history: jobs whose end no handler call has acted on
    swallowed,      \* history: jobs whose stop the handler's waitpid took
    abandoned,      \* history: jobs whose foreground wait was interrupted
    misentered      \* history: jobs entered as suspended twice, or not stopped

procs == <<mode, st, grouped>>
flow == <<spc, cur, pos, tail, resumes>>
lists == <<back, susp>>
handler == <<pend, hpc, hjob, missed, swallowed>>
past == <<abandoned, misentered>>
vars == <<procs, tty, flow, lists, masked, handler, past>>

Init ==
    /\ mode \in [Jobs -> {"FOREGROUND", "BACKGROUND"}]
    /\ st = [j \in Jobs |-> "none"]
    /\ grouped = {} /\ tty = Shell
    /\ spc = "read" /\ cur = NoJob /\ pos = 0 /\ tail = 0
    /\ back = <<>> /\ susp = <<>>
    /\ pend = NoJob /\ masked = FALSE
    /\ hpc = "none" /\ hjob = NoJob
    /\ resumes = 0
    /\ missed = {} /\ swallowed = {} /\ abandoned = {} /\ misentered = {}

-----------------------------------------------------------------------------
\* The kernel's side.

Become(j, s) == st' = [st EXCEPT ![j] = s]

\* j's process sends SIGCHLD to the shell.
Notify(j) ==
    /\ pend' = IF pend = NoJob THEN j ELSE pend
    /\ missed' = IF st'[j] = "zombie" /\ pend \notin {NoJob, j} THEN missed \union {j} ELSE missed
    /\ UNCHANGED <<hpc, hjob, swallowed>>

\* waitpid(j, &status, WUNTRACED) has something to report, and reports it.
Waitable(j) == st[j] \in {"zombie", "stopping"}

Report(j) == Waitable(j) /\ Become(j, IF st[j] = "zombie" THEN "gone" ELSE "stopped")

\* kill(j, SIGCONT) matters to a stopped process only.
Continue(j) == st' = IF st[j] \in {"stopping", "stopped"} THEN [st EXCEPT ![j] = "cont"] ELSE st

-----------------------------------------------------------------------------
\* The jobs' processes.

\* piperec: a process group of its own and, in the foreground, the terminal.
SetUp(j) ==
    /\ st[j] = "forked" /\ Become(j, "run")
    /\ grouped' = grouped \union {j}
    /\ tty' = IF mode[j] = "FOREGROUND" THEN j ELSE tty
    /\ UNCHANGED <<mode, flow, lists, masked, handler, past>>

\* The program ends or is killed by Ctrl-C, or its redirection cannot be opened.
End(j) ==
    /\ st[j] \in {"forked", "run"} /\ Become(j, "zombie")
    /\ Notify(j)
    /\ UNCHANGED <<mode, grouped, tty, flow, lists, masked, past>>

\* A stopped process is killed.
Kill(j) ==
    /\ st[j] \in {"stopping", "stopped"} /\ Become(j, "zombie")
    /\ Notify(j)
    /\ UNCHANGED <<mode, grouped, tty, flow, lists, masked, past>>

\* Ctrl-Z in the foreground, SIGTTIN in the background.
Stop(j) ==
    /\ st[j] = "run" /\ Become(j, "stopping")
    /\ Notify(j)
    /\ UNCHANGED <<mode, grouped, tty, flow, lists, masked, past>>

\* SIGCONT arrives: the process tells its parent and goes on.
Resume(j) ==
    /\ st[j] = "cont" /\ Become(j, "run")
    /\ Notify(j)
    /\ UNCHANGED <<mode, grouped, tty, flow, lists, masked, past>>

\* What becomes of the jobs after the shell is not modelled.
Alive == spc \notin {"exited", "cutoff"}

ProcessStep(j) == Alive /\ (SetUp(j) \/ End(j) \/ Kill(j) \/ Stop(j) \/ Resume(j))

-----------------------------------------------------------------------------
\* The handler, sigaction_background.

\* A waitpid that blocks is interrupted; one that follows an earlier failure
\* ("fgagain", where status is 0) is simply repeated.
WaitIsInterrupted ==
    /\ \/ spc = "wait" /\ spc' = "eintr"
       \/ spc = "fgwait" /\ spc' = "fgeintr"
    /\ ~Waitable(cur)

\* The main flow may also be elsewhere, or still on its way to its waitpid.
Deliver ==
    /\ pend # NoJob /\ ~masked /\ hpc = "none"
    /\ Alive
    /\ hpc' = "look" /\ hjob' = pend /\ pend' = NoJob
    /\ spc' = spc \/ WaitIsInterrupted
    /\ UNCHANGED <<procs, tty, cur, pos, tail, resumes, lists, masked, missed, swallowed, past>>

\* getpgid(si_pid) is the job's id; it fails once the process has been waited
\* for, and before setpgid it is the shell's group, which is not in the list.
Listed(j) == j \in grouped /\ st[j] # "gone" /\ Contains(back, j)

HandlerReturns == hpc' = "none" /\ hjob' = NoJob

\* Find the entry of the sender's group and remove it, or return.
Look ==
    /\ hpc = "look"
    /\ \/ /\ Listed(hjob)
          /\ back' = RemoveFirst(back, hjob)
          /\ hpc' = "waitpid"
          /\ UNCHANGED <<hjob, missed>>
       \/ /\ ~Listed(hjob)
          /\ HandlerReturns
          /\ missed' = IF st[hjob] = "zombie" THEN missed \union {hjob} ELSE missed
          /\ UNCHANGED back
    /\ UNCHANGED <<procs, tty, flow, susp, masked, pend, swallowed, past>>

\* A slip for the mutant runs: waitpid with WNOHANG left to the next signal.
HandlerWaitSkipped ==
    /\ hpc = "waitpid" /\ HandlerReturns
    /\ UNCHANGED <<procs, tty, flow, lists, masked, pend, missed, swallowed, past>>

\* waitpid(si_pid, &status, WUNTRACED): blocks while there is such a process
\* and nothing to report of it.  A stop is reported like an end.
HandlerWait ==
    /\ hpc = "waitpid" /\ HandlerReturns
    /\ Report(hjob) \/ (st[hjob] = "gone" /\ UNCHANGED st)
    /\ swallowed' = IF st'[hjob] = "stopped" THEN swallowed \union {hjob} ELSE swallowed
    /\ UNCHANGED <<mode, grouped, tty, flow, lists, masked, pend, missed, past>>

HandlerStep == Deliver \/ Look \/ HandlerWait

-----------------------------------------------------------------------------
\* The shell's main flow, at a place, with no handler on top of it.

At(place) == spc = place /\ hpc = "none"

\* A command has been read.  A SIGCHLD would have interrupted the read, and
\* get_line reads again.
Command == At("read") /\ pend = NoJob

\* The command is done and its local variables are gone.
Done == spc' = "read" /\ cur' = NoJob /\ pos' = 0

\* A new job is forked: wait for it, or enter it into the background list.
Launch(j) ==
    /\ Command
    /\ st[j] = "none" /\ Become(j, "forked")
    /\ tty' = Shell
    /\ spc' = IF mode[j] = "FOREGROUND" THEN "wait" ELSE "block"
    /\ cur' = j
    /\ UNCHANGED <<mode, grouped, pos, tail, resumes, lists, masked, handler, past>>

\* A slip for the mutant runs: the terminal is not taken back.
WaitReturnsWithoutTty ==
    /\ At("wait") /\ Report(cur) /\ Done
    /\ susp' = IF st'[cur] = "stopped" THEN Append(susp, cur) ELSE susp
    /\ UNCHANGED <<mode, grouped, tty, tail, resumes, back, masked, handler, past>>

\* The foreground job has ended or has been stopped.
WaitReturns ==
    /\ At("wait") /\ Report(cur) /\ Done
    /\ tty' = Shell
    /\ susp' = IF st'[cur] = "stopped" THEN Append(susp, cur) ELSE susp
    /\ UNCHANGED <<mode, grouped, tail, resumes, back, masked, handler, past>>

\* append_suspended for a job that is in the list already, or that waitpid has
\* not seen to stop.
SuspendWrongly(j) ==
    /\ susp' = Append(susp, j)
    /\ misentered' = misentered \union {j}

\* The wait was interrupted; status has whatever value the stack had.
WaitInterrupted ==
    /\ At("eintr") /\ Done
    /\ tty' = Shell
    /\ \/ SuspendWrongly(cur)
       \/ UNCHANGED <<susp, misentered>>
    /\ abandoned' = abandoned \union {cur}
    /\ UNCHANGED <<procs, tail, resumes, back, masked, handler>>

\* A slip for the mutant runs: SIG_BLOCK is left out.
BlockForgotten ==
    /\ At("block") /\ spc' = "link"
    /\ tail' = Len(back)
    /\ UNCHANGED <<procs, tty, cur, pos, resumes, lists, masked, handler, past>>

\* wait_background: block SIGCHLD, and append_background walks to the end.
Block ==
    /\ At("block") /\ spc' = "link"
    /\ masked' = TRUE /\ tail' = Len(back)
    /\ UNCHANGED <<procs, tty, cur, pos, resumes, lists, handler, past>>

\* c->next = init_background(...), and unblock.  An entry hung on one that has
\* been freed is lost.
Link ==
    /\ At("link")
    /\ back' = IF tail = Len(back) THEN Append(back, cur) ELSE back
    /\ masked' = FALSE /\ tail' = 0
    /\ IF pos = 0 THEN Done ELSE spc' = "bgcont" /\ UNCHANGED <<cur, pos>>
    /\ UNCHANGED <<procs, tty, resumes, susp, handler, past>>

\* A slip for the mutant runs: places counted from the list's empty first entry.
PickFromHead(i) ==
    /\ Command /\ i \in DOMAIN susp
    /\ resumes < MaxResumes /\ resumes' = resumes + 1
    /\ cur' = susp[i] /\ pos' = i + 1

\* fg n and bg n work on the entry at a place.  Bound: MaxResumes.
Pick(i) ==
    /\ Command /\ i \in DOMAIN susp
    /\ resumes < MaxResumes /\ resumes' = resumes + 1
    /\ cur' = susp[i] /\ pos' = i

\* bg n: into the background list first.
Bg(i) ==
    /\ Pick(i)
    /\ tty' = Shell /\ spc' = "block"
    /\ UNCHANGED <<procs, tail, lists, masked, handler, past>>

\* Then SIGCONT.
BgContinue ==
    /\ At("bgcont") /\ spc' = "bgdrop"
    /\ Continue(cur)
    /\ UNCHANGED <<mode, grouped, tty, cur, pos, tail, resumes, lists, masked, handler, past>>

\* Last, the suspended entry is dropped, whatever the job has done meanwhile.
BgDrop ==
    /\ At("bgdrop") /\ Done
    /\ susp' = RemoveAt(susp, pos)
    /\ UNCHANGED <<procs, tty, tail, resumes, back, masked, handler, past>>

\* The job, if it has a group, gets the terminal.
GiveTerminal(j) == tty' = IF j \in grouped /\ st[j] # "gone" THEN j ELSE Shell

\* A slip for the mutant runs: no SIGCONT.
FgNoSignal(i) ==
    /\ Pick(i)
    /\ GiveTerminal(susp[i])
    /\ spc' = "fgwait"
    /\ UNCHANGED <<procs, tail, lists, masked, handler, past>>

\* fg n: terminal, SIGCONT, and wait.
Fg(i) ==
    /\ Pick(i)
    /\ GiveTerminal(susp[i]) /\ Continue(susp[i])
    /\ spc' = "fgwait"
    /\ UNCHANGED <<mode, grouped, tail, lists, masked, handler, past>>

\* fg's waitpid returns the job: a stopped one is appended once more, the
\* entry of one that has ended is dropped.
FgReturns ==
    /\ At("fgwait") \/ At("fgagain")
    /\ Report(cur) /\ Done
    /\ IF st'[cur] = "stopped" THEN SuspendWrongly(cur)
       ELSE susp' = RemoveAt(susp, pos) /\ UNCHANGED misentered
    /\ tty' = Shell
    /\ UNCHANGED <<mode, grouped, tail, resumes, back, masked, handler, abandoned>>

\* Its first waitpid fails, interrupted or with ECHILD: status may look like
\* that of a stopped process, and otherwise is set to 0 for the next turn.
FgFails ==
    /\ At("fgeintr") \/ (At("fgwait") /\ st[cur] = "gone")
    /\ \/ SuspendWrongly(cur) /\ tty' = Shell /\ Done
       \/ spc' = "fgagain" /\ UNCHANGED <<susp, misentered, tty, cur, pos>>
    /\ UNCHANGED <<procs, tail, resumes, back, masked, handler, abandoned>>

\* A waitpid of the shell, in fg or in the handler, on a process that is gone,
\* so that fg tries again for ever, or whose stop has been reported already.
Stuck ==
    \/ (At("fgwait") \/ At("fgagain")) /\ st[cur] \in {"gone", "stopped"}
    \/ hpc = "waitpid" /\ st[hjob] = "stopped"

\* exit.
Exit ==
    /\ Command
    /\ spc' = "exited"
    /\ UNCHANGED <<procs, tty, cur, pos, tail, resumes, lists, masked, handler, past>>

\* Another group has the terminal: a read stops the shell, or fails.
CutOff ==
    /\ At("read") /\ tty # Shell
    /\ spc' = "cutoff"
    /\ UNCHANGED <<procs, tty, cur, pos, tail, resumes, lists, masked, handler, past>>

CommandStep == (\E j \in Jobs : Launch(j)) \/ (\E i \in DOMAIN susp : Bg(i) \/ Fg(i)) \/ Exit \/ CutOff
ShellStep == WaitReturns \/ WaitInterrupted \/ Block \/ Link \/ BgContinue \/ BgDrop \/ FgReturns \/ FgFails

Halted == (~Alive \/ Stuck) /\ UNCHANGED vars

Next ==
    \/ \E j \in Jobs : ProcessStep(j)
    \/ HandlerStep
    \/ CommandStep
    \/ ShellStep
    \/ Halted

Spec == Init /\ [][Next]_vars

\* The kernel runs the shell and the jobs, and a job that is not stopped comes
\* to an end.  The user need not type anything.
Fairness ==
    /\ WF_vars(HandlerStep) /\ WF_vars(ShellStep)
    /\ \A j \in Jobs : WF_vars(SetUp(j)) /\ WF_vars(Resume(j)) /\ WF_vars(End(j))

FairSpec == Spec /\ Fairness

-----------------------------------------------------------------------------
\* Type invariant; an entry that fg or bg works on is one of the list.
TypeOK ==
    /\ mode \in [Jobs -> {"FOREGROUND", "BACKGROUND"}]
    /\ st \in [Jobs -> {"none", "forked", "run", "stopping", "stopped", "cont", "zombie", "gone"}]
    /\ grouped \subseteq Jobs
    /\ tty \in Jobs \union {Shell}
    /\ spc \in {"read", "wait", "eintr", "block", "link", "bgcont", "bgdrop", "fgwait",
                "fgeintr", "fgagain", "exited", "cutoff"}
    /\ cur \in Jobs \union {NoJob}
    /\ spc \in {"bgcont", "bgdrop", "fgwait", "fgeintr", "fgagain"} =>
           pos \in DOMAIN susp /\ susp[pos] = cur
    /\ back \in Seq(Jobs) /\ susp \in Seq(Jobs) /\ tail \in Nat
    /\ pend \in Jobs \union {NoJob}
    /\ masked \in BOOLEAN
    /\ hpc \in {"none", "look", "waitpid"}
    /\ hjob \in Jobs \union {NoJob}
    /\ resumes \in 0 .. MaxResumes
    /\ missed \subseteq Jobs /\ swallowed \subseteq Jobs
    /\ abandoned \subseteq Jobs /\ misentered \subseteq Jobs

\* The handler never takes entries off the background list while the main
\* flow is appending to it, so the new entry is hung on one that is there.
AppendNotDisturbed == spc = "link" => tail = Len(back)

\* A zombie is on its way to be reaped by the handler unless its signal was
\* merged into another job's or found the job not in the background list.
ZombieOnlyIfMissed ==
    \A j \in Jobs : st[j] = "zombie" =>
        j \in missed \/ pend = j \/ (hpc # "none" /\ hjob = j)

\* While the shell reads commands the terminal is its own, but for a job
\* whose foreground wait was interrupted by another job's SIGCHLD.
PromptOwnsTerminal == spc \in {"read", "cutoff"} => tty \in abandoned \union {Shell}

\* The shell has a hold on j: an entry in a list, or a wait or an append that the
\* handler or the main flow is about.
Kept(j) ==
    \/ Contains(back, j) \/ Contains(susp, j)
    \/ hpc = "waitpid" /\ hjob = j
    \/ spc \in {"wait", "eintr", "block", "link"} /\ cur = j

\* No job that lives, running or stopped, is lost to the shell, through bg, fg,
\* stops and signals in between, but in two ways: its foreground wait was
\* interrupted, or the handler's waitpid took its stop for an end.
JobsAreKept ==
    \A j \in Jobs : st[j] \in {"forked", "run", "stopping", "stopped", "cont"} =>
        Kept(j) \/ j \in abandoned \union swallowed

\* When jobs come to an end the shell comes back to its prompt, unless it has
\* to do with a job that was entered as suspended twice or without having
\* stopped: then fg may wait for a process that is gone, for ever.
PromptReturns ==
    spc # "read" ~> (spc = "read" \/ ~Alive \/ {cur, hjob} \intersect misentered # {})

\* Neither fg nor the handler ever waits for a process that is gone, or whose
\* stop has been reported already, but for a job entered as suspended wrongly:
\* of any other job one waitpid at most is under way or to come.
StuckOnlyIfMisentered == Stuck => {cur, hjob} \intersect misentered # {}

\* "there is a zombie process" is an error (kadai6_test.sh:114): at the prompt,
\* with every signal handled, no job that ended in the background is a zombie.
NoZombieAtPrompt ==
    At("read") /\ pend = NoJob =>
        \A j \in Jobs : mode[j] = "BACKGROUND" => st[j] # "zombie"

\* The handler waits for the process that "ended and sent the signal"
\* (report.txt:19-20): its waitpid finds one that is not running.
HandlerWaitsForEnded == hpc = "waitpid" => st[hjob] # "run"
=============================================================================
