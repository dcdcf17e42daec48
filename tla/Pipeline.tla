------------------------------ MODULE Pipeline ------------------------------
(***************************************************************************)
(* One line of programs that a shell runs through pipes (piperec and dojob *)
(* of kadai5 and kadai6), and the shell's foreground wait for it, with the *)
(* stop and the fg that only kadai6 has.                                   *)
(*                                                                         *)
(* Process last is the shell's child and the leader of the group; process  *)
(* i > 0 makes pipe i, forks process i-1, which writes to it, and becomes  *)
(* program i.  A program is one of those that make a line behave           *)
(* differently; data are items, which pipes and programs only count.       *)
(*                                                                         *)
(* WritersForgotten, WritersRunning, ReaderKept and Roomy are slips for    *)
(* the mutant runs, each of the definition after it.                       *)
(***************************************************************************)
EXTENDS Naturals

CONSTANTS
    N,          \* BOUND on the programs of a line
    Capacity,   \* of a pipe, 65536 bytes on Linux
    Items       \* what a source that ends writes

ASSUME SizesAssumption == {N, Capacity, Items} \subseteq Nat \ {0}

Procs == 0 .. N - 1

\* "missing" cannot be executed.  The others read an item and write it, and
\* end when there are no more; "head" ends after one.
Sources == {"finite", "endless", "missing"}
Filters == {"copy", "head", "missing"}

\* More than any count here.
Many == Items + Capacity + 1

VARIABLES
    last, prog, opens,  \* the line; opens: the output redirection succeeds
    pc,                 \* pc[i]: "none", "born", "forked", "run", "waiting" or "ended"
    susp,               \* susp[i]: "no", "stopped", or "caught" in handler_suspended
    terminal,           \* the leader has taken the terminal
    has,                \* the programs that have an item to write
    left,               \* items still to come from program 0
    pipe,               \* pipe[i]: items in the pipe that process i reads
    out,                \* items written by the last program, up to Many
    shell,              \* "wait", "stopped" or "prompt"
    pressed             \* BOUND: Ctrl-Z is pressed once

line == <<last, prog, opens>>
data == <<has, left, pipe, out>>
job == <<susp, terminal, shell, pressed>>
vars == <<line, pc, data, job>>

Init ==
    /\ last \in Procs
    /\ prog \in {f \in [Procs -> Sources \union Filters] :
                    \A i \in Procs : f[i] \in CASE i = 0 -> Sources
                                                 [] i \in 1 .. last -> Filters
                                                 [] OTHER -> {"missing"}}
    /\ opens \in BOOLEAN
    /\ pc = [i \in Procs |-> IF i = last THEN "born" ELSE "none"]
    /\ susp = [i \in Procs |-> "no"]
    /\ has = {} /\ pipe = [i \in Procs |-> 0] /\ out = 0
    /\ left = IF prog[0] = "endless" THEN Many ELSE Items
    /\ shell = "wait" /\ pressed = FALSE /\ terminal = FALSE

Least(m, n) == IF m <= n THEN m ELSE n

Goto(i, place) == pc' = [pc EXCEPT ![i] = place]

At(i, place) == pc[i] = place /\ susp[i] = "no" /\ UNCHANGED <<line, job>>

\* exec, of which only the failure returns.  Past the first program the
\* process then waits for its child, with the pipe's read end still open.
ExecTo(i) == IF prog[i] # "missing" THEN "run" ELSE IF i = 0 THEN "ended" ELSE "waiting"

-----------------------------------------------------------------------------
\* The processes.

\* dojob opens the output; then in piperec the leader takes the terminal.
TakeTerminal(i) ==
    /\ i = last /\ pc[i] = "born" /\ opens /\ ~terminal
    /\ terminal' = TRUE
    /\ UNCHANGED <<line, pc, data, susp, shell, pressed>>

\* The rest of piperec, or the exit of a leader that cannot open the output:
\* program 0 is executed, and any other process makes its pipe and forks.
Begin(i) ==
    /\ At(i, "born") /\ (i = last /\ opens => terminal)
    /\ pc' = IF i = last /\ ~opens THEN [pc EXCEPT ![i] = "ended"]
             ELSE IF i = 0 THEN [pc EXCEPT ![i] = ExecTo(i)]
             ELSE [pc EXCEPT ![i] = "forked", ![i - 1] = "born"]
    /\ UNCHANGED data

\* The parent closes its write end and becomes program i.
Exec(i) ==
    /\ At(i, "forked")
    /\ Goto(i, ExecTo(i))
    /\ UNCHANGED data

\* waitpid with WUNTRACED, and exit.
Reap(i) ==
    /\ At(i, "waiting")
    /\ pc[i - 1] = "ended" \/ susp[i - 1] = "stopped"
    /\ Goto(i, "ended")
    /\ UNCHANGED data

\* Every process inherits the write ends of its forebears' pipes and keeps them
\* open; the pipe's maker has its own until it executes its program.
WritersForgotten(i) == {j \in 0 .. i : pc[j] \notin {"none", "ended"}}
WritersRunning(i) == {j \in 0 .. i - 1 : pc[j] = "run"}
Writers(i) == {j \in 0 .. i - 1 : pc[j] \notin {"none", "ended"}}
                \union (IF pc[i] = "forked" THEN {i} ELSE {})

\* Program 0 makes its items itself.
Read(i) ==
    /\ At(i, "run") /\ i \notin has
    /\ IF i = 0 THEN /\ left > 0
                     /\ left' = IF left = Many THEN left ELSE left - 1
                     /\ UNCHANGED pipe
       ELSE /\ pipe[i] > 0
            /\ pipe' = [pipe EXCEPT ![i] = @ - 1]
            /\ UNCHANGED left
    /\ has' = has \union {i}
    /\ UNCHANGED <<pc, out>>

AtEof(i) == IF i = 0 THEN left = 0 ELSE pipe[i] = 0 /\ Writers(i) = {}

Finish(i) ==
    /\ At(i, "run") /\ i \notin has /\ AtEof(i)
    /\ Goto(i, "ended")
    /\ UNCHANGED data

\* The read end of the pipe after i is closed: SIGPIPE.
ReaderKept(i) == FALSE
ReaderGone(i) == pc[i + 1] = "ended"

Roomy(i) == pipe[i + 1] <= Capacity
HasRoom(i) == pipe[i + 1] < Capacity

Write(i) ==
    /\ At(i, "run") /\ i \in has
    /\ IF i = last THEN out' = Least(out + 1, Many) /\ UNCHANGED pipe
       ELSE /\ UNCHANGED out
            /\ IF ReaderGone(i) THEN UNCHANGED pipe
               ELSE HasRoom(i) /\ pipe' = [pipe EXCEPT ![i + 1] = @ + 1]
    /\ has' = has \ {i}
    /\ Goto(i, IF prog[i] = "head" \/ (i # last /\ ReaderGone(i)) THEN "ended" ELSE "run")
    /\ UNCHANGED left

ProcStep(i) ==
    TakeTerminal(i) \/ Begin(i) \/ Exec(i) \/ Reap(i) \/ Read(i) \/ Finish(i) \/ Write(i)

-----------------------------------------------------------------------------
\* The terminal and the shell.

Group == {i \in Procs : pc[i] \notin {"none", "ended"}}

\* Ctrl-Z, once the leader has the terminal.  A process that has not executed
\* its program runs handler_suspended, and sigwait never sees a SIGCONT that
\* is not blocked.
CtrlZ ==
    /\ shell = "wait" /\ ~pressed /\ terminal /\ pc[last] # "ended"
    /\ pressed' = TRUE
    /\ susp' = [i \in Procs |-> IF i \notin Group THEN "no"
                                ELSE IF pc[i] = "run" THEN "stopped" ELSE "caught"]
    /\ UNCHANGED <<line, pc, data, terminal, shell>>

\* waitpid with WUNTRACED for the leader.
Reported == pc[last] = "ended" \/ susp[last] = "stopped"

WaitReturns ==
    /\ shell = "wait" /\ Reported
    /\ shell' = IF pc[last] = "ended" THEN "prompt" ELSE "stopped"
    /\ UNCHANGED <<line, pc, data, susp, terminal, pressed>>

\* SIGCONT goes to the leader only.
Fg ==
    /\ shell = "stopped"
    /\ shell' = "wait"
    /\ susp' = [susp EXCEPT ![last] = "no"]
    /\ UNCHANGED <<line, pc, data, terminal, pressed>>

Next == (\E i \in Procs : ProcStep(i)) \/ CtrlZ \/ WaitReturns \/ Fg

Spec == Init /\ [][Next]_vars

\* Every process runs, and so does the shell; nobody has to type.
FairSpec == Spec /\ WF_vars(WaitReturns) /\ \A i \in Procs : WF_vars(ProcStep(i))

-----------------------------------------------------------------------------
\* Type invariant.
TypeOK ==
    /\ last \in Procs /\ opens \in BOOLEAN /\ prog \in [Procs -> Sources \union Filters]
    /\ pc \in [Procs -> {"none", "born", "forked", "run", "waiting", "ended"}]
    /\ susp \in [Procs -> {"no", "stopped", "caught"}] /\ terminal \in BOOLEAN
    /\ has \subseteq Procs /\ left \in 0 .. Many /\ out \in 0 .. Many
    /\ pipe \in [Procs -> 0 .. Capacity]
    /\ shell \in {"wait", "stopped", "prompt"} /\ pressed \in BOOLEAN

\* What a line means: what program i writes if it is read to the end.
Flow(i) ==
    IF \E j \in 0 .. i : prog[j] = "missing" THEN 0
    ELSE IF \E j \in 0 .. i : prog[j] = "head" THEN 1
    ELSE IF prog[0] = "finite" THEN Items ELSE Many

\* The output is never more than what the line means, and it is all of that
\* when the shell is back at its prompt.
OutputRight ==
    /\ out <= Flow(last)
    /\ shell = "prompt" => out = IF opens THEN Flow(last) ELSE 0

\* A program that could not be executed leaves its pipe unread.
Fits == \A i \in 1 .. last : prog[i] = "missing" => Flow(i - 1) <= Capacity

Suspended == {i \in Group : susp[i] # "no"}

\* Process i has a step to take: it is not suspended, and it waits neither for
\* its child, nor for room in the pipe after it, nor for an item or the end of
\* the pipe it reads.
CanStep(i) ==
    /\ susp[i] = "no"
    /\ pc[i] = "waiting" => pc[i - 1] = "ended" \/ susp[i - 1] = "stopped"
    /\ pc[i] = "run" /\ i \in has => i = last \/ ReaderGone(i) \/ HasRoom(i)
    /\ pc[i] = "run" /\ i \notin has /\ i # 0 => pipe[i] > 0 \/ Writers(i) = {}

Jammed == Group # {} /\ \A i \in Group : ~CanStep(i)

\* No deadlock among the processes of a line, which wait for each other in both
\* directions, a reader for its writers and a writer or a failed program's
\* process for the next: all of them wait only when a program that could not be
\* executed leaves more unread than its pipe holds, or somebody is suspended.
JamsOnlyIfUnread == Jammed => ~Fits \/ Suspended # {}

\* The shell gets back from its wait, at the line's end or by a stop, unless the
\* line has no end or fills a pipe that nobody reads; the leader is caught on its
\* way to its program; or others stay suspended, as they do when fg continues
\* the leader alone.
LineEnds ==
    (shell = "wait" /\ Fits /\ Flow(last) < Many)
        ~> (shell # "wait" \/ susp[last] = "caught" \/ Suspended \ {last} # {})

\* What the shell does not wait for ends as well: SIGPIPE and end of file go
\* up and down the whole line.
LeftoversEnd == (shell = "prompt" /\ Fits) ~> (Group = {} \/ Suspended # {})
=============================================================================
