----------------------------- MODULE IshProofs -----------------------------
(***************************************************************************)
(* Proofs about the shell's job control, for any jobs and any number of fg *)
(* and bg commands: the background list is never changed under the main    *)
(* flow's hands, who has the terminal at the prompt, what makes a zombie   *)
(* stay, and that fg and bg never work on an entry that is not there.      *)
(***************************************************************************)
EXTENDS Ish, WellFoundedInduction, SequenceTheorems, TLAPS

States == {"none", "forked", "run", "stopping", "stopped", "cont", "zombie", "gone"}

\* The places at which the shell waits for a foreground job.
Launching == {"wait", "eintr"}
Waiting == Launching \union {"fgwait", "fgeintr", "fgagain"}

\* While the main flow appends, SIGCHLD is blocked and no handler is running.
Appending == spc = "link" => masked /\ hpc = "none" /\ tail = Len(back)

\* Only a foreground job that has yet to set itself up can take the terminal:
\* the one the shell waits for, or one whose wait was interrupted.
Takers ==
    \A j \in Jobs : st[j] = "forked" /\ mode[j] = "FOREGROUND" =>
        j \in abandoned \/ (spc \in Launching /\ cur = j)

Terminal == tty \in abandoned \union {Shell} \/ (spc \in Waiting /\ tty = cur)

IInv ==
    /\ st \in [Jobs -> States]
    /\ Appending /\ Takers /\ Terminal
    /\ ZombieOnlyIfMissed

USE DEF States, Launching, Waiting

\* The invariant holds when the shell starts.
LEMMA IInvInit == Init => IInv
  BY DEF Init, IInv, Appending, Takers, Terminal, ZombieOnlyIfMissed

\* The invariant is inductive: one step per action of Next.
LEMMA IInvStep == IInv /\ [Next]_vars => IInv'
<1> SUFFICES ASSUME IInv, [Next]_vars PROVE IInv'
  OBVIOUS
<1> USE NamesAssumption DEF IInv, Appending, Takers, Terminal, ZombieOnlyIfMissed, procs, flow, lists, handler, past
<1>1. ASSUME NEW j \in Jobs, SetUp(j) PROVE IInv'
  BY <1>1 DEF SetUp, Become
<1>2. ASSUME NEW j \in Jobs, End(j) \/ Kill(j) \/ Stop(j) \/ Resume(j) PROVE IInv'
  BY <1>2 DEF End, Kill, Stop, Resume, Become, Notify
<1>3. CASE Deliver
  BY <1>3 DEF Deliver, WaitIsInterrupted
<1>4. CASE Look
  BY <1>4 DEF Look, HandlerReturns
<1>5. CASE HandlerWait
  BY <1>5 DEF HandlerWait, HandlerReturns, Report, Become
<1>6. ASSUME NEW j \in Jobs, Launch(j) PROVE IInv'
  BY <1>6 DEF Launch, Become, Command, At
<1>7. CASE WaitReturns
  BY <1>7 DEF WaitReturns, Report, Become, Done, At
<1>8. CASE WaitInterrupted
  BY <1>8 DEF WaitInterrupted, SuspendWrongly, Done, At
<1>9. CASE Block
  BY <1>9 DEF Block, At
<1>10. CASE Link
  BY <1>10 DEF Link, Done, At
<1>11. ASSUME NEW i, Bg(i) PROVE IInv'
  BY <1>11 DEF Bg, Pick, Command, At
<1>12. CASE BgContinue \/ BgDrop
  BY <1>12 DEF BgContinue, BgDrop, Continue, Done, At
<1>13. ASSUME NEW i, Fg(i) PROVE IInv'
  BY <1>13 DEF Fg, Pick, GiveTerminal, Continue, Command, At
<1>14. CASE FgReturns
  BY <1>14 DEF FgReturns, SuspendWrongly, Report, Become, Done, At
<1>15. CASE FgFails
  BY <1>15 DEF FgFails, SuspendWrongly, Done, At
<1>16. CASE Exit \/ CutOff
  BY <1>16 DEF Exit, CutOff, Command, At
<1>17. CASE UNCHANGED vars
  BY <1>17 DEF vars
<1> QED
  BY <1>1, <1>2, <1>3, <1>4, <1>5, <1>6, <1>7, <1>8, <1>9, <1>10, <1>11, <1>12, <1>13, <1>14,
     <1>15, <1>16, <1>17
     DEF Next, ProcessStep, HandlerStep, CommandStep, ShellStep, Halted

\* What append_background hangs a new entry on is the end of the background
\* list, whenever signals come (main.c:210-217).
THEOREM AppendNeverDisturbed == Spec => []AppendNotDisturbed
<1>1. IInv => AppendNotDisturbed
  BY DEF IInv, Appending, AppendNotDisturbed
<1> QED
  BY <1>1, IInvInit, IInvStep, PTL DEF Spec

\* At the prompt the terminal is the shell's, or has been taken by a job whose
\* foreground wait a SIGCHLD interrupted (main.c:292-293).
THEOREM PromptOwnsTerminalAlways == Spec => []PromptOwnsTerminal
<1>1. IInv => PromptOwnsTerminal
  BY DEF IInv, Terminal, PromptOwnsTerminal
<1> QED
  BY <1>1, IInvInit, IInvStep, PTL DEF Spec

\* A zombie stays only when its SIGCHLD was merged into another one or was
\* handled while the job was not in the list (main.c:178-193).
THEOREM ZombieOnlyIfMissedAlways == Spec => []ZombieOnlyIfMissed
<1>1. IInv => ZombieOnlyIfMissed
  BY DEF IInv
<1> QED
  BY <1>1, IInvInit, IInvStep, PTL DEF Spec

-----------------------------------------------------------------------------
\* Lists.

\* A set of numbers has a least one.
LEMMA Least ==
    ASSUME NEW I \in SUBSET Nat, I # {}
    PROVE  \E m \in I : \A k \in I : m <= k
<1>1. \E m \in I : \A k \in I : ~(<<k, m>> \in OpToRel(<, Nat))
  BY NatLessThanWellFounded, WFMin
<1>2. PICK m \in I : \A k \in I : ~(<<k, m>> \in OpToRel(<, Nat))
  BY <1>1
<1>3. \A k \in I : ~(k < m)
  BY <1>2 DEF OpToRel
<1>4. \A k \in I : m <= k
  BY SMT, <1>3
<1> QED
  BY <1>4

LEMMA RemoveAtType ==
    ASSUME NEW S, NEW s \in Seq(S), NEW i \in DOMAIN s
    PROVE  RemoveAt(s, i) \in Seq(S)
<1>1. i \in 1 .. Len(s)
  OBVIOUS
<1>2. SubSeq(s, 1, i - 1) \in Seq(S) /\ SubSeq(s, i + 1, Len(s)) \in Seq(S)
  BY <1>1, SubSeqProperties
<1> QED
  BY <1>2 DEF RemoveAt

LEMMA RemoveFirstIsRemoveAt ==
    ASSUME NEW S, NEW s \in Seq(S), NEW e, Contains(s, e)
    PROVE  \E i \in DOMAIN s : s[i] = e /\ RemoveFirst(s, e) = RemoveAt(s, i)
<1> DEFINE I == {i \in 1 .. Len(s) : s[i] = e}
<1>1. I # {} /\ I \in SUBSET Nat
  BY DEF Contains
<1>2. \E m \in I : \A k \in I : m <= k
  BY <1>1, Least
<1>3. Min(I) \in I
  BY <1>2 DEF Min
<1>4. RemoveFirst(s, e) = RemoveAt(s, Min(I))
  BY <1>1 DEF RemoveFirst, SelectInSeq
<1>5. Min(I) \in DOMAIN s /\ s[Min(I)] = e
  BY <1>3
<1> QED
  BY <1>4, <1>5

LEMMA RemoveFirstType ==
    ASSUME NEW S, NEW s \in Seq(S), NEW e
    PROVE  RemoveFirst(s, e) \in Seq(S)
<1>1. CASE Contains(s, e)
  BY <1>1, RemoveFirstIsRemoveAt, RemoveAtType
<1>2. CASE ~Contains(s, e)
  <2>1. RemoveFirst(s, e) = s
    BY <1>2 DEF RemoveFirst, Contains
  <2> QED
    BY <2>1
<1> QED
  BY <1>1, <1>2

LEMMA AppendType ==
    ASSUME NEW S, NEW s \in Seq(S), NEW e \in S
    PROVE  Append(s, e) \in Seq(S)
  OBVIOUS

LEMMA AppendKeeps ==
    ASSUME NEW S, NEW s \in Seq(S), NEW e, NEW x \in S
    PROVE  Contains(Append(s, x), x) /\ (Contains(s, e) => Contains(Append(s, x), e))
<1>1. Len(Append(s, x)) = Len(s) + 1 /\ Append(s, x)[Len(s) + 1] = x
  BY AppendProperties
<1>2. \A k \in 1 .. Len(s) : Append(s, x)[k] = s[k]
  BY AppendProperties
<1>3. Len(s) \in Nat
  BY LenProperties
<1> QED
  BY <1>1, <1>2, <1>3 DEF Contains

\* What RemoveAt leaves: the entries before the place and those after it.
LEMMA RemoveAtEntries ==
    ASSUME NEW S, NEW s \in Seq(S), NEW i \in DOMAIN s
    PROVE  /\ Len(s) \in Nat /\ i \in 1 .. Len(s)
           /\ Len(RemoveAt(s, i)) = Len(s) - 1
           /\ \A k \in 1 .. Len(s) - 1 : RemoveAt(s, i)[k] = IF k < i THEN s[k] ELSE s[k + 1]
<1> DEFINE a == SubSeq(s, 1, i - 1)
           b == SubSeq(s, i + 1, Len(s))
<1>1. i \in 1 .. Len(s) /\ Len(s) \in Nat
  BY LenProperties
<1>2. a \in Seq(S) /\ Len(a) = i - 1 /\ \A k \in 1 .. i - 1 : a[k] = s[k]
  BY <1>1, SubSeqProperties
<1>3. b \in Seq(S) /\ Len(b) = Len(s) - i /\ \A k \in 1 .. Len(s) - i : b[k] = s[i + k]
  <2>1. \A k \in i + 1 .. Len(s) : s[k] \in S
    BY <1>1
  <2>2. /\ b \in Seq(S) /\ Len(b) = IF i + 1 <= Len(s) THEN Len(s) - (i + 1) + 1 ELSE 0
        /\ \A k \in 1 .. Len(s) - (i + 1) + 1 : b[k] = s[(i + 1) + k - 1]
    BY <1>1, <2>1, SubSeqProperties
  <2> HIDE DEF b
  <2> QED
    BY <1>1, <2>2
<1> HIDE DEF a, b
<1>4. Len(a \o b) = Len(s) - 1
      /\ \A k \in 1 .. Len(s) - 1 : (a \o b)[k] = IF k <= i - 1 THEN a[k] ELSE b[k - (i - 1)]
  <2>1. /\ Len(a \o b) = Len(a) + Len(b)
        /\ \A k \in 1 .. Len(a) + Len(b) : (a \o b)[k] = IF k <= Len(a) THEN a[k] ELSE b[k - Len(a)]
    BY <1>2, <1>3, ConcatProperties
  <2>2. Len(a) + Len(b) = Len(s) - 1
    BY <1>1, <1>2, <1>3
  <2>3. \A k \in 1 .. Len(s) - 1 : (a \o b)[k] = IF k <= Len(a) THEN a[k] ELSE b[k - Len(a)]
    BY <2>1, <2>2
  <2> QED
    BY <1>2, <2>1, <2>2, <2>3
<1>5. ASSUME NEW k \in 1 .. Len(s) - 1 PROVE (a \o b)[k] = IF k < i THEN s[k] ELSE s[k + 1]
  <2>1. CASE k < i
    BY <1>1, <1>2, <1>4, <2>1
  <2>2. CASE ~(k < i)
    <3>1. k - (i - 1) \in 1 .. Len(s) - i /\ i + (k - (i - 1)) = k + 1 /\ ~(k <= i - 1)
      BY <1>1, <2>2
    <3>2. (a \o b)[k] = b[k - (i - 1)] /\ b[k - (i - 1)] = s[i + (k - (i - 1))]
      BY <1>3, <1>4, <3>1
    <3> QED
      BY <1>1, <2>2, <3>1, <3>2
  <2> QED
    BY <2>1, <2>2
<1>6. \A k \in 1 .. Len(s) - 1 : (a \o b)[k] = IF k < i THEN s[k] ELSE s[k + 1]
  BY <1>5
<1>7. RemoveAt(s, i) = a \o b
  BY DEF RemoveAt, a, b
<1> QED
  BY <1>1, <1>4, <1>6, <1>7

LEMMA RemoveAtKeeps ==
    ASSUME NEW S, NEW s \in Seq(S), NEW i \in DOMAIN s, NEW e, e # s[i], Contains(s, e)
    PROVE  Contains(RemoveAt(s, i), e)
<1> DEFINE r == RemoveAt(s, i)
<1>1. /\ Len(s) \in Nat /\ i \in 1 .. Len(s) /\ Len(r) = Len(s) - 1
      /\ \A k \in 1 .. Len(s) - 1 : r[k] = IF k < i THEN s[k] ELSE s[k + 1]
  BY RemoveAtEntries
<1>2. PICK k \in 1 .. Len(s) : s[k] = e
  BY DEF Contains
<1> HIDE DEF r
<1>3. CASE k < i
  <2>1. k \in 1 .. Len(r) /\ r[k] = e
    BY <1>1, <1>2, <1>3
  <2> QED
    BY <2>1 DEF Contains, r
<1>4. CASE k > i
  <2>1. k - 1 \in 1 .. Len(r) /\ r[k - 1] = e
    BY <1>1, <1>2, <1>4
  <2> QED
    BY <2>1 DEF Contains, r
<1> QED
  BY <1>1, <1>2, <1>3, <1>4

\* An element that a list holds at one place at most.
Once(s, e) == \A a, b \in 1 .. Len(s) : s[a] = e /\ s[b] = e => a = b

LEMMA AppendOnce ==
    ASSUME NEW S, NEW s \in Seq(S), NEW x \in S, NEW e
    PROVE  /\ Contains(Append(s, x), e) => e = x \/ Contains(s, e)
           /\ Once(s, e) /\ (e # x \/ ~Contains(s, e)) => Once(Append(s, x), e)
<1>1. Len(s) \in Nat /\ Len(Append(s, x)) = Len(s) + 1 /\ Append(s, x)[Len(s) + 1] = x
  BY AppendProperties, LenProperties
<1>2. \A k \in 1 .. Len(s) : Append(s, x)[k] = s[k]
  BY AppendProperties
<1> QED
  BY <1>1, <1>2 DEF Contains, Once

LEMMA RemoveAtOnce ==
    ASSUME NEW S, NEW s \in Seq(S), NEW i \in DOMAIN s, NEW e
    PROVE  /\ Contains(RemoveAt(s, i), e) => Contains(s, e)
           /\ Once(s, e) => Once(RemoveAt(s, i), e)
           /\ Once(s, e) /\ s[i] = e => ~Contains(RemoveAt(s, i), e)
<1> DEFINE r == RemoveAt(s, i)
           From(k) == IF k < i THEN k ELSE k + 1
<1>1. /\ Len(s) \in Nat /\ i \in 1 .. Len(s) /\ Len(r) = Len(s) - 1
      /\ \A k \in 1 .. Len(s) - 1 : r[k] = IF k < i THEN s[k] ELSE s[k + 1]
  BY RemoveAtEntries
<1> HIDE DEF r
<1>2. \A k \in 1 .. Len(r) : From(k) \in 1 .. Len(s) /\ From(k) # i /\ r[k] = s[From(k)]
  BY <1>1
<1>3. \A a, b \in 1 .. Len(r) : From(a) = From(b) => a = b
  BY <1>1
<1> HIDE DEF From
<1>4. Contains(r, e) => Contains(s, e)
  BY <1>2 DEF Contains
<1>5. Once(s, e) => Once(r, e)
  BY <1>2, <1>3 DEF Once
<1>6. Once(s, e) /\ s[i] = e => ~Contains(r, e)
  BY <1>1, <1>2 DEF Once, Contains
<1> QED
  BY <1>4, <1>5, <1>6 DEF r

LEMMA RemoveFirstOnce ==
    ASSUME NEW S, NEW s \in Seq(S), NEW x, Contains(s, x), NEW e
    PROVE  /\ Contains(RemoveFirst(s, x), e) => Contains(s, e)
           /\ Once(s, e) => Once(RemoveFirst(s, x), e)
           /\ Once(s, e) /\ x = e => ~Contains(RemoveFirst(s, x), e)
  BY RemoveFirstIsRemoveAt, RemoveAtOnce

-----------------------------------------------------------------------------
\* Types.

\* The places at which the shell holds on to an entry of the suspended list.
Resuming == {"bgcont", "bgdrop", "fgwait", "fgeintr", "fgagain"}

\* Whoever works on a job has one, and an entry that bg has yet to drop stays
\* where it is while the job is entered into the background list.
InHand ==
    /\ spc \in {"wait", "eintr", "block", "link"} \union Resuming => cur \in Jobs
    /\ hpc # "none" => hjob \in Jobs
    /\ spc = "read" => pos = 0
    /\ spc \in {"block", "link"} => pos = 0 \/ (pos \in DOMAIN susp /\ susp[pos] = cur)

TypeInv == TypeOK /\ InHand

LEMMA TypeInvInit == Init => TypeInv
<1> SUFFICES ASSUME Init PROVE TypeInv
  OBVIOUS
<1>1. back \in Seq(Jobs) /\ susp \in Seq(Jobs)
  BY DEF Init
<1>2. st \in [Jobs -> States] /\ tail \in Nat /\ resumes \in 0 .. MaxResumes
  BY MaxResumesAssumption DEF Init
<1> QED
  BY <1>1, <1>2, NamesAssumption DEF Init, TypeInv, TypeOK, InHand, Resuming

LEMMA TypeInvStep == TypeInv /\ [Next]_vars => TypeInv'
<1> SUFFICES ASSUME TypeInv, [Next]_vars PROVE TypeInv'
  OBVIOUS
<1> USE NamesAssumption, MaxResumesAssumption
    DEF TypeInv, TypeOK, InHand, Resuming, procs, flow, lists, handler, past
<1>1. ASSUME NEW j \in Jobs, SetUp(j) PROVE TypeInv'
  BY <1>1 DEF SetUp, Become
<1>2. ASSUME NEW j \in Jobs, End(j) \/ Kill(j) \/ Stop(j) \/ Resume(j) PROVE TypeInv'
  <2>1. Notify(j) /\ UNCHANGED <<mode, grouped, tty, flow, lists, masked, past>>
    BY <1>2 DEF End, Kill, Stop, Resume
  <2>2. PICK s \in States : st' = [st EXCEPT ![j] = s]
    BY <1>2 DEF End, Kill, Stop, Resume, Become
  <2>3. st' \in [Jobs -> States]
    BY <2>2
  <2>4. pend' \in Jobs \union {NoJob} /\ missed' \subseteq Jobs /\ UNCHANGED <<hpc, hjob, swallowed>>
    BY <2>1 DEF Notify
  <2> QED
    BY <2>1, <2>3, <2>4
<1>3. CASE Deliver
  BY <1>3 DEF Deliver, WaitIsInterrupted
<1>4. CASE Look
  <2>1. back' \in Seq(Jobs)
    BY <1>4, RemoveFirstType DEF Look
  <2> QED
    BY <1>4, <2>1 DEF Look, HandlerReturns
<1>5. CASE HandlerWait
  BY <1>5 DEF HandlerWait, HandlerReturns, Report, Become
<1>6. ASSUME NEW j \in Jobs, Launch(j) PROVE TypeInv'
  BY <1>6 DEF Launch, Become, Command, At
<1>7. CASE WaitReturns
  BY <1>7 DEF WaitReturns, Report, Become, Done, At
<1>8. CASE WaitInterrupted
  <2>1. cur \in Jobs /\ susp' \in Seq(Jobs)
    BY <1>8, AppendType DEF WaitInterrupted, SuspendWrongly, At
  <2> QED
    BY <1>8, <2>1 DEF WaitInterrupted, SuspendWrongly, Done, At
<1>9. CASE Block
  BY <1>9 DEF Block, At
<1>10. CASE Link
  <2>1. back' \in Seq(Jobs)
    BY <1>10, AppendType DEF Link, At
  <2>2. CASE pos = 0
    BY <1>10, <2>1, <2>2 DEF Link, Done, At
  <2>3. CASE pos # 0
    BY <1>10, <2>1, <2>3 DEF Link, At
  <2> QED
    BY <2>2, <2>3
<1>11. ASSUME NEW i \in DOMAIN susp, Bg(i) PROVE TypeInv'
  BY <1>11 DEF Bg, Pick, Command, At
<1>12. CASE BgContinue
  BY <1>12 DEF BgContinue, Continue, At
<1>18. CASE BgDrop
  <2>1. susp' \in Seq(Jobs)
    BY <1>18, RemoveAtType DEF BgDrop, At
  <2> QED
    BY <1>18, <2>1 DEF BgDrop, Done, At
<1>13. ASSUME NEW i \in DOMAIN susp, Fg(i) PROVE TypeInv'
  BY <1>13 DEF Fg, Pick, GiveTerminal, Continue, Command, At
<1>14. CASE FgReturns
  <2>1. cur \in Jobs /\ pos \in DOMAIN susp
    BY <1>14 DEF FgReturns, At
  <2>2. susp' = Append(susp, cur) \/ susp' = RemoveAt(susp, pos)
    BY <1>14 DEF FgReturns, SuspendWrongly
  <2>3. Append(susp, cur) \in Seq(Jobs) /\ RemoveAt(susp, pos) \in Seq(Jobs)
    BY <2>1, RemoveAtType, AppendType
  <2> QED
    BY <1>14, <2>1, <2>2, <2>3 DEF FgReturns, SuspendWrongly, Report, Become, Done, At
<1>15. CASE FgFails
  <2>1. cur \in Jobs /\ susp' \in Seq(Jobs)
    <3>1. spc = "fgeintr" \/ spc = "fgwait"
      BY <1>15 DEF FgFails, At
    <3>2. susp' = susp \/ susp' = Append(susp, cur)
      BY <1>15 DEF FgFails, SuspendWrongly
    <3> QED
      BY <3>1, <3>2, AppendType
  <2>2. CASE Done
    BY <1>15, <2>1, <2>2 DEF FgFails, SuspendWrongly, Done, At
  <2>3. CASE spc' = "fgagain"
    BY <1>15, <2>1, <2>3 DEF FgFails, SuspendWrongly, Done, At
  <2> QED
    BY <1>15, <2>2, <2>3 DEF FgFails
<1>16. CASE Exit \/ CutOff
  BY <1>16 DEF Exit, CutOff, Command, At
<1>17. CASE UNCHANGED vars
  BY <1>17 DEF vars
<1> QED
  BY <1>1, <1>2, <1>3, <1>4, <1>5, <1>6, <1>7, <1>8, <1>9, <1>10, <1>11, <1>12, <1>13, <1>14,
     <1>15, <1>16, <1>17, <1>18
     DEF Next, ProcessStep, HandlerStep, CommandStep, ShellStep, Halted

\* TypeOK: the entry that fg and bg took from the suspended list is at its place
\* until they have dropped it, whatever is appended meanwhile (main.c:219-264).
THEOREM TypeCorrect == Spec => []TypeOK
<1>1. TypeInv => TypeOK
  BY DEF TypeInv
<1> QED
  BY <1>1, TypeInvInit, TypeInvStep, PTL DEF Spec

-----------------------------------------------------------------------------
\* Jobs that live.

Living == {"forked", "run", "stopping", "stopped", "cont"}

\* A job that bg works on is in the background list too by the time its entry is
\* dropped from the other one, unless the handler has taken it from there.
Handed ==
    spc \in {"bgcont", "bgdrop"} /\ st[cur] \in Living =>
        \/ Contains(back, cur) \/ (hpc = "waitpid" /\ hjob = cur)
        \/ cur \in abandoned \union swallowed

KeptInv == IInv /\ TypeInv /\ Handed /\ JobsAreKept

LEMMA KeptInit == Init => KeptInv
  BY IInvInit, TypeInvInit DEF Init, KeptInv, Handed, JobsAreKept

LEMMA KeptStep == KeptInv /\ [Next]_vars => Handed' /\ JobsAreKept'
<1> SUFFICES ASSUME KeptInv, [Next]_vars PROVE Handed' /\ JobsAreKept'
  OBVIOUS
<1> USE NamesAssumption DEF KeptInv, TypeInv, TypeOK, InHand, Resuming, procs, flow, lists, handler,
        past, Handed, JobsAreKept, Kept, Living
<1>1. ASSUME NEW j \in Jobs, ProcessStep(j) PROVE Handed' /\ JobsAreKept'
  BY <1>1 DEF ProcessStep, SetUp, End, Kill, Stop, Resume, Become, Notify
<1>2. CASE Deliver
  BY <1>2 DEF Deliver, WaitIsInterrupted
<1>3. CASE Look
  <2>1. CASE Listed(hjob) /\ back' = RemoveFirst(back, hjob) /\ hpc' = "waitpid" /\ hjob' = hjob
    <3>1. \A e \in Jobs : e # hjob /\ Contains(back, e) => Contains(back', e)
      BY <2>1, RemoveFirstIsRemoveAt, RemoveAtKeeps DEF Listed
    <3> QED
      BY <1>3, <2>1, <3>1 DEF Look
  <2>2. CASE HandlerReturns /\ back' = back
    BY <1>3, <2>2 DEF Look, HandlerReturns
  <2> QED
    BY <1>3, <2>1, <2>2 DEF Look
<1>4. CASE HandlerWait
  BY <1>4 DEF HandlerWait, HandlerReturns, Report, Become
<1>5. ASSUME NEW j \in Jobs, Launch(j) PROVE Handed' /\ JobsAreKept'
  BY <1>5 DEF Launch, Become, Command, At
<1>6. CASE WaitReturns
  <2>1. /\ Contains(Append(susp, cur), cur)
        /\ \A e : Contains(susp, e) => Contains(Append(susp, cur), e)
    BY <1>6, AppendKeeps DEF WaitReturns, At
  <2> QED
    BY <1>6, <2>1 DEF WaitReturns, Report, Become, Done, At
<1>7. CASE WaitInterrupted
  <2>1. \A e : Contains(susp, e) => Contains(Append(susp, cur), e)
    BY <1>7, AppendKeeps DEF WaitInterrupted, At
  <2> QED
    BY <1>7, <2>1 DEF WaitInterrupted, SuspendWrongly, Done, At
<1>8. CASE Block
  BY <1>8 DEF Block, At
\* The new entry is not lost: SIGCHLD was blocked since tail was read.
<1>9. CASE Link
  <2>1. back' = Append(back, cur) /\ cur \in Jobs
    BY <1>9 DEF Link, At, IInv, Appending
  <2>2. /\ Contains(Append(back, cur), cur)
        /\ \A e : Contains(back, e) => Contains(Append(back, cur), e)
    BY <2>1, AppendKeeps
  <2> QED
    BY <1>9, <2>1, <2>2 DEF Link, Done, At
<1>10. ASSUME NEW i \in DOMAIN susp, Bg(i) PROVE Handed' /\ JobsAreKept'
  BY <1>10 DEF Bg, Pick, Command, At
<1>11. CASE BgContinue
  BY <1>11 DEF BgContinue, Continue, At
\* By Handed, the job whose entry goes has another hold.
<1>12. CASE BgDrop
  <2>1. \A e : e # cur /\ Contains(susp, e) => Contains(susp', e)
    BY <1>12, RemoveAtKeeps DEF BgDrop, At
  <2> QED
    BY <1>12, <2>1 DEF BgDrop, Done, At
<1>13. ASSUME NEW i \in DOMAIN susp, Fg(i) PROVE Handed' /\ JobsAreKept'
  BY <1>13 DEF Fg, Pick, Continue, Command, At
<1>14. CASE FgReturns
  <2>1. CASE susp' = Append(susp, cur)
    <3>1. /\ Contains(Append(susp, cur), cur)
          /\ \A e : Contains(susp, e) => Contains(Append(susp, cur), e)
      BY <1>14, AppendKeeps DEF FgReturns, At
    <3> QED
      BY <1>14, <2>1, <3>1 DEF FgReturns, SuspendWrongly, Report, Become, Done, At
  <2>2. CASE susp' = RemoveAt(susp, pos) /\ st'[cur] # "stopped"
    <3>1. \A e : e # cur /\ Contains(susp, e) => Contains(susp', e)
      BY <1>14, <2>2, RemoveAtKeeps DEF FgReturns, At
    <3> QED
      BY <1>14, <2>2, <3>1 DEF FgReturns, SuspendWrongly, Report, Waitable, Become, Done, At
  <2> QED
    BY <1>14, <2>1, <2>2 DEF FgReturns, SuspendWrongly
<1>15. CASE FgFails
  <2>1. \A e : Contains(susp, e) => Contains(Append(susp, cur), e)
    BY <1>15, AppendKeeps DEF FgFails, At
  <2> QED
    BY <1>15, <2>1 DEF FgFails, SuspendWrongly, Done, At
<1>16. CASE Exit \/ CutOff
  BY <1>16 DEF Exit, CutOff, Command, At
<1>17. CASE UNCHANGED vars
  BY <1>17 DEF vars
<1> QED
  BY <1>1, <1>2, <1>3, <1>4, <1>5, <1>6, <1>7, <1>8, <1>9, <1>10, <1>11, <1>12, <1>13, <1>14,
     <1>15, <1>16, <1>17 DEF Next, HandlerStep, CommandStep, ShellStep, Halted

\* A job that has been started and has not ended is in one of the two lists or
\* is being waited for or entered, whatever interrupts append_background, bg and
\* fg (main.c:178-264, 292-299); what the handler's own waitpid (main.c:190) and
\* an interrupted foreground wait (main.c:292) lose is all that can be lost.
THEOREM JobsAreKeptAlways == Spec => []JobsAreKept
<1>1. KeptInv /\ [Next]_vars => KeptInv'
  BY KeptStep, IInvStep, TypeInvStep DEF KeptInv
<1>2. KeptInv => JobsAreKept
  BY DEF KeptInv
<1> QED
  BY <1>1, <1>2, KeptInit, PTL DEF Spec

-----------------------------------------------------------------------------
\* Who waits for a job.

\* A waitpid on the job has something to report, now or later.
Live == {"forked", "run", "stopping", "cont", "zombie"}

Launched(j) == cur = j /\ spc \in Launching
Entering(j) == cur = j /\ spc \in {"block", "link"}
Continuing(j) == cur = j /\ spc = "bgcont"
Dropping(j) == cur = j /\ spc = "bgdrop"
Resumed(j) == cur = j /\ spc \in {"fgwait", "fgeintr", "fgagain"}
Awaited(j) == hpc = "waitpid" /\ hjob = j

\* The suspended list holds what has stopped; the entry that fg or bg works on
\* is still there, and bg's is on both lists for a while.
OnLists(j) ==
    /\ Once(back, j) /\ Once(susp, j)
    /\ st[j] = "none" => ~Contains(back, j) /\ ~Contains(susp, j)
    /\ Contains(susp, j) =>
           st[j] \in {"stopped", "zombie"} \/ Continuing(j) \/ Dropping(j) \/ Resumed(j)
    /\ Contains(back, j) => st[j] \in Live \/ (st[j] = "stopped" /\ Continuing(j))
    /\ Contains(susp, j) /\ Contains(back, j) => Continuing(j) \/ Dropping(j)

\* The main flow waits for a job that the handler leaves alone.
ByMain(j) ==
    /\ Launched(j) => st[j] \in Live /\ ~Contains(susp, j)
    /\ Resumed(j) => st[j] \in Live
    /\ Entering(j) /\ pos = 0 => st[j] \in Live /\ ~Contains(susp, j)
    /\ Entering(j) /\ pos # 0 => st[j] \in {"stopped", "zombie"}
    /\ Launched(j) \/ Entering(j) \/ Resumed(j) => ~Contains(back, j) /\ ~Awaited(j)

\* The handler waits for a job that is off the lists; one that bg is about to
\* continue can only have sent it a signal by being killed.
ByHandler(j) ==
    /\ Continuing(j) => st[j] \in {"stopped", "zombie", "gone"}
    /\ Awaited(j) => st[j] \in Live /\ ~Contains(back, j)
    /\ Awaited(j) /\ Contains(susp, j) => (Continuing(j) /\ st[j] = "zombie") \/ Dropping(j)
    /\ /\ Continuing(j) \/ (Entering(j) /\ pos # 0)
       /\ pend = j \/ (hpc = "look" /\ hjob = j)
       => st[j] \in {"zombie", "gone"}

Held(j) == OnLists(j) /\ ByMain(j) /\ ByHandler(j)

HeldInv == \A j \in Jobs \ misentered : Held(j)

LEMMA HeldInit == Init => HeldInv
  BY DEF Init, HeldInv, Held, OnLists, ByMain, ByHandler, Once, Contains, Launched, Entering,
         Continuing, Dropping, Resumed, Awaited

LEMMA HeldStep == TypeInv /\ HeldInv /\ [Next]_vars => HeldInv'
<1> SUFFICES ASSUME TypeInv, HeldInv, [Next]_vars, NEW j \in Jobs, j \notin misentered'
             PROVE  Held(j)'
  BY DEF HeldInv
<1> USE NamesAssumption DEF TypeInv, TypeOK, InHand, Resuming, procs, flow, lists, handler, past,
        Held, OnLists, ByMain, ByHandler, Launched, Entering, Continuing, Dropping, Resumed,
        Awaited, Live
<1>1. misentered \subseteq misentered' => Held(j)
  BY DEF HeldInv
<1>2. ASSUME NEW i \in Jobs, SetUp(i) PROVE Held(j)'
  BY <1>1, <1>2 DEF SetUp, Become
<1>3. ASSUME NEW i \in Jobs, End(i) PROVE Held(j)'
  BY <1>1, <1>3 DEF End, Become, Notify
<1>4. ASSUME NEW i \in Jobs, Kill(i) PROVE Held(j)'
  BY <1>1, <1>4 DEF Kill, Become, Notify
<1>5. ASSUME NEW i \in Jobs, Stop(i) \/ Resume(i) PROVE Held(j)'
  BY <1>1, <1>5 DEF Stop, Resume, Become, Notify
<1>6. CASE Deliver
  BY <1>1, <1>6 DEF Deliver, WaitIsInterrupted
<1>7. CASE Look
  <2>1. CASE Listed(hjob) /\ back' = RemoveFirst(back, hjob) /\ hpc' = "waitpid" /\ hjob' = hjob
    <3>1. /\ Contains(back', j) => Contains(back, j)
          /\ Once(back, j) => Once(back', j)
          /\ Once(back, j) /\ hjob = j => ~Contains(back', j)
      BY <2>1, RemoveFirstOnce DEF Listed
    <3> QED
      BY <1>1, <1>7, <2>1, <3>1 DEF Look, Listed
  <2>2. CASE HandlerReturns /\ back' = back
    BY <1>1, <1>7, <2>2 DEF Look, HandlerReturns
  <2> QED
    BY <1>7, <2>1, <2>2 DEF Look
<1>8. CASE HandlerWait
  BY <1>1, <1>8 DEF HandlerWait, HandlerReturns, Report, Waitable, Become
<1>9. ASSUME NEW i \in Jobs, Launch(i) PROVE Held(j)'
  BY <1>1, <1>9 DEF Launch, Become, Command, At
<1>10. CASE WaitReturns
  <2>1. /\ Contains(Append(susp, cur), j) => j = cur \/ Contains(susp, j)
        /\ Once(susp, j) /\ (j # cur \/ ~Contains(susp, j)) => Once(Append(susp, cur), j)
    BY <1>10, AppendOnce DEF WaitReturns, At
  <2> QED
    BY <1>1, <1>10, <2>1 DEF WaitReturns, Report, Waitable, Become, Done, At
<1>11. CASE WaitInterrupted
  <2>1. cur # j => /\ Contains(Append(susp, cur), j) => Contains(susp, j)
                   /\ Once(susp, j) => Once(Append(susp, cur), j)
    BY <1>11, AppendOnce DEF WaitInterrupted, At
  <2> QED
    BY <1>1, <1>11, <2>1 DEF WaitInterrupted, SuspendWrongly, Done, At
<1>12. CASE Block
  BY <1>1, <1>12 DEF Block, At
<1>13. CASE Link
  <2>1. /\ Contains(Append(back, cur), j) => j = cur \/ Contains(back, j)
        /\ Once(back, j) /\ (j # cur \/ ~Contains(back, j)) => Once(Append(back, cur), j)
    BY <1>13, AppendOnce DEF Link, At
  <2>2. back' = back \/ back' = Append(back, cur)
    BY <1>13 DEF Link
  <2>3. CASE pos = 0
    BY <1>1, <1>13, <2>1, <2>2, <2>3 DEF Link, Done, At
  <2>4. CASE pos # 0
    BY <1>1, <1>13, <2>1, <2>2, <2>4 DEF Link, At
  <2> QED
    BY <2>3, <2>4
<1>14. ASSUME NEW i \in DOMAIN susp, Bg(i) PROVE Held(j)'
  <2>1. i \in 1 .. Len(susp) /\ susp[i] \in Jobs
    OBVIOUS
  <2>2. Contains(susp, susp[i])
    BY <2>1 DEF Contains
  <2> QED
    BY <1>1, <1>14, <2>1, <2>2 DEF Bg, Pick, Command, At
<1>15. CASE BgContinue
  BY <1>1, <1>15 DEF BgContinue, Continue, At
<1>21. CASE BgDrop
  <2>1. /\ Contains(susp', j) => Contains(susp, j)
        /\ Once(susp, j) => Once(susp', j)
        /\ Once(susp, j) /\ cur = j => ~Contains(susp', j)
    BY <1>21, RemoveAtOnce DEF BgDrop, At
  <2> QED
    BY <1>1, <1>21, <2>1 DEF BgDrop, Done, At
<1>16. ASSUME NEW i \in DOMAIN susp, Fg(i) PROVE Held(j)'
  <2>1. i \in 1 .. Len(susp) /\ susp[i] \in Jobs
    OBVIOUS
  <2>2. Contains(susp, susp[i])
    BY <2>1 DEF Contains
  <2> QED
    BY <1>1, <1>16, <2>1, <2>2 DEF Fg, Pick, Continue, Command, At
<1>17. CASE FgReturns
  <2>1. CASE susp' = Append(susp, cur) /\ cur # j
    <3>1. Contains(susp', j) => Contains(susp, j)
      BY <1>17, <2>1, AppendOnce DEF FgReturns, At
    <3>2. Once(susp, j) => Once(susp', j)
      BY <1>17, <2>1, AppendOnce DEF FgReturns, At
    <3> QED
      BY <1>1, <1>17, <2>1, <3>1, <3>2 DEF FgReturns, SuspendWrongly, Report, Waitable, Become, Done, At
  <2>2. CASE susp' = RemoveAt(susp, pos) /\ st'[cur] # "stopped"
    <3>1. /\ Contains(susp', j) => Contains(susp, j)
          /\ Once(susp, j) => Once(susp', j)
          /\ Once(susp, j) /\ cur = j => ~Contains(susp', j)
      BY <1>17, <2>2, RemoveAtOnce DEF FgReturns, At
    <3> QED
      BY <1>1, <1>17, <2>2, <3>1 DEF FgReturns, SuspendWrongly, Report, Waitable, Become, Done, At
  <2> QED
    BY <1>17, <2>1, <2>2 DEF FgReturns, SuspendWrongly
<1>18. CASE FgFails
  <2>1. cur # j => /\ Contains(Append(susp, cur), j) => Contains(susp, j)
                   /\ Once(susp, j) => Once(Append(susp, cur), j)
    BY <1>18, AppendOnce DEF FgFails, At
  <2>2. CASE Done
    BY <1>1, <1>18, <2>1, <2>2 DEF FgFails, SuspendWrongly, Done, At
  <2>3. CASE spc' = "fgagain"
    BY <1>1, <1>18, <2>3 DEF FgFails, SuspendWrongly, Done, At
  <2> QED
    BY <1>18, <2>2, <2>3 DEF FgFails
<1>19. CASE Exit \/ CutOff
  BY <1>1, <1>19 DEF Exit, CutOff, Command, At
<1>20. CASE UNCHANGED vars
  BY <1>1, <1>20 DEF vars
<1> QED
  BY <1>2, <1>3, <1>4, <1>5, <1>6, <1>7, <1>8, <1>9, <1>10, <1>11, <1>12, <1>13, <1>14, <1>15,
     <1>16, <1>17, <1>18, <1>19, <1>20, <1>21
     DEF Next, ProcessStep, HandlerStep, CommandStep, ShellStep, Halted

\* StuckOnlyIfMisentered: fg's waitpid (main.c:247) and the handler's
\* (main.c:190) have a process whose end or stop is still to be reported, unless
\* the job is one that was entered as suspended wrongly.
THEOREM StuckOnlyIfMisenteredAlways == Spec => []StuckOnlyIfMisentered
<1>1. TypeInv /\ HeldInv => StuckOnlyIfMisentered
  <2> SUFFICES ASSUME TypeInv, HeldInv, Stuck, cur \notin misentered, hjob \notin misentered
               PROVE  FALSE
    BY DEF StuckOnlyIfMisentered
  <2>1. CASE (At("fgwait") \/ At("fgagain")) /\ st[cur] \in {"gone", "stopped"}
    <3>1. Held(cur) /\ Resumed(cur)
      BY <2>1 DEF TypeInv, InHand, Resuming, HeldInv, Resumed, At
    <3> QED
      BY <2>1, <3>1 DEF Held, ByMain, Live
  <2>2. CASE hpc = "waitpid" /\ st[hjob] = "stopped"
    <3>1. Held(hjob) /\ Awaited(hjob)
      BY <2>2 DEF TypeInv, InHand, HeldInv, Awaited
    <3> QED
      BY <2>2, <3>1 DEF Held, ByHandler, Live
  <2> QED
    BY <2>1, <2>2 DEF Stuck
<1> QED
  BY <1>1, TypeInvInit, TypeInvStep, HeldInit, HeldStep, PTL DEF Spec
=============================================================================
