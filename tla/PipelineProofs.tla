--------------------------- MODULE PipelineProofs ---------------------------
(***************************************************************************)
(* Proofs about a line of programs, for any number of programs and any     *)
(* sizes of pipes and inputs: its output is what the line means.           *)
(*                                                                         *)
(* The argument counts what each program has written, w[i], which is not   *)
(* part of the state.  Nothing but program i writes to pipe i+1, so w is   *)
(* what has been read from a pipe and what is still in it.                 *)
(***************************************************************************)
EXTENDS Pipeline, WellFoundedInduction, TLAPS

Capped(n) == Least(n, Many)
InHand(i) == IF i \in has THEN 1 ELSE 0

\* The line itself, which never changes.
Fixed ==
    /\ prog[0] \in Sources
    /\ \A i \in 1 .. last : prog[i] \in Filters

\* Processes come into being from the end of the line on, and those that are
\* executed have a program.
Shape ==
    /\ \A i \in Procs : i > last => pc[i] = "none"
    /\ \A i \in 1 .. last : pc[i] \in {"none", "born"} => pc[i - 1] = "none"
    /\ \A i \in 1 .. last : opens /\ pc[i] \notin {"none", "born"} => pc[i - 1] # "none"
    /\ pc[last] # "none"
    /\ ~opens => pc[last] \in {"born", "ended"} /\ out = 0 /\ \A i \in 0 .. last - 1 : pc[i] = "none"
    /\ \A i \in Procs : pc[i] = "run" => prog[i] # "missing"
    /\ \A i \in Procs : pc[i] = "waiting" => prog[i] = "missing"
    /\ pc[0] \notin {"forked", "waiting"}
    /\ \A i \in has : pc[i] = "run"
    /\ prog[0] = "endless" => left = Many
    /\ shell = "prompt" => pc[last] = "ended"

\* No program has written more than it should, and head at most once.
Bounded(w) == \A i \in 0 .. last : Capped(w[i]) <= Flow(i)
Once(w) == \A i \in 0 .. last : prog[i] = "head" /\ pc[i] # "ended" => w[i] = 0

\* What a program has written is in the next pipe, in the next program's hands,
\* or written by that in its turn.
Balanced(w) ==
    \A i \in 1 .. last : pc[i] # "ended" => w[i - 1] = pipe[i] + InHand(i) + w[i]

FirstBalanced(w) ==
    pc[0] # "ended" /\ prog[0] = "finite" => w[0] + InHand(0) + left = Items

\* A program that has ended had written everything or lost its reader.
Complete(w) ==
    opens => \A i \in 0 .. last : pc[i] = "ended" =>
        Capped(w[i]) = Flow(i) \/ (i # last /\ pc[i + 1] = "ended")

Counts(w) ==
    /\ out = Capped(w[last])
    /\ Bounded(w) /\ Once(w) /\ Balanced(w) /\ FirstBalanced(w) /\ Complete(w)

IInv == TypeOK /\ Fixed /\ Shape /\ \E w \in [Procs -> Nat] : Counts(w)

-----------------------------------------------------------------------------
\* Arithmetic, and the meaning of a line program by program.

LEMMA Sizes ==
    /\ N \in Nat \ {0} /\ Capacity \in Nat \ {0} /\ Items \in Nat \ {0}
    /\ Many \in Nat /\ Many > Items /\ 0 \in Procs
  BY SizesAssumption DEF Many, Procs

LEMMA FirstFlow ==
    ASSUME TypeOK, Fixed
    PROVE  /\ prog[0] = "missing" => Flow(0) = 0
           /\ prog[0] = "finite" => Flow(0) = Items
           /\ prog[0] = "endless" => Flow(0) = Many
<1>1. 0 .. 0 = {0}
  OBVIOUS
<1>2. prog[0] # "head"
  BY DEF Fixed, Sources
<1> QED
  BY <1>1, <1>2 DEF Flow, Fixed, Sources

LEMMA NextFlow ==
    ASSUME TypeOK, Fixed, NEW i \in 1 .. last
    PROVE  /\ prog[i] = "missing" => Flow(i) = 0
           /\ prog[i] = "copy" => Flow(i) = Flow(i - 1)
           /\ prog[i] = "head" => Flow(i) = Least(1, Flow(i - 1))
<1>1. 0 .. i = (0 .. i - 1) \union {i} /\ i \in 0 .. i
  BY DEF TypeOK, Procs
<1>2. CASE prog[i] = "missing"
  BY <1>1, <1>2 DEF Flow
<1>3. CASE prog[i] = "copy"
  BY <1>1, <1>3 DEF Flow
<1>4. CASE prog[i] = "head"
  <2>1. Least(1, 0) = 0 /\ Least(1, 1) = 1 /\ Least(1, Items) = 1 /\ Least(1, Many) = 1
    BY Sizes DEF Least
  <2> QED
    BY <1>1, <1>4, <2>1 DEF Flow
<1> QED
  BY <1>2, <1>3, <1>4 DEF Fixed, Filters

LEMMA FlowType ==
    ASSUME NEW i
    PROVE  Flow(i) \in 0 .. Many
  BY Sizes DEF Flow

\* Neither a step of the line nor the terminal changes what it means.
LEMMA FlowKept ==
    ASSUME UNCHANGED line, NEW i
    PROVE  Flow(i)' = Flow(i)
  BY DEF line, Flow

-----------------------------------------------------------------------------
\* The first states.

LEMMA IInvInit == Init => IInv
<1> SUFFICES ASSUME Init
             PROVE  IInv
  OBVIOUS
<1>0. last \in Procs /\ last \in Nat /\ N \in Nat /\ Procs = 0 .. N - 1
  BY Sizes DEF Procs, Init
<1>1. prog \in [Procs -> Sources \union Filters]
  BY DEF Init
<1>2. prog[0] \in Sources /\ \A i \in 1 .. last : prog[i] \in Filters
  <2>1. \A i \in Procs : prog[i] \in CASE i = 0 -> Sources
                                       [] i \in 1 .. last -> Filters
                                       [] OTHER -> {"missing"}
    BY DEF Init
  <2>2. \A i \in 1 .. last : i \in Procs /\ i # 0
    BY <1>0
  <2> QED
    BY <2>1, <2>2, Sizes
<1>3. /\ pc = [i \in Procs |-> IF i = last THEN "born" ELSE "none"]
      /\ opens \in BOOLEAN /\ susp = [i \in Procs |-> "no"]
      /\ has = {} /\ pipe = [i \in Procs |-> 0] /\ out = 0
      /\ left = IF prog[0] = "endless" THEN Many ELSE Items
      /\ shell = "wait" /\ pressed = FALSE /\ terminal = FALSE
  BY DEF Init
<1>4. TypeOK
  <2>1. last \in Procs /\ {opens, pressed, terminal} \subseteq BOOLEAN
    BY <1>0, <1>3
  <2>2. pc \in [Procs -> {"none", "born", "forked", "run", "waiting", "ended"}]
    BY <1>3
  <2>3. susp \in [Procs -> {"no", "stopped", "caught"}] /\ pipe \in [Procs -> 0 .. Capacity]
    BY <1>3, Sizes
  <2>4. has \subseteq Procs /\ left \in 0 .. Many /\ out \in 0 .. Many
    BY <1>3, Sizes
  <2>5. shell \in {"wait", "stopped", "prompt"}
    BY <1>3
  <2> QED
    BY <1>1, <2>1, <2>2, <2>3, <2>4, <2>5 DEF TypeOK
<1>5. Fixed
  BY <1>2 DEF Fixed
<1>6. Shape
  <2>1. \A i \in 1 .. last : i \in Procs /\ i - 1 \in Procs /\ i - 1 # last
    BY <1>0
  <2>2. \A i \in 0 .. last - 1 : i \in Procs /\ i # last
    BY <1>0
  <2>3. \A i \in Procs : pc[i] = IF i = last THEN "born" ELSE "none"
    BY <1>3
  <2>4. /\ pc[last] = "born"
        /\ \A i \in 1 .. last : pc[i - 1] = "none"
        /\ \A i \in 1 .. last : pc[i] \in {"none", "born"}
        /\ \A i \in Procs : pc[i] \in {"none", "born"}
    BY <1>0, <2>1, <2>3
  <2>5. \A i \in Procs : i > last => pc[i] = "none"
    BY <1>0, <2>3
  <2>6. \A i \in 0 .. last - 1 : pc[i] = "none"
    BY <2>2, <2>3
  <2> QED
    BY <1>3, <2>4, <2>5, <2>6, Sizes DEF Shape
<1>7. Counts([i \in Procs |-> 0])
  <2> DEFINE w == [i \in Procs |-> 0]
  <2>1. \A i \in Procs : w[i] = 0 /\ pipe[i] = 0 /\ InHand(i) = 0 /\ pc[i] # "ended"
    BY <1>3 DEF InHand
  <2>2. Capped(0) = 0
    BY Sizes DEF Capped, Least
  <2>3. \A i \in 1 .. last : i \in Procs /\ i - 1 \in Procs
    BY <1>0
  <2>4. \A i \in 0 .. last : i \in Procs
    BY <1>0
  <2>5. out = Capped(w[last])
    BY <1>0, <1>3, <2>1, <2>2
  <2>6. Bounded(w)
    BY <2>1, <2>2, <2>4, FlowType, Sizes DEF Bounded
  <2>7. Once(w) /\ Complete(w)
    BY <2>1, <2>4 DEF Once, Complete
  <2>8. Balanced(w)
    BY <2>1, <2>3 DEF Balanced
  <2>9. FirstBalanced(w)
    BY <1>3, <2>1, Sizes DEF FirstBalanced
  <2> QED
    BY <2>5, <2>6, <2>7, <2>8, <2>9 DEF Counts
<1> QED
  BY <1>4, <1>5, <1>6, <1>7, Sizes DEF IInv

-----------------------------------------------------------------------------
\* Steps: types and shape.

LEMMA TypeStep == TypeOK /\ [Next]_vars => TypeOK'
<1> SUFFICES ASSUME TypeOK, [Next]_vars
             PROVE  TypeOK'
  OBVIOUS
<1> USE Sizes DEF TypeOK
<1>1. CASE UNCHANGED vars
  BY <1>1 DEF vars, line, data, job
<1>2. ASSUME NEW i \in Procs, ProcStep(i)
      PROVE  TypeOK'
  <2> USE DEF At, line, job
  <2>1. CASE Begin(i)
    BY <2>1 DEF Begin, ExecTo, data
  <2>2. CASE Exec(i)
    BY <2>2 DEF Exec, Goto, ExecTo, data
  <2>3. CASE Reap(i)
    BY <2>3 DEF Reap, Goto, data
  <2>4. CASE Read(i)
    <3>1. pipe' \in [Procs -> 0 .. Capacity] /\ left' \in 0 .. Many
      BY <2>4 DEF Read
    <3> QED
      BY <2>4, <3>1 DEF Read
  <2>5. CASE Finish(i)
    BY <2>5 DEF Finish, Goto, data
  <2>6. CASE Write(i)
    <3>1. pipe' \in [Procs -> 0 .. Capacity] /\ out' \in 0 .. Many
      BY <2>6 DEF Write, Least, HasRoom
    <3> QED
      BY <2>6, <3>1 DEF Write, Goto
  <2>7. CASE TakeTerminal(i)
    BY <2>7 DEF TakeTerminal, data
  <2> QED
    BY <1>2, <2>1, <2>2, <2>3, <2>4, <2>5, <2>6, <2>7 DEF ProcStep
<1>3. CASE CtrlZ
  BY <1>3 DEF CtrlZ, line, data
<1>4. CASE WaitReturns
  BY <1>4 DEF WaitReturns, line, data
<1>5. CASE Fg
  BY <1>5 DEF Fg, line, data
<1> QED
  BY <1>1, <1>2, <1>3, <1>4, <1>5 DEF Next

\* A process that is there belongs to the line.
LEMMA Present ==
    ASSUME TypeOK, Shape, NEW i \in Procs, pc[i] # "none"
    PROVE  i \in 0 .. last /\ last \in Nat /\ (pc[i] \notin {"born", "ended"} => opens)
<1>1. i \in 0 .. last /\ last \in Nat
  BY Sizes DEF TypeOK, Shape, Procs
<1>2. ~opens => pc[i] \in {"born", "ended"}
  BY <1>1 DEF Shape
<1> QED
  BY <1>1, <1>2

\* A process goes from one place after its fork to a later one.
LEMMA Advance ==
    ASSUME TypeOK, Shape, UNCHANGED <<line, shell>>,
           NEW i \in Procs, pc[i] \notin {"none", "born", "ended"},
           NEW v \in {"run", "waiting", "ended"}, Goto(i, v),
           v = "run" => prog[i] # "missing",
           v = "waiting" => prog[i] = "missing" /\ i # 0,
           \A j \in has' : pc'[j] = "run",
           prog[0] = "endless" => left' = Many
    PROVE  Shape'
<1>1. i \in 0 .. last /\ last \in Nat /\ opens
  BY Present
<1>2. pc' = [pc EXCEPT ![i] = v] /\ pc \in [Procs -> {"none", "born", "forked", "run", "waiting", "ended"}]
  BY DEF Goto, TypeOK
<1>3. last' = last /\ prog' = prog /\ opens' = opens /\ shell' = shell /\ last \in Procs
  BY DEF line, TypeOK
<1>4. \A j \in 1 .. last : j \in Procs /\ j - 1 \in Procs
  BY <1>3, Sizes DEF Procs
<1>5. \A j \in Procs : /\ pc'[j] \in {"none", "born"} <=> pc[j] \in {"none", "born"}
                       /\ pc'[j] = "none" <=> pc[j] = "none"
                       /\ j # i => pc'[j] = pc[j]
                       /\ pc'[i] = v
  BY <1>2
<1>6. \A j \in Procs : j > last => pc'[j] = "none"
  BY <1>5 DEF Shape
<1>7. \A j \in 1 .. last : /\ pc'[j] \in {"none", "born"} => pc'[j - 1] = "none"
                           /\ opens /\ pc'[j] \notin {"none", "born"} => pc'[j - 1] # "none"
  BY <1>4, <1>5 DEF Shape
<1>8. pc'[last] # "none" /\ (shell = "prompt" => pc'[last] = "ended")
  BY <1>3, <1>5 DEF Shape
<1>9. /\ \A j \in Procs : pc'[j] = "run" => prog[j] # "missing"
      /\ \A j \in Procs : pc'[j] = "waiting" => prog[j] = "missing"
      /\ pc'[0] \notin {"forked", "waiting"}
  BY <1>5, Sizes DEF Shape
<1> QED
  BY <1>1, <1>3, <1>6, <1>7, <1>8, <1>9 DEF Shape

LEMMA BeginShape ==
    ASSUME TypeOK, Fixed, Shape, NEW i \in Procs, Begin(i)
    PROVE  Shape'
<1>1. i \in 0 .. last /\ last \in Nat /\ last \in Procs
  BY Present DEF Begin, At, TypeOK
<1>2. last' = last /\ prog' = prog /\ opens' = opens /\ shell' = shell
  BY DEF Begin, At, line, job
<1>3. has' = has /\ left' = left /\ out' = out /\ pc[i] = "born"
  BY DEF Begin, At, data
<1>4. \A j \in 1 .. last : j \in Procs /\ j - 1 \in Procs
  BY <1>1, Sizes DEF Procs
<1>5. pc \in [Procs -> {"none", "born", "forked", "run", "waiting", "ended"}]
  BY DEF TypeOK
<1>6. i # 0 => pc[i - 1] = "none"
  BY <1>1, <1>3 DEF Shape
<1>7. CASE i = last /\ ~opens
  <2>1. pc' = [pc EXCEPT ![last] = "ended"]
    BY <1>7 DEF Begin
  <2>2. \A j \in 0 .. last - 1 : j \in Procs /\ j # last
    BY <1>1, Sizes DEF Procs
  <2>3. pc'[last] = "ended" /\ \A j \in Procs : j # last => pc'[j] = "none"
    <3>1. /\ \A j \in 0 .. last - 1 : pc[j] = "none"
          /\ \A j \in Procs : j > last => pc[j] = "none"
      BY <1>7 DEF Shape
    <3>2. \A j \in Procs : j # last => j > last \/ j \in 0 .. last - 1
      BY <1>1, Sizes DEF Procs
    <3>3. \A j \in Procs : j # last => pc[j] = "none"
      BY <3>1, <3>2
    <3> QED
      BY <1>1, <1>5, <2>1, <3>3
  <2>4. \A j \in 1 .. last : pc'[j - 1] = "none"
    BY <1>1, <1>4, <2>3
  <2>5. has = {} /\ out = 0
    <3>1. \A j \in has : pc[j] = "run" /\ j \in Procs
      BY DEF Shape, TypeOK
    <3>2. pc[last] = "born"
      BY <1>3, <1>7
    <3>3. \A j \in has : j = last \/ pc'[j] = pc[j]
      BY <1>5, <2>1, <3>1
    <3>4. \A j \in has : FALSE
      BY <2>3, <3>1, <3>2, <3>3
    <3> QED
      BY <1>7, <3>4 DEF Shape
  <2>6. prog[0] = "endless" => left = Many
    BY DEF Shape
  <2>7. /\ \A j \in Procs : pc'[j] \notin {"run", "waiting"}
        /\ \A j \in Procs : j > last => pc'[j] = "none"
        /\ \A j \in 0 .. last - 1 : pc'[j] = "none"
        /\ pc'[0] \notin {"forked", "waiting"}
    BY <1>1, <2>2, <2>3, Sizes
  <2> QED
    BY <1>2, <1>3, <1>7, <2>3, <2>4, <2>5, <2>6, <2>7 DEF Shape
<1>8. CASE i = 0 /\ ~(i = last /\ ~opens)
  <2>1. pc' = [pc EXCEPT ![0] = ExecTo(0)]
    BY <1>8 DEF Begin
  <2>2. ExecTo(0) \in {"run", "ended"} /\ (ExecTo(0) = "run" => prog[0] # "missing")
    BY DEF ExecTo
  <2>3. opens
    BY <1>1, <1>3, <1>8 DEF Shape
  <2>4. \A j \in Procs : j # 0 => pc'[j] = pc[j]
    BY <1>5, <2>1
  <2>5. pc'[0] = ExecTo(0)
    BY <1>5, <2>1, Sizes
  <2>6. \A j \in 1 .. last : j # 0 /\ pc'[j] = pc[j]
    BY <1>1, <1>4, <2>4
  <2>7. pc[0] = "born" /\ pc'[0] \in {"run", "ended"}
    BY <1>3, <1>8, <2>2, <2>5
  <2>8. /\ \A j \in 1 .. last : pc'[j] \in {"none", "born"} => pc'[j - 1] = "none"
        /\ \A j \in 1 .. last : pc'[j] \notin {"none", "born"} => pc'[j - 1] # "none"
    <3> SUFFICES ASSUME NEW j \in 1 .. last
                 PROVE  /\ pc'[j] \in {"none", "born"} => pc'[j - 1] = "none"
                        /\ pc'[j] \notin {"none", "born"} => pc'[j - 1] # "none"
      OBVIOUS
    <3>1. /\ pc[j] \in {"none", "born"} => pc[j - 1] = "none"
          /\ pc[j] \notin {"none", "born"} => pc[j - 1] # "none"
      BY <2>3 DEF Shape
    <3>2. j - 1 = 0 => pc[j] \notin {"none", "born"}
      BY <2>7, <3>1
    <3> QED
      BY <1>4, <2>4, <2>6, <2>7, <3>1, <3>2
  <2>9. pc'[last] # "none" /\ (shell = "prompt" => pc'[last] = "ended")
    <3>1. pc[last] # "none" /\ (shell = "prompt" => pc[last] = "ended")
      BY DEF Shape
    <3> QED
      BY <1>1, <2>4, <2>7, <3>1
  <2>10. /\ \A j \in Procs : j > last => pc'[j] = "none"
         /\ \A j \in Procs : pc'[j] = "run" => prog[j] # "missing"
         /\ \A j \in Procs : pc'[j] = "waiting" => prog[j] = "missing"
    BY <1>1, <2>2, <2>4, <2>5, <2>7 DEF Shape
  <2>11. \A j \in has : pc'[j] = "run"
    BY <2>4, <2>7 DEF Shape, TypeOK
  <2>12. prog[0] = "endless" => left = Many
    BY DEF Shape
  <2> QED
    BY <1>2, <1>3, <2>3, <2>7, <2>8, <2>9, <2>10, <2>11, <2>12 DEF Shape
<1>9. CASE i # 0 /\ ~(i = last /\ ~opens)
  <2>1. pc' = [pc EXCEPT ![i] = "forked", ![i - 1] = "born"]
    BY <1>9 DEF Begin
  <2>2. opens
    BY <1>1, <1>3, <1>9 DEF Shape
  <2>3. i \in 1 .. last /\ i - 1 \in Procs /\ i - 1 # i
    BY <1>1, <1>4, <1>9
  <2>4. pc'[i] = "forked" /\ pc'[i - 1] = "born" /\ \A j \in Procs : j # i /\ j # i - 1 => pc'[j] = pc[j]
    BY <1>5, <2>1, <2>3
  <2>5. \A j \in Procs : j > last => pc'[j] = "none"
    BY <1>1, <2>3, <2>4 DEF Shape
  <2>6. \A j \in 1 .. last : pc'[j] \in {"none", "born"} => pc'[j - 1] = "none"
    <3> SUFFICES ASSUME NEW j \in 1 .. last, pc'[j] \in {"none", "born"}
                 PROVE  pc'[j - 1] = "none"
      OBVIOUS
    <3>1. j # i /\ pc[j] \in {"none", "born"}
      BY <1>4, <1>6, <1>9, <2>4
    <3>2. pc[j - 1] = "none"
      BY <3>1 DEF Shape
    <3>3. j - 1 # i /\ j - 1 # i - 1
      BY <1>3, <2>3, <3>1, <3>2
    <3> QED
      BY <1>4, <2>4, <3>2, <3>3
  <2>7. \A j \in 1 .. last : pc'[j] \notin {"none", "born"} => pc'[j - 1] # "none"
    <3> SUFFICES ASSUME NEW j \in 1 .. last, pc'[j] \notin {"none", "born"}
                 PROVE  pc'[j - 1] # "none"
      OBVIOUS
    <3>1. CASE j = i
      BY <2>4, <3>1
    <3>2. CASE j # i
      <4>1. j # i - 1 /\ pc[j] \notin {"none", "born"}
        BY <1>4, <2>4, <3>2
      <4>2. pc[j - 1] # "none"
        BY <2>2, <4>1 DEF Shape
      <4> QED
        BY <1>4, <2>4, <4>2
    <3> QED
      BY <3>1, <3>2
  <2>8. pc'[last] # "none" /\ (shell = "prompt" => pc'[last] = "ended")
    BY <1>1, <1>3, <2>3, <2>4 DEF Shape
  <2>9. /\ \A j \in Procs : pc'[j] = "run" => prog[j] # "missing"
        /\ \A j \in Procs : pc'[j] = "waiting" => prog[j] = "missing"
        /\ pc'[0] \notin {"forked", "waiting"}
    BY <1>9, <2>3, <2>4, Sizes DEF Shape
  <2>10. \A j \in has : pc'[j] = "run"
    <3> SUFFICES ASSUME NEW j \in has
                 PROVE  pc'[j] = "run"
      OBVIOUS
    <3>1. pc[j] = "run" /\ j \in Procs
      BY DEF Shape, TypeOK
    <3> QED
      BY <1>3, <1>6, <1>9, <2>4, <3>1
  <2>11. left' = left /\ (prog[0] = "endless" => left' = Many)
    BY <1>3 DEF Shape
  <2> QED
    BY <1>2, <1>3, <2>2, <2>5, <2>6, <2>7, <2>8, <2>9, <2>10, <2>11 DEF Shape
<1> QED
  BY <1>7, <1>8, <1>9

-----------------------------------------------------------------------------
\* Steps: the counts.

\* A step that moves no item, and ends only programs that have written
\* everything.
LEMMA Quiet ==
    ASSUME TypeOK, NEW w, Counts(w), UNCHANGED <<line, data>>,
           \A j \in 0 .. last : pc[j] = "ended" => pc'[j] = "ended",
           opens => \A j \in 0 .. last :
               pc'[j] = "ended" => pc[j] = "ended" \/ Capped(w[j]) = Flow(j)
    PROVE  Counts(w)'
<1>1. last' = last /\ prog' = prog /\ opens' = opens /\ last \in Nat
  BY DEF line, TypeOK, Procs
<1>2. has' = has /\ left' = left /\ pipe' = pipe /\ out' = out
  BY DEF data
<1>3. \A j : Flow(j)' = Flow(j)
  BY <1>1 DEF Flow
<1>4. \A j \in 1 .. last : j \in 0 .. last
  OBVIOUS
<1>5. Bounded(w)' /\ (out = Capped(w[last]))'
  BY <1>1, <1>2, <1>3 DEF Counts, Bounded
<1>6. Once(w)'
  BY <1>1 DEF Counts, Once
<1>7. Balanced(w)'
  BY <1>1, <1>2, <1>4 DEF Counts, Balanced, InHand
<1>8. FirstBalanced(w)'
  BY <1>1, <1>2 DEF Counts, FirstBalanced, InHand
<1>9. Complete(w)'
  <2> SUFFICES ASSUME opens, NEW j \in 0 .. last, pc'[j] = "ended"
               PROVE  Capped(w[j]) = Flow(j) \/ (j # last /\ pc'[j + 1] = "ended")
    BY <1>1, <1>3 DEF Complete
  <2>1. pc[j] = "ended" \/ Capped(w[j]) = Flow(j)
    OBVIOUS
  <2>2. CASE pc[j] = "ended"
    <3>1. Capped(w[j]) = Flow(j) \/ (j # last /\ pc[j + 1] = "ended")
      BY <2>2 DEF Counts, Complete
    <3>2. j # last => j + 1 \in 0 .. last
      BY <1>1
    <3> QED
      BY <3>1, <3>2
  <2> QED
    BY <2>1, <2>2
<1> QED
  BY <1>5, <1>6, <1>7, <1>8, <1>9 DEF Counts

\* A missing program's output, none, is complete.
LEMMA MissingIsComplete ==
    ASSUME TypeOK, Fixed, NEW w \in [Procs -> Nat], Bounded(w),
           NEW i \in 0 .. last, prog[i] = "missing"
    PROVE  Capped(w[i]) = Flow(i)
<1>1. i \in Procs /\ (i = 0 \/ i \in 1 .. last)
  BY Sizes DEF TypeOK, Procs
<1>2. Flow(i) = 0
  BY <1>1, FirstFlow, NextFlow
<1> QED
  BY <1>1, <1>2, Sizes DEF Bounded, Capped, Least

LEMMA BeginCounts ==
    ASSUME TypeOK, Fixed, Shape, NEW w \in [Procs -> Nat], Counts(w), NEW i \in Procs, Begin(i)
    PROVE  Counts(w)'
<1>1. i \in 0 .. last /\ last \in Nat /\ last \in Procs /\ pc[i] = "born"
  BY Present DEF Begin, At, TypeOK
<1>2. UNCHANGED <<line, data>>
  BY DEF Begin, At
<1>3. pc \in [Procs -> {"none", "born", "forked", "run", "waiting", "ended"}]
  BY DEF TypeOK
<1>4. \A j \in 0 .. last : j \in Procs
  BY <1>1, Sizes DEF Procs
<1>5. i # 0 => pc[i - 1] = "none"
  BY <1>1 DEF Shape
<1>6. CASE i = last /\ ~opens
  <2>1. pc' = [pc EXCEPT ![i] = "ended"]
    BY <1>6 DEF Begin
  <2>2. \A j \in 0 .. last : pc[j] = "ended" => pc'[j] = "ended"
    BY <1>3, <1>4, <2>1
  <2> QED
    BY <1>2, <1>6, <2>2, Quiet
<1>7. CASE i = 0 /\ ~(i = last /\ ~opens)
  <2>1. pc' = [pc EXCEPT ![0] = ExecTo(0)]
    BY <1>7 DEF Begin
  <2>2. \A j \in 0 .. last : pc[j] = "ended" => pc'[j] = "ended"
    BY <1>1, <1>3, <1>4, <1>7, <2>1
  <2>3. ASSUME NEW j \in 0 .. last, pc'[j] = "ended"
        PROVE  pc[j] = "ended" \/ Capped(w[j]) = Flow(j)
    <3>1. CASE j = 0
      <4>1. prog[0] = "missing"
        BY <1>3, <2>1, <2>3, <3>1, Sizes DEF ExecTo
      <4> QED
        BY <3>1, <4>1, MissingIsComplete DEF Counts
    <3>2. CASE j # 0
      BY <1>3, <1>4, <2>1, <2>3, <3>2
    <3> QED
      BY <3>1, <3>2
  <2> QED
    BY <1>2, <2>2, <2>3, Quiet
<1>8. CASE i # 0 /\ ~(i = last /\ ~opens)
  <2>1. pc' = [pc EXCEPT ![i] = "forked", ![i - 1] = "born"]
    BY <1>8 DEF Begin
  <2>2. \A j \in 0 .. last : pc[j] = "ended" => pc'[j] = "ended"
    BY <1>1, <1>3, <1>4, <1>5, <1>8, <2>1
  <2>3. \A j \in 0 .. last : pc'[j] = "ended" => pc[j] = "ended"
    BY <1>3, <1>4, <2>1
  <2> QED
    BY <1>2, <2>2, <2>3, Quiet
<1> QED
  BY <1>6, <1>7, <1>8

\* exec and the wait after it.
LEMMA MoveCounts ==
    ASSUME TypeOK, Fixed, Shape, NEW w \in [Procs -> Nat], Counts(w), NEW i \in Procs,
           UNCHANGED <<line, data>>, NEW v, Goto(i, v), pc[i] \notin {"none", "ended"},
           v = "ended" => Capped(w[i]) = Flow(i)
    PROVE  Counts(w)'
<1>1. pc' = [pc EXCEPT ![i] = v] /\ pc \in [Procs -> {"none", "born", "forked", "run", "waiting", "ended"}]
  BY DEF Goto, TypeOK
<1>2. \A j \in 0 .. last : j \in Procs
  BY Sizes DEF TypeOK, Procs
<1>3. \A j \in 0 .. last : pc[j] = "ended" => pc'[j] = "ended"
  BY <1>1, <1>2
<1>4. \A j \in 0 .. last : pc'[j] = "ended" => pc[j] = "ended" \/ Capped(w[j]) = Flow(j)
  BY <1>1, <1>2
<1> QED
  BY <1>3, <1>4, Quiet

\* A program that has read all of its input, and written it, is complete if the
\* programs before it are.
LEMMA EofIsComplete ==
    ASSUME TypeOK, Fixed, Shape, NEW w \in [Procs -> Nat], Counts(w), NEW i \in Procs,
           pc[i] = "run", i \notin has, AtEof(i)
    PROVE  Capped(w[i]) = Flow(i)
<1>1. i \in 0 .. last /\ last \in Nat /\ opens /\ InHand(i) = 0 /\ prog[i] # "missing"
  BY Present DEF InHand, Shape
<1>2. CASE i = 0
  <2>1. left = 0
    BY <1>2 DEF AtEof
  <2>2. prog[0] = "finite"
    BY <1>1, <1>2, <2>1, Sizes DEF Shape, Fixed, Sources
  <2>3. w[0] + InHand(0) + left = Items
    BY <1>2, <2>2 DEF Counts, FirstBalanced
  <2>4. w[0] = Items
    BY <1>1, <1>2, <2>1, <2>3, Sizes
  <2> QED
    BY <1>2, <2>2, <2>4, FirstFlow, Sizes DEF Capped, Least
<1>3. CASE i # 0
  <2>1. i \in 1 .. last /\ i - 1 \in 0 .. i - 1 /\ i - 1 \in Procs /\ i - 1 \in 0 .. last
    BY <1>1, <1>3, Sizes DEF Procs
  <2>2. pipe[i] = 0 /\ pc[i - 1] \in {"none", "ended"}
    BY <1>3, <2>1 DEF AtEof, Writers
  <2>3. pc[i - 1] = "ended"
    BY <1>1, <2>1, <2>2 DEF Shape
  <2>4. w[i - 1] = pipe[i] + InHand(i) + w[i]
    BY <2>1 DEF Counts, Balanced
  <2>5. w[i - 1] = w[i]
    BY <1>1, <2>1, <2>2, <2>4
  <2>6. i - 1 # last /\ (i - 1) + 1 = i
    BY <1>1
  <2>7. Capped(w[i - 1]) = Flow(i - 1)
    BY <1>1, <2>1, <2>3, <2>6 DEF Counts, Complete
  <2>8. CASE prog[i] = "copy"
    BY <2>1, <2>5, <2>7, <2>8, NextFlow
  <2>9. CASE prog[i] = "head"
    <3>1. w[i] = 0
      BY <1>1, <2>9 DEF Counts, Once
    <3> QED
      BY <2>1, <2>5, <2>7, <2>9, <3>1, NextFlow, Sizes DEF Capped, Least
  <2> QED
    BY <1>1, <2>1, <2>8, <2>9 DEF Fixed, Filters
<1> QED
  BY <1>2, <1>3

LEMMA ReadCounts ==
    ASSUME TypeOK, Fixed, Shape, NEW w \in [Procs -> Nat], Counts(w), NEW i \in Procs, Read(i)
    PROVE  Counts(w)'
<1>1. i \in 0 .. last /\ last \in Nat /\ pc[i] = "run" /\ i \notin has
  BY Present DEF Read, At
<1>2. last' = last /\ prog' = prog /\ opens' = opens /\ pc' = pc /\ out' = out /\ has' = has \union {i}
  BY DEF Read, At, line
<1>3. \A j : Flow(j)' = Flow(j)
  BY <1>2 DEF Flow
<1>4. /\ InHand(i) = 0 /\ InHand(i)' = 1
      /\ \A j : j # i => InHand(j)' = InHand(j)
  BY <1>1, <1>2 DEF InHand
<1>5. Bounded(w)' /\ Once(w)' /\ Complete(w)' /\ (out = Capped(w[last]))'
  BY <1>2, <1>3 DEF Counts, Bounded, Once, Complete
<1>6. Balanced(w)'
  <2> SUFFICES ASSUME NEW j \in 1 .. last, pc[j] # "ended"
               PROVE  w[j - 1] = pipe'[j] + InHand(j)' + w[j]
    BY <1>2 DEF Balanced
  <2>1. w[j - 1] = pipe[j] + InHand(j) + w[j] /\ j \in Procs /\ j - 1 \in Procs
    BY Sizes DEF Counts, Balanced, TypeOK, Procs
  <2>2. CASE j = i
    <3>1. pipe' = [pipe EXCEPT ![i] = @ - 1] /\ pipe[i] \in Nat
      BY <2>2, Sizes DEF Read, TypeOK
    <3>2. pipe'[i] = pipe[i] - 1
      BY <3>1 DEF TypeOK
    <3> QED
      BY <1>4, <2>1, <2>2, <3>1, <3>2
  <2>3. CASE j # i
    BY <1>4, <2>1, <2>3 DEF Read, TypeOK
  <2> QED
    BY <2>2, <2>3
<1>7. FirstBalanced(w)'
  <2> SUFFICES ASSUME pc[0] # "ended", prog[0] = "finite"
               PROVE  w[0] + InHand(0)' + left' = Items
    BY <1>2 DEF FirstBalanced
  <2>1. w[0] + InHand(0) + left = Items /\ w[0] \in Nat /\ left \in Nat /\ InHand(0) \in Nat
    BY Sizes DEF Counts, FirstBalanced, TypeOK, InHand
  <2>2. CASE i = 0
    <3>1. left # Many
      BY <2>1, Sizes
    <3>2. left' = left - 1
      BY <2>2, <3>1 DEF Read
    <3> QED
      BY <1>4, <2>1, <2>2, <3>2
  <2>3. CASE i # 0
    BY <1>4, <2>1, <2>3 DEF Read
  <2> QED
    BY <2>2, <2>3
<1> QED
  BY <1>5, <1>6, <1>7 DEF Counts

\* What a program has in hand is still missing from what it should write.
LEMMA HandIsOwed ==
    ASSUME TypeOK, Fixed, Shape, NEW w \in [Procs -> Nat], Counts(w), NEW i \in has
    PROVE  Capped(w[i] + 1) <= Flow(i) /\ (prog[i] = "head" => Capped(w[i] + 1) = Flow(i))
<1>1. i \in 0 .. last /\ last \in Nat /\ i \in Procs /\ pc[i] = "run" /\ prog[i] # "missing"
  <2>1. i \in Procs /\ pc[i] = "run" /\ prog[i] # "missing"
    BY DEF TypeOK, Shape
  <2> QED
    BY <2>1, Present
<1>2. InHand(i) = 1
  BY DEF InHand
<1>3. \A j \in 0 .. last : j \in Procs /\ w[j] \in Nat
  BY Sizes DEF TypeOK, Procs
<1>4. \A j \in 1 .. last : j \in Procs /\ j - 1 \in Procs /\ j - 1 \in 0 .. last
  BY <1>3, Sizes DEF TypeOK, Procs
<1>5. \A j : Flow(j) \in 0 .. Many
  BY FlowType
<1>6. i \in 1 .. last => w[i - 1] = pipe[i] + 1 + w[i] /\ pipe[i] \in Nat
  BY <1>1, <1>2, Sizes DEF Counts, Balanced, TypeOK
<1>7. prog[i] = "head" => w[i] = 0
  BY <1>1 DEF Counts, Once
<1>8. i = 0 \/ i \in 1 .. last
  BY <1>1
<1>9. CASE i = 0
  <2>1. CASE prog[0] = "finite"
    <3>1. w[0] + 1 + left = Items /\ left \in Nat
      BY <1>1, <1>2, <1>9, <2>1 DEF Counts, FirstBalanced, TypeOK
    <3> QED
      BY <1>3, <1>9, <2>1, <3>1, FirstFlow, Sizes DEF Capped, Least
  <2>2. CASE prog[0] = "endless"
    BY <1>3, <1>9, <2>2, FirstFlow, Sizes DEF Capped, Least
  <2> QED
    BY <1>1, <1>9, <2>1, <2>2 DEF Fixed, Sources
<1>10. CASE i \in 1 .. last
  <2>1. Capped(w[i - 1]) <= Flow(i - 1) /\ w[i - 1] \in Nat
    BY <1>3, <1>4, <1>10 DEF Counts, Bounded
  <2>2. w[i - 1] >= w[i] + 1
    BY <1>1, <1>3, <1>6, <1>10
  <2>3. CASE prog[i] = "copy"
    <3>1. Flow(i) = Flow(i - 1)
      BY <1>10, <2>3, NextFlow
    <3>2. Capped(w[i] + 1) <= Capped(w[i - 1])
      BY <1>1, <1>3, <2>1, <2>2, Sizes DEF Capped, Least
    <3>3. Capped(w[i] + 1) \in Nat /\ Capped(w[i - 1]) \in Nat /\ Flow(i) \in Nat
      BY <1>1, <1>5, <1>3, <2>1, Sizes DEF Capped, Least
    <3> QED
      BY <2>1, <2>3, <3>1, <3>2, <3>3
  <2>4. CASE prog[i] = "head"
    <3>1. Flow(i) = Least(1, Flow(i - 1)) /\ w[i] = 0
      BY <1>7, <1>10, <2>4, NextFlow
    <3>2. Capped(w[i - 1]) >= 1 /\ Capped(1) = 1
      BY <2>1, <2>2, <3>1, Sizes DEF Capped, Least
    <3>3. Flow(i - 1) \in Nat /\ Flow(i - 1) >= 1
      BY <1>5, <2>1, <3>2, Sizes DEF Capped, Least
    <3> QED
      BY <3>1, <3>2, <3>3 DEF Least
  <2> QED
    BY <1>1, <1>10, <2>3, <2>4 DEF Fixed, Filters
<1> QED
  BY <1>8, <1>9, <1>10

\* An item is written to the next pipe or to the output, or its writer ends
\* for want of a reader.
LEMMA WriteCounts ==
    ASSUME TypeOK, Fixed, Shape, NEW w \in [Procs -> Nat], Counts(w), NEW i \in Procs, Write(i)
    PROVE  \E u \in [Procs -> Nat] : Counts(u)'
<1>1. i \in 0 .. last /\ last \in Nat /\ pc[i] = "run" /\ i \in has /\ prog[i] # "missing"
  BY Present DEF Write, At, Shape
<1>2. last' = last /\ prog' = prog /\ opens' = opens /\ left' = left /\ has' = has \ {i}
  BY DEF Write, At, line
<1>3. \A j : Flow(j)' = Flow(j) /\ Flow(j) \in 0 .. Many
  BY <1>2, FlowType DEF Flow
<1>4. /\ InHand(i) = 1 /\ InHand(i)' = 0
      /\ \A j : j # i => InHand(j)' = InHand(j)
  BY <1>1, <1>2 DEF InHand
<1>5. \A j \in 0 .. last : j \in Procs /\ w[j] \in Nat
  BY Sizes DEF TypeOK, Procs
<1>6. \A j \in 1 .. last : j \in Procs /\ j - 1 \in Procs /\ j - 1 \in 0 .. last /\ j # j - 1
  BY <1>5, Sizes DEF TypeOK, Procs
<1>7. pc' = [pc EXCEPT ![i] = IF prog[i] = "head" \/ (i # last /\ ReaderGone(i)) THEN "ended" ELSE "run"]
  BY DEF Write, Goto
<1>8. /\ \A j \in Procs : j # i => pc'[j] = pc[j]
      /\ pc'[i] = IF prog[i] = "head" \/ (i # last /\ ReaderGone(i)) THEN "ended" ELSE "run"
  BY <1>7 DEF TypeOK
<1>9. CASE i # last /\ ReaderGone(i)
  <2>1. out' = out /\ pipe' = pipe /\ pc'[i] = "ended"
    BY <1>8, <1>9 DEF Write
  <2>2. Bounded(w)' /\ (out = Capped(w[last]))'
    BY <1>2, <1>3, <2>1 DEF Counts, Bounded
  <2>3. Once(w)'
    BY <1>2, <1>5, <1>8, <2>1 DEF Counts, Once
  <2>4. Balanced(w)' /\ FirstBalanced(w)'
    BY <1>2, <1>4, <1>6, <1>8, <2>1, Sizes DEF Counts, Balanced, FirstBalanced
  <2>5. Complete(w)'
    <3> SUFFICES ASSUME opens, NEW j \in 0 .. last, pc'[j] = "ended"
                 PROVE  Capped(w[j]) = Flow(j) \/ (j # last /\ pc'[j + 1] = "ended")
      BY <1>2, <1>3 DEF Complete
    <3>1. j # last => j + 1 \in Procs /\ j + 1 \in 0 .. last /\ j + 1 # j
      BY <1>1, <1>5
    <3>2. CASE j = i
      BY <1>8, <1>9, <3>1, <3>2 DEF ReaderGone
    <3>3. CASE j # i
      <4>1. pc[j] = "ended"
        BY <1>5, <1>8, <3>3
      <4>2. Capped(w[j]) = Flow(j) \/ (j # last /\ pc[j + 1] = "ended")
        BY <4>1 DEF Counts, Complete
      <4> QED
        BY <1>8, <2>1, <3>1, <4>2
    <3> QED
      BY <3>2, <3>3
  <2> QED
    BY <2>2, <2>3, <2>4, <2>5 DEF Counts
<1>10. CASE ~(i # last /\ ReaderGone(i))
  <2> DEFINE u == [w EXCEPT ![i] = w[i] + 1]
  <2>1. u \in [Procs -> Nat] /\ u[i] = w[i] + 1 /\ \A j \in Procs : j # i => u[j] = w[j]
    BY <1>1, <1>5
  <2>2. pc'[i] = IF prog[i] = "head" THEN "ended" ELSE "run"
    BY <1>8, <1>10
  <2>3. i \in 1 .. last => w[i - 1] = pipe[i] + 1 + w[i] /\ pipe[i] \in Nat
    BY <1>1, <1>4, Sizes DEF Counts, Balanced, TypeOK
  <2>4. prog[i] = "head" => w[i] = 0
    BY <1>1 DEF Counts, Once
  <2>5. i = 0 \/ i \in 1 .. last
    BY <1>1
  <2>6. Capped(u[i]) <= Flow(i) /\ (prog[i] = "head" => Capped(u[i]) = Flow(i))
    BY <1>1, <2>1, HandIsOwed
  <2>7. (out = Capped(u[last]))'
    <3>1. CASE i = last
      <4>1. out' = Least(out + 1, Many) /\ out = Capped(w[last])
        BY <3>1 DEF Write, Counts
      <4> QED
        BY <1>1, <1>2, <1>5, <2>1, <3>1, <4>1, Sizes DEF Capped, Least
    <3>2. CASE i # last
      BY <1>1, <1>2, <1>5, <2>1, <3>2 DEF Write, Counts
    <3> QED
      BY <3>1, <3>2
  <2>8. Bounded(u)'
    BY <1>2, <1>3, <1>5, <2>1, <2>6 DEF Counts, Bounded
  <2>9. Once(u)'
    BY <1>2, <1>5, <1>8, <2>1, <2>2 DEF Counts, Once
  <2>10. Balanced(u)'
    <3> SUFFICES ASSUME NEW j \in 1 .. last, pc'[j] # "ended"
                 PROVE  u[j - 1] = pipe'[j] + InHand(j)' + u[j]
      BY <1>2 DEF Balanced
    <3>1. pc[j] # "ended"
      BY <1>1, <1>6, <1>8
    <3>2. w[j - 1] = pipe[j] + InHand(j) + w[j] /\ pipe[j] \in Nat /\ InHand(j) \in Nat
      BY <1>6, <3>1, Sizes DEF Counts, Balanced, TypeOK, InHand
    <3>3. CASE j = i
      <4>1. pipe'[i] = pipe[i]
        BY <3>3, <1>6 DEF Write, TypeOK
      <4> QED
        BY <1>4, <1>5, <1>6, <2>1, <3>2, <3>3, <4>1
    <3>4. CASE j = i + 1
      <4>1. i # last
        BY <1>1, <3>4
      <4>2. pipe' = [pipe EXCEPT ![i + 1] = @ + 1]
        BY <1>10, <4>1 DEF Write
      <4>3. pipe'[j] = pipe[j] + 1
        BY <1>6, <3>4, <4>2 DEF TypeOK
      <4>4. j - 1 = i /\ j # i
        BY <1>1, <3>4
      <4> QED
        BY <1>1, <1>4, <1>5, <1>6, <2>1, <3>2, <4>3, <4>4
    <3>5. CASE j # i /\ j # i + 1
      <4>1. pipe'[j] = pipe[j] /\ j - 1 # i
        BY <1>1, <1>6, <3>5 DEF Write, TypeOK
      <4> QED
        BY <1>4, <1>6, <2>1, <3>2, <3>5, <4>1
    <3> QED
      BY <3>3, <3>4, <3>5
  <2>11. FirstBalanced(u)'
    <3> SUFFICES ASSUME pc'[0] # "ended", prog[0] = "finite"
                 PROVE  u[0] + InHand(0)' + left = Items
      BY <1>2 DEF FirstBalanced
    <3>1. pc[0] # "ended"
      BY <1>1, <1>8, Sizes
    <3>2. w[0] + InHand(0) + left = Items /\ left \in Nat /\ w[0] \in Nat
      BY <3>1, Sizes DEF Counts, FirstBalanced, TypeOK
    <3> QED
      BY <1>4, <2>1, <3>2, Sizes
  <2>12. Complete(u)'
    <3> SUFFICES ASSUME opens, NEW j \in 0 .. last, pc'[j] = "ended"
                 PROVE  Capped(u[j]) = Flow(j) \/ (j # last /\ pc'[j + 1] = "ended")
      BY <1>2, <1>3 DEF Complete
    <3>1. CASE j = i
      BY <2>2, <2>6, <3>1
    <3>2. CASE j # i
      <4>1. pc[j] = "ended" /\ u[j] = w[j]
        BY <1>5, <1>8, <2>1, <3>2
      <4>2. Capped(w[j]) = Flow(j) \/ (j # last /\ pc[j + 1] = "ended")
        BY <4>1 DEF Counts, Complete
      <4>3. j # last => j + 1 \in Procs
        BY <1>1, <1>5
      <4>4. j # last /\ pc[j + 1] = "ended" => pc'[j + 1] = "ended"
        BY <1>1, <1>8, <4>3
      <4> QED
        BY <4>1, <4>2, <4>4
    <3> QED
      BY <3>1, <3>2
  <2>13. Counts(u)'
    BY <2>7, <2>8, <2>9, <2>10, <2>11, <2>12 DEF Counts
  <2> QED
    BY <2>1, <2>13
<1> QED
  BY <1>9, <1>10

-----------------------------------------------------------------------------
\* The invariant and what follows from it.

LEMMA IInvStep == IInv /\ [Next]_vars => IInv'
<1> SUFFICES ASSUME IInv, [Next]_vars
             PROVE  IInv'
  OBVIOUS
<1>1. TypeOK /\ Fixed /\ Shape
  BY DEF IInv
<1>2. PICK w \in [Procs -> Nat] : Counts(w)
  BY DEF IInv
<1>3. TypeOK'
  BY <1>1, TypeStep
<1>4. UNCHANGED line
  BY DEF Next, vars, ProcStep, TakeTerminal, Begin, Exec, Reap, Read, Finish, Write, At,
         CtrlZ, WaitReturns, Fg
<1>5. Fixed'
  BY <1>1, <1>4 DEF Fixed, line
<1>6. ASSUME UNCHANGED <<pc, data>>, shell' = "prompt" => shell = "prompt" \/ pc[last] = "ended"
      PROVE  Shape' /\ Counts(w)'
  <2>1. Shape'
    BY <1>1, <1>4, <1>6 DEF Shape, line, data
  <2>2. Counts(w)'
    BY <1>1, <1>2, <1>4, <1>6, Quiet
  <2> QED
    BY <2>1, <2>2
<1>7. ASSUME NEW i \in Procs, ProcStep(i)
      PROVE  Shape' /\ \E u \in [Procs -> Nat] : Counts(u)'
  <2>0. UNCHANGED <<line, shell>> /\ \A j \in has : j \in Procs /\ pc[j] = "run"
    BY <1>1, <1>4, <1>7 DEF ProcStep, TakeTerminal, Begin, Exec, Reap, Read, Finish, Write,
       At, job, Shape, TypeOK
  <2>1. CASE Begin(i)
    BY <1>1, <1>2, <2>1, BeginShape, BeginCounts
  <2>2. CASE Exec(i)
    <3>1. UNCHANGED data /\ pc[i] = "forked" /\ Goto(i, ExecTo(i))
      BY <2>2 DEF Exec, At
    <3>2. i # 0
      BY <1>1, <3>1 DEF Shape
    <3>3. /\ ExecTo(i) \in {"run", "waiting"}
          /\ ExecTo(i) = "run" => prog[i] # "missing"
          /\ ExecTo(i) = "waiting" => prog[i] = "missing"
      BY <3>2 DEF ExecTo
    <3>4. \A j \in has' : pc'[j] = "run"
      BY <1>1, <2>0, <3>1 DEF Goto, data, TypeOK
    <3>5. prog[0] = "endless" => left' = Many
      BY <1>1, <3>1 DEF Shape, data
    <3>6. Shape'
      BY <1>1, <2>0, <3>1, <3>2, <3>3, <3>4, <3>5, Advance
    <3>7. Counts(w)'
      BY <1>1, <1>2, <2>0, <3>1, <3>3, MoveCounts
    <3> QED
      BY <1>2, <3>6, <3>7
  <2>3. CASE Reap(i)
    <3>1. UNCHANGED data /\ pc[i] = "waiting" /\ Goto(i, "ended")
      BY <2>3 DEF Reap, At
    <3>2. prog[i] = "missing" /\ i \in 0 .. last
      BY <1>1, <3>1, Present DEF Shape
    <3>3. \A j \in has' : pc'[j] = "run"
      BY <1>1, <2>0, <3>1 DEF Goto, data, TypeOK
    <3>4. prog[0] = "endless" => left' = Many
      BY <1>1, <3>1 DEF Shape, data
    <3>5. Shape'
      BY <1>1, <2>0, <3>1, <3>3, <3>4, Advance
    <3>6. Counts(w)'
      BY <1>1, <1>2, <2>0, <3>1, <3>2, MissingIsComplete, MoveCounts DEF Counts
    <3> QED
      BY <1>2, <3>5, <3>6
  <2>4. CASE Read(i)
    <3>1. pc' = pc /\ pc[i] = "run" /\ has' = has \union {i}
      BY <2>4 DEF Read, At
    <3>2. Goto(i, "run") /\ prog[i] # "missing"
      BY <1>1, <3>1 DEF Goto, TypeOK, Shape
    <3>3. prog[0] = "endless" => left' = Many
      BY <1>1, <2>4, Sizes DEF Shape, Read
    <3>4. \A j \in has' : pc'[j] = "run"
      BY <2>0, <3>1
    <3>5. Shape'
      BY <1>1, <2>0, <3>1, <3>2, <3>3, <3>4, Advance
    <3>6. Counts(w)'
      BY <1>1, <1>2, <2>4, ReadCounts
    <3> QED
      BY <1>2, <3>5, <3>6
  <2>5. CASE Finish(i)
    <3>1. UNCHANGED data /\ pc[i] = "run" /\ i \notin has /\ AtEof(i) /\ Goto(i, "ended")
      BY <2>5 DEF Finish, At
    <3>2. \A j \in has' : pc'[j] = "run"
      BY <1>1, <2>0, <3>1 DEF Goto, data, TypeOK
    <3>3. prog[0] = "endless" => left' = Many
      BY <1>1, <3>1 DEF Shape, data
    <3>4. Shape'
      BY <1>1, <2>0, <3>1, <3>2, <3>3, Advance
    <3>5. Capped(w[i]) = Flow(i)
      BY <1>1, <1>2, <3>1, EofIsComplete
    <3>6. Counts(w)'
      BY <1>1, <1>2, <2>0, <3>1, <3>5, MoveCounts
    <3> QED
      BY <1>2, <3>4, <3>6
  <2>6. CASE Write(i)
    <3> DEFINE v == IF prog[i] = "head" \/ (i # last /\ ReaderGone(i)) THEN "ended" ELSE "run"
    <3>1. pc[i] = "run" /\ Goto(i, v) /\ has' = has \ {i} /\ left' = left
      BY <2>6 DEF Write, At
    <3>2. v \in {"run", "ended"} /\ prog[i] # "missing"
      BY <1>1, <3>1 DEF Shape
    <3>3. \A j \in has' : pc'[j] = "run"
      BY <1>1, <2>0, <3>1 DEF Goto, TypeOK
    <3>4. prog[0] = "endless" => left' = Many
      BY <1>1, <3>1 DEF Shape
    <3> HIDE DEF v
    <3>5. Shape'
      BY <1>1, <2>0, <3>1, <3>2, <3>3, <3>4, Advance
    <3> QED
      BY <1>1, <1>2, <2>6, <3>5, WriteCounts
  <2>7. CASE TakeTerminal(i)
    BY <1>2, <1>6, <2>7 DEF TakeTerminal
  <2> QED
    BY <1>7, <2>1, <2>2, <2>3, <2>4, <2>5, <2>6, <2>7 DEF ProcStep
<1>8. CASE UNCHANGED vars
  BY <1>2, <1>3, <1>5, <1>6, <1>8 DEF vars, data, job, IInv
<1>9. CASE CtrlZ
  BY <1>2, <1>3, <1>5, <1>6, <1>9 DEF CtrlZ, IInv
<1>10. CASE WaitReturns
  BY <1>2, <1>3, <1>5, <1>6, <1>10 DEF WaitReturns, IInv
<1>11. CASE Fg
  BY <1>2, <1>3, <1>5, <1>6, <1>11 DEF Fg, IInv
<1>12. ASSUME NEW i \in Procs, ProcStep(i)
       PROVE  IInv'
  BY <1>3, <1>5, <1>7, <1>12 DEF IInv
<1> QED
  BY <1>8, <1>9, <1>10, <1>11, <1>12 DEF Next

LEMMA Invariance == Spec => []IInv
  BY IInvInit, IInvStep, PTL DEF Spec

\* Every variable keeps its range; in particular no pipe overflows
\* (kadai5 main.c:11-44).
THEOREM TypeCorrect == Spec => []TypeOK
<1>1. IInv => TypeOK
  BY DEF IInv
<1> QED
  BY <1>1, Invariance, PTL

\* At the prompt the last program has ended, and not for want of a reader, so
\* that it had written everything; nothing is written twice or out of thin air
\* (kadai5 main.c:11-44, kadai6 main.c:104-149).
THEOREM OutputRightAlways == Spec => []OutputRight
<1>1. IInv => OutputRight
  <2> SUFFICES ASSUME IInv
               PROVE  OutputRight
    OBVIOUS
  <2>1. PICK w \in [Procs -> Nat] : Counts(w)
    BY DEF IInv
  <2>2. last \in 0 .. last /\ out = Capped(w[last]) /\ TypeOK /\ Shape
    BY <2>1, Sizes DEF IInv, Counts, TypeOK, Procs
  <2>3. out <= Flow(last)
    BY <2>1, <2>2 DEF Counts, Bounded
  <2>4. ASSUME shell = "prompt", opens
        PROVE  out = Flow(last)
    BY <2>1, <2>2, <2>4 DEF Counts, Complete, Shape
  <2>5. ~opens => out = 0
    BY <2>2 DEF Shape
  <2> QED
    BY <2>2, <2>3, <2>4, <2>5 DEF OutputRight, TypeOK
<1> QED
  BY <1>1, Invariance, PTL

-----------------------------------------------------------------------------
\* Deadlock.

\* A set of numbers has a least one.
LEMMA LeastOf ==
    ASSUME NEW I \in SUBSET Nat, I # {}
    PROVE  \E m \in I : \A k \in I : m <= k
<1>1. PICK m \in I : \A k \in I : ~(<<k, m>> \in OpToRel(<, Nat))
  BY NatLessThanWellFounded, WFMin
<1>2. \A k \in I : ~(k < m)
  BY <1>1 DEF OpToRel
<1> QED
  BY SMT, <1>2

\* Why a process of a jammed line cannot go on: a failed program's process waits
\* for its child, a writer for room, and a reader for its writers.
LEMMA WhyStuck ==
    ASSUME TypeOK, Shape, NEW i \in Group, ~CanStep(i), susp[i] = "no"
    PROVE  /\ i \in 0 .. last
           /\ \/ pc[i] = "waiting" /\ i # 0 /\ i - 1 \in Group
              \/ pc[i] = "run" /\ i \in has /\ i # last /\ i + 1 \in Group /\ pipe[i + 1] = Capacity
              \/ pc[i] = "run" /\ i \notin has /\ pipe[i] = 0 /\ \E j \in Group : j < i
<1>1. /\ i \in Procs /\ pc[i] \notin {"none", "ended"} /\ i \in 0 .. last
      /\ last \in Procs /\ last \in Nat /\ pipe[i] \in Nat
      /\ (pc[i] # "born" => opens)
  BY Present, Sizes DEF Group, TypeOK, Procs
<1>2. pc[i] \in {"waiting", "run"}
  BY <1>1 DEF CanStep, TypeOK
<1>3. CASE pc[i] = "waiting"
  <2>1. i # 0 /\ i \in 1 .. last
    BY <1>1, <1>3 DEF Shape
  <2>2. pc[i - 1] # "ended" /\ pc[i - 1] # "none" /\ i - 1 \in Procs
    BY <1>1, <1>3, <2>1, Sizes DEF CanStep, Shape, Procs
  <2> QED
    BY <1>1, <1>3, <2>1, <2>2 DEF Group
<1>4. CASE pc[i] = "run" /\ i \in has
  <2>1. i # last /\ pc[i + 1] # "ended" /\ ~(pipe[i + 1] < Capacity)
    BY <1>4 DEF CanStep, ReaderGone, HasRoom
  <2>2. i + 1 \in 1 .. last /\ i + 1 \in Procs /\ (i + 1) - 1 = i
    BY <1>1, <2>1, Sizes DEF Procs
  <2>3. pc[i + 1] # "none"
    BY <1>4, <2>2 DEF Shape
  <2>4. pipe[i + 1] = Capacity
    BY <2>1, <2>2, Sizes DEF TypeOK
  <2> QED
    BY <1>1, <1>4, <2>1, <2>2, <2>3, <2>4 DEF Group
<1>5. CASE pc[i] = "run" /\ i \notin has
  <2>1. i # 0 /\ ~(pipe[i] > 0) /\ Writers(i) # {}
    BY <1>5 DEF CanStep
  <2>2. PICK j \in 0 .. i - 1 : pc[j] \notin {"none", "ended"}
    BY <1>5, <2>1 DEF Writers
  <2>3. j \in Group /\ j < i
    BY <1>1, <2>2, Sizes DEF Group, Procs
  <2> QED
    BY <1>1, <1>5, <2>1, <2>3
<1> QED
  BY <1>2, <1>3, <1>4, <1>5

\* The first process of a jammed line can only be a writer without room.  The
\* first one after it that is not is a failed program's process, and the pipe it
\* does not read is full, with one more item in hand for it.
LEMMA NoJam == IInv => JamsOnlyIfUnread
<1> SUFFICES ASSUME IInv, Jammed, Fits, Suspended = {}
             PROVE  FALSE
  BY DEF JamsOnlyIfUnread
<1>1. TypeOK /\ Fixed /\ Shape /\ last \in Nat /\ Group \subseteq Nat
  BY Sizes DEF IInv, TypeOK, Procs, Group
<1>2. ASSUME NEW i \in Group
      PROVE  /\ i \in 0 .. last
             /\ \/ pc[i] = "waiting" /\ i # 0 /\ i - 1 \in Group
                \/ pc[i] = "run" /\ i \in has /\ i # last /\ i + 1 \in Group /\ pipe[i + 1] = Capacity
                \/ pc[i] = "run" /\ i \notin has /\ pipe[i] = 0 /\ \E j \in Group : j < i
  BY <1>1, <1>2, WhyStuck DEF Jammed, Suspended
<1>3. PICK m \in Group : \A k \in Group : m <= k
  BY <1>1, LeastOf DEF Jammed
<1>4. pc[m] = "run" /\ m \in has /\ m # last /\ m \in 0 .. last /\ m + 1 \in Group
  BY <1>1, <1>2, <1>3
<1> DEFINE After == {k \in 0 .. last : k > m /\ ~(pc[k] = "run" /\ k \in has)}
<1>5. last \in After
  <2>1. pc[last] = "run" /\ last \in has => last \in Group
    BY <1>1 DEF TypeOK, Group
  <2> QED
    BY <1>1, <1>2, <1>4, <2>1
<1>6. PICK k \in After : \A j \in After : k <= j
  <2>1. After \in SUBSET Nat /\ After # {}
    BY <1>1, <1>5
  <2> HIDE DEF After
  <2> QED
    BY <2>1, LeastOf
<1>7. k \in 1 .. last /\ k - 1 \in 0 .. last /\ k \in Nat /\ m \in Nat
  BY <1>1, <1>4, <1>6
<1>8. pc[k - 1] = "run" /\ k - 1 \in has
  <2>1. CASE k - 1 = m
    BY <1>4, <2>1
  <2>2. CASE k - 1 # m
    <3>1. k - 1 > m /\ k - 1 \notin After
      BY <1>1, <1>6, <1>7, <2>2
    <3> QED
      BY <1>7, <3>1
  <2> QED
    BY <2>1, <2>2
<1>9. k \in Group /\ pipe[k] = Capacity
  <2>1. k - 1 \in Group
    BY <1>1, <1>8 DEF TypeOK, Group
  <2>2. (k - 1) + 1 = k
    BY <1>7
  <2>3. (k - 1) + 1 \in Group /\ pipe[(k - 1) + 1] = Capacity
    BY <1>2, <1>8, <2>1
  <2> QED
    BY <2>2, <2>3
<1>10. pc[k] = "waiting"
  BY <1>2, <1>6, <1>9, Sizes
<1>11. prog[k] = "missing" /\ k \notin has
  BY <1>1, <1>9, <1>10 DEF Shape, Group
<1>12. PICK w \in [Procs -> Nat] : Counts(w)
  BY DEF IInv
<1>13. w[k - 1] >= Capacity /\ w[k - 1] \in Nat
  <2>1. k \in Procs /\ k - 1 \in Procs /\ w[k] \in Nat /\ w[k - 1] \in Nat
    BY <1>1, <1>7, Sizes DEF TypeOK, Procs
  <2>2. w[k - 1] = pipe[k] + InHand(k) + w[k]
    BY <1>7, <1>10, <1>12 DEF Counts, Balanced
  <2> QED
    BY <1>9, <1>11, <2>1, <2>2, Sizes DEF InHand
<1>14. Capped(w[k - 1] + 1) <= Flow(k - 1)
  BY <1>1, <1>8, <1>12, HandIsOwed
<1>15. Capped(w[k - 1] + 1) > Capacity /\ Capped(w[k - 1] + 1) \in Nat
  BY <1>13, Sizes DEF Capped, Least, Many
<1>16. ~(Flow(k - 1) <= Capacity)
  <2>1. Flow(k - 1) \in Nat
    BY FlowType, Sizes
  <2> QED
    BY <1>14, <1>15, <2>1, Sizes
<1> QED
  BY <1>7, <1>11, <1>16 DEF Fits

\* The processes of a line never all wait for each other, for any number of
\* programs and any size of the pipes, unless a program that could not be
\* executed keeps a full pipe open (kadai5 main.c:35-43).
THEOREM JamsOnlyIfUnreadAlways == Spec => []JamsOnlyIfUnread
  BY NoJam, Invariance, PTL
=============================================================================
