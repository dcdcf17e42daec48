---------------------------- MODULE PagingProofs ----------------------------
(***************************************************************************)
(* What the page tables of Paging mean, proved from the tables for every   *)
(* page; Sched rests on it where a task's stack is in a frame of its own   *)
(* and start()'s stack is the same frame in every address space.           *)
(***************************************************************************)
EXTENDS Paging, TLAPS

\* The application's entries are those of PDP entry 1, whatever the page.
LEMMA AppTranslation ==
    ASSUME NEW c \in TaskIds, NEW p \in AppPages
    PROVE  Translate(c, p) = app_address(c) + (p % 512)
<1>1. p \in Nat /\ 262144 <= p /\ p <= 266239
  BY SMT DEF AppPages
<1>2. Pml4(p) = 0 /\ Pdp(p) = 1
  BY SMT, <1>1 DEF Pml4, Pdp
<1>3. c # Kernel
  BY SMT, KernelAssumption DEF TaskIds
<1> QED
  BY SMT, <1>2, <1>3 DEF Translate, AppFrame, Pt

\* Two pages of two applications share a frame only if they are pages of one
\* application that lie a multiple of 2 MiB apart; and then they do: the
\* directory's 8 entries all lead to the first page table (memory.c:60).
THEOREM SpacesDisjoint ==
    ASSUME NEW c \in TaskIds, NEW d \in TaskIds, NEW p \in AppPages, NEW q \in AppPages
    PROVE  Translate(c, p) = Translate(d, q) <=> c = d /\ p % 512 = q % 512
<1> DEFINE m == p % 512
           n == q % 512
<1>1. Translate(c, p) = app_address(c) + m
  BY AppTranslation
<1>2. Translate(d, q) = app_address(d) + n
  BY AppTranslation
<1>3. m \in 0 .. 511 /\ n \in 0 .. 511
  BY SMT DEF AppPages
<1>4. c \in Nat /\ d \in Nat
  BY SMT, TaskNumAssumption DEF TaskIds
<1> HIDE DEF m, n
<1>5. c < d => app_address(c) + 4096 <= app_address(d)
  BY SMT, <1>4 DEF app_address
<1>6. d < c => app_address(d) + 4096 <= app_address(c)
  BY SMT, <1>4 DEF app_address
<1>7. app_address(c) \in Nat /\ app_address(d) \in Nat
  BY SMT, <1>4 DEF app_address
<1>8. app_address(c) + m = app_address(d) + n <=> c = d /\ m = n
  BY SMT, <1>3, <1>4, <1>5, <1>6, <1>7
<1> QED
  BY SMT, <1>1, <1>2, <1>8 DEF m, n

\* The kernel's 16 MiB, start()'s stack among them, the first 2 MiB of the frame
\* buffer and the LAPIC's registers are at their own addresses in every address
\* space, so that a switch of cr3 in the kernel goes on with the same memory.
THEOREM KernelShared ==
    ASSUME NEW c \in TaskIds, NEW p \in KernelPages \union FbPages \union LapicPages
    PROVE  Translate(c, p) = Translate(Kernel, p)
<1>1. c # Kernel
  BY SMT, KernelAssumption DEF TaskIds
<1>2. CASE p \in KernelPages
  <2>1. p \in Nat /\ 1048576 <= p /\ p <= 1052671
    BY SMT, <1>2 DEF KernelPages, KernelPage
  <2>2. Pml4(p) = 0 /\ Pdp(p) = 4
    BY SMT, <2>1 DEF Pml4, Pdp
  <2>3. Pd(p) < 8 /\ p = 1048576 + Pd(p) * 512 + Pt(p)
    BY SMT, <2>1 DEF Pd, Pt
  <2> QED
    BY SMT, <1>1, <2>2, <2>3 DEF Translate, KernelFrame, KernelPage
<1>3. CASE p \in FbPages
  <2>1. p \in Nat /\ 786432 <= p /\ p <= 786943
    BY SMT, <1>3 DEF FbPages, FbPage
  <2>2. Pml4(p) = 0 /\ Pdp(p) = 3
    BY SMT, <2>1 DEF Pml4, Pdp
  <2>3. Pd(p) = 0 /\ p = 786432 + Pt(p)
    BY SMT, <2>1 DEF Pd, Pt
  <2> QED
    BY SMT, <1>1, <2>2, <2>3 DEF Translate, DeviceFrame, FbPage
<1>4. CASE p \in LapicPages
  <2>1. p \in Nat /\ 1043968 <= p /\ p <= 1044479
    BY SMT, <1>4 DEF LapicPages, LapicPage
  <2>2. Pml4(p) = 0 /\ Pdp(p) = 3
    BY SMT, <2>1 DEF Pml4, Pdp
  <2>3. Pd(p) = 503 /\ p = 1043968 + Pt(p)
    BY SMT, <2>1 DEF Pd, Pt
  <2> QED
    BY SMT, <1>1, <2>2, <2>3 DEF Translate, DeviceFrame, LapicPage
<1> QED
  BY SMT, <1>2, <1>3, <1>4
=============================================================================
