------------------------------- MODULE Paging -------------------------------
(***************************************************************************)
(* The page tables that init_virtual_memory (memory.c) builds for the      *)
(* tasks of kadai10, and the translation the CPU makes of them.            *)
(*                                                                         *)
(* Addresses are numbers of 4 KiB pages.  An entry is the table it points  *)
(* to, a page frame, or Garbage where the code only sets the present bit.  *)
(*                                                                         *)
(* Assumed: the flag bits that memory.c leaves alone, huge_page in PDPs    *)
(* and PDs among them, are 0, though the .bss they are in is not zeroed.   *)
(***************************************************************************)
EXTENDS Naturals

CONSTANTS
    TASK_NUM,       \* 3 in sched.h
    Kernel,         \* the cr3 that the kernel was entered with
    Garbage         \* what uninitialised memory holds

\* app_address has three elements.
ASSUME TaskNumAssumption == TASK_NUM \in 2 .. 3
ASSUME KernelAssumption == Kernel \notin Nat /\ Garbage \notin Nat /\ Kernel # Garbage

TaskIds == 0 .. TASK_NUM - 1

\* Hexadecimal 100000, C0000 and FEE00: the kernel's pages, the frame buffer's
\* and the LAPIC's.
KernelPage == 1048576
FbPage == 786432
LapicPage == 1043968

\* 104000, 105000 and 106000.
app_address(i) == 1064960 + 4096 * i

\* The indices of a page into the four levels.
Pml4(p) == p \div 134217728
Pdp(p) == (p \div 262144) % 512
Pd(p) == (p \div 512) % 512
Pt(p) == p % 512

\* The frame behind entry k, j of the page tables below entry n of a task's
\* PDP: 1, the application; 3, the devices; 4, the kernel.  PDs[i][0..7] are
\* set to the eight tables of the application first, and then, like the rest
\* of PDs[i], to the first table.
AppFrame(i, j) == app_address(i) + j

DeviceFrame(k, j) ==
    IF k = 0 THEN FbPage + j ELSE IF k = 503 THEN LapicPage + j ELSE Garbage

KernelFrame(k, j) == IF k < 8 THEN KernelPage + k * 512 + j ELSE Garbage

\* The pages that the README gives to an application and that the kernel's
\* tables cover, 16 MiB each, and those of one table, 2 MiB.
AppPages == 262144 .. 262144 + 4095
KernelPages == KernelPage .. KernelPage + 4095
FbPages == FbPage .. FbPage + 511
LapicPages == LapicPage .. LapicPage + 511

\* The frame of page p in address space c.  The kernel's first page tables are
\* the firmware's, which map every page to itself.
Translate(c, p) ==
    IF c = Kernel THEN p
    ELSE IF c \notin TaskIds \/ Pml4(p) # 0 THEN Garbage
    ELSE IF Pdp(p) = 1 THEN AppFrame(c, Pt(p))
    ELSE IF Pdp(p) = 3 THEN DeviceFrame(Pd(p), Pt(p))
    ELSE IF Pdp(p) = 4 THEN KernelFrame(Pd(p), Pt(p))
    ELSE Garbage

\* The last pages of the two stacks: below 0x101000000, where the loader puts
\* start()'s, and below 0x41000000.
KstackPage == KernelPage + 4095
UstackPage == 266239
=============================================================================
