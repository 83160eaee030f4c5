--------------------------- MODULE MCTaskScheduler ---------------------------
(* Model-checking instance of TaskScheduler: task records at a few heap     *)
(* addresses, the two boot processes of kernel_main, a bounded number of    *)
(* processes loaded by syscalls.                                            *)
EXTENDS TaskScheduler, TLC

CONSTANTS s1, s2, s3

MCSlots2 == {s1, s2}
MCSlots3 == {s1, s2, s3}

\* A uint32_t as its halves (Gdt's Word).
W(hi, lo) == [hi |-> hi, lo |-> lo]

MCTssBase == W(4660, 22136)

\* Limits around the granularity switch (64 KiB, 64 KiB + 1, 0xFFF endings,
\* 128 KiB, the 20-bit limit, 4 GiB), bases of four distinct bytes and all
\* ones, a code and a system type.
MCGdtInputs ==
  [base  : {W(0, 0), W(4660, 22136), W(65535, 65535)},
   limit : {W(0, 0), W(0, 100), W(0, 65535), W(1, 0), W(1, 1), W(1, 65535), W(2, 0), W(15, 65535), W(16, 4095), W(65535, 65535)},
   type  : {154, 137}]

SlotSymmetry2 == Permutations(MCSlots2)
SlotSymmetry3 == Permutations(MCSlots3)

\* The traps user code meets: a general-protection fault (0x0D, for every
\* exception vector 1 .. 0x1F), the timer (0x20) and the keyboard IRQ
\* (0x21, for every vector without a callback).  Vector 0 is left out: its
\* gate is divide_by_zero, which never reaches interrupt_handler.
MCVectors == {13, 32, 33}
====
