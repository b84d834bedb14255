------------------------------- MODULE MCUmm -------------------------------
(* Instances of Umm for TLC: pages of two bytes; two pages of ELF segments, *)
(* four pages from mmap_base, of which the stack takes two; lengths and     *)
(* addresses up to the end of the machine word.                             *)
EXTENDS Umm

MCElf == {0}
MCAddr == {a \in Page : a <= APP_MAX_ELF_VADDR \/ a + PGSIZE >= mmap_base}
              \cup {mmap_base + 1, WORD - PGSIZE}
MCLength == {1, 3, WORD - 1}
MCFault == {mmap_base + PGSIZE}
=============================================================================
