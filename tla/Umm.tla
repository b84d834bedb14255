-------------------------------- MODULE Umm --------------------------------
(***************************************************************************)
(* The memory manager of the sandbox, sandbox/src/umm.c: where the heap,   *)
(* the stack and the mappings of the sandboxed program are placed, the two *)
(* counters it keeps instead of a free list, and the pages each call maps  *)
(* and unmaps in the process and in the page table of the program.  Calls  *)
(* are taken one at a time; a call that fails without effect is a          *)
(* stuttering step.                                                        *)
(*                                                                         *)
(* Addresses are machine words.  A page is named by its first address.     *)
(***************************************************************************)
EXTENDS Integers, FiniteSets

CONSTANTS
    PGSIZE,             \* bytes in a page
    WORD,               \* number of values of a machine word, 2^64
    TASK_SIZE,          \* end of the addresses the host kernel accepts
    APP_MAX_ELF_VADDR,  \* end of the program's own segments
    APP_MMAP_LEN,       \* bytes from mmap_base for heap, mappings and stack
    APP_STACK_SIZE,     \* bytes set aside for the stack, the guard page included
    mmap_base,          \* start of that range, chosen by the Dune library
    DUNE,               \* sandbox.h was compiled with DUNE defined
    Elf,                \* pages load_elf mapped
    Addr,               \* addresses the program passes
    Length,             \* lengths the program passes
    Fault               \* pages on which the sandbox itself may fault

Aligned(a) == a % PGSIZE = 0

APP_MMAP_BASE_OFF == APP_MMAP_LEN
Top == mmap_base + APP_MMAP_BASE_OFF
Guard == Top - APP_STACK_SIZE

Page == {a \in 0 .. TASK_SIZE - 1 : Aligned(a)}
AppPage == {a \in Page : a < APP_MAX_ELF_VADDR \/ (mmap_base <= a /\ a < Top)}

ASSUME UmmAssumption ==
    /\ PGSIZE \in Nat \ {0}
    /\ {WORD, TASK_SIZE, APP_MAX_ELF_VADDR, APP_MMAP_LEN, APP_STACK_SIZE, mmap_base} \subseteq Nat
    /\ \A a \in {WORD, APP_MAX_ELF_VADDR, APP_MMAP_LEN, APP_STACK_SIZE, mmap_base} : Aligned(a)
    /\ APP_MAX_ELF_VADDR <= mmap_base /\ APP_MMAP_LEN <= mmap_base
    /\ PGSIZE < APP_STACK_SIZE /\ APP_STACK_SIZE < APP_MMAP_LEN
    /\ Top <= TASK_SIZE /\ TASK_SIZE + APP_MMAP_LEN + PGSIZE <= WORD
    /\ DUNE \in BOOLEAN
    /\ Elf \subseteq {a \in Page : a < APP_MAX_ELF_VADDR}
    /\ Addr \subseteq 0 .. WORD - 1 /\ Length \subseteq 1 .. WORD - 1
    /\ Fault \subseteq Page

VARIABLES
    phase,      \* before umm_alloc_stack, while the program runs, at the end
    brk_len,    \* bytes of heap
    mmap_len,   \* bytes handed out downwards from Top
    host,       \* what each page of the process holds
    pt,         \* pages with an entry in the program's page table
    replaced    \* history: what pages held when the library placed a new
                \* mapping over them at an address of its own choice

uvars == <<phase, brk_len, mmap_len, host, pt, replaced>>

Owner == {"free", "elf", "heap", "stack", "auto", "fixed", "sandbox"}

(* What the library placed: the heap, the stack, and the mappings whose    *)
(* address the program left open.  "fixed" is a mapping at an address the  *)
(* program named.                                                          *)
Placed == {"heap", "stack", "auto"}

UmmInit ==
    /\ phase = "boot"
    /\ brk_len = 0 /\ mmap_len = 0
    /\ host = [p \in Page |-> IF p \in Elf THEN "elf"
                              ELSE IF p \in AppPage THEN "free" ELSE "sandbox"]
    /\ pt = Elf
    /\ replaced = {}

-----------------------------------------------------------------------------
(* Definitions named ..._faulty are variants with a plausible mistake; no  *)
(* action uses them.  README.md says which property notices which.         *)

Word(n) == n % WORD

PGOFF(a) == a % PGSIZE
PGADDR(a) == a - PGOFF(a)
RoundUp_down_faulty(len) == PGADDR(len)

RoundUp(len) == PGADDR(Word(len + PGSIZE - 1))

mem_ref_is_safe(ptr, len) ==
    LET end == Word(ptr + len) IN
    \/ len <= APP_MAX_ELF_VADDR /\ end <= APP_MAX_ELF_VADDR
    \/ /\ DUNE
       /\ len <= APP_MMAP_LEN /\ ptr >= mmap_base /\ end < Top

umm_space_left_ignores_heap_faulty(len) == Word(mmap_len + len) < APP_MMAP_LEN

umm_space_left(len) == Word(brk_len + mmap_len + len) < APP_MMAP_LEN

umm_get_map_pos == Top - mmap_len

(* The address for a mapping of len bytes that the program left open.      *)
OpenAddr(len) == Word(WORD + umm_get_map_pos - RoundUp(len))

-----------------------------------------------------------------------------
(* The host kernel.  It takes page aligned, non-empty ranges below         *)
(* TASK_SIZE, and works on whole pages.                                    *)
Pages(addr, len) == {p \in Page : addr <= p /\ p < addr + len}

HostAccepts(addr, len) == Aligned(addr) /\ 0 < len /\ addr + len <= TASK_SIZE

Holding(ps, what) == [p \in Page |-> IF p \in ps THEN what ELSE host[p]]

Held(ps) == {host[p] : p \in ps}

(* mmap and dune_vm_map_phys, and the way back with munmap when the page   *)
(* table could be extended over some of the pages only.                    *)
MapPages(addr, len, owner) ==
    /\ HostAccepts(addr, len)
    /\ host' = Holding(Pages(addr, len), owner)
    /\ pt' = pt \cup Pages(addr, len)

MapPagesFails_keeps_pages_faulty(addr, len) ==
    /\ HostAccepts(addr, len)
    /\ host' = Holding(Pages(addr, len), "auto")
    /\ \E p \in Pages(addr, len) : pt' = pt \cup Pages(addr, p - addr)

MapPagesFails(addr, len) ==
    /\ HostAccepts(addr, len)
    /\ host' = Holding(Pages(addr, len), "free")
    /\ \E p \in Pages(addr, len) : pt' = pt \cup Pages(addr, p - addr)

(* munmap and dune_vm_unmap.                                               *)
UnmapPages(addr, len) ==
    /\ HostAccepts(addr, len)
    /\ host' = Holding(Pages(addr, len), "free")
    /\ pt' = pt \ Pages(addr, len)

(* The library chose addr itself: remember what it mapped over.            *)
Choose(addr, len) == replaced' = replaced \cup (Held(Pages(addr, len)) \ {"free"})

-----------------------------------------------------------------------------
umm_alloc_stack_no_guard_faulty ==
    LET addr == PGADDR(umm_get_map_pos) - APP_STACK_SIZE + PGSIZE
        len  == APP_STACK_SIZE - PGSIZE IN
    /\ phase = "boot"
    /\ MapPages(addr, len, "stack")
    /\ Choose(addr, len)
    /\ mmap_len' = mmap_len + len
    /\ phase' = "run"
    /\ UNCHANGED brk_len

(* boxer_main returns, and the process ends, when there is no stack.       *)
umm_alloc_stack ==
    LET addr == PGADDR(umm_get_map_pos) - APP_STACK_SIZE + PGSIZE
        len  == APP_STACK_SIZE - PGSIZE IN
    /\ phase = "boot"
    /\ umm_space_left(APP_STACK_SIZE)
    /\ \/ /\ MapPages(addr, len, "stack")
          /\ mmap_len' = mmap_len + APP_STACK_SIZE + PGOFF(umm_get_map_pos)
          /\ phase' = "run"
       \/ /\ MapPagesFails(addr, len)
          /\ phase' = "exit"
          /\ UNCHANGED mmap_len
    /\ Choose(addr, len)
    /\ UNCHANGED brk_len

umm_brk(brk) ==
    LET len == RoundUp(brk - mmap_base) IN
    /\ phase = "run"
    /\ brk # 0 /\ brk >= mmap_base
    /\ umm_space_left(len)
    /\ \/ /\ len < brk_len
          /\ UnmapPages(mmap_base + len, brk_len - len)
          /\ brk_len' = len
          /\ UNCHANGED replaced
       \/ /\ len > brk_len
          /\ MapPages(mmap_base + brk_len, len - brk_len, "heap")
          /\ Choose(mmap_base + brk_len, len - brk_len)
          /\ brk_len' = len
       \/ /\ len > brk_len
          /\ MapPagesFails(mmap_base + brk_len, len - brk_len)
          /\ Choose(mmap_base + brk_len, len - brk_len)
          /\ UNCHANGED brk_len
    /\ UNCHANGED <<phase, mmap_len>>

(* umm_mmap with no address given: anonymous and file mappings.            *)
MmapOpen(len) ==
    LET addr == OpenAddr(len) IN
    /\ phase = "run"
    /\ umm_space_left(len)
    /\ \/ /\ MapPages(addr, len, "auto")
          /\ mmap_len' = mmap_len + RoundUp(len)
       \/ /\ MapPagesFails(addr, len)
          /\ UNCHANGED mmap_len
    /\ Choose(addr, len)
    /\ UNCHANGED <<phase, brk_len>>

(* umm_mmap at the address given: MAP_FIXED is always added to the flags.  *)
MmapAt(addr, len) ==
    /\ phase = "run"
    /\ addr # 0 /\ mem_ref_is_safe(addr, len)
    /\ MapPages(addr, len, "fixed") \/ MapPagesFails(addr, len)
    /\ UNCHANGED <<phase, brk_len, mmap_len, replaced>>

umm_munmap_unchecked_faulty(addr, len) ==
    /\ phase = "run"
    /\ UnmapPages(addr, len)
    /\ UNCHANGED <<phase, brk_len, mmap_len, replaced>>

umm_munmap(addr, len) ==
    /\ phase = "run"
    /\ mem_ref_is_safe(addr, len)
    /\ UnmapPages(addr, len)
    /\ UNCHANGED <<phase, brk_len, mmap_len, replaced>>

(* umm_shmat.  Unless the program passes SHM_REMAP the host kernel attaches *)
(* only over unused pages.                                                  *)
ShmatOpen(len, remap) ==
    LET addr == OpenAddr(len) IN
    /\ phase = "run"
    /\ umm_space_left(len)
    /\ remap \/ Held(Pages(addr, len)) \subseteq {"free"}
    /\ \/ /\ MapPages(addr, len, "auto")
          /\ mmap_len' = mmap_len + RoundUp(len)
       \/ /\ MapPagesFails(addr, len)
          /\ UNCHANGED mmap_len
    /\ Choose(addr, len)
    /\ UNCHANGED <<phase, brk_len>>

ShmatAt(addr, len, remap) ==
    /\ phase = "run"
    /\ addr # 0 /\ mem_ref_is_safe(addr, len)
    /\ remap \/ Held(Pages(addr, len)) \subseteq {"free"}
    /\ MapPages(addr, len, "fixed") \/ MapPagesFails(addr, len)
    /\ UNCHANGED <<phase, brk_len, mmap_len, replaced>>

(* mremap moves one mapping to a range that does not overlap it; then the  *)
(* page table follows, or the sandbox calls exit.                          *)
MovePages(old, old_size, new, new_size, owner) ==
    /\ HostAccepts(old, old_size) /\ HostAccepts(new, new_size)
    /\ \E what \in Owner \ {"free", "sandbox"} : Held(Pages(old, old_size)) = {what}
    /\ Pages(old, old_size) \cap Pages(new, new_size) = {}
    /\ host' = [p \in Page |-> IF p \in Pages(new, new_size) THEN owner
                               ELSE IF p \in Pages(old, old_size) THEN "free" ELSE host[p]]
    /\ \/ /\ pt' = (pt \ Pages(old, old_size)) \cup Pages(new, new_size)
          /\ UNCHANGED phase
       \/ /\ pt' = pt \ Pages(old, old_size)
          /\ phase' = "exit"

MremapOpen(old, old_size, new_size) ==
    LET new == OpenAddr(new_size) IN
    /\ phase = "run"
    /\ mem_ref_is_safe(old, old_size)
    /\ umm_space_left(new_size)
    /\ MovePages(old, old_size, new, new_size, "auto")
    /\ mmap_len' = mmap_len + RoundUp(new_size)
    /\ Choose(new, new_size)
    /\ UNCHANGED brk_len

MremapAt(old, old_size, new, new_size) ==
    /\ phase = "run"
    /\ mem_ref_is_safe(old, old_size)
    /\ mem_ref_is_safe(new, new_size)
    /\ MovePages(old, old_size, new, new_size, "fixed")
    /\ UNCHANGED <<brk_len, mmap_len, replaced>>

(* A fault of the sandbox itself gives the page an entry (trap.c).         *)
pgflt_handler(p) ==
    /\ phase = "run"
    /\ p \notin pt
    /\ pt' = pt \cup {p}
    /\ UNCHANGED <<phase, brk_len, mmap_len, host, replaced>>

UmmNext ==
    \/ umm_alloc_stack
    \/ \E a \in Addr : umm_brk(a)
    \/ \E n \in Length : MmapOpen(n)
    \/ \E a \in Addr, n \in Length : MmapAt(a, n) \/ umm_munmap(a, n)
    \/ \E n \in Length, r \in BOOLEAN : ShmatOpen(n, r) \/ \E a \in Addr : ShmatAt(a, n, r)
    \/ \E a \in Addr, n, m \in Length : MremapOpen(a, n, m) \/ \E b \in Addr : MremapAt(a, n, b, m)
    \/ \E p \in Fault : pgflt_handler(p)

UmmSpec == UmmInit /\ [][UmmNext]_uvars

-----------------------------------------------------------------------------
(* Every variable stays in its type.                                       *)
UmmTypeOK ==
    /\ phase \in {"boot", "run", "exit"}
    /\ brk_len \in Nat /\ mmap_len \in Nat
    /\ host \in [Page -> Owner]
    /\ pt \subseteq Page
    /\ replaced \subseteq Owner

(* The two counters never promise more than there is, although             *)
(* umm_space_left is asked with lengths that are not yet rounded and adds  *)
(* them in machine words (umm.c:28-31, 179-183), and what the library      *)
(* places stays in its own part of the range: the heap below               *)
(* mmap_base + brk_len, mappings between umm_get_map_pos and the guard     *)
(* page, the stack above it.                                               *)
RegionsApart ==
    /\ Aligned(brk_len) /\ Aligned(mmap_len)
    /\ brk_len + mmap_len <= APP_MMAP_LEN
    /\ phase = "boot" =>
          brk_len = 0 /\ mmap_len = 0 /\ \A p \in Page : host[p] \notin Placed
    /\ phase = "run" => APP_STACK_SIZE <= mmap_len
    /\ \A p \in Page :
         /\ host[p] = "heap" => mmap_base <= p /\ p < mmap_base + brk_len
         /\ host[p] = "auto" => umm_get_map_pos <= p /\ p < Guard
         /\ host[p] = "stack" => Guard < p /\ p < Top

(* No brk, mmap, shmat or mremap that lets the library choose the address  *)
(* replaces a page of the heap, of the stack or of an earlier such mapping *)
(* (all of them pass MAP_FIXED, umm.c:56, 84).                             *)
NeverReplacesPlaced == replaced \cap Placed = {}

(* The page under the stack stays unmapped unless the program maps it      *)
(* itself: an overrun of the stack faults (umm.c:344-346).                 *)
GuardUnmapped == host[Guard] \in {"free", "fixed"}

(* No call changes a page outside the two ranges of the program: the       *)
(* memory of the sandbox survives every address and length, those that     *)
(* wrap around included (sandbox.h:32-50).                                 *)
SandboxKept == \A p \in Page : host[p] = "sandbox" <=> p \notin AppPage

(* A page the process holds for the program is in the program's page       *)
(* table: touching memory that a call returned never ends in the fault     *)
(* that kills the program (umm.c:68-75, 221, 323; trap.c:75-82).           *)
MappedIsReachable ==
    phase # "exit" => \A p \in AppPage : host[p] # "free" => p \in pt

(* The inductive invariant.                                                *)
UmmInv ==
    /\ UmmTypeOK
    /\ RegionsApart
    /\ NeverReplacesPlaced
    /\ GuardUnmapped
    /\ SandboxKept
    /\ MappedIsReachable
=============================================================================
