------------------------------- MODULE Wedge -------------------------------
(***************************************************************************)
(* Sthread composed with the memory its sthreads see: the copy of the      *)
(* checkpointed pages that create_new_sthread makes and walk_remap maps,   *)
(* the stack, the dirty bits of the page table, and recycle, which undoes  *)
(* at exit what the dirty bits report (wedge/src/sthread.c:92-154,         *)
(* 465-482, 541-661).                                                      *)
(*                                                                         *)
(* A page is "clean" while it holds what a first-time sthread finds there  *)
(* (the checkpoint, or zeros in the stack) and "used" once ring 3 code or  *)
(* a system call made for it has written it.                               *)
(***************************************************************************)
EXTENDS Sthread

CONSTANTS
    Page,            \* pages of the writable segments
    Stack,           \* the stack page
    HostBuffers,     \* reads may fill a buffer in one of these pages
    TlbKeeps         \* pages whose TLB entry may stay, dirty flag set,
                     \* across the CR3_NOFLUSH switches of the library

ASSUME WedgeAssumption ==
    /\ Stack \notin Page
    /\ HostBuffers \subseteq Page \cup {Stack}
    /\ TlbKeeps \subseteq Page \cup {Stack}

VARIABLES
    master,   \* the master's own writable pages
    pages,    \* per sthread: st_writable and st_stack
    pte_d,    \* per sthread: pages whose PTE has PTE_D set
    tlb_d     \* per sthread: pages the TLB holds as dirty under its PCID

mvars == <<master, pages, pte_d, tlb_d>>
wvars == <<vars, mvars>>

AllPage == Page \cup {Stack}

MemInit ==
    /\ master = [p \in Page |-> "clean"]
    /\ pages = [s \in Id |-> [p \in AllPage |-> "clean"]]
    /\ pte_d = [s \in Id |-> {}]
    /\ tlb_d = [s \in Id |-> {}]

(* mmap, memcpy from _checkpointed_mem, and fresh PTEs from walk_remap.    *)
create_pages(s) ==
    /\ pages' = [pages EXCEPT ![s] = [p \in AllPage |-> "clean"]]
    /\ pte_d' = [pte_d EXCEPT ![s] = {}]
    /\ UNCHANGED <<master, tlb_d>>

(* recycle: walk_recycle restores the dirty pages and clears PTE_D,        *)
(* walk_recycle_stack zeroes a dirty stack page and leaves PTE_D set.      *)
(* Neither invalidates the TLB.                                            *)
recycle_no_stack_faulty(s) ==
    /\ pages' = [pages EXCEPT ![s] =
                   [p \in AllPage |-> IF p \in pte_d[s] \ {Stack} THEN "clean" ELSE @[p]]]
    /\ pte_d' = [pte_d EXCEPT ![s] = @ \cap {Stack}]
    /\ UNCHANGED <<master, tlb_d>>

recycle_clears_stack_bit_faulty(s) ==
    /\ pages' = [pages EXCEPT ![s] =
                   [p \in AllPage |-> IF p \in pte_d[s] THEN "clean" ELSE @[p]]]
    /\ pte_d' = [pte_d EXCEPT ![s] = {}]
    /\ UNCHANGED <<master, tlb_d>>

recycle(s) ==
    /\ pages' = [pages EXCEPT ![s] =
                   [p \in AllPage |-> IF p \in pte_d[s] THEN "clean" ELSE @[p]]]
    /\ pte_d' = [pte_d EXCEPT ![s] = @ \cap {Stack}]
    /\ UNCHANGED <<master, tlb_d>>

(* Ring 3 code writes page p through the loaded page table.  On its own    *)
(* root the write goes to the private copy, and the processor sets PTE_D   *)
(* unless the TLB already holds the page as dirty.  On the master's root   *)
(* it goes to the page of the master (the stack is mapped in both).        *)
Store(p) ==
    /\ cpu.mode = "user"
    /\ \/ /\ cr3 = cpu.id
          /\ pages' = [pages EXCEPT ![cpu.id][p] = "used"]
          /\ pte_d' = [pte_d EXCEPT ![cpu.id] =
                         IF p \in tlb_d[cpu.id] THEN @ ELSE @ \cup {p}]
          /\ tlb_d' = [tlb_d EXCEPT ![cpu.id] =
                         IF p \in TlbKeeps THEN @ \cup {p} ELSE @]
          /\ UNCHANGED master
       \/ /\ cr3 = NULL /\ p \in Page
          /\ master' = [master EXCEPT ![p] = "used"]
          /\ UNCHANGED <<pages, pte_d, tlb_d>>
       \/ /\ cr3 = NULL /\ p = Stack
          /\ pages' = [pages EXCEPT ![cpu.id][p] = "used"]
          /\ UNCHANGED <<master, pte_d, tlb_d>>
    /\ UNCHANGED vars

(* The TLB may drop an entry at any time.                                  *)
Evict(s, p) ==
    /\ p \in tlb_d[s]
    /\ tlb_d' = [tlb_d EXCEPT ![s] = @ \ {p}]
    /\ UNCHANGED <<vars, master, pages, pte_d>>

(* The handler replaced the buffer pointer by the physical address of the  *)
(* page (sthread.c:347), so the kernel fills the buffer without going      *)
(* through the sthread's page table: no PTE_D.  The buffer may also lie in *)
(* a tag, outside the pages modelled.                                      *)
FillBuffer(s) ==
    /\ \/ UNCHANGED pages
       \/ \E p \in HostBuffers : pages' = [pages EXCEPT ![s][p] = "used"]
    /\ UNCHANGED <<master, pte_d, tlb_d>>

WInit == Init /\ MemInit

WNext ==
    \/ ControlStep /\ UNCHANGED mvars
    \/ \E p \in Policies : CreateNew(p) /\ create_pages(nst')
    \/ \E s \in Id, v \in Val : SysExit(s, v) /\ recycle(s)
    \/ ReadReturns /\ FillBuffer(cpu.id)
    \/ \E p \in AllPage : Store(p)
    \/ \E s \in Id, p \in AllPage : Evict(s, p)

WSpec == WInit /\ [][WNext]_wvars

-----------------------------------------------------------------------------
(* Every variable stays in its type.                                       *)
MemTypeOK ==
    /\ master \in [Page -> {"clean", "used"}]
    /\ pages \in [Id -> [AllPage -> {"clean", "used"}]]
    /\ pte_d \in [Id -> SUBSET AllPage]
    /\ tlb_d \in [Id -> SUBSET AllPage]

(* The pages whose dirty bits recycle can rely on: no buffer in them is    *)
(* filled behind the page table, and PTE_D is never cleared while the TLB  *)
(* may still hold the page as dirty.                                       *)
Tracked == {p \in AllPage \ HostBuffers : p \in TlbKeeps => p = Stack}

(* For those pages the dirty bits cover every use, in the page table and   *)
(* in the TLB.  The one exception is a stack written on the root of the    *)
(* master after a nested schedule: that sthread never reaches recycle.     *)
DirtyBitsCover ==
    \A s \in Id : \A p \in Tracked :
        /\ p \in tlb_d[s] => p \in pte_d[s]
        /\ pages[s][p] = "used" =>
              \/ p \in pte_d[s]
              \/ /\ st_state[s] = "RUNNING" /\ cr3 = NULL
                 /\ cpu \in {User(s), Stopped("crash")}

(* An sthread that is not running holds nothing of what it did in the      *)
(* pages that are tracked: the next incarnation to recycle it starts from  *)
(* the checkpoint (sthread.c:134-154).                                     *)
TrackedFresh ==
    \A s \in Id : st_state[s] # "RUNNING" => \A p \in Tracked : pages[s][p] = "clean"

(* What test.c checks of a global (test.c:50): every sthread starts with   *)
(* the checkpointed content of every page.                                 *)
FreshStart ==
    \A s \in Id : st_state[s] # "RUNNING" => \A p \in AllPage : pages[s][p] = "clean"

(* What test.c checks of the stack (test.c:68): it is zero at every start. *)
(* This holds also when the TLB keeps dirty entries, because               *)
(* walk_recycle_stack never clears PTE_D (sthread.c:129).                  *)
StackFreshStart ==
    \A s \in Id : st_state[s] # "RUNNING" => pages[s][Stack] = "clean"

(* The inductive invariant of the composition.                             *)
WInv ==
    /\ IInv
    /\ MemTypeOK
    /\ DirtyBitsCover
    /\ TrackedFresh
    /\ \A s \in Id : /\ tlb_d[s] \subseteq TlbKeeps
                     /\ tlb_d[s] # {} => st_state[s] # "NONE"

(* What test.c checks of its global after running an sthread: ring 3 code  *)
(* never writes the writable pages of the master.                          *)
MasterUntouched == \A p \in Page : master[p] = "clean"
=============================================================================
