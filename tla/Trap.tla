------------------------------- MODULE Trap -------------------------------
(***************************************************************************)
(* The system call and page fault handlers of the sandbox,                  *)
(* sandbox/src/trap.c, with several threads of the program in them at once. *)
(* A call goes through syscall_check_params, the monitor and syscall_do,    *)
(* which takes _syscall_mtx for mmap, mprotect and munmap only.  The memory *)
(* calls of umm.c are split where they read or write what threads share:    *)
(* the test of the space left, the choice of the address with the change of *)
(* the pages, and the load and the store of the counter.                    *)
(***************************************************************************)
EXTENDS Params

CONSTANTS
    Thread,
    Calls,      \* the frames each thread may trap with
    Denied,     \* the frames the monitor refuses
    NoThread,
    NoFault

Unlocked == {"brk", "shmat", "mremap"}
MemCall == {"mmap", "mprotect", "munmap"} \cup Unlocked

ASSUME TrapAssumption ==
    /\ NoThread \notin Thread
    /\ NoFault \notin Page
    /\ \A t \in Thread : \A f \in Calls[t] :
         /\ f.arg \in [1 .. 5 -> 0 .. WORD - 1]
         /\ f.rax \in MemCall => \A i \in 1 .. 5 : f.arg[i] \in Addr \cap (Length \cup {0})

VARIABLES
    th,         \* each thread: where it is, the frame of its call, the
                \* address it chose, the mmap_len it loaded, and whether the
                \* page table can be extended for its mremap
    flt,        \* the page on which each thread faulted in ring 0
    mtx,        \* the thread that holds _syscall_mtx
    raced       \* history: two memory calls were in progress at once and one
                \* of them without the mutex

tvars == <<uvars, th, flt, mtx, raced>>

NoCall == [rax |-> "none", arg |-> <<0, 0, 0, 0, 0>>]
At(where, f) == [pc |-> where, tf |-> f, addr |-> 0, seen |-> 0, fits |-> TRUE]

TrapInit ==
    /\ UmmInit
    /\ th = [t \in Thread |-> At("user", NoCall)]
    /\ flt = [t \in Thread |-> NoFault]
    /\ mtx = NoThread
    /\ raced = FALSE

-----------------------------------------------------------------------------
(* Definitions named ..._faulty are variants with a plausible mistake; no  *)
(* action uses them.  README.md says which property notices which.         *)

need_lock_not_mmap_faulty(f) == f.rax \in {"mprotect", "munmap"}

need_lock(f) == f.rax \in {"mmap", "mprotect", "munmap"}

(* Thread t is inside a memory call.                                       *)
InMem(t) == th[t].tf.rax \in MemCall /\ th[t].pc \in {"do", "place", "load", "store", "remap"}

(* boxer_main makes the stack before it enters the program.                *)
Boot ==
    /\ umm_alloc_stack
    /\ UNCHANGED <<th, flt, mtx, raced>>

(* A memory call begins: does it meet another one without the mutex?       *)
Begin(t, f) ==
    raced' = (raced \/ (f.rax \in MemCall /\ \E u \in Thread \ {t} :
                          InMem(u) /\ {f.rax, th[u].tf.rax} \cap Unlocked # {}))

Runs(t, where) == phase = "run" /\ th[t].pc = where /\ flt[t] = NoFault

Goto(t, where) == th' = [th EXCEPT ![t].pc = where]
Return(t) == th' = [th EXCEPT ![t] = At("user", NoCall)]

(* syscall_handler up to syscall_do.  A call that is refused returns at    *)
(* once and changes nothing.                                               *)
syscall_allow(f) == f \notin Denied

syscall_handler(t, f) ==
    /\ Runs(t, "user")
    /\ syscall_check_params(f) = "pass"
    /\ syscall_allow(f)
    /\ IF need_lock(f) THEN th' = [th EXCEPT ![t] = At("lock", f)] /\ UNCHANGED raced
                       ELSE th' = [th EXCEPT ![t] = At("do", f)] /\ Begin(t, f)
    /\ UNCHANGED <<uvars, flt, mtx>>

CheckAborts(t, f) ==
    /\ Runs(t, "user")
    /\ syscall_check_params(f) = "abort"
    /\ phase' = "exit"
    /\ UNCHANGED <<brk_len, mmap_len, host, pt, replaced, th, flt, mtx, raced>>

Lock_without_waiting_faulty(t) ==
    /\ Runs(t, "lock")
    /\ mtx' = t
    /\ Goto(t, "do") /\ Begin(t, th[t].tf)
    /\ UNCHANGED <<uvars, flt>>

Lock(t) ==
    /\ Runs(t, "lock")
    /\ mtx = NoThread
    /\ mtx' = t
    /\ Goto(t, "do") /\ Begin(t, th[t].tf)
    /\ UNCHANGED <<uvars, flt>>

(* Where a thread goes when syscall_do_foreal returns.                     *)
Done(t) == IF need_lock(th[t].tf) THEN Goto(t, "unlock") ELSE Return(t)

Unlock(t) ==
    /\ Runs(t, "unlock")
    /\ mtx' = NoThread
    /\ Return(t)
    /\ UNCHANGED <<uvars, flt, raced>>

(* A call that is passed through or answered at once.                      *)
OtherCall(t) ==
    /\ Runs(t, "do")
    /\ th[t].tf.rax \notin MemCall
    /\ IF th[t].tf.rax \in {"exit", "exit_group"} THEN th' = [th EXCEPT ![t] = At("dead", NoCall)]
                                                 ELSE Done(t)
    /\ UNCHANGED <<uvars, flt, mtx, raced>>

(* exec_execev has forked: the parent exits.                               *)
ExecExits(t) ==
    /\ Runs(t, "do")
    /\ th[t].tf.rax = "execve"
    /\ phase' = "exit"
    /\ UNCHANGED <<brk_len, mmap_len, host, pt, replaced, th, flt, mtx, raced>>

-----------------------------------------------------------------------------
(* The memory calls.  The size of the segment shmat attaches stands in     *)
(* ARG0, the identifier.                                                   *)
MREMAP_MAYMOVE == 1
MREMAP_FIXED == 2

Fixed(f) ==
    CASE f.rax = "mmap"   -> ARG(f, 0) # 0
      [] f.rax = "shmat"  -> ARG(f, 1) # 0
      [] f.rax = "mremap" -> (ARG(f, 3) \div MREMAP_FIXED) % 2 = 1

NewLen(f) ==
    CASE f.rax = "brk"    -> RoundUp(ARG(f, 0) - mmap_base)
      [] f.rax = "mmap"   -> ARG(f, 1)
      [] f.rax = "shmat"  -> ARG(f, 0)
      [] f.rax = "mremap" -> ARG(f, 2)

NewAddr(f) ==
    CASE ~Fixed(f) -> OpenAddr(NewLen(f))
      [] Fixed(f) /\ f.rax = "mmap"   -> ARG(f, 0)
      [] Fixed(f) /\ f.rax = "shmat"  -> ARG(f, 1)
      [] Fixed(f) /\ f.rax = "mremap" -> ARG(f, 4)

(* The tests a call makes before it changes anything.                      *)
Accepted(f) ==
    \/ /\ f.rax = "brk" /\ ARG(f, 0) >= mmap_base
       /\ umm_space_left(NewLen(f))
    \/ /\ f.rax \in {"mmap", "shmat"}
       /\ IF Fixed(f) THEN mem_ref_is_safe(NewAddr(f), NewLen(f)) ELSE umm_space_left(NewLen(f))
    \/ /\ f.rax \in {"munmap", "mprotect"}
       /\ mem_ref_is_safe(ARG(f, 0), ARG(f, 1))
    \/ /\ f.rax = "mremap"
       /\ mem_ref_is_safe(ARG(f, 0), ARG(f, 1))
       /\ IF Fixed(f) THEN mem_ref_is_safe(NewAddr(f), NewLen(f)) ELSE umm_space_left(NewLen(f))
       /\ ARG(f, 3) % 2 = MREMAP_MAYMOVE

Test_returns_locked_faulty(t) ==
    /\ Runs(t, "do")
    /\ th[t].tf.rax \in MemCall
    /\ IF Accepted(th[t].tf) THEN Goto(t, "place") ELSE Return(t)
    /\ UNCHANGED <<uvars, flt, mtx, raced>>

Test(t) ==
    /\ Runs(t, "do")
    /\ th[t].tf.rax \in MemCall
    /\ IF Accepted(th[t].tf) THEN Goto(t, "place") ELSE Done(t)
    /\ UNCHANGED <<uvars, flt, mtx, raced>>

(* munmap; mprotect leaves the pages where they are.                       *)
PlaceUnmap(t) ==
    /\ Runs(t, "place")
    /\ \/ th[t].tf.rax = "munmap" /\ UnmapPages(ARG(th[t].tf, 0), ARG(th[t].tf, 1))
       \/ th[t].tf.rax = "mprotect" /\ UNCHANGED <<host, pt>>
    /\ Done(t)
    /\ UNCHANGED <<phase, brk_len, mmap_len, replaced, flt, mtx, raced>>

PlaceBrk(t) ==
    LET len == NewLen(th[t].tf) IN
    /\ Runs(t, "place")
    /\ th[t].tf.rax = "brk"
    /\ \/ len = brk_len /\ Done(t) /\ UNCHANGED <<host, pt, replaced>>
       \/ /\ len < brk_len
          /\ UnmapPages(mmap_base + len, brk_len - len)
          /\ Goto(t, "store")
          /\ UNCHANGED replaced
       \/ /\ len > brk_len
          /\ MapPages(mmap_base + brk_len, len - brk_len, "heap")
          /\ Choose(mmap_base + brk_len, len - brk_len)
          /\ Goto(t, "store")
       \/ /\ len > brk_len
          /\ MapPagesFails(mmap_base + brk_len, len - brk_len)
          /\ Choose(mmap_base + brk_len, len - brk_len)
          /\ Done(t)
    /\ UNCHANGED <<phase, brk_len, mmap_len, flt, mtx, raced>>

(* mmap and shmat.  Without SHM_REMAP the host attaches over unused pages. *)
PlaceMap(t) ==
    LET f == th[t].tf  addr == NewAddr(f)  len == NewLen(f) IN
    /\ Runs(t, "place")
    /\ f.rax \in {"mmap", "shmat"}
    /\ f.rax = "shmat" => Held(Pages(addr, len)) \subseteq {"free"}
    /\ \/ /\ MapPages(addr, len, IF Fixed(f) THEN "fixed" ELSE "auto")
          /\ IF Fixed(f) THEN Done(t) ELSE Goto(t, "load")
       \/ MapPagesFails(addr, len) /\ Done(t)
    /\ IF Fixed(f) THEN UNCHANGED replaced ELSE Choose(addr, len)
    /\ UNCHANGED <<phase, brk_len, mmap_len, flt, mtx, raced>>

(* mremap moves the pages of the process; the page table follows after the *)
(* counter.                                                                *)
PlaceMove(t) ==
    LET f == th[t].tf  old == Pages(ARG(f, 0), ARG(f, 1))  new == Pages(NewAddr(f), NewLen(f)) IN
    /\ Runs(t, "place")
    /\ f.rax = "mremap"
    /\ HostAccepts(ARG(f, 0), ARG(f, 1)) /\ HostAccepts(NewAddr(f), NewLen(f))
    /\ \E what \in Owner \ {"free", "sandbox"} : Held(old) = {what}
    /\ old \cap new = {}
    /\ host' = [p \in Page |-> IF p \in new THEN IF Fixed(f) THEN "fixed" ELSE "auto"
                               ELSE IF p \in old THEN "free" ELSE host[p]]
    /\ IF Fixed(f) THEN UNCHANGED replaced ELSE Choose(NewAddr(f), NewLen(f))
    /\ \E b \in BOOLEAN :
         th' = [th EXCEPT ![t].pc = IF Fixed(f) THEN "remap" ELSE "load",
                          ![t].addr = NewAddr(f), ![t].fits = b]
    /\ UNCHANGED <<phase, brk_len, mmap_len, pt, flt, mtx, raced>>

(* The host kernel refuses, or there is neither MAP_ANONYMOUS nor a file.  *)
HostRefuses(t) ==
    /\ Runs(t, "place")
    /\ Done(t)
    /\ UNCHANGED <<uvars, flt, mtx, raced>>

(* mmap_len += ... reads and writes the counter in two steps.              *)
Load(t) ==
    /\ Runs(t, "load")
    /\ th' = [th EXCEPT ![t].pc = "store", ![t].seen = mmap_len]
    /\ UNCHANGED <<uvars, flt, mtx, raced>>

Store(t) ==
    /\ Runs(t, "store")
    /\ IF th[t].tf.rax = "brk"
       THEN brk_len' = NewLen(th[t].tf) /\ UNCHANGED mmap_len
       ELSE mmap_len' = th[t].seen + RoundUp(NewLen(th[t].tf)) /\ UNCHANGED brk_len
    /\ IF th[t].tf.rax = "mremap" THEN Goto(t, "remap") ELSE Done(t)
    /\ UNCHANGED <<phase, host, pt, replaced, flt, mtx, raced>>

OldPages(t) == Pages(ARG(th[t].tf, 0), ARG(th[t].tf, 1))
NewPages(t) == Pages(th[t].addr, ARG(th[t].tf, 2))

(* The page table follows the pages, or the sandbox calls exit.            *)
Remap(t) ==
    /\ Runs(t, "remap")
    /\ IF th[t].fits
       THEN /\ pt' = (pt \ OldPages(t)) \cup NewPages(t)
            /\ Done(t) /\ UNCHANGED phase
       ELSE /\ pt' = pt \ OldPages(t)
            /\ phase' = "exit" /\ UNCHANGED th
    /\ UNCHANGED <<brk_len, mmap_len, host, replaced, flt, mtx, raced>>

-----------------------------------------------------------------------------
(* A handler touches memory of the sandbox that the page table lacks.      *)
FaultInRing0(t, p) ==
    /\ phase = "run" /\ flt[t] = NoFault
    /\ th[t].pc \notin {"user", "dead"}
    /\ p \notin pt
    /\ flt' = [flt EXCEPT ![t] = p]
    /\ UNCHANGED <<uvars, th, mtx, raced>>

(* pgflt_handler needs the mutex, also when the thread itself holds it.    *)
pgflt_enters(t) ==
    /\ phase = "run" /\ flt[t] # NoFault
    /\ mtx = NoThread
    /\ pt' = pt \cup {flt[t]}
    /\ flt' = [flt EXCEPT ![t] = NoFault]
    /\ UNCHANGED <<phase, brk_len, mmap_len, host, replaced, th, mtx, raced>>

(* A fault of the program ends the thread.                                 *)
FaultInRing3(t) ==
    /\ Runs(t, "user")
    /\ th' = [th EXCEPT ![t] = At("dead", NoCall)]
    /\ UNCHANGED <<uvars, flt, mtx, raced>>

-----------------------------------------------------------------------------
HandlerStep(t) ==
    \/ Lock(t) \/ Unlock(t) \/ OtherCall(t) \/ ExecExits(t)
    \/ Test(t) \/ PlaceUnmap(t) \/ PlaceBrk(t) \/ PlaceMap(t) \/ PlaceMove(t) \/ HostRefuses(t)
    \/ Load(t) \/ Store(t) \/ Remap(t)
    \/ pgflt_enters(t)

TrapNext ==
    \/ Boot
    \/ \E t \in Thread :
         \/ \E f \in Calls[t] : syscall_handler(t, f) \/ CheckAborts(t, f)
         \/ HandlerStep(t)
         \/ \E p \in Fault : FaultInRing0(t, p)
         \/ FaultInRing3(t)

TrapSpec == TrapInit /\ [][TrapNext]_tvars

(* The kernel schedules every thread.                                      *)
TrapFairSpec == TrapSpec /\ \A t \in Thread : WF_tvars(HandlerStep(t))

-----------------------------------------------------------------------------
(* Every variable stays in its type.                                       *)
TrapTypeOK ==
    /\ UmmTypeOK
    /\ th \in [Thread ->
              [pc : {"user", "lock", "do", "place", "load", "store", "remap", "unlock", "dead"},
               tf : (UNION {Calls[t] : t \in Thread}) \cup {NoCall},
               addr : Nat, seen : Nat, fits : BOOLEAN]]
    /\ flt \in [Thread -> Page \cup {NoFault}]
    /\ mtx \in Thread \cup {NoThread}
    /\ raced \in BOOLEAN

(* _syscall_mtx is held by the thread that is between lock and unlock of   *)
(* syscall_do and by nobody else, so a thread that exits or is killed by a *)
(* fault never takes it along (trap.c:639-658, 82, 630).                   *)
MutexHolder ==
    \A t \in Thread :
        mtx = t <=> need_lock(th[t].tf) /\ th[t].pc \in {"do", "place", "load", "store", "remap", "unlock"}

(* What is passed through to the kernel stays in the memory of the program *)
(* although lengths are counted in ints, multiplied in machine words and   *)
(* added to pointers (trap.c:243-256, 288-346, 524).                       *)
PassedIsInside ==
    \A t \in Thread : th[t].pc = "do" => KernelTouches(th[t].tf) \subseteq AppMemory

(* A thread holds _syscall_mtx only for a time, unless it faults in ring 0 *)
(* while it does: pgflt_handler takes the same mutex, which is not         *)
(* recursive (trap.c:84-89, 680).                                          *)
LockReleased ==
    \A t \in Thread :
        mtx = t ~> (mtx # t \/ flt[t] # NoFault \/ phase = "exit")
=============================================================================
