------------------------------ MODULE Sthread ------------------------------
(***************************************************************************)
(* The sthread library, wedge/src/sthread.c: creation, recycling, joining  *)
(* and cooperative scheduling of sthreads, and the system call handler     *)
(* through which an sthread enters the library.                            *)
(*                                                                         *)
(* There is one CPU.  The master runs in ring 0 and calls sthread_create   *)
(* and sthread_join.  Both enter an sthread with dune_jump_to_user, which  *)
(* returns when a later handler calls dune_ret_from_user.  A handler may   *)
(* itself call schedule, which enters another sthread from inside the      *)
(* handler: kstack is the resulting stack of activations.                  *)
(*                                                                         *)
(* Sthreads are numbered 1 .. nst in the order of creation.  The list      *)
(* ks_sthreads is built by head insertion and nothing is ever removed, so  *)
(* the list order is descending st_id.                                     *)
(***************************************************************************)
EXTENDS SecCtx

CONSTANTS
    MaxId,      \* sthreads that fit in the tag kmalloc allocates from
    Policies,   \* the security contexts the master passes to sthread_create
    Val,        \* values an sthread returns
    Chan,       \* pipes and sockets open when the library starts (a pipe is
                \* named by one descriptor, which stands for both its ends)
    Peer,       \* those with a writer outside the process (sockets)
    PipeCap,    \* items a channel holds before a write blocks
    MaxDepth,   \* bound on nested activations (the size of the kernel stack)
    NULL        \* no sthread; the page table root of the master

ASSUME SthreadAssumption ==
    /\ MaxId \in Nat \ {0}
    /\ PipeCap \in Nat \ {0}
    /\ MaxDepth \in Nat \ {0}
    /\ Policies \subseteq Sc /\ Policies # {}
    /\ \A p \in Policies : Len(p.fd) <= SC_FD_LEN
    /\ Peer \subseteq Chan /\ Chan \subseteq Fd /\ Fd \subseteq Nat
    /\ NULL \notin Nat
    /\ NULL \notin Val

Id == 1 .. MaxId

VARIABLES
    nst,        \* _sthread_id: sthreads created so far
    st_state,   \* st_state of each sthread
    st_ret,     \* st_ret of each sthread
    st_sc,      \* st_sc of each sthread
    st_pgroot,  \* the sc_mem the page table of each sthread was built for
    st_tf,      \* descriptor of the read saved in st_tf, NULL while st_tf is zero
    st_walk,    \* the sthreads whose st_walk is non-zero
    ks_current, \* _kstate->ks_current
    cr3,        \* whose page table is loaded
    kstack,     \* activations of launch_sthread and schedule, innermost last:
                \* the sthread whose handler called schedule, NULL for the master
    cpu,        \* what executes
    joining,    \* the sthread that sthread_join waits for
    joined,     \* the value sthread_join last returned through *ret
    fdt,        \* descriptor table of the process
    avail,      \* items waiting in each channel
    given,      \* history: the context of the last sthread_create per sthread
    saved       \* history: the sthreads that saved st_tf since their launch

kvars  == <<ks_current, cr3, kstack, cpu>>
svars  == <<nst, st_state, st_ret, st_sc, st_pgroot, st_tf, st_walk>>
iovars == <<fdt, avail>>
jvars  == <<joining, joined>>
hvars  == <<given, saved>>
vars   == <<svars, kvars, jvars, iovars, hvars>>

Master == [mode |-> "master", id |-> NULL]
User(s) == [mode |-> "user", id |-> s]
InRead(s) == [mode |-> "read", id |-> s]
Stopped(why) == [mode |-> why, id |-> NULL]

(* abort: abort() in schedule; assert: the assertion in syscall_handler;   *)
(* crash: a fault in the handler; exit: errx.                              *)
Halts == {"abort", "assert", "crash", "exit"}

Init ==
    /\ nst = 0
    /\ st_state = [s \in Id |-> "NONE"]
    /\ st_ret = [s \in Id |-> NULL]
    /\ st_sc = [s \in Id |-> CHOOSE p \in Policies : TRUE]
    /\ st_pgroot = [s \in Id |-> st_sc[s].mem]
    /\ st_tf = [s \in Id |-> NULL]
    /\ st_walk = {}
    /\ ks_current = NULL
    /\ cr3 = NULL
    /\ kstack = <<>>
    /\ cpu = Master
    /\ joining = NULL
    /\ joined = NULL
    /\ fdt = [f \in Fd |-> IF f \in Chan THEN "chan" ELSE "closed"]
    /\ avail = [f \in Fd |-> 0]
    /\ given = st_sc
    /\ saved = {}

-----------------------------------------------------------------------------
(* Definitions named ..._faulty are variants with a plausible mistake; no  *)
(* action uses them.  README.md says which property notices which.         *)
-----------------------------------------------------------------------------
(* schedule() takes the first sthread of the list that is running and is   *)
(* not ks_current.                                                         *)
Runnable_skips_newest_faulty ==
    {s \in 1 .. (nst - 1) : s # ks_current /\ st_state[s] = "RUNNING"}

Runnable == {s \in 1 .. nst : s # ks_current /\ st_state[s] = "RUNNING"}

IsNext(s) == s \in Runnable /\ \A t \in Runnable : t <= s

(* ks_current, cr3 and the activation of launch_sthread or schedule that   *)
(* dune_jump_to_user will return to.                                       *)
Enter_keeps_root_faulty(s, caller) ==
    /\ ks_current' = s
    /\ kstack' = Append(kstack, caller)
    /\ UNCHANGED cr3

Enter(s, caller) ==
    /\ ks_current' = s
    /\ cr3' = s
    /\ kstack' = Append(kstack, caller)

(* schedule, the branch that found s: the read saved in st_tf is executed  *)
(* first, then dune_jump_to_user resumes s.                                *)
schedule(s, caller) ==
    /\ IsNext(s)
    /\ Enter(s, caller)
    /\ cpu' = InRead(s)

(* dune_ret_from_user returns from the innermost dune_jump_to_user; both   *)
(* of its callers then load pgroot and clear ks_current.  schedule called  *)
(* from a handler returns to the ring 3 code of the sthread that trapped.  *)
dune_ret_from_user_keeps_current_faulty ==
    LET caller == kstack[Len(kstack)] IN
    /\ kstack' = SubSeq(kstack, 1, Len(kstack) - 1)
    /\ cr3' = NULL
    /\ cpu' = IF caller = NULL THEN Master ELSE User(caller)
    /\ UNCHANGED ks_current

dune_ret_from_user ==
    LET caller == kstack[Len(kstack)] IN
    /\ kstack' = SubSeq(kstack, 1, Len(kstack) - 1)
    /\ ks_current' = NULL
    /\ cr3' = NULL
    /\ cpu' = IF caller = NULL THEN Master ELSE User(caller)

-----------------------------------------------------------------------------
(* sthread_create.                                                         *)

launch_sthread(s) ==
    /\ st_state' = [st_state EXCEPT ![s] = "RUNNING"]
    /\ Enter(s, NULL)
    /\ cpu' = User(s)
    /\ saved' = saved \ {s}

Recyclable_any_mem_faulty(p) == {s \in 1 .. nst : st_state[s] = "DEAD"}

Recyclable_unjoined_faulty(p) ==
    {s \in 1 .. nst : st_state[s] \in {"ZOMBIE", "DEAD"} /\ st_sc[s].mem = p.mem}

Recyclable(p) == {s \in 1 .. nst : st_state[s] = "DEAD" /\ st_sc[s].mem = p.mem}

CreateRecycled(p) ==
    /\ cpu = Master /\ joining = NULL
    /\ \E s \in Recyclable(p) :
          /\ \A t \in Recyclable(p) : t <= s
          /\ st_sc' = [st_sc EXCEPT ![s] = p]
          /\ given' = [given EXCEPT ![s] = p]
          /\ launch_sthread(s)
    /\ UNCHANGED <<nst, st_ret, st_pgroot, st_tf, st_walk, jvars, iovars>>

(* kmalloc: there is room for one more struct sthread in its tag.          *)
kmalloc_fits == nst < MaxId

CreateNew(p) ==
    /\ cpu = Master /\ joining = NULL
    /\ Recyclable(p) = {}
    /\ kmalloc_fits
    /\ nst' = nst + 1
    /\ st_sc' = [st_sc EXCEPT ![nst'] = p]
    /\ given' = [given EXCEPT ![nst'] = p]
    /\ st_pgroot' = [st_pgroot EXCEPT ![nst'] = p.mem]
    /\ st_walk' = st_walk \cup {nst'}
    /\ launch_sthread(nst')
    /\ UNCHANGED <<st_ret, st_tf, jvars, iovars>>

(* kmalloc finds its tag full and calls errx.                              *)
CreateNoMemory(p) ==
    /\ cpu = Master /\ joining = NULL
    /\ Recyclable(p) = {}
    /\ ~kmalloc_fits
    /\ cpu' = Stopped("exit")
    /\ UNCHANGED <<svars, ks_current, cr3, kstack, jvars, iovars, hvars>>

-----------------------------------------------------------------------------
(* sthread_join(s): the call, and one action per iteration of its loop.    *)

Join(s) ==
    /\ cpu = Master /\ joining = NULL
    /\ s <= nst
    /\ joining' = s
    /\ UNCHANGED <<svars, kvars, joined, iovars, hvars>>

JoinReap_loops_faulty ==
    /\ cpu = Master /\ joining # NULL
    /\ st_state[joining] = "ZOMBIE"
    /\ joined' = st_ret[joining]
    /\ UNCHANGED <<svars, kvars, joining, iovars, hvars>>

JoinReap ==
    /\ cpu = Master /\ joining # NULL
    /\ st_state[joining] = "ZOMBIE"
    /\ joined' = st_ret[joining]
    /\ st_state' = [st_state EXCEPT ![joining] = "DEAD"]
    /\ joining' = NULL
    /\ UNCHANGED <<nst, st_ret, st_sc, st_pgroot, st_tf, st_walk, kvars, iovars, hvars>>

JoinSchedule ==
    /\ cpu = Master /\ joining # NULL
    /\ st_state[joining] # "ZOMBIE"
    /\ \E s \in Id : schedule(s, NULL)
    /\ UNCHANGED <<svars, jvars, iovars, hvars>>

JoinAbort ==
    /\ cpu = Master /\ joining # NULL
    /\ st_state[joining] # "ZOMBIE"
    /\ Runnable = {}
    /\ cpu' = Stopped("abort")
    /\ UNCHANGED <<svars, ks_current, cr3, kstack, jvars, iovars, hvars>>

-----------------------------------------------------------------------------
(* syscall_handler: one action per outcome.  A call that a check blocks    *)
(* returns -EINVAL to the sthread and changes nothing else.                *)

Trap(s) == cpu = User(s) /\ ks_current = s

(* The handler works on ks_current.  When that is NULL every path through  *)
(* it dereferences the null pointer.                                       *)
TrapNoCurrent ==
    /\ cpu.mode = "user" /\ ks_current = NULL
    /\ cpu' = Stopped("crash")
    /\ UNCHANGED <<svars, ks_current, cr3, kstack, jvars, iovars, hvars>>

(* The sthread can make a call whose buffer the handler checks.            *)
ReachesMemCheck(s) ==
    \/ \E f \in Fd, perm \in Prot : has_fd_perm(st_sc[s], f, perm)
    \/ can_do_sys(st_sc[s], SYS_open)

MemAssert(s) ==
    /\ Trap(s) /\ ReachesMemCheck(s)
    /\ s \notin st_walk
    /\ cpu' = Stopped("assert")
    /\ UNCHANGED <<svars, ks_current, cr3, kstack, jvars, iovars, hvars>>

(* has_mem_perm resets st_walk and fails on the first page of the buffer.  *)
(* (When it fails on a later page st_walk is non-zero again.)              *)
MemDenied(s) ==
    /\ Trap(s) /\ ReachesMemCheck(s)
    /\ s \in st_walk
    /\ st_walk' = st_walk \ {s}
    /\ UNCHANGED <<nst, st_state, st_ret, st_sc, st_pgroot, st_tf, kvars, jvars, iovars, hvars>>

(* System call 666, made by sthread_trampoline when the callback returns.  *)
(* recycle leaves st_walk at the size of the stack.                        *)
SysExit(s, v) ==
    /\ Trap(s)
    /\ st_ret' = [st_ret EXCEPT ![s] = v]
    /\ st_walk' = st_walk \cup {s}
    /\ st_state' = [st_state EXCEPT ![s] = "ZOMBIE"]
    /\ dune_ret_from_user
    /\ UNCHANGED <<nst, st_sc, st_pgroot, st_tf, jvars, iovars, hvars>>

(* The trap frame of a read is kept in st_tf.                              *)
save_tf_faulty(s, f) == UNCHANGED <<st_tf, saved>>

save_tf(s, f) ==
    /\ st_tf' = [st_tf EXCEPT ![s] = f]
    /\ saved' = saved \cup {s}

(* A permitted read is not executed: it is saved in st_tf and the CPU goes *)
(* to another running sthread, or back to the master.                      *)
SysRead(s, f) ==
    /\ Trap(s) /\ has_fd_perm(st_sc[s], f, "PROT_READ") /\ s \in st_walk
    /\ save_tf(s, f)
    /\ \/ Len(kstack) < MaxDepth /\ \E t \in Id : schedule(t, s)
       \/ Runnable = {} /\ dune_ret_from_user
    /\ UNCHANGED <<nst, st_state, st_ret, st_sc, st_pgroot, st_walk, jvars, iovars, given>>

(* The saved read of the sthread schedule chose.  It blocks the process    *)
(* while the channel is empty; on a file or a closed descriptor it returns *)
(* at once.                                                                *)
ReadReturns ==
    /\ cpu.mode = "read"
    /\ LET f == st_tf[cpu.id] IN
         /\ fdt[f] = "chan" => avail[f] > 0
         /\ avail' = [avail EXCEPT ![f] = IF fdt[f] = "chan" THEN @ - 1 ELSE @]
    /\ cpu' = User(cpu.id)
    /\ UNCHANGED <<svars, ks_current, cr3, kstack, jvars, fdt, hvars>>

(* What a write to descriptor f by the process does to the channels.       *)
PutInChannel(f) ==
    /\ fdt[f] = "chan" /\ f \notin Peer
    /\ avail[f] < PipeCap
    /\ avail' = [avail EXCEPT ![f] = @ + 1]

SysWrite(s, f) ==
    /\ Trap(s) /\ has_fd_perm(st_sc[s], f, "PROT_WRITE") /\ s \in st_walk
    /\ PutInChannel(f)
    /\ UNCHANGED <<svars, kvars, jvars, fdt, hvars>>

LowestClosed(f) == fdt[f] = "closed" /\ \A g \in Fd : fdt[g] = "closed" => f <= g

SysOpen(s, f) ==
    /\ Trap(s) /\ can_do_sys(st_sc[s], SYS_open) /\ s \in st_walk
    /\ LowestClosed(f)
    /\ fdt' = [fdt EXCEPT ![f] = "file"]
    /\ \/ /\ ~sc_fd_full(st_sc[s])
          /\ st_sc' = [st_sc EXCEPT ![s] = sc_fd_add(@, f, Prot)]
          /\ UNCHANGED kvars
       \/ /\ sc_fd_full(st_sc[s])
          /\ cpu' = Stopped("exit")
          /\ UNCHANGED <<st_sc, ks_current, cr3, kstack>>
    /\ UNCHANGED <<nst, st_state, st_ret, st_pgroot, st_tf, st_walk, jvars, avail, hvars>>

SysClose(s, f) ==
    /\ Trap(s) /\ can_do_sys(st_sc[s], SYS_close)
    /\ has_fd_perm(st_sc[s], f, "PROT_WRITE")
    /\ fdt[f] # "closed"
    /\ fdt' = [fdt EXCEPT ![f] = "closed"]
    /\ avail' = [avail EXCEPT ![f] = 0]
    /\ UNCHANGED <<svars, kvars, jvars, hvars>>

(* can_do_sys ends the process on a number beyond the end of sc_sys.       *)
SysOutOfRange(s, sysno) ==
    /\ Trap(s)
    /\ ~sys_in_range(sysno) /\ sysno # SYS_exit_sthread
    /\ cpu' = Stopped("exit")
    /\ UNCHANGED <<svars, ks_current, cr3, kstack, jvars, iovars, hvars>>

-----------------------------------------------------------------------------
MasterWrite(f) ==
    /\ cpu = Master /\ joining = NULL
    /\ PutInChannel(f)
    /\ UNCHANGED <<svars, kvars, jvars, fdt, hvars>>

PeerWrite(f) ==
    /\ f \in Peer /\ fdt[f] = "chan" /\ cpu.mode \notin Halts
    /\ avail[f] < PipeCap
    /\ avail' = [avail EXCEPT ![f] = @ + 1]
    /\ UNCHANGED <<svars, kvars, jvars, fdt, hvars>>

(* Every step but the three in which the memory of an sthread is made,     *)
(* reset or filled: module Wedge adds that memory.                         *)
ControlStep ==
    \/ \E p \in Policies : CreateRecycled(p) \/ CreateNoMemory(p)
    \/ \E s \in Id : Join(s)
    \/ JoinReap \/ JoinSchedule \/ JoinAbort
    \/ \E s \in Id :
          \/ MemAssert(s) \/ MemDenied(s)
          \/ \E f \in Fd : SysRead(s, f) \/ SysWrite(s, f) \/ SysOpen(s, f) \/ SysClose(s, f)
          \/ SysOutOfRange(s, 8 * (SC_SYS_LEN + 1))
    \/ TrapNoCurrent
    \/ \E f \in Fd : MasterWrite(f) \/ PeerWrite(f)

Next ==
    \/ ControlStep
    \/ \E p \in Policies : CreateNew(p)
    \/ \E s \in Id, v \in Val : SysExit(s, v)
    \/ ReadReturns

Spec == Init /\ [][Next]_vars

-----------------------------------------------------------------------------
(* Every variable stays in its type.                                       *)
TypeOK ==
    /\ nst \in 0 .. MaxId
    /\ st_state \in [Id -> {"NONE", "RUNNING", "ZOMBIE", "DEAD"}]
    /\ st_ret \in [Id -> Val \cup {NULL}]
    /\ st_sc \in [Id -> Sc]
    /\ st_pgroot \in [Id -> Mem]
    /\ st_tf \in [Id -> Fd \cup {NULL}]
    /\ st_walk \subseteq Id
    /\ ks_current \in Id \cup {NULL}
    /\ cr3 \in Id \cup {NULL}
    /\ kstack \in Seq(Id \cup {NULL})
    /\ cpu \in [mode : {"master", "user", "read"} \cup Halts, id : Id \cup {NULL}]
    /\ joining \in Id \cup {NULL}
    /\ joined \in Val \cup {NULL}
    /\ fdt \in [Fd -> {"closed", "chan", "file"}]
    /\ avail \in [Fd -> 0 .. PipeCap]
    /\ given \in [Id -> Policies]
    /\ saved \subseteq Id

(* Whatever schedule may choose (sthread.c:208-224) has a read of its own  *)
(* in st_tf, saved since it was last launched: an sthread is never resumed *)
(* from the zeroed frame of create_new_sthread, nor from the frame that an *)
(* earlier incarnation of a recycled sthread left behind.                  *)
ResumableFromOwnFrame ==
    \A s \in 1 .. nst :
        st_state[s] = "RUNNING" /\ s # ks_current => s \in saved /\ st_tf[s] \in Fd

(* The abort() at the end of schedule (sthread.c:239) is reached only when *)
(* the program joins an sthread that was already joined: waiting for a     *)
(* live sthread always finds somebody to run.                              *)
AbortOnlyOnSecondJoin ==
    cpu.mode = "abort" => joining # NULL /\ st_state[joining] = "DEAD"

(* An sthread runs under the context its creator passed, also when its     *)
(* structure and page table are recycled (sthread.c:668-676): the page     *)
(* table was built for the same sc_mem, the permitted calls are the same,  *)
(* and descriptors were only added, by its own open calls, never beyond    *)
(* the end of sc_fd.                                                       *)
PolicyOfCreator ==
    \A s \in 1 .. nst :
        /\ st_pgroot[s] = given[s].mem
        /\ st_sc[s].mem = given[s].mem
        /\ st_sc[s].sys = given[s].sys
        /\ Len(given[s].fd) <= Len(st_sc[s].fd) /\ Len(st_sc[s].fd) <= SC_FD_LEN
        /\ \A i \in 1 .. Len(given[s].fd) : st_sc[s].fd[i] = given[s].fd[i]

(* Ring 3 code leaves its own page table in one situation only: the        *)
(* sthread had trapped into a read and schedule entered another sthread    *)
(* from inside that handler (sthread.c:221-227).                           *)
OffOwnRootOnlyAfterRead ==
    cpu.mode = "user" /\ cr3 # cpu.id => cr3 = NULL /\ cpu.id \in saved

(* The master runs exactly when no activation of launch_sthread or         *)
(* schedule is pending; the outermost activation returns to the master and *)
(* every other one into the handler of an sthread that has saved its read; *)
(* the loaded page table is the one of ks_current.                         *)
ActivationsNest ==
    /\ cr3 = ks_current
    /\ cpu.mode = "master" => kstack = <<>> /\ ks_current = NULL
    /\ cpu.mode \in {"user", "read"} => Len(kstack) > 0
    /\ \A i \in 1 .. Len(kstack) : kstack[i] = NULL <=> i = 1
    /\ \A i \in 1 .. Len(kstack) : i > 1 => kstack[i] \in saved

(* Only a running sthread occupies the CPU, and the innermost pending      *)
(* handler belongs to a running sthread other than ks_current: no zombie   *)
(* is ever returned to (sthread.c:224, 355-356).                           *)
CurrentIsRunning ==
    /\ ks_current # NULL => ks_current <= nst /\ st_state[ks_current] = "RUNNING"
    /\ ks_current # NULL /\ cpu.mode \notin Halts => cpu.id = ks_current
    /\ cpu.mode = "read" => ks_current # NULL /\ cpu.id = ks_current
    /\ cpu.mode = "user" => cpu.id # NULL /\ st_state[cpu.id] = "RUNNING"
    /\ ks_current # NULL /\ Len(kstack) > 1 =>
          /\ kstack[Len(kstack)] # ks_current
          /\ st_state[kstack[Len(kstack)]] = "RUNNING"

(* The sthreads created are 1 .. nst, and a join waits for one of them.    *)
CreatedAndJoined ==
    /\ \A s \in Id : st_state[s] = "NONE" <=> s > nst
    /\ joining # NULL => joining <= nst

(* The inductive invariant: the properties above, with what their proofs   *)
(* need to know of each other.                                             *)
IInv ==
    /\ TypeOK
    /\ ResumableFromOwnFrame
    /\ AbortOnlyOnSecondJoin
    /\ PolicyOfCreator
    /\ OffOwnRootOnlyAfterRead
    /\ ActivationsNest
    /\ CurrentIsRunning
    /\ CreatedAndJoined

-----------------------------------------------------------------------------
(* sthread_create, sthread_join and the exit call implement the contract   *)
(* of SthreadApi: a value is returned once per creation and handed out by  *)
(* one join, through every interleaving of reads, nesting and recycling.   *)
Life == [s \in Id |-> CASE st_state[s] = "RUNNING" -> "running"
                        [] st_state[s] = "ZOMBIE"  -> "returned"
                        [] OTHER                   -> "free"]

Value == [s \in Id |-> IF st_state[s] = "RUNNING" THEN NULL ELSE st_ret[s]]

Api == INSTANCE SthreadApi WITH life <- Life, policy <- given, value <- Value

ImplementsApi == Api!Spec

(* Every step of the library is taken, the callback of an sthread returns  *)
(* in the end however many system calls it makes, and a peer writes again  *)
(* whenever its channel is empty.                                          *)
Fairness ==
    /\ WF_vars(JoinReap \/ JoinSchedule \/ JoinAbort)
    /\ WF_vars(ReadReturns)
    /\ WF_vars(TrapNoCurrent)
    /\ \A f \in Peer : WF_vars(PeerWrite(f))
    /\ \A s \in Id : SF_vars(\E v \in Val : SysExit(s, v))

FairSpec == Spec /\ Fairness

(* sthread_join does not loop for ever (sthread.c:701): it returns, or the *)
(* process ends.                                                           *)
JoinSettles == joining # NULL ~> joining = NULL \/ cpu.mode \in Halts
=============================================================================
