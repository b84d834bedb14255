---------------------------- MODULE ThreadCreate ----------------------------
(***************************************************************************)
(* How the sandbox makes a thread for the program: dune_pthread_create     *)
(* passes a struct thread_arg on its own stack to the new thread, waits    *)
(* until that has told its tid, and returns (sandbox/src/trap.c:134-214).  *)
(*                                                                         *)
(* One thread calls clone again and again; the c-th call makes child c,    *)
(* whose tid is c.  slot[c] is the stack address of the thread_arg of call *)
(* c: calls at the same depth of the same stack share an address, and      *)
(* calls of different threads never do.  The two critical sections under   *)
(* ta_mtx are one step each.                                               *)
(***************************************************************************)
EXTENDS Naturals

CONSTANTS
    MaxThreads,   \* clone calls made
    Slots,        \* stack addresses
    slot,         \* address of the thread_arg of each call
    Spurious      \* pthread_cond_wait may return without a signal

Child == 1 .. MaxThreads

ASSUME ThreadAssumption ==
    /\ MaxThreads \in Nat \ {0}
    /\ slot \in [Child -> Slots]
    /\ Spurious \in BOOLEAN

VARIABLES
    n,         \* clone calls so far; the current or last one made child n
    parent,    \* where the calling thread is
    child,     \* where each child is
    ta_tid,    \* ta_tid at each address
    flags,     \* children created with CLONE_PARENT_SETTID
    settid,    \* children that stored their tid for it
    ret,       \* the clone calls that returned, each with the tid it returned
    late,      \* history: uses of a thread_arg whose function has returned
    foreign    \* history: a wait ended otherwise than by its own child's signal

tvars == <<n, parent, child, ta_tid, flags, settid, ret, late, foreign>>

TInit ==
    /\ n = 0
    /\ parent = "user"
    /\ child = [c \in Child |-> "none"]
    /\ ta_tid \in [Slots -> {0}]
    /\ flags = {} /\ settid = {}
    /\ ret = {}
    /\ late = {}
    /\ foreign = FALSE

-----------------------------------------------------------------------------
(* Definitions named ..._faulty are variants with a plausible mistake; no  *)
(* action uses them.  README.md says which property notices which.         *)

(* dune_pthread_create up to pthread_create; it returns -1 if that fails.  *)
dune_pthread_create(f) ==
    /\ parent = "user" /\ n < MaxThreads
    /\ n' = n + 1
    /\ ta_tid' = [ta_tid EXCEPT ![slot[n']] = 0]
    /\ flags' = IF f THEN flags \cup {n'} ELSE flags
    /\ \/ child' = [child EXCEPT ![n'] = "entry"] /\ parent' = "lock"
       \/ UNCHANGED <<child, parent>>
    /\ UNCHANGED <<settid, ret, late, foreign>>

(* Lock, test ta_tid, and wait if it is still zero.                        *)
TestTid_no_wait_faulty ==
    /\ parent = "lock"
    /\ parent' = "leave"
    /\ UNCHANGED <<n, child, ta_tid, flags, settid, ret, late, foreign>>

TestTid ==
    /\ parent = "lock"
    /\ parent' = IF ta_tid[slot[n]] = 0 THEN "wait" ELSE "leave"
    /\ UNCHANGED <<n, child, ta_tid, flags, settid, ret, late, foreign>>

(* pthread_cond_wait returns without a signal; ta_tid is not tested again. *)
SpuriousWakeup ==
    /\ Spurious /\ parent = "wait"
    /\ parent' = "leave"
    /\ foreign' = TRUE
    /\ UNCHANGED <<n, child, ta_tid, flags, settid, ret, late>>

(* Destroy the mutex and the condition and return ta_tid.                  *)
ReturnTid ==
    /\ parent = "leave"
    /\ ret' = ret \cup {<<n, ta_tid[slot[n]]>>}
    /\ parent' = "user"
    /\ UNCHANGED <<n, child, ta_tid, flags, settid, late, foreign>>

-----------------------------------------------------------------------------
(* The thread_arg of child c, and the trap frame it points to, still exist. *)
Live(c) == c = n /\ parent # "user"

Use(c, what) == late' = IF Live(c) THEN late ELSE late \cup {<<c, what>>}

(* pthread_entry up to the lock: everything it needs of the trap frame.    *)
CopyFrame_no_settid_faulty(c) ==
    /\ child[c] = "entry"
    /\ child' = [child EXCEPT ![c] = "tell"]
    /\ Use(c, "entry")
    /\ UNCHANGED <<n, parent, ta_tid, flags, settid, ret, foreign>>

CopyFrame(c) ==
    /\ child[c] = "entry"
    /\ settid' = IF c \in flags THEN settid \cup {c} ELSE settid
    /\ child' = [child EXCEPT ![c] = "tell"]
    /\ Use(c, "entry")
    /\ UNCHANGED <<n, parent, ta_tid, flags, ret, foreign>>

TellTid(c) ==
    /\ child[c] = "tell"
    /\ ta_tid' = [ta_tid EXCEPT ![slot[c]] = c]
    /\ child' = [child EXCEPT ![c] = "signal"]
    /\ Use(c, "tell")
    /\ UNCHANGED <<n, parent, flags, settid, ret, foreign>>

(* pthread_cond_signal, after the unlock, wakes whoever waits on a         *)
(* condition at that address; then the child enters ring 3.                *)
Signal_wakes_nobody_faulty(c) ==
    /\ child[c] = "signal"
    /\ child' = [child EXCEPT ![c] = "user"]
    /\ Use(c, "signal")
    /\ UNCHANGED <<n, parent, ta_tid, flags, settid, ret, foreign>>

Signal(c) ==
    LET wakes == parent = "wait" /\ slot[n] = slot[c] IN
    /\ child[c] = "signal"
    /\ parent' = IF wakes THEN "leave" ELSE parent
    /\ foreign' = (foreign \/ (wakes /\ n # c))
    /\ child' = [child EXCEPT ![c] = "user"]
    /\ Use(c, "signal")
    /\ UNCHANGED <<n, ta_tid, flags, settid, ret>>

pthread_entry(c) == CopyFrame(c) \/ TellTid(c) \/ Signal(c)

TNext ==
    \/ \E f \in BOOLEAN : dune_pthread_create(f)
    \/ TestTid \/ SpuriousWakeup \/ ReturnTid
    \/ \E c \in Child : pthread_entry(c)

TSpec == TInit /\ [][TNext]_tvars

(* Every thread is scheduled by the kernel.                                *)
TFairSpec ==
    /\ TSpec
    /\ WF_tvars(TestTid) /\ WF_tvars(ReturnTid)
    /\ \A c \in Child : WF_tvars(pthread_entry(c))

-----------------------------------------------------------------------------
(* Every variable stays in its type.                                       *)
ThreadTypeOK ==
    /\ n \in 0 .. MaxThreads
    /\ parent \in {"user", "lock", "wait", "leave"}
    /\ child \in [Child -> {"none", "entry", "tell", "signal", "user"}]
    /\ ta_tid \in [Slots -> Child \cup {0}]
    /\ flags \subseteq Child /\ settid \subseteq Child
    /\ ret \subseteq Child \X (Child \cup {0})
    /\ late \subseteq Child \X {"entry", "tell", "signal"}
    /\ foreign \in BOOLEAN

(* What "tell parent tid" (trap.c:177) is for: a clone call that made a    *)
(* thread returns the tid of that thread, and by then the thread has       *)
(* stored it where CLONE_PARENT_SETTID asked for it.                       *)
ReturnsOwnTid ==
    \A r \in ret : r[2] = r[1] /\ (r[1] \in flags => r[1] \in settid)

(* It holds as long as no wait was ended by a spurious wake-up or by the   *)
(* late signal of another thread (trap.c:181, 205-207).                    *)
OwnTidUnlessForeignWake == ~foreign => ReturnsOwnTid

(* Until then a child outlives its thread_arg in its last use only, the    *)
(* signal after the unlock (trap.c:181): what it read of the trap frame    *)
(* and the tid it stored were still there.                                 *)
LateInSignalOnly == ~foreign => \A u \in late : u[2] = "signal"

(* A clone call returns: the wake-up is not lost, whoever else signals at  *)
(* the same address.                                                       *)
CloneReturns == parent # "user" ~> parent = "user"

(* The inductive invariant, until the first foreign wake-up: the child of  *)
(* the current call has told its tid exactly if ta_tid says so, the call   *)
(* goes on only after that, and the children of earlier calls have at most *)
(* their signal left.                                                      *)
TInv ==
    /\ ThreadTypeOK
    /\ OwnTidUnlessForeignWake
    /\ LateInSignalOnly
    /\ parent # "user" => n > 0
    /\ \A r \in ret : r[1] <= n
    /\ ~foreign => \A c \in Child :
          /\ c > n => child[c] = "none" /\ c \notin flags
          /\ child[c] \in {"entry", "tell"} => Live(c)
          /\ child[c] \in {"tell", "signal", "user"} /\ c \in flags => c \in settid
          /\ Live(c) => /\ child[c] # "none"
                        /\ ta_tid[slot[c]] = IF child[c] \in {"signal", "user"} THEN c ELSE 0
                        /\ parent = "leave" => child[c] \in {"signal", "user"}
=============================================================================
