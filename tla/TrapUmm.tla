------------------------------ MODULE TrapUmm ------------------------------
(***************************************************************************)
(* The handlers of Trap and the memory manager of Umm: the memory calls of *)
(* all threads, each of several steps, stand for calls that happen one at  *)
(* a time.                                                                 *)
(***************************************************************************)
EXTENDS Trap

(* What Umm would see: a counter includes what a call has mapped and not   *)
(* yet counted, and the page table follows an mremap at once.              *)
Counting(t) == th[t].pc \in {"load", "store"} /\ th[t].tf.rax \in {"mmap", "shmat", "mremap"}
Resizing(t) == th[t].pc = "store" /\ th[t].tf.rax = "brk"
Moving(t) == th[t].pc \in {"load", "store", "remap"} /\ th[t].tf.rax = "mremap"

Caller == CHOOSE t \in Thread : Counting(t) \/ Resizing(t) \/ Moving(t)

AbsMmapLen ==
    IF \E t \in Thread : Counting(t)
    THEN mmap_len + RoundUp(NewLen(th[Caller].tf)) ELSE mmap_len

AbsBrkLen ==
    IF \E t \in Thread : Resizing(t) THEN NewLen(th[Caller].tf) ELSE brk_len

AbsPt ==
    IF \E t \in Thread : Moving(t)
    THEN (pt \ OldPages(Caller)) \cup NewPages(Caller) ELSE pt

(* An mremap whose page table update cannot succeed ends the process.      *)
Doomed == \E t \in Thread : Moving(t) /\ ~th[t].fits

U == INSTANCE Umm WITH brk_len <- AbsBrkLen, mmap_len <- AbsMmapLen, pt <- AbsPt

(* Until two memory calls meet without the mutex, all that Umm keeps is    *)
(* kept in the middle of calls, too: the counters promise no more than     *)
(* there is and nothing placed is mapped over (umm.c:24-26; trap.c:643).   *)
SafeUntilRaced == ~raced /\ ~Doomed /\ phase # "exit" => U!UmmInv

(* As long as no two memory calls meet without the mutex, the calls of all *)
(* threads together behave like the calls of Umm, one at a time: taking    *)
(* the lock for mmap, mprotect and munmap is enough for these              *)
(* (trap.c:643-649; umm.c:24-26).                                          *)
ImplementsUmm ==
    /\ U!UmmInit
    /\ [][raced' \/ Doomed' \/ phase' = "exit" \/ U!UmmNext]_(U!uvars)
=============================================================================
