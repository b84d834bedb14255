----------------------------- MODULE TrapRefines ----------------------------
(***************************************************************************)
(* That Trap implements Umm (umm.c, trap.c): the steps of the memory calls *)
(* of all threads, mapped to the state they stand for, are steps of Umm    *)
(* until two calls meet without the mutex.                                 *)
(***************************************************************************)
EXTENDS TrapUmm, TrapProofs

(* The refinement.  When t is the only thread that may be in a memory      *)
(* call, what Umm sees depends on t alone.                                 *)
AbsShape ==
  \A t \in Thread : Sole(t) =>
     /\ AbsMmapLen = IF Counting(t) THEN mmap_len + RoundUp(NewLen(th[t].tf)) ELSE mmap_len
     /\ AbsBrkLen = IF Resizing(t) THEN NewLen(th[t].tf) ELSE brk_len
     /\ AbsPt = IF Moving(t) THEN (pt \ OldPages(t)) \cup NewPages(t) ELSE pt

LEMMA AbsOf == AbsShape
<1>1. \A u \in Thread : Counting(u) \/ Resizing(u) \/ Moving(u) => InMem(u)
  BY DEF Counting, Resizing, Moving, InMem, MemCall, Unlocked
<1>2. ASSUME NEW t \in Thread, Sole(t), Counting(t) \/ Resizing(t) \/ Moving(t)
      PROVE  Caller = t
  <2>1. Caller \in Thread /\ InMem(Caller)
    BY <1>1, <1>2 DEF Caller
  <2> QED
    BY <1>2, <2>1 DEF Sole
<1>3. ASSUME NEW t \in Thread, Sole(t)
      PROVE  /\ AbsMmapLen = IF Counting(t) THEN mmap_len + RoundUp(NewLen(th[t].tf)) ELSE mmap_len
             /\ AbsBrkLen = IF Resizing(t) THEN NewLen(th[t].tf) ELSE brk_len
             /\ AbsPt = IF Moving(t) THEN (pt \ OldPages(t)) \cup NewPages(t) ELSE pt
  <2>1. /\ (\E u \in Thread : Counting(u)) <=> Counting(t)
        /\ (\E u \in Thread : Resizing(u)) <=> Resizing(t)
        /\ (\E u \in Thread : Moving(u)) <=> Moving(t)
    BY <1>1, <1>3 DEF Sole
  <2>2. Counting(t) \/ Resizing(t) \/ Moving(t) => Caller = t
    BY <1>1, <1>2, <1>3
  <2>3. AbsMmapLen = IF Counting(t) THEN mmap_len + RoundUp(NewLen(th[t].tf)) ELSE mmap_len
    BY <2>1, <2>2 DEF AbsMmapLen
  <2>4. AbsBrkLen = IF Resizing(t) THEN NewLen(th[t].tf) ELSE brk_len
    BY <2>1, <2>2 DEF AbsBrkLen
  <2>5. AbsPt = IF Moving(t) THEN (pt \ OldPages(t)) \cup NewPages(t) ELSE pt
    BY Zenon, <2>1, <2>2 DEF AbsPt
  <2> QED
    BY Zenon, <2>3, <2>4, <2>5
<1> QED
  BY <1>3 DEF AbsShape

LEMMA AbsOfNext == AbsShape'
  BY AbsOf, PTL

(* What the instance of Umm means by its operators.                        *)
LEMMA SameOperators ==
  /\ \A a, n : U!Pages(a, n) = Pages(a, n) /\ (U!HostAccepts(a, n) <=> HostAccepts(a, n))
  /\ \A a, n : U!mem_ref_is_safe(a, n) <=> mem_ref_is_safe(a, n)
  /\ \A n : U!RoundUp(n) = RoundUp(n)
  /\ \A S : U!Held(S) = Held(S)
  /\ \A S, w : U!Holding(S, w) = Holding(S, w)
  /\ U!Owner = Owner /\ U!Page = Page
  BY DEF U!Pages, Pages, U!HostAccepts, HostAccepts, U!mem_ref_is_safe, mem_ref_is_safe,
         U!RoundUp, RoundUp, U!PGADDR, PGADDR, U!PGOFF, PGOFF, U!Word, Word, U!Held, Held,
         U!Holding, Holding, U!Owner, Owner, U!Page, Page, U!Aligned, Aligned, U!Top, Top,
         U!APP_MMAP_BASE_OFF, APP_MMAP_BASE_OFF

LEMMA SameActions ==
  /\ \A a, n : U!Choose(a, n) <=> Choose(a, n)
  /\ \A a, n, w : U!MapPages(a, n, w) <=>
        HostAccepts(a, n) /\ host' = Holding(Pages(a, n), w) /\ AbsPt' = AbsPt \cup Pages(a, n)
  /\ \A a, n : U!MapPagesFails(a, n) <=>
        /\ HostAccepts(a, n) /\ host' = Holding(Pages(a, n), "free")
        /\ \E p \in Pages(a, n) : AbsPt' = AbsPt \cup Pages(a, p - a)
  /\ \A a, n : U!UnmapPages(a, n) <=>
        HostAccepts(a, n) /\ host' = Holding(Pages(a, n), "free") /\ AbsPt' = AbsPt \ Pages(a, n)
  BY SameOperators DEF U!Choose, Choose, U!MapPages, U!MapPagesFails, U!UnmapPages

(* Where the two counters are seen as they are, so are the tests and the   *)
(* address that depend on them.                                            *)
LEMMA SameTests ==
  ASSUME AbsBrkLen = brk_len, AbsMmapLen = mmap_len
  PROVE  \A n : /\ U!umm_space_left(n) <=> umm_space_left(n)
                /\ U!OpenAddr(n) = OpenAddr(n)
  BY SameOperators DEF U!umm_space_left, umm_space_left, U!OpenAddr, OpenAddr, U!umm_get_map_pos,
         umm_get_map_pos, U!Word, Word, U!Top, Top, U!APP_MMAP_BASE_OFF, APP_MMAP_BASE_OFF
LEMMA PlainAbs ==
  ASSUME NEW t \in Thread, Sole(t), th[t].pc \notin {"load", "store", "remap"}
  PROVE  AbsMmapLen = mmap_len /\ AbsBrkLen = brk_len /\ AbsPt = pt
  BY AbsOf DEF AbsShape, Counting, Resizing, Moving

LEMMA PlainAbsNext ==
  ASSUME NEW t \in Thread, Sole(t)', th'[t].pc \notin {"load", "store", "remap"}
  PROVE  AbsMmapLen' = mmap_len' /\ AbsBrkLen' = brk_len' /\ AbsPt' = pt'
  BY AbsOfNext DEF AbsShape, Counting, Resizing, Moving

LEMMA DoneNext ==
  ASSUME Handlers, NEW t \in Thread, Done(t)
  PROVE  th'[t].pc \notin {"load", "store", "remap"}
<1>1. PICK r : th' = [th EXCEPT ![t] = r] /\ r.pc \in {"user", "unlock"} /\ ~InMemRec(r)
  BY DoneRec
<1> QED
  BY <1>1, OfThread

LEMMA GotoNext ==
  ASSUME Handlers, NEW t \in Thread, NEW w \in PCs, Goto(t, w)
  PROVE  /\ th'[t].pc = w /\ th'[t].tf = th[t].tf
         /\ th'[t].addr = th[t].addr /\ th'[t].seen = th[t].seen
  BY Zenon, OfThread DEF Goto, ThreadRec

(* The arguments of a memory call are addresses and lengths of the program. *)
LEMMA MemArgs ==
  ASSUME Handlers, NEW t \in Thread, th[t].tf.rax \in MemCall, NEW i \in 0 .. 4
  PROVE  /\ ARG(th[t].tf, i) \in Addr /\ ARG(th[t].tf, i) \in Nat
         /\ 0 < ARG(th[t].tf, i) => ARG(th[t].tf, i) \in Length
<1> DEFINE f == th[t].tf
<1>1. f \in Frames /\ f # NoCall
  BY OfThread, NoCallFrame
<1> DEFINE all == UNION {Calls[u] : u \in Thread}
<1>2. Frames = all \cup {NoCall}
  BY DEF Frames
<1>3. f \in all
  <2> HIDE DEF all
  <2> QED
    BY <1>1, <1>2
<1>4. PICK u \in Thread : f \in Calls[u]
  BY Zenon, <1>3
<1>5. f.arg[i + 1] \in Addr /\ f.arg[i + 1] \in Length \cup {0}
  <2>1. i + 1 \in 1 .. 5
    OBVIOUS
  <2> QED
    BY Zenon, <1>4, <2>1, TrapAssumption
<1>6. ARG(f, i) \in Nat
  BY OfThread, ArgWord
<1> QED
  BY <1>5, <1>6 DEF ARG

(* Umm moves or stutters.                                                  *)
UStep == [U!UmmNext]_(U!uvars)

LEMMA SimUnmap ==
  ASSUME Handlers, NEW t \in Thread, PlaceUnmap(t), Accepted(th[t].tf), Sole(t), Sole(t)'
  PROVE  UStep
<1> DEFINE a == ARG(th[t].tf, 0)  n == ARG(th[t].tf, 1)
<1>1. AbsMmapLen = mmap_len /\ AbsBrkLen = brk_len /\ AbsPt = pt
  BY PlainAbs DEF PlaceUnmap, Runs
<1>2. AbsMmapLen' = mmap_len' /\ AbsBrkLen' = brk_len' /\ AbsPt' = pt'
  BY Zenon, DoneNext, PlainAbsNext DEF PlaceUnmap
<1>3. phase = "run" /\ UNCHANGED <<phase, brk_len, mmap_len, replaced>>
  BY DEF PlaceUnmap, Runs
<1>4. CASE th[t].tf.rax = "munmap" /\ UnmapPages(a, n)
  <2>1. mem_ref_is_safe(a, n) /\ HostAccepts(a, n)
    BY Zenon, <1>4 DEF Accepted, UnmapPages
  <2>2. a \in Addr /\ n \in Length
    <3>1. th[t].tf.rax \in MemCall
      BY <1>4 DEF MemCall
    <3>2. 0 < n
      BY <2>1 DEF HostAccepts
    <3>3. 0 \in 0 .. 4 /\ 1 \in 0 .. 4
      OBVIOUS
    <3> QED
      BY Zenon, <3>1, <3>2, <3>3, MemArgs
  <2> HIDE DEF a, n
  <2>3. U!umm_munmap(a, n)
    <3>1. U!UnmapPages(a, n)
      BY Zenon, <1>1, <1>2, <1>4, SameActions DEF UnmapPages
    <3>2. U!mem_ref_is_safe(a, n)
      BY Zenon, <2>1, SameOperators
    <3> QED
      BY ZenonT(30), <1>1, <1>2, <1>3, <3>1, <3>2 DEF U!umm_munmap
  <2> QED
    BY Zenon, <2>2, <2>3 DEF UStep, U!UmmNext
<1>5. CASE UNCHANGED <<host, pt>>
  BY Zenon, <1>1, <1>2, <1>3, <1>5 DEF UStep, U!uvars
<1> QED
  BY Zenon, <1>4, <1>5 DEF PlaceUnmap

LEMMA SimMap ==
  ASSUME Handlers, NEW t \in Thread, PlaceMap(t), Accepted(th[t].tf), Sole(t), Sole(t)'
  PROVE  UStep
<1> DEFINE f == th[t].tf  a == NewAddr(f)  n == NewLen(f)
           owner == IF Fixed(f) THEN "fixed" ELSE "auto"
<1>1. AbsMmapLen = mmap_len /\ AbsBrkLen = brk_len /\ AbsPt = pt
  BY Zenon, PlainAbs DEF PlaceMap, Runs
<1>2. /\ phase = "run" /\ f.rax \in {"mmap", "shmat"}
      /\ UNCHANGED <<phase, brk_len, mmap_len>>
      /\ f.rax = "shmat" => Held(Pages(a, n)) \subseteq {"free"}
      /\ \/ MapPages(a, n, owner) /\ IF Fixed(f) THEN Done(t) ELSE Goto(t, "load")
         \/ MapPagesFails(a, n) /\ Done(t)
      /\ IF Fixed(f) THEN UNCHANGED replaced ELSE Choose(a, n)
  BY Zenon DEF PlaceMap, Runs
<1>3. HostAccepts(a, n) /\ f.rax \in MemCall
  BY <1>2 DEF MapPages, MapPagesFails, MemCall, Unlocked
<1>4. n \in Length
  <2>1. n = ARG(f, 0) \/ n = ARG(f, 1)
    BY <1>2 DEF NewLen
  <2>2. 0 < n
    BY <1>3 DEF HostAccepts
  <2>3. /\ 0 < ARG(f, 0) => ARG(f, 0) \in Length
        /\ 0 < ARG(f, 1) => ARG(f, 1) \in Length
    BY <1>3, MemArgs
  <2> HIDE DEF n
  <2> QED
    BY Zenon, <2>1, <2>2, <2>3
<1>5. CASE Fixed(f)
  <2>1. Done(t) /\ (MapPages(a, n, "fixed") \/ MapPagesFails(a, n)) /\ UNCHANGED replaced
    BY <1>2, <1>5
  <2>2. AbsMmapLen' = mmap_len' /\ AbsBrkLen' = brk_len' /\ AbsPt' = pt'
    BY <2>1, DoneNext, PlainAbsNext
  <2>3. a # 0 /\ a \in Addr
    <3>1. a = IF f.rax = "mmap" THEN ARG(f, 0) ELSE ARG(f, 1)
      BY Zenon, <1>2, <1>5 DEF NewAddr
    <3>2. a # 0
      BY Zenon, <1>2, <1>5, <3>1 DEF Fixed
    <3>3. 0 \in 0 .. 4 /\ 1 \in 0 .. 4
      OBVIOUS
    <3>4. ARG(f, 0) \in Addr /\ ARG(f, 1) \in Addr
      BY Zenon, <1>3, <3>3, MemArgs
    <3> HIDE DEF a, f
    <3> QED
      BY Zenon, <3>1, <3>2, <3>4
  <2>4. mem_ref_is_safe(a, n)
    BY Zenon, <1>2, <1>5 DEF Accepted
  <2>5. U!MapPages(a, n, "fixed") \/ U!MapPagesFails(a, n)
    BY Zenon, <1>1, <2>1, <2>2, SameActions DEF MapPages, MapPagesFails
  <2>6. U!MmapAt(a, n) \/ U!ShmatAt(a, n, FALSE)
    BY ZenonT(30), <1>1, <1>2, <2>1, <2>2, <2>3, <2>4, <2>5, SameOperators DEF U!MmapAt, U!ShmatAt
  <2> HIDE DEF a, n
  <2> QED
    BY ZenonT(30), <1>4, <2>3, <2>6 DEF UStep, U!UmmNext
<1>6. CASE ~Fixed(f)
  <2>1. umm_space_left(n) /\ a = OpenAddr(n)
    BY <1>2, <1>6 DEF Accepted, NewAddr
  <2>2. U!umm_space_left(n) /\ a = U!OpenAddr(n)
    BY <1>1, <2>1, SameTests
  <2>3. /\ AbsBrkLen' = AbsBrkLen
        /\ \/ U!MapPages(a, n, "auto") /\ AbsMmapLen' = AbsMmapLen + U!RoundUp(n)
           \/ U!MapPagesFails(a, n) /\ UNCHANGED AbsMmapLen
    <3>1. CASE MapPages(a, n, "auto") /\ Goto(t, "load")
      <4>1. th'[t].pc = "load" /\ th'[t].tf = f
        BY Zenon, <3>1, GotoNext DEF PCs
      <4>2. Counting(t)' /\ ~Resizing(t)' /\ ~Moving(t)'
        BY Zenon, <1>2, <4>1 DEF Counting, Resizing, Moving
      <4>3. /\ AbsMmapLen' = mmap_len' + RoundUp(NewLen(th'[t].tf))
            /\ AbsBrkLen' = brk_len' /\ AbsPt' = pt'
        BY Zenon, <4>2, AbsOfNext DEF AbsShape
      <4> QED
        BY ZenonT(30), <1>1, <1>2, <3>1, <4>1, <4>3, SameActions, SameOperators DEF MapPages
    <3>2. CASE MapPagesFails(a, n) /\ Done(t)
      <4>1. AbsMmapLen' = mmap_len' /\ AbsBrkLen' = brk_len' /\ AbsPt' = pt'
        BY Zenon, <3>2, DoneNext, PlainAbsNext
      <4> QED
        BY Zenon, <1>1, <1>2, <3>2, <4>1, SameActions DEF MapPagesFails
    <3> QED
      BY ZenonT(30), <1>2, <1>6, <3>1, <3>2
  <2>4. U!Choose(a, n) /\ UNCHANGED phase
    BY Zenon, <1>2, <1>6, SameActions
  <2>5. U!MmapOpen(n) \/ U!ShmatOpen(n, FALSE)
    BY ZenonT(30), <1>2, <2>2, <2>3, <2>4, SameOperators DEF U!MmapOpen, U!ShmatOpen
  <2> HIDE DEF a, n
  <2> QED
    BY ZenonT(30), <1>4, <2>5 DEF UStep, U!UmmNext
<1> QED
  BY Zenon, <1>5, <1>6
LEMMA SimBrk ==
  ASSUME Handlers, NEW t \in Thread, PlaceBrk(t), Accepted(th[t].tf), Sole(t), Sole(t)'
  PROVE  UStep
<1> DEFINE f == th[t].tf  brk == ARG(f, 0)  len == RoundUp(brk - mmap_base)
<1>1. AbsMmapLen = mmap_len /\ AbsBrkLen = brk_len /\ AbsPt = pt
  BY Zenon, PlainAbs DEF PlaceBrk, Runs
<1>2. /\ phase = "run" /\ f.rax = "brk" /\ NewLen(f) = len
      /\ UNCHANGED <<phase, brk_len, mmap_len>>
  BY Zenon DEF PlaceBrk, Runs, NewLen
<1>3. brk >= mmap_base /\ umm_space_left(len)
  BY Zenon, <1>2 DEF Accepted
<1>4. brk \in Addr /\ brk # 0
  <2>1. brk \in Addr /\ brk \in Nat
    BY <1>2, MemArgs DEF MemCall, Unlocked
  <2>2. mmap_base > 0
    BY UmmAssumption, Layout, Pg
  <2> QED
    BY <1>3, <2>1, <2>2, Layout
<1>5. U!umm_space_left(len)
  BY Zenon, <1>1, <1>3, SameTests
<1>6. /\ \A n : U!RoundUp(n) = RoundUp(n)
      /\ len = U!RoundUp(brk - mmap_base)
  BY Zenon, SameOperators
<1>7. ASSUME Goto(t, "store")
      PROVE  AbsBrkLen' = len /\ AbsMmapLen' = mmap_len' /\ AbsPt' = pt'
  <2>1. th'[t].pc = "store" /\ th'[t].tf = f
    BY Zenon, <1>7, GotoNext DEF PCs
  <2>2. ~Counting(t)' /\ Resizing(t)' /\ ~Moving(t)'
    BY Zenon, <1>2, <2>1 DEF Counting, Resizing, Moving
  <2> QED
    BY Zenon, <1>2, <2>1, <2>2, AbsOfNext DEF AbsShape
<1>8. ASSUME Done(t)
      PROVE  AbsBrkLen' = brk_len' /\ AbsMmapLen' = mmap_len' /\ AbsPt' = pt'
  BY ZenonT(30), <1>8, DoneNext, PlainAbsNext
<1> HIDE DEF len
<1>9. CASE len = brk_len /\ Done(t) /\ UNCHANGED <<host, pt, replaced>>
  BY Zenon, <1>1, <1>2, <1>8, <1>9 DEF UStep, U!uvars
<1>10. CASE /\ len < brk_len /\ UnmapPages(mmap_base + len, brk_len - len)
            /\ Goto(t, "store") /\ UNCHANGED replaced
  <2>1. U!UnmapPages(mmap_base + len, brk_len - len)
    BY <1>1, <1>7, <1>10, SameActions DEF UnmapPages
  <2>2. U!umm_brk(brk)
    BY ZenonT(30), <1>1, <1>2, <1>3, <1>4, <1>5, <1>6, <1>7, <1>10, <2>1 DEF U!umm_brk
  <2> HIDE DEF brk
  <2> QED
    BY ZenonT(30), <1>4, <2>2 DEF UStep, U!UmmNext
<1>11. CASE /\ len > brk_len /\ MapPages(mmap_base + brk_len, len - brk_len, "heap")
            /\ Choose(mmap_base + brk_len, len - brk_len) /\ Goto(t, "store")
  <2>1. /\ U!MapPages(mmap_base + brk_len, len - brk_len, "heap")
        /\ U!Choose(mmap_base + brk_len, len - brk_len)
    BY Zenon, <1>1, <1>7, <1>11, SameActions DEF MapPages
  <2>2. U!umm_brk(brk)
    BY ZenonT(30), <1>1, <1>2, <1>3, <1>4, <1>5, <1>6, <1>7, <1>11, <2>1 DEF U!umm_brk
  <2> HIDE DEF brk
  <2> QED
    BY <1>4, <2>2 DEF UStep, U!UmmNext
<1>12. CASE /\ len > brk_len /\ MapPagesFails(mmap_base + brk_len, len - brk_len)
            /\ Choose(mmap_base + brk_len, len - brk_len) /\ Done(t)
  <2>1. /\ U!MapPagesFails(mmap_base + brk_len, len - brk_len)
        /\ U!Choose(mmap_base + brk_len, len - brk_len)
    BY Zenon, <1>1, <1>8, <1>12, SameActions DEF MapPagesFails
  <2>2. U!umm_brk(brk)
    BY ZenonT(30), <1>1, <1>2, <1>3, <1>4, <1>5, <1>6, <1>8, <1>12, <2>1 DEF U!umm_brk
  <2> HIDE DEF brk
  <2> QED
    BY <1>4, <2>2 DEF UStep, U!UmmNext
<1> QED
  BY ZenonT(30), <1>2, <1>9, <1>10, <1>11, <1>12 DEF PlaceBrk

LEMMA SimMove ==
  ASSUME Handlers, NEW t \in Thread, PlaceMove(t), Accepted(th[t].tf), Sole(t), Sole(t)',
         ~Doomed'
  PROVE  UStep
<1> DEFINE f == th[t].tf  old == ARG(f, 0)  m == ARG(f, 1)  a == NewAddr(f)  n == ARG(f, 2)
           owner == IF Fixed(f) THEN "fixed" ELSE "auto"
           w == IF Fixed(f) THEN "remap" ELSE "load"
<1>1. AbsMmapLen = mmap_len /\ AbsBrkLen = brk_len /\ AbsPt = pt
  BY Zenon, PlainAbs DEF PlaceMove, Runs
<1>2. /\ phase = "run" /\ f.rax = "mremap" /\ NewLen(f) = n
      /\ UNCHANGED <<phase, brk_len, mmap_len, pt>>
  BY Zenon DEF PlaceMove, Runs, NewLen
<1>3. /\ HostAccepts(old, m) /\ HostAccepts(a, n)
      /\ \E what \in Owner \ {"free", "sandbox"} : Held(Pages(old, m)) = {what}
      /\ Pages(old, m) \cap Pages(a, n) = {}
      /\ host' = [p \in Page |-> IF p \in Pages(a, n) THEN owner
                                 ELSE IF p \in Pages(old, m) THEN "free" ELSE host[p]]
      /\ IF Fixed(f) THEN UNCHANGED replaced ELSE Choose(a, n)
  BY Zenon, <1>2 DEF PlaceMove
<1>4. old \in Addr /\ m \in Length /\ n \in Length
  <2>1. f.rax \in MemCall
    BY Zenon, <1>2 DEF MemCall, Unlocked
  <2>2. 0 < m /\ 0 < n
    BY Zenon, <1>3 DEF HostAccepts
  <2> QED
    BY <2>1, <2>2, MemArgs
<1>5. PICK b \in BOOLEAN : th' = [th EXCEPT ![t].pc = w, ![t].addr = a, ![t].fits = b]
  BY Zenon DEF PlaceMove
<1>6. th'[t].pc = w /\ th'[t].tf = f /\ th'[t].addr = a
  BY <1>5, OfThread DEF ThreadRec
<1>7. Moving(t)' /\ ~Resizing(t)' /\ (Counting(t)' <=> ~Fixed(f))
  BY <1>2, <1>6 DEF Moving, Resizing, Counting
<1>8. /\ AbsPt' = (pt \ Pages(old, m)) \cup Pages(a, n)
      /\ AbsBrkLen' = AbsBrkLen
      /\ AbsMmapLen' = IF Fixed(f) THEN mmap_len ELSE mmap_len + RoundUp(n)
  <2>1. /\ AbsPt' = (pt' \ OldPages(t)') \cup NewPages(t)' /\ AbsBrkLen' = brk_len'
        /\ AbsMmapLen' = IF Counting(t)' THEN mmap_len' + RoundUp(NewLen(th'[t].tf)) ELSE mmap_len'
    BY Zenon, <1>7, AbsOfNext DEF AbsShape
  <2>2. OldPages(t)' = Pages(old, m) /\ NewPages(t)' = Pages(a, n)
    BY Zenon, <1>6 DEF OldPages, NewPages
  <2> HIDE DEF old, m, n, a
  <2> QED
    BY Zenon, <1>1, <1>2, <1>6, <1>7, <2>1, <2>2
<1>9. U!MovePages(old, m, a, n, owner) /\ UNCHANGED phase
  BY Zenon, <1>1, <1>2, <1>3, <1>8, SameOperators DEF U!MovePages
<1>10. mem_ref_is_safe(old, m)
  BY Zenon, <1>2 DEF Accepted
<1>11. CASE Fixed(f)
  <2>1. a = ARG(f, 4) /\ mem_ref_is_safe(a, n)
    BY Zenon, <1>2, <1>11 DEF Accepted, NewAddr
  <2>2. a \in Addr
    <3>1. f.rax \in MemCall
      BY Zenon, <1>2 DEF MemCall, Unlocked
    <3>2. ARG(f, 4) \in Addr
      BY <3>1, MemArgs
    <3> QED
      BY Zenon, <2>1, <3>2
  <2>3. U!MremapAt(old, m, a, n)
    BY ZenonT(30), <1>1, <1>2, <1>3, <1>8, <1>9, <1>10, <1>11, <2>1, SameOperators DEF U!MremapAt
  <2> HIDE DEF old, m, a, n
  <2> QED
    BY Zenon, <1>4, <2>2, <2>3 DEF UStep, U!UmmNext
<1>12. CASE ~Fixed(f)
  <2>1. a = OpenAddr(n) /\ umm_space_left(n)
    BY Zenon, <1>2, <1>12 DEF Accepted, NewAddr
  <2>2. a = U!OpenAddr(n) /\ U!umm_space_left(n)
    BY ZenonT(30), <1>1, <2>1, SameTests
  <2>3. /\ U!mem_ref_is_safe(old, m) /\ U!Choose(a, n) /\ AbsBrkLen' = AbsBrkLen
        /\ AbsMmapLen' = AbsMmapLen + U!RoundUp(n) /\ owner = "auto"
    BY <1>1, <1>3, <1>8, <1>10, <1>12, SameOperators, SameActions
  <2> HIDE DEF old, m, n, a, owner
  <2>4. U!MovePages(old, m, U!OpenAddr(n), n, "auto") /\ U!Choose(U!OpenAddr(n), n)
    BY Zenon, <1>9, <2>2, <2>3
  <2>5. U!MremapOpen(old, m, n)
    BY Zenon, <1>2, <2>2, <2>3, <2>4 DEF U!MremapOpen
  <2> QED
    BY Zenon, <1>4, <2>5 DEF UStep, U!UmmNext
<1> QED
  BY Zenon, <1>11, <1>12
LEMMA SimLoad ==
  ASSUME Handlers, NEW t \in Thread, Load(t), Sole(t), Sole(t)'
  PROVE  UStep
<1>1. th[t].pc = "load" /\ th[t].tf.rax \in Growing /\ UNCHANGED uvars
  BY Zenon, OfThread DEF Load, Runs, Local
<1>2. th'[t].pc = "store" /\ th'[t].tf = th[t].tf /\ th'[t].addr = th[t].addr
  BY Zenon, OfThread DEF Load, ThreadRec
<1>3. /\ Counting(t) /\ Counting(t)' /\ ~Resizing(t) /\ ~Resizing(t)' /\ (Moving(t)' <=> Moving(t))
      /\ OldPages(t)' = OldPages(t) /\ NewPages(t)' = NewPages(t)
  BY Zenon, <1>1, <1>2 DEF Counting, Resizing, Moving, Growing, OldPages, NewPages
<1>4. UNCHANGED <<phase, brk_len, mmap_len, host, pt, replaced>>
  BY ZenonT(30), <1>1 DEF uvars
<1>5. AbsMmapLen' = AbsMmapLen /\ AbsBrkLen' = AbsBrkLen /\ AbsPt' = AbsPt
  <2>1. /\ AbsMmapLen = mmap_len + RoundUp(NewLen(th[t].tf)) /\ AbsBrkLen = brk_len
        /\ AbsPt = IF Moving(t) THEN (pt \ OldPages(t)) \cup NewPages(t) ELSE pt
    BY Zenon, <1>3, AbsOf DEF AbsShape
  <2>2. /\ AbsMmapLen' = mmap_len' + RoundUp(NewLen(th'[t].tf)) /\ AbsBrkLen' = brk_len'
        /\ AbsPt' = IF Moving(t)' THEN (pt' \ OldPages(t)') \cup NewPages(t)' ELSE pt'
    BY Zenon, <1>3, AbsOfNext DEF AbsShape
  <2> QED
    BY Zenon, <1>2, <1>3, <1>4, <2>1, <2>2
<1> QED
  BY Zenon, <1>4, <1>5 DEF UStep, U!uvars

LEMMA SimStore ==
  ASSUME Handlers, Ready, ~raced, NEW t \in Thread, Store(t), Sole(t), Sole(t)'
  PROVE  UStep
<1> DEFINE f == th[t].tf
<1>1. /\ th[t].pc = "store" /\ f.rax \in Growing \cup {"brk"}
      /\ UNCHANGED <<phase, host, pt, replaced>>
      /\ IF f.rax = "brk" THEN brk_len' = NewLen(f) /\ UNCHANGED mmap_len
                          ELSE mmap_len' = th[t].seen + RoundUp(NewLen(f)) /\ UNCHANGED brk_len
      /\ IF f.rax = "mremap" THEN Goto(t, "remap") ELSE Done(t)
  BY Zenon, OfThread DEF Store, Runs, Local
<1>2. CASE f.rax = "brk"
  <2>1. ~Counting(t) /\ Resizing(t) /\ ~Moving(t)
    BY Zenon, <1>1, <1>2 DEF Counting, Resizing, Moving
  <2>2. AbsMmapLen = mmap_len /\ AbsBrkLen = NewLen(f) /\ AbsPt = pt
    BY ZenonT(30), <2>1, AbsOf DEF AbsShape
  <2>3. AbsMmapLen' = mmap_len' /\ AbsBrkLen' = brk_len' /\ AbsPt' = pt'
    BY Zenon, <1>1, <1>2, DoneNext, PlainAbsNext
  <2> QED
    BY Zenon, <1>1, <1>2, <2>2, <2>3 DEF UStep, U!uvars
<1>3. CASE f.rax # "brk"
  <2>0. th[t].seen = mmap_len
    BY Zenon, <1>1, <1>3 DEF Ready
  <2>1. Counting(t) /\ ~Resizing(t) /\ (Moving(t) <=> f.rax = "mremap")
    BY Zenon, <1>1, <1>3 DEF Counting, Resizing, Moving, Growing
  <2>2. /\ AbsMmapLen = mmap_len + RoundUp(NewLen(f)) /\ AbsBrkLen = brk_len
        /\ AbsPt = IF f.rax = "mremap" THEN (pt \ OldPages(t)) \cup NewPages(t) ELSE pt
    BY ZenonT(30), <2>1, AbsOf DEF AbsShape
  <2>3. CASE f.rax = "mremap"
    <3>1. th'[t].pc = "remap" /\ th'[t].tf = f /\ th'[t].addr = th[t].addr
      BY Zenon, <1>1, <2>3, GotoNext DEF PCs
    <3>2. /\ ~Counting(t)' /\ ~Resizing(t)' /\ Moving(t)'
          /\ OldPages(t)' = OldPages(t) /\ NewPages(t)' = NewPages(t)
      BY Zenon, <2>3, <3>1 DEF Counting, Resizing, Moving, OldPages, NewPages
    <3>3. /\ AbsMmapLen' = mmap_len' /\ AbsBrkLen' = brk_len'
          /\ AbsPt' = (pt' \ OldPages(t)) \cup NewPages(t)
      BY ZenonT(30), <3>2, AbsOfNext DEF AbsShape
    <3> QED
      BY Zenon, <1>1, <1>3, <2>0, <2>2, <2>3, <3>3 DEF UStep, U!uvars
  <2>4. CASE f.rax # "mremap"
    <3>1. AbsMmapLen' = mmap_len' /\ AbsBrkLen' = brk_len' /\ AbsPt' = pt'
      BY Zenon, <1>1, <2>4, DoneNext, PlainAbsNext
    <3> QED
      BY Zenon, <1>1, <1>3, <2>0, <2>2, <2>4, <3>1 DEF UStep, U!uvars
  <2> QED
    BY Zenon, <2>3, <2>4
<1> QED
  BY Zenon, <1>2, <1>3

LEMMA SimRemap ==
  ASSUME Handlers, NEW t \in Thread, Remap(t), phase' # "exit", Sole(t), Sole(t)'
  PROVE  UStep
<1>1. /\ th[t].pc = "remap" /\ th[t].tf.rax = "mremap"
      /\ pt' = (pt \ OldPages(t)) \cup NewPages(t) /\ Done(t)
      /\ UNCHANGED <<phase, brk_len, mmap_len, host, replaced>>
  BY Zenon, OfThread DEF Remap, Runs, Local
<1>2. ~Counting(t) /\ ~Resizing(t) /\ Moving(t)
  BY Zenon, <1>1 DEF Counting, Resizing, Moving
<1>3. AbsMmapLen = mmap_len /\ AbsBrkLen = brk_len /\ AbsPt = pt'
  BY Zenon, <1>1, <1>2, AbsOf DEF AbsShape
<1>4. AbsMmapLen' = mmap_len' /\ AbsBrkLen' = brk_len' /\ AbsPt' = pt'
  BY Zenon, <1>1, DoneNext, PlainAbsNext
<1> QED
  BY Zenon, <1>1, <1>3, <1>4 DEF UStep, U!uvars

(* Steps outside memory calls, and steps that leave the memory alone.      *)
LEMMA SimQuiet ==
  ASSUME Handlers, Alone, ~raced, NEW t \in Thread, NEW r, th' = [th EXCEPT ![t] = r],
         ~InMem(t), ~InMemRec(r), UNCHANGED uvars
  PROVE  UStep
<1>0. UNCHANGED <<phase, brk_len, mmap_len, host, pt, replaced>>
  BY Zenon DEF uvars
<1>1. th'[t] = r /\ \A u \in Thread \ {t} : th'[u] = th[u]
  BY Zenon, OfThread
<1>2. \A u \in Thread : (InMem(u) <=> InMemRec(th[u])) /\ (InMem(u)' <=> InMemRec(th'[u]))
  BY Zenon DEF InMem, InMemRec
<1>3. \A u \in Thread : InMem(u)' <=> InMem(u)
  BY Zenon, <1>1, <1>2
<1>4. CASE \E u \in Thread : InMem(u)
  <2>1. PICK u \in Thread : InMem(u)
    BY Zenon, <1>4
  <2>2. Sole(u) /\ Sole(u)' /\ th'[u] = th[u]
    BY Zenon, <1>1, <1>3, <2>1 DEF Alone, Sole
  <2>3. /\ Counting(u)' <=> Counting(u)
        /\ Resizing(u)' <=> Resizing(u)
        /\ Moving(u)' <=> Moving(u)
        /\ OldPages(u)' = OldPages(u) /\ NewPages(u)' = NewPages(u)
    BY Zenon, <2>2 DEF Counting, Resizing, Moving, OldPages, NewPages
  <2>4. AbsMmapLen' = AbsMmapLen /\ AbsBrkLen' = AbsBrkLen /\ AbsPt' = AbsPt
    <3>1. /\ AbsMmapLen = IF Counting(u) THEN mmap_len + RoundUp(NewLen(th[u].tf)) ELSE mmap_len
          /\ AbsBrkLen = IF Resizing(u) THEN NewLen(th[u].tf) ELSE brk_len
          /\ AbsPt = IF Moving(u) THEN (pt \ OldPages(u)) \cup NewPages(u) ELSE pt
      BY Zenon, <2>2, AbsOf DEF AbsShape
    <3>2. /\ AbsMmapLen' = IF Counting(u)' THEN mmap_len' + RoundUp(NewLen(th'[u].tf)) ELSE mmap_len'
          /\ AbsBrkLen' = IF Resizing(u)' THEN NewLen(th'[u].tf) ELSE brk_len'
          /\ AbsPt' = IF Moving(u)' THEN (pt' \ OldPages(u)') \cup NewPages(u)' ELSE pt'
      BY Zenon, <2>2, AbsOfNext DEF AbsShape
    <3> QED
      BY <1>0, <2>2, <2>3, <3>1, <3>2
  <2> QED
    BY Zenon, <1>0, <2>4 DEF UStep, U!uvars
<1>5. CASE \A u \in Thread : ~InMem(u)
  <2>1. Sole(t) /\ Sole(t)'
    BY Zenon, <1>3, <1>5 DEF Sole
  <2>2. /\ ~Counting(t) /\ ~Counting(t)' /\ ~Resizing(t) /\ ~Resizing(t)'
        /\ ~Moving(t) /\ ~Moving(t)'
    BY Zenon, <1>3, <1>5 DEF Counting, Resizing, Moving, InMem, MemCall, Unlocked
  <2>3. AbsMmapLen' = AbsMmapLen /\ AbsBrkLen' = AbsBrkLen /\ AbsPt' = AbsPt
    BY Zenon, <1>0, <2>1, <2>2, AbsOf, AbsOfNext DEF AbsShape
  <2> QED
    BY Zenon, <1>0, <2>3 DEF UStep, U!uvars
<1> QED
  BY Zenon, <1>4, <1>5

LEMMA SimPlain ==
  ASSUME NEW t \in Thread, Sole(t), Sole(t)', UNCHANGED uvars,
         th[t].pc \notin {"load", "store", "remap"}, th'[t].pc \notin {"load", "store", "remap"}
  PROVE  UStep
<1>1. AbsMmapLen = mmap_len /\ AbsBrkLen = brk_len /\ AbsPt = pt
  BY Zenon, PlainAbs
<1>2. AbsMmapLen' = mmap_len' /\ AbsBrkLen' = brk_len' /\ AbsPt' = pt'
  BY Zenon, PlainAbsNext
<1> QED
  BY Zenon, <1>1, <1>2 DEF UStep, U!uvars, uvars

LEMMA SoleNext ==
  ASSUME Handlers, NEW t \in Thread, Sole(t), NEW r, th' = [th EXCEPT ![t] = r]
  PROVE  Sole(t)'
<1>1. \A u \in Thread \ {t} : th'[u] = th[u]
  BY Zenon, OfThread
<1>2. \A u \in Thread \ {t} : InMem(u)' <=> InMem(u)
  BY Zenon, <1>1 DEF InMem
<1> QED
  BY Zenon, <1>2 DEF Sole

(* Before the program runs nobody is in a call.                            *)
LEMMA SimBoot ==
  ASSUME Handlers, Boot, phase' # "exit"
  PROVE  UStep
<1>1. /\ phase = "boot" /\ th' = th /\ umm_alloc_stack
  BY Zenon DEF Boot, umm_alloc_stack
<1>2. \A u \in Thread : th[u].pc = "user" /\ th'[u].pc = "user"
  BY Zenon, <1>1 DEF Handlers
<1>3. AbsMmapLen = mmap_len /\ AbsBrkLen = brk_len /\ AbsPt = pt
  BY Zenon, <1>2 DEF AbsMmapLen, AbsBrkLen, AbsPt, Counting, Resizing, Moving
<1>4. AbsMmapLen' = mmap_len' /\ AbsBrkLen' = brk_len' /\ AbsPt' = pt'
  BY Zenon, <1>2 DEF AbsMmapLen, AbsBrkLen, AbsPt, Counting, Resizing, Moving
<1>5. U!umm_alloc_stack
  <2>1. /\ U!umm_get_map_pos = umm_get_map_pos /\ U!umm_space_left(APP_STACK_SIZE)
        /\ U!PGADDR(umm_get_map_pos) = PGADDR(umm_get_map_pos)
        /\ U!PGOFF(umm_get_map_pos) = PGOFF(umm_get_map_pos)
    BY <1>1, <1>3, SameTests DEF umm_alloc_stack, U!umm_get_map_pos, umm_get_map_pos, U!PGADDR,
       PGADDR, U!PGOFF, PGOFF, U!Top, Top, U!APP_MMAP_BASE_OFF, APP_MMAP_BASE_OFF
  <2> DEFINE a == PGADDR(umm_get_map_pos) - APP_STACK_SIZE + PGSIZE
             n == APP_STACK_SIZE - PGSIZE
  <2>2. /\ MapPages(a, n, "stack") /\ Choose(a, n) /\ UNCHANGED brk_len
        /\ mmap_len' = mmap_len + APP_STACK_SIZE + PGOFF(umm_get_map_pos) /\ phase' = "run"
    BY Zenon, <1>1 DEF umm_alloc_stack
  <2> HIDE DEF a, n
  <2>3. U!MapPages(a, n, "stack") /\ U!Choose(a, n)
    BY Zenon, <1>3, <1>4, <2>2, SameActions DEF MapPages
  <2> QED
    BY ZenonT(30), <1>1, <1>3, <1>4, <2>1, <2>2, <2>3 DEF U!umm_alloc_stack, a, n
<1> QED
  BY Zenon, <1>5 DEF UStep, U!UmmNext
(* A page fault of the sandbox may meet a call half way.                   *)
LEMMA SimFault ==
  ASSUME Handlers, Alone, ~raced, NEW t \in Thread, pgflt_enters(t)
  PROVE  UStep
<1>1. /\ th' = th /\ phase = "run" /\ flt[t] \in Fault /\ pt' = pt \cup {flt[t]}
      /\ UNCHANGED <<phase, brk_len, mmap_len, host, replaced>>
  BY Zenon DEF pgflt_enters, Handlers
<1>2. PICK u \in Thread : Sole(u)
  BY Zenon DEF Alone, Sole
<1>3. Sole(u)'
  BY Zenon, <1>1, <1>2 DEF Sole, InMem
<1>4. /\ Counting(u)' <=> Counting(u)
      /\ Resizing(u)' <=> Resizing(u)
      /\ Moving(u)' <=> Moving(u)
      /\ OldPages(u)' = OldPages(u) /\ NewPages(u)' = NewPages(u)
  BY Zenon, <1>1 DEF Counting, Resizing, Moving, OldPages, NewPages
<1>5. /\ AbsMmapLen = IF Counting(u) THEN mmap_len + RoundUp(NewLen(th[u].tf)) ELSE mmap_len
      /\ AbsBrkLen = IF Resizing(u) THEN NewLen(th[u].tf) ELSE brk_len
      /\ AbsPt = IF Moving(u) THEN (pt \ OldPages(u)) \cup NewPages(u) ELSE pt
  BY Zenon, <1>2, AbsOf DEF AbsShape
<1>6. /\ AbsMmapLen' = IF Counting(u)' THEN mmap_len' + RoundUp(NewLen(th'[u].tf)) ELSE mmap_len'
      /\ AbsBrkLen' = IF Resizing(u)' THEN NewLen(th'[u].tf) ELSE brk_len'
      /\ AbsPt' = IF Moving(u)' THEN (pt' \ OldPages(u)') \cup NewPages(u)' ELSE pt'
  BY Zenon, <1>3, AbsOfNext DEF AbsShape
<1>7. AbsMmapLen' = AbsMmapLen /\ AbsBrkLen' = AbsBrkLen
  BY Zenon, <1>1, <1>4, <1>5, <1>6
<1>8. AbsPt' = AbsPt \/ (AbsPt' = AbsPt \cup {flt[t]} /\ flt[t] \notin AbsPt)
  BY Zenon, <1>1, <1>4, <1>5, <1>6
<1>9. UNCHANGED U!uvars \/ U!pgflt_handler(flt[t])
  BY Zenon, <1>1, <1>7, <1>8 DEF U!uvars, U!pgflt_handler
<1> QED
  BY Zenon, <1>1, <1>9 DEF UStep, U!UmmNext

LEMMA SimStill ==
  ASSUME th' = th, UNCHANGED uvars
  PROVE  UStep
<1>1. \A u \in Thread : /\ (Counting(u)' <=> Counting(u)) /\ (Resizing(u)' <=> Resizing(u))
                        /\ (Moving(u)' <=> Moving(u)) /\ (InMem(u)' <=> InMem(u))
  BY DEF Counting, Resizing, Moving, InMem
<1>2. Caller' = Caller
  BY Zenon DEF Caller, Counting, Resizing, Moving
<1>3. OldPages(Caller)' = OldPages(Caller) /\ NewPages(Caller)' = NewPages(Caller)
  BY Zenon, <1>2 DEF OldPages, NewPages
<1>4. AbsMmapLen' = AbsMmapLen /\ AbsBrkLen' = AbsBrkLen /\ AbsPt' = AbsPt
  BY Zenon, <1>1, <1>2, <1>3 DEF uvars, AbsMmapLen, AbsBrkLen, AbsPt
<1> QED
  BY Zenon, <1>4 DEF UStep, U!uvars, uvars

(* A call begins.                                                          *)
LEMMA SimBegins ==
  ASSUME Handlers, Alone, Alone', ~raced, ~raced', NEW t \in Thread, NEW r,
         th' = [th EXCEPT ![t] = r], th[t].pc \in {"user", "lock"}, r.pc = "do", UNCHANGED uvars
  PROVE  UStep
<1>1. ~InMem(t) /\ th'[t] = r
  BY Zenon, OfThread DEF InMem
<1>2. CASE ~InMemRec(r)
  BY ZenonT(30), <1>1, <1>2, SimQuiet
<1>3. CASE InMemRec(r)
  <2>1. InMem(t)'
    BY <1>1, <1>3 DEF InMem, InMemRec
  <2>2. Sole(t)'
    BY Zenon, <2>1 DEF Alone
  <2>3. \A u \in Thread \ {t} : th'[u] = th[u]
    BY Zenon, OfThread
  <2>4. \A u \in Thread \ {t} : InMem(u)' <=> InMem(u)
    BY Zenon, <2>3 DEF InMem
  <2>5. Sole(t)
    BY Zenon, <1>1, <2>2, <2>4 DEF Sole
  <2> QED
    BY ZenonT(30), <1>1, <2>2, <2>5, SimPlain
<1> QED
  BY Zenon, <1>2, <1>3

LEMMA SimNext ==
  ASSUME Handlers, Alone, Ready, Alone', TrapNext, ~raced', ~Doomed', phase' # "exit"
  PROVE  UStep
<1>0. ~raced
  BY ZenonT(30) DEF TrapNext, Boot, syscall_handler, CheckAborts, HandlerStep, Lock, Unlock, OtherCall, ExecExits,
     Test, PlaceUnmap, PlaceBrk, PlaceMap, PlaceMove, HostRefuses, Load, Store, Remap, FaultInRing0,
     pgflt_enters, FaultInRing3, Begin
<1>1. CASE Boot
  BY <1>1, SimBoot
<1>2. ASSUME NEW t \in Thread, NEW f \in Calls[t], syscall_handler(t, f) PROVE UStep
  <2>1. th[t].pc = "user" /\ UNCHANGED uvars
    BY Zenon, <1>2 DEF syscall_handler, Runs
  <2>2. CASE need_lock(f)
    <3> DEFINE r == At("lock", f)
    <3>1. r.pc = "lock" /\ th' = [th EXCEPT ![t] = r]
      BY <1>2, <2>2 DEF syscall_handler, At
    <3> HIDE DEF r
    <3>2. ~InMemRec(r) /\ ~InMem(t)
      BY Zenon, <2>1, <3>1 DEF InMemRec, InMem
    <3> QED
      BY Zenon, <1>0, <2>1, <3>1, <3>2, SimQuiet
  <2>3. CASE ~need_lock(f)
    <3> DEFINE r == At("do", f)
    <3>1. r.pc = "do" /\ th' = [th EXCEPT ![t] = r]
      BY <1>2, <2>3 DEF syscall_handler, At
    <3> HIDE DEF r
    <3> QED
      BY ZenonT(30), <1>0, <2>1, <3>1, SimBegins
  <2> QED
    BY <2>2, <2>3
<1>3. ASSUME NEW t \in Thread, Lock(t) PROVE UStep
  <2> DEFINE r == [th[t] EXCEPT !.pc = "do"]
  <2>1. r.pc = "do" /\ th' = [th EXCEPT ![t] = r] /\ th[t].pc = "lock" /\ UNCHANGED uvars
    BY Zenon, <1>3, GotoRec DEF Lock, PCs, Runs
  <2> HIDE DEF r
  <2> QED
    BY Zenon, <1>0, <2>1, SimBegins
<1>4. ASSUME NEW t \in Thread, Unlock(t) \/ OtherCall(t) \/ FaultInRing3(t) PROVE UStep
  <2>1. UNCHANGED uvars /\ ~InMem(t)
    BY Zenon, <1>4 DEF Unlock, OtherCall, FaultInRing3, InMem, Runs
  <2>2. \/ \E w \in {"user", "dead"} : th' = [th EXCEPT ![t] = At(w, NoCall)]
        \/ Done(t)
    BY Zenon, <1>4 DEF Unlock, OtherCall, FaultInRing3, Return
  <2>3. \A w \in {"user", "dead"} : ~InMemRec(At(w, NoCall))
    BY Zenon DEF InMemRec, At
  <2>4. PICK r : th' = [th EXCEPT ![t] = r] /\ ~InMemRec(r)
    BY Zenon, <2>2, <2>3, DoneRec
  <2> QED
    BY ZenonT(30), <1>0, <2>1, <2>4, SimQuiet
<1>5. ASSUME NEW t \in Thread, InMem(t), NEW r, th' = [th EXCEPT ![t] = r] PROVE Sole(t) /\ Sole(t)'
  BY Zenon, <1>0, <1>5, SoleNext DEF Alone
<1>6. ASSUME NEW t \in Thread, InMem(t), Done(t) \/ \E w \in PCs : Goto(t, w) PROVE Sole(t) /\ Sole(t)'
  <2>1. CASE Done(t)
    <3>1. PICK r : th' = [th EXCEPT ![t] = r]
      BY <2>1, DoneRec
    <3> QED
      BY Zenon, <1>5, <1>6, <3>1
  <2>2. ASSUME NEW w \in PCs, Goto(t, w) PROVE Sole(t) /\ Sole(t)'
    <3> DEFINE r == [th[t] EXCEPT !.pc = w]
    <3>1. th' = [th EXCEPT ![t] = r]
      BY Zenon, <2>2, GotoRec
    <3> HIDE DEF r
    <3> QED
      BY Zenon, <1>5, <1>6, <3>1
  <2> QED
    BY Zenon, <1>6, <2>1, <2>2
<1>7. ASSUME NEW t \in Thread, Test(t) \/ HostRefuses(t) PROVE UStep
  <2>1. UNCHANGED uvars /\ th[t].pc \in {"do", "place"} /\ (Goto(t, "place") \/ Done(t))
    BY Zenon, <1>7 DEF Test, HostRefuses, Runs
  <2>2. InMem(t)
    BY Zenon, <1>7, OfThread, BusyInMem DEF Test, HostRefuses, Runs, InMem, InMemRec
  <2>3. "place" \in PCs
    BY Zenon DEF PCs
  <2>4. Sole(t) /\ Sole(t)'
    BY Zenon, <1>6, <2>1, <2>2, <2>3
  <2>5. th'[t].pc \notin {"load", "store", "remap"}
    <3>1. CASE Goto(t, "place")
      BY Zenon, <2>3, <3>1, GotoNext
    <3>2. CASE Done(t)
      BY Zenon, <3>2, DoneNext
    <3> QED
      BY Zenon, <2>1, <3>1, <3>2
  <2> QED
    BY Zenon, <2>1, <2>4, <2>5, SimPlain
<1>8. ASSUME NEW t \in Thread, PlaceUnmap(t) \/ PlaceMap(t) \/ PlaceBrk(t) PROVE UStep
  <2>1. th[t].pc = "place" /\ (Done(t) \/ Goto(t, "load") \/ Goto(t, "store"))
    BY Zenon, <1>8 DEF PlaceUnmap, PlaceMap, PlaceBrk, Runs
  <2>2. InMem(t) /\ Accepted(th[t].tf)
    BY ZenonT(30), <1>0, <2>1, OfThread, BusyInMem DEF InMem, InMemRec, Ready
  <2>3. "load" \in PCs /\ "store" \in PCs
    BY Zenon DEF PCs
  <2>4. Sole(t) /\ Sole(t)'
    BY ZenonT(30), <1>6, <2>1, <2>2, <2>3
  <2> QED
    BY ZenonT(30), <1>8, <2>2, <2>4, SimUnmap, SimMap, SimBrk
<1>9. ASSUME NEW t \in Thread, PlaceMove(t) PROVE UStep
  <2> DEFINE w == IF Fixed(th[t].tf) THEN "remap" ELSE "load"
  <2>1. PICK b \in BOOLEAN :
          th' = [th EXCEPT ![t].pc = w, ![t].addr = NewAddr(th[t].tf), ![t].fits = b]
    BY Zenon, <1>9 DEF PlaceMove
  <2> DEFINE r == [th[t] EXCEPT !.pc = w, !.addr = NewAddr(th[t].tf), !.fits = b]
  <2>2. th' = [th EXCEPT ![t] = r]
    BY ZenonT(30), <2>1, OfThread DEF ThreadRec
  <2>3. th[t].pc = "place"
    BY <1>9 DEF PlaceMove, Runs
  <2>4. InMem(t) /\ Accepted(th[t].tf)
    BY ZenonT(30), <1>0, <2>3, OfThread, BusyInMem DEF InMem, InMemRec, Ready
  <2> HIDE DEF r, w
  <2>5. Sole(t) /\ Sole(t)'
    BY Zenon, <1>5, <2>2, <2>4
  <2> QED
    BY Zenon, <1>9, <2>4, <2>5, SimMove
<1>10. ASSUME NEW t \in Thread, Load(t) PROVE UStep
  <2> DEFINE r == [th[t] EXCEPT !.pc = "store", !.seen = mmap_len]
  <2>1. th' = [th EXCEPT ![t] = r] /\ th[t].pc = "load"
    BY Zenon, <1>10, OfThread DEF Load, Runs, ThreadRec
  <2>2. InMem(t)
    BY <2>1, OfThread, BusyInMem DEF InMem, InMemRec
  <2> HIDE DEF r
  <2>3. Sole(t) /\ Sole(t)'
    BY Zenon, <1>5, <2>1, <2>2
  <2> QED
    BY Zenon, <1>10, <2>3, SimLoad
<1>11. ASSUME NEW t \in Thread, Store(t) \/ Remap(t) PROVE UStep
  <2>1. th[t].pc \in {"store", "remap"} /\ (Done(t) \/ Goto(t, "remap"))
    BY Zenon, <1>11 DEF Store, Remap, Runs
  <2>2. InMem(t)
    BY Zenon, <2>1, OfThread, BusyInMem DEF InMem, InMemRec
  <2>3. "remap" \in PCs
    BY Zenon DEF PCs
  <2>4. Sole(t) /\ Sole(t)'
    BY Zenon, <1>6, <2>1, <2>2, <2>3
  <2> QED
    BY Zenon, <1>0, <1>11, <2>4, SimStore, SimRemap
<1>12. ASSUME NEW t \in Thread, \E p \in Fault : FaultInRing0(t, p) PROVE UStep
  BY Zenon, <1>12, SimStill DEF FaultInRing0
<1>13. ASSUME NEW t \in Thread, ExecExits(t) \/ \E f \in Calls[t] : CheckAborts(t, f) PROVE UStep
  BY Zenon, <1>13 DEF ExecExits, CheckAborts
<1> QED
  BY ZenonT(30), <1>0, <1>1, <1>2, <1>3, <1>4, <1>7, <1>8, <1>9, <1>10, <1>11, <1>12, <1>13, SimFault
  DEF TrapNext, HandlerStep

(* A move that cannot be entered in the page table ends the process.       *)
LEMMA DoomStays ==
  ASSUME Handlers, TrapNext, Doomed, phase' # "exit"
  PROVE  Doomed'
<1>1. PICK u \in Thread : Moving(u) /\ ~th[u].fits
  BY Zenon DEF Doomed
<1>2. ASSUME Moving(u)', th'[u].fits = th[u].fits PROVE Doomed'
  BY Zenon, <1>1, <1>2 DEF Doomed
<1>3. CASE th'[u] = th[u]
  BY Zenon, <1>1, <1>2, <1>3 DEF Moving
<1>4. ASSUME NEW t \in Thread, NEW r, th' = [th EXCEPT ![t] = r], t # u PROVE Doomed'
  BY Zenon, <1>3, <1>4, OfThread
<1>5. ASSUME NEW t \in Thread, t # u, Done(t) \/ \E w \in PCs : Goto(t, w) PROVE Doomed'
  <2>1. CASE Done(t)
    <3>1. PICK r : th' = [th EXCEPT ![t] = r]
      BY <2>1, DoneRec
    <3> QED
      BY ZenonT(30), <1>4, <1>5, <3>1
  <2>2. ASSUME NEW w \in PCs, Goto(t, w) PROVE Doomed'
    <3> DEFINE r == [th[t] EXCEPT !.pc = w]
    <3>1. th' = [th EXCEPT ![t] = r]
      BY Zenon, <2>2, GotoRec
    <3> HIDE DEF r
    <3> QED
      BY Zenon, <1>4, <1>5, <3>1
  <2> QED
    BY Zenon, <1>5, <2>1, <2>2
<1>6. th[u].pc \in {"load", "store", "remap"} /\ th[u].tf.rax = "mremap"
  BY <1>1 DEF Moving
<1>7. CASE Boot
  BY Zenon, <1>3, <1>7 DEF Boot
<1>8. ASSUME NEW t \in Thread,
             \/ \E f \in Calls[t] : syscall_handler(t, f) \/ CheckAborts(t, f)
             \/ \E p \in Fault : FaultInRing0(t, p)
             \/ FaultInRing3(t) \/ Unlock(t) \/ ExecExits(t) \/ pgflt_enters(t)
      PROVE  Doomed'
  <2>1. th' = th \/ (t # u /\ \E r : th' = [th EXCEPT ![t] = r])
    BY Zenon, <1>6, <1>8 DEF syscall_handler, CheckAborts, FaultInRing0, FaultInRing3, Unlock, ExecExits,
       pgflt_enters, Runs, Return
  <2> QED
    BY Zenon, <1>3, <1>4, <2>1
<1>9. ASSUME NEW t \in Thread, Lock(t) \/ OtherCall(t) \/ Test(t) \/ PlaceUnmap(t) \/ PlaceBrk(t)
                               \/ PlaceMap(t) \/ HostRefuses(t)
      PROVE  Doomed'
  <2>1. t # u
    BY ZenonT(30), <1>6, <1>9 DEF Lock, OtherCall, Test, PlaceUnmap, PlaceBrk, PlaceMap, HostRefuses, Runs
  <2>2. \/ Done(t) \/ \E w \in {"do", "place", "load", "store"} : Goto(t, w)
        \/ \E r : th' = [th EXCEPT ![t] = r]
    BY Zenon, <1>9 DEF Lock, OtherCall, Test, PlaceUnmap, PlaceBrk, PlaceMap, HostRefuses
  <2>3. {"do", "place", "load", "store"} \subseteq PCs
    BY Zenon DEF PCs
  <2> QED
    BY Zenon, <1>4, <1>5, <2>1, <2>2, <2>3
<1>10. ASSUME NEW t \in Thread, PlaceMove(t) \/ Load(t) PROVE Doomed'
  <2>1. CASE t # u
    <3>1. th'[u] = th[u]
      BY Zenon, <1>10, <2>1, OfThread DEF PlaceMove, Load
    <3> QED
      BY ZenonT(30), <1>3, <3>1
  <2>2. CASE t = u
    <3>1. Load(u)
      BY ZenonT(30), <1>6, <1>10, <2>2 DEF PlaceMove, Runs
    <3>2. th'[u].pc = "store" /\ th'[u].tf = th[u].tf /\ th'[u].fits = th[u].fits
      BY Zenon, <3>1, OfThread DEF Load, ThreadRec
    <3> QED
      BY Zenon, <1>2, <1>6, <3>2 DEF Moving
  <2> QED
    BY Zenon, <2>1, <2>2
<1>11. ASSUME NEW t \in Thread, Store(t) \/ Remap(t) PROVE Doomed'
  <2>0. "remap" \in PCs
    BY Zenon DEF PCs
  <2>1. CASE t # u
    <3>1. Done(t) \/ Goto(t, "remap")
      BY Zenon, <1>11 DEF Store, Remap
    <3> QED
      BY Zenon, <1>5, <2>0, <2>1, <3>1
  <2>2. CASE t = u
    <3>1. Store(u)
      BY <1>1, <1>11, <2>2 DEF Remap
    <3>2. Goto(u, "remap")
      BY Zenon, <1>6, <3>1 DEF Store
    <3>3. th'[u].pc = "remap" /\ th'[u].tf = th[u].tf /\ th'[u].fits = th[u].fits
      BY ZenonT(30), <3>2, OfThread DEF Goto, ThreadRec
    <3> QED
      BY Zenon, <1>2, <1>6, <3>3 DEF Moving
  <2> QED
    BY <2>1, <2>2
<1> QED
  BY ZenonT(30), <1>7, <1>8, <1>9, <1>10, <1>11 DEF TrapNext, HandlerStep
-----------------------------------------------------------------------------
(* The theorems of Umm, for the state that the calls in progress stand for.*)
UP == INSTANCE UmmProofs WITH brk_len <- AbsBrkLen, mmap_len <- AbsMmapLen, pt <- AbsPt

LEMMA AbsAssumption == UP!UmmAssumption
  BY ZenonT(30), UmmAssumption DEF UP!UmmAssumption, UP!Aligned, Aligned, UP!Top, Top, UP!APP_MMAP_BASE_OFF,
     APP_MMAP_BASE_OFF, UP!Page, Page

LEMMA SameInv == U!UmmInv <=> UP!UmmInv
  BY Zenon DEF U!UmmInv, UP!UmmInv, U!UmmTypeOK, UP!UmmTypeOK, U!RegionsApart, UP!RegionsApart,
     U!NeverReplacesPlaced, UP!NeverReplacesPlaced, U!GuardUnmapped, UP!GuardUnmapped,
     U!SandboxKept, UP!SandboxKept, U!MappedIsReachable, UP!MappedIsReachable, U!Page, UP!Page,
     U!AppPage, UP!AppPage, U!Owner, UP!Owner, U!Placed, UP!Placed, U!Guard, UP!Guard, U!Top,
     UP!Top, U!Aligned, UP!Aligned, U!umm_get_map_pos, UP!umm_get_map_pos,
     U!APP_MMAP_BASE_OFF, UP!APP_MMAP_BASE_OFF

LEMMA SameInvNext == (U!UmmInv)' <=> (UP!UmmInv)'
  BY SameInv, PTL

LEMMA SameInit == U!UmmInit <=> UP!UmmInit
  BY ZenonT(30) DEF U!UmmInit, UP!UmmInit, U!Page, UP!Page, U!AppPage, UP!AppPage, U!Top, UP!Top, U!Aligned,
     UP!Aligned, U!APP_MMAP_BASE_OFF, UP!APP_MMAP_BASE_OFF

LEMMA SameStep == UStep <=> [UP!UmmNext]_(UP!uvars)
  BY ZenonT(30) DEF UStep, U!UmmNext, UP!UmmNext, U!uvars, UP!uvars, U!umm_alloc_stack, UP!umm_alloc_stack,
     U!umm_brk, UP!umm_brk, U!MmapOpen, UP!MmapOpen, U!MmapAt, UP!MmapAt, U!umm_munmap,
     UP!umm_munmap, U!ShmatOpen, UP!ShmatOpen, U!ShmatAt, UP!ShmatAt, U!MremapOpen,
     UP!MremapOpen, U!MremapAt, UP!MremapAt, U!pgflt_handler, UP!pgflt_handler, U!MovePages,
     UP!MovePages, U!MapPages, UP!MapPages, U!MapPagesFails, UP!MapPagesFails, U!UnmapPages,
     UP!UnmapPages, U!Choose, UP!Choose, U!Held, UP!Held, U!Holding, UP!Holding, U!HostAccepts,
     UP!HostAccepts, U!Pages, UP!Pages, U!OpenAddr, UP!OpenAddr, U!umm_get_map_pos,
     UP!umm_get_map_pos, U!umm_space_left, UP!umm_space_left, U!mem_ref_is_safe,
     UP!mem_ref_is_safe, U!RoundUp, UP!RoundUp, U!PGADDR, UP!PGADDR, U!PGOFF, UP!PGOFF, U!Word,
     UP!Word, U!Page, UP!Page, U!Aligned, UP!Aligned, U!Top, UP!Top, U!APP_MMAP_BASE_OFF,
     UP!APP_MMAP_BASE_OFF, U!Owner, UP!Owner

LEMMA AbsInit == TrapInit => Alone /\ Ready /\ U!UmmInit
<1> SUFFICES ASSUME TrapInit PROVE Alone /\ Ready /\ U!UmmInit
  OBVIOUS
<1>1. \A t \in Thread : th[t].pc = "user"
  BY ZenonT(30) DEF TrapInit, At
<1>2. Alone /\ Ready
  BY ZenonT(30), <1>1 DEF Alone, Ready, InMem
<1>3. AbsMmapLen = mmap_len /\ AbsBrkLen = brk_len /\ AbsPt = pt
  BY ZenonT(30), <1>1 DEF AbsMmapLen, AbsBrkLen, AbsPt, Counting, Resizing, Moving
<1>4. U!UmmInit
  BY ZenonT(30), <1>3 DEF TrapInit, UmmInit, U!UmmInit, U!Page, Page, U!AppPage, AppPage, U!Top, Top,
     U!Aligned, Aligned, U!APP_MMAP_BASE_OFF, APP_MMAP_BASE_OFF
<1> QED
  BY ZenonT(30), <1>2, <1>4

LEMMA SerialStays == Handlers /\ Alone /\ Ready /\ [TrapNext]_tvars => Alone' /\ Ready'
<1> SUFFICES ASSUME Handlers, Alone, Ready, [TrapNext]_tvars PROVE Alone' /\ Ready'
  OBVIOUS
<1>1. CASE TrapNext
  BY ZenonT(30), <1>1, SerialNext
<1>2. CASE UNCHANGED tvars
  BY ZenonT(30), <1>2, SerialSame DEF tvars, uvars
<1> QED
  BY ZenonT(30), <1>1, <1>2

LEMMA SerialHolds == TrapSpec => [](Handlers /\ Alone /\ Ready)
<1> QED
  BY AbsInit, SerialStays, HandlersHold, PTL DEF TrapSpec

Excused == raced \/ Doomed \/ phase = "exit"

LEMMA AbsStep ==
  Handlers /\ Alone /\ Ready /\ Alone' /\ [TrapNext]_tvars => Excused' \/ UStep
<1> SUFFICES ASSUME Handlers, Alone, Ready, Alone', [TrapNext]_tvars, ~Excused' PROVE UStep
  OBVIOUS
<1>1. CASE TrapNext
  BY ZenonT(30), <1>1, SimNext DEF Excused
<1>2. CASE UNCHANGED tvars
  BY ZenonT(30), <1>2, SimStill DEF tvars
<1> QED
  BY ZenonT(30), <1>1, <1>2

LEMMA ExcusedStays == Handlers /\ [TrapNext]_tvars => (Excused => Excused')
<1> SUFFICES ASSUME Handlers, [TrapNext]_tvars, Excused, ~Excused' PROVE FALSE
  OBVIOUS
<1>1. CASE UNCHANGED tvars
  BY ZenonT(30), <1>1 DEF Excused, Doomed, Moving, tvars, uvars
<1>2. CASE TrapNext
  <2>1. ~raced
    BY ZenonT(30), <1>2 DEF Excused, TrapNext, Boot, syscall_handler, CheckAborts, HandlerStep, Lock, Unlock,
       OtherCall, ExecExits, Test, PlaceUnmap, PlaceBrk, PlaceMap, PlaceMove, HostRefuses, Load,
       Store, Remap, FaultInRing0, pgflt_enters, FaultInRing3, Begin
  <2>2. phase # "exit"
    BY ZenonT(30), <1>2 DEF TrapNext, Boot, umm_alloc_stack, syscall_handler, CheckAborts, HandlerStep, Lock,
       Unlock, OtherCall, ExecExits, Test, PlaceUnmap, PlaceBrk, PlaceMap, PlaceMove, HostRefuses,
       Load, Store, Remap, FaultInRing0, pgflt_enters, FaultInRing3, Runs
  <2>3. Doomed /\ ~Doomed' /\ phase' # "exit"
    BY Zenon, <2>1, <2>2 DEF Excused
  <2> QED
    BY ZenonT(30), <1>2, <2>3, DoomStays
<1> QED
  BY ZenonT(30), <1>1, <1>2

(* As long as no two memory calls meet without _syscall_mtx, the           *)
(* interleaved steps of the calls are those of Umm, one call at a time     *)
(* (trap.c:643-649; umm.c:24-26): for any threads, calls and layout.       *)
THEOREM RefinesUmm == TrapSpec => ImplementsUmm
<1>1. TrapInit => U!UmmInit
  BY Zenon, AbsInit
<1>2. Handlers /\ Alone /\ Ready /\ Alone' /\ [TrapNext]_tvars
        => [raced' \/ Doomed' \/ phase' = "exit" \/ U!UmmNext]_(U!uvars)
  BY ZenonT(30), AbsStep DEF Excused, UStep
<1> QED
  BY <1>1, <1>2, SerialHolds, PTL DEF TrapSpec, ImplementsUmm

(* Until then the guarantees of Umm hold in the middle of every call, too. *)
THEOREM SafeTillRaced == TrapSpec => []SafeUntilRaced
<1>1. TrapInit => SafeUntilRaced
  <2> SUFFICES ASSUME TrapInit PROVE U!UmmInv
    BY Zenon DEF SafeUntilRaced
  <2>1. UP!UmmInit
    BY ZenonT(30), AbsInit, SameInit
  <2>2. UP!UmmInv
    BY <2>1, AbsAssumption, UP!InitInv
  <2> QED
    BY ZenonT(30), <2>2, SameInv
<1>2. Handlers /\ Alone /\ Ready /\ Alone' /\ SafeUntilRaced /\ [TrapNext]_tvars => SafeUntilRaced'
  <2> SUFFICES ASSUME Handlers, Alone, Ready, Alone', SafeUntilRaced, [TrapNext]_tvars, ~Excused'
               PROVE  (U!UmmInv)'
    BY Zenon DEF SafeUntilRaced, Excused
  <2>1. ~Excused /\ UStep
    BY ZenonT(30), AbsStep, ExcusedStays
  <2>2. U!UmmInv
    BY ZenonT(30), <2>1 DEF SafeUntilRaced, Excused
  <2>a. UP!UmmInv
    BY ZenonT(30), <2>2, SameInv
  <2>b. [UP!UmmNext]_(UP!uvars)
    BY ZenonT(30), <2>1, SameStep
  <2>3. (UP!UmmInv)'
    BY <2>a, <2>b, AbsAssumption, UP!NextInv
  <2> QED
    BY ZenonT(30), <2>3, SameInvNext
<1> QED
  BY <1>1, <1>2, SerialHolds, PTL DEF TrapSpec
=============================================================================
