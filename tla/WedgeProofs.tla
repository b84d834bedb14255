---------------------------- MODULE WedgeProofs ----------------------------
(***************************************************************************)
(* Proofs about Wedge: the composition keeps the invariants of Sthread,    *)
(* and recycle gives every incarnation of an sthread a fresh start in the  *)
(* pages whose dirty bits it can rely on.                                  *)
(***************************************************************************)
EXTENDS Wedge, SthreadProofs

USE DEF Id, Halts, Prot

(* A step of the composition is a step of Sthread or leaves it unchanged.  *)
LEMMA WNextIsNext == [WNext]_wvars => [Next]_vars
<1>1. ASSUME NEW p \in AllPage, Store(p) PROVE UNCHANGED vars
  BY <1>1 DEF Store
<1>2. ASSUME NEW s \in Id, NEW p \in AllPage, Evict(s, p) PROVE UNCHANGED vars
  BY <1>2 DEF Evict
<1>3. ASSUME UNCHANGED wvars PROVE UNCHANGED vars
  BY <1>3 DEF wvars
<1> QED
  BY <1>1, <1>2, <1>3 DEF WNext, Next

(* The initial state satisfies the inductive invariant.                    *)
LEMMA WInitInv == WInit => WInv
<1> SUFFICES ASSUME WInit PROVE WInv
  OBVIOUS
<1>1. IInv
  BY InitIInv DEF WInit
<1>2. /\ master = [p \in Page |-> "clean"]
      /\ pages = [s \in Id |-> [p \in AllPage |-> "clean"]]
      /\ pte_d = [s \in Id |-> {}] /\ tlb_d = [s \in Id |-> {}]
  BY DEF WInit, MemInit
<1>3. MemTypeOK
  BY <1>2 DEF MemTypeOK
<1>4. DirtyBitsCover /\ TrackedFresh
  BY <1>2 DEF DirtyBitsCover, TrackedFresh, Tracked
<1> QED
  BY <1>1, <1>2, <1>3, <1>4 DEF WInv

(* A step that leaves the memory alone keeps the invariant if it stops no  *)
(* sthread from running except by reaping it, and leaves an sthread that   *)
(* is off its own page table only by a crash.                              *)
LEMMA MemUntouched ==
  ASSUME WInv, IInv', UNCHANGED mvars,
         \A s \in Id : st_state'[s] # "RUNNING" => st_state[s] # "RUNNING",
         \A s \in Id : st_state'[s] = "NONE" => st_state[s] = "NONE",
         \A s \in Id : /\ st_state[s] = "RUNNING" /\ cr3 = NULL
                       /\ cpu \in {User(s), Stopped("crash")}
                       => /\ st_state'[s] = "RUNNING" /\ cr3' = NULL
                          /\ cpu' \in {User(s), Stopped("crash")}
  PROVE  WInv'
<1> USE DEF mvars
<1>1. MemTypeOK'
  BY DEF WInv, MemTypeOK
<1>2. TrackedFresh'
  BY DEF WInv, TrackedFresh
<1>3. DirtyBitsCover'
  BY DEF WInv, DirtyBitsCover
<1>4. \A s \in Id : tlb_d'[s] \subseteq TlbKeeps /\ (tlb_d'[s] # {} => st_state'[s] # "NONE")
  BY DEF WInv
<1> QED
  BY <1>1, <1>2, <1>3, <1>4 DEF WInv

(* The steps of Sthread that touch no memory.                              *)
LEMMA ControlWInv ==
  ASSUME WInv, ControlStep, UNCHANGED mvars
  PROVE  WInv'
<1> USE SthreadAssumption
<1>0. IInv /\ IInv' /\ st_state \in [Id -> {"NONE", "RUNNING", "ZOMBIE", "DEAD"}]
  BY Zenon, NextIInv DEF WInv, Next, IInv, TypeOK
<1> DEFINE Off(s) == cpu \in {User(s), Stopped("crash")}
<1>1. ASSUME NEW p \in Policies, CreateRecycled(p) PROVE WInv'
  <2>1. PICK s \in Recyclable(p) : launch_sthread(s)
    BY <1>1 DEF CreateRecycled
  <2>2. st_state' = [st_state EXCEPT ![s] = "RUNNING"] /\ cpu = Master
    BY Zenon, <1>1, <2>1 DEF CreateRecycled, launch_sthread
  <2>3. \A t \in Id : ~Off(t)
    BY <2>2 DEF Master, User, Stopped
  <2> QED
    BY <1>0, <2>2, <2>3, MemUntouched
<1>2. ASSUME JoinReap PROVE WInv'
  <2>1. /\ joining \in Id /\ st_state[joining] = "ZOMBIE"
        /\ st_state' = [st_state EXCEPT ![joining] = "DEAD"] /\ cpu = Master
    BY <1>0, <1>2 DEF JoinReap, IInv, TypeOK
  <2>2. \A t \in Id : ~Off(t)
    BY <2>1 DEF Master, User, Stopped
  <2> QED
    BY <1>0, <2>1, <2>2, MemUntouched
<1>3. ASSUME st_state' = st_state, \A t \in Id : ~(Off(t) /\ cr3 = NULL) PROVE WInv'
  BY <1>0, <1>3, MemUntouched
<1>4. ASSUME st_state' = st_state, cr3' = cr3, cpu' \in {cpu, Stopped("crash")} PROVE WInv'
  BY <1>0, <1>4, MemUntouched
<1>5. ASSUME cpu = Master PROVE \A t \in Id : ~Off(t)
  BY <1>5 DEF Master, User, Stopped
<1>6. ASSUME NEW s \in Id, Trap(s) PROVE cr3 # NULL
  BY <1>0, <1>6 DEF Trap, IInv, ActivationsNest
<1> USE DEF svars, kvars, jvars, hvars
<1>7. ASSUME NEW p \in Policies, CreateNoMemory(p) PROVE WInv'
  BY <1>3, <1>5, <1>7 DEF CreateNoMemory
<1>8. ASSUME NEW s \in Id, Join(s) PROVE WInv'
  BY <1>3, <1>5, <1>8 DEF Join
<1>9. ASSUME JoinSchedule \/ JoinAbort PROVE WInv'
  BY <1>3, <1>5, <1>9 DEF JoinSchedule, JoinAbort
<1>10. ASSUME NEW s \in Id, MemAssert(s) \/ MemDenied(s) PROVE WInv'
  BY Zenon, <1>3, <1>6, <1>10 DEF MemAssert, MemDenied
<1>11. ASSUME NEW s \in Id, NEW f \in Fd,
              SysRead(s, f) \/ SysWrite(s, f) \/ SysOpen(s, f) \/ SysClose(s, f)
       PROVE  WInv'
  BY <1>3, <1>6, <1>11 DEF SysRead, save_tf, SysWrite, SysOpen, SysClose
<1>12. ASSUME NEW s \in Id, SysOutOfRange(s, 8 * (SC_SYS_LEN + 1)) PROVE WInv'
  BY <1>3, <1>6, <1>12 DEF SysOutOfRange
<1>13. ASSUME TrapNoCurrent PROVE WInv'
  BY <1>4, <1>13 DEF TrapNoCurrent
<1>14. ASSUME NEW f \in Fd, MasterWrite(f) \/ PeerWrite(f) PROVE WInv'
  BY Zenon, <1>4, <1>14 DEF MasterWrite, PeerWrite
<1> QED
  BY Zenon, <1>1, <1>2, <1>7, <1>8, <1>9, <1>10, <1>11, <1>12, <1>13, <1>14 DEF ControlStep

-----------------------------------------------------------------------------
(* A new sthread starts with clean pages and clean PTEs.                   *)
LEMMA CreateNewWInv ==
  ASSUME WInv, NEW p \in Policies, CreateNew(p), create_pages(nst')
  PROVE  WInv'
<1> USE SthreadAssumption
<1>0. IInv /\ IInv'
  BY Zenon, NextIInv DEF WInv, Next
<1> DEFINE n == nst'
<1>1. /\ n \in Id /\ n > nst /\ cpu = Master
      /\ st_state \in [Id -> {"NONE", "RUNNING", "ZOMBIE", "DEAD"}]
      /\ st_state' = [st_state EXCEPT ![n] = "RUNNING"]
      /\ pages' = [pages EXCEPT ![n] = [q \in AllPage |-> "clean"]]
      /\ pte_d' = [pte_d EXCEPT ![n] = {}]
      /\ master' = master /\ tlb_d' = tlb_d
  BY <1>0 DEF CreateNew, kmalloc_fits, launch_sthread, create_pages, IInv, TypeOK
<1>2. st_state[n] = "NONE" /\ tlb_d[n] = {}
  BY <1>0, <1>1 DEF IInv, CreatedAndJoined, WInv
<1>3. \A t \in Id : cpu \notin {User(t), Stopped("crash")}
  BY <1>1 DEF Master, User, Stopped
<1> HIDE DEF n
<1>4. MemTypeOK'
  BY <1>1 DEF WInv, MemTypeOK
<1>5. ASSUME NEW s \in Id, NEW q \in Tracked
      PROVE  /\ q \in tlb_d'[s] => q \in pte_d'[s]
             /\ pages'[s][q] = "used" => q \in pte_d'[s]
             /\ st_state'[s] # "RUNNING" => pages'[s][q] = "clean"
  <2>0. q \in AllPage
    BY DEF Tracked
  <2>1. CASE s = n
    <3>1. pages'[s][q] = "clean" /\ tlb_d'[s] = {}
      BY <1>1, <1>2, <2>0, <2>1 DEF WInv, MemTypeOK
    <3> QED
      BY <3>1
  <2>2. CASE s # n
    <3>1. pages'[s] = pages[s] /\ pte_d'[s] = pte_d[s] /\ st_state'[s] = st_state[s]
      BY <1>1, <2>2 DEF WInv, MemTypeOK
    <3> QED
      BY <1>1, <1>3, <3>1 DEF WInv, DirtyBitsCover, TrackedFresh
  <2> QED
    BY <2>1, <2>2
<1>6. DirtyBitsCover' /\ TrackedFresh'
  BY <1>5 DEF DirtyBitsCover, TrackedFresh, Tracked
<1>7. \A s \in Id : tlb_d'[s] \subseteq TlbKeeps /\ (tlb_d'[s] # {} => st_state'[s] # "NONE")
  BY <1>1 DEF WInv
<1> QED
  BY <1>0, <1>4, <1>6, <1>7 DEF WInv

(* recycle restores every tracked page of the sthread that exits.          *)
LEMMA SysExitWInv ==
  ASSUME WInv, NEW s \in Id, NEW v \in Val, SysExit(s, v), recycle(s)
  PROVE  WInv'
<1> USE SthreadAssumption
<1>0. IInv /\ IInv'
  BY Zenon, NextIInv DEF WInv, Next
<1>1. /\ st_state \in [Id -> {"NONE", "RUNNING", "ZOMBIE", "DEAD"}]
      /\ st_state' = [st_state EXCEPT ![s] = "ZOMBIE"]
      /\ pages' = [pages EXCEPT ![s] =
                     [q \in AllPage |-> IF q \in pte_d[s] THEN "clean" ELSE pages[s][q]]]
      /\ pte_d' = [pte_d EXCEPT ![s] = pte_d[s] \cap {Stack}]
      /\ master' = master /\ tlb_d' = tlb_d
  BY <1>0 DEF SysExit, recycle, IInv, TypeOK
<1>2. cr3 # NULL
  <2>1. ks_current = s /\ cr3 = ks_current
    BY <1>0 DEF SysExit, Trap, IInv, ActivationsNest
  <2> QED
    BY <2>1
<1>3. MemTypeOK'
  BY <1>1 DEF WInv, MemTypeOK
<1>4. ASSUME NEW t \in Id, NEW q \in Tracked
      PROVE  /\ q \in tlb_d'[t] => q \in pte_d'[t]
             /\ pages'[t][q] = "used" => q \in pte_d'[t]
             /\ st_state'[t] # "RUNNING" => pages'[t][q] = "clean"
  <2>0. q \in AllPage /\ (q \in TlbKeeps => q = Stack)
    BY DEF Tracked
  <2>1. CASE t = s
    <3>1. /\ pages'[t][q] = IF q \in pte_d[t] THEN "clean" ELSE pages[t][q]
          /\ pte_d'[t] = pte_d[t] \cap {Stack}
      BY <1>1, <2>0, <2>1 DEF WInv, MemTypeOK
    <3>2. q \in pte_d[t] \/ pages[t][q] = "clean"
      BY <1>2, <2>0 DEF WInv, DirtyBitsCover, MemTypeOK
    <3>3. q \in tlb_d[t] => q \in pte_d[t] /\ q = Stack
      BY Zenon, <2>0 DEF WInv, DirtyBitsCover
    <3> QED
      BY <1>1, <3>1, <3>2, <3>3
  <2>2. CASE t # s
    <3>1. pages'[t] = pages[t] /\ pte_d'[t] = pte_d[t] /\ st_state'[t] = st_state[t]
      BY Zenon, <1>1, <2>2 DEF WInv, MemTypeOK
    <3> QED
      BY Zenon, <1>1, <1>2, <3>1 DEF WInv, DirtyBitsCover, TrackedFresh
  <2> QED
    BY <2>1, <2>2
<1>5. DirtyBitsCover' /\ TrackedFresh'
  BY <1>4 DEF DirtyBitsCover, TrackedFresh, Tracked
<1>6. \A t \in Id : tlb_d'[t] \subseteq TlbKeeps /\ (tlb_d'[t] # {} => st_state'[t] # "NONE")
  BY <1>1 DEF WInv
<1> QED
  BY <1>0, <1>3, <1>5, <1>6 DEF WInv

(* A read into one of the pages modelled reaches no tracked page.          *)
LEMMA ReadReturnsWInv ==
  ASSUME WInv, ReadReturns, FillBuffer(cpu.id)
  PROVE  WInv'
<1> USE SthreadAssumption
<1>0. IInv /\ IInv'
  BY NextIInv DEF WInv, Next
<1>1. /\ st_state' = st_state /\ cr3' = cr3 /\ master' = master
      /\ pte_d' = pte_d /\ tlb_d' = tlb_d
      /\ \/ pages' = pages
         \/ \E p \in HostBuffers : pages' = [pages EXCEPT ![cpu.id][p] = "used"]
  BY Zenon DEF ReadReturns, FillBuffer, svars
<1>2. \A s \in Id : cpu \notin {User(s), Stopped("crash")}
  BY DEF ReadReturns, User, Stopped
<1>3. /\ pages' \in [Id -> [AllPage -> {"clean", "used"}]]
      /\ \A s \in Id : \A q \in Tracked : pages'[s][q] = pages[s][q]
  <2>1. pages \in [Id -> [AllPage -> {"clean", "used"}]]
    BY DEF WInv, MemTypeOK
  <2>2. CASE pages' = pages
    BY <2>1, <2>2
  <2>3. ASSUME NEW p \in HostBuffers, pages' = [pages EXCEPT ![cpu.id][p] = "used"]
        PROVE  /\ pages' \in [Id -> [AllPage -> {"clean", "used"}]]
               /\ \A s \in Id : \A q \in Tracked : pages'[s][q] = pages[s][q]
    BY Zenon, <2>1, <2>3 DEF Tracked
  <2> QED
    BY Zenon, <1>1, <2>2, <2>3
<1>4. MemTypeOK'
  BY <1>1, <1>3 DEF WInv, MemTypeOK
<1>5. ASSUME NEW s \in Id, NEW q \in Tracked
      PROVE  /\ q \in tlb_d'[s] => q \in pte_d'[s]
             /\ pages'[s][q] = "used" => q \in pte_d'[s]
             /\ st_state'[s] # "RUNNING" => pages'[s][q] = "clean"
  BY <1>1, <1>2, <1>3 DEF WInv, DirtyBitsCover, TrackedFresh
<1>6. DirtyBitsCover' /\ TrackedFresh'
  BY <1>5 DEF DirtyBitsCover, TrackedFresh, Tracked
<1>7. \A s \in Id : tlb_d'[s] \subseteq TlbKeeps /\ (tlb_d'[s] # {} => st_state'[s] # "NONE")
  BY Zenon, <1>1 DEF WInv
<1> QED
  BY <1>0, <1>4, <1>6, <1>7 DEF WInv

(* A store on the sthread's own root sets the dirty bit or finds it set; a *)
(* store on the root of the master is one the sthread does not survive.    *)
LEMMA StoreWInv ==
  ASSUME WInv, NEW p \in AllPage, Store(p)
  PROVE  WInv'
<1> USE SthreadAssumption, WedgeAssumption
<1> DEFINE c == cpu.id
<1>0. IInv /\ IInv' /\ UNCHANGED vars
  BY Zenon, NextIInv DEF WInv, Store
<1>1. cpu.mode = "user" /\ cpu = User(c) /\ c \in Id \cup {NULL} /\ cpu' = cpu /\ cr3' = cr3
      /\ st_state' = st_state
  BY Zenon, <1>0 DEF Store, IInv, TypeOK, User, vars, kvars, svars
<1>2. c \in Id /\ st_state[c] = "RUNNING"
  BY Zenon, <1>0, <1>1 DEF IInv, CurrentIsRunning
<1> HIDE DEF c
<1>3. CASE /\ cr3 = c
           /\ pages' = [pages EXCEPT ![c][p] = "used"]
           /\ pte_d' = [pte_d EXCEPT ![c] = IF p \in tlb_d[c] THEN @ ELSE @ \cup {p}]
           /\ tlb_d' = [tlb_d EXCEPT ![c] = IF p \in TlbKeeps THEN @ \cup {p} ELSE @]
           /\ master' = master
  <2>1. MemTypeOK'
    BY Zenon, <1>3 DEF WInv, MemTypeOK
  <2>2. ASSUME NEW s \in Id, NEW q \in Tracked
        PROVE  /\ q \in tlb_d'[s] => q \in pte_d'[s]
               /\ pages'[s][q] = "used" => q \in pte_d'[s]
               /\ st_state'[s] # "RUNNING" => pages'[s][q] = "clean"
    <3>0. q \in AllPage
      BY DEF Tracked
    <3>1. /\ q \in tlb_d[s] => q \in pte_d[s]
          /\ pages[s][q] = "used" => q \in pte_d[s]
          /\ st_state[s] # "RUNNING" => pages[s][q] = "clean"
      <4>1. cr3 # NULL
        BY <1>2, <1>3
      <4> QED
        BY <4>1 DEF WInv, DirtyBitsCover, TrackedFresh
    <3>2. CASE s = c
      <4>1. /\ pages'[s][q] = IF q = p THEN "used" ELSE pages[s][q]
            /\ pte_d'[s] = IF p \in tlb_d[s] THEN pte_d[s] ELSE pte_d[s] \cup {p}
            /\ tlb_d'[s] = IF p \in TlbKeeps THEN tlb_d[s] \cup {p} ELSE tlb_d[s]
        BY <1>2, <1>3, <3>0, <3>2 DEF WInv, MemTypeOK
      <4> QED
        BY <1>1, <1>2, <3>1, <3>2, <4>1
    <3>3. CASE s # c
      <4>1. pages'[s] = pages[s] /\ pte_d'[s] = pte_d[s] /\ tlb_d'[s] = tlb_d[s]
        BY <1>2, <1>3, <3>3 DEF WInv, MemTypeOK
      <4> QED
        BY <1>1, <3>1, <4>1
    <3> QED
      BY <3>2, <3>3
  <2>3. DirtyBitsCover' /\ TrackedFresh'
    BY <2>2 DEF DirtyBitsCover, TrackedFresh, Tracked
  <2>4. \A s \in Id : tlb_d'[s] \subseteq TlbKeeps /\ (tlb_d'[s] # {} => st_state'[s] # "NONE")
    <3>1. ASSUME NEW s \in Id
          PROVE  tlb_d'[s] \subseteq TlbKeeps /\ (tlb_d'[s] # {} => st_state[s] # "NONE")
      <4>1. tlb_d'[s] = IF s = c /\ p \in TlbKeeps THEN tlb_d[s] \cup {p} ELSE tlb_d[s]
        BY Zenon, <1>3 DEF WInv, MemTypeOK
      <4> QED
        BY <1>2, <3>1, <4>1 DEF WInv
    <3> QED
      BY <1>1, <3>1
  <2> QED
    BY <1>0, <2>1, <2>3, <2>4 DEF WInv
<1>4. CASE /\ p \in Page /\ master' = [master EXCEPT ![p] = "used"]
           /\ UNCHANGED <<pages, pte_d, tlb_d>>
  <2>1. MemTypeOK'
    BY <1>4 DEF WInv, MemTypeOK
  <2>2. DirtyBitsCover' /\ TrackedFresh'
    BY <1>1, <1>4 DEF WInv, DirtyBitsCover, TrackedFresh
  <2> QED
    BY <1>0, <1>1, <1>4, <2>1, <2>2 DEF WInv
<1>5. CASE /\ cr3 = NULL /\ pages' = [pages EXCEPT ![c][p] = "used"]
           /\ UNCHANGED <<master, pte_d, tlb_d>>
  <2>1. MemTypeOK'
    BY Zenon, <1>5 DEF WInv, MemTypeOK
  <2>2. ASSUME NEW s \in Id, NEW q \in Tracked
        PROVE  pages'[s][q] = pages[s][q] \/ s = c
    BY <1>5 DEF WInv, MemTypeOK
  <2>3. DirtyBitsCover'
    BY <1>1, <1>2, <1>5, <2>2 DEF WInv, DirtyBitsCover, Tracked
  <2>4. TrackedFresh'
    BY <1>1, <1>2, <2>2 DEF WInv, TrackedFresh, Tracked
  <2> QED
    BY <1>0, <1>1, <1>5, <2>1, <2>3, <2>4 DEF WInv
<1> QED
  BY Zenon, <1>3, <1>4, <1>5 DEF Store, c

(* Dropping a TLB entry loses nothing.                                     *)
LEMMA EvictWInv ==
  ASSUME WInv, NEW s \in Id, NEW p \in AllPage, Evict(s, p)
  PROVE  WInv'
<1>0. /\ IInv' /\ st_state' = st_state /\ cr3' = cr3 /\ cpu' = cpu
      /\ master' = master /\ pages' = pages /\ pte_d' = pte_d
  BY NextIInv DEF WInv, Evict, vars, kvars, svars
<1>1. /\ tlb_d' \in [Id -> SUBSET AllPage]
      /\ \A t \in Id : tlb_d'[t] \subseteq tlb_d[t]
  BY DEF Evict, WInv, MemTypeOK
<1>2. MemTypeOK'
  BY Zenon, <1>0, <1>1 DEF WInv, MemTypeOK
<1>3. DirtyBitsCover' /\ TrackedFresh'
  BY <1>0, <1>1 DEF WInv, DirtyBitsCover, TrackedFresh
<1>4. \A t \in Id : tlb_d'[t] \subseteq TlbKeeps /\ (tlb_d'[t] # {} => st_state'[t] # "NONE")
  BY <1>0, <1>1 DEF WInv
<1> QED
  BY <1>0, <1>2, <1>3, <1>4 DEF WInv

(* Every step keeps the invariant of the composition.                      *)
LEMMA WNextInv == WInv /\ [WNext]_wvars => WInv'
<1> SUFFICES ASSUME WInv, [WNext]_wvars PROVE WInv'
  OBVIOUS
<1>1. CASE UNCHANGED wvars
  <2>1. IInv'
    BY <1>1, NextIInv DEF WInv, wvars
  <2>2. /\ UNCHANGED mvars /\ st_state' = st_state /\ cr3' = cr3 /\ cpu' = cpu
    BY <1>1 DEF wvars, vars, kvars, svars
  <2> QED
    BY <2>1, <2>2, MemUntouched
<1> QED
  BY <1>1, ControlWInv, CreateNewWInv, SysExitWInv, ReadReturnsWInv, StoreWInv, EvictWInv
     DEF WNext

-----------------------------------------------------------------------------
(* The composition keeps its inductive invariant: the pages whose dirty    *)
(* bits recycle can rely on are covered by them in every reachable state   *)
(* (sthread.c:92-154), whatever the master, the sthreads and the TLB do.   *)
THEOREM WedgeInvariance == WSpec => []WInv
<1> QED
  BY WInitInv, WNextInv, PTL DEF WSpec

(* The composition is an Sthread: its memory adds no control step.         *)
THEOREM WedgeIsSthread == WSpec => Spec
<1>1. WInit => Init
  BY DEF WInit
<1> QED
  BY <1>1, WNextIsNext, PTL DEF WSpec, Spec

(* In the pages whose dirty bits recycle can rely on, every sthread starts *)
(* from the checkpoint (sthread.c:134-154).                                *)
THEOREM TrackedStartsFresh == WSpec => []TrackedFresh
<1>1. WInv => TrackedFresh
  BY DEF WInv
<1> QED
  BY <1>1, WedgeInvariance, PTL

(* If no read fills a page behind the page table and the TLB keeps no      *)
(* dirty entry past recycle but that of the stack, every sthread starts    *)
(* from the checkpoint in every page (sthread.c:134-154, test.c:50).       *)
THEOREM StartsFresh ==
  ASSUME HostBuffers = {}, TlbKeeps \subseteq {Stack}
  PROVE  WSpec => []FreshStart
<1>1. WInv => FreshStart
  BY DEF WInv, TrackedFresh, FreshStart, Tracked
<1> QED
  BY <1>1, WedgeInvariance, PTL

(* The stack starts zeroed also on a processor whose TLB keeps dirty       *)
(* entries, because walk_recycle_stack leaves PTE_D set (sthread.c:129,    *)
(* test.c:68), as long as no read fills a buffer on it.                    *)
THEOREM StackStartsFresh ==
  ASSUME Stack \notin HostBuffers
  PROVE  WSpec => []StackFreshStart
<1>1. WInv => StackFreshStart
  BY DEF WInv, TrackedFresh, StackFreshStart, Tracked, AllPage
<1> QED
  BY <1>1, WedgeInvariance, PTL

(* The dirty bits cover every use of the pages recycle can rely on         *)
(* (sthread.c:92-132).                                                     *)
THEOREM DirtyBitsSuffice == WSpec => []DirtyBitsCover
<1>1. WInv => DirtyBitsCover
  BY DEF WInv
<1> QED
  BY <1>1, WedgeInvariance, PTL

(* The memory of the composition stays in its type.                        *)
THEOREM MemTypeCorrect == WSpec => []MemTypeOK
<1>1. WInv => MemTypeOK
  BY DEF WInv
<1> QED
  BY <1>1, WedgeInvariance, PTL
=============================================================================
