--------------------------- MODULE SthreadProofs ---------------------------
(***************************************************************************)
(* Proofs about Sthread, for every number of sthreads, every set of        *)
(* security contexts and every depth of nesting.                           *)
(***************************************************************************)
EXTENDS Sthread, TLAPS

USE DEF Id, Halts, Prot

(* The initial state satisfies the inductive invariant.                    *)
LEMMA InitIInv == Init => IInv
<1> SUFFICES ASSUME Init PROVE IInv
  OBVIOUS
<1> DEFINE p0 == CHOOSE p \in Policies : TRUE
<1>1. p0 \in Policies /\ p0 \in Sc /\ p0.mem \in Mem
  BY SthreadAssumption DEF Sc
<1> HIDE DEF p0
<1>2. st_sc = [s \in 1 .. MaxId |-> p0]
  BY DEF Init, p0
<1>3. TypeOK
  BY <1>1, <1>2, SthreadAssumption DEF Init, TypeOK, Master, Sc
<1>4. /\ ResumableFromOwnFrame /\ PolicyOfCreator
  BY SthreadAssumption DEF Init, ResumableFromOwnFrame, PolicyOfCreator
<1>5. AbortOnlyOnSecondJoin /\ OffOwnRootOnlyAfterRead /\ ActivationsNest /\ CurrentIsRunning
  BY DEF Init, Master, AbortOnlyOnSecondJoin, OffOwnRootOnlyAfterRead, ActivationsNest, CurrentIsRunning
<1>6. CreatedAndJoined
  BY SthreadAssumption DEF Init, CreatedAndJoined
<1> QED
  BY <1>3, <1>4, <1>5, <1>6 DEF IInv

-----------------------------------------------------------------------------
(* Popping an activation.                                                  *)
LEMMA Pop ==
  ASSUME NEW S, NEW q \in Seq(S), Len(q) > 0
  PROVE  /\ SubSeq(q, 1, Len(q) - 1) \in Seq(S)
         /\ Len(SubSeq(q, 1, Len(q) - 1)) = Len(q) - 1
         /\ \A i \in 1 .. Len(q) - 1 : SubSeq(q, 1, Len(q) - 1)[i] = q[i]
         /\ Len(q) \in 1 .. Len(q)
         /\ q[Len(q)] \in S
<1> DEFINE n == Len(q) - 1
<1>1. Len(q) \in Nat /\ n \in Nat /\ n = Len(q) - 1 /\ Len(q) \in 1 .. Len(q)
  OBVIOUS
<1>2. \A i \in 1 .. Len(q) : q[i] \in S
  OBVIOUS
<1>3. \A i \in 1 .. n : q[i] \in S
  BY <1>1, <1>2
<1> HIDE DEF n
<1>4. /\ SubSeq(q, 1, n) \in Seq(S)
      /\ Len(SubSeq(q, 1, n)) = IF 1 <= n THEN n - 1 + 1 ELSE 0
      /\ \A i \in 1 .. n - 1 + 1 : SubSeq(q, 1, n)[i] = q[1 + i - 1]
  BY <1>1, <1>3
<1> QED
  BY <1>1, <1>2, <1>4

(* A step that only stops the process.                                     *)
LEMMA StopIInv ==
  ASSUME IInv, NEW why \in Halts, why # "abort",
         cpu' = Stopped(why),
         UNCHANGED <<svars, ks_current, cr3, kstack, jvars, fdt, avail, hvars>>
  PROVE  IInv'
<1> USE DEF svars, jvars, hvars, Stopped
<1>1. TypeOK'
  BY DEF IInv, TypeOK
<1>2. ResumableFromOwnFrame' /\ PolicyOfCreator'
  BY DEF IInv, ResumableFromOwnFrame, PolicyOfCreator
<1>3. AbortOnlyOnSecondJoin' /\ OffOwnRootOnlyAfterRead' /\ CurrentIsRunning'
  BY DEF IInv, AbortOnlyOnSecondJoin, OffOwnRootOnlyAfterRead, CurrentIsRunning
<1>4. ActivationsNest' /\ CreatedAndJoined'
  BY DEF IInv, ActivationsNest, CreatedAndJoined
<1> QED
  BY <1>1, <1>2, <1>3, <1>4 DEF IInv

(* A step that only moves items through the channels.                      *)
LEMMA ChannelIInv ==
  ASSUME IInv, UNCHANGED <<svars, kvars, jvars, hvars>>,
         fdt' \in [Fd -> {"closed", "chan", "file"}],
         avail' \in [Fd -> 0 .. PipeCap]
  PROVE  IInv'
<1> USE DEF svars, kvars, jvars, hvars
<1>1. TypeOK'
  BY DEF IInv, TypeOK
<1>2. ResumableFromOwnFrame' /\ PolicyOfCreator'
  BY Zenon DEF IInv, ResumableFromOwnFrame, PolicyOfCreator
<1>3. AbortOnlyOnSecondJoin' /\ OffOwnRootOnlyAfterRead' /\ CurrentIsRunning'
  BY DEF IInv, AbortOnlyOnSecondJoin, OffOwnRootOnlyAfterRead, CurrentIsRunning
<1>4. ActivationsNest' /\ CreatedAndJoined'
  BY DEF IInv, ActivationsNest, CreatedAndJoined
<1> QED
  BY <1>1, <1>2, <1>3, <1>4 DEF IInv

(* Launching an sthread that is not running, from the master.              *)
LEMMA LaunchIInv ==
  ASSUME IInv, cpu = Master, joining = NULL,
         NEW s \in Id, NEW p \in Policies, s <= nst',
         nst' \in 0 .. MaxId,
         \A t \in 1 .. nst' : t # s => t <= nst,
         st_sc' = [st_sc EXCEPT ![s] = p],
         given' = [given EXCEPT ![s] = p],
         \A t \in Id : t # s => (t > nst <=> t > nst'),
         st_pgroot' \in [Id -> Mem],
         st_pgroot'[s] = p.mem,
         \A t \in Id : t # s => st_pgroot'[t] = st_pgroot[t],
         st_walk' \subseteq Id,
         launch_sthread(s),
         UNCHANGED <<st_ret, st_tf, jvars, iovars>>
  PROVE  IInv'
<1> USE SthreadAssumption DEF jvars, iovars, launch_sthread, Enter, Master, User
<1>1. ks_current' = s /\ cr3' = s /\ cpu' = [mode |-> "user", id |-> s] /\ kstack' = <<NULL>>
  BY DEF IInv, ActivationsNest, TypeOK
<1>2. TypeOK'
  <2>1. st_sc' \in [Id -> Sc] /\ given' \in [Id -> Policies]
    BY DEF IInv, TypeOK
  <2>2. st_state' \in [Id -> {"NONE", "RUNNING", "ZOMBIE", "DEAD"}]
    BY DEF IInv, TypeOK
  <2>3. saved' \subseteq Id
    BY DEF IInv, TypeOK
  <2>4. kstack' \in Seq(Id \cup {NULL})
    BY <1>1
  <2> QED
    BY <1>1, <2>1, <2>2, <2>3, <2>4 DEF IInv, TypeOK
<1>3. ResumableFromOwnFrame'
  <2> SUFFICES ASSUME NEW t \in 1 .. nst', st_state'[t] = "RUNNING", t # s
               PROVE  t \in saved' /\ st_tf'[t] \in Fd
    BY <1>1 DEF ResumableFromOwnFrame
  <2>0. t <= nst
    OBVIOUS
  <2>1. t \in 1 .. nst /\ t \in Id
    BY <2>0 DEF IInv, TypeOK
  <2>3. st_state[t] = "RUNNING"
    BY <2>1 DEF IInv, TypeOK
  <2>2. ks_current = NULL /\ t # NULL
    BY DEF IInv, ActivationsNest
  <2> QED
    BY <2>1, <2>2, <2>3 DEF IInv, ResumableFromOwnFrame
<1>4. PolicyOfCreator'
  <2> SUFFICES ASSUME NEW t \in 1 .. nst'
               PROVE  /\ st_pgroot'[t] = given'[t].mem
                      /\ st_sc'[t].mem = given'[t].mem
                      /\ st_sc'[t].sys = given'[t].sys
                      /\ Len(given'[t].fd) <= Len(st_sc'[t].fd)
                      /\ Len(st_sc'[t].fd) <= SC_FD_LEN
                      /\ \A i \in 1 .. Len(given'[t].fd) : st_sc'[t].fd[i] = given'[t].fd[i]
    BY DEF PolicyOfCreator
  <2>1. t \in Id
    OBVIOUS
  <2>2. CASE t = s
    <3>1. st_sc'[t] = p /\ given'[t] = p
      BY <2>1, <2>2 DEF IInv, TypeOK
    <3>2. Len(p.fd) \in Nat
      BY DEF Sc
    <3> QED
      BY <2>2, <3>1, <3>2
  <2>3. CASE t # s
    <3>0. t <= nst
      BY <2>3
    <3>1. t \in 1 .. nst
      BY <3>0 DEF IInv, TypeOK
    <3>2. st_sc'[t] = st_sc[t] /\ given'[t] = given[t] /\ st_pgroot'[t] = st_pgroot[t]
      BY <2>1, <2>3 DEF IInv, TypeOK
    <3> QED
      BY ZenonT(30), <3>1, <3>2 DEF IInv, PolicyOfCreator
  <2> QED
    BY Zenon, <2>2, <2>3
<1>5. AbortOnlyOnSecondJoin' /\ OffOwnRootOnlyAfterRead' /\ ActivationsNest'
  BY <1>1 DEF AbortOnlyOnSecondJoin, OffOwnRootOnlyAfterRead, ActivationsNest
<1>6. CurrentIsRunning'
  BY <1>1 DEF IInv, CurrentIsRunning, TypeOK
<1>7. CreatedAndJoined'
  <2> SUFFICES ASSUME NEW t \in Id PROVE st_state'[t] = "NONE" <=> t > nst'
    BY DEF CreatedAndJoined
  <2>1. st_state[t] = "NONE" <=> t > nst
    BY DEF IInv, CreatedAndJoined
  <2>2. CASE t = s
    BY <2>2 DEF IInv, TypeOK
  <2>3. CASE t # s
    <3>1. st_state'[t] = st_state[t]
      BY <2>3 DEF IInv, TypeOK
    <3> QED
      BY <2>1, <2>3, <3>1
  <2> QED
    BY <2>2, <2>3
<1> QED
  BY <1>2, <1>3, <1>4, <1>5, <1>6, <1>7 DEF IInv

-----------------------------------------------------------------------------
(* sthread_create keeps the invariant.                                     *)
LEMMA CreateIInv ==
  ASSUME IInv, NEW p \in Policies
  PROVE  /\ CreateRecycled(p) => IInv'
         /\ CreateNew(p) => IInv'
         /\ CreateNoMemory(p) => IInv'
<1>1. ASSUME CreateRecycled(p) PROVE IInv'
  <2>1. PICK s \in Recyclable(p) :
          /\ st_sc' = [st_sc EXCEPT ![s] = p]
          /\ given' = [given EXCEPT ![s] = p]
          /\ launch_sthread(s)
    BY Zenon, <1>1 DEF CreateRecycled
  <2>2. s \in Id /\ s <= nst /\ st_sc[s].mem = p.mem /\ s \in 1 .. nst
    BY SthreadAssumption DEF Recyclable, IInv, TypeOK
  <2>3. st_pgroot[s] = p.mem
    BY <2>2 DEF IInv, PolicyOfCreator
  <2>4. /\ cpu = Master /\ joining = NULL
        /\ UNCHANGED <<nst, st_ret, st_pgroot, st_tf, st_walk, jvars, iovars>>
    BY <1>1 DEF CreateRecycled
  <2>5. /\ nst' \in 0 .. MaxId /\ st_pgroot' \in [Id -> Mem] /\ st_walk' \subseteq Id
        /\ \A t \in 1 .. nst' : t # s => t <= nst
        /\ \A t \in Id : t # s => (t > nst <=> t > nst')
        /\ \A t \in Id : t # s => st_pgroot'[t] = st_pgroot[t]
    BY <2>4 DEF IInv, TypeOK
  <2>6. st_pgroot'[s] = p.mem /\ s <= nst'
    BY <2>2, <2>3, <2>4
  <2>7. UNCHANGED <<st_ret, st_tf, jvars, iovars>>
    BY <2>4
  <2> QED
    BY Zenon, <2>1, <2>2, <2>4, <2>5, <2>6, <2>7, LaunchIInv
<1>2. ASSUME CreateNew(p) PROVE IInv'
  <2>1. /\ nst < MaxId /\ nst' = nst + 1
        /\ cpu = Master /\ joining = NULL
        /\ st_sc' = [st_sc EXCEPT ![nst'] = p]
        /\ given' = [given EXCEPT ![nst'] = p]
        /\ st_pgroot' = [st_pgroot EXCEPT ![nst'] = p.mem]
        /\ st_walk' = st_walk \cup {nst'}
        /\ launch_sthread(nst')
        /\ UNCHANGED <<st_ret, st_tf, jvars, iovars>>
    BY <1>2 DEF CreateNew, kmalloc_fits
  <2>2. nst \in 0 .. MaxId
    BY DEF IInv, TypeOK
  <2>3. nst' \in Id /\ nst' \in 0 .. MaxId /\ nst' <= nst'
    BY <2>1, <2>2, SthreadAssumption
  <2>4. /\ \A t \in 1 .. nst' : t # nst' => t <= nst
        /\ \A t \in Id : t # nst' => (t > nst <=> t > nst')
    BY <2>1, <2>2
  <2>5. /\ st_walk' \subseteq Id
        /\ st_pgroot' \in [Id -> Mem]
        /\ st_pgroot'[nst'] = p.mem
        /\ \A t \in Id : t # nst' => st_pgroot'[t] = st_pgroot[t]
    BY Zenon, <2>1, <2>3, SthreadAssumption DEF IInv, TypeOK, Sc
  <2> DEFINE s == nst'
  <2> HIDE DEF s
  <2>6. s \in Id /\ s = nst'
    BY <2>3 DEF s
  <2> QED
    BY Zenon, <2>1, <2>3, <2>4, <2>5, <2>6, LaunchIInv
<1>3. ASSUME CreateNoMemory(p) PROVE IInv'
  BY <1>3, StopIInv DEF CreateNoMemory, iovars
<1> QED
  BY <1>1, <1>2, <1>3

(* sthread_join keeps the invariant.                                       *)
LEMMA JoinIInv ==
  ASSUME IInv
  PROVE  /\ \A s \in Id : Join(s) => IInv'
         /\ JoinReap => IInv'
         /\ JoinAbort => IInv'
<1> USE SthreadAssumption DEF svars, kvars, jvars, iovars, hvars, Master, Stopped
<1>1. ASSUME NEW s \in Id, Join(s) PROVE IInv'
  <2> USE <1>1 DEF Join
  <2>1. TypeOK'
    BY DEF IInv, TypeOK
  <2>2. ResumableFromOwnFrame' /\ PolicyOfCreator'
    BY Zenon DEF IInv, ResumableFromOwnFrame, PolicyOfCreator
  <2>3. AbortOnlyOnSecondJoin' /\ OffOwnRootOnlyAfterRead' /\ CurrentIsRunning'
    BY DEF IInv, AbortOnlyOnSecondJoin, OffOwnRootOnlyAfterRead, CurrentIsRunning
  <2>4. ActivationsNest' /\ CreatedAndJoined'
    BY DEF IInv, ActivationsNest, CreatedAndJoined
  <2> QED
    BY <2>1, <2>2, <2>3, <2>4 DEF IInv
<1>2. ASSUME JoinReap PROVE IInv'
  <2> USE <1>2 DEF JoinReap
  <2>0. joining \in Id /\ ks_current = NULL
    BY Zenon DEF IInv, TypeOK, ActivationsNest
  <2>1. TypeOK'
    BY Zenon, <2>0 DEF IInv, TypeOK
  <2>2. ResumableFromOwnFrame'
    BY <2>0 DEF IInv, TypeOK, ResumableFromOwnFrame
  <2>3. PolicyOfCreator'
    BY Zenon DEF IInv, PolicyOfCreator
  <2>4. AbortOnlyOnSecondJoin' /\ OffOwnRootOnlyAfterRead' /\ CurrentIsRunning'
    BY Zenon, <2>0 DEF IInv, AbortOnlyOnSecondJoin, OffOwnRootOnlyAfterRead, CurrentIsRunning
  <2>5. ActivationsNest' /\ CreatedAndJoined'
    BY <2>0 DEF IInv, ActivationsNest, CreatedAndJoined, TypeOK
  <2> QED
    BY Zenon, <2>1, <2>2, <2>3, <2>4, <2>5 DEF IInv
<1>3. ASSUME JoinAbort PROVE IInv'
  <2> USE <1>3 DEF JoinAbort
  <2>1. TypeOK'
    BY Zenon DEF IInv, TypeOK
  <2>2. ResumableFromOwnFrame' /\ PolicyOfCreator'
    BY Zenon DEF IInv, ResumableFromOwnFrame, PolicyOfCreator
  <2>3. OffOwnRootOnlyAfterRead' /\ CurrentIsRunning'
    BY DEF IInv, OffOwnRootOnlyAfterRead, CurrentIsRunning
  <2>4. ActivationsNest' /\ CreatedAndJoined'
    BY DEF IInv, ActivationsNest, CreatedAndJoined
  <2>5. AbortOnlyOnSecondJoin'
    <3>1. joining \in Id /\ joining \in 1 .. nst /\ joining # ks_current
      BY DEF IInv, TypeOK, CreatedAndJoined, ActivationsNest
    <3>2. st_state[joining] # "RUNNING"
      BY <3>1 DEF Runnable
    <3>3. ~(joining > nst)
      BY <3>1 DEF IInv, TypeOK
    <3>4. st_state[joining] # "NONE"
      BY <3>1, <3>3 DEF IInv, CreatedAndJoined
    <3>5. st_state[joining] = "DEAD"
      BY <3>1, <3>2, <3>4 DEF IInv, TypeOK
    <3> QED
      BY <3>5 DEF AbortOnlyOnSecondJoin
  <2> QED
    BY Zenon, <2>1, <2>2, <2>3, <2>4, <2>5 DEF IInv
<1> QED
  BY <1>1, <1>2, <1>3

-----------------------------------------------------------------------------
(* schedule enters another sthread, from the master or from a handler.     *)
LEMMA ScheduleIInv ==
  ASSUME IInv, NEW t \in Id, NEW caller \in Id \cup {NULL}, schedule(t, caller),
         caller = NULL <=> kstack = <<>>,
         caller # NULL => caller = ks_current,
         caller # NULL => caller \in saved',
         saved \subseteq saved', saved' \subseteq Id,
         st_tf' \in [Id -> Fd \cup {NULL}],
         \A u \in Id : u # ks_current => st_tf'[u] = st_tf[u],
         ks_current # NULL => ks_current \in saved' /\ st_tf'[ks_current] \in Fd,
         UNCHANGED <<nst, st_state, st_ret, st_sc, st_pgroot, st_walk, jvars, iovars, given>>
  PROVE  IInv'
<1> USE SthreadAssumption DEF jvars, iovars, InRead
<1>0. /\ ks_current' = t /\ cr3' = t /\ cpu' = [mode |-> "read", id |-> t]
      /\ kstack' = Append(kstack, caller)
      /\ t \in 1 .. nst /\ st_state[t] = "RUNNING" /\ t # NULL
  BY DEF schedule, Enter, IsNext, Runnable
<1>1. TypeOK'
  <2>1. kstack' \in Seq(Id \cup {NULL})
    BY <1>0 DEF IInv, TypeOK
  <2> QED
    BY Zenon, <1>0, <2>1 DEF IInv, TypeOK
<1>2. ResumableFromOwnFrame'
  <2> SUFFICES ASSUME NEW u \in 1 .. nst, st_state[u] = "RUNNING", u # t
               PROVE  u \in saved' /\ st_tf'[u] \in Fd
    BY <1>0 DEF ResumableFromOwnFrame
  <2>1. u \in Id /\ u # NULL
    BY DEF IInv, TypeOK
  <2>2. CASE u = ks_current
    BY <2>1, <2>2
  <2>3. CASE u # ks_current
    BY <2>1, <2>3 DEF IInv, ResumableFromOwnFrame
  <2> QED
    BY <2>2, <2>3
<1>3. PolicyOfCreator'
  BY DEF IInv, PolicyOfCreator
<1>4. AbortOnlyOnSecondJoin' /\ OffOwnRootOnlyAfterRead' /\ CreatedAndJoined'
  BY <1>0 DEF IInv, AbortOnlyOnSecondJoin, OffOwnRootOnlyAfterRead, CreatedAndJoined
<1>5. ActivationsNest'
  <2>1. kstack \in Seq(Id \cup {NULL}) /\ Len(kstack) \in Nat
    BY DEF IInv, TypeOK
  <2>2. /\ Len(kstack') = Len(kstack) + 1
        /\ \A i \in 1 .. Len(kstack) : kstack'[i] = kstack[i]
        /\ kstack'[Len(kstack) + 1] = caller
    BY <1>0, <2>1
  <2>3. caller = NULL <=> Len(kstack) = 0
    BY <2>1
  <2>4. ASSUME NEW i \in 1 .. Len(kstack')
        PROVE  (kstack'[i] = NULL <=> i = 1) /\ (i > 1 => kstack'[i] \in saved')
    <3>1. CASE i = Len(kstack) + 1
      BY <2>1, <2>2, <2>3, <3>1
    <3>2. CASE i \in 1 .. Len(kstack)
      BY Zenon, <2>2, <3>2 DEF IInv, ActivationsNest
    <3> QED
      BY <2>1, <2>2, <3>1, <3>2
  <2> QED
    BY <1>0, <2>1, <2>2, <2>4 DEF ActivationsNest
<1>6. CurrentIsRunning'
  <2>1. ASSUME Len(kstack') > 1
        PROVE  /\ kstack'[Len(kstack')] # t
               /\ st_state[kstack'[Len(kstack')]] = "RUNNING"
    <3>1. kstack \in Seq(Id \cup {NULL}) /\ Len(kstack) \in Nat
      BY DEF IInv, TypeOK
    <3>2. Len(kstack') = Len(kstack) + 1 /\ kstack'[Len(kstack) + 1] = caller
      BY <1>0, <3>1
    <3>3. caller # NULL
      BY <2>1, <3>1, <3>2
    <3>4. caller = ks_current /\ st_state[caller] = "RUNNING"
      BY <3>3 DEF IInv, CurrentIsRunning
    <3>5. t # ks_current
      BY DEF schedule, IsNext, Runnable
    <3> QED
      BY <3>2, <3>4, <3>5
  <2>2. cpu'.mode = "read" /\ cpu'.id = t /\ t <= nst
    BY <1>0
  <2> QED
    BY <1>0, <2>1, <2>2 DEF CurrentIsRunning
<1> QED
  BY <1>1, <1>2, <1>3, <1>4, <1>5, <1>6 DEF IInv

(* dune_ret_from_user, after the trapped sthread saved a read or exited.   *)
LEMMA RetIInv ==
  ASSUME IInv, NEW s \in Id, Trap(s), dune_ret_from_user,
         saved \subseteq saved', saved' \subseteq Id,
         st_tf' \in [Id -> Fd \cup {NULL}],
         st_ret' \in [Id -> Val \cup {NULL}],
         st_walk' \subseteq Id,
         st_state' \in [Id -> {"NONE", "RUNNING", "ZOMBIE", "DEAD"}],
         \A u \in Id : u # s => st_tf'[u] = st_tf[u] /\ st_state'[u] = st_state[u],
         st_state'[s] # "NONE",
         st_state'[s] = "RUNNING" => s \in saved' /\ st_tf'[s] \in Fd,
         UNCHANGED <<nst, st_sc, st_pgroot, jvars, iovars, given>>
  PROVE  IInv'
<1> USE SthreadAssumption DEF jvars, iovars
<1> DEFINE caller == kstack[Len(kstack)]
<1>0. /\ ks_current' = NULL /\ cr3' = NULL
      /\ kstack' = SubSeq(kstack, 1, Len(kstack) - 1)
      /\ cpu' = IF caller = NULL THEN Master ELSE User(caller)
      /\ cpu.mode = "user" /\ ks_current = s /\ s # NULL
  BY DEF dune_ret_from_user, Trap, User
<1>a. kstack \in Seq(Id \cup {NULL}) /\ Len(kstack) \in Nat /\ Len(kstack) > 0
  BY <1>0 DEF IInv, TypeOK, ActivationsNest
<1>b. /\ kstack' \in Seq(Id \cup {NULL})
      /\ Len(kstack') = Len(kstack) - 1
      /\ \A i \in 1 .. Len(kstack) - 1 : kstack'[i] = kstack[i]
      /\ caller \in Id \cup {NULL}
      /\ Len(kstack) \in 1 .. Len(kstack)
  BY <1>0, <1>a, Pop
<1>c. caller = NULL <=> Len(kstack) = 1
  BY Zenon, <1>b DEF IInv, ActivationsNest
<1>d. caller # NULL => caller \in saved'
  BY <1>a, <1>c DEF IInv, ActivationsNest
<1>e. s <= nst /\ s \in 1 .. nst
  BY <1>0 DEF IInv, CurrentIsRunning, TypeOK
<1>f. caller # NULL => st_state'[caller] = "RUNNING"
  <2>1. caller # NULL => caller \in Id /\ caller # s /\ st_state[caller] = "RUNNING"
    BY <1>0, <1>a, <1>b, <1>c DEF IInv, CurrentIsRunning
  <2> QED
    BY <2>1
<1> HIDE DEF caller
<1>1. TypeOK'
  BY Zenon, <1>0, <1>b DEF IInv, TypeOK, Master, User
<1>2. ResumableFromOwnFrame'
  <2> SUFFICES ASSUME NEW u \in 1 .. nst, st_state'[u] = "RUNNING"
               PROVE  u \in saved' /\ st_tf'[u] \in Fd
    BY DEF ResumableFromOwnFrame
  <2>1. u \in Id
    BY DEF IInv, TypeOK
  <2>2. CASE u = s
    BY Zenon, <2>2
  <2>3. CASE u # s
    BY Zenon, <1>0, <2>1, <2>3 DEF IInv, ResumableFromOwnFrame
  <2> QED
    BY <2>2, <2>3
<1>3. PolicyOfCreator'
  BY DEF IInv, PolicyOfCreator
<1>4. AbortOnlyOnSecondJoin' /\ OffOwnRootOnlyAfterRead' /\ CurrentIsRunning'
  BY <1>0, <1>d, <1>f DEF Master, User, AbortOnlyOnSecondJoin, OffOwnRootOnlyAfterRead, CurrentIsRunning
<1>5. CreatedAndJoined'
  <2>1. ASSUME NEW u \in Id PROVE st_state'[u] = "NONE" <=> u > nst
    <3>1. CASE u = s
      BY <1>e, <3>1 DEF IInv, TypeOK
    <3>2. CASE u # s
      BY <3>2 DEF IInv, CreatedAndJoined
    <3> QED
      BY Zenon, <3>1, <3>2
  <2> QED
    BY <2>1 DEF IInv, CreatedAndJoined
<1>6. ActivationsNest'
  <2>1. CASE caller = NULL
    <3>1. Len(kstack') = 0 /\ kstack' = <<>> /\ cpu' = Master
      BY <1>0, <1>a, <1>b, <1>c, <2>1
    <3>2. 1 .. Len(kstack') = {} /\ cpu'.mode = "master"
      BY <3>1 DEF Master
    <3> QED
      BY Zenon, <1>0, <3>1, <3>2 DEF ActivationsNest
  <2>2. CASE caller # NULL
    <3>1. Len(kstack') > 0 /\ cpu'.mode = "user"
      BY <1>0, <1>a, <1>b, <1>c, <2>2 DEF User
    <3>2. ASSUME NEW i \in 1 .. Len(kstack')
          PROVE  (kstack'[i] = NULL <=> i = 1) /\ (i > 1 => kstack'[i] \in saved')
      <4>0. i \in 1 .. Len(kstack) - 1
        BY <1>b
      <4>1. i \in 1 .. Len(kstack) /\ kstack'[i] = kstack[i]
        BY <1>a, <1>b, <4>0
      <4> QED
        BY Zenon, <4>1 DEF IInv, ActivationsNest
    <3> QED
      BY Zenon, <1>0, <3>1, <3>2 DEF ActivationsNest
  <2> QED
    BY <2>1, <2>2
<1> QED
  BY <1>1, <1>2, <1>3, <1>4, <1>5, <1>6 DEF IInv

-----------------------------------------------------------------------------
(* The loop of sthread_join, when it runs somebody.                        *)
LEMMA JoinScheduleIInv == IInv /\ JoinSchedule => IInv'
<1> SUFFICES ASSUME IInv, JoinSchedule PROVE IInv'
  OBVIOUS
<1>1. PICK t \in Id : schedule(t, NULL)
  BY DEF JoinSchedule
<1>2. kstack = <<>> /\ ks_current = NULL
  BY DEF JoinSchedule, Master, IInv, ActivationsNest
<1>3. /\ UNCHANGED <<nst, st_state, st_ret, st_sc, st_pgroot, st_walk, jvars, iovars, given>>
      /\ saved' = saved /\ st_tf' = st_tf
  BY DEF JoinSchedule, svars, hvars
<1>4. saved' \subseteq Id /\ st_tf' \in [Id -> Fd \cup {NULL}]
  BY <1>3 DEF IInv, TypeOK
<1> QED
  BY Zenon, <1>1, <1>2, <1>3, <1>4, ScheduleIInv

(* A read: saved, then another sthread or the master.                      *)
LEMMA SysReadIInv ==
  ASSUME IInv, NEW s \in Id, NEW f \in Fd, SysRead(s, f)
  PROVE  IInv'
<1> USE SthreadAssumption
<1>1. /\ Trap(s) /\ ks_current = s /\ s # NULL /\ cpu.mode = "user"
      /\ st_tf' = [st_tf EXCEPT ![s] = f]
      /\ saved' = saved \cup {s}
      /\ UNCHANGED <<nst, st_state, st_ret, st_sc, st_pgroot, st_walk, jvars, iovars, given>>
  BY DEF SysRead, save_tf, Trap, User
<1>2. /\ saved \subseteq saved' /\ saved' \subseteq Id /\ s \in saved'
      /\ st_tf' \in [Id -> Fd \cup {NULL}]
      /\ st_tf'[s] = f
      /\ \A u \in Id : u # s => st_tf'[u] = st_tf[u]
  BY <1>1 DEF IInv, TypeOK
<1>3. kstack # <<>>
  BY <1>1 DEF IInv, ActivationsNest
<1>4. ASSUME NEW t \in Id, schedule(t, s) PROVE IInv'
  BY Zenon, <1>1, <1>2, <1>3, <1>4, ScheduleIInv
<1>5. ASSUME dune_ret_from_user PROVE IInv'
  <2>1. /\ st_ret' \in [Id -> Val \cup {NULL}] /\ st_walk' \subseteq Id
        /\ st_state' \in [Id -> {"NONE", "RUNNING", "ZOMBIE", "DEAD"}]
        /\ \A u \in Id : u # s => st_state'[u] = st_state[u]
    BY <1>1 DEF IInv, TypeOK
  <2>2. st_state'[s] # "NONE"
    BY <1>1 DEF IInv, CurrentIsRunning
  <2>3. UNCHANGED <<nst, st_sc, st_pgroot, jvars, iovars, given>>
    BY Zenon, <1>1
  <2> QED
    BY Zenon, <1>1, <1>2, <1>5, <2>1, <2>2, <2>3, RetIInv
<1> QED
  BY <1>4, <1>5 DEF SysRead, save_tf

(* The exit call.                                                          *)
LEMMA SysExitIInv ==
  ASSUME IInv, NEW s \in Id, NEW v \in Val, SysExit(s, v)
  PROVE  IInv'
<1>1. /\ Trap(s) /\ dune_ret_from_user
      /\ st_ret' = [st_ret EXCEPT ![s] = v]
      /\ st_walk' = st_walk \cup {s}
      /\ st_state' = [st_state EXCEPT ![s] = "ZOMBIE"]
      /\ st_tf' = st_tf /\ saved' = saved
      /\ UNCHANGED <<nst, st_sc, st_pgroot, jvars, iovars, given>>
  BY Zenon DEF SysExit, hvars
<1>2. /\ saved \subseteq saved' /\ saved' \subseteq Id
      /\ st_tf' \in [Id -> Fd \cup {NULL}]
      /\ st_ret' \in [Id -> Val \cup {NULL}]
      /\ st_walk' \subseteq Id
  BY Zenon, <1>1 DEF IInv, TypeOK
<1>3. /\ st_state' \in [Id -> {"NONE", "RUNNING", "ZOMBIE", "DEAD"}]
      /\ st_state'[s] = "ZOMBIE"
      /\ \A u \in Id : u # s => st_tf'[u] = st_tf[u] /\ st_state'[u] = st_state[u]
  BY <1>1 DEF IInv, TypeOK
<1> QED
  BY <1>1, <1>2, <1>3, RetIInv

(* The saved read of the scheduled sthread returns.                        *)
LEMMA ReadReturnsIInv == IInv /\ ReadReturns => IInv'
<1> SUFFICES ASSUME IInv, ReadReturns PROVE IInv'
  OBVIOUS
<1> USE SthreadAssumption DEF svars, jvars, hvars, User
<1>1. /\ cpu.mode = "read" /\ cpu' = [mode |-> "user", id |-> cpu.id]
      /\ UNCHANGED <<nst, st_state, st_ret, st_sc, st_pgroot, st_tf, st_walk,
                     ks_current, cr3, kstack, joining, joined, fdt, given, saved>>
  BY Zenon DEF ReadReturns
<1>2. cpu.id = ks_current /\ cr3 = ks_current /\ cpu.id \in Id \cup {NULL}
  BY <1>1 DEF IInv, CurrentIsRunning, ActivationsNest, TypeOK
<1>3. avail' \in [Fd -> 0 .. PipeCap]
  <2> DEFINE f == st_tf[cpu.id]
  <2>1. /\ fdt[f] = "chan" => avail[f] > 0
        /\ avail' = [avail EXCEPT ![f] = IF fdt[f] = "chan" THEN avail[f] - 1 ELSE avail[f]]
    BY Zenon DEF ReadReturns
  <2> HIDE DEF f
  <2>2. avail \in [Fd -> 0 .. PipeCap]
    BY DEF IInv, TypeOK
  <2>3. CASE f \in Fd
    <3>1. avail[f] \in 0 .. PipeCap
      BY <2>2, <2>3
    <3>2. (IF fdt[f] = "chan" THEN avail[f] - 1 ELSE avail[f]) \in 0 .. PipeCap
      BY <2>1, <3>1
    <3> QED
      BY Zenon, <2>1, <2>2, <3>2
  <2>4. CASE f \notin Fd
    BY Zenon, <2>1, <2>2, <2>4
  <2> QED
    BY Zenon, <2>3, <2>4
<1>4. TypeOK'
  BY <1>1, <1>2, <1>3 DEF IInv, TypeOK
<1>5. ResumableFromOwnFrame' /\ PolicyOfCreator' /\ CreatedAndJoined'
  BY Zenon, <1>1 DEF IInv, ResumableFromOwnFrame, PolicyOfCreator, CreatedAndJoined
<1>6. AbortOnlyOnSecondJoin' /\ OffOwnRootOnlyAfterRead'
  BY <1>1, <1>2 DEF IInv, AbortOnlyOnSecondJoin, OffOwnRootOnlyAfterRead
<1>8. CurrentIsRunning'
  <2>1. ks_current # NULL /\ cpu'.mode = "user" /\ cpu'.id = ks_current
    BY Zenon, <1>1, <1>2 DEF IInv, CurrentIsRunning
  <2> QED
    BY Zenon, <1>1, <2>1 DEF IInv, CurrentIsRunning
<1>7. ActivationsNest'
  BY <1>1 DEF IInv, ActivationsNest
<1> QED
  BY Zenon, <1>4, <1>5, <1>6, <1>7, <1>8 DEF IInv

(* A buffer check that fails.                                              *)
LEMMA MemDeniedIInv ==
  ASSUME IInv, NEW s \in Id, MemDenied(s)
  PROVE  IInv'
<1> USE DEF MemDenied, kvars, jvars, iovars, hvars
<1>1. TypeOK'
  BY Zenon DEF IInv, TypeOK
<1>2. ResumableFromOwnFrame' /\ PolicyOfCreator' /\ CreatedAndJoined'
  BY Zenon DEF IInv, ResumableFromOwnFrame, PolicyOfCreator, CreatedAndJoined
<1>3. AbortOnlyOnSecondJoin' /\ OffOwnRootOnlyAfterRead' /\ CurrentIsRunning'
  BY DEF IInv, AbortOnlyOnSecondJoin, OffOwnRootOnlyAfterRead, CurrentIsRunning
<1>4. ActivationsNest'
  BY DEF IInv, ActivationsNest
<1> QED
  BY Zenon, <1>1, <1>2, <1>3, <1>4 DEF IInv

(* Writes, by an sthread, the master or a peer, and close.                 *)
LEMMA ChannelStepIInv ==
  ASSUME IInv, NEW f \in Fd
  PROVE  /\ \A s \in Id : SysWrite(s, f) => IInv'
         /\ \A s \in Id : SysClose(s, f) => IInv'
         /\ MasterWrite(f) => IInv'
         /\ PeerWrite(f) => IInv'
<1> USE SthreadAssumption
<1>0. fdt \in [Fd -> {"closed", "chan", "file"}] /\ avail \in [Fd -> 0 .. PipeCap]
  BY DEF IInv, TypeOK
<1>1. ASSUME avail[f] < PipeCap, avail' = [avail EXCEPT ![f] = @ + 1], fdt' = fdt,
             UNCHANGED <<svars, kvars, jvars, hvars>>
      PROVE  IInv'
  <2>1. avail' \in [Fd -> 0 .. PipeCap]
    BY <1>0, <1>1
  <2> QED
    BY <1>0, <1>1, <2>1, ChannelIInv
<1>2. ASSUME NEW s \in Id, SysWrite(s, f) PROVE IInv'
  BY <1>1, <1>2 DEF SysWrite, PutInChannel
<1>3. ASSUME NEW s \in Id, SysClose(s, f) PROVE IInv'
  <2>1. /\ fdt' \in [Fd -> {"closed", "chan", "file"}]
        /\ avail' \in [Fd -> 0 .. PipeCap]
    BY <1>0, <1>3 DEF SysClose
  <2>2. UNCHANGED <<svars, kvars, jvars, hvars>>
    BY <1>3 DEF SysClose
  <2> QED
    BY <2>1, <2>2, ChannelIInv
<1>4. ASSUME MasterWrite(f) PROVE IInv'
  BY <1>1, <1>4 DEF MasterWrite, PutInChannel
<1>5. ASSUME PeerWrite(f) PROVE IInv'
  BY <1>1, <1>5 DEF PeerWrite
<1> QED
  BY Zenon, <1>2, <1>3, <1>4, <1>5

(* open: a descriptor is added to the context, or the process exits.       *)
LEMMA SysOpenIInv ==
  ASSUME IInv, NEW s \in Id, NEW f \in Fd, SysOpen(s, f)
  PROVE  IInv'
<1> USE SthreadAssumption DEF kvars, jvars, hvars
<1>1. /\ fdt' = [fdt EXCEPT ![f] = "file"]
      /\ UNCHANGED <<nst, st_state, st_ret, st_pgroot, st_tf, st_walk,
                     ks_current, cr3, kstack, joining, joined, avail, given, saved>>
  BY Zenon DEF SysOpen
<1>2. fdt' \in [Fd -> {"closed", "chan", "file"}]
  BY Zenon, <1>1 DEF IInv, TypeOK
<1>3. \/ cpu' = cpu /\ st_sc' = [st_sc EXCEPT ![s] = sc_fd_add(st_sc[s], f, Prot)]
      \/ cpu' = Stopped("exit") /\ st_sc' = st_sc
  BY Zenon DEF SysOpen
<1>f. st_sc' = st_sc \/ Len(st_sc[s].fd) < SC_FD_LEN
  <2>1. Len(st_sc[s].fd) \in Nat
    BY DEF IInv, TypeOK, Sc
  <2> QED
    BY <2>1, ScAssumption DEF SysOpen, sc_fd_full
<1>4. st_sc' \in [Id -> Sc] /\ \A t \in Id :
        /\ st_sc'[t].mem = st_sc[t].mem
        /\ st_sc'[t].sys = st_sc[t].sys
        /\ Len(st_sc[t].fd) <= Len(st_sc'[t].fd)
        /\ Len(st_sc[t].fd) <= SC_FD_LEN => Len(st_sc'[t].fd) <= SC_FD_LEN
        /\ \A i \in 1 .. Len(st_sc[t].fd) : st_sc'[t].fd[i] = st_sc[t].fd[i]
  <2>1. st_sc \in [Id -> Sc]
    BY DEF IInv, TypeOK
  <2>2. \A t \in Id : Len(st_sc[t].fd) \in Nat
    BY <2>1 DEF Sc
  <2>3. CASE st_sc' = st_sc
    BY <2>1, <2>2, <2>3
  <2>4. CASE st_sc' = [st_sc EXCEPT ![s] = sc_fd_add(st_sc[s], f, Prot)]
    <3> DEFINE c == st_sc[s]
               e == [fd |-> f, prot |-> Prot]
               d == sc_fd_add(c, f, Prot)
    <3>1. c \in Sc /\ c.fd \in Seq(FdEntry) /\ e \in FdEntry
      BY Zenon, <2>1 DEF Sc, FdEntry
    <3>2. /\ Append(c.fd, e) \in Seq(FdEntry)
          /\ Len(Append(c.fd, e)) = Len(c.fd) + 1
          /\ \A i \in 1 .. Len(c.fd) : Append(c.fd, e)[i] = c.fd[i]
      BY <3>1
    <3>3. d = [c EXCEPT !.fd = Append(c.fd, e)]
      BY DEF sc_fd_add
    <3> HIDE DEF c, e, d
    <3>4. /\ d \in Sc /\ d.mem = c.mem /\ d.sys = c.sys
          /\ d.fd = Append(c.fd, e)
      BY Zenon, <3>1, <3>2, <3>3 DEF Sc
    <3>5. st_sc'[s] = d /\ \A t \in Id : t # s => st_sc'[t] = st_sc[t]
      BY <2>1, <2>4 DEF d, c
    <3>6. st_sc' \in [Id -> Sc]
      BY ZenonT(30), <2>1, <2>4, <3>4 DEF d, c
    <3>7. ASSUME NEW t \in Id
          PROVE  /\ st_sc'[t].mem = st_sc[t].mem
                 /\ st_sc'[t].sys = st_sc[t].sys
                 /\ Len(st_sc[t].fd) <= Len(st_sc'[t].fd)
                 /\ Len(st_sc[t].fd) <= SC_FD_LEN => Len(st_sc'[t].fd) <= SC_FD_LEN
                 /\ \A i \in 1 .. Len(st_sc[t].fd) : st_sc'[t].fd[i] = st_sc[t].fd[i]
      <4>1. CASE t # s
        BY <2>2, <3>5, <4>1
      <4>2. CASE t = s
        <5>1. st_sc[t] = c /\ st_sc'[t] = d /\ Len(c.fd) \in Nat
          BY <2>2, <3>5, <4>2 DEF c
        <5>2. Len(d.fd) = Len(c.fd) + 1 /\ d # c
          BY <3>2, <3>4, <5>1
        <5>3. Len(c.fd) < SC_FD_LEN
          BY <1>f, <3>5, <5>2 DEF c
        <5>4. Len(d.fd) <= SC_FD_LEN
          BY <5>1, <5>2, <5>3, ScAssumption
        <5>5. Len(c.fd) <= Len(d.fd)
          BY <5>1, <5>2
        <5>6. \A i \in 1 .. Len(c.fd) : d.fd[i] = c.fd[i]
          BY ZenonT(30), <3>2, <3>4
        <5> QED
          BY Zenon, <3>4, <5>1, <5>4, <5>5, <5>6
      <4> QED
        BY <4>1, <4>2
    <3> QED
      BY Zenon, <3>6, <3>7
  <2> QED
    BY Zenon, <1>3, <2>3, <2>4
<1>5. TypeOK'
  BY <1>1, <1>2, <1>3, <1>4 DEF IInv, TypeOK, Stopped
<1>6. ResumableFromOwnFrame' /\ CreatedAndJoined'
  BY Zenon, <1>1 DEF IInv, ResumableFromOwnFrame, CreatedAndJoined
<1>7. PolicyOfCreator'
  <2> SUFFICES ASSUME NEW t \in 1 .. nst
               PROVE  /\ st_pgroot[t] = given[t].mem
                      /\ st_sc'[t].mem = given[t].mem
                      /\ st_sc'[t].sys = given[t].sys
                      /\ Len(given[t].fd) <= Len(st_sc'[t].fd)
                      /\ Len(st_sc'[t].fd) <= SC_FD_LEN
                      /\ \A i \in 1 .. Len(given[t].fd) : st_sc'[t].fd[i] = given[t].fd[i]
    BY ZenonT(30), <1>1 DEF PolicyOfCreator
  <2>1. t \in Id
    BY DEF IInv, TypeOK
  <2>2. /\ st_pgroot[t] = given[t].mem
        /\ st_sc[t].mem = given[t].mem
        /\ st_sc[t].sys = given[t].sys
        /\ Len(given[t].fd) <= Len(st_sc[t].fd) /\ Len(st_sc[t].fd) <= SC_FD_LEN
        /\ \A i \in 1 .. Len(given[t].fd) : st_sc[t].fd[i] = given[t].fd[i]
    BY Zenon DEF IInv, PolicyOfCreator
  <2>3. /\ Len(given[t].fd) \in Nat /\ Len(st_sc[t].fd) \in Nat /\ Len(st_sc'[t].fd) \in Nat
    <3>1. given[t] \in Sc /\ st_sc[t] \in Sc
      BY Zenon, <2>1 DEF IInv, TypeOK
    <3>2. st_sc'[t] \in Sc
      BY Zenon, <1>4, <2>1
    <3> QED
      BY <3>1, <3>2 DEF Sc
  <2>4. /\ st_sc'[t].mem = st_sc[t].mem
        /\ st_sc'[t].sys = st_sc[t].sys
        /\ Len(st_sc[t].fd) <= Len(st_sc'[t].fd) /\ Len(st_sc'[t].fd) <= SC_FD_LEN
        /\ \A i \in 1 .. Len(st_sc[t].fd) : st_sc'[t].fd[i] = st_sc[t].fd[i]
    BY Zenon, <1>4, <2>1, <2>2
  <2>5. 1 .. Len(given[t].fd) \subseteq 1 .. Len(st_sc[t].fd)
    BY <2>2, <2>3
  <2>6. Len(given[t].fd) <= Len(st_sc'[t].fd)
    <3> DEFINE a == Len(given[t].fd)
               b == Len(st_sc[t].fd)
               c == Len(st_sc'[t].fd)
    <3>1. a \in Nat /\ b \in Nat /\ c \in Nat
      BY Zenon, <2>3
    <3>2. a <= b /\ b <= c
      BY <2>2, <2>4
    <3> HIDE DEF a, b, c
    <3>3. a <= c
      BY <3>1, <3>2
    <3> QED
      BY <3>3 DEF a, c
  <2>7. \A i \in 1 .. Len(given[t].fd) : st_sc'[t].fd[i] = given[t].fd[i]
    BY Zenon, <2>2, <2>4, <2>5
  <2> QED
    BY Zenon, <2>2, <2>4, <2>6, <2>7
<1>8. AbortOnlyOnSecondJoin' /\ OffOwnRootOnlyAfterRead' /\ CurrentIsRunning'
  BY <1>1, <1>3 DEF IInv, AbortOnlyOnSecondJoin, OffOwnRootOnlyAfterRead, CurrentIsRunning, Stopped
<1>9. ActivationsNest'
  BY <1>1, <1>3 DEF IInv, ActivationsNest, Stopped
<1> QED
  BY Zenon, <1>5, <1>6, <1>7, <1>8, <1>9 DEF IInv

-----------------------------------------------------------------------------
(* Every step of the library, of an sthread or of a peer keeps the         *)
(* invariant.                                                              *)
LEMMA NextIInv == IInv /\ [Next]_vars => IInv'
<1> SUFFICES ASSUME IInv, [Next]_vars PROVE IInv'
  OBVIOUS
<1>1. ASSUME ControlStep PROVE IInv'
  <2>1. ASSUME NEW p \in Policies, CreateRecycled(p) \/ CreateNoMemory(p) PROVE IInv'
    BY <2>1, CreateIInv
  <2>2. ASSUME NEW s \in Id, Join(s) PROVE IInv'
    BY <2>2, JoinIInv
  <2>3. ASSUME JoinReap \/ JoinSchedule \/ JoinAbort PROVE IInv'
    BY <2>3, JoinIInv, JoinScheduleIInv
  <2>4. ASSUME NEW s \in Id, MemAssert(s) PROVE IInv'
    BY <2>4, StopIInv DEF MemAssert, iovars
  <2>5. ASSUME NEW s \in Id, MemDenied(s) PROVE IInv'
    BY <2>5, MemDeniedIInv
  <2>6. ASSUME NEW s \in Id, NEW f \in Fd,
               SysRead(s, f) \/ SysWrite(s, f) \/ SysOpen(s, f) \/ SysClose(s, f)
        PROVE  IInv'
    BY <2>6, SysReadIInv, ChannelStepIInv, SysOpenIInv
  <2>7. ASSUME NEW s \in Id, SysOutOfRange(s, 8 * (SC_SYS_LEN + 1)) PROVE IInv'
    BY <2>7, StopIInv DEF SysOutOfRange, iovars
  <2>8. ASSUME TrapNoCurrent PROVE IInv'
    BY <2>8, StopIInv DEF TrapNoCurrent, iovars
  <2>9. ASSUME NEW f \in Fd, MasterWrite(f) \/ PeerWrite(f) PROVE IInv'
    BY <2>9, ChannelStepIInv
  <2> QED
    BY <1>1, <2>1, <2>2, <2>3, <2>4, <2>5, <2>6, <2>7, <2>8, <2>9 DEF ControlStep
<1>2. ASSUME NEW p \in Policies, CreateNew(p) PROVE IInv'
  BY <1>2, CreateIInv
<1>3. ASSUME NEW s \in Id, NEW v \in Val, SysExit(s, v) PROVE IInv'
  BY <1>3, SysExitIInv
<1>4. ASSUME ReadReturns PROVE IInv'
  BY Zenon, <1>4, ReadReturnsIInv
<1>5. ASSUME UNCHANGED vars PROVE IInv'
  BY Zenon, <1>5, ChannelIInv DEF vars, iovars, IInv, TypeOK
<1> QED
  BY <1>1, <1>2, <1>3, <1>4, <1>5 DEF Next

(* The inductive invariant holds in every reachable state.                 *)
THEOREM Invariance == Spec => []IInv
<1>1. Init => IInv
  BY InitIInv
<1>2. IInv /\ [Next]_vars => IInv'
  BY NextIInv
<1> QED
  BY <1>1, <1>2, PTL DEF Spec

(* Every variable of the library stays in its type.                        *)
THEOREM TypeCorrect == Spec => []TypeOK
<1>1. IInv => TypeOK
  BY DEF IInv
<1> QED
  BY <1>1, Invariance, PTL

(* schedule resumes an sthread only from a read that the sthread saved     *)
(* since its last launch (sthread.c:208-224, 372-376).                     *)
THEOREM ResumesOwnFrame == Spec => []ResumableFromOwnFrame
<1>1. IInv => ResumableFromOwnFrame
  BY DEF IInv
<1> QED
  BY <1>1, Invariance, PTL

(* Only a second join of the same sthread reaches the abort() of schedule  *)
(* (sthread.c:239).                                                        *)
THEOREM AbortsOnlyOnSecondJoin == Spec => []AbortOnlyOnSecondJoin
<1>1. IInv => AbortOnlyOnSecondJoin
  BY DEF IInv
<1> QED
  BY <1>1, Invariance, PTL

(* A recycled sthread runs under the context of its new creator            *)
(* (sthread.c:668-676).                                                    *)
THEOREM RunsUnderCreatorsPolicy == Spec => []PolicyOfCreator
<1>1. IInv => PolicyOfCreator
  BY DEF IInv
<1> QED
  BY <1>1, Invariance, PTL

(* Ring 3 code is off its own page table only after a read during which    *)
(* another sthread was entered (sthread.c:221-227).                        *)
THEOREM LeavesRootOnlyAfterRead == Spec => []OffOwnRootOnlyAfterRead
<1>1. IInv => OffOwnRootOnlyAfterRead
  BY DEF IInv
<1> QED
  BY <1>1, Invariance, PTL

-----------------------------------------------------------------------------
(* What one step does to the state that SthreadApi sees: nothing, or       *)
(* exactly one creation, return or join.                                   *)
LEMMA ApiStep ==
  ASSUME IInv, Next
  PROVE  Api!Next \/ UNCHANGED <<Life, given, Value, joined>>
<1> USE SthreadAssumption
<1>0. /\ st_state \in [Id -> {"NONE", "RUNNING", "ZOMBIE", "DEAD"}]
      /\ st_ret \in [Id -> Val \cup {NULL}] /\ given \in [Id -> Policies]
      /\ nst \in 0 .. MaxId
  BY DEF IInv, TypeOK
<1>1. ASSUME UNCHANGED <<st_state, st_ret, given, joined>>
      PROVE  UNCHANGED <<Life, given, Value, joined>>
  BY <1>1 DEF Life, Value
<1>2. ASSUME NEW s \in Id, NEW p \in Policies, st_state[s] \in {"NONE", "DEAD"},
             launch_sthread(s), given' = [given EXCEPT ![s] = p],
             UNCHANGED <<st_ret, joined>>
      PROVE  Api!Next
  <2>1. st_state' = [st_state EXCEPT ![s] = "RUNNING"]
    BY <1>2 DEF launch_sthread
  <2>2. Life[s] = "free"
    BY <1>2 DEF Life
  <2>3. Life' = [Life EXCEPT ![s] = "running"]
    BY Zenon, <1>0, <2>1 DEF Life
  <2>4. Value' = [Value EXCEPT ![s] = NULL]
    BY Zenon, <1>0, <1>2, <2>1 DEF Value
  <2>5. Api!Create(s, p)
    BY <1>2, <2>2, <2>3, <2>4 DEF Api!Create
  <2> QED
    BY <2>5 DEF Api!Next
<1>3. ASSUME NEW p \in Policies, CreateRecycled(p) PROVE Api!Next
  <2>1. PICK s \in Recyclable(p) : given' = [given EXCEPT ![s] = p] /\ launch_sthread(s)
    BY Zenon, <1>3 DEF CreateRecycled
  <2>2. s \in Id /\ st_state[s] \in {"NONE", "DEAD"}
    BY <1>0 DEF Recyclable
  <2> QED
    BY Zenon, <1>2, <1>3, <2>1, <2>2 DEF CreateRecycled, jvars
<1>4. ASSUME NEW p \in Policies, CreateNew(p) PROVE Api!Next
  <2>1. /\ nst < MaxId /\ nst' = nst + 1 /\ launch_sthread(nst')
        /\ given' = [given EXCEPT ![nst'] = p] /\ UNCHANGED <<st_ret, joined>>
    BY <1>4 DEF CreateNew, kmalloc_fits, jvars
  <2>2. nst' \in Id /\ nst' > nst
    BY <1>0, <2>1
  <2>3. st_state[nst'] = "NONE"
    BY <2>2 DEF IInv, CreatedAndJoined
  <2> QED
    BY Zenon, <1>2, <2>1, <2>2, <2>3
<1>5. ASSUME JoinReap PROVE Api!Next
  <2>1. /\ joining \in Id /\ st_state[joining] = "ZOMBIE" /\ joined' = st_ret[joining]
        /\ st_state' = [st_state EXCEPT ![joining] = "DEAD"]
        /\ UNCHANGED <<st_ret, given>>
    BY <1>5 DEF JoinReap, hvars, IInv, TypeOK
  <2>2. Life[joining] = "returned" /\ Value[joining] = st_ret[joining]
    BY <2>1 DEF Life, Value
  <2>3. Life' = [Life EXCEPT ![joining] = "free"]
    BY Zenon, <1>0, <2>1 DEF Life
  <2>4. Value' = Value
    BY ZenonT(30), <1>0, <2>1 DEF Value
  <2>5. Api!Join(joining)
    BY <2>1, <2>2, <2>3, <2>4 DEF Api!Join
  <2> QED
    BY Zenon, <2>1, <2>5 DEF Api!Next
<1>6. ASSUME NEW s \in Id, NEW v \in Val, SysExit(s, v) PROVE Api!Next
  <2>1. /\ st_ret' = [st_ret EXCEPT ![s] = v]
        /\ st_state' = [st_state EXCEPT ![s] = "ZOMBIE"]
        /\ UNCHANGED <<given, joined>>
    BY <1>6 DEF SysExit, hvars, jvars
  <2>2. st_state[s] = "RUNNING"
    BY <1>6 DEF SysExit, Trap, IInv, CurrentIsRunning
  <2>3. Life[s] = "running" /\ Life' = [Life EXCEPT ![s] = "returned"]
    BY Zenon, <1>0, <2>1, <2>2 DEF Life
  <2>4. Value' = [Value EXCEPT ![s] = v]
    BY Zenon, <1>0, <2>1, <2>2 DEF Value
  <2>5. Api!Return(s, v)
    BY ZenonT(30), <2>1, <2>3, <2>4 DEF Api!Return
  <2> QED
    BY <2>5 DEF Api!Next
<1>7. ASSUME ReadReturns PROVE UNCHANGED <<st_state, st_ret, given, joined>>
  BY <1>7 DEF ReadReturns, svars, jvars, hvars
<1>8. ASSUME ControlStep
      PROVE  \/ \E p \in Policies : CreateRecycled(p)
             \/ JoinReap
             \/ UNCHANGED <<st_state, st_ret, given, joined>>
  <2> USE DEF svars, jvars, hvars
  <2>1. ASSUME NEW p \in Policies, CreateNoMemory(p) PROVE UNCHANGED <<st_state, st_ret, given, joined>>
    BY Zenon, <2>1 DEF CreateNoMemory
  <2>2. ASSUME NEW s \in Id, Join(s) PROVE UNCHANGED <<st_state, st_ret, given, joined>>
    BY Zenon, <2>2 DEF Join
  <2>3. ASSUME JoinSchedule \/ JoinAbort PROVE UNCHANGED <<st_state, st_ret, given, joined>>
    BY Zenon, <2>3 DEF JoinSchedule, JoinAbort
  <2>4. ASSUME NEW s \in Id, MemAssert(s) \/ MemDenied(s)
        PROVE  UNCHANGED <<st_state, st_ret, given, joined>>
    BY Zenon, <2>4 DEF MemAssert, MemDenied
  <2>5. ASSUME NEW s \in Id, NEW f \in Fd,
               SysRead(s, f) \/ SysWrite(s, f) \/ SysOpen(s, f) \/ SysClose(s, f)
        PROVE  UNCHANGED <<st_state, st_ret, given, joined>>
    BY Zenon, <2>5 DEF SysRead, save_tf, SysWrite, SysOpen, SysClose
  <2>6. ASSUME NEW s \in Id, SysOutOfRange(s, 8 * (SC_SYS_LEN + 1))
        PROVE  UNCHANGED <<st_state, st_ret, given, joined>>
    BY Zenon, <2>6 DEF SysOutOfRange
  <2>7. ASSUME TrapNoCurrent PROVE UNCHANGED <<st_state, st_ret, given, joined>>
    BY Zenon, <2>7 DEF TrapNoCurrent
  <2>8. ASSUME NEW f \in Fd, MasterWrite(f) \/ PeerWrite(f)
        PROVE  UNCHANGED <<st_state, st_ret, given, joined>>
    BY <2>8 DEF MasterWrite, PeerWrite
  <2> QED
    BY Zenon, <1>8, <2>1, <2>2, <2>3, <2>4, <2>5, <2>6, <2>7, <2>8 DEF ControlStep
<1> QED
  BY Zenon, <1>1, <1>3, <1>4, <1>5, <1>6, <1>7, <1>8 DEF Next

(* The library implements SthreadApi: one value per creation, handed out   *)
(* by one join, whatever the interleaving (sthread.c:351-357, 663-713).    *)
THEOREM Implementation == Spec => ImplementsApi
<1>1. Init => Api!Init
  <2> SUFFICES ASSUME Init PROVE Api!Init
    OBVIOUS
  <2>1. given \in [Id -> Policies]
    BY InitIInv DEF IInv, TypeOK
  <2>2. Life = [s \in Id |-> "free"] /\ Value = [s \in Id |-> NULL]
    BY DEF Init, Life, Value
  <2> QED
    BY Zenon, <2>1, <2>2 DEF Init, Api!Init
<1>2. IInv /\ [Next]_vars => [Api!Next]_<<Life, given, Value, joined>>
  <2>1. ASSUME UNCHANGED vars PROVE UNCHANGED <<Life, given, Value, joined>>
    BY <2>1 DEF vars, svars, jvars, hvars, Life, Value
  <2> QED
    BY <2>1, ApiStep
<1> QED
  BY <1>1, <1>2, Invariance, PTL DEF Spec, ImplementsApi, Api!Spec, Api!apivars

(* The pending activations nest, and the loaded root is that of ks_current *)
(* (sthread.c:199-241, 526-536).                                           *)
THEOREM ActivationsStayNested == Spec => []ActivationsNest
<1>1. IInv => ActivationsNest
  BY DEF IInv
<1> QED
  BY <1>1, Invariance, PTL

(* Only a running sthread has the CPU, and no zombie or dead one is ever   *)
(* resumed from a pending handler (sthread.c:208-227).                     *)
THEOREM OnlyRunningRuns == Spec => []CurrentIsRunning
<1>1. IInv => CurrentIsRunning
  BY DEF IInv
<1> QED
  BY <1>1, Invariance, PTL
=============================================================================
