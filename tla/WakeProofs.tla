----------------------------- MODULE WakeProofs -----------------------------
(***************************************************************************)
(* Proofs about the two places where one thread waits until another wakes  *)
(* it.                                                                     *)
(*                                                                         *)
(* ThreadCreate: clone returns the tid of the thread it made, for any      *)
(* number of calls at any addresses, until the first wait that is ended by *)
(* something else than the signal of its own child.                        *)
(*                                                                         *)
(* Ipi: the safety properties, for every number of iterations.  The        *)
(* inductive invariant says, for each place of the sender, where the       *)
(* interrupt of the current iteration is: not sent yet, pending, in the    *)
(* handler, or handled.                                                    *)
(***************************************************************************)
EXTENDS ThreadCreate, Ipi, TLAPS

(* What holds whatever wakes the caller.                                   *)
Basic ==
    /\ ThreadTypeOK
    /\ parent # "user" => n > 0
    /\ \A r \in ret : r[1] <= n

(* What holds of child c until the first foreign wake-up.                  *)
ChildInv(c) ==
    /\ c > n => child[c] = "none" /\ c \notin flags
    /\ child[c] \in {"entry", "tell"} => Live(c)
    /\ child[c] \in {"tell", "signal", "user"} /\ c \in flags => c \in settid
    /\ Live(c) => /\ child[c] # "none"
                  /\ ta_tid[slot[c]] = IF child[c] \in {"signal", "user"} THEN c ELSE 0
                  /\ parent = "leave" => child[c] \in {"signal", "user"}

Calm ==
    /\ ReturnsOwnTid
    /\ \A u \in late : u[2] = "signal"
    /\ \A c \in Child : ChildInv(c)

(* TInv is the two together.                                               *)
LEMMA TInvParts == /\ TInv <=> Basic /\ (~foreign => Calm)
                   /\ TInv' <=> Basic' /\ (~foreign' => Calm')
  BY DEF TInv, OwnTidUnlessForeignWake, LateInSignalOnly, Basic, Calm, ChildInv

-----------------------------------------------------------------------------
(* A clone call starts: only its own child is new.                         *)
LEMMA CreateInv ==
  ASSUME Basic, NEW f \in BOOLEAN, dune_pthread_create(f)
  PROVE  Basic' /\ foreign' = foreign /\ (Calm => Calm')
<1> USE ThreadAssumption DEF Child
<1>1. /\ parent = "user" /\ n \in Nat /\ n < MaxThreads /\ n' = n + 1
      /\ n' \in Child /\ slot[n'] \in Slots
      /\ ta_tid' = [ta_tid EXCEPT ![slot[n']] = 0]
      /\ flags' \subseteq flags \cup {n'} /\ flags \subseteq flags'
      /\ \/ child' = [child EXCEPT ![n'] = "entry"] /\ parent' = "lock"
         \/ child' = child /\ parent' = parent
      /\ settid' = settid /\ ret' = ret /\ late' = late /\ foreign' = foreign
  BY DEF dune_pthread_create, Basic, ThreadTypeOK
<1>2. ThreadTypeOK'
  <2>1. n' \in 0 .. MaxThreads /\ parent' \in {"user", "lock", "wait", "leave"}
    BY <1>1 DEF Basic, ThreadTypeOK
  <2>2. child' \in [Child -> {"none", "entry", "tell", "signal", "user"}]
    BY <1>1 DEF Basic, ThreadTypeOK
  <2>3. ta_tid' \in [Slots -> Child \cup {0}] /\ flags' \subseteq Child
    BY <1>1 DEF Basic, ThreadTypeOK
  <2>4. foreign' \in BOOLEAN
    BY <1>1, Zenon DEF Basic, ThreadTypeOK
  <2> QED
    BY <1>1, <2>1, <2>2, <2>3, <2>4, Zenon DEF Basic, ThreadTypeOK
<1>3. \A r \in ret : r[1] \in Child /\ r[1] <= n
  BY DEF Basic, ThreadTypeOK
<1>4. \A r \in ret' : r[1] \in Child /\ r[1] <= n' /\ r[1] # n'
  BY <1>1, <1>3
<1>5. ASSUME Calm PROVE ReturnsOwnTid' /\ \A u \in late' : u[2] = "signal"
  BY <1>1, <1>4, <1>5 DEF Calm, ReturnsOwnTid
<1>6. ASSUME Calm, NEW c \in Child PROVE ChildInv(c)'
  <2>1. ChildInv(c)
    BY <1>6 DEF Calm
  <2>2. CASE c = n'
    <3>1. c > n /\ child[c] = "none"
      BY <1>1, <2>1, <2>2 DEF ChildInv
    <3>2. ta_tid'[slot[c]] = 0
      BY <1>1, <2>2 DEF Basic, ThreadTypeOK
    <3>3. \/ child'[c] = "entry" /\ parent' = "lock"
          \/ child'[c] = "none" /\ parent' = "user"
      BY <1>1, <2>2, <3>1 DEF Basic, ThreadTypeOK
    <3> QED
      BY <1>1, <2>2, <3>2, <3>3 DEF ChildInv, Live
  <2>3. CASE c # n'
    <3>1. child'[c] = child[c] /\ (c \in flags' <=> c \in flags) /\ (c > n' => c > n)
      BY <1>1, <2>3 DEF Basic, ThreadTypeOK
    <3> QED
      BY <1>1, <2>1, <2>3, <3>1 DEF ChildInv, Live
  <2> QED
    BY <2>2, <2>3
<1>7. parent' # "user" => n' > 0
  BY <1>1
<1>8. Calm => Calm'
  BY <1>5, <1>6 DEF Calm
<1> QED
  BY <1>1, <1>2, <1>4, <1>7, <1>8 DEF Basic

(* The test of ta_tid lets the call go on only if its child has told.      *)
LEMMA TestInv ==
  ASSUME Basic, TestTid
  PROVE  Basic' /\ foreign' = foreign /\ (Calm => Calm')
<1> USE ThreadAssumption DEF Child
<1>1. /\ parent = "lock" /\ parent' \in {"wait", "leave"}
      /\ parent' = "leave" => ta_tid[slot[n]] # 0
      /\ UNCHANGED <<n, child, ta_tid, flags, settid, ret, late, foreign>>
  BY DEF TestTid
<1>2. Basic'
  BY <1>1 DEF Basic, ThreadTypeOK
<1>3. ASSUME Calm, NEW c \in Child PROVE ChildInv(c)'
  <2>1. ChildInv(c)
    BY <1>3 DEF Calm
  <2> QED
    BY <1>1, <2>1 DEF ChildInv, Live
<1>4. Calm => Calm'
  BY <1>1, <1>3 DEF Calm, ReturnsOwnTid
<1> QED
  BY <1>1, <1>2, <1>4

(* The call returns what its child has told.                               *)
LEMMA ReturnInv ==
  ASSUME Basic, ReturnTid
  PROVE  Basic' /\ foreign' = foreign /\ (Calm => Calm')
<1> USE ThreadAssumption DEF Child
<1>1. /\ parent = "leave" /\ parent' = "user"
      /\ ret' = ret \cup {<<n, ta_tid[slot[n]]>>}
      /\ UNCHANGED <<n, child, ta_tid, flags, settid, late, foreign>>
  BY DEF ReturnTid
<1>2. n \in Child /\ ta_tid[slot[n]] \in Child \cup {0}
  BY <1>1 DEF Basic, ThreadTypeOK
<1>3. ThreadTypeOK'
  BY <1>1, <1>2 DEF Basic, ThreadTypeOK
<1>4. Basic'
  BY <1>1, <1>2, <1>3 DEF Basic
<1>5. ASSUME Calm
      PROVE  /\ child[n] \in {"signal", "user"} /\ ta_tid[slot[n]] = n
             /\ n \in flags => n \in settid
  BY <1>1, <1>2, <1>5 DEF Calm, ChildInv, Live
<1>6. ASSUME Calm PROVE ReturnsOwnTid'
  BY <1>1, <1>2, <1>5, <1>6 DEF Calm, ReturnsOwnTid
<1>7. ASSUME Calm, NEW c \in Child PROVE ChildInv(c)'
  <2>1. ChildInv(c)
    BY <1>7 DEF Calm
  <2>2. child[c] \notin {"entry", "tell"}
    BY <1>1, <1>5, <1>7, <2>1 DEF ChildInv, Live
  <2> QED
    BY <1>1, <2>1, <2>2 DEF ChildInv, Live
<1>8. Calm => Calm'
  BY <1>1, <1>6, <1>7 DEF Calm
<1> QED
  BY <1>1, <1>4, <1>8

(* A child copies the trap frame, or tells its tid; while things are calm  *)
(* that is while the call that made it waits.                              *)
LEMMA BusyInv ==
  ASSUME Basic, NEW d \in Child, CopyFrame(d) \/ TellTid(d)
  PROVE  Basic' /\ foreign' = foreign /\ (Calm => Calm')
<1> USE ThreadAssumption DEF Child
<1>1. /\ n' = n /\ parent' = parent /\ flags' = flags /\ ret' = ret /\ foreign' = foreign
      /\ settid \subseteq settid' /\ settid' \subseteq settid \cup {d}
      /\ Live(d) => late' = late
      /\ late' \subseteq late \cup {<<d, "entry">>, <<d, "tell">>}
  BY DEF CopyFrame, TellTid, Use
<1>2. \/ /\ child[d] = "entry" /\ child' = [child EXCEPT ![d] = "tell"] /\ ta_tid' = ta_tid
         /\ d \in flags => d \in settid'
      \/ /\ child[d] = "tell" /\ child' = [child EXCEPT ![d] = "signal"]
         /\ ta_tid' = [ta_tid EXCEPT ![slot[d]] = d]
  BY DEF CopyFrame, TellTid
<1>3. ThreadTypeOK'
  <2>1. child' \in [Child -> {"none", "entry", "tell", "signal", "user"}]
    BY <1>2 DEF Basic, ThreadTypeOK
  <2>2. ta_tid' \in [Slots -> Child \cup {0}]
    BY <1>2 DEF Basic, ThreadTypeOK
  <2>3. settid' \subseteq Child /\ late' \subseteq Child \X {"entry", "tell", "signal"}
    BY <1>1 DEF Basic, ThreadTypeOK
  <2> QED
    BY <1>1, <2>1, <2>2, <2>3, Zenon DEF Basic, ThreadTypeOK
<1>4. Basic'
  BY <1>1, <1>3 DEF Basic
<1>5. ASSUME Calm PROVE Calm'
  <2>1. child[d] \in {"entry", "tell"} /\ ChildInv(d)
    BY <1>2, <1>5 DEF Calm
  <2>2. Live(d) /\ parent # "leave"
    BY <2>1 DEF ChildInv
  <2>3. ReturnsOwnTid' /\ \A u \in late' : u[2] = "signal"
    BY <1>1, <1>5, <2>2 DEF Calm, ReturnsOwnTid
  <2>4. ASSUME NEW c \in Child PROVE ChildInv(c)'
    <3>1. ChildInv(c)
      BY <1>5 DEF Calm
    <3>2. CASE c = d
      <4>1. slot[d] \in Slots /\ d = n /\ ~(d > n)
        BY <2>2 DEF Live, Basic, ThreadTypeOK
      <4>2. \/ child[d] = "entry" /\ child'[d] = "tell" /\ ta_tid'[slot[d]] = ta_tid[slot[d]]
            \/ child[d] = "tell" /\ child'[d] = "signal" /\ ta_tid'[slot[d]] = d
        BY <1>2, <4>1 DEF Basic, ThreadTypeOK
      <4>3. d \in flags => d \in settid'
        BY <1>1, <1>2, <2>1 DEF ChildInv
      <4> QED
        BY <1>1, <2>1, <2>2, <3>2, <4>1, <4>2, <4>3 DEF ChildInv, Live
    <3>3. CASE c # d
      <4>1. child'[c] = child[c] /\ ~Live(c)
        BY <1>2, <2>2, <3>3 DEF Basic, ThreadTypeOK, Live
      <4> QED
        BY <1>1, <3>1, <4>1 DEF ChildInv, Live
    <3> QED
      BY <3>2, <3>3
  <2> QED
    BY <2>3, <2>4 DEF Calm
<1> QED
  BY <1>1, <1>4, <1>5

(* The signal of a child wakes the call that made it or is foreign.        *)
LEMMA SignalInv ==
  ASSUME Basic, NEW d \in Child, Signal(d)
  PROVE  Basic' /\ (~foreign' => ~foreign /\ (Calm => Calm'))
<1> USE ThreadAssumption DEF Child
<1>1. /\ child[d] = "signal" /\ child' = [child EXCEPT ![d] = "user"]
      /\ parent' = parent \/ (parent = "wait" /\ parent' = "leave")
      /\ ~foreign' => ~foreign /\ (parent' = parent \/ n = d)
      /\ foreign' \in BOOLEAN
      /\ late' \subseteq late \cup {<<d, "signal">>}
      /\ UNCHANGED <<n, ta_tid, flags, settid, ret>>
  BY Zenon DEF Signal, Use
<1>2. ThreadTypeOK'
  BY <1>1 DEF Basic, ThreadTypeOK
<1>3. Basic'
  BY <1>1, <1>2 DEF Basic
<1>4. ASSUME Calm, ~foreign' PROVE Calm'
  <2>1. ASSUME NEW c \in Child PROVE ChildInv(c)'
    <3>1. ChildInv(c)
      BY <1>4 DEF Calm
    <3>2. /\ c = d => child'[c] = "user"
          /\ c # d => child'[c] = child[c]
      BY <1>1 DEF Basic, ThreadTypeOK
    <3>3. Live(c)' <=> Live(c)
      BY <1>1 DEF Live
    <3> QED
      BY <1>1, <1>4, <3>1, <3>2, <3>3 DEF ChildInv, Live
  <2>2. ReturnsOwnTid' /\ \A u \in late' : u[2] = "signal"
    BY <1>1, <1>4 DEF Calm, ReturnsOwnTid
  <2> QED
    BY <2>1, <2>2 DEF Calm
<1> QED
  BY <1>1, <1>3, <1>4

(* A spurious wake-up is foreign.                                          *)
LEMMA SpuriousInv ==
  ASSUME Basic, SpuriousWakeup
  PROVE  Basic' /\ foreign'
  BY DEF SpuriousWakeup, Basic, ThreadTypeOK

-----------------------------------------------------------------------------
(* The invariant of dune_pthread_create and pthread_entry, for any number  *)
(* of calls, at shared or distinct addresses (trap.c:134-214).             *)
THEOREM ThreadInvariance == TSpec => []TInv
<1>1. TInit => TInv
  <2> SUFFICES ASSUME TInit PROVE Basic /\ Calm
    BY TInvParts
  <2>1. Basic
    <3>1. foreign \in BOOLEAN
      BY Zenon DEF TInit
    <3>2. n \in 0 .. MaxThreads /\ ta_tid \in [Slots -> Child \cup {0}]
      BY ThreadAssumption DEF TInit
    <3> QED
      BY <3>1, <3>2 DEF TInit, Basic, ThreadTypeOK
  <2>2. Calm
    BY DEF TInit, Calm, ReturnsOwnTid, ChildInv, Live
  <2> QED
    BY <2>1, <2>2
<1>2. TInv /\ [TNext]_tvars => TInv'
  <2> SUFFICES ASSUME TInv, [TNext]_tvars PROVE Basic' /\ (~foreign' => Calm')
    BY TInvParts
  <2>0. Basic /\ (~foreign => Calm)
    BY TInvParts
  <2>1. CASE UNCHANGED tvars
    BY <2>0, <2>1 DEF tvars, Basic, ThreadTypeOK, Calm, ReturnsOwnTid, ChildInv, Live
  <2>2. ASSUME NEW f \in BOOLEAN, dune_pthread_create(f) PROVE Basic' /\ (~foreign' => Calm')
    BY <2>0, <2>2, CreateInv
  <2>3. CASE TestTid
    BY <2>0, <2>3, TestInv
  <2>4. CASE SpuriousWakeup
    BY <2>0, <2>4, SpuriousInv
  <2>5. CASE ReturnTid
    BY <2>0, <2>5, ReturnInv
  <2>6. ASSUME NEW c \in Child, pthread_entry(c) PROVE Basic' /\ (~foreign' => Calm')
    BY <2>0, <2>6, BusyInv, SignalInv DEF pthread_entry
  <2> QED
    BY <2>1, <2>2, <2>3, <2>4, <2>5, <2>6 DEF TNext
<1> QED
  BY <1>1, <1>2, PTL DEF TSpec

(* A clone call returns the tid of its own thread, already stored where    *)
(* CLONE_PARENT_SETTID asked for it, unless a wait was ended by a foreign  *)
(* wake-up (trap.c:159-162, 177-181, 205-213).                             *)
THEOREM ClonesReturnOwnTid == TSpec => []OwnTidUnlessForeignWake
<1>1. TInv => OwnTidUnlessForeignWake
  BY DEF TInv
<1> QED
  BY <1>1, ThreadInvariance, PTL

(* Until then only the signal comes after the thread_arg is gone           *)
(* (trap.c:181).                                                           *)
THEOREM OnlySignalIsLate == TSpec => []LateInSignalOnly
<1>1. TInv => LateInSignalOnly
  BY DEF TInv
<1> QED
  BY <1>1, ThreadInvariance, PTL

(* With distinct addresses and no spurious wake-ups no wake-up is foreign, *)
(* and a clone call always returns the tid of its own thread.              *)
THEOREM DistinctAddressesSuffice ==
  ASSUME \A c, d \in Child : slot[c] = slot[d] => c = d, ~Spurious
  PROVE  TSpec => []ReturnsOwnTid
<1>1. TInit => ~foreign
  BY DEF TInit
<1>2. TInv /\ ~foreign /\ [TNext]_tvars => ~foreign'
  <2> SUFFICES ASSUME TInv, ~foreign, [TNext]_tvars PROVE ~foreign'
    OBVIOUS
  <2>0. Basic
    BY TInvParts
  <2>1. ASSUME NEW d \in Child, Signal(d) PROVE ~foreign'
    <3>1. parent = "wait" => n \in Child
      BY <2>0, ThreadAssumption DEF Basic, ThreadTypeOK, Child
    <3> QED
      BY Zenon, <2>1, <3>1 DEF Signal
  <2>2. ~SpuriousWakeup
    BY DEF SpuriousWakeup
  <2>3. ASSUME NEW d \in Child, CopyFrame(d) \/ TellTid(d) PROVE ~foreign'
    BY <2>0, <2>3, BusyInv
  <2>4. CASE UNCHANGED tvars
    BY <2>4 DEF tvars
  <2> QED
    BY <2>0, <2>1, <2>2, <2>3, <2>4, CreateInv, TestInv, ReturnInv DEF TNext, pthread_entry
<1>3. TInv /\ ~foreign => ReturnsOwnTid
  BY DEF TInv, OwnTidUnlessForeignWake
<1> QED
  BY <1>1, <1>2, <1>3, ThreadInvariance, PTL DEF TSpec

(* The clone handshake stays in its type.                                  *)
THEOREM ThreadTypeCorrect == TSpec => []ThreadTypeOK
<1>1. TInv => ThreadTypeOK
  BY DEF TInv
<1> QED
  BY <1>1, ThreadInvariance, PTL

-----------------------------------------------------------------------------
(* The interrupt between two cores.                                        *)
Wait == mem[of("t1")].wait
Quiet == ~irr /\ hdl \in {"idle", "return"}
Pending == irr /\ hdl \in {"idle", "return"}
Handling == ~irr /\ hdl \in {"eoi", "clear"}

(* The sender's last store, wait = true, is in memory or in the buffer.    *)
Raised == (Wait \/ sb) /\ (Wait => ~sb)

SenderPlace ==
    /\ pc1 \in {"none", "start", "ready", "killed"} =>
          ~irr /\ hdl = "idle" /\ i = 0 /\ got = 0 /\ Wait /\ ~sb
    /\ pc1 = "send" => Quiet /\ got = i /\ Raised
    /\ pc1 = "spin" => i < NUM_ITERATIONS
    /\ pc1 = "spin" =>
          \/ (Pending \/ Handling) /\ got = i /\ Raised /\ (drains => ~sb)
          \/ Quiet /\ got = i + 1 /\ (drains => ~sb /\ ~Wait)
          \/ Quiet /\ got = i /\ Raised /\ route # "T2"
    /\ pc1 = "end" => Quiet /\ got = i /\ ~sb

(* What the two sides know of each other through the flags.                *)
FlagsKnown ==
    /\ \A s \in Space : mem[s].t2_ready => pc2 \in {"spin", "end"}
    /\ pc1 \in {"send", "spin"} => mem[of("t1")].t2_ready
    /\ hdl # "idle" => pc2 = "spin"
    /\ prog = "fork" =>
          /\ pc1 \notin {"send", "spin"}
          /\ ~mem["t1"].t2_ready /\ ~mem["t2"].done
          /\ i = 0 /\ ~irr /\ hdl = "idle" /\ got = 0
          /\ pc2 = "end" => ~mem["t2"].t2_ready

(* How far main lets the others be.                                        *)
MainPlace ==
    /\ pcm \in {"init", "pin", "spawn1"} => pc1 = "none"
    /\ pcm \in {"init", "spawn2"} => pc2 = "none"
    /\ pcm = "spawn2" /\ prog # "fork" => pc1 = "none"
    /\ pcm = "spawn1" /\ prog = "fork" => pc2 = "none"
    /\ pcm = "pin" => prog = "posted"

IpiInv == IpiTypeOK /\ SenderPlace /\ FlagsKnown /\ MainPlace

LEMMA IpiInvInit == IpiInit => IpiInv
<1> SUFFICES ASSUME IpiInit PROVE IpiInv
  OBVIOUS
<1>1. IpiTypeOK
  <2>1. drains \in BOOLEAN /\ sb \in BOOLEAN /\ irr \in BOOLEAN
    BY Zenon DEF IpiInit
  <2>2. mem \in [Space -> [t2_ready : BOOLEAN, wait : BOOLEAN, done : BOOLEAN]]
    BY DEF IpiInit
  <2>3. i \in 0 .. NUM_ITERATIONS /\ got \in Nat
    BY IpiAssumption DEF IpiInit
  <2>4. prog \in {"posted", "threads", "fork"}
    BY IpiAssumption DEF IpiInit
  <2> QED
    BY <2>1, <2>2, <2>3, <2>4, Zenon DEF IpiInit, IpiTypeOK, Core
<1>2. mem[of("t1")] = [t2_ready |-> FALSE, wait |-> TRUE, done |-> FALSE]
  BY DEF IpiInit, of, Space
<1>3. SenderPlace
  BY <1>2 DEF IpiInit, SenderPlace, Wait
<1>4. FlagsKnown
  BY DEF IpiInit, FlagsKnown, Space
<1>5. MainPlace
  BY DEF IpiInit, MainPlace
<1> QED
  BY <1>1, <1>3, <1>4, <1>5 DEF IpiInv

LEMMA MainTyped == IpiInv /\ (Main \/ ForkFails) => IpiTypeOK'
BY DEF Main, ForkFails, MainInit, Spawn1, Spawn2, Pin, Join1, Join2, mvars, IpiInv, IpiTypeOK,
   Space, Core
LEMMA MainSender == IpiInv /\ (Main \/ ForkFails) => SenderPlace'
<1> SUFFICES ASSUME IpiInv, Main \/ ForkFails PROVE SenderPlace'
  OBVIOUS
<1>1. UNCHANGED mvars
  BY DEF Main, ForkFails, MainInit, Spawn1, Spawn2, Pin, Join1, Join2
<1>2. /\ Wait' = Wait /\ Quiet' = Quiet /\ Pending' = Pending /\ Handling' = Handling /\ Raised' = Raised
      /\ irr' = irr /\ sb' = sb /\ drains' = drains
  BY <1>1 DEF mvars, Wait, Quiet, Pending, Handling, Raised, of
<1>3. hdl' = hdl /\ i' = i /\ got' = got /\ route' = route
  BY <1>1 DEF mvars
<1>4. pc1' = pc1 \/ (pc1 \in {"none", "start", "ready", "killed"} /\ pc1' \in {"start", "ready", "killed"})
  BY DEF Main, ForkFails, MainInit, Spawn1, Spawn2, Pin, Join1, Join2, IpiInv, MainPlace, FlagsKnown, IpiTypeOK
<1>5. SenderPlace
  BY DEF IpiInv
<1>6. CASE pc1' = pc1
  BY <1>2, <1>3, <1>5, <1>6, Zenon DEF SenderPlace
<1>7. CASE pc1 \in {"none", "start", "ready", "killed"} /\ pc1' \in {"start", "ready", "killed"}
  <2>1. ~irr /\ hdl = "idle" /\ i = 0 /\ got = 0 /\ Wait /\ ~sb
    BY <1>5, <1>7 DEF SenderPlace
  <2>2. ~irr' /\ hdl' = "idle" /\ i' = 0 /\ got' = 0 /\ Wait' /\ ~sb'
    BY <1>2, <1>3, <2>1, Zenon
  <2> QED
    BY <1>7, <2>2 DEF SenderPlace
<1> QED
  BY <1>4, <1>6, <1>7

LEMMA MainFlags == IpiInv /\ (Main \/ ForkFails) => FlagsKnown'
BY DEF Main, ForkFails, MainInit, Spawn1, Spawn2, Pin, Join1, Join2, mvars, IpiInv, MainPlace,
   FlagsKnown, of
LEMMA MainMain == IpiInv /\ (Main \/ ForkFails) => MainPlace'
BY DEF Main, ForkFails, MainInit, Spawn1, Spawn2, Pin, Join1, Join2, mvars, IpiInv, MainPlace

LEMMA MainKeeps == IpiInv /\ (Main \/ ForkFails) => IpiInv'
BY MainTyped, MainSender, MainFlags, MainMain DEF IpiInv

(* The steps of the sender and its store buffer.                           *)
LEMMA T1Typed == IpiInv /\ (T1 \/ Drain) => IpiTypeOK'
<1> SUFFICES ASSUME IpiInv, T1 \/ Drain PROVE IpiTypeOK'
  OBVIOUS
<1>0. IpiTypeOK /\ of("t1") \in Space
  BY DEF IpiInv, of, Space
<1>1. UNCHANGED t1vars
  BY DEF T1, T1Enter, T1SeesReady, Send, T1SeesWait, T1Ends, Drain
<1>2. pc1' \in {"none", "start", "ready", "send", "spin", "killed", "end"}
  BY <1>0 DEF T1, T1Enter, T1SeesReady, Send, T1SeesWait, T1Ends, Drain, IpiTypeOK
<1>3. mem' \in [Space -> [t2_ready : BOOLEAN, wait : BOOLEAN, done : BOOLEAN]]
  BY Zenon, <1>0 DEF T1, T1Enter, T1SeesReady, Send, T1SeesWait, T1Ends, Drain, IpiTypeOK
<1>4. i' \in 0 .. NUM_ITERATIONS
  <2>1. pc1 = "spin" => i < NUM_ITERATIONS
    BY DEF IpiInv, SenderPlace
  <2> QED
    BY <1>0, <2>1, IpiAssumption DEF T1, T1Enter, T1SeesReady, Send, T1SeesWait, T1Ends, Drain, IpiTypeOK
<1>5. sb' \in BOOLEAN /\ irr' \in BOOLEAN
  BY <1>0, Zenon DEF T1, T1Enter, T1SeesReady, Send, T1SeesWait, T1Ends, Drain, IpiTypeOK
<1> QED
  BY <1>0, <1>1, <1>2, <1>3, <1>4, <1>5, ZenonT(30) DEF IpiTypeOK, t1vars

LEMMA T1Main == IpiInv /\ (T1 \/ Drain) => MainPlace'
BY DEF T1, T1Enter, T1SeesReady, Send, T1SeesWait, T1Ends, Drain, t1vars, IpiInv, MainPlace

LEMMA T1Flags == IpiInv /\ (T1 \/ Drain) => FlagsKnown'
<1> SUFFICES ASSUME IpiInv, T1 \/ Drain PROVE FlagsKnown'
  OBVIOUS
<1>0. IpiTypeOK /\ FlagsKnown /\ of("t1") \in Space /\ of("t1")' = of("t1")
  BY DEF IpiInv, of, Space, T1, T1Enter, T1SeesReady, Send, T1SeesWait, T1Ends, Drain, t1vars
<1>1. \A s \in Space : mem'[s].t2_ready = mem[s].t2_ready
  BY <1>0 DEF T1, T1Enter, T1SeesReady, Send, T1SeesWait, T1Ends, Drain, IpiTypeOK
<1>2. UNCHANGED <<prog, pc2, hdl, got>>
  BY DEF T1, T1Enter, T1SeesReady, Send, T1SeesWait, T1Ends, Drain, t1vars
<1>3. CASE prog = "fork"
  <2>1. UNCHANGED <<i, irr>> /\ pc1' \notin {"send", "spin"}
    BY <1>0, <1>3 DEF FlagsKnown, T1, T1Enter, T1SeesReady, Send, T1SeesWait, T1Ends, Drain, of
  <2>2. mem'["t2"].done = mem["t2"].done
    BY <1>0, <1>3 DEF T1, T1Enter, T1SeesReady, Send, T1SeesWait, T1Ends, Drain, of, IpiTypeOK, Space
  <2> QED
    BY <1>0, <1>1, <1>2, <1>3, <2>1, <2>2 DEF FlagsKnown, Space
<1>4. CASE prog # "fork"
  <2>1. pc1' \in {"send", "spin"} => mem[of("t1")].t2_ready
    BY <1>0 DEF FlagsKnown, T1, T1Enter, T1SeesReady, Send, T1SeesWait, T1Ends, Drain
  <2> QED
    BY <1>0, <1>1, <1>2, <1>4, <2>1 DEF FlagsKnown
<1> QED
  BY <1>3, <1>4

LEMMA T1Sender == IpiInv /\ (T1 \/ Drain) => SenderPlace'
<1> SUFFICES ASSUME IpiInv, T1 \/ Drain PROVE SenderPlace'
  OBVIOUS
<1>0. IpiTypeOK /\ SenderPlace /\ FlagsKnown /\ of("t1") \in Space /\ of("t1")' = of("t1")
  BY DEF IpiInv, of, Space, T1, T1Enter, T1SeesReady, Send, T1SeesWait, T1Ends, Drain, t1vars
<1> USE DEF t1vars
<1>1. ASSUME T1Enter PROVE SenderPlace'
  BY <1>0, <1>1 DEF T1Enter, SenderPlace, Quiet, Wait
<1>2. ASSUME T1SeesReady PROVE SenderPlace'
  BY <1>0, <1>2 DEF T1SeesReady, SenderPlace, Quiet, Raised, Wait
<1>3. ASSUME Send PROVE SenderPlace'
  <2>1. Quiet /\ got = i /\ Raised
    BY <1>0, <1>3 DEF Send, SenderPlace
  <2>2. got' = i' /\ Raised' /\ (drains' => ~sb') /\ i' < NUM_ITERATIONS /\ pc1' = "spin"
    BY <1>0, <1>3, <2>1 DEF Send, Raised, Wait
  <2>3. Pending' \/ (Quiet' /\ route' # "T2")
    BY Zenon, <1>3, <2>1 DEF Send, Quiet, Pending
  <2> QED
    BY <2>2, <2>3, Zenon DEF SenderPlace
<1>4. ASSUME T1SeesWait PROVE SenderPlace'
  BY <1>0, <1>4 DEF T1SeesWait, SenderPlace, Quiet, Pending, Handling, Raised, Wait, IpiTypeOK
<1>5. ASSUME T1Ends PROVE SenderPlace'
  BY <1>0, <1>5 DEF T1Ends, SenderPlace, Quiet
<1>6. ASSUME Drain PROVE SenderPlace'
  BY <1>0, <1>6 DEF Drain, SenderPlace, Quiet, Pending, Handling, Raised, Wait, IpiTypeOK
<1> QED
  BY <1>1, <1>2, <1>3, <1>4, <1>5, <1>6 DEF T1

LEMMA T1Keeps == IpiInv /\ (T1 \/ Drain) => IpiInv'
BY T1Typed, T1Sender, T1Flags, T1Main DEF IpiInv

(* The steps of thread 2 and of the handler.                               *)
LEMMA T2Typed == IpiInv /\ T2 => IpiTypeOK'
<1> SUFFICES ASSUME IpiInv, T2 PROVE IpiTypeOK'
  OBVIOUS
<1> USE DEF T2, T2Enter, T2Registers, T2Ready, T2Ends, Interrupt, Eoi, Clear, HandlerReturns
<1>0. IpiTypeOK /\ of("t2") \in Space
  BY DEF IpiInv, of, Space
<1>1. UNCHANGED t2vars
  OBVIOUS
<1>2. /\ pc2' \in {"none", "start", "entered", "registered", "spin", "end"}
      /\ core2' \in Core /\ route' \in Core \cup {"none"} /\ got' \in Nat
      /\ hdl' \in {"idle", "eoi", "clear", "return"}
  BY <1>0 DEF IpiTypeOK, Core
<1>3. mem' \in [Space -> [t2_ready : BOOLEAN, wait : BOOLEAN, done : BOOLEAN]]
  BY Zenon, <1>0 DEF IpiTypeOK
<1>4. irr' \in BOOLEAN
  BY <1>0, Zenon DEF IpiTypeOK
<1> QED
  BY <1>0, <1>1, <1>2, <1>3, <1>4, Zenon DEF IpiTypeOK, t2vars

LEMMA T2Main == IpiInv /\ T2 => MainPlace'
BY DEF T2, T2Enter, T2Registers, T2Ready, T2Ends, Interrupt, Eoi, Clear, HandlerReturns, t2vars,
   IpiInv, MainPlace, FlagsKnown

LEMMA T2Flags == IpiInv /\ T2 => FlagsKnown'
<1> SUFFICES ASSUME IpiInv, T2 PROVE FlagsKnown'
  OBVIOUS
<1>0. IpiTypeOK /\ FlagsKnown /\ of("t1") \in Space /\ of("t1")' = of("t1") /\ of("t2") \in Space
  BY DEF IpiInv, of, Space, T2, T2Enter, T2Registers, T2Ready, T2Ends, Interrupt, Eoi, Clear,
     HandlerReturns, t2vars
<1> USE DEF t2vars, IpiTypeOK
<1>1. ASSUME T2Ready PROVE FlagsKnown'
  BY <1>0, <1>1 DEF T2Ready, FlagsKnown, of, Space
<1>2. ASSUME Clear PROVE FlagsKnown'
  BY <1>0, <1>2 DEF Clear, FlagsKnown, of, Space
<1>3. ASSUME T2Enter \/ T2Registers \/ T2Ends PROVE FlagsKnown'
  BY <1>0, <1>3 DEF T2Enter, T2Registers, T2Ends, FlagsKnown, of, Space
<1>4. ASSUME Interrupt \/ Eoi \/ HandlerReturns PROVE FlagsKnown'
  BY <1>0, <1>4 DEF Interrupt, Eoi, HandlerReturns, FlagsKnown, of, Space
<1> QED
  BY <1>1, <1>2, <1>3, <1>4 DEF T2

LEMMA T2Sender == IpiInv /\ T2 => SenderPlace'
<1> SUFFICES ASSUME IpiInv, T2 PROVE SenderPlace'
  OBVIOUS
<1>0. IpiTypeOK /\ SenderPlace /\ FlagsKnown /\ of("t1") \in Space /\ of("t1")' = of("t1") /\ of("t2") \in Space
  BY DEF IpiInv, of, Space, T2, T2Enter, T2Registers, T2Ready, T2Ends, Interrupt, Eoi, Clear,
     HandlerReturns, t2vars
<1> USE DEF t2vars
<1>1. ASSUME T2Enter \/ T2Ready \/ T2Ends PROVE SenderPlace'
  <2>1. mem'[of("t1")].wait = mem[of("t1")].wait /\ UNCHANGED <<route, irr, hdl, got>>
    BY <1>0, <1>1 DEF T2Enter, T2Ready, T2Ends, IpiTypeOK
  <2> QED
    BY <1>0, <1>1, <2>1 DEF T2Enter, T2Ready, T2Ends, SenderPlace, Quiet, Pending, Handling, Raised, Wait
<1>2. ASSUME T2Registers PROVE SenderPlace'
  <2>1. pc1 # "spin"
    BY <1>0, <1>2 DEF T2Registers, FlagsKnown
  <2> QED
    BY <1>0, <1>2, <2>1 DEF T2Registers, SenderPlace, Quiet, Raised, Wait
<1>3. ASSUME Interrupt PROVE SenderPlace'
  BY <1>0, <1>3 DEF Interrupt, SenderPlace, Quiet, Pending, Handling, Raised, Wait
<1>4. ASSUME Eoi PROVE SenderPlace'
  BY <1>0, <1>4 DEF Eoi, SenderPlace, Quiet, Pending, Handling, Raised, Wait
<1>5. ASSUME Clear PROVE SenderPlace'
  <2>1. pc1 = "spin" /\ Handling /\ got = i /\ (drains => ~sb) /\ i < NUM_ITERATIONS
    BY <1>0, <1>5 DEF Clear, SenderPlace, Quiet, Pending, Handling, IpiTypeOK
  <2>2. prog # "fork" /\ of("t1") = of("t2")
    BY <1>0, <2>1 DEF FlagsKnown, of
  <2>3. ~mem'[of("t1")].wait
    BY <1>0, <1>5, <2>2 DEF Clear, IpiTypeOK
  <2> QED
    BY <1>0, <1>5, <2>1, <2>3 DEF Clear, SenderPlace, Quiet, Handling, Wait
<1>6. ASSUME HandlerReturns PROVE SenderPlace'
  BY <1>0, <1>6 DEF HandlerReturns, SenderPlace, Quiet, Pending, Handling, Raised, Wait
<1> QED
  BY <1>1, <1>2, <1>3, <1>4, <1>5, <1>6 DEF T2

LEMMA T2Keeps == IpiInv /\ T2 => IpiInv'
BY T2Typed, T2Sender, T2Flags, T2Main DEF IpiInv

LEMMA StutterKeeps == IpiInv /\ UNCHANGED ivars => IpiInv'
<1> SUFFICES ASSUME IpiInv, UNCHANGED ivars PROVE IpiInv'
  OBVIOUS
<1> USE DEF ivars, IpiInv
<1>1. IpiTypeOK'
  BY DEF IpiTypeOK
<1>2. SenderPlace'
  <2>1. /\ Wait' = Wait /\ Quiet' = Quiet /\ Pending' = Pending /\ Handling' = Handling
        /\ Raised' = Raised
    BY DEF Wait, Quiet, Pending, Handling, Raised, of
  <2> QED
    BY <2>1, Zenon DEF SenderPlace
<1>3. FlagsKnown' /\ MainPlace'
  BY DEF FlagsKnown, MainPlace, of
<1> QED
  BY <1>1, <1>2, <1>3

(* The invariant holds throughout, for every number of iterations, in each *)
(* of the three programs.                                                  *)
THEOREM IpiInvHolds == IpiSpec => []IpiInv
<1>1. IpiInv /\ [IpiNext]_ivars => IpiInv'
  BY MainKeeps, T1Keeps, T2Keeps, StutterKeeps DEF IpiNext
<1> QED
  BY <1>1, IpiInvInit, PTL DEF IpiSpec

(* Every variable stays in its type, and no iteration past the last is     *)
(* counted (the for loop of t1_start).                                     *)
THEOREM IpiTyped == IpiSpec => []IpiTypeOK
<1>1. IpiInv => IpiTypeOK
  BY DEF IpiInv
<1> QED
  BY <1>1, IpiInvHolds, PTL

(* The sender never waits for an interrupt that is not on its way, when    *)
(* thread 2 registered on THREAD_2_CORE and the send drains the store      *)
(* buffer.                                                                 *)
THEOREM WakeupNotLost == IpiSpec => []NoLostWakeup
<1>1. IpiInv => NoLostWakeup
  BY DEF IpiInv, SenderPlace, NoLostWakeup, Pending, Handling, Wait
<1> QED
  BY <1>1, IpiInvHolds, PTL

(* As many interrupts are handled as iterations counted: the divisor of    *)
(* the latency that t1_start prints is right for any NUM_ITERATIONS.       *)
THEOREM CountedOnce == IpiSpec => []EachOnce
<1>1. IpiInv => EachOnce
  <2> SUFFICES ASSUME IpiInv PROVE EachOnce
    OBVIOUS
  <2>1. got = i \/ got = i + 1
    BY DEF IpiInv, SenderPlace, IpiTypeOK
  <2>2. pc1 = "end" => got = i
    BY DEF IpiInv, SenderPlace
  <2>3. i \in Nat
    BY IpiAssumption DEF IpiInv, IpiTypeOK
  <2> QED
    BY <2>1, <2>2, <2>3 DEF EachOnce
<1> QED
  BY <1>1, IpiInvHolds, PTL

(* bench_fork_ipi.c never sends, whatever the interleaving.                *)
THEOREM ForkSilent == IpiSpec => []ForkNeverSends
<1>1. IpiInv => ForkNeverSends
  BY DEF IpiInv, FlagsKnown, ForkNeverSends
<1> QED
  BY <1>1, IpiInvHolds, PTL
============================================================================
