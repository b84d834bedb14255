----------------------------- MODULE TrapProofs -----------------------------
(***************************************************************************)
(* Proofs about Params and Trap, for every layout of the address space,    *)
(* every set of threads and every set of calls: first what the parameter   *)
(* checks establish, then what the handlers keep, and last that only one   *)
(* thread is in a memory call until two of them race.                      *)
(***************************************************************************)
EXTENDS Trap, UmmProofs

-----------------------------------------------------------------------------
(* The parameter checks.                                                   *)

(* The sizes the proofs about them need.                                   *)
LEMMA Widths ==
  /\ INT \in Nat /\ INT > 0 /\ WORD % INT = 0 /\ WORD \in Nat /\ INT <= WORD /\ WORD > 0
  /\ TASK_SIZE + APP_MAX_ELF_VADDR <= WORD
<1>1. INT \in Nat /\ INT > 0 /\ WORD % INT = 0 /\ TASK_SIZE + APP_MAX_ELF_VADDR <= WORD
  BY ParamsAssumption
<1>2. WORD \in Nat /\ WORD > 0
  BY Layout, Pg
<1>3. INT <= WORD
  <2>1. WORD \in Int /\ WORD = INT * (WORD \div INT) + (WORD % INT) /\ WORD \div INT \in Int
    BY <1>1, <1>2, DivMod
  <2> DEFINE w == WORD \div INT
  <2>2. WORD = INT * w /\ w \in Int
    BY <1>1, <1>2, <2>1
  <2> HIDE DEF w
  <2>3. w >= 1
    BY <1>1, <1>2, <2>2
  <2> QED
    BY <1>1, <2>2, <2>3
<1> QED
  BY <1>1, <1>2, <1>3

(* A range that passes check_extent: what the kernel reaches from its      *)
(* start is memory of the program (trap.c:93-102, sandbox.h:32-50).        *)
LEMMA SafeIsInside ==
  ASSUME NEW ptr \in 0 .. WORD - 1, NEW len \in 0 .. WORD - 1, NEW n \in Int,
         n <= len, check_extent(ptr, len)
  PROVE  Reached(ptr, n) \subseteq AppMemory
<1>0. Word(len) = len
  BY Widths, WordSmall
<1>1. CASE n <= 0 \/ ptr + n > TASK_SIZE
  BY <1>1 DEF Reached
<1>2. CASE n > 0 /\ ptr + n <= TASK_SIZE
  <2>1. ptr < TASK_SIZE /\ ptr + len \in Nat
    BY <1>2, Layout
  <2>2. Reached(ptr, n) \subseteq ptr .. ptr + n - 1
    BY <1>2, Layout DEF Reached
  <2>3. CASE len <= APP_MAX_ELF_VADDR /\ Word(ptr + len) <= APP_MAX_ELF_VADDR
    <3>1. Word(ptr + len) = ptr + len
      <4>1. ptr + len < WORD
        BY <2>1, <2>3, Layout, Widths
      <4> QED
        BY <2>1, <4>1, WordSmall
    <3>2. ptr + n <= APP_MAX_ELF_VADDR
      BY <2>1, <2>3, <3>1, Layout
    <3> QED
      BY <2>2, <3>2, Layout DEF AppMemory
  <2>4. CASE len <= APP_MMAP_LEN /\ ptr >= mmap_base /\ Word(ptr + len) < Top
    <3>1. Word(ptr + len) = ptr + len
      <4>1. ptr + len < WORD
        BY <2>1, <2>4, Layout, Pg
      <4> QED
        BY <2>1, <4>1, WordSmall
    <3>2. ptr + n <= Top
      BY <2>1, <2>4, <3>1, Layout
    <3> QED
      BY <2>2, <2>4, <3>2, Layout DEF AppMemory
  <2> QED
    BY <1>0, <2>3, <2>4 DEF check_extent, mem_ref_is_safe
<1> QED
  BY <1>1, <1>2, Layout

(* A positive int is the low half of the machine word it was passed in.    *)
LEMMA SignedLow ==
  ASSUME NEW a \in 0 .. WORD - 1
  PROVE  /\ Signed(a) \in Int /\ Signed(a) <= a
         /\ Signed(a) > 0 => Signed(a) = a % INT
<1> DEFINE k == a % INT  q == a \div INT
<1>1. k \in 0 .. INT - 1 /\ a = INT * q + k /\ q \in Int
  BY Widths, DivMod
<1>2. q >= 0
  BY <1>1, Widths
<1>3. INT * q >= 0
  BY <1>1, <1>2, Widths
<1>4. k <= a
  BY <1>1, <1>3, Widths
<1>5. Signed(a) = IF 2 * k < INT THEN k ELSE k - INT
  BY DEF Signed
<1> HIDE DEF k, q
<1> QED
  BY <1>1, <1>4, <1>5, Widths DEF k

(* The product of a count and a size, in machine words, is at least the    *)
(* product in ints, when that one fits.                                    *)
LEMMA Product ==
  ASSUME NEW a \in 0 .. WORD - 1, NEW s \in Nat, s > 0,
         Signed(a) > 0, Signed(a) * s < INT
  PROVE  Signed(a) * s <= Word(a * s) /\ Word(a * s) \in 0 .. WORD - 1
<1> DEFINE r == a % INT  q == a \div INT  w == WORD \div INT
           Q == (a * s) \div WORD  R == (a * s) % WORD
<1>1. r \in 0 .. INT - 1 /\ a = INT * q + r /\ q \in Int
  BY Widths, DivMod
<1>2. WORD = INT * w + (WORD % INT) /\ w \in Int
  BY Widths, DivMod
<1>3. a * s \in Int /\ a * s = WORD * Q + R /\ R \in 0 .. WORD - 1 /\ Q \in Int
  <2>1. a * s \in Int
    BY Widths
  <2> QED
    BY <2>1, Widths, DivMod
<1>4. Signed(a) = r
  BY SignedLow
<1>5. Word(a * s) = R
  BY DEF Word
<1> HIDE DEF r, q, w, Q, R
<1>6. WORD = INT * w
  BY <1>2, Widths
<1> DEFINE d == q * s - w * Q
<1>7. d \in Int /\ R = INT * d + r * s
  <2>1. a * s = INT * (q * s) + r * s
    BY <1>1, Widths
  <2>2. WORD * Q = INT * (w * Q)
    BY <1>2, <1>3, <1>6, Widths
  <2> QED
    BY <1>1, <1>2, <1>3, <2>1, <2>2, Widths
<1> HIDE DEF d
<1>8. r * s \in Int /\ r * s < INT /\ r * s >= 0
  BY <1>1, <1>4, Widths
<1>9. d >= 0
  <2>1. INT * d > - INT
    BY <1>3, <1>7, <1>8, Widths
  <2>2. CASE d <= -1
    <3>1. INT * d <= - INT
      BY <1>7, <2>2, Widths
    <3> QED
      BY <1>7, <2>1, <3>1, Widths
  <2> QED
    BY <1>7, <2>2
<1>10. INT * d >= 0
  BY <1>7, <1>9, Widths
<1> QED
  BY <1>3, <1>4, <1>5, <1>7, <1>8, <1>10, Widths

IsFrame(f) == f.arg \in [1 .. 5 -> 0 .. WORD - 1]

(* What a call that passes the checks has been found to satisfy.           *)
LEMMA PassMeans ==
  ASSUME NEW f, syscall_check_params(f) = "pass"
  PROVE  ~refused_first(f) /\ ~refused_buffer(f) /\ ~asserts(f)
  BY DEF syscall_check_params

LEMMA ArgWord ==
  ASSUME NEW f, IsFrame(f), NEW i \in 0 .. 4
  PROVE  ARG(f, i) \in 0 .. WORD - 1
  BY DEF IsFrame, ARG

(* A buffer that is not refused, and that has room for n bytes, is inside. *)
LEMMA BufferInside ==
  ASSUME NEW f, ~refused_buffer(f), NEW ptr \in 0 .. WORD - 1, NEW len \in 0 .. WORD - 1,
         buffer(f) = [ptr |-> ptr, len |-> len], NEW n \in Int, n <= len
  PROVE  Reached(ptr, n) \subseteq AppMemory
<1>1. CASE ptr = 0 \/ len = 0
  <2>1. ptr = 0 \/ n <= 0
    BY <1>1
  <2> QED
    BY <2>1 DEF Reached
<1>2. CASE ptr # 0 /\ len # 0
  <2>1. check_extent(ptr, len)
    BY <1>2 DEF refused_buffer
  <2> QED
    BY <2>1, SafeIsInside
<1> QED
  BY <1>1, <1>2

(* The calls whose buffer has a length among the arguments.                *)
Counted == {"getdents", "read", "write", "connect", "bind", "getcwd", "setsockopt",
            "epoll_wait", "setgroups"}

LEMMA CountedBuffer ==
  ASSUME NEW f, f.rax \in Counted
  PROVE  buffer(f) = [ptr |-> ARG(f, CASE f.rax = "getcwd" -> 0
                                       [] f.rax = "setsockopt" -> 3
                                       [] OTHER -> 1),
                      len |-> counted_len(f)]
<1>1. f.rax \in DOMAIN ptr_arg \ DOMAIN struct_of
  BY DEF Counted, ptr_arg, struct_of
<1>2. buffer(f) = [ptr |-> ARG(f, ptr_arg[f.rax]), len |-> counted_len(f)]
  BY <1>1 DEF buffer, Counted
<1>3. ptr_arg[f.rax] = CASE f.rax = "getcwd" -> 0 [] f.rax = "setsockopt" -> 3 [] OTHER -> 1
  BY DEF Counted, ptr_arg
<1> QED
  BY Zenon, <1>2, <1>3
(* Whatever passes the checks keeps the kernel inside the memory of the    *)
(* program.                                                                *)
LEMMA PassIsInside ==
  ASSUME NEW f, IsFrame(f), syscall_check_params(f) = "pass"
  PROVE  KernelTouches(f) \subseteq AppMemory
<1>a. \A i \in 0 .. 4 : ARG(f, i) \in 0 .. WORD - 1
  BY ArgWord
<1>p. ~refused_first(f) /\ ~refused_buffer(f) /\ ~asserts(f)
  BY PassMeans
<1>s. \A x \in {"epoll_event", "gid_t", "iovec", "socklen_t"} :
         sizeof[x] \in Nat /\ sizeof[x] > 0 /\ sizeof[x] < INT
  <2>1. ASSUME NEW x \in DOMAIN sizeof
        PROVE  sizeof[x] \in Nat /\ sizeof[x] > 0 /\ sizeof[x] < INT
    <3>1. sizeof[x] \in 1 .. INT - 1
      BY ParamsAssumption
    <3> QED
      BY <3>1, Widths
  <2>2. {"epoll_event", "gid_t", "iovec", "socklen_t"} \subseteq DOMAIN sizeof
    BY ParamsAssumption
  <2> QED
    BY <2>1, <2>2
<1>1. CASE f.rax \in {"getdents", "read", "write"}
  <2>1. buffer(f) = [ptr |-> ARG(f, 1), len |-> ARG(f, 2)]
    BY <1>1, CountedBuffer DEF Counted, counted_len
  <2>2. KernelTouches(f) = Reached(ARG(f, 1), ARG(f, 2))
    BY <1>1 DEF KernelTouches
  <2> QED
    BY <1>a, <1>p, <2>1, <2>2, BufferInside
<1>2. CASE f.rax \in {"connect", "bind"}
  <2>1. buffer(f) = [ptr |-> ARG(f, 1), len |-> ARG(f, 2)]
    BY <1>2, CountedBuffer DEF Counted, counted_len
  <2>2. KernelTouches(f) = Reached(ARG(f, 1), Signed(ARG(f, 2)))
    BY <1>2 DEF KernelTouches
  <2> QED
    BY <1>a, <1>p, <2>1, <2>2, BufferInside, SignedLow
<1>3. CASE f.rax = "getcwd"
  <2>1. buffer(f) = [ptr |-> ARG(f, 0), len |-> ARG(f, 1)]
    BY <1>3, CountedBuffer DEF Counted, counted_len
  <2>2. KernelTouches(f) = Reached(ARG(f, 0), ARG(f, 1))
    BY <1>3 DEF KernelTouches
  <2> QED
    BY <1>a, <1>p, <2>1, <2>2, BufferInside
<1>4. CASE f.rax = "setsockopt"
  <2>1. buffer(f) = [ptr |-> ARG(f, 3), len |-> ARG(f, 4)]
    BY <1>4, CountedBuffer DEF Counted, counted_len
  <2>2. KernelTouches(f) = Reached(ARG(f, 3), Signed(ARG(f, 4)))
    BY <1>4 DEF KernelTouches
  <2> QED
    BY <1>a, <1>p, <2>1, <2>2, BufferInside, SignedLow
<1>5. CASE f.rax = "epoll_wait"
  <2> DEFINE n == Signed(ARG(f, 2))  s == sizeof["epoll_event"]
  <2>0. n \in Int /\ s \in Nat /\ s > 0
    BY <1>a, <1>s, SignedLow
  <2>1. buffer(f) = [ptr |-> ARG(f, 1), len |-> Word(ARG(f, 2) * s)]
    BY <1>5, CountedBuffer DEF Counted, counted_len
  <2>2. KernelTouches(f) = IF 2 * n * s < INT THEN Reached(ARG(f, 1), n * s) ELSE {}
    BY <1>5 DEF KernelTouches
  <2>3. CASE 2 * n * s < INT /\ n > 0
    <3>1. n * s < INT
      <4>1. n * s \in Int /\ n * s >= 0 /\ 2 * n * s = 2 * (n * s)
        BY <2>0, <2>3
      <4> QED
        BY <2>3, <4>1, Widths
    <3>2. n * s <= Word(ARG(f, 2) * s) /\ Word(ARG(f, 2) * s) \in 0 .. WORD - 1
      BY <1>a, <2>0, <2>3, <3>1, Product
    <3>3. n * s \in Int
      BY <2>0
    <3> HIDE DEF n, s
    <3> QED
      BY <1>a, <1>p, <2>1, <2>2, <2>3, <3>2, <3>3, BufferInside
  <2>4. CASE ~(2 * n * s < INT /\ n > 0)
    <3>1. n <= 0 => n * s <= 0
      BY <2>0
    <3> HIDE DEF n, s
    <3> QED
      BY <2>0, <2>2, <2>4, <3>1 DEF Reached
  <2> QED
    BY <2>3, <2>4
<1>6. CASE f.rax = "setgroups"
  <2> DEFINE n == Signed(ARG(f, 0))  s == sizeof["gid_t"]
  <2>0. n \in Int /\ s \in Nat /\ s > 0 /\ NGROUPS_MAX \in Nat /\ NGROUPS_MAX * s < INT
    BY <1>a, <1>s, SignedLow, ParamsAssumption
  <2>1. buffer(f) = [ptr |-> ARG(f, 1), len |-> Word(ARG(f, 0) * s)]
    BY <1>6, CountedBuffer DEF Counted, counted_len
  <2>2. KernelTouches(f) = IF n \in 0 .. NGROUPS_MAX THEN Reached(ARG(f, 1), n * s) ELSE {}
    BY <1>6 DEF KernelTouches
  <2> HIDE DEF s
  <2>3. CASE n \in 1 .. NGROUPS_MAX
    <3>1. n * s \in Int /\ n * s <= NGROUPS_MAX * s /\ NGROUPS_MAX * s \in Int
      BY <2>0, <2>3
    <3>2. n * s < INT
      BY <2>0, <3>1, Widths
    <3>3. n * s <= Word(ARG(f, 0) * s) /\ Word(ARG(f, 0) * s) \in 0 .. WORD - 1
      BY <1>a, <2>0, <2>3, <3>2, Product
    <3> HIDE DEF n
    <3> QED
      BY <1>a, <1>p, <2>1, <2>2, <2>3, <3>1, <3>3, BufferInside
  <2>4. CASE n \notin 1 .. NGROUPS_MAX
    <3>1. n = 0 => n * s = 0
      BY <2>0
    <3>2. n \in 0 .. NGROUPS_MAX => n = 0
      BY <2>0, <2>4
    <3> HIDE DEF n
    <3> QED
      BY <2>2, <3>1, <3>2 DEF Reached
  <2> QED
    BY <2>3, <2>4
<1>7. CASE f.rax \in {"readv", "writev"}
  <2> DEFINE n == ARG(f, 2)  s == sizeof["iovec"]
             v(i) == IovAt[Word(ARG(f, 1) + i * s)]
  <2>0. /\ n \in 0 .. WORD - 1 /\ s \in Nat /\ s > 0 /\ UIO_MAXIOV \in Nat
        /\ 2 * UIO_MAXIOV < INT /\ UIO_MAXIOV * s < INT
    BY <1>a, <1>s, ParamsAssumption
  <2>1. KernelTouches(f) =
          IF n <= UIO_MAXIOV
          THEN Reached(ARG(f, 1), n * s) \cup UNION {Reached(v(i).base, v(i).len) : i \in 0 .. n - 1}
          ELSE {}
    BY <1>7 DEF KernelTouches
  <2>2. SUFFICES ASSUME n <= UIO_MAXIOV
                 PROVE  /\ Reached(ARG(f, 1), n * s) \subseteq AppMemory
                        /\ \A i \in 0 .. n - 1 : Reached(v(i).base, v(i).len) \subseteq AppMemory
    BY <2>1
  <2>3. Signed(n) = n
    <3>1. n \in Nat /\ n < INT /\ 2 * n < INT
      BY <2>0, <2>2, Widths
    <3>2. n % INT = n
      <4> HIDE DEF n
      <4> QED
        BY <3>1, Widths
    <3> HIDE DEF n
    <3> QED
      BY <3>1, <3>2 DEF Signed
  <2>4. check_iovec(ARG(f, 1), n)
    BY Zenon, <1>7, <1>p, <2>3 DEF refused_first
  <2>5. /\ check_extent(ARG(f, 1), s * n)
        /\ \A i \in 0 .. n - 1 : check_extent(v(i).base, v(i).len)
    BY <2>4 DEF check_iovec
  <2>6. s * n \in 0 .. WORD - 1 /\ s * n = n * s
    <3> HIDE DEF n, s
    <3>1. n * s <= UIO_MAXIOV * s /\ n * s >= 0
      BY <2>0, <2>2, Widths
    <3> QED
      BY <2>0, <3>1, Widths
  <2>7. Reached(ARG(f, 1), n * s) \subseteq AppMemory
    <3> HIDE DEF n, s
    <3> QED
      BY <1>a, <2>5, <2>6, SafeIsInside
  <2>8. ASSUME NEW i \in 0 .. n - 1 PROVE Reached(v(i).base, v(i).len) \subseteq AppMemory
    <3>1. Word(ARG(f, 1) + i * s) \in 0 .. WORD - 1
      <4>1. ARG(f, 1) + i * s \in Int
        BY <1>a, <2>0
      <4> QED
        BY <4>1, Widths, DivMod DEF Word
    <3>2. v(i).base \in 0 .. WORD - 1 /\ v(i).len \in 0 .. WORD - 1
      BY Zenon, <3>1, ParamsAssumption
    <3>3. check_extent(v(i).base, v(i).len) /\ v(i).len <= v(i).len /\ v(i).len \in Int
      BY <2>5, <3>2
    <3> HIDE DEF v
    <3> QED
      BY <3>2, <3>3, SafeIsInside
  <2> QED
    BY <2>7, <2>8
<1>8. CASE f.rax = "accept" /\ ARG(f, 2) # 0
  <2>1. KernelTouches(f) = Reached(ARG(f, 2), sizeof["socklen_t"]) \cup Reached(ARG(f, 1), LenAt[ARG(f, 2)])
    BY <1>8 DEF KernelTouches
  <2>2. check_extent(ARG(f, 2), sizeof["socklen_t"])
    BY <1>8, <1>p DEF refused_first
  <2>3. sizeof["socklen_t"] \in 0 .. WORD - 1 /\ LenAt[ARG(f, 2)] \in 0 .. WORD - 1
    <3>1. LenAt[ARG(f, 2)] \in 0 .. INT - 1
      BY <1>a, ParamsAssumption
    <3> QED
      BY <1>s, <3>1, Widths
  <2>4. buffer(f) = [ptr |-> ARG(f, 1), len |-> LenAt[ARG(f, 2)]]
    BY <1>8 DEF buffer, struct_of, ptr_arg
  <2>5. Reached(ARG(f, 2), sizeof["socklen_t"]) \subseteq AppMemory
    BY <1>a, <2>2, <2>3, SafeIsInside
  <2>6. Reached(ARG(f, 1), LenAt[ARG(f, 2)]) \subseteq AppMemory
    BY <1>a, <1>p, <2>3, <2>4, BufferInside
  <2> QED
    BY <2>1, <2>5, <2>6
<1>9. CASE /\ f.rax \notin Counted \cup {"readv", "writev"}
           /\ ~(f.rax = "accept" /\ ARG(f, 2) # 0)
  <2>1. KernelTouches(f) = {}
    BY <1>9 DEF KernelTouches, Counted
  <2> QED
    BY Zenon, <2>1
<1> QED
  BY Zenon, <1>1, <1>2, <1>3, <1>4, <1>5, <1>6, <1>7, <1>8, <1>9 DEF Counted
-----------------------------------------------------------------------------
(* The handlers.  What is known of a thread from where it is.              *)
Frames == (UNION {Calls[t] : t \in Thread}) \cup {NoCall}
PCs == {"user", "lock", "do", "place", "load", "store", "remap", "unlock", "dead"}
ThreadRec == [pc : PCs, tf : Frames, addr : Nat, seen : Nat, fits : BOOLEAN]

Growing == {"mmap", "shmat", "mremap"}

Local(r) ==
  /\ r.pc \in {"lock", "unlock"} => need_lock(r.tf)
  /\ r.pc = "do" => KernelTouches(r.tf) \subseteq AppMemory
  /\ r.pc = "place" => r.tf.rax \in MemCall
  /\ r.pc = "load" => r.tf.rax \in Growing /\ ~Fixed(r.tf)
  /\ r.pc = "store" => r.tf.rax = "brk" \/ (r.tf.rax \in Growing /\ ~Fixed(r.tf))
  /\ r.pc = "remap" => r.tf.rax = "mremap"

Holds(r) == need_lock(r.tf) /\ r.pc \in {"do", "place", "load", "store", "remap", "unlock"}

(* The inductive invariant of the handlers.                                *)
Handlers ==
  /\ TrapTypeOK
  /\ MutexHolder
  /\ \A t \in Thread : Local(th[t])
  /\ \A t \in Thread : flt[t] \in Fault \cup {NoFault}
  /\ phase = "boot" => \A t \in Thread : th[t].pc = "user"

LEMMA NoCallFrame == IsFrame(NoCall) /\ ~need_lock(NoCall) /\ NoCall.rax \notin MemCall
<1>1. 0 \in 0 .. WORD - 1
  BY Widths
<1>2. NoCall.rax = "none" /\ NoCall.arg = <<0, 0, 0, 0, 0>>
  BY DEF NoCall
<1>3. <<0, 0, 0, 0, 0>> \in [1 .. 5 -> 0 .. WORD - 1]
  BY <1>1
<1> QED
  BY <1>2, <1>3 DEF IsFrame, need_lock, MemCall, Unlocked

LEMMA FramesAre == \A f \in Frames : IsFrame(f)
<1>1. \A t \in Thread : \A f \in Calls[t] : IsFrame(f)
  BY TrapAssumption DEF IsFrame
<1> DEFINE all == UNION {Calls[t] : t \in Thread}
<1>2. ASSUME NEW f \in all PROVE IsFrame(f)
  <2>1. PICK t \in Thread : f \in Calls[t]
    OBVIOUS
  <2> QED
    BY <1>1, <2>1
<1>3. Frames = all \cup {NoCall}
  BY DEF Frames
<1> HIDE DEF all
<1> QED
  BY <1>2, <1>3, NoCallFrame

LEMMA RoundUpNat == \A n \in Int : RoundUp(n) \in Nat /\ Word(n) \in Nat
<1>1. \A n \in Int : Word(n) \in Nat
  BY Layout, Pg, DivMod DEF Word
<1> QED
  BY <1>1, Pg, PgaddrProps DEF RoundUp

(* The lengths and addresses a memory call works with.                     *)
LEMMA NewNat ==
  ASSUME NEW f, IsFrame(f), mmap_len \in Nat
  PROVE  /\ f.rax \in Growing \cup {"brk"} => NewLen(f) \in Nat
         /\ f.rax \in Growing => NewAddr(f) \in Nat
<1>1. \A i \in 0 .. 4 : ARG(f, i) \in Nat
  BY ArgWord
<1>2. f.rax \in Growing \cup {"brk"} => NewLen(f) \in Nat
  BY <1>1, RoundUpNat, Layout DEF NewLen, Growing
<1>3. \A n \in Nat : OpenAddr(n) \in Nat
  BY RoundUpNat, Layout DEF OpenAddr, umm_get_map_pos
<1>4. ASSUME f.rax \in Growing PROVE NewAddr(f) \in Nat
  <2>1. CASE Fixed(f)
    BY <1>1, <1>4, <2>1 DEF NewAddr, Growing
  <2>2. CASE ~Fixed(f)
    BY Zenon, <1>2, <1>3, <1>4, <2>2 DEF NewAddr
  <2> QED
    BY <2>1, <2>2
<1> QED
  BY <1>2, <1>4

(* A thread goes from one place to another; the mutex stays, is taken, or  *)
(* is given back.                                                          *)
LEMMA ThreadStep ==
  ASSUME Handlers, NEW t \in Thread, NEW r \in ThreadRec,
         th' = [th EXCEPT ![t] = r], Local(r),
         \/ mtx' = mtx /\ (Holds(r) <=> Holds(th[t]))
         \/ mtx = NoThread /\ mtx' = t /\ Holds(r)
         \/ mtx = t /\ mtx' = NoThread /\ ~Holds(r),
         phase = "run", phase' \in {"run", "exit"},
         UmmTypeOK', flt' = flt, raced' \in BOOLEAN
  PROVE  Handlers'
<1>1. /\ th \in [Thread -> ThreadRec] /\ mtx \in Thread \cup {NoThread} /\ NoThread \notin Thread
      /\ flt \in [Thread -> Page \cup {NoFault}]
  BY TrapAssumption DEF Handlers, TrapTypeOK, ThreadRec, PCs, Frames
<1>2. th' \in [Thread -> ThreadRec]
  BY Zenon, <1>1
<1>3. TrapTypeOK'
  BY <1>1, <1>2 DEF TrapTypeOK, ThreadRec, PCs, Frames
<1>4. \A u \in Thread : th'[u] = IF u = t THEN r ELSE th[u]
  BY Zenon, <1>1
<1>5. \A u \in Thread : mtx = u <=> Holds(th[u])
  BY DEF Handlers, MutexHolder, Holds
<1>6. \A u \in Thread : mtx' = u <=> Holds(th'[u])
  BY <1>1, <1>4, <1>5
<1>7. MutexHolder'
  BY <1>6 DEF MutexHolder, Holds
<1>8. \A u \in Thread : Local(th'[u])
  BY <1>4 DEF Handlers
<1> QED
  BY Zenon, <1>3, <1>7, <1>8 DEF Handlers
(* What the invariant says of one thread.                                  *)
LEMMA OfThread ==
  ASSUME Handlers, NEW t \in Thread
  PROVE  /\ th \in [Thread -> ThreadRec] /\ th[t] \in ThreadRec
         /\ th[t].pc \in PCs /\ th[t].tf \in Frames /\ IsFrame(th[t].tf) /\ Local(th[t])
         /\ th[t].addr \in Nat /\ th[t].seen \in Nat /\ th[t].fits \in BOOLEAN
         /\ UmmTypeOK /\ raced \in BOOLEAN /\ (mtx = t <=> Holds(th[t]))
<1>1. th \in [Thread -> ThreadRec] /\ UmmTypeOK /\ raced \in BOOLEAN
  BY DEF Handlers, TrapTypeOK, ThreadRec, PCs, Frames
<1>2. th[t] \in ThreadRec
  BY <1>1
<1>3. /\ th[t].pc \in PCs /\ th[t].tf \in Frames
      /\ th[t].addr \in Nat /\ th[t].seen \in Nat /\ th[t].fits \in BOOLEAN
  BY <1>2 DEF ThreadRec
<1>4. Local(th[t]) /\ (mtx = t <=> Holds(th[t]))
  BY DEF Handlers, MutexHolder, Holds
<1> QED
  BY Zenon, <1>1, <1>2, <1>3, <1>4, FramesAre

(* Thread t goes on, and holds the mutex as before.                        *)
GoesOn(t) ==
  \E r \in ThreadRec :
     th' = [th EXCEPT ![t] = r] /\ Local(r) /\ (Holds(r) <=> Holds(th[t]))

LEMMA AtRec ==
  ASSUME NEW w \in PCs, NEW f \in Frames
  PROVE  At(w, f) \in ThreadRec /\ At(w, f).pc = w /\ At(w, f).tf = f
  BY DEF At, ThreadRec

LEMMA GotoRec ==
  ASSUME Handlers, NEW t \in Thread, NEW w \in PCs
  PROVE  /\ [th[t] EXCEPT !.pc = w] \in ThreadRec
         /\ [th[t] EXCEPT !.pc = w].pc = w
         /\ [th[t] EXCEPT !.pc = w].tf = th[t].tf
         /\ Goto(t, w) => th' = [th EXCEPT ![t] = [th[t] EXCEPT !.pc = w]]
  BY OfThread DEF ThreadRec, Goto

LEMMA GotoGoesOn ==
  ASSUME Handlers, NEW t \in Thread, NEW w \in PCs, Goto(t, w),
         Local([th[t] EXCEPT !.pc = w]),
         th[t].pc \in {"do", "place", "load", "store", "remap"},
         w \in {"place", "load", "store", "remap", "unlock"}
  PROVE  GoesOn(t)
<1> DEFINE r == [th[t] EXCEPT !.pc = w]
<1>1. /\ r \in ThreadRec /\ r.pc = w /\ r.tf = th[t].tf /\ th' = [th EXCEPT ![t] = r]
      /\ Local(r)
  BY GotoRec
<1> HIDE DEF r
<1>2. Holds(r) <=> Holds(th[t])
  BY <1>1 DEF Holds
<1> QED
  BY Zenon, <1>1, <1>2 DEF GoesOn

LEMMA DoneGoesOn ==
  ASSUME Handlers, NEW t \in Thread, Done(t),
         th[t].pc \in {"do", "place", "load", "store", "remap"}
  PROVE  GoesOn(t)
<1>1. CASE need_lock(th[t].tf)
  <2> DEFINE r == [th[t] EXCEPT !.pc = "unlock"]
  <2>1. Goto(t, "unlock") /\ "unlock" \in PCs
    BY <1>1 DEF Done, PCs
  <2>2. r.pc = "unlock" /\ r.tf = th[t].tf
    BY <2>1, GotoRec
  <2> HIDE DEF r
  <2>3. Local(r)
    BY <1>1, <2>2 DEF Local
  <2> QED
    BY <2>1, <2>3, GotoGoesOn DEF r
<1>2. CASE ~need_lock(th[t].tf)
  <2> DEFINE r == At("user", NoCall)
  <2>1. th' = [th EXCEPT ![t] = r]
    BY <1>2 DEF Done, Return
  <2>2. r \in ThreadRec /\ r.pc = "user"
    BY AtRec DEF PCs, Frames
  <2> HIDE DEF r
  <2>3. Local(r) /\ ~Holds(r) /\ ~Holds(th[t])
    BY <1>2, <2>2 DEF Local, Holds
  <2> QED
    BY Zenon, <2>1, <2>2, <2>3 DEF GoesOn
<1> QED
  BY <1>1, <1>2

LEMMA GoesOnKeeps ==
  ASSUME Handlers, NEW t \in Thread, GoesOn(t), phase = "run", phase' \in {"run", "exit"},
         UmmTypeOK', flt' = flt, mtx' = mtx, raced' = raced
  PROVE  Handlers'
<1>1. PICK r \in ThreadRec :
        th' = [th EXCEPT ![t] = r] /\ Local(r) /\ (Holds(r) <=> Holds(th[t]))
  BY Zenon DEF GoesOn
<1>2. raced' \in BOOLEAN
  BY OfThread
<1> QED
  BY Zenon, <1>1, <1>2, ThreadStep

(* The types of what the host kernel and the page table hold.              *)
LEMMA HostTypes ==
  ASSUME UmmTypeOK, NEW addr \in Nat, NEW len \in Nat, NEW owner \in Owner
  PROVE  /\ MapPages(addr, len, owner) => host' \in [Page -> Owner] /\ pt' \subseteq Page
         /\ MapPagesFails(addr, len) => host' \in [Page -> Owner] /\ pt' \subseteq Page
         /\ UnmapPages(addr, len) => host' \in [Page -> Owner] /\ pt' \subseteq Page
         /\ Choose(addr, len) => replaced' \subseteq Owner
<1>1. host \in [Page -> Owner] /\ pt \subseteq Page /\ replaced \subseteq Owner /\ "free" \in Owner
  BY DEF UmmTypeOK, Owner
<1>2. \A S : Holding(S, owner) \in [Page -> Owner] /\ Holding(S, "free") \in [Page -> Owner]
  BY <1>1 DEF Holding
<1>3. \A a, n : Pages(a, n) \subseteq Page
  BY DEF Pages
<1>4. Held(Pages(addr, len)) \subseteq Owner
  BY <1>1, <1>3 DEF Held
<1> QED
  BY <1>1, <1>2, <1>3, <1>4 DEF MapPages, MapPagesFails, UnmapPages, Choose
-----------------------------------------------------------------------------
(* The invariant of the handlers, action by action.                        *)
LEMMA HandlerInit == TrapInit => Handlers
<1> SUFFICES ASSUME TrapInit PROVE Handlers
  OBVIOUS
<1>1. UmmTypeOK
  BY InitInv DEF TrapInit, UmmInv
<1> DEFINE r == At("user", NoCall)
<1>2. r \in ThreadRec /\ r.pc = "user" /\ r.tf = NoCall
  BY AtRec DEF PCs, Frames
<1>3. th = [t \in Thread |-> r] /\ flt = [t \in Thread |-> NoFault] /\ mtx = NoThread /\ raced = FALSE
  BY DEF TrapInit
<1> HIDE DEF r
<1>4. th \in [Thread -> ThreadRec] /\ \A t \in Thread : th[t] = r
  BY Zenon, <1>2, <1>3
<1>5. TrapTypeOK
  BY Zenon, <1>1, <1>3, <1>4 DEF TrapTypeOK, ThreadRec, PCs, Frames
<1>6. MutexHolder
  BY <1>2, <1>3, <1>4, TrapAssumption DEF MutexHolder
<1>7. Local(r)
  BY <1>2 DEF Local
<1> QED
  BY Zenon, <1>2, <1>3, <1>4, <1>5, <1>6, <1>7 DEF Handlers

LEMMA HandlerBoot ==
  ASSUME Handlers, Boot, UmmTypeOK'
  PROVE  Handlers'
<1>1. th' = th /\ flt' = flt /\ mtx' = mtx /\ raced' = raced /\ phase' # "boot"
  BY DEF Boot, umm_alloc_stack
<1> QED
  BY <1>1 DEF Handlers, TrapTypeOK, MutexHolder

(* Types after boot: the stack is placed like any mapping.                 *)
LEMMA BootTypes ==
  ASSUME UmmTypeOK, umm_alloc_stack
  PROVE  UmmTypeOK'
<1> DEFINE a == PGADDR(umm_get_map_pos) - APP_STACK_SIZE + PGSIZE
           n == APP_STACK_SIZE - PGSIZE
<1>0. brk_len \in Nat /\ mmap_len \in Nat
  BY DEF UmmTypeOK
<1>1. /\ MapPages(a, n, "stack") \/ MapPagesFails(a, n)
      /\ Choose(a, n) /\ phase' \in {"run", "exit"} /\ brk_len' = brk_len
      /\ mmap_len' = mmap_len \/ mmap_len' = mmap_len + APP_STACK_SIZE + PGOFF(umm_get_map_pos)
  BY Zenon DEF umm_alloc_stack
<1> HIDE DEF a, n
<1>2. host' \in [Page -> Owner] /\ pt' \subseteq Page /\ replaced' \subseteq Owner
  <2>1. /\ host \in [Page -> Owner] /\ pt \subseteq Page /\ replaced \subseteq Owner
        /\ "free" \in Owner /\ "stack" \in Owner
    BY DEF UmmTypeOK, Owner
  <2>2. \A b, m : Pages(b, m) \subseteq Page
    BY DEF Pages
  <2>3. Held(Pages(a, n)) \subseteq Owner
    BY <2>1, <2>2 DEF Held
  <2>4. \A S : Holding(S, "stack") \in [Page -> Owner] /\ Holding(S, "free") \in [Page -> Owner]
    BY <2>1 DEF Holding
  <2> QED
    BY Zenon, <1>1, <2>1, <2>2, <2>3, <2>4 DEF MapPages, MapPagesFails, Choose
<1>3. PGOFF(umm_get_map_pos) \in Nat
  <2>1. umm_get_map_pos \in Int
    BY <1>0, Layout DEF umm_get_map_pos
  <2> QED
    BY <2>1, Pg, DivMod DEF PGOFF
<1>4. mmap_len' \in Nat
  BY <1>0, <1>1, <1>3, Layout
<1> QED
  BY <1>0, <1>1, <1>2, <1>4 DEF UmmTypeOK

LEMMA UmmUnchanged ==
  ASSUME UmmTypeOK, phase' \in {"boot", "run", "exit"},
         UNCHANGED <<brk_len, mmap_len, host, pt, replaced>>
  PROVE  UmmTypeOK'
  BY Zenon DEF UmmTypeOK

LEMMA HandlerCall ==
  ASSUME Handlers, NEW t \in Thread, NEW f \in Calls[t], syscall_handler(t, f)
  PROVE  Handlers'
<1> DEFINE w == IF need_lock(f) THEN "lock" ELSE "do"  r == At(w, f)
<1>0. f \in Frames /\ w \in PCs
  BY DEF Frames, PCs
<1>1. /\ phase = "run" /\ th[t].pc = "user" /\ th' = [th EXCEPT ![t] = r]
      /\ phase' = "run" /\ flt' = flt /\ mtx' = mtx /\ raced' \in BOOLEAN
      /\ UNCHANGED <<brk_len, mmap_len, host, pt, replaced>>
      /\ syscall_check_params(f) = "pass"
  <2>1. raced \in BOOLEAN
    BY Zenon, OfThread
  <2>2. raced' \in BOOLEAN
    BY Zenon, <2>1 DEF syscall_handler, Begin
  <2> QED
    BY Zenon, <2>2 DEF syscall_handler, Runs, uvars
<1>2. r \in ThreadRec /\ r.pc = w /\ r.tf = f
  BY <1>0, AtRec
<1>3. KernelTouches(f) \subseteq AppMemory
  BY <1>0, <1>1, FramesAre, PassIsInside
<1> HIDE DEF r
<1>4. Local(r)
  BY <1>2, <1>3 DEF Local
<1>5. ~Holds(r) /\ ~Holds(th[t])
  BY Zenon, <1>1, <1>2 DEF Holds
<1>6. UmmTypeOK'
  BY Zenon, <1>1, OfThread, UmmUnchanged
<1> QED
  BY Zenon, <1>1, <1>2, <1>4, <1>5, <1>6, ThreadStep

(* The process ends, and everything else stays.                            *)
LEMMA HandlerExits ==
  ASSUME Handlers, NEW t \in Thread, phase = "run", phase' = "exit",
         UNCHANGED <<brk_len, mmap_len, host, replaced, th, flt, mtx, raced>>,
         pt' \subseteq Page
  PROVE  Handlers'
<1>1. UmmTypeOK'
  BY Zenon, OfThread DEF UmmTypeOK
<1> QED
  BY <1>1 DEF Handlers, TrapTypeOK, MutexHolder

LEMMA HandlerLock ==
  ASSUME Handlers, NEW t \in Thread, Lock(t)
  PROVE  Handlers'
<1> DEFINE r == [th[t] EXCEPT !.pc = "do"]
<1>1. /\ phase = "run" /\ th[t].pc = "lock" /\ Goto(t, "do") /\ "do" \in PCs
      /\ phase' = "run" /\ flt' = flt /\ mtx = NoThread /\ mtx' = t
      /\ UNCHANGED <<brk_len, mmap_len, host, pt, replaced>>
  BY DEF Lock, Runs, uvars, PCs
<1>2. raced' \in BOOLEAN
  BY OfThread DEF Lock, Begin
<1>3. r \in ThreadRec /\ r.pc = "do" /\ r.tf = th[t].tf /\ th' = [th EXCEPT ![t] = r]
  BY ZenonT(30), <1>1, GotoRec
<1> HIDE DEF r
<1>4. need_lock(r.tf)
  BY <1>1, <1>3, OfThread DEF Local
<1>5. KernelTouches(r.tf) = {}
  BY Zenon, <1>4 DEF need_lock, KernelTouches
<1>6. Local(r) /\ Holds(r)
  BY Zenon, <1>3, <1>4, <1>5 DEF Local, Holds
<1>7. UmmTypeOK'
  BY Zenon, <1>1, OfThread, UmmUnchanged
<1> QED
  BY ZenonT(30), <1>1, <1>2, <1>3, <1>6, <1>7, ThreadStep

(* Unlock, the end of the thread: it is in user mode or dead.              *)
LEMMA HandlerUnlock ==
  ASSUME Handlers, NEW t \in Thread, Unlock(t)
  PROVE  Handlers'
<1> DEFINE r == At("user", NoCall)
<1>1. /\ phase = "run" /\ th[t].pc = "unlock" /\ th' = [th EXCEPT ![t] = r]
      /\ phase' = "run" /\ flt' = flt /\ mtx' = NoThread /\ raced' = raced
      /\ UNCHANGED <<brk_len, mmap_len, host, pt, replaced>>
  BY Zenon DEF Unlock, Runs, Return, uvars
<1>2. r \in ThreadRec /\ r.pc = "user"
  BY AtRec DEF PCs, Frames
<1> HIDE DEF r
<1>3. Local(r) /\ ~Holds(r)
  BY ZenonT(30), <1>2 DEF Local, Holds
<1>4. mtx = t
  BY <1>1, OfThread DEF Local, Holds
<1>5. UmmTypeOK' /\ raced' \in BOOLEAN
  BY Zenon, <1>1, OfThread, UmmUnchanged
<1> QED
  BY ZenonT(30), <1>1, <1>2, <1>3, <1>4, <1>5, ThreadStep

LEMMA HandlerDies ==
  ASSUME Handlers, NEW t \in Thread, phase = "run", ~Holds(th[t]),
         th' = [th EXCEPT ![t] = At("dead", NoCall)],
         UNCHANGED <<uvars, flt, mtx, raced>>
  PROVE  Handlers'
<1> DEFINE r == At("dead", NoCall)
<1>1. r \in ThreadRec /\ r.pc = "dead"
  BY AtRec DEF PCs, Frames
<1>0. th' = [th EXCEPT ![t] = r]
  OBVIOUS
<1> HIDE DEF r
<1>2. Local(r) /\ ~Holds(r)
  BY <1>1 DEF Local, Holds
<1>3. /\ phase' = "run" /\ flt' = flt /\ mtx' = mtx /\ raced' = raced
      /\ UNCHANGED <<brk_len, mmap_len, host, pt, replaced>>
  BY DEF uvars
<1>4. UmmTypeOK' /\ raced' \in BOOLEAN
  BY <1>3, OfThread, UmmUnchanged
<1> QED
  BY Zenon, <1>0, <1>1, <1>2, <1>3, <1>4, ThreadStep
(* A call that is passed through, refused, or that finds nothing to do.    *)
LEMMA HandlerPasses ==
  ASSUME Handlers, NEW t \in Thread,
         OtherCall(t) \/ Test(t) \/ HostRefuses(t) \/ FaultInRing3(t)
  PROVE  Handlers'
<1>1. /\ phase = "run" /\ UNCHANGED <<uvars, flt, mtx, raced>>
      /\ phase' = "run" /\ flt' = flt /\ mtx' = mtx /\ raced' = raced
      /\ UNCHANGED <<brk_len, mmap_len, host, pt, replaced>>
  BY Zenon DEF OtherCall, Test, HostRefuses, FaultInRing3, Runs, uvars
<1>2. UmmTypeOK'
  BY Zenon, <1>1, OfThread, UmmUnchanged
<1>3. CASE th' = [th EXCEPT ![t] = At("dead", NoCall)] /\ (OtherCall(t) \/ FaultInRing3(t))
  <2>1. ~Holds(th[t])
    BY Zenon, <1>3 DEF Holds, OtherCall, FaultInRing3, Runs, need_lock, MemCall
  <2> QED
    BY Zenon, <1>1, <1>3, <2>1, HandlerDies
<1>4. CASE Done(t) /\ th[t].pc \in {"do", "place"}
  <2>1. GoesOn(t)
    BY Zenon, <1>4, DoneGoesOn
  <2> QED
    BY Zenon, <1>1, <1>2, <2>1, GoesOnKeeps
<1>5. CASE Goto(t, "place") /\ th[t].pc = "do" /\ th[t].tf.rax \in MemCall
  <2> DEFINE r == [th[t] EXCEPT !.pc = "place"]
  <2>1. r.pc = "place" /\ r.tf = th[t].tf /\ "place" \in PCs
    BY Zenon, GotoRec DEF PCs
  <2> HIDE DEF r
  <2>2. Local(r)
    BY Zenon, <1>5, <2>1 DEF Local
  <2>3. GoesOn(t)
    BY Zenon, <1>5, <2>1, <2>2, GotoGoesOn DEF r
  <2> QED
    BY <1>1, <1>2, <2>3, GoesOnKeeps
<1> QED
  BY Zenon, <1>3, <1>4, <1>5 DEF OtherCall, Test, HostRefuses, FaultInRing3, Runs

LEMMA HandlerUnmap ==
  ASSUME Handlers, NEW t \in Thread, PlaceUnmap(t)
  PROVE  Handlers'
<1>1. /\ phase = "run" /\ th[t].pc = "place" /\ Done(t)
      /\ phase' = "run" /\ flt' = flt /\ mtx' = mtx /\ raced' = raced
      /\ UNCHANGED <<brk_len, mmap_len, replaced>>
      /\ \/ UnmapPages(ARG(th[t].tf, 0), ARG(th[t].tf, 1))
         \/ UNCHANGED <<host, pt>>
  BY DEF PlaceUnmap, Runs
<1>2. ARG(th[t].tf, 0) \in Nat /\ ARG(th[t].tf, 1) \in Nat
  BY OfThread, ArgWord
<1>3. host' \in [Page -> Owner] /\ pt' \subseteq Page
  <2>1. UmmTypeOK /\ "free" \in Owner
    BY Zenon, OfThread DEF Owner
  <2> QED
    BY Zenon, <1>1, <1>2, <2>1, HostTypes DEF UmmTypeOK
<1>4. UmmTypeOK'
  BY Zenon, <1>1, <1>3, OfThread DEF UmmTypeOK
<1>5. GoesOn(t)
  BY Zenon, <1>1, DoneGoesOn
<1> QED
  BY Zenon, <1>1, <1>4, <1>5, GoesOnKeeps

LEMMA HandlerBrk ==
  ASSUME Handlers, NEW t \in Thread, PlaceBrk(t)
  PROVE  Handlers'
<1> DEFINE len == NewLen(th[t].tf)
<1>1. /\ phase = "run" /\ th[t].pc = "place" /\ th[t].tf.rax = "brk"
      /\ phase' = "run" /\ flt' = flt /\ mtx' = mtx /\ raced' = raced
      /\ UNCHANGED <<brk_len, mmap_len>>
      /\ Done(t) \/ Goto(t, "store")
      /\ \/ UNCHANGED <<host, pt, replaced>>
         \/ len < brk_len /\ UnmapPages(mmap_base + len, brk_len - len) /\ UNCHANGED replaced
         \/ /\ len > brk_len
            /\ \/ MapPages(mmap_base + brk_len, len - brk_len, "heap")
               \/ MapPagesFails(mmap_base + brk_len, len - brk_len)
            /\ Choose(mmap_base + brk_len, len - brk_len)
  BY DEF PlaceBrk, Runs
<1>2. UmmTypeOK /\ brk_len \in Nat /\ mmap_len \in Nat
  BY Zenon, OfThread DEF UmmTypeOK
<1>3. len \in Nat
  BY Zenon, <1>1, <1>2, OfThread, NewNat
<1> HIDE DEF len
<1>4. /\ mmap_base + len \in Nat /\ mmap_base + brk_len \in Nat
      /\ (len < brk_len => brk_len - len \in Nat) /\ (len > brk_len => len - brk_len \in Nat)
  BY <1>2, <1>3, Layout
<1>5. host' \in [Page -> Owner] /\ pt' \subseteq Page /\ replaced' \subseteq Owner
  <2>1. "heap" \in Owner
    BY DEF Owner
  <2>2. host \in [Page -> Owner] /\ pt \subseteq Page /\ replaced \subseteq Owner
    BY Zenon, <1>2 DEF UmmTypeOK
  <2> QED
    BY <1>1, <1>2, <1>4, <2>1, <2>2, HostTypes
<1>6. UmmTypeOK'
  BY Zenon, <1>1, <1>2, <1>5 DEF UmmTypeOK
<1>7. GoesOn(t)
  <2>1. CASE Done(t)
    BY <1>1, <2>1, DoneGoesOn
  <2>2. CASE Goto(t, "store")
    <3> DEFINE r == [th[t] EXCEPT !.pc = "store"]
    <3>1. r.pc = "store" /\ r.tf = th[t].tf /\ "store" \in PCs
      BY Zenon, GotoRec DEF PCs
    <3> HIDE DEF r
    <3>2. Local(r)
      BY Zenon, <1>1, <3>1 DEF Local
    <3> QED
      BY Zenon, <1>1, <2>2, <3>1, <3>2, GotoGoesOn DEF r
  <2> QED
    BY ZenonT(30), <1>1, <2>1, <2>2
<1> QED
  BY ZenonT(30), <1>1, <1>6, <1>7, GoesOnKeeps

LEMMA HandlerMap ==
  ASSUME Handlers, NEW t \in Thread, PlaceMap(t)
  PROVE  Handlers'
<1> DEFINE f == th[t].tf  addr == NewAddr(f)  len == NewLen(f)
           owner == IF Fixed(f) THEN "fixed" ELSE "auto"
<1>1. /\ phase = "run" /\ th[t].pc = "place" /\ f.rax \in {"mmap", "shmat"}
      /\ phase' = "run" /\ flt' = flt /\ mtx' = mtx /\ raced' = raced
      /\ UNCHANGED <<brk_len, mmap_len>>
      /\ Done(t) \/ (~Fixed(f) /\ Goto(t, "load"))
      /\ MapPages(addr, len, owner) \/ MapPagesFails(addr, len)
      /\ replaced' = replaced \/ Choose(addr, len)
  BY Zenon DEF PlaceMap, Runs
<1>2. UmmTypeOK /\ brk_len \in Nat /\ mmap_len \in Nat /\ replaced \subseteq Owner
  BY Zenon, OfThread DEF UmmTypeOK
<1>3. addr \in Nat /\ len \in Nat /\ owner \in Owner
  BY Zenon, <1>1, <1>2, OfThread, NewNat DEF Growing, Owner
<1>4. host' \in [Page -> Owner] /\ pt' \subseteq Page /\ replaced' \subseteq Owner
  <2> HIDE DEF addr, len, owner
  <2> QED
    BY Zenon, <1>1, <1>2, <1>3, HostTypes
<1>5. UmmTypeOK'
  BY Zenon, <1>1, <1>2, <1>4 DEF UmmTypeOK
<1>6. GoesOn(t)
  <2>1. CASE Done(t)
    BY <1>1, <2>1, DoneGoesOn
  <2>2. CASE ~Fixed(f) /\ Goto(t, "load")
    <3> DEFINE r == [th[t] EXCEPT !.pc = "load"]
    <3>1. r.pc = "load" /\ r.tf = th[t].tf /\ "load" \in PCs
      BY Zenon, GotoRec DEF PCs
    <3> HIDE DEF r
    <3>2. Local(r)
      BY Zenon, <1>1, <2>2, <3>1 DEF Local, Growing
    <3> QED
      BY Zenon, <1>1, <2>2, <3>1, <3>2, GotoGoesOn DEF r
  <2> QED
    BY ZenonT(30), <1>1, <2>1, <2>2
<1> QED
  BY Zenon, <1>1, <1>5, <1>6, GoesOnKeeps
LEMMA HandlerMove ==
  ASSUME Handlers, NEW t \in Thread, PlaceMove(t)
  PROVE  Handlers'
<1> DEFINE f == th[t].tf  addr == NewAddr(f)  len == NewLen(f)
           w == IF Fixed(f) THEN "remap" ELSE "load"
<1>1. /\ phase = "run" /\ th[t].pc = "place" /\ f.rax = "mremap"
      /\ phase' = "run" /\ flt' = flt /\ mtx' = mtx /\ raced' = raced
      /\ UNCHANGED <<brk_len, mmap_len, pt>>
      /\ replaced' = replaced \/ Choose(addr, len)
  BY DEF PlaceMove, Runs
<1>2. UmmTypeOK /\ brk_len \in Nat /\ mmap_len \in Nat /\ replaced \subseteq Owner /\ pt \subseteq Page
  BY Zenon, OfThread DEF UmmTypeOK
<1>3. addr \in Nat /\ len \in Nat
  BY Zenon, <1>1, <1>2, OfThread, NewNat DEF Growing
<1>4. host' \in [Page -> Owner]
  BY Zenon, <1>2 DEF PlaceMove, UmmTypeOK, Owner
<1>5. replaced' \subseteq Owner
  <2>1. "free" \in Owner
    BY Zenon DEF Owner
  <2> HIDE DEF addr, len
  <2> QED
    BY Zenon, <1>1, <1>2, <1>3, <2>1, HostTypes
<1>6. UmmTypeOK'
  BY Zenon, <1>1, <1>2, <1>4, <1>5 DEF UmmTypeOK
<1>7. GoesOn(t)
  <2>1. PICK b \in BOOLEAN : th' = [th EXCEPT ![t].pc = w, ![t].addr = addr, ![t].fits = b]
    BY Zenon DEF PlaceMove
  <2> DEFINE r == [th[t] EXCEPT !.pc = w, !.addr = addr, !.fits = b]
  <2>2. th' = [th EXCEPT ![t] = r]
    BY Zenon, <2>1, OfThread
  <2>3. r \in ThreadRec /\ r.pc = w /\ r.tf = f /\ w \in {"load", "remap"}
    BY ZenonT(30), <1>3, OfThread DEF ThreadRec, PCs
  <2> HIDE DEF r
  <2>4. Local(r)
    BY Zenon, <1>1, <2>3 DEF Local, Growing
  <2>5. Holds(r) <=> Holds(th[t])
    BY Zenon, <1>1, <2>3 DEF Holds
  <2> QED
    BY Zenon, <2>2, <2>3, <2>4, <2>5 DEF GoesOn
<1> QED
  BY Zenon, <1>1, <1>6, <1>7, GoesOnKeeps

LEMMA HandlerLoad ==
  ASSUME Handlers, NEW t \in Thread, Load(t)
  PROVE  Handlers'
<1>1. /\ phase = "run" /\ th[t].pc = "load"
      /\ phase' = "run" /\ flt' = flt /\ mtx' = mtx /\ raced' = raced
      /\ UNCHANGED <<brk_len, mmap_len, host, pt, replaced>>
  BY Zenon DEF Load, Runs, uvars
<1>2. UmmTypeOK' /\ mmap_len \in Nat
  BY Zenon, <1>1, OfThread, UmmUnchanged DEF UmmTypeOK
<1> DEFINE r == [th[t] EXCEPT !.pc = "store", !.seen = mmap_len]
<1>3. th' = [th EXCEPT ![t] = r]
  BY Zenon, OfThread DEF Load
<1>4. r \in ThreadRec /\ r.pc = "store" /\ r.tf = th[t].tf
  BY Zenon, <1>2, OfThread DEF ThreadRec, PCs
<1> HIDE DEF r
<1>5. Local(r)
  BY Zenon, <1>1, <1>4, OfThread DEF Local
<1>6. Holds(r) <=> Holds(th[t])
  BY Zenon, <1>1, <1>4 DEF Holds
<1>7. GoesOn(t)
  BY ZenonT(30), <1>3, <1>4, <1>5, <1>6 DEF GoesOn
<1> QED
  BY Zenon, <1>1, <1>2, <1>7, GoesOnKeeps

LEMMA HandlerStore ==
  ASSUME Handlers, NEW t \in Thread, Store(t)
  PROVE  Handlers'
<1> DEFINE f == th[t].tf
<1>1. /\ phase = "run" /\ th[t].pc = "store"
      /\ phase' = "run" /\ flt' = flt /\ mtx' = mtx /\ raced' = raced
      /\ UNCHANGED <<host, pt, replaced>>
      /\ IF f.rax = "brk" THEN brk_len' = NewLen(f) /\ UNCHANGED mmap_len
                          ELSE mmap_len' = th[t].seen + RoundUp(NewLen(f)) /\ UNCHANGED brk_len
      /\ IF f.rax = "mremap" THEN Goto(t, "remap") ELSE Done(t)
  BY DEF Store, Runs
<1>2. UmmTypeOK /\ brk_len \in Nat /\ mmap_len \in Nat /\ f.rax \in Growing \cup {"brk"}
  BY Zenon, <1>1, OfThread DEF UmmTypeOK, Local
<1>3. NewLen(f) \in Nat /\ th[t].seen \in Nat
  BY Zenon, <1>2, OfThread, NewNat
<1>4. RoundUp(NewLen(f)) \in Nat
  BY <1>3, RoundUpNat
<1>5. brk_len' \in Nat /\ mmap_len' \in Nat
  <2>1. th[t].seen + RoundUp(NewLen(f)) \in Nat
    BY <1>3, <1>4
  <2> QED
    BY Zenon, <1>1, <1>2, <1>3, <2>1
<1>6. UmmTypeOK'
  BY Zenon, <1>1, <1>2, <1>5 DEF UmmTypeOK
<1>7. GoesOn(t)
  <2>1. CASE f.rax # "mremap"
    BY Zenon, <1>1, <2>1, DoneGoesOn
  <2>2. CASE f.rax = "mremap"
    <3> DEFINE r == [th[t] EXCEPT !.pc = "remap"]
    <3>1. r.pc = "remap" /\ r.tf = th[t].tf /\ "remap" \in PCs
      BY Zenon, GotoRec DEF PCs
    <3> HIDE DEF r
    <3>2. Local(r)
      BY Zenon, <2>2, <3>1 DEF Local
    <3> QED
      BY Zenon, <1>1, <2>2, <3>1, <3>2, GotoGoesOn DEF r
  <2> QED
    BY Zenon, <2>1, <2>2
<1> QED
  BY Zenon, <1>1, <1>6, <1>7, GoesOnKeeps

LEMMA HandlerRemap ==
  ASSUME Handlers, NEW t \in Thread, Remap(t)
  PROVE  Handlers'
<1>1. /\ phase = "run" /\ th[t].pc = "remap"
      /\ flt' = flt /\ mtx' = mtx /\ raced' = raced
      /\ UNCHANGED <<brk_len, mmap_len, host, replaced>>
      /\ \/ pt' = (pt \ OldPages(t)) \cup NewPages(t) /\ Done(t) /\ phase' = phase
         \/ pt' = pt \ OldPages(t) /\ th' = th /\ phase' = "exit"
  BY Zenon DEF Remap, Runs
<1>2. UmmTypeOK /\ pt \subseteq Page /\ OldPages(t) \subseteq Page /\ NewPages(t) \subseteq Page
  BY Zenon, OfThread DEF UmmTypeOK, OldPages, NewPages, Pages
<1>3. pt' \subseteq Page
  BY Zenon, <1>1, <1>2
<1>4. CASE th' = th /\ phase' = "exit"
  BY Zenon, <1>1, <1>3, <1>4, HandlerExits
<1>5. CASE Done(t) /\ phase' = phase
  <2>1. UmmTypeOK'
    BY Zenon, <1>1, <1>2, <1>3, <1>5 DEF UmmTypeOK
  <2>2. GoesOn(t)
    BY Zenon, <1>1, <1>5, DoneGoesOn
  <2> QED
    BY Zenon, <1>1, <1>5, <2>1, <2>2, GoesOnKeeps
<1> QED
  BY Zenon, <1>1, <1>4, <1>5

LEMMA HandlerFaults ==
  ASSUME Handlers, NEW t \in Thread,
         pgflt_enters(t) \/ \E p \in Fault : FaultInRing0(t, p)
  PROVE  Handlers'
<1>0. /\ flt \in [Thread -> Page \cup {NoFault}] /\ Fault \subseteq Page
      /\ \A u \in Thread : flt[u] \in Fault \cup {NoFault}
  BY Zenon, UmmAssumption DEF Handlers, TrapTypeOK
<1>1. /\ phase = "run" /\ phase' = phase /\ th' = th /\ mtx' = mtx /\ raced' = raced
      /\ UNCHANGED <<brk_len, mmap_len, host, replaced>>
      /\ \E q \in Fault \cup {NoFault} : flt' = [flt EXCEPT ![t] = q]
      /\ pt' = pt \/ (flt[t] # NoFault /\ pt' = pt \cup {flt[t]})
  BY Zenon DEF pgflt_enters, FaultInRing0, uvars
<1>2. pt' \subseteq Page
  BY <1>0, <1>1, OfThread DEF UmmTypeOK
<1>3. UmmTypeOK'
  BY Zenon, <1>1, <1>2, OfThread DEF UmmTypeOK
<1>4. flt' \in [Thread -> Page \cup {NoFault}] /\ \A u \in Thread : flt'[u] \in Fault \cup {NoFault}
  BY Zenon, <1>0, <1>1
<1> QED
  BY Zenon, <1>1, <1>3, <1>4 DEF Handlers, TrapTypeOK, MutexHolder

LEMMA HandlerNext == Handlers /\ [TrapNext]_tvars => Handlers'
<1> SUFFICES ASSUME Handlers, [TrapNext]_tvars PROVE Handlers'
  OBVIOUS
<1>1. CASE UNCHANGED tvars
  BY Zenon, <1>1 DEF tvars, uvars, Handlers, TrapTypeOK, UmmTypeOK, MutexHolder
<1>2. CASE Boot
  BY Zenon, <1>2, BootTypes, HandlerBoot DEF Boot, Handlers, TrapTypeOK
<1>3. ASSUME NEW t \in Thread, NEW f \in Calls[t], CheckAborts(t, f) PROVE Handlers'
  BY Zenon, <1>3, OfThread, HandlerExits DEF CheckAborts, Runs, UmmTypeOK
<1>4. ASSUME NEW t \in Thread, ExecExits(t) PROVE Handlers'
  BY Zenon, <1>4, OfThread, HandlerExits DEF ExecExits, Runs, UmmTypeOK
<1>5. ASSUME NEW t \in Thread, HandlerStep(t) PROVE Handlers'
  BY Zenon, <1>4, <1>5, HandlerLock, HandlerUnlock, HandlerPasses, HandlerUnmap, HandlerBrk, HandlerMap,
     HandlerMove, HandlerLoad, HandlerStore, HandlerRemap, HandlerFaults DEF HandlerStep
<1> QED
  BY Zenon, <1>1, <1>2, <1>3, <1>5, HandlerCall, HandlerFaults, HandlerPasses DEF TrapNext

(* The invariant of the handlers, for any number of threads and calls.     *)
THEOREM HandlersHold == TrapSpec => []Handlers
<1> QED
  BY HandlerInit, HandlerNext, PTL DEF TrapSpec

(* No interleaving of memory calls drives a counter below zero or puts     *)
(* anything but pages into the page table (trap.c:643-658; umm.c:24-26).   *)
THEOREM TrapTyped == TrapSpec => []TrapTypeOK
<1>1. Handlers => TrapTypeOK
  BY Zenon DEF Handlers
<1> QED
  BY <1>1, HandlersHold, PTL

(* _syscall_mtx is held exactly between lock and unlock of syscall_do      *)
(* (trap.c:639-658).                                                       *)
THEOREM MutexHeld == TrapSpec => []MutexHolder
<1>1. Handlers => MutexHolder
  BY Zenon DEF Handlers
<1> QED
  BY <1>1, HandlersHold, PTL

(* Whatever count, length or address a call that is passed through has,    *)
(* the kernel stays in the memory of the program (trap.c:243-256,          *)
(* 288-346, 524).                                                          *)
THEOREM PassedStaysInside == TrapSpec => []PassedIsInside
<1>1. Handlers => PassedIsInside
  BY Zenon DEF Handlers, PassedIsInside, Local
<1> QED
  BY <1>1, HandlersHold, PTL
-----------------------------------------------------------------------------
(* Until a race, one memory call at a time is in progress; what it tested  *)
(* and loaded still holds when it uses it.                                 *)
Sole(t) == \A u \in Thread : InMem(u) => u = t

Alone == ~raced => \A t \in Thread : InMem(t) => Sole(t)

Ready ==
  ~raced => \A t \in Thread :
              /\ th[t].pc = "place" => Accepted(th[t].tf)
              /\ th[t].pc = "store" /\ th[t].tf.rax \in Growing => th[t].seen = mmap_len

InMemRec(r) == r.tf.rax \in MemCall /\ r.pc \in {"do", "place", "load", "store", "remap"}

LEMMA AcceptedKept ==
  ASSUME NEW u \in Thread, th'[u].tf = th[u].tf, brk_len' = brk_len, mmap_len' = mmap_len
  PROVE  Accepted(th[u].tf)' <=> Accepted(th[u].tf)
  BY DEF Accepted, NewAddr, NewLen, Fixed, OpenAddr, umm_get_map_pos, umm_space_left,
         mem_ref_is_safe, ARG

(* A thread that tests, places or stores is in a memory call.              *)
LEMMA BusyInMem ==
  ASSUME NEW r, Local(r), r.pc \in {"place", "load", "store", "remap"}
  PROVE  InMemRec(r)
  BY Zenon DEF Local, InMemRec, Growing, MemCall, Unlocked

LEMMA SerialStep ==
  ASSUME Handlers, Alone, Ready, NEW t \in Thread, NEW r, th' = [th EXCEPT ![t] = r],
         ~raced' => ~raced,
         ~raced' /\ InMemRec(r) => \A u \in Thread \ {t} : ~InMem(u),
         (brk_len' = brk_len /\ mmap_len' = mmap_len) \/ InMem(t),
         ~raced' /\ r.pc = "place" =>
            Accepted(th[t].tf) /\ r.tf = th[t].tf /\ brk_len' = brk_len /\ mmap_len' = mmap_len,
         r.pc = "store" /\ r.tf.rax \in Growing => r.seen = mmap_len'
  PROVE  Alone' /\ Ready'
<1> SUFFICES ASSUME ~raced' PROVE Alone' /\ Ready'
  BY Zenon DEF Alone, Ready
<1>0. ~raced /\ th \in [Thread -> ThreadRec]
  BY Zenon, OfThread
<1>1. th'[t] = r /\ \A u \in Thread \ {t} : th'[u] = th[u]
  BY Zenon, <1>0
<1>2. \A u \in Thread : (InMem(u) <=> InMemRec(th[u])) /\ (InMem(u)' <=> InMemRec(th'[u]))
  BY Zenon DEF InMem, InMemRec
<1>3. \A u \in Thread \ {t} : InMem(u)' <=> InMem(u)
  BY Zenon, <1>1, <1>2
<1>4. ASSUME NEW u \in Thread, NEW v \in Thread, InMem(u)', InMem(v)' PROVE v = u
  <2>1. ASSUME NEW x \in Thread, NEW y \in Thread, InMem(x), InMem(y) PROVE y = x
    BY Zenon, <1>0, <2>1 DEF Alone, Sole
  <2>2. InMem(t)' => InMemRec(r)
    BY Zenon, <1>1, <1>2
  <2> QED
    BY Zenon, <1>3, <1>4, <2>1, <2>2
<1>5. Alone'
  BY Zenon, <1>4 DEF Alone, Sole
<1>6. ASSUME NEW u \in Thread, u # t
      PROVE  /\ (th[u].pc = "place" => Accepted(th[u].tf))'
             /\ (th[u].pc = "store" /\ th[u].tf.rax \in Growing => th[u].seen = mmap_len)'
  <2>1. th'[u] = th[u] /\ Local(th[u])
    BY Zenon, <1>1, <1>6, OfThread
  <2>2. SUFFICES ASSUME th[u].pc \in {"place", "store"}
                 PROVE  /\ (th[u].pc = "place" => Accepted(th[u].tf))'
                        /\ (th[u].pc = "store" /\ th[u].tf.rax \in Growing => th[u].seen = mmap_len)'
    BY Zenon, <2>1
  <2>3. InMem(u)
    BY Zenon, <1>2, <2>1, <2>2, BusyInMem
  <2>4. ~InMem(t)
    BY Zenon, <1>0, <1>6, <2>3 DEF Alone, Sole
  <2>5. brk_len' = brk_len /\ mmap_len' = mmap_len
    BY Zenon, <2>4
  <2>6. th[u].pc = "place" => Accepted(th[u].tf)
    BY Zenon, <1>0 DEF Ready
  <2>7. Accepted(th[u].tf)' <=> Accepted(th[u].tf)
    BY Zenon, <2>1, <2>5, AcceptedKept
  <2>8. th[u].pc = "store" /\ th[u].tf.rax \in Growing => th[u].seen = mmap_len
    BY Zenon, <1>0 DEF Ready
  <2> QED
    BY Zenon, <2>1, <2>5, <2>6, <2>7, <2>8
<1>7. /\ (th[t].pc = "place" => Accepted(th[t].tf))'
      /\ (th[t].pc = "store" /\ th[t].tf.rax \in Growing => th[t].seen = mmap_len)'
  <2>1. r.pc = "place" => Accepted(th[t].tf)'
    <3>1. SUFFICES ASSUME r.pc = "place" PROVE Accepted(th[t].tf)'
      OBVIOUS
    <3>2. Accepted(th[t].tf) /\ th'[t].tf = th[t].tf /\ brk_len' = brk_len /\ mmap_len' = mmap_len
      BY Zenon, <1>1, <3>1
    <3>3. Accepted(th[t].tf)' <=> Accepted(th[t].tf)
      BY Zenon, <3>2, AcceptedKept
    <3> QED
      BY Zenon, <3>2, <3>3
  <2> QED
    BY Zenon, <1>1, <2>1
<1>8. Ready'
  BY Zenon, <1>6, <1>7 DEF Ready
<1> QED
  BY Zenon, <1>5, <1>8
LEMMA SerialSame ==
  ASSUME Alone, Ready, th' = th, raced' = raced, brk_len' = brk_len, mmap_len' = mmap_len
  PROVE  Alone' /\ Ready'
<1>1. \A u \in Thread : InMem(u)' <=> InMem(u)
  BY DEF InMem
<1>2. Alone'
  BY Zenon, <1>1 DEF Alone, Sole
<1>3. ASSUME NEW u \in Thread PROVE Accepted(th[u].tf)' <=> Accepted(th[u].tf)
  BY Zenon, AcceptedKept
<1>4. Ready'
  BY Zenon, <1>3 DEF Ready
<1> QED
  BY Zenon, <1>2, <1>4

(* A thread that goes on in its memory call, or leaves it.                 *)
LEMMA SerialOn ==
  ASSUME Handlers, Alone, Ready, NEW t \in Thread, NEW r, th' = [th EXCEPT ![t] = r],
         raced' = raced, InMem(t) \/ (~InMemRec(r) /\ brk_len' = brk_len /\ mmap_len' = mmap_len),
         r.pc = "place" =>
            Accepted(th[t].tf) /\ r.tf = th[t].tf /\ brk_len' = brk_len /\ mmap_len' = mmap_len,
         r.pc = "store" /\ r.tf.rax \in Growing => r.seen = mmap_len'
  PROVE  Alone' /\ Ready'
<1>1. ~raced' /\ InMemRec(r) => \A u \in Thread \ {t} : ~InMem(u)
  BY DEF Alone, Sole
<1> QED
  BY Zenon, <1>1, SerialStep

LEMMA DoneRec ==
  ASSUME NEW t \in Thread, Done(t), Handlers
  PROVE  \E r : th' = [th EXCEPT ![t] = r] /\ r.pc \in {"user", "unlock"} /\ ~InMemRec(r)
<1>1. CASE need_lock(th[t].tf)
  <2> DEFINE r == [th[t] EXCEPT !.pc = "unlock"]
  <2>1. r.pc = "unlock" /\ th' = [th EXCEPT ![t] = r]
    BY Zenon, <1>1, GotoRec DEF Done, PCs
  <2> HIDE DEF r
  <2>2. ~InMemRec(r)
    BY <2>1 DEF InMemRec
  <2> QED
    BY Zenon, <2>1, <2>2
<1>2. CASE ~need_lock(th[t].tf)
  <2> DEFINE r == At("user", NoCall)
  <2>1. r.pc = "user" /\ th' = [th EXCEPT ![t] = r]
    BY <1>2 DEF Done, Return, At
  <2> HIDE DEF r
  <2>2. ~InMemRec(r)
    BY <2>1 DEF InMemRec
  <2> QED
    BY Zenon, <2>1, <2>2
<1> QED
  BY <1>1, <1>2

LEMMA SerialDone ==
  ASSUME Handlers, Alone, Ready, NEW t \in Thread, Done(t), raced' = raced,
         InMem(t) \/ (brk_len' = brk_len /\ mmap_len' = mmap_len)
  PROVE  Alone' /\ Ready'
<1>1. PICK r : th' = [th EXCEPT ![t] = r] /\ r.pc \in {"user", "unlock"} /\ ~InMemRec(r)
  BY DoneRec
<1> QED
  BY Zenon, <1>1, SerialOn

LEMMA SerialGoto ==
  ASSUME Handlers, Alone, Ready, NEW t \in Thread, NEW w \in {"place", "load", "store", "remap"},
         Goto(t, w), raced' = raced, InMem(t),
         w = "place" => Accepted(th[t].tf) /\ brk_len' = brk_len /\ mmap_len' = mmap_len,
         w = "store" => th[t].tf.rax \notin Growing
  PROVE  Alone' /\ Ready'
<1> DEFINE r == [th[t] EXCEPT !.pc = w]
<1>0. w \in PCs
  BY DEF PCs
<1>1. r.pc = w /\ r.tf = th[t].tf /\ th' = [th EXCEPT ![t] = r]
  BY Zenon, <1>0, GotoRec
<1> HIDE DEF r
<1> QED
  BY Zenon, <1>1, SerialOn

(* A memory call begins; raced remembers whether it meets another one.     *)
LEMMA SerialBegins ==
  ASSUME Handlers, Alone, Ready, NEW t \in Thread, NEW f, NEW r, th' = [th EXCEPT ![t] = r],
         r.pc = "do", r.tf = f, Begin(t, f), brk_len' = brk_len, mmap_len' = mmap_len,
         ~need_lock(f) \/ mtx = NoThread
  PROVE  Alone' /\ Ready'
<1>1. ~raced' => ~raced
  BY OfThread DEF Begin
<1>2. ASSUME ~raced', InMemRec(r), NEW u \in Thread \ {t}, InMem(u) PROVE FALSE
  <2>1. f.rax \in MemCall /\ {f.rax, th[u].tf.rax} \cap Unlocked = {}
    BY Zenon, <1>2 DEF Begin, InMemRec
  <2>2. need_lock(f) /\ need_lock(th[u].tf)
    BY <1>2, <2>1 DEF InMem, MemCall, need_lock
  <2>3. Holds(th[u])
    BY <1>2, <2>2 DEF InMem, Holds
  <2>4. mtx = u
    BY Zenon, <2>3, OfThread
  <2> QED
    BY <2>2, <2>4, TrapAssumption
<1> QED
  BY Zenon, <1>1, <1>2, SerialStep

LEMMA SerialNext ==
  ASSUME Handlers, Alone, Ready, TrapNext
  PROVE  Alone' /\ Ready'
<1>1. CASE Boot
  <2>1. th' = th /\ raced' = raced /\ phase = "boot"
    BY Zenon, <1>1 DEF Boot, umm_alloc_stack
  <2>2. \A u \in Thread : th[u].pc = "user"
    BY Zenon, <2>1 DEF Handlers
  <2>3. Alone'
    BY Zenon, <2>1, <2>2 DEF Alone, InMem
  <2>4. Ready'
    BY Zenon, <2>1, <2>2 DEF Ready
  <2> QED
    BY Zenon, <2>3, <2>4
<1>2. ASSUME NEW t \in Thread, NEW f \in Calls[t], syscall_handler(t, f) PROVE Alone' /\ Ready'
  <2>0. f \in Frames /\ brk_len' = brk_len /\ mmap_len' = mmap_len
    BY Zenon, <1>2 DEF Frames, syscall_handler, uvars
  <2>1. CASE need_lock(f)
    <3> DEFINE r == At("lock", f)
    <3>1. r.pc = "lock" /\ th' = [th EXCEPT ![t] = r] /\ raced' = raced
      BY Zenon, <1>2, <2>1 DEF syscall_handler, At
    <3> HIDE DEF r
    <3>2. ~InMemRec(r)
      BY Zenon, <3>1 DEF InMemRec
    <3> QED
      BY Zenon, <2>0, <3>1, <3>2, SerialOn
  <2>2. CASE ~need_lock(f)
    <3> DEFINE r == At("do", f)
    <3>1. r.pc = "do" /\ r.tf = f /\ th' = [th EXCEPT ![t] = r] /\ Begin(t, f)
      BY Zenon, <1>2, <2>2 DEF syscall_handler, At
    <3> HIDE DEF r
    <3> QED
      BY Zenon, <2>0, <2>2, <3>1, SerialBegins
  <2> QED
    BY Zenon, <2>1, <2>2
<1>3. ASSUME NEW t \in Thread, Lock(t) PROVE Alone' /\ Ready'
  <2> DEFINE r == [th[t] EXCEPT !.pc = "do"]
  <2>1. r.pc = "do" /\ r.tf = th[t].tf /\ th' = [th EXCEPT ![t] = r]
    BY Zenon, <1>3, GotoRec DEF Lock, PCs
  <2> HIDE DEF r
  <2>2. Begin(t, th[t].tf) /\ mtx = NoThread /\ brk_len' = brk_len /\ mmap_len' = mmap_len
    BY Zenon, <1>3 DEF Lock, uvars
  <2> QED
    BY Zenon, <2>1, <2>2, SerialBegins
<1>4. ASSUME NEW t \in Thread, NEW w \in {"user", "dead"}, th' = [th EXCEPT ![t] = At(w, NoCall)],
             raced' = raced, brk_len' = brk_len, mmap_len' = mmap_len
      PROVE  Alone' /\ Ready'
  <2> DEFINE r == At(w, NoCall)
  <2>1. r.pc = w /\ th' = [th EXCEPT ![t] = r]
    BY <1>4 DEF At
  <2> HIDE DEF r
  <2>2. ~InMemRec(r)
    BY <2>1 DEF InMemRec
  <2> QED
    BY Zenon, <1>4, <2>1, <2>2, SerialOn
<1>5. ASSUME NEW t \in Thread, Unlock(t) \/ OtherCall(t) \/ FaultInRing3(t) PROVE Alone' /\ Ready'
  <2>1. raced' = raced /\ brk_len' = brk_len /\ mmap_len' = mmap_len
    BY Zenon, <1>5 DEF Unlock, OtherCall, FaultInRing3, uvars
  <2>2. \/ \E w \in {"user", "dead"} : th' = [th EXCEPT ![t] = At(w, NoCall)]
        \/ Done(t)
    BY Zenon, <1>5 DEF Unlock, OtherCall, FaultInRing3, Return
  <2> QED
    BY <1>4, <2>1, <2>2, SerialDone
<1>6. ASSUME NEW t \in Thread, Test(t) PROVE Alone' /\ Ready'
  <2>1. raced' = raced /\ brk_len' = brk_len /\ mmap_len' = mmap_len /\ InMem(t)
    BY Zenon, <1>6 DEF Test, Runs, InMem, uvars
  <2>2. (Accepted(th[t].tf) /\ Goto(t, "place")) \/ Done(t)
    BY Zenon, <1>6 DEF Test
  <2> QED
    BY Zenon, <2>1, <2>2, SerialDone, SerialGoto
<1>7. ASSUME NEW t \in Thread, PlaceUnmap(t) \/ PlaceMap(t) \/ PlaceBrk(t) \/ HostRefuses(t)
      PROVE  Alone' /\ Ready'
  <2>1. raced' = raced /\ brk_len' = brk_len /\ mmap_len' = mmap_len /\ th[t].pc = "place"
    BY Zenon, <1>7 DEF PlaceUnmap, PlaceMap, PlaceBrk, HostRefuses, Runs, uvars
  <2>2. InMem(t)
    BY Zenon, <2>1, OfThread, BusyInMem DEF InMem, InMemRec
  <2>3. \/ Done(t) \/ Goto(t, "load")
        \/ Goto(t, "store") /\ th[t].tf.rax \notin Growing
    BY Zenon, <1>7 DEF PlaceUnmap, PlaceMap, PlaceBrk, HostRefuses, Growing
  <2> QED
    BY Zenon, <2>1, <2>2, <2>3, SerialDone, SerialGoto
<1>8. ASSUME NEW t \in Thread, PlaceMove(t) PROVE Alone' /\ Ready'
  <2> DEFINE w == IF Fixed(th[t].tf) THEN "remap" ELSE "load"
  <2>1. PICK b \in BOOLEAN :
          th' = [th EXCEPT ![t].pc = w, ![t].addr = NewAddr(th[t].tf), ![t].fits = b]
    BY Zenon, <1>8 DEF PlaceMove
  <2> DEFINE r == [th[t] EXCEPT !.pc = w, !.addr = NewAddr(th[t].tf), !.fits = b]
  <2>2. th' = [th EXCEPT ![t] = r] /\ r.pc = w /\ w \in {"load", "remap"}
    BY Zenon, <2>1, OfThread DEF ThreadRec
  <2>3. raced' = raced /\ th[t].pc = "place"
    BY <1>8 DEF PlaceMove, Runs
  <2>4. InMem(t)
    BY <2>3, OfThread, BusyInMem DEF InMem, InMemRec
  <2> HIDE DEF r, w
  <2> QED
    BY Zenon, <2>2, <2>3, <2>4, SerialOn
<1>9. ASSUME NEW t \in Thread, Load(t) PROVE Alone' /\ Ready'
  <2> DEFINE r == [th[t] EXCEPT !.pc = "store", !.seen = mmap_len]
  <2>1. th' = [th EXCEPT ![t] = r] /\ r.pc = "store" /\ r.seen = mmap_len
    BY Zenon, <1>9, OfThread DEF Load, ThreadRec
  <2>2. raced' = raced /\ th[t].pc = "load" /\ mmap_len' = mmap_len
    BY <1>9 DEF Load, Runs, uvars
  <2>3. InMem(t)
    BY <2>2, OfThread, BusyInMem DEF InMem, InMemRec
  <2> HIDE DEF r
  <2> QED
    BY Zenon, <2>1, <2>2, <2>3, SerialOn
<1>10. ASSUME NEW t \in Thread, Store(t) PROVE Alone' /\ Ready'
  <2>1. raced' = raced /\ th[t].pc = "store" /\ (Done(t) \/ Goto(t, "remap"))
    BY Zenon, <1>10 DEF Store, Runs
  <2>2. InMem(t)
    BY Zenon, <2>1, OfThread, BusyInMem DEF InMem, InMemRec
  <2> QED
    BY Zenon, <2>1, <2>2, SerialDone, SerialGoto
<1>11. ASSUME NEW t \in Thread,
              \/ Remap(t) \/ ExecExits(t) \/ pgflt_enters(t)
              \/ \E p \in Fault : FaultInRing0(t, p)
              \/ \E f \in Calls[t] : CheckAborts(t, f)
       PROVE  Alone' /\ Ready'
  <2>1. raced' = raced /\ brk_len' = brk_len /\ mmap_len' = mmap_len /\ (th' = th \/ Done(t))
    BY Zenon, <1>11 DEF Remap, ExecExits, pgflt_enters, FaultInRing0, CheckAborts, uvars
  <2> QED
    BY Zenon, <2>1, SerialSame, SerialDone
<1> QED
  BY ZenonT(30), <1>1, <1>2, <1>3, <1>5, <1>6, <1>7, <1>8, <1>9, <1>10, <1>11 DEF TrapNext, HandlerStep
=============================================================================
