----------------------------- MODULE UmmProofs -----------------------------
(***************************************************************************)
(* Proof that the memory manager keeps UmmInv, for every page size, word   *)
(* size and layout that satisfies UmmAssumption and every address and      *)
(* length of the program.  First the arithmetic of pages and words; then   *)
(* ChangeInv, which says once what a change of pages and counters must     *)
(* satisfy; then one lemma per group of calls that establishes it.         *)
(***************************************************************************)
EXTENDS Umm, TLAPS

(* What fits in a machine word is not changed by it.                       *)
LEMMA WordSmall == \A n \in Nat : n < WORD => Word(n) = n
  BY UmmAssumption DEF Word

(* A page is not empty.                                                    *)
LEMMA Pg == PGSIZE \in Nat /\ PGSIZE > 0
  BY UmmAssumption

(* Division with remainder, stated over a variable divisor.                *)
LEMMA DivMod ==
  ASSUME NEW P \in Nat, P > 0, NEW a \in Int
  PROVE  /\ a = P * (a \div P) + (a % P)
         /\ a % P \in 0 .. P - 1 /\ a \div P \in Int
  OBVIOUS

(* The only multiple of P between -P and P is 0.                           *)
LEMMA SmallMultiple ==
  ASSUME NEW P \in Nat, P > 0, NEW k \in Int, P * k < P, - P < P * k
  PROVE  k = 0
<1>1. CASE k >= 1
  <2>1. P * k >= P
    BY <1>1
  <2> QED
    BY <2>1
<1>2. CASE k <= -1
  <2>1. P * k <= -P
    BY <1>2
  <2> QED
    BY <2>1
<1> QED
  BY <1>1, <1>2

(* A multiple of P leaves no remainder.                                    *)
LEMMA MultipleMod ==
  ASSUME NEW P \in Nat, P > 0, NEW k \in Int
  PROVE  (P * k) % P = 0
<1> DEFINE a == P * k  q == a \div P  r == a % P
<1>1. a \in Int /\ q \in Int /\ r \in 0 .. P - 1 /\ a = P * q + r
  BY DivMod
<1>2. r = P * (k - q)
  BY <1>1
<1>3. k - q = 0
  BY <1>1, <1>2, SmallMultiple
<1> QED
  BY <1>2, <1>3

(* Adding P leaves the remainder as it is.                                 *)
LEMMA AddMod ==
  ASSUME NEW P \in Nat, P > 0, NEW x \in Nat, x < P
  PROVE  (P + x) % P = x
<1> DEFINE a == P + x  q == a \div P  r == a % P
<1>1. a \in Int /\ q \in Int /\ r \in 0 .. P - 1 /\ a = P * q + r
  BY DivMod
<1>2. r - x = P * (1 - q)
  BY <1>1
<1>3. 1 - q = 0
  BY <1>1, <1>2, SmallMultiple
<1> QED
  BY <1>1, <1>2, <1>3

(* An aligned address is a number of whole pages.                          *)
LEMMA AlignedMultiple ==
  ASSUME NEW a \in Int, Aligned(a)
  PROVE  \E k \in Int : a = PGSIZE * k
  BY Pg, DivMod DEF Aligned

(* Sums and differences of aligned addresses are aligned.                  *)
LEMMA AlignedSum ==
  ASSUME NEW a \in Int, NEW b \in Int, Aligned(a), Aligned(b)
  PROVE  Aligned(a + b) /\ Aligned(a - b)
<1>1. PICK j \in Int : a = PGSIZE * j
  BY AlignedMultiple
<1>2. PICK k \in Int : b = PGSIZE * k
  BY AlignedMultiple
<1>3. a + b = PGSIZE * (j + k) /\ a - b = PGSIZE * (j - k)
  BY <1>1, <1>2, Pg
<1>4. (PGSIZE * (j + k)) % PGSIZE = 0
  <2>1. j + k \in Int
    OBVIOUS
  <2> QED
    BY <2>1, Pg, MultipleMod
<1>5. (PGSIZE * (j - k)) % PGSIZE = 0
  <2>1. j - k \in Int
    OBVIOUS
  <2> QED
    BY <2>1, Pg, MultipleMod
<1>6. (a + b) % PGSIZE = 0 /\ (a - b) % PGSIZE = 0
  BY <1>3, <1>4, <1>5
<1> QED
  BY <1>6 DEF Aligned

(* Between two aligned addresses there is at least one page.               *)
LEMMA AlignedBound ==
  ASSUME NEW a \in Int, NEW b \in Int, Aligned(a), Aligned(b), a < b
  PROVE  a + PGSIZE <= b
<1>1. PICK k \in Int : b - a = PGSIZE * k
  BY AlignedSum, AlignedMultiple
<1>2. k > 0
  BY <1>1, Pg
<1>3. PGSIZE * k >= PGSIZE
  BY <1>2, Pg
<1> QED
  BY <1>1, <1>3, Pg

(* PGADDR rounds down to the page.                                         *)
LEMMA PgaddrProps ==
  ASSUME NEW a \in Nat
  PROVE  /\ PGADDR(a) \in Nat /\ Aligned(PGADDR(a)) /\ PGOFF(a) \in Nat
         /\ PGADDR(a) <= a /\ a < PGADDR(a) + PGSIZE
<1> DEFINE q == a \div PGSIZE
<1>1. /\ a = PGSIZE * q + (a % PGSIZE) /\ a % PGSIZE \in 0 .. PGSIZE - 1 /\ q \in Int
  BY Pg, DivMod
<1>2. PGADDR(a) = PGSIZE * q
  BY <1>1, Pg DEF PGADDR, PGOFF
<1>3. Aligned(PGADDR(a))
  BY Zenon, <1>1, <1>2, Pg, MultipleMod DEF Aligned
<1>4. q >= 0
  BY <1>1, Pg
<1>5. PGADDR(a) \in Nat
  BY <1>1, <1>2, <1>4, Pg
<1> HIDE DEF q
<1> QED
  BY <1>1, <1>2, <1>3, <1>5, Pg DEF PGOFF

(* A length that does not wrap is rounded up to the next whole page, and   *)
(* to no more (umm.c:113-119).                                             *)
LEMMA RoundUpFits ==
  ASSUME NEW len \in Nat, len + PGSIZE <= WORD
  PROVE  /\ RoundUp(len) \in Nat /\ Aligned(RoundUp(len)) /\ len <= RoundUp(len)
         /\ \A m \in Int : Aligned(m) /\ len <= m => RoundUp(len) <= m
<1> DEFINE n == len + PGSIZE - 1
<1>1. n \in Nat /\ n < WORD /\ RoundUp(len) = PGADDR(n)
  BY Pg, WordSmall, UmmAssumption DEF RoundUp
<1>2. /\ RoundUp(len) \in Nat /\ Aligned(RoundUp(len))
      /\ RoundUp(len) <= n /\ n < RoundUp(len) + PGSIZE
  BY <1>1, PgaddrProps
<1>3. len <= RoundUp(len)
  BY <1>2, Pg
<1>4. ASSUME NEW m \in Int, Aligned(m), len <= m PROVE RoundUp(len) <= m
  <2>1. SUFFICES ASSUME m < RoundUp(len) PROVE FALSE
    BY <1>2, <1>4
  <2>2. m + PGSIZE <= RoundUp(len)
    BY <1>2, <1>4, <2>1, AlignedBound
  <2> QED
    BY <1>2, <1>4, <2>2, Pg
<1> QED
  BY <1>2, <1>3, <1>4
-----------------------------------------------------------------------------
(* The layout of the address space, spelled out.                           *)
LEMMA Layout ==
  /\ WORD \in Nat /\ TASK_SIZE \in Nat /\ APP_MAX_ELF_VADDR \in Nat
  /\ APP_MMAP_LEN \in Nat /\ APP_STACK_SIZE \in Nat /\ mmap_base \in Nat
  /\ Top \in Nat /\ Guard \in Nat /\ Top = mmap_base + APP_MMAP_LEN
  /\ Guard = Top - APP_STACK_SIZE /\ mmap_base < Guard /\ Guard + PGSIZE < Top
  /\ APP_MAX_ELF_VADDR <= mmap_base /\ APP_MMAP_LEN <= mmap_base
  /\ Top <= TASK_SIZE /\ TASK_SIZE + APP_MMAP_LEN + PGSIZE <= WORD
  /\ Aligned(mmap_base) /\ Aligned(Top) /\ Aligned(Guard) /\ Aligned(APP_STACK_SIZE)
  /\ Aligned(APP_MMAP_LEN) /\ Aligned(PGSIZE) /\ Guard \in AppPage
<1>1. /\ WORD \in Nat /\ TASK_SIZE \in Nat /\ APP_MAX_ELF_VADDR \in Nat
      /\ APP_MMAP_LEN \in Nat /\ APP_STACK_SIZE \in Nat /\ mmap_base \in Nat
      /\ Aligned(mmap_base) /\ Aligned(APP_STACK_SIZE) /\ Aligned(APP_MMAP_LEN)
      /\ APP_MAX_ELF_VADDR <= mmap_base /\ APP_MMAP_LEN <= mmap_base
      /\ PGSIZE < APP_STACK_SIZE /\ APP_STACK_SIZE < APP_MMAP_LEN
      /\ Top <= TASK_SIZE /\ TASK_SIZE + APP_MMAP_LEN + PGSIZE <= WORD
  BY UmmAssumption
<1>2. Top = mmap_base + APP_MMAP_LEN /\ Guard = Top - APP_STACK_SIZE
  BY DEF Top, Guard, APP_MMAP_BASE_OFF
<1>3. /\ Top \in Nat /\ Guard \in Nat /\ mmap_base < Guard /\ Guard + PGSIZE < Top
      /\ Guard < Top /\ Guard < TASK_SIZE
  BY <1>1, <1>2, Pg
<1>4. Aligned(Top) /\ Aligned(Guard)
  <2>1. Aligned(Top)
    BY <1>1, <1>2, AlignedSum
  <2> QED
    BY <1>1, <1>2, <1>3, <2>1, AlignedSum
<1>5. Aligned(PGSIZE)
  <2>1. (PGSIZE * 1) % PGSIZE = 0 /\ PGSIZE * 1 = PGSIZE
    BY Pg, MultipleMod
  <2> QED
    BY <2>1 DEF Aligned
<1>6. Guard \in AppPage
  BY <1>1, <1>3, <1>4 DEF AppPage, Page
<1> QED
  BY <1>1, <1>2, <1>3, <1>4, <1>5, <1>6

(* Growing the mappings lowers their end.                                  *)
LEMMA MapPosFalls ==
  ASSUME NEW a \in Nat, NEW b \in Nat, a <= b, NEW p \in Int, Top - a <= p
  PROVE  Top - b <= p
  BY Layout

(* The heap ends below the guard page.                                     *)
LEMMA HeapBelowGuard ==
  ASSUME NEW b \in Nat, NEW m \in Nat, b + m <= APP_MMAP_LEN, APP_STACK_SIZE <= m
  PROVE  mmap_base + b <= Guard /\ ~(Guard < mmap_base + b)
  BY Layout

(* A call gives the pages S to owner w and frees the pages F.  It keeps    *)
(* the invariant if both are pages of the program, the pages the library   *)
(* places are in their own part of the range, and the counters cover them. *)
LEMMA ChangeInv ==
  ASSUME UmmInv, NEW S \in SUBSET AppPage, NEW F \in SUBSET AppPage,
         NEW w \in {"free", "fixed"} \cup Placed,
         host' = [p \in Page |-> IF p \in S THEN w
                                 ELSE IF p \in F THEN "free" ELSE host[p]],
         phase # "exit", phase' \in {"run", "exit"},
         brk_len' \in Nat, mmap_len' \in Nat, mmap_len <= mmap_len',
         Aligned(brk_len'), Aligned(mmap_len'),
         brk_len' + mmap_len' <= APP_MMAP_LEN,
         APP_STACK_SIZE <= mmap_len' \/ (phase' = "exit" /\ w = "free"),
         w = "heap"  => \A p \in S : mmap_base <= p /\ p < mmap_base + brk_len',
         w = "auto"  => \A p \in S : Top - mmap_len' <= p /\ p < Guard,
         w = "stack" => \A p \in S : Guard < p /\ p < Top,
         \A p \in Page \ F : p < mmap_base + brk_len => p < mmap_base + brk_len',
         pt' \subseteq Page, pt \ (S \cup F) \subseteq pt',
         w = "free" \/ phase' = "exit" \/ S \subseteq pt',
         \/ replaced' = replaced
         \/ /\ replaced' \subseteq replaced \cup Held(S)
            /\ \A p \in S : host[p] \notin Placed
  PROVE  UmmInv'
<1> USE Layout
<1>0. /\ host \in [Page -> Owner] /\ brk_len \in Nat /\ mmap_len \in Nat
      /\ replaced \subseteq Owner /\ AppPage \subseteq Page
  BY DEF UmmInv, UmmTypeOK, AppPage
<1>p. ASSUME NEW p \in Page
      PROVE  host'[p] = IF p \in S THEN w ELSE IF p \in F THEN "free" ELSE host[p]
  OBVIOUS
<1>r. replaced' \subseteq Owner /\ replaced' \cap Placed = {}
  <2>1. replaced \cap Placed = {}
    BY DEF UmmInv, NeverReplacesPlaced
  <2>2. Held(S) \subseteq Owner
    BY <1>0 DEF Held
  <2>3. (\A p \in S : host[p] \notin Placed) => Held(S) \cap Placed = {}
    BY DEF Held
  <2> QED
    BY <1>0, <2>1, <2>2, <2>3
<1>1. UmmTypeOK'
  BY <1>0, <1>r DEF UmmTypeOK, Owner, Placed
<1>2. RegionsApart'
  <2>1. ASSUME NEW p \in Page
        PROVE  /\ host'[p] = "heap" => mmap_base <= p /\ p < mmap_base + brk_len'
               /\ host'[p] = "auto" => Top - mmap_len' <= p /\ p < Guard
               /\ host'[p] = "stack" => Guard < p /\ p < Top
    <3>1. /\ host[p] = "heap" => mmap_base <= p /\ p < mmap_base + brk_len
          /\ host[p] = "auto" => Top - mmap_len <= p /\ p < Guard
          /\ host[p] = "stack" => Guard < p /\ p < Top
      BY DEF UmmInv, RegionsApart, umm_get_map_pos
    <3>2. p \in Int
      BY DEF Page
    <3>3. CASE p \in S
      BY Zenon, <1>p, <3>3
    <3>4. CASE p \notin S /\ p \in F
      BY <1>p, <3>4
    <3>5. CASE p \notin S /\ p \notin F
      <4>1. host'[p] = host[p]
        BY <1>p, <3>5
      <4>2. p < mmap_base + brk_len => p < mmap_base + brk_len'
        BY <3>5
      <4>3. Top - mmap_len <= p => Top - mmap_len' <= p
        BY Zenon, <1>0, <3>2, MapPosFalls
      <4> QED
        BY <3>1, <4>1, <4>2, <4>3
    <3> QED
      BY <3>3, <3>4, <3>5
  <2>2. umm_get_map_pos' = Top - mmap_len'
    BY DEF umm_get_map_pos
  <2> QED
    BY Zenon, <2>1, <2>2 DEF RegionsApart
<1>3. NeverReplacesPlaced'
  BY <1>r DEF NeverReplacesPlaced
<1>4. GuardUnmapped'
  <2>1. w \in Placed => Guard \notin S
    <3>1. w = "heap" => \A p \in S : p < mmap_base + brk_len'
      BY Zenon
    <3>2. w = "heap" => ~(Guard < mmap_base + brk_len')
      <4>1. w = "heap" => APP_STACK_SIZE <= mmap_len'
        OBVIOUS
      <4> QED
        BY Zenon, <4>1, HeapBelowGuard
    <3>3. ~(Guard < Guard)
      OBVIOUS
    <3> QED
      BY Zenon, <3>1, <3>2, <3>3 DEF Placed
  <2>2. host[Guard] \in {"free", "fixed"} /\ Guard \in Page
    BY <1>0 DEF UmmInv, GuardUnmapped
  <2>3. host'[Guard] \in {"free", "fixed"}
    BY <1>p, <2>1, <2>2
  <2> QED
    BY <2>3 DEF GuardUnmapped
<1>5. SandboxKept'
  <2>1. w # "sandbox"
    BY DEF Placed
  <2> QED
    BY Zenon, <1>p, <2>1 DEF UmmInv, SandboxKept
<1>6. MappedIsReachable'
  <2>1. SUFFICES ASSUME phase' # "exit", NEW p \in AppPage, host'[p] # "free" PROVE p \in pt'
    BY DEF MappedIsReachable
  <2>2. CASE p \in S
    BY <1>0, <1>p, <2>1, <2>2
  <2>3. CASE p \notin S
    <3>1. p \notin F /\ host[p] # "free"
      BY <1>0, <1>p, <2>1, <2>3
    <3>2. phase # "exit" => p \in pt
      BY <3>1 DEF UmmInv, MappedIsReachable
    <3> QED
      BY <2>3, <3>1, <3>2
  <2> QED
    BY <2>2, <2>3
<1> QED
  BY <1>1, <1>2, <1>3, <1>4, <1>5, <1>6 DEF UmmInv
-----------------------------------------------------------------------------
(* A range that mem_ref_is_safe lets through and the host kernel accepts   *)
(* lies in the pages of the program.                                       *)
LEMMA SafePages ==
  ASSUME NEW addr \in Nat, NEW len \in Nat,
         mem_ref_is_safe(addr, len), HostAccepts(addr, len)
  PROVE  Pages(addr, len) \subseteq AppPage
<1>1. addr + len \in Nat /\ addr + len <= TASK_SIZE
  BY DEF HostAccepts
<1>2. addr + len < WORD
  BY <1>1, Layout, Pg
<1>3. Word(addr + len) = addr + len
  BY <1>1, <1>2, WordSmall
<1>4. \/ addr + len <= APP_MAX_ELF_VADDR
      \/ mmap_base <= addr /\ addr + len < Top
  BY <1>3 DEF mem_ref_is_safe
<1>5. ASSUME NEW p \in Page, addr <= p, p < addr + len
      PROVE  p < APP_MAX_ELF_VADDR \/ (mmap_base <= p /\ p < Top)
  <2>1. p \in Int
    BY DEF Page
  <2> QED
    BY <1>1, <1>4, <1>5, <2>1, Layout
<1> QED
  BY <1>5 DEF Pages, AppPage

(* When the library chooses the address it lies between the heap and the   *)
(* mappings handed out before, also for lengths at the end of the word.    *)
LEMMA OpenFits ==
  ASSUME UmmInv, phase = "run", NEW len \in Nat,
         umm_space_left(len), HostAccepts(OpenAddr(len), len)
  PROVE  /\ RoundUp(len) \in Nat /\ mmap_len + RoundUp(len) \in Nat
         /\ Aligned(mmap_len + RoundUp(len))
         /\ brk_len + (mmap_len + RoundUp(len)) <= APP_MMAP_LEN
         /\ Pages(OpenAddr(len), len) \subseteq AppPage
         /\ \A p \in Pages(OpenAddr(len), len) :
              /\ Top - (mmap_len + RoundUp(len)) <= p /\ p < Guard
              /\ host[p] \notin Placed
<1> DEFINE a == OpenAddr(len)
<1>0. /\ brk_len \in Nat /\ mmap_len \in Nat /\ brk_len + mmap_len <= APP_MMAP_LEN
      /\ APP_STACK_SIZE <= mmap_len /\ Aligned(brk_len) /\ Aligned(mmap_len)
  BY DEF UmmInv, UmmTypeOK, RegionsApart
<1>1. a \in Nat /\ a + len <= TASK_SIZE /\ 0 < len
  <2>1. \A n \in Int : Word(n) \in Nat
    BY Layout, Pg, DivMod DEF Word
  <2>2. RoundUp(len) \in Nat
    BY <2>1, Pg, PgaddrProps DEF RoundUp
  <2>3. OpenAddr(len) \in Nat
    BY <1>0, <2>1, <2>2, Layout DEF OpenAddr, umm_get_map_pos
  <2> QED
    BY <2>3 DEF HostAccepts
<1>2. len <= TASK_SIZE /\ brk_len + mmap_len + len < WORD /\ len + PGSIZE <= WORD
  BY <1>0, <1>1, Layout, Pg
<1>3. brk_len + mmap_len + len < APP_MMAP_LEN
  BY <1>0, <1>2, WordSmall DEF umm_space_left
<1> DEFINE room == APP_MMAP_LEN - (brk_len + mmap_len)
<1>4. room \in Int /\ Aligned(room) /\ len <= room
  <2>1. Aligned(brk_len + mmap_len)
    BY <1>0, AlignedSum
  <2>2. room \in Int /\ Aligned(room)
    BY <1>0, <2>1, Layout, AlignedSum
  <2> QED
    BY <1>0, <1>3, <2>2, Layout
<1> DEFINE r == RoundUp(len)
<1>5. r \in Nat /\ Aligned(r) /\ len <= r /\ r <= room
  BY <1>2, <1>4, RoundUpFits
<1> HIDE DEF r
<1>6. mmap_len + r \in Nat /\ brk_len + (mmap_len + r) <= APP_MMAP_LEN /\ Aligned(mmap_len + r)
  <2>1. Aligned(mmap_len + r)
    BY <1>0, <1>5, AlignedSum
  <2> QED
    BY <1>0, <1>5, <2>1, Layout
<1>7. a = Top - mmap_len - r /\ mmap_base + brk_len <= a
  <2> DEFINE x == Top - mmap_len - r
  <2>1. x \in Nat /\ x < WORD /\ mmap_base + brk_len <= x
    BY <1>0, <1>5, <1>6, Layout, Pg
  <2>2. a = (WORD + Top - mmap_len - r) % WORD
    BY <1>0, <1>5, Layout DEF OpenAddr, Word, umm_get_map_pos, r
  <2>3. WORD + Top - mmap_len - r = WORD + x
    BY <1>0, <1>5, Layout
  <2>4. (WORD + x) % WORD = x
    BY <2>1, Layout, AddMod
  <2> QED
    BY <2>1, <2>2, <2>3, <2>4
<1> HIDE DEF a
<1>8. ASSUME NEW p \in Pages(a, len)
      PROVE  /\ p \in AppPage /\ Top - (mmap_len + r) <= p /\ p < Guard
             /\ host[p] \notin Placed
  <2>1. p \in Page /\ p \in Int /\ a <= p /\ p < a + len
    BY DEF Pages, Page
  <2>2. /\ mmap_base + brk_len <= p /\ p < Top - mmap_len /\ p < Guard
        /\ Top - (mmap_len + r) <= p /\ mmap_base <= p /\ p < Top
    BY <1>0, <1>1, <1>5, <1>7, <2>1, Layout
  <2>3. /\ host[p] = "heap" => p < mmap_base + brk_len
        /\ host[p] = "auto" => Top - mmap_len <= p
        /\ host[p] = "stack" => Guard < p
    BY <2>1 DEF UmmInv, RegionsApart, umm_get_map_pos
  <2>4. host[p] \notin {"heap", "auto", "stack"}
    BY <1>0, <2>1, <2>2, <2>3, Layout
  <2> QED
    BY <2>1, <2>2, <2>4 DEF Placed, AppPage
<1> QED
  BY <1>5, <1>6, <1>8 DEF a, r
-----------------------------------------------------------------------------
(* What the invariant says of the state in which a call is made.           *)
LEMMA Running ==
  ASSUME UmmInv, phase = "run"
  PROVE  /\ brk_len \in Nat /\ mmap_len \in Nat /\ brk_len + mmap_len <= APP_MMAP_LEN
         /\ APP_STACK_SIZE <= mmap_len /\ Aligned(brk_len) /\ Aligned(mmap_len)
         /\ pt \subseteq Page
  BY DEF UmmInv, UmmTypeOK, RegionsApart

(* One set of pages changes hands while the counters stay, or grow over    *)
(* pages that the library then owns.                                       *)
LEMMA GiveInv ==
  ASSUME UmmInv, phase = "run", phase' = phase, NEW S \in SUBSET AppPage,
         NEW w \in {"free", "fixed", "heap", "auto"},
         host' = Holding(S, w),
         brk_len' \in Nat, mmap_len' \in Nat, brk_len <= brk_len', mmap_len <= mmap_len',
         Aligned(brk_len'), Aligned(mmap_len'), brk_len' + mmap_len' <= APP_MMAP_LEN,
         w = "heap"  => \A p \in S : mmap_base <= p /\ p < mmap_base + brk_len',
         w = "auto"  => \A p \in S : Top - mmap_len' <= p /\ p < Guard,
         pt' \subseteq Page, pt \ S \subseteq pt', w = "free" \/ S \subseteq pt',
         \/ replaced' = replaced
         \/ /\ replaced' \subseteq replaced \cup Held(S)
            /\ \A p \in S : host[p] \notin Placed
  PROVE  UmmInv'
<1>1. host' = [p \in Page |-> IF p \in S THEN w
                              ELSE IF p \in {} THEN "free" ELSE host[p]]
  BY DEF Holding
<1>2. APP_STACK_SIZE <= mmap_len'
  BY Running, Layout
<1>3. \A p \in Page \ {} : p < mmap_base + brk_len => p < mmap_base + brk_len'
  <2>1. ASSUME NEW p \in Int, NEW b \in Nat, NEW c \in Nat, b <= c, p < mmap_base + b
        PROVE  p < mmap_base + c
    BY <2>1, Layout
  <2> QED
    BY <2>1, Running DEF Page
<1>4. w \in {"free", "fixed"} \cup Placed /\ w # "stack"
  BY DEF Placed
<1>5. /\ {} \in SUBSET AppPage /\ pt \ (S \cup {}) \subseteq pt'
      /\ phase # "exit" /\ phase' \in {"run", "exit"}
      /\ w = "free" \/ phase' = "exit" \/ S \subseteq pt'
      /\ w = "stack" => \A p \in S : Guard < p /\ p < Top
  BY <1>4
<1> QED
  BY ZenonT(30), Zenon, <1>1, <1>2, <1>3, <1>4, <1>5, ChangeInv

(* The two outcomes of a mapping, as GiveInv needs them.                   *)
LEMMA MapOutcome ==
  ASSUME NEW addr \in Nat, NEW len \in Nat, NEW owner, pt \subseteq Page
  PROVE  /\ MapPages(addr, len, owner) =>
              /\ HostAccepts(addr, len) /\ host' = Holding(Pages(addr, len), owner)
              /\ pt' \subseteq Page /\ pt \subseteq pt' /\ Pages(addr, len) \subseteq pt'
         /\ MapPagesFails(addr, len) =>
              /\ HostAccepts(addr, len) /\ host' = Holding(Pages(addr, len), "free")
              /\ pt' \subseteq Page /\ pt \subseteq pt'
         /\ UnmapPages(addr, len) =>
              /\ HostAccepts(addr, len) /\ host' = Holding(Pages(addr, len), "free")
              /\ pt' \subseteq Page /\ pt \ Pages(addr, len) \subseteq pt'
  BY DEF MapPages, MapPagesFails, UnmapPages, Pages

(* Calls at an address the program names.                                  *)
LEMMA AtInv ==
  ASSUME UmmInv, NEW addr \in Addr, NEW len \in Length, NEW r \in BOOLEAN,
         MmapAt(addr, len) \/ umm_munmap(addr, len) \/ ShmatAt(addr, len, r)
  PROVE  UmmInv'
<1>0. addr \in Nat /\ len \in Nat
  BY UmmAssumption
<1>1. /\ phase = "run" /\ mem_ref_is_safe(addr, len)
      /\ UNCHANGED <<phase, brk_len, mmap_len, replaced>>
      /\ \/ MapPages(addr, len, "fixed") \/ MapPagesFails(addr, len)
         \/ UnmapPages(addr, len)
  BY DEF MmapAt, umm_munmap, ShmatAt
<1>2. /\ HostAccepts(addr, len) /\ pt' \subseteq Page /\ pt \ Pages(addr, len) \subseteq pt'
      /\ \E w \in {"free", "fixed"} : /\ host' = Holding(Pages(addr, len), w)
                                      /\ w = "free" \/ Pages(addr, len) \subseteq pt'
  BY Zenon, <1>0, <1>1, MapOutcome, Running
<1>3. Pages(addr, len) \subseteq AppPage
  BY <1>0, <1>1, <1>2, SafePages
<1>4. /\ brk_len \in Nat /\ mmap_len \in Nat /\ brk_len + mmap_len <= APP_MMAP_LEN
      /\ Aligned(brk_len) /\ Aligned(mmap_len) /\ brk_len <= brk_len /\ mmap_len <= mmap_len
  BY <1>1, Running
<1>5. PICK w \in {"free", "fixed"} : /\ host' = Holding(Pages(addr, len), w)
                                     /\ w = "free" \/ Pages(addr, len) \subseteq pt'
  BY <1>2
<1>6. brk_len' = brk_len /\ mmap_len' = mmap_len /\ replaced' = replaced /\ phase' = phase
  BY <1>1
<1> QED
  BY <1>1, <1>2, <1>3, <1>4, <1>5, <1>6, GiveInv

(* Mappings at an address the library chooses.                             *)
LEMMA OpenInv ==
  ASSUME UmmInv, NEW len \in Length, NEW r \in BOOLEAN,
         MmapOpen(len) \/ ShmatOpen(len, r)
  PROVE  UmmInv'
<1> DEFINE a == OpenAddr(len)
<1>0. len \in Nat
  BY UmmAssumption
<1>1. /\ phase = "run" /\ umm_space_left(len) /\ phase' = phase /\ brk_len' = brk_len
      /\ \/ MapPages(a, len, "auto") /\ mmap_len' = mmap_len + RoundUp(len)
         \/ MapPagesFails(a, len) /\ mmap_len' = mmap_len
      /\ replaced' \subseteq replaced \cup Held(Pages(a, len))
  BY DEF MmapOpen, ShmatOpen, Choose
<1>2. HostAccepts(a, len)
  BY <1>1 DEF MapPages, MapPagesFails
<1>3. /\ RoundUp(len) \in Nat /\ mmap_len + RoundUp(len) \in Nat
      /\ Aligned(mmap_len + RoundUp(len))
      /\ brk_len + (mmap_len + RoundUp(len)) <= APP_MMAP_LEN
      /\ Pages(a, len) \subseteq AppPage
      /\ \A p \in Pages(a, len) :
            /\ Top - (mmap_len + RoundUp(len)) <= p /\ p < Guard
            /\ host[p] \notin Placed
  BY <1>0, <1>1, <1>2, OpenFits
<1>4. /\ brk_len \in Nat /\ mmap_len \in Nat /\ brk_len + mmap_len <= APP_MMAP_LEN
      /\ Aligned(brk_len) /\ Aligned(mmap_len) /\ brk_len <= brk_len /\ mmap_len <= mmap_len
      /\ mmap_len <= mmap_len + RoundUp(len) /\ pt \subseteq Page
  BY <1>1, <1>3, Running
<1> DEFINE S == Pages(a, len)
<1> HIDE DEF a, S
<1>5. CASE MapPages(a, len, "auto") /\ mmap_len' = mmap_len + RoundUp(len)
  <2>1. host' = Holding(S, "auto") /\ pt' = pt \cup S /\ S \subseteq Page
    BY <1>5 DEF MapPages, S, Pages
  <2>2. /\ S \subseteq AppPage /\ replaced' \subseteq replaced \cup Held(S)
        /\ \A p \in S : host[p] \notin Placed
        /\ \A p \in S : Top - mmap_len' <= p /\ p < Guard
    BY <1>1, <1>3, <1>5 DEF S
  <2>3. /\ pt' \subseteq Page /\ pt \ S \subseteq pt' /\ S \subseteq pt'
    BY <1>4, <2>1
  <2>4. /\ mmap_len' \in Nat /\ mmap_len <= mmap_len' /\ Aligned(mmap_len')
        /\ brk_len' + mmap_len' <= APP_MMAP_LEN
        /\ brk_len' \in Nat /\ brk_len <= brk_len' /\ Aligned(brk_len')
    BY Zenon, <1>1, <1>3, <1>4, <1>5
  <2> QED
    BY <1>1, <2>1, <2>2, <2>3, <2>4, GiveInv
<1>6. CASE MapPagesFails(a, len) /\ mmap_len' = mmap_len
  <2>1. host' = Holding(S, "free") /\ pt' \subseteq Page /\ pt \subseteq pt'
    BY <1>4, <1>6 DEF MapPagesFails, S, Pages
  <2>2. /\ S \subseteq AppPage /\ replaced' \subseteq replaced \cup Held(S)
        /\ \A p \in S : host[p] \notin Placed
    BY <1>1, <1>3 DEF S
  <2>4. /\ mmap_len' \in Nat /\ mmap_len <= mmap_len' /\ Aligned(mmap_len')
        /\ brk_len' + mmap_len' <= APP_MMAP_LEN
        /\ brk_len' \in Nat /\ brk_len <= brk_len' /\ Aligned(brk_len')
    BY <1>1, <1>4, <1>6
  <2> QED
    BY <1>1, <2>1, <2>2, <2>4, GiveInv
<1> QED
  BY <1>1, <1>5, <1>6
(* brk moves the end of the heap to a page boundary below the mappings.    *)
LEMMA BrkInv ==
  ASSUME UmmInv, NEW brk \in Addr, umm_brk(brk)
  PROVE  UmmInv'
<1> DEFINE len == RoundUp(brk - mmap_base)
<1>0. /\ phase = "run" /\ brk >= mmap_base /\ umm_space_left(len)
      /\ phase' = phase /\ mmap_len' = mmap_len
  BY DEF umm_brk
<1>1. len \in Nat /\ Aligned(len)
  <2>1. brk - mmap_base \in Nat /\ brk - mmap_base + PGSIZE <= WORD
    BY <1>0, UmmAssumption
  <2> QED
    BY <2>1, RoundUpFits
<1>2. /\ brk_len \in Nat /\ mmap_len \in Nat /\ brk_len + mmap_len <= APP_MMAP_LEN
      /\ APP_STACK_SIZE <= mmap_len /\ Aligned(brk_len) /\ Aligned(mmap_len)
      /\ pt \subseteq Page /\ mmap_len <= mmap_len
  BY <1>0, Running
<1> HIDE DEF len
<1>3. CASE /\ len < brk_len /\ brk_len' = len /\ replaced' = replaced
           /\ UnmapPages(mmap_base + len, brk_len - len)
  <2> DEFINE F == Pages(mmap_base + len, brk_len - len)
  <2>1. \A p \in Page : p \in F <=> mmap_base + len <= p /\ p < mmap_base + brk_len
    <3>1. mmap_base + len + (brk_len - len) = mmap_base + brk_len
      BY <1>1, <1>2, Layout
    <3> QED
      BY <3>1 DEF Pages
  <2>2. F \in SUBSET AppPage
    <3>1. ASSUME NEW p \in Page, mmap_base + len <= p, p < mmap_base + brk_len
          PROVE  mmap_base <= p /\ p < Top
      <4>1. p \in Int
        BY DEF Page
      <4> QED
        BY <1>1, <1>2, <3>1, <4>1, Layout
    <3>2. F \subseteq Page
      BY DEF Pages
    <3> QED
      BY <2>1, <3>1, <3>2 DEF AppPage
  <2>3. \A p \in Page \ F : p < mmap_base + brk_len => p < mmap_base + len
    BY <1>1, <2>1, Layout DEF Page
  <2>4. /\ host' = [p \in Page |-> IF p \in {} THEN "free"
                                   ELSE IF p \in F THEN "free" ELSE host[p]]
        /\ pt' = pt \ F
    BY <1>3 DEF UnmapPages, Holding
  <2>5. len + mmap_len <= APP_MMAP_LEN
    BY <1>1, <1>2, <1>3, Layout
  <2> HIDE DEF F
  <2>6. /\ pt' \subseteq Page /\ pt \ ({} \cup F) \subseteq pt'
        /\ {} \in SUBSET AppPage /\ "free" \in {"free", "fixed"} \cup Placed
        /\ phase # "exit" /\ phase' \in {"run", "exit"}
    BY <1>0, <1>2, <2>4
  <2>7. brk_len' \in Nat /\ Aligned(brk_len') /\ brk_len' + mmap_len' <= APP_MMAP_LEN
    BY <1>0, <1>1, <1>3, <2>5
  <2>8. \A p \in Page \ F : p < mmap_base + brk_len => p < mmap_base + brk_len'
    BY <1>3, <2>3
  <2> QED
    BY <1>0, <1>2, <1>3, <2>2, <2>4, <2>6, <2>7, <2>8, ChangeInv
<1> DEFINE a == mmap_base + brk_len  n == len - brk_len  S == Pages(a, n)
<1>4. ASSUME len > brk_len, HostAccepts(a, n)
      PROVE  /\ a \in Nat /\ n \in Nat /\ S \in SUBSET AppPage
             /\ len + mmap_len <= APP_MMAP_LEN
             /\ \A p \in S : /\ host[p] \notin Placed
                             /\ mmap_base <= p /\ p < mmap_base + len
  <2>1. a \in Nat /\ n \in Nat /\ a + n = mmap_base + len
    BY <1>1, <1>2, <1>4, Layout
  <2>2. mmap_base + len <= TASK_SIZE
    BY <1>4, <2>1 DEF HostAccepts
  <2>3. brk_len + mmap_len + len \in Nat /\ brk_len + mmap_len + len < WORD
    BY <1>1, <1>2, <2>2, Layout, Pg
  <2>4. brk_len + mmap_len + len < APP_MMAP_LEN
    BY <1>0, <2>3, WordSmall DEF umm_space_left
  <2>5. len + mmap_len <= APP_MMAP_LEN
    BY <1>1, <1>2, <2>4, Layout
  <2>6. ASSUME NEW p \in S
        PROVE  /\ p \in AppPage /\ host[p] \notin Placed
               /\ mmap_base <= p /\ p < mmap_base + len
    <3>1. p \in Page /\ p \in Int /\ mmap_base + brk_len <= p /\ p < mmap_base + len
      BY <2>1 DEF Pages, Page
    <3>2. mmap_base <= p /\ p < Top - mmap_len /\ p < Guard /\ p < Top
      BY <1>1, <1>2, <2>5, <3>1, Layout
    <3>3. /\ host[p] = "heap" => p < mmap_base + brk_len
          /\ host[p] = "auto" => Top - mmap_len <= p
          /\ host[p] = "stack" => Guard < p
      BY <3>1 DEF UmmInv, RegionsApart, umm_get_map_pos
    <3>4. host[p] \notin {"heap", "auto", "stack"}
      BY <1>2, <3>1, <3>2, <3>3, Layout
    <3> QED
      BY <3>1, <3>2, <3>4 DEF Placed, AppPage
  <2> QED
    BY <2>1, <2>5, <2>6
<1>5. CASE /\ len > brk_len /\ brk_len' = len
           /\ MapPages(a, n, "heap") /\ Choose(a, n)
  <2>1. HostAccepts(a, n) /\ host' = Holding(S, "heap") /\ pt' = pt \cup S
    BY <1>5 DEF MapPages
  <2>2. /\ S \in SUBSET AppPage /\ len + mmap_len <= APP_MMAP_LEN
        /\ \A p \in S : /\ host[p] \notin Placed
                        /\ mmap_base <= p /\ p < mmap_base + len
    BY <1>4, <1>5, <2>1
  <2>3. replaced' \subseteq replaced \cup Held(S) /\ S \subseteq Page
    BY <1>5 DEF Choose, Pages
  <2> HIDE DEF S
  <2>4. /\ brk_len' \in Nat /\ mmap_len' \in Nat /\ brk_len <= brk_len'
        /\ mmap_len <= mmap_len' /\ Aligned(brk_len') /\ Aligned(mmap_len')
        /\ brk_len' + mmap_len' <= APP_MMAP_LEN
    BY <1>0, <1>1, <1>2, <1>5, <2>2
  <2>5. \A p \in S : mmap_base <= p /\ p < mmap_base + brk_len'
    BY <1>5, <2>2
  <2>6. pt' \subseteq Page /\ pt \ S \subseteq pt' /\ S \subseteq pt'
    BY <1>2, <2>1, <2>3
  <2> QED
    BY <1>0, <2>1, <2>2, <2>3, <2>4, <2>5, <2>6, GiveInv
<1>6. CASE /\ len > brk_len /\ brk_len' = brk_len
           /\ MapPagesFails(a, n) /\ Choose(a, n)
  <2>1. HostAccepts(a, n) /\ host' = Holding(S, "free") /\ pt' \subseteq Page /\ pt \subseteq pt'
    BY <1>2, <1>6 DEF MapPagesFails, Pages
  <2>2. S \in SUBSET AppPage /\ \A p \in S : host[p] \notin Placed
    BY <1>4, <1>6, <2>1
  <2>3. replaced' \subseteq replaced \cup Held(S)
    BY <1>6 DEF Choose
  <2> HIDE DEF S
  <2>4. /\ brk_len' \in Nat /\ mmap_len' \in Nat /\ brk_len <= brk_len'
        /\ mmap_len <= mmap_len' /\ Aligned(brk_len') /\ Aligned(mmap_len')
        /\ brk_len' + mmap_len' <= APP_MMAP_LEN
    BY <1>0, <1>2, <1>6
  <2> QED
    BY <1>0, <2>1, <2>2, <2>3, <2>4, GiveInv
<1> QED
  BY <1>3, <1>5, <1>6 DEF umm_brk, len
(* mremap frees the old range and takes the new one.                       *)
LEMMA MoveInv ==
  ASSUME UmmInv, phase = "run", brk_len' = brk_len,
         NEW old \in Nat, NEW old_size \in Nat, NEW new \in Nat, NEW new_size \in Nat,
         NEW owner \in {"auto", "fixed"},
         MovePages(old, old_size, new, new_size, owner),
         Pages(old, old_size) \subseteq AppPage, Pages(new, new_size) \subseteq AppPage,
         mmap_len' \in Nat, mmap_len <= mmap_len', Aligned(mmap_len'),
         brk_len + mmap_len' <= APP_MMAP_LEN,
         owner = "auto" => \A p \in Pages(new, new_size) : Top - mmap_len' <= p /\ p < Guard,
         \/ replaced' = replaced
         \/ /\ replaced' \subseteq replaced \cup Held(Pages(new, new_size))
            /\ \A p \in Pages(new, new_size) : host[p] \notin Placed
  PROVE  UmmInv'
<1> DEFINE S == Pages(new, new_size)  F == Pages(old, old_size)
<1>1. /\ host' = [p \in Page |-> IF p \in S THEN owner
                                 ELSE IF p \in F THEN "free" ELSE host[p]]
      /\ \/ pt' = (pt \ F) \cup S /\ phase' = phase
         \/ pt' = pt \ F /\ phase' = "exit"
  BY DEF MovePages
<1>2. /\ brk_len \in Nat /\ mmap_len \in Nat /\ APP_STACK_SIZE <= mmap_len
      /\ Aligned(brk_len) /\ pt \subseteq Page
  BY Running
<1>3. S \in SUBSET AppPage /\ F \in SUBSET AppPage /\ S \subseteq Page
  BY DEF Pages
<1> HIDE DEF S, F
<1>4. /\ pt' \subseteq Page /\ pt \ (S \cup F) \subseteq pt'
      /\ owner = "free" \/ phase' = "exit" \/ S \subseteq pt'
      /\ phase # "exit" /\ phase' \in {"run", "exit"}
  BY <1>1, <1>2, <1>3
<1>5. APP_STACK_SIZE <= mmap_len'
  BY <1>2, Layout
<1>6. /\ brk_len' \in Nat /\ Aligned(brk_len') /\ brk_len' + mmap_len' <= APP_MMAP_LEN
      /\ \A p \in Page \ F : p < mmap_base + brk_len => p < mmap_base + brk_len'
  BY <1>2
<1>7. /\ owner \in {"free", "fixed"} \cup Placed /\ owner # "heap" /\ owner # "stack"
  BY DEF Placed
<1>8. /\ owner = "auto" => \A p \in S : Top - mmap_len' <= p /\ p < Guard
      /\ \/ replaced' = replaced
         \/ /\ replaced' \subseteq replaced \cup Held(S)
            /\ \A p \in S : host[p] \notin Placed
  BY DEF S
<1> QED
  BY Zenon, <1>1, <1>3, <1>4, <1>5, <1>6, <1>7, <1>8, ChangeInv

(* mremap, at an address the library chooses or the program names.         *)
LEMMA MremapInv ==
  ASSUME UmmInv, NEW old \in Addr, NEW old_size \in Length, NEW new_size \in Length,
         \/ MremapOpen(old, old_size, new_size)
         \/ \E new \in Addr : MremapAt(old, old_size, new, new_size)
  PROVE  UmmInv'
<1>0. old \in Nat /\ old_size \in Nat /\ new_size \in Nat /\ Addr \subseteq Nat
  BY UmmAssumption
<1>1. CASE MremapOpen(old, old_size, new_size)
  <2> DEFINE a == OpenAddr(new_size)
  <2>1. /\ phase = "run" /\ mem_ref_is_safe(old, old_size) /\ umm_space_left(new_size)
        /\ MovePages(old, old_size, a, new_size, "auto")
        /\ mmap_len' = mmap_len + RoundUp(new_size) /\ brk_len' = brk_len
        /\ replaced' \subseteq replaced \cup Held(Pages(a, new_size))
    BY Zenon, <1>1 DEF MremapOpen, Choose
  <2>2. HostAccepts(old, old_size) /\ HostAccepts(a, new_size)
    BY <2>1 DEF MovePages
  <2>3. Pages(old, old_size) \subseteq AppPage
    BY <1>0, <2>1, <2>2, SafePages
  <2>4. /\ RoundUp(new_size) \in Nat /\ mmap_len + RoundUp(new_size) \in Nat
        /\ Aligned(mmap_len + RoundUp(new_size))
        /\ brk_len + (mmap_len + RoundUp(new_size)) <= APP_MMAP_LEN
        /\ Pages(a, new_size) \subseteq AppPage
        /\ \A p \in Pages(a, new_size) :
              /\ Top - (mmap_len + RoundUp(new_size)) <= p /\ p < Guard
              /\ host[p] \notin Placed
    BY <1>0, <2>1, <2>2, OpenFits
  <2>5. a \in Nat /\ mmap_len <= mmap_len + RoundUp(new_size)
    <3>1. \A n \in Int : Word(n) \in Nat
      BY Layout, Pg, DivMod DEF Word
    <3>2. mmap_len \in Nat
      BY <2>1, Running
    <3> QED
      BY <2>4, <3>1, <3>2, Layout DEF OpenAddr, umm_get_map_pos
  <2> HIDE DEF a
  <2> QED
    BY <1>0, <2>1, <2>3, <2>4, <2>5, MoveInv
<1>2. ASSUME NEW new \in Addr, MremapAt(old, old_size, new, new_size) PROVE UmmInv'
  <2>1. /\ phase = "run" /\ mem_ref_is_safe(old, old_size) /\ mem_ref_is_safe(new, new_size)
        /\ MovePages(old, old_size, new, new_size, "fixed")
        /\ mmap_len' = mmap_len /\ brk_len' = brk_len /\ replaced' = replaced
    BY <1>2 DEF MremapAt
  <2>2. HostAccepts(old, old_size) /\ HostAccepts(new, new_size) /\ new \in Nat
    BY <1>0, <2>1 DEF MovePages
  <2>3. Pages(old, old_size) \subseteq AppPage /\ Pages(new, new_size) \subseteq AppPage
    BY <1>0, <2>1, <2>2, SafePages
  <2>4. /\ mmap_len' \in Nat /\ mmap_len <= mmap_len' /\ Aligned(mmap_len')
        /\ brk_len + mmap_len' <= APP_MMAP_LEN
    BY <2>1, Running
  <2> QED
    BY <1>0, <2>1, <2>2, <2>3, <2>4, MoveInv
<1> QED
  BY <1>1, <1>2

(* The stack takes the top of the range, above its guard page.             *)
LEMMA StackInv ==
  ASSUME UmmInv, umm_alloc_stack
  PROVE  UmmInv'
<1> DEFINE a == PGADDR(umm_get_map_pos) - APP_STACK_SIZE + PGSIZE
           n == APP_STACK_SIZE - PGSIZE
           S == Pages(a, n)
<1>0. /\ phase = "boot" /\ brk_len = 0 /\ mmap_len = 0 /\ pt \subseteq Page
      /\ \A p \in Page : host[p] \notin Placed
  BY DEF umm_alloc_stack, UmmInv, UmmTypeOK, RegionsApart
<1>1. umm_get_map_pos = Top /\ PGOFF(Top) = 0 /\ PGADDR(Top) = Top
  BY <1>0, Layout DEF umm_get_map_pos, PGADDR, PGOFF, Aligned
<1>2. a = Guard + PGSIZE /\ a + n = Top /\ a \in Nat /\ n \in Nat
  BY <1>1, Layout, Pg
<1>3. ASSUME NEW p \in S PROVE p \in AppPage /\ p \in Page /\ Guard < p /\ p < Top
  <2>1. p \in Page /\ p \in Int /\ Guard + PGSIZE <= p /\ p < Top
    BY <1>2 DEF Pages, Page
  <2>2. Guard < p /\ mmap_base <= p
    BY <2>1, Layout, Pg
  <2> QED
    BY <2>1, <2>2 DEF AppPage
<1>4. /\ \/ /\ MapPages(a, n, "stack") /\ phase' = "run"
            /\ mmap_len' = 0 + APP_STACK_SIZE + 0
         \/ /\ MapPagesFails(a, n) /\ phase' = "exit" /\ mmap_len' = 0
      /\ replaced' \subseteq replaced \cup Held(S) /\ brk_len' = 0
  BY <1>0, <1>1 DEF umm_alloc_stack, Choose
<1>5. PICK w \in {"free", "stack"} :
         /\ host' = Holding(S, w)
         /\ (w = "stack" /\ phase' = "run") \/ (w = "free" /\ phase' = "exit")
         /\ w = "stack" => mmap_len' = 0 + APP_STACK_SIZE + 0 /\ S \subseteq pt'
         /\ w = "free" => mmap_len' = 0
         /\ pt' \subseteq Page /\ pt \subseteq pt'
  <2>1. /\ MapPages(a, n, "stack") =>
             /\ host' = Holding(S, "stack")
             /\ pt' \subseteq Page /\ pt \subseteq pt' /\ S \subseteq pt'
        /\ MapPagesFails(a, n) =>
             /\ host' = Holding(S, "free") /\ pt' \subseteq Page /\ pt \subseteq pt'
    BY <1>0, <1>2, MapOutcome
  <2> HIDE DEF S, a, n
  <2>2. CASE MapPages(a, n, "stack") /\ phase' = "run" /\ mmap_len' = 0 + APP_STACK_SIZE + 0
    <3> WITNESS "stack" \in {"free", "stack"}
    <3> QED
      BY <2>1, <2>2
  <2>3. CASE MapPagesFails(a, n) /\ phase' = "exit" /\ mmap_len' = 0
    <3> WITNESS "free" \in {"free", "stack"}
    <3> QED
      BY <2>1, <2>3
  <2> QED
    BY <1>4, <2>2, <2>3
<1> HIDE DEF S, a, n
<1>6. /\ brk_len' \in Nat /\ mmap_len' \in Nat
      /\ mmap_len <= mmap_len' /\ brk_len' + mmap_len' <= APP_MMAP_LEN
      /\ APP_STACK_SIZE <= mmap_len' \/ (phase' = "exit" /\ w = "free")
  BY <1>0, <1>4, <1>5, Layout
<1>7. Aligned(brk_len') /\ Aligned(mmap_len')
  <2>1. Aligned(0) /\ APP_STACK_SIZE = 0 + APP_STACK_SIZE + 0 /\ Aligned(APP_STACK_SIZE)
    BY <1>0, Layout DEF UmmInv, RegionsApart
  <2> QED
    BY <1>4, <1>5, <2>1
<1>8. /\ host' = [p \in Page |-> IF p \in S THEN w
                                 ELSE IF p \in {} THEN "free" ELSE host[p]]
      /\ S \in SUBSET AppPage /\ {} \in SUBSET AppPage
      /\ w \in {"free", "fixed"} \cup Placed
      /\ phase # "exit" /\ phase' \in {"run", "exit"}
  BY <1>0, <1>3, <1>5 DEF Holding, Placed
<1>9. /\ pt' \subseteq Page /\ pt \ (S \cup {}) \subseteq pt'
      /\ w = "free" \/ phase' = "exit" \/ S \subseteq pt'
  BY <1>5
<1>10. \A p \in Page \ {} : p < mmap_base + brk_len => p < mmap_base + brk_len'
  BY <1>0, <1>4
<1>11. (\A p \in S : host[p] \notin Placed) /\ \A p \in S : Guard < p /\ p < Top
  BY <1>0, <1>3
<1> QED
  BY ZenonT(30), Zenon, <1>4, <1>5, <1>6, <1>7, <1>8, <1>9, <1>10, <1>11, ChangeInv

(* A page table entry more disturbs nothing.                               *)
LEMMA FaultInv ==
  ASSUME UmmInv, NEW p \in Fault, pgflt_handler(p)
  PROVE  UmmInv'
<1>1. p \in Page
  BY UmmAssumption
<1>2. /\ phase' = phase /\ brk_len' = brk_len /\ mmap_len' = mmap_len /\ host' = host
      /\ replaced' = replaced /\ pt' = pt \cup {p}
  BY DEF pgflt_handler
<1> QED
  BY <1>1, <1>2 DEF UmmInv, UmmTypeOK, RegionsApart, NeverReplacesPlaced, GuardUnmapped,
                    SandboxKept, MappedIsReachable, umm_get_map_pos

(* The state load_elf leaves satisfies the invariant.                      *)
LEMMA InitInv == UmmInit => UmmInv
<1> SUFFICES ASSUME UmmInit PROVE UmmInv
  OBVIOUS
<1> USE UmmAssumption DEF UmmInit
<1>0. Elf \subseteq AppPage /\ AppPage \subseteq Page
  BY DEF AppPage
<1>1. UmmTypeOK
  BY <1>0 DEF UmmTypeOK, Owner
<1>2. Aligned(0)
  BY MultipleMod, Pg DEF Aligned
<1>3. RegionsApart
  BY <1>2, Layout DEF RegionsApart, Placed
<1>4. GuardUnmapped
  <2>1. Guard \in AppPage /\ Guard \notin Elf
    BY Layout
  <2> QED
    BY <1>0, <2>1 DEF GuardUnmapped
<1>5. NeverReplacesPlaced
  BY DEF NeverReplacesPlaced
<1>6. SandboxKept /\ MappedIsReachable
  BY <1>0 DEF SandboxKept, MappedIsReachable
<1> QED
  BY <1>1, <1>3, <1>4, <1>5, <1>6 DEF UmmInv

(* Every call keeps the invariant.                                         *)
LEMMA NextInv == UmmInv /\ [UmmNext]_uvars => UmmInv'
<1> SUFFICES ASSUME UmmInv, [UmmNext]_uvars PROVE UmmInv'
  OBVIOUS
<1>1. CASE UNCHANGED uvars
  BY <1>1 DEF uvars, UmmInv, UmmTypeOK, RegionsApart, NeverReplacesPlaced, GuardUnmapped,
              SandboxKept, MappedIsReachable, umm_get_map_pos
<1> QED
  BY Zenon, <1>1, StackInv, BrkInv, OpenInv, AtInv, MremapInv, FaultInv DEF UmmNext

-----------------------------------------------------------------------------
(* The invariant holds for every layout, page size, address and length.    *)
THEOREM UmmInvariance == UmmSpec => []UmmInv
<1> QED
  BY InitInv, NextInv, PTL DEF UmmSpec

(* The heap, the mappings and the stack stay in disjoint parts of the      *)
(* range and the counters never exceed it (umm.c:28-36).                   *)
THEOREM KeepsRegionsApart == UmmSpec => []RegionsApart
<1>1. UmmInv => RegionsApart
  BY DEF UmmInv
<1> QED
  BY <1>1, UmmInvariance, PTL

(* No call that leaves the address to the library takes a page the library *)
(* placed before (umm.c:52-145, 169-204, 246-334).                         *)
THEOREM ReplacesNothingPlaced == UmmSpec => []NeverReplacesPlaced
<1>1. UmmInv => NeverReplacesPlaced
  BY DEF UmmInv
<1> QED
  BY <1>1, UmmInvariance, PTL

(* The guard page below the stack stays unmapped (umm.c:344-346).          *)
THEOREM KeepsGuard == UmmSpec => []GuardUnmapped
<1>1. UmmInv => GuardUnmapped
  BY DEF UmmInv
<1> QED
  BY <1>1, UmmInvariance, PTL

(* The memory of the sandbox survives every call (sandbox.h:32-50).        *)
THEOREM KeepsSandbox == UmmSpec => []SandboxKept
<1>1. UmmInv => SandboxKept
  BY DEF UmmInv
<1> QED
  BY <1>1, UmmInvariance, PTL

(* Memory that a call returned is in the page table of the program.        *)
THEOREM ReachesMapped == UmmSpec => []MappedIsReachable
<1>1. UmmInv => MappedIsReachable
  BY DEF UmmInv
<1> QED
  BY <1>1, UmmInvariance, PTL

(* The counters never go below zero when the heap shrinks or a mapping is  *)
(* resized (umm.c:116-140).                                                *)
THEOREM UmmTypeCorrect == UmmSpec => []UmmTypeOK
<1>1. UmmInv => UmmTypeOK
  BY DEF UmmInv
<1> QED
  BY <1>1, UmmInvariance, PTL
=============================================================================
