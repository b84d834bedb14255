----------------------------- MODULE TagsProofs -----------------------------
(***************************************************************************)
(* Proof that sthreads see what their policies say, and that smalloc hands *)
(* out no byte twice, for every layout of memory, every choice of mmap,    *)
(* every policy, size and buffer that satisfies TagsAssumption.  The       *)
(* lemmas on areas and cardinalities come first; then one lemma per action *)
(* for MemInv, the shorter arguments for WalkKept and BlocksBelow, and the *)
(* properties.                                                             *)
(***************************************************************************)
EXTENDS Tags, FiniteSetTheorems, TLAPS

-----------------------------------------------------------------------------
(* The largest element of a bounded set is in it.                          *)
LEMMA MaxIn ==
  ASSUME NEW n \in Nat, NEW S, S \subseteq 1 .. n, S # {}
  PROVE  Max(S) \in S
<1> DEFINE U == 1 .. n
           T == {x .. n : x \in S}
<1>1. IsFiniteSet(U)
  BY FS_Interval
<1>2. FiniteSubsetsOf(U) = SUBSET U
  BY <1>1, FS_FiniteSubsetsOfFinite
<1>3. IsWellFoundedOn(StrictSubsetOrdering(U), SUBSET U)
  BY <1>2, FS_StrictSubsetOrderingWellFounded, Zenon
<1>4. T \subseteq SUBSET U /\ T # {}
  <2>1. \A x \in S : x .. n \subseteq U
    OBVIOUS
  <2> QED
    BY <2>1, Zenon
<1>5. PICK m \in T : \A y \in T : ~(<<y, m>> \in StrictSubsetOrdering(U))
  BY <1>3, <1>4, WFMin, Zenon
<1>6. PICK x \in S : m = x .. n
  BY <1>5
<1>7. ASSUME NEW y \in S PROVE x >= y
  <2>1. SUFFICES ASSUME y > x PROVE FALSE
    BY <1>6, <1>7
  <2>2. y .. n \in T /\ y .. n \in SUBSET U /\ m \in SUBSET U
    BY <1>4, <1>5, <1>7
  <2>3. y .. n \subseteq m
    BY <2>1, <1>6
  <2>4. x \in m /\ x \notin y .. n
    BY <2>1, <1>6
  <2>5. <<y .. n, m>> \in StrictSubsetOrdering(U)
    <3>1. y .. n # m
      BY <2>4
    <3> QED
      BY <2>2, <2>3, <3>1 DEF StrictSubsetOrdering
  <2> QED
    BY Zenon, <1>5, <2>2, <2>5
<1> QED
  BY Zenon, <1>6, <1>7 DEF Max

(* The smallest element of an interval that is not empty is its first.     *)
LEMMA MinInterval ==
  ASSUME NEW a \in Int, NEW b \in Int, a .. b # {}
  PROVE  Min(a .. b) = a
<1>1. a \in a .. b /\ \A y \in a .. b : a <= y
  OBVIOUS
<1>2. \A x \in a .. b : (\A y \in a .. b : x <= y) => x = a
  BY <1>1
<1> QED
  BY <1>1, <1>2 DEF Min

(* Division with remainder, stated over a variable divisor.                *)
LEMMA DivMod ==
  ASSUME NEW P \in Nat, P > 0, NEW a \in Int
  PROVE  /\ a = P * (a \div P) + (a % P)
         /\ a % P \in 0 .. P - 1 /\ a \div P \in Int
  OBVIOUS

(* The page of the n-th byte of page k is k.                               *)
LEMMA PageOf ==
  ASSUME NEW P \in Nat, P > 0, NEW k \in Nat, NEW r \in 0 .. P - 1
  PROVE  (k * P + r) \div P = k
<1> DEFINE a == k * P + r  q == a \div P  s == a % P
<1>1. a \in Nat /\ q \in Int /\ s \in 0 .. P - 1 /\ a = P * q + s
  BY DivMod
<1> HIDE DEF q, s
<1>2. P * (k - q) = s - r
  BY <1>1
<1>3. CASE k - q >= 1
  <2>1. P * (k - q) >= P
    BY <1>1, <1>3
  <2> QED
    BY <1>1, <1>2, <2>1
<1>4. CASE k - q <= -1
  <2>1. P * (k - q) <= -P
    BY <1>1, <1>4
  <2> QED
    BY <1>1, <1>2, <2>1
<1>5. q = k
  BY <1>1, <1>3, <1>4
<1> QED
  BY <1>5 DEF q

-----------------------------------------------------------------------------
(* The sizes, as they are used below.                                      *)
LEMMA Sizes1 ==
  /\ Pages \in Nat \ {0} /\ PGSIZE \in Nat \ {0} /\ TAG_SIZE \in Nat \ {0} /\ STACK_SIZE \in Nat \ {0}
  /\ WORD \in Nat \ {0} /\ SizeofKstate \in Nat /\ SizeofSthread \in Nat
<1>1. /\ Pages \in Nat \ {0} /\ PGSIZE \in Nat \ {0} /\ TAG_SIZE \in Nat \ {0} /\ STACK_SIZE \in Nat \ {0}
      /\ WORD \in Nat /\ SizeofKstate \in Nat /\ SizeofSthread \in Nat
  BY TagsAssumption, Zenon
<1>2. 2 * TAG_SIZE * PGSIZE < WORD
  BY TagsAssumption, Zenon
<1>3. 2 * TAG_SIZE * PGSIZE \in Nat
  BY <1>1
<1>4. WORD # 0
  BY <1>1, <1>2, <1>3
<1> QED
  BY <1>1, <1>4, Zenon

(* What mmap returns is a free area.                                       *)
LEMMA mmapFree ==
  ASSUME NEW m, NEW n, NEW a \in mmap(m, n)
  PROVE  /\ a \in Page /\ a + n - 1 \in Page
         /\ \A l \in m : Extent(l) \cap (a .. a + n - 1) = {}
<1> DEFINE S == {x \in Page : x + n - 1 \in Page /\ \A l \in m : Extent(l) \cap (x .. x + n - 1) = {}}
<1>1. Places(S) \subseteq S
  <2>1. S \in SUBSET Page
    BY Zenon
  <2> QED
    BY <2>1, TagsAssumption, Zenon
<1>2. a \in S
  BY <1>1, Zenon DEF mmap
<1> QED
  BY <1>2, Zenon

(* A new line covers its area.                                             *)
LEMMA LineExtent ==
  ASSUME NEW a \in Nat, NEW n \in Nat
  PROVE  Extent(Line(a, n)) = a .. a + n - 1 /\ Line(a, n).w
  BY DEF Extent, Line

LEMMA LineType ==
  ASSUME NEW n \in Nat, n > 0, NEW a \in Page, a + n - 1 \in Page
  PROVE  Line(a, n) \in [start : Page, end : 2 .. Pages + 1, w : BOOLEAN, stack : BOOLEAN, len : Nat]
<1>1. a + n \in 2 .. Pages + 1
  BY Sizes1 DEF Page
<1> QED
  BY <1>1 DEF Line

(* A segment lies within memory, so the writable ones can be counted.      *)
LEMMA WritablePages ==
  ASSUME NEW S, S \subseteq [start : Page, end : 2 .. Pages + 1, w : BOOLEAN, stack : BOOLEAN, len : Nat]
  PROVE  /\ Writable(S) \subseteq Page /\ ReadOnly(S) \subseteq Page
         /\ IsFiniteSet(Writable(S))
         /\ Cardinality(Writable(S)) \in Nat
         /\ Writable(S) # {} => Cardinality(Writable(S)) > 0
<1>1. ASSUME NEW l \in S PROVE Extent(l) \subseteq Page
  BY <1>1, Sizes1 DEF Extent, Page
<1>2. Writable(S) \subseteq Page /\ ReadOnly(S) \subseteq Page
  BY <1>1 DEF Writable, ReadOnly
<1>3. IsFiniteSet(Page)
  BY FS_Interval, Sizes1 DEF Page
<1>4. IsFiniteSet(Writable(S))
  BY <1>2, <1>3, FS_Subset, Zenon
<1>5. Cardinality(Writable(S)) \in Nat /\ (Cardinality(Writable(S)) = 0 <=> Writable(S) = {})
  BY <1>4, FS_CardinalityType, FS_EmptySet
<1> QED
  BY <1>2, <1>4, <1>5

(* The pages below p are fewer than all of a set that holds p, and one     *)
(* more for each page that p is further up.                                *)
LEMMA Below ==
  ASSUME NEW W, W \subseteq Page, NEW p \in W
  PROVE  /\ Cardinality({q \in W : q < p}) \in Nat
         /\ Cardinality({q \in W : q < p}) < Cardinality(W)
         /\ Cardinality(W) \in Nat
<1> DEFINE B == {q \in W : q < p}
<1>1. IsFiniteSet(W)
  <2>1. IsFiniteSet(Page)
    BY FS_Interval, Sizes1 DEF Page
  <2> QED
    BY <2>1, FS_Subset, Zenon
<1>2. B \in SUBSET W /\ B # W
  BY Sizes1 DEF Page
<1>3. IsFiniteSet(B) /\ Cardinality(B) <= Cardinality(W) /\ Cardinality(B) # Cardinality(W)
  BY <1>1, <1>2, FS_Subset, Zenon
<1>4. Cardinality(B) \in Nat /\ Cardinality(W) \in Nat
  BY <1>1, <1>3, FS_CardinalityType
<1> QED
  BY <1>3, <1>4

LEMMA BelowUp ==
  ASSUME NEW W, W \subseteq Page, NEW f \in Page, NEW p \in Page, f .. p \subseteq W, f <= p
  PROVE  Cardinality({q \in W : q < p}) = Cardinality({q \in W : q < f}) + (p - f)
<1> DEFINE A == {q \in W : q < f}
           B == {q \in W : q < p}
           C == f .. p - 1
<1>0. IsFiniteSet(W)
  <2>1. IsFiniteSet(Page)
    BY FS_Interval, Sizes1 DEF Page
  <2> QED
    BY <2>1, FS_Subset, Zenon
<1>t. f \in Int /\ p \in Int /\ p - 1 \in Int /\ \A q \in W : q \in Int
  BY Sizes1 DEF Page
<1>1. B = A \cup C /\ A \cap C = {}
  <2>1. \A q \in B : q \in A \cup C
    BY <1>t
  <2>2. \A q \in A : q \in B /\ q \notin C
    BY <1>t
  <2>3. \A q \in C : q \in B
    BY <1>t
  <2> HIDE DEF A, B, C
  <2> QED
    BY <2>1, <2>2, <2>3
<1>2. A \in SUBSET W
  OBVIOUS
<1>3. IsFiniteSet(A) /\ Cardinality(A) \in Nat
  BY <1>0, <1>2, FS_Subset, FS_CardinalityType, Zenon
<1>4. IsFiniteSet(C) /\ Cardinality(C) = p - f
  <2>1. IsFiniteSet(C) /\ Cardinality(C) = IF f > p - 1 THEN 0 ELSE (p - 1) - f + 1
    BY <1>t, FS_Interval, Zenon
  <2> HIDE DEF C
  <2> QED
    BY <1>t, <2>1
<1> HIDE DEF A, B, C
<1>5. Cardinality(A \cup C) = Cardinality(A) + Cardinality(C) - Cardinality(A \cap C)
  BY <1>3, <1>4, FS_Union, Zenon
<1>6. Cardinality(A \cap C) = 0
  BY <1>1, FS_EmptySet
<1>7. Cardinality(B) = Cardinality(A) + (p - f)
  BY <1>t, <1>1, <1>3, <1>4, <1>5, <1>6
<1> QED
  BY <1>7 DEF A, B

-----------------------------------------------------------------------------
(* An element of a sequence; changing and adding one.                      *)
LEMMA ElementSeq ==
  ASSUME NEW S, NEW s \in Seq(S), NEW i \in DOMAIN s
  PROVE  s[i] \in S
  OBVIOUS

LEMMA FunctionSeq ==
  ASSUME NEW S, NEW n \in Nat, NEW f \in [1 .. n -> S]
  PROVE  f \in Seq(S)
  OBVIOUS

LEMMA ExceptSeq ==
  ASSUME NEW S, NEW s \in Seq(S), NEW i \in DOMAIN s, NEW r \in S
  PROVE  LET t == [s EXCEPT ![i] = r] IN
         /\ t \in Seq(S) /\ DOMAIN t = DOMAIN s /\ Len(t) = Len(s)
         /\ t[i] = r /\ \A j \in DOMAIN s : j # i => t[j] = s[j]
  OBVIOUS

LEMMA AppendSeq ==
  ASSUME NEW S, NEW s \in Seq(S), NEW r \in S
  PROVE  LET t == Append(s, r) IN
         /\ t \in Seq(S) /\ DOMAIN t = DOMAIN s \cup {Len(s) + 1} /\ Len(t) = Len(s) + 1
         /\ t[Len(s) + 1] = r /\ \A j \in DOMAIN s : t[j] = s[j]
         /\ Len(s) \in Nat /\ Len(s) + 1 \notin DOMAIN s /\ t # <<>>
  OBVIOUS

(* A step that leaves the lines, the segments, the areas of the tags and,  *)
(* of each sthread, the policy, the areas and the table as they are keeps  *)
(* what is said of memory.                                                 *)
LEMMA KeepMem ==
  ASSUME MemInv, TagsTypeOK', Initialised', maps' = maps, segs' = segs,
         DOMAIN tags' = DOMAIN tags, \A t \in DOMAIN tags : tags'[t].buf = tags[t].buf,
         DOMAIN st' = DOMAIN st,
         \A i \in DOMAIN st : /\ st'[i].sc = st[i].sc /\ st'[i].stack = st[i].stack
                              /\ st'[i].copy = st[i].copy /\ st'[i].pte = st[i].pte
  PROVE  MemInv'
<1>1. SegPages' = SegPages /\ \A p : Mapped(p)' <=> Mapped(p)
  BY DEF SegPages, Writable, ReadOnly, Extent, Mapped
<1>2. \A i \in DOMAIN st : StackOf(i)' = StackOf(i) /\ CopyOf(i)' = CopyOf(i)
  BY DEF StackOf, CopyOf, Writable
<1>3. \A i \in DOMAIN st : Own(i)' = Own(i)
  BY <1>2 DEF Own
<1>4. \A t \in DOMAIN tags : TagPages(t)' = TagPages(t)
  BY DEF TagPages
<1>5. MapsApart'
  <2>1. \A k, l \in maps' : k = l \/ Extent(k) \cap Extent(l) = {}
    BY Zenon DEF MemInv, MapsApart
  <2>2. \A t \in DOMAIN tags' : Line(tags'[t].buf, TAG_SIZE) \in maps'
    BY Zenon DEF MemInv, MapsApart
  <2>3. ASSUME NEW i \in DOMAIN st'
        PROVE  /\ \A p \in Own(i)' : Mapped(p)' /\ p \notin SegPages'
               /\ \A t \in DOMAIN tags' : Own(i)' \cap TagPages(t)' = {}
               /\ \A j \in DOMAIN st' : i # j => Own(i)' \cap Own(j)' = {}
    BY <1>1, <1>3, <1>4, ZenonT(30) DEF MemInv, MapsApart
  <2> QED
    BY <2>1, <2>2, <2>3, Zenon DEF MapsApart
<1>6. TablesKept'
  <2> SUFFICES ASSUME NEW i \in DOMAIN st'
               PROVE  /\ \A k \in DOMAIN st'[i].sc : \E t \in DOMAIN tags' : st'[i].sc[k].a = tags'[t].buf
                      /\ \A p \in Page : AsBuilt(st[i].pte[p], p, st[i].sc, st[i].stack, st[i].copy)'
    BY Zenon DEF TablesKept
  <2>1. ASSUME NEW k \in DOMAIN st'[i].sc
        PROVE  \E t \in DOMAIN tags' : st'[i].sc[k].a = tags'[t].buf
    <3>1. st'[i].sc = st[i].sc /\ i \in DOMAIN st
      BY Zenon
    <3>2. PICK t \in DOMAIN tags : st[i].sc[k].a = tags[t].buf
      BY <2>1, <3>1 DEF MemInv, TablesKept
    <3> QED
      BY <3>1, <3>2
  <2>2. ASSUME NEW p \in Page
        PROVE  AsBuilt(st[i].pte[p], p, st[i].sc, st[i].stack, st[i].copy)'
    <3>1. AsBuilt(st[i].pte[p], p, st[i].sc, st[i].stack, st[i].copy)
      BY Zenon DEF MemInv, TablesKept
    <3> QED
      BY <3>1 DEF AsBuilt
  <2> QED
    BY <2>1, <2>2, Zenon
<1> QED
  BY <1>5, <1>6 DEF MemInv

(* The process stops, and nothing else changes.                            *)
LEMMA StopMem ==
  ASSUME MemInv, state' \in {"exit0", "exit1", "crash"}, buf' = NoBuf,
         UNCHANGED <<maps, segs, tags, ktag, st, blocks>>
  PROVE  MemInv'
<1>1. TagsTypeOK'
  BY DEF MemInv, TagsTypeOK, NoBuf
<1>2. Initialised'
  BY DEF MemInv, Initialised, Writable, Extent
<1> QED
  BY <1>1, <1>2, KeepMem

(* What a member of SthreadRec is made of.                                 *)
LEMMA Fields ==
  ASSUME NEW s \in SthreadRec
  PROVE  /\ s.state \in {"RUNNING", "ZOMBIE", "DEAD"} /\ s.stack \in Page /\ s.copy \in Page /\ s.walk \in Nat
         /\ s.pte \in [Page -> [bits : SUBSET PteBit, pa : Page]]
         /\ s.sc \in Seq([a : Page, prot : SUBSET {"R", "W"}])
  BY DEF SthreadRec

(* One sthread changes, but not in its policy, its areas and its table.    *)
LEMMA SthreadMem ==
  ASSUME MemInv, NEW i \in DOMAIN st, NEW r \in SthreadRec,
         r.sc = st[i].sc, r.stack = st[i].stack, r.copy = st[i].copy, r.pte = st[i].pte,
         st' = [st EXCEPT ![i] = r], buf' \in [s : Nat, ptr : Nat, len : Nat, at : Nat],
         UNCHANGED <<state, maps, segs, tags, ktag, blocks>>
  PROVE  MemInv'
<1>1. /\ st' \in Seq(SthreadRec) /\ DOMAIN st' = DOMAIN st
      /\ st'[i] = r /\ \A j \in DOMAIN st : j # i => st'[j] = st[j]
  BY ExceptSeq DEF MemInv, TagsTypeOK
<1>2. TagsTypeOK'
  BY Zenon, <1>1 DEF MemInv, TagsTypeOK
<1>3. Initialised'
  <2>1. st # <<>> /\ st' # <<>>
    BY <1>1 DEF MemInv, TagsTypeOK
  <2> QED
    BY <2>1 DEF MemInv, Initialised, Writable, Extent
<1> QED
  BY <1>1, <1>2, <1>3, KeepMem

LEMMA st_walkType ==
  ASSUME MemInv, NEW i \in DOMAIN st, NEW b \in Buffers
  PROVE  st_walk(i, b) \in Nat
<1>1. st[i] \in SthreadRec
  BY DEF MemInv, TagsTypeOK
<1>2. \A p \in Page : st[i].pte[p].pa \in Page
  BY <1>1, Fields
<1> QED
  BY <1>2, Sizes1 DEF st_walk, walk_check_perm, Page

(* A tag moves its pointer.                                                *)
LEMMA bumpMem ==
  ASSUME MemInv, NEW i \in DOMAIN tags, NEW sz \in Nat, tags' = [tags EXCEPT ![i] = bump(@, sz)],
         blocks' = blocks \cup {Block(i, sz)}
  PROVE  /\ tags' \in Seq([buf : Page, p : Nat]) /\ DOMAIN tags' = DOMAIN tags /\ Len(tags') = Len(tags)
         /\ tags'[i].p = (tags[i].p + sz) % WORD
         /\ \A t \in DOMAIN tags : tags'[t].buf = tags[t].buf
         /\ \A t \in DOMAIN tags : t # i => tags'[t] = tags[t]
         /\ blocks' \subseteq [tag : Nat, off : Nat, sz : Nat]
<1>1. tags[i] \in [buf : Page, p : Nat] /\ WORD \in Nat /\ WORD > 0
  <2>1. tags \in Seq([buf : Page, p : Nat])
    BY Zenon DEF MemInv, TagsTypeOK
  <2>2. tags[i] \in [buf : Page, p : Nat]
    BY <2>1, ElementSeq, Zenon
  <2> QED
    BY <2>2, Sizes1
<1>2. (tags[i].p + sz) % WORD \in Nat
  BY <1>1
<1>3. /\ bump(tags[i], sz) \in [buf : Page, p : Nat]
      /\ bump(tags[i], sz).buf = tags[i].buf /\ bump(tags[i], sz).p = (tags[i].p + sz) % WORD
  BY <1>1, <1>2 DEF bump
<1>4. tags' = [tags EXCEPT ![i] = bump(tags[i], sz)] /\ tags \in Seq([buf : Page, p : Nat])
  BY DEF MemInv, TagsTypeOK
<1>5. /\ tags' \in Seq([buf : Page, p : Nat]) /\ DOMAIN tags' = DOMAIN tags /\ Len(tags') = Len(tags)
      /\ tags'[i] = bump(tags[i], sz) /\ \A j \in DOMAIN tags : j # i => tags'[j] = tags[j]
  BY <1>3, <1>4, ExceptSeq
<1>6. i \in Nat
  BY DEF MemInv, TagsTypeOK
<1> QED
  BY <1>1, <1>3, <1>5, <1>6, SMTT(30) DEF Block, MemInv, TagsTypeOK

LEMMA smallocMem ==
  ASSUME MemInv, NEW i \in DOMAIN tags, NEW sz \in Sizes, smalloc(i, sz)
  PROVE  MemInv'
<1>1. sz \in Nat
  BY TagsAssumption
<1>2. /\ tags' = [tags EXCEPT ![i] = bump(@, sz)] /\ blocks' = blocks \cup {Block(i, sz)}
      /\ buf' = NoBuf /\ UNCHANGED <<state, maps, segs, ktag, st>>
  BY DEF smalloc
<1>3. /\ tags' \in Seq([buf : Page, p : Nat]) /\ DOMAIN tags' = DOMAIN tags /\ Len(tags') = Len(tags)
      /\ \A t \in DOMAIN tags : tags'[t].buf = tags[t].buf
      /\ blocks' \subseteq [tag : Nat, off : Nat, sz : Nat]
  BY Zenon, <1>1, <1>2, bumpMem
<1>4. TagsTypeOK'
  BY <1>2, <1>3 DEF MemInv, TagsTypeOK, NoBuf
<1>5. Initialised'
  BY <1>2, <1>3 DEF MemInv, Initialised, Writable, Extent
<1> QED
  BY <1>2, <1>3, <1>4, <1>5, KeepMem

(* What the system calls, the end and the join of an sthread do to memory. *)
LEMMA CallMem ==
  ASSUME MemInv, NEW i \in DOMAIN st, NEW b \in Buffers, MemDenied(i, b) \/ MemPassed(i, b)
  PROVE  MemInv'
<1>1. st[i] \in SthreadRec /\ st_walk(i, b) \in Nat
  BY st_walkType DEF MemInv, TagsTypeOK
<1>2. CASE MemDenied(i, b)
  <2> DEFINE r == [st[i] EXCEPT !.walk = st_walk(i, b), !.refused = TRUE]
  <2>1. /\ r \in SthreadRec
        /\ r.sc = st[i].sc /\ r.stack = st[i].stack /\ r.copy = st[i].copy /\ r.pte = st[i].pte
    BY Zenon, <1>1 DEF SthreadRec
  <2>2. st' = [st EXCEPT ![i] = r] /\ UNCHANGED <<state, maps, segs, tags, ktag, blocks>>
    BY <1>2 DEF MemDenied
  <2>3. buf' \in [s : Nat, ptr : Nat, len : Nat, at : Nat]
    BY <1>2 DEF MemDenied, NoBuf
  <2> HIDE DEF r
  <2> QED
    BY Zenon, <2>1, <2>2, <2>3, SthreadMem
<1>3. CASE MemPassed(i, b)
  <2> DEFINE r == [st[i] EXCEPT !.walk = st_walk(i, b), !.wrapped = st[i].wrapped \/ walked(b) = {}]
  <2>1. /\ r \in SthreadRec
        /\ r.sc = st[i].sc /\ r.stack = st[i].stack /\ r.copy = st[i].copy /\ r.pte = st[i].pte
    BY Zenon, <1>1 DEF SthreadRec
  <2>2. st' = [st EXCEPT ![i] = r] /\ UNCHANGED <<state, maps, segs, tags, ktag, blocks>>
    BY <1>3, Zenon DEF MemPassed
  <2>3. buf' \in [s : Nat, ptr : Nat, len : Nat, at : Nat]
    <3>0. b \in [ptr : 0 .. WORD - 1, len : 0 .. WORD - 1]
      BY TagsAssumption, Zenon
    <3>1. b.ptr \in Nat /\ b.len \in Nat /\ i \in Nat
      BY <3>0, Sizes1 DEF MemInv, TagsTypeOK
    <3>2. (b.ptr % PGSIZE) \in Nat
      BY <3>1, Sizes1
    <3>3. (st_walk(i, b) * PGSIZE) \in Nat
      BY <1>1, Sizes1
    <3>4. (st_walk(i, b) * PGSIZE) + (b.ptr % PGSIZE) \in Nat
      BY <3>2, <3>3
    <3> QED
      BY <3>1, <3>4, <1>3 DEF MemPassed
  <2> HIDE DEF r
  <2> QED
    BY Zenon, <2>1, <2>2, <2>3, SthreadMem
<1> QED
  BY <1>2, <1>3

LEMMA EndMem ==
  ASSUME MemInv, NEW i \in DOMAIN st, SysExit(i) \/ sthread_join(i)
  PROVE  MemInv'
<1>1. st[i] \in SthreadRec
  BY DEF MemInv, TagsTypeOK
<1>2. CASE SysExit(i)
  <2> DEFINE r == [st[i] EXCEPT !.state = "ZOMBIE", !.walk = STACK_SIZE]
  <2>1. /\ r \in SthreadRec
        /\ r.sc = st[i].sc /\ r.stack = st[i].stack /\ r.copy = st[i].copy /\ r.pte = st[i].pte
    BY Zenon, <1>1, Sizes1 DEF SthreadRec
  <2>2. /\ st' = [st EXCEPT ![i] = r] /\ UNCHANGED <<state, maps, segs, tags, ktag, blocks>>
        /\ buf' \in [s : Nat, ptr : Nat, len : Nat, at : Nat]
    BY <1>2 DEF SysExit, NoBuf
  <2> HIDE DEF r
  <2> QED
    BY Zenon, <2>1, <2>2, SthreadMem
<1>3. CASE sthread_join(i)
  <2> DEFINE r == [st[i] EXCEPT !.state = "DEAD"]
  <2>1. /\ r \in SthreadRec
        /\ r.sc = st[i].sc /\ r.stack = st[i].stack /\ r.copy = st[i].copy /\ r.pte = st[i].pte
    BY Zenon, <1>1 DEF SthreadRec
  <2>2. /\ st' = [st EXCEPT ![i] = r] /\ UNCHANGED <<state, maps, segs, tags, ktag, blocks>>
        /\ buf' \in [s : Nat, ptr : Nat, len : Nat, at : Nat]
    BY <1>3 DEF sthread_join, NoBuf
  <2> HIDE DEF r
  <2> QED
    BY Zenon, <2>1, <2>2, SthreadMem
<1> QED
  BY <1>2, <1>3

(* A recycled sthread had the policy that it is given.                     *)
LEMMA RecycledIn ==
  ASSUME MemInv, NEW sc, recyclable(sc) # {}
  PROVE  /\ Max(recyclable(sc)) \in DOMAIN st
         /\ st[Max(recyclable(sc))].sc = sc /\ st[Max(recyclable(sc))].state = "DEAD"
<1>1. recyclable(sc) \subseteq 1 .. Len(st) /\ Len(st) \in Nat
  BY DEF recyclable, MemInv, TagsTypeOK
<1>2. Max(recyclable(sc)) \in recyclable(sc)
  BY <1>1, MaxIn
<1> QED
  BY <1>2 DEF recyclable

LEMMA RecycledMem ==
  ASSUME MemInv, NEW sc, sthread_create_recycled(sc)
  PROVE  MemInv'
<1> DEFINE i == Max(recyclable(sc))
           r == [st[i] EXCEPT !.state = "RUNNING", !.sc = sc, !.refused = FALSE, !.wrapped = FALSE]
<1>1. i \in DOMAIN st /\ st[i].sc = sc
  BY RecycledIn, Zenon DEF sthread_create_recycled
<1>2. /\ st' = [st EXCEPT ![i] = r] /\ UNCHANGED <<state, maps, segs, tags, ktag, blocks>>
      /\ buf' \in [s : Nat, ptr : Nat, len : Nat, at : Nat]
  BY DEF sthread_create_recycled, NoBuf
<1> HIDE DEF i
<1>3. st[i] \in SthreadRec
  BY <1>1 DEF MemInv, TagsTypeOK
<1>4. /\ r \in SthreadRec
      /\ r.sc = st[i].sc /\ r.stack = st[i].stack /\ r.copy = st[i].copy /\ r.pte = st[i].pte
  BY Zenon, <1>1, <1>3 DEF SthreadRec
<1> HIDE DEF r
<1> QED
  BY Zenon, <1>1, <1>2, <1>4, SthreadMem

-----------------------------------------------------------------------------
LEMMA bufType ==
  ASSUME MemInv
  PROVE  \A t \in DOMAIN tags : tags[t].buf \in Page /\ tags[t].buf \in Nat
<1>1. tags \in Seq([buf : Page, p : Nat])
  BY Zenon DEF MemInv, TagsTypeOK
<1>2. \A t \in DOMAIN tags : tags[t] \in [buf : Page, p : Nat]
  BY <1>1, ElementSeq, Zenon
<1> QED
  BY <1>2, Sizes1 DEF Page

(* Tags and segments are mapped.                                           *)
LEMMA AreasMapped ==
  ASSUME MemInv
  PROVE  /\ \A t \in DOMAIN tags : \A p \in TagPages(t) : Mapped(p)
         /\ \A p \in SegPages : Mapped(p)
<1>1. ASSUME NEW t \in DOMAIN tags, NEW p \in TagPages(t) PROVE Mapped(p)
  <2>1. Line(tags[t].buf, TAG_SIZE) \in maps
    BY <1>1 DEF MemInv, MapsApart
  <2>3. tags[t].buf \in Nat /\ TAG_SIZE \in Nat
    BY <1>1, bufType, Sizes1
  <2>4. p \in Extent(Line(tags[t].buf, TAG_SIZE))
    BY Zenon, <1>1, <2>3, LineExtent DEF TagPages
  <2> QED
    BY <2>1, <2>4 DEF Mapped
<1>2. ASSUME NEW p \in SegPages PROVE Mapped(p)
  BY <1>2 DEF SegPages, Writable, ReadOnly, Mapped, MemInv, TagsTypeOK
<1> QED
  BY <1>1, <1>2

(* Adding a line in a free place.                                          *)
LEMMA AddApart ==
  ASSUME NEW m, \A k, l \in m : k = l \/ Extent(k) \cap Extent(l) = {},
         NEW L, \A l \in m : Extent(l) \cap Extent(L) = {}
  PROVE  \A k, l \in m \cup {L} : k = l \/ Extent(k) \cap Extent(l) = {}
  BY Zenon

LEMMA mmapLine ==
  ASSUME NEW m, NEW n \in Nat, n > 0, NEW a \in mmap(m, n)
  PROVE  /\ Line(a, n) \in [start : Page, end : 2 .. Pages + 1, w : BOOLEAN, stack : BOOLEAN, len : Nat]
         /\ Extent(Line(a, n)) = a .. a + n - 1
         /\ \A l \in m : Extent(l) \cap Extent(Line(a, n)) = {}
         /\ a \in Page /\ a + n - 1 \in Page
<1>1. a \in Page /\ a + n - 1 \in Page /\ \A l \in m : Extent(l) \cap (a .. a + n - 1) = {}
  BY mmapFree, Zenon
<1>2. Extent(Line(a, n)) = a .. a + n - 1
  <2>1. a \in Nat
    BY <1>1, Sizes1 DEF Page
  <2> QED
    BY <2>1, LineExtent, Zenon
<1>3. Line(a, n) \in [start : Page, end : 2 .. Pages + 1, w : BOOLEAN, stack : BOOLEAN, len : Nat]
  BY <1>1, LineType, Zenon
<1> QED
  BY <1>1, <1>2, <1>3, Zenon

LEMMA tag_newMem ==
  ASSUME MemInv, tag_new
  PROVE  MemInv'
<1>1. PICK a \in mmap(maps, TAG_SIZE) :
        maps' = maps \cup {Line(a, TAG_SIZE)} /\ tags' = Append(tags, [buf |-> a, p |-> 0])
  BY Zenon DEF tag_new
<1>2. UNCHANGED <<state, segs, ktag, st, blocks>> /\ buf' = NoBuf
  BY DEF tag_new
<1> DEFINE A == a .. a + TAG_SIZE - 1
           new == Len(tags) + 1
<1>3. /\ Line(a, TAG_SIZE) \in [start : Page, end : 2 .. Pages + 1, w : BOOLEAN, stack : BOOLEAN, len : Nat]
      /\ Extent(Line(a, TAG_SIZE)) = A
      /\ \A l \in maps : Extent(l) \cap Extent(Line(a, TAG_SIZE)) = {}
      /\ a \in Page
  BY Sizes1, mmapLine
<1>4. /\ tags' \in Seq([buf : Page, p : Nat]) /\ DOMAIN tags' = DOMAIN tags \cup {new}
      /\ tags'[new].buf = a /\ \A t \in DOMAIN tags : tags'[t] = tags[t]
      /\ Len(tags') = Len(tags) + 1
  <2>1. [buf |-> a, p |-> 0] \in [buf : Page, p : Nat] /\ tags \in Seq([buf : Page, p : Nat])
    BY <1>3 DEF MemInv, TagsTypeOK
  <2> QED
    BY <1>1, <2>1, AppendSeq
<1>5. TagsTypeOK'
  <2>1. ktag' \in 0 .. Len(tags')
    BY <1>2, <1>4 DEF MemInv, TagsTypeOK
  <2>2. buf' \in [s : Nat, ptr : Nat, len : Nat, at : Nat]
    BY <1>2 DEF NoBuf
  <2>3. segs' \subseteq maps'
    BY <1>1, <1>2 DEF MemInv, TagsTypeOK
  <2> QED
    BY <1>1, <1>2, <1>3, <1>4, <2>1, <2>2, <2>3, ZenonT(30) DEF MemInv, TagsTypeOK
<1>6. Initialised'
  BY <1>2, <1>4 DEF MemInv, Initialised, Writable
<1>7. MapsApart'
  <2>1. \A k, l \in maps' : k = l \/ Extent(k) \cap Extent(l) = {}
    BY <1>1, <1>3, AddApart, Zenon DEF MemInv, MapsApart
  <2>2. ASSUME NEW t \in DOMAIN tags' PROVE Line(tags'[t].buf, TAG_SIZE) \in maps'
    BY <1>1, <1>4, <2>2, Zenon DEF MemInv, MapsApart
  <2>3. ASSUME NEW i \in DOMAIN st'
        PROVE  /\ \A p \in Own(i)' : Mapped(p)' /\ p \notin SegPages'
               /\ \A t \in DOMAIN tags' : Own(i)' \cap TagPages(t)' = {}
               /\ \A j \in DOMAIN st' : i # j => Own(i)' \cap Own(j)' = {}
    <3>1. SegPages' = SegPages /\ \A j \in DOMAIN st : Own(j)' = Own(j)
      BY <1>2 DEF SegPages, Own, StackOf, CopyOf, Writable, ReadOnly
    <3>2. \A p : Mapped(p) => Mapped(p)'
      BY <1>1 DEF Mapped
    <3>3. i \in DOMAIN st /\ DOMAIN st' = DOMAIN st
      BY <1>2, <2>3
    <3>4. \A p \in Own(i) : Mapped(p) /\ p \notin SegPages
      BY <3>3, Zenon DEF MemInv, MapsApart
    <3>5. \A j \in DOMAIN st' : i # j => Own(i)' \cap Own(j)' = {}
      BY <3>1, <3>3, Zenon DEF MemInv, MapsApart
    <3>6. ASSUME NEW t \in DOMAIN tags' PROVE Own(i)' \cap TagPages(t)' = {}
      <4>1. CASE t \in DOMAIN tags
        <5>1. TagPages(t)' = TagPages(t)
          BY <4>1, <1>4 DEF TagPages
        <5> QED
          BY <4>1, <5>1, <3>1, <3>3, Zenon DEF MemInv, MapsApart
      <4>2. CASE t = new
        <5>1. TagPages(t)' = A
          BY <4>2, <1>4 DEF TagPages
        <5>2. \A p \in A : ~Mapped(p)
          BY <1>3, Zenon DEF Mapped
        <5> QED
          BY <5>1, <5>2, <3>1, <3>3, <3>4, Zenon
      <4> QED
        BY <3>6, <4>1, <4>2, <1>4
    <3> QED
      BY <3>1, <3>2, <3>3, <3>4, <3>5, <3>6, Zenon
  <2> QED
    BY <2>1, <2>2, <2>3, Zenon DEF MapsApart
<1>8. TablesKept'
  <2> SUFFICES ASSUME NEW i \in DOMAIN st'
               PROVE  /\ \A k \in DOMAIN st'[i].sc : \E t \in DOMAIN tags' : st'[i].sc[k].a = tags'[t].buf
                      /\ \A p \in Page : AsBuilt(st[i].pte[p], p, st[i].sc, st[i].stack, st[i].copy)'
    BY Zenon DEF TablesKept
  <2>1. \A k \in DOMAIN st[i].sc : \E t \in DOMAIN tags : st[i].sc[k].a = tags[t].buf
    BY <1>2, Zenon DEF MemInv, TablesKept
  <2>2. ASSUME NEW p \in Page
        PROVE  AsBuilt(st[i].pte[p], p, st[i].sc, st[i].stack, st[i].copy)'
    <3>1. AsBuilt(st[i].pte[p], p, st[i].sc, st[i].stack, st[i].copy)
      BY <1>2, Zenon DEF MemInv, TablesKept
    <3> QED
      BY <3>1, <1>2 DEF AsBuilt
  <2>3. st' = st
    BY <1>2
  <2> QED
    BY <1>4, <2>1, <2>2, <2>3
<1> QED
  BY <1>5, <1>6, <1>7, <1>8 DEF MemInv

LEMMA sthread_initMem ==
  ASSUME MemInv, sthread_init
  PROVE  MemInv'
<1> DEFINE LineSet == [start : Page, end : 2 .. Pages + 1, w : BOOLEAN, stack : BOOLEAN, len : Nat]
           n == Cardinality(Writable(segments))
           new == Len(tags) + 1
<1>1. segments \subseteq maps /\ maps \subseteq LineSet
  BY DEF segments, lines_read, MemInv, TagsTypeOK
<1>2. n \in Nat /\ n > 0
  <2>1. segments \subseteq LineSet /\ Writable(segments) # {}
    BY <1>1 DEF sthread_init
  <2> QED
    BY <2>1, WritablePages
<1>a. PICK c \in mmap(maps, n) : \E k \in mmap(maps \cup {Line(c, n)}, TAG_SIZE) :
        /\ maps' = maps \cup {Line(c, n), Line(k, TAG_SIZE)}
        /\ tags' = Append(tags, [buf |-> k, p |-> SizeofKstate])
  BY Zenon DEF sthread_init
<1>3. PICK k \in mmap(maps \cup {Line(c, n)}, TAG_SIZE) :
        /\ maps' = maps \cup {Line(c, n), Line(k, TAG_SIZE)}
        /\ tags' = Append(tags, [buf |-> k, p |-> SizeofKstate])
  BY <1>a, Zenon
<1>4. /\ segs' = segments /\ ktag' = Len(tags') /\ state' = "run" /\ buf' = NoBuf /\ st' = st
      /\ blocks' = blocks \cup {[tag |-> ktag', off |-> 0, sz |-> SizeofKstate]}
      /\ state = "start" /\ Writable(segments) # {}
  BY DEF sthread_init
<1> HIDE DEF n
<1>5. Line(c, n) \in LineSet /\ \A l \in maps : Extent(l) \cap Extent(Line(c, n)) = {}
  BY <1>2, mmapLine, Zenon
<1>6. /\ Line(k, TAG_SIZE) \in LineSet /\ k \in Page
      /\ \A l \in maps \cup {Line(c, n)} : Extent(l) \cap Extent(Line(k, TAG_SIZE)) = {}
  BY Sizes1, mmapLine
<1>7. /\ tags' \in Seq([buf : Page, p : Nat]) /\ DOMAIN tags' = DOMAIN tags \cup {new}
      /\ tags'[new].buf = k /\ \A t \in DOMAIN tags : tags'[t] = tags[t]
      /\ Len(tags') = new /\ new \in Nat
  <2>1. [buf |-> k, p |-> SizeofKstate] \in [buf : Page, p : Nat] /\ tags \in Seq([buf : Page, p : Nat])
    BY <1>6, Sizes1 DEF MemInv, TagsTypeOK
  <2> QED
    BY <1>3, <2>1, AppendSeq
<1>8. TagsTypeOK'
  <2>1. ktag' \in 0 .. Len(tags')
    BY <1>4, <1>7
  <2>2. buf' \in [s : Nat, ptr : Nat, len : Nat, at : Nat]
    BY <1>4 DEF NoBuf
  <2>3. segs' \subseteq maps' /\ maps' \subseteq LineSet
    BY <1>1, <1>3, <1>4, <1>5, <1>6, Zenon
  <2>4. blocks' \subseteq [tag : Nat, off : Nat, sz : Nat]
    BY <1>4, <1>7, Sizes1, SMTT(30) DEF MemInv, TagsTypeOK
  <2> QED
    BY <1>4, <1>7, <2>1, <2>2, <2>3, <2>4, ZenonT(30) DEF MemInv, TagsTypeOK
<1>9. st = <<>>
  BY <1>4 DEF MemInv, Initialised
<1>10. Initialised'
  BY <1>4, <1>7, <1>9 DEF Initialised, Writable
<1>11. MapsApart'
  <2>1. \A j, l \in maps \cup {Line(c, n)} : j = l \/ Extent(j) \cap Extent(l) = {}
    BY <1>5, AddApart, Zenon DEF MemInv, MapsApart
  <2>2. \A j, l \in (maps \cup {Line(c, n)}) \cup {Line(k, TAG_SIZE)} : j = l \/ Extent(j) \cap Extent(l) = {}
    BY <1>6, <2>1, AddApart, Zenon
  <2>3. maps' = (maps \cup {Line(c, n)}) \cup {Line(k, TAG_SIZE)}
    BY <1>3
  <2>4. \A t \in DOMAIN tags' : Line(tags'[t].buf, TAG_SIZE) \in maps'
    BY <1>3, <1>7, Zenon DEF MemInv, MapsApart
  <2>5. DOMAIN st' = {}
    BY <1>4, <1>9
  <2> QED
    BY <2>2, <2>3, <2>4, <2>5 DEF MapsApart
<1>12. TablesKept'
  BY <1>4, <1>9 DEF TablesKept
<1> QED
  BY <1>8, <1>10, <1>11, <1>12 DEF MemInv

-----------------------------------------------------------------------------
(* The first entry for a page is one entry, and its tag holds the page.    *)
LEMMA ListedOne ==
  ASSUME NEW S, NEW mem \in Seq(S), NEW p
  PROVE  /\ \A x, y \in Listed(mem, p) : x = y
         /\ \A x \in Listed(mem, p) : \E k \in DOMAIN mem : x = mem[k] /\ Covers(mem[k], p)
<1> DEFINE first == {j \in DOMAIN mem : Covers(mem[j], p) /\ \A k \in 1 .. j - 1 : ~Covers(mem[k], p)}
<1>1. Listed(mem, p) = {mem[j] : j \in first}
  BY Zenon DEF Listed
<1>2. ASSUME NEW j \in first, NEW k \in first PROVE j = k
  <2>1. j \in Nat \ {0} /\ k \in Nat \ {0} /\ Covers(mem[j], p) /\ Covers(mem[k], p)
    OBVIOUS
  <2>2. ~(j \in 1 .. k - 1) /\ ~(k \in 1 .. j - 1)
    BY <2>1, Zenon
  <2> QED
    BY <2>1, <2>2
<1>3. \A j \in first : j \in DOMAIN mem /\ Covers(mem[j], p)
  BY Zenon
<1> HIDE DEF first
<1> QED
  BY <1>1, <1>2, <1>3, Zenon

(* The policy that sc_mem_add builds names tags.                           *)
LEMMA sc_mem_addType ==
  ASSUME MemInv, NEW calls \in Policies, Refused(calls) = {}
  PROVE  /\ sc_mem_add(calls) \in Seq([a : Page, prot : SUBSET {"R", "W"}])
         /\ \A k \in DOMAIN sc_mem_add(calls) : \E t \in DOMAIN tags : sc_mem_add(calls)[k].a = tags[t].buf
<1>1. calls \in Seq([tid : Nat, prot : SUBSET {"R", "W"}])
  BY TagsAssumption, Zenon
<1>2. \A k \in DOMAIN calls : calls[k].tid + 1 \in DOMAIN tags
  BY Zenon DEF Refused
<1>3. \A t \in DOMAIN tags : tags[t].buf \in Page
  BY bufType
<1>4. \A k \in DOMAIN calls : calls[k].prot \in SUBSET {"R", "W"}
  <2>1. \A k \in DOMAIN calls : calls[k] \in [tid : Nat, prot : SUBSET {"R", "W"}]
    BY <1>1, ElementSeq, Zenon
  <2> QED
    BY <2>1
<1>5. DOMAIN calls = 1 .. Len(calls) /\ Len(calls) \in Nat
  BY <1>1
<1>6. sc_mem_add(calls) \in [1 .. Len(calls) -> [a : Page, prot : SUBSET {"R", "W"}]]
  <2>1. \A k \in DOMAIN calls : [a |-> tags[calls[k].tid + 1].buf, prot |-> calls[k].prot]
                                  \in [a : Page, prot : SUBSET {"R", "W"}]
    BY <1>2, <1>3, <1>4, Zenon
  <2> QED
    BY <2>1, <1>5, Zenon DEF sc_mem_add
<1>7. sc_mem_add(calls) \in Seq([a : Page, prot : SUBSET {"R", "W"}])
  BY <1>5, <1>6, FunctionSeq, Zenon
<1>8. \A k \in DOMAIN sc_mem_add(calls) : k \in DOMAIN calls /\ sc_mem_add(calls)[k].a = tags[calls[k].tid + 1].buf
  BY DEF sc_mem_add
<1> QED
  BY <1>2, <1>7, <1>8, Zenon

(* The table of a new sthread, over lines m that are apart and include the *)
(* tags and the segments.                                                  *)
LEMMA TableBuilt ==
  ASSUME MemInv, NEW m, maps \subseteq m, \A k, l \in m : k = l \/ Extent(k) \cap Extent(l) = {},
         NEW sc \in Seq([a : Page, prot : SUBSET {"R", "W"}]),
         \A k \in DOMAIN sc : \E t \in DOMAIN tags : sc[k].a = tags[t].buf,
         NEW stack \in Page, NEW copy \in Page, copy + Cardinality(Writable(segs)) - 1 \in Page,
         NEW p \in Page
  PROVE  /\ page_table(m, sc, stack, copy)[p] \in [bits : SUBSET PteBit, pa : Page]
         /\ AsBuilt(page_table(m, sc, stack, copy)[p], p, sc, stack, copy)
<1> DEFINE e == page_table(m, sc, stack, copy)[p]
           r == clone(m)[p]
           b == r.bits
           L == Listed(sc, p)
           own == p \in stack .. stack + STACK_SIZE - 1
<1>1. e = walk_remap(walk_protect(r, p, sc, stack), p, copy)
  BY Zenon DEF page_table
<1>2. CASE p \in Writable(segs)
  <2>1. e = [bits |-> PteBit, pa |-> copy + Cardinality({q \in Writable(segs) : q < p})]
    BY <1>1, <1>2, Zenon DEF walk_remap
  <2>2. Writable(segs) \subseteq Page
    BY Zenon, WritablePages DEF MemInv, TagsTypeOK
  <2>3. /\ Cardinality({q \in Writable(segs) : q < p}) \in Nat /\ Cardinality(Writable(segs)) \in Nat
        /\ Cardinality({q \in Writable(segs) : q < p}) < Cardinality(Writable(segs))
    BY <1>2, <2>2, Below, Zenon
  <2>4. copy + Cardinality({q \in Writable(segs) : q < p}) \in Page
    BY <2>3, Sizes1 DEF Page
  <2> QED
    BY <1>2, <2>1, <2>4 DEF AsBuilt
<1>3. CASE p \notin Writable(segs)
  <2>1. e = walk_protect(r, p, sc, stack)
    BY <1>1, <1>3, Zenon DEF walk_remap
  <2>2. r = [bits |-> b, pa |-> p] /\ r.bits = b
    BY Zenon DEF clone
  <2>3. /\ b \subseteq PteBit
        /\ "P" \in b <=> \E l \in m : p \in Extent(l)
        /\ "W" \in b <=> \E l \in m : p \in Extent(l) /\ l.w
    BY DEF clone, PteBit
  <2> HIDE DEF r, b, e
  <2>4. CASE p \in ReadOnly(segs)
    <3>0. e = [r EXCEPT !.bits = (r.bits \ {"U"}) \cup {"U"}]
      BY <2>1, <2>4, Zenon DEF walk_protect
    <3>1. e = [bits |-> (b \ {"U"}) \cup {"U"}, pa |-> p]
      BY Zenon, <3>0, <2>2
    <3>2. "W" \notin b
      <4>1. PICK k \in segs : ~k.w /\ p \in Extent(k)
        BY <2>4 DEF ReadOnly
      <4>2. k \in m
        BY <4>1 DEF MemInv, TagsTypeOK
      <4> QED
        BY <2>3, <4>1, <4>2, Zenon
    <3> QED
      BY <1>3, <2>3, <2>4, <3>1, <3>2 DEF AsBuilt, PteBit, e
  <2>5. CASE p \notin ReadOnly(segs)
    <3> DEFINE u == (b \ {"U"}) \cup (IF own \/ L # {} THEN {"U"} ELSE {})
               w == IF \E x \in L : "W" \notin x.prot THEN {"W"} ELSE {}
    <3>0. e = [r EXCEPT !.bits = ((r.bits \ {"U"}) \cup (IF own \/ L # {} THEN {"U"} ELSE {})) \ w]
      BY <1>3, <2>1, <2>5, Zenon DEF walk_protect
    <3>1. e = [bits |-> u \ w, pa |-> p]
      <4> HIDE DEF w, L, own
      <4> QED
        BY Zenon, <3>0, <2>2
    <3>2. /\ e.pa = p /\ e.bits \subseteq PteBit
          /\ "U" \in e.bits <=> own \/ L # {}
          /\ "P" \in e.bits <=> "P" \in b
          /\ "W" \in e.bits <=> "W" \in b /\ ~\E x \in L : "W" \notin x.prot
      BY <2>3, <3>1 DEF PteBit
    <3>3. L # {} => "P" \in b /\ "W" \in b
      <4> SUFFICES ASSUME NEW x \in L PROVE "P" \in b /\ "W" \in b
        BY Zenon
      <4>1. PICK k \in DOMAIN sc : Covers(sc[k], p)
        BY ListedOne
      <4>2. PICK t \in DOMAIN tags : sc[k].a = tags[t].buf
        BY Zenon
      <4>3. Line(tags[t].buf, TAG_SIZE) \in m
        BY <4>2 DEF MemInv, MapsApart
      <4>4. tags[t].buf \in Nat /\ TAG_SIZE \in Nat
        BY Zenon, <4>2, bufType, Sizes1
      <4>5. p \in Extent(Line(tags[t].buf, TAG_SIZE)) /\ Line(tags[t].buf, TAG_SIZE).w
        BY Zenon, <4>1, <4>2, <4>4, LineExtent DEF Covers
      <4> QED
        BY <2>3, <4>3, <4>5, Zenon
    <3>4. L # {} => (~(\E x \in L : "W" \notin x.prot) <=> \E x \in L : "W" \in x.prot)
      <4>1. \A x, y \in L : x = y
        BY ListedOne
      <4> HIDE DEF L
      <4> QED
        BY <4>1, Zenon
    <3>5. e = [bits |-> e.bits, pa |-> p] /\ e \in [bits : SUBSET PteBit, pa : Page]
      BY <3>1, <3>2
    <3> HIDE DEF L, own
    <3>6. /\ "U" \in e.bits <=> own \/ L # {}
          /\ L # {} => "P" \in e.bits
          /\ ~own /\ "U" \in e.bits => ("W" \in e.bits <=> \E x \in L : "W" \in x.prot)
      BY <3>2, <3>3, <3>4, Zenon
    <3> USE DEF L, own
    <3>7. AsBuilt(e, p, sc, stack, copy)
      BY <1>3, <2>5, <3>2, <3>6, Zenon DEF AsBuilt
    <3> QED
      BY <3>5, <3>7 DEF e
  <2> QED
    BY <2>4, <2>5
<1> QED
  BY <1>2, <1>3

LEMMA sthread_createMem ==
  ASSUME MemInv, NEW calls \in Policies, Refused(calls) = {}, sthread_create(sc_mem_add(calls))
  PROVE  MemInv'
<1> DEFINE LineSet == [start : Page, end : 2 .. Pages + 1, w : BOOLEAN, stack : BOOLEAN, len : Nat]
           sc == sc_mem_add(calls)
           n == Cardinality(Writable(segs))
<1>0. PICK new : new = Len(st) + 1
  OBVIOUS
<1>1. /\ sc \in Seq([a : Page, prot : SUBSET {"R", "W"}])
      /\ \A k \in DOMAIN sc : \E t \in DOMAIN tags : sc[k].a = tags[t].buf
  BY sc_mem_addType, Zenon
<1> HIDE DEF sc
<1>2. /\ state = "run" /\ tags' = [tags EXCEPT ![ktag] = bump(@, SizeofSthread)]
      /\ blocks' = blocks \cup {Block(ktag, SizeofSthread)} /\ buf' = NoBuf
      /\ UNCHANGED <<state, segs, ktag>>
  BY DEF sthread_create
<1>3. n \in Nat /\ n > 0 /\ ktag \in DOMAIN tags /\ Writable(segs) # {} /\ Writable(segs) \subseteq Page
  <2>1. segs \subseteq LineSet /\ Writable(segs) # {} /\ ktag \in DOMAIN tags
    BY Zenon, <1>2 DEF MemInv, TagsTypeOK, Initialised
  <2> QED
    BY <2>1, WritablePages
<1>a. PICK a \in mmap(maps, STACK_SIZE) : \E c \in mmap(maps \cup {Line(a, STACK_SIZE)}, n) :
        /\ maps' = maps \cup {Line(a, STACK_SIZE), Line(c, n)}
        /\ st' = Append(st, [state |-> "RUNNING", sc |-> sc, stack |-> a, copy |-> c,
                             pte |-> page_table(maps', sc, a, c), walk |-> n,
                             refused |-> FALSE, wrapped |-> FALSE])
  BY Zenon DEF sthread_create, sc
<1>4. PICK c \in mmap(maps \cup {Line(a, STACK_SIZE)}, n) :
        /\ maps' = maps \cup {Line(a, STACK_SIZE), Line(c, n)}
        /\ st' = Append(st, [state |-> "RUNNING", sc |-> sc, stack |-> a, copy |-> c,
                             pte |-> page_table(maps', sc, a, c), walk |-> n,
                             refused |-> FALSE, wrapped |-> FALSE])
  BY <1>a, Zenon
<1> DEFINE r == [state |-> "RUNNING", sc |-> sc, stack |-> a, copy |-> c,
                 pte |-> page_table(maps', sc, a, c), walk |-> n, refused |-> FALSE, wrapped |-> FALSE]
           A == a .. a + STACK_SIZE - 1
           C == c .. c + n - 1
<1> HIDE DEF n
<1>5. /\ Line(a, STACK_SIZE) \in LineSet /\ a \in Page /\ Extent(Line(a, STACK_SIZE)) = A
      /\ \A l \in maps : Extent(l) \cap Extent(Line(a, STACK_SIZE)) = {}
  BY Sizes1, mmapLine
<1>6. /\ Line(c, n) \in LineSet /\ c \in Page /\ c + n - 1 \in Page /\ Extent(Line(c, n)) = C
      /\ \A l \in maps \cup {Line(a, STACK_SIZE)} : Extent(l) \cap Extent(Line(c, n)) = {}
  BY <1>3, mmapLine, Zenon
<1>7. \A k, l \in maps' : k = l \/ Extent(k) \cap Extent(l) = {}
  <2>1. \A j, l \in maps \cup {Line(a, STACK_SIZE)} : j = l \/ Extent(j) \cap Extent(l) = {}
    BY <1>5, AddApart, Zenon DEF MemInv, MapsApart
  <2>2. \A j, l \in (maps \cup {Line(a, STACK_SIZE)}) \cup {Line(c, n)} : j = l \/ Extent(j) \cap Extent(l) = {}
    BY <1>6, <2>1, AddApart, Zenon
  <2>3. maps' = (maps \cup {Line(a, STACK_SIZE)}) \cup {Line(c, n)}
    BY Zenon, <1>4
  <2> QED
    BY <2>2, <2>3
<1>8. \A p \in Page : /\ page_table(maps', sc, a, c)[p] \in [bits : SUBSET PteBit, pa : Page]
                      /\ AsBuilt(page_table(maps', sc, a, c)[p], p, sc, a, c)
  <2>1. maps \subseteq maps'
    BY <1>4
  <2>2. c + Cardinality(Writable(segs)) - 1 \in Page
    BY <1>6 DEF n
  <2> QED
    BY ZenonT(30), <1>1, <1>5, <1>6, <1>7, <2>1, <2>2, TableBuilt
<1>9. r \in SthreadRec
  <2>1. page_table(maps', sc, a, c) \in [Page -> [bits : SUBSET PteBit, pa : Page]]
    <3>1. page_table(maps', sc, a, c) = [p \in Page |-> page_table(maps', sc, a, c)[p]]
      BY Zenon DEF page_table
    <3> QED
      BY Zenon, <3>1, <1>8
  <2> QED
    BY Zenon, <1>1, <1>3, <1>5, <1>6, <2>1 DEF SthreadRec
<1>10. /\ st' \in Seq(SthreadRec) /\ DOMAIN st' = DOMAIN st \cup {new}
       /\ st'[new] = r /\ \A j \in DOMAIN st : st'[j] = st[j]
       /\ st' # <<>> /\ new \notin DOMAIN st
  <2>1. st \in Seq(SthreadRec) /\ st' = Append(st, r)
    BY Zenon, <1>4 DEF MemInv, TagsTypeOK
  <2> HIDE DEF r
  <2> QED
    BY <1>0, <1>9, <2>1, AppendSeq
<1>11. /\ tags' \in Seq([buf : Page, p : Nat]) /\ DOMAIN tags' = DOMAIN tags /\ Len(tags') = Len(tags)
       /\ \A t \in DOMAIN tags : tags'[t].buf = tags[t].buf
       /\ blocks' \subseteq [tag : Nat, off : Nat, sz : Nat]
  BY Zenon, <1>2, <1>3, Sizes1, bumpMem
<1>12. TagsTypeOK'
  <2>1. buf' \in [s : Nat, ptr : Nat, len : Nat, at : Nat]
    BY <1>2 DEF NoBuf
  <2>2. segs' \subseteq maps' /\ maps' \subseteq LineSet
    BY <1>2, <1>4, <1>5, <1>6, Zenon DEF MemInv, TagsTypeOK
  <2> QED
    BY <1>2, <1>10, <1>11, <2>1, <2>2, ZenonT(30) DEF MemInv, TagsTypeOK
<1>13. Initialised'
  <2>1. Writable(segs)' = Writable(segs)
    BY <1>2 DEF Writable
  <2> QED
    BY Zenon, <1>2, <1>3, <1>10, <1>11, <2>1 DEF Initialised
<1>14. MapsApart'
  <2>1. \A t \in DOMAIN tags' : Line(tags'[t].buf, TAG_SIZE) \in maps'
    BY <1>4, <1>11, Zenon DEF MemInv, MapsApart
  <2>2. /\ SegPages' = SegPages /\ \A j \in DOMAIN st : Own(j)' = Own(j)
        /\ \A t \in DOMAIN tags : TagPages(t)' = TagPages(t)
    BY Zenon, <1>2, <1>10, <1>11 DEF SegPages, Own, StackOf, CopyOf, Writable, ReadOnly, TagPages
  <2>3. Own(new)' = A \cup C
    <3>1. Writable(segs)' = Writable(segs) /\ r.stack = a /\ r.copy = c
      BY Zenon, <1>2 DEF Writable
    <3> HIDE DEF r
    <3> QED
      BY Zenon, <3>1, <1>10 DEF Own, StackOf, CopyOf, n
  <2>4. \A p : Mapped(p) => Mapped(p)'
    BY <1>4 DEF Mapped
  <2>5. \A p \in A \cup C : Mapped(p)' /\ ~Mapped(p)
    <3>1. \A p \in A \cup C : Mapped(p)'
      BY <1>4, <1>5, <1>6, Zenon DEF Mapped
    <3>2. \A p \in A \cup C : ~Mapped(p)
      BY <1>5, <1>6, Zenon DEF Mapped
    <3> QED
      BY <3>1, <3>2
  <2>6. \A j \in DOMAIN st : /\ \A p \in Own(j) : Mapped(p) /\ p \notin SegPages
                             /\ \A t \in DOMAIN tags : Own(j) \cap TagPages(t) = {}
                             /\ \A k \in DOMAIN st : j # k => Own(j) \cap Own(k) = {}
    BY Zenon DEF MemInv, MapsApart
  <2>7. /\ \A t \in DOMAIN tags : \A p \in TagPages(t) : Mapped(p)
        /\ \A p \in SegPages : Mapped(p)
    BY AreasMapped, Zenon
  <2> HIDE DEF A, C
  <2>8. ASSUME NEW i \in DOMAIN st'
        PROVE  /\ \A p \in Own(i)' : Mapped(p)' /\ p \notin SegPages'
               /\ \A t \in DOMAIN tags' : Own(i)' \cap TagPages(t)' = {}
               /\ \A j \in DOMAIN st' : i # j => Own(i)' \cap Own(j)' = {}
    <3>1. CASE i \in DOMAIN st
      <4>1. \A p \in Own(i)' : Mapped(p)' /\ p \notin SegPages'
        BY <3>1, <2>2, <2>4, <2>6, Zenon
      <4>2. \A t \in DOMAIN tags' : Own(i)' \cap TagPages(t)' = {}
        BY <3>1, <2>2, <2>6, <1>11, Zenon
      <4>3. ASSUME NEW j \in DOMAIN st', i # j PROVE Own(i)' \cap Own(j)' = {}
        <5>1. CASE j \in DOMAIN st
          BY <3>1, <4>3, <5>1, <2>2, <2>6, Zenon
        <5>2. CASE j = new
          BY <3>1, <5>2, <2>2, <2>3, <2>5, <2>6, ZenonT(30)
        <5> QED
          BY <4>3, <5>1, <5>2, <1>10, Zenon
      <4> QED
        BY <4>1, <4>2, <4>3, Zenon
    <3>2. CASE i = new
      <4>1. \A p \in Own(i)' : Mapped(p)' /\ p \notin SegPages'
        BY <3>2, <2>2, <2>3, <2>5, <2>7, Zenon
      <4>2. \A t \in DOMAIN tags' : Own(i)' \cap TagPages(t)' = {}
        BY <3>2, <2>2, <2>3, <2>5, <2>7, <1>11, Zenon
      <4>3. ASSUME NEW j \in DOMAIN st', i # j PROVE Own(i)' \cap Own(j)' = {}
        <5>1. j \in DOMAIN st
          BY <3>2, <4>3, <1>10, Zenon
        <5> QED
          BY <3>2, <5>1, <2>2, <2>3, <2>5, <2>6, Zenon
      <4> QED
        BY <4>1, <4>2, <4>3, Zenon
    <3> QED
      BY <2>8, <3>1, <3>2, <1>10, Zenon
  <2> QED
    BY <1>7, <2>1, <2>8, Zenon DEF MapsApart
<1>15. TablesKept'
  <2> SUFFICES ASSUME NEW i \in DOMAIN st'
               PROVE  /\ \A k \in DOMAIN st'[i].sc : \E t \in DOMAIN tags' : st'[i].sc[k].a = tags'[t].buf
                      /\ \A p \in Page : AsBuilt(st[i].pte[p], p, st[i].sc, st[i].stack, st[i].copy)'
    BY Zenon DEF TablesKept
  <2> DEFINE s == st'[i]
  <2>1. /\ \A k \in DOMAIN s.sc : \E t \in DOMAIN tags : s.sc[k].a = tags[t].buf
        /\ \A p \in Page : AsBuilt(s.pte[p], p, s.sc, s.stack, s.copy)
    <3>1. CASE i \in DOMAIN st
      <4>1. st'[i] = st[i]
        BY <3>1, <1>10, Zenon
      <4> QED
        BY <3>1, <4>1, Zenon DEF MemInv, TablesKept
    <3>2. CASE i = new
      <4>1. s = r
        BY <3>2, <1>10, ZenonT(30)
      <4>2. s.sc = sc /\ s.stack = a /\ s.copy = c /\ s.pte = page_table(maps', sc, a, c)
        BY <4>1
      <4> HIDE DEF s
      <4> QED
        BY <4>2, <1>1, <1>8, Zenon
    <3> QED
      BY <3>1, <3>2, <1>10, Zenon
  <2> HIDE DEF s
  <2>2. \A k \in DOMAIN s.sc : \E t \in DOMAIN tags' : s.sc[k].a = tags'[t].buf
    BY Zenon, <2>1, <1>11
  <2>3. ASSUME NEW p \in Page PROVE AsBuilt(st[i].pte[p], p, st[i].sc, st[i].stack, st[i].copy)'
    <3>1. AsBuilt(st'[i].pte[p], p, st'[i].sc, st'[i].stack, st'[i].copy)
      BY <2>1, Zenon DEF s
    <3> QED
      BY Zenon, <3>1, <1>2 DEF AsBuilt
  <2> QED
    BY <2>2, <2>3, Zenon DEF s
<1> QED
  BY <1>12, <1>13, <1>14, <1>15, Zenon DEF MemInv

-----------------------------------------------------------------------------
LEMMA InitMem == TagsInit => MemInv
<1> SUFFICES ASSUME TagsInit PROVE MemInv
  OBVIOUS
<1>1. /\ state = "start" /\ maps \in Maps /\ segs = {} /\ tags = <<>> /\ ktag = 0 /\ st = <<>>
      /\ blocks = {} /\ buf = NoBuf
  BY DEF TagsInit
<1>2. /\ maps \subseteq [start : Page, end : 2 .. Pages + 1, w : BOOLEAN, stack : BOOLEAN, len : Nat]
      /\ \A k, l \in maps : k = l \/ k.end <= l.start \/ l.end <= k.start
  BY <1>1, TagsAssumption, Zenon
<1>3. TagsTypeOK
  <2>1. buf \in [s : Nat, ptr : Nat, len : Nat, at : Nat]
    BY <1>1 DEF NoBuf
  <2>2. tags \in Seq([buf : Page, p : Nat]) /\ st \in Seq(SthreadRec) /\ ktag \in 0 .. Len(tags)
    BY <1>1
  <2> QED
    BY Zenon, <1>1, <1>2, <2>1, <2>2 DEF TagsTypeOK
<1>4. Initialised
  BY <1>1 DEF Initialised
<1>5. DOMAIN st = {} /\ DOMAIN tags = {}
  BY <1>1
<1>6. ASSUME NEW k \in maps, NEW l \in maps PROVE k = l \/ Extent(k) \cap Extent(l) = {}
  <2>1. k.start \in Int /\ k.end \in Int /\ l.start \in Int /\ l.end \in Int
    BY <1>2, Sizes1 DEF Page
  <2>2. k = l \/ k.end <= l.start \/ l.end <= k.start
    BY <1>2
  <2> QED
    BY <2>1, <2>2 DEF Extent
<1>7. MapsApart
  BY <1>5, <1>6, Zenon DEF MapsApart
<1>8. TablesKept
  BY <1>5, Zenon DEF TablesKept
<1> QED
  BY <1>3, <1>4, <1>7, <1>8 DEF MemInv

LEMMA StutterMem == ASSUME MemInv, UNCHANGED gvars PROVE MemInv'
<1>1. UNCHANGED <<state, maps, segs, tags, ktag, st, blocks, buf>>
  BY DEF gvars
<1>2. TagsTypeOK'
  BY <1>1 DEF MemInv, TagsTypeOK
<1>3. Initialised'
  BY <1>1 DEF MemInv, Initialised, Writable
<1> QED
  BY <1>1, <1>2, <1>3, KeepMem

LEMMA NextMem == MemInv /\ [TagsNext]_gvars => MemInv'
<1> SUFFICES ASSUME MemInv, [TagsNext]_gvars PROVE MemInv'
  OBVIOUS
<1>1. CASE tag_new
  BY <1>1, tag_newMem
<1>2. CASE sthread_init
  BY <1>2, sthread_initMem
<1>3. CASE sthread_init_fails
  BY <1>3, StopMem DEF sthread_init_fails
<1>4. ASSUME NEW i \in DOMAIN tags, NEW sz \in Sizes, smalloc(i, sz) \/ smalloc_null(i, sz) PROVE MemInv'
  BY <1>4, smallocMem, StutterMem, Zenon DEF smalloc_null
<1>5. ASSUME NEW calls \in Policies, sc_mem_add_exits(calls) PROVE MemInv'
  BY <1>5, StopMem DEF sc_mem_add_exits
<1>6. ASSUME NEW calls \in Policies, Refused(calls) = {},
             \/ sthread_create(sc_mem_add(calls)) \/ sthread_create_recycled(sc_mem_add(calls))
             \/ sthread_create_no_memory(sc_mem_add(calls))
      PROVE  MemInv'
  <2>1. CASE sthread_create(sc_mem_add(calls))
    BY <1>6, <2>1, sthread_createMem
  <2>2. CASE sthread_create_recycled(sc_mem_add(calls))
    BY <2>2, RecycledMem
  <2>3. CASE sthread_create_no_memory(sc_mem_add(calls))
    BY <2>3, StopMem DEF sthread_create_no_memory
  <2> QED
    BY <1>6, <2>1, <2>2, <2>3
<1>7. ASSUME NEW i \in DOMAIN st, NEW b \in Buffers, MemDenied(i, b) \/ MemPassed(i, b) PROVE MemInv'
  BY Zenon, <1>7, CallMem
<1>8. ASSUME NEW i \in DOMAIN st, MemAssert(i) PROVE MemInv'
  BY <1>8, StopMem DEF MemAssert
<1>9. ASSUME NEW i \in DOMAIN st, SysExit(i) \/ sthread_join(i) PROVE MemInv'
  BY <1>9, EndMem
<1>10. CASE UNCHANGED gvars
  BY Zenon, <1>10, StutterMem
<1> QED
  BY <1>1, <1>2, <1>3, <1>4, <1>5, <1>6, <1>7, <1>8, <1>9, <1>10, Zenon DEF TagsNext

-----------------------------------------------------------------------------
(* A buffer that passes leaves a page in st_walk, unless its walk is empty. *)
LEMMA PassedWalk ==
  ASSUME MemInv, NEW i \in DOMAIN st, NEW b \in Buffers, has_mem_perm(i, b), walked(b) # {}
  PROVE  /\ b.ptr \div PGSIZE \in walked(b)
         /\ \A p \in walked(b) : b.ptr \div PGSIZE <= p /\ b.ptr \div PGSIZE .. p \subseteq walked(b)
         /\ st_walk(i, b) = st[i].pte[b.ptr \div PGSIZE].pa /\ st_walk(i, b) \in Page
<1> DEFINE f == b.ptr \div PGSIZE
           g == ((b.ptr + b.len) % WORD) \div PGSIZE
<1>1. b \in [ptr : 0 .. WORD - 1, len : 0 .. WORD - 1]
  BY TagsAssumption, Zenon
<1>2. b.ptr \in Nat /\ b.len \in Nat
  BY <1>1, Sizes1
<1>3. (b.ptr + b.len) % WORD \in Int
  BY <1>2, Sizes1
<1>4. f \in Int /\ g \in Int
  BY <1>2, <1>3, Sizes1, DivMod
<1> HIDE DEF f, g
<1>5. walked(b) = f .. g
  BY DEF walked, f, g
<1>6. f \in walked(b) /\ Min(walked(b)) = f
  BY <1>4, <1>5, MinInterval
<1>7. walk_check_perm(i, f)
  BY <1>6 DEF has_mem_perm
<1>8. st_walk(i, b) = st[i].pte[f].pa /\ f \in Page
  BY <1>6, <1>7 DEF st_walk, walk_check_perm
<1>9. st[i] \in SthreadRec
  BY DEF MemInv, TagsTypeOK
<1>10. st[i].pte[f].pa \in Page
  BY <1>8, <1>9, Fields
<1>11. \A p \in walked(b) : f <= p /\ f .. p \subseteq walked(b)
  BY <1>4, <1>5
<1> QED
  BY <1>6, <1>8, <1>10, <1>11 DEF f

(* One sthread changes to r.                                               *)
LEMMA SthreadWalk ==
  ASSUME MemInv, WalkKept, NEW i \in DOMAIN st, NEW r \in SthreadRec, st' = [st EXCEPT ![i] = r],
         r.walk = 0 => r.state = "RUNNING" /\ (r.refused \/ r.wrapped)
  PROVE  WalkKept'
<1>1. DOMAIN st' = DOMAIN st /\ st'[i] = r /\ \A j \in DOMAIN st : j # i => st'[j] = st[j]
  BY ExceptSeq DEF MemInv, TagsTypeOK
<1> QED
  BY <1>1, Zenon DEF WalkKept

LEMMA NextWalk == MemInv /\ WalkKept /\ [TagsNext]_gvars => WalkKept'
<1> SUFFICES ASSUME MemInv, WalkKept, [TagsNext]_gvars PROVE WalkKept'
  OBVIOUS
<1>0. ASSUME st' = st PROVE WalkKept'
  BY <1>0, Zenon DEF WalkKept
<1>r. \A i \in DOMAIN st : st[i] \in SthreadRec
  BY ElementSeq, Zenon DEF MemInv, TagsTypeOK
<1>1. ASSUME NEW calls \in Policies, Refused(calls) = {}, sthread_create(sc_mem_add(calls)) PROVE WalkKept'
  <2> DEFINE made(a, c) == [state |-> "RUNNING", sc |-> sc_mem_add(calls), stack |-> a, copy |-> c,
                            pte |-> page_table(maps', sc_mem_add(calls), a, c),
                            walk |-> Cardinality(Writable(segs)), refused |-> FALSE, wrapped |-> FALSE]
  <2>0. PICK a, c : st' = Append(st, made(a, c))
    BY <1>1, Zenon DEF sthread_create
  <2> DEFINE r == made(a, c)
  <2>1. st' = Append(st, r) /\ r.walk = Cardinality(Writable(segs))
    BY Zenon, <2>0
  <2> HIDE DEF r
  <2>2. Cardinality(Writable(segs)) \in Nat /\ Cardinality(Writable(segs)) > 0
    BY Zenon, <1>1, WritablePages DEF sthread_create, MemInv, TagsTypeOK, Initialised
  <2>3. st \in Seq(SthreadRec)
    BY DEF MemInv, TagsTypeOK
  <2>4. \A i \in DOMAIN st' : st'[i] = r \/ (i \in DOMAIN st /\ st'[i] = st[i])
    BY <2>1, <2>3
  <2>5. r.walk # 0
    BY <2>1, <2>2
  <2> QED
    BY <2>4, <2>5, Zenon DEF WalkKept
<1>2. ASSUME NEW sc, sthread_create_recycled(sc) PROVE WalkKept'
  <2> DEFINE i == Max(recyclable(sc))
             r == [st[i] EXCEPT !.state = "RUNNING", !.sc = sc, !.refused = FALSE, !.wrapped = FALSE]
  <2>1. i \in DOMAIN st /\ st[i].sc = sc /\ st[i].state = "DEAD"
    BY <1>2, RecycledIn, Zenon DEF sthread_create_recycled
  <2>2. st' = [st EXCEPT ![i] = r]
    BY <1>2 DEF sthread_create_recycled
  <2> HIDE DEF i
  <2>3. r \in SthreadRec /\ r.walk = st[i].walk
    BY ZenonT(30), <2>1, <1>r DEF SthreadRec
  <2>4. st[i].walk # 0
    BY <2>1 DEF WalkKept
  <2> HIDE DEF r
  <2> QED
    BY <2>1, <2>2, <2>3, <2>4, SthreadWalk, Zenon
<1>3. ASSUME NEW i \in DOMAIN st, NEW b \in Buffers, MemDenied(i, b) PROVE WalkKept'
  <2> DEFINE r == [st[i] EXCEPT !.walk = st_walk(i, b), !.refused = TRUE]
  <2>1. r \in SthreadRec /\ r.state = st[i].state /\ r.refused
    BY Zenon, <1>3, <1>r, st_walkType DEF SthreadRec
  <2>2. st' = [st EXCEPT ![i] = r] /\ st[i].state = "RUNNING"
    BY <1>3 DEF MemDenied, Running
  <2> HIDE DEF r
  <2> QED
    BY <1>3, <2>1, <2>2, SthreadWalk, Zenon
<1>4. ASSUME NEW i \in DOMAIN st, NEW b \in Buffers, MemPassed(i, b) PROVE WalkKept'
  <2> DEFINE r == [st[i] EXCEPT !.walk = st_walk(i, b), !.wrapped = st[i].wrapped \/ walked(b) = {}]
  <2>1. /\ r \in SthreadRec /\ r.state = st[i].state /\ r.walk = st_walk(i, b)
        /\ walked(b) = {} => r.wrapped
    BY Zenon, <1>4, <1>r, st_walkType DEF SthreadRec
  <2>2. st' = [st EXCEPT ![i] = r] /\ st[i].state = "RUNNING" /\ has_mem_perm(i, b)
    BY <1>4, Zenon DEF MemPassed, Running
  <2>3. walked(b) # {} => st_walk(i, b) # 0
    <3>1. walked(b) # {} => st_walk(i, b) \in Page
      BY <1>4, <2>2, PassedWalk, Zenon
    <3> QED
      BY <3>1, Sizes1 DEF Page
  <2> HIDE DEF r
  <2> QED
    BY <1>4, <2>1, <2>2, <2>3, SthreadWalk, Zenon
<1>5. ASSUME NEW i \in DOMAIN st, SysExit(i) PROVE WalkKept'
  <2> DEFINE r == [st[i] EXCEPT !.state = "ZOMBIE", !.walk = STACK_SIZE]
  <2>1. r \in SthreadRec /\ r.walk # 0
    BY Zenon, <1>5, <1>r, Sizes1 DEF SthreadRec
  <2>2. st' = [st EXCEPT ![i] = r]
    BY <1>5 DEF SysExit
  <2> HIDE DEF r
  <2> QED
    BY <1>5, <2>1, <2>2, SthreadWalk, Zenon
<1>6. ASSUME NEW i \in DOMAIN st, sthread_join(i) PROVE WalkKept'
  <2> DEFINE r == [st[i] EXCEPT !.state = "DEAD"]
  <2>1. r \in SthreadRec /\ r.walk = st[i].walk
    BY ZenonT(30), <1>6, <1>r DEF SthreadRec
  <2>2. st' = [st EXCEPT ![i] = r] /\ st[i].walk # 0
    BY <1>6, SMTT(30) DEF sthread_join, WalkKept
  <2> HIDE DEF r
  <2> QED
    BY <1>6, <2>1, <2>2, SthreadWalk, Zenon
<1>7. ASSUME \/ tag_new \/ sthread_init \/ sthread_init_fails \/ UNCHANGED gvars
             \/ \E i \in DOMAIN tags, sz \in Sizes : smalloc(i, sz) \/ smalloc_null(i, sz)
             \/ \E calls \in Policies : sc_mem_add_exits(calls)
             \/ \E sc : sthread_create_no_memory(sc)
             \/ \E i \in DOMAIN st : MemAssert(i)
      PROVE  st' = st
  BY <1>7 DEF tag_new, sthread_init, sthread_init_fails, gvars, smalloc, smalloc_null, sc_mem_add_exits,
              sthread_create_no_memory, MemAssert
<1> QED
  BY <1>0, <1>1, <1>2, <1>3, <1>4, <1>5, <1>6, <1>7, Zenon DEF TagsNext

-----------------------------------------------------------------------------
(* Two sizes that fit a tag do not wrap.                                   *)
LEMMA TagBytes ==
  TAG_SIZE * PGSIZE \in Nat /\ TAG_SIZE * PGSIZE + TAG_SIZE * PGSIZE < WORD
<1>1. TAG_SIZE * PGSIZE \in Nat
  BY Sizes1
<1>2. 2 * TAG_SIZE * PGSIZE < WORD
  BY TagsAssumption
<1> QED
  BY <1>1, <1>2, Sizes1

LEMMA SmallMod ==
  ASSUME NEW W \in Nat, NEW x \in Nat, x < W
  PROVE  x % W = x
  OBVIOUS

(* smalloc grants the bytes from t_p on.                                   *)
LEMMA bumpBlocks ==
  ASSUME MemInv, BlocksBelow, NEW i \in DOMAIN tags, NEW sz \in Nat, smalloc_fits(tags[i], sz),
         tags' = [tags EXCEPT ![i] = bump(@, sz)], blocks' = blocks \cup {Block(i, sz)}
  PROVE  BlocksBelow'
<1> DEFINE TB == TAG_SIZE * PGSIZE
           n == Block(i, sz)
           small(B, t) == \A d \in B : d.tag = t => d.sz <= TB
<1>0. TB \in Nat /\ TB + TB < WORD
  BY TagBytes
<1>1. /\ DOMAIN tags' = DOMAIN tags
      /\ tags'[i].p = (tags[i].p + sz) % WORD
      /\ \A t \in DOMAIN tags : t # i => tags'[t] = tags[t]
  BY Zenon, bumpMem
<1>2. n.tag = i /\ n.off = tags[i].p /\ n.sz = sz
  BY DEF Block
<1>3. tags[i].p \in Nat /\ \A b \in blocks : b.off \in Nat /\ b.sz \in Nat
  <2>1. tags[i] \in [buf : Page, p : Nat]
    BY ElementSeq, Zenon DEF MemInv, TagsTypeOK
  <2>2. blocks \subseteq [tag : Nat, off : Nat, sz : Nat]
    BY Zenon DEF MemInv, TagsTypeOK
  <2> QED
    BY <2>1, <2>2
<1>4. (tags[i].p + sz) % WORD <= TB
  BY DEF smalloc_fits
<1>5. blocks' = blocks \cup {n}
  OBVIOUS
<1> HIDE DEF TB, n
<1>6. \A b \in blocks' : b.tag \in DOMAIN tags'
  BY <1>1, <1>2, <1>5, Zenon DEF BlocksBelow
<1>7. ASSUME NEW t \in DOMAIN tags, small(blocks, t)
      PROVE  /\ tags[t].p <= TB
             /\ \A b \in blocks : b.tag = t => b.off + b.sz <= tags[t].p
             /\ \A b, c \in blocks :
                  (b.tag = t /\ c.tag = t /\ b # c) => b.off + b.sz <= c.off \/ c.off + c.sz <= b.off
  BY <1>7, Zenon DEF BlocksBelow, TB
<1>8. ASSUME NEW t \in DOMAIN tags, small(blocks', t)
      PROVE  /\ tags'[t].p <= TB
             /\ \A b \in blocks' : b.tag = t => b.off + b.sz <= tags'[t].p
             /\ \A b, c \in blocks' :
                  (b.tag = t /\ c.tag = t /\ b # c) => b.off + b.sz <= c.off \/ c.off + c.sz <= b.off
  <2>1. small(blocks, t)
    BY <1>5, <1>8, Zenon
  <2>2. CASE t # i
    <3>1. \A b \in blocks' : b.tag = t => b \in blocks
      BY <1>2, <1>5, <2>2, Zenon
    <3> QED
      BY <1>1, <1>7, <1>8, <2>1, <2>2, <3>1, Zenon
  <2>3. CASE t = i
    <3>1. sz <= TB
      BY <1>2, <1>5, <1>8, <2>3, Zenon
    <3>2. tags[i].p <= TB
      BY <1>7, <2>1, <2>3, Zenon
    <3>3. tags[i].p + sz \in Nat /\ tags[i].p + sz < WORD
      BY <1>0, <1>3, <3>1, <3>2, Sizes1
    <3>4. tags'[i].p = tags[i].p + sz /\ tags[i].p + sz <= TB
      BY <1>1, <1>4, <3>3, SmallMod, Sizes1
    <3>5. \A b \in blocks : b.tag = i => b.off + b.sz <= tags[i].p
      BY <1>7, <2>1, <2>3, Zenon
    <3>6. ASSUME NEW b \in blocks', b.tag = i PROVE b.off + b.sz <= tags'[i].p
      <4>1. CASE b \in blocks
        <5>1. b.off + b.sz <= tags[i].p /\ b.off \in Nat /\ b.sz \in Nat
          BY <3>5, <3>6, <4>1, <1>3, Zenon
        <5> QED
          BY <5>1, <3>4, <1>3
      <4>2. CASE b = n
        <5>1. b.off + b.sz = tags'[i].p
          BY <4>2, <3>4, <1>2, Zenon
        <5> QED
          BY <5>1, <3>3, <3>4
      <4> QED
        BY <3>6, <4>1, <4>2, <1>5, Zenon
    <3>7. ASSUME NEW b \in blocks', NEW c \in blocks', b.tag = i, c.tag = i, b # c
          PROVE  b.off + b.sz <= c.off \/ c.off + c.sz <= b.off
      <4>1. CASE b \in blocks /\ c \in blocks
        BY <3>7, <4>1, <1>7, <2>1, <2>3, Zenon
      <4>2. CASE b = n /\ c \in blocks
        BY <3>7, <4>2, <3>5, <1>2, Zenon
      <4>3. CASE b \in blocks /\ c = n
        BY <3>7, <4>3, <3>5, <1>2, Zenon
      <4> QED
        BY <3>7, <4>1, <4>2, <4>3, <1>5, Zenon
    <3> QED
      BY <2>3, <3>4, <3>6, <3>7, Zenon
  <2> QED
    BY <2>2, <2>3
<1> QED
  BY <1>1, <1>6, <1>8, Zenon DEF BlocksBelow, TB

(* A new tag has at most one block, at its beginning.                      *)
LEMMA newBlocks ==
  ASSUME MemInv, BlocksBelow, NEW r \in [buf : Page, p : Nat], r.p <= TAG_SIZE * PGSIZE,
         tags' = Append(tags, r), NEW N, N \subseteq {[tag |-> Len(tags) + 1, off |-> 0, sz |-> r.p]},
         blocks' = blocks \cup N
  PROVE  BlocksBelow'
<1> DEFINE TB == TAG_SIZE * PGSIZE
           new == Len(tags) + 1
           small(B, t) == \A d \in B : d.tag = t => d.sz <= TB
<1>1. /\ DOMAIN tags' = DOMAIN tags \cup {new} /\ tags'[new] = r /\ new \notin DOMAIN tags
      /\ \A t \in DOMAIN tags : tags'[t] = tags[t]
  <2>1. tags \in Seq([buf : Page, p : Nat])
    BY DEF MemInv, TagsTypeOK
  <2> QED
    BY <2>1, AppendSeq
<1>2. \A d \in N : d.tag = new /\ d.off + d.sz = r.p /\ \A c \in N : c = d
  BY DEF Block
<1> HIDE DEF TB, new
<1>3. \A b \in blocks' : b.tag \in DOMAIN tags'
  BY <1>1, <1>2, Zenon DEF BlocksBelow
<1>4. ASSUME NEW t \in DOMAIN tags', small(blocks', t)
      PROVE  /\ tags'[t].p <= TB
             /\ \A b \in blocks' : b.tag = t => b.off + b.sz <= tags'[t].p
             /\ \A b, c \in blocks' :
                  (b.tag = t /\ c.tag = t /\ b # c) => b.off + b.sz <= c.off \/ c.off + c.sz <= b.off
  <2>1. CASE t \in DOMAIN tags
    <3>1. \A b \in blocks' : b.tag = t => b \in blocks
      BY <2>1, <1>1, <1>2, Zenon
    <3>2. small(blocks, t)
      BY <1>4, Zenon
    <3>3. /\ tags[t].p <= TB
          /\ \A b \in blocks : b.tag = t => b.off + b.sz <= tags[t].p
          /\ \A b, c \in blocks :
               (b.tag = t /\ c.tag = t /\ b # c) => b.off + b.sz <= c.off \/ c.off + c.sz <= b.off
      BY <2>1, <3>2, Zenon DEF BlocksBelow, TB
    <3> QED
      BY <1>1, <2>1, <3>1, <3>3, Zenon
  <2>2. CASE t = new
    <3>1. \A b \in blocks' : b.tag = t => b \in N
      BY <2>2, <1>1, Zenon DEF BlocksBelow
    <3>2. \A b \in N : b.off + b.sz <= r.p
      BY <1>2
    <3> QED
      BY <1>1, <1>2, <2>2, <3>1, <3>2, Zenon DEF TB
  <2> QED
    BY <1>1, <1>4, <2>1, <2>2, Zenon
<1> QED
  BY <1>1, <1>3, <1>4, Zenon DEF BlocksBelow, TB

LEMMA NextBlocks == MemInv /\ BlocksBelow /\ [TagsNext]_gvars => BlocksBelow'
<1> SUFFICES ASSUME MemInv, BlocksBelow, [TagsNext]_gvars PROVE BlocksBelow'
  OBVIOUS
<1>0. ASSUME UNCHANGED <<tags, blocks>> PROVE BlocksBelow'
  <2>1. tags' = tags /\ blocks' = blocks
    BY <1>0
  <2> QED
    BY <2>1, ZenonT(30) DEF BlocksBelow
<1>1. CASE tag_new
  <2>1. PICK a \in mmap(maps, TAG_SIZE) : tags' = Append(tags, [buf |-> a, p |-> 0])
    BY <1>1, Zenon DEF tag_new
  <2> DEFINE r == [buf |-> a, p |-> 0]
  <2>2. a \in Page
    BY mmapFree, Zenon
  <2>3. r \in [buf : Page, p : Nat] /\ r.p <= TAG_SIZE * PGSIZE
    BY <2>2, TagBytes
  <2>4. blocks' = blocks \cup {}
    BY <1>1 DEF tag_new
  <2> HIDE DEF r
  <2>5. {} \subseteq {[tag |-> Len(tags) + 1, off |-> 0, sz |-> r.p]}
    OBVIOUS
  <2>6. tags' = Append(tags, r)
    BY Zenon, <2>1 DEF r
  <2> QED
    BY Zenon, <2>3, <2>4, <2>5, <2>6, newBlocks
<1>2. CASE sthread_init
  <2> DEFINE m(c) == maps \cup {Line(c, Cardinality(Writable(segments)))}
  <2>1. PICK c : \E k \in mmap(m(c), TAG_SIZE) : tags' = Append(tags, [buf |-> k, p |-> SizeofKstate])
    BY <1>2, Zenon DEF sthread_init
  <2>2. PICK k \in mmap(m(c), TAG_SIZE) : tags' = Append(tags, [buf |-> k, p |-> SizeofKstate])
    BY <2>1, Zenon
  <2> DEFINE r == [buf |-> k, p |-> SizeofKstate]
  <2>3. k \in Page
    BY mmapFree, Zenon
  <2>4. r \in [buf : Page, p : Nat] /\ r.p <= TAG_SIZE * PGSIZE /\ r.p = SizeofKstate
    BY <2>3, Sizes1, TagsAssumption
  <2>5. tags' = Append(tags, r)
    BY <2>2
  <2>6. ktag' = Len(tags) + 1
    <3>1. tags \in Seq([buf : Page, p : Nat]) /\ ktag' = Len(tags')
      BY <1>2 DEF MemInv, TagsTypeOK, sthread_init
    <3> HIDE DEF r
    <3> QED
      BY ZenonT(30), <2>4, <2>5, <3>1, AppendSeq
  <2> DEFINE N == {[tag |-> Len(tags) + 1, off |-> 0, sz |-> r.p]}
  <2>7. blocks' = blocks \cup N
    BY <1>2, <2>4, <2>6, Zenon DEF sthread_init
  <2> HIDE DEF r
  <2> QED
    BY Zenon, <2>4, <2>5, <2>7, newBlocks
<1>3. ASSUME NEW i \in DOMAIN tags, NEW sz \in Sizes, smalloc(i, sz) PROVE BlocksBelow'
  <2>1. sz \in Nat
    BY <1>3, TagsAssumption
  <2> QED
    BY Zenon, <1>3, <2>1, bumpBlocks DEF smalloc
<1>4. ASSUME NEW sc, sthread_create(sc) PROVE BlocksBelow'
  <2>1. ktag \in DOMAIN tags /\ SizeofSthread \in Nat
    BY <1>4, Sizes1 DEF sthread_create, MemInv, Initialised
  <2> QED
    BY ZenonT(30), <1>4, <2>1, bumpBlocks DEF sthread_create
<1>5. ASSUME \/ sthread_init_fails \/ UNCHANGED gvars
             \/ \E i \in DOMAIN tags, sz \in Sizes : smalloc_null(i, sz)
             \/ \E calls \in Policies : sc_mem_add_exits(calls)
             \/ \E sc : sthread_create_recycled(sc) \/ sthread_create_no_memory(sc)
             \/ \E i \in DOMAIN st, b \in Buffers : MemDenied(i, b) \/ MemPassed(i, b)
             \/ \E i \in DOMAIN st : MemAssert(i) \/ SysExit(i) \/ sthread_join(i)
      PROVE  UNCHANGED <<tags, blocks>>
  BY Zenon, <1>5 DEF sthread_init_fails, gvars, smalloc_null, sc_mem_add_exits, sthread_create_recycled,
              sthread_create_no_memory, MemDenied, MemPassed, MemAssert, SysExit, sthread_join
<1> QED
  BY <1>0, <1>1, <1>2, <1>3, <1>4, <1>5, Zenon DEF TagsNext

(* The inductive invariant holds throughout.                               *)
THEOREM TagsInvariant == TagsSpec => []TagsInv
<1>1. TagsInit => TagsInv
  <2>1. TagsInit => WalkKept
    BY DEF TagsInit, WalkKept
  <2>2. TagsInit => BlocksBelow
    BY DEF TagsInit, BlocksBelow
  <2> QED
    BY <2>1, <2>2, InitMem DEF TagsInv
<1>2. TagsInv /\ [TagsNext]_gvars => TagsInv'
  BY NextMem, NextWalk, NextBlocks DEF TagsInv
<1> QED
  BY <1>1, <1>2, PTL DEF TagsSpec

(* The properties of memory follow from how the tables were built.         *)
LEMMA EntryIs ==
  ASSUME MemInv, NEW i \in DOMAIN st, NEW p \in Page
  PROVE  AsBuilt(st[i].pte[p], p, st[i].sc, st[i].stack, st[i].copy)
  BY Zenon DEF MemInv, TablesKept

(* A page that the policy lists is in a tag, which no sthread owns.        *)
LEMMA ListedInTag ==
  ASSUME MemInv, NEW i \in DOMAIN st, NEW p, Listed(st[i].sc, p) # {}
  PROVE  \E t \in DOMAIN tags : p \in TagPages(t)
<1>1. st[i].sc \in Seq([a : Page, prot : SUBSET {"R", "W"}])
  <2>1. st[i] \in SthreadRec
    BY ElementSeq, Zenon DEF MemInv, TagsTypeOK
  <2> QED
    BY <2>1, Fields, Zenon
<1>2. PICK k \in DOMAIN st[i].sc : Covers(st[i].sc[k], p)
  BY <1>1, ListedOne
<1>3. PICK t \in DOMAIN tags : st[i].sc[k].a = tags[t].buf
  BY Zenon DEF MemInv, TablesKept
<1> QED
  BY <1>2, <1>3 DEF Covers, TagPages

-----------------------------------------------------------------------------
(* Which physical pages an sthread reaches, and why.                       *)
LEMMA Reach ==
  ASSUME MemInv, NEW i \in DOMAIN st, NEW p \in Page
  PROVE  /\ p \in Writable(segs) => st[i].pte[p].pa \in CopyOf(i)
         /\ p \notin Writable(segs) => st[i].pte[p].pa = p
         /\ p \notin Writable(segs) /\ Writes(i, p) =>
              /\ p \notin ReadOnly(segs)
              /\ p \in StackOf(i) \/ \E e \in Listed(st[i].sc, p) : "W" \in e.prot
         /\ p \notin SegPages /\ Reads(i, p) => p \in StackOf(i) \/ Listed(st[i].sc, p) # {}
         /\ p \notin SegPages /\ p \notin StackOf(i) =>
              /\ Reads(i, p) <=> Listed(st[i].sc, p) # {}
              /\ Writes(i, p) <=> \E e \in Listed(st[i].sc, p) : "W" \in e.prot
<1> DEFINE e == st[i].pte[p]
           L == Listed(st[i].sc, p)
<1>1. AsBuilt(e, p, st[i].sc, st[i].stack, st[i].copy)
  BY EntryIs, Zenon
<1>2. CASE p \in Writable(segs)
  <2>1. e.pa = st[i].copy + Cardinality({q \in Writable(segs) : q < p})
    BY <1>1, <1>2, Zenon DEF AsBuilt
  <2>2. Writable(segs) \subseteq Page
    BY Zenon, WritablePages DEF MemInv, TagsTypeOK
  <2>3. /\ Cardinality({q \in Writable(segs) : q < p}) \in Nat /\ Cardinality(Writable(segs)) \in Nat
        /\ Cardinality({q \in Writable(segs) : q < p}) < Cardinality(Writable(segs))
    BY <1>2, <2>2, Below, Zenon
  <2>4. st[i].copy \in Nat
    <3>1. st[i] \in SthreadRec
      BY ElementSeq, Zenon DEF MemInv, TagsTypeOK
    <3>2. st[i].copy \in Page
      BY <3>1, Fields, Zenon
    <3> QED
      BY <3>2, Sizes1 DEF Page
  <2>5. e.pa \in CopyOf(i)
    BY <2>1, <2>3, <2>4 DEF CopyOf
  <2> QED
    BY <1>2, <2>5, Zenon DEF SegPages
<1>3. CASE p \notin Writable(segs)
  <2>1. /\ e.pa = p
        /\ p \in ReadOnly(segs) => "W" \notin e.bits
        /\ p \notin ReadOnly(segs) =>
             /\ "U" \in e.bits <=> p \in StackOf(i) \/ L # {}
             /\ L # {} => "P" \in e.bits
             /\ p \notin StackOf(i) /\ "U" \in e.bits => ("W" \in e.bits <=> \E x \in L : "W" \in x.prot)
    BY <1>1, <1>3, Zenon DEF AsBuilt, StackOf
  <2>2. /\ Reads(i, p) <=> "P" \in e.bits /\ "U" \in e.bits
        /\ Writes(i, p) <=> "P" \in e.bits /\ "U" \in e.bits /\ "W" \in e.bits
    BY DEF Reads, Writes, PteBit
  <2>3. (\E x \in L : "W" \in x.prot) => L # {}
    BY Zenon
  <2> HIDE DEF e, L
  <2>4. Writes(i, p) => p \notin ReadOnly(segs) /\ (p \in StackOf(i) \/ \E x \in L : "W" \in x.prot)
    BY <2>1, <2>2, Zenon
  <2>5. p \notin SegPages /\ Reads(i, p) => p \in StackOf(i) \/ L # {}
    BY <2>1, <2>2, Zenon DEF SegPages
  <2>6. p \notin SegPages /\ p \notin StackOf(i) =>
          /\ Reads(i, p) <=> L # {}
          /\ Writes(i, p) <=> \E x \in L : "W" \in x.prot
    BY <2>1, <2>2, <2>3, Zenon DEF SegPages
  <2> QED
    BY <1>3, <2>1, <2>4, <2>5, <2>6, Zenon DEF e, L
<1> QED
  BY <1>2, <1>3, Zenon

(* Tag pages are pages, and no stack or copy holds one.                    *)
LEMMA TagNotOwn ==
  ASSUME MemInv, NEW i \in DOMAIN st, NEW t \in DOMAIN tags, NEW p \in TagPages(t)
  PROVE  p \notin StackOf(i) /\ p \notin CopyOf(i) /\ p \in Page
<1>1. p \notin Own(i)
  BY Zenon DEF MemInv, MapsApart
<1>2. p \in Page
  <2>1. PICK l \in maps : p \in Extent(l)
    BY AreasMapped, Zenon DEF Mapped
  <2>2. l \in [start : Page, end : 2 .. Pages + 1, w : BOOLEAN, stack : BOOLEAN, len : Nat]
    BY <2>1, Zenon DEF MemInv, TagsTypeOK
  <2> QED
    BY <2>1, <2>2, Sizes1 DEF Extent, Page
<1> QED
  BY <1>1, <1>2 DEF Own

(* A running sthread, recycled or new, has of the tags what its policy     *)
(* says (walk_protect, and the comparison of policies in sthread_create).  *)
THEOREM PolicyHoldsAlways == TagsSpec => []PolicyHolds
<1>1. TagsInv => PolicyHolds
  <2> SUFFICES ASSUME MemInv, NEW i \in Alive, NEW t \in DOMAIN tags,
                      NEW p \in tags[t].buf .. tags[t].buf + TAG_SIZE - 1, p \notin SegPages
               PROVE  /\ Reads(i, p) <=> Listed(st[i].sc, p) # {}
                      /\ Writes(i, p) <=> \E e \in Listed(st[i].sc, p) : "W" \in e.prot
                      /\ st[i].pte[p].pa = p
    BY Zenon DEF TagsInv, PolicyHolds
  <2>1. i \in DOMAIN st
    BY DEF Alive
  <2>2. p \in TagPages(t)
    BY DEF TagPages
  <2>3. p \notin StackOf(i) /\ p \in Page
    BY <2>1, <2>2, TagNotOwn, Zenon
  <2>4. p \notin Writable(segs)
    BY Zenon DEF SegPages
  <2> QED
    BY <2>1, <2>3, <2>4, Reach, Zenon
<1> QED
  BY <1>1, TagsInvariant, PTL

(* What an sthread can write is its stack, its copy of the checkpoint, or  *)
(* a tag its policy lists for writing (walk_protect, walk_remap).          *)
THEOREM WritesOwnAlways == TagsSpec => []WritesOwn
<1>1. TagsInv => WritesOwn
  <2> SUFFICES ASSUME MemInv, NEW i \in Alive, NEW p \in Page, Writes(i, p)
               PROVE  \/ p \in Writable(segs) /\ st[i].pte[p].pa \in CopyOf(i)
                      \/ /\ st[i].pte[p].pa = p
                         /\ p \in StackOf(i) \/ \E e \in Listed(st[i].sc, p) : "W" \in e.prot
    BY Zenon DEF TagsInv, WritesOwn
  <2>1. i \in DOMAIN st
    BY Zenon DEF Alive
  <2> QED
    BY <2>1, Reach, Zenon
<1> QED
  BY <1>1, TagsInvariant, PTL

(* Two running sthreads share a page that one of them writes only in a tag *)
(* that both policies list (create_new_sthread).                           *)
THEOREM IsolationAlways == TagsSpec => []Isolation
<1>1. TagsInv => Isolation
  <2> SUFFICES ASSUME MemInv, NEW i \in Alive, NEW j \in Alive, i # j, NEW p \in Page, NEW q \in Page,
                      Writes(i, p), Reads(j, q), st[i].pte[p].pa = st[j].pte[q].pa
               PROVE  p = q /\ Listed(st[i].sc, p) # {} /\ Listed(st[j].sc, p) # {}
    BY ZenonT(30) DEF TagsInv, Isolation
  <2> DEFINE x == st[i].pte[p].pa
  <2>1. i \in DOMAIN st /\ j \in DOMAIN st
    BY DEF Alive
  <2>2. /\ \A y \in Own(i) : y \notin SegPages /\ y \notin Own(j)
        /\ \A y \in Own(j) : y \notin SegPages
    BY <2>1, Zenon DEF MemInv, MapsApart
  <2>3. ASSUME NEW k \in DOMAIN st, NEW y, Listed(st[k].sc, y) # {}
        PROVE  y \notin Own(i) /\ y \notin Own(j)
    <3>1. PICK t \in DOMAIN tags : y \in TagPages(t)
      BY <2>3, ListedInTag, Zenon
    <3> QED
      BY <2>1, <3>1, Zenon DEF MemInv, MapsApart
  <2>4. /\ StackOf(i) \subseteq Own(i) /\ CopyOf(i) \subseteq Own(i)
        /\ StackOf(j) \subseteq Own(j) /\ CopyOf(j) \subseteq Own(j)
    BY DEF Own
  <2>5. \/ x \in Own(i)
        \/ x = p /\ p \notin Writable(segs) /\ p \notin ReadOnly(segs) /\ Listed(st[i].sc, p) # {}
    BY <2>1, <2>4, Reach, ZenonT(30)
  <2>6. \/ q \in Writable(segs) /\ x \in Own(j)
        \/ x = q /\ q \in SegPages
        \/ x = q /\ q \notin SegPages /\ (q \in StackOf(j) \/ Listed(st[j].sc, q) # {})
    <3>1. st[j].pte[q].pa = x
      OBVIOUS
    <3> HIDE DEF x
    <3>2. CASE q \in Writable(segs)
      BY <3>1, <3>2, <2>1, <2>4, Reach, Zenon
    <3>3. CASE q \notin Writable(segs)
      BY <3>1, <3>3, <2>1, Reach, Zenon
    <3> QED
      BY <3>2, <3>3
  <2> HIDE DEF x
  <2>7. CASE x \in Own(i)
    BY <2>7, <2>1, <2>2, <2>3, <2>4, <2>6, Zenon
  <2>8. CASE x = p /\ p \notin Writable(segs) /\ p \notin ReadOnly(segs) /\ Listed(st[i].sc, p) # {}
    <3>1. x \notin Own(j) /\ x \notin SegPages
      BY <2>8, <2>1, <2>3, Zenon DEF SegPages
    <3> QED
      BY <2>8, <3>1, <2>4, <2>6, Zenon
  <2> QED
    BY <2>5, <2>7, <2>8
<1> QED
  BY <1>1, TagsInvariant, PTL

(* smalloc hands out bytes of its tag only, and none of them twice, while  *)
(* the sizes granted on the tag fit it.                                    *)
THEOREM BlocksDisjointAlways == TagsSpec => []BlocksDisjoint
<1>1. TagsInv => BlocksDisjoint
  <2> DEFINE TB == TAG_SIZE * PGSIZE
  <2> SUFFICES ASSUME MemInv, BlocksBelow, NEW b \in blocks, \A d \in blocks : d.tag = b.tag => d.sz <= TB
               PROVE  /\ b.off + b.sz <= TB
                      /\ \A c \in blocks :
                           (b # c /\ b.tag = c.tag) => b.off + b.sz <= c.off \/ c.off + c.sz <= b.off
    BY Zenon DEF TagsInv, BlocksDisjoint
  <2>1. b.tag \in DOMAIN tags
    BY Zenon DEF BlocksBelow
  <2>2. /\ tags[b.tag].p <= TB /\ b.off + b.sz <= tags[b.tag].p
        /\ \A c \in blocks :
             (b # c /\ b.tag = c.tag) => b.off + b.sz <= c.off \/ c.off + c.sz <= b.off
    BY <2>1, Zenon DEF BlocksBelow
  <2>3. tags[b.tag] \in [buf : Page, p : Nat]
    BY <2>1, ElementSeq, Zenon DEF MemInv, TagsTypeOK
  <2>4. b \in [tag : Nat, off : Nat, sz : Nat]
    BY Zenon DEF MemInv, TagsTypeOK
  <2>5. TB \in Nat
    BY TagBytes
  <2> HIDE DEF TB
  <2>6. b.off + b.sz <= TB
    BY <2>2, <2>3, <2>4, <2>5
  <2> QED
    BY <2>2, <2>6, Zenon
<1> QED
  BY <1>1, TagsInvariant, PTL

(* The assertion on st_walk fails only after a refused buffer, or one whose *)
(* end wraps (has_mem_perm, and recycle, which leaves st_walk set).        *)
THEOREM AssertOnlyAfterRefusalAlways == TagsSpec => []AssertOnlyAfterRefusal
<1>1. TagsInv => AssertOnlyAfterRefusal
  BY Zenon DEF TagsInv, WalkKept, AssertOnlyAfterRefusal, Alive
<1> QED
  BY <1>1, TagsInvariant, PTL

-----------------------------------------------------------------------------
(* A buffer that passes is translated page by page from its first page.    *)
LEMMA PassedTranslated ==
  ASSUME MemInv, NEW i \in DOMAIN st, NEW b \in Buffers, has_mem_perm(i, b),
         walked(b) \subseteq Writable(segs) \/ walked(b) \cap Writable(segs) = {},
         NEW p \in walked(b)
  PROVE  /\ Writes(i, p)
         /\ st[i].pte[p].pa = ((st_walk(i, b) * PGSIZE) + (b.ptr % PGSIZE)) \div PGSIZE
                                + (p - b.ptr \div PGSIZE)
<1> DEFINE f == b.ptr \div PGSIZE
           W == Writable(segs)
           x == st_walk(i, b)
<1>1. f \in walked(b) /\ x = st[i].pte[f].pa /\ x \in Page
  BY Zenon, PassedWalk
<1>2. \A q \in walked(b) : q \in Page /\ Writes(i, q)
  BY DEF has_mem_perm, walk_check_perm, Writes, PteBit
<1>3. ((x * PGSIZE) + (b.ptr % PGSIZE)) \div PGSIZE = x
  <2>1. b \in [ptr : 0 .. WORD - 1, len : 0 .. WORD - 1]
    BY TagsAssumption, Zenon
  <2>2. b.ptr \in Nat
    BY <2>1, Sizes1
  <2>3. b.ptr % PGSIZE \in 0 .. PGSIZE - 1 /\ x \in Nat
    BY <1>1, <2>2, Sizes1, DivMod, SMTT(30) DEF Page
  <2> HIDE DEF x
  <2> QED
    BY <2>3, Sizes1, PageOf
<1>4. p \in Page /\ f \in Page /\ f <= p /\ f .. p \subseteq walked(b)
  <2>1. p \in Page /\ f \in Page
    BY <1>1, <1>2, Zenon
  <2> QED
    BY <2>1, PassedWalk
<1> HIDE DEF f
<1>5. AsBuilt(st[i].pte[p], p, st[i].sc, st[i].stack, st[i].copy) /\ AsBuilt(st[i].pte[f], f, st[i].sc, st[i].stack, st[i].copy)
  BY <1>4, EntryIs, Zenon
<1>6. st[i].pte[p].pa = x + (p - f)
  <2>1. CASE walked(b) \subseteq W
    <3>1. f .. p \subseteq W /\ p \in W /\ f \in W
      BY <1>1, <1>4, <2>1, Zenon
    <3>2. /\ st[i].pte[p].pa = st[i].copy + Cardinality({q \in W : q < p})
          /\ x = st[i].copy + Cardinality({q \in W : q < f})
      BY <1>1, <1>5, <3>1, Zenon DEF AsBuilt
    <3>3. W \subseteq Page
      BY Zenon, WritablePages DEF MemInv, TagsTypeOK
    <3>4. Cardinality({q \in W : q < p}) = Cardinality({q \in W : q < f}) + (p - f)
      BY <1>4, <3>1, <3>3, BelowUp, Zenon
    <3>5. Cardinality({q \in W : q < f}) \in Nat
      BY <3>1, <3>3, Below, ZenonT(30)
    <3>6. st[i].copy \in Nat
      <4>1. st[i] \in SthreadRec
        BY ElementSeq, Zenon DEF MemInv, TagsTypeOK
      <4>2. st[i].copy \in Page
        BY <4>1, Fields, Zenon
      <4> QED
        BY <4>2, Sizes1 DEF Page
    <3>7. p - f \in Int
      BY <1>4, Sizes1 DEF Page
    <3> HIDE DEF W, x
    <3> QED
      BY <3>2, <3>4, <3>5, <3>6, <3>7
  <2>2. CASE walked(b) \cap W = {}
    <3>1. p \notin W /\ f \notin W
      BY <1>1, <2>2, Zenon
    <3>2. st[i].pte[p].pa = p /\ x = f
      BY <1>1, <1>5, <3>1, Zenon DEF AsBuilt
    <3> HIDE DEF x
    <3> QED
      BY <1>4, <3>2, Sizes1 DEF Page
  <2> QED
    BY ZenonT(30), <2>1, <2>2
<1> QED
  BY Zenon, <1>2, <1>3, <1>6 DEF f

(* Each byte of a buffer that was let through is where the page table of   *)
(* the sthread has it, when all of its pages are checkpointed ones or none *)
(* is (has_mem_perm and the address handed to the kernel).                 *)
THEOREM BufferTranslatedAlways == TagsSpec => []BufferTranslated
<1>1. TagsInit => BufferTranslated
  BY DEF TagsInit, BufferTranslated, NoBuf
<1>2. MemInv /\ BufferTranslated /\ [TagsNext]_gvars => BufferTranslated'
  <2> SUFFICES ASSUME MemInv, BufferTranslated, [TagsNext]_gvars PROVE BufferTranslated'
    OBVIOUS
  <2>1. ASSUME UNCHANGED gvars PROVE BufferTranslated'
    BY Zenon, <2>1 DEF gvars, BufferTranslated, walked, Writes, Writable
  <2>2. ASSUME buf' = NoBuf PROVE BufferTranslated'
    BY Zenon, <2>2 DEF BufferTranslated, NoBuf
  <2>3. ASSUME NEW i \in DOMAIN st, NEW b \in Buffers, MemPassed(i, b) PROVE BufferTranslated'
    <3> DEFINE at == (st_walk(i, b) * PGSIZE) + (b.ptr % PGSIZE)
    <3>1. buf' = [s |-> i, ptr |-> b.ptr, len |-> b.len, at |-> at] /\ segs' = segs /\ has_mem_perm(i, b)
      BY <2>3 DEF MemPassed
    <3>2. st'[i].pte = st[i].pte
      <4>1. st' = [st EXCEPT ![i] = [st[i] EXCEPT !.walk = st_walk(i, b),
                                                  !.wrapped = st[i].wrapped \/ walked(b) = {}]]
        BY <2>3, Zenon DEF MemPassed
      <4>2. st[i] \in SthreadRec /\ st \in Seq(SthreadRec)
        BY <2>3 DEF MemInv, TagsTypeOK
      <4> QED
        BY Zenon, <2>3, <4>1, <4>2 DEF SthreadRec
    <3>3. walked(buf)' = walked(b) /\ Writable(segs)' = Writable(segs)
      BY <3>1 DEF walked, Writable
    <3>4. buf'.s = i /\ buf'.ptr = b.ptr /\ buf'.at = at
      BY <3>1
    <3> HIDE DEF at
    <3>5. ASSUME walked(b) \subseteq Writable(segs) \/ walked(b) \cap Writable(segs) = {}, NEW p \in walked(b)
          PROVE  Writes(i, p) /\ st[i].pte[p].pa = at \div PGSIZE + (p - b.ptr \div PGSIZE)
      BY Zenon, <2>3, <3>1, <3>5, PassedTranslated DEF at
    <3>6. \A p : Writes(i, p)' <=> Writes(i, p)
      BY Zenon, <3>2 DEF Writes
    <3>7. ASSUME walked(b) \subseteq Writable(segs) \/ walked(b) \cap Writable(segs) = {}, NEW p \in walked(b)
          PROVE  /\ Writes(buf.s, p)'
                 /\ st'[buf'.s].pte[p].pa = buf'.at \div PGSIZE + (p - buf'.ptr \div PGSIZE)
      <4>1. Writes(buf.s, p)'
        BY Zenon, <3>2, <3>4, <3>5, <3>7 DEF Writes
      <4> QED
        BY Zenon, <4>1, <3>2, <3>4, <3>5, <3>7
    <3> QED
      BY <3>3, <3>7, Zenon DEF BufferTranslated
  <2>4. ASSUME \/ tag_new \/ sthread_init \/ sthread_init_fails
               \/ \E i \in DOMAIN tags, sz \in Sizes : smalloc(i, sz)
               \/ \E calls \in Policies : sc_mem_add_exits(calls)
               \/ \E sc : sthread_create(sc) \/ sthread_create_recycled(sc) \/ sthread_create_no_memory(sc)
               \/ \E i \in DOMAIN st, b \in Buffers : MemDenied(i, b)
               \/ \E i \in DOMAIN st : MemAssert(i) \/ SysExit(i) \/ sthread_join(i)
        PROVE  buf' = NoBuf
    BY <2>4, Zenon DEF tag_new, sthread_init, sthread_init_fails, smalloc, sc_mem_add_exits, sthread_create,
                sthread_create_recycled, sthread_create_no_memory, MemDenied, MemAssert, SysExit, sthread_join
  <2> QED
    BY <2>1, <2>2, <2>3, <2>4, Zenon DEF TagsNext, smalloc_null
<1>3. TagsSpec => [](MemInv)
  BY TagsInvariant, PTL DEF TagsInv
<1> QED
  BY <1>1, <1>2, <1>3, PTL DEF TagsSpec
=============================================================================
