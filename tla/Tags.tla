-------------------------------- MODULE Tags --------------------------------
(***************************************************************************)
(* What an sthread may touch (wedge/src/sthread.c): the segments that      *)
(* sthread_init reads from /proc/self/maps, the tags that tag_new maps and *)
(* smalloc cuts up, the policy that sc_mem_add builds, the page table that *)
(* create_new_sthread derives from all three, and has_mem_perm, which      *)
(* walks that table before a buffer is handed to the kernel.               *)
(*                                                                         *)
(* Memory is counted in pages; page 0 is never mapped.  Which sthread runs *)
(* when is the subject of Sthread; here any running one may trap.          *)
(***************************************************************************)
EXTENDS Integers, Sequences, FiniteSets, FiniteSetsExt

CONSTANTS
    Pages,          \* pages 1 .. Pages
    PGSIZE,         \* bytes in a page
    WORD,           \* 2^64
    TAG_SIZE,       \* in pages, as is STACK_SIZE
    STACK_SIZE,
    MEM_MAX,        \* entries of sc_mem
    MAPS_BUF,       \* bytes of /proc/self/maps that one read returns
    SizeofKstate, SizeofSthread,
    Maps,           \* the lines of /proc/self/maps when the program starts: a set of choices
    Sizes,          \* arguments of smalloc
    Policies,       \* the calls of sc_mem_add a policy is built with
    Buffers,        \* [ptr, len] of the system calls
    Places(_),      \* the areas mmap(NULL) picks from, of those that are free
    MaxTags, MaxSthreads, MaxBlocks

Page == 1 .. Pages
PteBit == {"P", "W", "U"}

ASSUME TagsAssumption ==
    /\ {Pages, PGSIZE, TAG_SIZE, STACK_SIZE, MEM_MAX} \subseteq Nat \ {0}
    /\ {WORD, MAPS_BUF, SizeofKstate, SizeofSthread, MaxTags, MaxSthreads, MaxBlocks} \subseteq Nat
    /\ PGSIZE * (Pages + 1) <= WORD
    /\ 2 * TAG_SIZE * PGSIZE < WORD /\ SizeofKstate <= TAG_SIZE * PGSIZE
    /\ \A S \in SUBSET Page : Places(S) \subseteq S
    /\ \A m \in Maps :
         /\ IsFiniteSet(m)
         /\ m \subseteq [start : Page, end : 2 .. Pages + 1, w : BOOLEAN, stack : BOOLEAN, len : Nat]
         /\ \A k, l \in m : k = l \/ k.end <= l.start \/ l.end <= k.start
    /\ Policies \subseteq Seq([tid : Nat, prot : SUBSET {"R", "W"}])
    /\ Sizes \subseteq 0 .. WORD - 1
    /\ Buffers \subseteq [ptr : 0 .. WORD - 1, len : 0 .. WORD - 1]

VARIABLES
    state,    \* "start", "run" (after sthread_init), "exit0", "exit1", "crash"
    maps,     \* the lines of /proc/self/maps
    segs,     \* _segments: the lines read, but for the stack
    tags,     \* tags[i]: the tag whose t_id is i - 1
    ktag,     \* the tag of kmalloc
    st,       \* the sthreads, by id
    blocks,   \* ghost: what smalloc has returned
    buf       \* ghost: the buffer just handed to the kernel

gvars == <<state, maps, segs, tags, ktag, st, blocks, buf>>

-----------------------------------------------------------------------------
Extent(l) == l.start .. l.end - 1
Line(a, n) == [start |-> a, end |-> a + n, w |-> TRUE, stack |-> FALSE, len |-> 1]

(* Where mmap(NULL, n pages) may put them, given the lines m.              *)
mmap(m, n) ==
    Places({a \in Page : a + n - 1 \in Page /\ \A l \in m : Extent(l) \cap (a .. a + n - 1) = {}})

(* smalloc: unsigned arithmetic, so a huge sz moves t_p backwards.         *)
smalloc_fits(t, sz) == (t.p + sz) % WORD <= TAG_SIZE * PGSIZE

bump_one_short_faulty(t, sz) == [t EXCEPT !.p = IF sz = 0 THEN @ ELSE (t.p + sz - 1) % WORD]

bump(t, sz) == [t EXCEPT !.p = (t.p + sz) % WORD]

NoBuf == [s |-> 0, ptr |-> 0, len |-> 0, at |-> 0]

TagsInit ==
    /\ state = "start"
    /\ maps \in Maps
    /\ segs = {} /\ tags = <<>> /\ ktag = 0 /\ st = <<>>
    /\ blocks = {} /\ buf = NoBuf

tag_new ==
    /\ state \in {"start", "run"} /\ Cardinality(DOMAIN tags \ {ktag}) < MaxTags
    /\ \E a \in mmap(maps, TAG_SIZE) :
         /\ maps' = maps \cup {Line(a, TAG_SIZE)}
         /\ tags' = Append(tags, [buf |-> a, p |-> 0])
    /\ buf' = NoBuf
    /\ UNCHANGED <<state, segs, ktag, st, blocks>>

Block(i, sz) == [tag |-> i, off |-> tags[i].p, sz |-> sz]

smalloc(i, sz) ==
    /\ state \in {"start", "run"} /\ Cardinality(blocks) < MaxBlocks
    /\ smalloc_fits(tags[i], sz)
    /\ tags' = [tags EXCEPT ![i] = bump(@, sz)]
    /\ blocks' = blocks \cup {Block(i, sz)}
    /\ buf' = NoBuf
    /\ UNCHANGED <<state, maps, segs, ktag, st>>

smalloc_null(i, sz) ==
    /\ state \in {"start", "run"}
    /\ ~smalloc_fits(tags[i], sz)
    /\ UNCHANGED gvars

(* sc_mem_add, applied to sc for each of calls in turn: an unknown tag is  *)
(* errx(0), so the process ends with status 0; a full sc_mem is errx(1).   *)
Refused(calls) == {i \in DOMAIN calls : calls[i].tid + 1 \notin DOMAIN tags \/ i > MEM_MAX}

sc_mem_add(calls) == [i \in DOMAIN calls |-> [a |-> tags[calls[i].tid + 1].buf, prot |-> calls[i].prot]]

sc_mem_add_exits(calls) ==
    /\ state \in {"start", "run"} /\ Refused(calls) # {}
    /\ state' = IF calls[Min(Refused(calls))].tid + 1 \in DOMAIN tags THEN "exit1" ELSE "exit0"
    /\ buf' = NoBuf
    /\ UNCHANGED <<maps, segs, tags, ktag, st, blocks>>

-----------------------------------------------------------------------------
(* One read of /proc/self/maps, whose lines are in the order of their      *)
(* addresses: it may end inside a line, where strchr finds no newline, or  *)
(* after one, and then the lines that follow are missed in silence.        *)
Upto(l) == MapThenSumSet(LAMBDA x : x.len, {x \in maps : x.start <= l.start})
cut == \E l \in maps : Upto(l) > MAPS_BUF /\ Upto(l) - l.len < MAPS_BUF
lines_read == {l \in maps : Upto(l) <= MAPS_BUF}

(* checkpoint_prepare: every line but those that mention the stack.        *)
segments == {l \in lines_read : ~l.stack}
Writable(S) == UNION {Extent(l) : l \in {x \in S : x.w}}
ReadOnly(S) == UNION {Extent(l) : l \in {x \in S : ~x.w}}

sthread_init ==
    /\ state = "start" /\ ~cut
    /\ Writable(segments) # {}
    /\ LET n == Cardinality(Writable(segments)) IN
       \E c \in mmap(maps, n) : \E k \in mmap(maps \cup {Line(c, n)}, TAG_SIZE) :
         /\ maps' = maps \cup {Line(c, n), Line(k, TAG_SIZE)}
         /\ tags' = Append(tags, [buf |-> k, p |-> SizeofKstate])
    /\ segs' = segments
    /\ ktag' = Len(tags')
    /\ blocks' = blocks \cup {[tag |-> ktag', off |-> 0, sz |-> SizeofKstate]}
    /\ state' = "run"
    /\ buf' = NoBuf
    /\ UNCHANGED <<st>>

(* The crash on a line without its newline; an empty checkpoint, which     *)
(* mmap refuses; a file that cannot be read; no Dune.                      *)
sthread_init_fails ==
    /\ state = "start"
    /\ state' \in IF cut THEN {"crash", "exit1"} ELSE {"exit1"}
    /\ buf' = NoBuf
    /\ UNCHANGED <<maps, segs, tags, ktag, st, blocks>>

-----------------------------------------------------------------------------
(* dune_vm_clone(pgroot): the master's table, one entry per mapped page.   *)
clone(m) ==
    [p \in Page |->
       [bits |-> IF \E l \in m : p \in Extent(l)
                   THEN {"P", "U"} \cup (IF \E l \in m : p \in Extent(l) /\ l.w THEN {"W"} ELSE {})
                   ELSE {},
        pa |-> p]]

Covers(e, p) == p \in e.a .. e.a + TAG_SIZE - 1

(* The first entry of the policy whose tag holds p, as a set.              *)
Listed(mem, p) ==
    {mem[i] : i \in {j \in DOMAIN mem : Covers(mem[j], p) /\ \A k \in 1 .. j - 1 : ~Covers(mem[k], p)}}

walk_protect_no_default_faulty(e, p, mem, stack) ==
    [e EXCEPT !.bits =
       IF p \in Writable(segs) \cup ReadOnly(segs)
         THEN (@ \ {"U"}) \cup (IF p \in ReadOnly(segs) THEN {"U"} ELSE {})
         ELSE @ \ (IF \E x \in Listed(mem, p) : "W" \notin x.prot THEN {"W"} ELSE {})]

walk_protect(e, p, mem, stack) ==
    [e EXCEPT !.bits =
       IF p \in Writable(segs) \cup ReadOnly(segs)
         THEN (@ \ {"U"}) \cup (IF p \in ReadOnly(segs) THEN {"U"} ELSE {})
         ELSE ((@ \ {"U"})
               \cup (IF p \in stack .. stack + STACK_SIZE - 1 \/ Listed(mem, p) # {} THEN {"U"} ELSE {}))
              \ (IF \E x \in Listed(mem, p) : "W" \notin x.prot THEN {"W"} ELSE {})]

(* walk_remap, over the writable segments in the order of the list: the    *)
(* n-th of their pages becomes the n-th page of st_writable.               *)
walk_remap_keeps_master_faulty(e, p, copy) ==
    IF p \in Writable(segs) THEN [bits |-> PteBit, pa |-> p] ELSE e

walk_remap(e, p, copy) ==
    IF p \in Writable(segs)
      THEN [bits |-> PteBit, pa |-> copy + Cardinality({q \in Writable(segs) : q < p})]
      ELSE e

page_table(m, mem, stack, copy) ==
    [p \in Page |-> walk_remap(walk_protect(clone(m)[p], p, mem, stack), p, copy)]

recyclable_any_faulty(mem) == {i \in DOMAIN st : st[i].state = "DEAD"}

recyclable(mem) == {i \in DOMAIN st : st[i].state = "DEAD" /\ st[i].sc = mem}

sthread_create(sc) ==
    /\ state = "run" /\ recyclable(sc) = {}
    /\ Len(st) < MaxSthreads
    /\ smalloc_fits(tags[ktag], SizeofSthread)
    /\ tags' = [tags EXCEPT ![ktag] = bump(@, SizeofSthread)]
    /\ LET n == Cardinality(Writable(segs)) IN
       \E a \in mmap(maps, STACK_SIZE) : \E c \in mmap(maps \cup {Line(a, STACK_SIZE)}, n) :
         /\ maps' = maps \cup {Line(a, STACK_SIZE), Line(c, n)}
         /\ st' = Append(st, [state |-> "RUNNING", sc |-> sc, stack |-> a, copy |-> c,
                              pte |-> page_table(maps', sc, a, c), walk |-> n,
                              refused |-> FALSE, wrapped |-> FALSE])
    /\ blocks' = blocks \cup {Block(ktag, SizeofSthread)}
    /\ buf' = NoBuf
    /\ UNCHANGED <<state, segs, ktag>>

sthread_create_recycled(sc) ==
    /\ state = "run" /\ recyclable(sc) # {}
    /\ st' = [st EXCEPT ![Max(recyclable(sc))] =
                [@ EXCEPT !.state = "RUNNING", !.sc = sc, !.refused = FALSE, !.wrapped = FALSE]]
    /\ buf' = NoBuf
    /\ UNCHANGED <<state, maps, segs, tags, ktag, blocks>>

sthread_create_no_memory(sc) ==
    /\ state = "run" /\ recyclable(sc) = {}
    /\ ~smalloc_fits(tags[ktag], SizeofSthread)
    /\ state' = "exit1"
    /\ buf' = NoBuf
    /\ UNCHANGED <<maps, segs, tags, ktag, st, blocks>>

-----------------------------------------------------------------------------
(* dune_vm_page_walk(root, a, b): the pages of a to b, both included; none *)
(* when b is below a, which is what ptr + len may be, modulo 2^64.         *)
walked(b) == b.ptr \div PGSIZE .. ((b.ptr + b.len) % WORD) \div PGSIZE

walk_check_perm(i, p) == p \in Page /\ {"U", "P", "W"} \subseteq st[i].pte[p].bits

has_mem_perm(i, b) == \A p \in walked(b) : walk_check_perm(i, p)

(* st_walk after the walk: the physical page of the first page, unless the *)
(* walk had none or stopped there.                                         *)
st_walk_last_faulty(i, b) ==
    IF walked(b) # {} /\ walk_check_perm(i, Max(walked(b))) THEN st[i].pte[Max(walked(b))].pa ELSE 0

st_walk(i, b) ==
    IF walked(b) # {} /\ walk_check_perm(i, Min(walked(b))) THEN st[i].pte[Min(walked(b))].pa ELSE 0

Running(i) == state = "run" /\ st[i].state = "RUNNING"

(* A system call with a buffer that fd and call permissions let through:   *)
(* the assertion, the refusal, or the call, on the physical address.       *)
MemAssert(i) ==
    /\ Running(i) /\ st[i].walk = 0
    /\ state' = "crash"
    /\ buf' = NoBuf
    /\ UNCHANGED <<maps, segs, tags, ktag, st, blocks>>

MemDenied(i, b) ==
    /\ Running(i) /\ st[i].walk # 0
    /\ ~has_mem_perm(i, b)
    /\ st' = [st EXCEPT ![i] = [@ EXCEPT !.walk = st_walk(i, b), !.refused = TRUE]]
    /\ buf' = NoBuf
    /\ UNCHANGED <<state, maps, segs, tags, ktag, blocks>>

MemPassed(i, b) ==
    /\ Running(i) /\ st[i].walk # 0
    /\ has_mem_perm(i, b)
    /\ st' = [st EXCEPT ![i] = [@ EXCEPT !.walk = st_walk(i, b), !.wrapped = st[i].wrapped \/ walked(b) = {}]]
    /\ buf' = [s |-> i, ptr |-> b.ptr, len |-> b.len,
               at |-> (st_walk(i, b) * PGSIZE) + (b.ptr % PGSIZE)]
    /\ UNCHANGED <<state, maps, segs, tags, ktag, blocks>>

(* System call 666: recycle leaves the size of the stack in st_walk.       *)
SysExit_walk_zero_faulty(i) ==
    /\ Running(i)
    /\ st' = [st EXCEPT ![i] = [@ EXCEPT !.state = "ZOMBIE", !.walk = 0]]
    /\ buf' = NoBuf
    /\ UNCHANGED <<state, maps, segs, tags, ktag, blocks>>

SysExit(i) ==
    /\ Running(i)
    /\ st' = [st EXCEPT ![i] = [@ EXCEPT !.state = "ZOMBIE", !.walk = STACK_SIZE]]
    /\ buf' = NoBuf
    /\ UNCHANGED <<state, maps, segs, tags, ktag, blocks>>

sthread_join(i) ==
    /\ state = "run" /\ st[i].state = "ZOMBIE"
    /\ st' = [st EXCEPT ![i].state = "DEAD"]
    /\ buf' = NoBuf
    /\ UNCHANGED <<state, maps, segs, tags, ktag, blocks>>

TagsNext ==
    \/ tag_new \/ sthread_init \/ sthread_init_fails
    \/ \E i \in DOMAIN tags, sz \in Sizes : smalloc(i, sz) \/ smalloc_null(i, sz)
    \/ \E calls \in Policies : sc_mem_add_exits(calls)
    \/ \E calls \in {c \in Policies : Refused(c) = {}} :
         LET sc == sc_mem_add(calls) IN
         sthread_create(sc) \/ sthread_create_recycled(sc) \/ sthread_create_no_memory(sc)
    \/ \E i \in DOMAIN st, b \in Buffers : MemDenied(i, b) \/ MemPassed(i, b)
    \/ \E i \in DOMAIN st : MemAssert(i) \/ SysExit(i) \/ sthread_join(i)

TagsSpec == TagsInit /\ [][TagsNext]_gvars

-----------------------------------------------------------------------------
Alive == {i \in DOMAIN st : st[i].state = "RUNNING"}
SegPages == Writable(segs) \cup ReadOnly(segs)
Reads(i, p) == {"P", "U"} \subseteq st[i].pte[p].bits
Writes(i, p) == PteBit \subseteq st[i].pte[p].bits
StackOf(i) == st[i].stack .. st[i].stack + STACK_SIZE - 1
CopyOf(i) == st[i].copy .. st[i].copy + Cardinality(Writable(segs)) - 1

(* A running sthread, recycled or new, has what the policy it was started  *)
(* with says of the tags outside the checkpointed segments: the page       *)
(* itself, writable as the first entry for the tag says, and no tag that   *)
(* the policy does not list (sthread.c:580-597, 667-673).                  *)
PolicyHolds ==
    \A i \in Alive, t \in DOMAIN tags : \A p \in tags[t].buf .. tags[t].buf + TAG_SIZE - 1 :
        p \notin SegPages =>
            /\ Reads(i, p) <=> Listed(st[i].sc, p) # {}
            /\ Writes(i, p) <=> \E e \in Listed(st[i].sc, p) : "W" \in e.prot
            /\ st[i].pte[p].pa = p

(* What an sthread can write lies in its own stack, its own copy of the    *)
(* checkpoint, or a tag its policy lists for writing: never in memory of   *)
(* the master, of the library or of another sthread, even when lines of    *)
(* /proc/self/maps were missed (sthread.c:398-403, 541-600).               *)
WritesOwn ==
    \A i \in Alive, p \in Page : Writes(i, p) =>
        \/ p \in Writable(segs) /\ st[i].pte[p].pa \in CopyOf(i)
        \/ /\ st[i].pte[p].pa = p
           /\ p \in StackOf(i) \/ \E e \in Listed(st[i].sc, p) : "W" \in e.prot

(* Two running sthreads reach the same physical page, one of them for      *)
(* writing, only in a tag that both policies list.                         *)
Isolation ==
    \A i, j \in Alive : i # j =>
        \A p, q \in Page :
            (Writes(i, p) /\ Reads(j, q) /\ st[i].pte[p].pa = st[j].pte[q].pa) =>
                p = q /\ Listed(st[i].sc, p) # {} /\ Listed(st[j].sc, p) # {}

(* smalloc hands out bytes of its tag only, and none of them twice, to the *)
(* application or to kmalloc, as long as no size it granted on the tag     *)
(* exceeded the tag (sthread.c:754: the sum of such a size wraps).         *)
BlocksDisjoint ==
    \A b \in blocks :
        (\A d \in blocks : d.tag = b.tag => d.sz <= TAG_SIZE * PGSIZE) =>
            /\ b.off + b.sz <= TAG_SIZE * PGSIZE
            /\ \A c \in blocks :
                 (b # c /\ b.tag = c.tag) => b.off + b.sz <= c.off \/ c.off + c.sz <= b.off

(* The kernel is given the physical address of the first page only.  When  *)
(* all the pages of the buffer are checkpointed ones, or none is, each of  *)
(* its bytes is where the page table of the sthread has it, in a page the  *)
(* sthread may write (sthread.c:341-348).                                  *)
BufferTranslated ==
    LET pages == walked(buf) IN
    buf.s # 0 /\ (pages \subseteq Writable(segs) \/ pages \cap Writable(segs) = {}) =>
        \A p \in pages :
            /\ Writes(buf.s, p)
            /\ st[buf.s].pte[p].pa = buf.at \div PGSIZE + (p - buf.ptr \div PGSIZE)

(* The assertion on st_walk can fail only after a buffer of the same       *)
(* activation was refused, or one whose end wraps was let through          *)
(* (sthread.c:278-283, 342).                                               *)
AssertOnlyAfterRefusal ==
    \A i \in Alive : st[i].walk = 0 => st[i].refused \/ st[i].wrapped
-----------------------------------------------------------------------------
(* The types, with a record for each sthread.                              *)
SthreadRec ==
    [state : {"RUNNING", "ZOMBIE", "DEAD"}, sc : Seq([a : Page, prot : SUBSET {"R", "W"}]),
     stack : Page, copy : Page, pte : [Page -> [bits : SUBSET PteBit, pa : Page]],
     walk : Nat, refused : BOOLEAN, wrapped : BOOLEAN]

TagsTypeOK ==
    /\ state \in {"start", "run", "exit0", "exit1", "crash"}
    /\ maps \subseteq [start : Page, end : 2 .. Pages + 1, w : BOOLEAN, stack : BOOLEAN, len : Nat]
    /\ segs \subseteq maps
    /\ tags \in Seq([buf : Page, p : Nat])
    /\ ktag \in 0 .. Len(tags)
    /\ st \in Seq(SthreadRec)
    /\ blocks \subseteq [tag : Nat, off : Nat, sz : Nat]
    /\ buf \in [s : Nat, ptr : Nat, len : Nat, at : Nat]

TagPages(t) == tags[t].buf .. tags[t].buf + TAG_SIZE - 1
Own(i) == StackOf(i) \cup CopyOf(i)
Mapped(p) == \E l \in maps : p \in Extent(l)

(* Before sthread_init there are no sthreads; after it there is memory to  *)
(* copy, and the tag of kmalloc.                                           *)
Initialised ==
    /\ state = "start" => st = <<>>
    /\ state = "run" => Writable(segs) # {} /\ ktag \in DOMAIN tags
    /\ st # <<>> => Writable(segs) # {}

(* The lines are apart.  A tag is one of them, and writable; the stack and *)
(* the copy of an sthread are mapped, and shared with nothing.             *)
MapsApart ==
    /\ \A k, l \in maps : k = l \/ Extent(k) \cap Extent(l) = {}
    /\ \A t \in DOMAIN tags : Line(tags[t].buf, TAG_SIZE) \in maps
    /\ \A i \in DOMAIN st :
         /\ \A p \in Own(i) : Mapped(p) /\ p \notin SegPages
         /\ \A t \in DOMAIN tags : Own(i) \cap TagPages(t) = {}
         /\ \A j \in DOMAIN st : i # j => Own(i) \cap Own(j) = {}

(* What walk_protect and walk_remap leave in the entry of page p.          *)
AsBuilt(e, p, sc, stack, copy) ==
    IF p \in Writable(segs)
      THEN /\ e.bits = PteBit
           /\ e.pa = copy + Cardinality({q \in Writable(segs) : q < p})
      ELSE LET own == p \in stack .. stack + STACK_SIZE - 1
               listed == Listed(sc, p)
           IN  /\ e.pa = p
               /\ p \in ReadOnly(segs) => "W" \notin e.bits
               /\ p \notin ReadOnly(segs) =>
                    /\ "U" \in e.bits <=> own \/ listed # {}
                    /\ listed # {} => "P" \in e.bits
                    /\ ~own /\ "U" \in e.bits =>
                         ("W" \in e.bits <=> \E x \in listed : "W" \in x.prot)

(* The tables of the sthreads, dead ones included, are still as            *)
(* create_new_sthread made them, for the policy that each has now.         *)
TablesKept ==
    \A i \in DOMAIN st :
        /\ \A k \in DOMAIN st[i].sc : \E t \in DOMAIN tags : st[i].sc[k].a = tags[t].buf
        /\ \A p \in Page : AsBuilt(st[i].pte[p], p, st[i].sc, st[i].stack, st[i].copy)

(* Only the walk of has_mem_perm leaves a zero in st_walk.                 *)
WalkKept ==
    \A i \in DOMAIN st :
        st[i].walk = 0 => st[i].state = "RUNNING" /\ (st[i].refused \/ st[i].wrapped)

(* As long as all sizes granted on a tag fit it, its blocks lie below t_p. *)
BlocksBelow ==
    /\ \A b \in blocks : b.tag \in DOMAIN tags
    /\ \A t \in DOMAIN tags :
         (\A d \in blocks : d.tag = t => d.sz <= TAG_SIZE * PGSIZE) =>
             /\ tags[t].p <= TAG_SIZE * PGSIZE
             /\ \A b \in blocks : b.tag = t => b.off + b.sz <= tags[t].p
             /\ \A b, c \in blocks :
                  (b.tag = t /\ c.tag = t /\ b # c) => b.off + b.sz <= c.off \/ c.off + c.sz <= b.off

(* The inductive invariant behind the properties above.                    *)
MemInv == TagsTypeOK /\ Initialised /\ MapsApart /\ TablesKept
TagsInv == MemInv /\ WalkKept /\ BlocksBelow
=============================================================================
