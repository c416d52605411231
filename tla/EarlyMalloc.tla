---------------------------- MODULE EarlyMalloc ----------------------------
(***************************************************************************)
(* The early kernel heap (klib/early-kheap.c) and the allocator on top of  *)
(* it (klib/early-malloc.c, built with the options of                      *)
(* include/klib/emalloc-params.h: no locks, no mmap, no footers, MORECORE  *)
(* is ekheap_sbrk).  The allocator carves a heap into chunks whose         *)
(* boundary tags say how large a chunk is (head), whether it is in use     *)
(* (c), whether the chunk below it is (pin) and, when that one is free,    *)
(* how large it is (foot).  Free chunks are in exactly one of the lists of *)
(* their size (small), the tries of larger sizes (tree), dv and top.       *)
(*                                                                         *)
(* Addresses and sizes are the bytes of the program; a chunk stands for    *)
(* the memory the caller gets, which starts two words above it.  The words *)
(* inside a chunk are the caller's and are not kept.  The operations are   *)
(* sequential: the program uses this heap before it starts a second CPU.   *)
(***************************************************************************)
EXTENDS Integers, Sequences, FiniteSets, Bags, SequencesExt, FiniteSetsExt

CONSTANTS
  PageSize,     \* HAL_PAGE_SIZE
  HeapStart,    \* the first address of the heap, page aligned
  HeapSize,     \* its size
  MaxLive,      \* bound: the live allocations
  MaxOps,       \* bound: the calls of a behaviour
  MaxRare,      \* bound: the rarer calls, and those of another user of the heap
  Sizes,        \* the sizes asked for
  Grown,        \* the sizes an allocation is changed to
  Alignments,   \* the alignments asked for
  Batches,      \* the sequences of sizes of independent_comalloc
  Limits,       \* the limits set on the footprint
  Thresholds,   \* the values of M_TRIM_THRESHOLD
  Granularities,\* the values of M_GRANULARITY
  Foreign       \* what another user of the heap takes from it at a time

ASSUME HeapAligned == PageSize > 0 /\ HeapStart > 0 /\ HeapStart % PageSize = 0

----------------------------------------------------------------------------
(* Sizes. *)

SIZE_T_SIZE == 8
MALLOC_ALIGNMENT == 2 * SIZE_T_SIZE
CHUNK_OVERHEAD == SIZE_T_SIZE
MIN_CHUNK_SIZE == 4 * SIZE_T_SIZE
MIN_REQUEST == MIN_CHUNK_SIZE - CHUNK_OVERHEAD - 1
MIN_LARGE_SIZE == 256
NTREEBINS == 32
MAX_SMALL_REQUEST == MIN_LARGE_SIZE - 1 - (MALLOC_ALIGNMENT - 1) - CHUNK_OVERHEAD
(* The largest number of the model, for 2^64 - 1. *)
MAX_SIZE_T == 2 ^ 30
MAX_REQUEST == MAX_SIZE_T - 4 * MIN_CHUNK_SIZE
DEFAULT_TRIM_THRESHOLD == 2 * 1024 * 1024
CMFAIL == -1

Up(n, unit) == ((n + unit - 1) \div unit) * unit
pad_request(req) == Up(req + CHUNK_OVERHEAD, MALLOC_ALIGNMENT)
request2size(req) == IF req < MIN_REQUEST THEN MIN_CHUNK_SIZE ELSE pad_request(req)
(* struct malloc_segment has four words. *)
SEGMENT_SIZE == pad_request(4 * SIZE_T_SIZE)
TOP_FOOT_SIZE == SEGMENT_SIZE + MIN_CHUNK_SIZE
SYS_ALLOC_PADDING == TOP_FOOT_SIZE + MALLOC_ALIGNMENT
(* Without init_mparams the granularity is 0 and the mask clears all bits. *)
granularity_align(m, n) == IF m.gran = 0 THEN 0 ELSE Up(n, m.gran)
is_small(s) == s < MIN_LARGE_SIZE
SmallSizes == {SIZE_T_SIZE * i : i \in 0 .. MIN_LARGE_SIZE \div SIZE_T_SIZE - 1}

----------------------------------------------------------------------------
(* The early kernel heap.  A result of sbrk is the heap and the old break. *)

ekheap_init == [start |-> HeapStart, end |-> Up(HeapStart + HeapSize, PageSize), cur |-> HeapStart]

ekheap_sbrk(m, inc) ==
  IF m.kheap.cur + inc < m.kheap.start \/ m.kheap.cur + inc >= m.kheap.end
  THEN [m |-> m, br |-> CMFAIL]
  ELSE [m |-> [m EXCEPT !.kheap.cur = @ + inc], br |-> m.kheap.cur]

----------------------------------------------------------------------------
(* Boundary tags.  The tags inside a chunk go when its head is written. *)

Inside(q, p, s) == p < q /\ q < p + s
SetHead(m, p, s, c) ==
  [m EXCEPT !.head = [q \in {p} \cup {x \in DOMAIN @ : ~Inside(x, p, s)} |->
                        IF q = p THEN [size |-> s, c |-> c] ELSE @[q]],
            !.pin = {q \in @ : ~Inside(q, p, s)},
            !.foot = [q \in {x \in DOMAIN @ : ~Inside(x, p, s)} |-> @[q]]]
SetPin(m, ps) ==
  [m EXCEPT !.pin = @ \cup ps, !.foot = [q \in DOMAIN @ \ ps |-> @[q]]]
set_foot(m, p, s) ==
  [m EXCEPT !.foot = [q \in DOMAIN @ \cup {p + s} |-> IF q = p + s THEN s ELSE @[q]]]

chunksize(m, p) == m.head[p].size
cinuse(m, p) == m.head[p].c
pinuse(m, p) == p \in m.pin

set_inuse(m, p, s) == SetPin(SetHead(m, p, s, TRUE), {p + s})
set_inuse_and_pinuse(m, p, s) == SetPin(SetHead(m, p, s, TRUE), {p, p + s})
set_size_and_pinuse_of_inuse_chunk(m, p, s) == SetPin(SetHead(m, p, s, TRUE), {p})
set_size_and_pinuse_of_free_chunk(m, p, s) ==
  set_foot(SetPin(SetHead(m, p, s, FALSE), {p}), p, s)
set_free_with_pinuse(m, p, s, n) ==
  set_size_and_pinuse_of_free_chunk([m EXCEPT !.pin = @ \ {n}], p, s)

----------------------------------------------------------------------------
(* The lists of small chunks, in the order of the fd links. *)

insert_small_chunk(m, p, s) == [m EXCEPT !.small[s] = <<p>> \o @]
unlink_small_chunk(m, p, s) == [m EXCEPT !.small[s] = SelectSeq(@, LAMBDA q : q # p)]
unlink_first_small_chunk(m, s) == [m EXCEPT !.small[s] = Tail(@)]

(* The old dv is known to be small. *)
replace_dv(m, p, s) ==
  [(IF m.dvsize = 0 THEN m ELSE insert_small_chunk(m, m.dv, m.dvsize))
     EXCEPT !.dv = p, !.dvsize = s]

----------------------------------------------------------------------------
(* The bins of large chunks: a trie for each index.  A node is a size, the *)
(* chunks of that size in the order of the fd links and two subtrees; the  *)
(* bit of the size that chooses between them falls by one for each level.  *)

Bit(n, i) == IF i < 0 THEN 0 ELSE (n \div 2 ^ i) % 2
RECURSIVE Log2(_)
Log2(n) == IF n <= 1 THEN 0 ELSE 1 + Log2(n \div 2)
IndexOf(s, k) == IF k > 15 THEN NTREEBINS - 1 ELSE 2 * k + Bit(s, k + 7)
compute_tree_index(s) == IndexOf(s, Log2(s \div MIN_LARGE_SIZE))
bit_for_tree_index(i) == i \div 2 + 6
minsize_for_tree_index(i) == 2 ^ (i \div 2 + 8) + (i % 2) * 2 ^ (i \div 2 + 7)
TreeIndices == 0 .. NTREEBINS - 1

NoNode == [size |-> 0]
Leaf(s, chain) == [size |-> s, chain |-> chain, kid |-> <<NoNode, NoNode>>]
leftmost_child(t) == IF t.kid[1] # NoNode THEN t.kid[1] ELSE t.kid[2]

RECURSIVE Inserted(_, _, _, _)
Inserted(t, x, s, b) ==
  IF t = NoNode THEN Leaf(s, <<x>>)
  ELSE IF t.size = s THEN [t EXCEPT !.chain = <<Head(@), x>> \o Tail(@)]
  ELSE [t EXCEPT !.kid[Bit(s, b) + 1] = Inserted(@, x, s, b - 1)]

(* The leaf that replaces a node that goes: the rightmost descendant. *)
RECURSIVE RightLeaf(_)
RightLeaf(t) == IF t.kid[2] # NoNode THEN RightLeaf(t.kid[2])
                ELSE IF t.kid[1] # NoNode THEN RightLeaf(t.kid[1]) ELSE t
RECURSIVE WithoutRightLeaf(_)
WithoutRightLeaf(t) ==
  IF t.kid[2] # NoNode THEN [t EXCEPT !.kid[2] = WithoutRightLeaf(@)]
  ELSE IF t.kid[1] # NoNode THEN [t EXCEPT !.kid[1] = WithoutRightLeaf(@)] ELSE NoNode
Replaced(t) == IF leftmost_child(t) = NoNode THEN NoNode
               ELSE [RightLeaf(t) EXCEPT !.kid = WithoutRightLeaf(t).kid]
(* The chunk before the first one of a chain becomes the node in its place. *)
OutOfChain(chain, x) ==
  IF Head(chain) = x THEN <<Last(chain)>> \o SubSeq(chain, 2, Len(chain) - 1)
  ELSE SelectSeq(chain, LAMBDA q : q # x)
RECURSIVE Removed(_, _, _, _)
Removed(t, x, s, b) ==
  IF t.size # s THEN [t EXCEPT !.kid[Bit(s, b) + 1] = Removed(@, x, s, b - 1)]
  ELSE IF Len(t.chain) > 1 THEN [t EXCEPT !.chain = OutOfChain(@, x)]
  ELSE Replaced(t)

HookAt(m, x, s, i) == [m EXCEPT !.tree[i] = Inserted(@, x, s, bit_for_tree_index(i))]
UnhookAt(m, x, s, i) == [m EXCEPT !.tree[i] = Removed(@, x, s, bit_for_tree_index(i))]
insert_large_chunk(m, x, s) == HookAt(m, x, s, compute_tree_index(s))
unlink_large_chunk(m, x) == UnhookAt(m, x, chunksize(m, x), compute_tree_index(chunksize(m, x)))
treemap(m) == {i \in TreeIndices : m.tree[i] # NoNode}

insert_chunk(m, p, s) == IF is_small(s) THEN insert_small_chunk(m, p, s) ELSE insert_large_chunk(m, p, s)
unlink_chunk(m, p, s) == IF is_small(s) THEN unlink_small_chunk(m, p, s) ELSE unlink_large_chunk(m, p)

----------------------------------------------------------------------------
(* Memory from the heap and back to it. *)

(* The trailing chunk of top only separates it from what comes after. *)
align_as_chunk(a) == Up(a, MALLOC_ALIGNMENT)
TopAt(m, p, s) ==
  [SetPin(SetHead(m, p, s, FALSE), {p}) EXCEPT
     !.top = p, !.topsize = s, !.trim_check = m.threshold]
init_top(m, p, s) == TopAt(m, align_as_chunk(p), s - (align_as_chunk(p) - p))

init_mparams(m) ==
  IF m.gran # 0 THEN m
  ELSE [m EXCEPT !.gran = PageSize, !.threshold = DEFAULT_TRIM_THRESHOLD]

Holds(sg, a) == sg.base <= a /\ a < sg.base + sg.size
segment_holding(m, a) == CHOOSE i \in DOMAIN m.segs : Holds(m.segs[i], a)

(* The record of the segment that was the first moves into the old top, *)
(* with fenceposts to its end; what is left of the old top is binned.   *)
Fences(p, end) == {p} \cup {a \in p .. end : (a - p) % SIZE_T_SIZE = 0 /\ a + SIZE_T_SIZE < end}
Fenced(m, fences) ==
  [m EXCEPT !.head = [q \in DOMAIN @ \cup fences |->
                        IF q \in fences THEN [size |-> SIZE_T_SIZE, c |-> TRUE] ELSE @[q]],
            !.pin = @ \cup fences]
RecordAt(m, sp, end) ==
  Fenced(set_size_and_pinuse_of_inuse_chunk(m, sp, SEGMENT_SIZE), Fences(sp + SEGMENT_SIZE, end))
PushSegment(m, tbase, tsize, sp) ==
  [m EXCEPT !.segs = <<[base |-> tbase, size |-> tsize, rec |-> 0], [Head(@) EXCEPT !.rec = sp]>> \o Tail(@)]
BinRest(m, q, sp) ==
  IF sp = q THEN m ELSE insert_chunk(set_free_with_pinuse(m, q, sp - q, sp), q, sp - q)
AddSegment(m, tbase, tsize, sp, end) ==
  BinRest(PushSegment(RecordAt(init_top(m, tbase, tsize - TOP_FOOT_SIZE), sp, end), tbase, tsize, sp), m.top, sp)
PlaceFor(top, asp) == IF asp < top + MIN_CHUNK_SIZE THEN top ELSE asp
RecordPlace(m, end) ==
  PlaceFor(m.top, Up(end - SEGMENT_SIZE - 4 * SIZE_T_SIZE - (MALLOC_ALIGNMENT - 1), MALLOC_ALIGNMENT))
TopEnd(m) == m.segs[segment_holding(m, m.top)].base + m.segs[segment_holding(m, m.top)].size
add_segment(m, tbase, tsize) ==
  AddSegment(m, tbase, tsize, RecordPlace(m, TopEnd(m)), TopEnd(m))

----------------------------------------------------------------------------
(* sys_alloc.  An attempt gives the state, the base and the size of what *)
(* it got, CMFAIL when it got nothing.                                   *)

Got(m, base, size) == [m |-> m, base |-> base, size |-> size]
NothingGot(m) == Got(m, CMFAIL, 0)
disable_contiguous(m) == [m EXCEPT !.cont = FALSE]

(* Another user of the heap moved the break: the new space is not next to *)
(* the old one and has to hold the request alone.                         *)
Lengthened(r, br, ssize, esize) ==
  IF r.br # CMFAIL THEN Got(r.m, br, ssize + esize)
  ELSE NothingGot(disable_contiguous(ekheap_sbrk(r.m, -ssize).m))
Elsewhere(m, nb, br, ssize) ==
  IF ssize < nb + SYS_ALLOC_PADDING
  THEN Lengthened(ekheap_sbrk(m, granularity_align(m, nb + SYS_ALLOC_PADDING - ssize)),
                  br, ssize, granularity_align(m, nb + SYS_ALLOC_PADDING - ssize))
  ELSE Got(m, br, ssize)
AfterSbrk(r, nb, expected, ssize) ==
  IF r.br = CMFAIL THEN NothingGot(disable_contiguous(r.m))
  ELSE IF r.br = expected THEN Got(r.m, r.br, ssize)
  ELSE Elsewhere(r.m, nb, r.br, ssize)
WithinLimit(m, size) == m.limit = 0 \/ m.footprint + size <= m.limit
FirstSpace(m, nb, ssize) ==
  IF WithinLimit(m, ssize) THEN AfterSbrk(ekheap_sbrk(m, ssize), nb, m.kheap.cur, ssize)
  ELSE NothingGot(disable_contiguous(m))
Contiguous(m, nb, asize) ==
  IF m.top = 0 THEN FirstSpace(m, nb, asize + Up(m.kheap.cur, PageSize) - m.kheap.cur)
  ELSE AfterSbrk(ekheap_sbrk(m, granularity_align(m, nb - m.topsize + SYS_ALLOC_PADDING)), nb, TopEnd(m),
                 granularity_align(m, nb - m.topsize + SYS_ALLOC_PADDING))
FromBreak(r, nb) ==
  IF r.br # CMFAIL /\ r.m.kheap.cur - r.br > nb + TOP_FOOT_SIZE
  THEN Got(r.m, r.br, r.m.kheap.cur - r.br) ELSE NothingGot(r.m)
ElseNoncontiguous(g, nb, asize) ==
  IF g.base # CMFAIL THEN g ELSE FromBreak(ekheap_sbrk(g.m, asize), nb)
MoreCore(m, nb, asize) ==
  ElseNoncontiguous(IF m.cont THEN Contiguous(m, nb, asize) ELSE NothingGot(m), nb, asize)

(* The new space is the first, it extends the segment of top, or it is a *)
(* segment of its own.  Below a segment it never is: the break goes up.  *)
Extends(m, base) == \E i \in DOMAIN m.segs :
  m.segs[i].base + m.segs[i].size = base /\ Holds(m.segs[i], m.top)
Annexed(m, base, size) ==
  IF m.top = 0
  THEN init_top([m EXCEPT !.segs = <<[base |-> base, size |-> size, rec |-> 0]>>], base, size - TOP_FOOT_SIZE)
  ELSE IF Extends(m, base)
  THEN init_top([m EXCEPT !.segs[segment_holding(m, m.top)].size = @ + size], m.top, m.topsize + size)
  ELSE add_segment(m, base, size)
Charged(m, size) ==
  [m EXCEPT !.footprint = @ + size,
            !.max_footprint = IF m.footprint + size > @ THEN m.footprint + size ELSE @]

Given(m, p) == [m |-> m, p |-> p]
None(m) == Given(m, 0)

(* The allocated part is the low end of top. *)
SplitTop(m, p, nb) ==
  Given(set_size_and_pinuse_of_inuse_chunk(
          [SetPin(SetHead(m, p + nb, m.topsize - nb, FALSE), {p + nb}) EXCEPT !.top = p + nb, !.topsize = @ - nb],
          p, nb), p)
FromNewTop(m, nb) == IF nb < m.topsize THEN SplitTop(m, m.top, nb) ELSE None(m)
UseSpace(g, nb) ==
  IF g.base = CMFAIL THEN None(g.m)
  ELSE FromNewTop(Annexed(Charged(g.m, g.size), g.base, g.size), nb)
SysAlloc(m, nb, asize) ==
  IF WithinLimit(m, asize) THEN UseSpace(MoreCore(m, nb, asize), nb) ELSE None(m)
sys_alloc(m, nb) ==
  IF nb = MAX_SIZE_T THEN None(init_mparams(m))
  ELSE SysAlloc(init_mparams(m), nb, granularity_align(init_mparams(m), nb + SYS_ALLOC_PADDING))

(* Top shrinks by whole units, and only when nobody moved the break. *)
Released(m, r, i) ==
  IF r.br # CMFAIL /\ r.m.kheap.cur < m.kheap.cur
  THEN init_top([r.m EXCEPT !.segs[i].size = @ - (m.kheap.cur - r.m.kheap.cur),
                            !.footprint = @ - (m.kheap.cur - r.m.kheap.cur)],
                m.top, m.topsize - (m.kheap.cur - r.m.kheap.cur))
  ELSE r.m
Shrunk(m, extra, i) ==
  IF m.kheap.cur = m.segs[i].base + m.segs[i].size THEN Released(m, ekheap_sbrk(m, -extra), i) ELSE m
TrimTop(m, pad) ==
  IF m.topsize > pad
  THEN Shrunk(m, ((m.topsize - pad + m.gran - 1) \div m.gran - 1) * m.gran, segment_holding(m, m.top))
  ELSE m
(* A trim that releases nothing turns the automatic one off. *)
Disarmed(m, before) ==
  IF m.footprint = before.footprint /\ m.topsize > m.trim_check THEN [m EXCEPT !.trim_check = MAX_SIZE_T] ELSE m
sys_trim(m, pad) ==
  IF pad < MAX_REQUEST /\ m.top # 0 THEN Disarmed(TrimTop(m, pad + TOP_FOOT_SIZE), m) ELSE m
should_trim(m) == m.topsize > m.trim_check

----------------------------------------------------------------------------
(* Free chunks.  A freed chunk joins the free chunk below it, then the one *)
(* above it: top, dv or a binned one.                                      *)

IntoTopKeepsDv(m, p, s) ==
  [SetPin(SetHead(m, p, s + m.topsize, FALSE), {p}) EXCEPT !.top = p, !.topsize = @ + s]
IntoTop(m, p, s) ==
  [SetPin(SetHead(m, p, s + m.topsize, FALSE), {p}) EXCEPT
     !.top = p, !.topsize = @ + s,
     !.dv = IF p = m.dv THEN 0 ELSE @, !.dvsize = IF p = m.dv THEN 0 ELSE @]
IntoDv(m, p, s) ==
  set_size_and_pinuse_of_free_chunk([m EXCEPT !.dv = p, !.dvsize = @ + s], p, s + m.dvsize)
BinOrDv(m, p, s) ==
  IF p = m.dv THEN [m EXCEPT !.dvsize = s] ELSE insert_chunk(m, p, s)
WithNext(m, p, s, next) ==
  BinOrDv(set_size_and_pinuse_of_free_chunk(unlink_chunk(m, next, chunksize(m, next)), p, s + chunksize(m, next)),
          p, s + chunksize(m, next))
Forward(m, p, s, next) ==
  IF cinuse(m, next) THEN insert_chunk(set_free_with_pinuse(m, p, s, next), p, s)
  ELSE IF next = m.top THEN IntoTop(m, p, s)
  ELSE IF next = m.dv THEN IntoDv(m, p, s)
  ELSE WithNext(m, p, s, next)
Backward(m, p, s, prevsize, next) ==
  IF p - prevsize # m.dv THEN Forward(unlink_chunk(m, p - prevsize, prevsize), p - prevsize, s + prevsize, next)
  ELSE IF cinuse(m, next) /\ pinuse(m, next)
  THEN set_free_with_pinuse([m EXCEPT !.dvsize = s + prevsize], p - prevsize, s + prevsize, next)
  ELSE Forward(m, p - prevsize, s + prevsize, next)
dispose_chunk(m, p, s) ==
  IF pinuse(m, p) THEN Forward(m, p, s, p + s) ELSE Backward(m, p, s, m.foot[p], p + s)

(* A free that makes top large trims it. *)
TrimIfGrown(m, before) == IF m.topsize # before.topsize /\ should_trim(m) THEN sys_trim(m, 0) ELSE m
dlfree(m, p) == TrimIfGrown(dispose_chunk(m, p, chunksize(m, p)), m)

----------------------------------------------------------------------------
(* malloc *)

FromTop(m, nb) == IF nb < m.topsize THEN SplitTop(m, m.top, nb) ELSE sys_alloc(m, nb)
SplitDv(m, p, nb) ==
  IF m.dvsize - nb >= MIN_CHUNK_SIZE
  THEN Given(set_size_and_pinuse_of_inuse_chunk(
               set_size_and_pinuse_of_free_chunk([m EXCEPT !.dv = p + nb, !.dvsize = @ - nb], p + nb, m.dvsize - nb),
               p, nb), p)
  ELSE Given(set_inuse_and_pinuse([m EXCEPT !.dv = 0, !.dvsize = 0], p, m.dvsize), p)
FromDv(m, nb) == IF nb <= m.dvsize THEN SplitDv(m, m.dv, nb) ELSE FromTop(m, nb)

(* A chunk just taken from its bin: the rest of it, when it can be a chunk, *)
(* becomes dv or goes to its own bin.                                       *)
Halved(m, p, nb, rest) ==
  set_size_and_pinuse_of_free_chunk(set_size_and_pinuse_of_inuse_chunk(m, p, nb), p + nb, rest)
RestToDv(m, p, nb, rest) ==
  Given(IF rest < MIN_CHUNK_SIZE THEN set_inuse_and_pinuse(m, p, nb + rest)
        ELSE replace_dv(Halved(m, p, nb, rest), p + nb, rest), p)
RestToBin(m, p, nb, rest) ==
  Given(IF rest < MIN_CHUNK_SIZE THEN set_inuse_and_pinuse(m, p, nb + rest)
        ELSE insert_chunk(Halved(m, p, nb, rest), p + nb, rest), p)

(* The smallest chunk on the way down the leftmost branches. *)
Better(t, nb, v) == IF t.size >= nb /\ (v = NoNode \/ t.size < v.size) THEN t ELSE v
RECURSIVE Smallest(_, _, _)
Smallest(t, nb, v) == IF t = NoNode THEN v ELSE Smallest(leftmost_child(t), nb, Better(t, nb, v))

TakeTree(m, v, nb) == RestToDv(unlink_large_chunk(m, Head(v.chain)), Head(v.chain), nb, v.size - nb)
tmalloc_small(m, nb) == TakeTree(m, Smallest(m.tree[Min(treemap(m))], nb, NoNode), nb)

(* The walk for a large request: the best chunk so far and the subtree to *)
(* look at next, the deepest one to the right that was not taken.         *)
Deepest(t, bit, rst) == IF bit = 0 /\ t.kid[2] # NoNode THEN t.kid[2] ELSE rst
RECURSIVE TrieWalk(_, _, _, _, _)
TrieWalk(t, nb, b, v, rst) ==
  IF t.size = nb THEN [v |-> t, t |-> t]
  ELSE IF t.kid[Bit(nb, b) + 1] = NoNode THEN [v |-> Better(t, nb, v), t |-> Deepest(t, Bit(nb, b), rst)]
  ELSE TrieWalk(t.kid[Bit(nb, b) + 1], nb, b - 1, Better(t, nb, v), Deepest(t, Bit(nb, b), rst))
NextBin(m, i) ==
  IF \E j \in treemap(m) : j > i THEN m.tree[Min({j \in treemap(m) : j > i})] ELSE NoNode
Finish(m, w, nb, i) ==
  Smallest(IF w.t = NoNode /\ w.v = NoNode THEN NextBin(m, i) ELSE w.t, nb, w.v)
Fit(m, nb, i) ==
  Finish(m, IF m.tree[i] = NoNode THEN [v |-> NoNode, t |-> NoNode]
            ELSE TrieWalk(m.tree[i], nb, bit_for_tree_index(i), NoNode, NoNode), nb, i)
BetterThanDv(m, v, nb) == v # NoNode /\ (m.dvsize < nb \/ v.size < m.dvsize)
tmalloc_large(m, v, nb) ==
  IF BetterThanDv(m, v, nb)
  THEN RestToBin(unlink_large_chunk(m, Head(v.chain)), Head(v.chain), nb, v.size - nb)
  ELSE FromDv(m, nb)

smallmap(m, nb) == {s \in SmallSizes : s >= nb /\ m.small[s] # <<>>}
SmallMalloc(m, nb, fit) ==
  IF fit \cap {nb, nb + SIZE_T_SIZE} # {}
  THEN Given(set_inuse_and_pinuse(unlink_first_small_chunk(m, Min(fit)), Head(m.small[Min(fit)]), Min(fit)),
             Head(m.small[Min(fit)]))
  ELSE IF nb > m.dvsize /\ fit # {}
  THEN RestToDv(unlink_first_small_chunk(m, Min(fit)), Head(m.small[Min(fit)]), nb, Min(fit) - nb)
  ELSE IF nb > m.dvsize /\ treemap(m) # {} THEN tmalloc_small(m, nb)
  ELSE FromDv(m, nb)
LargeMalloc(m, nb) ==
  IF treemap(m) # {} THEN tmalloc_large(m, Fit(m, nb, compute_tree_index(nb)), nb)
  ELSE FromDv(m, nb)
dlmalloc(m, bytes) ==
  IF bytes <= MAX_SMALL_REQUEST THEN SmallMalloc(m, request2size(bytes), smallmap(m, request2size(bytes)))
  ELSE IF bytes >= MAX_REQUEST THEN FromDv(m, MAX_SIZE_T)
  ELSE LargeMalloc(m, pad_request(bytes))
dlcalloc(m, n, size) ==
  dlmalloc(m, IF n # 0 /\ size > MAX_SIZE_T \div n THEN MAX_SIZE_T ELSE n * size)

----------------------------------------------------------------------------
(* realloc, memalign and the operations on several chunks. *)

(* The end of an allocated chunk that is not needed is a chunk to dispose of. *)
CutEnd(m, p, nb, rest) == dispose_chunk(set_inuse(set_inuse(m, p, nb), p + nb, rest), p + nb, rest)
Fitted(m, p, nb, rest) == IF rest >= MIN_CHUNK_SIZE THEN CutEnd(m, p, nb, rest) ELSE m

Denied(m) == [m |-> m, done |-> FALSE]
Done(m) == [m |-> m, done |-> TRUE]
GrowIntoTop(m, p, nb, both) ==
  IF both <= nb THEN Denied(m)
  ELSE Done([SetPin(SetHead(set_inuse(m, p, nb), p + nb, both - nb, FALSE), {p + nb})
               EXCEPT !.top = p + nb, !.topsize = both - nb])
GrowIntoDv(m, p, nb, both) ==
  IF both < nb THEN Denied(m)
  ELSE IF both - nb < MIN_CHUNK_SIZE THEN Done(set_inuse([m EXCEPT !.dv = 0, !.dvsize = 0], p, both))
  ELSE Done(set_free_with_pinuse(set_inuse([m EXCEPT !.dv = p + nb, !.dvsize = both - nb], p, nb),
                                 p + nb, both - nb, p + both))
GrowIntoFree(m, p, nb, next, both) ==
  IF both < nb THEN Denied(m)
  ELSE IF both - nb < MIN_CHUNK_SIZE THEN Done(set_inuse(unlink_chunk(m, next, chunksize(m, next)), p, both))
  ELSE Done(CutEnd(unlink_chunk(m, next, chunksize(m, next)), p, nb, both - nb))
ReallocChunk(m, p, nb, old) ==
  IF old >= nb THEN Done(Fitted(m, p, nb, old - nb))
  ELSE IF p + old = m.top THEN GrowIntoTop(m, p, nb, old + m.topsize)
  ELSE IF p + old = m.dv THEN GrowIntoDv(m, p, nb, old + m.dvsize)
  ELSE IF ~cinuse(m, p + old) THEN GrowIntoFree(m, p, nb, p + old, old + chunksize(m, p + old))
  ELSE Denied(m)
try_realloc_chunk(m, p, nb) == ReallocChunk(m, p, nb, chunksize(m, p))

(* In place, or in a new chunk when there is one: then the old one goes. *)
Moved(r, p) == IF r.p = 0 THEN r ELSE Given(dlfree(r.m, p), r.p)
Resized(t, p, bytes) == IF t.done THEN Given(t.m, p) ELSE Moved(dlmalloc(t.m, bytes), p)
dlrealloc(m, p, bytes) ==
  IF bytes >= MAX_REQUEST THEN None(m) ELSE Resized(try_realloc_chunk(m, p, request2size(bytes)), p, bytes)
InPlace(t, p) == IF t.done THEN Given(t.m, p) ELSE None(t.m)
dlrealloc_in_place(m, p, bytes) ==
  IF bytes >= MAX_REQUEST THEN None(m) ELSE InPlace(try_realloc_chunk(m, p, request2size(bytes)), p)

(* The aligned place leaves a whole chunk below it. *)
Mem(p) == p + 2 * SIZE_T_SIZE
AlignedAt(p, a) == Up(Mem(p), a) - 2 * SIZE_T_SIZE
AlignedPlace(p, a) == IF AlignedAt(p, a) - p >= MIN_CHUNK_SIZE THEN AlignedAt(p, a) ELSE AlignedAt(p, a) + a
CutFront(m, p, pos, size) ==
  dispose_chunk(set_inuse(set_inuse(m, pos, size - (pos - p)), p, pos - p), p, pos - p)
Trimmed(m, p, nb) ==
  Given(IF chunksize(m, p) > nb + MIN_CHUNK_SIZE THEN CutEnd(m, p, nb, chunksize(m, p) - nb) ELSE m, p)
Aligned(r, a, nb) ==
  IF r.p = 0 THEN r
  ELSE IF Mem(r.p) % a = 0 THEN Trimmed(r.m, r.p, nb)
  ELSE Trimmed(CutFront(r.m, r.p, AlignedPlace(r.p, a), chunksize(r.m, r.p)), AlignedPlace(r.p, a), nb)
RECURSIVE PowerFrom(_, _)
PowerFrom(a, alignment) == IF a >= alignment THEN a ELSE PowerFrom(2 * a, alignment)
AlignedMalloc(m, a, bytes) ==
  IF bytes >= MAX_REQUEST - a THEN None(m)
  ELSE Aligned(dlmalloc(m, request2size(bytes) + a + MIN_CHUNK_SIZE - CHUNK_OVERHEAD), a, request2size(bytes))
internal_memalign(m, alignment, bytes) == AlignedMalloc(m, PowerFrom(MIN_CHUNK_SIZE, alignment), bytes)
dlmemalign(m, alignment, bytes) ==
  IF alignment <= MALLOC_ALIGNMENT THEN dlmalloc(m, bytes) ELSE internal_memalign(m, alignment, bytes)

(* EINVAL is told from ENOMEM. *)
EINVAL == -22
dlposix_memalign(m, alignment, bytes) ==
  IF alignment = MALLOC_ALIGNMENT THEN dlmalloc(m, bytes)
  ELSE IF alignment % SIZE_T_SIZE # 0 \/ alignment # PowerFrom(SIZE_T_SIZE, alignment) THEN Given(m, EINVAL)
  ELSE IF bytes > MAX_REQUEST - alignment THEN None(m)
  ELSE internal_memalign(m, alignment, bytes)
dlvalloc(m, bytes) == dlmemalign(init_mparams(m), PageSize, bytes)
dlpvalloc(m, bytes) == dlmemalign(init_mparams(m), PageSize, Up(bytes, PageSize))

(* One chunk is cut into the elements and, when the caller gave no array, *)
(* the array of their addresses.  The last element takes the slop.        *)
Total(sizes) == FoldSeq(LAMBDA x, y : request2size(x) + y, 0, sizes)
RECURSIVE Split(_, _, _, _)
Split(m, p, sizes, rest) ==
  IF Len(sizes) = 1 THEN set_size_and_pinuse_of_inuse_chunk(m, p, rest)
  ELSE Split(set_size_and_pinuse_of_inuse_chunk(m, p, request2size(Head(sizes))),
             p + request2size(Head(sizes)), Tail(sizes), rest - request2size(Head(sizes)))
Places(p, sizes) == [i \in DOMAIN sizes |-> p + Total(SubSeq(sizes, 1, i - 1))]
Several(m, ps) == [m |-> m, ps |-> ps]
SplitOut(r, sizes, contents, array) ==
  IF r.p = 0 THEN Several(r.m, <<>>)
  ELSE IF array
  THEN Several(Split(set_size_and_pinuse_of_inuse_chunk(r.m, r.p + contents, chunksize(r.m, r.p) - contents),
                     r.p, sizes, contents),
               Places(r.p, sizes) \o <<r.p + contents>>)
  ELSE Several(Split(r.m, r.p, sizes, chunksize(r.m, r.p)), Places(r.p, sizes))
ArraySize(sizes, array) == IF array THEN request2size(Len(sizes) * SIZE_T_SIZE) ELSE 0
EmptyArray(r) == Several(r.m, IF r.p = 0 THEN <<>> ELSE <<r.p>>)
ialloc(m, sizes, array) ==
  IF sizes = <<>> /\ ~array THEN Several(init_mparams(m), <<>>)
  ELSE IF sizes = <<>> THEN EmptyArray(dlmalloc(init_mparams(m), 0))
  ELSE SplitOut(dlmalloc(init_mparams(m), Total(sizes) + ArraySize(sizes, array) - CHUNK_OVERHEAD),
                sizes, Total(sizes), array)

(* Neighbours in the array are freed as one chunk. *)
RECURSIVE BulkFree(_, _)
BulkFree(m, ps) ==
  IF ps = <<>> THEN m
  ELSE IF Len(ps) > 1 /\ ps[2] = ps[1] + chunksize(m, ps[1])
  THEN BulkFree(set_inuse(m, ps[1], chunksize(m, ps[1]) + chunksize(m, ps[2])), <<ps[1]>> \o SubSeq(ps, 3, Len(ps)))
  ELSE BulkFree(dispose_chunk(m, ps[1], chunksize(m, ps[1])), Tail(ps))
AutoTrim(m) == IF should_trim(m) THEN sys_trim(m, 0) ELSE m
internal_bulk_free(m, ps) == AutoTrim(BulkFree(m, ps))

(* The test for 0 has no effect: its result is overwritten. *)
dlmalloc_set_footprint_limit(m, bytes) ==
  [m EXCEPT !.limit = IF bytes = MAX_SIZE_T THEN 0 ELSE granularity_align(m, bytes)]
change_mparam(m, param, val) ==
  CASE param = "M_TRIM_THRESHOLD" -> [m EXCEPT !.threshold = val]
    [] param = "M_GRANULARITY" /\ val >= PageSize /\ val = PowerFrom(1, val) -> [m EXCEPT !.gran = val]
    [] OTHER -> m

----------------------------------------------------------------------------
(* The checks the program makes of itself when it is built with DEBUG, and *)
(* the totals of mallinfo.                                                 *)

Walkable(m, q, sg) == Holds(sg, q) /\ q # m.top /\ m.head[q].size # SIZE_T_SIZE
RECURSIVE Chunks(_, _, _)
Chunks(m, q, sg) ==
  IF q \notin DOMAIN m.head THEN <<q>>
  ELSE IF ~Walkable(m, q, sg) THEN <<>>
  ELSE <<q>> \o Chunks(m, q + chunksize(m, q), sg)
AllChunks(m) == FlattenSeq([i \in DOMAIN m.segs |-> Chunks(m, align_as_chunk(m.segs[i].base), m.segs[i])])

RECURSIVE InTries(_)
InTries(t) == IF t = NoNode THEN 0 ELSE Len(t.chain) + InTries(t.kid[1]) + InTries(t.kid[2])
RECURSIVE NodeOf(_, _, _)
NodeOf(t, s, b) == IF t = NoNode \/ t.size = s THEN t ELSE NodeOf(t.kid[Bit(s, b) + 1], s, b - 1)
InNode(t, x) == t # NoNode /\ x \in ToSet(t.chain)
InTrie(m, x, s, i) == InNode(NodeOf(m.tree[i], s, bit_for_tree_index(i)), x)
bin_find(m, x) ==
  IF is_small(chunksize(m, x)) THEN x \in ToSet(m.small[chunksize(m, x)])
  ELSE InTrie(m, x, chunksize(m, x), compute_tree_index(chunksize(m, x)))

SizeSum(m, ps) == FoldSeq(LAMBDA p, n : chunksize(m, p) + n, 0, ps)
FreeOf(m, ps) == SelectSeq(ps, LAMBDA p : ~cinuse(m, p))
MallInfo(m, ps, mfree) ==
  [arena |-> SizeSum(m, ps) + m.topsize + TOP_FOOT_SIZE, ordblks |-> Len(FreeOf(m, ps)) + 1,
   uordblks |-> m.footprint - mfree, fordblks |-> mfree, keepcost |-> m.topsize]
internal_mallinfo(m) ==
  MallInfo(m, AllChunks(m), SizeSum(m, FreeOf(m, AllChunks(m))) + m.topsize + TOP_FOOT_SIZE)

do_check_top_chunk(m) ==
  /\ Mem(m.top) % MALLOC_ALIGNMENT = 0
  /\ \E i \in DOMAIN m.segs : Holds(m.segs[i], m.top)
  /\ m.head[m.top] = [size |-> m.topsize, c |-> FALSE]
  /\ m.topsize > 0 /\ m.topsize = TopEnd(m) - m.top - TOP_FOOT_SIZE
  /\ pinuse(m, m.top) /\ ~pinuse(m, m.top + m.topsize)
do_check_inuse_chunk(m, p) ==
  /\ Mem(p) % MALLOC_ALIGNMENT = 0
  /\ pinuse(m, p + chunksize(m, p))
  /\ pinuse(m, p) \/ (p - m.foot[p] \in DOMAIN m.head /\ chunksize(m, p - m.foot[p]) = m.foot[p])
do_check_free_chunk(m, p, next) ==
  /\ Mem(p) % MALLOC_ALIGNMENT = 0
  /\ pinuse(m, p) /\ next \in DOMAIN m.head /\ ~pinuse(m, next)
  /\ next \in DOMAIN m.foot /\ m.foot[next] = chunksize(m, p)
  /\ p # m.dv => next = m.top \/ cinuse(m, next)

OnChain(m, t, u) ==
  u \in DOMAIN m.head /\ chunksize(m, u) = t.size /\ ~cinuse(m, u) /\ ~pinuse(m, u + t.size)
RECURSIVE do_check_tree(_, _, _)
do_check_tree(m, t, i) ==
  t = NoNode \/
  /\ t.size >= minsize_for_tree_index(i) /\ t.size < minsize_for_tree_index(i + 1)
  /\ t.chain # <<>> /\ IsInjective(t.chain) /\ \A k \in DOMAIN t.chain : OnChain(m, t, t.chain[k])
  /\ t.kid[1] # NoNode /\ t.kid[2] # NoNode => t.kid[1].size < t.kid[2].size
  /\ do_check_tree(m, t.kid[1], i) /\ do_check_tree(m, t.kid[2], i)
do_check_treebin(m, i) == do_check_tree(m, m.tree[i], i)
do_check_smallbin(m, s) ==
  /\ IsInjective(m.small[s])
  /\ \A k \in DOMAIN m.small[s] : m.small[s][k] \in DOMAIN m.head /\ chunksize(m, m.small[s][k]) = s

CheckChunk(m, p) ==
  IF cinuse(m, p) THEN ~bin_find(m, p) /\ do_check_inuse_chunk(m, p)
  ELSE (p = m.dv) # bin_find(m, p) /\ do_check_free_chunk(m, p, p + chunksize(m, p))
traverse_and_check(m, ps) ==
  /\ ToSet(ps) \subseteq DOMAIN m.head
  /\ \A i \in DOMAIN ps : CheckChunk(m, ps[i])
  /\ \A i \in 1 .. Len(ps) - 1 :
       ps[i + 1] = ps[i] + chunksize(m, ps[i]) => cinuse(m, ps[i]) \/ cinuse(m, ps[i + 1])
  /\ SizeSum(m, ps) + m.topsize + TOP_FOOT_SIZE <= m.footprint
do_check_malloc_state(m) ==
  /\ \A s \in SmallSizes : do_check_smallbin(m, s)
  /\ \A i \in TreeIndices : do_check_treebin(m, i)
  /\ m.dvsize # 0 => /\ m.dv \in DOMAIN m.head /\ m.dvsize = chunksize(m, m.dv)
                     /\ m.dvsize >= MIN_CHUNK_SIZE /\ ~bin_find(m, m.dv)
  /\ m.top # 0 => do_check_top_chunk(m) /\ ~bin_find(m, m.top) /\ traverse_and_check(m, AllChunks(m))
  /\ m.footprint <= m.max_footprint

----------------------------------------------------------------------------
(* The calls.  taken is the bag of what the callers hold, foreign what the *)
(* other users of the heap took from it.                                  *)

VARIABLES gm, taken, foreign, ops, rare
emallocVars == <<gm, taken, foreign, ops, rare>>

Zeroed ==
  [kheap |-> ekheap_init, head |-> <<>>, pin |-> {}, foot |-> <<>>, segs |-> <<>>,
   top |-> 0, topsize |-> 0, dv |-> 0, dvsize |-> 0,
   small |-> [s \in SmallSizes |-> <<>>], tree |-> [i \in TreeIndices |-> NoNode],
   footprint |-> 0, max_footprint |-> 0, limit |-> 0, trim_check |-> 0, cont |-> TRUE,
   gran |-> 0, threshold |-> 0]
EarlyMallocInit == gm = Zeroed /\ taken = EmptyBag /\ foreign = {} /\ ops = 0 /\ rare = 0

Taken == BagToSet(taken)
One(p, bytes, align) == SetToBag({[p |-> p, bytes |-> bytes, align |-> align]})
Call == ops < MaxOps /\ ops' = ops + 1 /\ UNCHANGED <<foreign, rare>>
Rare == rare < MaxRare /\ rare' = rare + 1 /\ UNCHANGED ops
Room(n) == BagCardinality(taken) + n <= MaxLive

(* The caller holds what it got; a call that fails changes nothing it holds. *)
Gets(r, bytes, align) ==
  /\ gm' = r.m
  /\ taken' = IF r.p \in {0, EINVAL} THEN taken ELSE taken (+) One(r.p, bytes, align)
GetsAll(r, sizes) ==
  /\ gm' = r.m
  /\ taken' = FoldSeq(LAMBDA a, b : a (+) b, taken,
               [i \in DOMAIN r.ps |-> One(r.ps[i], IF i \in DOMAIN sizes THEN sizes[i] ELSE Len(sizes) * SIZE_T_SIZE,
                                          MALLOC_ALIGNMENT)])
(* A resized allocation keeps the alignment of every allocation only. *)
Swaps(r, a, bytes) ==
  /\ gm' = r.m
  /\ taken' = IF r.p = 0 THEN taken
             ELSE (taken (-) SetToBag({a})) (+) One(r.p, bytes, IF r.p = a.p THEN a.align ELSE MALLOC_ALIGNMENT)

emalloc == Call /\ Room(1) /\ \E b \in Sizes : Gets(dlmalloc(gm, b), b, MALLOC_ALIGNMENT)
efree == Call /\ \E a \in Taken : gm' = dlfree(gm, a.p) /\ taken' = taken (-) SetToBag({a})
erealloc == Call /\ \E a \in Taken, b \in Grown : Swaps(dlrealloc(gm, a.p, b), a, b)
eindependent_comalloc ==
  Call /\ \E sizes \in Batches : Room(Len(sizes)) /\ GetsAll(ialloc(gm, sizes, FALSE), sizes)

RareCall == Rare /\ UNCHANGED foreign
ecalloc == RareCall /\ Room(1) /\ \E b \in Sizes : Gets(dlcalloc(gm, 2, b), 2 * b, MALLOC_ALIGNMENT)
erealloc_in_place == RareCall /\ \E a \in Taken, b \in Grown : Swaps(dlrealloc_in_place(gm, a.p, b), a, b)
ememalign ==
  RareCall /\ Room(1) /\ \E al \in Alignments, b \in Sizes : Gets(dlmemalign(gm, al, b), b, PowerFrom(1, al))
eposix_memalign ==
  RareCall /\ Room(1) /\ \E al \in Alignments, b \in Sizes : Gets(dlposix_memalign(gm, al, b), b, al)
evalloc == RareCall /\ Room(1) /\ \E b \in Sizes : Gets(dlvalloc(gm, b), b, PageSize)
epvalloc == RareCall /\ Room(1) /\ \E b \in Sizes : Gets(dlpvalloc(gm, b), Up(b, PageSize), PageSize)
eindependent_calloc ==
  RareCall /\ Room(3) /\ \E b \in Sizes : GetsAll(ialloc(gm, <<b, b>>, TRUE), <<b, b>>)
ebulk_free ==
  /\ RareCall
  /\ \E a, b \in Taken : a # b /\ gm' = internal_bulk_free(gm, <<a.p, b.p>>) /\ taken' = taken (-) SetToBag({a, b})
emalloc_trim == RareCall /\ gm' = sys_trim(init_mparams(gm), 0) /\ UNCHANGED taken
emalloc_set_footprint_limit ==
  RareCall /\ (\E b \in Limits : gm' = dlmalloc_set_footprint_limit(gm, b)) /\ UNCHANGED taken
emallopt ==
  /\ RareCall /\ UNCHANGED taken
  /\ \/ \E v \in Thresholds : gm' = change_mparam(init_mparams(gm), "M_TRIM_THRESHOLD", v)
     \/ \E v \in Granularities : gm' = change_mparam(init_mparams(gm), "M_GRANULARITY", v)
(* Code outside the allocator takes memory from the heap. *)
other_sbrk ==
  /\ Rare /\ UNCHANGED taken
  /\ \E n \in Foreign :
       /\ ekheap_sbrk(gm, n).br # CMFAIL
       /\ gm' = ekheap_sbrk(gm, n).m
       /\ foreign' = foreign \cup {[base |-> gm.kheap.cur, size |-> n]}

(* A behaviour at its bounds starts over, as the next boot does. *)
reboot ==
  /\ ops = MaxOps /\ rare = MaxRare
  /\ gm' = Zeroed /\ taken' = EmptyBag /\ foreign' = {} /\ ops' = 0 /\ rare' = 0

EarlyMallocStep == \/ reboot \/ emalloc \/ ecalloc \/ efree \/ erealloc \/ erealloc_in_place \/ ememalign \/ eposix_memalign
        \/ evalloc \/ epvalloc \/ eindependent_calloc \/ eindependent_comalloc \/ ebulk_free
        \/ emalloc_trim \/ emalloc_set_footprint_limit \/ emallopt \/ other_sbrk

----------------------------------------------------------------------------
Apart(p, n, q, k) == p + n <= q \/ q + k <= p
Binned == MapThenSumSet(LAMBDA s : Len(gm.small[s]), SmallSizes) + MapThenSumSet(LAMBDA i : InTries(gm.tree[i]), TreeIndices)
InfoRight(info) ==
  /\ info.ordblks = 1 + Binned + (IF gm.dvsize = 0 THEN 0 ELSE 1)
  /\ info.arena <= gm.footprint /\ info.fordblks <= info.arena
SegmentRecords == {gm.segs[i].rec : i \in DOMAIN gm.segs} \ {0}

(* Whatever the calls and the order they come in, and whoever else takes   *)
(* memory from the early heap: the boundary tags, the lists, the tries, dv *)
(* and top describe the same heap (what the DEBUG checks of early-malloc.c *)
(* assert); what a caller holds is one chunk nobody else holds, in use, as *)
(* large and as aligned as it asked for, inside a segment and not in what  *)
(* another user took; a chunk in use that no caller holds is a segment     *)
(* record, so no memory is lost; and the footprint is what the segments    *)
(* cover, all of it below the break; mallinfo counts every free chunk.     *)
HeapSound ==
  /\ do_check_malloc_state(gm)
  /\ \A a \in Taken :
       /\ CopiesIn(a, taken) = 1 /\ a.p \in ToSet(AllChunks(gm))
       /\ cinuse(gm, a.p) /\ chunksize(gm, a.p) - CHUNK_OVERHEAD >= a.bytes /\ Mem(a.p) % a.align = 0
       /\ \A b \in Taken \ {a} : b.p # a.p
  /\ {p \in ToSet(AllChunks(gm)) : cinuse(gm, p)} = {a.p : a \in Taken} \cup SegmentRecords
  /\ \A i \in DOMAIN gm.segs :
       /\ gm.segs[i].base + gm.segs[i].size <= gm.kheap.cur
       /\ \A f \in foreign : Apart(gm.segs[i].base, gm.segs[i].size, f.base, f.size)
  /\ gm.top # 0 => InfoRight(internal_mallinfo(gm))
  /\ gm.footprint = FoldSeq(LAMBDA sg, n : sg.size + n, 0, gm.segs)
=============================================================================
