-------------------------------- MODULE Pfdb --------------------------------
(***************************************************************************)
(* The page frame database and its buddy page pool (kern/page-pfdb.c) with *)
(* the page allocation interface on top of it (kern/page-alloc.c), for one *)
(* registered memory area.                                                 *)
(*                                                                         *)
(* A page is its index in pool->array.  A step is one critical section of  *)
(* pool->lock, one change of a page's PAGE_STATE_RESERVED bit, which is    *)
(* made outside that lock, or one atomic operation on a page's use count:  *)
(* the last pfdb_dec_page_use_count drops the count to 0 first and takes   *)
(* the pool lock to return the cluster afterwards.  Other CPUs run in      *)
(* between; reserving and unreserving hold g_pfdb.lock throughout, which   *)
(* keeps out pfdb_buddy_dequeue, the removal and each other, not the       *)
(* return of a cluster.                                                    *)
(*                                                                         *)
(* page_list[o] is a set: the code keeps a FIFO and hands out its head,    *)
(* the model hands out any member.  Duplicated or missing links still show *)
(* as a difference between free_nr[o] and the members of page_list[o].     *)
(***************************************************************************)
EXTENDS Integers, FiniteSets, FiniteSetsExt

-----------------------------------------------------------------------------
(* The index arithmetic of the buddy system (kern/page-pfdb.c): a cluster  *)
(* of order k is 2^k consecutive entries of pool->array.                   *)

\* idx ^ (1 << k): flips bit k of an index.
Buddy(i, k) == IF (i \div (2^k)) % 2 = 0 THEN i + 2^k ELSE i - 2^k

NotTruncated(i, k) == i   \* a faulty variant

\* idx & mask, where mask has the bits from k upwards.
Truncate(i, k) == i - (i % (2^k))

\* The pages of the cluster of order k that starts at i.
Cluster(i, k) == i .. (i + 2^k - 1)

\* The check !(cur_idx & ~mask): i may head a cluster of order k.
Aligned(i, k) == i % (2^k) = 0

(* The clusters headed by the pages in H, of the orders in ord, cover the  *)
(* pages 0..(n - 1) without overlap, each aligned to its size.             *)
Partition(H, ord, n) ==
    /\ \A i \in H : Aligned(i, ord[i]) /\ i + 2^ord[i] <= n
    /\ \A i, j \in H : i # j => i + 2^ord[i] <= j \/ j + 2^ord[j] <= i
    /\ \A x \in 0..(n - 1) : \E i \in H : i <= x /\ x < i + 2^ord[i]

-----------------------------------------------------------------------------
CONSTANTS
    NrPages,      \* pool->nr_pages
    MetaPages,    \* pages at the end that hold pool->array and the pfdb entry
    MaxOrder,     \* PAGE_POOL_MAX_ORDER
    Usages,       \* the PAGE_USAGE_* values
    MaxUse        \* bound on a page's use count

ASSUME PfdbAssumption ==
    /\ NrPages \in Nat \ {0}
    /\ MetaPages \in 0..NrPages
    /\ MaxOrder \in Nat \ {0}
    /\ MaxUse \in Nat \ {0}

Pages  == 0..(NrPages - 1)
Orders == 0..(MaxOrder - 1)

NoPage  == -1          \* headp = NULL
NoUsage == "none"      \* no PAGE_STATE_UCASE_* bit set

ASSUME UsageAssumption == NoUsage \notin Usages

VARIABLES
    order,            \* pf->order
    used,             \* pages with PAGE_STATE_USED
    reserved,         \* pages with PAGE_STATE_RESERVED
    marking,          \* unlinked by mark_page_frame_reserved, the bit not yet set
    clearing,         \* the bit is cleared, the page not yet in the pool
    torn,             \* a merge took such a page
    usage,            \* the PAGE_STATE_UCASE_* bit of a page
    headp,            \* pf->headp; PAGE_STATE_CLUSTERED iff not NULL
    usecnt,           \* pf->usecnt
    page_list,        \* pool->page_list[o]
    free_nr,          \* pool->free_nr[o]
    available_pages,  \* pool->available_pages
    usage_pages,      \* pool->kdata_pages, kstack_pages, ...
    added,            \* loop index of pfdb_add; NrPages when it has returned
    registered        \* the area is in g_pfdb.dbroot

frames == <<order, used, reserved, usage, headp, usecnt>>
window == <<marking, clearing, torn>>
pool   == <<page_list, free_nr, available_pages, usage_pages>>
vars   == <<frames, window, pool, added, registered>>

-----------------------------------------------------------------------------
\* PAGE_STATE_NOT_FREED
NotFreed(i) == i \in used \cup reserved

\* The page whose bit and whose place in the free lists do not agree yet.
Half == marking \cup clearing

\* Pages kept from the pool: reserved, on the way to it or on the way back.
Away == reserved \cup Half

-----------------------------------------------------------------------------
(* Bookkeeping of a page's usage and of the links inside a cluster.        *)

\* mark_page_usage, after the page got the order o.
mark_page_usage(i, o, u) ==
    /\ usage' = [usage EXCEPT ![i] = u]
    /\ usage_pages' = [usage_pages EXCEPT ![u] = @ + 2^o]

\* unmark_page_usage, of a page of order o.
unmark_page_usage(i, o) ==
    /\ usage' = [usage EXCEPT ![i] = NoUsage]
    /\ usage_pages' = [u \in Usages |->
           IF usage[i] = u THEN usage_pages[u] - 2^o ELSE usage_pages[u]]

\* setup_clustered_pages, of a page of order o.
setup_clustered_pages(i, o) ==
    headp' = [q \in Pages |->
        IF o = 0 THEN IF q = i THEN NoPage ELSE headp[q]
        ELSE IF q \in Cluster(i, o) THEN i ELSE headp[q]]

\* clear_clustered_pages, of a page of order o; a faulty variant.
ClearHeadOnly(i, o) == headp' = [headp EXCEPT ![i] = NoPage]

clear_clustered_pages(i, o) ==
    headp' = [q \in Pages |-> IF q \in Cluster(i, o) THEN NoPage ELSE headp[q]]

-----------------------------------------------------------------------------
(* Faulty variants of the merge test: a missing order test, a missing      *)
(* state test; and a merge loop that is never entered.                     *)
CanMergeAnyOrder(i, k) ==
    LET b == Buddy(Truncate(i, k), k)
    IN  k < MaxOrder - 1 /\ b < NrPages /\ ~ NotFreed(b)

CanMergeAnyState(i, k) ==
    LET b == Buddy(Truncate(i, k), k)
    IN  k < MaxOrder - 1 /\ b < NrPages /\ order[b] = k

(* One iteration of the merge loop of enqueue_page_to_buddy_pool: may the  *)
(* cluster of order k that contains i be joined with its buddy?  The tests *)
(* are made in the order of the code; they read only the buddy, which no   *)
(* earlier iteration has written.                                          *)
CanMerge(i, k) ==
    LET b == Buddy(Truncate(i, k), k) IN
    /\ k < MaxOrder - 1
    /\ b < NrPages
    /\ order[b] = k
    /\ ~ NotFreed(b)

NeverMerged(i) == order[i]

\* The order at which the merge loop leaves.
MergedOrder(i) == Min({k \in order[i]..(MaxOrder - 1) : ~ CanMerge(i, k)})

\* The buddies that the merge loop joins with the page i.
Joined(i) == {Buddy(Truncate(i, k), k) : k \in order[i]..(MergedOrder(i) - 1)}

(* enqueue_page_to_buddy_pool, entered with the pool lock held: drops the  *)
(* page's usage, then merges it upwards with free buddies and links the    *)
(* resulting cluster.  Pages the loop has passed over keep the order they  *)
(* were last given.  A page in Half passes the merge test though it is in  *)
(* no list: queue_del does nothing to it, and free_nr is counted down all  *)
(* the same.  reserved, usecnt and available_pages are its callers'.       *)
enqueue_page_to_buddy_pool(i) ==
    LET o == order[i]
        m == MergedOrder(i)
        c == Truncate(i, m)
    IN  /\ unmark_page_usage(i, o)
        /\ used' = used \ {i}
        /\ order' = [q \in Pages |->
               LET passed == {k \in o..m : Truncate(i, k) = q}
               IN  IF passed = {} THEN order[q] ELSE Max(passed)]
        /\ page_list' = [k \in Orders |->
               IF k = m THEN page_list[k] \cup {c}
               ELSE IF k \in o..(m - 1)
                    THEN page_list[k] \ {Buddy(Truncate(i, k), k)}
                    ELSE page_list[k]]
        /\ free_nr' = [k \in Orders |->
               IF k = m THEN free_nr[k] + 1
               ELSE IF k \in o..(m - 1) THEN free_nr[k] - 1
                    ELSE free_nr[k]]
        /\ clear_clustered_pages(c, m)
        /\ torn' = (Joined(i) \cap (Half \ {i}) # {})

\* A faulty variant of UpperHalves: one half too few.
HalvesTooFew(i, from, to) == [k \in (to + 1)..(from - 1) |-> Buddy(i, k)]

\* The halves that adjust_page_order cuts off, by their order.
UpperHalves(i, from, to) == [k \in to..(from - 1) |-> Buddy(i, k)]

(* adjust_page_order on the page i, just unlinked from page_list[from]:    *)
(* while its order is above to, halve it and link the upper half.          *)
adjust_page_order(i, from, to) ==
    LET half == UpperHalves(i, from, to)
    IN  /\ page_list' = [k \in Orders |->
               IF k = from THEN page_list[k] \ {i}
               ELSE IF k \in DOMAIN half THEN page_list[k] \cup {half[k]}
                    ELSE page_list[k]]
        /\ free_nr' = [k \in Orders |->
               IF k = from THEN free_nr[k] - 1
               ELSE IF k \in DOMAIN half THEN free_nr[k] + 1
                    ELSE free_nr[k]]
        /\ order' = [q \in Pages |->
               LET cut == {k \in DOMAIN half : half[k] = q}
               IN  IF q = i THEN to
                   ELSE IF cut = {} THEN order[q] ELSE Max(cut)]

-----------------------------------------------------------------------------
(* pfdb_add: every frame starts reserved and of order 0, the entry is put  *)
(* into the database, and then the pages below the frame array are given   *)
(* to the pool one by one.  Both builds hand pfdb_add zeroed memory.       *)
Init ==
    /\ order = [i \in Pages |-> 0]
    /\ used = {}
    /\ reserved = Pages
    /\ marking = {}
    /\ clearing = {}
    /\ torn = FALSE
    /\ usage = [i \in Pages |-> NoUsage]
    /\ headp = [i \in Pages |-> NoPage]
    /\ usecnt = [i \in Pages |-> 0]
    /\ page_list = [k \in Orders |-> {}]
    /\ free_nr = [k \in Orders |-> 0]
    /\ available_pages = 0
    /\ usage_pages = [u \in Usages |-> 0]
    /\ added = 0
    /\ registered = TRUE

(* The loop of pfdb_add that fills the pool: one iteration skips a page of *)
(* the frame array, or clears the page's bit and then enqueues the page    *)
(* (enqueue_unreserved).  Both callers add an area before anything uses    *)
(* the pool (rv64-prepare.c:88, ulandpmem.c:205).                          *)
pfdb_add ==
    /\ added < NrPages
    /\ clearing = {}
    /\ IF added < NrPages - MetaPages
       THEN /\ reserved' = reserved \ {added}
            /\ clearing' = {added}
            /\ UNCHANGED added
       ELSE /\ added' = added + 1
            /\ UNCHANGED <<reserved, clearing>>
    /\ UNCHANGED <<order, used, usage, headp, usecnt, marking, torn, pool, registered>>

(* The critical section that ends an iteration of pfdb_add and             *)
(* unmark_page_frame_reserved: the page goes into the pool.                *)
enqueue_unreserved(i) ==
    /\ i \in clearing
    /\ enqueue_page_to_buddy_pool(i)
    /\ available_pages' = available_pages + 1
    /\ clearing' = {}
    /\ added' = IF added = i THEN added + 1 ELSE added
    /\ UNCHANGED <<reserved, usecnt, marking, registered>>

Ready == added = NrPages /\ registered

\* g_pfdb.lock is free: nobody is between the two steps of a reservation.
Unlocked == Half = {}

(* dequeue_page_from_memory_area(o, u): the first non-empty list from o    *)
(* upwards gives a cluster, which is cut down to o.                        *)
pfdb_buddy_dequeue(o, u) ==
    /\ Ready
    /\ Unlocked
    /\ \E from \in o..(MaxOrder - 1) :
         /\ page_list[from] # {}
         /\ \A k \in o..(from - 1) : page_list[k] = {}
         /\ \E i \in page_list[from] :
              /\ adjust_page_order(i, from, o)
              /\ setup_clustered_pages(i, o)
              /\ mark_page_usage(i, o, u)
              /\ used' = used \cup {i}
              /\ usecnt' = [usecnt EXCEPT ![i] = 1]
    /\ UNCHANGED <<reserved, window, available_pages, added, registered>>

(* pfdb_inc_page_use_count: refcnt_inc_if_valid adds 1 unless the count is *)
(* 0, in which case the caller is told so and nothing changes.             *)
pfdb_inc_page_use_count(i) ==
    /\ Ready
    /\ usecnt[i] \in 1..(MaxUse - 1)
    /\ usecnt' = [usecnt EXCEPT ![i] = @ + 1]
    /\ UNCHANGED <<order, used, reserved, usage, headp, window, pool, added, registered>>

(* The atomic half of pfdb_dec_page_use_count, called by a holder of a     *)
(* reference: refcnt_dec_and_test.                                         *)
pfdb_dec_page_use_count(i) ==
    /\ Ready
    /\ usecnt[i] > 0
    /\ usecnt' = [usecnt EXCEPT ![i] = @ - 1]
    /\ UNCHANGED <<order, used, reserved, usage, headp, window, pool, added, registered>>

\* Pages whose last reference is gone but which are not yet in the pool.
Freeing == {i \in used : usecnt[i] = 0}

\* The other half: the cluster goes back to the pool under the pool lock.
free_page(i) ==
    /\ i \in Freeing
    /\ enqueue_page_to_buddy_pool(i)
    /\ UNCHANGED <<reserved, usecnt, marking, clearing, available_pages, added, registered>>

(* mark_page_frame_reserved takes one page out of the pool, in a critical  *)
(* section of its own, and sets the page's bit after it (set_reserved).    *)
(* Its callers reserve ranges that start at the head of a free cluster     *)
(* (the area's first page), so that each page of the range heads one when  *)
(* its turn comes; the code cannot reserve a page in the middle of a free  *)
(* cluster.                                                                *)
mark_page_frame_reserved(i) ==
    /\ Ready
    /\ Unlocked
    /\ i \in page_list[order[i]]
    /\ adjust_page_order(i, order[i], 0)
    /\ setup_clustered_pages(i, 0)
    /\ available_pages' = available_pages - 1
    /\ marking' = {i}
    /\ UNCHANGED <<used, reserved, usage, usecnt, usage_pages, clearing, torn, added, registered>>

\* PAGE_MARK_RESERVED, after the pool lock is released.
set_reserved(i) ==
    /\ i \in marking
    /\ marking' = {}
    /\ reserved' = reserved \cup {i}
    /\ UNCHANGED <<order, used, usage, headp, usecnt, clearing, torn, pool, added, registered>>

(* unmark_page_frame_reserved gives a reserved page back (-ENOLCK for any  *)
(* other page): PAGE_UNMARK_RESERVED before the pool lock is taken, then   *)
(* enqueue_unreserved.  The pages of the frame array are never given back. *)
unmark_page_frame_reserved(i) ==
    /\ Ready
    /\ Unlocked
    /\ i \in reserved
    /\ i < NrPages - MetaPages
    /\ reserved' = reserved \ {i}
    /\ clearing' = {i}
    /\ UNCHANGED <<order, used, usage, headp, usecnt, marking, torn, pool, added, registered>>

\* The count of remove_pfdb_ent_common over the free lists.
RemovableArea == available_pages = MapThenSumSet(LAMBDA k : free_nr[k] * 2^k, Orders)

\* remove_pfdb_ent_common: refuses with -EBUSY while a page is missing.
pfdb_remove ==
    /\ Ready
    /\ Unlocked
    /\ RemovableArea
    /\ registered' = FALSE
    /\ UNCHANGED <<frames, window, pool, added>>

(* A merge that takes a page of Half is the last step: the page is then    *)
(* part of a free cluster and reserved, or part of one and enqueued again. *)
Next ==
    /\ ~ torn
    /\ \/ pfdb_add
       \/ \E o \in Orders, u \in Usages : pfdb_buddy_dequeue(o, u)
       \/ \E i \in Pages :
            \/ pfdb_inc_page_use_count(i)
            \/ pfdb_dec_page_use_count(i)
            \/ free_page(i)
            \/ mark_page_frame_reserved(i)
            \/ set_reserved(i)
            \/ unmark_page_frame_reserved(i)
            \/ enqueue_unreserved(i)
       \/ pfdb_remove

Spec == Init /\ [][Next]_vars

-----------------------------------------------------------------------------
(* Properties.                                                             *)

\* Every field has its type; the use count stays within its bound.
TypeOK ==
    /\ order \in [Pages -> Orders]
    /\ used \in SUBSET Pages
    /\ reserved \in SUBSET Pages
    /\ marking \in SUBSET Pages
    /\ clearing \in SUBSET Pages
    /\ torn \in BOOLEAN
    /\ usage \in [Pages -> Usages \cup {NoUsage}]
    /\ headp \in [Pages -> Pages \cup {NoPage}]
    /\ usecnt \in [Pages -> 0..MaxUse]
    /\ page_list \in [Orders -> SUBSET Pages]
    /\ free_nr \in [Orders -> Int]
    /\ available_pages \in Int
    /\ usage_pages \in [Usages -> Int]
    /\ added \in 0..NrPages
    /\ registered \in BOOLEAN

\* The first pages of free clusters, of clusters in use, and pages kept away.
FreeHeads == UNION {page_list[k] : k \in Orders}
Heads == FreeHeads \cup used \cup Away

(* A page is linked in a free list only as the head of a cluster of that   *)
(* list's order that is neither in use nor kept away.                      *)
Listed ==
    /\ \A k \in Orders : \A i \in page_list[k] : order[i] = k /\ i \notin used \cup Away
    /\ used \cap Away = {}
    /\ \A i \in Away : order[i] = 0

Separate ==
    \A i, j \in Heads :
        i # j => Cluster(i, order[i]) \cap Cluster(j, order[j]) = {}

Complete ==
    /\ UNION {Cluster(i, order[i]) : i \in Heads} = Pages
    /\ \A k \in Orders : free_nr[k] = Cardinality(page_list[k])
    /\ available_pages = NrPages - Cardinality(Away)

Merged ==
    \A k \in 0..(MaxOrder - 2) : \A i \in page_list[k] :
        Buddy(i, k) \notin page_list[k]

\* The pages of the clusters that are in use with the usage u.
PagesUsedAs(u) == UNION {Cluster(i, order[i]) : i \in {j \in used : usage[j] = u}}

Accounted ==
    /\ \A u \in Usages : usage_pages[u] = Cardinality(PagesUsedAs(u))
    /\ \A q \in Pages :
         LET owner == {i \in used : order[i] > 0 /\ q \in Cluster(i, order[i])}
         IN  IF owner = {} THEN headp[q] = NoPage ELSE owner = {headp[q]}

(* What is said of a state is said until a merge takes a page of Half      *)
(* (torn).  The code does not exclude that merge: a cluster returned by    *)
(* pfdb_dec_page_use_count while its buddy, of order 0, is being reserved  *)
(* or unreserved.                                                          *)

(* What the merge test of enqueue_page_to_buddy_pool needs: it looks at    *)
(* the buddy's order and state bits only, and unlinks the buddy from the   *)
(* list of that order.                                                     *)
ListedOK == torn \/ Listed

(* Every cluster is aligned to its size and inside the area.               *)
ClustersAligned ==
    torn \/ \A i \in Heads : i % (2^order[i]) = 0 /\ i + 2^order[i] <= NrPages

(* No page belongs to two clusters: what pfdb_buddy_dequeue hands out is   *)
(* never part of a free, reserved or handed out cluster, nor a page on its *)
(* way between the pool and the reserved ones.  Only the head of a cluster *)
(* is marked used, so merging relies on it as well.                        *)
ClustersDisjoint == torn \/ Separate

(* No page is lost: each belongs to a free, used or reserved cluster or is *)
(* between the two steps of a reservation, the counters pfdb_remove and    *)
(* kcom_obtain_pfdb_stat read agree with it, and the free lists hold the   *)
(* clusters of their order.                                                *)
NoPageLost == torn \/ (Complete /\ Listed)

(* Freed memory is fully merged: two free buddies of one order never stay  *)
(* apart (enqueue_page_to_buddy_pool, the merge loop).                     *)
Coalesced == torn \/ Merged

(* What is kept for the clusters in use fits them: the statistics by usage *)
(* count their pages, though mark_page_usage and unmark_page_usage see the *)
(* order of the head only, and headp leads from every page of a cluster to *)
(* its head and from no other page anywhere (setup_clustered_pages,        *)
(* clear_clustered_pages).                                                 *)
UseAccounted == torn \/ Accounted

(* A cluster keeps its size and usage as long as it is in use, whatever is *)
(* allocated, split, freed and merged around it; a merge that takes a page *)
(* of Half included.                                                       *)
InUseStable ==
    [][\A i \in used \cap used' :
          order'[i] = order[i] /\ usage'[i] = usage[i]]_vars

(* What the allocator promises, see PageAllocator, up to a merge that      *)
(* takes a page of Half and including it: a page counts as reserved from   *)
(* the critical section that unlinks it to the one that links it again.    *)
Promise == INSTANCE PageAllocator WITH
    MaxOrder <- MaxOrder,
    Pages <- Pages,
    clusters <- {Cluster(i, order[i]) : i \in used},
    resv <- Away

PromiseSpec == Promise!Spec
=============================================================================
