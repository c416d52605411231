----------------------------- MODULE PageCache ------------------------------
(***************************************************************************)
(* The page cache (kern/dev-pcache.c): the pool of cached pages of a block *)
(* device, their lock bit PCACHE_STATE_BUSY, the LRU queue and the         *)
(* shrinker.                                                               *)
(*                                                                         *)
(* A step is one critical section of pcache_pool.lock, or the work on a    *)
(* page outside it, which may wait for input or output.  A member of Pages *)
(* is a page_cache structure together with its page frame; it is used      *)
(* again after it is freed.  The contents of a page and of a block are     *)
(* abstracted to whether they are the ones written last.                   *)
(*                                                                         *)
(* stopped becomes "kassert" when a kassert fails, and "wild" when the     *)
(* code follows a pointer to a freed structure or past the end of the LRU  *)
(* queue: from there on the program may do anything, and the model takes   *)
(* no step.                                                                *)
(***************************************************************************)
EXTENDS Integers, FiniteSets, SequencesExt

CONSTANTS
    Users,      \* threads that get, use and put pages
    Shrinkers,  \* threads that call pagecache_shrink_pages
    Pages,      \* the page_cache structures there is memory for
    Keys,       \* <<bdevid, offset>> rounded to pages
    MaxFree     \* the argument max of pagecache_shrink_pages

Nil == "Nil"     \* no page, no key, no thread; also the head of the LRU queue

ASSUME PageCacheAssumption ==
    /\ MaxFree \in Nat \ {0}
    /\ Users \cap Shrinkers = {}
    /\ Nil \notin Users \cup Shrinkers \cup Pages \cup Keys

Threads == Users \cup Shrinkers

VARIABLES
    lock,      \* the holder of pcache_pool.lock between steps, or Nil
    tree,      \* pcache_pool.head: the registered pages
    lru,       \* pcache_pool.lru
    key,       \* pc->bdevid and pc->offset
    state,     \* pc->state, as the set of its bits
    refs,      \* pc->refs
    waiters,   \* pc->waiters
    latest,    \* the pages whose contents are the ones written last
    synced,    \* the keys whose block has the contents written last
    loc, page, want,   \* where a thread is, its page, and the key it asked for
    next,      \* the iterator of the shrinker's loop
    free_nr,   \* pages the shrinker has freed
    stopped    \* no, kassert or wild

pool   == <<lock, tree, lru>>
pages  == <<key, state, refs, waiters>>
data   == <<latest, synced>>
local  == <<loc, page, want, next, free_nr>>
vars   == <<pool, pages, data, local, stopped>>

Busy(p)  == "BUSY" \in state[p]
NotEmpty(p) == TRUE      \* a faulty variant
Valid(p) == Cardinality(state[p] \cap {"CLEAN", "DIRTY"}) = 1
goto(t, l) == loc' = [loc EXCEPT ![t] = l]
Stop(how)  == stopped' = how /\ UNCHANGED <<pool, pages, data, local>>

Init ==
    /\ lock = Nil /\ tree = {} /\ lru = <<>>
    /\ key = [p \in Pages |-> Nil]
    /\ state = [p \in Pages |-> {}]
    /\ refs = [p \in Pages |-> 0]
    /\ waiters = [p \in Pages |-> {}]
    /\ latest = {} /\ synced = Keys
    /\ loc = [t \in Threads |-> "idle"]
    /\ page = [t \in Threads |-> Nil]
    /\ want = [t \in Users |-> Nil]
    /\ next = [t \in Shrinkers |-> Nil]
    /\ free_nr = [t \in Shrinkers |-> 0]
    /\ stopped = "no"

-----------------------------------------------------------------------------
(* fsimg_strategy: copies to the block if the page is dirty, else from it. *)

fsimg_strategy(p) ==
    IF "DIRTY" \in state[p]
    THEN /\ synced' = IF p \in latest THEN synced \cup {key[p]} ELSE synced \ {key[p]}
         /\ UNCHANGED latest
    ELSE /\ latest' = IF key[p] \in synced THEN latest \cup {p} ELSE latest \ {p}
         /\ UNCHANGED synced

CleanFirst(p) ==         \* a faulty variant: the direction is lost
    /\ latest' = IF key[p] \in synced THEN latest \cup {p} ELSE latest \ {p}
    /\ state' = [state EXCEPT ![p] = (@ \ {"DIRTY"}) \cup {"CLEAN"}]
    /\ UNCHANGED synced

\* The body of pagecache_write; nobody else looks at the busy page meanwhile.
WriteBack(p) ==
    /\ fsimg_strategy(p)
    /\ state' = [state EXCEPT ![p] = (@ \ {"DIRTY"}) \cup {"CLEAN"}]

-----------------------------------------------------------------------------
(* lookup_pagecache.                                                       *)

Registered(k) == {p \in tree : key[p] = k}

LeftInLru(p) == lru      \* a faulty variant
TakenFromLru(p) == RemoveAt(lru, CHOOSE i \in 1..Len(lru) : lru[i] = p)

MustWait(p) == Busy(p)   \* the condition of wait_on_pagecache_nolock

(* A registered page is found, in the states st of the pages: wait until   *)
(* it is not busy, or lock it.  The loop ends only for a page that was in  *)
(* the LRU queue; one that was not is looked up again, and the thread      *)
(* waits for the page it has locked itself.                                *)
TakeOrWait(t, p, st) ==
    /\ page' = [page EXCEPT ![t] = p]
    /\ IF ~ MustWait(p) /\ Contains(lru, p)
       THEN /\ lru' = TakenFromLru(p)
            /\ goto(t, "fill")
            /\ UNCHANGED waiters
       ELSE /\ waiters' = [waiters EXCEPT ![p] = @ \cup {t}]
            /\ goto(t, "wait")
            /\ UNCHANGED lru
    /\ state' = [st EXCEPT ![p] = IF MustWait(p) THEN @ ELSE @ \cup {"BUSY"}]
    /\ UNCHANGED <<lock, tree, data, next, free_nr, stopped>>

\* pagecache_get and pagecache_read: the first search.
pagecache_get(t, k) ==
    /\ loc[t] = "idle" /\ lock = Nil
    /\ want' = [want EXCEPT ![t] = k]
    /\ \/ /\ \E p \in Registered(k) : TakeOrWait(t, p, state)
          /\ UNCHANGED <<key, refs>>
       \/ /\ Registered(k) = {}
          /\ goto(t, "alloc")
          /\ UNCHANGED <<pool, pages, data, page, next, free_nr, stopped>>

(* wait_on_pagecache_nolock after the sleep, with the pointer from before  *)
(* it: the page may have been freed since the thread was woken.            *)
WaitWoken(t) ==
    /\ loc[t] = "wait" /\ lock = Nil
    /\ t \notin waiters[page[t]]
    /\ IF page[t] \in Registered(want[t])
       THEN TakeOrWait(t, page[t], state) /\ UNCHANGED <<key, refs, want>>
       ELSE Stop("wild")

\* allocate_new_pcache, outside the lock; without memory the call fails.
allocate_new_pcache(t) ==
    /\ loc[t] = "alloc"
    /\ \/ \E p \in Pages :
            /\ key[p] = Nil
            /\ key' = [key EXCEPT ![p] = want[t]]
            /\ state' = [state EXCEPT ![p] = {"BUSY"}]
            /\ refs' = [refs EXCEPT ![p] = 1]
            /\ page' = [page EXCEPT ![t] = p]
            /\ latest' = latest \ {p}
            /\ goto(t, "insert")
       \/ /\ goto(t, "idle")
          /\ UNCHANGED <<key, state, refs, page, latest>>
    /\ UNCHANGED <<pool, waiters, synced, want, next, free_nr, stopped>>

InsertAnyway(k) == {}       \* a faulty variant
Conflicting(k) == Registered(k)    \* the page SPLAY_INSERT returns

(* Registers the new page, unless another thread has registered one for    *)
(* the key meanwhile; then the new one is freed and the other one is used. *)
Insert(t) ==
    LET p == page[t] IN
    /\ loc[t] = "insert" /\ lock = Nil
    /\ \/ /\ Conflicting(want[t]) = {}
          /\ tree' = tree \cup {p}
          /\ refs' = [refs EXCEPT ![p] = @ + 1]
          /\ goto(t, "fill")
          /\ UNCHANGED <<lock, lru, key, state, waiters, data, page, want, next,
                         free_nr, stopped>>
       \/ \E q \in Conflicting(want[t]) :
          /\ key' = [key EXCEPT ![p] = Nil]
          /\ refs' = [refs EXCEPT ![p] = 0]
          /\ TakeOrWait(t, q, [state EXCEPT ![p] = {}])
          /\ UNCHANGED want

\* The end of lookup_pagecache: reads the block into a page that is not valid.
fill_pagecache(t) ==
    LET p == page[t] IN
    /\ loc[t] = "fill"
    /\ IF Valid(p) THEN UNCHANGED <<state, data>>
       ELSE /\ fsimg_strategy(p)
            /\ state' = [state EXCEPT ![p] = @ \cup {"CLEAN"}]
    /\ goto(t, "own")
    /\ UNCHANGED <<pool, key, refs, waiters, page, want, next, free_nr, stopped>>

-----------------------------------------------------------------------------
(* The owner of a page.                                                    *)

\* The owner changes the contents and calls pagecache_mark_dirty.
pagecache_mark_dirty(t) ==
    LET p == page[t] IN
    /\ loc[t] = "own"
    /\ latest' = {q \in latest : key[q] # key[p]} \cup {p}
    /\ synced' = synced \ {key[p]}
    /\ state' = [state EXCEPT ![p] = (@ \ {"CLEAN"}) \cup {"DIRTY"}]
    /\ UNCHANGED <<pool, key, refs, waiters, local, stopped>>

pagecache_write(t) ==
    /\ loc[t] = "own"
    /\ WriteBack(page[t])
    /\ UNCHANGED <<pool, key, refs, waiters, local, stopped>>

(* dec_pcache_reference: a page that loses its last reference is freed,    *)
(* unless a thread waits for it; the pool then keeps its reference.  (The  *)
(* page is not dirty here: a user does not drop the last reference, and    *)
(* the shrinker has written the page.)                                     *)
FreesPage(p) == refs[p] = 1 /\ waiters[p] = {}
dec_pcache_reference(p) ==
    IF FreesPage(p)
    THEN /\ tree' = tree \ {p}
         /\ key' = [key EXCEPT ![p] = Nil]
         /\ state' = [state EXCEPT ![p] = {}]
         /\ refs' = [refs EXCEPT ![p] = 0]
    ELSE /\ refs' = [refs EXCEPT ![p] = IF @ = 1 THEN 1 ELSE @ - 1]
         /\ UNCHANGED <<tree, key, state>>

\* pagecache_put: the reference, then the LRU queue, the lock and the waiters.
pagecache_put(t) ==
    /\ loc[t] = "own" /\ lock = Nil
    /\ dec_pcache_reference(page[t])
    /\ goto(t, IF FreesPage(page[t]) THEN "idle" ELSE "put")
    /\ UNCHANGED <<lock, lru, waiters, data, page, want, next, free_nr, stopped>>

UnlockSilently(p) ==     \* a faulty variant
    /\ state' = [state EXCEPT ![p] = @ \ {"BUSY"}]
    /\ UNCHANGED waiters

\* Clears PCACHE_STATE_BUSY and wakes the threads that wait for the page.
Unlock(p) ==
    /\ state' = [state EXCEPT ![p] = @ \ {"BUSY"}]
    /\ waiters' = [waiters EXCEPT ![p] = {}]

PutInLru(t) ==
    LET p == page[t] IN
    /\ loc[t] = "put" /\ lock = Nil
    /\ refs' = [refs EXCEPT ![p] = @ + 1]
    /\ lru' = Append(lru, p)
    /\ Unlock(p)
    /\ goto(t, "idle")
    /\ UNCHANGED <<lock, tree, key, data, page, want, next, free_nr, stopped>>

-----------------------------------------------------------------------------
(* pagecache_shrink_pages.                                                 *)

\* lp->next in the LRU queue l; an entry that is not linked points to itself.
Succ(l, p) ==
    IF p = Nil THEN (IF l = <<>> THEN Nil ELSE Head(l))
    ELSE IF ~ Contains(l, p) THEN p
    ELSE LET i == CHOOSE j \in DOMAIN l : l[j] = p
         IN IF i = Len(l) THEN Nil ELSE l[i + 1]

BusyLater(p) == state     \* a faulty variant
MarkBusy(p) == [state EXCEPT ![p] = @ \cup {"BUSY"}]

(* The top of the loop with the iterator at lp, with the lock held or not. *)
(* At the end of the queue the function returns, and a lock it holds stays *)
(* locked.  Otherwise the body takes the first page of the queue, and      *)
(* unlocks, which fails if nobody holds the lock.                          *)
LoopTop(t, lp, locked, work) ==
    IF lp = Nil
    THEN /\ lock' = IF locked THEN t ELSE lock
         /\ free_nr' = [free_nr EXCEPT ![t] = 0]
         /\ goto(t, "idle")
         /\ UNCHANGED <<tree, lru, pages, data, page, want, next, stopped>>
    ELSE IF lru = <<>> THEN Stop("wild")
    ELSE LET p == Head(lru) IN
         IF Busy(p) \/ (~ locked /\ lock = Nil) THEN Stop("kassert")
         ELSE /\ state' = MarkBusy(p)
              /\ lru' = Tail(lru)
              /\ page' = [page EXCEPT ![t] = p]
              /\ next' = [next EXCEPT ![t] = Succ(lru, lp)]
              /\ goto(t, work)
              /\ lock' = Nil
              /\ UNCHANGED <<tree, key, refs, waiters, data, want, free_nr, stopped>>

\* The call, with wbonly (flush) or without (shrink).
pagecache_shrink_pages(t, work) ==
    /\ loc[t] = "idle" /\ lock = Nil
    /\ LoopTop(t, Succ(lru, Nil), TRUE, work)

\* The work on the page, outside the lock.
ShrinkWrite(t) ==
    LET p == page[t] IN
    /\ loc[t] \in {"shrink", "flush"}
    /\ IF "DIRTY" \in state[p] THEN WriteBack(p) ELSE UNCHANGED <<state, data>>
    /\ IF loc[t] = "flush"
       THEN goto(t, "flushed") /\ UNCHANGED refs
       ELSE refs' = [refs EXCEPT ![p] = @ - 1] /\ goto(t, "written")
    /\ UNCHANGED <<pool, key, waiters, page, want, next, free_nr, stopped>>

\* With waiters the page is unlocked, and the loop goes on without the lock.
ShrinkCheck(t) ==
    LET p == page[t] IN
    /\ loc[t] = "written" /\ lock = Nil
    /\ IF waiters[p] # {}
       THEN Unlock(p) /\ goto(t, "unlocked")
       ELSE goto(t, "drop") /\ UNCHANGED <<state, waiters>>
    /\ UNCHANGED <<pool, key, refs, data, page, want, next, free_nr, stopped>>

\* dec_pcache_reference of the shrinker; it returns after max pages.
ShrinkDrop(t) ==
    LET p == page[t] IN
    /\ loc[t] = "drop" /\ lock = Nil
    /\ dec_pcache_reference(p)
    /\ free_nr' = [free_nr EXCEPT ![t] =
                     IF ~ FreesPage(p) THEN @ ELSE IF @ + 1 = MaxFree THEN 0 ELSE @ + 1]
    /\ goto(t, IF FreesPage(p) /\ free_nr[t] + 1 = MaxFree THEN "idle" ELSE "dropped")
    /\ UNCHANGED <<lock, lru, waiters, data, page, want, next, stopped>>

ShrinkLoop(t) ==
    \/ loc[t] = "dropped"  /\ lock = Nil /\ LoopTop(t, next[t], TRUE, "shrink")
    \/ loc[t] = "flushed"  /\ lock = Nil /\ LoopTop(t, next[t], TRUE, "flush")
    \/ loc[t] = "unlocked" /\ LoopTop(t, next[t], FALSE, "shrink")

-----------------------------------------------------------------------------
Next ==
    /\ stopped = "no"
    /\ \/ \E t \in Users :
            \/ \E k \in Keys : pagecache_get(t, k)
            \/ WaitWoken(t) \/ allocate_new_pcache(t) \/ Insert(t)
            \/ fill_pagecache(t) \/ pagecache_mark_dirty(t) \/ pagecache_write(t)
            \/ pagecache_put(t) \/ PutInLru(t)
       \/ \E t \in Shrinkers :
            \/ \E work \in {"shrink", "flush"} : pagecache_shrink_pages(t, work)
            \/ ShrinkWrite(t) \/ ShrinkCheck(t) \/ ShrinkDrop(t) \/ ShrinkLoop(t)

Spec == Init /\ [][Next]_vars

-----------------------------------------------------------------------------
(* Properties.                                                             *)

UserLocs   == {"idle", "wait", "alloc", "insert", "fill", "own", "put"}
ShrinkLocs == {"idle", "shrink", "flush", "written", "unlocked", "drop", "dropped",
               "flushed"}

(* Every variable has its type.                                            *)
TypeOK ==
    /\ tree \in SUBSET Pages
    /\ lru \in Seq(Pages)
    /\ key \in [Pages -> Keys \cup {Nil}]
    /\ state \in [Pages -> SUBSET {"BUSY", "CLEAN", "DIRTY"}]
    /\ refs \in [Pages -> 0..2]
    /\ waiters \in [Pages -> SUBSET Users]
    /\ latest \in SUBSET Pages /\ synced \in SUBSET Keys
    /\ loc \in [Threads -> UserLocs \cup ShrinkLocs]
    /\ \A t \in Users : loc[t] \in UserLocs
    /\ \A t \in Shrinkers : loc[t] \in ShrinkLocs
    /\ page \in [Threads -> Pages \cup {Nil}]
    /\ want \in [Users -> Keys \cup {Nil}]
    /\ free_nr \in [Shrinkers -> 0..(MaxFree - 1)]
    /\ lock \in Threads \cup {Nil}
    /\ stopped \in {"no", "kassert", "wild"}

\* Threads that work on the page they have locked.
Working == {t \in Threads : loc[t] \in {"fill", "own", "put", "shrink", "flush",
                                        "written", "drop"}}

(* A page is locked by PCACHE_STATE_BUSY: it has one worker at a time, is  *)
(* registered, alone for its key, and stays busy until that worker is      *)
(* done.                                                                   *)
OneWorker ==
    /\ \A t \in Working : Busy(page[t]) /\ page[t] \in tree
    /\ \A s, t \in Working : page[s] = page[t] => s = t
    /\ \A p, q \in tree : key[p] = key[q] => p = q

(* No update is lost: the contents written last are in the block or in a   *)
(* registered dirty page, and the owner of a page sees them.               *)
NoUpdateLost ==
    /\ \A k \in Keys \ synced :
         \E p \in Registered(k) : p \in latest /\ "DIRTY" \in state[p]
    /\ \A t \in Users : loc[t] = "own" => page[t] \in latest

(* A page in the LRU queue is registered, valid and nobody works on it, so *)
(* that the shrinker may take it.                                          *)
LruIsIdle == \A p \in Range(lru) : p \in tree /\ Valid(p) /\ ~ Busy(p)

(* A thread that sleeps in the queue of a page waits for a page that is    *)
(* busy: whoever clears the bit wakes it.  The one that has to clear it    *)
(* may be the sleeper itself, if it asks for the block it holds.           *)
SleepersHaveCause == \A p \in Pages : waiters[p] # {} => Busy(p)

(* PCACHE_STATE_BUSY tells everybody else what to do with a page: who      *)
(* takes it from the LRU queue may work on it, who finds it busy sleeps    *)
(* and is woken (pagecache_shrink_pages, the wait in pagecache_get,        *)
(* pagecache_put).                                                         *)
BusyExact == LruIsIdle /\ SleepersHaveCause
=============================================================================
