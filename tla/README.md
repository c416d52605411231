# A TLA+ verification project for the RISC-V workshop kernel

The repository is a small operating system kernel for 64-bit RISC-V (`hal/riscv64`)
that can also be built as a host program for its self tests (`hal/uland`), with the
configuration tool its build uses (`tools/kconfig`). This directory models the parts that
carry the logic of the system (memory, scheduling, threads, processes, interrupts, time,
page tables, the page cache, the library below them and the configuration tool), checks
them with TLC on small instances, and proves with TLAPS, for instances of every size, the
safety properties of the page allocator, the slab allocator, the scheduler with the mutex
and the threads above it, page tables, processes, the page cache, the locks, the linked
queues, the interrupts and the callouts.

Paths below are relative to the repository (`kern/mutex.c` is `src/kern/mutex.c`).

## 1. Inventory

| Component | State | Operations | Why it is hard |
|---|---|---|---|
| Page frame database and buddy pool, `kern/page-pfdb.c`, `kern/page-alloc.c` | per page: order, state bits, usage, head of cluster, use count; per area: free lists, counters | add and remove an area, allocate and split, count references, free and merge, reserve | long mixes of splits and merges; the last reference is dropped outside the pool lock; a merge looks only at the buddy's order and bits |
| Slab allocator, `kern/page-slab.c` | per cache: partial, full and free queue, `slab_count`; per slab: count, free objects | allocate, grow, release, reap, destroy | two locks that are never nested, so counts and object lists change in different critical sections |
| Scheduler, `kern/sched-queue.c`, `kern/thr-preempt.c`, `thr_idle_loop` | ready queues by priority, bitmap, state of threads, dispatch flags | add, choose the next, dispatch, idle | a thread has to be in exactly the queue its state says; the dispatch request is a flag of the thread on the CPU |
| Wait queues and mutex, `kern/wqueue.c`, `kern/mutex.c` | queues of entries with the reason of the wakeup; a counter of resources | wait (three forms), wake; lock, try, unlock, destroy | a wakeup between queueing and giving up the CPU; woken threads compete again |
| Threads, `kern/thr-thread.c` | tree of threads, parent, children, ended children, references | create, exit, wait for a child, find by id, reaper | reference counts along the tree; an end cascades to the parent; the order in which parent and child end |
| Page cache, `kern/dev-pcache.c`, `fs/dev-fsimg.c` | tree of pages, state bits, LRU queue, references, waiters | get, mark dirty, write, put, shrink | work on pages outside the pool lock; pages are freed while other threads look for them |
| Interrupts, `kern/irq.c`, `rv64-plic.c`, `rv64-clint.c`, `rv64-traps.c` | controllers with masks and thresholds, lines with handlers and references, tree of lines by priority, stack of traps | register and unregister controllers and handlers, trap, dispatch, mask | handlers are unregistered while they run; nested traps; a line's priority changes while it is in the tree |
| Time, `kern/timer.c`, `rv64-timer.c` | wall time, sorted queue of callouts, pending bits of the tick | tick, add, cancel, expire | two pending bits for one tick, carry of nanoseconds, order of the queue, cancel against expiry |
| Virtual memory, `kern/vm-map.c`, `kern/vm-pgtbl.c`, `kern/vm-copy.c`, `rv64-pgtbl.c` | page tables, the use counts of their pages, the mutex of a space | map, unmap, protect, translate, copy ranges and bytes | undo after a failure in the middle of a range, tables released level by level, pages of different sizes |
| Processes, `kern/proc-proc.c` | tree of processes, references, threads of a process, segments, numbers; the process of the kernel | allocate, free, add and remove threads, find | lookup against the last release, a thread that joins a process that is being freed, unwinding of a failed allocation |
| Spinlocks, interrupt flags, atomics, reference counters, `kern/spinlock.c`, `kern/cpuintr.c`, `klib/atomic.c`, `klib/refcount.c` | lock word, owner, depth, saved flag; counter | lock, unlock with and without the flag; conditional increment and decrement | several CPUs, a handler on top of a thread, lost reservations |
| Map of the processors, `kern/cpuinfo.c` | entries, bitmaps, tree by physical number | register, find, take over a thread | every processor enters itself |
| Library, `klib` and `include/klib` | trees, queues, lists, bitmaps; none for strings, formats and calendar | insert, remove, find, splay; search; convert | errors of rebalancing show much later; boundaries of words and of the calendar |
| Early allocator, `klib/early-malloc.c`, `klib/early-kheap.c` | chunks with boundary tags, lists, tries, `dv`, `top`, segments, the break of the heap | allocate, release, resize, align, trim, limit | a release joins up to three chunks; the heap grows beside somebody else's memory |
| Configuration tool, `tools/kconfig` | menu tree, symbols with cached values, `.config`, `auto.conf` | parse, simplify, compute, set, read, write, ask | cached values, expressions rewritten in place, files that are reread, a dialogue that has to end |
| Graphical front ends, user-land HAL, boot, tests | | | not modelled, section 6 |

How the parts interact. Everything above the page pool allocates through the slab
allocator, which takes whole clusters from the pool. Threads are slab objects with a
stack of pages. Mutexes, the page cache and `thr_thread_wait` sleep in wait queues; a
wait queue wakes threads into the ready queue; `sched_schedule` switches. The page cache
takes a page from the pool and a structure from a slab cache for every block. A process
owns a page table whose tables and pages come from the pool, and the threads that refer
to it. The machine mode timer raises a software interrupt that enters through
`irq_handle_irq` and runs callouts. Lines, processes and page cache entries are nodes of
the red-black and splay trees of `klib`.

Concurrency. The scheduler is cooperative: the trap exit does not call
`sched_delay_disptach`, `CONFIG_PREEMPT` is not a configuration option, and only the
bootstrap processor gets an idle thread. The code protects its data for more: every
critical section takes a spinlock, and interrupts are enabled outside them. The models of
the scheduler, the mutex, of threads and of interrupts are therefore of one CPU, with
interrupt handlers between the critical sections. The models of the page pool, the slab
allocator, the page cache, address spaces, processes and of the locks themselves take one
critical section, or one atomic operation, as a step and let any other thread run in
between, as their comments claim they may. The library, the early allocator and the
configuration tool are sequential.

## 2. Modules

    Pfdb                                           PageAllocator <- implemented by Pfdb
    Slab ---> MCSlab
    Sched ---> Mutex ------> MCMutex
          +--> ThreadLife -> MCThreadLife
    PageCache ---> MCPageCache
    Irq -----+
    Callout -+--> Interrupts ---> MCInterrupts     TimerService  <- implemented by Callout
    PageTable ---> VmMap ---> Proc ---> MCVm
    RbTree -+-> Trees -------------+
            +-> CpuInfo -----------+--> MCKlib
    Links, Sync, Clib, EarlyMalloc +
    KconfigExpr -> KconfigMenu -> KconfigSym -> Kconfig -> KconfigText -> MCKconfig

The proofs are in modules of their own, next to the component they are about:

    PfdbProofs (Pfdb)             PageCacheProofs (PageCache)
    SlabProofs (Slab)             SchedLemmas (Sched) ---> BaseProofs (Mutex, Sync, Links)
    ProcProofs (Proc, VmMap)                          +--> ThreadProofs (ThreadLife)
    InterruptProofs (Interrupts, Irq, Callout)

Every definition that translates code is listed with its lines under `map` in
`PROJECT.json`. Definitions marked "a faulty variant" are alternatives of the definition
below them with a plausible bug; with one of them in its place the property listed with
it under `mutants` is violated. No specification uses them.

### Pfdb, PageAllocator

One registered area. A page is its index in `pool->array`; `order`, `used`, `reserved`,
`usage`, `headp` and `usecnt` are the fields of a page frame, `page_list`, `free_nr`,
`available_pages` and `usage_pages` those of the pool. The loop of `pfdb_add` gives the
pages to the pool one by one (`added` is its index). `enqueue_page_to_buddy_pool` is the
merge loop: `MergedOrder` is the order at which it stops, and the effects of all its
turns are written as one assignment. `adjust_page_order` is the split in the same way.
`pfdb_dec_page_use_count` and `free_page` are the two halves of dropping a reference,
since the code takes the pool lock only after the count has reached 0. The free lists are
sets: the code takes the head, the model any member, which is more general.

The bit `PAGE_STATE_RESERVED` changes outside the pool lock, so a reservation is two steps:
`mark_page_frame_reserved` unlinks the page and `set_reserved` sets its bit;
`unmark_page_frame_reserved` clears it and `enqueue_unreserved` links the page, as does each
turn of the loop of `pfdb_add`. `marking` and `clearing` hold the page in between (`Half`).
It is then in no list and passes the merge test, and the return of a cluster, which does not
take `g_pfdb.lock`, may come in between: when that cluster is the page's buddy, the merge
takes the page. `torn` records this; the model stops there, since the free lists are then
wrong for good, and the properties of a state are about the states before. The kernel
reserves and unreserves while it sets the pool up (`rv64-prepare.c:88-93`,
`ulandpmem.c:205-239`) and returns nothing meanwhile, but `page-pfdb.c` does not exclude it.

`PageAllocator` is what the rest of the kernel relies on: a cluster that is handed out is
a run of pages that nobody holds and that is not reserved, and nothing else changes what
is in use. `Promise` in `Pfdb` is the refinement mapping; a page counts as reserved from the
critical section that unlinks it to the one that links it again.

### Slab

One `kmem_cache`. A step is a critical section of the cache lock or of the slab's lock,
or a call of the page allocator. `slab_kmem_cache_alloc` counts the object
(`CountObject`) and `alloc_slab_obj` takes it afterwards; `slab_kmem_cache_free` uncounts
it, `free_slab_obj` returns it, and `LinkUnusedSlab` is the third critical section, in
which an empty slab enters the free queue. Reapers take slabs from the free queue and
give their pages back outside the lock (`free_slab_info`), in `slab_kmem_cache_reap` and
in the loop of `slab_kmem_cache_destroy`.

### Sched, Mutex

`Sched` has the functions of `sched-queue.c` and `wqueue.c` as operators on a record of
the scheduler's state, so that an action of another module can call several of them in
the order of the code. A thread leaves the CPU inside `sched_schedule`; what follows in
the thread that gets it (state `RUN`, end of its preemption) is part of
`thr_thread_switch`. A new thread starts at its entry and keeps the state `RUNABLE`
during its first time on the CPU (`fresh`), as in the code. The idle thread is the thread
chosen when the bitmap is empty. The loop of `wque_wakeup` that puts the woken threads into
the ready queues is the recursive function `AddThreads`.

`Mutex` adds one mutex, an event queue waited for with `wque_wait_on_event_with_mutex`,
whose parts are separate steps because interrupts are enabled between them, and a sleep with
the mutex held. `wque_init_wque_entry` reads the pointer of an entry before it is
initialised; the model chooses what the stack slot holds (`Residues`).

### ThreadLife

Threads are slots that are used again. `thr_ref_dec` follows the code through
`notify_parent_child_exit` up the tree: the recursion of the two is written as a recursive
function along the line of ancestors (`RefGone`), which ends at the first that has other
references. `thr_thread_exit` is one step, from the hand-over of the children to
`sched_schedule`. `thr_thread_wait` takes a reference to the thread that calls it, keeps it
through every sleep and gives it up when it returns. `Pin` and `Unpin` are a thread that
holds a reference it got from `proc_find_thread`.

### PageCache

Pages are structures together with their page frames, used again after they are freed.
The content of a page or a block is abstracted to whether it is the one written last;
`fsimg_strategy` copies this fact in the direction that `PCACHE_STATE_DIRTY` gives. The
loop of `pagecache_shrink_pages` is modelled with its iterator, including that it ends
with the pool lock held (`lock`) and goes on without the lock after it has woken waiters.
`stopped` records a failed `kassert` or the use of a freed structure; what a program does
after that is undefined and the model takes no step.

### Irq, Callout, Interrupts, TimerService

`Irq` has the functions of `irq.c` and of the two controllers as operators on the record
`q`; a function that runs with interrupts off is one step. A trap is a frame of
`q.frames`, so that a nestable handler can be interrupted by another trap, and handlers
register and unregister handlers, themselves included. A driver is a handler with its
line, priority and attributes; one of them (`bad`) asks for a priority the controller
does not have and for attributes that do not fit its line. `Callout` is `timer.c`: time is
counted in ticks of `SecLen` to a second, the carry of the nanoseconds is the code's, and
the queue is filled by the code's `queue_add_sort`. `Interrupts` composes the two with the
timer handler: the machine mode tick sets `STIP` and `SSIP`, and `lag` is the number of
ticks that the wall time does not have yet. `TimerService` is what a user of callouts
relies on; `CalloutPromise` says that `Callout`, driven by the interrupts, implements it.

### PageTable, VmMap, Proc

`PageTable` has the functions of `rv64-pgtbl.c` as operators on a record of page frames,
their use counts and their contents as tables. The three levels are those of Sv39, with
`PerTable` entries in the lower tables; the loops over the levels are written as their three
turns (`walk_on`, `grow_on`, `Down`, `Up`), and the loop of `hal_pgtbl_enter` over the pieces
of a range as a recursive function (`map_pieces`). `VmMap` adds the operations on ranges: a
thread locks the spaces it works on, goes on page by page, and undoes its work when memory
runs out. `VmAssumption` has what callers keep to: regions consist of whole pages of one
size, and no small page lies where the entry of a large one is, since `grow_pgtbl` would
take the large page for a table (section 4). Its variable `mem` is what the calls that have
returned have made of each space, bytes included, and `TranslationExact` compares the walk of
the tables with it. Lengths of strings (`vm_strlen`) and moves between spaces (`vm_memmove`)
go over the same tables. Copies of large pages and moves between different offsets are calls
like any other, and their tables, protections and counts are checked; the bytes they leave
are `Unsaid` in `mem`, because the code does not do there what its comments say (section 4).

`Proc` uses the spaces as the address spaces of processes, beside the process of the kernel,
which has none. A client's program counter says which critical section of a call comes next:
creation goes from the structure and its number over the page table, the stack and the first
thread to the tree (`proc_user_allocate`, `AllocTable`, `MapStack`, `FirstThread`, `Enter`);
then threads are made, join and leave (`proc_add_thread`, `proc_del_thread` with their
parts), processes and their master threads are found, and the last reference frees
(`proc_ref_dec`, `Free`). `proc_kproc_refer` only returns the process of the kernel; a
client that wants a reference calls `proc_ref_inc` (`TakeKernel`). Numbers are one pool for
processes and threads. `halted` says that a `kassert` has failed, or that a pointer without
a value was read; no step follows. A failed creation ends there, since its unwinding reads
such a pointer.

### The library: Trees, Links, Sync, CpuInfo, Clib

`RbTree` works on the pointers and colours of nodes and follows the macros of `rbtree.h`;
`Trees` has the splay tree of `splay.h` in the same way and calls both in every order.
`Links` has the pointers of queues, lists and singly linked lists next to the sequences
they stand for; `queue_del` is called for any element, one that is in another queue or in
none included. `Sync` has two CPUs, each with a thread and an interrupt handler, and takes
one memory access as a step, with reservations that may be lost. `CpuInfo` is the map of
the processors, whose index is a red-black tree over its entries. `Clib` has a section each
for bitmaps (a word is the set of its bits), memory and strings, formats, and the calendar;
it calls their operators for all bounded arguments, and compares the results with
reference definitions. Where a function does not keep its contract for some arguments, the
operator does what the code does and the property leaves those arguments out: the end of a
`memset` (`UnfilledTail`), the sign of `memcmp` for bytes that are far apart (`FarBytes`),
`strncmp` when one string is a prefix (`StopsEarly`), the order of `strcasecmp`, `strstr` of
the empty string and `strrchr` of NUL, digits that `kvprintf` pads on the right with zeros,
`%b` with `-` or of a negative number, and the years `Before1968`. Of the map of processors
`CpuMapSound` says what registration keeps, and of `krn_current_cpu_get` only that a
processor finds itself as long as it is the only one; it says nothing of which processors are
online. Section 4 has what the code does in these cases.

### EarlyMalloc

The allocator as the kernel configures it. Sizes and addresses are bytes, the constants of
the source (chunk overhead, bins, bits of the trie) are kept, and the state is checked
with the assertions of the source's own `DEBUG` part, which are never compiled in
(`do_check_malloc_state`). `foreign` is memory that somebody else takes from the early
heap between two calls.

### The configuration tool

`KconfigExpr` has the expressions and their rewriting; `KconfigMenu` the statements of the
menu files and `menu_finalize`; `KconfigSym` the computed and cached values, choices and
the search for cycles; `Kconfig` the sessions of `mconf` with the files they read and
write; `KconfigText` the dialogue of `conf`; `MCKconfig`
adds initial states that hold one expression or one dependency graph. The modules use
RECURSIVE operators and are for TLC only.

`disk` has the configuration files by name. `conf_load(f)` and `conf_save(f)` make `f` the
`filename` to which `mconf` saves from then on; the next session begins with `.config`
again. A file may be missing (`conf_load_missing`), may not be opened, or may not be renamed
(`RenameFails`): the old file has its name `.old` by then, so that none is left under the name
itself. `conf_write_autoconf`, which ends a session, is four steps: the headers of the
symbols, the rename of `autoconf.h`, the rename of `auto.conf`, and before them the values it
computes anew; a failure of each ends the program there (`SplitFails`, `RenameAutoFails`),
with some headers renewed, or with the new `autoconf.h` beside the old `auto.conf`.

## 3. Runs

State counts are of TLC's complete exploration.

| Run | Instance | States | Shows |
|---|---|---|---|
| `pfdb` | 8 pages, 1 for the frame array, orders 0..3, 2 references | 425220 | `ClustersDisjoint`, `NoPageLost` (with the free lists), `Coalesced`, `UseAccounted`, `InUseStable`, the refinement `PromiseSpec`, with the reserved bit changed outside the lock |
| `slab_reap` | 1 user, 2 reapers, 2 slabs of 2 objects, limit 1 | 5709 | `QueuesMatchCounts` (with the assertions), `NotReapedInUse`, liveness `EmptySlabQueued` |
| `slab_users` | 3 users, 2 slabs of 2 objects | 2269 | `ObjectsConserved` |
| `slab_free_race` | 2 users, 1 reaper | | violation of `NotReapedInUse` |
| `mutex` | 3 threads, one of higher priority, and the idle thread | 4259 | `MutualExclusion`, `NoLostWakeup`, `QueuesConsistent`, liveness `ReadyIsDispatched` |
| `thread_life` | 3 workers, reaper, idle thread, 1 outside reference | 13631 | `RefsExact`, `NoUseAfterFree`, liveness `OrphansReaped` |
| `page_cache` | 3 users, 1 shrinker, 3 structures, 2 blocks | 667864 | `OneWorker`, `NoUpdateLost`, `BusyExact` |
| `interrupts` | the timer, 2 device lines, 5 handlers, 2 users of callouts | 229708 | `LineRefsExact`, `NestingRises`, `WallTimeNeverAhead`, the refinement `CalloutPromise`, liveness `CalloutEventuallyRuns` |
| `vm` | 2 clients; either 2 spaces and 10 page frames, or 1 process besides the kernel's, 2 threads, 4 numbers | 616000 | `TranslationExact`, `PagesOwned`, `PagesGivenBack`, `ProcRefsExact`, `NumbersUnique` |
| `proc_find` | the same with 9 page frames | | violation of `FindThreadHolds` |
| `klib` | one unit of the library per behaviour | 154061 | `TreesCorrect`, `LinksMatch`, `SyncSafe`, `FunctionsCorrect` (bitmaps, strings, formats, calendar, processors), `HeapSound` |
| `kconfig` | 10 symbols, 2 file names, 2 changes, 2 sessions; small expressions and graphs | 74680 | `ParseRight`, `ValuesRight`, `RoundTrip`, `ConfAsksAll`, `HeadersFollow` |

Bounds, and why they are enough for what they are meant to show.

- 8 pages with orders 0..3 of which one is taken at the start give three levels of splits
  and merges, and pages whose buddy is never free. The proofs remove this bound for most
  of the properties. Two references (`MaxUse`) make the last and the other differ.
- Two slabs of two objects have all the transitions between free, partial and full;
  `Limits = 1` makes the reaper keep a slab. In `slab_reap` one user suffices because the
  races are between it and the reapers; with two users the race of `slab_free_race`
  appears.
- Three threads on a mutex: one holds it, one is woken, one is queued; one of them has
  priority over the idle thread's level.
- Three workers are a chain of parent, child and grandchild, or a parent with two
  children. `MaxPins` bounds references from outside to one.
- Three structures for two blocks let two threads miss on the same block while the third
  structure is in use, and let an allocation fail. `MaxFree = 2` is the `max` of the
  shrinker: it returns both at the maximum and at the end of the queue.
- Line 32 is the timer, 1 and 2 belong to the PLIC; line 2 is shared by a handler and one
  that removes itself. `SecLen = 2` makes the nanoseconds carry every second tick,
  `MaxRel = 2` puts callouts on both sides of a carry, `MaxLag = 2` lets two ticks pass
  before the first is served, and three arms (`MaxArms`) give a queue in which an entry is
  inserted at the end, before the end and in the middle. `MaxRaises` bounds interrupts of
  devices. Either the devices or the users of callouts are busy next to the timer
  (`load`); both at a time would be too many states. The timer handler cannot be
  interrupted, so what the two share is the order of traps.
- `PerTable = 2` and `Top = 3` give tables with two entries and two tables on a level.
  Ten frames are fewer than two spaces with all their regions need, so that calls fail at
  every point; `MaxCalls = 3` lets a call that fails meet the mapping of an earlier one.
  One of the regions is a large page. Of the moves asked for, one has the same offset in both
  pages, one not. Copies go from one space to the other in one
  direction only: in both directions they lock each other out (section 4).
- One process with two clients and two threads reaches every order of a lookup, a thread
  that joins or leaves and the last release; the kernel's process shares its clients and
  threads with it. Of the four numbers one is reserved, so that the process and its two
  threads use all that are left and one more thread or process is refused. Ten
  frames are enough for the process, so that running out of pages is checked with the
  spaces. The proofs hold for any number of processes.
- Five physical numbers for four entries of the map of processors let one be refused.
- Eight nodes, two of the same key, reach every case of the rotations of a red-black
  tree. Two queue heads and four elements let queues exchange elements. Words of 16 bits
  in bitmaps of two words have both boundaries. Strings have up to `StrLen = 2` of three
  characters, next to each other and overlapping in 16 bytes. `Years` has leap and common
  years at the turns of centuries, and both ends of a 32-bit time.
- The early heap has three pages of 1024 bytes that can be used, sizes from a small bin
  and from a trie bin, and at most `MaxOps` calls, of which `MaxRare` are one of the rare
  ones (trim, limits, parameters, somebody else's `sbrk`). A batch of five chunks with
  neighbours fills one bin's trie.
- The menu of `MCKconfig` has each construct of `configs/Config.in` and those the tool adds. The
  expressions of `Exprs` are all of two operators over seven atoms, the graphs all maps of
  five symbols to a symbol they depend on. Two changes, loads or saves (`MaxEdits`) over
  two sessions are the least that let a session change a value and save it, on the way out or
  under another name, or save and load; the next session then reads what was left, and a
  program that failed to write `auto.conf` is followed by one that succeeds.

Symmetry is used only in runs without liveness properties. `CHECK_DEADLOCK FALSE` stands
where the system may really stop: after an area is removed (`Pfdb`), when all users of a
cache without a reaper hold objects (`Slab`), when every thread sleeps or has ended
(`Mutex`), and after the page cache has locked itself up (`PageCache`). The other runs are
checked for deadlock.

Fairness, always weak.

- `Slab`: a thread inside the allocator takes its next step. It holds no lock between
  steps, waits for nobody, and its caller cannot stop it.
- `Mutex`: the idle thread runs its loop when it is on the CPU. Nothing is assumed of the
  others: `ReadyIsDispatched` is about the idle thread.
- `ThreadLife`: the idle thread dispatches, the reaper, an endless loop around
  `thr_thread_wait`, waits and collects when it is on the CPU, and a worker on the CPU
  ends or sleeps at last. The last part is needed because the scheduler is cooperative: a
  thread that keeps the CPU stops everybody.
- `Interrupts`: the hardware ticks, the hart takes a trap that is pending and enabled, and
  code runs on: a trap scans its lines, and a handler returns. No thread and no device is
  assumed to do anything.

## 4. Findings

Two runs show a disagreement between the code and what it says of itself; each is
described under `findings` in `PROJECT.json`.

1. `slab_free_race`: two overlapping releases empty a slab; the one that finishes first
   queues it as free, and a reaper gives the pages back while the other still returns its
   object (`kern/page-slab.c:792`, against the comment at 749-754).
2. `proc_find`: `proc_find_thread` reads the master thread and drops its reference after it
   has left the lock of the process table. When the last thread of the process is removed
   meanwhile, the reference is the last one after all (`kern/proc-proc.c:252`, against the
   comment there).

Seen while modelling, without a run of their own. Unless a line says otherwise the model
does what the code does, and the properties are stated so that they hold beside it.

Memory

- `mark_page_frame_reserved` keeps the interrupt flag of the nested lock in the variable of
  the outer one (`kern/page-pfdb.c:555`; the flag is not part of `Pfdb`). Reserving a page
  inside a free block leaves the block listed (line 518); its callers start at a head. The
  reserved bit is set and cleared outside the pool lock (lines 573, 637), so that a page on its
  way can be merged with a buddy that is returned meanwhile.
- Other effects of finding 1: an allocation from an empty object list
  (`kern/page-slab.c:677`), two releases at the `kassert` of line 794.
- A lower table that becomes empty while its upper table has other entries is never given
  back (`rv64-pgtbl.c:276`); when a table cannot be had on the way down, the removal meets
  an entry that is not valid and stops the kernel (line 459).
- `grow_pgtbl` follows any valid entry that is not of the size asked for, so that a small
  page entered inside a large one would be written into the large page's data
  (`rv64-pgtbl.c:331`). `VmAssumption` keeps callers from it.
- `vm_map_common` keeps the page that it cannot enter (`kern/vm-map.c:113`). `vm_copy_range`
  copies each part of a large page to the first part of the new one (line 223). Two copies
  in opposite directions lock the spaces in opposite orders (line 168).
- `vm_memmove` takes the offset in the source page from the destination
  (`kern/vm-copy.c:187`); `vm_strlen` goes on by one byte at the end of a page (line 64), so that
  a string that reaches into the next page is measured too long. `TranslationExact` says
  nothing of the bytes of a copied large page, of bytes moved between different offsets, of
  such a string, nor of anything after the stop at `rv64-pgtbl.c:459`.
- The last page of the early heap cannot be used (`klib/early-kheap.c:32`), and a footprint
  limit of 0, meant as the smallest one, removes the limit (`klib/early-malloc.c:5356`).

Threads, locks and processes

- `wque_init_wque_entry` locks through a pointer that it has not set and unlocks the lock
  of the current thread (`kern/wqueue.c:100`); it works only if the stack slot still holds
  the current thread.
- A thread that `mutex_unlock` woke and that runs after `mutex_destroy` sleeps for ever
  (`kern/mutex.c:142`); `mutex_locked_by_self` holds for any holder (line 94).
- A parent that exits before it has waited for a child that ended leaves the child in its
  own `waiters`, where nobody looks again (`kern/thr-thread.c:413`). `OrphansReaped` is
  about children that outlive their parent.
- The unwinding of `proc_user_allocate` uses `thr` before it is set (`kern/proc-proc.c:422`);
  `proc_del_thread` reads `thr->p`, which the first thread does not have (line 319);
  `release_process_segment` advances by a size that is not set where nothing is mapped
  (line 151).

Page cache and devices

- The shrinker frees a page whose waiter has been woken and has not run yet
  (`kern/dev-pcache.c:612`); a waiter woken by the shrinker may wait for the page it has
  locked itself (line 244); `pagecache_shrink_pages` ends with the pool lock held, goes on
  without it, and with `wbonly` leaves pages locked (lines 639, 621, 598).
- The range check of the image joins its comparisons with `&&` (`fs/dev-fsimg.c:28`).

Processors

- The comparison of the map of processors has the same test twice, so that a larger number
  counts as an equal one (`kern/cpuinfo.c:39`): a processor whose number is larger than the
  root's takes itself for that one. An entry enters the tree before its number is set, with
  the number 0; when the first processor is number 0, the second meets it as its twin and
  stops the kernel. One processor works, and the kernel runs on one.
- `krn_cpuinfo_online` refuses every entry of the map, the test of its bound is the wrong
  way round (line 137); with the same test `krn_cpuinfo_cpu_is_online` returns `-EINVAL` for
  every entry, which its callers read as true (line 110).

Interrupts and time

- `plic_enable_irq` writes the whole enable register and so closes every other line
  (`rv64-plic.c:120`). `plic_irq_is_pending` claims whatever is pending to test one line, so
  that an interrupt may be claimed and never served (line 98).
- `irq_register_handler` inserts a line in the tree before its priority is set
  (`kern/irq.c:428`).
- The carry of nanoseconds makes a callout up to a second late (`kern/timer.c:89`), and
  `queue_add_sort` inserts before the last element whatever its key (`queue.h:104`);
  `invoke_callout` never gives an entry back (`kern/timer.c:182`).

Library

- `memset` leaves up to three bytes at the end unset (`klib/memset.c:76`). `strncmp` takes a
  proper prefix for equal, and `memcmp` gives the sign of a difference of signed characters.
  `strrchr(s, 0)` does not find the end of the string, `strtok_r` goes on from its saved
  pointer even when it is given a string, and `strcat` returns the end of the result.
- The number of leap days before 1968 is rounded the wrong way (`klib/epoch_time.c:402`).
- `kvprintf` checks the room in the buffer between conversions only (`klib/kprintf.c:247`)
  and uses width and sign left over from an earlier conversion.

Configuration tool

- When the new `.config` cannot be renamed, the old one has been moved to `.config.old`
  already, and the next save writes a file without symbols (`confdata.c:540-541`). Loading a
  file that does not exist sets the count of changes to 0, so that `mconf` ends without asking
  to save them (line 318). Values computed from a number that was out of range keep what they had
  (line 376). The random choice never draws the first member (line 878). `conf_choice` asks
  for ever when no member is visible (`conf.c:333`). A symbol set to `m` is renewed at each
  build (`confdata.c:694`).

## 5. Proofs

Every theorem holds for all values of the constants that satisfy the assumptions of the
modules (`PfdbAssumption`, `UsageAssumption`, `SlabAssumption`, `SchedAssumption`,
`MutexAssumption`, `CPUsAssumption`, `LinksAssumption`, `PageTableAssumption`,
`VmAssumption`, `ProcAssumption`, `CalloutAssumption`, `InterruptsAssumption`,
`PlatformAssumption` and those of `PageCache`); the runs evaluate them on their instances.
They say how the constants relate (the idle thread is a thread, the lowest priority is not
negative, an element is no head of a queue) and that the sets of threads, CPUs, pages and
elements are finite. `PlatformAssumption` says what the kernel relies on in its drivers: the
timer is the only handler at the CLINT, with the line and a priority above the PLIC's as
`rv64-clint.h` has them and not nestable, and drivers of different lines that the PLIC
accepts ask for different priorities, as the `kassert` at `kern/irq.c:429` demands. Handlers
may share a line, ask for attributes or priorities that are refused, and remove themselves
while they run.

| Module | Theorem | Statement |
|---|---|---|
| `PfdbProofs` | `Invariance`, `TypeCorrect`, `ListsCorrect` | the inductive invariant, `TypeOK` and `ListedOK` |
| | `AlwaysAligned`, `AlwaysDisjoint` | clusters are aligned, and no page is in two |
| | `NeverLost` | every page is in a cluster, and the counters are exact |
| | `AlwaysCoalesced` | no two free buddies of the same order stay apart |
| | `AlwaysAccounted` | the pages by usage are exact, and a page leads to its head |
| | `UsersStable` | no step changes the order or usage of a cluster that stays in use |
| | `Refinement` | the pool implements `PageAllocator` |
| `SlabProofs` | `AlwaysConserved` | without reapers, no object is lost or handed out twice |
| | `AlwaysConservedReaped` | the same with one user and any number of reapers |
| | `AlwaysMatchCounts`, `NeverReapedInUse` | with one user: queues tell the counts, no assertion fails, no slab in use is given back |
| `BaseProofs` | `MutexInvariance` | the inductive invariant of the scheduler and the mutex |
| | `AlwaysExclusive` | one owner, and the counter says whether there is one |
| | `NoWakeupLost` | a thread waits for the mutex only while somebody will unlock it |
| | `QueuesAlwaysConsistent` | a thread is in the one queue that its state says, once |
| | `AlwaysSafe` | the spinlock excludes, the flag is restored, the counter counts |
| | `LinksInvariance` | the inductive invariant of the links of queues and lists |
| | `LinksAlwaysMatch` | walks, searches and tests of the pointers find what the sequences say |
| `PageCacheProofs` | `AlwaysOneWorker` | a page is worked on by one thread |
| | `NeverLost` | no update is lost between cache and block |
| | `BusyAlwaysExact` | only idle pages are in the LRU queue; a page with sleepers is busy, possibly through the sleeper itself |
| `ThreadProofs` | `LifeInvariance` | the inductive invariant of the tree of threads, its lists and counters |
| | `RefsAlwaysExact` | the counter of a thread is the number of references to it |
| | `NeverUsedAfterFree` | nothing refers to a freed thread, no `kassert` fails, a woken parent finds its child |
| `ProcProofs` | `ProcInvariance` | the inductive invariant of processes, their threads and numbers |
| | `ProcRefsAlwaysExact` | the counter of a process is the number of references to it, it is in the tree exactly while it has any, and it is freed once |
| | `NumbersAlwaysUnique` | no number has two owners, and none is lost |
| | `KassertsAlwaysHold` | the `kassert`s of creation, release and the end of a thread hold |
| | `PagesAlwaysGivenBack` | the pages taken are the tables and stacks of the processes that exist and the stacks of threads |
| | `PagesInvariance` | the inductive invariant of page tables and of the calls that work on them |
| | `PagesAlwaysOwned` | each page is a table or data of one entry of one space, and is counted for exactly that |
| `InterruptProofs` | `CalloutsKeepPromise` | the callouts, driven by the interrupts, implement `TimerService` |
| | `MachineInvariance` | the inductive invariant of lines, traps, thresholds and pending bits |
| | `LinesAlwaysExact` | a line has the references of its handlers and of the traps that serve it, and is closed without any |
| | `NestingAlwaysRises` | a nested trap serves a line of higher priority |
| | `WallNeverAhead` | no tick is counted twice |

**Page pool.** The inductive invariant is

    Core == Listed /\ Partition(Heads, order, NrPages) /\ NotYetAdded
            /\ Counted /\ Merged /\ WindowOK
    IInv == TypeOK /\ (torn \/ Core)

where `Heads` has the pages between the two steps of a reservation as well. None of the
properties is inductive alone. The merge test reads only the order and the state bits of the
buddy's page. That this page heads a free cluster of exactly that order (and is linked in
exactly the list it is unlinked from) follows from two facts together: the clusters of
`Heads` are aligned and tile the area (`Partition`), so a page whose order is `k` and which
starts the buddy range is a head; and a head that is neither used nor reserved nor in `Half`
is linked, in the list of its order (`Listed`). `NotYetAdded` covers the time in which
`pfdb_add` fills the pool: pages it has not reached are reserved single pages; `WindowOK`
says that at most one page is between two steps. `Counted` carries the counters through. The
first lemmas show, for any partition, that joining a run of buddies and cutting one cluster
into halves give a partition again; `EnqueueStep` and `AdjustStep` connect the code's loops
to them, and `NextIInv` has one case per action. A merge stops at a buddy that is not free,
so that the cluster it leaves has no free twin (`Coalesced`); a split leaves pieces of
different orders. The sums of `UseAccounted` are cardinalities of the pages that have a
usage, and `UInv` adds that a page has one exactly while it heads a cluster in use. The
refinement follows from what the two kinds of steps do to the sets of used and reserved
pages (`ReturnEffect`, `TakeEffect`). The theorems about states hold until a merge has taken
a page between two steps (`torn`); `UsersStable` and `Refinement` hold of that merge as
well, because it joins pages that nobody uses.

**Slab allocator.** `CInv` (types, what the locals of a thread are worth, which slabs are
alive, `ObjectsConserved`) is inductive as long as no slab is given back, hence `Reapers =
{}` in `AlwaysConserved`. With reapers it needs that nobody is about to touch the slab that
goes, which is what `QInv` says: the queue of a slab by its count, the threads that know a
slab that is in no queue, and `slab_count` as the slabs that are linked. With two users and
a reaper this is false (finding `slab_free_race`), so those theorems are about one
user, as the run `slab_reap` is. `ObjectsConserved` is true of the instance of `slab_users` with
three users.

**Scheduler and mutex.** `IInv == TypeOK /\ SchedOK(k) /\ PcOK /\ Exclusive /\ NoLostWakeup`.
`SchedOK` is about the record of the scheduler: the bitmap is exact, queues hold no thread
twice and only threads of their priority and state, every thread but the current one is
where its state says, and the flags of the switch fit. One lemma per function of
`sched-queue.c` and `wqueue.c` says what it does to such a record (`AddThreadsUnfold` for
the loop of `wque_wakeup`), and each action of `Mutex` is composed of them. `PcOK` says what a
thread at a program counter may rely on; a sleeper is in the queue of the mutex or has
been taken out by a wakeup, and `NoLostWakeup` follows the one that was.

**Threads.** Inside a call of `thr-thread.c` the counters are not exact: a thread that exits
takes a reference to itself, gives up the ones of the tree and of its parent's list, and a
child that ends leaves its parent with the reference it held. `Life(u, P, c, h, n)`
therefore says that the record `u` is right with `n` references too many to the thread `h`.
Right means: the tree has the threads that have not ended, below the two that never end, and
the lists of children agree with it (`TreeOK`); a thread in `waiters` is dead, has this
parent and is in the list once (`WaitersOK`); a counter is what `RefsExact` counts
(`RefsOK`); a thread sleeps in its own queue, and one that was woken has a child to collect
(`WaitOK`); `SchedOK` holds and nothing has failed. `IInv` is `Life` without a surplus, with
the current thread out of all queues. Each function moves the surplus: `thr_ref_inc` adds
one (`Take`), the end of a thread makes its last reference a surplus one of its parent
(`LastRefKeeps`). The cascade ends within the number of threads: each that ends leaves the
tree, and the parent that inherits its surplus is still in it (`SomeStays`). `Kept` is what
the caller needs of the threads in no queue while the cascade wakes parents. The children of
a thread that exits move one by one (`MoveKeeps`), in whatever order the fold takes them.
`SchedLemmas` has the facts about the scheduler that these proofs share with those of the
mutex.

**Processes.** `Good`, the invariant while nothing has failed, follows the clients through
their calls. The references of a process are its queued threads and the calls in progress,
each counted once or, where a thread is joining or leaving, twice (`Using`). That a release
which brings the counter to 0 leaves no thread behind is then arithmetic, but only if the
queue is counted right: a thread is in one place of one queue, or belongs to the one client
that has created it and not queued it yet (`QueuesOK`), and a thread that ends is
still queued when its client takes it out. For the same reason the counter of a thread is
the number of clients that hold it plus one while it is queued (`ThreadRefs`); its number
goes back with the last of them, which `NumbersOK` needs: a number in use has an owner, so
that `ffc` finds a free one. `DoingMoves` says how the clients in a list of program counters
change with the step of one client; with it every action is about numbers 0, 1 and 2. The
theorems say nothing of `proc_find_thread`, whose `kassert`s fail (finding 2); they
hold up to that point, and so do not depend on it.

**Page tables.** `VmIInv` says that, until a `kassert` fails, `TablesGood` and `Jobs` hold.
`TablesGood` asks for two functions: `L` gives each frame that is a table its level, and `R`
a page of a region that is looked up through it. With them the tables are trees (`Tree`): the
entries of all tables refer to different frames, an entry leads to a table one level below
or to a page that is none, a table's count is one and its entries, and the addresses
below an entry are those of the entry. The last part is what keeps `grow_pgtbl`, which does
not ask whether an entry is a leaf, out of the pages of data: an entry on the way of a small
page that were a large page would put two pages of regions of different sizes below the same
entry (`NoLargerLeaf`). In the same way no entry of a small page hides in the region of a
large one (`NoSmallerLeaf`), so that a copy finds pages of its own size at its own addresses
only (`PageFound`). Therefore `Jobs` has to say that each call stays in the region its
caller named. Inside an operation the trees are not quite right, and `Sound(u, L, R, X, h, n)`
says by how much: the pages `X` are given back and still mapped (`hal_pgtbl_remove` drops
the page before its entry), and the cluster `h` of `n` pages is counted and not mapped yet
(`vm_map_common`, `vm_copy_range`). Every function is a lemma that moves from one such state
to another. Growing adds a table with no entries before it is linked (`NewTable`, `PutTable`),
and every level leaves the walk ready for the next (`Ready`) or finished (`Ended`). Removal
(`Rising`) clears entries from below; a table that has lost its last entry is dropped
only after the entry above it is gone, so that nothing refers to it (`FreeTable`), which is
what its count of 1 at the `kassert` of `rv64-pgtbl.c:288` rests on. `FoundIn` says that
`hal_pgtbl_extract` and the first loop of `remove_table_reference` find the same entry. The
theorems are about `VmSpec`, address spaces by themselves; the bytes of pages play no part.

**Pages of processes.** In `ProcSpec` a process has one page beside its tables, so that its
tables can be named: `Accounted` assigns every page that is taken to the base table, the two
lower tables or the stack of one process, or to the kernel stack of one thread, and says
which entries lead from one to the other. `PInv` asks this of the processes that exist
(`Full`), those that have only a base table yet (`InStep("stack")`) and the threads; the number
of pages taken follows. Each action that takes or releases pages moves one of these sets by
one element, along the loops over segments and pages of `free_user_process`; that two
clients do not release one process is part of `Good`, which `PInv` is proved beside.

**Page cache.** `PCACHE_STATE_BUSY` excludes two workers because a thread takes a page out
of the LRU queue, whose pages are never busy (`LruOK`), or registers one that it alone
knows (`InsertOK`). An update survives because a valid registered page is the latest
(`DataOK`) and only the shrinker drops a last reference (`RefsOK`), to a page that it has
written back (`WorkersOK`). The deviations of section 4 are part of the model: the theorems
hold up to the failed assertion that `stopped` records.

**Locks.** `CpusOK` relates the program counters of a thread and of the handler on top of it to
the interrupt flag and the flag that was saved; `LockOK` makes the lock word the sign of
an owner, and `RefsOK` the counter the number of references held. Threads hold at most
`MaxHeld` references; the proof fixes `MaxHeld == 2`, the number of CPUs is free.

**Queues and lists.** `Stop(q, h, e, i)` is the `i`-th place of the chain from the head `h` over
the elements of `q` to its end `e`, which for a queue is `h` again. `LinksIInv` says that for
each queue `next` leads from every stop to the following one and `prev` back (`Ring`), that no
element is in two places (`OrderOK`), that an element in no queue is linked to itself, and
the same of the singly linked list with `Nil` as its end (`ChainOK`). What the assignments of
a function do in sequence is one change of at most two links in each direction (`Joined`,
`Parted`): this needs that the node is not one of its neighbours, which is why the
self-linked elements belong to the invariant. Stops before the place keep their number and
those behind it shift by one (`InsertedStop`, `RemovedStop`); rings without the
place are disjoint from it (`OtherRing`). A walk ends, because a ring is an injection into
the finite set of elements (`WalkIs`).

**Callouts.** An armed callout's entry is queued once and belongs to its user (`QueueOK`,
`OwnerOK`, `HandleOK`), so that who takes it or removes it ends that callout and no other.
`TimeOK` has the carry of the nanoseconds: the time of an entry is the one asked for, or a
second later. `queue_add_sort` inserts anywhere in the sense of `InsertAtFacts`; the
promise does not need the order. The mapping to `TimerService` is proved step by step.

**Interrupts.** `MachineInv == TrapsInv /\ WallInv`, where `TrapsInv` joins the lines
(`LinesOK`: references, tree, handlers, what the last accepted driver has configured), the
stack of traps (`FramesOK`), the thresholds saved in it (`MasksOK`) and its top frame
(`TopOK`). The difficult fact is that no line is served twice, without which a line's
references cannot be told from its handlers. A trap below the top has called a nestable
handler, so it serves a line of the PLIC and has raised the threshold to its priority;
`irqline_put` of a line that is shut down may only raise the threshold further, and the end
of a nested trap puts back the one that it found. What the claim register shows is above the
threshold, so a new trap finds only lines of higher priority, and none that is being served.
`Touch` says which fields of the record `q` a function of `irq.c` or of a controller may
change, so that each lemma about one of them is about those fields only. `WallInv` uses that
the timer is not nestable: only a tick changes its pending bits while its handler runs.

Where a queue is a sequence, the module begins with lemmas about sequences without
repetition: an element removed, inserted, taken from the front or appended. The library's
induction theorems cannot be used here; where a fact about all numbers is needed
(`PowerPositive`, the recursive functions `AddThreads`, `Ancestor` and `RefGone`, the fold of
`handle_orphan_thread`), it is proved by its least counterexample (`LeastNatural`).

Only model-checked:

- `TranslationExact`, which follows the bytes of every page through the calls.
  `PagesAlwaysOwned` is proved of `VmSpec`, `PagesAlwaysGivenBack` of `ProcSpec`.
- `TreesCorrect`, `HeapSound`, `FunctionsCorrect` (with the map of processors, whose index
  is a red-black tree), and `ParseRight`, `ValuesRight`, `RoundTrip`, `ConfAsksAll` and
  `HeadersFollow` of the configuration tool: they use RECURSIVE operators. What such a
  definition computes (a splay, the digits of a number, the simplification of an expression)
  is compared with a reference definition over all bounded inputs instead.
- All the liveness properties, which are out of the prover's reach.

## 6. Not modelled

- The search over several memory areas, address conversions, map counts and
  `pgif_calc_page_order` of the page allocator.
- `kmalloc` and `kfree` (a choice of a cache), the layout of slabs and their colouring, the
  nested allocation of off-slab information.
- Thread identifiers, stacks and failed thread creation; asynchronous events; the
  preemption counters, which have no callers.
- A handler that unregisters another one's handler while it runs (it may unregister itself).
- The bounds of the file system image; I/O errors (the strategy function has none).
- The cache geometry in the map of processors; the saving of registers at a trap and at a
  context switch; the console; the layout of registers.
- The recursive spinlock, which has no caller; the atomics that are one instruction; the
  Mersenne twister.
- The contents of the memory the early allocator manages, and the parts of it that the
  kernel does not compile (locks, `mmap`, `mspace`); a caller that misuses it, which the
  program answers by stopping.
- In the configuration tool: the scanner, help and search screens, environment symbols and
  defconfig lists; `menuconfig` entries of menu files; the variable `KCONFIG_OVERWRITECONFIG`,
  with which a file is written in place, and what is in files whose name ends in `.old`.
  The graphical front ends (`qconf.cc`, `gconf.c`) show the same state in
  windows: they decide layout only.
- The user-land HAL, which replaces the hardware by host memory for the tests, the boot
  sequence, whose result are the initial states of the modules, and the tests.

## 7. Plan

Done: the page pool, slab allocator, scheduler, wait queues and mutex,
thread life, page cache, interrupts and time, address spaces and processes, the library,
the early allocator and the configuration tool; the proofs of section 5. To come:

1. Proofs: `TranslationExact`, for which `Tree` gives the walk and which needs that the pages
   of different spaces keep their bytes apart.
2. Several memory areas, off-slab growth, and a composition of `Slab` over
   `PageAllocator`.
3. Thread identifiers and the failure of thread creation, shared by `ThreadLife` and `Proc`.

A question that can be asked of an instance that exists joins its run; new runs are for new
components.
