-------------------------------- MODULE Slab --------------------------------
(***************************************************************************)
(* One kernel memory cache of the slab allocator (kern/page-slab.c):       *)
(* kmem_cache with its partial, full and free queues of slabs.             *)
(*                                                                         *)
(* Users allocate and free objects, reapers shrink the cache and destroy   *)
(* it.  A step is one critical section of cache->lock or of a slab's own   *)
(* lock, or a call of the page allocator; the two locks are never nested,  *)
(* so that other CPUs (or an interrupt handler) run between the steps of a *)
(* single allocation or release.                                           *)
(*                                                                         *)
(* A failed kassert stops the kernel (include/klib/kassert.h): the model   *)
(* records it in panicked and takes no further step.                       *)
(***************************************************************************)
EXTENDS Integers, FiniteSets

CONSTANTS
    Users,         \* threads that call slab_kmem_cache_alloc and _free
    Reapers,       \* threads that call slab_kmem_cache_reap and _destroy
    Slabs,         \* the page clusters the page allocator can give the cache
    ObjsPerSlab,   \* cache->objs_per_slab
    Limits         \* cache->limits

ASSUME SlabAssumption ==
    /\ ObjsPerSlab \in Nat \ {0}
    /\ Limits \in Nat
    /\ Users \cap Reapers = {}
    /\ IsFiniteSet(Slabs) /\ IsFiniteSet(Users) /\ IsFiniteSet(Reapers)

Procs == Users \cup Reapers
Objs  == 1..ObjsPerSlab

NoSlab == "NoSlab"
ASSUME NoSlabAssumption == NoSlab \notin Slabs

VARIABLES
    live,        \* slabs whose pages are taken from the page allocator
    queue,       \* the queue sinfo->link is in: partial, full, free or none
    count,       \* sinfo->count
    objects,     \* sinfo->objects, the free objects of a slab
    slab_count,  \* cache->slab_count
    held,        \* objects handed out, as <<slab, object>>
    pc, sinfo, obj,   \* control state and locals of a thread
    panicked     \* a kassert failed or a NULL object was used

cache == <<live, queue, count, objects, slab_count>>
local == <<pc, sinfo, obj>>
vars  == <<cache, held, local, panicked>>

Queued(q) == {s \in Slabs : queue[s] = q}

goto(p, l) == pc' = [pc EXCEPT ![p] = l]

\* kassert(c): the branch of an action that is taken when c is false.
Panic == panicked' = TRUE /\ UNCHANGED <<cache, held, local>>

Init ==
    /\ live = {}
    /\ queue = [s \in Slabs |-> "none"]
    /\ count = [s \in Slabs |-> 0]
    /\ objects = [s \in Slabs |-> {}]
    /\ slab_count = 0
    /\ held = {}
    /\ pc = [p \in Procs |-> "idle"]
    /\ sinfo = [p \in Procs |-> NoSlab]
    /\ obj = [p \in Procs |-> 0]
    /\ panicked = FALSE

-----------------------------------------------------------------------------
(* slab_kmem_cache_alloc.                                                  *)

NeverFull(p, s) ==     \* a faulty variant
    /\ count' = [count EXCEPT ![s] = @ + 1]
    /\ queue' = [queue EXCEPT ![s] = "partial"]
    /\ sinfo' = [sinfo EXCEPT ![p] = s]
    /\ goto(p, "alloc_obj")

(* The end of the critical section: the object is counted before it is     *)
(* taken, and a slab without a free object moves to the full queue.        *)
CountObject(p, s) ==
    /\ count' = [count EXCEPT ![s] = @ + 1]
    /\ queue' = [queue EXCEPT
           ![s] = IF count[s] + 1 = ObjsPerSlab THEN "full" ELSE "partial"]
    /\ sinfo' = [sinfo EXCEPT ![p] = s]
    /\ goto(p, "alloc_obj")

\* The slab to allocate from: a partial one, else a free one, else a new one.
slab_kmem_cache_alloc(p) ==
    /\ pc[p] = "idle"
    /\ IF Queued("partial") # {}
       THEN \E s \in Queued("partial") : CountObject(p, s)
       ELSE IF Queued("free") # {}
            THEN \E s \in Queued("free") : CountObject(p, s)
            ELSE goto(p, "grow") /\ UNCHANGED <<count, queue, sinfo>>
    /\ UNCHANGED <<live, objects, slab_count, held, obj, panicked>>

(* slab_kmem_cache_grow takes a page cluster, or fails with -ENOMEM.  A    *)
(* slab off the page fails too when kmalloc has no memory for slab or      *)
(* kmem_bufctl, after which the pages are given back.                      *)
slab_kmem_cache_grow(p) ==
    /\ pc[p] = "grow"
    /\ \/ \E s \in Slabs \ live :
            /\ live' = live \cup {s}
            /\ queue' = [queue EXCEPT ![s] = "none"]
            /\ count' = [count EXCEPT ![s] = 0]
            /\ objects' = [objects EXCEPT ![s] = Objs]
            /\ sinfo' = [sinfo EXCEPT ![p] = s]
            /\ goto(p, "link")
       \/ goto(p, "idle") /\ UNCHANGED <<live, queue, count, objects, sinfo>>
    /\ UNCHANGED <<slab_count, held, obj, panicked>>

\* Back in the critical section with the new slab.
LinkNewSlab(p) ==
    LET s == sinfo[p] IN
    /\ pc[p] = "link"
    /\ IF queue[s] # "none" THEN Panic
       ELSE /\ slab_count' = slab_count + 1
            /\ CountObject(p, s)
            /\ UNCHANGED <<live, objects, held, obj, panicked>>

\* alloc_slab_obj: takes the first free object, which must be there.
alloc_slab_obj(p) ==
    LET s == sinfo[p] IN
    /\ pc[p] = "alloc_obj"
    /\ IF objects[s] = {} THEN Panic
       ELSE \E o \in objects[s] :
              /\ objects' = [objects EXCEPT ![s] = @ \ {o}]
              /\ held' = held \cup {<<s, o>>}
              /\ sinfo' = [sinfo EXCEPT ![p] = NoSlab]
              /\ goto(p, "idle")
              /\ UNCHANGED <<live, queue, count, slab_count, obj, panicked>>

-----------------------------------------------------------------------------
(* slab_kmem_cache_free of the object o of slab s.                         *)

FreeQueueAtOnce(s) ==  \* a faulty variant
    IF count[s] = 1 THEN "free" ELSE "partial"

\* The queue of a slab that loses an object; none while it is the last one.
QueueAfterFree(s) == IF count[s] = 1 THEN "none" ELSE "partial"

slab_kmem_cache_free(p) ==
    /\ pc[p] = "idle"
    /\ \E s \in Slabs, o \in Objs :
         /\ <<s, o>> \in held
         /\ IF count[s] = 0 THEN Panic
            ELSE /\ count' = [count EXCEPT ![s] = @ - 1]
                 /\ queue' = [queue EXCEPT ![s] = QueueAfterFree(s)]
                 /\ held' = held \ {<<s, o>>}
                 /\ sinfo' = [sinfo EXCEPT ![p] = s]
                 /\ obj' = [obj EXCEPT ![p] = o]
                 /\ goto(p, "free_obj")
                 /\ UNCHANGED <<live, objects, slab_count, panicked>>

PutNothing(s, o) == objects' = [objects EXCEPT ![s] = @ \ {o}]   \* a faulty variant

\* slist_add to the free objects.
PutObject(s, o) == objects' = [objects EXCEPT ![s] = @ \cup {o}]

\* free_slab_obj.
free_slab_obj(p) ==
    /\ pc[p] = "free_obj"
    /\ IF obj[p] \in objects[sinfo[p]] THEN Panic
       ELSE /\ PutObject(sinfo[p], obj[p])
            /\ goto(p, "freed")
            /\ UNCHANGED <<live, queue, count, slab_count, held, sinfo, obj, panicked>>

LeftUnlinked(s) == FALSE   \* a faulty variant

\* Does the slab go to the free queue?
Unused(s) == count[s] = 0

\* The second critical section of slab_kmem_cache_free.
LinkUnusedSlab(p) ==
    LET s == sinfo[p] IN
    /\ pc[p] = "freed"
    /\ IF Unused(s) /\ queue[s] # "none" THEN Panic
       ELSE /\ queue' = IF Unused(s) THEN [queue EXCEPT ![s] = "free"] ELSE queue
            /\ sinfo' = [sinfo EXCEPT ![p] = NoSlab]
            /\ obj' = [obj EXCEPT ![p] = 0]
            /\ goto(p, "idle")
            /\ UNCHANGED <<live, count, objects, slab_count, held, panicked>>

-----------------------------------------------------------------------------
(* slab_kmem_cache_reap and slab_kmem_cache_destroy.  The control states   *)
(* reap, force and wipe stand at the head of the loop of a reap down to    *)
(* the limit, of a forced one and of the forced one that destroy calls;    *)
(* destroy stands at the head of the loop of slab_kmem_cache_destroy.      *)

Loops == {"reap", "force", "wipe"}

\* The control state inside a loop, while the pages of a slab are given back.
GivingBack == [reap |-> "reap_free", force |-> "force_free", wipe |-> "wipe_free"]

BeginReap(p) ==
    /\ pc[p] = "idle"
    /\ \E l \in {"reap", "force", "destroy"} : goto(p, l)
    /\ UNCHANGED <<cache, held, sinfo, obj, panicked>>

\* The loop condition and the early exit of slab_kmem_cache_reap.
ReapMore(l) == Queued("free") # {} /\ (l = "reap" => slab_count > Limits)

\* One iteration up to the unlock: takes a slab out of the free queue.
slab_kmem_cache_reap(p, l) ==
    /\ pc[p] = l
    /\ IF ReapMore(l)
       THEN /\ \E s \in Queued("free") :
                 /\ queue' = [queue EXCEPT ![s] = "none"]
                 /\ sinfo' = [sinfo EXCEPT ![p] = s]
            /\ slab_count' = slab_count - 1
            /\ goto(p, GivingBack[l])
       ELSE /\ goto(p, IF l = "wipe" THEN "destroy" ELSE "idle")
            /\ UNCHANGED <<queue, sinfo, slab_count>>
    /\ UNCHANGED <<live, count, objects, held, obj, panicked>>

\* free_slab_info gives the pages of the slab back, outside the lock.
free_slab_info(p, l) ==
    /\ pc[p] = GivingBack[l]
    /\ live' = live \ {sinfo[p]}
    /\ sinfo' = [sinfo EXCEPT ![p] = NoSlab]
    /\ goto(p, l)
    /\ UNCHANGED <<queue, count, objects, slab_count, held, obj, panicked>>

\* KMEM_CACHE_IS_BUSY
Busy == Queued("partial") \cup Queued("full") # {}

\* slab_kmem_cache_destroy reaps while all the slabs there are are free.
slab_kmem_cache_destroy(p) ==
    /\ pc[p] = "destroy"
    /\ goto(p, IF Queued("free") # {} /\ ~ Busy THEN "wipe" ELSE "idle")
    /\ UNCHANGED <<cache, held, sinfo, obj, panicked>>

-----------------------------------------------------------------------------
Continue(p) ==
    \/ slab_kmem_cache_grow(p) \/ LinkNewSlab(p) \/ alloc_slab_obj(p)
    \/ free_slab_obj(p) \/ LinkUnusedSlab(p)
    \/ slab_kmem_cache_destroy(p)
    \/ \E l \in Loops :
         slab_kmem_cache_reap(p, l) \/ free_slab_info(p, l)

Next ==
    /\ ~ panicked
    /\ \/ \E p \in Users : slab_kmem_cache_alloc(p) \/ slab_kmem_cache_free(p)
       \/ \E p \in Reapers : BeginReap(p)
       \/ \E p \in Procs : Continue(p)

\* A thread inside the allocator holds no lock between its steps and goes on.
Spec ==
    /\ Init /\ [][Next]_vars
    /\ \A p \in Procs : WF_vars(~ panicked /\ Continue(p))

-----------------------------------------------------------------------------
(* Properties.                                                             *)

Held(s)       == {o \in Objs : <<s, o>> \in held}
Freeing(s)    == {p \in Procs : pc[p] = "free_obj" /\ sinfo[p] = s}
Allocating(s) == {p \in Procs : pc[p] = "alloc_obj" /\ sinfo[p] = s}
Privately(s)  == {p \in Procs : sinfo[p] = s}

(* An object of a slab is free, handed out or on its way back, and only    *)
(* one of them: it never has two owners and is never lost, and the count   *)
(* says how many are handed out or promised to an allocation under way.    *)
ObjectsConserved ==
    \A s \in live :
        /\ objects[s] \cap Held(s) = {}
        /\ \A p \in Freeing(s) :
             /\ obj[p] \notin objects[s] \cup Held(s)
             /\ \A r \in Freeing(s) \ {p} : obj[r] # obj[p]
        /\ Objs = objects[s] \cup Held(s) \cup {obj[p] : p \in Freeing(s)}
        /\ count[s] = Cardinality(Held(s)) + Cardinality(Allocating(s))

(* The queue a slab is in tells how many of its objects are in use, a slab *)
(* in no queue belongs to exactly one thread, and slab_count counts the    *)
(* slabs that are neither being linked nor being given back: no kassert of *)
(* the allocator fails and no allocation finds the list of objects empty.  *)
QueuesMatchCounts ==
    /\ ~ panicked
    /\ \A s \in live :
         /\ queue[s] = "full" <=> count[s] = ObjsPerSlab
         /\ queue[s] = "partial" <=> count[s] \in 1..(ObjsPerSlab - 1)
         /\ queue[s] = "none" => Cardinality(Privately(s)) = 1
    /\ \A s \in Slabs \ live : queue[s] = "none"
    /\ slab_count = Cardinality(live)
                    - Cardinality({p \in Procs : pc[p] = "link"})
                    - Cardinality({p \in Procs : \E l \in Loops : pc[p] = GivingBack[l]})

(* The pages of a slab are not given back while a thread still works on    *)
(* its list of objects, or holds one of them.                              *)
NotReapedInUse ==
    /\ \A p \in Users : sinfo[p] # NoSlab => sinfo[p] \in live
    /\ \A s \in Slabs : Held(s) # {} => s \in live

(* A slab whose last object was returned becomes available again: it gets  *)
(* to the free queue unless it is used or given back first.                *)
EmptySlabQueued ==
    \A s \in Slabs :
        (s \in live /\ count[s] = 0) ~>
            (queue[s] = "free" \/ count[s] > 0 \/ s \notin live)
=============================================================================
