----------------------------- MODULE SlabProofs -----------------------------
(***************************************************************************)
(* Proofs about the slab cache of Slab.  What a slab holds is exact for    *)
(* any number of users as long as no pages are given back under them; with *)
(* one user and any number of reapers they never are, the queues tell the  *)
(* truth and no assertion of the allocator fails.                          *)
(***************************************************************************)
EXTENDS Slab, FiniteSetTheorems, TLAPS

UserLocs == {"grow", "link", "alloc_obj", "free_obj", "freed"}
WorkLocs == {"link", "alloc_obj", "free_obj", "freed"}
GiveLocs == {"reap_free", "force_free", "wipe_free"}
ReapLocs == {"reap", "force", "wipe", "destroy"} \cup GiveLocs

TypeOK ==
    /\ live \subseteq Slabs
    /\ queue \in [Slabs -> {"partial", "full", "free", "none"}]
    /\ count \in [Slabs -> Nat]
    /\ objects \in [Slabs -> SUBSET Objs]
    /\ slab_count \in Int
    /\ held \subseteq Slabs \X Objs
    /\ pc \in [Procs -> {"idle"} \cup UserLocs \cup ReapLocs]
    /\ sinfo \in [Procs -> Slabs \cup {NoSlab}]
    /\ obj \in [Procs -> Nat]
    /\ panicked \in BOOLEAN

\* Where a thread is, and what it then has in its locals.
LocalsOK ==
    /\ \A p \in Users : pc[p] \notin ReapLocs
    /\ \A p \in Reapers : pc[p] \notin UserLocs
    /\ \A p \in Procs : sinfo[p] = NoSlab <=> pc[p] \notin WorkLocs \cup GiveLocs
    /\ \A p \in Procs : pc[p] = "free_obj" => obj[p] \in Objs

\* The slabs that users work on, and those of which they hold objects.
LiveOK ==
    /\ \A p \in Users : sinfo[p] # NoSlab => sinfo[p] \in live
    /\ \A h \in held : h[1] \in live
    /\ \A s \in Slabs \ live : queue[s] = "none"

CInv == TypeOK /\ LocalsOK /\ LiveOK /\ ObjectsConserved

-----------------------------------------------------------------------------
\* The queue a slab is in, by its count, and the threads that know the slab.
QueueOK ==
    \A s \in live :
        /\ queue[s] = "full" <=> count[s] = ObjsPerSlab
        /\ queue[s] = "partial" <=> count[s] \in 1 .. (ObjsPerSlab - 1)
        /\ count[s] <= ObjsPerSlab
        /\ queue[s] = "free" => Privately(s) = {}
        /\ queue[s] = "none" => \E p \in Procs : Privately(s) = {p}

\* A slab that is linked for the first time or given back is in no queue.
ApartOK ==
    \A p \in Procs : pc[p] \in {"link"} \cup GiveLocs => sinfo[p] \in live /\ queue[sinfo[p]] = "none"

Linking == {p \in Procs : pc[p] = "link"}
Giving  == {p \in Procs : pc[p] \in GiveLocs}
CountOK == slab_count = Cardinality(live) - Cardinality(Linking) - Cardinality(Giving)

QInv == ~ panicked /\ QueueOK /\ ApartOK /\ CountOK

-----------------------------------------------------------------------------
(* The objects of a slab.                                                  *)

Conserved(s) ==
    /\ objects[s] \cap Held(s) = {}
    /\ \A p \in Freeing(s) :
         /\ obj[p] \notin objects[s] \cup Held(s)
         /\ \A r \in Freeing(s) \ {p} : obj[r] # obj[p]
    /\ Objs = objects[s] \cup Held(s) \cup {obj[p] : p \in Freeing(s)}
    /\ count[s] = Cardinality(Held(s)) + Cardinality(Allocating(s))

LEMMA EachConserved == ObjectsConserved <=> \A s \in live : Conserved(s)
BY DEF ObjectsConserved, Conserved

LEMMA Finite ==
  /\ IsFiniteSet(Procs) /\ IsFiniteSet(Objs) /\ Cardinality(Objs) = ObjsPerSlab
  /\ \A s : IsFiniteSet(Held(s)) /\ IsFiniteSet(Allocating(s)) /\ IsFiniteSet(Privately(s))
  /\ IsFiniteSet(Linking) /\ IsFiniteSet(Giving)
<1>1. IsFiniteSet(Procs)
  BY SlabAssumption, FS_Union DEF Procs
<1>2. 1 \in Int /\ ObjsPerSlab \in Int /\ ~ (1 > ObjsPerSlab) /\ ObjsPerSlab - 1 + 1 = ObjsPerSlab
  BY SlabAssumption
<1>3. IsFiniteSet(Objs) /\ Cardinality(Objs) = ObjsPerSlab
  BY <1>2, FS_Interval DEF Objs
<1>4. ASSUME NEW s
      PROVE  IsFiniteSet(Held(s)) /\ IsFiniteSet(Allocating(s)) /\ IsFiniteSet(Privately(s))
  <2>1. Held(s) \subseteq Objs /\ Allocating(s) \subseteq Procs /\ Privately(s) \subseteq Procs
    BY DEF Held, Allocating, Privately
  <2> QED
    BY <1>1, <1>3, <2>1, FS_Subset
<1>5. IsFiniteSet(Linking) /\ IsFiniteSet(Giving)
  BY <1>1, FS_Subset DEF Linking, Giving
<1> QED
  BY <1>1, <1>3, <1>4, <1>5

\* A slab whose objects a step does not concern.
LEMMA ConservedKept ==
  ASSUME NEW s, Conserved(s), objects'[s] = objects[s], count'[s] = count[s],
         Held(s)' = Held(s), Allocating(s)' = Allocating(s), Freeing(s)' = Freeing(s),
         \A r \in Freeing(s) : obj'[r] = obj[r]
  PROVE  Conserved(s)'
<1>1. {obj'[r] : r \in Freeing(s)'} = {obj[r] : r \in Freeing(s)}
  OBVIOUS
<1> QED
  BY <1>1 DEF Conserved

\* A step of p that takes no part in an allocation or a release.
LEMMA QuietStep ==
  ASSUME CInv, NEW p \in Procs, live' \subseteq live,
         UNCHANGED <<objects, count, held, obj>>,
         pc[p] \notin {"alloc_obj", "free_obj"}, pc'[p] \notin {"alloc_obj", "free_obj"},
         \A r \in Procs \ {p} : pc'[r] = pc[r] /\ sinfo'[r] = sinfo[r]
  PROVE  ObjectsConserved'
<1> SUFFICES ASSUME NEW s \in live' PROVE Conserved(s)'
  BY DEF ObjectsConserved, Conserved
<1>1. Conserved(s)
  BY EachConserved DEF CInv
<1>2. Held(s)' = Held(s)
  BY DEF Held
<1>3. Allocating(s)' = Allocating(s) /\ Freeing(s)' = Freeing(s)
  BY DEF Allocating, Freeing
<1> QED
  BY <1>1, <1>2, <1>3, ConservedKept

\* An object of s is counted for p, before p takes it.
LEMMA Counted ==
  ASSUME CInv, NEW p \in Users, NEW s \in live, CountObject(p, s),
         pc[p] \in {"idle", "link"}, UNCHANGED <<live, objects, held, obj, panicked>>, slab_count' \in Int
  PROVE  TypeOK' /\ LocalsOK' /\ LiveOK' /\ ObjectsConserved'
<1> USE DEF CInv
<1>1. s \in Slabs /\ p \in Procs /\ pc[p] \notin {"alloc_obj", "free_obj"}
  BY DEF TypeOK, Procs
<1>2. /\ count' = [count EXCEPT ![s] = @ + 1]
      /\ sinfo' = [sinfo EXCEPT ![p] = s] /\ pc' = [pc EXCEPT ![p] = "alloc_obj"]
      /\ \E l \in {"full", "partial"} : queue' = [queue EXCEPT ![s] = l]
  BY DEF CountObject, goto
<1>3. TypeOK'
  BY <1>1, <1>2 DEF TypeOK, UserLocs
<1>4. /\ pc'[p] = "alloc_obj" /\ sinfo'[p] = s /\ count'[s] = count[s] + 1
      /\ \A r \in Procs \ {p} : pc'[r] = pc[r] /\ sinfo'[r] = sinfo[r]
      /\ \A t \in Slabs \ {s} : count'[t] = count[t] /\ queue'[t] = queue[t]
  BY <1>1, <1>2 DEF TypeOK
<1>5. LocalsOK'
  BY <1>1, <1>4, SlabAssumption, NoSlabAssumption DEF LocalsOK, WorkLocs, ReapLocs, GiveLocs, Procs
<1>6. LiveOK'
  BY <1>1, <1>4 DEF LiveOK, Procs
<1>7. ASSUME NEW t \in live PROVE Conserved(t)'
  <2>1. Conserved(t) /\ t \in Slabs
    BY EachConserved DEF TypeOK
  <2>2. Held(t)' = Held(t)
    BY DEF Held
  <2>3. Freeing(t)' = Freeing(t)
    BY <1>1, <1>4 DEF Freeing
  <2>4. CASE t # s
    <3>1. Allocating(t)' = Allocating(t)
      BY <1>1, <1>4, <2>4 DEF Allocating
    <3> QED
      BY <1>4, <2>1, <2>2, <2>3, <2>4, <3>1, ConservedKept
  <2>5. CASE t = s
    <3>1. Allocating(t)' = Allocating(t) \cup {p} /\ p \notin Allocating(t)
      BY <1>1, <1>4, <2>5 DEF Allocating
    <3>2. /\ Cardinality(Allocating(t)') = Cardinality(Allocating(t)) + 1
          /\ Cardinality(Allocating(t)) \in Nat /\ Cardinality(Held(t)) \in Nat
      BY <3>1, Finite, FS_AddElement, FS_CardinalityType
    <3>3. count[t] + 1 = Cardinality(Held(t)) + Cardinality(Allocating(t)')
      BY <2>1, <3>2 DEF Conserved
    <3> QED
      BY <1>4, <2>1, <2>2, <2>3, <2>5, <3>3 DEF Conserved
  <2> QED
    BY <2>4, <2>5
<1> QED
  BY <1>3, <1>5, <1>6, <1>7 DEF ObjectsConserved, Conserved

-----------------------------------------------------------------------------
(* Each step keeps the objects, the steps of a reaper as long as no user   *)
(* works with the slab that is given back.                                 *)

LEMMA CPanic ==
  ASSUME CInv, Panic
  PROVE  CInv'
<1>1. /\ UNCHANGED <<live, queue, count, objects, slab_count, held, pc, sinfo, obj>>
      /\ panicked' \in BOOLEAN
  BY Zenon DEF Panic, cache, local
<1>2. TypeOK'
  BY <1>1 DEF CInv, TypeOK
<1>3. LocalsOK' /\ LiveOK'
  BY <1>1 DEF CInv, LocalsOK, LiveOK
<1>4. \A s : Held(s)' = Held(s) /\ Freeing(s)' = Freeing(s) /\ Allocating(s)' = Allocating(s)
  BY <1>1 DEF Held, Freeing, Allocating
<1>5. ObjectsConserved'
  <2> SUFFICES ASSUME NEW s \in live' PROVE Conserved(s)'
    BY DEF ObjectsConserved, Conserved
  <2>1. Conserved(s)
    BY <1>1, EachConserved DEF CInv
  <2> QED
    BY <1>1, <1>4, <2>1, ConservedKept
<1> QED
  BY <1>2, <1>3, <1>5 DEF CInv

LEMMA CAlloc ==
  ASSUME CInv, NEW p \in Users, slab_kmem_cache_alloc(p)
  PROVE  CInv'
<1> USE DEF CInv
<1>1. pc[p] = "idle" /\ p \in Procs /\ UNCHANGED <<live, objects, slab_count, held, obj, panicked>>
  BY DEF slab_kmem_cache_alloc, Procs
<1>2. \A s \in Slabs : queue[s] \in {"partial", "free"} => s \in live
  BY DEF LiveOK
<1>3. CASE \E s \in Queued("partial") \cup Queued("free") : CountObject(p, s)
  <2>1. PICK s \in Queued("partial") \cup Queued("free") : CountObject(p, s)
    BY <1>3
  <2>2. s \in live
    BY <1>2, <2>1 DEF Queued
  <2>3. slab_count' \in Int
    BY <1>1 DEF TypeOK
  <2> QED
    BY <1>1, <2>1, <2>2, <2>3, Counted
<1>4. CASE goto(p, "grow") /\ UNCHANGED <<count, queue, sinfo>>
  <2>1. pc' = [pc EXCEPT ![p] = "grow"]
    BY <1>4 DEF goto
  <2>2. TypeOK'
    BY <1>1, <1>4, <2>1 DEF TypeOK, UserLocs
  <2>3. pc'[p] = "grow" /\ \A r \in Procs \ {p} : pc'[r] = pc[r] /\ sinfo'[r] = sinfo[r]
    BY <1>1, <1>4, <2>1 DEF TypeOK
  <2>4. LocalsOK'
    BY <1>1, <1>4, <2>3, SlabAssumption DEF LocalsOK, WorkLocs, ReapLocs, GiveLocs, Procs
  <2>5. LiveOK'
    BY <1>1, <1>4 DEF LiveOK
  <2>6. ObjectsConserved'
    BY <1>1, <1>4, <2>3, QuietStep
  <2> QED
    BY <2>2, <2>4, <2>5, <2>6
<1> QED
  BY <1>3, <1>4 DEF slab_kmem_cache_alloc

\* A new slab has all of its objects, and nobody knows it yet.
LEMMA CGrow ==
  ASSUME CInv, NEW p \in Procs, slab_kmem_cache_grow(p)
  PROVE  CInv'
<1> USE DEF CInv
<1>0. p \in Users /\ pc[p] = "grow" /\ UNCHANGED <<slab_count, held, obj, panicked>>
  BY DEF slab_kmem_cache_grow, LocalsOK, UserLocs, Procs
<1>1. ASSUME NEW s \in Slabs \ live,
             live' = live \cup {s}, queue' = [queue EXCEPT ![s] = "none"],
             count' = [count EXCEPT ![s] = 0], objects' = [objects EXCEPT ![s] = Objs],
             sinfo' = [sinfo EXCEPT ![p] = s], pc' = [pc EXCEPT ![p] = "link"]
      PROVE  CInv'
  <2>1. TypeOK'
    BY <1>0, <1>1 DEF TypeOK, UserLocs
  <2>2. /\ pc'[p] = "link" /\ sinfo'[p] = s /\ count'[s] = 0 /\ objects'[s] = Objs /\ queue'[s] = "none"
        /\ \A r \in Procs \ {p} : pc'[r] = pc[r] /\ sinfo'[r] = sinfo[r]
        /\ \A t \in Slabs \ {s} : count'[t] = count[t] /\ objects'[t] = objects[t] /\ queue'[t] = queue[t]
    BY <1>1 DEF TypeOK
  <2>3. LocalsOK'
    BY <1>0, <1>1, <2>2, SlabAssumption, NoSlabAssumption DEF LocalsOK, WorkLocs, ReapLocs, GiveLocs, Procs
  <2>4. LiveOK'
    BY <1>0, <1>1, <2>2 DEF LiveOK, Procs
  <2>5. ASSUME NEW t \in live PROVE Conserved(t)'
    <3>1. Conserved(t) /\ t \in Slabs \ {s}
      BY EachConserved DEF TypeOK
    <3>2. Held(t)' = Held(t)
      BY <1>0 DEF Held
    <3>3. Allocating(t)' = Allocating(t) /\ Freeing(t)' = Freeing(t)
      BY <1>0, <2>2 DEF Allocating, Freeing
    <3> QED
      BY <1>0, <2>2, <3>1, <3>2, <3>3, ConservedKept
  <2>6. Conserved(s)'
    <3>1. Held(s)' = {}
      BY <1>0, <1>1 DEF Held, LiveOK
    <3>2. \A r \in Procs : pc[r] \in {"alloc_obj", "free_obj"} => sinfo[r] \in live
      BY DEF LocalsOK, LiveOK, UserLocs, WorkLocs, Procs
    <3>3. Allocating(s)' = {} /\ Freeing(s)' = {}
      BY <1>1, <2>2, <3>2 DEF Allocating, Freeing
    <3>4. Cardinality({}) = 0
      BY FS_EmptySet
    <3> QED
      BY <2>2, <3>1, <3>3, <3>4 DEF Conserved
  <2>7. ObjectsConserved'
    BY <1>1, <2>5, <2>6 DEF ObjectsConserved, Conserved
  <2> QED
    BY <2>1, <2>3, <2>4, <2>7
<1>2. CASE goto(p, "idle") /\ UNCHANGED <<live, queue, count, objects, sinfo>>
  <2>1. pc' = [pc EXCEPT ![p] = "idle"]
    BY <1>2 DEF goto
  <2>2. TypeOK'
    BY <1>0, <1>2, <2>1 DEF TypeOK
  <2>3. pc'[p] = "idle" /\ \A r \in Procs \ {p} : pc'[r] = pc[r] /\ sinfo'[r] = sinfo[r]
    BY <1>2, <2>1 DEF TypeOK
  <2>4. LocalsOK'
    BY <1>0, <1>2, <2>3 DEF LocalsOK, UserLocs, WorkLocs, ReapLocs, GiveLocs, Procs
  <2>5. LiveOK'
    BY <1>0, <1>2 DEF LiveOK
  <2>6. ObjectsConserved'
    BY <1>0, <1>2, <2>3, QuietStep
  <2> QED
    BY <2>2, <2>4, <2>5, <2>6
<1> QED
  BY <1>1, <1>2 DEF slab_kmem_cache_grow, goto

LEMMA CLink ==
  ASSUME CInv, NEW p \in Procs, LinkNewSlab(p)
  PROVE  CInv'
<1> USE DEF CInv
<1>1. p \in Users /\ pc[p] = "link" /\ sinfo[p] \in live
  BY DEF LinkNewSlab, LocalsOK, LiveOK, UserLocs, WorkLocs, Procs
<1>2. CASE Panic
  BY <1>2, CPanic
<1>3. CASE /\ slab_count' = slab_count + 1 /\ CountObject(p, sinfo[p])
           /\ UNCHANGED <<live, objects, held, obj, panicked>>
  <2>1. slab_count' \in Int
    BY <1>3 DEF TypeOK
  <2> QED
    BY <1>1, <1>3, <2>1, Counted
<1> QED
  BY <1>2, <1>3 DEF LinkNewSlab

LEMMA CTake ==
  ASSUME CInv, NEW p \in Procs, alloc_slab_obj(p)
  PROVE  CInv'
<1> USE DEF CInv
<1> DEFINE s == sinfo[p]
<1>1. p \in Users /\ pc[p] = "alloc_obj" /\ s \in live /\ s \in Slabs
  BY DEF alloc_slab_obj, LocalsOK, LiveOK, UserLocs, WorkLocs, Procs, TypeOK
<1>2. CASE Panic
  BY <1>2, CPanic
<1>3. ASSUME NEW o \in objects[s],
             objects' = [objects EXCEPT ![s] = @ \ {o}], held' = held \cup {<<s, o>>},
             sinfo' = [sinfo EXCEPT ![p] = NoSlab], pc' = [pc EXCEPT ![p] = "idle"],
             UNCHANGED <<live, queue, count, slab_count, obj, panicked>>
      PROVE  CInv'
  <2>0. s \in Slabs /\ s \in live
    BY <1>1
  <2> HIDE DEF s
  <2>1. o \in Objs
    BY <2>0 DEF TypeOK
  <2>2. TypeOK'
    BY <1>1, <1>3, <2>0, <2>1 DEF TypeOK
  <2>3. /\ pc'[p] = "idle" /\ sinfo'[p] = NoSlab /\ objects'[s] = objects[s] \ {o}
        /\ \A r \in Procs \ {p} : pc'[r] = pc[r] /\ sinfo'[r] = sinfo[r]
        /\ \A t \in Slabs \ {s} : objects'[t] = objects[t]
    BY <1>3, <2>0 DEF TypeOK
  <2>4. LocalsOK'
    BY <1>1, <1>3, <2>3 DEF LocalsOK, UserLocs, WorkLocs, ReapLocs, GiveLocs, Procs
  <2>5. LiveOK'
    BY <1>1, <1>3, <2>0, <2>3 DEF LiveOK, Procs
  <2>6. ASSUME NEW t \in live PROVE Conserved(t)'
    <3>1. Conserved(t) /\ t \in Slabs
      BY EachConserved DEF TypeOK
    <3>2. Freeing(t)' = Freeing(t)
      BY <1>1, <2>3 DEF Freeing
    <3>3. CASE t # s
      <4>1. Held(t)' = Held(t)
        BY <1>3, <3>3 DEF Held
      <4>2. Allocating(t)' = Allocating(t)
        BY <1>1, <2>3, <3>3 DEF Allocating, s
      <4> QED
        BY <1>3, <2>3, <3>1, <3>2, <3>3, <4>1, <4>2, ConservedKept
    <3>4. CASE t = s
      <4>1. Held(t)' = Held(t) \cup {o} /\ o \notin Held(t)
        BY <1>3, <2>1, <3>1, <3>4 DEF Held, Conserved
      <4>2. Allocating(t) = Allocating(t)' \cup {p} /\ p \notin Allocating(t)'
        BY <1>1, <2>3, <3>4 DEF Allocating, s
      <4>3. IsFiniteSet(Allocating(t)')
        BY <4>2, Finite, FS_Subset
      <4>4. /\ Cardinality(Held(t)') = Cardinality(Held(t)) + 1
            /\ Cardinality(Allocating(t)) = Cardinality(Allocating(t)') + 1
            /\ Cardinality(Held(t)) \in Nat /\ Cardinality(Allocating(t)') \in Nat
        BY <4>1, <4>2, <4>3, Finite, FS_AddElement, FS_CardinalityType
      <4>5. count'[t] = Cardinality(Held(t)') + Cardinality(Allocating(t)')
        BY <1>3, <3>1, <4>4 DEF Conserved
      <4>6. {obj'[r] : r \in Freeing(t)'} = {obj[r] : r \in Freeing(t)}
        BY <1>3, <3>2
      <4>7. objects'[t] = objects[t] \ {o} /\ obj' = obj
        BY <1>3, <2>3, <3>4
      <4> QED
        BY <1>3, <3>1, <3>2, <3>4, <4>1, <4>5, <4>6, <4>7 DEF Conserved
    <3> QED
      BY <3>3, <3>4
  <2>7. ObjectsConserved'
    BY <1>3, <2>6 DEF ObjectsConserved, Conserved
  <2> QED
    BY <2>2, <2>4, <2>5, <2>7
<1> QED
  BY <1>2, <1>3 DEF alloc_slab_obj, goto

\* A user gives an object up; it is on its way back.
LEMMA CFree ==
  ASSUME CInv, NEW p \in Users, slab_kmem_cache_free(p)
  PROVE  CInv'
<1> USE DEF CInv
<1>1. p \in Procs /\ pc[p] = "idle"
  BY DEF slab_kmem_cache_free, Procs
<1>2. CASE Panic
  BY <1>2, CPanic
<1>3. ASSUME NEW s \in Slabs, NEW o \in Objs, <<s, o>> \in held, count[s] # 0,
             count' = [count EXCEPT ![s] = @ - 1], queue' = [queue EXCEPT ![s] = QueueAfterFree(s)],
             held' = held \ {<<s, o>>}, sinfo' = [sinfo EXCEPT ![p] = s],
             obj' = [obj EXCEPT ![p] = o], pc' = [pc EXCEPT ![p] = "free_obj"],
             UNCHANGED <<live, objects, slab_count, panicked>>
      PROVE  CInv'
  <2>1. s \in live
    <3>1. \A h \in held : h[1] \in live
      BY DEF LiveOK
    <3>2. <<s, o>>[1] \in live
      BY <1>3, <3>1
    <3> QED
      BY <3>2
  <2>2. count[s] \in Nat /\ count[s] - 1 \in Nat /\ QueueAfterFree(s) \in {"none", "partial"} /\ o \in Nat
    BY <1>3 DEF TypeOK, QueueAfterFree, Objs
  <2>3. TypeOK'
    BY <1>1, <1>3, <2>2 DEF TypeOK, UserLocs
  <2>4. /\ pc'[p] = "free_obj" /\ sinfo'[p] = s /\ obj'[p] = o /\ count'[s] = count[s] - 1
        /\ \A r \in Procs \ {p} : pc'[r] = pc[r] /\ sinfo'[r] = sinfo[r] /\ obj'[r] = obj[r]
        /\ \A t \in Slabs \ {s} : count'[t] = count[t] /\ queue'[t] = queue[t]
    BY <1>1, <1>3 DEF TypeOK
  <2>5. LocalsOK'
    BY <1>1, <1>3, <2>4, SlabAssumption, NoSlabAssumption DEF LocalsOK, WorkLocs, ReapLocs, GiveLocs, Procs
  <2>6. LiveOK'
    BY <1>1, <1>3, <2>1, <2>4 DEF LiveOK, Procs
  <2>7. ASSUME NEW t \in live PROVE Conserved(t)'
    <3>1. Conserved(t) /\ t \in Slabs
      BY EachConserved DEF TypeOK
    <3>2. Allocating(t)' = Allocating(t)
      BY <1>1, <2>4 DEF Allocating
    <3>3. CASE t # s
      <4>1. Held(t)' = Held(t)
        BY <1>3, <3>3 DEF Held
      <4>2. Freeing(t)' = Freeing(t) /\ \A r \in Freeing(t) : obj'[r] = obj[r]
        BY <1>1, <2>4, <3>3 DEF Freeing
      <4> QED
        BY <1>3, <2>4, <3>1, <3>2, <3>3, <4>1, <4>2, ConservedKept
    <3>4. CASE t = s
      <4>1. Held(t) = Held(t)' \cup {o} /\ o \notin Held(t)'
        BY <1>3, <3>4 DEF Held
      <4>2. Freeing(t)' = Freeing(t) \cup {p} /\ p \notin Freeing(t)
        BY <1>1, <2>4, <3>4 DEF Freeing
      <4>3. IsFiniteSet(Held(t)')
        BY <4>1, Finite, FS_Subset
      <4>4. /\ Cardinality(Held(t)) = Cardinality(Held(t)') + 1
            /\ Cardinality(Held(t)') \in Nat /\ Cardinality(Allocating(t)) \in Nat
        BY <4>1, <4>3, Finite, FS_AddElement, FS_CardinalityType
      <4>5. count'[t] = Cardinality(Held(t)') + Cardinality(Allocating(t)')
        BY <2>4, <3>1, <3>2, <3>4, <4>4 DEF Conserved
      <4>6. \A r \in Freeing(t) : obj'[r] = obj[r] /\ r # p
        BY <2>4, <4>2 DEF Freeing
      <4>7. {obj'[r] : r \in Freeing(t)'} = {obj[r] : r \in Freeing(t)} \cup {o}
        BY <2>4, <4>2, <4>6
      <4>8. objects'[t] = objects[t] /\ o \in Held(t) /\ obj'[p] = o
        BY <1>3, <2>4, <4>1
      <4>9. \A r \in Freeing(t) : obj[r] # o /\ obj[r] \notin objects[t] \cup Held(t)
        BY <3>1, <4>8 DEF Conserved
      <4>10. \A r \in Freeing(t)' : /\ obj'[r] \notin objects'[t] \cup Held(t)'
                                     /\ \A q \in Freeing(t)' \ {r} : obj'[q] # obj'[r]
        <5>1. \A r \in Freeing(t) : obj'[r] \notin objects'[t] \cup Held(t)' /\ obj'[r] # o
          BY <4>1, <4>6, <4>8, <4>9
        <5>2. o \notin objects'[t] \cup Held(t)'
          BY <3>1, <4>1, <4>8 DEF Conserved
        <5>3. \A r \in Freeing(t) : \A q \in Freeing(t) \ {r} : obj'[q] # obj'[r]
          BY <3>1, <4>6 DEF Conserved
        <5> QED
          BY <4>2, <4>8, <5>1, <5>2, <5>3
      <4>11. objects'[t] \cap Held(t)' = {}
        BY <3>1, <4>1, <4>8 DEF Conserved
      <4>12. Objs = objects'[t] \cup Held(t)' \cup {obj'[r] : r \in Freeing(t)'}
        BY <3>1, <4>1, <4>7, <4>8 DEF Conserved
      <4> QED
        BY <4>5, <4>10, <4>11, <4>12 DEF Conserved
    <3> QED
      BY <3>3, <3>4
  <2>8. ObjectsConserved'
    BY <1>3, <2>7 DEF ObjectsConserved, Conserved
  <2> QED
    BY <2>3, <2>5, <2>6, <2>8
<1> QED
  BY <1>2, <1>3 DEF slab_kmem_cache_free, goto

\* The object is back in the list of its slab.
LEMMA CPutBack ==
  ASSUME CInv, NEW p \in Procs, free_slab_obj(p)
  PROVE  CInv'
<1> USE DEF CInv
<1> DEFINE s == sinfo[p]
           o == obj[p]
<1>1. p \in Users /\ pc[p] = "free_obj" /\ s \in live /\ s \in Slabs /\ o \in Objs /\ sinfo[p] # NoSlab
  BY DEF free_slab_obj, LocalsOK, LiveOK, UserLocs, WorkLocs, Procs, TypeOK
<1>2. CASE Panic
  BY <1>2, CPanic
<1>3. CASE /\ PutObject(sinfo[p], obj[p]) /\ goto(p, "freed")
           /\ UNCHANGED <<live, queue, count, slab_count, held, sinfo, obj, panicked>>
  <2>0. s \in Slabs /\ s \in live /\ o \in Objs /\ objects' = [objects EXCEPT ![s] = @ \cup {o}]
        /\ pc' = [pc EXCEPT ![p] = "freed"]
        /\ UNCHANGED <<live, queue, count, slab_count, held, sinfo, obj, panicked>>
    BY <1>1, <1>3 DEF PutObject, goto
  <2> HIDE DEF s, o
  <2>1. TypeOK'
    BY <2>0 DEF TypeOK, UserLocs
  <2>2. /\ pc'[p] = "freed" /\ objects'[s] = objects[s] \cup {o}
        /\ \A r \in Procs \ {p} : pc'[r] = pc[r]
        /\ \A t \in Slabs \ {s} : objects'[t] = objects[t]
    BY <2>0 DEF TypeOK
  <2>3. LocalsOK'
    BY <1>1, <2>0, <2>2, SlabAssumption DEF LocalsOK, UserLocs, WorkLocs, ReapLocs, GiveLocs, Procs
  <2>4. LiveOK'
    BY <2>0 DEF LiveOK
  <2>5. ASSUME NEW t \in live PROVE Conserved(t)'
    <3>1. Conserved(t) /\ t \in Slabs
      BY EachConserved DEF TypeOK
    <3>2. Allocating(t)' = Allocating(t) /\ Held(t)' = Held(t)
      BY <1>1, <2>0, <2>2 DEF Allocating, Held
    <3>3. CASE t # s
      <4>1. Freeing(t)' = Freeing(t)
        BY <2>0, <2>2, <3>3 DEF Freeing, s
      <4> QED
        BY <2>0, <2>2, <3>1, <3>2, <3>3, <4>1, ConservedKept
    <3>4. CASE t = s
      <4>1. Freeing(t) = Freeing(t)' \cup {p} /\ p \notin Freeing(t)'
        BY <1>1, <2>0, <2>2, <3>4 DEF Freeing, s
      <4>2. /\ o \notin objects[t] \cup Held(t)
            /\ \A r \in Freeing(t)' : obj[r] # o /\ obj[r] \notin objects[t] \cup Held(t)
            /\ \A r \in Freeing(t)' : \A q \in Freeing(t)' \ {r} : obj[q] # obj[r]
        BY <3>1, <4>1 DEF Conserved, o
      <4>3. {obj[r] : r \in Freeing(t)} = {obj[r] : r \in Freeing(t)'} \cup {o}
        BY <4>1 DEF o
      <4>4. objects'[t] = objects[t] \cup {o} /\ obj' = obj /\ count' = count
        BY <2>0, <2>2, <3>4
      <4>5. objects'[t] \cap Held(t)' = {}
        BY <3>1, <3>2, <4>2, <4>4 DEF Conserved
      <4>6. Objs = objects'[t] \cup Held(t)' \cup {obj'[r] : r \in Freeing(t)'}
        BY <3>1, <3>2, <4>3, <4>4 DEF Conserved
      <4>7. \A r \in Freeing(t)' : obj'[r] \notin objects'[t] \cup Held(t)'
        BY <3>2, <4>2, <4>4
      <4>8. count'[t] = Cardinality(Held(t)') + Cardinality(Allocating(t)')
        BY <3>1, <3>2, <4>4 DEF Conserved
      <4> QED
        BY <4>2, <4>4, <4>5, <4>6, <4>7, <4>8 DEF Conserved
    <3> QED
      BY <3>3, <3>4
  <2>6. ObjectsConserved'
    BY <2>0, <2>5 DEF ObjectsConserved, Conserved
  <2> QED
    BY <2>1, <2>3, <2>4, <2>6
<1> QED
  BY <1>2, <1>3 DEF free_slab_obj

LEMMA CFreed ==
  ASSUME CInv, NEW p \in Procs, LinkUnusedSlab(p)
  PROVE  CInv'
<1> USE DEF CInv
<1>1. p \in Users /\ pc[p] = "freed" /\ sinfo[p] \in live /\ sinfo[p] \in Slabs
  BY DEF LinkUnusedSlab, LocalsOK, LiveOK, UserLocs, WorkLocs, Procs, TypeOK
<1>2. CASE Panic
  BY <1>2, CPanic
<1>3. CASE /\ queue' = IF Unused(sinfo[p]) THEN [queue EXCEPT ![sinfo[p]] = "free"] ELSE queue
           /\ sinfo' = [sinfo EXCEPT ![p] = NoSlab] /\ obj' = [obj EXCEPT ![p] = 0]
           /\ goto(p, "idle")
           /\ UNCHANGED <<live, count, objects, slab_count, held, panicked>>
  <2>0. pc' = [pc EXCEPT ![p] = "idle"]
    BY <1>3 DEF goto
  <2>1. TypeOK'
    BY <1>1, <1>3, <2>0 DEF TypeOK
  <2>2. /\ pc'[p] = "idle" /\ sinfo'[p] = NoSlab
        /\ \A r \in Procs \ {p} : pc'[r] = pc[r] /\ sinfo'[r] = sinfo[r] /\ obj'[r] = obj[r]
        /\ \A t \in Slabs \ live : queue'[t] = queue[t]
    BY <1>1, <1>3, <2>0 DEF TypeOK
  <2>3. LocalsOK'
    BY <1>1, <2>2 DEF LocalsOK, UserLocs, WorkLocs, ReapLocs, GiveLocs, Procs
  <2>4. LiveOK'
    BY <1>1, <1>3, <2>2 DEF LiveOK, Procs
  <2>5. ASSUME NEW t \in live PROVE Conserved(t)'
    <3>1. Conserved(t)
      BY EachConserved
    <3>2. Held(t)' = Held(t) /\ Allocating(t)' = Allocating(t) /\ Freeing(t)' = Freeing(t)
      BY <1>1, <1>3, <2>2 DEF Held, Allocating, Freeing
    <3>3. \A r \in Freeing(t) : obj'[r] = obj[r]
      BY <1>1, <2>2 DEF Freeing
    <3> QED
      BY <1>3, <3>1, <3>2, <3>3, ConservedKept
  <2>6. ObjectsConserved'
    BY <1>3, <2>5 DEF ObjectsConserved, Conserved
  <2> QED
    BY <2>1, <2>3, <2>4, <2>6
<1> QED
  BY <1>2, <1>3 DEF LinkUnusedSlab

LEMMA GivingIs ==
  /\ \A l \in Loops : GivingBack[l] \in GiveLocs
  /\ \A g \in GiveLocs : \E l \in Loops : GivingBack[l] = g
<1>1. GivingBack["reap"] = "reap_free" /\ GivingBack["force"] = "force_free" /\ GivingBack["wipe"] = "wipe_free"
  BY DEF GivingBack
<1> QED
  BY <1>1 DEF Loops, GiveLocs

\* The steps of a reaper but the one that gives the pages back.
LEMMA CReaper ==
  ASSUME CInv, NEW p \in Procs, NEW l \in Loops,
         (BeginReap(p) /\ p \in Reapers) \/ slab_kmem_cache_reap(p, l) \/ slab_kmem_cache_destroy(p)
  PROVE  CInv' /\ p \in Reapers
<1> USE DEF CInv
<1>1. p \in Reapers
  BY DEF slab_kmem_cache_reap, slab_kmem_cache_destroy, LocalsOK, ReapLocs, Loops, Procs
<1>2. UNCHANGED <<live, count, objects, held, obj, panicked>>
  BY DEF BeginReap, slab_kmem_cache_reap, slab_kmem_cache_destroy, cache
<1>3. CASE BeginReap(p) \/ slab_kmem_cache_destroy(p)
  <2>1. PICK m \in {"idle", "reap", "force", "wipe", "destroy"} : pc' = [pc EXCEPT ![p] = m]
    BY <1>3 DEF BeginReap, slab_kmem_cache_destroy, goto
  <2>2. UNCHANGED <<queue, slab_count, sinfo>> /\ pc[p] \in {"idle", "destroy"}
    BY <1>3 DEF BeginReap, slab_kmem_cache_destroy, cache
  <2>3. pc'[p] = m /\ \A r \in Procs \ {p} : pc'[r] = pc[r]
    BY <2>1 DEF TypeOK
  <2>4. TypeOK'
    BY <1>2, <2>1, <2>2 DEF TypeOK, ReapLocs
  <2>5. LocalsOK'
    BY <1>1, <1>2, <2>2, <2>3, SlabAssumption DEF LocalsOK, UserLocs, WorkLocs, ReapLocs, GiveLocs, Procs
  <2>6. LiveOK'
    BY <1>2, <2>2 DEF LiveOK
  <2>7. ObjectsConserved'
    BY <1>2, <2>2, <2>3, QuietStep
  <2> QED
    BY <1>1, <2>4, <2>5, <2>6, <2>7
<1>4. CASE slab_kmem_cache_reap(p, l)
  <2>1. CASE /\ \E s \in Queued("free") : queue' = [queue EXCEPT ![s] = "none"] /\ sinfo' = [sinfo EXCEPT ![p] = s]
             /\ slab_count' = slab_count - 1 /\ goto(p, GivingBack[l])
    <3>1. PICK s \in Slabs : queue' = [queue EXCEPT ![s] = "none"] /\ sinfo' = [sinfo EXCEPT ![p] = s]
      BY <2>1 DEF Queued
    <3>2. PICK m \in GiveLocs : pc' = [pc EXCEPT ![p] = m]
      BY <2>1, GivingIs DEF goto
    <3>3. pc'[p] = m /\ sinfo'[p] = s /\ \A r \in Procs \ {p} : pc'[r] = pc[r] /\ sinfo'[r] = sinfo[r]
      BY <3>1, <3>2 DEF TypeOK
    <3>4. TypeOK'
      BY <1>2, <2>1, <3>1, <3>2 DEF TypeOK, ReapLocs
    <3>5. LocalsOK'
      BY <1>1, <1>2, <3>3, SlabAssumption, NoSlabAssumption DEF LocalsOK, UserLocs, WorkLocs, ReapLocs, GiveLocs, Procs
    <3>6. LiveOK'
      BY <1>1, <1>2, <3>1, <3>3, SlabAssumption DEF LiveOK, Procs, TypeOK
    <3>7. pc[p] \in {"reap", "force", "wipe"}
      BY <1>4 DEF slab_kmem_cache_reap, Loops
    <3>8. ObjectsConserved'
      BY <1>2, <3>3, <3>7, QuietStep DEF GiveLocs
    <3> QED
      BY <1>1, <3>4, <3>5, <3>6, <3>8
  <2>2. CASE goto(p, IF l = "wipe" THEN "destroy" ELSE "idle") /\ UNCHANGED <<queue, sinfo, slab_count>>
    <3>1. PICK m \in {"idle", "destroy"} : pc' = [pc EXCEPT ![p] = m]
      BY <2>2 DEF goto
    <3>2. pc[p] \in {"reap", "force", "wipe"}
      BY <1>4 DEF slab_kmem_cache_reap, Loops
    <3>3. pc'[p] = m /\ \A r \in Procs \ {p} : pc'[r] = pc[r] /\ sinfo'[r] = sinfo[r]
      BY <2>2, <3>1 DEF TypeOK
    <3>4. TypeOK'
      BY <1>2, <2>2, <3>1 DEF TypeOK, ReapLocs
    <3>5. LocalsOK'
      BY <1>1, <1>2, <2>2, <3>2, <3>3, SlabAssumption DEF LocalsOK, UserLocs, WorkLocs, ReapLocs, GiveLocs, Procs
    <3>6. LiveOK'
      BY <1>2, <2>2 DEF LiveOK
    <3>7. ObjectsConserved'
      BY <1>2, <3>2, <3>3, QuietStep
    <3> QED
      BY <1>1, <3>4, <3>5, <3>6, <3>7
  <2> QED
    BY <1>4, <2>1, <2>2 DEF slab_kmem_cache_reap
<1> QED
  BY <1>3, <1>4

\* The pages of a slab that no user knows.
LEMMA CGiveBack ==
  ASSUME CInv, NEW p \in Procs, NEW l \in Loops, free_slab_info(p, l),
         \A r \in Users : sinfo[r] # sinfo[p], Held(sinfo[p]) = {}, queue[sinfo[p]] = "none"
  PROVE  CInv'
<1> USE DEF CInv
<1>1. p \in Reapers /\ pc[p] \in GiveLocs /\ sinfo[p] \in Slabs
  BY GivingIs, NoSlabAssumption DEF free_slab_info, LocalsOK, ReapLocs, TypeOK, Procs
<1>2. /\ live' = live \ {sinfo[p]} /\ sinfo' = [sinfo EXCEPT ![p] = NoSlab]
      /\ pc' = [pc EXCEPT ![p] = l] /\ UNCHANGED <<queue, count, objects, slab_count, held, obj, panicked>>
  BY DEF free_slab_info, goto
<1>3. pc'[p] = l /\ sinfo'[p] = NoSlab /\ \A r \in Procs \ {p} : pc'[r] = pc[r] /\ sinfo'[r] = sinfo[r]
  BY <1>2 DEF TypeOK
<1>4. TypeOK'
  BY <1>2 DEF TypeOK, ReapLocs, Loops
<1>5. LocalsOK'
  BY <1>1, <1>2, <1>3, SlabAssumption DEF LocalsOK, UserLocs, WorkLocs, ReapLocs, GiveLocs, Procs, Loops
<1>6. \A h \in held : h[1] # sinfo[p]
  BY DEF Held, TypeOK
<1>7. \A r \in Users : r # p /\ r \in Procs
  BY <1>1, SlabAssumption DEF Procs
<1>8. LiveOK'
  BY <1>2, <1>3, <1>6, <1>7 DEF LiveOK
<1>9. ObjectsConserved'
  BY <1>1, <1>2, <1>3, QuietStep DEF GiveLocs, Loops
<1> QED
  BY <1>4, <1>5, <1>8, <1>9

-----------------------------------------------------------------------------
(* Without a reaper no pages are given back: any number of users.          *)

LEMMA InitCInv == Init => CInv
<1> SUFFICES ASSUME Init PROVE CInv
  OBVIOUS
<1>1. TypeOK
  <2>1. live \subseteq Slabs /\ slab_count \in Int /\ held \subseteq Slabs \X Objs
    BY DEF Init
  <2>4. panicked \in BOOLEAN
    BY Zenon DEF Init
  <2>2. /\ queue \in [Slabs -> {"partial", "full", "free", "none"}]
        /\ count \in [Slabs -> Nat] /\ objects \in [Slabs -> SUBSET Objs]
    BY DEF Init
  <2>3. /\ pc \in [Procs -> {"idle"} \cup UserLocs \cup ReapLocs]
        /\ sinfo \in [Procs -> Slabs \cup {NoSlab}] /\ obj \in [Procs -> Nat]
    BY DEF Init
  <2> QED
    BY <2>1, <2>2, <2>3, <2>4 DEF TypeOK
<1>2. LocalsOK
  BY DEF Init, LocalsOK, UserLocs, WorkLocs, ReapLocs, GiveLocs, Procs
<1>3. LiveOK /\ ObjectsConserved
  BY DEF Init, LiveOK, ObjectsConserved, Procs
<1> QED
  BY <1>1, <1>2, <1>3 DEF CInv

\* A step of Next, but for what it takes to give the pages of a slab back.
LEMMA NextCInv ==
  ASSUME CInv, [Next]_vars,
         \A p \in Procs, l \in Loops : free_slab_info(p, l) =>
            /\ \A r \in Users : sinfo[r] # sinfo[p]
            /\ Held(sinfo[p]) = {} /\ queue[sinfo[p]] = "none"
  PROVE  CInv'
<1>1. ASSUME NEW p \in Users, slab_kmem_cache_alloc(p) \/ slab_kmem_cache_free(p) PROVE CInv'
  BY <1>1, CAlloc, CFree
<1>2. ASSUME NEW p \in Reapers, BeginReap(p) PROVE CInv'
  <2>1. p \in Procs /\ "reap" \in Loops
    BY DEF Procs, Loops
  <2> QED
    BY <1>2, <2>1, CReaper
<1>3. ASSUME NEW p \in Procs, Continue(p) PROVE CInv'
  <2>1. CASE slab_kmem_cache_grow(p)
    BY <2>1, CGrow
  <2>2. CASE LinkNewSlab(p)
    BY <2>2, CLink
  <2>3. CASE alloc_slab_obj(p)
    BY <2>3, CTake
  <2>4. CASE free_slab_obj(p)
    BY <2>4, CPutBack
  <2>5. CASE LinkUnusedSlab(p)
    BY <2>5, CFreed
  <2>6. CASE slab_kmem_cache_destroy(p)
    <3>1. "reap" \in Loops
      BY DEF Loops
    <3> QED
      BY <2>6, <3>1, CReaper
  <2>7. ASSUME NEW l \in Loops, slab_kmem_cache_reap(p, l) PROVE CInv'
    BY <2>7, CReaper
  <2>8. ASSUME NEW l \in Loops, free_slab_info(p, l) PROVE CInv'
    BY <2>8, CGiveBack
  <2> QED
    BY <1>3, <2>1, <2>2, <2>3, <2>4, <2>5, <2>6, <2>7, <2>8 DEF Continue
<1>4. CASE UNCHANGED vars
  <2>1. UNCHANGED <<live, queue, count, objects, slab_count, held, pc, sinfo, obj, panicked>>
    BY <1>4 DEF vars, cache, local
  <2>2. TypeOK' /\ LocalsOK' /\ LiveOK'
    BY <2>1 DEF CInv, TypeOK, LocalsOK, LiveOK
  <2>3. \A s : Held(s)' = Held(s) /\ Freeing(s)' = Freeing(s) /\ Allocating(s)' = Allocating(s)
    BY <2>1 DEF Held, Freeing, Allocating
  <2>4. ObjectsConserved'
    BY <2>1, <2>3 DEF CInv, ObjectsConserved
  <2> QED
    BY <2>2, <2>4 DEF CInv
<1> QED
  BY <1>1, <1>2, <1>3, <1>4 DEF Next

(* In a cache that nobody shrinks, any number of threads allocate and      *)
(* release at the same time, and no object is lost, has two owners or is   *)
(* counted wrongly (slab_kmem_cache_alloc and slab_kmem_cache_free, which  *)
(* change the count and the list of objects under different locks).        *)
THEOREM AlwaysConserved ==
  ASSUME Reapers = {}
  PROVE  Spec => []ObjectsConserved
<1>1. CInv /\ [Next]_vars => CInv'
  <2> SUFFICES ASSUME CInv, [Next]_vars PROVE CInv'
    OBVIOUS
  <2>1. \A p \in Procs, l \in Loops : ~ free_slab_info(p, l)
    BY GivingIs DEF free_slab_info, Procs, CInv, LocalsOK, ReapLocs
  <2> QED
    BY <2>1, NextCInv
<1>2. CInv => ObjectsConserved
  BY DEF CInv
<1> QED
  BY InitCInv, <1>1, <1>2, PTL DEF Spec

-----------------------------------------------------------------------------
(* One user and any number of reapers: the queues.                         *)

\* How many objects of a slab are in use, when there is one user.
LEMMA InUse ==
  ASSUME CInv, NEW u, Users = {u}, NEW s \in live
  PROVE  /\ sinfo[u] = s /\ pc[u] = "alloc_obj" => count[s] = Cardinality(Held(s)) + 1
         /\ ~ (sinfo[u] = s /\ pc[u] = "alloc_obj") => count[s] = Cardinality(Held(s))
         /\ sinfo[u] = s /\ pc[u] = "alloc_obj" /\ count[s] <= ObjsPerSlab => objects[s] # {}
         /\ count[s] = 0 => Held(s) = {}
<1>1. Conserved(s) /\ Cardinality(Held(s)) \in Nat
  BY EachConserved, Finite, FS_CardinalityType DEF CInv
<1>2. \A p \in Procs : pc[p] \in {"alloc_obj", "free_obj"} => p = u
  BY DEF CInv, LocalsOK, UserLocs, Procs
<1>3. u \in Procs
  BY DEF Procs
<1>4. Allocating(s) = IF sinfo[u] = s /\ pc[u] = "alloc_obj" THEN {u} ELSE {}
  BY <1>2, <1>3 DEF Allocating
<1>5. Cardinality({u}) = 1 /\ Cardinality({}) = 0
  BY FS_Singleton, FS_EmptySet
<1>6. count[s] = Cardinality(Held(s)) + IF sinfo[u] = s /\ pc[u] = "alloc_obj" THEN 1 ELSE 0
  BY <1>1, <1>4, <1>5 DEF Conserved
<1>7. ASSUME sinfo[u] = s, pc[u] = "alloc_obj", count[s] <= ObjsPerSlab, objects[s] = {} PROVE FALSE
  <2>1. Freeing(s) = {}
    BY <1>2, <1>7 DEF Freeing
  <2>2. Objs = Held(s)
    BY <1>1, <1>7, <2>1 DEF Conserved
  <2>3. Cardinality(Held(s)) = ObjsPerSlab /\ ObjsPerSlab \in Nat
    BY <2>2, Finite, SlabAssumption
  <2> QED
    BY <1>6, <1>7, <2>3
<1>8. count[s] = 0 => Cardinality(Held(s)) = 0
  BY <1>1, <1>6
<1>9. Cardinality(Held(s)) = 0 => Held(s) = {}
  BY Finite, FS_EmptySet
<1> QED
  BY <1>1, <1>6, <1>7, <1>8, <1>9

\* The slab that a reaper gives back is known to it alone, and empty.
LEMMA GiveBackAlone ==
  ASSUME CInv, QInv, NEW u, Users = {u}, NEW p \in Procs, NEW l \in Loops, free_slab_info(p, l)
  PROVE  /\ p # u /\ sinfo[p] \in live /\ queue[sinfo[p]] = "none"
         /\ \A r \in Procs \ {p} : sinfo[r] # sinfo[p]
         /\ Held(sinfo[p]) = {}
<1>1. pc[p] \in GiveLocs
  BY GivingIs DEF free_slab_info
<1>2. p # u
  BY <1>1 DEF CInv, LocalsOK, ReapLocs
<1>3. sinfo[p] \in live /\ queue[sinfo[p]] = "none"
  BY <1>1 DEF QInv, ApartOK
<1>4. \A r \in Procs : sinfo[r] = sinfo[p] => r = p
  BY <1>3 DEF QInv, QueueOK, Privately
<1>5. count[sinfo[p]] = 0
  <2>1. sinfo[p] \in Slabs
    BY <1>3 DEF CInv, TypeOK
  <2>2. count[sinfo[p]] \in Nat /\ ObjsPerSlab \in Nat \ {0}
    BY <2>1, SlabAssumption DEF CInv, TypeOK
  <2>3. /\ count[sinfo[p]] <= ObjsPerSlab /\ count[sinfo[p]] # ObjsPerSlab
        /\ count[sinfo[p]] \notin 1 .. (ObjsPerSlab - 1)
    BY <1>3 DEF QInv, QueueOK
  <2> QED
    BY <2>2, <2>3
<1> QED
  BY <1>2, <1>3, <1>4, <1>5, InUse

QueueOf(s) ==
    /\ queue[s] = "full" <=> count[s] = ObjsPerSlab
    /\ queue[s] = "partial" <=> count[s] \in 1 .. (ObjsPerSlab - 1)
    /\ count[s] <= ObjsPerSlab
    /\ queue[s] = "free" => Privately(s) = {}
    /\ queue[s] = "none" => \E p \in Procs : Privately(s) = {p}

LEMMA EachQueue == QueueOK <=> \A s \in live : QueueOf(s)
BY DEF QueueOK, QueueOf

\* A slab in no queue, or in the free one, has no object in use.
LEMMA EmptyIs ==
  ASSUME CInv, QInv, NEW s \in live
  PROVE  /\ s \in Slabs /\ count[s] \in Nat /\ ObjsPerSlab \in Nat \ {0}
         /\ queue[s] \in {"full", "partial", "free", "none"}
         /\ queue[s] \in {"none", "free"} <=> count[s] = 0
<1>1. s \in Slabs /\ count[s] \in Nat /\ ObjsPerSlab \in Nat \ {0} /\ queue[s] \in {"full", "partial", "free", "none"}
  BY SlabAssumption DEF CInv, TypeOK
<1>2. QueueOf(s)
  BY EachQueue DEF QInv
<1>3. queue[s] \in {"none", "free"} => count[s] = 0
  <2> SUFFICES ASSUME queue[s] \in {"none", "free"} PROVE count[s] = 0
    OBVIOUS
  <2>1. count[s] # ObjsPerSlab /\ count[s] \notin 1 .. (ObjsPerSlab - 1) /\ count[s] <= ObjsPerSlab
    BY <1>2 DEF QueueOf
  <2> QED
    BY <1>1, <2>1
<1>4. count[s] = 0 => queue[s] \in {"none", "free"}
  BY <1>1, <1>2 DEF QueueOf
<1> QED
  BY <1>1, <1>3, <1>4

\* A reaper knows only the slab that it gives back.
LEMMA KnownBy ==
  ASSUME CInv, QInv, NEW u, Users = {u}, NEW r \in Procs, r # u, sinfo[r] # NoSlab
  PROVE  pc[r] \in GiveLocs /\ sinfo[r] \in live /\ queue[sinfo[r]] = "none"
<1>1. r \in Reapers
  BY DEF Procs
<1>2. pc[r] \in GiveLocs
  BY <1>1 DEF CInv, LocalsOK, WorkLocs, UserLocs, Procs
<1> QED
  BY <1>2 DEF QInv, ApartOK

\* A step of p that concerns neither the queues nor the slab p has.
LEMMA QuietQueues ==
  ASSUME QInv, NEW p \in Procs, UNCHANGED <<live, queue, count, slab_count, sinfo, panicked>>,
         pc[p] \notin {"link"} \cup GiveLocs, pc'[p] \notin {"link"} \cup GiveLocs,
         \A r \in Procs \ {p} : pc'[r] = pc[r]
  PROVE  QInv'
<1>1. Linking' = Linking /\ Giving' = Giving
  BY DEF Linking, Giving
<1>2. \A s : Privately(s)' = Privately(s)
  BY DEF Privately
<1>3. QueueOK'
  BY <1>2 DEF QInv, QueueOK
<1>4. ApartOK'
  BY DEF QInv, ApartOK
<1> QED
  BY <1>1, <1>3, <1>4 DEF QInv, CountOK

\* An object is counted: the slab is in the queue of those in use.
LEMMA QCounted ==
  ASSUME CInv, QInv, NEW u, Users = {u}, NEW s \in live, CountObject(u, s), count[s] # ObjsPerSlab,
         pc[u] = "idle" \/ (pc[u] = "link" /\ sinfo[u] = s),
         \A r \in Procs \ {u} : sinfo[r] # s,
         UNCHANGED <<live, panicked>>
  PROVE  /\ QueueOK' /\ ApartOK' /\ Giving' = Giving
         /\ Linking' = Linking \ {u}
<1>1. u \in Procs /\ s \in Slabs /\ count[s] \in Nat /\ ObjsPerSlab \in Nat \ {0}
  BY EmptyIs DEF Procs
<1>2. /\ count' = [count EXCEPT ![s] = @ + 1]
      /\ sinfo' = [sinfo EXCEPT ![u] = s] /\ pc' = [pc EXCEPT ![u] = "alloc_obj"]
      /\ queue' = [queue EXCEPT ![s] = IF count[s] + 1 = ObjsPerSlab THEN "full" ELSE "partial"]
  BY DEF CountObject, goto
<1>3. /\ pc'[u] = "alloc_obj" /\ sinfo'[u] = s /\ count'[s] = count[s] + 1
      /\ queue'[s] = IF count[s] + 1 = ObjsPerSlab THEN "full" ELSE "partial"
      /\ \A r \in Procs \ {u} : pc'[r] = pc[r] /\ sinfo'[r] = sinfo[r]
      /\ \A t \in Slabs \ {s} : count'[t] = count[t] /\ queue'[t] = queue[t]
  BY <1>1, <1>2 DEF CInv, TypeOK
<1>4. ASSUME NEW t \in live PROVE QueueOf(t)'
  <2>1. QueueOf(t) /\ t \in Slabs
    BY EachQueue DEF QInv, CInv, TypeOK
  <2>2. CASE t # s
    <3>1. sinfo[u] # t
      BY <1>1, <2>1, <2>2, NoSlabAssumption DEF CInv, LocalsOK, WorkLocs, GiveLocs
    <3>2. Privately(t)' = Privately(t)
      BY <1>3, <2>2, <3>1 DEF Privately
    <3> QED
      BY <1>3, <2>1, <2>2, <3>2 DEF QueueOf
  <2>3. CASE t = s
    <3>1. count[s] + 1 <= ObjsPerSlab
      BY <1>1, <2>1, <2>3 DEF QueueOf
    <3> QED
      BY <1>1, <1>3, <2>3, <3>1 DEF QueueOf
  <2> QED
    BY <2>2, <2>3
<1>5. QueueOK'
  BY <1>4 DEF QueueOK, QueueOf
<1>6. ApartOK'
  <2> SUFFICES ASSUME NEW r \in Procs, pc'[r] \in {"link"} \cup GiveLocs
               PROVE  sinfo'[r] \in live' /\ queue'[sinfo'[r]] = "none"
    BY DEF ApartOK
  <2>1. r # u /\ pc'[r] = pc[r] /\ sinfo'[r] = sinfo[r]
    BY <1>3 DEF GiveLocs
  <2>2. sinfo[r] \in live /\ queue[sinfo[r]] = "none" /\ sinfo[r] # s
    BY <2>1 DEF QInv, ApartOK
  <2>3. sinfo[r] \in Slabs \ {s}
    BY <2>2 DEF CInv, TypeOK
  <2> QED
    BY <1>3, <2>1, <2>2, <2>3
<1>7. Giving' = Giving /\ Linking' = Linking \ {u}
  BY <1>3 DEF Giving, Linking, GiveLocs
<1> QED
  BY <1>5, <1>6, <1>7

LEMMA QAlloc ==
  ASSUME CInv, QInv, NEW u, Users = {u}, slab_kmem_cache_alloc(u)
  PROVE  QInv'
<1>1. /\ pc[u] = "idle" /\ u \in Procs /\ UNCHANGED <<live, slab_count, panicked>>
      /\ sinfo[u] = NoSlab
  BY DEF slab_kmem_cache_alloc, Procs, CInv, LocalsOK, WorkLocs, GiveLocs
<1>2. CASE \E s \in Queued("partial") \cup Queued("free") : CountObject(u, s)
  <2>1. PICK s \in Queued("partial") \cup Queued("free") : CountObject(u, s)
    BY <1>2
  <2>2. s \in live /\ queue[s] \in {"partial", "free"}
    BY <2>1 DEF Queued, CInv, LiveOK
  <2>3. count[s] # ObjsPerSlab
    <3>1. QueueOf(s)
      BY <2>2, EachQueue DEF QInv
    <3> QED
      BY <2>2, <3>1 DEF QueueOf
  <2>4. \A r \in Procs \ {u} : sinfo[r] # s
    BY <2>2, KnownBy, NoSlabAssumption DEF CInv, TypeOK
  <2>5. QueueOK' /\ ApartOK' /\ Giving' = Giving /\ Linking' = Linking \ {u}
    BY <1>1, <2>1, <2>2, <2>3, <2>4, QCounted
  <2>6. Linking' = Linking
    BY <1>1, <2>5 DEF Linking
  <2> QED
    BY <1>1, <2>5, <2>6 DEF QInv, CountOK
<1>3. CASE goto(u, "grow") /\ UNCHANGED <<count, queue, sinfo>>
  <2>1. pc'[u] = "grow" /\ \A r \in Procs \ {u} : pc'[r] = pc[r]
    BY <1>1, <1>3 DEF goto, CInv, TypeOK
  <2> QED
    BY <1>1, <1>3, <2>1, QuietQueues DEF GiveLocs
<1> QED
  BY <1>2, <1>3 DEF slab_kmem_cache_alloc

LEMMA QGrow ==
  ASSUME CInv, QInv, NEW u, Users = {u}, slab_kmem_cache_grow(u)
  PROVE  QInv'
<1>1. /\ pc[u] = "grow" /\ u \in Procs /\ UNCHANGED <<slab_count, panicked>> /\ sinfo[u] = NoSlab
      /\ ObjsPerSlab \in Nat \ {0}
  BY SlabAssumption DEF slab_kmem_cache_grow, Procs, CInv, LocalsOK, WorkLocs, GiveLocs
<1>2. ASSUME NEW s \in Slabs \ live,
             live' = live \cup {s}, queue' = [queue EXCEPT ![s] = "none"],
             count' = [count EXCEPT ![s] = 0], sinfo' = [sinfo EXCEPT ![u] = s],
             pc' = [pc EXCEPT ![u] = "link"]
      PROVE  QInv'
  <2>1. /\ pc'[u] = "link" /\ sinfo'[u] = s /\ count'[s] = 0 /\ queue'[s] = "none"
        /\ \A r \in Procs \ {u} : pc'[r] = pc[r] /\ sinfo'[r] = sinfo[r]
        /\ \A t \in Slabs \ {s} : count'[t] = count[t] /\ queue'[t] = queue[t]
    BY <1>1, <1>2 DEF CInv, TypeOK
  <2>2. \A r \in Procs \ {u} : sinfo[r] # s
    BY <1>2, KnownBy, NoSlabAssumption
  <2>3. ASSUME NEW t \in live PROVE QueueOf(t)'
    <3>1. QueueOf(t) /\ t \in Slabs \ {s} /\ t # NoSlab
      BY EachQueue, NoSlabAssumption DEF QInv, CInv, TypeOK
    <3>2. Privately(t)' = Privately(t)
      BY <1>1, <2>1, <3>1 DEF Privately
    <3> QED
      BY <2>1, <3>1, <3>2 DEF QueueOf
  <2>4. QueueOf(s)'
    <3>1. Privately(s)' = {u}
      BY <1>1, <2>1, <2>2 DEF Privately
    <3> QED
      BY <1>1, <2>1, <3>1 DEF QueueOf
  <2>5. QueueOK'
    BY <1>2, <2>3, <2>4 DEF QueueOK, QueueOf
  <2>6. ApartOK'
    <3> SUFFICES ASSUME NEW r \in Procs, pc'[r] \in {"link"} \cup GiveLocs
                 PROVE  sinfo'[r] \in live' /\ queue'[sinfo'[r]] = "none"
      BY DEF ApartOK
    <3>1. CASE r = u
      BY <1>2, <2>1, <3>1
    <3>2. CASE r # u
      <4>1. sinfo[r] \in live /\ queue[sinfo[r]] = "none" /\ sinfo'[r] = sinfo[r]
        BY <2>1, <3>2 DEF QInv, ApartOK
      <4>2. sinfo[r] \in Slabs \ {s}
        BY <4>1 DEF CInv, TypeOK
      <4> QED
        BY <1>2, <2>1, <4>1, <4>2
    <3> QED
      BY <3>1, <3>2
  <2>7. CountOK'
    <3>1. Giving' = Giving /\ Linking' = Linking \cup {u} /\ u \notin Linking
      BY <1>1, <2>1 DEF Giving, Linking, GiveLocs
    <3>2. IsFiniteSet(live)
      BY SlabAssumption, FS_Subset DEF CInv, TypeOK
    <3>3. Cardinality(live') = Cardinality(live) + 1 /\ Cardinality(live) \in Nat
      BY <1>2, <3>2, FS_AddElement, FS_CardinalityType
    <3>4. Cardinality(Linking') = Cardinality(Linking) + 1 /\ Cardinality(Linking) \in Nat
      BY <3>1, Finite, FS_AddElement, FS_CardinalityType
    <3>5. Cardinality(Giving) \in Nat
      BY Finite, FS_CardinalityType
    <3> QED
      BY <1>1, <3>1, <3>3, <3>4, <3>5 DEF QInv, CountOK
  <2> QED
    BY <1>1, <2>5, <2>6, <2>7 DEF QInv
<1>3. CASE goto(u, "idle") /\ UNCHANGED <<live, queue, count, objects, sinfo>>
  <2>1. pc'[u] = "idle" /\ \A r \in Procs \ {u} : pc'[r] = pc[r]
    BY <1>1, <1>3 DEF goto, CInv, TypeOK
  <2> QED
    BY <1>1, <1>3, <2>1, QuietQueues DEF GiveLocs
<1> QED
  BY <1>2, <1>3 DEF slab_kmem_cache_grow, goto

LEMMA QLink ==
  ASSUME CInv, QInv, NEW u, Users = {u}, LinkNewSlab(u)
  PROVE  QInv'
<1> DEFINE s == sinfo[u]
<1>1. pc[u] = "link" /\ u \in Procs /\ s \in live /\ queue[s] = "none"
  BY DEF LinkNewSlab, Procs, QInv, ApartOK
<1>2. slab_count' = slab_count + 1 /\ CountObject(u, s) /\ UNCHANGED <<live, panicked>>
  BY <1>1 DEF LinkNewSlab
<1>3. \A r \in Procs \ {u} : sinfo[r] # s
  BY <1>1 DEF QInv, QueueOK, Privately
<1>4. count[s] # ObjsPerSlab
  BY <1>1 DEF QInv, QueueOK
<1>5. QueueOK' /\ ApartOK' /\ Giving' = Giving /\ Linking' = Linking \ {u}
  BY <1>1, <1>2, <1>3, <1>4, QCounted
<1>6. u \in Linking
  BY <1>1 DEF Linking
<1>7. Cardinality(Linking') = Cardinality(Linking) - 1
  BY <1>5, <1>6, Finite, FS_RemoveElement
<1>8. IsFiniteSet(live)
  BY SlabAssumption, FS_Subset DEF CInv, TypeOK
<1>9. Cardinality(live) \in Nat /\ Cardinality(Linking) \in Nat /\ Cardinality(Giving) \in Nat
  BY <1>8, Finite, FS_CardinalityType
<1>10. CountOK'
  BY <1>2, <1>5, <1>7, <1>9 DEF QInv, CountOK
<1> QED
  BY <1>2, <1>5, <1>10 DEF QInv

\* The user forgets its slab, which is in use: nobody depends on that.
LEMMA QForgets ==
  ASSUME CInv, QInv, NEW u, Users = {u}, sinfo[u] \in live, queue[sinfo[u]] \in {"full", "partial"},
         UNCHANGED <<live, queue, count, slab_count, panicked>>,
         sinfo' = [sinfo EXCEPT ![u] = NoSlab], pc' = [pc EXCEPT ![u] = "idle"],
         pc[u] \in {"alloc_obj", "freed"}
  PROVE  QInv'
<1>1. u \in Procs
  BY DEF Procs
<1>2. pc'[u] = "idle" /\ sinfo'[u] = NoSlab /\ \A r \in Procs \ {u} : pc'[r] = pc[r] /\ sinfo'[r] = sinfo[r]
  BY <1>1 DEF CInv, TypeOK
<1>3. Linking' = Linking /\ Giving' = Giving
  BY <1>2 DEF Linking, Giving, GiveLocs
<1>4. ASSUME NEW t \in live PROVE QueueOf(t)'
  <2>1. QueueOf(t) /\ t \in Slabs /\ t # NoSlab
    BY EachQueue, NoSlabAssumption DEF QInv, CInv, TypeOK
  <2>2. CASE t = sinfo[u]
    <3>1. queue'[t] \notin {"free", "none"}
      BY <2>2
    <3> QED
      BY <2>1, <3>1 DEF QueueOf
  <2>3. CASE t # sinfo[u]
    <3>1. Privately(t)' = Privately(t)
      BY <1>2, <2>1, <2>3 DEF Privately
    <3> QED
      BY <2>1, <3>1 DEF QueueOf
  <2> QED
    BY <2>2, <2>3
<1>5. QueueOK'
  BY <1>4 DEF QueueOK, QueueOf
<1>6. ApartOK'
  BY <1>2 DEF QInv, ApartOK, GiveLocs
<1> QED
  BY <1>3, <1>5, <1>6 DEF QInv, CountOK

LEMMA QTake ==
  ASSUME CInv, QInv, NEW u, Users = {u}, alloc_slab_obj(u)
  PROVE  QInv'
<1> DEFINE s == sinfo[u]
<1>1. pc[u] = "alloc_obj" /\ u \in Procs /\ s \in live
  BY DEF alloc_slab_obj, Procs, CInv, LocalsOK, LiveOK, WorkLocs
<1>2. count[s] <= ObjsPerSlab
  BY <1>1 DEF QInv, QueueOK
<1>3. objects[s] # {} /\ count[s] = Cardinality(Held(s)) + 1
  BY <1>1, <1>2, InUse
<1>4. /\ UNCHANGED <<live, queue, count, slab_count, panicked>>
      /\ sinfo' = [sinfo EXCEPT ![u] = NoSlab] /\ pc' = [pc EXCEPT ![u] = "idle"]
  BY <1>3 DEF alloc_slab_obj, goto
<1>5. Cardinality(Held(s)) \in Nat
  BY Finite, FS_CardinalityType
<1>6. count[s] # 0
  BY <1>3, <1>5
<1>7. queue[s] \in {"full", "partial"}
  BY <1>1, <1>6, EmptyIs
<1> QED
  BY <1>1, <1>4, <1>7, QForgets

LEMMA QFree ==
  ASSUME CInv, QInv, NEW u, Users = {u}, slab_kmem_cache_free(u)
  PROVE  QInv'
<1>1. pc[u] = "idle" /\ u \in Procs /\ sinfo[u] = NoSlab
  BY DEF slab_kmem_cache_free, Procs, CInv, LocalsOK, WorkLocs, GiveLocs
<1>2. PICK s \in Slabs, o \in Objs :
        /\ <<s, o>> \in held
        /\ IF count[s] = 0 THEN Panic
           ELSE /\ count' = [count EXCEPT ![s] = @ - 1]
                /\ queue' = [queue EXCEPT ![s] = QueueAfterFree(s)]
                /\ sinfo' = [sinfo EXCEPT ![u] = s] /\ pc' = [pc EXCEPT ![u] = "free_obj"]
                /\ UNCHANGED <<live, slab_count, panicked>>
  BY DEF slab_kmem_cache_free, goto
<1>3. s \in live /\ o \in Held(s)
  BY <1>2 DEF CInv, LiveOK, Held
<1>4. count[s] # 0
  BY <1>3, InUse
<1>5. queue[s] \in {"full", "partial"} /\ count[s] \in Nat \ {0} /\ ObjsPerSlab \in Nat \ {0}
  BY <1>3, <1>4, EmptyIs
<1>6. /\ count'[s] = count[s] - 1 /\ queue'[s] = (IF count[s] = 1 THEN "none" ELSE "partial")
      /\ sinfo'[u] = s /\ pc'[u] = "free_obj"
      /\ \A r \in Procs \ {u} : pc'[r] = pc[r] /\ sinfo'[r] = sinfo[r]
      /\ \A t \in Slabs \ {s} : count'[t] = count[t] /\ queue'[t] = queue[t]
      /\ UNCHANGED <<live, slab_count, panicked>>
  BY <1>1, <1>2, <1>4 DEF CInv, TypeOK, QueueAfterFree
<1>7. s # NoSlab
  BY NoSlabAssumption
<1>8. \A r \in Procs \ {u} : sinfo[r] # s
  BY <1>5, <1>7, KnownBy
<1>9. ASSUME NEW t \in live PROVE QueueOf(t)'
  <2>1. QueueOf(t) /\ t \in Slabs /\ t # NoSlab
    BY EachQueue, NoSlabAssumption DEF QInv, CInv, TypeOK
  <2>2. CASE t = s
    <3>1. Privately(t)' = {u}
      BY <1>1, <1>6, <1>8, <2>2 DEF Privately
    <3>2. count[s] <= ObjsPerSlab
      BY <2>1, <2>2 DEF QueueOf
    <3> QED
      BY <1>1, <1>5, <1>6, <2>2, <3>1, <3>2 DEF QueueOf
  <2>3. CASE t # s
    <3>1. Privately(t)' = Privately(t)
      BY <1>1, <1>6, <2>1, <2>3 DEF Privately
    <3> QED
      BY <1>6, <2>1, <2>3, <3>1 DEF QueueOf
  <2> QED
    BY <2>2, <2>3
<1>10. QueueOK'
  BY <1>6, <1>9 DEF QueueOK, QueueOf
<1>11. ApartOK'
  <2> SUFFICES ASSUME NEW r \in Procs, pc'[r] \in {"link"} \cup GiveLocs
               PROVE  sinfo'[r] \in live' /\ queue'[sinfo'[r]] = "none"
    BY DEF ApartOK
  <2>1. r # u /\ pc'[r] = pc[r] /\ sinfo'[r] = sinfo[r]
    BY <1>6 DEF GiveLocs
  <2>2. sinfo[r] \in live /\ queue[sinfo[r]] = "none" /\ sinfo[r] # s
    BY <1>8, <2>1 DEF QInv, ApartOK
  <2>3. sinfo[r] \in Slabs \ {s}
    BY <2>2 DEF CInv, TypeOK
  <2> QED
    BY <1>6, <2>1, <2>2, <2>3
<1>12. Linking' = Linking /\ Giving' = Giving
  BY <1>1, <1>6 DEF Linking, Giving, GiveLocs
<1> QED
  BY <1>6, <1>10, <1>11, <1>12 DEF QInv, CountOK

\* The object is not in the list yet, and its slab waits for its owner.
LEMMA QPutBack ==
  ASSUME CInv, QInv, NEW u, Users = {u}, free_slab_obj(u)
  PROVE  QInv'
<1>1. pc[u] = "free_obj" /\ u \in Procs /\ sinfo[u] \in live
  BY DEF free_slab_obj, Procs, CInv, LocalsOK, LiveOK, WorkLocs
<1>2. obj[u] \notin objects[sinfo[u]]
  <2>1. u \in Freeing(sinfo[u])
    BY <1>1 DEF Freeing
  <2> QED
    BY <1>1, <2>1 DEF CInv, ObjectsConserved
<1>3. /\ UNCHANGED <<live, queue, count, slab_count, sinfo, panicked>>
      /\ pc' = [pc EXCEPT ![u] = "freed"]
  BY <1>2 DEF free_slab_obj, goto
<1>4. pc'[u] = "freed" /\ \A r \in Procs \ {u} : pc'[r] = pc[r]
  BY <1>1, <1>3 DEF CInv, TypeOK
<1> QED
  BY <1>1, <1>3, <1>4, QuietQueues DEF GiveLocs

LEMMA QFreed ==
  ASSUME CInv, QInv, NEW u, Users = {u}, LinkUnusedSlab(u)
  PROVE  QInv'
<1> DEFINE s == sinfo[u]
<1>1. pc[u] = "freed" /\ u \in Procs /\ s \in live
  BY DEF LinkUnusedSlab, Procs, CInv, LocalsOK, LiveOK, WorkLocs
<1>2. /\ s \in Slabs /\ count[s] \in Nat /\ ObjsPerSlab \in Nat \ {0}
      /\ queue[s] \in {"full", "partial", "free", "none"}
      /\ queue[s] \in {"none", "free"} <=> count[s] = 0
  BY <1>1, EmptyIs
<1>3. u \in Privately(s) /\ queue[s] # "free"
  <2>1. u \in Privately(s)
    BY <1>1 DEF Privately
  <2> QED
    BY <1>1, <2>1 DEF QInv, QueueOK
<1>4. /\ queue' = IF count[s] = 0 THEN [queue EXCEPT ![s] = "free"] ELSE queue
      /\ UNCHANGED <<live, count, slab_count, panicked>>
      /\ sinfo' = [sinfo EXCEPT ![u] = NoSlab] /\ pc' = [pc EXCEPT ![u] = "idle"]
  BY <1>2, <1>3 DEF LinkUnusedSlab, goto, Unused
<1>5. CASE count[s] # 0
  <2>1. queue[s] \in {"full", "partial"} /\ UNCHANGED queue
    BY <1>2, <1>4, <1>5
  <2> QED
    BY <1>1, <1>4, <2>1, QForgets
<1>6. CASE count[s] = 0
  <2>0. s \in Slabs /\ s = sinfo[u] /\ s # NoSlab
    BY <1>2, NoSlabAssumption
  <2>1. /\ pc'[u] = "idle" /\ sinfo'[u] = NoSlab /\ queue'[s] = "free"
        /\ \A r \in Procs \ {u} : pc'[r] = pc[r] /\ sinfo'[r] = sinfo[r]
        /\ \A t \in Slabs \ {s} : queue'[t] = queue[t]
    BY <1>1, <1>2, <1>4, <1>6 DEF CInv, TypeOK
  <2>2. \A r \in Procs \ {u} : sinfo[r] # s
    BY <1>1, <1>2, <1>3, <1>6 DEF QInv, QueueOK, Privately
  <2>3. ASSUME NEW t \in live PROVE QueueOf(t)'
    <3>1. QueueOf(t) /\ t \in Slabs /\ t # NoSlab
      BY EachQueue, NoSlabAssumption DEF QInv, CInv, TypeOK
    <3>2. CASE t = s
      <4>1. Privately(t)' = {}
        BY <2>0, <2>1, <2>2, <3>2 DEF Privately
      <4> QED
        BY <1>2, <1>4, <1>6, <2>1, <3>2, <4>1 DEF QueueOf
    <3>3. CASE t # s
      <4>1. Privately(t)' = Privately(t)
        BY <2>0, <2>1, <3>1, <3>3 DEF Privately
      <4> QED
        BY <1>4, <2>1, <3>1, <3>3, <4>1 DEF QueueOf
    <3> QED
      BY <3>2, <3>3
  <2>4. QueueOK'
    BY <1>4, <2>3 DEF QueueOK, QueueOf
  <2>5. ApartOK'
    <3> SUFFICES ASSUME NEW r \in Procs, pc'[r] \in {"link"} \cup GiveLocs
                 PROVE  sinfo'[r] \in live' /\ queue'[sinfo'[r]] = "none"
      BY DEF ApartOK
    <3>1. r # u /\ pc'[r] = pc[r] /\ sinfo'[r] = sinfo[r]
      BY <2>1 DEF GiveLocs
    <3>2. sinfo[r] \in live /\ queue[sinfo[r]] = "none" /\ sinfo[r] # s
      BY <2>2, <3>1 DEF QInv, ApartOK
    <3>3. sinfo[r] \in Slabs \ {s}
      BY <3>2 DEF CInv, TypeOK
    <3> QED
      BY <1>4, <2>1, <3>1, <3>2, <3>3
  <2>6. Linking' = Linking /\ Giving' = Giving
    BY <1>1, <2>1 DEF Linking, Giving, GiveLocs
  <2> QED
    BY <1>4, <2>4, <2>5, <2>6 DEF QInv, CountOK
<1> QED
  BY <1>5, <1>6

\* The locals that BeginReap and the end of a loop leave alone.
LEMMA QReaps ==
  ASSUME CInv, QInv, NEW p \in Procs, UNCHANGED <<cache, sinfo, panicked>>,
         NEW m \in {"idle", "reap", "force", "wipe", "destroy"}, goto(p, m),
         pc[p] \in {"idle", "reap", "force", "wipe", "destroy"}
  PROVE  QInv'
<1>1. UNCHANGED <<live, queue, count, slab_count>>
  BY DEF cache
<1>2. pc'[p] = m /\ \A r \in Procs \ {p} : pc'[r] = pc[r]
  BY DEF goto, CInv, TypeOK
<1> QED
  BY <1>1, <1>2, QuietQueues DEF GiveLocs

\* A free slab is taken out of the queues, and counted with those given back.
LEMMA QReap ==
  ASSUME CInv, QInv, NEW u, Users = {u}, NEW p \in Procs, NEW l \in Loops, slab_kmem_cache_reap(p, l)
  PROVE  QInv'
<1>1. /\ pc[p] \in {"reap", "force", "wipe"} /\ p # u /\ sinfo[p] = NoSlab
      /\ UNCHANGED <<live, count, objects, panicked>>
  BY DEF slab_kmem_cache_reap, Loops, CInv, LocalsOK, ReapLocs, WorkLocs, GiveLocs
<1>2. CASE goto(p, IF l = "wipe" THEN "destroy" ELSE "idle") /\ UNCHANGED <<queue, sinfo, slab_count>>
  <2>1. UNCHANGED <<cache, sinfo, panicked>>
    BY <1>1, <1>2 DEF cache
  <2>2. PICK m \in {"idle", "reap", "force", "wipe", "destroy"} : goto(p, m)
    BY <1>2
  <2> QED
    BY <1>1, <2>1, <2>2, QReaps
<1>3. ASSUME NEW s \in Queued("free"), queue' = [queue EXCEPT ![s] = "none"],
             sinfo' = [sinfo EXCEPT ![p] = s], slab_count' = slab_count - 1, goto(p, GivingBack[l])
      PROVE  QInv'
  <2>1. PICK g \in GiveLocs : pc' = [pc EXCEPT ![p] = g]
    BY <1>3, GivingIs DEF goto
  <2>2. s \in live /\ s \in Slabs /\ queue[s] = "free" /\ s # NoSlab
    BY <1>3, NoSlabAssumption DEF Queued, CInv, LiveOK
  <2>3. /\ pc'[p] \in GiveLocs /\ sinfo'[p] = s /\ queue'[s] = "none"
        /\ \A r \in Procs \ {p} : pc'[r] = pc[r] /\ sinfo'[r] = sinfo[r]
        /\ \A t \in Slabs \ {s} : queue'[t] = queue[t]
    BY <1>3, <2>1, <2>2 DEF CInv, TypeOK
  <2>4. \A r \in Procs : sinfo[r] # s
    BY <2>2 DEF QInv, QueueOK, Privately
  <2>5. ASSUME NEW t \in live PROVE QueueOf(t)'
    <3>1. QueueOf(t) /\ t \in Slabs /\ t # NoSlab
      BY EachQueue, NoSlabAssumption DEF QInv, CInv, TypeOK
    <3>2. CASE t = s
      <4>1. Privately(t)' = {p}
        BY <2>3, <2>4, <3>2 DEF Privately
      <4> QED
        BY <1>1, <2>2, <2>3, <3>1, <3>2, <4>1 DEF QueueOf
    <3>3. CASE t # s
      <4>1. Privately(t)' = Privately(t)
        BY <1>1, <2>3, <3>1, <3>3 DEF Privately
      <4> QED
        BY <1>1, <2>3, <3>1, <3>3, <4>1 DEF QueueOf
    <3> QED
      BY <3>2, <3>3
  <2>6. QueueOK'
    BY <1>1, <2>5 DEF QueueOK, QueueOf
  <2>7. ApartOK'
    <3> SUFFICES ASSUME NEW r \in Procs, pc'[r] \in {"link"} \cup GiveLocs
                 PROVE  sinfo'[r] \in live' /\ queue'[sinfo'[r]] = "none"
      BY DEF ApartOK
    <3>1. CASE r = p
      BY <1>1, <2>2, <2>3, <3>1
    <3>2. CASE r # p
      <4>1. sinfo[r] \in live /\ queue[sinfo[r]] = "none" /\ sinfo'[r] = sinfo[r] /\ sinfo[r] # s
        BY <2>3, <2>4, <3>2 DEF QInv, ApartOK
      <4>2. sinfo[r] \in Slabs \ {s}
        BY <4>1 DEF CInv, TypeOK
      <4> QED
        BY <1>1, <2>3, <4>1, <4>2
    <3> QED
      BY <3>1, <3>2
  <2>8. CountOK'
    <3>1. Linking' = Linking
      BY <1>1, <2>3 DEF Linking, GiveLocs
    <3>2. Giving' = Giving \cup {p} /\ p \notin Giving
      BY <1>1, <2>3 DEF Giving, GiveLocs
    <3>3. IsFiniteSet(live)
      BY SlabAssumption, FS_Subset DEF CInv, TypeOK
    <3>4. Cardinality(live) \in Nat /\ Cardinality(Linking) \in Nat /\ Cardinality(Giving) \in Nat
      BY <3>3, Finite, FS_CardinalityType
    <3>5. Cardinality(Giving') = Cardinality(Giving) + 1
      BY <3>2, Finite, FS_AddElement
    <3> QED
      BY <1>1, <1>3, <3>1, <3>4, <3>5 DEF QInv, CountOK
  <2> QED
    BY <1>1, <2>6, <2>7, <2>8 DEF QInv
<1> QED
  BY <1>2, <1>3 DEF slab_kmem_cache_reap

LEMMA QGiveBack ==
  ASSUME CInv, QInv, NEW u, Users = {u}, NEW p \in Procs, NEW l \in Loops, free_slab_info(p, l)
  PROVE  QInv'
<1> DEFINE s == sinfo[p]
<1>1. /\ p # u /\ s \in live /\ queue[s] = "none"
      /\ \A r \in Procs \ {p} : sinfo[r] # s
  BY GiveBackAlone
<1>2. pc[p] \in GiveLocs /\ l \notin {"link"} \cup GiveLocs
  BY GivingIs DEF free_slab_info, Loops, GiveLocs
<1>3. /\ live' = live \ {s} /\ sinfo' = [sinfo EXCEPT ![p] = NoSlab] /\ pc' = [pc EXCEPT ![p] = l]
      /\ UNCHANGED <<queue, count, slab_count, panicked>>
  BY DEF free_slab_info, goto
<1>4. /\ pc'[p] = l /\ sinfo'[p] = NoSlab
      /\ \A r \in Procs \ {p} : pc'[r] = pc[r] /\ sinfo'[r] = sinfo[r]
  BY <1>3 DEF CInv, TypeOK
<1>5. ASSUME NEW t \in live \ {s} PROVE QueueOf(t)'
  <2>1. QueueOf(t) /\ t \in Slabs /\ t # NoSlab
    BY EachQueue, NoSlabAssumption DEF QInv, CInv, TypeOK
  <2>2. Privately(t)' = Privately(t)
    BY <1>4, <2>1 DEF Privately
  <2> QED
    BY <1>3, <2>1, <2>2 DEF QueueOf
<1>6. QueueOK'
  BY <1>3, <1>5 DEF QueueOK, QueueOf
<1>7. ApartOK'
  BY <1>1, <1>2, <1>3, <1>4 DEF QInv, ApartOK
<1>8. CountOK'
  <2>1. Linking' = Linking
    BY <1>2, <1>4 DEF Linking, GiveLocs
  <2>2. Giving' = Giving \ {p} /\ p \in Giving
    BY <1>2, <1>4 DEF Giving
  <2>3. IsFiniteSet(live)
    BY SlabAssumption, FS_Subset DEF CInv, TypeOK
  <2>4. Cardinality(live) \in Nat /\ Cardinality(Linking) \in Nat /\ Cardinality(Giving) \in Nat
    BY <2>3, Finite, FS_CardinalityType
  <2>5. Cardinality(Giving') = Cardinality(Giving) - 1
    BY <2>2, Finite, FS_RemoveElement
  <2>6. Cardinality(live') = Cardinality(live) - 1
    BY <1>1, <1>3, <2>3, FS_RemoveElement
  <2> QED
    BY <1>3, <2>1, <2>4, <2>5, <2>6 DEF QInv, CountOK
<1> QED
  BY <1>3, <1>6, <1>7, <1>8 DEF QInv

LEMMA InitQInv == Init => QInv
<1> SUFFICES ASSUME Init PROVE QInv
  OBVIOUS
<1>1. ~ panicked
  BY DEF Init
<1>2. QueueOK /\ ApartOK
  BY DEF Init, QueueOK, ApartOK, GiveLocs
<1>3. live = {} /\ Linking = {} /\ Giving = {} /\ slab_count = 0
  BY DEF Init, Linking, Giving, GiveLocs
<1>4. CountOK
  BY <1>3, FS_EmptySet DEF CountOK
<1> QED
  BY <1>1, <1>2, <1>4 DEF QInv

LEMMA NextQInv ==
  ASSUME CInv, QInv, NEW u, Users = {u}, [Next]_vars
  PROVE  QInv'
<1>1. ASSUME slab_kmem_cache_alloc(u) \/ slab_kmem_cache_free(u) PROVE QInv'
  BY <1>1, QAlloc, QFree
<1>2. ASSUME NEW p \in Reapers, BeginReap(p) PROVE QInv'
  <2>1. PICK m \in {"idle", "reap", "force", "wipe", "destroy"} : goto(p, m)
    BY <1>2 DEF BeginReap
  <2>2. UNCHANGED <<cache, sinfo, panicked>> /\ pc[p] = "idle" /\ p \in Procs
    BY <1>2 DEF BeginReap, Procs
  <2> QED
    BY <2>1, <2>2, QReaps
<1>3. ASSUME NEW p \in Procs, Continue(p) PROVE QInv'
  <2>1. pc[p] \in UserLocs => p = u
    BY DEF CInv, LocalsOK, Procs
  <2>2. CASE slab_kmem_cache_grow(p)
    BY <2>1, <2>2, QGrow DEF slab_kmem_cache_grow, UserLocs
  <2>3. CASE LinkNewSlab(p)
    BY <2>1, <2>3, QLink DEF LinkNewSlab, UserLocs
  <2>4. CASE alloc_slab_obj(p)
    BY <2>1, <2>4, QTake DEF alloc_slab_obj, UserLocs
  <2>5. CASE free_slab_obj(p)
    BY <2>1, <2>5, QPutBack DEF free_slab_obj, UserLocs
  <2>6. CASE LinkUnusedSlab(p)
    BY <2>1, <2>6, QFreed DEF LinkUnusedSlab, UserLocs
  <2>7. CASE slab_kmem_cache_destroy(p)
    <3>1. PICK m \in {"idle", "reap", "force", "wipe", "destroy"} : goto(p, m)
      BY <2>7 DEF slab_kmem_cache_destroy
    <3>2. UNCHANGED <<cache, sinfo, panicked>> /\ pc[p] = "destroy"
      BY <2>7 DEF slab_kmem_cache_destroy
    <3> QED
      BY <3>1, <3>2, QReaps
  <2>8. ASSUME NEW l \in Loops, slab_kmem_cache_reap(p, l) PROVE QInv'
    BY <2>8, QReap
  <2>9. ASSUME NEW l \in Loops, free_slab_info(p, l) PROVE QInv'
    BY <2>9, QGiveBack
  <2> QED
    BY <1>3, <2>2, <2>3, <2>4, <2>5, <2>6, <2>7, <2>8, <2>9 DEF Continue
<1>4. CASE UNCHANGED vars
  <2>1. UNCHANGED <<live, queue, count, slab_count, pc, sinfo, panicked>>
    BY <1>4 DEF vars, cache, local
  <2>2. Linking' = Linking /\ Giving' = Giving /\ \A s : Privately(s)' = Privately(s)
    BY <2>1 DEF Linking, Giving, Privately
  <2>3. QueueOK' /\ ApartOK' /\ CountOK'
    BY <2>1, <2>2 DEF QInv, QueueOK, ApartOK, CountOK
  <2> QED
    BY <2>1, <2>3 DEF QInv
<1> QED
  BY <1>1, <1>2, <1>3, <1>4 DEF Next

\* With one user, no slab is given back that the user knows or holds an object of.
LEMMA OneUserInvariance ==
  ASSUME NEW u, Users = {u}
  PROVE  Spec => [](CInv /\ QInv)
<1>1. Init => CInv /\ QInv
  BY InitCInv, InitQInv
<1>2. CInv /\ QInv /\ [Next]_vars => CInv' /\ QInv'
  <2> SUFFICES ASSUME CInv, QInv, [Next]_vars PROVE CInv' /\ QInv'
    OBVIOUS
  <2>1. ASSUME NEW p \in Procs, NEW l \in Loops, free_slab_info(p, l)
        PROVE  /\ \A r \in Users : sinfo[r] # sinfo[p]
               /\ Held(sinfo[p]) = {} /\ queue[sinfo[p]] = "none"
    <3>1. u \in Procs
      BY DEF Procs
    <3> QED
      BY <2>1, <3>1, GiveBackAlone
  <2> QED
    BY <2>1, NextCInv, NextQInv
<1> QED
  BY <1>1, <1>2, PTL DEF Spec

LEMMA QueuesMatch ==
  ASSUME CInv, QInv
  PROVE  QueuesMatchCounts
<1>1. ASSUME NEW s \in live, queue[s] = "none" PROVE Cardinality(Privately(s)) = 1
  <2>1. PICK p \in Procs : Privately(s) = {p}
    BY <1>1 DEF QInv, QueueOK
  <2> QED
    BY <2>1, FS_Singleton
<1>2. Giving = {p \in Procs : \E l \in Loops : pc[p] = GivingBack[l]}
  BY GivingIs DEF Giving
<1>3. slab_count = Cardinality(live)
                   - Cardinality({p \in Procs : pc[p] = "link"})
                   - Cardinality({p \in Procs : \E l \in Loops : pc[p] = GivingBack[l]})
  BY <1>2 DEF QInv, CountOK, Linking
<1>4. \A s \in live :
        /\ queue[s] = "full" <=> count[s] = ObjsPerSlab
        /\ queue[s] = "partial" <=> count[s] \in 1..(ObjsPerSlab - 1)
  BY DEF QInv, QueueOK
<1>5. ~ panicked /\ \A s \in Slabs \ live : queue[s] = "none"
  BY DEF QInv, CInv, LiveOK
<1> QED
  BY <1>1, <1>3, <1>4, <1>5 DEF QueuesMatchCounts

(* One thread allocates and releases while any number of them shrink the   *)
(* cache: between any two critical sections the queue of a slab tells how  *)
(* many of its objects are in use, a slab in no queue has exactly one      *)
(* owner, slab_count is exact, and no kassert of page-slab.c fails.  With  *)
(* two such threads a kassert does fail.                                   *)
THEOREM AlwaysMatchCounts ==
  ASSUME NEW u, Users = {u}
  PROVE  Spec => []QueuesMatchCounts
<1>1. CInv /\ QInv => QueuesMatchCounts
  BY QueuesMatch
<1> QED
  BY <1>1, OneUserInvariance, PTL

(* Under the same conditions slab_kmem_cache_reap and _destroy never give  *)
(* the pages of a slab back while an object of it is held, or while the    *)
(* thread that released one still works on its list outside the lock.      *)
THEOREM NeverReapedInUse ==
  ASSUME NEW u, Users = {u}
  PROVE  Spec => []NotReapedInUse
<1>1. CInv /\ QInv => NotReapedInUse
  BY DEF CInv, LiveOK, NotReapedInUse, Held
<1> QED
  BY <1>1, OneUserInvariance, PTL

(* Nor does a shrinking cache lose an object, or give it out twice.        *)
THEOREM AlwaysConservedReaped ==
  ASSUME NEW u, Users = {u}
  PROVE  Spec => []ObjectsConserved
<1>1. CInv /\ QInv => ObjectsConserved
  BY DEF CInv
<1> QED
  BY <1>1, OneUserInvariance, PTL
=============================================================================
