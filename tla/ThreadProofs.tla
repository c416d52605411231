---------------------------- MODULE ThreadProofs ----------------------------
(***************************************************************************)
(* That the counters of threads are exact and that nothing refers to a     *)
(* thread structure that was freed, for any number of threads, any         *)
(* priorities and any number of references from elsewhere.                 *)
(*                                                                         *)
(* A thread that waits for a child holds a reference to itself, counted    *)
(* like those between threads (Refs).  Inside a call of thr-thread.c the   *)
(* counters are not exact: a thread takes references to itself, and a      *)
(* thread that ends still has the one its child held.  Life says the state *)
(* is right but for n references too many to the thread h.  Each function  *)
(* of the module moves the surplus, and a call begins and ends without     *)
(* one.                                                                    *)
(***************************************************************************)
EXTENDS ThreadLife, SchedLemmas

-----------------------------------------------------------------------------
(* The invariant.                                                          *)

Roots == {Idle, Reaper}

Deps(u, t)   == {c \in u.tree \ {t} : u.parent[c] = t}
PinsOf(P, t) == {x \in P : x[2] = t}

\* The references of the tree and of the list of the parent.
Held(u, t) == IF u.k.state[t] = "EXIT" THEN 0 ELSE IF t \in Roots THEN 1 ELSE 2

LifeType ==
    [k : SchedType, parent : [Threads -> Threads], children : [Threads -> SUBSET Threads],
     waiters : [Threads -> Seq(Threads)], refs : [Threads -> Nat], tree : SUBSET Threads]

\* The tree has the threads that have not ended, below the two that never end.
TreeOK(u) ==
    /\ u.tree = {t \in Threads : u.k.state[t] \notin {"DEAD", "FREE"}}
    /\ Roots \subseteq u.tree
    /\ u.k.state[Reaper] # "EXIT"
    /\ \A t \in u.tree : u.parent[t] \in u.tree /\ (u.parent[t] = t <=> t \in Roots)
    /\ \A p \in Threads :
          u.children[p] = {t \in u.tree \ {p} : u.parent[t] = p /\ u.k.state[t] # "EXIT"}

\* Those that wait to be collected are dead, and in the list of their parent.
WaitersOK(u) ==
    \A p \in Threads :
        /\ IsInjective(u.waiters[p])
        /\ \A t \in Range(u.waiters[p]) : u.k.state[t] = "DEAD" /\ u.parent[t] = p

RefsOK(u, P, h, n) ==
    /\ \A t \in u.tree :
          u.refs[t] = Held(u, t) + Cardinality(Deps(u, t)) + Cardinality(PinsOf(P, t))
                      + (IF t = h THEN n ELSE 0)
    /\ \A t \in Threads : u.k.state[t] = "DEAD" => u.refs[t] = 0

\* A thread waits in its own queue; one that was woken has a child to collect.
WaitOK(u, c) ==
    /\ \A t \in Threads : c[t] = "wait" =>
         /\ t # Idle /\ u.k.state[t] \in {"WAIT", "RUN", "RUNABLE"}
         /\ u.k.state[t] # "WAIT" => u.k.reason[t] = "RELEASED" /\ u.waiters[t] # <<>>
    /\ \A t \in Threads : u.k.state[t] = "WAIT" => c[t] = "wait"
    /\ \A q \in Threads : Range(u.k.wq[q]) \subseteq {q}

Life(u, P, c, h, n) ==
    /\ u \in LifeType /\ SchedOK(u.k) /\ ~ u.k.panic
    /\ P \subseteq Threads \X u.tree
    /\ TreeOK(u) /\ WaitersOK(u) /\ RefsOK(u, P, h, n) /\ WaitOK(u, c)

(* The references of threads to each other, and of those that wait for a   *)
(* child to themselves.                                                    *)
Refs(P, c) == P \cup {<<t, t>> : t \in {x \in Threads : c[x] = "wait"}}

\* The inductive invariant.
IInv ==
    /\ Life(w, Refs(pins, pc), pc, Idle, 0) /\ OnCpu(w.k)
    /\ pc \in [Threads -> {"run", "wait"}]
    /\ \A x \in pins : x[1] # x[2]

-----------------------------------------------------------------------------
(* The record of the threads by its fields.                                *)

Rec(k, parent, children, waiters, refs, tree) ==
    [k |-> k, parent |-> parent, children |-> children, waiters |-> waiters, refs |-> refs,
     tree |-> tree]

\* The fields of a record and their types.
LEMMA LifeFields ==
    ASSUME NEW u \in LifeType
    PROVE  /\ u = Rec(u.k, u.parent, u.children, u.waiters, u.refs, u.tree)
           /\ u.k \in SchedType /\ u.parent \in [Threads -> Threads]
           /\ u.children \in [Threads -> SUBSET Threads]
           /\ u.waiters \in [Threads -> Seq(Threads)] /\ u.refs \in [Threads -> Nat]
           /\ u.tree \in SUBSET Threads
BY DEF LifeType, Rec

LEMMA RecType ==
    ASSUME NEW k \in SchedType, NEW parent \in [Threads -> Threads],
           NEW children \in [Threads -> SUBSET Threads],
           NEW waiters \in [Threads -> Seq(Threads)], NEW refs \in [Threads -> Nat],
           NEW tree \in SUBSET Threads
    PROVE  Rec(k, parent, children, waiters, refs, tree) \in LifeType
BY DEF LifeType, Rec

LEMMA RecFields ==
    ASSUME NEW k, NEW parent, NEW children, NEW waiters, NEW refs, NEW tree,
           NEW u, u = Rec(k, parent, children, waiters, refs, tree)
    PROVE  /\ u.k = k /\ u.parent = parent /\ u.children = children
           /\ u.waiters = waiters /\ u.refs = refs /\ u.tree = tree
BY DEF Rec

\* A kassert that holds.
LEMMA AssertLife ==
    ASSUME NEW u \in LifeType, NEW b, b
    PROVE  assert(u, b) = u
<1>1. kassert(u.k, b) = u.k
  BY LifeFields, AssertHolds
<1>2. assert(u, b) = [u EXCEPT !.k = kassert(u.k, b)]
  BY DEF assert
<1> DEFINE r == Rec(u.k, u.parent, u.children, u.waiters, u.refs, u.tree)
<1>3. u = r
  BY LifeFields
<1>4. assert(u, b) = [u EXCEPT !.k = u.k]
  BY <1>1, <1>2, Zenon
<1>5. assert(u, b) = [r EXCEPT !.k = u.k]
  BY <1>3, <1>4, Zenon
<1>6. [r EXCEPT !.k = u.k] = r
  BY DEF Rec
<1> QED
  BY <1>3, <1>5, <1>6, Zenon

-----------------------------------------------------------------------------
(* References.                                                             *)

\* What thr_ref_inc and thr_ref_dec do when a reference is left.
LEMMA IncFields ==
    ASSUME NEW u \in LifeType, NEW t \in Threads, u.refs[t] > 0
    PROVE  thr_ref_inc(u, t) = Rec(u.k, u.parent, u.children, u.waiters,
                                   [u.refs EXCEPT ![t] = @ + 1], u.tree)
<1> DEFINE r == Rec(u.k, u.parent, u.children, u.waiters, u.refs, u.tree)
<1> DEFINE a == assert(u, u.refs[t] > 0)
<1>1. a = u
  BY AssertLife, Zenon
<1>2. thr_ref_inc(u, t) = [a EXCEPT !.refs[t] = @ + 1]
  BY DEF thr_ref_inc
<1> HIDE DEF a
<1>3. thr_ref_inc(u, t) = [u EXCEPT !.refs = [u.refs EXCEPT ![t] = @ + 1]]
  BY <1>1, <1>2
<1>4. u = r
  BY LifeFields
<1>5. thr_ref_inc(u, t) = [r EXCEPT !.refs = [u.refs EXCEPT ![t] = @ + 1]]
  BY <1>3, <1>4, Zenon
<1> QED
  BY <1>5 DEF Rec

LEMMA DecFields ==
    ASSUME NEW u \in LifeType, NEW t \in Threads, u.refs[t] > 1
    PROVE  LET v == Rec(u.k, u.parent, u.children, u.waiters, [u.refs EXCEPT ![t] = @ - 1], u.tree)
           IN  thr_ref_dec(u, t) = v /\ RefDecNotLast(u, t) = v
<1> DEFINE r == Rec(u.k, u.parent, u.children, u.waiters, u.refs, u.tree)
<1>1. assert(u, u.refs[t] > 1) = u
  BY AssertLife, Zenon
<1>2. thr_ref_dec(u, t) = [u EXCEPT !.refs = [u.refs EXCEPT ![t] = @ - 1]]
  BY DEF thr_ref_dec
<1>3. u = r
  BY LifeFields
<1>4. thr_ref_dec(u, t) = [r EXCEPT !.refs = [u.refs EXCEPT ![t] = @ - 1]]
  BY <1>2, <1>3, Zenon
<1>5. thr_ref_dec(u, t) = Rec(u.k, u.parent, u.children, u.waiters, [u.refs EXCEPT ![t] = @ - 1], u.tree)
  BY <1>4 DEF Rec
<1>6. RefDecNotLast(u, t) = thr_ref_dec(u, t)
  BY <1>1 DEF RefDecNotLast
<1> QED
  BY <1>5, <1>6

\* add_child_thread_nolock counts the child and the parent.
LEMMA AddChildFields ==
    ASSUME NEW u \in LifeType, NEW t \in Threads, NEW p \in Threads \ {t},
           u.refs[t] > 0, u.refs[p] > 0
    PROVE  add_child_thread_nolock(u, t, p) =
             Rec(u.k, [u.parent EXCEPT ![t] = p], [u.children EXCEPT ![p] = @ \cup {t}], u.waiters,
                 [u.refs EXCEPT ![t] = @ + 1, ![p] = @ + 1], u.tree)
<1> DEFINE r == Rec(u.k, u.parent, u.children, u.waiters, u.refs, u.tree)
           parent == [u.parent EXCEPT ![t] = p]
           children == [u.children EXCEPT ![p] = @ \cup {t}]
           refs == [u.refs EXCEPT ![t] = @ + 1]
           g == [u EXCEPT !.children[p] = @ \cup {t}, !.parent[t] = p]
           v == Rec(u.k, parent, children, u.waiters, u.refs, u.tree)
           x == Rec(u.k, parent, children, u.waiters, refs, u.tree)
<1>1. u = r /\ u.k \in SchedType /\ u.waiters \in [Threads -> Seq(Threads)]
      /\ u.refs \in [Threads -> Nat] /\ u.tree \in SUBSET Threads
  BY LifeFields
<1>2. parent \in [Threads -> Threads] /\ children \in [Threads -> SUBSET Threads]
      /\ refs \in [Threads -> Nat] /\ refs[p] = u.refs[p]
  BY <1>1, LifeFields
<1>3. g = [u EXCEPT !.children = children, !.parent = parent]
  OBVIOUS
<1>4. add_child_thread_nolock(u, t, p) = thr_ref_inc(thr_ref_inc(g, t), p)
  BY DEF add_child_thread_nolock
<1> HIDE DEF g, parent, children, refs
<1>5. g = [r EXCEPT !.children = children, !.parent = parent]
  BY <1>1, <1>3, Zenon
<1>6. g = v
  BY <1>5 DEF Rec
<1>7. v \in LifeType /\ x \in LifeType
  BY <1>1, <1>2, RecType
<1>8. thr_ref_inc(g, t) = x
  <2>1. v.refs = u.refs /\ v.k = u.k /\ v.parent = parent /\ v.children = children
        /\ v.waiters = u.waiters /\ v.tree = u.tree
    BY DEF Rec
  <2> HIDE DEF v
  <2>2. thr_ref_inc(v, t) = Rec(v.k, v.parent, v.children, v.waiters, [v.refs EXCEPT ![t] = @ + 1], v.tree)
    BY <1>7, <2>1, IncFields
  <2> QED
    BY <1>6, <2>1, <2>2 DEF refs
<1>9. thr_ref_inc(x, p) = Rec(u.k, parent, children, u.waiters, [refs EXCEPT ![p] = @ + 1], u.tree)
  <2>1. x.refs = refs /\ x.k = u.k /\ x.parent = parent /\ x.children = children
        /\ x.waiters = u.waiters /\ x.tree = u.tree
    BY DEF Rec
  <2> HIDE DEF x
  <2>2. thr_ref_inc(x, p) = Rec(x.k, x.parent, x.children, x.waiters, [x.refs EXCEPT ![p] = @ + 1], x.tree)
    BY <1>2, <1>7, <2>1, IncFields
  <2> QED
    BY <2>1, <2>2
<1>10. [refs EXCEPT ![p] = @ + 1] = [u.refs EXCEPT ![t] = @ + 1, ![p] = @ + 1]
  BY DEF refs
<1> QED
  BY <1>4, <1>8, <1>9, <1>10 DEF parent, children

\* del_child_thread_nolock drops the reference of the list.
LEMMA DelChildFields ==
    ASSUME NEW u \in LifeType, NEW t \in Threads, NEW p \in Threads,
           t \in u.children[p], u.parent[t] = p, u.refs[t] > 1
    PROVE  del_child_thread_nolock(u, t, p) =
             Rec(u.k, u.parent, [u.children EXCEPT ![p] = @ \ {t}], u.waiters,
                 [u.refs EXCEPT ![t] = @ - 1], u.tree)
<1> DEFINE r == Rec(u.k, u.parent, u.children, u.waiters, u.refs, u.tree)
           children == [u.children EXCEPT ![p] = @ \ {t}]
           g == [u EXCEPT !.children[p] = @ \ {t}]
           v == Rec(u.k, u.parent, children, u.waiters, u.refs, u.tree)
<1>1. u = r /\ u.k \in SchedType /\ u.waiters \in [Threads -> Seq(Threads)]
      /\ u.refs \in [Threads -> Nat] /\ u.tree \in SUBSET Threads
      /\ u.parent \in [Threads -> Threads]
  BY LifeFields
<1>2. children \in [Threads -> SUBSET Threads]
  BY LifeFields
<1>3. assert(u, t \in u.children[p] /\ u.parent[t] = p) = u
  BY AssertLife, Zenon
<1>4. del_child_thread_nolock(u, t, p) = RefDecNotLast(g, t)
  BY <1>3 DEF del_child_thread_nolock
<1>5. g = [u EXCEPT !.children = children]
  OBVIOUS
<1> HIDE DEF g, children
<1>6. g = [r EXCEPT !.children = children]
  BY <1>1, <1>5, Zenon
<1>7. g = v
  BY <1>6 DEF Rec
<1>8. v \in LifeType
  BY <1>1, <1>2, RecType
<1>9. v.refs = u.refs /\ v.k = u.k /\ v.parent = u.parent /\ v.children = children
      /\ v.waiters = u.waiters /\ v.tree = u.tree
  BY DEF Rec
<1> HIDE DEF v
<1>10. RefDecNotLast(v, t) =
         Rec(v.k, v.parent, v.children, v.waiters, [v.refs EXCEPT ![t] = @ - 1], v.tree)
  BY <1>8, <1>9, DecFields
<1> QED
  BY <1>4, <1>7, <1>9, <1>10 DEF children

-----------------------------------------------------------------------------
(* Counting.                                                               *)

\* The terms of a counter are numbers.
LEMMA Counts ==
    ASSUME NEW u \in LifeType, NEW P \in SUBSET (Threads \X Threads), NEW t \in Threads
    PROVE  /\ IsFiniteSet(Deps(u, t)) /\ Cardinality(Deps(u, t)) \in Nat
           /\ IsFiniteSet(PinsOf(P, t)) /\ Cardinality(PinsOf(P, t)) \in Nat
           /\ Held(u, t) \in 0 .. 2
<1>1. IsFiniteSet(Threads)
  BY SchedAssumption
<1>2. IsFiniteSet(Threads \X Threads)
  BY <1>1, FS_Product
<1>3. Deps(u, t) \subseteq Threads /\ PinsOf(P, t) \subseteq Threads \X Threads
  BY LifeFields DEF Deps, PinsOf
<1>4. IsFiniteSet(Deps(u, t)) /\ IsFiniteSet(PinsOf(P, t))
  BY <1>1, <1>2, <1>3, FS_Subset
<1>5. Held(u, t) \in 0 .. 2
  BY DEF Held
<1> QED
  BY <1>4, <1>5, FS_CardinalityType

\* What Life says of the types.
LEMMA LifeTypes ==
    ASSUME NEW u, NEW P, NEW c, NEW h, NEW n, Life(u, P, c, h, n)
    PROVE  /\ u \in LifeType /\ u.tree \in SUBSET Threads /\ P \in SUBSET (Threads \X Threads)
           /\ Roots \subseteq u.tree /\ Idle # Reaper /\ WaitQueues = Threads
           /\ \A t \in u.tree : u.parent[t] \in u.tree
<1>1. u \in LifeType /\ P \subseteq Threads \X u.tree /\ TreeOK(u)
  BY DEF Life
<1>2. u.tree \in SUBSET Threads
  BY <1>1, LifeFields
<1> QED
  BY <1>1, <1>2, LifeAssumption DEF TreeOK

\* A thread that has not ended has references.
LEMMA Alive ==
    ASSUME NEW u, NEW P, NEW c, NEW h, NEW n \in Nat, Life(u, P, c, h, n),
           NEW t \in u.tree, u.k.state[t] # "EXIT"
    PROVE  u.refs[t] > 0 /\ (t \notin Roots => u.refs[t] > 1)
<1>1. u \in LifeType /\ P \in SUBSET (Threads \X Threads) /\ t \in Threads
  BY LifeTypes
<1>2. Cardinality(Deps(u, t)) \in Nat /\ Cardinality(PinsOf(P, t)) \in Nat
  BY <1>1, Counts
<1>3. u.refs[t] = Held(u, t) + Cardinality(Deps(u, t)) + Cardinality(PinsOf(P, t))
                  + (IF t = h THEN n ELSE 0)
  BY DEF Life, RefsOK
<1>4. Held(u, t) = IF t \in Roots THEN 1 ELSE 2
  BY DEF Held
<1> QED
  BY <1>2, <1>3, <1>4

\* Only the counters and the references from elsewhere change.
LEMMA RefsOnly ==
    ASSUME NEW u, NEW P, NEW c, NEW h, NEW n, Life(u, P, c, h, n),
           NEW refs \in [Threads -> Nat], NEW Q, Q \subseteq Threads \X u.tree, NEW g, NEW m,
           \A t \in u.tree :
              refs[t] = Held(u, t) + Cardinality(Deps(u, t)) + Cardinality(PinsOf(Q, t))
                        + (IF t = g THEN m ELSE 0),
           \A t \in Threads \ u.tree : refs[t] = u.refs[t]
    PROVE  Life(Rec(u.k, u.parent, u.children, u.waiters, refs, u.tree), Q, c, g, m)
<1> DEFINE v == Rec(u.k, u.parent, u.children, u.waiters, refs, u.tree)
<1>1. u \in LifeType
  BY DEF Life
<1>2. v \in LifeType
  BY <1>1, LifeFields, RecType
<1>3. /\ v.k = u.k /\ v.parent = u.parent /\ v.children = u.children
      /\ v.waiters = u.waiters /\ v.refs = refs /\ v.tree = u.tree
  BY DEF Rec
<1> HIDE DEF v
<1>4. TreeOK(v)
  BY <1>3 DEF Life, TreeOK
<1>5. WaitersOK(v)
  BY <1>3 DEF Life, WaitersOK
<1>6. WaitOK(v, c)
  BY <1>3 DEF Life, WaitOK
<1>7. RefsOK(v, Q, g, m)
  <2>1. \A t : Held(v, t) = Held(u, t) /\ Deps(v, t) = Deps(u, t)
    BY <1>3 DEF Held, Deps
  <2>2. ASSUME NEW t \in Threads, v.k.state[t] = "DEAD" PROVE v.refs[t] = 0
    <3>1. t \notin u.tree /\ u.refs[t] = 0
      BY <1>3, <2>2 DEF Life, TreeOK, RefsOK
    <3> QED
      BY <1>3, <3>1
  <2> QED
    BY <1>3, <2>1, <2>2 DEF RefsOK
<1> QED
  BY <1>2, <1>3, <1>4, <1>5, <1>6, <1>7 DEF Life, v

\* No surplus is no surplus of any thread.
LEMMA NoSurplus ==
    ASSUME NEW u, NEW P, NEW c, NEW h, Life(u, P, c, h, 0), NEW g
    PROVE  Life(u, P, c, g, 0)
<1>1. RefsOK(u, P, g, 0)
  BY DEF Life, RefsOK
<1> QED
  BY <1>1 DEF Life

\* One reference more.
LEMMA Take ==
    ASSUME NEW u, NEW P, NEW c, NEW n \in Nat, NEW t \in u.tree, Life(u, P, c, t, n),
           u.refs[t] > 0
    PROVE  LET v == thr_ref_inc(u, t)
           IN  /\ Life(v, P, c, t, n + 1)
               /\ v = Rec(u.k, u.parent, u.children, u.waiters, [u.refs EXCEPT ![t] = @ + 1], u.tree)
<1> DEFINE refs == [u.refs EXCEPT ![t] = @ + 1]
<1>1. u \in LifeType /\ P \in SUBSET (Threads \X Threads) /\ t \in Threads
      /\ u.tree \in SUBSET Threads
  BY LifeTypes
<1>2. thr_ref_inc(u, t) = Rec(u.k, u.parent, u.children, u.waiters, refs, u.tree)
  BY <1>1, IncFields
<1>3. /\ refs \in [Threads -> Nat] /\ refs[t] = u.refs[t] + 1
      /\ \A x \in Threads \ {t} : refs[x] = u.refs[x]
  BY <1>1, LifeFields
<1> HIDE DEF refs
<1>4. ASSUME NEW x \in u.tree
      PROVE  refs[x] = Held(u, x) + Cardinality(Deps(u, x)) + Cardinality(PinsOf(P, x))
                       + (IF x = t THEN n + 1 ELSE 0)
  <2>1. u.refs[x] = Held(u, x) + Cardinality(Deps(u, x)) + Cardinality(PinsOf(P, x))
                    + (IF x = t THEN n ELSE 0)
    BY DEF Life, RefsOK
  <2>2. Cardinality(Deps(u, x)) \in Nat /\ Cardinality(PinsOf(P, x)) \in Nat /\ Held(u, x) \in 0 .. 2
    BY <1>1, Counts
  <2> QED
    BY <1>1, <1>3, <2>1, <2>2
<1>5. \A x \in Threads \ u.tree : refs[x] = u.refs[x]
  BY <1>3
<1>6. P \subseteq Threads \X u.tree
  BY DEF Life
<1>7. Life(Rec(u.k, u.parent, u.children, u.waiters, refs, u.tree), P, c, t, n + 1)
  BY <1>3, <1>4, <1>5, <1>6, RefsOnly
<1> QED
  BY <1>2, <1>7 DEF refs

\* One of the references that are too many goes, and others stay.
LEMMA Drop ==
    ASSUME NEW u, NEW P, NEW c, NEW n \in Nat, NEW t \in u.tree, Life(u, P, c, t, n + 1)
    PROVE  LET refs == [u.refs EXCEPT ![t] = @ - 1]
           IN  /\ u.refs[t] > 0
               /\ Life(Rec(u.k, u.parent, u.children, u.waiters, refs, u.tree), P, c, t, n)
<1> DEFINE refs == [u.refs EXCEPT ![t] = @ - 1]
<1>1. u \in LifeType /\ P \in SUBSET (Threads \X Threads) /\ t \in Threads
      /\ u.tree \in SUBSET Threads
  BY LifeTypes
<1>2. ASSUME NEW x \in u.tree
      PROVE  /\ u.refs[x] = Held(u, x) + Cardinality(Deps(u, x)) + Cardinality(PinsOf(P, x))
                             + (IF x = t THEN n + 1 ELSE 0)
             /\ Cardinality(Deps(u, x)) \in Nat /\ Cardinality(PinsOf(P, x)) \in Nat
             /\ Held(u, x) \in 0 .. 2
  BY <1>1, Counts DEF Life, RefsOK
<1>3. u.refs[t] > 0
  BY <1>2
<1>4. /\ refs \in [Threads -> Nat] /\ refs[t] = u.refs[t] - 1
      /\ \A x \in Threads \ {t} : refs[x] = u.refs[x]
  BY <1>1, <1>3, LifeFields
<1> HIDE DEF refs
<1>5. ASSUME NEW x \in u.tree
      PROVE  refs[x] = Held(u, x) + Cardinality(Deps(u, x)) + Cardinality(PinsOf(P, x))
                       + (IF x = t THEN n ELSE 0)
  BY <1>1, <1>2, <1>4
<1>6. \A x \in Threads \ u.tree : refs[x] = u.refs[x]
  BY <1>4
<1>7. P \subseteq Threads \X u.tree
  BY DEF Life
<1>8. Life(Rec(u.k, u.parent, u.children, u.waiters, refs, u.tree), P, c, t, n)
  BY <1>4, <1>5, <1>6, <1>7, RefsOnly
<1> QED
  BY <1>3, <1>8 DEF refs

-----------------------------------------------------------------------------
(* The last reference of a thread.                                         *)

\* What becomes of the other threads: those in no queue only lose their references.
Kept(u, v) ==
    /\ v.k.cur = u.k.cur
    /\ \A x \in Threads : Off(u.k, x) =>
          /\ Off(v.k, x)
          /\ v.k.state[x] = u.k.state[x] \/ (u.k.state[x] = "EXIT" /\ v.k.state[x] = "DEAD")

\* What LastRef changes.
LEMMA LastRefFields ==
    ASSUME NEW u \in LifeType, NEW t \in u.tree, ~ LinkUsed(u, t)
    PROVE  LastRef(u, t) =
             Rec(wque_wakeup([u.k EXCEPT !.state[t] = "DEAD"], u.parent[t], "RELEASED"),
                 u.parent, u.children, [u.waiters EXCEPT ![u.parent[t]] = Append(@, t)],
                 [u.refs EXCEPT ![t] = 0], u.tree \ {t})
<1> DEFINE r == Rec(u.k, u.parent, u.children, u.waiters, u.refs, u.tree)
           refs == [u.refs EXCEPT ![t] = 0]
           tree == u.tree \ {t}
           p == u.parent[t]
           a == assert(u, t \in u.tree)
           g == [a EXCEPT !.refs[t] = 0, !.tree = @ \ {t}]
           v == Rec(u.k, u.parent, u.children, u.waiters, refs, tree)
           b == assert(v, ~ LinkUsed(v, t))
           waiters == [u.waiters EXCEPT ![p] = Append(@, t)]
<1>1. /\ u = r /\ t \in Threads /\ p \in Threads /\ u.k \in SchedType
      /\ u.parent \in [Threads -> Threads] /\ u.children \in [Threads -> SUBSET Threads]
      /\ u.waiters \in [Threads -> Seq(Threads)] /\ u.refs \in [Threads -> Nat]
      /\ u.tree \in SUBSET Threads
  BY LifeFields
<1>2. LastRef(u, t) = TellParent(g, t)
  BY DEF LastRef
<1>3. a = u
  BY AssertLife, Zenon
<1> HIDE DEF a
<1>4. g = [u EXCEPT !.refs = refs, !.tree = tree]
  BY <1>3
<1> HIDE DEF g
<1>5. refs \in [Threads -> Nat] /\ tree \in SUBSET Threads
  BY <1>1
<1> HIDE DEF refs, tree
<1>6. g = [r EXCEPT !.refs = refs, !.tree = tree]
  BY <1>1, <1>4, Zenon
<1>7. g = v
  BY <1>6 DEF Rec
<1>8. v \in LifeType
  BY <1>1, <1>5, RecType
<1>9. v.refs = refs /\ v.k = u.k /\ v.parent = u.parent /\ v.children = u.children
      /\ v.waiters = u.waiters /\ v.tree = tree
  BY DEF Rec
<1>10. ~ LinkUsed(v, t)
  BY <1>9 DEF LinkUsed
<1>11. TellParent(v, t) =
         [b EXCEPT !.waiters[p] = Append(@, t),
                   !.k = wque_wakeup([@ EXCEPT !.state[t] = "DEAD"], p, "RELEASED")]
  BY <1>9 DEF TellParent
<1> HIDE DEF b
<1>12. b = v
  <2> HIDE DEF v
  <2> QED
    BY <1>8, <1>10, AssertLife, Zenon DEF b
<1> DEFINE k == wque_wakeup([u.k EXCEPT !.state[t] = "DEAD"], p, "RELEASED")
<1>13. TellParent(v, t) = [v EXCEPT !.waiters = waiters, !.k = k]
  <2> HIDE DEF v
  <2>1. TellParent(v, t) = [v EXCEPT !.waiters[p] = Append(@, t),
                              !.k = wque_wakeup([@ EXCEPT !.state[t] = "DEAD"], p, "RELEASED")]
    BY <1>11, <1>12
  <2> QED
    BY <1>9, <2>1
<1> HIDE DEF k, waiters
<1>14. [v EXCEPT !.waiters = waiters, !.k = k] = Rec(k, u.parent, u.children, waiters, refs, tree)
  <2>1. [v EXCEPT !.waiters = waiters] = Rec(u.k, u.parent, u.children, waiters, refs, tree)
    BY DEF Rec
  <2>2. [Rec(u.k, u.parent, u.children, waiters, refs, tree) EXCEPT !.k = k]
          = Rec(k, u.parent, u.children, waiters, refs, tree)
    BY DEF Rec
  <2>3. [v EXCEPT !.waiters = waiters, !.k = k] = [[v EXCEPT !.waiters = waiters] EXCEPT !.k = k]
    OBVIOUS
  <2> HIDE DEF v
  <2> QED
    BY <2>1, <2>2, <2>3, Zenon
<1> QED
  BY <1>2, <1>7, <1>13, <1>14 DEF k, waiters, refs, tree

\* Of a thread with a reference too many that is its only one nothing else is left.
LEMMA Bare ==
    ASSUME NEW u, NEW P, NEW c, NEW t \in u.tree, Life(u, P, c, t, 1), u.refs[t] <= 1
    PROVE  /\ u.k.state[t] = "EXIT" /\ t \notin Roots /\ Off(u.k, t) /\ ~ LinkUsed(u, t)
           /\ Deps(u, t) = {} /\ PinsOf(P, t) = {}
           /\ u.parent[t] \in u.tree \ {t} /\ t \in Deps(u, u.parent[t])
<1>1. u \in LifeType /\ P \in SUBSET (Threads \X Threads) /\ t \in Threads /\ WaitQueues = Threads
  BY LifeTypes
<1>2. /\ IsFiniteSet(Deps(u, t)) /\ IsFiniteSet(PinsOf(P, t)) /\ Held(u, t) \in 0 .. 2
      /\ Cardinality(Deps(u, t)) \in Nat /\ Cardinality(PinsOf(P, t)) \in Nat
  BY <1>1, Counts
<1>3. u.refs[t] = Held(u, t) + Cardinality(Deps(u, t)) + Cardinality(PinsOf(P, t)) + 1
  BY DEF Life, RefsOK
<1>4. Held(u, t) = 0 /\ Cardinality(Deps(u, t)) = 0 /\ Cardinality(PinsOf(P, t)) = 0
  BY <1>2, <1>3
<1>5. u.k.state[t] = "EXIT"
  BY <1>4 DEF Held
<1>6. t \notin Roots
  BY <1>5 DEF Life, TreeOK, SchedOK, FlagsOK, Roots
<1>7. Off(u.k, t)
  <2>1. SchedOK(u.k)
    BY DEF Life
  <2> QED
    BY <1>5, <2>1, QueuedThreads DEF Off
<1>8. ~ LinkUsed(u, t)
  BY <1>5, <1>7 DEF LinkUsed, Off, Life, WaitersOK
<1>9. u.parent[t] \in u.tree \ {t}
  BY <1>6 DEF Life, TreeOK
<1>10. t \in Deps(u, u.parent[t])
  BY <1>9 DEF Deps
<1> QED
  BY <1>2, <1>4, <1>5, <1>6, <1>7, <1>8, <1>9, <1>10, FS_EmptySet

(* The thread is out of the tree and dead, its parent is awake and has the *)
(* reference of the child too many.                                        *)
LEMMA LastRefKeeps ==
    ASSUME NEW u, NEW P, NEW c, NEW t \in u.tree, Life(u, P, c, t, 1), u.refs[t] <= 1
    PROVE  LET v == LastRef(u, t)
               p == u.parent[t]
           IN  /\ Life(v, P, c, p, 1) /\ p \in v.tree /\ Kept(u, v)
               /\ v.parent = u.parent /\ v.tree = u.tree \ {t}
               /\ \A x \in v.tree : v.refs[x] = u.refs[x]
<1> DEFINE v == LastRef(u, t)
           p == u.parent[t]
           d == [u.k EXCEPT !.state[t] = "DEAD"]
           k == wque_wakeup(d, p, "RELEASED")
           waiters == [u.waiters EXCEPT ![p] = Append(@, t)]
           refs == [u.refs EXCEPT ![t] = 0]
           tree == u.tree \ {t}
<1>1. /\ u \in LifeType /\ P \in SUBSET (Threads \X Threads) /\ t \in Threads
      /\ WaitQueues = Threads /\ u.tree \in SUBSET Threads
  BY LifeTypes
<1>2. /\ u.k.state[t] = "EXIT" /\ t \notin Roots /\ Off(u.k, t) /\ ~ LinkUsed(u, t)
      /\ Deps(u, t) = {} /\ PinsOf(P, t) = {} /\ p \in tree /\ t \in Deps(u, p)
  BY Bare
<1>3. /\ SchedOK(u.k) /\ ~ u.k.panic /\ P \subseteq Threads \X u.tree /\ TreeOK(u)
      /\ WaitersOK(u) /\ RefsOK(u, P, t, 1) /\ WaitOK(u, c)
  BY DEF Life
<1>4. v = Rec(k, u.parent, u.children, waiters, refs, tree)
  BY <1>1, <1>2, LastRefFields
<1>5. /\ u.parent \in [Threads -> Threads] /\ u.children \in [Threads -> SUBSET Threads]
      /\ u.waiters \in [Threads -> Seq(Threads)] /\ u.refs \in [Threads -> Nat]
      /\ u.k \in SchedType /\ u.k.state \in [Threads -> States]
  BY <1>1, LifeFields, SchedFields
<1>6. p \in Threads /\ p # t
  BY <1>1, <1>2
<1>7. /\ SchedOK(d) /\ d.cur = u.k.cur /\ d.wq = u.k.wq /\ d.reason = u.k.reason
      /\ d.panic = u.k.panic /\ d.state = [u.k.state EXCEPT ![t] = "DEAD"]
      /\ Ready(d) = Ready(u.k) /\ Waiting(d) = Waiting(u.k)
  <2>1. t \in Threads \ {Idle}
    BY <1>1, <1>2 DEF Roots
  <2> QED
    BY <1>2, <1>3, <2>1, Ends
<1> HIDE DEF d
<1>8. SchedOK(k) /\ Wakes(d, k, p, "RELEASED")
  BY <1>1, <1>6, <1>7, Wakeup DEF Reasons
<1> HIDE DEF k
<1> DEFINE woken == Range(u.k.wq[p])
<1>9. woken \subseteq {p} /\ woken \subseteq Waiting(u.k)
  <2>1. \A q \in Threads : Range(u.k.wq[q]) \subseteq {q}
    BY <1>3 DEF WaitOK
  <2>2. \A q \in Threads : Range(u.k.wq[q]) \subseteq Waiting(u.k)
    BY <1>1 DEF Waiting
  <2> HIDE DEF p
  <2> QED
    BY <1>6, <2>1, <2>2
<1>10. /\ k.cur = u.k.cur /\ ~ k.panic
       /\ k.wq = [u.k.wq EXCEPT ![p] = <<>>]
       /\ \A x \in Threads : k.state[x] = IF x \in woken THEN "RUNABLE"
                                           ELSE IF x = t THEN "DEAD" ELSE u.k.state[x]
       /\ \A x \in Threads : k.reason[x] = IF x \in woken THEN "RELEASED" ELSE u.k.reason[x]
       /\ Ready(k) = Ready(u.k) \cup woken
       /\ Waiting(k) = Waiting(u.k) \ woken
  BY <1>3, <1>5, <1>7, <1>8 DEF Wakes, Woken
<1>11. \A x \in woken : u.k.state[x] = "WAIT"
  BY <1>3, <1>9, QueuedThreads
<1> HIDE DEF woken
<1>12. /\ waiters \in [Threads -> Seq(Threads)] /\ waiters[p] = Append(u.waiters[p], t)
       /\ waiters[p] # <<>>
       /\ \A x \in Threads \ {p} : waiters[x] = u.waiters[x]
  <2>1. u.waiters[p] \in Seq(Threads)
    BY <1>5, <1>6
  <2>2. Append(u.waiters[p], t) \in Seq(Threads) /\ Append(u.waiters[p], t) # <<>>
    <3> HIDE DEF p
    <3> QED
      BY <1>1, <2>1, AppendProperties
  <2> QED
    BY <1>5, <2>1, <2>2, SMTT(30)
<1>13. /\ refs \in [Threads -> Nat] /\ refs[t] = 0
       /\ \A x \in Threads \ {t} : refs[x] = u.refs[x]
  BY <1>1, <1>5
<1>14. tree \in SUBSET Threads /\ p \in tree
  BY <1>1, <1>2
<1>15. u.tree = tree \cup {t} /\ t \notin tree
  OBVIOUS
<1> HIDE DEF v, waiters, refs, tree, p
<1>16. /\ v.k = k /\ v.parent = u.parent /\ v.children = u.children
       /\ v.waiters = waiters /\ v.refs = refs /\ v.tree = tree
  BY <1>4, RecFields
<1>17. v \in LifeType
  <2>1. k \in SchedType
    BY <1>8 DEF SchedOK
  <2> QED
    BY <1>4, <1>5, <1>12, <1>13, <1>14, <2>1, RecType
<1>18. P \subseteq Threads \X tree
  <2>1. ASSUME NEW x \in P PROVE x \in Threads \X tree
    <3>1. x \in Threads \X u.tree /\ x[2] # t
      BY <1>2, <1>3 DEF PinsOf
    <3> QED
      BY <1>15, <3>1
  <2> QED
    BY <2>1
<1>19. \A x \in Threads \ {t} : /\ k.state[x] = u.k.state[x] \/ (k.state[x] = "RUNABLE" /\ u.k.state[x] = "WAIT")
  BY <1>10, <1>11
<1>20. k.state[t] = "DEAD"
  BY <1>1, <1>2, <1>10, <1>11
<1>21. TreeOK(v)
  <2>1. tree = {x \in Threads : k.state[x] \notin {"DEAD", "FREE"}}
    <3>1. u.tree = {x \in Threads : u.k.state[x] \notin {"DEAD", "FREE"}}
      BY <1>3 DEF TreeOK
    <3>2. ASSUME NEW x \in Threads PROVE x \in tree <=> k.state[x] \notin {"DEAD", "FREE"}
      <4>1. CASE x = t
        BY <1>15, <1>20, <4>1
      <4>2. CASE x # t
        BY <1>15, <1>19, <3>1, <4>2
      <4> QED
        BY <4>1, <4>2
    <3> QED
      BY <1>14, <3>2
  <2>2. Roots \subseteq tree /\ k.state[Reaper] # "EXIT"
    <3>1. Roots \subseteq u.tree /\ u.k.state[Reaper] # "EXIT"
      BY <1>3 DEF TreeOK
    <3>2. Reaper \in Threads \ {t}
      BY <1>2, LifeAssumption DEF Roots
    <3> QED
      BY <1>2, <1>15, <1>19, <3>1, <3>2
  <2>3. ASSUME NEW x \in tree PROVE u.parent[x] \in tree /\ (u.parent[x] = x <=> x \in Roots)
    <3>1. x \in u.tree /\ x # t /\ u.parent[x] \in u.tree /\ (u.parent[x] = x <=> x \in Roots)
      BY <1>3, <1>15 DEF TreeOK
    <3>2. u.parent[x] # t
      BY <1>2, <3>1 DEF Deps
    <3> QED
      BY <1>15, <3>1, <3>2
  <2>4. ASSUME NEW q \in Threads
        PROVE  u.children[q] = {x \in tree \ {q} : u.parent[x] = q /\ k.state[x] # "EXIT"}
    <3>1. u.children[q] = {x \in u.tree \ {q} : u.parent[x] = q /\ u.k.state[x] # "EXIT"}
      BY <1>3 DEF TreeOK
    <3>2. ASSUME NEW x
          PROVE  x \in u.tree /\ u.k.state[x] # "EXIT" <=> x \in tree /\ k.state[x] # "EXIT"
      <4>1. CASE x = t
        BY <1>2, <1>15, <4>1
      <4>2. CASE x # t
        BY <1>1, <1>15, <1>19, <4>2
      <4> QED
        BY <4>1, <4>2
    <3> QED
      BY <3>1, <3>2
  <2> QED
    BY <1>16, <2>1, <2>2, <2>3, <2>4 DEF TreeOK
<1>22. WaitersOK(v)
  <2> SUFFICES ASSUME NEW q \in Threads
               PROVE  /\ IsInjective(waiters[q])
                      /\ \A x \in Range(waiters[q]) : k.state[x] = "DEAD" /\ u.parent[x] = q
    BY <1>16 DEF WaitersOK
  <2>1. /\ IsInjective(u.waiters[q]) /\ u.waiters[q] \in Seq(Threads)
        /\ \A x \in Range(u.waiters[q]) : u.k.state[x] = "DEAD" /\ u.parent[x] = q
    BY <1>3, <1>5 DEF WaitersOK
  <2>2. Range(u.waiters[q]) \subseteq Threads \ {t}
    <3>1. Range(u.waiters[q]) \subseteq Threads
      BY <2>1, RangeOfSeq DEF Range
    <3> QED
      BY <1>2, <2>1, <3>1
  <2>3. \A x \in Range(u.waiters[q]) : k.state[x] = "DEAD"
    BY <1>19, <2>1, <2>2
  <2>4. CASE q = p
    <3>1. /\ IsInjective(Append(u.waiters[q], t))
          /\ Range(Append(u.waiters[q], t)) = Range(u.waiters[q]) \cup {t}
      <4>1. t \in Threads \ Range(u.waiters[q])
        BY <1>1, <2>2
      <4> QED
        BY <2>1, <4>1, AppendFacts
    <3> QED
      BY <1>12, <1>20, <2>1, <2>3, <2>4, <3>1 DEF p
  <2>5. CASE q # p
    BY <1>12, <2>1, <2>3, <2>5
  <2> QED
    BY <2>4, <2>5
<1>23. WaitOK(v, c)
  <2>1. ASSUME NEW x \in Threads, c[x] = "wait"
        PROVE  /\ x # Idle /\ k.state[x] \in {"WAIT", "RUN", "RUNABLE"}
               /\ k.state[x] # "WAIT" => k.reason[x] = "RELEASED" /\ waiters[x] # <<>>
    <3>1. /\ x # Idle /\ u.k.state[x] \in {"WAIT", "RUN", "RUNABLE"}
          /\ u.k.state[x] # "WAIT" => u.k.reason[x] = "RELEASED" /\ u.waiters[x] # <<>>
      BY <1>3, <2>1 DEF WaitOK
    <3>2. x # t
      BY <1>2, <3>1
    <3>3. CASE x \in woken
      BY <1>9, <1>10, <1>12, <3>1, <3>3
    <3>4. CASE x \notin woken
      <4>1. k.state[x] = u.k.state[x] /\ k.reason[x] = u.k.reason[x]
        BY <1>10, <3>2, <3>4
      <4>2. u.waiters[x] # <<>> => waiters[x] # <<>>
        BY <1>12
      <4> QED
        BY <3>1, <4>1, <4>2
    <3> QED
      BY <3>3, <3>4
  <2>2. ASSUME NEW x \in Threads, k.state[x] = "WAIT" PROVE c[x] = "wait"
    <3>1. u.k.state[x] = "WAIT"
      BY <1>10, <1>20, <2>2
    <3> QED
      BY <1>3, <3>1 DEF WaitOK
  <2>3. ASSUME NEW q \in Threads PROVE Range(k.wq[q]) \subseteq {q}
    <3>1. Range(u.k.wq[q]) \subseteq {q} /\ u.k.wq \in [Threads -> Seq(Threads)]
      BY <1>1, <1>3, <1>5, SchedFields DEF WaitOK
    <3>2. Range(<<>>) = {}
      BY DEF Range
    <3> QED
      BY <1>10, <3>1, <3>2
  <2> QED
    BY <1>16, <2>1, <2>2, <2>3 DEF WaitOK
<1>24. RefsOK(v, P, p, 1)
  <2>1. ASSUME NEW x \in tree
        PROVE  refs[x] = Held(v, x) + Cardinality(Deps(v, x)) + Cardinality(PinsOf(P, x))
                         + (IF x = p THEN 1 ELSE 0)
    <3>1. x \in Threads /\ x # t /\ x \in u.tree
      BY <1>1, <1>15
    <3>2. refs[x] = Held(u, x) + Cardinality(Deps(u, x)) + Cardinality(PinsOf(P, x)) + 0
      BY <1>3, <1>13, <3>1 DEF RefsOK
    <3>3. Held(v, x) = Held(u, x)
      BY <1>16, <1>19, <3>1 DEF Held
    <3>4. /\ IsFiniteSet(Deps(u, x)) /\ Cardinality(Deps(u, x)) \in Nat
          /\ Cardinality(PinsOf(P, x)) \in Nat /\ Held(u, x) \in 0 .. 2
      BY <1>1, <3>1, Counts
    <3>5. CASE x = p
      <4>1. Deps(v, x) = Deps(u, x) \ {t} /\ t \in Deps(u, x)
        BY <1>2, <1>15, <1>16, <3>5 DEF Deps
      <4>2. Cardinality(Deps(v, x)) = Cardinality(Deps(u, x)) - 1
        BY <3>4, <4>1, FS_RemoveElement
      <4> QED
        BY <3>2, <3>3, <3>4, <3>5, <4>2
    <3>6. CASE x # p
      <4>1. Deps(v, x) = Deps(u, x)
        BY <1>15, <1>16, <3>1, <3>6 DEF Deps, p
      <4> QED
        BY <3>2, <3>3, <3>4, <3>6, <4>1
    <3> QED
      BY <3>5, <3>6
  <2>2. ASSUME NEW x \in Threads, k.state[x] = "DEAD" PROVE refs[x] = 0
    <3>1. CASE x = t
      BY <1>13, <3>1
    <3>2. CASE x # t
      <4>1. u.k.state[x] = "DEAD"
        BY <1>19, <2>2, <3>2
      <4> QED
        BY <1>3, <1>13, <3>2, <4>1 DEF RefsOK
    <3> QED
      BY <3>1, <3>2
  <2> QED
    BY <1>16, <2>1, <2>2 DEF RefsOK
<1>25. Life(v, P, c, p, 1)
  BY <1>8, <1>10, <1>16, <1>17, <1>18, <1>21, <1>22, <1>23, <1>24 DEF Life
<1>26. Kept(u, v)
  <2>1. ASSUME NEW x \in Threads, Off(u.k, x)
        PROVE  /\ Off(v.k, x)
               /\ v.k.state[x] = u.k.state[x] \/ (u.k.state[x] = "EXIT" /\ v.k.state[x] = "DEAD")
    <3>1. x \notin woken
      BY <1>9, <2>1 DEF Off
    <3>2. Off(v.k, x)
      BY <1>10, <1>16, <2>1, <3>1 DEF Off
    <3> QED
      BY <1>2, <1>10, <1>16, <3>1, <3>2
  <2> QED
    BY <1>10, <1>16, <2>1 DEF Kept
<1>27. \A x \in tree : refs[x] = u.refs[x]
  BY <1>13, <1>14, <1>15
<1> QED
  BY <1>14, <1>16, <1>25, <1>26, <1>27 DEF v, p, tree

-----------------------------------------------------------------------------
(* The chain of ancestors that end with a thread.                          *)

\* The line of ancestors exists: the library has no induction for it.
LEMMA AncestorUnfold ==
    ASSUME NEW u, NEW t
    PROVE  LET n == Cardinality(Threads)
               line == Ancestor(u, t)
           IN  /\ n \in Nat /\ DOMAIN line = 0 .. n /\ line[0] = t
               /\ \A i \in 1 .. n : line[i] = u.parent[line[i - 1]]
<1> DEFINE n == Cardinality(Threads)
           Solves(g, j) == g = [i \in 0 .. j |-> IF i = 0 THEN t ELSE u.parent[g[i - 1]]]
           bad == {j \in Nat : ~ \E g : Solves(g, j)}
           f == CHOOSE g : Solves(g, n)
<1>0. n \in Nat
  BY SchedAssumption, FS_CardinalityType
<1>1. bad = {}
  <2> SUFFICES ASSUME bad # {} PROVE FALSE
    OBVIOUS
  <2>1. PICK j \in bad : \A x \in bad : j <= x
    BY LeastNatural
  <2>2. CASE j = 0
    <3> DEFINE g == [i \in 0 .. 0 |-> t]
    <3>1. Solves(g, 0)
      OBVIOUS
    <3> QED
      BY <2>1, <2>2, <3>1
  <2>3. CASE j # 0
    <3>1. j \in Nat /\ j - 1 \in Nat /\ j - 1 \notin bad
      <4>1. j \in Nat
        OBVIOUS
      <4>2. j - 1 \in Nat /\ ~ (j <= j - 1)
        BY <2>3, <4>1
      <4> HIDE DEF bad
      <4> QED
        BY <2>1, <4>1, <4>2
    <3>2. PICK g : Solves(g, j - 1)
      BY <3>1
    <3> DEFINE h == [i \in 0 .. j |-> IF i = j THEN u.parent[g[j - 1]] ELSE g[i]]
    <3>3. ASSUME NEW i \in 0 .. j
          PROVE  h[i] = IF i = 0 THEN t ELSE u.parent[h[i - 1]]
      <4>1. CASE i = j
        <5>1. h[j] = u.parent[g[j - 1]] /\ h[j - 1] = g[j - 1]
          BY <3>1
        <5> QED
          BY <2>3, <4>1, <5>1
      <4>2. CASE i # j
        <5>1. i \in 0 .. (j - 1)
          BY <3>1, <4>2
        <5>2. h[i] = g[i] /\ (i # 0 => h[i - 1] = g[i - 1])
          BY <3>1, <4>2
        <5>3. g[i] = IF i = 0 THEN t ELSE u.parent[g[i - 1]]
          BY <3>2, <5>1
        <5> QED
          BY <5>2, <5>3
      <4> QED
        BY <4>1, <4>2
    <3>4. Solves(h, j)
      BY <3>3
    <3> QED
      BY <2>1, <3>4
  <2> QED
    BY <2>2, <2>3
<1>2. Solves(f, n)
  BY <1>0, <1>1
<1>3. Ancestor(u, t) = f
  BY DEF Ancestor
<1> HIDE DEF f
<1>4. f[0] = t /\ DOMAIN f = 0 .. n
  BY <1>0, <1>2
<1>5. \A i \in 1 .. n : f[i] = u.parent[f[i - 1]]
  BY <1>0, <1>2
<1> QED
  BY <1>0, <1>3, <1>4, <1>5

\* The place of the first ancestor that stays.
Stay(u, t) == Min({i \in DOMAIN Ancestor(u, t) : u.refs[Ancestor(u, t)[i]] > 1})

\* The loop over the ancestors, up to the first that stays.
LEMMA RefGoneUnfold ==
    ASSUME NEW u, NEW t, Stay(u, t) \in Nat
    PROVE  LET line == Ancestor(u, t)
               stay == Stay(u, t)
           IN  \E f : /\ f[0] = u
                      /\ \A i \in 1 .. stay : f[i] = LastRef(f[i - 1], line[i - 1])
                      /\ RefGone(u, t) = [f[stay] EXCEPT !.refs[line[stay]] = @ - 1]
<1> DEFINE line == Ancestor(u, t)
           n == Stay(u, t)
           Solves(g, j) == g = [i \in 0 .. j |-> IF i = 0 THEN u ELSE LastRef(g[i - 1], line[i - 1])]
           bad == {j \in Nat : ~ \E g : Solves(g, j)}
           f == CHOOSE g : Solves(g, n)
<1>0. n \in Nat
  OBVIOUS
<1>3. RefGone(u, t) = [f[n] EXCEPT !.refs[line[n]] = @ - 1]
  BY DEF RefGone, Stay
<1> HIDE DEF n, line
<1>1. bad = {}
  <2> SUFFICES ASSUME bad # {} PROVE FALSE
    OBVIOUS
  <2>1. PICK j \in bad : \A x \in bad : j <= x
    BY LeastNatural
  <2>2. CASE j = 0
    <3> DEFINE g == [i \in 0 .. 0 |-> u]
    <3>1. Solves(g, 0)
      OBVIOUS
    <3> QED
      BY <2>1, <2>2, <3>1
  <2>3. CASE j # 0
    <3>1. j \in Nat /\ j - 1 \in Nat /\ j - 1 \notin bad
      <4>1. j \in Nat
        OBVIOUS
      <4>2. j - 1 \in Nat /\ ~ (j <= j - 1)
        BY <2>3, <4>1
      <4> HIDE DEF bad
      <4> QED
        BY <2>1, <4>1, <4>2
    <3>2. PICK g : Solves(g, j - 1)
      BY <3>1
    <3> DEFINE h == [i \in 0 .. j |-> IF i = j THEN LastRef(g[j - 1], line[j - 1]) ELSE g[i]]
    <3>3. ASSUME NEW i \in 0 .. j
          PROVE  h[i] = IF i = 0 THEN u ELSE LastRef(h[i - 1], line[i - 1])
      <4>1. CASE i = j
        <5>1. h[j] = LastRef(g[j - 1], line[j - 1]) /\ h[j - 1] = g[j - 1]
          BY <3>1
        <5> QED
          BY <2>3, <4>1, <5>1
      <4>2. CASE i # j
        <5>1. i \in 0 .. (j - 1)
          BY <3>1, <4>2
        <5>2. h[i] = g[i] /\ (i # 0 => h[i - 1] = g[i - 1])
          BY <3>1, <4>2
        <5>3. g[i] = IF i = 0 THEN u ELSE LastRef(g[i - 1], line[i - 1])
          BY <3>2, <5>1
        <5> QED
          BY <5>2, <5>3
      <4> QED
        BY <4>1, <4>2
    <3>4. Solves(h, j)
      BY <3>3
    <3> QED
      BY <2>1, <3>4
  <2> QED
    BY <2>2, <2>3
<1>2. Solves(f, n)
  BY <1>0, <1>1
<1> HIDE DEF f
<1>4. f[0] = u
  BY <1>0, <1>2
<1>5. \A i \in 1 .. n : f[i] = LastRef(f[i - 1], line[i - 1])
  BY <1>0, <1>2
<1>6. \E g : /\ g[0] = u
             /\ \A i \in 1 .. n : g[i] = LastRef(g[i - 1], line[i - 1])
             /\ RefGone(u, t) = [g[n] EXCEPT !.refs[line[n]] = @ - 1]
  BY <1>3, <1>4, <1>5
<1> QED
  BY <1>6 DEF n, line

(* After i ancestors have ended: the next of them, t, has the reference of *)
(* the last one too many.                                                  *)
Down(u, P, c, v, t, i) ==
    /\ Life(v, P, c, t, 1) /\ t \in v.tree /\ v.parent = u.parent /\ Kept(u, v)
    /\ \A x \in v.tree : v.refs[x] = u.refs[x]
    /\ Cardinality(v.tree) + i <= Cardinality(Threads)

\* One more ancestor that ends.
LEMMA DownStep ==
    ASSUME NEW u, NEW P, NEW c, NEW v, NEW t, NEW i \in Nat, Down(u, P, c, v, t, i), u.refs[t] <= 1
    PROVE  Down(u, P, c, LastRef(v, t), u.parent[t], i + 1)
<1> DEFINE m == LastRef(v, t)
           p == u.parent[t]
<1>1. /\ Life(v, P, c, t, 1) /\ t \in v.tree /\ v.parent = u.parent /\ Kept(u, v)
      /\ \A x \in v.tree : v.refs[x] = u.refs[x]
      /\ Cardinality(v.tree) + i <= Cardinality(Threads)
  BY DEF Down
<1>2. v.refs[t] <= 1
  BY <1>1
<1>3. /\ Life(m, P, c, p, 1) /\ p \in m.tree /\ Kept(v, m)
      /\ m.parent = u.parent /\ m.tree = v.tree \ {t}
      /\ \A x \in m.tree : m.refs[x] = v.refs[x]
  BY <1>1, <1>2, LastRefKeeps
<1> HIDE DEF m, p
<1>4. Kept(u, m)
  BY <1>1, <1>3 DEF Kept
<1>5. Cardinality(m.tree) + (i + 1) <= Cardinality(Threads)
  <2>1. v.tree \in SUBSET Threads /\ IsFiniteSet(Threads)
    BY <1>1, LifeTypes, SchedAssumption
  <2>2. IsFiniteSet(v.tree)
    BY <2>1, FS_Subset
  <2>3. Cardinality(m.tree) = Cardinality(v.tree) - 1 /\ Cardinality(v.tree) \in Nat
    BY <1>1, <1>3, <2>2, FS_RemoveElement, FS_CardinalityType
  <2>4. Cardinality(Threads) \in Nat
    BY <2>1, FS_CardinalityType
  <2> QED
    BY <1>1, <2>3, <2>4
<1>6. \A x \in m.tree : m.refs[x] = u.refs[x]
  BY <1>1, <1>3
<1> QED
  BY <1>3, <1>4, <1>5, <1>6 DEF Down, m, p

\* The chain ends at the latest with a thread that never does.
LEMMA SomeStays ==
    ASSUME NEW u, NEW P, NEW c, NEW t \in u.tree, Life(u, P, c, t, 1)
    PROVE  LET line == Ancestor(u, t)
               stay == Stay(u, t)
           IN  /\ stay \in Nat /\ stay \in DOMAIN line /\ u.refs[line[stay]] > 1
               /\ \A i \in 0 .. stay : i < stay => u.refs[line[i]] <= 1
<1> DEFINE n == Cardinality(Threads)
           line == Ancestor(u, t)
           Large == {i \in DOMAIN line : u.refs[line[i]] > 1}
           stay == Stay(u, t)
<1>1. /\ n \in Nat /\ DOMAIN line = 0 .. n /\ line[0] = t
      /\ \A i \in 1 .. n : line[i] = u.parent[line[i - 1]]
  BY AncestorUnfold
<1>2. /\ u \in LifeType /\ u.tree \in SUBSET Threads /\ \A x \in u.tree : u.parent[x] \in u.tree
  BY LifeTypes
<1>3. IsFiniteSet(Threads) /\ IsFiniteSet(u.tree) /\ Cardinality(u.tree) <= n /\ Cardinality(u.tree) \in Nat
  <2>1. IsFiniteSet(Threads)
    BY SchedAssumption
  <2> QED
    BY <1>2, <2>1, FS_Subset, FS_CardinalityType
<1>4. Down(u, P, c, u, t, 0)
  <2>1. Kept(u, u)
    BY DEF Kept
  <2> QED
    BY <1>3, <2>1 DEF Down
<1>0. stay = Min(Large)
  BY DEF Stay
<1> HIDE DEF line, n, stay
<1>5. Large # {}
  <2> SUFFICES ASSUME Large = {} PROVE FALSE
    OBVIOUS
  <2>1. \A i \in 0 .. n : ~ (u.refs[line[i]] > 1)
    BY <1>1
  <2> DEFINE bad == {i \in 0 .. n : ~ (line[i] \in u.tree /\ \E v : Down(u, P, c, v, line[i], i))}
  <2>2. bad = {}
    <3> SUFFICES ASSUME bad # {} PROVE FALSE
      OBVIOUS
    <3>1. bad \in SUBSET Nat
      BY <1>1
    <3>2. PICK i \in bad : \A x \in bad : i <= x
      <4> HIDE DEF bad
      <4> QED
        BY <3>1, LeastNatural
    <3>3. i \in 1 .. n
      BY <1>1, <1>4, <3>2
    <3>4. i - 1 \in 0 .. n /\ i - 1 \notin bad
      <4>1. i - 1 \in 0 .. n /\ ~ (i <= i - 1)
        BY <1>1, <3>3
      <4> HIDE DEF bad
      <4> QED
        BY <3>2, <4>1
    <3>5. PICK v : line[i - 1] \in u.tree /\ Down(u, P, c, v, line[i - 1], i - 1)
      BY <3>4
    <3>6. u.refs[line[i - 1]] <= 1
      <4>1. line[i - 1] \in Threads /\ u.refs \in [Threads -> Nat]
        BY <1>2, <3>5, LifeFields
      <4>2. u.refs[line[i - 1]] \in Nat
        BY <4>1
      <4> QED
        BY <2>1, <3>4, <4>2
    <3>7. i - 1 \in Nat
      BY <1>1, <3>3
    <3>8. Down(u, P, c, LastRef(v, line[i - 1]), u.parent[line[i - 1]], (i - 1) + 1)
      BY <3>5, <3>6, <3>7, DownStep
    <3>9. line[i] = u.parent[line[i - 1]] /\ (i - 1) + 1 = i /\ line[i] \in u.tree
      BY <1>1, <1>2, <3>3, <3>5
    <3> QED
      BY <3>2, <3>8, <3>9
  <2>3. PICK v : Down(u, P, c, v, line[n], n)
    BY <1>1, <2>2
  <2>4. Cardinality(v.tree) + n <= n /\ line[n] \in v.tree /\ Life(v, P, c, line[n], 1)
    BY <2>3 DEF Down, n
  <2>5. IsFiniteSet(v.tree) /\ Cardinality(v.tree) \in Nat
    BY <1>3, <2>4, LifeTypes, FS_Subset, FS_CardinalityType
  <2>6. Cardinality(v.tree) = 0
    BY <1>1, <2>4, <2>5
  <2> QED
    BY <2>4, <2>5, <2>6, FS_EmptySet
<1>6. Large \in SUBSET Nat
  BY <1>1
<1>7. stay \in Large /\ \A i \in Large : stay <= i
  <2> HIDE DEF Large
  <2>1. \E x \in Large : \A y \in Large : x <= y
    BY <1>5, <1>6, LeastNatural
  <2> QED
    BY <1>0, <2>1 DEF Min
<1>8. stay \in 0 .. n /\ u.refs[line[stay]] > 1
  BY <1>1, <1>7
<1>9. ASSUME NEW i \in 0 .. stay, i < stay PROVE ~ (u.refs[line[i]] > 1)
  <2>1. i \in 0 .. n /\ ~ (stay <= i)
    BY <1>1, <1>8, <1>9
  <2> QED
    BY <1>1, <1>7, <2>1
<1>10. \A i \in 0 .. n : line[i] \in u.tree
  <2> DEFINE bad == {i \in 0 .. n : line[i] \notin u.tree}
  <2> SUFFICES ASSUME bad # {} PROVE FALSE
    OBVIOUS
  <2>1. bad \in SUBSET Nat
    BY <1>1
  <2>2. PICK i \in bad : \A x \in bad : i <= x
    <3> HIDE DEF bad
    <3> QED
      BY <2>1, LeastNatural
  <2>3. i \in 1 .. n
    BY <1>1, <2>2
  <2>4. i - 1 \in 0 .. n /\ i - 1 \notin bad
    <3>1. i - 1 \in 0 .. n /\ ~ (i <= i - 1)
      BY <1>1, <2>3
    <3> HIDE DEF bad
    <3> QED
      BY <2>2, <3>1
  <2> QED
    BY <1>1, <1>2, <2>2, <2>3, <2>4
<1>11. ASSUME NEW i \in 0 .. stay, i < stay PROVE u.refs[line[i]] <= 1
  <2>1. i \in 0 .. n
    BY <1>1, <1>8, <1>11
  <2>2. u.refs[line[i]] \in Nat
    BY <1>2, <1>10, <2>1, LifeFields
  <2> QED
    BY <1>9, <1>11, <2>2
<1>12. stay \in Nat /\ stay \in DOMAIN line
  BY <1>1, <1>8
<1> QED
  BY <1>8, <1>11, <1>12 DEF stay, line

\* The whole cascade leaves the counters exact.
LEMMA RefGoneKeeps ==
    ASSUME NEW u, NEW P, NEW c, NEW t \in u.tree, Life(u, P, c, t, 1)
    PROVE  Life(RefGone(u, t), P, c, Idle, 0) /\ Kept(u, RefGone(u, t))
<1> DEFINE line == Ancestor(u, t)
           stay == Stay(u, t)
           n == Cardinality(Threads)
<1>1. /\ n \in Nat /\ DOMAIN line = 0 .. n /\ line[0] = t
      /\ \A i \in 1 .. n : line[i] = u.parent[line[i - 1]]
  BY AncestorUnfold
<1>2. /\ stay \in Nat /\ stay \in DOMAIN line /\ u.refs[line[stay]] > 1
      /\ \A i \in 0 .. stay : i < stay => u.refs[line[i]] <= 1
  BY SomeStays
<1>3. PICK f : /\ f[0] = u
               /\ \A i \in 1 .. stay : f[i] = LastRef(f[i - 1], line[i - 1])
               /\ RefGone(u, t) = [f[stay] EXCEPT !.refs[line[stay]] = @ - 1]
  BY <1>2, RefGoneUnfold
<1> HIDE DEF stay, line
<1>4. Down(u, P, c, u, t, 0)
  <2>1. Kept(u, u)
    BY DEF Kept
  <2>2. Cardinality(u.tree) <= n /\ Cardinality(u.tree) \in Nat
    BY LifeTypes, SchedAssumption, FS_Subset, FS_CardinalityType
  <2> QED
    BY <2>1, <2>2 DEF Down
<1> HIDE DEF n
<1>5. \A i \in 0 .. stay : Down(u, P, c, f[i], line[i], i)
  <2> DEFINE bad == {i \in 0 .. stay : ~ Down(u, P, c, f[i], line[i], i)}
  <2> SUFFICES ASSUME bad # {} PROVE FALSE
    OBVIOUS
  <2>1. bad \in SUBSET Nat
    BY <1>2
  <2>2. PICK i \in bad : \A x \in bad : i <= x
    <3> HIDE DEF bad
    <3> QED
      BY <2>1, LeastNatural
  <2>3. i \in 1 .. stay
    BY <1>1, <1>2, <1>3, <1>4, <2>2
  <2>4. i - 1 \in 0 .. stay /\ i - 1 \notin bad /\ i - 1 < stay /\ i - 1 \in Nat
    <3>1. i - 1 \in 0 .. stay /\ ~ (i <= i - 1) /\ i - 1 < stay /\ i - 1 \in Nat
      BY <1>2, <2>3
    <3> HIDE DEF bad
    <3> QED
      BY <2>2, <3>1
  <2>5. Down(u, P, c, f[i - 1], line[i - 1], i - 1) /\ u.refs[line[i - 1]] <= 1
    BY <1>2, <2>4
  <2>6. Down(u, P, c, LastRef(f[i - 1], line[i - 1]), u.parent[line[i - 1]], (i - 1) + 1)
    BY <2>4, <2>5, DownStep
  <2>7. f[i] = LastRef(f[i - 1], line[i - 1]) /\ line[i] = u.parent[line[i - 1]] /\ (i - 1) + 1 = i
    <3>1. i \in 1 .. n
      BY <1>1, <1>2, <2>3
    <3> QED
      BY <1>1, <1>3, <2>3, <3>1
  <2> QED
    BY <2>2, <2>6, <2>7
<1> DEFINE v == f[stay]
           a == line[stay]
<1>6. Down(u, P, c, v, a, stay)
  BY <1>2, <1>5
<1> HIDE DEF v, a
<1>7. /\ Life(v, P, c, a, 1) /\ a \in v.tree /\ Kept(u, v)
  BY <1>6 DEF Down
<1>8. v \in LifeType /\ Idle # Reaper
  BY <1>7, LifeTypes
<1> DEFINE refs == [v.refs EXCEPT ![a] = @ - 1]
           m == Rec(v.k, v.parent, v.children, v.waiters, refs, v.tree)
<1>9. Life(m, P, c, a, 0)
  BY <1>7, Drop
<1>10. RefGone(u, t) = m
  <2> DEFINE r == Rec(v.k, v.parent, v.children, v.waiters, v.refs, v.tree)
  <2>1. RefGone(u, t) = [v EXCEPT !.refs = refs]
    BY <1>3 DEF v, a
  <2>2. v = r
    BY <1>8, LifeFields
  <2> HIDE DEF refs
  <2>3. RefGone(u, t) = [r EXCEPT !.refs = refs]
    BY <2>1, <2>2, Zenon
  <2> QED
    BY <2>3 DEF Rec
<1>11. Kept(u, m)
  <2>1. m.k = v.k
    BY DEF Rec
  <2> HIDE DEF m
  <2> QED
    BY <1>7, <2>1 DEF Kept
<1> HIDE DEF m
<1>12. Life(m, P, c, Idle, 0)
  BY <1>9, NoSurplus
<1> QED
  BY <1>10, <1>11, <1>12

\* A reference that is too many is dropped.
LEMMA RefDecKeeps ==
    ASSUME NEW u, NEW P, NEW c, NEW t \in u.tree, Life(u, P, c, t, 1)
    PROVE  Life(thr_ref_dec(u, t), P, c, Idle, 0) /\ Kept(u, thr_ref_dec(u, t))
<1>1. CASE u.refs[t] > 1
  <2> DEFINE refs == [u.refs EXCEPT ![t] = @ - 1]
             m == Rec(u.k, u.parent, u.children, u.waiters, refs, u.tree)
  <2>1. u \in LifeType /\ t \in Threads
    BY LifeTypes
  <2>2. thr_ref_dec(u, t) = m
    BY <1>1, <2>1, DecFields
  <2>3. Life(m, P, c, t, 0)
    BY Drop
  <2>4. m.k = u.k
    BY DEF Rec
  <2> HIDE DEF m
  <2>5. Kept(u, m)
    BY <2>4 DEF Kept
  <2>6. Life(m, P, c, Idle, 0)
    BY <2>3, NoSurplus
  <2> QED
    BY <2>2, <2>5, <2>6
<1>2. CASE ~ (u.refs[t] > 1)
  <2>1. thr_ref_dec(u, t) = RefGone(u, t)
    BY <1>2 DEF thr_ref_dec
  <2> QED
    BY <2>1, RefGoneKeeps
<1> QED
  BY <1>1, <1>2

\* The two that a thread drops when it ends.
LEMMA DropOwnKeeps ==
    ASSUME NEW u, NEW P, NEW c, NEW t \in u.tree, Life(u, P, c, t, 2)
    PROVE  Life(DropOwn(u, t), P, c, Idle, 0) /\ Kept(u, DropOwn(u, t))
<1> DEFINE refs == [u.refs EXCEPT ![t] = @ - 1]
           m == Rec(u.k, u.parent, u.children, u.waiters, refs, u.tree)
<1>1. u \in LifeType /\ t \in Threads /\ P \in SUBSET (Threads \X Threads)
  BY LifeTypes
<1>2. u.refs[t] > 1
  <2>1. u.refs[t] = Held(u, t) + Cardinality(Deps(u, t)) + Cardinality(PinsOf(P, t)) + 2
    BY DEF Life, RefsOK
  <2>2. Cardinality(Deps(u, t)) \in Nat /\ Cardinality(PinsOf(P, t)) \in Nat /\ Held(u, t) \in 0 .. 2
    BY <1>1, Counts
  <2> QED
    BY <2>1, <2>2
<1>3. thr_ref_dec(u, t) = m
  BY <1>1, <1>2, DecFields
<1>4. Life(m, P, c, t, 1)
  <2>1. Life(u, P, c, t, 1 + 1)
    OBVIOUS
  <2> QED
    BY <2>1, Drop
<1>5. m.k = u.k /\ m.tree = u.tree
  BY DEF Rec
<1> HIDE DEF m
<1>6. Life(thr_ref_dec(m, t), P, c, Idle, 0) /\ Kept(m, thr_ref_dec(m, t))
  BY <1>4, <1>5, RefDecKeeps
<1>7. Kept(u, thr_ref_dec(m, t))
  BY <1>5, <1>6 DEF Kept
<1> QED
  BY <1>3, <1>6, <1>7 DEF DropOwn

-----------------------------------------------------------------------------
(* The children of a thread that ends.                                     *)

\* One child of p goes to the reaper.
Move(u, t, p) ==
    add_child_thread_nolock(RefDecNotLast(del_child_thread_nolock(u, t, p), p), t, Reaper)

Moved(u, t, p, m, children, refs) ==
    /\ m = Rec(u.k, [u.parent EXCEPT ![t] = Reaper], children, u.waiters, refs, u.tree)
    /\ children \in [Threads -> SUBSET Threads] /\ refs \in [Threads -> Nat]
    /\ \A q \in Threads :
          /\ children[q] = IF q = p THEN u.children[q] \ {t}
                           ELSE IF q = Reaper THEN u.children[q] \cup {t} ELSE u.children[q]
          /\ refs[q] = IF q = p THEN u.refs[q] - 1
                       ELSE IF q = Reaper THEN u.refs[q] + 1 ELSE u.refs[q]

\* What handing over one child changes.
LEMMA MoveFields ==
    ASSUME NEW u \in LifeType, NEW p \in Threads \ Roots, NEW t \in u.children[p],
           t \in Threads \ Roots, t # p, u.parent[t] = p,
           u.refs[t] > 1, u.refs[p] > 1, u.refs[Reaper] > 0
    PROVE  \E children, refs : Moved(u, t, p, Move(u, t, p), children, refs)
<1> DEFINE ch1 == [u.children EXCEPT ![p] = @ \ {t}]
           r1 == [u.refs EXCEPT ![t] = @ - 1]
           a == Rec(u.k, u.parent, ch1, u.waiters, r1, u.tree)
           r2 == [r1 EXCEPT ![p] = @ - 1]
           b == Rec(u.k, u.parent, ch1, u.waiters, r2, u.tree)
           parent == [u.parent EXCEPT ![t] = Reaper]
           ch3 == [ch1 EXCEPT ![Reaper] = @ \cup {t}]
           r3 == [r2 EXCEPT ![t] = @ + 1, ![Reaper] = @ + 1]
<1>1. /\ u.k \in SchedType /\ u.parent \in [Threads -> Threads]
      /\ u.children \in [Threads -> SUBSET Threads]
      /\ u.waiters \in [Threads -> Seq(Threads)] /\ u.refs \in [Threads -> Nat]
      /\ u.tree \in SUBSET Threads
  BY LifeFields
<1>2. Reaper \in Threads /\ Reaper # p /\ Reaper # t
  BY LifeAssumption DEF Roots
<1>3. /\ ch1 \in [Threads -> SUBSET Threads] /\ ch1[p] = u.children[p] \ {t}
      /\ \A q \in Threads \ {p} : ch1[q] = u.children[q]
  BY <1>1
<1>4. /\ r1 \in [Threads -> Nat] /\ r1[t] = u.refs[t] - 1
      /\ \A q \in Threads \ {t} : r1[q] = u.refs[q]
  BY <1>1
<1>5. del_child_thread_nolock(u, t, p) = a
  BY DelChildFields
<1> HIDE DEF ch1, r1
<1>6. /\ r2 \in [Threads -> Nat] /\ r2[t] = u.refs[t] - 1 /\ r2[p] = u.refs[p] - 1
      /\ \A q \in Threads \ {t, p} : r2[q] = u.refs[q]
  BY <1>1, <1>4
<1>7. a \in LifeType /\ b \in LifeType
  BY <1>1, <1>3, <1>4, <1>6, RecType
<1>8. RefDecNotLast(a, p) = b
  <2>1. /\ a.k = u.k /\ a.parent = u.parent /\ a.children = ch1
        /\ a.waiters = u.waiters /\ a.refs = r1 /\ a.tree = u.tree
    BY DEF Rec
  <2> HIDE DEF a
  <2>2. a.refs[p] > 1
    BY <1>4, <2>1
  <2>3. RefDecNotLast(a, p) = Rec(a.k, a.parent, a.children, a.waiters, [a.refs EXCEPT ![p] = @ - 1], a.tree)
    BY <1>7, <2>2, DecFields
  <2> QED
    BY <2>1, <2>3
<1> HIDE DEF a, r2
<1>9. add_child_thread_nolock(b, t, Reaper) = Rec(u.k, parent, ch3, u.waiters, r3, u.tree)
  <2>1. /\ b.k = u.k /\ b.parent = u.parent /\ b.children = ch1
        /\ b.waiters = u.waiters /\ b.refs = r2 /\ b.tree = u.tree
    BY DEF Rec
  <2> HIDE DEF b
  <2>2. b.refs[t] > 0 /\ b.refs[Reaper] > 0 /\ Reaper \in Threads \ {t}
    BY <1>1, <1>2, <1>6, <2>1
  <2>3. add_child_thread_nolock(b, t, Reaper) =
          Rec(b.k, [b.parent EXCEPT ![t] = Reaper], [b.children EXCEPT ![Reaper] = @ \cup {t}],
              b.waiters, [b.refs EXCEPT ![t] = @ + 1, ![Reaper] = @ + 1], b.tree)
    BY <1>7, <2>2, AddChildFields
  <2> QED
    BY <2>1, <2>3
<1>10. /\ ch3 \in [Threads -> SUBSET Threads]
       /\ \A q \in Threads :
            ch3[q] = IF q = p THEN u.children[q] \ {t}
                     ELSE IF q = Reaper THEN u.children[q] \cup {t} ELSE u.children[q]
  BY <1>1, <1>2, <1>3
<1>11. /\ r3 \in [Threads -> Nat]
       /\ \A q \in Threads :
            r3[q] = IF q = p THEN u.refs[q] - 1
                    ELSE IF q = Reaper THEN u.refs[q] + 1 ELSE u.refs[q]
  <2> DEFINE r == [r2 EXCEPT ![t] = @ + 1]
  <2>1. /\ r \in [Threads -> Nat] /\ r[t] = u.refs[t] /\ r[p] = u.refs[p] - 1
        /\ \A q \in Threads \ {t, p} : r[q] = u.refs[q]
    BY <1>1, <1>6
  <2>2. r3 = [r EXCEPT ![Reaper] = @ + 1]
    BY <1>1, <1>2, <1>6
  <2> HIDE DEF r, r3
  <2>3. /\ r3 \in [Threads -> Nat] /\ r3[Reaper] = u.refs[Reaper] + 1
        /\ \A q \in Threads \ {Reaper} : r3[q] = r[q]
    BY <1>1, <1>2, <2>1, <2>2
  <2> QED
    BY <1>2, <2>1, <2>3
<1>12. Move(u, t, p) = Rec(u.k, parent, ch3, u.waiters, r3, u.tree)
  BY <1>5, <1>8, <1>9 DEF Move
<1> HIDE DEF ch3, r3
<1>13. Moved(u, t, p, Move(u, t, p), ch3, r3)
  BY <1>10, <1>11, <1>12 DEF Moved
<1> QED
  BY <1>13

\* The child has the reaper as parent, and the counters of the three agree.
LEMMA MoveKeeps ==
    ASSUME NEW u, NEW P, NEW c, NEW n \in Nat, NEW p \in u.tree \ Roots,
           Life(u, P, c, p, n), u.k.state[p] # "EXIT", NEW t \in u.children[p]
    PROVE  LET m == Move(u, t, p)
           IN  /\ Life(m, P, c, p, n) /\ m.k = u.k /\ m.tree = u.tree /\ m.waiters = u.waiters
               /\ m.parent = [u.parent EXCEPT ![t] = Reaper]
               /\ m.children[p] = u.children[p] \ {t}
<1> DEFINE m == Move(u, t, p)
           parent == [u.parent EXCEPT ![t] = Reaper]
<1>1. /\ u \in LifeType /\ P \in SUBSET (Threads \X Threads) /\ u.tree \in SUBSET Threads
      /\ Roots \subseteq u.tree /\ Idle # Reaper
  BY LifeTypes
<1>2. p \in Threads /\ p # Reaper /\ Reaper \in u.tree /\ Reaper \in Threads
  BY <1>1 DEF Roots
<1>3. /\ SchedOK(u.k) /\ ~ u.k.panic /\ P \subseteq Threads \X u.tree /\ TreeOK(u)
      /\ WaitersOK(u) /\ RefsOK(u, P, p, n) /\ WaitOK(u, c)
  BY DEF Life
<1>4. t \in u.tree \ {p} /\ u.parent[t] = p /\ u.k.state[t] # "EXIT"
  BY <1>2, <1>3 DEF TreeOK
<1>5. t \in Threads \ Roots /\ t # p /\ t # Reaper
  BY <1>1, <1>3, <1>4 DEF TreeOK, Roots
<1>6. u.refs[t] > 1 /\ u.refs[p] > 1 /\ u.refs[Reaper] > 0
  <2>1. u.k.state[Reaper] # "EXIT"
    BY <1>3 DEF TreeOK
  <2> QED
    BY <1>2, <1>4, <1>5, <2>1, Alive
<1>7. PICK children, refs : Moved(u, t, p, m, children, refs)
  <2>1. p \in Threads \ Roots
    BY <1>2
  <2> QED
    BY <1>1, <1>4, <1>5, <1>6, <2>1, MoveFields
<1> HIDE DEF m
<1>8. /\ m = Rec(u.k, parent, children, u.waiters, refs, u.tree)
      /\ children \in [Threads -> SUBSET Threads] /\ refs \in [Threads -> Nat]
      /\ \A q \in Threads :
           /\ children[q] = IF q = p THEN u.children[q] \ {t}
                            ELSE IF q = Reaper THEN u.children[q] \cup {t} ELSE u.children[q]
           /\ refs[q] = IF q = p THEN u.refs[q] - 1
                        ELSE IF q = Reaper THEN u.refs[q] + 1 ELSE u.refs[q]
  BY <1>7 DEF Moved
<1>9. /\ m.k = u.k /\ m.parent = parent /\ m.children = children
      /\ m.waiters = u.waiters /\ m.refs = refs /\ m.tree = u.tree
  BY <1>8, RecFields
<1>10. /\ parent \in [Threads -> Threads] /\ parent[t] = Reaper
      /\ \A x \in Threads \ {t} : parent[x] = u.parent[x]
  BY <1>1, <1>2, <1>5, LifeFields
<1> HIDE DEF parent
<1>11. m \in LifeType
  BY <1>1, <1>8, <1>10, LifeFields, RecType
<1>12. TreeOK(m)
  <2>1. ASSUME NEW x \in u.tree PROVE parent[x] \in u.tree /\ (parent[x] = x <=> x \in Roots)
    <3>1. CASE x = t
      BY <1>2, <1>5, <1>10, <3>1
    <3>2. CASE x # t
      BY <1>1, <1>3, <1>10, <3>2 DEF TreeOK
    <3> QED
      BY <3>1, <3>2
  <2>2. ASSUME NEW q \in Threads
        PROVE  children[q] = {x \in u.tree \ {q} : parent[x] = q /\ u.k.state[x] # "EXIT"}
    <3>1. u.children[q] = {x \in u.tree \ {q} : u.parent[x] = q /\ u.k.state[x] # "EXIT"}
      BY <1>3 DEF TreeOK
    <3>2. \A x \in u.tree : x # t => parent[x] = u.parent[x]
      BY <1>1, <1>10
    <3>3. CASE q = p
      <4>1. children[q] = u.children[q] \ {t}
        BY <1>8, <3>3
      <4> QED
        BY <1>2, <1>10, <3>1, <3>2, <3>3, <4>1
    <3>4. CASE q = Reaper
      <4>1. children[q] = u.children[q] \cup {t}
        BY <1>2, <1>8, <3>4
      <4> QED
        BY <1>4, <1>5, <1>10, <3>1, <3>2, <3>4, <4>1
    <3>5. CASE q # p /\ q # Reaper
      <4>1. children[q] = u.children[q]
        BY <1>8, <3>5
      <4> QED
        BY <1>4, <1>10, <3>1, <3>2, <3>5, <4>1
    <3> QED
      BY <3>3, <3>4, <3>5
  <2> QED
    BY <1>3, <1>9, <2>1, <2>2 DEF TreeOK
<1>13. WaitersOK(m)
  <2>1. ASSUME NEW q \in Threads, NEW x \in Range(u.waiters[q])
        PROVE  u.k.state[x] = "DEAD" /\ parent[x] = q
    <3>1. u.k.state[x] = "DEAD" /\ u.parent[x] = q
      BY <1>3 DEF WaitersOK
    <3>2. x \in Threads
      <4>1. u.waiters[q] \in Seq(Threads)
        BY <1>1, LifeFields
      <4> QED
        BY <4>1, RangeOfSeq
    <3>3. x # t
      BY <1>3, <1>4, <3>1 DEF TreeOK
    <3> QED
      BY <1>10, <3>1, <3>2, <3>3
  <2> QED
    BY <1>3, <1>9, <2>1 DEF WaitersOK
<1>14. WaitOK(m, c)
  BY <1>3, <1>9 DEF WaitOK
<1>15. RefsOK(m, P, p, n)
  <2>1. ASSUME NEW x \in u.tree
        PROVE  refs[x] = Held(m, x) + Cardinality(Deps(m, x)) + Cardinality(PinsOf(P, x))
                         + (IF x = p THEN n ELSE 0)
    <3>1. u.refs[x] = Held(u, x) + Cardinality(Deps(u, x)) + Cardinality(PinsOf(P, x))
                      + (IF x = p THEN n ELSE 0)
      BY <1>3 DEF RefsOK
    <3>2. Held(m, x) = Held(u, x) /\ x \in Threads
      BY <1>1, <1>9 DEF Held
    <3>3. /\ IsFiniteSet(Deps(u, x)) /\ Cardinality(Deps(u, x)) \in Nat
          /\ Cardinality(PinsOf(P, x)) \in Nat /\ Held(u, x) \in 0 .. 2
      BY <1>1, <3>2, Counts
    <3>4. CASE x = p
      <4>1. Deps(m, x) = Deps(u, x) \ {t} /\ t \in Deps(u, x)
        BY <1>1, <1>2, <1>4, <1>9, <1>10, <3>4 DEF Deps
      <4>2. Cardinality(Deps(m, x)) = Cardinality(Deps(u, x)) - 1
        BY <3>3, <4>1, FS_RemoveElement
      <4>3. refs[x] = u.refs[x] - 1
        BY <1>8, <3>2, <3>4
      <4> QED
        BY <3>1, <3>2, <3>3, <3>4, <4>2, <4>3
    <3>5. CASE x = Reaper
      <4>1. Deps(m, x) = Deps(u, x) \cup {t} /\ t \notin Deps(u, x)
        BY <1>1, <1>2, <1>4, <1>5, <1>9, <1>10, <3>5 DEF Deps
      <4>2. Cardinality(Deps(m, x)) = Cardinality(Deps(u, x)) + 1
        BY <3>3, <4>1, FS_AddElement
      <4>3. refs[x] = u.refs[x] + 1
        BY <1>2, <1>8, <3>2, <3>5
      <4> QED
        BY <1>2, <3>1, <3>2, <3>3, <3>5, <4>2, <4>3
    <3>6. CASE x # p /\ x # Reaper
      <4>1. Deps(m, x) = Deps(u, x)
        BY <1>1, <1>4, <1>9, <1>10, <3>6 DEF Deps
      <4>2. refs[x] = u.refs[x]
        BY <1>8, <3>2, <3>6
      <4> QED
        BY <3>1, <3>2, <3>6, <4>1, <4>2
    <3> QED
      BY <3>4, <3>5, <3>6
  <2>2. ASSUME NEW x \in Threads, u.k.state[x] = "DEAD" PROVE refs[x] = 0
    <3>1. u.refs[x] = 0 /\ x \notin u.tree
      BY <1>3, <2>2 DEF RefsOK, TreeOK
    <3> QED
      BY <1>2, <1>8, <3>1
  <2> QED
    BY <1>9, <2>1, <2>2 DEF RefsOK
<1>16. Life(m, P, c, p, n)
  BY <1>3, <1>9, <1>11, <1>12, <1>13, <1>14, <1>15 DEF Life
<1>17. m.children[p] = u.children[p] \ {t}
  BY <1>2, <1>8, <1>9
<1> QED
  BY <1>9, <1>16, <1>17 DEF m, parent

Chosen(S) == CHOOSE x \in S : TRUE

\* The child that the loop takes next.
LEMMA ChosenFacts ==
    ASSUME NEW S, IsFiniteSet(S), S # {}
    PROVE  /\ Chosen(S) \in S /\ Cardinality(S) \in Nat /\ Cardinality(S) # 0
           /\ Cardinality(S \ {Chosen(S)}) = Cardinality(S) - 1
<1>1. Chosen(S) \in S
  BY DEF Chosen
<1>2. Cardinality(S) \in Nat /\ Cardinality(S) # 0
  BY FS_CardinalityType, FS_EmptySet
<1> QED
  BY <1>1, <1>2, FS_RemoveElement

\* The loop of handle_orphan_thread.
LEMMA OrphansUnfold ==
    ASSUME NEW u, NEW p, IsFiniteSet(u.children[p])
    PROVE  \E f : /\ f[{}] = u
                  /\ \A s \in SUBSET u.children[p] :
                       s # {} => f[s] = Move(f[s \ {Chosen(s)}], Chosen(s), p)
                  /\ handle_orphan_thread(u, p) = f[u.children[p]]
<1> DEFINE S == u.children[p]
           n == Cardinality(S)
           Fam(j) == {s \in SUBSET S : Cardinality(s) <= j}
           Solves(g, F) == g = [s \in F |-> IF s = {} THEN u ELSE Move(g[s \ {Chosen(s)}], Chosen(s), p)]
           bad == {j \in Nat : ~ \E g : Solves(g, Fam(j))}
           f == CHOOSE g : Solves(g, SUBSET S)
<1>1. handle_orphan_thread(u, p) = f[S]
  BY DEF handle_orphan_thread, FoldSet, MapThenFoldSet, Chosen, Move
<1> HIDE DEF S
<1>2. \A s \in SUBSET S : IsFiniteSet(s) /\ Cardinality(s) \in 0 .. n /\ n \in Nat
  <2>1. IsFiniteSet(S)
    BY DEF S
  <2> QED
    BY <2>1, FS_Subset, FS_CardinalityType
<1>3. \A s \in SUBSET S : s # {} =>
        /\ s \ {Chosen(s)} \in SUBSET S
        /\ Cardinality(s) # 0 /\ Cardinality(s \ {Chosen(s)}) = Cardinality(s) - 1
  BY <1>2, ChosenFacts
<1>4. bad = {}
  <2> SUFFICES ASSUME bad # {} PROVE FALSE
    OBVIOUS
  <2>1. PICK j \in bad : \A x \in bad : j <= x
    BY LeastNatural
  <2>2. CASE j = 0
    <3> DEFINE g == [s \in Fam(0) |-> u]
    <3>1. ASSUME NEW s \in Fam(0) PROVE s = {}
      <4>1. s \in SUBSET S /\ Cardinality(s) <= 0
        OBVIOUS
      <4>2. Cardinality(s) = 0
        BY <1>2, <4>1
      <4> QED
        BY <1>3, <4>1, <4>2
    <3>2. Solves(g, Fam(0))
      BY <3>1
    <3> QED
      BY <2>1, <2>2, <3>2
  <2>3. CASE j # 0
    <3>1. j \in Nat /\ j - 1 \in Nat /\ j - 1 \notin bad
      <4>1. j \in Nat
        OBVIOUS
      <4>2. j - 1 \in Nat /\ ~ (j <= j - 1)
        BY <2>3, <4>1
      <4> HIDE DEF bad
      <4> QED
        BY <2>1, <4>1, <4>2
    <3>2. PICK g : Solves(g, Fam(j - 1))
      BY <3>1
    <3> DEFINE h == [s \in Fam(j) |-> IF Cardinality(s) = j THEN Move(g[s \ {Chosen(s)}], Chosen(s), p)
                                      ELSE g[s]]
    <3>3. ASSUME NEW s \in Fam(j)
          PROVE  h[s] = IF s = {} THEN u ELSE Move(h[s \ {Chosen(s)}], Chosen(s), p)
      <4>1. s # {} => s \ {Chosen(s)} \in Fam(j) /\ h[s \ {Chosen(s)}] = g[s \ {Chosen(s)}]
        <5> SUFFICES ASSUME s # {}
                     PROVE  s \ {Chosen(s)} \in Fam(j) /\ h[s \ {Chosen(s)}] = g[s \ {Chosen(s)}]
          OBVIOUS
        <5>1. /\ s \ {Chosen(s)} \in SUBSET S /\ Cardinality(s \ {Chosen(s)}) = Cardinality(s) - 1
              /\ Cardinality(s) \in Nat /\ Cardinality(s) <= j
          BY <1>2, <1>3
        <5>2. Cardinality(s \ {Chosen(s)}) <= j /\ Cardinality(s \ {Chosen(s)}) # j
          BY <3>1, <5>1
        <5> QED
          BY <5>1, <5>2
      <4>2. CASE Cardinality(s) = j
        <5>1. s # {}
          BY <2>3, <4>2, FS_EmptySet
        <5>2. h[s] = Move(g[s \ {Chosen(s)}], Chosen(s), p)
          BY <4>2
        <5> QED
          BY <4>1, <5>1, <5>2
      <4>3. CASE Cardinality(s) # j
        <5>1. s \in Fam(j - 1)
          BY <1>2, <3>1, <4>3
        <5>2. h[s] = g[s]
          BY <4>3
        <5>3. g[s] = IF s = {} THEN u ELSE Move(g[s \ {Chosen(s)}], Chosen(s), p)
          <6> HIDE DEF Fam
          <6> QED
            BY <3>2, <5>1
        <5> QED
          BY <4>1, <5>2, <5>3
      <4> QED
        BY <4>2, <4>3
    <3>4. Solves(h, Fam(j))
      <4>1. DOMAIN h = Fam(j) /\ h = [s \in Fam(j) |-> h[s]]
        OBVIOUS
      <4> HIDE DEF h, Fam
      <4> QED
        BY <3>3, <4>1
    <3> QED
      BY <2>1, <3>4
  <2> QED
    BY <2>2, <2>3
<1>5. Fam(n) = SUBSET S
  BY <1>2
<1>6. n \in Nat
  BY <1>2
<1>7. Solves(f, SUBSET S)
  <2>1. \E g : Solves(g, Fam(n))
    BY <1>4, <1>6
  <2> HIDE DEF Fam
  <2> QED
    BY <1>5, <2>1
<1> HIDE DEF f
<1>8. f[{}] = u
  BY <1>7
<1>9. ASSUME NEW s \in SUBSET S, s # {} PROVE f[s] = Move(f[s \ {Chosen(s)}], Chosen(s), p)
  BY <1>7, <1>9
<1> QED
  BY <1>1, <1>8, <1>9 DEF S

\* The whole loop: the thread has no children left.
LEMMA OrphansKeep ==
    ASSUME NEW u, NEW P, NEW c, NEW n \in Nat, NEW p \in u.tree \ Roots,
           Life(u, P, c, p, n), u.k.state[p] # "EXIT"
    PROVE  LET m == handle_orphan_thread(u, p)
           IN  /\ Life(m, P, c, p, n) /\ m.k = u.k /\ m.tree = u.tree
               /\ m.children[p] = {} /\ m.parent[p] = u.parent[p]
<1> DEFINE S == u.children[p]
           Done(v, s) ==
              /\ Life(v, P, c, p, n) /\ v.k = u.k /\ v.tree = u.tree
              /\ v.children[p] = S \ s /\ v.parent[p] = u.parent[p]
<1>1. u \in LifeType /\ p \in Threads /\ TreeOK(u)
  BY LifeTypes DEF Life
<1>2. S \in SUBSET Threads /\ IsFiniteSet(S) /\ p \notin S
  BY <1>1, LifeFields, SchedAssumption, FS_Subset DEF TreeOK
<1>3. PICK f : /\ f[{}] = u
               /\ \A s \in SUBSET S : s # {} => f[s] = Move(f[s \ {Chosen(s)}], Chosen(s), p)
               /\ handle_orphan_thread(u, p) = f[S]
  BY <1>2, OrphansUnfold
<1> HIDE DEF S
<1>4. \A s \in SUBSET S : IsFiniteSet(s) /\ Cardinality(s) \in Nat
  BY <1>2, FS_Subset, FS_CardinalityType
<1>5. \A s \in SUBSET S : Done(f[s], s)
  <2> DEFINE bad == {j \in Nat : \E s \in SUBSET S : Cardinality(s) = j /\ ~ Done(f[s], s)}
  <2>1. bad = {}
    <3> SUFFICES ASSUME bad # {} PROVE FALSE
      OBVIOUS
    <3>1. PICK j \in bad : \A x \in bad : j <= x
      BY LeastNatural
    <3>2. PICK s \in SUBSET S : Cardinality(s) = j /\ ~ Done(f[s], s)
      OBVIOUS
    <3>3. s # {}
      <4>1. Done(f[{}], {})
        BY <1>3 DEF S
      <4> QED
        BY <3>2, <4>1
    <3> DEFINE x == Chosen(s)
               v == f[s \ {x}]
    <3>4. /\ x \in s /\ s \ {x} \in SUBSET S /\ Cardinality(s \ {x}) = j - 1 /\ j \in Nat
          /\ Cardinality(s \ {x}) \in Nat
      BY <1>4, <3>2, <3>3, ChosenFacts
    <3>5. Done(v, s \ {x})
      <4>1. j - 1 \notin bad
        <5>1. ~ (j <= j - 1)
          BY <3>4
        <5> HIDE DEF bad
        <5> QED
          BY <3>1, <5>1
      <4> QED
        BY <3>4, <4>1
    <3>6. f[s] = Move(v, x, p)
      BY <1>3, <3>3
    <3> HIDE DEF x, v
    <3>7. v.children[p] = S \ (s \ {x}) /\ x \in v.children[p] /\ x # p
      BY <1>2, <3>4, <3>5
    <3>8. p \in v.tree \ Roots /\ v.k.state[p] # "EXIT" /\ Life(v, P, c, p, n)
      BY <3>5
    <3> DEFINE m == Move(v, x, p)
    <3>9. /\ Life(m, P, c, p, n) /\ m.k = v.k /\ m.tree = v.tree
          /\ m.parent = [v.parent EXCEPT ![x] = Reaper]
          /\ m.children[p] = v.children[p] \ {x}
      BY <3>7, <3>8, MoveKeeps
    <3> HIDE DEF m
    <3>10. m.parent[p] = v.parent[p]
      <4>1. v.parent \in [Threads -> Threads]
        BY <3>8, LifeTypes, LifeFields
      <4> QED
        BY <1>1, <3>7, <3>9, <4>1
    <3>11. m.children[p] = S \ s
      BY <3>4, <3>7, <3>9
    <3>12. Done(m, s)
      BY <3>5, <3>9, <3>10, <3>11
    <3> QED
      BY <3>2, <3>6, <3>12 DEF m
  <2> QED
    BY <1>4, <2>1
<1> QED
  BY <1>3, <1>5 DEF S

-----------------------------------------------------------------------------
(* Giving the CPU away, waiting and collecting.                            *)

\* The scheduler moves threads that stay alive.
LEMMA OnlyScheduler ==
    ASSUME NEW u, NEW P, NEW c, NEW h, NEW n, Life(u, P, c, h, n),
           NEW k, SchedOK(k), ~ k.panic, NEW d,
           \A t \in Threads : \/ k.state[t] = u.k.state[t]
                             \/ {k.state[t], u.k.state[t]} \subseteq {"RUN", "RUNABLE", "WAIT"},
           NEW v, v = Rec(k, u.parent, u.children, u.waiters, u.refs, u.tree), WaitOK(v, d)
    PROVE  Life(v, P, d, h, n)
<1>1. /\ u \in LifeType /\ P \in SUBSET (Threads \X Threads) /\ u.tree \in SUBSET Threads
      /\ Reaper \in Threads
  BY LifeTypes, LifeAssumption
<1>2. /\ P \subseteq Threads \X u.tree /\ TreeOK(u) /\ WaitersOK(u) /\ RefsOK(u, P, h, n)
  BY DEF Life
<1>3. /\ v.k = k /\ v.parent = u.parent /\ v.children = u.children
      /\ v.waiters = u.waiters /\ v.refs = u.refs /\ v.tree = u.tree
  BY RecFields
<1>4. v \in LifeType
  <2>1. k \in SchedType
    BY DEF SchedOK
  <2> QED
    BY <1>1, <2>1, LifeFields, RecType
<1>5. \A t \in Threads : \A st \in {"EXIT", "DEAD", "FREE"} : k.state[t] = st <=> u.k.state[t] = st
  OBVIOUS
<1>6. TreeOK(v)
  <2>1. u.tree = {t \in Threads : k.state[t] \notin {"DEAD", "FREE"}}
    BY <1>2, <1>5 DEF TreeOK
  <2>2. \A p \in Threads :
          u.children[p] = {t \in u.tree \ {p} : u.parent[t] = p /\ k.state[t] # "EXIT"}
    BY <1>1, <1>2, <1>5 DEF TreeOK
  <2>3. k.state[Reaper] # "EXIT"
    BY <1>1, <1>2, <1>5 DEF TreeOK
  <2>4. /\ Roots \subseteq u.tree
        /\ \A t \in u.tree : u.parent[t] \in u.tree /\ (u.parent[t] = t <=> t \in Roots)
    BY <1>2 DEF TreeOK
  <2> QED
    BY <1>3, <2>1, <2>2, <2>3, <2>4 DEF TreeOK
<1>7. WaitersOK(v)
  <2>1. ASSUME NEW p \in Threads, NEW t \in Range(u.waiters[p]) PROVE k.state[t] = "DEAD"
    <3>1. u.waiters[p] \in Seq(Threads)
      BY <1>1, LifeFields
    <3>2. t \in Threads
      BY <3>1, RangeOfSeq
    <3> QED
      BY <1>2, <1>5, <3>2 DEF WaitersOK
  <2> QED
    BY <1>2, <1>3, <2>1 DEF WaitersOK
<1>8. RefsOK(v, P, h, n)
  <2>1. \A t \in u.tree : Held(v, t) = Held(u, t) /\ Deps(v, t) = Deps(u, t)
    BY <1>1, <1>3, <1>5 DEF Held, Deps
  <2> QED
    BY <1>2, <1>3, <1>5, <2>1 DEF RefsOK
<1> QED
  BY <1>2, <1>3, <1>4, <1>6, <1>7, <1>8 DEF Life

\* sched_schedule.
LEMMA ScheduleKeeps ==
    ASSUME NEW u, NEW P, NEW c, NEW h, NEW n, Life(u, P, c, h, n), MayLeave(u.k)
    PROVE  LET v == [u EXCEPT !.k = sched_schedule(@)]
           IN  Life(v, P, c, h, n) /\ OnCpu(v.k)
<1> DEFINE k == sched_schedule(u.k)
           r == Rec(u.k, u.parent, u.children, u.waiters, u.refs, u.tree)
           v == Rec(k, u.parent, u.children, u.waiters, u.refs, u.tree)
<1>1. u = r
  BY LifeTypes, LifeFields
<1>2. [u EXCEPT !.k = sched_schedule(@)] = [u EXCEPT !.k = k]
  OBVIOUS
<1>3. SchedOK(u.k) /\ ~ u.k.panic /\ WaitOK(u, c)
  BY DEF Life
<1>4. /\ SchedOK(k) /\ OnCpu(k) /\ k.wq = u.k.wq /\ k.panic = u.k.panic /\ k.reason = u.k.reason
      /\ \A t \in Threads : \/ k.state[t] = u.k.state[t]
                            \/ {k.state[t], u.k.state[t]} \subseteq {"RUN", "RUNABLE"}
  BY <1>3, Schedule
<1> HIDE DEF k
<1>5. [u EXCEPT !.k = k] = v
  <2>1. [u EXCEPT !.k = k] = [r EXCEPT !.k = k]
    BY <1>1, Zenon
  <2>2. [r EXCEPT !.k = k] = v
    BY DEF Rec
  <2> QED
    BY <2>1, <2>2
<1>6. v.k = k /\ v.waiters = u.waiters
  BY DEF Rec
<1> HIDE DEF r
<1>7. WaitOK(v, c)
  <2> HIDE DEF v
  <2>1. ASSUME NEW t \in Threads
        PROVE  /\ k.state[t] = "WAIT" <=> u.k.state[t] = "WAIT"
               /\ k.state[t] \in {"WAIT", "RUN", "RUNABLE"}
                    <=> u.k.state[t] \in {"WAIT", "RUN", "RUNABLE"}
    BY <1>4
  <2> QED
    BY <1>3, <1>4, <1>6, <2>1, ZenonT(60) DEF WaitOK
<1>8. Life(v, P, c, h, n)
  <2>1. \A t \in Threads : \/ k.state[t] = u.k.state[t]
                          \/ {k.state[t], u.k.state[t]} \subseteq {"RUN", "RUNABLE", "WAIT"}
    BY <1>4
  <2> QED
    BY <1>3, <1>4, <1>7, <2>1, OnlyScheduler
<1> HIDE DEF v
<1> QED
  BY <1>2, <1>4, <1>5, <1>6, <1>8

\* The thread sleeps in its own wait queue until a child ends.
LEMMA WaitKeeps ==
    ASSUME NEW u, NEW P, NEW c \in [Threads -> {"run", "wait"}], NEW h, NEW n,
           Life(u, P, c, h, n), OnCpu(u.k), u.k.cur # Idle
    PROVE  LET q == u.k.cur
               v == [u EXCEPT !.k = sched_schedule(enque_wque_entry(init_wque_entry(@), q))]
           IN  Life(v, P, [c EXCEPT ![q] = "wait"], h, n) /\ OnCpu(v.k)
<1> DEFINE q == u.k.cur
           i == init_wque_entry(u.k)
           k == enque_wque_entry(i, q)
           d == [c EXCEPT ![q] = "wait"]
           r == Rec(u.k, u.parent, u.children, u.waiters, u.refs, u.tree)
           g == Rec(k, u.parent, u.children, u.waiters, u.refs, u.tree)
           m == sched_schedule(k)
<1>1. u = r /\ u.k \in SchedType /\ q \in Threads /\ WaitQueues = Threads
      /\ u.k.state \in [Threads -> States] /\ u.k.reason \in [Threads -> Reasons]
      /\ u.k.wq \in [Threads -> Seq(Threads)]
  <2>1. u \in LifeType /\ WaitQueues = Threads
    BY LifeTypes
  <2>2. u = r /\ u.k \in SchedType
    BY <2>1, LifeFields
  <2> QED
    BY <2>1, <2>2, SchedFields
<1>2. [u EXCEPT !.k = sched_schedule(enque_wque_entry(init_wque_entry(@), q))] = [u EXCEPT !.k = m]
  OBVIOUS
<1>3. SchedOK(u.k) /\ ~ u.k.panic /\ WaitOK(u, c)
  BY DEF Life
<1>4. /\ SchedOK(i) /\ Off(i, i.cur) /\ i.cur = q /\ i.wq = u.k.wq
      /\ i.state[i.cur] = "WAIT" /\ i.panic = u.k.panic
      /\ i.state = [u.k.state EXCEPT ![q] = "WAIT"]
      /\ i.reason = [u.k.reason EXCEPT ![q] = "WAIT"]
  BY <1>3, InitWait DEF OnCpu
<1> HIDE DEF i, q
<1>5. /\ SchedOK(k) /\ MayLeave(k) /\ k.wq = [i.wq EXCEPT ![q] = Append(@, q)]
      /\ k.state = i.state /\ k.panic = i.panic /\ k.reason = [i.reason EXCEPT ![q] = "WAIT"]
  <2>1. q \in WaitQueues /\ i.state[i.cur] = "WAIT" /\ Off(i, i.cur) /\ SchedOK(i)
    BY <1>1, <1>4
  <2>2. LET x == enque_wque_entry(i, q)
        IN  /\ SchedOK(x) /\ MayLeave(x) /\ x.wq = [i.wq EXCEPT ![q] = Append(@, i.cur)]
            /\ x.state = i.state /\ x.panic = i.panic /\ x.reason = [i.reason EXCEPT ![i.cur] = "WAIT"]
    BY <2>1, Enqueue
  <2> QED
    BY <1>4, <2>2
<1> HIDE DEF k
<1>6. /\ \A t \in Threads : k.state[t] = IF t = q THEN "WAIT" ELSE u.k.state[t]
      /\ \A t \in Threads \ {q} : k.reason[t] = u.k.reason[t]
      /\ u.k.state[q] \in {"RUN", "RUNABLE"}
  BY <1>1, <1>4, <1>5 DEF OnCpu, q
<1>7. g.k = k /\ g.waiters = u.waiters
  BY DEF Rec
<1>8. /\ d[q] = "wait" /\ \A t \in Threads \ {q} : d[t] = c[t]
  BY <1>1
<1> HIDE DEF d
<1>9. WaitOK(g, d)
  <2> HIDE DEF g
  <2>1. ASSUME NEW t \in Threads, d[t] = "wait"
        PROVE  /\ t # Idle /\ k.state[t] \in {"WAIT", "RUN", "RUNABLE"}
               /\ k.state[t] # "WAIT" => k.reason[t] = "RELEASED" /\ u.waiters[t] # <<>>
    <3>1. CASE t = q
      BY <1>6, <3>1 DEF q
    <3>2. CASE t # q
      BY <1>3, <1>6, <1>8, <2>1, <3>2 DEF WaitOK
    <3> QED
      BY <3>1, <3>2
  <2>2. ASSUME NEW t \in Threads, k.state[t] = "WAIT" PROVE d[t] = "wait"
    BY <1>3, <1>6, <1>8, <2>2 DEF WaitOK
  <2>3. ASSUME NEW x \in Threads PROVE Range(k.wq[x]) \subseteq {x}
    <3>1. Range(u.k.wq[x]) \subseteq {x} /\ u.k.wq[x] \in Seq(Threads)
      BY <1>1, <1>3 DEF WaitOK
    <3>2. CASE x = q
      <4>1. k.wq[x] = Append(u.k.wq[x], q)
        BY <1>1, <1>4, <1>5, <3>2
      <4>2. Range(Append(u.k.wq[x], q)) = Range(u.k.wq[x]) \cup {q}
        <5>1. q \notin Range(u.k.wq[x]) /\ IsInjective(u.k.wq[x])
          BY <1>1, <1>3 DEF OnCpu, Off, Waiting, q, SchedOK, QueuesOK
        <5> QED
          BY <1>1, <3>1, <5>1, AppendFacts
      <4> QED
        BY <3>1, <3>2, <4>1, <4>2
    <3>3. CASE x # q
      <4>1. k.wq[x] = u.k.wq[x]
        BY <1>1, <1>4, <1>5, <3>3
      <4> QED
        BY <3>1, <4>1
    <3> QED
      BY <3>2, <3>3
  <2> QED
    BY <1>7, <2>1, <2>2, <2>3 DEF WaitOK
<1>10. Life(g, P, d, h, n)
  <2>1. \A t \in Threads : \/ k.state[t] = u.k.state[t]
                          \/ {k.state[t], u.k.state[t]} \subseteq {"RUN", "RUNABLE", "WAIT"}
    BY <1>6
  <2>2. ~ k.panic
    BY <1>3, <1>4, <1>5
  <2> QED
    BY <1>5, <1>9, <2>1, <2>2, OnlyScheduler
<1> DEFINE v == [g EXCEPT !.k = sched_schedule(@)]
<1>11. Life(v, P, d, h, n) /\ OnCpu(v.k)
  <2>1. MayLeave(g.k)
    BY <1>5, <1>7
  <2> HIDE DEF g
  <2> QED
    BY <1>10, <2>1, ScheduleKeeps
<1>12. v = [u EXCEPT !.k = m]
  <2>1. v = [g EXCEPT !.k = m]
    <3> HIDE DEF g
    <3> QED
      BY <1>7
  <2> HIDE DEF m
  <2>2. [g EXCEPT !.k = m] = Rec(m, u.parent, u.children, u.waiters, u.refs, u.tree)
    BY DEF Rec
  <2>3. [u EXCEPT !.k = m] = [r EXCEPT !.k = m]
    BY <1>1, Zenon
  <2>4. [r EXCEPT !.k = m] = Rec(m, u.parent, u.children, u.waiters, u.refs, u.tree)
    BY DEF Rec
  <2> QED
    BY <2>1, <2>2, <2>3, <2>4
<1> HIDE DEF v, m
<1> QED
  BY <1>2, <1>11, <1>12 DEF q, d

\* The first child of the list that ended is freed.
Collected(u, q) ==
    LET t == Head(u.waiters[q])
    IN  [u EXCEPT !.waiters[q] = Tail(@), !.k.state[t] = "FREE"]

\* free_thread of the first child that ended: it is in no other list.
LEMMA CollectKeeps ==
    ASSUME NEW u, NEW P, NEW c, NEW h, NEW n, Life(u, P, c, h, n), OnCpu(u.k),
           c[u.k.cur] # "wait", u.waiters[u.k.cur] # <<>>
    PROVE  LET v == Collected(u, u.k.cur)
               t == Head(u.waiters[u.k.cur])
           IN  /\ Life(v, P, c, h, n) /\ OnCpu(v.k)
               /\ u.k.state[t] = "DEAD" /\ u.refs[t] = 0
<1> DEFINE q == u.k.cur
           t == Head(u.waiters[q])
           k == [u.k EXCEPT !.state[t] = "FREE"]
           waiters == [u.waiters EXCEPT ![q] = Tail(@)]
           r == Rec(u.k, u.parent, u.children, u.waiters, u.refs, u.tree)
           v == Rec(k, u.parent, u.children, waiters, u.refs, u.tree)
<1>1. /\ u \in LifeType /\ u = r /\ u.k \in SchedType /\ q \in Threads /\ WaitQueues = Threads
      /\ u.k.state \in [Threads -> States]
      /\ u.waiters \in [Threads -> Seq(Threads)]
  <2>1. u \in LifeType /\ WaitQueues = Threads
    BY LifeTypes
  <2>2. u = r /\ u.k \in SchedType /\ u.waiters \in [Threads -> Seq(Threads)]
    BY <2>1, LifeFields
  <2> QED
    BY <2>1, <2>2, SchedFields
<1>2. /\ SchedOK(u.k) /\ ~ u.k.panic /\ P \subseteq Threads \X u.tree /\ TreeOK(u)
      /\ WaitersOK(u) /\ RefsOK(u, P, h, n) /\ WaitOK(u, c)
  BY DEF Life
<1>3. Collected(u, q) = v
  <2>1. Collected(u, q) = [u EXCEPT !.waiters = waiters, !.k = k]
    BY DEF Collected
  <2> HIDE DEF k, waiters
  <2>2. Collected(u, q) = [r EXCEPT !.waiters = waiters, !.k = k]
    BY <1>1, <2>1, Zenon
  <2>3. [r EXCEPT !.waiters = waiters] = Rec(u.k, u.parent, u.children, waiters, u.refs, u.tree)
    BY DEF Rec
  <2>4. [Rec(u.k, u.parent, u.children, waiters, u.refs, u.tree) EXCEPT !.k = k] = v
    BY DEF Rec
  <2>5. [r EXCEPT !.waiters = waiters, !.k = k] = [[r EXCEPT !.waiters = waiters] EXCEPT !.k = k]
    OBVIOUS
  <2> HIDE DEF r, v
  <2> QED
    BY <2>2, <2>3, <2>4, <2>5, Zenon
<1>4. /\ u.waiters[q] \in Seq(Threads) /\ IsInjective(u.waiters[q])
      /\ Tail(u.waiters[q]) \in Seq(Threads) /\ IsInjective(Tail(u.waiters[q]))
      /\ t \in Range(u.waiters[q]) /\ Range(Tail(u.waiters[q])) = Range(u.waiters[q]) \ {t}
  <2>1. u.waiters[q] \in Seq(Threads) /\ IsInjective(u.waiters[q])
    BY <1>1, <1>2 DEF WaitersOK
  <2> HIDE DEF q
  <2> QED
    BY <2>1, TailFacts DEF q
<1> HIDE DEF t
<1>5. t \in Threads /\ u.k.state[t] = "DEAD" /\ u.parent[t] = q
  <2>1. t \in Threads
    BY <1>4, RangeOfSeq
  <2> QED
    BY <1>1, <1>2, <1>4, <2>1 DEF WaitersOK
<1>6. t \notin u.tree /\ u.refs[t] = 0 /\ Off(u.k, t) /\ t # Idle /\ t # q
  <2>1. t \notin u.tree /\ u.refs[t] = 0
    BY <1>2, <1>5 DEF TreeOK, RefsOK
  <2>2. Off(u.k, t)
    BY <1>2, <1>5, QueuedThreads DEF Off
  <2>3. Idle \in u.tree
    BY <1>2 DEF TreeOK, Roots
  <2> QED
    BY <1>5, <2>1, <2>2, <2>3 DEF OnCpu
<1>7. /\ SchedOK(k) /\ k.cur = q /\ k.wq = u.k.wq /\ k.reason = u.k.reason
      /\ k.panic = u.k.panic /\ k.state = [u.k.state EXCEPT ![t] = "FREE"]
      /\ Ready(k) = Ready(u.k) /\ Waiting(k) = Waiting(u.k)
  <2>1. t \in Threads \ {Idle}
    BY <1>5, <1>6
  <2> QED
    BY <1>2, <1>6, <2>1, Ends
<1> HIDE DEF k
<1>8. /\ k.state[t] = "FREE" /\ \A x \in Threads \ {t} : k.state[x] = u.k.state[x]
  BY <1>1, <1>5, <1>7 DEF States
<1>9. /\ waiters \in [Threads -> Seq(Threads)] /\ waiters[q] = Tail(u.waiters[q])
      /\ \A x \in Threads \ {q} : waiters[x] = u.waiters[x]
  BY <1>1, <1>4
<1> HIDE DEF waiters, v, q
<1>10. /\ v.k = k /\ v.parent = u.parent /\ v.children = u.children
       /\ v.waiters = waiters /\ v.refs = u.refs /\ v.tree = u.tree
  BY RecFields DEF v
<1>11. v \in LifeType
  <2>1. k \in SchedType
    BY <1>7 DEF SchedOK
  <2> QED
    BY <1>1, <1>9, <2>1, LifeFields, RecType DEF v
<1>12. u.tree \in SUBSET Threads /\ Reaper \in u.tree
  BY <1>1, <1>2, LifeFields DEF TreeOK, Roots
<1>13. TreeOK(v)
  <2>1. u.tree = {x \in Threads : k.state[x] \notin {"DEAD", "FREE"}}
    <3>1. u.tree = {x \in Threads : u.k.state[x] \notin {"DEAD", "FREE"}}
      BY <1>2 DEF TreeOK
    <3>2. ASSUME NEW x \in Threads
          PROVE  k.state[x] \in {"DEAD", "FREE"} <=> u.k.state[x] \in {"DEAD", "FREE"}
      BY <1>5, <1>8
    <3> QED
      BY <3>1, <3>2
  <2>2. \A p \in Threads :
          u.children[p] = {x \in u.tree \ {p} : u.parent[x] = p /\ k.state[x] # "EXIT"}
    BY <1>2, <1>6, <1>8, <1>12 DEF TreeOK
  <2>3. k.state[Reaper] # "EXIT"
    BY <1>2, <1>6, <1>8, <1>12 DEF TreeOK
  <2>4. /\ Roots \subseteq u.tree
        /\ \A x \in u.tree : u.parent[x] \in u.tree /\ (u.parent[x] = x <=> x \in Roots)
    BY <1>2 DEF TreeOK
  <2> QED
    BY <1>10, <2>1, <2>2, <2>3, <2>4 DEF TreeOK
<1>14. WaitersOK(v)
  <2> SUFFICES ASSUME NEW p \in Threads
               PROVE  /\ IsInjective(waiters[p])
                      /\ \A x \in Range(waiters[p]) : k.state[x] = "DEAD" /\ u.parent[x] = p
    BY <1>10 DEF WaitersOK
  <2>1. /\ IsInjective(u.waiters[p]) /\ u.waiters[p] \in Seq(Threads)
        /\ \A x \in Range(u.waiters[p]) : u.k.state[x] = "DEAD" /\ u.parent[x] = p
    BY <1>1, <1>2 DEF WaitersOK
  <2>2. Range(waiters[p]) \subseteq Range(u.waiters[p]) \ {t} /\ IsInjective(waiters[p])
    <3>1. CASE p = q
      BY <1>4, <1>9, <3>1
    <3>2. CASE p # q
      BY <1>5, <1>9, <2>1, <3>2
    <3> QED
      BY <3>1, <3>2
  <2>3. Range(u.waiters[p]) \subseteq Threads
    BY <2>1, RangeOfSeq
  <2> QED
    BY <1>8, <2>1, <2>2, <2>3
<1>15. RefsOK(v, P, h, n)
  <2>1. \A x \in u.tree : Held(v, x) = Held(u, x) /\ Deps(v, x) = Deps(u, x)
    BY <1>6, <1>8, <1>10, <1>12 DEF Held, Deps
  <2>2. ASSUME NEW x \in Threads, k.state[x] = "DEAD" PROVE u.refs[x] = 0
    BY <1>2, <1>8, <2>2 DEF RefsOK
  <2> QED
    BY <1>2, <1>10, <2>1, <2>2 DEF RefsOK
<1>16. WaitOK(v, c)
  <2>1. ASSUME NEW x \in Threads, c[x] = "wait"
        PROVE  /\ x # Idle /\ k.state[x] \in {"WAIT", "RUN", "RUNABLE"}
               /\ k.state[x] # "WAIT" => k.reason[x] = "RELEASED" /\ waiters[x] # <<>>
    <3>1. /\ x # Idle /\ u.k.state[x] \in {"WAIT", "RUN", "RUNABLE"}
          /\ u.k.state[x] # "WAIT" => u.k.reason[x] = "RELEASED" /\ u.waiters[x] # <<>>
      BY <1>2, <2>1 DEF WaitOK
    <3>2. x # t /\ x # q
      BY <1>5, <2>1, <3>1 DEF q
    <3> QED
      BY <1>7, <1>8, <1>9, <3>1, <3>2
  <2>2. ASSUME NEW x \in Threads, k.state[x] = "WAIT" PROVE c[x] = "wait"
    BY <1>2, <1>8, <2>2 DEF WaitOK
  <2> QED
    BY <1>2, <1>7, <1>10, <2>1, <2>2 DEF WaitOK
<1>17. OnCpu(v.k)
  BY <1>1, <1>6, <1>7, <1>8, <1>10 DEF OnCpu, Off, q
<1>18. Life(v, P, c, h, n)
  BY <1>2, <1>7, <1>10, <1>11, <1>13, <1>14, <1>15, <1>16 DEF Life
<1> QED
  BY <1>3, <1>5, <1>6, <1>17, <1>18 DEF t, q

-----------------------------------------------------------------------------
(* References from elsewhere.                                              *)

\* proc_find_thread takes a reference.
LEMMA PinKeeps ==
    ASSUME NEW u, NEW P, NEW c, Life(u, P, c, Idle, 0), NEW t \in u.tree, u.k.state[t] # "EXIT",
           NEW y \in Threads, <<y, t>> \notin P
    PROVE  LET v == thr_ref_inc(u, t)
           IN  Life(v, P \cup {<<y, t>>}, c, Idle, 0) /\ v.k = u.k
<1> DEFINE v == thr_ref_inc(u, t)
           x == <<y, t>>
           Q == P \cup {x}
           refs == [u.refs EXCEPT ![t] = @ + 1]
<1>1. /\ u \in LifeType /\ P \in SUBSET (Threads \X Threads) /\ u.tree \in SUBSET Threads
      /\ t \in Threads
  BY LifeTypes
<1>2. u.refs[t] > 0
  BY Alive
<1>3. v = Rec(u.k, u.parent, u.children, u.waiters, refs, u.tree)
  BY <1>1, <1>2, IncFields
<1>4. /\ refs \in [Threads -> Nat] /\ refs[t] = u.refs[t] + 1
      /\ \A z \in Threads \ {t} : refs[z] = u.refs[z]
  BY <1>1, LifeFields
<1> HIDE DEF refs, v
<1>5. x[2] = t /\ x \in Threads \X u.tree /\ x \notin P
  OBVIOUS
<1> HIDE DEF x
<1>6. Q \subseteq Threads \X u.tree
  BY <1>5 DEF Life
<1>7. ASSUME NEW z \in u.tree
      PROVE  refs[z] = Held(u, z) + Cardinality(Deps(u, z)) + Cardinality(PinsOf(Q, z))
                       + (IF z = Idle THEN 0 ELSE 0)
  <2>1. u.refs[z] = Held(u, z) + Cardinality(Deps(u, z)) + Cardinality(PinsOf(P, z)) + 0
    BY DEF Life, RefsOK
  <2>2. /\ Cardinality(Deps(u, z)) \in Nat /\ Cardinality(PinsOf(P, z)) \in Nat
        /\ Held(u, z) \in 0 .. 2 /\ IsFiniteSet(PinsOf(P, z)) /\ z \in Threads
    BY <1>1, Counts
  <2>3. CASE z = t
    <3>1. PinsOf(Q, z) = PinsOf(P, z) \cup {x} /\ x \notin PinsOf(P, z)
      BY <1>5, <2>3 DEF PinsOf
    <3>2. Cardinality(PinsOf(Q, z)) = Cardinality(PinsOf(P, z)) + 1
      BY <2>2, <3>1, FS_AddElement
    <3> QED
      BY <1>4, <2>1, <2>2, <2>3, <3>2
  <2>4. CASE z # t
    <3>1. PinsOf(Q, z) = PinsOf(P, z)
      BY <1>5, <2>4 DEF PinsOf
    <3> QED
      BY <1>4, <2>1, <2>2, <2>4, <3>1
  <2> QED
    BY <2>3, <2>4
<1>8. \A z \in Threads \ u.tree : refs[z] = u.refs[z]
  BY <1>4
<1> HIDE DEF Q
<1>9. Life(v, Q, c, Idle, 0)
  BY <1>3, <1>4, <1>6, <1>7, <1>8, RefsOnly
<1>10. v.k = u.k
  BY <1>3, RecFields
<1> QED
  BY <1>9, <1>10 DEF v, Q, x

\* It is given back, and may be the last.
LEMMA UnpinKeeps ==
    ASSUME NEW u, NEW P, NEW c, Life(u, P, c, Idle, 0), NEW t, NEW y, <<y, t>> \in P
    PROVE  LET v == thr_ref_dec(u, t)
           IN  Life(v, P \ {<<y, t>>}, c, Idle, 0) /\ Kept(u, v)
<1> DEFINE x == <<y, t>>
           Q == P \ {x}
<1>1. /\ u \in LifeType /\ P \in SUBSET (Threads \X Threads) /\ u.tree \in SUBSET Threads
      /\ P \subseteq Threads \X u.tree
  BY LifeTypes DEF Life
<1>2. x[2] = t /\ x \in P /\ t \in u.tree /\ t \in Threads
  BY <1>1
<1> HIDE DEF x
<1>3. Life(u, Q, c, t, 1)
  <2>1. ASSUME NEW z \in u.tree
        PROVE  u.refs[z] = Held(u, z) + Cardinality(Deps(u, z)) + Cardinality(PinsOf(Q, z))
                           + (IF z = t THEN 1 ELSE 0)
    <3>1. u.refs[z] = Held(u, z) + Cardinality(Deps(u, z)) + Cardinality(PinsOf(P, z)) + 0
      BY DEF Life, RefsOK
    <3>2. /\ Cardinality(Deps(u, z)) \in Nat /\ Cardinality(PinsOf(P, z)) \in Nat
          /\ Held(u, z) \in 0 .. 2 /\ IsFiniteSet(PinsOf(P, z)) /\ z \in Threads
      BY <1>1, Counts
    <3>3. CASE z = t
      <4>1. PinsOf(Q, z) = PinsOf(P, z) \ {x} /\ x \in PinsOf(P, z)
        BY <1>2, <3>3 DEF PinsOf
      <4>2. Cardinality(PinsOf(Q, z)) = Cardinality(PinsOf(P, z)) - 1
        BY <3>2, <4>1, FS_RemoveElement
      <4> QED
        BY <3>1, <3>2, <3>3, <4>2
    <3>4. CASE z # t
      <4>1. PinsOf(Q, z) = PinsOf(P, z)
        BY <1>2, <3>4 DEF PinsOf
      <4> QED
        BY <3>1, <3>2, <3>4, <4>1
    <3> QED
      BY <3>3, <3>4
  <2>2. RefsOK(u, Q, t, 1)
    BY <2>1 DEF Life, RefsOK
  <2> QED
    BY <1>1, <2>2 DEF Life
<1> HIDE DEF Q
<1>4. Life(thr_ref_dec(u, t), Q, c, Idle, 0) /\ Kept(u, thr_ref_dec(u, t))
  BY <1>2, <1>3, RefDecKeeps
<1> QED
  BY <1>4 DEF Q, x

-----------------------------------------------------------------------------
(* Creation.                                                               *)

\* A child t of p, before it is in the ready queue.
Fresh(u, t) ==
    [u EXCEPT !.refs[t] = 1, !.tree = @ \cup {t},
              !.waiters[t] = <<>>, !.children[t] = {},
              !.k.state[t] = "RUNABLE", !.k.fresh = @ \cup {t},
              !.k.delayed = @ \ {t}, !.k.active = @ \ {t}]
FreshK(k, t) == [k EXCEPT !.state[t] = "RUNABLE", !.fresh = @ \cup {t},
                          !.delayed = @ \ {t}, !.active = @ \ {t}]
Created(u, t, p) ==
    LET v == add_child_thread_nolock(Fresh(u, t), t, p)
    IN  [v EXCEPT !.k = sched_thread_add(@, t)]

\* The record with the new thread in it.
LEMMA FreshFields ==
    ASSUME NEW u \in LifeType, NEW t \in Threads
    PROVE  Fresh(u, t) = Rec(FreshK(u.k, t), u.parent, [u.children EXCEPT ![t] = {}],
                             [u.waiters EXCEPT ![t] = <<>>], [u.refs EXCEPT ![t] = 1],
                             u.tree \cup {t})
<1> DEFINE r == Rec(u.k, u.parent, u.children, u.waiters, u.refs, u.tree)
           children == [u.children EXCEPT ![t] = {}]
           waiters == [u.waiters EXCEPT ![t] = <<>>]
           refs == [u.refs EXCEPT ![t] = 1]
           tree == u.tree \cup {t}
           k == FreshK(u.k, t)
<1>1. u = r
  BY LifeFields
<1>2. Fresh(u, t) = [[[[[u EXCEPT !.refs = refs] EXCEPT !.tree = tree]
                        EXCEPT !.waiters = waiters] EXCEPT !.children = children] EXCEPT !.k = k]
  BY ZenonT(60) DEF Fresh, FreshK
<1> HIDE DEF children, waiters, refs, tree, k
<1> DEFINE r1 == Rec(u.k, u.parent, u.children, u.waiters, refs, u.tree)
           r2 == Rec(u.k, u.parent, u.children, u.waiters, refs, tree)
           r3 == Rec(u.k, u.parent, u.children, waiters, refs, tree)
           r4 == Rec(u.k, u.parent, children, waiters, refs, tree)
           r5 == Rec(k, u.parent, children, waiters, refs, tree)
<1>3. [r EXCEPT !.refs = refs] = r1
  BY DEF Rec
<1>4. [r1 EXCEPT !.tree = tree] = r2
  BY DEF Rec
<1>5. [r2 EXCEPT !.waiters = waiters] = r3
  BY DEF Rec
<1>6. [r3 EXCEPT !.children = children] = r4
  BY DEF Rec
<1>7. [r4 EXCEPT !.k = k] = r5
  BY DEF Rec
<1> HIDE DEF r, r1, r2, r3, r4, r5
<1>8. Fresh(u, t) = r5
  <2>1. [u EXCEPT !.refs = refs] = r1
    BY <1>1, <1>3, Zenon
  <2>2. [[u EXCEPT !.refs = refs] EXCEPT !.tree = tree] = r2
    BY <2>1, <1>4, Zenon
  <2>3. [[[u EXCEPT !.refs = refs] EXCEPT !.tree = tree] EXCEPT !.waiters = waiters] = r3
    BY <2>2, <1>5, Zenon
  <2>4. [[[[u EXCEPT !.refs = refs] EXCEPT !.tree = tree] EXCEPT !.waiters = waiters]
           EXCEPT !.children = children] = r4
    BY <2>3, <1>6, Zenon
  <2> QED
    BY <1>2, <1>7, <2>4, Zenon
<1> QED
  BY <1>8 DEF children, waiters, refs, tree, k, r5

\* thr_thread_create: the counters of the child and of its parent are right.
LEMMA CreatedKeeps ==
    ASSUME NEW u, NEW P, NEW c, Life(u, P, c, Idle, 0), OnCpu(u.k),
           NEW t \in Threads \ Roots, u.k.state[t] = "FREE"
    PROVE  LET v == Created(u, t, u.k.cur)
           IN  Life(v, P, c, Idle, 0) /\ OnCpu(v.k)
<1> DEFINE p == u.k.cur
           g == FreshK(u.k, t)
           k == sched_thread_add(g, t)
           parent == [u.parent EXCEPT ![t] = p]
           kids == [u.children EXCEPT ![t] = {}]
           children == [kids EXCEPT ![p] = @ \cup {t}]
           waiters == [u.waiters EXCEPT ![t] = <<>>]
           one == [u.refs EXCEPT ![t] = 1]
           refs == [one EXCEPT ![t] = @ + 1, ![p] = @ + 1]
           tree == u.tree \cup {t}
           f == Fresh(u, t)
           a == add_child_thread_nolock(f, t, p)
           v == Rec(k, parent, children, waiters, refs, tree)
<1>1. /\ u \in LifeType /\ P \in SUBSET (Threads \X Threads) /\ u.tree \in SUBSET Threads
      /\ Roots \subseteq u.tree /\ \A x \in u.tree : u.parent[x] \in u.tree
  BY LifeTypes
<1>2. /\ SchedOK(u.k) /\ ~ u.k.panic /\ P \subseteq Threads \X u.tree /\ TreeOK(u)
      /\ WaitersOK(u) /\ RefsOK(u, P, Idle, 0) /\ WaitOK(u, c)
  BY DEF Life
<1>3. /\ u.k \in SchedType /\ u.parent \in [Threads -> Threads]
      /\ u.children \in [Threads -> SUBSET Threads]
      /\ u.waiters \in [Threads -> Seq(Threads)] /\ u.refs \in [Threads -> Nat]
      /\ u.k.state \in [Threads -> States] /\ p \in Threads
  BY <1>1, LifeFields, SchedFields
<1>4. /\ t \notin u.tree /\ p \in u.tree /\ t # p /\ u.k.state[p] # "EXIT" /\ t # Idle /\ t \in Threads
  BY <1>2, <1>3 DEF TreeOK, OnCpu, Roots
<1>5. u.refs[p] > 0
  BY <1>4, Alive
<1>6. /\ g \in SchedType /\ SchedOK(k) /\ k.cur = p /\ k.wq = u.k.wq /\ k.reason = u.k.reason
      /\ k.panic = u.k.panic /\ k.state = [u.k.state EXCEPT ![t] = "RUNABLE"]
      /\ Ready(k) = Ready(u.k) \cup {t} /\ Waiting(k) = Waiting(u.k)
  <2>1. t \in Threads \ {Idle, u.k.cur}
    BY <1>4
  <2> QED
    BY <1>2, <2>1, Begins DEF FreshK
<1>7. f = Rec(g, u.parent, kids, waiters, one, tree)
  BY <1>1, <1>4, FreshFields
<1>8. /\ parent \in [Threads -> Threads] /\ parent[t] = p
      /\ \A x \in Threads \ {t} : parent[x] = u.parent[x]
  BY <1>3, <1>4
<1>9. /\ kids \in [Threads -> SUBSET Threads] /\ kids[t] = {}
      /\ \A x \in Threads \ {t} : kids[x] = u.children[x]
  BY <1>3, <1>4
<1>10. /\ waiters \in [Threads -> Seq(Threads)] /\ waiters[t] = <<>>
       /\ \A x \in Threads \ {t} : waiters[x] = u.waiters[x]
  BY <1>3, <1>4, EmptySeq
<1>11. /\ one \in [Threads -> Nat] /\ one[t] = 1
       /\ \A x \in Threads \ {t} : one[x] = u.refs[x]
  BY <1>3, <1>4
<1> HIDE DEF g, kids, one, waiters, tree, f, p
<1>12. /\ children \in [Threads -> SUBSET Threads] /\ children[p] = kids[p] \cup {t}
       /\ \A x \in Threads \ {p} : children[x] = kids[x]
  BY <1>3, <1>4, <1>9
<1>13. /\ refs \in [Threads -> Nat] /\ refs[t] = 2 /\ refs[p] = u.refs[p] + 1
       /\ \A x \in Threads \ {p, t} : refs[x] = u.refs[x]
  <2> DEFINE two == [one EXCEPT ![t] = @ + 1]
  <2>1. /\ two \in [Threads -> Nat] /\ two[t] = 2 /\ two[p] = u.refs[p]
        /\ \A x \in Threads \ {t} : two[x] = u.refs[x]
    BY <1>3, <1>4, <1>11
  <2>2. refs = [two EXCEPT ![p] = @ + 1]
    BY <1>3, <1>4, <1>11
  <2> HIDE DEF two, refs
  <2>3. u.refs[p] \in Nat
    BY <1>3
  <2> QED
    BY <1>3, <1>4, <2>1, <2>2, <2>3
<1>14. tree \in SUBSET Threads
  BY <1>1, <1>4 DEF tree
<1>15. a = Rec(g, parent, children, waiters, refs, tree)
  <2>1. f \in LifeType
    BY <1>3, <1>6, <1>7, <1>9, <1>10, <1>11, <1>14, RecType
  <2>2. /\ f.k = g /\ f.parent = u.parent /\ f.children = kids /\ f.waiters = waiters
        /\ f.refs = one /\ f.tree = tree
    BY <1>7, RecFields
  <2>3. f.refs[t] > 0 /\ f.refs[p] > 0 /\ p \in Threads \ {t}
    BY <1>3, <1>4, <1>5, <1>11, <2>2
  <2>4. a = Rec(f.k, [f.parent EXCEPT ![t] = p], [f.children EXCEPT ![p] = @ \cup {t}], f.waiters,
                [f.refs EXCEPT ![t] = @ + 1, ![p] = @ + 1], f.tree)
    BY <1>4, <2>1, <2>3, AddChildFields
  <2> QED
    BY <2>2, <2>4
<1> HIDE DEF a, parent, children, refs
<1>16. Created(u, t, p) = v
  <2>1. Created(u, t, p) = [a EXCEPT !.k = sched_thread_add(a.k, t)]
    BY DEF Created, a, f
  <2>2. a.k = g
    BY <1>15, RecFields
  <2>3. Created(u, t, p) = [a EXCEPT !.k = k]
    BY <2>1, <2>2
  <2> HIDE DEF k
  <2>4. Created(u, t, p) = [Rec(g, parent, children, waiters, refs, tree) EXCEPT !.k = k]
    BY <1>15, <2>3, Zenon
  <2> QED
    BY <2>4 DEF Rec
<1> HIDE DEF k, v
<1>17. /\ v.k = k /\ v.parent = parent /\ v.children = children
       /\ v.waiters = waiters /\ v.refs = refs /\ v.tree = tree
  BY RecFields DEF v
<1>18. /\ k.state[t] = "RUNABLE" /\ \A x \in Threads \ {t} : k.state[x] = u.k.state[x]
  BY <1>3, <1>4, <1>6
<1>19. v \in LifeType
  <2>1. k \in SchedType
    BY <1>6 DEF SchedOK
  <2> QED
    BY <1>8, <1>10, <1>12, <1>13, <1>14, <2>1, RecType DEF v
<1>20. TreeOK(v)
  <2>1. tree = {x \in Threads : k.state[x] \notin {"DEAD", "FREE"}}
    <3>1. u.tree = {x \in Threads : u.k.state[x] \notin {"DEAD", "FREE"}}
      BY <1>2 DEF TreeOK
    <3> QED
      BY <1>4, <1>18, <3>1 DEF tree
  <2>2. Roots \subseteq tree /\ k.state[Reaper] # "EXIT"
    BY <1>1, <1>2, <1>18 DEF tree, TreeOK, Roots
  <2>3. ASSUME NEW x \in tree
        PROVE  parent[x] \in tree /\ (parent[x] = x <=> x \in Roots)
    <3>1. CASE x = t
      BY <1>4, <1>8, <3>1 DEF tree
    <3>2. CASE x # t
      BY <1>1, <1>2, <1>8, <2>3, <3>2 DEF tree, TreeOK
    <3> QED
      BY <3>1, <3>2
  <2>4. ASSUME NEW q \in Threads
        PROVE  children[q] = {x \in tree \ {q} : parent[x] = q /\ k.state[x] # "EXIT"}
    <3>1. u.children[q] = {x \in u.tree \ {q} : u.parent[x] = q /\ u.k.state[x] # "EXIT"}
      BY <1>2 DEF TreeOK
    <3>2. \A x \in u.tree : parent[x] = u.parent[x] /\ k.state[x] = u.k.state[x]
      BY <1>1, <1>4, <1>8, <1>18
    <3>3. CASE q = t
      BY <1>1, <1>4, <1>8, <1>9, <1>12, <3>2, <3>3 DEF tree
    <3>4. CASE q = p
      BY <1>4, <1>8, <1>9, <1>12, <1>18, <3>1, <3>2, <3>4 DEF tree
    <3>5. CASE q \notin {p, t}
      BY <1>4, <1>8, <1>9, <1>12, <3>1, <3>2, <3>5 DEF tree
    <3> QED
      BY <3>3, <3>4, <3>5
  <2> QED
    BY <1>17, <2>1, <2>2, <2>3, <2>4 DEF TreeOK
<1>21. WaitersOK(v)
  <2> SUFFICES ASSUME NEW q \in Threads
               PROVE  /\ IsInjective(waiters[q])
                      /\ \A x \in Range(waiters[q]) : k.state[x] = "DEAD" /\ parent[x] = q
    BY <1>17 DEF WaitersOK
  <2>1. CASE q = t
    <3>1. waiters[q] = <<>>
      BY <1>10, <2>1
    <3> QED
      BY <3>1 DEF IsInjective, Range
  <2>2. CASE q # t
    <3>1. /\ IsInjective(u.waiters[q]) /\ u.waiters[q] \in Seq(Threads)
          /\ \A x \in Range(u.waiters[q]) : u.k.state[x] = "DEAD" /\ u.parent[x] = q
      BY <1>2, <1>3 DEF WaitersOK
    <3>2. Range(u.waiters[q]) \subseteq Threads
      BY <3>1, RangeOfSeq
    <3> QED
      BY <1>8, <1>10, <1>18, <2>2, <3>1, <3>2
  <2> QED
    BY <2>1, <2>2
<1>22. RefsOK(v, P, Idle, 0)
  <2>1. ASSUME NEW x \in tree
        PROVE  refs[x] = Held(v, x) + Cardinality(Deps(v, x)) + Cardinality(PinsOf(P, x)) + 0
    <3>1. CASE x = t
      <4>1. Deps(v, x) = {} /\ PinsOf(P, x) = {}
        BY <1>1, <1>2, <1>4, <1>8, <1>17, <3>1 DEF Deps, PinsOf, tree
      <4>2. Held(v, x) = 2
        BY <1>17, <1>18, <3>1 DEF Held
      <4> QED
        BY <1>13, <3>1, <4>1, <4>2, FS_EmptySet
    <3>2. CASE x # t
      <4>1. /\ u.refs[x] = Held(u, x) + Cardinality(Deps(u, x)) + Cardinality(PinsOf(P, x)) + 0
            /\ x \in u.tree /\ x \in Threads
        BY <1>1, <1>2, <3>2 DEF RefsOK, tree
      <4>2. /\ Cardinality(Deps(u, x)) \in Nat /\ Cardinality(PinsOf(P, x)) \in Nat
            /\ Held(u, x) \in 0 .. 2 /\ IsFiniteSet(Deps(u, x))
        BY <1>1, <4>1, Counts
      <4>3. Held(v, x) = Held(u, x)
        BY <1>17, <1>18, <3>2, <4>1 DEF Held
      <4>4. CASE x = p
        <5>1. Deps(v, x) = Deps(u, x) \cup {t} /\ t \notin Deps(u, x)
          BY <1>1, <1>4, <1>8, <1>17, <4>4 DEF Deps, tree
        <5>2. Cardinality(Deps(v, x)) = Cardinality(Deps(u, x)) + 1
          BY <4>2, <5>1, FS_AddElement
        <5> QED
          BY <1>13, <4>1, <4>2, <4>3, <4>4, <5>2
      <4>5. CASE x # p
        <5>1. Deps(v, x) = Deps(u, x)
          BY <1>1, <1>4, <1>8, <1>17, <4>5 DEF Deps, tree
        <5> QED
          BY <1>13, <3>2, <4>1, <4>2, <4>3, <4>5, <5>1
      <4> QED
        BY <4>4, <4>5
    <3> QED
      BY <3>1, <3>2
  <2>2. ASSUME NEW x \in Threads, k.state[x] = "DEAD" PROVE refs[x] = 0
    <3>1. x # t /\ u.k.state[x] = "DEAD"
      BY <1>18, <2>2
    <3>2. u.refs[x] = 0 /\ x # p
      BY <1>2, <1>4, <3>1 DEF RefsOK, TreeOK
    <3> QED
      BY <1>13, <3>1, <3>2
  <2> QED
    BY <1>17, <2>1, <2>2 DEF RefsOK
<1>23. WaitOK(v, c)
  <2>1. ASSUME NEW x \in Threads, c[x] = "wait"
        PROVE  /\ x # Idle /\ k.state[x] \in {"WAIT", "RUN", "RUNABLE"}
               /\ k.state[x] # "WAIT" => k.reason[x] = "RELEASED" /\ waiters[x] # <<>>
    <3>1. /\ x # Idle /\ u.k.state[x] \in {"WAIT", "RUN", "RUNABLE"}
          /\ u.k.state[x] # "WAIT" => u.k.reason[x] = "RELEASED" /\ u.waiters[x] # <<>>
      BY <1>2, <2>1 DEF WaitOK
    <3>2. x # t
      BY <3>1
    <3> QED
      BY <1>6, <1>10, <1>18, <3>1, <3>2
  <2>2. ASSUME NEW x \in Threads, k.state[x] = "WAIT" PROVE c[x] = "wait"
    BY <1>2, <1>18, <2>2 DEF WaitOK
  <2> QED
    BY <1>2, <1>6, <1>17, <2>1, <2>2 DEF WaitOK
<1>24. OnCpu(v.k)
  <2>1. Off(u.k, p) /\ u.k.state[p] \in {"RUN", "RUNABLE"}
    BY DEF OnCpu, p
  <2>2. Off(k, p) /\ k.state[p] \in {"RUN", "RUNABLE"}
    BY <1>3, <1>4, <1>6, <1>18, <2>1 DEF Off
  <2> QED
    BY <1>6, <1>17, <2>2 DEF OnCpu
<1>25. P \subseteq Threads \X tree
  BY <1>2 DEF tree
<1>26. Life(v, P, c, Idle, 0)
  BY <1>2, <1>6, <1>17, <1>19, <1>20, <1>21, <1>22, <1>23, <1>25 DEF Life
<1> QED
  BY <1>16, <1>24, <1>26 DEF p

-----------------------------------------------------------------------------
(* Exit.                                                                   *)

(* A thread p without children leaves the list of its parent and ends: of  *)
(* the references it held, two have lost their reason.                     *)
Ended(u, p) ==
    [del_child_thread_nolock(u, p, u.parent[p]) EXCEPT !.k.state[p] = "EXIT"]

\* The list of the parent and the tree give up their references.
LEMMA EndedKeeps ==
    ASSUME NEW u, NEW P, NEW c, NEW p \in u.tree \ Roots, Life(u, P, c, p, 1),
           u.k.state[p] # "EXIT", Off(u.k, p), c[p] # "wait"
    PROVE  LET v == Ended(u, p)
           IN  /\ Life(v, P, c, p, 2) /\ p \in v.tree /\ v.k.cur = u.k.cur
               /\ Off(v.k, p) /\ v.k.state[p] = "EXIT"
<1> DEFINE q == u.parent[p]
           k == [u.k EXCEPT !.state[p] = "EXIT"]
           children == [u.children EXCEPT ![q] = @ \ {p}]
           refs == [u.refs EXCEPT ![p] = @ - 1]
           d == del_child_thread_nolock(u, p, q)
           v == Rec(k, u.parent, children, u.waiters, refs, u.tree)
<1>1. /\ u \in LifeType /\ P \in SUBSET (Threads \X Threads) /\ u.tree \in SUBSET Threads
      /\ Roots \subseteq u.tree /\ \A x \in u.tree : u.parent[x] \in u.tree
  BY LifeTypes
<1>2. /\ SchedOK(u.k) /\ ~ u.k.panic /\ P \subseteq Threads \X u.tree /\ TreeOK(u)
      /\ WaitersOK(u) /\ RefsOK(u, P, p, 1) /\ WaitOK(u, c)
  BY DEF Life
<1>3. /\ u.k \in SchedType /\ u.parent \in [Threads -> Threads]
      /\ u.children \in [Threads -> SUBSET Threads]
      /\ u.waiters \in [Threads -> Seq(Threads)] /\ u.refs \in [Threads -> Nat]
      /\ u.k.state \in [Threads -> States] /\ p \in Threads /\ q \in Threads /\ p # Idle /\ p # Reaper
  BY <1>1, LifeFields, SchedFields DEF Roots
<1>4. p \in u.children[q] /\ q # p /\ u.refs[p] > 1 /\ u.k.state[p] # "DEAD"
  <2>1. q # p /\ u.k.state[p] # "DEAD"
    BY <1>2 DEF TreeOK
  <2>2. p \in u.children[q]
    BY <1>2, <1>3, <2>1, SMTT(30) DEF TreeOK
  <2> QED
    BY <2>1, <2>2, Alive
<1>5. d = Rec(u.k, u.parent, children, u.waiters, refs, u.tree)
  BY <1>1, <1>3, <1>4, DelChildFields
<1>6. /\ SchedOK(k) /\ k.cur = u.k.cur /\ k.wq = u.k.wq /\ k.reason = u.k.reason
      /\ k.panic = u.k.panic /\ k.state = [u.k.state EXCEPT ![p] = "EXIT"]
      /\ Ready(k) = Ready(u.k) /\ Waiting(k) = Waiting(u.k)
  BY <1>2, <1>3, Ends
<1>7. /\ children \in [Threads -> SUBSET Threads] /\ children[q] = u.children[q] \ {p}
      /\ \A x \in Threads \ {q} : children[x] = u.children[x]
  BY <1>3
<1>8. /\ refs \in [Threads -> Nat] /\ refs[p] = u.refs[p] - 1
      /\ \A x \in Threads \ {p} : refs[x] = u.refs[x]
  BY <1>3, <1>4
<1> HIDE DEF d, children, refs
<1>9. Ended(u, p) = v
  <2>1. Ended(u, p) = [d EXCEPT !.k = [d.k EXCEPT !.state[p] = "EXIT"]]
    BY DEF Ended, d
  <2>2. d.k = u.k
    BY <1>5, RecFields
  <2>3. Ended(u, p) = [d EXCEPT !.k = k]
    BY <2>1, <2>2
  <2> HIDE DEF k
  <2>4. Ended(u, p) = [Rec(u.k, u.parent, children, u.waiters, refs, u.tree) EXCEPT !.k = k]
    BY <1>5, <2>3, Zenon
  <2> QED
    BY <2>4 DEF Rec
<1> HIDE DEF k, v, q
<1>10. /\ v.k = k /\ v.parent = u.parent /\ v.children = children
       /\ v.waiters = u.waiters /\ v.refs = refs /\ v.tree = u.tree
  BY RecFields DEF v
<1>11. /\ k.state[p] = "EXIT" /\ \A x \in Threads \ {p} : k.state[x] = u.k.state[x]
  BY <1>3, <1>6
<1>12. v \in LifeType
  <2>1. k \in SchedType
    BY <1>6 DEF SchedOK
  <2> QED
    BY <1>1, <1>3, <1>7, <1>8, <2>1, RecType DEF v
<1>13. TreeOK(v)
  <2>1. u.tree = {x \in Threads : k.state[x] \notin {"DEAD", "FREE"}}
    <3>1. u.tree = {x \in Threads : u.k.state[x] \notin {"DEAD", "FREE"}}
      BY <1>2 DEF TreeOK
    <3>2. ASSUME NEW x \in Threads
          PROVE  k.state[x] \in {"DEAD", "FREE"} <=> u.k.state[x] \in {"DEAD", "FREE"}
      BY <1>11, <3>1
    <3> QED
      BY <3>1, <3>2
  <2>2. Roots \subseteq u.tree /\ k.state[Reaper] # "EXIT"
    BY <1>1, <1>2, <1>3, <1>11 DEF TreeOK, Roots
  <2>3. \A x \in u.tree : u.parent[x] \in u.tree /\ (u.parent[x] = x <=> x \in Roots)
    BY <1>2 DEF TreeOK
  <2>4. ASSUME NEW r \in Threads
        PROVE  children[r] = {x \in u.tree \ {r} : u.parent[x] = r /\ k.state[x] # "EXIT"}
    <3>1. u.children[r] = {x \in u.tree \ {r} : u.parent[x] = r /\ u.k.state[x] # "EXIT"}
      BY <1>2 DEF TreeOK
    <3>2. \A x \in u.tree \ {p} : k.state[x] = u.k.state[x]
      BY <1>1, <1>11
    <3>3. CASE r = q
      BY <1>7, <1>11, <3>1, <3>2, <3>3
    <3>4. CASE r # q
      <4>1. u.parent[p] # r
        BY <3>4 DEF q
      <4> QED
        BY <1>7, <1>11, <3>1, <3>2, <3>4, <4>1
    <3> QED
      BY <3>3, <3>4
  <2> QED
    BY <1>10, <2>1, <2>2, <2>3, <2>4 DEF TreeOK
<1>14. WaitersOK(v)
  <2> SUFFICES ASSUME NEW r \in Threads
               PROVE  /\ IsInjective(u.waiters[r])
                      /\ \A x \in Range(u.waiters[r]) : k.state[x] = "DEAD" /\ u.parent[x] = r
    BY <1>10 DEF WaitersOK
  <2>1. /\ IsInjective(u.waiters[r]) /\ u.waiters[r] \in Seq(Threads)
        /\ \A x \in Range(u.waiters[r]) : u.k.state[x] = "DEAD" /\ u.parent[x] = r
    BY <1>2, <1>3 DEF WaitersOK
  <2>2. Range(u.waiters[r]) \subseteq Threads
    BY <2>1, RangeOfSeq
  <2> QED
    BY <1>4, <1>11, <2>1, <2>2
<1>15. RefsOK(v, P, p, 2)
  <2>1. ASSUME NEW x \in u.tree
        PROVE  refs[x] = Held(v, x) + Cardinality(Deps(v, x)) + Cardinality(PinsOf(P, x))
                         + (IF x = p THEN 2 ELSE 0)
    <3>1. /\ u.refs[x] = Held(u, x) + Cardinality(Deps(u, x)) + Cardinality(PinsOf(P, x))
                         + (IF x = p THEN 1 ELSE 0)
          /\ x \in Threads
      BY <1>1, <1>2 DEF RefsOK
    <3>2. /\ Cardinality(Deps(u, x)) \in Nat /\ Cardinality(PinsOf(P, x)) \in Nat
          /\ Held(u, x) \in 0 .. 2
      BY <1>1, <3>1, Counts
    <3>3. Deps(v, x) = Deps(u, x)
      BY <1>10 DEF Deps
    <3>4. CASE x = p
      <4>1. Held(u, x) = 2 /\ Held(v, x) = 0
        BY <1>10, <1>11, <3>4 DEF Held
      <4> QED
        BY <1>8, <3>1, <3>2, <3>3, <3>4, <4>1
    <3>5. CASE x # p
      <4>1. Held(v, x) = Held(u, x)
        BY <1>10, <1>11, <3>1, <3>5 DEF Held
      <4> QED
        BY <1>8, <3>1, <3>2, <3>3, <3>5, <4>1
    <3> QED
      BY <3>4, <3>5
  <2>2. ASSUME NEW x \in Threads, k.state[x] = "DEAD" PROVE refs[x] = 0
    <3>1. x # p /\ u.k.state[x] = "DEAD"
      BY <1>11, <2>2
    <3> QED
      BY <1>2, <1>8, <3>1 DEF RefsOK
  <2> QED
    BY <1>10, <2>1, <2>2 DEF RefsOK
<1>16. WaitOK(v, c)
  <2>1. ASSUME NEW x \in Threads, c[x] = "wait"
        PROVE  /\ x # Idle /\ k.state[x] \in {"WAIT", "RUN", "RUNABLE"}
               /\ k.state[x] # "WAIT" => k.reason[x] = "RELEASED" /\ u.waiters[x] # <<>>
    <3>1. /\ x # Idle /\ u.k.state[x] \in {"WAIT", "RUN", "RUNABLE"}
          /\ u.k.state[x] # "WAIT" => u.k.reason[x] = "RELEASED" /\ u.waiters[x] # <<>>
      BY <1>2, <2>1 DEF WaitOK
    <3> QED
      BY <1>6, <1>11, <2>1, <3>1
  <2>2. ASSUME NEW x \in Threads, k.state[x] = "WAIT" PROVE c[x] = "wait"
    BY <1>2, <1>11, <2>2 DEF WaitOK
  <2>3. \A r \in Threads : Range(k.wq[r]) \subseteq {r}
    BY <1>2, <1>6 DEF WaitOK
  <2> QED
    BY <1>10, <2>1, <2>2, <2>3 DEF WaitOK
<1>17. Off(v.k, p)
  BY <1>6, <1>10 DEF Off
<1>18. Life(v, P, c, p, 2)
  BY <1>2, <1>6, <1>10, <1>12, <1>13, <1>14, <1>15, <1>16 DEF Life
<1> QED
  BY <1>6, <1>9, <1>10, <1>11, <1>17, <1>18

\* The whole of thr_thread_exit.
Exited(u, p) ==
    LET a == thr_ref_inc(assert(u, ~ LinkUsed(u, p)), p)
        b == handle_orphan_thread(a, p)
        d == del_child_thread_nolock(b, p, u.parent[p])
        e == DropOwn([d EXCEPT !.k.state[p] = "EXIT"], p)
    IN  [e EXCEPT !.k = sched_schedule(@)]

\* thr_thread_exit, from the reference it takes to the next thread.
LEMMA ExitKeeps ==
    ASSUME NEW u, NEW P, NEW c, Life(u, P, c, Idle, 0), OnCpu(u.k),
           u.k.cur \notin Roots, c[u.k.cur] # "wait"
    PROVE  LET v == Exited(u, u.k.cur)
           IN  Life(v, P, c, Idle, 0) /\ OnCpu(v.k)
<1> DEFINE p == u.k.cur
           a == thr_ref_inc(assert(u, ~ LinkUsed(u, p)), p)
           b == handle_orphan_thread(a, p)
           d == Ended(b, p)
           e == DropOwn(d, p)
           v == [e EXCEPT !.k = sched_schedule(@)]
<1>1. /\ u \in LifeType /\ p \in u.tree \ Roots /\ u.k.state[p] \in {"RUN", "RUNABLE"}
      /\ Off(u.k, p)
  <2>1. u \in LifeType /\ SchedOK(u.k) /\ TreeOK(u)
    BY DEF Life
  <2>2. p \in Threads
    BY <2>1, LifeFields, SchedFields
  <2> QED
    BY <2>1, <2>2 DEF OnCpu, TreeOK
<1>2. ~ LinkUsed(u, p)
  <2>1. p \notin Ready(u.k)
    BY <1>1 DEF Off
  <2>2. \A q \in Threads : p \notin Range(u.waiters[q])
    BY <1>1 DEF Life, WaitersOK
  <2> QED
    BY <2>1, <2>2 DEF LinkUsed
<1>3. /\ Life(a, P, c, p, 1) /\ a.k = u.k /\ a.tree = u.tree /\ a.parent = u.parent
  <2>1. assert(u, ~ LinkUsed(u, p)) = u
    BY <1>1, <1>2, AssertLife
  <2>2. Life(u, P, c, p, 0) /\ u.refs[p] > 0
    BY <1>1, NoSurplus, Alive
  <2> HIDE DEF p
  <2>3. LET x == thr_ref_inc(u, p)
        IN  /\ Life(x, P, c, p, 0 + 1)
            /\ x = Rec(u.k, u.parent, u.children, u.waiters, [u.refs EXCEPT ![p] = @ + 1], u.tree)
    BY <1>1, <2>2, Take
  <2> QED
    BY <2>1, <2>3, RecFields
<1>4. /\ Life(b, P, c, p, 1) /\ b.k = u.k /\ b.tree = u.tree /\ b.parent[p] = u.parent[p]
  <2> HIDE DEF a, p
  <2>1. p \in a.tree \ Roots /\ a.k.state[p] # "EXIT"
    BY <1>1, <1>3
  <2> QED
    BY <1>3, <2>1, OrphansKeep
<1>5. /\ Life(d, P, c, p, 2) /\ p \in d.tree /\ d.k.cur = p /\ Off(d.k, p)
      /\ d.k.state[p] = "EXIT"
  <2>1. b.k.cur = p
    BY <1>4
  <2> HIDE DEF b, p
  <2>2. p \in b.tree \ Roots /\ b.k.state[p] # "EXIT" /\ Off(b.k, p) /\ c[p] # "wait"
    BY <1>1, <1>4 DEF p
  <2> QED
    BY <1>4, <2>1, <2>2, EndedKeeps
<1>6. Life(e, P, c, Idle, 0) /\ Kept(d, e)
  <2> HIDE DEF d, p
  <2> QED
    BY <1>5, DropOwnKeeps
<1>7. MayLeave(e.k)
  <2>1. d.k.cur \in Threads
    BY <1>5, LifeTypes, LifeFields, SchedFields
  <2> HIDE DEF d, e, p
  <2>2. e.k.cur = p /\ e.k.state[p] \in {"EXIT", "DEAD"}
    BY <1>5, <1>6, <2>1 DEF Kept
  <2> QED
    BY <2>2 DEF MayLeave
<1>8. Life(v, P, c, Idle, 0) /\ OnCpu(v.k)
  <2> HIDE DEF e
  <2> QED
    BY <1>6, <1>7, ScheduleKeeps
<1>9. Exited(u, p) = v
  <2> HIDE DEF a
  <2>1. d = [del_child_thread_nolock(b, p, u.parent[p]) EXCEPT !.k.state[p] = "EXIT"]
    BY <1>4, Zenon DEF Ended
  <2> HIDE DEF b, d, p
  <2> QED
    BY <2>1 DEF Exited, a, b
<1> QED
  BY <1>8, <1>9

-----------------------------------------------------------------------------
(* The invariant.                                                          *)

\* After thr_system_thread_create there are the idle thread and the reaper.
LEMMA InitKeeps ==
    ASSUME Init
    PROVE  IInv
<1> DEFINE state == [t \in Threads |-> IF t \in Roots THEN "RUNABLE" ELSE "FREE"]
           s == [SchedInit EXCEPT !.state = state]
           k == sched_thread_add(s, Reaper)
           parent == [t \in Threads |-> t]
           children == [t \in Threads |-> {}]
           waiters == [t \in Threads |-> <<>>]
           refs == [t \in Threads |-> IF t \in Roots THEN 1 ELSE 0]
           u == Rec(k, parent, children, waiters, refs, Roots)
<1>1. /\ Idle \in Threads /\ Reaper \in Threads /\ Idle # Reaper /\ WaitQueues = Threads
      /\ \A p \in Prios : <<>> \in Seq(Threads)
  BY SchedAssumption, LifeAssumption, EmptySeq
<1>2. w = u /\ pc = [t \in Threads |-> "run"] /\ pins = {}
  BY DEF Init, Rec, Roots
<1>3. /\ s = Make(Idle, state, [p \in Prios |-> <<>>], {}, {}, {}, Threads \ {Idle},
                  [q \in WaitQueues |-> <<>>], [t \in Threads |-> "WAIT"], FALSE)
  <2> DEFINE que == [p \in Prios |-> <<>>]
             wq == [q \in WaitQueues |-> <<>>]
             reason == [t \in Threads |-> "WAIT"]
             boot == [t \in Threads |-> "RUNABLE"]
             none == {}
             fresh == Threads \ {Idle}
             no == FALSE
             f == Make(Idle, boot, que, none, none, none, fresh, wq, reason, no)
  <2>1. SchedInit = f
    BY DEF SchedInit, Make
  <2> HIDE DEF que, wq, reason, boot, none, fresh, no, state
  <2>2. [f EXCEPT !.state = state] = Make(Idle, state, que, none, none, none, fresh, wq, reason, no)
    BY DEF Make
  <2> HIDE DEF f
  <2>3. s = [f EXCEPT !.state = state]
    BY <2>1, Zenon
  <2> QED
    BY <2>2, <2>3, Zenon DEF que, wq, reason, none, fresh, no
<1>4. /\ state \in [Threads -> States] /\ state[Idle] = "RUNABLE" /\ state[Reaper] = "RUNABLE"
      /\ \A t \in Threads \ Roots : state[t] = "FREE"
      /\ \A t \in Threads : state[t] \in {"RUNABLE", "FREE"}
  BY <1>1 DEF States, Roots
<1> HIDE DEF s, state
<1>5. s \in SchedType
  <2> DEFINE que == [p \in Prios |-> <<>>]
             wq == [q \in WaitQueues |-> <<>>]
             reason == [t \in Threads |-> "WAIT"]
             bits == {}
             fresh == Threads \ {Idle}
  <2>1. /\ que \in [Prios -> Seq(Threads)] /\ wq \in [WaitQueues -> Seq(Threads)]
        /\ reason \in [Threads -> Reasons]
        /\ fresh \in SUBSET Threads /\ bits \in SUBSET Prios /\ bits \in SUBSET Threads
        /\ FALSE \in BOOLEAN
    BY <1>1, EmptySeq DEF Reasons
  <2>2. s = Make(Idle, state, que, bits, bits, bits, fresh, wq, reason, FALSE)
    BY <1>3
  <2> HIDE DEF que, wq, reason, bits, fresh
  <2> QED
    BY <1>1, <1>4, <2>1, <2>2, MakeSched
<1>6. /\ s.cur = Idle /\ s.state = state /\ s.bitmap = {} /\ s.active = {}
      /\ s.fresh = Threads \ {Idle} /\ s.panic = FALSE
      /\ s.que = [p \in Prios |-> <<>>] /\ s.wq = [q \in WaitQueues |-> <<>>]
  BY <1>3 DEF Make
<1>7. /\ Ready(s) = {} /\ BitmapExact(s)
      /\ \A p \in Prios : IsInjective(s.que[p]) /\ Range(s.que[p]) = {}
  BY <1>6 DEF Ready, Range, BitmapExact, IsInjective
<1>8. /\ k \in SchedType /\ SameThreads(s, k) /\ BitmapExact(k)
      /\ \A p \in Prios :
           /\ IsInjective(k.que[p])
           /\ Range(k.que[p]) = {x \in {Reaper} : Prio[x] = p}
  <2>1. Reaper \in Threads \ Ready(s) /\ s.state[Reaper] = "RUNABLE"
    BY <1>1, <1>4, <1>6, <1>7
  <2>2. /\ k \in SchedType /\ SameThreads(s, k) /\ BitmapExact(k)
        /\ \A p \in Prios :
             /\ IsInjective(k.que[p])
             /\ Range(k.que[p]) = Range(s.que[p]) \cup {x \in {Reaper} : Prio[x] = p}
    BY <1>5, <1>7, <2>1, AddOne
  <2> QED
    BY <1>7, <2>2
<1>9. /\ k.cur = Idle /\ k.state = state /\ k.active = {} /\ k.fresh = Threads \ {Idle}
      /\ k.panic = FALSE /\ k.wq = [q \in WaitQueues |-> <<>>]
  BY <1>6, <1>8 DEF SameThreads
<1> HIDE DEF k
<1>10. \A q \in WaitQueues : IsInjective(k.wq[q]) /\ Range(k.wq[q]) = {}
  BY <1>9 DEF Range, IsInjective
<1>11. Ready(k) = {Reaper} /\ Waiting(k) = {}
  BY <1>1, <1>8, <1>10, PrioIs DEF Ready, Waiting
<1>12. SchedOK(k) /\ OnCpu(k)
  <2>1. QueuesOK(k)
    <3>1. \A p \in Prios : \A t \in Range(k.que[p]) : Prio[t] = p /\ k.state[t] = "RUNABLE"
      BY <1>4, <1>8, <1>9
    <3> QED
      BY <1>8, <1>10, <3>1 DEF QueuesOK
  <2>2. OthersOK(k)
    BY <1>4, <1>9, <1>11 DEF OthersOK, Roots
  <2>3. FlagsOK(k)
    BY <1>4, <1>9 DEF FlagsOK
  <2>4. OnCpu(k)
    BY <1>1, <1>4, <1>9, <1>11 DEF OnCpu, Off
  <2> QED
    BY <1>8, <2>1, <2>2, <2>3, <2>4 DEF SchedOK
<1>13. u \in LifeType
  <2>1. /\ parent \in [Threads -> Threads] /\ children \in [Threads -> SUBSET Threads]
        /\ waiters \in [Threads -> Seq(Threads)] /\ refs \in [Threads -> Nat]
        /\ Roots \in SUBSET Threads
    BY <1>1, EmptySeq DEF Roots
  <2> HIDE DEF parent, children, waiters, refs
  <2> QED
    BY <1>8, <2>1, RecType
<1>14. /\ u.k = k /\ u.parent = parent /\ u.children = children
       /\ u.waiters = waiters /\ u.refs = refs /\ u.tree = Roots
  BY DEF Rec
<1> HIDE DEF u
<1>15. TreeOK(u)
  <2>1. Roots = {t \in Threads : k.state[t] \notin {"DEAD", "FREE"}}
    BY <1>1, <1>4, <1>9 DEF Roots
  <2>2. \A t \in Roots : parent[t] = t
    BY <1>1 DEF Roots
  <2>3. \A p \in Threads : children[p] = {t \in Roots \ {p} : parent[t] = p /\ k.state[t] # "EXIT"}
    BY <2>2
  <2>4. k.state[Reaper] # "EXIT"
    BY <1>4, <1>9
  <2> HIDE DEF parent, children
  <2> QED
    BY <1>14, <2>1, <2>2, <2>3, <2>4 DEF TreeOK
<1>16. WaitersOK(u)
  <2>1. \A p \in Threads : IsInjective(waiters[p]) /\ Range(waiters[p]) = {}
    BY DEF Range, IsInjective
  <2> HIDE DEF waiters
  <2> QED
    BY <1>14, <2>1 DEF WaitersOK
<1>17. RefsOK(u, {}, Idle, 0)
  <2>1. ASSUME NEW t \in Roots
        PROVE  refs[t] = Held(u, t) + Cardinality(Deps(u, t)) + Cardinality(PinsOf({}, t)) + 0
    <3>1. Deps(u, t) = {} /\ PinsOf({}, t) = {}
      BY <1>1, <1>14 DEF Deps, PinsOf, Roots
    <3>2. Held(u, t) = 1 /\ refs[t] = 1
      BY <1>1, <1>4, <1>9, <1>14 DEF Held, Roots
    <3> QED
      BY <3>1, <3>2, FS_EmptySet
  <2>2. \A t \in Threads : k.state[t] # "DEAD"
    BY <1>4, <1>9
  <2> HIDE DEF refs
  <2> QED
    BY <1>14, <2>1, <2>2 DEF RefsOK
<1>18. WaitOK(u, pc)
  <2>1. \A t \in Threads : pc[t] # "wait"
    BY <1>2
  <2>2. \A t \in Threads : k.state[t] # "WAIT"
    BY <1>4, <1>9
  <2> QED
    BY <1>1, <1>10, <1>14, <2>1, <2>2 DEF WaitOK
<1>19. Life(u, {}, pc, Idle, 0)
  BY <1>9, <1>12, <1>13, <1>14, <1>15, <1>16, <1>17, <1>18 DEF Life
<1>20. pc \in [Threads -> {"run", "wait"}] /\ Refs(pins, pc) = {}
  BY <1>2 DEF Refs
<1> QED
  BY <1>2, <1>12, <1>14, <1>19, <1>20 DEF IInv

\* The end of the wait: the reference to itself is not the last one, and the child is freed.
LEMMA CollectIs ==
    ASSUME NEW u, NEW P, NEW c, Life(u, P, c, Idle, 0), OnCpu(u.k), u.k.cur = cur,
           c[cur] # "wait", u.waiters[cur] # <<>>, <<cur, cur>> \in P
    PROVE  Life(Collect(u), P \ {<<cur, cur>>}, c, Idle, 0) /\ OnCpu(Collect(u).k)
<1> DEFINE q == cur
           Q == P \ {<<q, q>>}
           v == thr_ref_dec(u, q)
           t == Head(u.waiters[q])
           refs == [u.refs EXCEPT ![q] = @ - 1]
           waiters == [u.waiters EXCEPT ![q] = Tail(@)]
           y == Rec(u.k, u.parent, u.children, waiters, u.refs, u.tree)
           z == Rec(u.k, u.parent, u.children, waiters, refs, u.tree)
           k == [u.k EXCEPT !.state[t] = "FREE"]
<1>1. /\ u \in LifeType /\ P \in SUBSET (Threads \X Threads) /\ P \subseteq Threads \X u.tree
      /\ q \in Threads /\ q \in u.tree /\ u.tree \in SUBSET Threads
  BY LifeTypes DEF Life
<1>2. u.k.state[q] \in {"RUN", "RUNABLE"}
  BY DEF OnCpu
<1> HIDE DEF q
<1>3. u.refs[q] > 1
  <2>1. u.refs[q] = Held(u, q) + Cardinality(Deps(u, q)) + Cardinality(PinsOf(P, q)) + 0
    BY <1>1 DEF Life, RefsOK
  <2>2. /\ Cardinality(Deps(u, q)) \in Nat /\ Cardinality(PinsOf(P, q)) \in Nat
        /\ IsFiniteSet(PinsOf(P, q)) /\ Held(u, q) \in 0 .. 2
    BY <1>1, Counts
  <2>3. Held(u, q) >= 1
    BY <1>2 DEF Held
  <2>4. PinsOf(P, q) # {}
    <3>1. <<q, q>> \in PinsOf(P, q)
      BY DEF PinsOf, q
    <3> QED
      BY <3>1
  <2>5. Cardinality(PinsOf(P, q)) # 0
    BY <2>2, <2>4, FS_EmptySet
  <2> QED
    BY <2>1, <2>2, <2>3, <2>5
<1>4. v = Rec(u.k, u.parent, u.children, u.waiters, refs, u.tree)
  BY <1>1, <1>3, DecFields
<1>5. Life(v, Q, c, Idle, 0)
  BY <1>1, UnpinKeeps DEF q
<1> HIDE DEF v, Q
<1>6. v.k = u.k /\ v.waiters = u.waiters /\ v.refs = refs
  BY <1>4, RecFields
<1> HIDE DEF refs
<1>7. /\ Life(Collected(v, q), Q, c, Idle, 0) /\ OnCpu(Collected(v, q).k)
      /\ u.k.state[t] = "DEAD" /\ refs[t] = 0
  BY <1>5, <1>6, CollectKeeps DEF q
<1>8. /\ u.k \in SchedType /\ u.parent \in [Threads -> Threads]
      /\ u.children \in [Threads -> SUBSET Threads]
      /\ u.waiters \in [Threads -> Seq(Threads)] /\ u.refs \in [Threads -> Nat]
      /\ v \in LifeType
  BY <1>1, <1>5, LifeFields DEF Life
<1>9. waiters \in [Threads -> Seq(Threads)]
  <2>1. u.waiters[q] \in Seq(Threads) /\ u.waiters[q] # <<>>
    BY <1>1, <1>8 DEF q
  <2>2. Tail(u.waiters[q]) \in Seq(Threads)
    BY <2>1
  <2> QED
    BY <1>1, <1>8, <2>2
<1>10. refs \in [Threads -> Nat]
  BY <1>6, <1>8, LifeFields
<1> DEFINE b == u.k.state[t] = "DEAD"
           a == [assert(u, b) EXCEPT !.waiters[q] = Tail(@)]
<1>11. a = y
  <2>1. assert(u, b) = u
    BY <1>1, <1>7, AssertLife
  <2>2. a = [u EXCEPT !.waiters = waiters]
    BY <2>1
  <2> HIDE DEF a, waiters
  <2>3. u = Rec(u.k, u.parent, u.children, u.waiters, u.refs, u.tree)
    BY <1>1, LifeFields
  <2>4. a = [Rec(u.k, u.parent, u.children, u.waiters, u.refs, u.tree) EXCEPT !.waiters = waiters]
    BY <2>2, <2>3, Zenon
  <2> QED
    BY <2>4 DEF Rec
<1>12. Collect(u) = free_thread(thr_ref_dec(a, q), t)
  BY DEF Collect, q
<1> HIDE DEF a, b, t, waiters
<1>13. y \in LifeType /\ y.refs = u.refs
  <2>1. y \in LifeType
    BY <1>1, <1>8, <1>9, RecType
  <2> QED
    BY <2>1 DEF Rec
<1>14. thr_ref_dec(y, q) = z
  <2>1. /\ y.k = u.k /\ y.parent = u.parent /\ y.children = u.children /\ y.waiters = waiters
        /\ y.refs = u.refs /\ y.tree = u.tree
    BY RecFields
  <2> HIDE DEF y
  <2>2. thr_ref_dec(y, q) = Rec(y.k, y.parent, y.children, y.waiters, [y.refs EXCEPT ![q] = @ - 1], y.tree)
    BY <1>1, <1>3, <1>13, DecFields
  <2> QED
    BY <2>1, <2>2 DEF refs
<1>15. z \in LifeType /\ z.refs = refs /\ z.k = u.k
  <2>1. z \in LifeType
    BY <1>1, <1>8, <1>9, <1>10, RecType
  <2> QED
    BY <2>1 DEF Rec
<1> HIDE DEF y
<1>16. Collect(u) = free_thread(z, t)
  BY <1>11, <1>12, <1>14
<1>17. free_thread(z, t) = [z EXCEPT !.k = k]
  <2>1. assert(z, z.refs[t] = 0) = z
    BY <1>7, <1>15, AssertLife
  <2>2. free_thread(z, t) = [assert(z, z.refs[t] = 0) EXCEPT !.k.state[t] = "FREE"]
    BY DEF free_thread
  <2> HIDE DEF z
  <2>3. free_thread(z, t) = [z EXCEPT !.k = [z.k EXCEPT !.state[t] = "FREE"]]
    BY <2>1, <2>2
  <2> QED
    BY <1>15, <2>3
<1>18. [z EXCEPT !.k = k] = Rec(k, u.parent, u.children, waiters, refs, u.tree)
  <2> HIDE DEF k
  <2> QED
    BY DEF Rec
<1>19. Collected(v, q) = Rec(k, u.parent, u.children, waiters, refs, u.tree)
  <2>1. Collected(v, q) = [v EXCEPT !.waiters = waiters, !.k = k]
    <3>1. Collected(v, q) = [v EXCEPT !.waiters[q] = Tail(@), !.k.state[t] = "FREE"]
      BY <1>6 DEF Collected, t
    <3>2. Collected(v, q) = [v EXCEPT !.waiters = [v.waiters EXCEPT ![q] = Tail(@)],
                                      !.k = [v.k EXCEPT !.state[t] = "FREE"]]
      BY <3>1
    <3> QED
      BY <1>6, <3>2 DEF waiters
  <2> HIDE DEF k
  <2>2. Collected(v, q) =
          [Rec(u.k, u.parent, u.children, u.waiters, refs, u.tree) EXCEPT !.waiters = waiters, !.k = k]
    BY <1>4, <2>1, Zenon
  <2> QED
    BY <2>2 DEF Rec
<1> HIDE DEF z, k
<1>20. Collect(u) = Collected(v, q)
  BY <1>16, <1>17, <1>18, <1>19
<1> QED
  BY <1>7, <1>20 DEF Q, q

\* The idle thread may leave the CPU without being queued.
LEMMA IdleKeeps ==
    ASSUME IInv, cur = Idle
    PROVE  LET v == [w EXCEPT !.k = thr_idle_loop(@)]
           IN  Life(v, Refs(pins, pc), pc, Idle, 0) /\ OnCpu(v.k)
<1> DEFINE v == [w EXCEPT !.k = thr_idle_loop(@)]
<1>1. Life(w, Refs(pins, pc), pc, Idle, 0) /\ OnCpu(w.k) /\ w \in LifeType
  BY DEF IInv, Life
<1>2. CASE ti_dispatch_delayed(w.k)
  <2>1. MayLeave(w.k)
    BY <1>1 DEF MayLeave, OnCpu, cur
  <2>2. v = [w EXCEPT !.k = sched_schedule(@)]
    BY <1>2 DEF thr_idle_loop
  <2> HIDE DEF v
  <2> QED
    BY <1>1, <2>1, <2>2, ScheduleKeeps DEF v
<1>3. CASE ~ ti_dispatch_delayed(w.k)
  <2> DEFINE r == Rec(w.k, w.parent, w.children, w.waiters, w.refs, w.tree)
  <2>1. v = [w EXCEPT !.k = w.k]
    BY <1>3 DEF thr_idle_loop
  <2>2. w = r
    BY <1>1, LifeFields
  <2>3. [r EXCEPT !.k = w.k] = r
    BY DEF Rec
  <2> HIDE DEF r, v
  <2>4. v = w
    BY <2>1, <2>2, <2>3, Zenon
  <2> QED
    BY <1>1, <2>4 DEF v
<1> QED
  BY <1>2, <1>3

\* Every step keeps the invariant.
LEMMA NextKeeps == IInv /\ [Next]_vars => IInv'
<1> SUFFICES ASSUME IInv, [Next]_vars PROVE IInv'
  OBVIOUS
<1> DEFINE R == Refs(pins, pc)
<1>1. /\ Life(w, R, pc, Idle, 0) /\ OnCpu(w.k) /\ pc \in [Threads -> {"run", "wait"}]
      /\ cur = w.k.cur /\ cur \in Threads /\ WaitOK(w, pc) /\ w \in LifeType
      /\ cur \in w.tree /\ w.k.state[cur] # "EXIT"
      /\ \A x \in pins : x[1] # x[2]
  <2>1. Life(w, R, pc, Idle, 0) /\ OnCpu(w.k) /\ pc \in [Threads -> {"run", "wait"}]
        /\ \A x \in pins : x[1] # x[2]
    BY DEF IInv
  <2>2. w.k.cur \in Threads
    BY <2>1, LifeTypes, LifeFields, SchedFields
  <2>3. w.k.cur \in w.tree /\ w.k.state[w.k.cur] # "EXIT"
    BY <2>1, <2>2 DEF Life, TreeOK, OnCpu
  <2> QED
    BY <2>1, <2>2, <2>3 DEF cur, Life
<1>a. ASSUME NEW t PROVE <<t, t>> \in R <=> t \in Threads /\ pc[t] = "wait"
  BY <1>1 DEF Refs
<1>b. ASSUME NEW t, NEW y, y # t PROVE <<y, t>> \in R <=> <<y, t>> \in pins
  BY <1>b DEF Refs
<1> HIDE DEF R
<1>2. ASSUME NEW t \in Workers, thr_thread_create(t) PROVE IInv'
  <2>1. /\ w.k.state[t] = "FREE" /\ w' = Created(w, t, w.k.cur) /\ pc' = pc /\ pins' = pins
    BY <1>2 DEF thr_thread_create, Created, Fresh, cur
  <2>2. t \in Threads \ Roots
    BY DEF Workers, Roots
  <2>3. Life(w', R, pc, Idle, 0) /\ OnCpu(w'.k)
    BY <1>1, <2>1, <2>2, CreatedKeeps
  <2> QED
    BY <1>1, <2>1, <2>3 DEF IInv, R
<1>3. ASSUME NEW t \in Workers, Pin(t) PROVE IInv'
  <2>1. /\ t \in w.tree /\ w.k.state[t] # "EXIT" /\ <<cur, t>> \notin pins
        /\ w' = thr_ref_inc(w, t) /\ pins' = pins \cup {<<cur, t>>} /\ pc' = pc
        /\ cur # t
    BY <1>3 DEF Pin
  <2>2. <<cur, t>> \notin R
    BY <1>b, <2>1
  <2>3. Life(w', R \cup {<<cur, t>>}, pc, Idle, 0) /\ w'.k = w.k
    BY <1>1, <2>1, <2>2, PinKeeps
  <2>4. Refs(pins', pc') = R \cup {<<cur, t>>}
    BY <2>1 DEF Refs, R
  <2>5. \A x \in pins' : x[1] # x[2]
    BY <1>1, <2>1
  <2> QED
    BY <1>1, <2>1, <2>3, <2>4, <2>5 DEF IInv
<1>4. ASSUME NEW t \in Workers, Unpin(t) PROVE IInv'
  <2>1. /\ <<cur, t>> \in pins
        /\ w' = thr_ref_dec(w, t) /\ pins' = pins \ {<<cur, t>>} /\ pc' = pc
    BY <1>4 DEF Unpin
  <2>2. cur # t
    BY <1>1, <2>1
  <2>3. <<cur, t>> \in R
    BY <1>b, <2>1, <2>2
  <2>4. Life(w', R \ {<<cur, t>>}, pc, Idle, 0) /\ Kept(w, w')
    BY <1>1, <2>1, <2>3, UnpinKeeps
  <2>5. Refs(pins', pc') = R \ {<<cur, t>>}
    BY <2>1, <2>2 DEF Refs, R
  <2>6. OnCpu(w'.k)
    BY <1>1, <2>4 DEF Kept, OnCpu
  <2> QED
    BY <1>1, <2>1, <2>4, <2>5, <2>6 DEF IInv
<1>5. CASE thr_thread_exit
  <2>1. cur \in Workers /\ pc[cur] = "run" /\ pc' = pc /\ pins' = pins
    BY <1>5, Zenon DEF thr_thread_exit, MayRun
  <2>2. w' = Exited(w, w.k.cur)
    <3>1. PICK u1 \in {thr_ref_inc(assert(w, ~ LinkUsed(w, cur)), cur)} :
            \E u2 \in {handle_orphan_thread(u1, cur)} :
            \E u3 \in {del_child_thread_nolock(u2, cur, w.parent[cur])} :
            \E u4 \in {DropOwn([u3 EXCEPT !.k.state[cur] = "EXIT"], cur)} :
              w' = [u4 EXCEPT !.k = sched_schedule(@)]
      BY <1>5, Zenon DEF thr_thread_exit
    <3>2. PICK u2 \in {handle_orphan_thread(u1, cur)} :
            \E u3 \in {del_child_thread_nolock(u2, cur, w.parent[cur])} :
            \E u4 \in {DropOwn([u3 EXCEPT !.k.state[cur] = "EXIT"], cur)} :
              w' = [u4 EXCEPT !.k = sched_schedule(@)]
      BY <3>1, Zenon
    <3>3. PICK u3 \in {del_child_thread_nolock(u2, cur, w.parent[cur])} :
            \E u4 \in {DropOwn([u3 EXCEPT !.k.state[cur] = "EXIT"], cur)} :
              w' = [u4 EXCEPT !.k = sched_schedule(@)]
      BY <3>2, Zenon
    <3>4. PICK u4 \in {DropOwn([u3 EXCEPT !.k.state[cur] = "EXIT"], cur)} :
            w' = [u4 EXCEPT !.k = sched_schedule(@)]
      BY <3>3, Zenon
    <3>5. /\ u1 = thr_ref_inc(assert(w, ~ LinkUsed(w, cur)), cur)
          /\ u2 = handle_orphan_thread(u1, cur)
          /\ u3 = del_child_thread_nolock(u2, cur, w.parent[cur])
          /\ u4 = DropOwn([u3 EXCEPT !.k.state[cur] = "EXIT"], cur)
          /\ w' = [u4 EXCEPT !.k = sched_schedule(@)]
      BY <3>1, <3>2, <3>3, <3>4, Zenon
    <3> QED
      BY <1>1, <3>5, Zenon DEF Exited
  <2>3. w.k.cur \notin Roots /\ pc[w.k.cur] # "wait"
    BY <1>1, <2>1 DEF Workers, Roots
  <2>4. Life(w', R, pc, Idle, 0) /\ OnCpu(w'.k)
    BY <1>1, <2>2, <2>3, ExitKeeps
  <2> QED
    BY <1>1, <2>1, <2>4 DEF IInv, R
<1>6. CASE thr_thread_wait
  <2> DEFINE u == thr_ref_inc(w, cur)
             Q == R \cup {<<cur, cur>>}
  <2>1. /\ cur # Idle /\ pc[cur] = "run" /\ pins' = pins
        /\ IF u.waiters[cur] = <<>>
           THEN /\ w' = [u EXCEPT !.k =
                           sched_schedule(enque_wque_entry(init_wque_entry(@), cur))]
                /\ pc' = [pc EXCEPT ![cur] = "wait"]
           ELSE /\ w' = Collect(u)
                /\ pc' = pc
    BY <1>6 DEF thr_thread_wait, MayRun
  <2>2. <<cur, cur>> \notin R
    BY <1>a, <2>1
  <2>3. Life(u, Q, pc, Idle, 0) /\ u.k = w.k
    BY <1>1, <2>2, PinKeeps
  <2> HIDE DEF u, Q
  <2>4. CASE u.waiters[cur] = <<>>
    <3>1. /\ w' = [u EXCEPT !.k = sched_schedule(enque_wque_entry(init_wque_entry(@), u.k.cur))]
          /\ pc' = [pc EXCEPT ![u.k.cur] = "wait"]
      BY <1>1, <2>1, <2>3, <2>4
    <3>2. Life(w', Q, pc', Idle, 0) /\ OnCpu(w'.k)
      <4>1. OnCpu(u.k) /\ u.k.cur # Idle
        BY <1>1, <2>1, <2>3
      <4> QED
        BY <1>1, <2>3, <3>1, <4>1, WaitKeeps
    <3>3. pc' \in [Threads -> {"run", "wait"}]
      BY <1>1, <2>3, <3>1
    <3>4. Refs(pins', pc') = Q
      <4>1. {x \in Threads : pc'[x] = "wait"} = {x \in Threads : pc[x] = "wait"} \cup {cur}
        BY <1>1, <2>3, <3>1
      <4> QED
        BY <2>1, <4>1 DEF Refs, R, Q
    <3> QED
      BY <1>1, <2>1, <3>2, <3>3, <3>4 DEF IInv
  <2>5. CASE u.waiters[cur] # <<>>
    <3>1. w' = Collect(u) /\ pc' = pc
      BY <2>1, <2>5
    <3>2. Life(w', Q \ {<<cur, cur>>}, pc, Idle, 0) /\ OnCpu(w'.k)
      <4>1. OnCpu(u.k) /\ u.k.cur = cur /\ pc[cur] # "wait" /\ <<cur, cur>> \in Q
        BY <1>1, <2>1, <2>3 DEF Q
      <4> QED
        BY <2>3, <2>5, <3>1, <4>1, CollectIs
    <3>3. Q \ {<<cur, cur>>} = R
      BY <2>2 DEF Q
    <3>4. Refs(pins', pc') = R
      BY <2>1, <3>1 DEF R
    <3> QED
      BY <1>1, <2>1, <3>1, <3>2, <3>3, <3>4 DEF IInv
  <2> QED
    BY <2>4, <2>5
<1>7. CASE WaitWoken
  <2>1. /\ pc[cur] = "wait" /\ pc' = [pc EXCEPT ![cur] = "run"] /\ pins' = pins
        /\ w' = IF w.waiters[cur] = <<>> THEN assert(w, FALSE)
                ELSE Collect(assert(w, w.k.reason[cur] = "RELEASED"))
    BY <1>7 DEF WaitWoken
  <2>2. w.waiters[cur] # <<>> /\ w.k.reason[cur] = "RELEASED"
    BY <1>1, <2>1 DEF WaitOK, OnCpu
  <2>3. w' = Collect(w)
    <3>1. assert(w, w.k.reason[cur] = "RELEASED") = w
      BY <1>1, <2>2, AssertLife
    <3> QED
      BY <2>1, <2>2, <3>1
  <2>4. pc' \in [Threads -> {"run", "wait"}] /\ pc'[cur] = "run"
        /\ \A t \in Threads \ {cur} : pc'[t] = pc[t]
    BY <1>1, <2>1
  <2>5. WaitOK(w, pc')
    <3>1. w.k.state[cur] # "WAIT"
      BY <1>1 DEF OnCpu
    <3> HIDE DEF cur
    <3>2. ASSUME NEW t \in Threads, pc'[t] = "wait" PROVE pc[t] = "wait"
      BY <2>4, <3>2
    <3>3. ASSUME NEW t \in Threads, w.k.state[t] = "WAIT" PROVE pc'[t] = "wait"
      BY <1>1, <2>4, <3>1, <3>3 DEF WaitOK
    <3> QED
      BY <1>1, <3>2, <3>3 DEF WaitOK
  <2>6. Life(w, R, pc', Idle, 0)
    BY <1>1, <2>5 DEF Life
  <2>7. Life(w', R \ {<<cur, cur>>}, pc', Idle, 0) /\ OnCpu(w'.k)
    <3>1. pc'[cur] # "wait" /\ <<cur, cur>> \in R
      BY <1>1, <1>a, <2>1, <2>4
    <3> DEFINE c == pc'
    <3> HIDE DEF c
    <3>2. Life(Collect(w), R \ {<<cur, cur>>}, c, Idle, 0) /\ OnCpu(Collect(w).k)
      BY <1>1, <2>2, <2>6, <3>1, CollectIs DEF c
    <3> QED
      BY <2>3, <3>2 DEF c
  <2>8. Refs(pins', pc') = R \ {<<cur, cur>>}
    <3>1. {x \in Threads : pc'[x] = "wait"} = {x \in Threads : pc[x] = "wait"} \ {cur}
      BY <1>1, <2>4
    <3>2. <<cur, cur>> \notin pins
      BY <1>1
    <3> QED
      BY <2>1, <3>1, <3>2 DEF Refs, R
  <2> QED
    BY <1>1, <2>1, <2>4, <2>7, <2>8 DEF IInv
<1>8. CASE IdleStep
  <2>1. cur = Idle /\ w' = [w EXCEPT !.k = thr_idle_loop(@)] /\ pc' = pc /\ pins' = pins
    BY <1>8 DEF IdleStep
  <2>2. Life(w', R, pc, Idle, 0) /\ OnCpu(w'.k)
    BY <2>1, IdleKeeps DEF R
  <2> QED
    BY <1>1, <2>1, <2>2 DEF IInv, R
<1>9. CASE UNCHANGED vars
  BY <1>9 DEF vars, IInv, Refs
<1> QED
  BY <1>2, <1>3, <1>4, <1>5, <1>6, <1>7, <1>8, <1>9 DEF Next, WaitStep

(* In every reachable state the threads are as Life says, with no surplus  *)
(* of references: the invariant of thr-thread.c from which the others      *)
(* follow.                                                                 *)
THEOREM LifeInvariance == Spec => []IInv
<1>1. Init => IInv
  BY InitKeeps
<1> QED
  BY <1>1, NextKeeps, PTL DEF Spec

-----------------------------------------------------------------------------
(* The properties.                                                         *)

\* The counter term by term.
LEMMA RefsFollow == IInv => RefsExact
<1> SUFFICES ASSUME IInv, NEW t \in Allocated(w)
             PROVE  w.refs[t] = Cardinality({x \in {t} : w.k.state[t] \notin {"EXIT", "DEAD"}})
                                + Cardinality({p \in Threads : t \in w.children[p]})
                                + Cardinality(Dependants(t))
                                + Cardinality({x \in {t} : pc[t] = "wait"})
                                + Cardinality({x \in pins : x[2] = t})
  BY DEF RefsExact
<1> DEFINE R == Refs(pins, pc)
           self == {x \in {t} : pc[t] = "wait"}
           own == {x \in {t} : w.k.state[t] \notin {"EXIT", "DEAD"}}
           lists == {p \in Threads : t \in w.children[p]}
<1>1. /\ Life(w, R, pc, Idle, 0) /\ w \in LifeType /\ TreeOK(w) /\ RefsOK(w, R, Idle, 0)
      /\ R \subseteq Threads \X w.tree /\ \A x \in pins : x[1] # x[2]
  BY DEF IInv, Life
<1>2. /\ t \in Threads /\ w.k.state[t] # "FREE" /\ R \in SUBSET (Threads \X Threads)
      /\ w.tree \in SUBSET Threads /\ w.parent \in [Threads -> Threads]
  BY <1>1, LifeTypes, LifeFields DEF Allocated
<1>3. Dependants(t) = Deps(w, t) /\ {x \in pins : x[2] = t} = PinsOf(pins, t)
  BY DEF Dependants, Deps, PinsOf
<1>4. /\ Cardinality(Deps(w, t)) \in Nat /\ Cardinality(PinsOf(pins, t)) \in Nat
      /\ Cardinality(self) \in Nat /\ IsFiniteSet(PinsOf(pins, t))
      /\ Cardinality(PinsOf(R, t)) = Cardinality(self) + Cardinality(PinsOf(pins, t))
  <2>1. pins \in SUBSET (Threads \X Threads)
    BY <1>2 DEF Refs
  <2>2. /\ Cardinality(Deps(w, t)) \in Nat /\ Cardinality(PinsOf(pins, t)) \in Nat
        /\ IsFiniteSet(PinsOf(pins, t))
    BY <1>1, <1>2, <2>1, Counts
  <2>3. CASE pc[t] = "wait"
    <3>1. self = {t}
      BY <2>3
    <3>2. PinsOf(R, t) = PinsOf(pins, t) \cup {<<t, t>>}
      BY <1>2, <2>3 DEF PinsOf, Refs
    <3>3. <<t, t>> \notin PinsOf(pins, t)
      BY <1>1 DEF PinsOf
    <3>4. Cardinality(PinsOf(R, t)) = Cardinality(PinsOf(pins, t)) + 1
      BY <2>2, <3>2, <3>3, FS_AddElement
    <3>5. Cardinality(self) = 1
      BY <3>1, FS_Singleton
    <3> QED
      BY <2>2, <3>4, <3>5
  <2>4. CASE pc[t] # "wait"
    <3>1. self = {}
      BY <2>4
    <3>2. PinsOf(R, t) = PinsOf(pins, t)
      BY <2>4 DEF PinsOf, Refs
    <3>3. Cardinality(self) = 0
      BY <3>1, FS_EmptySet
    <3> QED
      BY <2>2, <3>2, <3>3
  <2> QED
    BY <2>3, <2>4
<1> HIDE DEF R, self
<1>5. lists = {p \in {w.parent[t]} : t \in w.tree \ Roots /\ w.k.state[t] # "EXIT"}
  <2>1. \A p \in Threads : t \in w.children[p] <=>
          t \in w.tree /\ t # p /\ w.parent[t] = p /\ w.k.state[t] # "EXIT"
    BY <1>1 DEF TreeOK
  <2>2. t \in w.tree => (w.parent[t] = t <=> t \in Roots)
    BY <1>1 DEF TreeOK
  <2> QED
    BY <1>2, <2>1, <2>2
<1> SUFFICES w.refs[t] = Cardinality(own) + Cardinality(lists) + Cardinality(Deps(w, t))
                         + Cardinality(self) + Cardinality(PinsOf(pins, t))
  BY <1>3 DEF self
<1>6. CASE t \in w.tree
  <2>1. w.k.state[t] # "DEAD"
    BY <1>1, <1>6 DEF TreeOK
  <2>2. t \in Roots => w.k.state[t] # "EXIT"
    <3>1. w.k.state[Reaper] # "EXIT" /\ w.k.state[Idle] \in {"RUN", "RUNABLE"}
      BY <1>1 DEF TreeOK, Life, SchedOK, FlagsOK
    <3> QED
      BY <3>1 DEF Roots
  <2>3. w.refs[t] = Held(w, t) + Cardinality(Deps(w, t)) + Cardinality(PinsOf(R, t)) + 0
    BY <1>1, <1>6 DEF RefsOK
  <2>4. Held(w, t) = Cardinality(own) + Cardinality(lists)
    <3>1. CASE w.k.state[t] = "EXIT"
      <4>1. own = {} /\ lists = {}
        BY <1>5, <3>1
      <4> QED
        BY <3>1, <4>1, FS_EmptySet DEF Held
    <3>2. CASE w.k.state[t] # "EXIT"
      <4>1. own = {t}
        BY <2>1, <3>2
      <4>2. lists = IF t \in Roots THEN {} ELSE {w.parent[t]}
        BY <1>5, <1>6, <3>2
      <4>3. Cardinality(own) = 1
        BY <4>1, FS_Singleton
      <4>4. Cardinality(lists) = IF t \in Roots THEN 0 ELSE 1
        BY <4>2, FS_Singleton, FS_EmptySet
      <4> HIDE DEF own, lists
      <4> QED
        BY <3>2, <4>3, <4>4 DEF Held
    <3> QED
      BY <3>1, <3>2
  <2> HIDE DEF own, lists
  <2>5. Held(w, t) \in 0 .. 2
    BY <1>1, <1>2, Counts
  <2> QED
    BY <1>4, <2>3, <2>4, <2>5
<1>7. CASE t \notin w.tree
  <2>1. w.k.state[t] = "DEAD"
    BY <1>1, <1>2, <1>7 DEF TreeOK
  <2>2. w.refs[t] = 0 /\ own = {} /\ lists = {}
    BY <1>1, <1>2, <1>5, <1>7, <2>1 DEF RefsOK
  <2>3. Deps(w, t) = {} /\ PinsOf(R, t) = {}
    BY <1>1, <1>7 DEF Deps, PinsOf, TreeOK
  <2>4. Cardinality(self) = 0 /\ Cardinality(PinsOf(pins, t)) = 0
    <3>1. Cardinality(PinsOf(R, t)) = 0
      BY <2>3, FS_EmptySet
    <3> QED
      BY <1>4, <3>1
  <2> HIDE DEF own, lists
  <2> QED
    BY <2>2, <2>3, <2>4, FS_EmptySet
<1> QED
  BY <1>6, <1>7

(* The counter of a thread is always the number of references there are:   *)
(* thr_ref_inc and thr_ref_dec are called as often as references come and  *)
(* go, over creation, exit, orphans handed to the reaper and the ancestors *)
(* that end with a child, whatever the tree of threads is.                 *)
THEOREM RefsAlwaysExact == Spec => []RefsExact
BY LifeInvariance, RefsFollow, PTL

\* Threads in the tree, in a list or in a queue are allocated.
LEMMA UseFollows == IInv => NoUseAfterFree
<1> SUFFICES ASSUME IInv PROVE NoUseAfterFree
  OBVIOUS
<1> DEFINE A == Allocated(w)
<1>1. /\ w \in LifeType /\ SchedOK(w.k) /\ ~ w.k.panic /\ OnCpu(w.k)
      /\ pins \subseteq Threads \X w.tree /\ TreeOK(w) /\ WaitersOK(w)
  BY DEF IInv, Life, Refs
<1>2. w.tree \subseteq A /\ w.tree \subseteq Threads /\ cur \in Threads
      /\ w.waiters \in [Threads -> Seq(Threads)] /\ w.children \in [Threads -> SUBSET Threads]
  BY <1>1, LifeFields, SchedFields DEF TreeOK, Allocated, cur
<1>3. QueuedWhereStateSays(w.k)
  <2> SUFFICES ASSUME NEW t \in Threads
               PROVE  /\ t \in Ready(w.k) => w.k.state[t] = "RUNABLE"
                                             /\ Cardinality(Places(w.k, t)) = 1
                                             /\ t \in Range(w.k.que[Prio[t]])
                      /\ t \in Waiting(w.k) => w.k.state[t] = "WAIT"
                      /\ w.k.state[t] = "RUNABLE" /\ t \notin {w.k.cur, Idle} => t \in Ready(w.k)
                      /\ w.k.state[t] = "WAIT" /\ t # w.k.cur => t \in Waiting(w.k)
                      /\ w.k.state[t] = "RUN" => t = w.k.cur
    BY DEF QueuedWhereStateSays
  <2>1. t \in Ready(w.k) => w.k.state[t] = "RUNABLE"
    BY <1>1, QueuedThreads
  <2>2. t \in Ready(w.k) => Cardinality(Places(w.k, t)) = 1 /\ t \in Range(w.k.que[Prio[t]])
    BY <1>1, QueuedOnce
  <2>3. t \in Waiting(w.k) => w.k.state[t] = "WAIT"
    BY <1>1, QueuedThreads
  <2>4. t # w.k.cur => /\ w.k.state[t] = "RUNABLE" /\ t # Idle => t \in Ready(w.k)
                       /\ w.k.state[t] = "WAIT" => t \in Waiting(w.k)
                       /\ w.k.state[t] # "RUN"
    BY <1>1 DEF SchedOK, OthersOK
  <2> QED
    BY <2>1, <2>2, <2>3, <2>4
<1>4. cur \in A /\ Ready(w.k) \cup Waiting(w.k) \subseteq A
  <2>1. cur \in A
    BY <1>1, <1>2 DEF OnCpu, Allocated, cur
  <2>2. Ready(w.k) \cup Waiting(w.k) \subseteq A
    BY <1>1, QueuedThreads DEF Allocated
  <2> QED
    BY <2>1, <2>2
<1>5. ASSUME NEW p \in A PROVE w.children[p] \cup Range(w.waiters[p]) \subseteq A
  <2>1. p \in Threads
    BY DEF Allocated
  <2>2. w.children[p] \subseteq w.tree
    BY <1>1, <2>1 DEF TreeOK
  <2>3. Range(w.waiters[p]) \subseteq A
    <3>1. Range(w.waiters[p]) \subseteq Threads
      BY <1>2, <2>1, RangeOfSeq
    <3>2. \A t \in Range(w.waiters[p]) : w.k.state[t] = "DEAD"
      BY <1>1, <2>1 DEF WaitersOK
    <3> QED
      BY <3>1, <3>2 DEF Allocated
  <2> QED
    BY <1>2, <2>2, <2>3
<1>6. \A c \in w.tree : w.parent[c] \in A
  BY <1>1, <1>2 DEF TreeOK
<1>7. {x[2] : x \in pins} \subseteq A
  BY <1>1, <1>2
<1> QED
  BY <1>1, <1>3, <1>4, <1>5, <1>6, <1>7 DEF NoUseAfterFree

(* Nothing ever refers to a thread structure that free_thread gave back,   *)
(* no kassert of thr-thread.c or of the scheduler fails, and a thread that *)
(* thr_thread_wait wakes finds a child that has ended.                     *)
THEOREM NeverUsedAfterFree == Spec => []NoUseAfterFree
BY LifeInvariance, UseFollows, PTL
=============================================================================
