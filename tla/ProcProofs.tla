------------------------------ MODULE ProcProofs -----------------------------
(***************************************************************************)
(* Proofs about the processes of Proc, for any number of address spaces,   *)
(* threads, numbers and clients: references, numbers and kasserts; and     *)
(* about the address spaces of VmMap that they rest on: tables and pages.  *)
(*                                                                         *)
(* Good is the inductive invariant while the kernel runs.  The references  *)
(* of a process are counted over the clients that work on it, those of a   *)
(* thread over the clients that hold it and the queue it is in; the counts *)
(* need that a thread is in one place of one queue, or belongs to the one  *)
(* call that has created it and not queued it yet.                         *)
(*                                                                         *)
(* VmIInv is the inductive invariant of address spaces.  Each table has a  *)
(* level and a page that is looked up through it; the entries of all       *)
(* tables refer to different frames, a table is counted for its entries,   *)
(* a page once.  Within an operation one cluster is not mapped yet, or one *)
(* page is given back and still mapped.                                    *)
(*                                                                         *)
(* PInv joins the two: it gives every page that is taken to a table or the *)
(* stack of a process that exists, or to a thread (Accounted).             *)
(***************************************************************************)
EXTENDS Proc, FiniteSetTheorems, SequenceTheorems, WellFoundedInduction, TLAPS

-----------------------------------------------------------------------------
(* Least numbers, queues without repetition, and counting.                 *)

(* The CHOOSE of a least number is well defined.                           *)
LEMMA LeastNatural ==
    ASSUME NEW S \in SUBSET Nat, S # {}
    PROVE  \E x \in S : \A y \in S : x <= y
<1>1. IsWellFoundedOn(OpToRel(<, Nat), Nat)
  BY NatLessThanWellFounded
<1>2. PICK x \in S : \A y \in S : <<y, x>> \notin OpToRel(<, Nat)
  BY <1>1, WFMin
<1>3. \A y \in S : ~ (y < x)
  BY <1>2 DEF OpToRel
<1> QED
  BY <1>3

(* Taking out the entry at i.                                              *)
LEMMA RemoveAtFacts ==
    ASSUME NEW S, NEW s \in Seq(S), IsInjective(s), NEW i \in 1..Len(s)
    PROVE  /\ RemoveAt(s, i) \in Seq(S) /\ IsInjective(RemoveAt(s, i))
           /\ Range(RemoveAt(s, i)) = Range(s) \ {s[i]}
           /\ Len(RemoveAt(s, i)) = Len(s) - 1
<1> DEFINE n == Len(s)
           r == RemoveAt(s, i)
<1>1. n \in Nat /\ DOMAIN s = 1..n /\ \A j \in 1..n : s[j] \in S
  BY LenProperties, ElementOfSeq
<1>2. /\ r \in Seq(S) /\ Len(r) = n - 1
      /\ \A j \in 1..(n - 1) : r[j] = IF j < i THEN s[j] ELSE s[j + 1]
  <2> DEFINE a == SubSeq(s, 1, i - 1)
             z == SubSeq(s, i + 1, n)
  <2>1. /\ a \in Seq(S) /\ Len(a) = i - 1
        /\ \A j \in 1..(i - 1) : a[j] = s[j]
    BY <1>1
  <2>2. /\ z \in Seq(S) /\ Len(z) = n - i
        /\ \A j \in 1..(n - i) : z[j] = s[i + j]
    <3>1. i + 1 \in Int /\ n \in Int /\ \A j \in (i + 1)..n : s[j] \in S
      BY <1>1
    <3>2. /\ z \in Seq(S) /\ Len(z) = IF i + 1 <= n THEN n - (i + 1) + 1 ELSE 0
          /\ \A j \in 1..(n - (i + 1) + 1) : z[j] = s[(i + 1) + j - 1]
      BY <3>1, SubSeqProperties
    <3> HIDE DEF z
    <3>3. n \in Nat /\ i \in 1..n
      BY <1>1
    <3> HIDE DEF n
    <3>4. n - (i + 1) + 1 = n - i /\ (~ (i + 1 <= n) => n - i = 0)
      BY <3>3
    <3>5. Len(z) = n - i
      BY <3>2, <3>4
    <3>6. \A j \in 1..(n - i) : (i + 1) + j - 1 = i + j
      BY <3>3
    <3> QED
      BY <3>2, <3>4, <3>5, <3>6
  <2> HIDE DEF a, z
  <2>3. /\ a \o z \in Seq(S) /\ Len(a \o z) = Len(a) + Len(z)
        /\ \A j \in 1..(Len(a) + Len(z)) :
             (a \o z)[j] = IF j <= Len(a) THEN a[j] ELSE z[j - Len(a)]
    BY <2>1, <2>2, ConcatProperties
  <2>4. r = a \o z
    BY DEF RemoveAt, a, z
  <2>5. Len(a) + Len(z) = n - 1
    BY <1>1, <2>1, <2>2
  <2>6. ASSUME NEW j \in 1..(n - 1)
        PROVE  (a \o z)[j] = IF j < i THEN s[j] ELSE s[j + 1]
    <3>1. CASE j < i
      BY <1>1, <2>1, <2>3, <2>5, <3>1
    <3>2. CASE ~ (j < i)
      <4>1. j - (i - 1) \in 1..(n - i) /\ ~ (j <= i - 1) /\ i + (j - (i - 1)) = j + 1
        BY <1>1, <3>2
      <4>2. (a \o z)[j] = z[j - (i - 1)]
        BY <2>1, <2>3, <2>5, <4>1
      <4> QED
        BY <2>2, <3>2, <4>1, <4>2
    <3> QED
      BY <3>1, <3>2
  <2> QED
    BY <2>3, <2>4, <2>5, <2>6
<1>3. DOMAIN r = 1..(n - 1)
  BY <1>2, LenProperties
<1> HIDE DEF n, r
<1>4. \A a, b \in 1..n : s[a] = s[b] => a = b
  BY <1>1 DEF IsInjective
<1>5. IsInjective(r)
  <2> SUFFICES ASSUME NEW a \in 1..(n - 1), NEW b \in 1..(n - 1), r[a] = r[b] PROVE a = b
    BY <1>3 DEF IsInjective
  <2> DEFINE x == IF a < i THEN a ELSE a + 1
             y == IF b < i THEN b ELSE b + 1
  <2>1. x \in 1..n /\ y \in 1..n /\ s[x] = s[y]
    BY <1>1, <1>2
  <2>2. x = y
    BY <1>4, <2>1
  <2> QED
    BY <2>2
<1>6. ASSUME NEW j \in 1..(n - 1) PROVE r[j] \in Range(s) \ {s[i]}
  <2>1. i \in 1..n
    BY DEF n
  <2>2. CASE j < i
    <3>1. j \in 1..n /\ j # i /\ r[j] = s[j]
      BY <1>1, <1>2, <2>1, <2>2
    <3> QED
      BY <1>1, <1>4, <2>1, <3>1 DEF Range
  <2>3. CASE ~ (j < i)
    <3>1. j + 1 \in 1..n /\ j + 1 # i /\ r[j] = s[j + 1]
      BY <1>1, <1>2, <2>1, <2>3
    <3> QED
      BY <1>1, <1>4, <2>1, <3>1 DEF Range
  <2> QED
    BY <2>2, <2>3
<1>7. ASSUME NEW x \in Range(s) \ {s[i]} PROVE x \in Range(r)
  <2>1. PICK j \in 1..n : x = s[j] /\ j # i
    BY <1>1 DEF Range
  <2>2. i \in 1..n
    BY DEF n
  <2>3. CASE j < i
    <3>1. j \in 1..(n - 1) /\ r[j] = x
      BY <1>1, <1>2, <2>1, <2>2, <2>3
    <3> QED
      BY <1>3, <3>1 DEF Range
  <2>4. CASE ~ (j < i)
    <3>1. j - 1 \in 1..(n - 1) /\ r[j - 1] = x
      BY <1>1, <1>2, <2>1, <2>2, <2>4
    <3> QED
      BY <1>3, <3>1 DEF Range
  <2> QED
    BY <2>3, <2>4
<1>8. Range(r) = Range(s) \ {s[i]}
  BY <1>3, <1>6, <1>7 DEF Range
<1> QED
  BY <1>2, <1>5, <1>8 DEF r, n

(* Appending an entry that is not in the queue.                            *)
LEMMA AppendFacts ==
    ASSUME NEW S, NEW s \in Seq(S), IsInjective(s), NEW x \in S \ Range(s)
    PROVE  /\ Append(s, x) \in Seq(S) /\ IsInjective(Append(s, x))
           /\ Range(Append(s, x)) = Range(s) \cup {x}
           /\ Len(Append(s, x)) = Len(s) + 1
<1> DEFINE n == Len(s)
           r == Append(s, x)
<1>1. n \in Nat /\ DOMAIN s = 1..n
  BY LenProperties
<1>2. /\ r \in Seq(S) /\ Len(r) = n + 1 /\ DOMAIN r = 1..(n + 1)
      /\ \A j \in 1..n : r[j] = s[j]
      /\ r[n + 1] = x
  BY <1>1, AppendProperties, LenProperties
<1> HIDE DEF n, r
<1>3. \A a, b \in 1..n : s[a] = s[b] => a = b
  BY <1>1 DEF IsInjective
<1>4. \A j \in 1..n : s[j] # x /\ s[j] \in Range(s)
  BY <1>1 DEF Range
<1>5. \A j \in 1..(n + 1) : j \in 1..n \/ j = n + 1
  BY <1>1
<1>6. IsInjective(r)
  BY <1>2, <1>3, <1>4, <1>5 DEF IsInjective
<1>7. \A j \in 1..n : j \in 1..(n + 1)
  BY <1>1
<1>8. n + 1 \in 1..(n + 1)
  BY <1>1
<1>9. Range(r) = Range(s) \cup {x}
  BY <1>1, <1>2, <1>4, <1>5, <1>7, <1>8 DEF Range
<1> QED
  BY <1>2, <1>6, <1>9 DEF r

(* The least element of a set of numbers is in it.                         *)
LEMMA MinIn ==
    ASSUME NEW S \in SUBSET Nat, S # {}
    PROVE  Min(S) \in S
BY LeastNatural DEF Min

(* How a count changes when one member at most comes or goes.              *)
LEMMA OneChanges ==
    ASSUME NEW U, IsFiniteSet(U), NEW S \in SUBSET U, NEW S2 \in SUBSET U, NEW x \in U,
           \A y \in U \ {x} : y \in S <=> y \in S2
    PROVE  /\ Cardinality(S) \in Nat /\ Cardinality(S2) \in Nat
           /\ Cardinality(S2) = Cardinality(S) - (IF x \in S THEN 1 ELSE 0) + (IF x \in S2 THEN 1 ELSE 0)
<1>1. IsFiniteSet(S) /\ IsFiniteSet(S2)
  BY FS_Subset
<1>2. Cardinality(S) \in Nat /\ Cardinality(S2) \in Nat
  BY <1>1, FS_CardinalityType
<1>3. CASE x \in S <=> x \in S2
  <2>1. S = S2
    BY <1>3
  <2> QED
    BY <1>2, <1>3, <2>1
<1>4. CASE x \in S /\ x \notin S2
  <2>1. S = S2 \cup {x}
    BY <1>4
  <2>2. Cardinality(S) = Cardinality(S2) + 1
    BY <1>1, <1>4, <2>1, FS_AddElement
  <2> QED
    BY <1>2, <1>4, <2>2
<1>5. CASE x \notin S /\ x \in S2
  <2>1. S2 = S \cup {x}
    BY <1>5
  <2>2. Cardinality(S2) = Cardinality(S) + 1
    BY <1>1, <1>5, <2>1, FS_AddElement
  <2> QED
    BY <1>2, <1>5, <2>2
<1> QED
  BY <1>3, <1>4, <1>5

-----------------------------------------------------------------------------
(* The inductive invariant.                                                *)

PCs == {"idle", "pgtbl", "stack", "first", "enter", "hold", "made", "add", "found", "master",
        "unref", "del", "unque", "check", "leave", "free", "done"}
ProcType == [refs : Nat, thrque : Seq(Thrs), master : Thrs \cup {NoThr}, id : Ids \cup {NoId}]
ThrType == [refs : Nat, id : Ids \cup {NoId}, stk : Frames \cup {NoFrame}, p : Procs \cup {NoProc}]
ActType == [pc : PCs, p : Procs \cup {NoProc}, t : Thrs \cup {NoThr}]
TypeOK ==
    /\ proc \in [Procs -> ProcType] /\ thr \in [Thrs -> ThrType] /\ act \in [Actors -> ActType]
    /\ ids \in SUBSET Ids /\ procdb \in SUBSET Spaces

\* What a client points to, as far as it has come.
CreatingPCs == {"pgtbl", "stack", "first", "enter"}
ReferringPCs == {"hold", "made", "add", "found", "master", "unref", "del", "unque", "check", "leave"}
BetweenPCs == {"add", "unque"}
OwnPCs == {"enter", "made", "add"}      \* with a thread that is in no queue yet
RowOK(r) ==
    /\ r.pc \notin {"idle", "done"} <=> r.p # NoProc
    /\ r.pc \in {"enter", "made", "add", "unref", "del", "unque", "check", "leave", "done"} => r.t # NoThr
    /\ r.pc \in {"idle", "pgtbl", "stack", "first", "hold", "found"} => r.t = NoThr
    /\ r.pc \in CreatingPCs => r.p # KernProc
ActOK == \A a \in Actors : RowOK(act[a])

Queued == UNION {Range(proc[p].thrque) : p \in Procs}
QueuesOK ==
    /\ \A p \in Procs : IsInjective(proc[p].thrque)
    /\ \A p, q \in Procs : p # q => Range(proc[p].thrque) \cap Range(proc[q].thrque) = {}
    /\ \A a, b \in Actors : act[a].pc \in OwnPCs /\ act[b].pc \in OwnPCs /\ act[a].t = act[b].t => a = b
    /\ \A a \in Actors : act[a].pc \in OwnPCs => act[a].t \notin Queued
    /\ \A a, b \in Actors : act[a].pc = "del" /\ act[b].pc = "del" /\ act[a].t = act[b].t => a = b
    /\ \A a \in Actors : act[a].pc = "del" => act[a].t \in Range(proc[act[a].p].thrque)

\* A client that has read the master, or ends a thread that is still queued, holds no thread.
HeldBy(r) == IF r.pc \in {"master", "del"} THEN NoThr ELSE r.t
Holding(t) == {a \in Actors : HeldBy(act[a]) = t}
ThreadRefs ==
    \A t \in Thrs : thr[t].refs = Cardinality(Holding(t)) + IF t \in Queued THEN 1 ELSE 0

\* The references that the calls in progress have: two where a thread joins or leaves.
Using(p) == Cardinality(Creating(p)) + Cardinality(Referring(p)) + Cardinality(Between(p))
ProcOK(p) ==
    /\ proc[p].refs = Len(proc[p].thrque) + Using(p) + Own(p)
    /\ p \in procdb <=> proc[p].refs > 0 /\ Cardinality(Creating(p)) = 0 /\ p # KernProc
    /\ Cardinality(Freeing(p)) = IF proc[p].refs = 0 /\ proc[p].id # NoId THEN 1 ELSE 0
    /\ Cardinality(Creating(p)) <= 1
    /\ proc[p].id = NoId => proc[p].refs = 0
    /\ p = KernProc => proc[p].id = PROC_KERN_PID
ProcsOK == \A p \in Procs : ProcOK(p)

NumbersOK ==
    /\ \A x, y \in Numbered : NumberOf(x) = NumberOf(y) => x = y
    /\ ids = Reserved \cup {NumberOf(x) : x \in Numbered}
    /\ \A x \in Numbered : NumberOf(x) \in Reserved => x = KernProc

Good == TypeOK /\ ActOK /\ QueuesOK /\ ThreadRefs /\ ProcsOK /\ NumbersOK
IInv == KassertsHold /\ (halted = "no" => Good)

-----------------------------------------------------------------------------
(* What the counts are before and after the step of a client.              *)

\* The clients of the list pcs that work on q, in the state f of the clients.
Doing(f, q, pcs) == {b \in Actors : f[b].p = q /\ f[b].pc \in pcs}
Ind(b) == IF b THEN 1 ELSE 0
Same(x, y) == IF x = y THEN 1 ELSE 0
SameBut(f, g, a) == \A b \in Actors \ {a} : g[b] = f[b]
Counts(f, g, a, q, pcs) ==
    /\ Cardinality(Doing(f, q, pcs)) \in Nat /\ Cardinality(Doing(g, q, pcs)) \in Nat
    /\ Cardinality(Doing(g, q, pcs)) =
         Cardinality(Doing(f, q, pcs)) - Ind(f[a].p = q /\ f[a].pc \in pcs) + Ind(g[a].p = q /\ g[a].pc \in pcs)

LEMMA DoingIs ==
    ASSUME NEW q
    PROVE  /\ Creating(q) = Doing(act, q, CreatingPCs) /\ Referring(q) = Doing(act, q, ReferringPCs)
           /\ Between(q) = Doing(act, q, BetweenPCs) /\ Freeing(q) = Doing(act, q, {"free"})
BY DEF Creating, Referring, Between, Freeing, Doing, CreatingPCs, ReferringPCs, BetweenPCs

LEMMA DoingMoves ==
    ASSUME NEW f, NEW g, NEW a \in Actors, NEW q, NEW pcs, SameBut(f, g, a)
    PROVE  Counts(f, g, a, q, pcs)
<1> DEFINE S == Doing(f, q, pcs)
           S2 == Doing(g, q, pcs)
<1>1. S \in SUBSET Actors /\ S2 \in SUBSET Actors
  BY DEF Doing
<1>2. \A y \in Actors \ {a} : y \in S <=> y \in S2
  BY DEF Doing, SameBut
<1>3. (a \in S <=> f[a].p = q /\ f[a].pc \in pcs) /\ (a \in S2 <=> g[a].p = q /\ g[a].pc \in pcs)
  BY DEF Doing
<1> HIDE DEF S, S2
<1>4. /\ Cardinality(S) \in Nat /\ Cardinality(S2) \in Nat
      /\ Cardinality(S2) = Cardinality(S) - (IF a \in S THEN 1 ELSE 0) + (IF a \in S2 THEN 1 ELSE 0)
  BY <1>1, <1>2, ProcAssumption, OneChanges
<1> QED
  BY <1>3, <1>4 DEF S, S2, Ind, Counts

\* The references that a row counts for, and whether it creates or frees.
Weight(pc) == IF pc \in BetweenPCs THEN 2 ELSE IF pc \in CreatingPCs \cup ReferringPCs THEN 1 ELSE 0
Births(pc) == IF pc \in CreatingPCs THEN 1 ELSE 0
Frees(pc) == IF pc = "free" THEN 1 ELSE 0
On(q, r, n) == IF r.p = q THEN n ELSE 0
Count(f, q, pcs) == Cardinality(Doing(f, q, pcs))
Hit(x, q, pcs) == IF x.p = q /\ x.pc \in pcs THEN 1 ELSE 0

(* The step of one client shifts the counts of every process from what it  *)
(* did to what it does now.                                                *)
LEMMA Shifted ==
    ASSUME act \in [Actors -> ActType], NEW a \in Actors, NEW r, act' = [act EXCEPT ![a] = r], NEW q
    PROVE  /\ Using(q) \in Nat /\ Using(q)' \in Nat
           /\ Cardinality(Creating(q)) \in Nat /\ Cardinality(Creating(q)') \in Nat
           /\ Cardinality(Freeing(q)) \in Nat /\ Cardinality(Freeing(q)') \in Nat
           /\ Using(q)' = Using(q) - On(q, act[a], Weight(act[a].pc)) + On(q, r, Weight(r.pc))
           /\ Cardinality(Creating(q)') =
                Cardinality(Creating(q)) - On(q, act[a], Births(act[a].pc)) + On(q, r, Births(r.pc))
           /\ Cardinality(Freeing(q)') =
                Cardinality(Freeing(q)) - On(q, act[a], Frees(act[a].pc)) + On(q, r, Frees(r.pc))
<1>1. act'[a] = r /\ SameBut(act, act', a)
  BY DEF SameBut
<1>2. /\ Creating(q)' = Doing(act', q, CreatingPCs) /\ Referring(q)' = Doing(act', q, ReferringPCs)
      /\ Between(q)' = Doing(act', q, BetweenPCs) /\ Freeing(q)' = Doing(act', q, {"free"})
  BY DEF Creating, Referring, Between, Freeing, Doing, CreatingPCs, ReferringPCs, BetweenPCs
<1>3. \A pcs : Counts(act, act', a, q, pcs)
  BY <1>1, DoingMoves
<1> DEFINE Shifts(pcs) == /\ Count(act, q, pcs) \in Nat /\ Count(act', q, pcs) \in Nat
                          /\ Count(act', q, pcs) = Count(act, q, pcs) - Hit(act[a], q, pcs) + Hit(r, q, pcs)
           Parts(x) == /\ On(q, x, Weight(x.pc)) = Hit(x, q, CreatingPCs) + Hit(x, q, ReferringPCs) + Hit(x, q, BetweenPCs)
                       /\ On(q, x, Births(x.pc)) = Hit(x, q, CreatingPCs) /\ On(q, x, Frees(x.pc)) = Hit(x, q, {"free"})
                       /\ Hit(x, q, CreatingPCs) \in Nat /\ Hit(x, q, ReferringPCs) \in Nat /\ Hit(x, q, BetweenPCs) \in Nat
<1>4. ASSUME NEW pcs PROVE Shifts(pcs)
  <2>1. Counts(act, act', a, q, pcs)
    BY <1>3
  <2> QED
    BY <1>1, <2>1 DEF Counts, Ind, Count, Hit
<1>5. ASSUME NEW x PROVE Parts(x)
  <2>1. /\ x.pc \in BetweenPCs => x.pc \in ReferringPCs
        /\ x.pc \in CreatingPCs => x.pc \notin ReferringPCs
    BY DEF CreatingPCs, ReferringPCs, BetweenPCs
  <2>2. /\ Weight(x.pc) = (IF x.pc \in CreatingPCs THEN 1 ELSE 0) + (IF x.pc \in ReferringPCs THEN 1 ELSE 0)
                           + (IF x.pc \in BetweenPCs THEN 1 ELSE 0)
    BY <2>1 DEF Weight
  <2> QED
    BY <2>2 DEF On, Births, Frees, Hit
<1>6. /\ Using(q) = Count(act, q, CreatingPCs) + Count(act, q, ReferringPCs) + Count(act, q, BetweenPCs)
      /\ Using(q)' = Count(act', q, CreatingPCs) + Count(act', q, ReferringPCs) + Count(act', q, BetweenPCs)
      /\ Cardinality(Creating(q)) = Count(act, q, CreatingPCs) /\ Cardinality(Creating(q)') = Count(act', q, CreatingPCs)
      /\ Cardinality(Freeing(q)) = Count(act, q, {"free"}) /\ Cardinality(Freeing(q)') = Count(act', q, {"free"})
  BY <1>2, DoingIs DEF Using, Count
<1>7. /\ Shifts(CreatingPCs) /\ Shifts(ReferringPCs) /\ Shifts(BetweenPCs) /\ Shifts({"free"})
  BY <1>4
<1>8. /\ Parts(act[a]) /\ Parts(r)
  BY <1>5
<1>9. Using(q) \in Nat /\ Using(q)' \in Nat
  BY <1>6, <1>7
<1>10. Using(q)' = Using(q) - On(q, act[a], Weight(act[a].pc)) + On(q, r, Weight(r.pc))
  BY <1>6, <1>7, <1>8
<1> QED
  BY <1>6, <1>7, <1>8, <1>9, <1>10

(* The same for the references of a thread.                                *)
LEMMA HoldingMoves ==
    ASSUME act \in [Actors -> ActType], NEW a \in Actors, NEW r, act' = [act EXCEPT ![a] = r], NEW t
    PROVE  /\ Cardinality(Holding(t)) \in Nat /\ Cardinality(Holding(t)') \in Nat
           /\ Cardinality(Holding(t)') = Cardinality(Holding(t)) - Same(HeldBy(act[a]), t) + Same(HeldBy(r), t)
<1>1. act'[a] = r /\ \A b \in Actors \ {a} : act'[b] = act[b]
  OBVIOUS
<1> DEFINE S == Holding(t)
           S2 == Holding(t)'
<1>2. S \in SUBSET Actors /\ S2 \in SUBSET Actors
  BY DEF Holding
<1>3. \A y \in Actors \ {a} : y \in S <=> y \in S2
  BY <1>1 DEF Holding, HeldBy
<1>4. (a \in S <=> HeldBy(act[a]) = t) /\ (a \in S2 <=> HeldBy(r) = t)
  BY <1>1 DEF Holding, HeldBy
<1> HIDE DEF S, S2
<1>5. /\ Cardinality(S) \in Nat /\ Cardinality(S2) \in Nat
      /\ Cardinality(S2) = Cardinality(S) - (IF a \in S THEN 1 ELSE 0) + (IF a \in S2 THEN 1 ELSE 0)
  BY <1>2, <1>3, ProcAssumption, OneChanges
<1> QED
  BY <1>4, <1>5 DEF S, S2, Same

(* A client that is counted makes the count positive.                      *)
LEMMA Counted ==
    ASSUME Good, NEW a \in Actors, NEW q \in Procs, act[a].p = q
    PROVE  /\ Using(q) \in Nat /\ Using(q) >= Weight(act[a].pc) /\ Weight(act[a].pc) \in Nat
           /\ Cardinality(Creating(q)) \in Nat /\ Cardinality(Creating(q)) >= Births(act[a].pc)
           /\ Cardinality(Freeing(q)) \in Nat /\ Cardinality(Freeing(q)) >= Frees(act[a].pc)
<1> DEFINE g == [act EXCEPT ![a] = [pc |-> "idle", p |-> NoProc, t |-> NoThr]]
<1>1. g[a].p = NoProc /\ SameBut(act, g, a) /\ NoProc # q
  BY ProcAssumption DEF Good, TypeOK, SameBut, Procs
<1> HIDE DEF g
<1>2. \A pcs : Counts(act, g, a, q, pcs)
  BY <1>1, DoingMoves
<1>3. \A pcs : /\ Cardinality(Doing(act, q, pcs)) \in Nat
               /\ Cardinality(Doing(act, q, pcs)) >= IF act[a].pc \in pcs THEN 1 ELSE 0
  BY <1>1, <1>2 DEF Ind, Counts
<1>4. /\ Using(q) = Cardinality(Doing(act, q, CreatingPCs)) + Cardinality(Doing(act, q, ReferringPCs))
                      + Cardinality(Doing(act, q, BetweenPCs))
      /\ Creating(q) = Doing(act, q, CreatingPCs) /\ Freeing(q) = Doing(act, q, {"free"})
  BY DoingIs DEF Using
<1>5. /\ Cardinality(Doing(act, q, CreatingPCs)) + Cardinality(Doing(act, q, ReferringPCs))
           + Cardinality(Doing(act, q, BetweenPCs)) >= Weight(act[a].pc)
      /\ Weight(act[a].pc) \in Nat
  <2>1. /\ act[a].pc \in BetweenPCs => act[a].pc \in ReferringPCs
        /\ Weight(act[a].pc) = IF act[a].pc \in BetweenPCs THEN 2
                               ELSE IF act[a].pc \in CreatingPCs \cup ReferringPCs THEN 1 ELSE 0
    BY DEF Weight, BetweenPCs, ReferringPCs
  <2> QED
    BY <1>3, <2>1
<1>6. Births(act[a].pc) = (IF act[a].pc \in CreatingPCs THEN 1 ELSE 0)
      /\ Frees(act[a].pc) = (IF act[a].pc \in {"free"} THEN 1 ELSE 0)
  BY DEF Births, Frees
<1> QED
  BY <1>3, <1>4, <1>5, <1>6

-----------------------------------------------------------------------------
(* What a step keeps that leaves threads, numbers and queues alone.        *)

\* The same numbers for the same processes and threads.
SameNumbers ==
    /\ \A p \in Procs : proc'[p].id = proc[p].id
    /\ \A t \in Thrs : (thr'[t].refs > 0 <=> thr[t].refs > 0) /\ (thr[t].refs > 0 => thr'[t].id = thr[t].id)
    /\ ids' = ids

LEMMA NumbersKeep ==
    ASSUME NumbersOK, SameNumbers
    PROVE  NumbersOK'
<1>1. Numbered' = Numbered
  BY DEF Numbered, SameNumbers
<1>2. \A x \in Numbered : NumberOf(x)' = NumberOf(x)
  BY ProcAssumption DEF Numbered, NumberOf, SameNumbers, Procs
<1> QED
  BY <1>1, <1>2 DEF NumbersOK, SameNumbers

SameQueues == \A p \in Procs : proc'[p].thrque = proc[p].thrque

\* The new row of a client neither takes up nor ends a thread.
SameThread(old, new) ==
    /\ HeldBy(new) = HeldBy(old)
    /\ new.pc \in OwnPCs => old.pc \in OwnPCs

LEMMA QueuedKeep ==
    ASSUME SameQueues
    PROVE  Queued' = Queued
BY DEF SameQueues, Queued

LEMMA QueuesKeep ==
    ASSUME Good, SameQueues, NEW a \in Actors, NEW r \in ActType, act' = [act EXCEPT ![a] = r],
           r.pc \in OwnPCs => act[a].pc \in OwnPCs /\ r.t = act[a].t,
           r.pc = "del" => /\ r.p \in Procs /\ r.t \in Range(proc[r.p].thrque)
                           /\ \A b \in Actors \ {a} : act[b].pc = "del" => act[b].t # r.t
    PROVE  QueuesOK'
<1>1. act'[a] = r /\ \A b \in Actors \ {a} : act'[b] = act[b]
  BY DEF Good, TypeOK
<1>2. QueuesOK /\ Queued' = Queued
  BY QueuedKeep DEF Good
<1>3. \A b \in Actors : act'[b].pc \in OwnPCs => act[b].pc \in OwnPCs /\ act'[b].t = act[b].t
  BY <1>1
<1>4. \A b \in Actors : act'[b].pc = "del" => act'[b].p \in Procs
  BY <1>1, ProcAssumption DEF Good, TypeOK, ActOK, RowOK, ActType
<1>5. /\ \A p \in Procs : IsInjective(proc'[p].thrque)
      /\ \A p, q \in Procs : p # q => Range(proc'[p].thrque) \cap Range(proc'[q].thrque) = {}
  BY <1>2 DEF QueuesOK, SameQueues
<1>6. /\ \A b, c \in Actors : act'[b].pc \in OwnPCs /\ act'[c].pc \in OwnPCs /\ act'[b].t = act'[c].t => b = c
      /\ \A b \in Actors : act'[b].pc \in OwnPCs => act'[b].t \notin Queued'
  BY <1>2, <1>3 DEF QueuesOK
<1>7. \A b, c \in Actors : act'[b].pc = "del" /\ act'[c].pc = "del" /\ act'[b].t = act'[c].t => b = c
  BY <1>1, <1>2 DEF QueuesOK
<1>8. \A b \in Actors : act'[b].pc = "del" => act'[b].t \in Range(proc'[act'[b].p].thrque)
  BY <1>1, <1>2, <1>4 DEF QueuesOK, SameQueues
<1> QED
  BY <1>5, <1>6, <1>7, <1>8 DEF QueuesOK

LEMMA ThreadRefsKeep ==
    ASSUME Good, SameQueues, NEW a \in Actors, NEW r \in ActType, act' = [act EXCEPT ![a] = r],
           HeldBy(r) = HeldBy(act[a]), UNCHANGED thr
    PROVE  ThreadRefs'
<1>1. Queued' = Queued
  BY QueuedKeep
<1>2. act'[a] = r /\ \A b \in Actors \ {a} : act'[b] = act[b]
  BY DEF Good, TypeOK
<1>3. \A t : Holding(t)' = Holding(t)
  BY <1>2 DEF Holding, HeldBy
<1> QED
  BY <1>1, <1>3 DEF Good, ThreadRefs

(* A client goes on; processes keep their queues and numbers.              *)
LEMMA Framed ==
    ASSUME Good, NEW a \in Actors, NEW r \in ActType, act' = [act EXCEPT ![a] = r],
           RowOK(r), SameThread(act[a], r),
           r.pc = "del" => /\ r.p \in Procs /\ r.t \in Range(proc[r.p].thrque)
                           /\ \A b \in Actors \ {a} : act[b].pc = "del" => act[b].t # r.t,
           proc' \in [Procs -> ProcType], SameQueues, \A p \in Procs : proc'[p].id = proc[p].id,
           procdb' \in SUBSET Spaces, UNCHANGED <<thr, ids>>
    PROVE  TypeOK' /\ ActOK' /\ QueuesOK' /\ ThreadRefs' /\ NumbersOK'
<1>1. TypeOK'
  BY DEF Good, TypeOK
<1>2. ActOK'
  BY DEF Good, TypeOK, ActOK
<1>3. QueuesOK'
  <2>1. r.pc \in OwnPCs => act[a].pc \in OwnPCs /\ r.t = act[a].t
    BY DEF SameThread, HeldBy, OwnPCs
  <2> QED
    BY <2>1, QueuesKeep
<1>4. ThreadRefs'
  BY ThreadRefsKeep DEF SameThread
<1>5. NumbersOK'
  BY NumbersKeep DEF SameNumbers, Good
<1> QED
  BY <1>1, <1>2, <1>3, <1>4, <1>5

\* The row of a client and the process it works on, while the kernel runs.
LEMMA RowFacts ==
    ASSUME Good, NEW a \in Actors
    PROVE  /\ act[a] \in ActType /\ RowOK(act[a])
           /\ act[a].pc \in PCs /\ act[a].p \in Procs \cup {NoProc} /\ act[a].t \in Thrs \cup {NoThr}
           /\ act[a].pc \notin {"idle", "done"} => act[a].p \in Procs
BY DEF Good, TypeOK, ActOK, ActType, RowOK

-----------------------------------------------------------------------------
(* References come and go.                                                 *)

(* What proc_ref_inc leaves of a process that has references.              *)
LEMMA RefIncIs ==
    ASSUME Good, NEW p \in Procs, proc[p].refs > 0, proc_ref_inc(p)
    PROVE  /\ proc' \in [Procs -> ProcType] /\ SameQueues
           /\ \A q \in Procs : /\ proc'[q].id = proc[q].id /\ proc'[q].thrque = proc[q].thrque
                               /\ proc'[q].refs = IF q = p THEN proc[q].refs + 1 ELSE proc[q].refs
<1>1. proc' = [proc EXCEPT ![p] = [proc[p] EXCEPT !.refs = proc[p].refs + 1]]
  <2>1. proc[p].refs # 0
    BY DEF Good, TypeOK, ProcType
  <2> QED
    BY <2>1 DEF proc_ref_inc
<1>2. proc \in [Procs -> ProcType] /\ proc[p] \in ProcType /\ proc[p].refs + 1 \in Nat
  BY DEF Good, TypeOK, ProcType
<1>3. proc'[p] = [proc[p] EXCEPT !.refs = proc[p].refs + 1] /\ \A q \in Procs \ {p} : proc'[q] = proc[q]
  BY <1>1, <1>2
<1>4. proc'[p] \in ProcType
  BY <1>2, <1>3 DEF ProcType
<1>5. proc' \in [Procs -> ProcType]
  BY <1>1, <1>2, <1>3, <1>4
<1>6. \A q \in Procs : /\ proc'[q].id = proc[q].id /\ proc'[q].thrque = proc[q].thrque
                       /\ proc'[q].refs = IF q = p THEN proc[q].refs + 1 ELSE proc[q].refs
  BY <1>2, <1>3 DEF ProcType
<1> QED
  BY <1>5, <1>6 DEF SameQueues

LEMMA RefDecIs ==
    ASSUME Good, NEW p \in Procs, proc[p].refs > 0, proc' = [proc EXCEPT ![p].refs = @ - 1]
    PROVE  /\ proc' \in [Procs -> ProcType] /\ SameQueues
           /\ \A q \in Procs : /\ proc'[q].id = proc[q].id /\ proc'[q].thrque = proc[q].thrque
                               /\ proc'[q].refs = IF q = p THEN proc[q].refs - 1 ELSE proc[q].refs
<1>2. proc \in [Procs -> ProcType] /\ proc[p] \in ProcType /\ proc[p].refs - 1 \in Nat
  BY DEF Good, TypeOK, ProcType
<1>3. proc'[p] = [proc[p] EXCEPT !.refs = proc[p].refs - 1] /\ \A q \in Procs \ {p} : proc'[q] = proc[q]
  BY <1>2
<1>4. proc'[p] \in ProcType
  BY <1>2, <1>3 DEF ProcType
<1>5. proc' \in [Procs -> ProcType]
  BY <1>2, <1>3, <1>4
<1>6. \A q \in Procs : /\ proc'[q].id = proc[q].id /\ proc'[q].thrque = proc[q].thrque
                       /\ proc'[q].refs = IF q = p THEN proc[q].refs - 1 ELSE proc[q].refs
  BY <1>2, <1>3 DEF ProcType
<1> QED
  BY <1>5, <1>6 DEF SameQueues

(* The counts stay right when the client a goes on with the process p, if  *)
(* they do so for p.                                                       *)
LEMMA Recounted ==
    ASSUME Good, NEW a \in Actors, NEW r \in ActType, act' = [act EXCEPT ![a] = r], RowOK(r),
           NEW p \in Procs, act[a].p \in {p, NoProc}, r.p \in {p, NoProc},
           \A q \in Procs \ {p} :
             /\ proc'[q].refs = proc[q].refs /\ proc'[q].id = proc[q].id /\ proc'[q].thrque = proc[q].thrque
             /\ q \in procdb' <=> q \in procdb,
           proc'[p].refs = Len(proc'[p].thrque) + (Using(p) - Weight(act[a].pc) + Weight(r.pc)) + Own(p),
           p \in procdb' <=> /\ proc'[p].refs > 0 /\ p # KernProc
                             /\ Cardinality(Creating(p)) - Births(act[a].pc) + Births(r.pc) = 0,
           Cardinality(Freeing(p)) - Frees(act[a].pc) + Frees(r.pc) =
             IF proc'[p].refs = 0 /\ proc'[p].id # NoId THEN 1 ELSE 0,
           Cardinality(Creating(p)) - Births(act[a].pc) + Births(r.pc) <= 1,
           proc'[p].id = NoId => proc'[p].refs = 0,
           p = KernProc => proc'[p].id = PROC_KERN_PID
    PROVE  ProcsOK'
<1>1. NoProc \notin Procs
  BY ProcAssumption DEF Procs
<1>2. /\ act[a].p = NoProc => Weight(act[a].pc) = 0 /\ Births(act[a].pc) = 0 /\ Frees(act[a].pc) = 0
      /\ r.p = NoProc => Weight(r.pc) = 0 /\ Births(r.pc) = 0 /\ Frees(r.pc) = 0
  BY RowFacts DEF RowOK, Weight, Births, Frees, BetweenPCs, CreatingPCs, ReferringPCs
<1>3. ASSUME NEW q \in Procs PROVE ProcOK(q)'
  <2>1. /\ Using(q)' = Using(q) - On(q, act[a], Weight(act[a].pc)) + On(q, r, Weight(r.pc))
        /\ Cardinality(Creating(q)') =
                Cardinality(Creating(q)) - On(q, act[a], Births(act[a].pc)) + On(q, r, Births(r.pc))
        /\ Cardinality(Freeing(q)') =
                Cardinality(Freeing(q)) - On(q, act[a], Frees(act[a].pc)) + On(q, r, Frees(r.pc))
        /\ Using(q) \in Nat /\ Cardinality(Creating(q)) \in Nat /\ Cardinality(Freeing(q)) \in Nat
    BY Shifted DEF Good, TypeOK
  <2>2. CASE q = p
    <3>1. /\ On(p, act[a], Weight(act[a].pc)) = Weight(act[a].pc) /\ On(p, r, Weight(r.pc)) = Weight(r.pc)
          /\ On(p, act[a], Births(act[a].pc)) = Births(act[a].pc) /\ On(p, r, Births(r.pc)) = Births(r.pc)
          /\ On(p, act[a], Frees(act[a].pc)) = Frees(act[a].pc) /\ On(p, r, Frees(r.pc)) = Frees(r.pc)
      BY <1>1, <1>2 DEF On
    <3>2. /\ Using(p)' = Using(p) - Weight(act[a].pc) + Weight(r.pc)
          /\ Cardinality(Creating(p)') = Cardinality(Creating(p)) - Births(act[a].pc) + Births(r.pc)
          /\ Cardinality(Freeing(p)') = Cardinality(Freeing(p)) - Frees(act[a].pc) + Frees(r.pc)
      BY <2>1, <2>2, <3>1
    <3> QED
      BY <2>2, <3>2 DEF ProcOK, Own
  <2>3. CASE q # p
    <3>1. /\ On(q, act[a], Weight(act[a].pc)) = 0 /\ On(q, r, Weight(r.pc)) = 0
          /\ On(q, act[a], Births(act[a].pc)) = 0 /\ On(q, r, Births(r.pc)) = 0
          /\ On(q, act[a], Frees(act[a].pc)) = 0 /\ On(q, r, Frees(r.pc)) = 0
      BY <1>1, <2>3 DEF On
    <3>2. /\ Using(q)' = Using(q) /\ Cardinality(Creating(q)') = Cardinality(Creating(q))
          /\ Cardinality(Freeing(q)') = Cardinality(Freeing(q))
      BY <2>1, <3>1
    <3>3. ProcOK(q)
      BY DEF Good, ProcsOK
    <3> QED
      BY <2>3, <3>2, <3>3 DEF ProcOK, Own
  <2> QED
    BY <2>2, <2>3
<1> QED
  BY <1>3 DEF ProcsOK

(* A call that refers to a process has one of its references.              *)
LEMMA ReferredTo ==
    ASSUME Good, NEW a \in Actors, act[a].pc \in ReferringPCs
    PROVE  /\ act[a].p \in Procs /\ proc[act[a].p].refs \in Nat /\ Len(proc[act[a].p].thrque) \in Nat
           /\ Own(act[a].p) \in {0, 1}
           /\ proc[act[a].p].refs >= Weight(act[a].pc) + Len(proc[act[a].p].thrque) + Own(act[a].p)
           /\ Weight(act[a].pc) \in {1, 2} /\ (act[a].pc \in BetweenPCs => Weight(act[a].pc) = 2)
           /\ proc[act[a].p].id # NoId /\ Cardinality(Freeing(act[a].p)) = 0
<1> DEFINE p == act[a].p
<1>1. p \in Procs
  BY RowFacts DEF ReferringPCs
<1>2. ProcOK(p) /\ Len(proc[p].thrque) \in Nat /\ proc[p].refs \in Nat
  BY <1>1, LenProperties DEF Good, ProcsOK, TypeOK, ProcType
<1>3. Using(p) \in Nat /\ Using(p) >= Weight(act[a].pc)
  BY <1>1, Counted
<1>4. Own(p) \in {0, 1} /\ Weight(act[a].pc) \in {1, 2} /\ (act[a].pc \in BetweenPCs => Weight(act[a].pc) = 2)
  BY DEF Own, Weight
<1> HIDE DEF p
<1>5. proc[p].refs >= Weight(act[a].pc) + Len(proc[p].thrque) + Own(p)
  BY <1>2, <1>3, <1>4 DEF ProcOK
<1>6. proc[p].refs > 0
  BY <1>2, <1>4, <1>5
<1>7. proc[p].id # NoId /\ Cardinality(Freeing(p)) = 0
  BY <1>2, <1>6 DEF ProcOK
<1> QED
  BY <1>1, <1>2, <1>4, <1>5, <1>7 DEF p

(* A sum whose middle term is shifted.                                     *)
LEMMA Sums ==
    ASSUME NEW n \in Int, NEW u \in Int, NEW o \in Int, NEW w1 \in Int, NEW w2 \in Int,
           NEW x, NEW y, x = n + u + o, y = x - w1 + w2
    PROVE  y = n + (u - w1 + w2) + o
OBVIOUS

(* proc_ref_dec.                                                           *)
LEMMA RefDecKeeps ==
    ASSUME Good, halted = "no", NEW a \in Actors, act[a].pc \in {"hold", "leave"},
           proc_ref_dec(a, act[a].p), UNCHANGED <<thr, ids>>
    PROVE  IInv'
<1> DEFINE p == act[a].p
           r == IF proc[p].refs = 1 THEN [pc |-> "free", p |-> p, t |-> act[a].t]
                ELSE [pc |-> IF act[a].t = NoThr THEN "idle" ELSE "done", p |-> NoProc, t |-> act[a].t]
<1>1. /\ p \in Procs /\ proc[p].refs \in Nat /\ Len(proc[p].thrque) \in Nat /\ Own(p) \in {0, 1}
      /\ proc[p].refs >= 1 + Len(proc[p].thrque) + Own(p)
      /\ proc[p].id # NoId /\ Cardinality(Freeing(p)) = 0
  BY ReferredTo DEF ReferringPCs
<1>2. act' = [act EXCEPT ![a] = r]
  BY DEF proc_ref_dec, Go, Finish, Become
<1>3. /\ proc' \in [Procs -> ProcType] /\ SameQueues
      /\ \A q \in Procs : /\ proc'[q].id = proc[q].id /\ proc'[q].thrque = proc[q].thrque
                          /\ proc'[q].refs = IF q = p THEN proc[q].refs - 1 ELSE proc[q].refs
  <2>1. proc[p].refs > 0
    BY <1>1
  <2>2. proc' = [proc EXCEPT ![p].refs = @ - 1]
    BY Zenon DEF proc_ref_dec
  <2> QED
    BY <1>1, <2>1, <2>2, RefDecIs
<1>4. /\ procdb' = IF proc[p].refs = 1 THEN procdb \ {p} ELSE procdb
      /\ procdb' \in SUBSET Spaces
  BY DEF proc_ref_dec, LeaveTree, Good, TypeOK
<1>5. halted' = "no"
  <2>1. proc[p].refs = 1 => Len(proc[p].thrque) = 0
    BY <1>1
  <2>2. proc[p].thrque \in Seq(Thrs)
    BY <1>1 DEF Good, TypeOK, ProcType
  <2>3. proc[p].refs = 1 => proc[p].thrque = <<>>
    BY <2>1, <2>2, EmptySeq
  <2> QED
    BY <2>3 DEF proc_ref_dec
<1>6. r \in ActType /\ RowOK(r) /\ SameThread(act[a], r) /\ r.pc # "del"
  BY <1>1, RowFacts, ProcAssumption DEF ActType, RowOK, SameThread, HeldBy, PCs, OwnPCs, CreatingPCs, Procs
<1>7. TypeOK' /\ ActOK' /\ QueuesOK' /\ ThreadRefs' /\ NumbersOK'
  BY <1>2, <1>3, <1>4, <1>6, Framed
<1>8. /\ Weight(act[a].pc) = 1 /\ Births(act[a].pc) = 0 /\ Frees(act[a].pc) = 0
      /\ Weight(r.pc) = 0 /\ Births(r.pc) = 0 /\ Frees(r.pc) = IF proc[p].refs = 1 THEN 1 ELSE 0
  BY DEF Weight, Births, Frees, BetweenPCs, CreatingPCs, ReferringPCs
<1>9. ProcOK(p) /\ Using(p) \in Nat /\ Cardinality(Creating(p)) \in Nat
  BY <1>1, Counted DEF Good, ProcsOK
<1>10. r.p \in {p, NoProc}
  OBVIOUS
<1> HIDE DEF p, r
<1>11. ProcsOK'
  <2>8. proc'[p].refs = proc[p].refs - 1 /\ proc'[p].thrque = proc[p].thrque /\ proc'[p].id = proc[p].id
    BY <1>1, <1>3
  <2>1. proc'[p].refs = Len(proc'[p].thrque) + (Using(p) - Weight(act[a].pc) + Weight(r.pc)) + Own(p)
    <3>1. proc[p].refs = Len(proc[p].thrque) + Using(p) + Own(p)
      BY <1>9 DEF ProcOK
    <3>2. Len(proc'[p].thrque) = Len(proc[p].thrque)
      BY <2>8
    <3>3. proc'[p].refs = proc[p].refs - Weight(act[a].pc) + Weight(r.pc)
      BY <1>1, <1>8, <2>8
    <3>4. /\ Len(proc[p].thrque) \in Int /\ Using(p) \in Int /\ Own(p) \in Int
          /\ Weight(act[a].pc) \in Int /\ Weight(r.pc) \in Int
      BY <1>1, <1>8, <1>9
    <3> QED
      BY <3>1, <3>2, <3>3, <3>4, Sums
  <2>2. p \in procdb' <=> /\ proc'[p].refs > 0 /\ p # KernProc
                          /\ Cardinality(Creating(p)) - Births(act[a].pc) + Births(r.pc) = 0
    <3>1. p \in procdb' <=> p \in procdb /\ proc[p].refs # 1
      BY <1>4
    <3> QED
      BY <1>1, <2>8, <1>8, <1>9, <3>1 DEF ProcOK
  <2>3. Cardinality(Freeing(p)) - Frees(act[a].pc) + Frees(r.pc) =
          IF proc'[p].refs = 0 /\ proc'[p].id # NoId THEN 1 ELSE 0
    BY <1>1, <2>8, <1>8
  <2>4. Cardinality(Creating(p)) - Births(act[a].pc) + Births(r.pc) <= 1
    BY <1>8, <1>9 DEF ProcOK
  <2>5. (proc'[p].id = NoId => proc'[p].refs = 0) /\ (p = KernProc => proc'[p].id = PROC_KERN_PID)
    BY <1>1, <1>3, <1>9 DEF ProcOK
  <2>6. \A q \in Procs \ {p} :
          /\ proc'[q].refs = proc[q].refs /\ proc'[q].id = proc[q].id /\ proc'[q].thrque = proc[q].thrque
          /\ q \in procdb' <=> q \in procdb
    BY <1>3, <1>4
  <2>7. act[a].p = p
    BY DEF p
  <2> QED
    BY <1>1, <1>2, <1>6, <1>10, <2>1, <2>2, <2>3, <2>4, <2>5, <2>6, <2>7, Recounted
<1> QED
  BY <1>5, <1>7, <1>11 DEF IInv, Good, KassertsHold

\* A client goes on with a process p, whose references follow its queue and
\* the weight of the call; the call neither begins nor ends a creation, and
\* the process is not freed.
GoingOn(a, r, p) ==
    /\ r \in ActType /\ RowOK(r) /\ act' = [act EXCEPT ![a] = r]
    /\ act[a].p \in {p, NoProc} /\ r.p \in {p, NoProc}
    /\ Births(r.pc) = Births(act[a].pc) /\ act[a].pc # "free" /\ r.pc # "free"
RefsOf(p, w1, w2) ==
    /\ proc' \in [Procs -> ProcType]
    /\ \A q \in Procs : proc'[q].id = proc[q].id
    /\ \A q \in Procs \ {p} : proc'[q].refs = proc[q].refs /\ proc'[q].thrque = proc[q].thrque
    /\ proc'[p].refs = proc[p].refs + (Len(proc'[p].thrque) - Len(proc[p].thrque)) - w1 + w2
    /\ proc[p].refs > 0 /\ proc'[p].refs > 0
    /\ UNCHANGED procdb

(* The counts stay right.                                                  *)
LEMMA RefsShift ==
    ASSUME Good, NEW a \in Actors, NEW r, NEW p \in Procs, GoingOn(a, r, p),
           RefsOf(p, Weight(act[a].pc), Weight(r.pc))
    PROVE  ProcsOK'
<1> DEFINE n == proc[p].refs
           n2 == proc'[p].refs
           l == Len(proc[p].thrque)
           l2 == Len(proc'[p].thrque)
           u == Using(p)
           o == Own(p)
           w == Weight(act[a].pc)
           w2 == Weight(r.pc)
           b == Births(act[a].pc)
           c == Cardinality(Creating(p))
           f == Cardinality(Freeing(p))
<1>1. /\ n > 0 /\ n2 > 0 /\ n2 = n + (l2 - l) - w + w2
      /\ proc'[p].id = proc[p].id /\ (p \in procdb' <=> p \in procdb)
      /\ Births(r.pc) = b
  BY DEF RefsOf, GoingOn
<1>2. ProcOK(p) /\ n \in Nat /\ n2 \in Nat
  BY DEF Good, ProcsOK, TypeOK, ProcType, RefsOf
<1>3. u \in Nat /\ c \in Nat /\ f \in Nat
  BY Shifted DEF Good, TypeOK, GoingOn
<1>4. Frees(act[a].pc) = 0 /\ Frees(r.pc) = 0 /\ b \in Nat /\ w \in Nat /\ w2 \in Nat
  BY DEF Frees, Births, Weight, GoingOn
<1>5. l \in Nat /\ l2 \in Nat /\ o \in Nat
  BY LenProperties DEF Good, TypeOK, ProcType, Own, RefsOf
<1>6. /\ n = l + u + o /\ c <= 1
      /\ p \in procdb <=> n > 0 /\ c = 0 /\ p # KernProc
      /\ f = IF n = 0 /\ proc[p].id # NoId THEN 1 ELSE 0
      /\ (proc[p].id = NoId => n = 0) /\ (p = KernProc => proc[p].id = PROC_KERN_PID)
  BY <1>2 DEF ProcOK
<1> HIDE DEF n, n2, l, l2, u, o, w, w2, b, c, f
<1>7. /\ n2 = l2 + (u - w + w2) + o
      /\ p \in procdb' <=> n2 > 0 /\ p # KernProc /\ c - b + b = 0
      /\ f - 0 + 0 = IF n2 = 0 /\ proc'[p].id # NoId THEN 1 ELSE 0
      /\ c - b + b <= 1
  BY <1>1, <1>2, <1>3, <1>4, <1>5, <1>6
<1>8. /\ proc'[p].refs = Len(proc'[p].thrque) + (Using(p) - Weight(act[a].pc) + Weight(r.pc)) + Own(p)
      /\ p \in procdb' <=> /\ proc'[p].refs > 0 /\ p # KernProc
                           /\ Cardinality(Creating(p)) - Births(act[a].pc) + Births(r.pc) = 0
  BY <1>1, <1>7 DEF n, n2, l, l2, u, o, w, w2, b, c, f
<1>9. /\ Cardinality(Freeing(p)) - Frees(act[a].pc) + Frees(r.pc) =
           IF proc'[p].refs = 0 /\ proc'[p].id # NoId THEN 1 ELSE 0
      /\ Cardinality(Creating(p)) - Births(act[a].pc) + Births(r.pc) <= 1
  BY <1>1, <1>4, <1>7 DEF n2, b, c, f
<1>10. (proc'[p].id = NoId => proc'[p].refs = 0) /\ (p = KernProc => proc'[p].id = PROC_KERN_PID)
  BY <1>1, <1>2, <1>6 DEF n, n2
<1>11. \A q \in Procs \ {p} :
         /\ proc'[q].refs = proc[q].refs /\ proc'[q].id = proc[q].id /\ proc'[q].thrque = proc[q].thrque
         /\ q \in procdb' <=> q \in procdb
  BY DEF RefsOf
<1>12. /\ r \in ActType /\ act' = [act EXCEPT ![a] = r] /\ RowOK(r)
       /\ act[a].p \in {p, NoProc} /\ r.p \in {p, NoProc}
  BY DEF GoingOn
<1> QED
  BY <1>8, <1>9, <1>10, <1>11, <1>12, Recounted

\* The references of p go from the weight w1 to w2.
RefsMove(p, w1, w2) ==
    \A q \in Procs : /\ proc'[q].id = proc[q].id
                     /\ proc'[q].refs = IF q = p THEN proc[q].refs - w1 + w2 ELSE proc[q].refs

(* The same when queues and threads are left alone.                        *)
LEMMA RefsFollow ==
    ASSUME Good, halted = "no", NEW a \in Actors, NEW r \in ActType, act' = [act EXCEPT ![a] = r],
           RowOK(r), SameThread(act[a], r),
           NEW p \in Procs, act[a].p \in {p, NoProc}, r.p \in {p, NoProc},
           Births(r.pc) = Births(act[a].pc), act[a].pc # "free", r.pc # "free",
           r.pc = "del" => /\ r.p \in Procs /\ r.t \in Range(proc[r.p].thrque)
                           /\ \A b \in Actors \ {a} : act[b].pc = "del" => act[b].t # r.t,
           proc' \in [Procs -> ProcType], SameQueues,
           RefsMove(p, Weight(act[a].pc), Weight(r.pc)), proc[p].refs > 0, proc'[p].refs > 0,
           UNCHANGED <<procdb, thr, ids>>, KassertsHold'
    PROVE  IInv'
<1>1. ProcsOK'
  <2>1. /\ proc'[p].refs = proc[p].refs - Weight(act[a].pc) + Weight(r.pc)
        /\ proc'[p].thrque = proc[p].thrque
        /\ \A q \in Procs \ {p} : proc'[q].refs = proc[q].refs /\ proc'[q].thrque = proc[q].thrque
        /\ \A q \in Procs : proc'[q].id = proc[q].id
    BY DEF SameQueues, RefsMove
  <2> DEFINE n == proc[p].refs
             l == Len(proc[p].thrque)
             w == Weight(act[a].pc)
             w2 == Weight(r.pc)
  <2>2. l \in Nat /\ n \in Nat /\ w \in Nat /\ w2 \in Nat
    BY LenProperties DEF Good, TypeOK, ProcType, Weight
  <2>3. proc'[p].refs = n - w + w2 /\ Len(proc'[p].thrque) = l
    BY <2>1
  <2> HIDE DEF n, l, w, w2
  <2>4. proc'[p].refs = n + (Len(proc'[p].thrque) - l) - w + w2
    BY <2>2, <2>3
  <2>5. RefsOf(p, Weight(act[a].pc), Weight(r.pc))
    BY <2>1, <2>4 DEF RefsOf, n, l, w, w2
  <2>6. GoingOn(a, r, p)
    BY DEF GoingOn
  <2> QED
    BY <2>5, <2>6, RefsShift
<1>2. procdb' \in SUBSET Spaces
  BY DEF Good, TypeOK
<1>3. TypeOK' /\ ActOK' /\ QueuesOK' /\ ThreadRefs' /\ NumbersOK'
  BY <1>2, Framed DEF RefsMove
<1> QED
  BY <1>1, <1>3 DEF IInv, Good

\* What the lemmas below say of rows.
RowDefs(old, new) ==
    /\ new \in ActType /\ RowOK(new) /\ SameThread(old, new)
    /\ Births(new.pc) = Births(old.pc) /\ old.pc # "free" /\ new.pc # "free"

(* A reference to the kernel's process, or from one another client has.   *)
LEMMA TakeKeeps ==
    ASSUME Good, halted = "no", NEW a \in Actors, NEW p \in Procs, act[a].pc = "idle", NEW pc \in {"hold", "found"},
           proc[p].refs > 0, proc_ref_inc(p), Become(a, pc, p, NoThr), UNCHANGED <<procdb, thr, ids, halted>>
    PROVE  IInv'
<1> DEFINE r == [pc |-> pc, p |-> p, t |-> NoThr]
<1>1. act' = [act EXCEPT ![a] = r]
  BY DEF Become
<1>2. /\ proc' \in [Procs -> ProcType] /\ SameQueues
      /\ \A q \in Procs : /\ proc'[q].id = proc[q].id /\ proc'[q].thrque = proc[q].thrque
                          /\ proc'[q].refs = IF q = p THEN proc[q].refs + 1 ELSE proc[q].refs
  BY RefIncIs
<1>3. RowDefs(act[a], r) /\ r.p = p /\ r.pc # "del" /\ Weight(act[a].pc) = 0 /\ Weight(r.pc) = 1
      /\ act[a].p = NoProc
  BY RowFacts, ProcAssumption
     DEF RowDefs, ActType, RowOK, SameThread, HeldBy, PCs, OwnPCs, CreatingPCs, ReferringPCs, BetweenPCs, Births,
         Weight, Procs
<1> HIDE DEF r
<1>4. \A q \in Procs : proc[q].refs \in Nat
  BY DEF Good, TypeOK, ProcType
<1>5. RefsMove(p, Weight(act[a].pc), Weight(r.pc))
  BY <1>2, <1>3, <1>4 DEF RefsMove
<1>6. proc'[p].refs > 0
  BY <1>2, <1>4
<1> QED
  BY <1>1, <1>2, <1>3, <1>5, <1>6, RefsFollow DEF RowDefs, KassertsHold

(* What a step does with the row of a client, in short.                    *)
LEMMA BecomeIs ==
    ASSUME NEW a, NEW pc, NEW p, NEW t, Become(a, pc, p, t)
    PROVE  act' = [act EXCEPT ![a] = [pc |-> pc, p |-> p, t |-> t]]
BY DEF Become

LEMMA NumbersOfRefs ==
    ASSUME Good, NEW p \in Procs
    PROVE  /\ proc[p].refs \in Nat /\ proc[p] \in ProcType
           /\ p # NoProc
BY ProcAssumption DEF Good, TypeOK, ProcType, Procs

(* A step that leaves the processes alone.                                 *)
LEMMA GoesOn ==
    ASSUME Good, halted = "no", NEW a \in Actors, NEW r \in ActType, act' = [act EXCEPT ![a] = r],
           RowDefs(act[a], r), NEW p \in Procs, act[a].p = p, r.p = p, r.pc # "del",
           Weight(r.pc) = Weight(act[a].pc), proc[p].refs > 0,
           proc' \in [Procs -> ProcType], SameQueues,
           \A q \in Procs : proc'[q].id = proc[q].id /\ proc'[q].refs = proc[q].refs,
           UNCHANGED <<procdb, thr, ids>>, KassertsHold'
    PROVE  IInv'
<1>1. Weight(act[a].pc) \in Nat /\ \A q \in Procs : proc[q].refs \in Nat
  BY NumbersOfRefs DEF Weight
<1>2. RefsMove(p, Weight(act[a].pc), Weight(r.pc))
  BY <1>1 DEF RefsMove
<1>3. proc'[p].refs > 0
  OBVIOUS
<1> QED
  BY <1>2, <1>3, RefsFollow DEF RowDefs

(* The steps of proc_user_allocate between the structure and the thread.   *)
LEMMA CreationGoesOn ==
    ASSUME Good, halted = "no", NEW a \in Actors, act[a].pc \in {"pgtbl", "stack"}, NEW pc \in {"stack", "first"},
           Go(a, pc), UNCHANGED <<proc, procdb, thr, ids, halted>>
    PROVE  IInv'
<1> DEFINE p == act[a].p
           r == [pc |-> pc, p |-> p, t |-> act[a].t]
<1>1. act' = [act EXCEPT ![a] = r]
  BY DEF Go, Become
<1>2. p \in Procs
  BY RowFacts
<1>3. RowDefs(act[a], r) /\ r.pc # "del" /\ Weight(r.pc) = Weight(act[a].pc) /\ Weight(act[a].pc) = 1 /\ r.p = p
  BY <1>2, RowFacts
     DEF RowDefs, ActType, RowOK, SameThread, HeldBy, PCs, OwnPCs, CreatingPCs, ReferringPCs, BetweenPCs, Births, Weight
<1>4. proc[p].refs > 0
  <2>1. ProcOK(p) /\ Using(p) >= 1 /\ Using(p) \in Nat /\ Len(proc[p].thrque) \in Nat /\ Own(p) \in Nat
    BY <1>2, <1>3, Counted, LenProperties DEF Good, ProcsOK, TypeOK, ProcType, Own
  <2>2. proc[p].refs = Len(proc[p].thrque) + Using(p) + Own(p)
    BY <2>1 DEF ProcOK
  <2> HIDE DEF p
  <2> QED
    BY <2>1, <2>2
<1>5. proc' \in [Procs -> ProcType] /\ SameQueues
      /\ \A q \in Procs : proc'[q].id = proc[q].id /\ proc'[q].refs = proc[q].refs
  BY DEF Good, TypeOK, SameQueues
<1> QED
  BY <1>1, <1>2, <1>3, <1>4, <1>5, GoesOn DEF RowDefs, KassertsHold

(* ReadMaster.                                                             *)
LEMMA ReadMasterKeeps ==
    ASSUME Good, halted = "no", NEW a \in Actors, ReadMaster(a)
    PROVE  IInv'
<1> DEFINE p == act[a].p
           r == [pc |-> "master", p |-> p, t |-> proc[p].master]
<1>1. act' = [act EXCEPT ![a] = r] /\ act[a].pc = "found" /\ UNCHANGED <<proc, procdb, thr, ids, halted>>
  BY DEF ReadMaster, Become, At
<1>2. p \in Procs /\ proc[p].refs > 0
  <2>1. /\ p \in Procs /\ proc[p].refs \in Nat /\ Len(proc[p].thrque) \in Nat /\ Own(p) \in {0, 1}
        /\ proc[p].refs >= Weight(act[a].pc) + Len(proc[p].thrque) + Own(p)
        /\ Weight(act[a].pc) \in {1, 2}
    BY <1>1, ReferredTo DEF ReferringPCs
  <2> HIDE DEF p
  <2> QED
    BY <2>1
<1>3. RowDefs(act[a], r) /\ r.pc # "del" /\ Weight(r.pc) = Weight(act[a].pc) /\ r.p = p
  <2>1. proc[p].master \in Thrs \cup {NoThr}
    BY <1>2, NumbersOfRefs DEF ProcType
  <2>2. act[a].t = NoThr
    BY <1>1, RowFacts DEF RowOK
  <2> QED
    BY <1>1, <1>2, <2>1, <2>2, NumbersOfRefs
     DEF RowDefs, ActType, RowOK, SameThread, HeldBy, PCs, OwnPCs, CreatingPCs, ReferringPCs, BetweenPCs, Births, Weight
<1>4. proc' \in [Procs -> ProcType] /\ SameQueues
      /\ \A q \in Procs : proc'[q].id = proc[q].id /\ proc'[q].refs = proc[q].refs
  BY <1>1 DEF Good, TypeOK, SameQueues
<1> QED
  BY <1>1, <1>2, <1>3, <1>4, GoesOn DEF RowDefs, KassertsHold

(* UpdateMaster.                                                           *)
LEMMA UpdateMasterKeeps ==
    ASSUME Good, halted = "no", NEW a \in Actors, UpdateMaster(a)
    PROVE  IInv'
<1> DEFINE p == act[a].p
           t == act[a].t
           r == [pc |-> "leave", p |-> p, t |-> t]
<1>1. act[a].pc = "check" /\ UNCHANGED <<procdb, thr, ids>>
  BY DEF UpdateMaster, At
<1>2. CASE act' = act
  <2>1. halted' = "thr->p" \/ act' = [act EXCEPT ![a] = r]
    BY DEF UpdateMaster, Go, Become
  <2>2. r # act[a]
    BY <1>1
  <2>3. halted' = "thr->p"
    BY <1>2, <2>1, <2>2 DEF Good, TypeOK
  <2> QED
    BY <2>3 DEF IInv, KassertsHold
<1>3. CASE act' # act
  <2>1. p \in Procs /\ proc[p].refs > 0
    <3>1. /\ p \in Procs /\ proc[p].refs \in Nat /\ Len(proc[p].thrque) \in Nat /\ Own(p) \in {0, 1}
          /\ proc[p].refs >= Weight(act[a].pc) + Len(proc[p].thrque) + Own(p)
          /\ Weight(act[a].pc) \in {1, 2}
      BY <1>1, ReferredTo DEF ReferringPCs
    <3> HIDE DEF p
    <3> QED
      BY <3>1
  <2>2. act' = [act EXCEPT ![a] = r] /\ halted' = "no"
    BY <1>3 DEF UpdateMaster, Go, Become
  <2>3. PICK q \in Procs : proc' = proc \/ proc' = [proc EXCEPT ![p].master = queue_top(q)]
    <3>1. CASE proc[p].thrque = <<>>
      BY <2>1, <3>1 DEF UpdateMaster
    <3>2. CASE proc[p].thrque # <<>>
      <4>1. t \in Thrs
        BY <1>1, RowFacts DEF RowOK
      <4>2. thr[t].p \in Procs \cup {NoProc}
        BY <4>1 DEF Good, TypeOK, ThrType
      <4> DEFINE Owners == IF thr[t].p = NoProc THEN Procs \cup {NoProc} ELSE {thr[t].p}
      <4>3. Owners \subseteq Procs \cup {NoProc}
        BY <4>2
      <4>4. \E q \in Owners :
              IF q = NoProc THEN act' = act
              ELSE proc' = IF proc[q].master = t THEN [proc EXCEPT ![p].master = queue_top(q)] ELSE proc
        BY <3>2 DEF UpdateMaster
      <4> HIDE DEF Owners, p, t
      <4> QED
        BY <1>3, <4>3, <4>4
    <3> QED
      BY <3>1, <3>2
  <2>4. queue_top(q) \in Thrs \cup {NoThr}
    <3>1. proc[q].thrque \in Seq(Thrs)
      BY NumbersOfRefs DEF ProcType
    <3> QED
      BY <3>1, HeadTailProperties DEF queue_top
  <2>5. proc' \in [Procs -> ProcType] /\ SameQueues
        /\ \A o \in Procs : proc'[o].id = proc[o].id /\ proc'[o].refs = proc[o].refs
    <3>1. proc \in [Procs -> ProcType]
      BY DEF Good, TypeOK
    <3>2. CASE proc' = proc
      BY <3>1, <3>2 DEF SameQueues
    <3>3. CASE proc' = [proc EXCEPT ![p].master = queue_top(q)]
      <4>1. proc'[p] = [proc[p] EXCEPT !.master = queue_top(q)] /\ \A o \in Procs \ {p} : proc'[o] = proc[o]
        BY <2>1, <3>1, <3>3
      <4>2. proc[p] \in ProcType
        BY <2>1, <3>1
      <4>3. proc'[p] \in ProcType /\ proc'[p].id = proc[p].id /\ proc'[p].refs = proc[p].refs
            /\ proc'[p].thrque = proc[p].thrque
        BY <2>4, <4>1, <4>2 DEF ProcType
      <4>4. proc' \in [Procs -> ProcType]
        BY <2>1, <3>1, <3>3, <4>1, <4>3
      <4> QED
        BY <4>1, <4>3, <4>4 DEF SameQueues
    <3> QED
      BY <2>3, <3>2, <3>3
  <2>6. RowDefs(act[a], r) /\ r.pc # "del" /\ Weight(r.pc) = Weight(act[a].pc) /\ r.p = p
    BY <1>1, <2>1, RowFacts, NumbersOfRefs
     DEF RowDefs, ActType, RowOK, SameThread, HeldBy, PCs, OwnPCs, CreatingPCs, ReferringPCs, BetweenPCs, Births, Weight
  <2> QED
    BY <1>1, <2>1, <2>2, <2>5, <2>6, GoesOn DEF RowDefs, KassertsHold
<1> QED
  BY <1>2, <1>3

(* References that are there whoever holds them.                           *)
LEMMA Referred ==
    ASSUME Good, NEW p \in Procs, p = KernProc \/ p \in procdb \/ Range(proc[p].thrque) # {}
    PROVE  proc[p].refs > 0
<1> DEFINE l == Len(proc[p].thrque)
           u == Using(p)
<1>1. ProcOK(p) /\ proc[p].refs \in Nat /\ l \in Nat /\ proc[p].thrque \in Seq(Thrs)
  BY LenProperties DEF Good, ProcsOK, TypeOK, ProcType
<1>2. u \in Nat
  <2>1. /\ Creating(p) \in SUBSET Actors /\ Referring(p) \in SUBSET Actors /\ Between(p) \in SUBSET Actors
    BY DEF Creating, Referring, Between
  <2>2. /\ Cardinality(Creating(p)) \in Nat /\ Cardinality(Referring(p)) \in Nat /\ Cardinality(Between(p)) \in Nat
    BY <2>1, ProcAssumption, FS_Subset, FS_CardinalityType
  <2> QED
    BY <2>2 DEF Using
<1>3. Range(proc[p].thrque) # {} => l # 0
  <2>1. DOMAIN proc[p].thrque = 1..l
    BY <1>1, LenProperties
  <2> HIDE DEF l
  <2> QED
    BY <1>1, <2>1 DEF Range
<1>4. proc[p].refs = l + u + Own(p) /\ (p \in procdb => proc[p].refs > 0)
  BY <1>1 DEF ProcOK
<1>5. Own(p) \in {0, 1} /\ (p = KernProc => Own(p) = 1)
  BY DEF Own
<1> HIDE DEF l, u
<1> QED
  BY <1>1, <1>2, <1>3, <1>4, <1>5

(* The lookups, by number and from a reference of another client.          *)
LEMMA LookupKeeps ==
    ASSUME Good, halted = "no", NEW a \in Actors,
           \/ TakeKernel(a)
           \/ \E b \in Actors : Take(a, b)
           \/ \E i \in Ids : proc_find_by_pid(a, i) \/ proc_find_thread(a, i)
    PROVE  IInv'
<1>1. act[a].pc = "idle" /\ UNCHANGED <<procdb, thr, ids, halted>>
  BY DEF TakeKernel, proc_kproc_refer, Take, proc_find_by_pid, proc_find_thread, Find, At
<1>2. ASSUME TakeKernel(a) PROVE IInv'
  <2>1. KernProc \in Procs
    BY DEF Procs
  <2>2. proc[KernProc].refs > 0
    BY <2>1, Referred
  <2> QED
    BY <1>1, <1>2, <2>1, <2>2, TakeKeeps DEF TakeKernel, proc_kproc_refer
<1>3. ASSUME NEW b \in Actors, Take(a, b) PROVE IInv'
  <2>1. act[b].pc = "hold"
    BY <1>3 DEF Take, At
  <2> DEFINE p == act[b].p
  <2>2. p \in Procs /\ proc[p].refs > 0
    <3>1. /\ p \in Procs /\ proc[p].refs \in Nat /\ Len(proc[p].thrque) \in Nat /\ Own(p) \in {0, 1}
          /\ proc[p].refs >= Weight(act[b].pc) + Len(proc[p].thrque) + Own(p)
          /\ Weight(act[b].pc) \in {1, 2}
      BY <2>1, ReferredTo DEF ReferringPCs
    <3> HIDE DEF p
    <3> QED
      BY <3>1
  <2>3. proc_ref_inc(p) /\ Become(a, "hold", p, NoThr)
    BY <1>3 DEF Take
  <2> HIDE DEF p
  <2> QED
    BY <1>1, <2>2, <2>3, TakeKeeps
<1>4. ASSUME NEW i \in Ids, NEW pc \in {"hold", "found"}, Find(a, i, pc) PROVE IInv'
  <2>1. PICK p \in procdb : proc_ref_inc(p) /\ Become(a, pc, p, NoThr)
    BY <1>4 DEF Find
  <2>2. p \in Procs /\ proc[p].refs > 0
    <3>1. p \in Procs
      BY DEF Good, TypeOK, Procs
    <3> QED
      BY <3>1, Referred
  <2> QED
    BY <1>1, <2>1, <2>2, TakeKeeps
<1> QED
  BY <1>2, <1>3, <1>4 DEF proc_find_by_pid, proc_find_thread

OneLess(old, new) == Weight(old) \in Nat /\ Weight(new) = Weight(old) - 1

(* UnrefProc and DropThreadRef: a reference is dropped that is not the     *)
(* last one, or the kernel stops.                                          *)
LEMMA DropKeeps ==
    ASSUME Good, halted = "no", NEW a \in Actors, NEW r \in ActType, act' = [act EXCEPT ![a] = r],
           act[a].pc \in ReferringPCs, RowDefs(act[a], r), r.pc # "del",
           NEW p \in Procs, act[a].p = p, r.p \in {p, NoProc},
           OneLess(act[a].pc, r.pc),
           proc' = [proc EXCEPT ![p].refs = @ - 1], procdb' = LeaveTree(p), UNCHANGED <<thr, ids>>,
           proc[p].refs # 1, halted' = halted
    PROVE  IInv'
<1>1. proc[p].refs > 0 /\ proc[p].refs > 1 /\ proc[p].refs \in Nat
  <2> DEFINE l == Len(proc[p].thrque)
             w == Weight(act[a].pc)
  <2>1. /\ proc[p].refs \in Nat /\ l \in Nat /\ Own(p) \in {0, 1} /\ w \in {1, 2}
        /\ proc[p].refs >= w + l + Own(p)
    BY ReferredTo
  <2> HIDE DEF l, w
  <2> QED
    BY <2>1
<1>2. /\ proc' \in [Procs -> ProcType] /\ SameQueues
      /\ \A q \in Procs : /\ proc'[q].id = proc[q].id /\ proc'[q].thrque = proc[q].thrque
                          /\ proc'[q].refs = IF q = p THEN proc[q].refs - 1 ELSE proc[q].refs
  BY <1>1, RefDecIs
<1>3. UNCHANGED procdb
  BY DEF LeaveTree
<1>4. proc[p].refs - 1 = proc[p].refs - Weight(act[a].pc) + Weight(r.pc)
  <2> DEFINE w == Weight(act[a].pc)
             w2 == Weight(r.pc)
             n == proc[p].refs
  <2>1. w \in Nat /\ w2 = w - 1 /\ n \in Nat
    BY <1>1 DEF OneLess
  <2> HIDE DEF w, w2, n
  <2>2. n - 1 = n - w + w2
    BY <2>1
  <2> QED
    BY <2>2 DEF w, w2, n
<1>5. proc'[p].refs > 0
  BY <1>1, <1>2
<1>6. RefsMove(p, Weight(act[a].pc), Weight(r.pc))
  BY <1>2, <1>4 DEF RefsMove
<1>7. /\ RowOK(r) /\ SameThread(act[a], r) /\ Births(r.pc) = Births(act[a].pc)
      /\ act[a].pc # "free" /\ r.pc # "free" /\ act[a].p \in {p, NoProc}
      /\ KassertsHold' /\ UNCHANGED <<procdb, thr, ids>>
  BY <1>3 DEF RowDefs, KassertsHold
<1> QED
  BY <1>1, <1>2, <1>5, <1>6, <1>7, RefsFollow

LEMMA UnrefProcKeeps ==
    ASSUME Good, halted = "no", NEW a \in Actors, UnrefProc(a)
    PROVE  IInv'
<1> DEFINE p == act[a].p
           r == [pc |-> "done", p |-> NoProc, t |-> act[a].t]
<1>1. /\ act[a].pc = "unref" /\ proc' = [proc EXCEPT ![p].refs = @ - 1] /\ procdb' = LeaveTree(p)
      /\ halted' = (IF proc[p].refs = 1 THEN "process gone" ELSE halted) /\ UNCHANGED <<thr, ids>>
  BY Zenon DEF UnrefProc, At
<1>2. act' = [act EXCEPT ![a] = r]
  BY <1>1, RowFacts DEF UnrefProc, Finish, Become, RowOK
<1>3. CASE proc[p].refs = 1
  BY <1>1, <1>3 DEF IInv, KassertsHold
<1>4. CASE proc[p].refs # 1
  <2>1. p \in Procs
    BY <1>1, RowFacts
  <2>2. RowDefs(act[a], r) /\ r.pc # "del" /\ r.p = NoProc /\ Weight(act[a].pc) = 1 /\ Weight(r.pc) = 0
    BY <1>1, RowFacts
       DEF RowDefs, ActType, RowOK, SameThread, HeldBy, PCs, OwnPCs, CreatingPCs, ReferringPCs, BetweenPCs, Births, Weight
  <2>3. act[a].pc \in ReferringPCs /\ halted' = halted
    BY <1>1, <1>4 DEF ReferringPCs
  <2>4. r \in ActType
    BY <2>2 DEF RowDefs
  <2>5. act[a].p = p
    OBVIOUS
  <2> HIDE DEF p, r
  <2>6. OneLess(act[a].pc, r.pc)
    BY <2>2 DEF OneLess
  <2> QED
    BY <1>1, <1>2, <1>4, <2>1, <2>2, <2>3, <2>4, <2>5, <2>6, DropKeeps
<1> QED
  BY <1>3, <1>4

LEMMA DropThreadRefKeeps ==
    ASSUME Good, halted = "no", NEW a \in Actors, DropThreadRef(a)
    PROVE  IInv'
<1> DEFINE p == act[a].p
           r == [pc |-> "check", p |-> p, t |-> act[a].t]
<1>1. /\ act[a].pc = "unque" /\ proc' = [proc EXCEPT ![p].refs = @ - 1] /\ procdb' = LeaveTree(p)
      /\ halted' = (IF proc[p].refs = 1 THEN "last reference" ELSE halted) /\ UNCHANGED <<thr, ids>>
  BY Zenon DEF DropThreadRef, At
<1>2. act' = [act EXCEPT ![a] = r]
  BY DEF DropThreadRef, Go, Become
<1>3. p \in Procs /\ proc[p].refs # 1 /\ act[a].pc \in ReferringPCs
  <2> DEFINE l == Len(proc[p].thrque)
             w == Weight(act[a].pc)
  <2>1. /\ p \in Procs /\ proc[p].refs \in Nat /\ l \in Nat /\ Own(p) \in {0, 1} /\ w = 2
        /\ proc[p].refs >= w + l + Own(p)
    BY <1>1, ReferredTo DEF ReferringPCs, BetweenPCs
  <2>2. act[a].pc \in ReferringPCs
    BY <1>1 DEF ReferringPCs
  <2> HIDE DEF l, w, p
  <2> QED
    BY <2>1, <2>2
<1>4. RowDefs(act[a], r) /\ r.pc # "del" /\ r.p = p /\ Weight(act[a].pc) = 2 /\ Weight(r.pc) = 1
  BY <1>1, <1>3, RowFacts, NumbersOfRefs
     DEF RowDefs, ActType, RowOK, SameThread, HeldBy, PCs, OwnPCs, CreatingPCs, ReferringPCs, BetweenPCs, Births, Weight
<1>5. r \in ActType /\ halted' = halted
  BY <1>1, <1>3, <1>4 DEF RowDefs
<1>6. act[a].p = p
  OBVIOUS
<1> HIDE DEF p, r
<1>7. OneLess(act[a].pc, r.pc)
  BY <1>4 DEF OneLess
<1> QED
  BY <1>1, <1>2, <1>3, <1>4, <1>5, <1>6, <1>7, DropKeeps

-----------------------------------------------------------------------------
(* Threads join, end and leave.                                            *)

LEMMA AddThreadKeeps ==
    ASSUME Good, halted = "no", NEW a \in Actors, proc_add_thread(a)
    PROVE  IInv'
<1> DEFINE p == act[a].p
           r == [pc |-> "add", p |-> p, t |-> act[a].t]
<1>1. act[a].pc = "made" /\ proc_ref_inc(p) /\ UNCHANGED <<procdb, thr, ids, halted>>
  BY DEF proc_add_thread, At
<1>2. p \in Procs /\ proc[p].refs > 0 /\ proc[p].refs \in Nat /\ proc[p].refs # 0
  <2> DEFINE l == Len(proc[p].thrque)
             w == Weight(act[a].pc)
  <2>1. /\ p \in Procs /\ proc[p].refs \in Nat /\ l \in Nat /\ Own(p) \in {0, 1} /\ w \in {1, 2}
        /\ proc[p].refs >= w + l + Own(p)
    BY <1>1, ReferredTo DEF ReferringPCs
  <2> HIDE DEF l, w, p
  <2> QED
    BY <2>1
<1>3. act' = [act EXCEPT ![a] = r]
  BY <1>2 DEF proc_add_thread, Go, Become
<1>4. RowDefs(act[a], r) /\ r.pc # "del" /\ r.p = p /\ Weight(act[a].pc) = 1 /\ Weight(r.pc) = 2
  BY <1>1, <1>2, RowFacts, NumbersOfRefs
     DEF RowDefs, ActType, RowOK, SameThread, HeldBy, PCs, OwnPCs, CreatingPCs, ReferringPCs, BetweenPCs, Births, Weight
<1>5. /\ proc' \in [Procs -> ProcType] /\ SameQueues
      /\ \A q \in Procs : /\ proc'[q].id = proc[q].id /\ proc'[q].thrque = proc[q].thrque
                          /\ proc'[q].refs = IF q = p THEN proc[q].refs + 1 ELSE proc[q].refs
  BY <1>1, <1>2, RefIncIs
<1>6. act[a].p = p /\ \A q \in Procs : proc[q].refs \in Nat
  BY NumbersOfRefs
<1> HIDE DEF p, r
<1>7. RefsMove(p, Weight(act[a].pc), Weight(r.pc))
  BY <1>4, <1>5, <1>6 DEF RefsMove
<1>8. proc'[p].refs > 0
  BY <1>2, <1>5
<1>9. /\ r \in ActType /\ RowOK(r) /\ SameThread(act[a], r) /\ Births(r.pc) = Births(act[a].pc)
      /\ act[a].pc # "free" /\ r.pc # "free" /\ KassertsHold'
  BY <1>1, <1>4 DEF RowDefs, KassertsHold
<1> QED
  BY <1>1, <1>2, <1>3, <1>4, <1>5, <1>6, <1>7, <1>8, <1>9, RefsFollow

LEMMA DelThreadKeeps ==
    ASSUME Good, halted = "no", NEW a \in Actors, NEW p \in Procs, NEW t \in Thrs, proc_del_thread(a, p, t)
    PROVE  IInv'
<1> DEFINE r == [pc |-> "del", p |-> p, t |-> t]
<1>1. /\ act[a].pc = "idle" /\ t \in Range(proc[p].thrque) /\ ~ Ending(t) /\ proc_ref_inc(p)
      /\ act' = [act EXCEPT ![a] = r] /\ UNCHANGED <<procdb, thr, ids>>
      /\ halted' = IF proc[p].refs = 0 THEN "no process" ELSE halted
  BY Zenon DEF proc_del_thread, At, Become
<1>2. proc[p].refs > 0 /\ proc[p].refs \in Nat
  BY <1>1, Referred, NumbersOfRefs
<1>3. RowDefs(act[a], r) /\ act[a].p = NoProc /\ Weight(act[a].pc) = 0 /\ Weight(r.pc) = 1
  BY <1>1, RowFacts, NumbersOfRefs, ProcAssumption
     DEF RowDefs, ActType, RowOK, SameThread, HeldBy, PCs, OwnPCs, CreatingPCs, ReferringPCs, BetweenPCs, Births, Weight
<1>4. /\ r.p \in Procs /\ r.t \in Range(proc[r.p].thrque)
      /\ \A b \in Actors \ {a} : act[b].pc = "del" => act[b].t # r.t
  BY <1>1 DEF Ending
<1>5. /\ proc' \in [Procs -> ProcType] /\ SameQueues
      /\ \A q \in Procs : /\ proc'[q].id = proc[q].id /\ proc'[q].thrque = proc[q].thrque
                          /\ proc'[q].refs = IF q = p THEN proc[q].refs + 1 ELSE proc[q].refs
  BY <1>1, <1>2, RefIncIs
<1>6. r.p = p /\ \A q \in Procs : proc[q].refs \in Nat
  BY NumbersOfRefs
<1> HIDE DEF r
<1>7. RefsMove(p, Weight(act[a].pc), Weight(r.pc))
  BY <1>3, <1>5, <1>6 DEF RefsMove
<1>8. proc'[p].refs > 0
  BY <1>2, <1>5
<1>9. /\ r \in ActType /\ RowOK(r) /\ SameThread(act[a], r) /\ Births(r.pc) = Births(act[a].pc)
      /\ act[a].pc # "free" /\ r.pc # "free" /\ act[a].p \in {p, NoProc} /\ r.p \in {p, NoProc}
  BY <1>3, <1>6 DEF RowDefs
<1>10. proc[p].refs # 0
  BY <1>2
<1>11. KassertsHold'
  BY <1>1, <1>10 DEF KassertsHold
<1> QED
  BY <1>1, <1>2, <1>4, <1>5, <1>7, <1>8, <1>9, <1>11, RefsFollow

\* One client held old and holds new; only the thread t is taken up or laid down.
ThreadMoves(t, old, new) ==
    /\ \A u \in Thrs \ {t} : thr'[u].refs = thr[u].refs /\ (u \in Queued' <=> u \in Queued)
    /\ thr'[t].refs = thr[t].refs - Same(old, t) + Same(new, t) - Ind(t \in Queued) + Ind(t \in Queued')

(* The references of threads stay right when one client takes up, or lays  *)
(* down, the thread t.                                                     *)
LEMMA ThreadRefsMove ==
    ASSUME Good, NEW a \in Actors, NEW r, act' = [act EXCEPT ![a] = r], NEW t \in Thrs,
           HeldBy(act[a]) \in {t, NoThr}, HeldBy(r) \in {t, NoThr},
           ThreadMoves(t, HeldBy(act[a]), HeldBy(r))
    PROVE  ThreadRefs'
<1>0. act \in [Actors -> ActType]
  BY DEF Good, TypeOK
<1>1. ASSUME NEW u \in Thrs
      PROVE  thr'[u].refs = Cardinality(Holding(u)') + IF u \in Queued' THEN 1 ELSE 0
  <2>1. /\ Cardinality(Holding(u)) \in Nat /\ Cardinality(Holding(u)') \in Nat
        /\ Cardinality(Holding(u)') = Cardinality(Holding(u)) - Same(HeldBy(act[a]), u) + Same(HeldBy(r), u)
    BY <1>0, HoldingMoves
  <2>2. thr[u].refs = Cardinality(Holding(u)) + IF u \in Queued THEN 1 ELSE 0
    BY DEF Good, ThreadRefs
  <2> DEFINE h == Cardinality(Holding(u))
             h2 == Cardinality(Holding(u)')
             n == thr[u].refs
             n2 == thr'[u].refs
  <2>3. CASE u = t
    <3> DEFINE i == Same(HeldBy(act[a]), t)
               i2 == Same(HeldBy(r), t)
               k == Ind(t \in Queued)
               k2 == Ind(t \in Queued')
    <3>1. h \in Nat /\ h2 = h - i + i2 /\ n = h + k /\ n2 = n - i + i2 - k + k2
      <4>1. h \in Nat /\ h2 = h - i + i2
        BY <2>1, <2>3
      <4>2. n = h + k
        BY <2>2, <2>3 DEF Ind
      <4>3. n2 = n - i + i2 - k + k2
        BY <2>3 DEF ThreadMoves
      <4> QED
        BY <4>1, <4>2, <4>3
    <3>2. i \in {0, 1} /\ i2 \in {0, 1} /\ k \in {0, 1} /\ k2 \in {0, 1}
      BY DEF Ind, Same
    <3> HIDE DEF h, h2, n, n2, i, i2, k, k2
    <3>3. n2 = h2 + k2
      BY <3>1, <3>2
    <3> QED
      BY <2>3, <3>3 DEF n2, h2, k2, Ind
  <2>4. CASE u # t
    <3>1. HeldBy(act[a]) # u /\ HeldBy(r) # u
      BY <2>4, ProcAssumption
    <3>2. h2 = h /\ n2 = n
      BY <2>1, <2>4, <3>1 DEF Same, ThreadMoves
    <3>3. u \in Queued' <=> u \in Queued
      BY <2>4 DEF ThreadMoves
    <3> QED
      BY <2>2, <3>2, <3>3
  <2> QED
    BY <2>3, <2>4
<1> QED
  BY <1>1 DEF ThreadRefs

(* A number is given back, or given out.                                   *)
LEMMA NumbersDrop ==
    ASSUME NumbersOK, NEW x \in Numbered, x # KernProc, Numbered' = Numbered \ {x},
           \A y \in Numbered \ {x} : NumberOf(y)' = NumberOf(y), ids' = ids \ {NumberOf(x)}
    PROVE  NumbersOK'
<1>1. \A y, z \in Numbered : NumberOf(y) = NumberOf(z) => y = z
  BY DEF NumbersOK
<1>2. NumberOf(x) \notin Reserved
  BY DEF NumbersOK
<1>3. ids' = Reserved \cup {NumberOf(y) : y \in Numbered \ {x}}
  BY <1>1, <1>2 DEF NumbersOK
<1>4. {NumberOf(y) : y \in Numbered \ {x}} = {NumberOf(y)' : y \in Numbered'}
  OBVIOUS
<1> QED
  BY <1>1, <1>3, <1>4 DEF NumbersOK

LEMMA NumbersAdd ==
    ASSUME NumbersOK, NEW x, x \notin Numbered, Numbered' = Numbered \cup {x},
           \A y \in Numbered : NumberOf(y)' = NumberOf(y),
           NumberOf(x)' \notin ids, ids' = ids \cup {NumberOf(x)'}
    PROVE  NumbersOK'
<1>1. \A y \in Numbered : NumberOf(y) \in ids
  BY DEF NumbersOK
<1>2. \A y, z \in Numbered' : NumberOf(y)' = NumberOf(z)' => y = z
  BY <1>1 DEF NumbersOK
<1>3. ids' = Reserved \cup {NumberOf(y)' : y \in Numbered'}
  BY DEF NumbersOK
<1>4. \A y \in Numbered' : NumberOf(y)' \in Reserved => y = KernProc
  BY DEF NumbersOK
<1> QED
  BY <1>2, <1>3, <1>4 DEF NumbersOK

(* What a thread is that a client holds.                                   *)
LEMMA HeldThread ==
    ASSUME Good, NEW a \in Actors, HeldBy(act[a]) \in Thrs
    PROVE  thr[HeldBy(act[a])].refs > 0
<1> DEFINE t == HeldBy(act[a])
<1>1. a \in Holding(t) /\ Holding(t) \in SUBSET Actors
  BY DEF Holding
<1>2. IsFiniteSet(Holding(t)) /\ Cardinality(Holding(t)) \in Nat /\ Cardinality(Holding(t)) # 0
  BY <1>1, ProcAssumption, FS_Subset, FS_CardinalityType, FS_EmptySet
<1>3. thr[t].refs = Cardinality(Holding(t)) + IF t \in Queued THEN 1 ELSE 0
  BY DEF Good, ThreadRefs
<1> HIDE DEF t
<1>4. thr[t].refs > 0
  BY <1>2, <1>3
<1> QED
  BY <1>4 DEF t

(* A call of the same weight leaves the counts of processes as they are.   *)
LEMMA ProcsStay ==
    ASSUME Good, NEW a \in Actors, NEW r, NEW p \in Procs, GoingOn(a, r, p),
           Weight(r.pc) = Weight(act[a].pc), proc[p].refs > 0, UNCHANGED <<proc, procdb>>
    PROVE  ProcsOK'
<1> DEFINE n == proc[p].refs
           l == Len(proc[p].thrque)
           w == Weight(act[a].pc)
<1>1. n \in Nat /\ l \in Nat /\ w \in Nat /\ proc \in [Procs -> ProcType]
  BY LenProperties DEF Good, TypeOK, ProcType, Weight
<1> HIDE DEF n, l, w
<1>2. n = n + (l - l) - w + w
  BY <1>1
<1>3. RefsOf(p, w, w)
  BY <1>1, <1>2 DEF RefsOf, n, l
<1> QED
  BY <1>3, RefsShift DEF w

\* The row of a client that holds a thread, and the new one.
RefMasterRow(old) == [pc |-> "unref", p |-> old.p, t |-> old.t]

LEMMA RefMasterKeeps ==
    ASSUME Good, halted = "no", NEW a \in Actors, RefMaster(a)
    PROVE  IInv'
<1> DEFINE p == act[a].p
           t == act[a].t
           r == RefMasterRow(act[a])
<1>1. act[a].pc = "master" /\ act' = [act EXCEPT ![a] = r] /\ UNCHANGED <<proc, procdb, ids>>
  BY DEF RefMaster, At, Go, Become, RefMasterRow
<1>2. CASE t = NoThr \/ thr[t].refs = 0
  BY <1>2 DEF RefMaster, IInv, KassertsHold
<1>3. CASE ~ (t = NoThr \/ thr[t].refs = 0)
  <2>1. t \in Thrs /\ p \in Procs /\ thr[t] \in ThrType /\ thr[t].refs \in Nat
    BY <1>1, <1>3, RowFacts DEF Good, TypeOK, ThrType
  <2>2. thr' = [thr EXCEPT ![t] = [thr[t] EXCEPT !.refs = thr[t].refs + 1]] /\ halted' = "no"
    <3>1. /\ halted' = IF t = NoThr \/ thr[t].refs = 0 THEN "master gone" ELSE halted
          /\ thr' = IF t = NoThr \/ thr[t].refs = 0 THEN thr ELSE [thr EXCEPT ![t].refs = @ + 1]
      BY Zenon DEF RefMaster
    <3> QED
      BY <1>3, <3>1
  <2>3. thr'[t] = [thr[t] EXCEPT !.refs = thr[t].refs + 1] /\ \A u \in Thrs \ {t} : thr'[u] = thr[u]
    BY <2>1, <2>2 DEF Good, TypeOK
  <2>4. /\ thr'[t] \in ThrType /\ thr'[t].refs = thr[t].refs + 1 /\ thr'[t].id = thr[t].id
        /\ thr' \in [Thrs -> ThrType]
    <3>1. thr'[t] \in ThrType /\ thr'[t].refs = thr[t].refs + 1 /\ thr'[t].id = thr[t].id
      BY <2>1, <2>3 DEF ThrType
    <3> QED
      BY <2>1, <2>2, <2>3, <3>1 DEF Good, TypeOK
  <2>5. /\ r \in ActType /\ RowOK(r) /\ r.pc = "unref" /\ r.p = p /\ r.t = t
        /\ HeldBy(act[a]) = NoThr /\ HeldBy(r) = t
    BY <1>1, <2>1, RowFacts, ProcAssumption, NumbersOfRefs
       DEF RefMasterRow, ActType, RowOK, HeldBy, PCs, CreatingPCs
  <2> HIDE DEF p, t, r
  <2>6. SameQueues /\ Queued' = Queued
    BY <1>1 DEF SameQueues, Queued
  <2>7. TypeOK'
    BY <1>1, <2>4, <2>5 DEF Good, TypeOK
  <2>8. ActOK'
    BY <1>1, <2>5 DEF Good, TypeOK, ActOK
  <2>9. QueuesOK'
    <3>1. r.pc \notin OwnPCs /\ r.pc # "del"
      BY <2>5 DEF OwnPCs
    <3> QED
      BY <1>1, <2>5, <2>6, <3>1, QueuesKeep
  <2>10. ThreadRefs'
    <3>1. t # NoThr
      BY <2>1, ProcAssumption
    <3>2. ThreadMoves(t, NoThr, t)
      <4>1. thr'[t].refs = thr[t].refs - Same(NoThr, t) + Same(t, t) - Ind(t \in Queued) + Ind(t \in Queued')
        BY <2>1, <2>4, <2>6, <3>1 DEF Same, Ind
      <4> QED
        BY <2>3, <2>6, <4>1 DEF ThreadMoves
    <3> QED
      BY <1>1, <2>1, <2>5, <3>2, ThreadRefsMove
  <2>11. ProcsOK'
    <3>1. act[a].p = p
      BY DEF p
    <3>2. GoingOn(a, r, p) /\ Weight(r.pc) = Weight(act[a].pc)
      BY <1>1, <2>5, <3>1 DEF GoingOn, Births, CreatingPCs, Weight, BetweenPCs, ReferringPCs
    <3>3. proc[p].refs > 0
      <4> DEFINE l == Len(proc[p].thrque)
                 w == Weight(act[a].pc)
      <4>1. /\ proc[p].refs \in Nat /\ l \in Nat /\ Own(p) \in {0, 1} /\ w \in {1, 2}
            /\ proc[p].refs >= w + l + Own(p)
        BY <1>1, <3>1, ReferredTo DEF ReferringPCs
      <4> HIDE DEF l, w
      <4> QED
        BY <4>1
    <3> QED
      BY <1>1, <2>1, <3>2, <3>3, ProcsStay
  <2>12. NumbersOK'
    <3>1. /\ thr'[t].refs > 0 <=> thr[t].refs > 0
          /\ thr'[t].id = thr[t].id
      <4>1. thr[t].refs # 0
        BY <1>3 DEF t
      <4> QED
        BY <2>1, <2>4, <4>1
    <3>2. SameNumbers
      BY <1>1, <2>3, <3>1 DEF SameNumbers
    <3> QED
      BY <3>2, NumbersKeep DEF Good
  <2> QED
    BY <2>2, <2>7, <2>8, <2>9, <2>10, <2>11, <2>12 DEF IInv, Good, KassertsHold
<1> QED
  BY <1>2, <1>3

(* The last reference of a thread takes its number with it.                *)
LEMMA NumbersOfThread ==
    ASSUME Good, NEW t \in Thrs, thr[t].refs > 0, UNCHANGED proc,
           \A u \in Thrs \ {t} : thr'[u] = thr[u],
           \/ thr'[t].refs > 0 /\ thr'[t].id = thr[t].id /\ ids' = ids
           \/ thr'[t].refs = 0 /\ ids' = ids \ {thr[t].id}
    PROVE  NumbersOK'
<1>1. CASE thr'[t].refs > 0 /\ thr'[t].id = thr[t].id /\ ids' = ids
  <2>1. SameNumbers
    BY <1>1 DEF SameNumbers
  <2> QED
    BY <2>1, NumbersKeep DEF Good
<1>2. CASE thr'[t].refs = 0 /\ ids' = ids \ {thr[t].id}
  <2>1. t \notin Procs
    BY ProcAssumption DEF Procs
  <2>2. t \in Numbered /\ NumberOf(t) = thr[t].id /\ t # KernProc
    BY <2>1 DEF Numbered, NumberOf, Procs
  <2>3. Numbered' = Numbered \ {t}
    <3>1. ~ (thr'[t].refs > 0)
      BY <1>2
    <3> QED
      BY <2>1, <3>1 DEF Numbered
  <2>4. \A y \in Numbered \ {t} : NumberOf(y)' = NumberOf(y)
    BY DEF Numbered, NumberOf
  <2> QED
    BY <1>2, <2>2, <2>3, <2>4, NumbersDrop DEF Good
<1> QED
  BY <1>1, <1>2

LEMMA ThrRefDecKeeps ==
    ASSUME Good, halted = "no", NEW a \in Actors, thr_ref_dec(a)
    PROVE  IInv'
<1> DEFINE t == act[a].t
           new == IF thr[t].refs = 1 THEN [FreeThr EXCEPT !.stk = thr[t].stk]
                  ELSE [thr[t] EXCEPT !.refs = @ - 1]
<1>1. /\ act[a].pc = "done" /\ act' = [act EXCEPT ![a] = Idle] /\ UNCHANGED <<proc, procdb, halted>>
      /\ thr' = [thr EXCEPT ![t] = new]
      /\ ids' = IF thr[t].refs = 1 THEN ids \ {thr[t].id} ELSE ids
  BY Zenon DEF thr_ref_dec, At, Become, Idle
<1>2. t \in Thrs /\ HeldBy(act[a]) = t /\ act[a].p = NoProc
  BY <1>1, RowFacts DEF RowOK, HeldBy
<1>3. thr[t] \in ThrType /\ thr[t].refs \in Nat /\ thr[t].refs > 0
  BY <1>2, HeldThread DEF Good, TypeOK, ThrType
<1>4. /\ new \in ThrType /\ new.refs = thr[t].refs - 1
      /\ thr[t].refs # 1 => new.id = thr[t].id
  BY <1>3 DEF ThrType, FreeThr
<1> HIDE DEF new
<1>5. thr'[t] = new /\ (\A u \in Thrs \ {t} : thr'[u] = thr[u]) /\ thr' \in [Thrs -> ThrType]
  BY <1>1, <1>2, <1>4 DEF Good, TypeOK
<1>6. Idle \in ActType /\ RowOK(Idle) /\ HeldBy(Idle) = NoThr /\ Idle.pc = "idle" /\ Idle.p = NoProc
  BY DEF Idle, ActType, RowOK, HeldBy, PCs, CreatingPCs
<1> HIDE DEF t
<1>7. SameQueues /\ Queued' = Queued
  BY <1>1 DEF SameQueues, Queued
<1>8. TypeOK'
  BY <1>1, <1>5, <1>6 DEF Good, TypeOK
<1>9. ActOK'
  BY <1>1, <1>6 DEF Good, TypeOK, ActOK
<1>10. QueuesOK'
  <2>1. Idle.pc \notin OwnPCs /\ Idle.pc # "del"
    BY <1>6 DEF OwnPCs
  <2> QED
    BY <1>1, <1>6, <1>7, <2>1, QueuesKeep
<1>11. ThreadRefs'
  <2>1. t # NoThr
    BY <1>2, ProcAssumption
  <2>2. thr'[t].refs = thr[t].refs - Same(t, t) + Same(NoThr, t) - Ind(t \in Queued) + Ind(t \in Queued')
    BY <1>3, <1>4, <1>5, <1>7, <2>1 DEF Same, Ind
  <2>3. ThreadMoves(t, t, NoThr)
    BY <1>5, <1>7, <2>2 DEF ThreadMoves
  <2> QED
    BY <1>1, <1>2, <1>6, <2>3, ThreadRefsMove
<1>12. ProcsOK'
  <2>1. KernProc \in Procs
    BY DEF Procs
  <2>2. proc[KernProc].refs > 0
    BY <2>1, Referred
  <2>3. GoingOn(a, Idle, KernProc) /\ Weight(Idle.pc) = Weight(act[a].pc)
    BY <1>1, <1>2, <1>6 DEF GoingOn, Births, CreatingPCs, Weight, BetweenPCs, ReferringPCs
  <2> QED
    BY <1>1, <2>1, <2>2, <2>3, ProcsStay
<1>13. NumbersOK'
  <2>1. \/ thr'[t].refs > 0 /\ thr'[t].id = thr[t].id /\ ids' = ids
        \/ thr'[t].refs = 0 /\ ids' = ids \ {thr[t].id}
    BY <1>1, <1>3, <1>4, <1>5
  <2> QED
    BY <1>1, <1>2, <1>3, <1>5, <2>1, NumbersOfThread
<1> QED
  BY <1>1, <1>8, <1>9, <1>10, <1>11, <1>12, <1>13 DEF IInv, Good, KassertsHold

LEMMA ReapKeeps ==
    ASSUME Good, NEW t \in Thrs, Reap(t)
    PROVE  IInv'
<1>1. /\ halted = "no" /\ thr[t].refs = 0 /\ thr' = [thr EXCEPT ![t] = FreeThr]
      /\ UNCHANGED <<proc, ids, procdb, act, halted>>
  BY DEF Reap
<1>2. FreeThr \in ThrType /\ FreeThr.refs = 0
  BY DEF FreeThr, ThrType
<1>3. thr'[t] = FreeThr /\ (\A u \in Thrs \ {t} : thr'[u] = thr[u]) /\ thr' \in [Thrs -> ThrType]
  BY <1>1, <1>2 DEF Good, TypeOK
<1>4. \A u \in Thrs : thr'[u].refs = thr[u].refs
  BY <1>1, <1>2, <1>3
<1>5. TypeOK' /\ ActOK'
  BY <1>1, <1>3 DEF Good, TypeOK, ActOK
<1>6. Queued' = Queued /\ \A u : Holding(u)' = Holding(u)
  BY <1>1 DEF Queued, Holding, HeldBy
<1>7. QueuesOK' /\ ThreadRefs'
  BY <1>1, <1>4, <1>6 DEF Good, QueuesOK, ThreadRefs
<1>8. ProcsOK'
  <2>1. ASSUME NEW p \in Procs PROVE ProcOK(p)'
    <3>1. ProcOK(p)
      BY DEF Good, ProcsOK
    <3>2. /\ Creating(p)' = Creating(p) /\ Referring(p)' = Referring(p) /\ Between(p)' = Between(p)
          /\ Freeing(p)' = Freeing(p)
      BY <1>1 DEF Creating, Referring, Between, Freeing
    <3>3. Using(p)' = Using(p)
      BY <3>2 DEF Using
    <3> QED
      BY <1>1, <3>1, <3>2, <3>3 DEF ProcOK, Own
  <2> QED
    BY <2>1 DEF ProcsOK
<1>9. NumbersOK'
  <2>1. SameNumbers
    BY <1>1, <1>2, <1>3 DEF SameNumbers
  <2> QED
    BY <2>1, NumbersKeep DEF Good
<1> QED
  BY <1>1, <1>5, <1>7, <1>8, <1>9 DEF IInv, Good, KassertsHold

-----------------------------------------------------------------------------
(* Queues.                                                                 *)

Appends(p, t) ==
    /\ \A q \in Procs \ {p} : proc'[q].thrque = proc[q].thrque
    /\ proc'[p].thrque = Append(proc[p].thrque, t)

(* A thread enters the queue of p.                                         *)
LEMMA Joined ==
    ASSUME Good, NEW a \in Actors, NEW r \in ActType, act' = [act EXCEPT ![a] = r],
           NEW p \in Procs, NEW t \in Thrs, act[a].pc \in OwnPCs, act[a].t = t,
           r.pc \notin OwnPCs, r.pc # "del",
           Appends(p, t)
    PROVE  /\ QueuesOK' /\ t \notin Queued /\ Queued' = Queued \cup {t}
           /\ proc'[p].thrque \in Seq(Thrs) /\ Len(proc'[p].thrque) = Len(proc[p].thrque) + 1
<1>0. QueuesOK
  BY DEF Good
<1>1. /\ \A q \in Procs : IsInjective(proc[q].thrque)
      /\ \A q, s \in Procs : q # s => Range(proc[q].thrque) \cap Range(proc[s].thrque) = {}
  BY <1>0 DEF QueuesOK
<1>11. /\ \A b, c \in Actors : act[b].pc \in OwnPCs /\ act[c].pc \in OwnPCs /\ act[b].t = act[c].t => b = c
       /\ \A b \in Actors : act[b].pc \in OwnPCs => act[b].t \notin Queued
  BY <1>0 DEF QueuesOK
<1>12. \A b, c \in Actors : act[b].pc = "del" /\ act[c].pc = "del" /\ act[b].t = act[c].t => b = c
  BY <1>0 DEF QueuesOK
<1>13. \A b \in Actors : act[b].pc = "del" => act[b].t \in Range(proc[act[b].p].thrque)
  BY <1>0 DEF QueuesOK
<1>2. act'[a] = r /\ \A b \in Actors \ {a} : act'[b] = act[b]
  BY DEF Good, TypeOK
<1>3. t \notin Queued /\ \A q \in Procs : t \notin Range(proc[q].thrque)
  BY <1>11 DEF Queued
<1>4. /\ proc'[p].thrque \in Seq(Thrs) /\ IsInjective(proc'[p].thrque)
      /\ Range(proc'[p].thrque) = Range(proc[p].thrque) \cup {t}
      /\ Len(proc'[p].thrque) = Len(proc[p].thrque) + 1
  <2>1. proc[p].thrque \in Seq(Thrs) /\ IsInjective(proc[p].thrque) /\ t \in Thrs \ Range(proc[p].thrque)
    BY <1>1, <1>3, NumbersOfRefs DEF ProcType
  <2> QED
    BY <2>1, AppendFacts DEF Appends
<1>5. \A q \in Procs : Range(proc'[q].thrque) = IF q = p THEN Range(proc[q].thrque) \cup {t} ELSE Range(proc[q].thrque)
  BY <1>4 DEF Appends
<1>6. Queued' = Queued \cup {t}
  <2>1. \A x : x \in Queued' <=> \E q \in Procs : x \in Range(proc'[q].thrque)
    BY DEF Queued
  <2>2. \A x : x \in Queued <=> \E q \in Procs : x \in Range(proc[q].thrque)
    BY DEF Queued
  <2>3. \A x : x \in Queued' <=> x \in Queued \cup {t}
    BY <1>5, <2>1, <2>2
  <2> QED
    BY <2>3
<1>7. /\ \A q \in Procs : IsInjective(proc'[q].thrque)
      /\ \A q, s \in Procs : q # s => Range(proc'[q].thrque) \cap Range(proc'[s].thrque) = {}
  <2>1. \A q \in Procs : IsInjective(proc'[q].thrque)
    BY <1>1, <1>4 DEF Appends
  <2>2. ASSUME NEW q \in Procs, NEW s \in Procs, q # s
        PROVE  Range(proc'[q].thrque) \cap Range(proc'[s].thrque) = {}
    <3>1. Range(proc[q].thrque) \cap Range(proc[s].thrque) = {}
      BY <1>1, <2>2
    <3>2. t \notin Range(proc[q].thrque) /\ t \notin Range(proc[s].thrque)
      BY <1>3
    <3> QED
      BY <1>5, <2>2, <3>1, <3>2
  <2> QED
    BY <2>1, <2>2
<1>8. /\ \A b, c \in Actors : act'[b].pc \in OwnPCs /\ act'[c].pc \in OwnPCs /\ act'[b].t = act'[c].t => b = c
      /\ \A b \in Actors : act'[b].pc \in OwnPCs => act'[b].t \notin Queued'
  BY <1>2, <1>6, <1>11
<1>9. \A b \in Actors : act'[b].pc = "del" => b # a /\ act[b].pc = "del" /\ act'[b].p \in Procs
  <2> SUFFICES ASSUME NEW b \in Actors, act'[b].pc = "del" PROVE b # a /\ act[b].pc = "del" /\ act'[b].p \in Procs
    OBVIOUS
  <2>1. b # a /\ act'[b] = act[b]
    BY <1>2
  <2>2. act[b].p \in Procs
    BY <2>1, RowFacts
  <2> QED
    BY <2>1, <2>2
<1>10. \A b, c \in Actors : act'[b].pc = "del" /\ act'[c].pc = "del" /\ act'[b].t = act'[c].t => b = c
  BY <1>2, <1>9, <1>12
<1>14. \A b \in Actors : act'[b].pc = "del" => act'[b].t \in Range(proc'[act'[b].p].thrque)
  <2> SUFFICES ASSUME NEW b \in Actors, act'[b].pc = "del" PROVE act'[b].t \in Range(proc'[act'[b].p].thrque)
    OBVIOUS
  <2>1. b # a /\ act[b].pc = "del" /\ act'[b].p \in Procs /\ act'[b] = act[b]
    BY <1>2, <1>9
  <2>2. act[b].t \in Range(proc[act[b].p].thrque)
    BY <1>13, <2>1
  <2> QED
    BY <1>5, <2>1, <2>2
<1> QED
  BY <1>3, <1>4, <1>6, <1>7, <1>8, <1>10, <1>14 DEF QueuesOK

(* A thread that ends leaves it.                                           *)
LEMMA Left ==
    ASSUME Good, NEW a \in Actors, NEW r \in ActType, act' = [act EXCEPT ![a] = r],
           NEW p \in Procs, NEW t \in Thrs, act[a].pc = "del", act[a].t = t, act[a].p = p,
           r.pc \notin OwnPCs, r.pc # "del",
           \A q \in Procs \ {p} : proc'[q].thrque = proc[q].thrque,
           proc'[p].thrque = Without(proc[p].thrque, t)
    PROVE  /\ QueuesOK' /\ t \in Queued /\ Queued' = Queued \ {t}
           /\ proc'[p].thrque \in Seq(Thrs) /\ Len(proc'[p].thrque) = Len(proc[p].thrque) - 1
<1>0. QueuesOK
  BY DEF Good
<1>1. /\ \A q \in Procs : IsInjective(proc[q].thrque)
      /\ \A q, s \in Procs : q # s => Range(proc[q].thrque) \cap Range(proc[s].thrque) = {}
  BY <1>0 DEF QueuesOK
<1>11. /\ \A b, c \in Actors : act[b].pc \in OwnPCs /\ act[c].pc \in OwnPCs /\ act[b].t = act[c].t => b = c
       /\ \A b \in Actors : act[b].pc \in OwnPCs => act[b].t \notin Queued
  BY <1>0 DEF QueuesOK
<1>12. \A b, c \in Actors : act[b].pc = "del" /\ act[c].pc = "del" /\ act[b].t = act[c].t => b = c
  BY <1>0 DEF QueuesOK
<1>13. \A b \in Actors : act[b].pc = "del" => act[b].t \in Range(proc[act[b].p].thrque)
  BY <1>0 DEF QueuesOK
<1>2. act'[a] = r /\ \A b \in Actors \ {a} : act'[b] = act[b]
  BY DEF Good, TypeOK
<1>3. /\ t \in Range(proc[p].thrque) /\ t \in Queued
      /\ \A q \in Procs \ {p} : t \notin Range(proc[q].thrque)
  BY <1>1, <1>13 DEF Queued
<1>4. /\ proc'[p].thrque \in Seq(Thrs) /\ IsInjective(proc'[p].thrque)
      /\ Range(proc'[p].thrque) = Range(proc[p].thrque) \ {t}
      /\ Len(proc'[p].thrque) = Len(proc[p].thrque) - 1
  <2> DEFINE que == proc[p].thrque
             i == CHOOSE j \in DOMAIN que : que[j] = t
  <2>1. que \in Seq(Thrs) /\ IsInjective(que) /\ DOMAIN que = 1..Len(que)
    BY <1>1, NumbersOfRefs, LenProperties DEF ProcType
  <2>2. i \in 1..Len(que) /\ que[i] = t
    BY <1>3, <2>1 DEF Range
  <2>3. proc'[p].thrque = RemoveAt(que, i)
    BY Zenon DEF Without
  <2> HIDE DEF que, i
  <2>4. /\ RemoveAt(que, i) \in Seq(Thrs) /\ IsInjective(RemoveAt(que, i))
        /\ Range(RemoveAt(que, i)) = Range(que) \ {que[i]}
        /\ Len(RemoveAt(que, i)) = Len(que) - 1
    BY <2>1, <2>2, RemoveAtFacts, Zenon
  <2> QED
    BY <2>2, <2>3, <2>4 DEF que
<1>5. \A q \in Procs : Range(proc'[q].thrque) = Range(proc[q].thrque) \ {t}
  <2> SUFFICES ASSUME NEW q \in Procs PROVE Range(proc'[q].thrque) = Range(proc[q].thrque) \ {t}
    OBVIOUS
  <2>1. CASE q = p
    BY <1>4, <2>1
  <2>2. CASE q # p
    BY <1>3, <2>2
  <2> QED
    BY <2>1, <2>2
<1>6. Queued' = Queued \ {t}
  BY <1>5 DEF Queued
<1>7. /\ \A q \in Procs : IsInjective(proc'[q].thrque)
      /\ \A q, s \in Procs : q # s => Range(proc'[q].thrque) \cap Range(proc'[s].thrque) = {}
  BY <1>1, <1>4, <1>5
<1>8. /\ \A b, c \in Actors : act'[b].pc \in OwnPCs /\ act'[c].pc \in OwnPCs /\ act'[b].t = act'[c].t => b = c
      /\ \A b \in Actors : act'[b].pc \in OwnPCs => act'[b].t \notin Queued'
  BY <1>2, <1>6, <1>11
<1>9. \A b \in Actors : act'[b].pc = "del" => b # a /\ act[b].pc = "del" /\ act'[b].p \in Procs
  <2> SUFFICES ASSUME NEW b \in Actors, act'[b].pc = "del" PROVE b # a /\ act[b].pc = "del" /\ act'[b].p \in Procs
    OBVIOUS
  <2>1. b # a /\ act'[b] = act[b]
    BY <1>2
  <2>2. act[b].p \in Procs
    BY <2>1, RowFacts
  <2> QED
    BY <2>1, <2>2
<1>10. \A b, c \in Actors : act'[b].pc = "del" /\ act'[c].pc = "del" /\ act'[b].t = act'[c].t => b = c
  BY <1>2, <1>9, <1>12
<1>14. \A b \in Actors : act'[b].pc = "del" => act'[b].t \in Range(proc'[act'[b].p].thrque)
  <2> SUFFICES ASSUME NEW b \in Actors, act'[b].pc = "del" PROVE act'[b].t \in Range(proc'[act'[b].p].thrque)
    OBVIOUS
  <2>1. b # a /\ act[b].pc = "del" /\ act'[b].p \in Procs /\ act'[b] = act[b]
    BY <1>2, <1>9
  <2>2. act[b].t \in Range(proc[act[b].p].thrque)
    BY <1>13, <2>1
  <2>3. act[b].t # t
    BY <1>12, <2>1
  <2> QED
    BY <1>5, <2>1, <2>2, <2>3
<1> QED
  BY <1>3, <1>4, <1>6, <1>7, <1>8, <1>10, <1>14 DEF QueuesOK

\* What the entry of a thread does to processes and threads.
QueueChange(p, que) ==
    /\ proc' \in [Procs -> ProcType] /\ proc'[p].thrque = que
    /\ \A q \in Procs : proc'[q].id = proc[q].id /\ proc'[q].refs = proc[q].refs
    /\ \A q \in Procs \ {p} : proc'[q].thrque = proc[q].thrque

LEMMA QueueChanges ==
    ASSUME Good, NEW p \in Procs, NEW que \in Seq(Thrs), NEW m \in Thrs \cup {NoThr},
           proc' = [proc EXCEPT ![p].thrque = que, ![p].master = m] \/ proc' = [proc EXCEPT ![p].thrque = que]
    PROVE  QueueChange(p, que)
<1>1. proc \in [Procs -> ProcType] /\ proc[p] \in ProcType
  BY DEF Good, TypeOK
<1>2. CASE proc' = [proc EXCEPT ![p].thrque = que, ![p].master = m]
  <2>1. proc'[p] = [proc[p] EXCEPT !.thrque = que, !.master = m] /\ \A q \in Procs \ {p} : proc'[q] = proc[q]
    BY <1>1, <1>2
  <2>2. /\ proc'[p] \in ProcType /\ proc'[p].thrque = que /\ proc'[p].id = proc[p].id
        /\ proc'[p].refs = proc[p].refs
    BY <1>1, <2>1 DEF ProcType
  <2>3. proc' \in [Procs -> ProcType]
    BY <1>1, <1>2, <2>1, <2>2
  <2> QED
    BY <2>1, <2>2, <2>3 DEF QueueChange
<1>3. CASE proc' = [proc EXCEPT ![p].thrque = que]
  <2>1. proc'[p] = [proc[p] EXCEPT !.thrque = que] /\ \A q \in Procs \ {p} : proc'[q] = proc[q]
    BY <1>1, <1>3
  <2>2. /\ proc'[p] \in ProcType /\ proc'[p].thrque = que /\ proc'[p].id = proc[p].id
        /\ proc'[p].refs = proc[p].refs
    BY <1>1, <2>1 DEF ProcType
  <2>3. proc' \in [Procs -> ProcType]
    BY <1>1, <1>3, <2>1, <2>2
  <2> QED
    BY <2>1, <2>2, <2>3 DEF QueueChange
<1> QED
  BY <1>2, <1>3

(* The threads and numbers when the client a hands the thread t to a queue *)
(* or takes it from one.                                                   *)
LEMMA HandedOver ==
    ASSUME Good, NEW a \in Actors, NEW r \in ActType, act' = [act EXCEPT ![a] = r], RowOK(r),
           NEW p \in Procs, NEW t \in Thrs, NEW que, QueueChange(p, que),
           thr' \in [Thrs -> ThrType], \A u \in Thrs : thr'[u].refs = thr[u].refs /\ thr'[u].id = thr[u].id,
           \/ HeldBy(act[a]) = t /\ HeldBy(r) = NoThr /\ t \notin Queued /\ Queued' = Queued \cup {t}
           \/ HeldBy(act[a]) = NoThr /\ HeldBy(r) = t /\ t \in Queued /\ Queued' = Queued \ {t},
           procdb' \in SUBSET Spaces, UNCHANGED ids
    PROVE  TypeOK' /\ ActOK' /\ ThreadRefs' /\ NumbersOK'
<1>1. TypeOK'
  BY DEF Good, TypeOK, QueueChange
<1>2. ActOK'
  BY DEF Good, TypeOK, ActOK
<1>3. ThreadRefs'
  <2>1. t # NoThr /\ thr[t].refs \in Nat
    BY ProcAssumption DEF Good, TypeOK, ThrType
  <2>2. thr'[t].refs = thr[t].refs
    OBVIOUS
  <2>3. ThreadMoves(t, HeldBy(act[a]), HeldBy(r))
    <3>1. \A u \in Thrs \ {t} : thr'[u].refs = thr[u].refs /\ (u \in Queued' <=> u \in Queued)
      OBVIOUS
    <3>2. thr'[t].refs = thr[t].refs - Same(HeldBy(act[a]), t) + Same(HeldBy(r), t)
                           - Ind(t \in Queued) + Ind(t \in Queued')
      <4> DEFINE n == thr[t].refs
                 i == Same(HeldBy(act[a]), t)
                 i2 == Same(HeldBy(r), t)
                 k == Ind(t \in Queued)
                 k2 == Ind(t \in Queued')
      <4>1. \/ i = 1 /\ i2 = 0 /\ k = 0 /\ k2 = 1
            \/ i = 0 /\ i2 = 1 /\ k = 1 /\ k2 = 0
        BY <2>1 DEF Same, Ind
      <4>2. n \in Nat
        BY <2>1
      <4> HIDE DEF n, i, i2, k, k2
      <4>3. n = n - i + i2 - k + k2
        BY <4>1, <4>2
      <4> QED
        BY <2>2, <4>3 DEF n, i, i2, k, k2
    <3> QED
      BY <3>1, <3>2 DEF ThreadMoves
  <2>4. HeldBy(act[a]) \in {t, NoThr} /\ HeldBy(r) \in {t, NoThr}
    OBVIOUS
  <2> QED
    BY <2>3, <2>4, ThreadRefsMove
<1>4. NumbersOK'
  <2>1. SameNumbers
    BY DEF SameNumbers, QueueChange
  <2> QED
    BY <2>1, NumbersKeep DEF Good
<1> QED
  BY <1>1, <1>2, <1>3, <1>4

LEMMA DelFromQueueKeeps ==
    ASSUME Good, halted = "no", NEW a \in Actors, DelFromQueue(a)
    PROVE  IInv'
<1> DEFINE p == act[a].p
           t == act[a].t
           r == [pc |-> "unque", p |-> p, t |-> t]
           que == Without(proc[p].thrque, t)
<1>1. /\ act[a].pc = "del" /\ proc' = [proc EXCEPT ![p].thrque = que] /\ act' = [act EXCEPT ![a] = r]
      /\ UNCHANGED <<thr, ids, procdb, halted>>
  BY Zenon DEF DelFromQueue, At, Go, Become
<1>2. p \in Procs /\ t \in Thrs
  BY <1>1, RowFacts DEF RowOK
<1>3. /\ r \in ActType /\ RowOK(r) /\ r.pc = "unque" /\ r.p = p /\ HeldBy(act[a]) = NoThr /\ HeldBy(r) = t
  BY <1>1, <1>2, RowFacts, NumbersOfRefs, ProcAssumption DEF ActType, RowOK, HeldBy, PCs, CreatingPCs
<1>4. act[a].p = p /\ act[a].t = t
  OBVIOUS
<1> HIDE DEF p, t, r, que
<1>5. proc'[p].thrque = que /\ \A q \in Procs \ {p} : proc'[q].thrque = proc[q].thrque
  <2>1. proc \in [Procs -> ProcType] /\ proc[p] \in ProcType
    BY <1>2 DEF Good, TypeOK
  <2>2. proc'[p] = [proc[p] EXCEPT !.thrque = que] /\ \A q \in Procs \ {p} : proc'[q] = proc[q]
    BY <1>1, <1>2, <2>1
  <2> QED
    BY <2>1, <2>2 DEF ProcType
<1>6. /\ QueuesOK' /\ t \in Queued /\ Queued' = Queued \ {t}
      /\ proc'[p].thrque \in Seq(Thrs) /\ Len(proc'[p].thrque) = Len(proc[p].thrque) - 1
  <2>1. r.pc \notin OwnPCs /\ r.pc # "del"
    BY <1>3 DEF OwnPCs
  <2>2. proc'[p].thrque = Without(proc[p].thrque, t)
    BY <1>5 DEF que
  <2> QED
    BY <1>1, <1>2, <1>3, <1>4, <1>5, <2>1, <2>2, Left, ZenonT(30)
<1>7. QueueChange(p, que)
  BY <1>1, <1>2, <1>5, <1>6, QueueChanges
<1>8. TypeOK' /\ ActOK' /\ ThreadRefs' /\ NumbersOK'
  <2>1. thr' \in [Thrs -> ThrType] /\ (\A u \in Thrs : thr'[u].refs = thr[u].refs /\ thr'[u].id = thr[u].id)
        /\ procdb' \in SUBSET Spaces /\ UNCHANGED ids
    BY <1>1 DEF Good, TypeOK
  <2> QED
    BY <1>1, <1>2, <1>3, <1>6, <1>7, <2>1, HandedOver
<1>9. ProcsOK'
  <2>1. proc[p].refs > 0 /\ proc[p].refs \in Nat
    <3>1. t \in Range(proc[p].thrque)
      BY <1>1, <1>4 DEF Good, QueuesOK
    <3> QED
      BY <1>2, <3>1, Referred, NumbersOfRefs
  <2>2. GoingOn(a, r, p)
    BY <1>1, <1>3, <1>4 DEF GoingOn, Births, CreatingPCs
  <2>3. Weight(act[a].pc) = 1 /\ Weight(r.pc) = 2
    BY <1>1, <1>3 DEF Weight, BetweenPCs, CreatingPCs, ReferringPCs
  <2>4. RefsOf(p, Weight(act[a].pc), Weight(r.pc))
    <3> DEFINE n == proc[p].refs
               l == Len(proc[p].thrque)
               l2 == Len(proc'[p].thrque)
    <3>1. n \in Nat /\ l \in Nat /\ l2 = l - 1 /\ proc'[p].refs = n
      BY <1>2, <1>6, <1>7, <2>1, NumbersOfRefs, LenProperties DEF QueueChange, ProcType
    <3> HIDE DEF n, l, l2
    <3>2. proc'[p].refs = n + (l2 - l) - 1 + 2
      BY <3>1
    <3> QED
      BY <1>1, <1>7, <2>1, <2>3, <3>2 DEF RefsOf, QueueChange, n, l, l2
  <2> QED
    BY <1>2, <2>2, <2>4, RefsShift
<1> QED
  BY <1>1, <1>6, <1>8, <1>9 DEF IInv, Good, KassertsHold

LEMMA AddToQueueKeeps ==
    ASSUME Good, halted = "no", NEW a \in Actors, AddToQueue(a)
    PROVE  IInv'
<1> DEFINE p == act[a].p
           t == act[a].t
           r == [pc |-> "hold", p |-> p, t |-> NoThr]
           que == Append(proc[p].thrque, t)
<1>1. /\ act[a].pc = "add" /\ proc' = [proc EXCEPT ![p].thrque = Append(@, t)] /\ act' = [act EXCEPT ![a] = r]
      /\ thr' = [thr EXCEPT ![t].p = p] /\ UNCHANGED <<ids, procdb, halted>>
  BY Zenon DEF AddToQueue, At, Go, Become
<1>2. p \in Procs /\ t \in Thrs
  BY <1>1, RowFacts DEF RowOK
<1>3. /\ r \in ActType /\ RowOK(r) /\ r.pc = "hold" /\ r.p = p /\ HeldBy(act[a]) = t /\ HeldBy(r) = NoThr
  BY <1>1, <1>2, RowFacts, NumbersOfRefs, ProcAssumption DEF ActType, RowOK, HeldBy, PCs, CreatingPCs
<1>4. act[a].p = p /\ act[a].t = t /\ proc' = [proc EXCEPT ![p].thrque = que]
  BY <1>1
<1> HIDE DEF p, t, r, que
<1>5. proc'[p].thrque = que /\ \A q \in Procs \ {p} : proc'[q].thrque = proc[q].thrque
  <2>1. proc \in [Procs -> ProcType] /\ proc[p] \in ProcType
    BY <1>2 DEF Good, TypeOK
  <2>2. proc'[p] = [proc[p] EXCEPT !.thrque = que] /\ \A q \in Procs \ {p} : proc'[q] = proc[q]
    BY <1>4, <1>2, <2>1
  <2> QED
    BY <2>1, <2>2 DEF ProcType
<1>6. /\ QueuesOK' /\ t \notin Queued /\ Queued' = Queued \cup {t}
      /\ proc'[p].thrque \in Seq(Thrs) /\ Len(proc'[p].thrque) = Len(proc[p].thrque) + 1
  <2>1. r.pc \notin OwnPCs /\ r.pc # "del" /\ act[a].pc \in OwnPCs
    BY <1>1, <1>3 DEF OwnPCs
  <2>2. Appends(p, t)
    BY <1>5 DEF que, Appends
  <2>3. act' = [act EXCEPT ![a] = r] /\ act[a].t = t
    BY <1>1, <1>4
  <2> QED
    BY <1>2, <1>3, <2>1, <2>2, <2>3, Joined
<1>7. QueueChange(p, que)
  BY <1>4, <1>2, <1>5, <1>6, QueueChanges
<1>8. TypeOK' /\ ActOK' /\ ThreadRefs' /\ NumbersOK'
  <2>1. thr[t] \in ThrType /\ thr \in [Thrs -> ThrType]
    BY <1>2 DEF Good, TypeOK
  <2>2. thr'[t] = [thr[t] EXCEPT !.p = p] /\ \A u \in Thrs \ {t} : thr'[u] = thr[u]
    BY <1>1, <1>2, <2>1
  <2>3. thr'[t] \in ThrType /\ thr'[t].refs = thr[t].refs /\ thr'[t].id = thr[t].id
    BY <1>2, <2>1, <2>2 DEF ThrType
  <2>4. thr' \in [Thrs -> ThrType] /\ \A u \in Thrs : thr'[u].refs = thr[u].refs /\ thr'[u].id = thr[u].id
    BY <1>1, <1>2, <2>1, <2>2, <2>3
  <2>5. procdb' \in SUBSET Spaces /\ UNCHANGED ids
    BY <1>1 DEF Good, TypeOK
  <2> QED
    BY <1>1, <1>2, <1>3, <1>6, <1>7, <2>4, <2>5, HandedOver
<1>9. ProcsOK'
  <2>1. proc[p].refs > 0 /\ proc[p].refs \in Nat
    <3> DEFINE l == Len(proc[p].thrque)
               w == Weight(act[a].pc)
    <3>1. /\ proc[p].refs \in Nat /\ l \in Nat /\ Own(p) \in {0, 1} /\ w \in {1, 2}
          /\ proc[p].refs >= w + l + Own(p)
      BY <1>1, <1>4, ReferredTo DEF ReferringPCs
    <3> HIDE DEF l, w
    <3> QED
      BY <3>1
  <2>2. GoingOn(a, r, p)
    BY <1>1, <1>3, <1>4 DEF GoingOn, Births, CreatingPCs
  <2>3. Weight(act[a].pc) = 2 /\ Weight(r.pc) = 1
    BY <1>1, <1>3 DEF Weight, BetweenPCs, CreatingPCs, ReferringPCs
  <2>4. RefsOf(p, Weight(act[a].pc), Weight(r.pc))
    <3> DEFINE n == proc[p].refs
               l == Len(proc[p].thrque)
               l2 == Len(proc'[p].thrque)
    <3>1. n \in Nat /\ l \in Nat /\ l2 = l + 1 /\ proc'[p].refs = n
      BY <1>2, <1>6, <1>7, <2>1, NumbersOfRefs, LenProperties DEF QueueChange, ProcType
    <3> HIDE DEF n, l, l2
    <3>2. proc'[p].refs = n + (l2 - l) - 2 + 1
      BY <3>1
    <3> QED
      BY <1>1, <1>7, <2>1, <2>3, <3>2 DEF RefsOf, QueueChange, n, l, l2
  <2> QED
    BY <1>2, <2>2, <2>4, RefsShift
<1> QED
  BY <1>1, <1>6, <1>8, <1>9 DEF IInv, Good, KassertsHold

(* The end of proc_user_allocate: the first thread and the tree.           *)
LEMMA EnterKeeps ==
    ASSUME Good, halted = "no", NEW a \in Actors, Enter(a)
    PROVE  IInv'
<1> DEFINE p == act[a].p
           t == act[a].t
           r == [pc |-> "idle", p |-> NoProc, t |-> NoThr]
           que == Append(proc[p].thrque, t)
<1>1. /\ act[a].pc = "enter" /\ proc' = [proc EXCEPT ![p].thrque = Append(@, t), ![p].master = t]
      /\ act' = [act EXCEPT ![a] = r] /\ procdb' = procdb \cup {p} /\ UNCHANGED <<thr, ids>>
      /\ halted' = IF \E q \in procdb : proc[q].id = proc[p].id THEN "same number" ELSE halted
  BY Zenon DEF Enter, At, Go, Become
<1>2. p \in Procs /\ t \in Thrs /\ p # KernProc
  BY <1>1, RowFacts DEF RowOK, CreatingPCs
<1>3. /\ r \in ActType /\ RowOK(r) /\ r.pc = "idle" /\ r.p = NoProc /\ HeldBy(act[a]) = t /\ HeldBy(r) = NoThr
  BY <1>1, <1>2, RowFacts, NumbersOfRefs, ProcAssumption DEF ActType, RowOK, HeldBy, PCs, CreatingPCs
<1>4. act[a].p = p /\ act[a].t = t /\ proc' = [proc EXCEPT ![p].thrque = que, ![p].master = t]
  BY <1>1
<1> HIDE DEF p, t, r, que
<1>5. proc'[p].thrque = que /\ \A q \in Procs \ {p} : proc'[q].thrque = proc[q].thrque
  <2>1. proc \in [Procs -> ProcType] /\ proc[p] \in ProcType
    BY <1>2 DEF Good, TypeOK
  <2>2. proc'[p] = [proc[p] EXCEPT !.thrque = que, !.master = t] /\ \A q \in Procs \ {p} : proc'[q] = proc[q]
    BY <1>4, <1>2, <2>1
  <2> QED
    BY <2>1, <2>2 DEF ProcType
<1>6. /\ QueuesOK' /\ t \notin Queued /\ Queued' = Queued \cup {t}
      /\ proc'[p].thrque \in Seq(Thrs) /\ Len(proc'[p].thrque) = Len(proc[p].thrque) + 1
  <2>1. r.pc \notin OwnPCs /\ r.pc # "del" /\ act[a].pc \in OwnPCs
    BY <1>1, <1>3 DEF OwnPCs
  <2>2. Appends(p, t)
    BY <1>5 DEF que, Appends
  <2>3. act' = [act EXCEPT ![a] = r] /\ act[a].t = t
    BY <1>1, <1>4
  <2> QED
    BY <1>2, <1>3, <2>1, <2>2, <2>3, Joined
<1>7. QueueChange(p, que)
  BY <1>4, <1>2, <1>5, <1>6, QueueChanges, Zenon
<1>8. TypeOK' /\ ActOK' /\ ThreadRefs' /\ NumbersOK'
  <2>1. thr' \in [Thrs -> ThrType] /\ (\A u \in Thrs : thr'[u].refs = thr[u].refs /\ thr'[u].id = thr[u].id)
        /\ procdb' \in SUBSET Spaces /\ UNCHANGED ids
    BY <1>1, <1>2 DEF Good, TypeOK, Procs
  <2> QED
    BY <1>1, <1>2, <1>3, <1>6, <1>7, <2>1, HandedOver
\* The counts of p before the step.
<1> DEFINE n == proc[p].refs
           l == Len(proc[p].thrque)
           u == Using(p)
           c == Cardinality(Creating(p))
           f == Cardinality(Freeing(p))
<1>9. /\ n \in Nat /\ l \in Nat /\ u \in Nat /\ c \in Nat /\ f \in Nat /\ c >= 1 /\ u >= 1 /\ c <= 1
      /\ n = l + u + Own(p) /\ Own(p) \in Nat /\ (p \in procdb => c = 0)
      /\ f = (IF n = 0 /\ proc[p].id # NoId THEN 1 ELSE 0) /\ (proc[p].id = NoId => n = 0)
  <2>1. ProcOK(p) /\ n \in Nat /\ l \in Nat /\ Own(p) \in Nat
    BY <1>2, NumbersOfRefs, LenProperties DEF Good, ProcsOK, ProcType, Own
  <2>2. Births(act[a].pc) = 1 /\ Weight(act[a].pc) = 1
    BY <1>1 DEF Births, Weight, CreatingPCs, BetweenPCs
  <2>3. u \in Nat /\ c \in Nat /\ f \in Nat /\ u >= 1 /\ c >= 1
    BY <1>2, <1>4, <2>2, Counted
  <2>4. /\ c <= 1 /\ n = l + u + Own(p) /\ (p \in procdb => c = 0)
        /\ f = (IF n = 0 /\ proc[p].id # NoId THEN 1 ELSE 0) /\ (proc[p].id = NoId => n = 0)
    BY <2>1 DEF ProcOK
  <2> QED
    BY <2>1, <2>3, <2>4
<1>10. halted' = "no"
  <2> SUFFICES ASSUME NEW q \in procdb, proc[q].id = proc[p].id PROVE FALSE
    BY <1>1
  <2>1. p \notin procdb
    BY <1>9
  <2>2. q \in Procs /\ q \notin Thrs /\ p \notin Thrs
    BY <1>2, ProcAssumption DEF Good, TypeOK, Procs
  <2>3. proc[p].id # NoId
    <3> HIDE DEF n, l, u, c, f
    <3> QED
      BY <1>9
  <2>4. q \in Numbered /\ p \in Numbered /\ NumberOf(q) = NumberOf(p)
    BY <1>2, <2>2, <2>3 DEF Numbered, NumberOf
  <2>5. q = p
    BY <2>4 DEF Good, NumbersOK
  <2> QED
    BY <2>1, <2>5
<1>11. ProcsOK'
  <2>1. /\ Weight(act[a].pc) = 1 /\ Births(act[a].pc) = 1 /\ Frees(act[a].pc) = 0
        /\ Weight(r.pc) = 0 /\ Births(r.pc) = 0 /\ Frees(r.pc) = 0
    BY <1>1, <1>3 DEF Weight, Births, Frees, CreatingPCs, BetweenPCs, ReferringPCs
  <2>2. proc'[p].refs = n /\ proc'[p].id = proc[p].id /\ Len(proc'[p].thrque) = l + 1 /\ p \in procdb'
    BY <1>1, <1>2, <1>6, <1>7 DEF QueueChange
  <2>3. \A q \in Procs \ {p} :
          /\ proc'[q].refs = proc[q].refs /\ proc'[q].id = proc[q].id /\ proc'[q].thrque = proc[q].thrque
          /\ q \in procdb' <=> q \in procdb
    BY <1>1, <1>7 DEF QueueChange
  <2> HIDE DEF n, l, u, c, f
  <2>4. /\ n = (l + 1) + (u - 1 + 0) + Own(p) /\ n > 0 /\ c - 1 + 0 = 0 /\ c - 1 + 0 <= 1
        /\ f - 0 + 0 = IF n = 0 /\ proc[p].id # NoId THEN 1 ELSE 0
    BY <1>9
  <2>5. proc'[p].refs = Len(proc'[p].thrque) + (Using(p) - Weight(act[a].pc) + Weight(r.pc)) + Own(p)
    BY <2>1, <2>2, <2>4 DEF u
  <2>6. p \in procdb' <=> /\ proc'[p].refs > 0 /\ p # KernProc
                          /\ Cardinality(Creating(p)) - Births(act[a].pc) + Births(r.pc) = 0
    BY <1>2, <2>1, <2>2, <2>4 DEF c
  <2>7. /\ Cardinality(Freeing(p)) - Frees(act[a].pc) + Frees(r.pc) =
             IF proc'[p].refs = 0 /\ proc'[p].id # NoId THEN 1 ELSE 0
        /\ Cardinality(Creating(p)) - Births(act[a].pc) + Births(r.pc) <= 1
    BY <2>1, <2>2, <2>4 DEF c, f
  <2>8. (proc'[p].id = NoId => proc'[p].refs = 0) /\ (p = KernProc => proc'[p].id = PROC_KERN_PID)
    BY <1>2, <1>9, <2>2
  <2>9. act[a].p \in {p, NoProc} /\ r.p \in {p, NoProc}
    BY <1>3, <1>4
  <2> QED
    BY <1>1, <1>2, <1>3, <2>3, <2>5, <2>6, <2>7, <2>8, <2>9, Recounted
<1> QED
  BY <1>6, <1>8, <1>10, <1>11 DEF IInv, Good, KassertsHold

-----------------------------------------------------------------------------
(* Creation and release.                                                   *)

(* A call that works on a process, before it is freed, has a reference.    *)
LEMMA WorkedOn ==
    ASSUME Good, NEW a \in Actors, act[a].pc \in CreatingPCs \cup ReferringPCs
    PROVE  act[a].p \in Procs /\ proc[act[a].p].refs > 0
<1> DEFINE p == act[a].p
           n == proc[p].refs
           l == Len(proc[p].thrque)
           u == Using(p)
           w == Weight(act[a].pc)
<1>1. p \in Procs
  BY RowFacts DEF CreatingPCs, ReferringPCs
<1>2. ProcOK(p) /\ n \in Nat /\ l \in Nat /\ Own(p) \in Nat
  BY <1>1, NumbersOfRefs, LenProperties DEF Good, ProcsOK, ProcType, Own
<1>3. u \in Nat /\ u >= w /\ w \in {1, 2}
  BY <1>1, Counted DEF Weight
<1>4. n = l + u + Own(p)
  BY <1>2 DEF ProcOK
<1> HIDE DEF n, l, u, w
<1>5. n > 0
  BY <1>2, <1>3, <1>4
<1> QED
  BY <1>1, <1>5 DEF n

(* A number that is given out is one that nobody has.                      *)
LEMMA NewNumber ==
    ASSUME Good, Ids \ ids # {}
    PROVE  thr_id_alloc(ids) \in Ids \ ids /\ thr_id_alloc(ids) # NoId
BY MinIn, ProcAssumption DEF thr_id_alloc

LEMMA NewStackIn ==
    ASSUME FreeClusters(v, 1) # {}
    PROVE  NewStack(v) \in Frames
<1>1. FreeClusters(v, 1) \subseteq Frames /\ Frames \subseteq Nat
  <2>1. FreeClusters(v, 1) \subseteq Frames
    BY DEF FreeClusters
  <2>2. Cardinality(Frames) \in Nat /\ Frames = 0 .. Cardinality(Frames) - 1
    BY PageTableAssumption, FS_CardinalityType
  <2> QED
    BY <2>1, <2>2
<1> QED
  BY <1>1, MinIn DEF NewStack

(* What create_thread makes of a free thread.                              *)
Made(i, s) == [FreeThr EXCEPT !.refs = 1, !.id = i, !.stk = s]
LEMMA ThreadMade ==
    ASSUME NEW i \in Ids, NEW s \in Frames
    PROVE  Made(i, s) \in ThrType /\ Made(i, s).refs = 1 /\ Made(i, s).id = i
<1> DEFINE r1 == [FreeThr EXCEPT !.refs = 1]
           r2 == [r1 EXCEPT !.id = i]
           r3 == [r2 EXCEPT !.stk = s]
<1>1. FreeThr \in ThrType
  BY DEF FreeThr, ThrType
<1>2. r1 \in ThrType /\ r1.refs = 1
  BY <1>1 DEF ThrType
<1> HIDE DEF r1
<1>3. r2 \in ThrType /\ r2.refs = 1 /\ r2.id = i
  BY <1>2 DEF ThrType
<1> HIDE DEF r2
<1>4. r3 \in ThrType /\ r3.refs = 1 /\ r3.id = i
  BY <1>3 DEF ThrType
<1> QED
  BY <1>4, Zenon DEF Made, r1, r2, r3

(* FirstThread and CreateThread: a client makes a thread.                  *)
LEMMA CreateKeeps ==
    ASSUME Good, halted = "no", NEW a \in Actors, NEW t \in Thrs, NEW pc,
           \/ act[a].pc = "first" /\ pc = "enter"
           \/ act[a].pc = "hold" /\ pc = "made",
           CanCreate, create_thread(t), Become(a, pc, act[a].p, t), UNCHANGED <<proc, procdb, halted>>
    PROVE  IInv'
<1> DEFINE p == act[a].p
           r == [pc |-> pc, p |-> p, t |-> t]
           i == thr_id_alloc(ids)
           new == [thr[t] EXCEPT !.refs = 1, !.id = i, !.stk = NewStack(v)]
<1>1. /\ thr[t] = FreeThr /\ thr' = [thr EXCEPT ![t] = new] /\ ids' = ids \cup {i}
      /\ act' = [act EXCEPT ![a] = r]
  BY Zenon DEF create_thread, Become
<1>2. i \in Ids \ ids
  BY NewNumber DEF CanCreate
<1>3. NewStack(v) \in Frames
  BY NewStackIn DEF CanCreate
<1>4. p \in Procs /\ proc[p].refs > 0
  BY WorkedOn DEF CreatingPCs, ReferringPCs
<1>5. thr[t].refs = 0 /\ new \in ThrType /\ new.refs = 1 /\ new.id = i
  <2>1. new = Made(i, NewStack(v))
    BY <1>1, Zenon DEF Made
  <2>2. thr[t].refs = 0
    BY <1>1 DEF FreeThr
  <2>3. i \in Ids
    BY <1>2
  <2> HIDE DEF i, new
  <2> QED
    BY <1>3, <2>1, <2>2, <2>3, ThreadMade
<1>6. /\ r \in ActType /\ RowOK(r) /\ r.pc = pc /\ r.p = p /\ r.t = t /\ HeldBy(act[a]) = NoThr /\ HeldBy(r) = t
      /\ act[a].pc \notin OwnPCs
  BY <1>4, RowFacts, NumbersOfRefs, ProcAssumption DEF ActType, RowOK, HeldBy, PCs, CreatingPCs, OwnPCs
<1>7. act[a].p = p
  OBVIOUS
<1> HIDE DEF p, r, i, new
<1>8. thr'[t] = new /\ (\A u \in Thrs \ {t} : thr'[u] = thr[u]) /\ thr' \in [Thrs -> ThrType]
  BY <1>1, <1>5 DEF Good, TypeOK
<1>9. SameQueues /\ Queued' = Queued
  BY DEF SameQueues, Queued
\* Nobody had the thread.
<1>10. t \notin Queued /\ t # NoThr
  <2>1. thr[t].refs = Cardinality(Holding(t)) + IF t \in Queued THEN 1 ELSE 0
    BY DEF Good, ThreadRefs
  <2>2. Cardinality(Holding(t)) \in Nat
    <3>1. Holding(t) \in SUBSET Actors
      BY DEF Holding
    <3> QED
      BY <3>1, ProcAssumption, FS_Subset, FS_CardinalityType
  <2> QED
    BY <1>5, <2>1, <2>2, ProcAssumption
<1>11. \A b \in Actors : act[b].pc \in OwnPCs => act[b].t # t
  <2> SUFFICES ASSUME NEW b \in Actors, act[b].pc \in OwnPCs, act[b].t = t PROVE FALSE
    OBVIOUS
  <2>1. HeldBy(act[b]) = t
    BY DEF HeldBy, OwnPCs
  <2>2. thr[t].refs > 0
    BY <2>1, HeldThread
  <2> QED
    BY <1>5, <2>2
<1>12. TypeOK'
  BY <1>1, <1>2, <1>6, <1>8 DEF Good, TypeOK
<1>13. ActOK'
  BY <1>1, <1>6 DEF Good, TypeOK, ActOK
<1>14. QueuesOK'
  <2>1. QueuesOK
    BY DEF Good
  <2>2. act'[a] = r /\ \A b \in Actors \ {a} : act'[b] = act[b]
    BY <1>1 DEF Good, TypeOK
  <2>3. /\ \A q \in Procs : IsInjective(proc'[q].thrque)
        /\ \A q, s \in Procs : q # s => Range(proc'[q].thrque) \cap Range(proc'[s].thrque) = {}
    BY <2>1 DEF QueuesOK
  <2>4. /\ \A b, c \in Actors : act'[b].pc \in OwnPCs /\ act'[c].pc \in OwnPCs /\ act'[b].t = act'[c].t => b = c
        /\ \A b \in Actors : act'[b].pc \in OwnPCs => act'[b].t \notin Queued'
    <3>1. /\ \A b, c \in Actors : act[b].pc \in OwnPCs /\ act[c].pc \in OwnPCs /\ act[b].t = act[c].t => b = c
          /\ \A b \in Actors : act[b].pc \in OwnPCs => act[b].t \notin Queued
      BY <2>1 DEF QueuesOK
    <3> QED
      BY <1>6, <1>9, <1>10, <1>11, <2>2, <3>1
  <2>5. \A b \in Actors : act'[b].pc = "del" => act[b].pc = "del" /\ act'[b] = act[b]
    BY <1>6, <2>2
  <2>6. /\ \A b, c \in Actors : act'[b].pc = "del" /\ act'[c].pc = "del" /\ act'[b].t = act'[c].t => b = c
        /\ \A b \in Actors : act'[b].pc = "del" => act'[b].t \in Range(proc'[act'[b].p].thrque)
    <3>1. /\ \A b, c \in Actors : act[b].pc = "del" /\ act[c].pc = "del" /\ act[b].t = act[c].t => b = c
          /\ \A b \in Actors : act[b].pc = "del" => act[b].t \in Range(proc[act[b].p].thrque)
      BY <2>1 DEF QueuesOK
    <3> QED
      BY <2>5, <3>1
  <2> QED
    BY <2>3, <2>4, <2>6 DEF QueuesOK
<1>15. ThreadRefs'
  <2>1. thr'[t].refs = thr[t].refs - Same(NoThr, t) + Same(t, t) - Ind(t \in Queued) + Ind(t \in Queued')
    BY <1>5, <1>8, <1>9, <1>10 DEF Same, Ind
  <2>2. ThreadMoves(t, NoThr, t)
    BY <1>8, <1>9, <2>1 DEF ThreadMoves
  <2> QED
    BY <1>1, <1>6, <2>2, ThreadRefsMove
<1>16. ProcsOK'
  <2>1. GoingOn(a, r, p) /\ Weight(r.pc) = Weight(act[a].pc)
    BY <1>1, <1>6, <1>7 DEF GoingOn, Births, CreatingPCs, Weight, BetweenPCs, ReferringPCs
  <2> QED
    BY <1>4, <2>1, ProcsStay
<1>17. NumbersOK'
  <2>1. t \notin Procs
    BY ProcAssumption DEF Procs
  <2>2. t \notin Numbered /\ NumberOf(t)' = i
    BY <1>5, <1>8, <2>1 DEF Numbered, NumberOf
  <2>3. Numbered' = Numbered \cup {t}
    BY <1>5, <1>8, <2>1 DEF Numbered
  <2>4. \A y \in Numbered : NumberOf(y)' = NumberOf(y)
    BY <1>8, <2>2 DEF NumberOf
  <2> QED
    BY <1>1, <1>2, <2>2, <2>3, <2>4, NumbersAdd DEF Good
<1> QED
  BY <1>12, <1>13, <1>14, <1>15, <1>16, <1>17 DEF IInv, Good, KassertsHold

(* A step that leaves everything alone.                                    *)
LEMMA Unmoved ==
    ASSUME IInv, UNCHANGED procVars
    PROVE  IInv'
<1>1. UNCHANGED <<proc, thr, ids, procdb, act, halted>>
  BY DEF procVars
<1>2. TypeOK => TypeOK'
  BY <1>1 DEF TypeOK
<1>3. ActOK => ActOK'
  BY <1>1 DEF ActOK
<1>4. Queued' = Queued
  BY <1>1 DEF Queued
<1>5. QueuesOK => QueuesOK'
  BY <1>1, <1>4 DEF QueuesOK
<1>6. ThreadRefs => ThreadRefs'
  <2>1. \A t \in Thrs : Holding(t)' = Holding(t)
    BY <1>1 DEF Holding
  <2> QED
    BY <1>1, <1>4, <2>1 DEF ThreadRefs
<1>7. ProcsOK => ProcsOK'
  <2>1. \A p \in Procs : /\ Creating(p)' = Creating(p) /\ Referring(p)' = Referring(p)
                         /\ Between(p)' = Between(p) /\ Freeing(p)' = Freeing(p)
    BY <1>1 DEF Creating, Referring, Between, Freeing
  <2>2. \A p \in Procs : Using(p)' = Using(p)
    BY <2>1 DEF Using
  <2> QED
    BY <1>1, <2>1, <2>2 DEF ProcsOK, ProcOK, Own
<1>8. NumbersOK => NumbersOK'
  <2>1. Numbered' = Numbered /\ \A x \in Numbered : NumberOf(x)' = NumberOf(x)
    BY <1>1 DEF Numbered, NumberOf
  <2> QED
    BY <1>1, <2>1 DEF NumbersOK
<1> QED
  BY <1>1, <1>2, <1>3, <1>5, <1>6, <1>7, <1>8 DEF IInv, Good, KassertsHold

\* The process p has other contents and an empty queue before and after.
Renewed(p, new) ==
    /\ proc' = [proc EXCEPT ![p] = new] /\ proc[p].thrque = <<>>
    /\ new \in ProcType /\ new.thrque = <<>>

(* What does not change with it.                                           *)
LEMMA RenewedKeeps ==
    ASSUME Good, NEW p \in Procs, NEW new, Renewed(p, new)
    PROVE  /\ proc' \in [Procs -> ProcType] /\ proc'[p] = new /\ SameQueues
           /\ \A q \in Procs \ {p} : proc'[q] = proc[q]
<1>1. proc \in [Procs -> ProcType]
  BY DEF Good, TypeOK
<1>2. /\ proc' \in [Procs -> ProcType] /\ proc'[p] = new
      /\ \A q \in Procs \ {p} : proc'[q] = proc[q]
  BY <1>1 DEF Renewed
<1>3. SameQueues
  BY <1>2 DEF SameQueues, Renewed
<1> QED
  BY <1>2, <1>3

LEMMA AllocateKeeps ==
    ASSUME Good, halted = "no", NEW a \in Actors, NEW p \in Spaces, proc_user_allocate(a, p)
    PROVE  IInv'
<1>1. CASE Ids \ ids = {}
  <2>1. UNCHANGED procVars
    BY <1>1 DEF proc_user_allocate, procVars
  <2>2. IInv
    BY DEF IInv, KassertsHold
  <2> QED
    BY <2>1, <2>2, Unmoved
<1>2. CASE Ids \ ids # {}
  <2> DEFINE i == thr_id_alloc(ids)
             r == [pc |-> "pgtbl", p |-> p, t |-> NoThr]
             new == allocate_process_common(i)
  <2>1. /\ act[a].pc = "idle" /\ p \in Unused /\ proc' = [proc EXCEPT ![p] = new] /\ ids' = ids \cup {i}
        /\ act' = [act EXCEPT ![a] = r] /\ UNCHANGED <<thr, procdb, halted>>
    BY <1>2, Zenon DEF proc_user_allocate, At, Become
  <2>2. i \in Ids \ ids
    BY <1>2, NewNumber
  <2>3. p \in Procs /\ p # KernProc /\ proc[p].id = NoId /\ p \notin Thrs
    BY <2>1, ProcAssumption DEF Procs, Unused
  <2>4. /\ new \in ProcType /\ new.refs = 1 /\ new.thrque = <<>> /\ new.id = i
    BY <2>2 DEF ProcType, allocate_process_common
  <2>5. /\ r \in ActType /\ RowOK(r) /\ r.pc = "pgtbl" /\ r.p = p /\ act[a].p = NoProc
        /\ HeldBy(act[a]) = NoThr /\ HeldBy(r) = NoThr /\ SameThread(act[a], r)
    BY <2>1, <2>3, RowFacts, NumbersOfRefs, ProcAssumption
       DEF ActType, RowOK, HeldBy, PCs, CreatingPCs, OwnPCs, SameThread
  <2> HIDE DEF i, r, new
\* Nobody works on p, and its queue is empty.
  <2> DEFINE n == proc[p].refs
             l == Len(proc[p].thrque)
             u == Using(p)
             c == Cardinality(Creating(p))
             f == Cardinality(Freeing(p))
  <2>6. n = 0 /\ l = 0 /\ u = 0 /\ c = 0 /\ f = 0 /\ Own(p) = 0 /\ p \notin procdb
    <3>1. ProcOK(p) /\ n \in Nat /\ l \in Nat
      BY <2>3, NumbersOfRefs, LenProperties DEF Good, ProcsOK, ProcType
    <3>2. Own(p) = 0 /\ n = 0 /\ n = l + u + Own(p) /\ f = 0 /\ (p \in procdb => n > 0)
      BY <2>3, <3>1 DEF ProcOK, Own
    <3>3. u \in Nat /\ c \in Nat /\ u >= c
      <4>1. Creating(p) \in SUBSET Actors /\ Referring(p) \in SUBSET Actors /\ Between(p) \in SUBSET Actors
        BY DEF Creating, Referring, Between
      <4>2. /\ Cardinality(Creating(p)) \in Nat /\ Cardinality(Referring(p)) \in Nat /\ Cardinality(Between(p)) \in Nat
        BY <4>1, ProcAssumption, FS_Subset, FS_CardinalityType
      <4> QED
        BY <4>2 DEF Using
    <3> HIDE DEF n, l, u, c, f
    <3> QED
      BY <3>1, <3>2, <3>3
  <2>7. Renewed(p, new)
    <3>1. proc[p].thrque \in Seq(Thrs)
      BY <2>3, NumbersOfRefs DEF ProcType
    <3>2. proc[p].thrque = <<>>
      BY <2>6, <3>1, EmptySeq
    <3> QED
      BY <2>1, <2>4, <3>2 DEF Renewed
  <2>8. /\ proc' \in [Procs -> ProcType] /\ proc'[p] = new /\ SameQueues
        /\ \A q \in Procs \ {p} : proc'[q] = proc[q]
    BY <2>3, <2>7, RenewedKeeps
  <2>9. TypeOK' /\ ActOK'
    BY <2>1, <2>2, <2>5, <2>8 DEF Good, TypeOK, ActOK
  <2>10. QueuesOK' /\ ThreadRefs'
    <3>1. r.pc \notin OwnPCs /\ r.pc # "del"
      BY <2>5 DEF OwnPCs
    <3>2. QueuesOK'
      BY <2>1, <2>5, <2>8, <3>1, QueuesKeep
    <3>3. ThreadRefs'
      BY <2>1, <2>5, <2>8, ThreadRefsKeep
    <3> QED
      BY <3>2, <3>3
  <2>11. ProcsOK'
    <3>1. /\ Weight(act[a].pc) = 0 /\ Births(act[a].pc) = 0 /\ Frees(act[a].pc) = 0
          /\ Weight(r.pc) = 1 /\ Births(r.pc) = 1 /\ Frees(r.pc) = 0
      BY <2>1, <2>5 DEF Weight, Births, Frees, CreatingPCs, BetweenPCs, ReferringPCs
    <3>2. proc'[p].refs = 1 /\ proc'[p].id = i /\ i # NoId /\ Len(proc'[p].thrque) = 0 /\ p \notin procdb'
      BY <2>1, <2>2, <2>4, <2>6, <2>8, ProcAssumption, EmptySeq
    <3>3. \A q \in Procs \ {p} :
            /\ proc'[q].refs = proc[q].refs /\ proc'[q].id = proc[q].id /\ proc'[q].thrque = proc[q].thrque
            /\ q \in procdb' <=> q \in procdb
      BY <2>1, <2>8
    <3>4. proc'[p].refs = Len(proc'[p].thrque) + (Using(p) - Weight(act[a].pc) + Weight(r.pc)) + Own(p)
      BY <2>6, <3>1, <3>2
    <3>5. p \in procdb' <=> /\ proc'[p].refs > 0 /\ p # KernProc
                            /\ Cardinality(Creating(p)) - Births(act[a].pc) + Births(r.pc) = 0
      BY <2>6, <3>1, <3>2
    <3>6. /\ Cardinality(Freeing(p)) - Frees(act[a].pc) + Frees(r.pc) =
               IF proc'[p].refs = 0 /\ proc'[p].id # NoId THEN 1 ELSE 0
          /\ Cardinality(Creating(p)) - Births(act[a].pc) + Births(r.pc) <= 1
      BY <2>6, <3>1, <3>2
    <3>7. (proc'[p].id = NoId => proc'[p].refs = 0) /\ (p = KernProc => proc'[p].id = PROC_KERN_PID)
      BY <2>3, <3>2
    <3>8. act[a].p \in {p, NoProc} /\ r.p \in {p, NoProc}
      BY <2>5
    <3>9. act' = [act EXCEPT ![a] = r] /\ r \in ActType /\ RowOK(r) /\ p \in Procs
      BY <2>1, <2>3, <2>5
    <3> HIDE DEF n, l, u, c, f
    <3> QED
      BY <3>3, <3>4, <3>5, <3>6, <3>7, <3>8, <3>9, Recounted
  <2>12. NumbersOK'
    <3>1. p \notin Numbered /\ NumberOf(p)' = i
      BY <2>3, <2>4, <2>8 DEF Numbered, NumberOf
    <3>2. Numbered' = Numbered \cup {p}
      <4>1. i # NoId
        BY <2>2, ProcAssumption
      <4> QED
        BY <2>1, <2>3, <2>4, <2>8, <4>1 DEF Numbered
    <3>3. \A y \in Numbered : NumberOf(y)' = NumberOf(y)
      BY <2>1, <2>8, <3>1 DEF NumberOf, Numbered
    <3> QED
      BY <2>1, <2>2, <3>1, <3>2, <3>3, NumbersAdd DEF Good
  <2> QED
    BY <2>1, <2>9, <2>10, <2>11, <2>12 DEF IInv, Good, KassertsHold
<1> QED
  BY <1>1, <1>2

LEMMA FreeKeeps ==
    ASSUME Good, halted = "no", NEW a \in Actors, Free(a)
    PROVE  IInv'
<1> DEFINE p == act[a].p
           t == act[a].t
           r == [pc |-> IF t = NoThr THEN "idle" ELSE "done", p |-> NoProc, t |-> t]
           n == proc[p].refs
           l == Len(proc[p].thrque)
           u == Using(p)
           c == Cardinality(Creating(p))
           f == Cardinality(Freeing(p))
<1>1. act[a].pc = "free" /\ UNCHANGED <<thr, procdb>>
  BY DEF Free, At
<1>2. p \in Procs
  BY <1>1, RowFacts
<1>3. n = 0 /\ l = 0 /\ u = 0 /\ c = 0 /\ f = 1 /\ Own(p) = 0 /\ proc[p].id # NoId /\ p \notin procdb
  <2>1. ProcOK(p) /\ n \in Nat /\ l \in Nat /\ Own(p) \in Nat
    BY <1>2, NumbersOfRefs, LenProperties DEF Good, ProcsOK, ProcType, Own
  <2>2. f \in Nat /\ f >= 1
    <3>1. Frees(act[a].pc) = 1
      BY <1>1 DEF Frees
    <3> QED
      BY <1>2, <3>1, Counted
  <2>3. n = l + u + Own(p) /\ f = (IF n = 0 /\ proc[p].id # NoId THEN 1 ELSE 0) /\ (p \in procdb => n > 0)
    BY <2>1 DEF ProcOK
  <2>4. u \in Nat /\ c \in Nat /\ u >= c
    <3>1. Creating(p) \in SUBSET Actors /\ Referring(p) \in SUBSET Actors /\ Between(p) \in SUBSET Actors
      BY DEF Creating, Referring, Between
    <3>2. /\ Cardinality(Creating(p)) \in Nat /\ Cardinality(Referring(p)) \in Nat /\ Cardinality(Between(p)) \in Nat
      BY <3>1, ProcAssumption, FS_Subset, FS_CardinalityType
    <3> QED
      BY <3>2 DEF Using
  <2>5. Own(p) \in Nat /\ n \in Nat /\ l \in Nat
    BY <2>1
  <2> DEFINE o == Own(p)
             numbered == proc[p].id # NoId
             intree == p \in procdb
  <2>6. n = l + u + o /\ f = (IF n = 0 /\ numbered THEN 1 ELSE 0) /\ (intree => n > 0) /\ o \in Nat
    BY <2>3, <2>5
  <2> HIDE DEF n, l, u, c, f, o, numbered, intree
  <2>7. n = 0 /\ numbered
    BY <2>2, <2>6
  <2>8. l = 0 /\ u = 0 /\ o = 0 /\ c = 0 /\ f = 1 /\ ~ intree
    BY <2>4, <2>5, <2>6, <2>7
  <2> QED
    BY <2>7, <2>8 DEF o, numbered, intree
<1>4. p # KernProc /\ p \notin Thrs
  BY <1>2, <1>3, ProcAssumption DEF Own, Procs
<1>5. /\ proc' = [proc EXCEPT ![p] = FreeProc] /\ ids' = ids \ {proc[p].id} /\ act' = [act EXCEPT ![a] = r]
      /\ halted' = halted
  <2>1. /\ proc' = [proc EXCEPT ![p] = FreeProc] /\ ids' = ids \ {proc[p].id} /\ Finish(a) /\ halted' = halted
    BY <1>4 DEF Free
  <2> QED
    BY <2>1 DEF Finish, Become
<1>6. /\ r \in ActType /\ RowOK(r) /\ SameThread(act[a], r) /\ r.pc \in {"idle", "done"} /\ r.p = NoProc
      /\ act[a].p = p
  BY <1>1, RowFacts, ProcAssumption DEF ActType, RowOK, SameThread, HeldBy, PCs, OwnPCs, CreatingPCs
<1>7. FreeProc \in ProcType /\ FreeProc.refs = 0 /\ FreeProc.thrque = <<>> /\ FreeProc.id = NoId
  BY DEF FreeProc, ProcType
<1>8. Renewed(p, FreeProc)
  <2>1. proc[p].thrque \in Seq(Thrs)
    BY <1>2, NumbersOfRefs DEF ProcType
  <2>2. proc[p].thrque = <<>>
    BY <1>3, <2>1, EmptySeq
  <2> QED
    BY <1>5, <1>7, <2>2 DEF Renewed
<1> HIDE DEF p, t, r
<1>9. /\ proc' \in [Procs -> ProcType] /\ proc'[p] = FreeProc /\ SameQueues
      /\ \A q \in Procs \ {p} : proc'[q] = proc[q]
  BY <1>2, <1>8, RenewedKeeps
<1>10. TypeOK' /\ ActOK'
  BY <1>1, <1>5, <1>6, <1>9 DEF Good, TypeOK, ActOK
<1>11. QueuesOK' /\ ThreadRefs'
  <2>1. r.pc \notin OwnPCs /\ r.pc # "del" /\ HeldBy(r) = HeldBy(act[a])
    BY <1>6 DEF OwnPCs, SameThread
  <2>2. QueuesOK'
    BY <1>5, <1>6, <1>9, <2>1, QueuesKeep
  <2>3. ThreadRefs'
    BY <1>1, <1>5, <1>6, <1>9, <2>1, ThreadRefsKeep
  <2> QED
    BY <2>2, <2>3
<1>12. ProcsOK'
  <2>1. /\ Weight(act[a].pc) = 0 /\ Births(act[a].pc) = 0 /\ Frees(act[a].pc) = 1
        /\ Weight(r.pc) = 0 /\ Births(r.pc) = 0 /\ Frees(r.pc) = 0
    BY <1>1, <1>6 DEF Weight, Births, Frees, CreatingPCs, BetweenPCs, ReferringPCs
  <2>2. proc'[p].refs = 0 /\ proc'[p].id = NoId /\ Len(proc'[p].thrque) = 0 /\ p \notin procdb'
    BY <1>1, <1>3, <1>7, <1>9, EmptySeq
  <2>3. \A q \in Procs \ {p} :
          /\ proc'[q].refs = proc[q].refs /\ proc'[q].id = proc[q].id /\ proc'[q].thrque = proc[q].thrque
          /\ q \in procdb' <=> q \in procdb
    BY <1>1, <1>9
  <2>4. proc'[p].refs = Len(proc'[p].thrque) + (Using(p) - Weight(act[a].pc) + Weight(r.pc)) + Own(p)
    BY <1>3, <2>1, <2>2
  <2>5. p \in procdb' <=> /\ proc'[p].refs > 0 /\ p # KernProc
                          /\ Cardinality(Creating(p)) - Births(act[a].pc) + Births(r.pc) = 0
    BY <2>2
  <2>6. /\ Cardinality(Freeing(p)) - Frees(act[a].pc) + Frees(r.pc) =
             IF proc'[p].refs = 0 /\ proc'[p].id # NoId THEN 1 ELSE 0
        /\ Cardinality(Creating(p)) - Births(act[a].pc) + Births(r.pc) <= 1
    BY <1>3, <2>1, <2>2
  <2>7. (proc'[p].id = NoId => proc'[p].refs = 0) /\ (p = KernProc => proc'[p].id = PROC_KERN_PID)
    BY <1>4, <2>2
  <2>8. act[a].p \in {p, NoProc} /\ r.p \in {p, NoProc} /\ act' = [act EXCEPT ![a] = r]
    BY <1>5, <1>6
  <2> HIDE DEF n, l, u, c, f
  <2> QED
    BY <1>2, <1>6, <2>3, <2>4, <2>5, <2>6, <2>7, <2>8, Recounted, Zenon
<1>13. NumbersOK'
  <2>1. p \in Numbered /\ NumberOf(p) = proc[p].id
    BY <1>2, <1>3, <1>4 DEF Numbered, NumberOf
  <2>2. Numbered' = Numbered \ {p}
    BY <1>1, <1>4, <1>7, <1>9 DEF Numbered
  <2>3. \A y \in Numbered \ {p} : NumberOf(y)' = NumberOf(y)
    BY <1>1, <1>9 DEF NumberOf, Numbered
  <2> QED
    BY <1>4, <1>5, <2>1, <2>2, <2>3, NumbersDrop DEF Good
<1> QED
  BY <1>5, <1>10, <1>11, <1>12, <1>13 DEF IInv, Good, KassertsHold

(* The table and the stack of a process, or a kernel that stops.           *)
LEMMA TableAndStackKeep ==
    ASSUME Good, halted = "no", NEW a \in Actors, AllocTable(a) \/ MapStack(a)
    PROVE  IInv'
<1>1. act[a].pc \in {"pgtbl", "stack"} /\ UNCHANGED <<proc, procdb, thr, ids>>
  BY DEF AllocTable, MapStack, At
<1>2. CASE AllocTable(a)
  <2>1. halted' = "tables" \/ (Go(a, "stack") /\ UNCHANGED halted)
    BY <1>2 DEF AllocTable
  <2>2. CASE halted' = "tables"
    BY <2>2 DEF IInv, KassertsHold
  <2>3. CASE Go(a, "stack") /\ UNCHANGED halted
    BY <1>1, <2>3, CreationGoesOn
  <2> QED
    BY <2>1, <2>2, <2>3
<1>3. CASE MapStack(a)
  <2>1. halted' \in {"tables", "unwind"} \/ (Go(a, "first") /\ UNCHANGED halted)
    BY <1>3 DEF MapStack
  <2>2. CASE halted' \in {"tables", "unwind"}
    BY <2>2 DEF IInv, KassertsHold
  <2>3. CASE Go(a, "first") /\ UNCHANGED halted
    BY <1>1, <2>3, CreationGoesOn
  <2> QED
    BY <2>1, <2>2, <2>3
<1> QED
  BY <1>2, <1>3

LEMMA ThreadsMadeKeep ==
    ASSUME Good, halted = "no", NEW a \in Actors, NEW t \in Thrs, FirstThread(a, t) \/ CreateThread(a, t)
    PROVE  IInv'
<1>1. CASE FirstThread(a, t) /\ ~ CanCreate
  BY <1>1 DEF FirstThread, IInv, KassertsHold
<1>2. CASE FirstThread(a, t) /\ CanCreate
  <2>1. /\ act[a].pc = "first" /\ create_thread(t) /\ Become(a, "enter", act[a].p, t)
        /\ UNCHANGED <<proc, procdb, halted>>
    BY <1>2 DEF FirstThread, At
  <2> QED
    BY <1>2, <2>1, CreateKeeps
<1>3. CASE CreateThread(a, t)
  <2>1. /\ act[a].pc = "hold" /\ CanCreate /\ create_thread(t) /\ Become(a, "made", act[a].p, t)
        /\ UNCHANGED <<proc, procdb, halted>>
    BY <1>3 DEF CreateThread, At
  <2> QED
    BY <2>1, CreateKeeps
<1> QED
  BY <1>1, <1>2, <1>3

-----------------------------------------------------------------------------
(* The invariant.                                                          *)

LEMMA InitGood ==
    ASSUME ProcInit
    PROVE  IInv
<1>1. /\ proc = init_kernel_process /\ thr = [t \in Thrs |-> FreeThr] /\ ids = Reserved /\ procdb = {}
      /\ act = [a \in Actors |-> Idle] /\ halted \in {"no", "off"}
  BY DEF ProcInit
<1>2. \A p \in Procs : proc[p] = IF p = KernProc THEN allocate_process_common(PROC_KERN_PID) ELSE FreeProc
  BY <1>1 DEF init_kernel_process
<1>3. PROC_KERN_PID \in Ids /\ NoId # PROC_KERN_PID
  BY ProcAssumption
<1>4. /\ \A p \in Procs : /\ proc[p].thrque = <<>> /\ proc[p].refs = Own(p)
                          /\ proc[p].id = IF p = KernProc THEN PROC_KERN_PID ELSE NoId
      /\ \A t \in Thrs : thr[t] = FreeThr /\ thr[t].refs = 0
  BY <1>1, <1>2 DEF allocate_process_common, FreeProc, FreeThr, Own
<1>5. \A a \in Actors : act[a] = Idle /\ act[a].pc = "idle" /\ act[a].p = NoProc /\ act[a].t = NoThr
  BY <1>1 DEF Idle
<1>6. TypeOK
  <2>1. allocate_process_common(PROC_KERN_PID) \in ProcType /\ FreeProc \in ProcType
    BY <1>3 DEF allocate_process_common, FreeProc, ProcType
  <2>2. FreeThr \in ThrType
    BY DEF FreeThr, ThrType
  <2>3. Idle \in ActType
    BY DEF Idle, ActType, PCs
  <2>4. proc \in [Procs -> ProcType]
    BY <1>1, <2>1 DEF init_kernel_process
  <2> QED
    BY <1>1, <2>2, <2>3, <2>4, ProcAssumption DEF TypeOK
<1>7. ActOK
  BY <1>5 DEF ActOK, RowOK, CreatingPCs
<1>8. Queued = {} /\ \A p \in Procs : Range(proc[p].thrque) = {}
  <2>1. Range(<<>>) = {}
    BY DEF Range
  <2> QED
    BY <1>4, <2>1 DEF Queued
<1>9. QueuesOK
  <2>1. IsInjective(<<>>)
    BY DEF IsInjective
  <2>2. \A a \in Actors : act[a].pc \notin OwnPCs /\ act[a].pc # "del"
    BY <1>5 DEF OwnPCs
  <2> QED
    BY <1>4, <1>8, <2>1, <2>2 DEF QueuesOK
<1>10. ThreadRefs
  <2>1. \A t \in Thrs : Holding(t) = {}
    BY <1>5, ProcAssumption DEF Holding, HeldBy
  <2>2. Cardinality({}) = 0
    BY FS_EmptySet
  <2>3. ASSUME NEW t \in Thrs
        PROVE  thr[t].refs = Cardinality(Holding(t)) + IF t \in Queued THEN 1 ELSE 0
    <3>1. thr[t].refs = 0 /\ t \notin Queued /\ Cardinality(Holding(t)) = 0
      BY <1>4, <1>8, <2>1, <2>2
    <3> QED
      BY <3>1
  <2> QED
    BY <2>3 DEF ThreadRefs
<1>11. ProcsOK
  <2> SUFFICES ASSUME NEW p \in Procs PROVE ProcOK(p)
    BY DEF ProcsOK
  <2>1. p # NoProc
    BY ProcAssumption DEF Procs
  <2>2. Creating(p) = {} /\ Referring(p) = {} /\ Between(p) = {} /\ Freeing(p) = {}
    BY <1>5, <2>1 DEF Creating, Referring, Between, Freeing
  <2>3. Cardinality({}) = 0
    BY FS_EmptySet
  <2>4. Using(p) = 0 /\ Cardinality(Creating(p)) = 0 /\ Cardinality(Freeing(p)) = 0
    BY <2>2, <2>3 DEF Using
  <2>5. proc[p].refs = Own(p) /\ Len(proc[p].thrque) = 0 /\ p \notin procdb
    BY <1>1, <1>4, EmptySeq
  <2>6. CASE p = KernProc
    BY <1>3, <1>4, <2>4, <2>5, <2>6 DEF ProcOK, Own
  <2>7. CASE p # KernProc
    BY <1>4, <2>4, <2>5, <2>7 DEF ProcOK, Own
  <2> QED
    BY <2>6, <2>7
<1>12. NumbersOK
  <2>1. Numbered = {KernProc} /\ NumberOf(KernProc) = PROC_KERN_PID
    <3>1. KernProc \in Procs /\ KernProc \notin Thrs
      BY ProcAssumption DEF Procs
    <3> QED
      BY <1>3, <1>4, <3>1 DEF Numbered, NumberOf
  <2> QED
    BY <1>1, <2>1, ProcAssumption DEF NumbersOK
<1> QED
  BY <1>1, <1>6, <1>7, <1>9, <1>10, <1>11, <1>12 DEF IInv, Good, KassertsHold

LEMMA StepGood ==
    ASSUME IInv, ProcStep
    PROVE  IInv'
<1>1. CASE ProcHalt
  <2>1. UNCHANGED procVars
    BY <1>1 DEF ProcHalt, procVars
  <2> QED
    BY <2>1, Unmoved
<1>2. ASSUME NEW t \in Thrs, Reap(t) PROVE IInv'
  <2>1. Good
    BY <1>2 DEF Reap, IInv
  <2> QED
    BY <1>2, <2>1, ReapKeeps
<1>3. ASSUME NEW a \in Actors, Creates(a) PROVE IInv'
  <2>1. Good /\ halted = "no"
    BY <1>3 DEF Creates, proc_user_allocate, FirstThread, CreateThread, AllocTable, MapStack, Enter, At, IInv
  <2>2. ASSUME NEW p \in Spaces, proc_user_allocate(a, p) PROVE IInv'
    BY <2>1, <2>2, AllocateKeeps
  <2>3. ASSUME NEW t \in Thrs, FirstThread(a, t) \/ CreateThread(a, t) PROVE IInv'
    BY <2>1, <2>3, ThreadsMadeKeep
  <2>4. CASE AllocTable(a) \/ MapStack(a)
    BY <2>1, <2>4, TableAndStackKeep
  <2>5. CASE Enter(a)
    BY <2>1, <2>5, EnterKeeps
  <2> QED
    BY <1>3, <2>2, <2>3, <2>4, <2>5 DEF Creates
<1>4. ASSUME NEW a \in Actors, Lookups(a) PROVE IInv'
  <2>1. Good /\ halted = "no"
    BY <1>4 DEF Lookups, proc_find_by_pid, proc_find_thread, Find, Take, TakeKernel, proc_kproc_refer, Put, ReadMaster,
                RefMaster, UnrefProc, At, IInv
  <2>2. CASE \/ TakeKernel(a)
             \/ \E b \in Actors : Take(a, b)
             \/ \E i \in Ids : proc_find_by_pid(a, i) \/ proc_find_thread(a, i)
    BY <2>1, <2>2, LookupKeeps
  <2>3. CASE Put(a)
    <3>1. act[a].pc \in {"hold", "leave"} /\ proc_ref_dec(a, act[a].p) /\ UNCHANGED <<thr, ids>>
      BY <2>3 DEF Put, At
    <3> QED
      BY <2>1, <3>1, RefDecKeeps
  <2>4. CASE ReadMaster(a)
    BY <2>1, <2>4, ReadMasterKeeps
  <2>5. CASE RefMaster(a)
    BY <2>1, <2>5, RefMasterKeeps
  <2>6. CASE UnrefProc(a)
    BY <2>1, <2>6, UnrefProcKeeps
  <2> QED
    BY <1>4, <2>2, <2>3, <2>4, <2>5, <2>6 DEF Lookups
<1>5. ASSUME NEW a \in Actors, Changes(a) PROVE IInv'
  <2>1. Good /\ halted = "no"
    BY <1>5 DEF Changes, proc_del_thread, proc_add_thread, AddToQueue, DelFromQueue, DropThreadRef, UpdateMaster,
                Leave, Free, thr_ref_dec, At, IInv
  <2>2. ASSUME NEW p \in Procs, NEW t \in Thrs, proc_del_thread(a, p, t) PROVE IInv'
    BY <2>1, <2>2, DelThreadKeeps
  <2>3. CASE proc_add_thread(a)
    BY <2>1, <2>3, AddThreadKeeps
  <2>4. CASE AddToQueue(a)
    BY <2>1, <2>4, AddToQueueKeeps
  <2>5. CASE DelFromQueue(a)
    BY <2>1, <2>5, DelFromQueueKeeps
  <2>6. CASE DropThreadRef(a)
    BY <2>1, <2>6, DropThreadRefKeeps
  <2>7. CASE UpdateMaster(a)
    BY <2>1, <2>7, UpdateMasterKeeps
  <2>8. CASE Leave(a)
    <3>1. act[a].pc \in {"hold", "leave"} /\ proc_ref_dec(a, act[a].p) /\ UNCHANGED <<thr, ids>>
      BY <2>8 DEF Leave, At
    <3> QED
      BY <2>1, <3>1, RefDecKeeps
  <2>9. CASE Free(a)
    BY <2>1, <2>9, FreeKeeps
  <2>10. CASE thr_ref_dec(a)
    BY <2>1, <2>10, ThrRefDecKeeps
  <2> QED
    BY <1>5, <2>2, <2>3, <2>4, <2>5, <2>6, <2>7, <2>8, <2>9, <2>10 DEF Changes
<1> QED
  BY <1>1, <1>2, <1>3, <1>4, <1>5 DEF ProcStep

(* Every reachable state satisfies the invariant: while the kernel runs,   *)
(* the references of processes and of threads, the queues and the numbers  *)
(* agree with what the clients are doing.                                  *)
THEOREM ProcInvariance == ProcSpec => []IInv
<1>1. ProcInit => IInv
  BY InitGood
<1>2. IInv /\ [ProcStep]_<<vmVars, procVars>> => IInv'
  BY StepGood, Unmoved
<1> QED
  BY <1>1, <1>2, PTL DEF ProcSpec

(* The references of a process are those of its threads, of the calls that *)
(* work on it and the kernel's own; it is in the tree while it has any,    *)
(* and one call frees it (proc_ref_inc, proc_ref_dec, proc_add_thread,     *)
(* proc_del_thread), for any number of processes, threads and clients.     *)
THEOREM ProcRefsAlwaysExact == ProcSpec => []ProcRefsExact
<1>1. IInv => ProcRefsExact
  <2> SUFFICES ASSUME Good, NEW p \in Procs PROVE RefsExact(p)
    BY DEF IInv, ProcRefsExact
  <2>1. ProcOK(p)
    BY DEF Good, ProcsOK
  <2>2. Cardinality(Creating(p)) = 0 <=> Creating(p) = {}
    <3>1. Creating(p) \in SUBSET Actors
      BY DEF Creating
    <3>2. IsFiniteSet(Creating(p))
      BY <3>1, ProcAssumption, FS_Subset
    <3> QED
      BY <3>2, FS_EmptySet
  <2>3. proc[p].refs = Len(proc[p].thrque) + Cardinality(Creating(p)) + Cardinality(Referring(p))
                         + Cardinality(Between(p)) + Own(p)
    <3> DEFINE l == Len(proc[p].thrque)
               c == Cardinality(Creating(p))
               f == Cardinality(Referring(p))
               b == Cardinality(Between(p))
    <3>1. l \in Nat /\ c \in Nat /\ f \in Nat /\ b \in Nat /\ Own(p) \in Nat
      <4>1. Creating(p) \in SUBSET Actors /\ Referring(p) \in SUBSET Actors /\ Between(p) \in SUBSET Actors
        BY DEF Creating, Referring, Between
      <4>2. c \in Nat /\ f \in Nat /\ b \in Nat
        BY <4>1, ProcAssumption, FS_Subset, FS_CardinalityType
      <4> QED
        BY <4>2, NumbersOfRefs, LenProperties DEF ProcType, Own
    <3>2. proc[p].refs = l + (c + f + b) + Own(p)
      BY <2>1 DEF ProcOK, Using
    <3> HIDE DEF l, c, f, b
    <3>3. proc[p].refs = l + c + f + b + Own(p)
      BY <3>1, <3>2
    <3> QED
      BY <3>3 DEF l, c, f, b
  <2> QED
    BY <2>1, <2>2, <2>3 DEF ProcOK, RefsExact
<1> QED
  BY <1>1, ProcInvariance, PTL

(* A number in use belongs to one process or thread, and is not given out  *)
(* again until it is given back (thr_id_alloc, thr_id_release).            *)
THEOREM NumbersAlwaysUnique == ProcSpec => []NumbersUnique
<1>1. IInv => NumbersUnique
  BY DEF IInv, Good, NumbersOK, NumbersUnique
<1> QED
  BY <1>1, ProcInvariance, PTL

(* The kasserts of creation, of release and of a thread that ends hold.    *)
THEOREM KassertsAlwaysHold == ProcSpec => []KassertsHold
<1>1. IInv => KassertsHold
  BY DEF IInv
<1> QED
  BY <1>1, ProcInvariance, PTL

-----------------------------------------------------------------------------
(* The page tables.  The invariant gives every frame that is a table its   *)
(* level, L, and a page that is looked up through it, R; for other frames  *)
(* L is -1.                                                                *)

IndexesOf(l) == 0 .. (IF l = 2 THEN KernelIndex ELSE PerTable) - 1
EntriesType == [bits : SUBSET {"V", "R", "W", "X", "U", "A", "D"}, ppn : Int]

TableType == [0 .. Top - 1 -> EntriesType]
\* The record of the tables and pages; what the pages contain does not matter.
IsRecord(w) == w = [use |-> w.use, len |-> w.len, pte |-> w.pte, word |-> w.word, base |-> w.base,
                    nr |-> w.nr, panic |-> w.panic]
Shape(u) ==
    /\ IsRecord(u)
    /\ u.use \in [Frames -> Nat] /\ u.len \in [Frames -> Nat] /\ u.panic \in BOOLEAN
    /\ u.pte \in [Frames -> TableType]
    /\ u.base \in [Spaces -> Frames \cup {NoFrame}]

ValidIn(u, f, l) == {i \in IndexesOf(l) : RV64_PTE_IS_VALID(u.pte[f][i])}
LeafAt(u, f, i) == RV64_PTE_IS_LEAF(u.pte[f][i])
AimOf(u, f, i) == u.pte[f][i].ppn

\* The page R[f] leads to the table f; an entry agrees with the pages below it.
LeadsTo(q, R, f, l, i) == Agree(q, R[f], l + 1) /\ rv64_pgtbl_calc_index_val(q, l) = i
EntryOK(u, L, R, f, i) ==
    LET t == AimOf(u, f, i)
    IN  /\ t \in Frames
        /\ LeafAt(u, f, i) => L[t] = -1 /\ \E q \in RegionPages(L[f]) : LeadsTo(q, R, f, L[f], i)
        /\ ~ LeafAt(u, f, i) => L[f] >= 1 /\ L[t] = L[f] - 1 /\ LeadsTo(R[t], R, f, L[f], i)
TableOK(u, L, R, f) ==
    /\ u.len[f] = 1 /\ u.use[f] = 1 + Cardinality(ValidIn(u, f, L[f]))
    /\ L[f] < 2 => \E k \in 0 .. L[f] : R[f] \in RegionPages(k)
    /\ \A i \in ValidIn(u, f, L[f]) : EntryOK(u, L, R, f, i)

IsTable(L, f) == f \in Frames /\ L[f] # -1
BasesOK(u, L) ==
    /\ \A s \in Spaces : u.base[s] # NoFrame => L[u.base[s]] = 2
    /\ \A s, z \in Spaces : u.base[s] = u.base[z] /\ u.base[s] # NoFrame => s = z
AimsApart(u, L) ==
    \A f, g \in Frames : IsTable(L, f) /\ IsTable(L, g) =>
      \A i \in ValidIn(u, f, L[f]), j \in ValidIn(u, g, L[g]) :
        AimOf(u, f, i) = AimOf(u, g, j) => f = g /\ i = j
Tree(u, L, R) ==
    /\ Shape(u) /\ L \in [Frames -> -1 .. 2] /\ R \in [Frames -> Int]
    /\ BasesOK(u, L) /\ AimsApart(u, L)
    /\ \A f \in Frames : L[f] # -1 => TableOK(u, L, R, f)

\* The pages that are mapped, except those of X, are counted once.
LeavesOK(u, L, X) ==
    \A f \in Frames : L[f] # -1 => \A i \in ValidIn(u, f, L[f]) :
      LeafAt(u, f, i) /\ AimOf(u, f, i) \notin X =>
        /\ u.use[AimOf(u, f, i)] = 1
        /\ u.len[AimOf(u, f, i)] = rv64_pgtbl_calc_pagesize(L[f])

Unaimed(u, L, t) == \A f \in Frames : L[f] # -1 => \A i \in ValidIn(u, f, L[f]) : AimOf(u, f, i) # t
\* A frame that is in use by itself and not mapped yet.
Loose(u, L, t, n) == t \in Frames /\ L[t] = -1 /\ Unaimed(u, L, t) /\ u.use[t] = 1 /\ u.len[t] = n /\ n # 0

\* The invariant with the pages X that are mapped and not counted, and the
\* cluster h of n pages that is not mapped yet.
Kept(u, L, h, n) == h = NoFrame \/ Loose(u, L, h, n)
Sound(u, L, R, X, h, n) == Tree(u, L, R) /\ LeavesOK(u, L, X) /\ Kept(u, L, h, n)

-----------------------------------------------------------------------------

(* What the assumption on the sizes of tables gives.                       *)
LEMMA PageTableFacts ==
    /\ PerTable \in Nat /\ PerTable >= 2 /\ Top \in Nat /\ Top >= 2 /\ PerTable <= Top
    /\ IsFiniteSet(Frames) /\ Frames \subseteq Nat /\ NoFrame \notin Frames /\ KernelIndex \in Nat
    /\ \A l \in 0 .. 2 : IndexesOf(l) \subseteq 0 .. Top - 1
<1>1. Frames \subseteq Nat /\ IsFiniteSet(Frames)
  BY PageTableAssumption, FS_CardinalityType
<1> QED
  BY <1>1, PageTableAssumption DEF NoFrame, KernelIndex, IndexesOf

(* The sizes of pages by level.                                            *)
LEMMA PageSizeIs ==
    /\ rv64_pgtbl_calc_pagesize(0) = 1 /\ rv64_pgtbl_calc_pagesize(1) = PerTable
    /\ rv64_pgtbl_calc_pagesize(2) = PerTable * PerTable
    /\ \A l \in 0 .. 2 : rv64_pgtbl_calc_pagesize(l) \in Nat /\ rv64_pgtbl_calc_pagesize(l) >= 1
<1>1. /\ rv64_pgtbl_calc_pagesize(0) = 1 /\ rv64_pgtbl_calc_pagesize(1) = PerTable
      /\ rv64_pgtbl_calc_pagesize(2) = PerTable * PerTable
  BY DEF rv64_pgtbl_calc_pagesize
<1>2. PerTable * PerTable \in Nat /\ PerTable * PerTable >= 1
  BY PageTableFacts
<1>3. \A l \in 0 .. 2 : l = 0 \/ l = 1 \/ l = 2
  OBVIOUS
<1> QED
  BY <1>1, <1>2, <1>3, PageTableFacts

\* An address of a user has an entry of a user at every level.
LEMMA IndexIs ==
    ASSUME NEW p \in UserPages, NEW l \in 0 .. 2
    PROVE  rv64_pgtbl_calc_index_val(p, l) \in IndexesOf(l)
<1> DEFINE n == rv64_pgtbl_calc_pagesize(l)
           q == p \div n
<1>1. n \in Nat /\ n >= 1 /\ p \in Nat /\ (l = 2 => p < (Top - 1) * n)
  BY PageSizeIs, PageTableFacts DEF UserPages
<1>2. q \in Nat /\ p = n * q + (p % n) /\ p % n \in 0 .. n - 1
  <2> HIDE DEF n
  <2> QED
    BY <1>1
<1>3. rv64_pgtbl_calc_index_val(p, l) = q % (IF l = 2 THEN Top ELSE PerTable)
  BY DEF rv64_pgtbl_calc_index_val
<1> HIDE DEF n, q
<1>4. CASE l = 2
  <2>1. q < Top - 1
    <3> SUFFICES ASSUME q >= Top - 1 PROVE FALSE
      BY <1>2, PageTableFacts
    <3> DEFINE d == q - (Top - 1)
    <3>1. d \in Nat /\ q = d + (Top - 1) /\ Top - 1 \in Nat
      BY <1>2, PageTableFacts
    <3> HIDE DEF d
    <3>2. n * q = n * d + (Top - 1) * n
      BY <1>1, <3>1
    <3>3. n * d \in Nat
      BY <1>1, <3>1
    <3>4. (Top - 1) * n \in Nat /\ n * q \in Nat
      BY <1>1, <3>1, <1>2
    <3> QED
      BY <1>1, <1>2, <1>4, <3>2, <3>3, <3>4
  <2>2. q % Top = q
    BY <1>2, <2>1, PageTableFacts
  <2> QED
    BY <1>2, <1>3, <1>4, <2>1, <2>2, PageTableFacts DEF IndexesOf, KernelIndex
<1>5. CASE l # 2
  <2>1. q % PerTable \in 0 .. PerTable - 1
    BY <1>2, PageTableFacts
  <2> QED
    BY <1>3, <1>5, <2>1 DEF IndexesOf
<1> QED
  BY <1>4, <1>5

(* A table has finitely many entries.                                      *)
LEMMA ValidFinite ==
    ASSUME NEW u, NEW f, NEW l \in 0 .. 2
    PROVE  IsFiniteSet(ValidIn(u, f, l)) /\ Cardinality(ValidIn(u, f, l)) \in Nat /\ ValidIn(u, f, l) \subseteq 0 .. Top - 1
<1>1. ValidIn(u, f, l) \subseteq 0 .. Top - 1
  BY PageTableFacts DEF ValidIn
<1>2. IsFiniteSet(0 .. Top - 1)
  BY PageTableFacts, FS_Interval
<1> QED
  BY <1>1, <1>2, FS_Subset, FS_CardinalityType

-----------------------------------------------------------------------------
(* What the operators do to the record.                                    *)

SameBase(u, w) == w.base = u.base /\ w.panic = u.panic
SameFrame(u, w, g) == w.use[g] = u.use[g] /\ w.len[g] = u.len[g] /\ w.pte[g] = u.pte[g]
OnlyFrame(u, w, f) == Shape(w) /\ SameBase(u, w) /\ \A g \in Frames : g # f => SameFrame(u, w, g)

(* An empty entry is not valid, and an empty table has nothing else.       *)
LEMMA EmptyIs ==
    /\ Empty \in EntriesType /\ NoTable \in TableType
    /\ ~ RV64_PTE_IS_VALID(Empty) /\ \A i \in 0 .. Top - 1 : NoTable[i] = Empty
BY DEF Empty, EntriesType, NoTable, TableType, RV64_PTE_IS_VALID

\* The frame f of a record is given other contents.
Becomes(u, w, f, n, m, t) ==
    /\ w.use = [u.use EXCEPT ![f] = n] /\ w.len = [u.len EXCEPT ![f] = m] /\ w.pte = [u.pte EXCEPT ![f] = t]
    /\ w.base = u.base /\ w.panic = u.panic /\ IsRecord(w)
Became(u, w, f, n, m, t) == OnlyFrame(u, w, f) /\ w.use[f] = n /\ w.len[f] = m /\ w.pte[f] = t

(* A record that is written at one frame.                                  *)
LEMMA SetIs ==
    ASSUME NEW u, Shape(u), NEW f \in Frames, NEW n \in Nat, NEW m \in Nat, NEW t \in TableType,
           NEW w, Becomes(u, w, f, n, m, t)
    PROVE  Became(u, w, f, n, m, t)
<1>0. /\ w.use = [u.use EXCEPT ![f] = n] /\ w.len = [u.len EXCEPT ![f] = m] /\ w.pte = [u.pte EXCEPT ![f] = t]
      /\ w.base = u.base /\ w.panic = u.panic /\ IsRecord(w)
  BY DEF Becomes
<1>1. /\ u.use \in [Frames -> Nat] /\ u.len \in [Frames -> Nat] /\ u.panic \in BOOLEAN
      /\ u.pte \in [Frames -> TableType]
      /\ u.base \in [Spaces -> Frames \cup {NoFrame}]
  BY DEF Shape
<1>2. w.use \in [Frames -> Nat] /\ w.len \in [Frames -> Nat]
  BY <1>0, <1>1
<1>3. w.pte \in [Frames -> TableType]
  BY <1>0, <1>1
<1>4. Shape(w)
  BY <1>0, <1>1, <1>2, <1>3 DEF Shape
<1>5. \A g \in Frames : g # f => SameFrame(u, w, g)
  BY <1>0, <1>1 DEF SameFrame
<1>6. w.use[f] = n /\ w.len[f] = m /\ w.pte[f] = t
  BY <1>0, <1>1
<1> QED
  BY <1>0, <1>4, <1>5, <1>6 DEF Became, OnlyFrame, SameBase

(* What a record of the right shape has at a frame.                        *)
LEMMA FieldTypes ==
    ASSUME NEW u, Shape(u), NEW f \in Frames
    PROVE  /\ u.use[f] \in Nat /\ u.len[f] \in Nat /\ u.pte[f] \in TableType
           /\ u.use = [u.use EXCEPT ![f] = u.use[f]] /\ u.len = [u.len EXCEPT ![f] = u.len[f]]
           /\ u.pte = [u.pte EXCEPT ![f] = u.pte[f]]
BY DEF Shape

(* The shape includes the fields.                                          *)
LEMMA ShapeIs == ASSUME NEW u, Shape(u) PROVE IsRecord(u)
BY DEF Shape

(* pfdb_dec_page_use_count: one use less; the last one frees.              *)
LEMMA DecIs ==
    ASSUME NEW u, Shape(u), NEW f \in Frames, u.use[f] >= 1, NEW w, w = pfdb_dec_page_use_count(u, f)
    PROVE  /\ OnlyFrame(u, w, f) /\ w.use[f] = u.use[f] - 1
           /\ u.use[f] > 1 => w.len[f] = u.len[f] /\ w.pte[f] = u.pte[f]
           /\ u.use[f] = 1 => w.pte[f] = NoTable /\ w.len[f] = 0
<1>1. /\ u.use[f] \in Nat /\ u.len[f] \in Nat /\ u.pte[f] \in TableType
      /\ u.len = [u.len EXCEPT ![f] = u.len[f]] /\ u.pte = [u.pte EXCEPT ![f] = u.pte[f]] /\ IsRecord(u)
  BY FieldTypes, ShapeIs
<1>2. CASE u.use[f] > 1
  <2>1. w = [u EXCEPT !.use[f] = @ - 1]
    BY <1>2 DEF pfdb_dec_page_use_count
  <2>2. /\ w.use = [u.use EXCEPT ![f] = u.use[f] - 1] /\ w.len = u.len /\ w.pte = u.pte
        /\ w.base = u.base /\ w.panic = u.panic /\ IsRecord(w)
    BY <1>1, <2>1 DEF IsRecord
  <2>3. Becomes(u, w, f, u.use[f] - 1, u.len[f], u.pte[f])
    BY <1>1, <2>2 DEF Becomes
  <2>4. u.use[f] - 1 \in Nat
    BY <1>1, <1>2
  <2>5. Became(u, w, f, u.use[f] - 1, u.len[f], u.pte[f])
    BY <1>1, <2>3, <2>4, SetIs
  <2> QED
    BY <1>2, <2>5 DEF Became
<1>3. CASE u.use[f] = 1
  <2> DEFINE x == [g \in Frames |-> IF g \in f .. f + u.len[f] - 1 THEN Zeroed ELSE u.word[g]]
  <2>1. w = [u EXCEPT !.use[f] = 0, !.len[f] = 0, !.pte[f] = NoTable, !.word = x]
    BY <1>3 DEF pfdb_dec_page_use_count, kassert
  <2> HIDE DEF x
  <2>2. Becomes(u, w, f, 0, 0, NoTable)
    BY <1>1, <2>1 DEF Becomes, IsRecord
  <2>3. NoTable \in TableType /\ 0 \in Nat
    BY EmptyIs
  <2>4. Became(u, w, f, 0, 0, NoTable)
    BY <2>2, <2>3, SetIs
  <2> QED
    BY <1>3, <2>4 DEF Became
<1> QED
  BY <1>1, <1>2, <1>3

(* Unlink: an entry is cleared and taken off the count of its table.       *)
LEMMA UnlinkIs ==
    ASSUME NEW u, Shape(u), NEW f \in Frames, NEW i \in 0 .. Top - 1, u.use[f] > 1, NEW w, w = Unlink(u, f, i)
    PROVE  /\ OnlyFrame(u, w, f) /\ w.use[f] = u.use[f] - 1 /\ w.len[f] = u.len[f]
           /\ w.pte[f] = [u.pte[f] EXCEPT ![i] = Empty]
<1>1. /\ u.use[f] \in Nat /\ u.len[f] \in Nat /\ u.pte[f] \in TableType
      /\ u.len = [u.len EXCEPT ![f] = u.len[f]] /\ IsRecord(u)
  BY FieldTypes, ShapeIs
<1> DEFINE t == [u.pte[f] EXCEPT ![i] = Empty]
           y == [u EXCEPT !.pte = [u.pte EXCEPT ![f] = t]]
<1>2. t \in TableType
  BY <1>1, EmptyIs DEF TableType
<1>3. [u EXCEPT !.pte[f][i] = Empty] = y
  BY <1>1 DEF IsRecord
<1> HIDE DEF t
<1>4. /\ y.use = u.use /\ y.len = u.len /\ y.pte = [u.pte EXCEPT ![f] = t]
      /\ y.base = u.base /\ y.panic = u.panic /\ IsRecord(y)
  BY <1>1 DEF IsRecord
<1> HIDE DEF y
<1>5. w = pfdb_dec_page_use_count(y, f)
  BY <1>3 DEF Unlink
<1>6. w = [y EXCEPT !.use[f] = @ - 1]
  BY <1>4, <1>5 DEF pfdb_dec_page_use_count
<1>7. Becomes(u, w, f, u.use[f] - 1, u.len[f], t)
  BY <1>1, <1>4, <1>6 DEF Becomes, IsRecord
<1>8. u.use[f] - 1 \in Nat
  BY <1>1
<1>9. Became(u, w, f, u.use[f] - 1, u.len[f], t)
  BY <1>1, <1>2, <1>7, <1>8, SetIs
<1> QED
  BY <1>9 DEF t, Became

\* An entry is added to a table.
PutEntry(u, f, i, e) == [pfdb_inc_page_use_count(u, f) EXCEPT !.pte[f][i] = e]

(* The other way round: an entry is written and counted.                   *)
LEMMA LinkIs ==
    ASSUME NEW u, Shape(u), NEW f \in Frames, NEW i \in 0 .. Top - 1, u.use[f] >= 1, NEW e \in EntriesType,
           NEW w, w = PutEntry(u, f, i, e)
    PROVE  /\ OnlyFrame(u, w, f) /\ w.use[f] = u.use[f] + 1 /\ w.len[f] = u.len[f]
           /\ w.pte[f] = [u.pte[f] EXCEPT ![i] = e]
<1>1. /\ u.use[f] \in Nat /\ u.len[f] \in Nat /\ u.pte[f] \in TableType
      /\ u.len = [u.len EXCEPT ![f] = u.len[f]] /\ IsRecord(u)
  BY FieldTypes, ShapeIs
<1> DEFINE t == [u.pte[f] EXCEPT ![i] = e]
           y == [u EXCEPT !.use[f] = @ + 1]
<1>2. t \in TableType
  BY <1>1 DEF TableType
<1>3. u.use[f] > 0
  BY <1>1
<1>4. pfdb_inc_page_use_count(u, f) = y
  BY <1>3 DEF pfdb_inc_page_use_count, kassert
<1>5. /\ y.use = [u.use EXCEPT ![f] = u.use[f] + 1] /\ y.len = u.len /\ y.pte = u.pte
      /\ y.base = u.base /\ y.panic = u.panic /\ IsRecord(y)
  BY <1>1 DEF IsRecord
<1> HIDE DEF y
<1>6. w = [y EXCEPT !.pte[f][i] = e]
  BY <1>4 DEF PutEntry
<1>7. w = [y EXCEPT !.pte = [u.pte EXCEPT ![f] = t]]
  BY <1>5, <1>6 DEF IsRecord
<1> HIDE DEF t
<1>8. Becomes(u, w, f, u.use[f] + 1, u.len[f], t)
  BY <1>1, <1>5, <1>7 DEF Becomes, IsRecord
<1>9. u.use[f] + 1 \in Nat
  BY <1>1
<1>10. Became(u, w, f, u.use[f] + 1, u.len[f], t)
  BY <1>1, <1>2, <1>8, <1>9, SetIs
<1> QED
  BY <1>10 DEF t, Became

(* get_free_page_cluster: one frame is written, with an empty table.       *)
LEMMA AllocIs ==
    ASSUME NEW u, Shape(u), NEW h \in Frames, NEW n \in Nat, NEW w, w = get_free_page_cluster(u, h, n)
    PROVE  OnlyFrame(u, w, h) /\ w.use[h] = 1 /\ w.len[h] = n /\ w.pte[h] = NoTable
<1> DEFINE x == [f \in Frames |-> IF f \in h .. h + n - 1 THEN Zeroed ELSE u.word[f]]
<1>1. w = [u EXCEPT !.use[h] = 1, !.len[h] = n, !.pte[h] = NoTable, !.word = x]
  BY DEF get_free_page_cluster
<1> HIDE DEF x
<1>2. IsRecord(u)
  BY ShapeIs
<1>3. Becomes(u, w, h, 1, n, NoTable)
  BY <1>1, <1>2 DEF Becomes, IsRecord
<1>4. NoTable \in TableType /\ 1 \in Nat
  BY EmptyIs
<1>5. Became(u, w, h, 1, n, NoTable)
  BY <1>3, <1>4, SetIs
<1> QED
  BY <1>5 DEF Became

\* Words and the number of pages do not matter.
Alike(u, w) == Shape(w) /\ SameBase(u, w) /\ \A g \in Frames : SameFrame(u, w, g)

(* Bytes and numbers of pages are no part of the tables.                   *)
LEMMA AlikeIs ==
    ASSUME NEW u, Shape(u), NEW x
    PROVE  Alike(u, [u EXCEPT !.word = x]) /\ Alike(u, [u EXCEPT !.nr = x])
<1>0. IsRecord(u)
  BY ShapeIs
<1>1. ASSUME NEW w, w = [u EXCEPT !.word = x] \/ w = [u EXCEPT !.nr = x]
      PROVE  Alike(u, w)
  <2>1. /\ w.use = u.use /\ w.len = u.len /\ w.pte = u.pte /\ w.base = u.base /\ w.panic = u.panic
        /\ IsRecord(w)
    BY <1>0, <1>1 DEF IsRecord
  <2> QED
    BY <2>1 DEF Shape, Alike, SameFrame, SameBase
<1> QED
  BY <1>1

(* What has the same frames and bases is as sound.                         *)
LEMMA AlikeKeeps ==
    ASSUME NEW u, NEW L, NEW R, NEW X, NEW h, NEW n, Sound(u, L, R, X, h, n),
           NEW w, Shape(w), \A g \in Frames : SameFrame(u, w, g), BasesOK(w, L)
    PROVE  Sound(w, L, R, X, h, n)
<1>0. Tree(u, L, R) /\ LeavesOK(u, L, X) /\ Kept(u, L, h, n)
  BY DEF Sound
<1>1. \A f \in Frames : w.pte[f] = u.pte[f] /\ w.use[f] = u.use[f] /\ w.len[f] = u.len[f]
  BY DEF SameFrame
<1>2. \A f \in Frames : \A l : ValidIn(w, f, l) = ValidIn(u, f, l)
  BY <1>1 DEF ValidIn
<1>3. \A f \in Frames : \A i : AimOf(w, f, i) = AimOf(u, f, i) /\ LeafAt(w, f, i) = LeafAt(u, f, i)
  BY <1>1 DEF AimOf, LeafAt
<1>4. \A f \in Frames : \A i : EntryOK(u, L, R, f, i) => EntryOK(w, L, R, f, i)
  BY <1>3 DEF EntryOK
<1>5. \A f \in Frames : TableOK(u, L, R, f) => TableOK(w, L, R, f)
  BY <1>1, <1>2, <1>4 DEF TableOK
<1>7. AimsApart(w, L)
  BY <1>0, <1>2, <1>3 DEF AimsApart, Tree, IsTable
<1>8. Tree(w, L, R)
  BY <1>0, <1>5, <1>7 DEF Tree
<1>9. LeavesOK(w, L, X)
  <2> SUFFICES ASSUME NEW f \in Frames, L[f] # -1, NEW i \in ValidIn(w, f, L[f]),
                      LeafAt(w, f, i), AimOf(w, f, i) \notin X
               PROVE  w.use[AimOf(w, f, i)] = 1 /\ w.len[AimOf(w, f, i)] = rv64_pgtbl_calc_pagesize(L[f])
    BY DEF LeavesOK
  <2>1. AimOf(u, f, i) \in Frames
    BY <1>0, <1>2 DEF Tree, TableOK, EntryOK
  <2> QED
    BY <1>0, <1>1, <1>2, <1>3, <2>1 DEF LeavesOK
<1>10. Kept(w, L, h, n)
  BY <1>0, <1>1, <1>2, <1>3 DEF Kept, Loose, Unaimed
<1> QED
  BY <1>8, <1>9, <1>10 DEF Sound

(* The same, with what else stays.                                         *)
LEMMA AlikeSound ==
    ASSUME NEW u, NEW L, NEW R, NEW X, NEW h, NEW n, Sound(u, L, R, X, h, n), NEW w, Alike(u, w)
    PROVE  Sound(w, L, R, X, h, n) /\ w.panic = u.panic /\ w.base = u.base
<1>1. Shape(w) /\ (\A g \in Frames : SameFrame(u, w, g)) /\ w.panic = u.panic /\ w.base = u.base
  BY DEF Alike, SameBase
<1>2. BasesOK(w, L)
  BY <1>1 DEF Sound, Tree, BasesOK
<1> QED
  BY <1>1, <1>2, AlikeKeeps

-----------------------------------------------------------------------------
(* A frame that is no table changes.                                      *)

LEMMA TreeFacts ==
    ASSUME NEW u, NEW L, NEW R, Tree(u, L, R), NEW f \in Frames, L[f] # -1
    PROVE  /\ L[f] \in 0 .. 2 /\ u.use[f] \in Nat /\ u.use[f] >= 1 /\ TableOK(u, L, R, f)
           /\ ValidIn(u, f, L[f]) \subseteq 0 .. Top - 1
           /\ \A i \in ValidIn(u, f, L[f]) : EntryOK(u, L, R, f, i) /\ AimOf(u, f, i) \in Frames
<1>1. L[f] \in 0 .. 2 /\ TableOK(u, L, R, f) /\ u.use[f] \in Nat
  BY DEF Tree, Shape
<1>2. Cardinality(ValidIn(u, f, L[f])) \in Nat /\ ValidIn(u, f, L[f]) \subseteq 0 .. Top - 1
  BY <1>1, ValidFinite
<1>3. u.use[f] >= 1
  BY <1>1, <1>2 DEF TableOK
<1> QED
  BY <1>1, <1>2, <1>3 DEF TableOK, EntryOK

\* A frame that is no table changes.
LEMMA FrameKeeps ==
    ASSUME NEW u, NEW L, NEW R, NEW X, NEW h, NEW n, Sound(u, L, R, X, h, n),
           NEW t \in Frames, L[t] = -1, t # h, NEW w, OnlyFrame(u, w, t)
    PROVE  Sound(w, L, R, X \cup {t}, h, n)
<1>0. Tree(u, L, R) /\ LeavesOK(u, L, X) /\ Kept(u, L, h, n)
  BY DEF Sound
<1>1. \A f \in Frames : f # t => w.pte[f] = u.pte[f] /\ w.use[f] = u.use[f] /\ w.len[f] = u.len[f]
  BY DEF OnlyFrame, SameFrame
<1>2. \A f \in Frames : L[f] # -1 => \A l : ValidIn(w, f, l) = ValidIn(u, f, l)
  BY <1>1 DEF ValidIn
<1>3. \A f \in Frames : L[f] # -1 => \A i : AimOf(w, f, i) = AimOf(u, f, i) /\ LeafAt(w, f, i) = LeafAt(u, f, i)
  BY <1>1 DEF AimOf, LeafAt
<1>4. \A f \in Frames : L[f] # -1 => \A i : EntryOK(u, L, R, f, i) => EntryOK(w, L, R, f, i)
  BY <1>3 DEF EntryOK
<1>5. \A f \in Frames : L[f] # -1 => TableOK(w, L, R, f)
  <2> SUFFICES ASSUME NEW f \in Frames, L[f] # -1 PROVE TableOK(w, L, R, f)
    OBVIOUS
  <2>1. TableOK(u, L, R, f) /\ f # t
    BY <1>0 DEF Tree
  <2>2. w.use[f] = u.use[f] /\ w.len[f] = u.len[f] /\ ValidIn(w, f, L[f]) = ValidIn(u, f, L[f])
    BY <1>1, <1>2, <2>1
  <2> QED
    BY <1>4, <2>1, <2>2 DEF TableOK
<1>6. BasesOK(w, L) /\ Shape(w)
  BY <1>0 DEF OnlyFrame, SameBase, BasesOK, Tree
<1>7. AimsApart(w, L)
  BY <1>0, <1>2, <1>3 DEF AimsApart, Tree, IsTable
<1>8. Tree(w, L, R)
  BY <1>0, <1>5, <1>6, <1>7 DEF Tree
<1>9. LeavesOK(w, L, X \cup {t})
  <2> SUFFICES ASSUME NEW f \in Frames, L[f] # -1, NEW i \in ValidIn(w, f, L[f]),
                      LeafAt(w, f, i), AimOf(w, f, i) \notin X \cup {t}
               PROVE  w.use[AimOf(w, f, i)] = 1 /\ w.len[AimOf(w, f, i)] = rv64_pgtbl_calc_pagesize(L[f])
    BY DEF LeavesOK
  <2>1. i \in ValidIn(u, f, L[f]) /\ AimOf(w, f, i) = AimOf(u, f, i) /\ LeafAt(u, f, i)
    BY <1>2, <1>3
  <2>2. AimOf(u, f, i) \in Frames
    BY <1>0, <2>1, TreeFacts
  <2> QED
    BY <1>0, <1>1, <2>1, <2>2 DEF LeavesOK
<1>10. Kept(w, L, h, n)
  <2> SUFFICES ASSUME h # NoFrame PROVE Loose(w, L, h, n)
    BY DEF Kept
  <2>1. Loose(u, L, h, n)
    BY <1>0 DEF Kept
  <2> QED
    BY <1>1, <1>2, <1>3, <2>1 DEF Loose, Unaimed
<1> QED
  BY <1>8, <1>9, <1>10 DEF Sound

(* A frame that nothing refers to changes: all is kept.                    *)
LEMMA UnaimedKeeps ==
    ASSUME NEW u, NEW L, NEW R, NEW X, NEW h, NEW n, Sound(u, L, R, X, h, n),
           NEW t \in Frames, L[t] = -1, t # h, NEW w, OnlyFrame(u, w, t), Unaimed(u, L, t)
    PROVE  Sound(w, L, R, X, h, n) /\ Unaimed(w, L, t)
<1>1. Sound(w, L, R, X \cup {t}, h, n)
  BY FrameKeeps
<1>2. \A f \in Frames : f # t => w.pte[f] = u.pte[f]
  BY DEF OnlyFrame, SameFrame
<1>3. Unaimed(w, L, t)
  BY <1>2 DEF Unaimed, ValidIn, AimOf
<1> QED
  BY <1>1, <1>3 DEF Sound, Unaimed, LeavesOK

(* A free cluster is taken: it is loose, and all is kept.                  *)
LEMMA AllocKeeps ==
    ASSUME NEW u, NEW L, NEW R, NEW h, NEW n, Sound(u, L, R, {}, h, n),
           NEW m \in Nat \ {0}, NEW t \in FreeClusters(u, m), NEW w, w = get_free_page_cluster(u, t, m)
    PROVE  Sound(w, L, R, {}, h, n) /\ Loose(w, L, t, m) /\ t # h /\ w.pte[t] = NoTable
<1>0. Tree(u, L, R) /\ LeavesOK(u, L, {}) /\ Kept(u, L, h, n) /\ Shape(u)
  BY DEF Sound, Tree
<1>1. t \in Frames /\ t \in t .. t + m - 1 /\ t \notin Taken(u)
  BY PageTableFacts DEF FreeClusters
<1>2. u.len[t] \in Nat /\ ~ u.len[t] >= 1
  <2>1. u.len[t] \in Nat
    BY <1>0, <1>1, FieldTypes
  <2>2. t .. t + u.len[t] - 1 \subseteq Taken(u)
    BY <1>1 DEF Taken
  <2>3. ASSUME u.len[t] >= 1 PROVE FALSE
    <3>1. t \in Int /\ t \in t .. t + u.len[t] - 1
      BY <1>1, <2>1, <2>3, PageTableFacts
    <3> QED
      BY <1>1, <2>2, <3>1
  <2> QED
    BY <2>1, <2>3
<1>3. L[t] = -1
  BY <1>0, <1>1, <1>2 DEF Tree, TableOK
<1>4. Unaimed(u, L, t)
  <2> SUFFICES ASSUME NEW f \in Frames, L[f] # -1, NEW i \in ValidIn(u, f, L[f]), AimOf(u, f, i) = t
               PROVE  FALSE
    BY DEF Unaimed
  <2>1. EntryOK(u, L, R, f, i) /\ L[f] \in 0 .. 2
    BY <1>0, TreeFacts
  <2>2. LeafAt(u, f, i)
    BY <1>3, <2>1 DEF EntryOK
  <2>3. u.len[t] = rv64_pgtbl_calc_pagesize(L[f])
    BY <1>0, <2>2 DEF LeavesOK
  <2> QED
    BY <1>2, <2>1, <2>3, PageSizeIs
<1>5. t # h
  <2>1. t # NoFrame /\ u.len[t] = 0
    BY <1>1, <1>2, PageTableFacts
  <2> QED
    BY <1>0, <2>1 DEF Kept, Loose
<1>6. OnlyFrame(u, w, t) /\ w.use[t] = 1 /\ w.len[t] = m /\ w.pte[t] = NoTable
  BY <1>0, <1>1, AllocIs
<1>7. Sound(w, L, R, {}, h, n) /\ Unaimed(w, L, t)
  <2>1. t \in Frames /\ OnlyFrame(u, w, t)
    BY <1>1, <1>6
  <2> QED
    BY <1>3, <1>4, <1>5, <2>1, UnaimedKeeps
<1> QED
  BY <1>1, <1>3, <1>5, <1>6, <1>7 DEF Loose

-----------------------------------------------------------------------------
(* A table changes: the entries that are new aim at what nothing aims at.  *)

NewAims(u, L, w, f) ==
    /\ \A i \in ValidIn(w, f, L[f]) :
         \/ i \in ValidIn(u, f, L[f]) /\ AimOf(w, f, i) = AimOf(u, f, i)
         \/ Unaimed(u, L, AimOf(w, f, i))
    /\ \A i, j \in ValidIn(w, f, L[f]) : AimOf(w, f, i) = AimOf(w, f, j) => i = j

(* One table changes, and remains a table with entries of its own.         *)
LEMMA TableKeeps ==
    ASSUME NEW u, NEW L, NEW R, Tree(u, L, R), NEW f \in Frames, L[f] # -1,
           NEW w, OnlyFrame(u, w, f), TableOK(w, L, R, f), NewAims(u, L, w, f)
    PROVE  Tree(w, L, R)
<1>1. \A g \in Frames : g # f => w.pte[g] = u.pte[g] /\ w.use[g] = u.use[g] /\ w.len[g] = u.len[g]
  BY DEF OnlyFrame, SameFrame
<1>2. \A g \in Frames : g # f => \A l : ValidIn(w, g, l) = ValidIn(u, g, l)
  BY <1>1 DEF ValidIn
<1>3. \A g \in Frames : g # f => \A i : AimOf(w, g, i) = AimOf(u, g, i) /\ LeafAt(w, g, i) = LeafAt(u, g, i)
  BY <1>1 DEF AimOf, LeafAt
<1>4. \A g \in Frames : g # f => \A i : EntryOK(u, L, R, g, i) => EntryOK(w, L, R, g, i)
  BY <1>3 DEF EntryOK
<1>5. \A g \in Frames : L[g] # -1 => TableOK(w, L, R, g)
  <2> SUFFICES ASSUME NEW g \in Frames, L[g] # -1, g # f PROVE TableOK(w, L, R, g)
    OBVIOUS
  <2>1. TableOK(u, L, R, g)
    BY DEF Tree
  <2>2. w.use[g] = u.use[g] /\ w.len[g] = u.len[g] /\ ValidIn(w, g, L[g]) = ValidIn(u, g, L[g])
    BY <1>1, <1>2
  <2> QED
    BY <1>4, <2>1, <2>2 DEF TableOK
<1>6. BasesOK(w, L) /\ Shape(w)
  BY DEF OnlyFrame, SameBase, BasesOK, Tree
<1>7. AimsApart(w, L)
  <2>1. AimsApart(u, L)
    BY DEF Tree
  <2>2. ASSUME NEW g \in Frames, IsTable(L, g), NEW j \in ValidIn(w, g, L[g]), g # f,
               NEW i \in ValidIn(w, f, L[f]), AimOf(w, g, j) = AimOf(w, f, i)
        PROVE  FALSE
    <3>1. j \in ValidIn(u, g, L[g]) /\ AimOf(w, g, j) = AimOf(u, g, j) /\ L[g] # -1
      BY <1>2, <1>3, <2>2 DEF IsTable
    <3>2. CASE Unaimed(u, L, AimOf(w, f, i))
      BY <2>2, <3>1, <3>2 DEF Unaimed
    <3>3. CASE i \in ValidIn(u, f, L[f]) /\ AimOf(w, f, i) = AimOf(u, f, i)
      BY <2>1, <2>2, <3>1, <3>3 DEF AimsApart, IsTable
    <3> QED
      BY <3>2, <3>3 DEF NewAims
  <2> SUFFICES ASSUME NEW g \in Frames, NEW k \in Frames, IsTable(L, g), IsTable(L, k),
                      NEW i \in ValidIn(w, g, L[g]), NEW j \in ValidIn(w, k, L[k]), AimOf(w, g, i) = AimOf(w, k, j)
               PROVE  g = k /\ i = j
    BY DEF AimsApart
  <2>3. CASE g = f /\ k = f
    BY <2>3 DEF NewAims
  <2>4. CASE g = f /\ k # f
    BY <2>2, <2>4
  <2>5. CASE g # f /\ k = f
    BY <2>2, <2>5
  <2>6. CASE g # f /\ k # f
    BY <1>2, <1>3, <2>1, <2>6 DEF AimsApart
  <2> QED
    BY <2>3, <2>4, <2>5, <2>6
<1> QED
  BY <1>5, <1>6, <1>7 DEF Tree

\* The pages that are mapped; those of X \ Y no longer are.
MappedOnce(w, L, f, i) ==
    LeafAt(w, f, i) => w.use[AimOf(w, f, i)] = 1 /\ w.len[AimOf(w, f, i)] = rv64_pgtbl_calc_pagesize(L[f])

(* One table changes: its pages are counted once, old and new.             *)
LEMMA LeavesKeep ==
    ASSUME NEW u, NEW L, NEW R, NEW X, LeavesOK(u, L, X), NEW f \in Frames, L[f] # -1,
           NEW w, OnlyFrame(u, w, f), Tree(w, L, R),
           \A i \in ValidIn(w, f, L[f]) : (i \in ValidIn(u, f, L[f]) /\ w.pte[f][i] = u.pte[f][i]) \/ MappedOnce(w, L, f, i),
           NEW Y, \A x \in X \ Y : Unaimed(w, L, x)
    PROVE  LeavesOK(w, L, Y)
<1> SUFFICES ASSUME NEW g \in Frames, L[g] # -1, NEW i \in ValidIn(w, g, L[g]), LeafAt(w, g, i), AimOf(w, g, i) \notin Y
             PROVE  w.use[AimOf(w, g, i)] = 1 /\ w.len[AimOf(w, g, i)] = rv64_pgtbl_calc_pagesize(L[g])
  BY DEF LeavesOK
<1>1. AimOf(w, g, i) \notin X
  BY DEF Unaimed
<1>2. CASE g = f /\ MappedOnce(w, L, f, i)
  BY <1>2 DEF MappedOnce
<1>3. CASE ~ (g = f /\ MappedOnce(w, L, f, i))
  <2>1. \A k \in Frames : k # f => w.pte[k] = u.pte[k] /\ w.use[k] = u.use[k] /\ w.len[k] = u.len[k]
    BY DEF OnlyFrame, SameFrame
  <2>2. w.pte[g][i] = u.pte[g][i] /\ i \in ValidIn(u, g, L[g])
    BY <1>3, <2>1 DEF ValidIn
  <2>3. AimOf(w, g, i) = AimOf(u, g, i) /\ LeafAt(u, g, i)
    BY <2>2 DEF AimOf, LeafAt
  <2>4. EntryOK(w, L, R, g, i)
    BY TreeFacts
  <2>5. AimOf(w, g, i) \in Frames /\ AimOf(w, g, i) # f
    BY <2>4 DEF EntryOK
  <2> QED
    BY <1>1, <2>1, <2>2, <2>3, <2>5 DEF LeavesOK
<1> QED
  BY <1>2, <1>3

(* Unlink keeps the trees, and what the entry aimed at is free of aims.    *)
LEMMA UnlinkKeeps ==
    ASSUME NEW u, NEW L, NEW R, NEW X, NEW h, NEW n, Sound(u, L, R, X, h, n), NEW f \in Frames, L[f] # -1,
           NEW i \in ValidIn(u, f, L[f]), NEW w, w = Unlink(u, f, i)
    PROVE  /\ Sound(w, L, R, X \ {AimOf(u, f, i)}, h, n) /\ Unaimed(w, L, AimOf(u, f, i))
           /\ OnlyFrame(u, w, f) /\ w.use[f] = u.use[f] - 1
           /\ ValidIn(w, f, L[f]) = ValidIn(u, f, L[f]) \ {i}
           /\ \A j \in ValidIn(w, f, L[f]) : w.pte[f][j] = u.pte[f][j]
<1>0. Tree(u, L, R) /\ Shape(u)
  BY DEF Sound, Tree
<1>1. /\ L[f] \in 0 .. 2 /\ u.use[f] \in Nat /\ TableOK(u, L, R, f) /\ i \in 0 .. Top - 1
      /\ IsFiniteSet(ValidIn(u, f, L[f])) /\ Cardinality(ValidIn(u, f, L[f])) \in Nat
  BY <1>0, TreeFacts, ValidFinite
<1>2. u.use[f] > 1
  <2>1. Cardinality(ValidIn(u, f, L[f])) # 0
    BY <1>1, FS_EmptySet
  <2> QED
    BY <1>1, <2>1 DEF TableOK
<1>3. OnlyFrame(u, w, f) /\ w.use[f] = u.use[f] - 1 /\ w.len[f] = u.len[f] /\ w.pte[f] = [u.pte[f] EXCEPT ![i] = Empty]
  BY <1>0, <1>1, <1>2, UnlinkIs
<1>4. u.pte[f] \in TableType /\ ~ RV64_PTE_IS_VALID(Empty) /\ IndexesOf(L[f]) \subseteq 0 .. Top - 1
  BY <1>0, <1>1, FieldTypes, EmptyIs, PageTableFacts
<1>5. w.pte[f][i] = Empty /\ \A j \in 0 .. Top - 1 : j # i => w.pte[f][j] = u.pte[f][j]
  BY <1>1, <1>3, <1>4 DEF TableType
<1>6. ValidIn(w, f, L[f]) = ValidIn(u, f, L[f]) \ {i}
  BY <1>4, <1>5 DEF ValidIn
<1>7. \A j \in ValidIn(w, f, L[f]) : w.pte[f][j] = u.pte[f][j] /\ j # i /\ j \in ValidIn(u, f, L[f])
  BY <1>4, <1>5, <1>6 DEF ValidIn
<1>8. TableOK(w, L, R, f)
  <2>1. Cardinality(ValidIn(w, f, L[f])) = Cardinality(ValidIn(u, f, L[f])) - 1
    BY <1>1, <1>6, FS_RemoveElement, Zenon
  <2>2. \A j \in ValidIn(w, f, L[f]) : EntryOK(w, L, R, f, j)
    <3> SUFFICES ASSUME NEW j \in ValidIn(w, f, L[f]) PROVE EntryOK(w, L, R, f, j)
      OBVIOUS
    <3>1. EntryOK(u, L, R, f, j)
      BY <1>1, <1>7 DEF TableOK
    <3> QED
      BY <1>7, <3>1 DEF EntryOK, AimOf, LeafAt
  <2> QED
    BY <1>1, <1>3, <2>1, <2>2 DEF TableOK
<1>9. \A j \in ValidIn(w, f, L[f]) : AimOf(w, f, j) = AimOf(u, f, j)
  BY <1>7 DEF AimOf
<1>10. AimsApart(u, L) /\ IsTable(L, f)
  BY <1>0 DEF Tree, IsTable
<1>11. NewAims(u, L, w, f)
  BY <1>7, <1>9, <1>10 DEF NewAims, AimsApart
<1>12. Tree(w, L, R)
  BY <1>0, <1>3, <1>8, <1>11, TableKeeps
<1>13. Unaimed(w, L, AimOf(u, f, i))
  <2> SUFFICES ASSUME NEW g \in Frames, L[g] # -1, NEW j \in ValidIn(w, g, L[g]), AimOf(w, g, j) = AimOf(u, f, i)
               PROVE  FALSE
    BY DEF Unaimed
  <2>1. CASE g = f
    BY <1>7, <1>9, <1>10, <2>1 DEF AimsApart
  <2>2. CASE g # f
    <3>1. j \in ValidIn(u, g, L[g]) /\ AimOf(w, g, j) = AimOf(u, g, j)
      BY <1>3, <2>2 DEF OnlyFrame, SameFrame, ValidIn, AimOf
    <3> QED
      BY <1>10, <2>2, <3>1 DEF AimsApart, IsTable
  <2> QED
    BY <2>1, <2>2
<1>14. LeavesOK(w, L, X \ {AimOf(u, f, i)})
  <2>1. LeavesOK(u, L, X)
    BY DEF Sound
  <2>2. \A x \in X \ (X \ {AimOf(u, f, i)}) : Unaimed(w, L, x)
    BY <1>13
  <2> QED
    BY <1>3, <1>7, <1>12, <2>1, <2>2, LeavesKeep
<1>15. Kept(w, L, h, n)
  <2> SUFFICES ASSUME h # NoFrame PROVE Loose(w, L, h, n)
    BY DEF Kept
  <2>1. Loose(u, L, h, n) /\ h # f
    BY DEF Sound, Kept, Loose
  <2>2. Unaimed(w, L, h)
    <3> SUFFICES ASSUME NEW g \in Frames, L[g] # -1, NEW j \in ValidIn(w, g, L[g]) PROVE AimOf(w, g, j) # h
      BY DEF Unaimed
    <3>1. j \in ValidIn(u, g, L[g]) /\ AimOf(w, g, j) = AimOf(u, g, j)
      BY <1>3, <1>7, <1>9 DEF OnlyFrame, SameFrame, ValidIn, AimOf
    <3> QED
      BY <2>1, <3>1 DEF Loose, Unaimed
  <2> QED
    BY <1>3, <2>1, <2>2 DEF Loose, OnlyFrame, SameFrame
<1> QED
  BY <1>3, <1>6, <1>7, <1>12, <1>13, <1>14, <1>15 DEF Sound

EntryFits(L, R, f, i, e) ==
    /\ e \in EntriesType /\ RV64_PTE_IS_VALID(e) /\ e.ppn \in Frames
    /\ IF RV64_PTE_IS_LEAF(e)
         THEN L[e.ppn] = -1 /\ \E q \in RegionPages(L[f]) : LeadsTo(q, R, f, L[f], i)
         ELSE L[f] >= 1 /\ L[e.ppn] = L[f] - 1 /\ LeadsTo(R[e.ppn], R, f, L[f], i)

(* An entry for what nothing refers to keeps the trees.                    *)
LEMMA PutTree ==
    ASSUME NEW u, NEW L, NEW R, Tree(u, L, R), NEW f \in Frames, L[f] # -1,
           NEW i \in IndexesOf(L[f]), i \notin ValidIn(u, f, L[f]),
           NEW e, EntryFits(L, R, f, i, e), Unaimed(u, L, e.ppn), NEW w, w = PutEntry(u, f, i, e)
    PROVE  /\ Tree(w, L, R) /\ OnlyFrame(u, w, f) /\ w.pte[f][i] = e /\ i \in ValidIn(w, f, L[f])
           /\ \A j \in ValidIn(w, f, L[f]) : j # i => j \in ValidIn(u, f, L[f]) /\ w.pte[f][j] = u.pte[f][j]
<1>0. Shape(u)
  BY DEF Tree
<1>1. /\ L[f] \in 0 .. 2 /\ u.use[f] \in Nat /\ u.use[f] >= 1 /\ TableOK(u, L, R, f)
      /\ IsFiniteSet(ValidIn(u, f, L[f])) /\ Cardinality(ValidIn(u, f, L[f])) \in Nat
      /\ IndexesOf(L[f]) \subseteq 0 .. Top - 1
  BY TreeFacts, ValidFinite, PageTableFacts
<1>2. e \in EntriesType /\ RV64_PTE_IS_VALID(e) /\ e.ppn \in Frames /\ i \in 0 .. Top - 1
  BY <1>1 DEF EntryFits
<1>3. OnlyFrame(u, w, f) /\ w.use[f] = u.use[f] + 1 /\ w.len[f] = u.len[f] /\ w.pte[f] = [u.pte[f] EXCEPT ![i] = e]
  BY <1>0, <1>1, <1>2, LinkIs
<1>4. u.pte[f] \in TableType
  BY <1>0, FieldTypes
<1>5. w.pte[f][i] = e /\ \A j \in 0 .. Top - 1 : j # i => w.pte[f][j] = u.pte[f][j]
  BY <1>2, <1>3, <1>4 DEF TableType
<1>6. ValidIn(w, f, L[f]) = ValidIn(u, f, L[f]) \cup {i}
  BY <1>1, <1>2, <1>5 DEF ValidIn
<1>7. \A j \in ValidIn(w, f, L[f]) : j # i => j \in ValidIn(u, f, L[f]) /\ w.pte[f][j] = u.pte[f][j]
  BY <1>1, <1>5, <1>6 DEF ValidIn
<1>8. AimOf(w, f, i) = e.ppn /\ LeafAt(w, f, i) = RV64_PTE_IS_LEAF(e)
  BY <1>5 DEF AimOf, LeafAt
<1>9. TableOK(w, L, R, f)
  <2>1. Cardinality(ValidIn(w, f, L[f])) = Cardinality(ValidIn(u, f, L[f])) + 1
    BY <1>1, <1>6, FS_AddElement
  <2>2. EntryOK(w, L, R, f, i)
    BY <1>8 DEF EntryFits, EntryOK
  <2>3. \A j \in ValidIn(w, f, L[f]) : EntryOK(w, L, R, f, j)
    <3> SUFFICES ASSUME NEW j \in ValidIn(w, f, L[f]), j # i PROVE EntryOK(w, L, R, f, j)
      BY <2>2
    <3>1. EntryOK(u, L, R, f, j)
      BY <1>1, <1>7 DEF TableOK
    <3> QED
      BY <1>7, <3>1 DEF EntryOK, AimOf, LeafAt
  <2> QED
    BY <1>1, <1>3, <2>1, <2>3 DEF TableOK
<1>10. NewAims(u, L, w, f)
  <2>1. AimsApart(u, L) /\ IsTable(L, f)
    BY DEF Tree, IsTable
  <2>2. \A j \in ValidIn(w, f, L[f]) : j # i => AimOf(w, f, j) = AimOf(u, f, j) /\ AimOf(w, f, j) # e.ppn
    BY <1>7 DEF AimOf, Unaimed
  <2> QED
    BY <1>7, <1>8, <2>1, <2>2 DEF NewAims, AimsApart
<1> QED
  BY <1>3, <1>5, <1>6, <1>7, <1>9, <1>10, TableKeeps

\* The entry is a page that was not mapped, or a table.
LEMMA PutLeaf ==
    ASSUME NEW u, NEW L, NEW R, NEW h, NEW n, Sound(u, L, R, {}, h, n), h # NoFrame,
           NEW f \in Frames, L[f] # -1, n = rv64_pgtbl_calc_pagesize(L[f]),
           NEW i \in IndexesOf(L[f]), i \notin ValidIn(u, f, L[f]),
           NEW e, EntryFits(L, R, f, i, e), e.ppn = h, NEW w, w = PutEntry(u, f, i, e)
    PROVE  Sound(w, L, R, {}, NoFrame, 0) /\ w.panic = u.panic /\ w.base = u.base
<1>1. Tree(u, L, R) /\ LeavesOK(u, L, {}) /\ Loose(u, L, h, rv64_pgtbl_calc_pagesize(L[f]))
  BY DEF Sound, Kept
<1>2. h \in Frames /\ h # f
  BY <1>1 DEF Loose
<1> Unaimed(u, L, e.ppn)
  BY <1>1 DEF Loose
<1>3. /\ Tree(w, L, R) /\ OnlyFrame(u, w, f) /\ w.pte[f][i] = e
      /\ \A j \in ValidIn(w, f, L[f]) : j # i => j \in ValidIn(u, f, L[f]) /\ w.pte[f][j] = u.pte[f][j]
  BY <1>1, PutTree
<1>4. MappedOnce(w, L, f, i)
  BY <1>1, <1>2, <1>3 DEF MappedOnce, AimOf, Loose, OnlyFrame, SameFrame
<1>5. \A x \in {} \ {} : Unaimed(w, L, x)
  OBVIOUS
<1>6. LeavesOK(w, L, {})
  BY <1>1, <1>3, <1>4, <1>5, LeavesKeep
<1> QED
  BY <1>3, <1>6 DEF Sound, Kept, OnlyFrame, SameBase

(* The entry is a table that was not referred to.                          *)
LEMMA PutTable ==
    ASSUME NEW u, NEW L, NEW R, NEW h, NEW n, Sound(u, L, R, {}, h, n), NEW f \in Frames, L[f] # -1,
           NEW i \in IndexesOf(L[f]), i \notin ValidIn(u, f, L[f]),
           NEW e, EntryFits(L, R, f, i, e), ~ RV64_PTE_IS_LEAF(e), Unaimed(u, L, e.ppn), NEW w, w = PutEntry(u, f, i, e)
    PROVE  Sound(w, L, R, {}, h, n) /\ w.panic = u.panic /\ w.base = u.base
<1>1. Tree(u, L, R) /\ LeavesOK(u, L, {}) /\ Kept(u, L, h, n)
  BY DEF Sound
<1>2. e.ppn \in Frames /\ L[f] \in 0 .. 2 /\ L[e.ppn] # -1
  BY <1>1, TreeFacts DEF EntryFits
<1>3. /\ Tree(w, L, R) /\ OnlyFrame(u, w, f) /\ w.pte[f][i] = e
      /\ \A j \in ValidIn(w, f, L[f]) : j # i => j \in ValidIn(u, f, L[f]) /\ w.pte[f][j] = u.pte[f][j]
  BY <1>1, PutTree
<1>4. MappedOnce(w, L, f, i)
  BY <1>3 DEF MappedOnce, LeafAt
<1>5. \A x \in {} \ {} : Unaimed(w, L, x)
  OBVIOUS
<1>6. LeavesOK(w, L, {})
  BY <1>1, <1>3, <1>4, <1>5, LeavesKeep
<1>7. Kept(w, L, h, n)
  <2> SUFFICES ASSUME h # NoFrame PROVE Loose(w, L, h, n)
    BY DEF Kept
  <2>1. Loose(u, L, h, n) /\ h # f /\ h # e.ppn
    BY <1>1, <1>2 DEF Kept, Loose
  <2>2. Unaimed(w, L, h)
    <3> SUFFICES ASSUME NEW g \in Frames, L[g] # -1, NEW j \in ValidIn(w, g, L[g]) PROVE AimOf(w, g, j) # h
      BY DEF Unaimed
    <3>1. CASE g = f /\ j = i
      BY <1>3, <2>1, <3>1 DEF AimOf
    <3>2. CASE ~ (g = f /\ j = i)
      <4>1. j \in ValidIn(u, g, L[g]) /\ AimOf(w, g, j) = AimOf(u, g, j)
        BY <1>3, <3>2 DEF OnlyFrame, SameFrame, ValidIn, AimOf
      <4> QED
        BY <2>1, <4>1 DEF Loose, Unaimed
    <3> QED
      BY <3>1, <3>2
  <2> QED
    BY <1>3, <2>1, <2>2 DEF Loose, OnlyFrame, SameFrame
<1> QED
  BY <1>3, <1>6, <1>7 DEF Sound, OnlyFrame, SameBase

-----------------------------------------------------------------------------
(* Tables come and go.                                                     *)

Given(L, t, l) == [L EXCEPT ![t] = l]
\* A frame that is in use by itself becomes a table of the level l.
LEMMA NewTable ==
    ASSUME NEW u, NEW L, NEW R, NEW X, NEW h, NEW n, Sound(u, L, R, X, h, n), NEW t, Loose(u, L, t, 1), t # h,
           NEW l \in 0 .. 2, ValidIn(u, t, l) = {}, NEW p \in Int, l < 2 => \E k \in 0 .. l : p \in RegionPages(k),
           NEW M, M = Given(L, t, l), NEW S, S = Given(R, t, p)
    PROVE  Sound(u, M, S, X, h, n) /\ Unaimed(u, M, t)
<1>0. Tree(u, L, R) /\ LeavesOK(u, L, X) /\ Kept(u, L, h, n)
  BY DEF Sound
<1>1. t \in Frames /\ L[t] = -1 /\ Unaimed(u, L, t) /\ u.use[t] = 1 /\ u.len[t] = 1
  BY DEF Loose
<1>2. L \in [Frames -> -1 .. 2] /\ R \in [Frames -> Int]
  BY <1>0 DEF Tree
<1>3. /\ M \in [Frames -> -1 .. 2] /\ S \in [Frames -> Int] /\ M[t] = l /\ S[t] = p
      /\ \A f \in Frames : f # t => M[f] = L[f] /\ S[f] = R[f]
  BY <1>1, <1>2 DEF Given
<1>4. \A f \in Frames : M[f] # -1 => f = t \/ L[f] # -1
  BY <1>3
<1>5. Unaimed(u, M, t)
  <2> SUFFICES ASSUME NEW f \in Frames, M[f] # -1, NEW i \in ValidIn(u, f, M[f]) PROVE AimOf(u, f, i) # t
    BY DEF Unaimed
  <2> QED
    BY <1>1, <1>3, <1>4 DEF Unaimed
<1>6. BasesOK(u, M)
  BY <1>0, <1>1, <1>3 DEF Tree, Shape, BasesOK
<1>7. AimsApart(u, M)
  BY <1>0, <1>3, <1>4 DEF Tree, AimsApart, IsTable
<1>8. \A f \in Frames : M[f] # -1 => TableOK(u, M, S, f)
  <2> SUFFICES ASSUME NEW f \in Frames, M[f] # -1 PROVE TableOK(u, M, S, f)
    OBVIOUS
  <2>1. CASE f = t
    <3>1. Cardinality(ValidIn(u, t, l)) = 0
      BY FS_EmptySet
    <3>2. M[f] = l /\ S[f] = p /\ ValidIn(u, f, M[f]) = {} /\ u.len[f] = 1 /\ u.use[f] = 1 + 0
      BY <1>1, <1>3, <2>1
    <3>3. \A i \in ValidIn(u, f, M[f]) : EntryOK(u, M, S, f, i)
      BY <3>2
    <3> QED
      BY <3>1, <3>2, <3>3, FS_EmptySet DEF TableOK
  <2>2. CASE f # t
    <3>1. TableOK(u, L, R, f) /\ M[f] = L[f] /\ S[f] = R[f] /\ L[f] # -1
      BY <1>0, <1>3, <1>4, <2>2 DEF Tree
    <3>2. ASSUME NEW i \in ValidIn(u, f, M[f]) PROVE EntryOK(u, M, S, f, i)
      <4>1. EntryOK(u, L, R, f, i) /\ AimOf(u, f, i) # t
        BY <1>1, <3>1, <3>2 DEF TableOK, Unaimed
      <4> QED
        BY <1>3, <3>1, <4>1 DEF EntryOK, LeadsTo
    <3> QED
      BY <3>1, <3>2 DEF TableOK
  <2> QED
    BY <2>1, <2>2
<1>9. Tree(u, M, S)
  BY <1>0, <1>3, <1>6, <1>7, <1>8 DEF Tree
<1>10. LeavesOK(u, M, X)
  <2> SUFFICES ASSUME NEW f \in Frames, M[f] # -1, NEW i \in ValidIn(u, f, M[f]), LeafAt(u, f, i), AimOf(u, f, i) \notin X
               PROVE  u.use[AimOf(u, f, i)] = 1 /\ u.len[AimOf(u, f, i)] = rv64_pgtbl_calc_pagesize(M[f])
    BY DEF LeavesOK
  <2>1. f # t /\ M[f] = L[f]
    BY <1>3
  <2> QED
    BY <1>0, <2>1 DEF LeavesOK
<1>11. Kept(u, M, h, n)
  <2> SUFFICES ASSUME h # NoFrame, Loose(u, L, h, n) PROVE Loose(u, M, h, n)
    BY <1>0 DEF Kept
  <2>1. Unaimed(u, M, h)
    <3> SUFFICES ASSUME NEW f \in Frames, M[f] # -1, NEW i \in ValidIn(u, f, M[f]) PROVE AimOf(u, f, i) # h
      BY DEF Unaimed
    <3>1. f # t /\ M[f] = L[f]
      BY <1>3
    <3> QED
      BY <3>1 DEF Loose, Unaimed
  <2> QED
    BY <1>3, <2>1 DEF Loose
<1> QED
  BY <1>5, <1>9, <1>10, <1>11 DEF Sound

\* A table that no entry and no space refers to is one no longer.
LEMMA DropTable ==
    ASSUME NEW u, NEW L, NEW R, NEW X, NEW h, NEW n, Sound(u, L, R, X, h, n), NEW t \in Frames, L[t] # -1,
           Unaimed(u, L, t), \A s \in Spaces : u.base[s] # t, NEW M, M = Given(L, t, -1)
    PROVE  Sound(u, M, R, X, h, n) /\ Unaimed(u, M, t) /\ M[t] = -1 /\ t # h
<1>0. Tree(u, L, R) /\ LeavesOK(u, L, X) /\ Kept(u, L, h, n)
  BY DEF Sound
<1>1. L \in [Frames -> -1 .. 2]
  BY <1>0 DEF Tree
<1>2. M \in [Frames -> -1 .. 2] /\ M[t] = -1 /\ \A f \in Frames : f # t => M[f] = L[f]
  BY <1>1 DEF Given
<1>3. \A f \in Frames : M[f] # -1 => f # t /\ M[f] = L[f] /\ L[f] # -1
  BY <1>2
<1>4. BasesOK(u, M)
  BY <1>0, <1>2 DEF Tree, Shape, BasesOK
<1>5. AimsApart(u, M)
  BY <1>0, <1>3 DEF Tree, AimsApart, IsTable
<1>6. \A f \in Frames : M[f] # -1 => TableOK(u, M, R, f)
  <2> SUFFICES ASSUME NEW f \in Frames, M[f] # -1 PROVE TableOK(u, M, R, f)
    OBVIOUS
  <2>1. TableOK(u, L, R, f) /\ M[f] = L[f] /\ L[f] # -1
    BY <1>0, <1>3 DEF Tree
  <2>2. ASSUME NEW i \in ValidIn(u, f, M[f]) PROVE EntryOK(u, M, R, f, i)
    <3>1. EntryOK(u, L, R, f, i) /\ AimOf(u, f, i) # t
      BY <2>1, <2>2 DEF TableOK, Unaimed
    <3> QED
      BY <1>2, <2>1, <3>1 DEF EntryOK
  <2> QED
    BY <2>1, <2>2 DEF TableOK
<1>7. Tree(u, M, R)
  BY <1>0, <1>2, <1>4, <1>5, <1>6 DEF Tree
<1>8. LeavesOK(u, M, X) /\ Unaimed(u, M, t)
  BY <1>0, <1>3 DEF LeavesOK, Unaimed
<1>9. Kept(u, M, h, n) /\ t # h
  BY <1>0, <1>2, <1>3, PageTableFacts DEF Kept, Loose, Unaimed
<1> QED
  BY <1>2, <1>7, <1>8, <1>9 DEF Sound

-----------------------------------------------------------------------------
(* Pages are given back.                                                   *)

LEMMA FreeTable ==
    ASSUME NEW u, NEW L, NEW R, NEW X, NEW h, NEW n, Sound(u, L, R, X, h, n), NEW t \in Frames, L[t] # -1,
           Unaimed(u, L, t), \A s \in Spaces : u.base[s] # t, ValidIn(u, t, L[t]) = {},
           NEW w, w = pfdb_dec_page_use_count(u, t), NEW M, M = Given(L, t, -1)
    PROVE  Sound(w, M, R, X, h, n) /\ w.panic = u.panic /\ w.base = u.base /\ OnlyFrame(u, w, t) /\ u.use[t] = 1
<1>1. Sound(u, M, R, X, h, n) /\ Unaimed(u, M, t) /\ M[t] = -1 /\ t # h
  BY DropTable
<1>2. Tree(u, L, R) /\ Shape(u)
  BY DEF Sound, Tree
<1>3. TableOK(u, L, R, t)
  BY <1>2, TreeFacts
<1>4. u.use[t] = 1
  BY <1>3, FS_EmptySet DEF TableOK
<1>5. u.use[t] >= 1
  BY <1>4
<1>6. OnlyFrame(u, w, t)
  BY <1>2, <1>5, DecIs
<1>7. Sound(w, M, R, X, h, n)
  BY <1>1, <1>6, UnaimedKeeps
<1> QED
  BY <1>4, <1>6, <1>7 DEF OnlyFrame, SameBase

(* The page of a leaf is given back before its entry is cleared.           *)
LEMMA ReleaseLeaf ==
    ASSUME NEW u, NEW L, NEW R, NEW h, NEW n, Sound(u, L, R, {}, h, n), NEW f \in Frames, L[f] # -1,
           NEW i \in ValidIn(u, f, L[f]), LeafAt(u, f, i), NEW w, w = pfdb_dec_page_use_count(u, AimOf(u, f, i))
    PROVE  /\ Sound(w, L, R, {AimOf(u, f, i)}, h, n) /\ w.panic = u.panic /\ w.base = u.base
           /\ \A g \in Frames : L[g] # -1 => SameFrame(u, w, g)
<1> DEFINE t == AimOf(u, f, i)
<1>1. Tree(u, L, R) /\ Shape(u) /\ LeavesOK(u, L, {}) /\ Kept(u, L, h, n)
  BY DEF Sound, Tree
<1>2. EntryOK(u, L, R, f, i)
  BY <1>1, TreeFacts
<1>3. t \in Frames /\ L[t] = -1
  BY <1>2 DEF EntryOK
<1>4. u.use[t] >= 1
  BY <1>1 DEF LeavesOK
<1>5. t # h
  BY <1>1, <1>3, PageTableFacts DEF Kept, Loose, Unaimed
<1>6. OnlyFrame(u, w, t)
  BY <1>1, <1>3, <1>4, DecIs
<1> HIDE DEF t
<1>7. Sound(w, L, R, {} \cup {t}, h, n)
  BY <1>3, <1>5, <1>6, FrameKeeps
<1>8. {} \cup {t} = {t}
  OBVIOUS
<1> QED
  BY <1>3, <1>6, <1>7, <1>8 DEF OnlyFrame, SameBase, t

(* A page that was not mapped is given back.                               *)
LEMMA ReleaseLoose ==
    ASSUME NEW u, NEW L, NEW R, NEW h, NEW n, Sound(u, L, R, {}, h, n), h # NoFrame,
           NEW w, w = pfdb_dec_page_use_count(u, h)
    PROVE  Sound(w, L, R, {}, NoFrame, 0) /\ w.panic = u.panic /\ w.base = u.base
<1>1. Tree(u, L, R) /\ Shape(u) /\ LeavesOK(u, L, {}) /\ Loose(u, L, h, n)
  BY DEF Sound, Tree, Kept
<1>2. h \in Frames /\ L[h] = -1 /\ Unaimed(u, L, h) /\ u.use[h] >= 1
  BY <1>1 DEF Loose
<1>3. OnlyFrame(u, w, h)
  BY <1>1, <1>2, DecIs
<1>4. Sound(u, L, R, {}, NoFrame, 0)
  BY <1>1 DEF Sound, Kept
<1>5. h # NoFrame
  OBVIOUS
<1>6. Sound(w, L, R, {}, NoFrame, 0)
  BY <1>2, <1>3, <1>4, <1>5, UnaimedKeeps
<1> QED
  BY <1>3, <1>6 DEF OnlyFrame, SameBase

\* What has failed a kassert has failed it for good.
LEMMA PanicStays ==
    ASSUME NEW u, IsRecord(u), u.panic = TRUE, NEW f
    PROVE  /\ IsRecord(pfdb_dec_page_use_count(u, f)) /\ pfdb_dec_page_use_count(u, f).panic = TRUE
<1>1. CASE u.use[f] > 1
  BY <1>1 DEF pfdb_dec_page_use_count, IsRecord
<1>2. CASE ~ u.use[f] > 1
  <2> DEFINE x == [u EXCEPT !.panic = TRUE]
  <2>1. IsRecord(x) /\ x.panic = TRUE
    BY DEF IsRecord
  <2>2. kassert(u, u.use[f] = 1) = u \/ kassert(u, u.use[f] = 1) = x
    BY DEF kassert
  <2> DEFINE k == kassert(u, u.use[f] = 1)
  <2>3. IsRecord(k) /\ k.panic = TRUE
    BY <2>1, <2>2
  <2> HIDE DEF k, x
  <2>4. \E y : pfdb_dec_page_use_count(u, f) = [k EXCEPT !.use[f] = 0, !.len[f] = 0, !.pte[f] = NoTable, !.word = y]
    BY <1>2 DEF pfdb_dec_page_use_count, k
  <2>5. PICK y : pfdb_dec_page_use_count(u, f) = [k EXCEPT !.use[f] = 0, !.len[f] = 0, !.pte[f] = NoTable, !.word = y]
    BY <2>4
  <2> QED
    BY <2>3, <2>5 DEF IsRecord
<1> QED
  BY <1>1, <1>2

-----------------------------------------------------------------------------
(* A table is taken from the free pages.                                   *)

LEMMA FreeClusterIs ==
    ASSUME NEW u, NEW n, FreeClusters(u, n) # {}
    PROVE  Min(FreeClusters(u, n)) \in FreeClusters(u, n)
<1>1. FreeClusters(u, n) \in SUBSET Nat
  BY PageTableFacts DEF FreeClusters
<1>2. \E x \in FreeClusters(u, n) : \A y \in FreeClusters(u, n) : x <= y
  BY <1>1, LeastNatural
<1> QED
  BY <1>2 DEF Min

(* pgtbl_alloc_pgtbl_page gives a table that nothing refers to.            *)
LEMMA TakeTable ==
    ASSUME NEW u, NEW L, NEW R, NEW h, NEW n, Sound(u, L, R, {}, h, n), FreeClusters(u, 1) # {}, NEW s,
           NEW l \in 0 .. 2, NEW p \in Int, l < 2 => \E k \in 0 .. l : p \in RegionPages(k),
           NEW a, a = pgtbl_alloc_pgtbl_page(u, s)
    PROVE  /\ a.frame \in Frames /\ L[a.frame] = -1 /\ a.v.panic = u.panic /\ a.v.base = u.base
           /\ Sound(a.v, Given(L, a.frame, l), Given(R, a.frame, p), {}, h, n)
           /\ Unaimed(a.v, Given(L, a.frame, l), a.frame) /\ a.v.pte[a.frame] = NoTable
           /\ \A g \in Frames : g # a.frame => SameFrame(u, a.v, g)
<1> DEFINE t == Min(FreeClusters(u, 1))
           w == get_free_page_cluster(u, t, 1)
           x == [w.nr EXCEPT ![s] = @ + 1]
           z == [w EXCEPT !.nr = x]
<1>1. a.frame = t /\ a.v = z
  BY DEF pgtbl_alloc_pgtbl_page
<1>2. t \in FreeClusters(u, 1)
  BY FreeClusterIs
<1>3. t \in Frames
  BY <1>2 DEF FreeClusters
<1> HIDE DEF t
<1>4. Sound(w, L, R, {}, h, n) /\ Loose(w, L, t, 1) /\ t # h /\ w.pte[t] = NoTable
  BY <1>2, AllocKeeps
<1>5. OnlyFrame(u, w, t)
  BY <1>3, AllocIs DEF Sound, Tree
<1> HIDE DEF w, x
<1>6. Shape(w) /\ Tree(w, L, R) /\ LeavesOK(w, L, {})
  BY <1>4 DEF Sound, Tree
<1>7. Alike(w, z)
  BY <1>6, AlikeIs
<1> HIDE DEF z
<1>8. Sound(z, L, R, {}, h, n)
  BY <1>4, <1>7, AlikeSound
<1>9. Sound(w, L, R, {}, t, 1)
  BY <1>4, <1>6 DEF Sound, Kept
<1>10. Sound(z, L, R, {}, t, 1)
  BY <1>7, <1>9, AlikeSound
<1>11. Loose(z, L, t, 1)
  BY <1>3, <1>10, PageTableFacts DEF Sound, Kept
<1>12. z.pte[t] = NoTable /\ \A g \in Frames : SameFrame(w, z, g)
  BY <1>3, <1>4, <1>7 DEF Alike, SameFrame
<1>13. ValidIn(z, t, l) = {}
  <2>1. IndexesOf(l) \subseteq 0 .. Top - 1
    BY PageTableFacts
  <2> QED
    BY <1>12, <2>1, EmptyIs DEF ValidIn
<1>14. /\ Sound(z, Given(L, t, l), Given(R, t, p), {}, h, n) /\ Unaimed(z, Given(L, t, l), t)
  BY <1>4, <1>8, <1>11, <1>13, NewTable
<1>15. L[t] = -1
  BY <1>4 DEF Loose
<1>16. z.panic = u.panic /\ z.base = u.base
  BY <1>5, <1>7 DEF Alike, OnlyFrame, SameBase
<1>17. \A g \in Frames : g # t => SameFrame(u, z, g)
  BY <1>5, <1>12 DEF OnlyFrame, SameFrame
<1> QED
  BY <1>1, <1>3, <1>12, <1>14, <1>15, <1>16, <1>17

-----------------------------------------------------------------------------
(* One level of the way down.                                              *)

LEMMA SizesApart ==
    ASSUME NEW k \in 0 .. 2, NEW l \in 0 .. 2, rv64_pgtbl_calc_pagesize(k) = rv64_pgtbl_calc_pagesize(l)
    PROVE  k = l
<1>1. PerTable \in Nat /\ PerTable >= 2
  BY PageTableFacts
<1>2. PerTable * PerTable > PerTable
  BY <1>1
<1>3. (k = 0 \/ k = 1 \/ k = 2) /\ (l = 0 \/ l = 1 \/ l = 2)
  OBVIOUS
<1>4. PerTable # 1 /\ PerTable * PerTable # 1 /\ PerTable * PerTable # PerTable
  BY <1>1, <1>2
<1> QED
  BY <1>3, <1>4, PageSizeIs

(* The pages of regions are pages of users.                                *)
LEMMA RegionPageIs ==
    ASSUME NEW k \in 0 .. 2, NEW p \in RegionPages(k)
    PROVE  p \in UserPages /\ p \in Nat
<1>1. PICK r \in Regions : p \in r.start .. r.start + r.len - 1
  BY DEF RegionPages
<1>2. r.start \in UserPages /\ r.len \in Nat /\ r.start + r.len - 1 \in UserPages
  BY VmAssumption
<1>3. \A x \in UserPages : x \in Int
  BY DEF UserPages
<1>4. p \in Int /\ r.start <= p /\ p <= r.start + r.len - 1
  BY <1>1, <1>2, <1>3
<1>5. (Top - 1) * rv64_pgtbl_calc_pagesize(2) - 1 \in Int
  BY PageTableFacts, PageSizeIs
<1> QED
  BY <1>2, <1>4, <1>5 DEF UserPages

\* A small page is not looked up through a leaf of a larger one.
LEMMA NoLargerLeaf ==
    ASSUME NEW k \in 0 .. 2, NEW va \in RegionPages(k), NEW l \in 0 .. 2, k < l, NEW R, NEW f,
           Agree(va, R[f], l + 1), NEW q \in RegionPages(l),
           LeadsTo(q, R, f, l, rv64_pgtbl_calc_index_val(va, l))
    PROVE  FALSE
<1>1. \A m \in l .. 2 : m = l \/ m \in l + 1 .. 2
  OBVIOUS
<1>2. Agree(va, q, l)
  BY <1>1 DEF Agree, LeadsTo
<1> QED
  BY <1>2, VmAssumption

\* Nor is a page looked up through a leaf of a smaller one.
LEMMA NoSmallerLeaf ==
    ASSUME NEW k \in 0 .. 2, NEW va \in RegionPages(k), NEW l \in 0 .. 2, l < k, NEW R, NEW f,
           Agree(va, R[f], l + 1), NEW q \in RegionPages(l),
           LeadsTo(q, R, f, l, rv64_pgtbl_calc_index_val(va, l))
    PROVE  FALSE
<1>1. \A m \in k .. 2 : m \in l + 1 .. 2
  OBVIOUS
<1>2. Agree(q, va, k)
  BY <1>1 DEF Agree, LeadsTo
<1> QED
  BY <1>2, VmAssumption

\* The table st.tbl of the level lvl is on the way to the entry of va, where
\* the page h of the level k is to be entered.
Ready(st, L, R, k, lvl, va, h) ==
    /\ st = [v |-> st.v, tbl |-> st.tbl, rc |-> "go"]
    /\ lvl \in k .. 2 /\ st.tbl \in Frames /\ L[st.tbl] = lvl /\ Agree(va, R[st.tbl], lvl + 1)
    /\ Sound(st.v, L, R, {}, h, rv64_pgtbl_calc_pagesize(k))
Ended(st, k, h) ==
    /\ st.rc \in {"OK", "EBUSY", "ENOMEM"}
    /\ IF st.rc = "OK" THEN \E L, R : Sound(st.v, L, R, {}, NoFrame, 0)
       ELSE \E L, R : Sound(st.v, L, R, {}, h, rv64_pgtbl_calc_pagesize(k))
\* The way down to the entry has ended or goes on at the level lvl.
Grown(u, st, k, lvl, va, h) ==
    /\ st.v.panic = u.panic /\ st.v.base = u.base
    /\ Ended(st, k, h) \/ \E L, R : Ready(st, L, R, k, lvl, va, h)
EntryBits(prot, flags) == prot \subseteq {"R", "W", "X"} /\ prot # {} /\ flags \subseteq {"A", "D", "S"}

(* grow_pgtbl keeps the trees and is ready for the next level, or ends.    *)
LEMMA GrowKeeps ==
    ASSUME NEW st, NEW L, NEW R, NEW k \in 0 .. 2, NEW lvl, NEW va \in RegionPages(k), NEW h, h # NoFrame,
           Ready(st, L, R, k, lvl, va, h), NEW s, NEW prot, NEW flags, EntryBits(prot, flags),
           NEW nx, nx = grow_pgtbl(st, s, lvl, va, h, prot, flags, rv64_pgtbl_calc_pagesize(k))
    PROVE  Grown(st.v, nx, k, lvl - 1, va, h)
<1> DEFINE i    == rv64_pgtbl_calc_index_val(va, lvl)
           pte  == st.v.pte[st.tbl][i]
           here == rv64_pgtbl_calc_pagesize(lvl) = rv64_pgtbl_calc_pagesize(k)
           leaf == [bits |-> vmprot_and_vmflags_to_pte(prot, flags) \cup {"V"}, ppn |-> h]
           new  == pgtbl_alloc_pgtbl_page(st.v, s)
           f    == st.tbl
           n    == rv64_pgtbl_calc_pagesize(k)
<1>1. /\ st = [v |-> st.v, tbl |-> f, rc |-> "go"] /\ lvl \in k .. 2 /\ f \in Frames /\ L[f] = lvl /\ lvl \in 0 .. 2
      /\ L[f] # -1 /\ Agree(va, R[f], lvl + 1) /\ Sound(st.v, L, R, {}, h, n)
  BY DEF Ready
<1>2. /\ Tree(st.v, L, R) /\ Shape(st.v) /\ Loose(st.v, L, h, n)
  BY <1>1 DEF Sound, Kept, Tree
<1>3. va \in UserPages /\ va \in Nat /\ i \in IndexesOf(lvl)
  BY <1>1, RegionPageIs, IndexIs
<1>4. here <=> lvl = k
  BY <1>1, SizesApart
<1>5. RV64_PTE_IS_VALID(pte) <=> i \in ValidIn(st.v, f, lvl)
  BY <1>3 DEF ValidIn
<1>6. nx = CASE RV64_PTE_IS_VALID(pte) /\ here   -> [st EXCEPT !.rc = "EBUSY"]
             [] RV64_PTE_IS_VALID(pte) /\ ~ here -> [st EXCEPT !.tbl = pte.ppn]
             [] ~ RV64_PTE_IS_VALID(pte) /\ here -> [st EXCEPT !.v = PutEntry(st.v, f, i, leaf), !.rc = "OK"]
             [] OTHER -> IF FreeClusters(st.v, 1) = {} THEN [st EXCEPT !.rc = "ENOMEM"]
                         ELSE [st EXCEPT !.v = PutEntry(new.v, f, i, TableEntry(new.frame)), !.tbl = new.frame]
  BY DEF grow_pgtbl, PutEntry
<1> HIDE DEF i, pte, here, leaf, new, f, n
<1>7. CASE RV64_PTE_IS_VALID(pte) /\ here
  <2>1. nx = [st EXCEPT !.rc = "EBUSY"]
    BY <1>6, <1>7
  <2>2. nx.v = st.v /\ nx.rc = "EBUSY"
    BY <1>1, <2>1
  <2> QED
    BY <1>1, <2>2 DEF Grown, Ended, n
<1>8. CASE RV64_PTE_IS_VALID(pte) /\ ~ here
  <2>1. nx = [st EXCEPT !.tbl = pte.ppn]
    BY <1>6, <1>8
  <2>2. nx = [v |-> st.v, tbl |-> pte.ppn, rc |-> "go"]
    BY <1>1, <2>1
  <2>3. lvl > k /\ lvl - 1 \in k .. 2
    BY <1>1, <1>4, <1>8
  <2>4. EntryOK(st.v, L, R, f, i)
    BY <1>1, <1>2, <1>5, <1>8, TreeFacts
  <2>5. AimOf(st.v, f, i) = pte.ppn
    BY DEF AimOf, pte, f
  <2>6. ~ LeafAt(st.v, f, i)
    <3> SUFFICES ASSUME LeafAt(st.v, f, i) PROVE FALSE
      OBVIOUS
    <3>1. PICK q \in RegionPages(lvl) : LeadsTo(q, R, f, lvl, i)
      BY <1>1, <2>4 DEF EntryOK
    <3>2. LeadsTo(q, R, f, lvl, rv64_pgtbl_calc_index_val(va, lvl))
      BY <3>1 DEF i
    <3>3. k < lvl
      BY <1>1, <2>3
    <3> QED
      BY <1>1, <3>2, <3>3, NoLargerLeaf
  <2>7. pte.ppn \in Frames /\ L[pte.ppn] = lvl - 1 /\ LeadsTo(R[pte.ppn], R, f, lvl, i)
    BY <1>1, <2>4, <2>5, <2>6 DEF EntryOK
  <2>8. Agree(va, R[pte.ppn], (lvl - 1) + 1)
    <3>1. \A m \in (lvl - 1) + 1 .. 2 : m = lvl \/ m \in lvl + 1 .. 2
      BY <1>1
    <3> QED
      BY <1>1, <2>7, <3>1 DEF Agree, LeadsTo, i
  <2>9. Ready(nx, L, R, k, lvl - 1, va, h)
    BY <1>1, <2>2, <2>3, <2>7, <2>8 DEF Ready, n
  <2> QED
    BY <2>2, <2>9 DEF Grown
<1>9. CASE ~ RV64_PTE_IS_VALID(pte) /\ here
  <2> DEFINE w == PutEntry(st.v, f, i, leaf)
  <2>1. nx = [st EXCEPT !.v = w, !.rc = "OK"]
    BY <1>6, <1>9
  <2>2. EntryFits(L, R, f, i, leaf)
    <3>1. leaf \in EntriesType /\ RV64_PTE_IS_VALID(leaf) /\ RV64_PTE_IS_LEAF(leaf) /\ leaf.ppn = h
      <4>1. h \in Int
        BY <1>2, PageTableFacts DEF Loose
      <4> QED
        BY <4>1 DEF leaf, EntriesType, RV64_PTE_IS_VALID, RV64_PTE_IS_LEAF, EntryBits, vmprot_and_vmflags_to_pte
    <3>2. LeadsTo(va, R, f, L[f], i)
      BY <1>1 DEF LeadsTo, i
    <3> QED
      BY <1>1, <1>2, <1>4, <1>9, <3>1, <3>2 DEF EntryFits, Loose
  <2>3. leaf.ppn = h
    BY DEF leaf
  <2>4. L[f] = k /\ i \in IndexesOf(L[f]) /\ i \notin ValidIn(st.v, f, L[f])
    BY <1>1, <1>3, <1>4, <1>5, <1>9
  <2>5. n = rv64_pgtbl_calc_pagesize(L[f])
    BY <2>4 DEF n
  <2>6. Sound(w, L, R, {}, NoFrame, 0) /\ w.panic = st.v.panic /\ w.base = st.v.base
    BY <1>1, <2>2, <2>3, <2>4, <2>5, PutLeaf
  <2> HIDE DEF w
  <2>7. nx.v = w /\ nx.rc = "OK"
    BY <1>1, <2>1
  <2> QED
    BY <2>6, <2>7 DEF Grown, Ended
<1>10. CASE ~ RV64_PTE_IS_VALID(pte) /\ ~ here /\ FreeClusters(st.v, 1) = {}
  <2>1. nx = [st EXCEPT !.rc = "ENOMEM"]
    BY <1>6, <1>10
  <2>2. nx.v = st.v /\ nx.rc = "ENOMEM"
    BY <1>1, <2>1
  <2> QED
    BY <1>1, <2>2 DEF Grown, Ended, n
<1>11. CASE ~ RV64_PTE_IS_VALID(pte) /\ ~ here /\ FreeClusters(st.v, 1) # {}
  <2> DEFINE e == TableEntry(new.frame)
             w == PutEntry(new.v, f, i, e)
             t == new.frame
             M == Given(L, t, lvl - 1)
             S == Given(R, t, va)
  <2>1. nx = [st EXCEPT !.v = w, !.tbl = t]
    BY <1>6, <1>11
  <2>2. lvl > k /\ lvl - 1 \in k .. 2 /\ lvl - 1 \in 0 .. 2 /\ va \in Int
    BY <1>1, <1>3, <1>4, <1>11
  <2>3. k \in 0 .. lvl - 1
    BY <1>1, <2>2
  <2>4. /\ t \in Frames /\ L[t] = -1 /\ new.v.panic = st.v.panic /\ new.v.base = st.v.base
        /\ Sound(new.v, M, S, {}, h, n) /\ Unaimed(new.v, M, t)
        /\ \A g \in Frames : g # t => SameFrame(st.v, new.v, g)
    BY <1>1, <1>11, <2>2, <2>3, TakeTable DEF new
  <2>5. t # f /\ L \in [Frames -> -1 .. 2] /\ R \in [Frames -> Int]
    BY <1>1, <1>2, <2>4 DEF Tree
  <2>6. M[f] = lvl /\ S[f] = R[f] /\ M[t] = lvl - 1 /\ S[t] = va
    BY <1>1, <2>4, <2>5 DEF Given
  <2>7. i \in IndexesOf(M[f]) /\ i \notin ValidIn(new.v, f, M[f])
    BY <1>1, <1>3, <1>5, <1>11, <2>4, <2>5, <2>6 DEF SameFrame, ValidIn
  <2> HIDE DEF M, S, t
  <2>8. e.ppn = t /\ ~ RV64_PTE_IS_LEAF(e) /\ EntryFits(M, S, f, i, e)
    <3>1. e \in EntriesType /\ RV64_PTE_IS_VALID(e) /\ ~ RV64_PTE_IS_LEAF(e) /\ e.ppn = t
      <4>1. t \in Int
        BY <2>4, PageTableFacts
      <4> QED
        BY <4>1 DEF e, t, TableEntry, EntriesType, RV64_PTE_IS_VALID, RV64_PTE_IS_LEAF
    <3>2. LeadsTo(S[t], S, f, M[f], i)
      BY <1>1, <2>6 DEF LeadsTo, i
    <3> HIDE DEF e
    <3> QED
      BY <1>1, <2>2, <2>4, <2>6, <3>1, <3>2 DEF EntryFits
  <2> HIDE DEF e
  <2>9. M[f] # -1 /\ Unaimed(new.v, M, e.ppn)
    BY <1>1, <2>4, <2>6, <2>8
  <2>10. Sound(w, M, S, {}, h, n) /\ w.panic = new.v.panic /\ w.base = new.v.base
    BY <1>1, <2>4, <2>7, <2>8, <2>9, PutTable
  <2> HIDE DEF w
  <2>11. nx = [v |-> w, tbl |-> t, rc |-> "go"]
    <3> DEFINE y == [st EXCEPT !.v = w]
    <3>1. y = [v |-> w, tbl |-> f, rc |-> "go"]
      BY <1>1
    <3>2. nx = [y EXCEPT !.tbl = t]
      BY <2>1
    <3> HIDE DEF y
    <3> QED
      BY <3>1, <3>2
  <2>12. Agree(va, S[t], (lvl - 1) + 1)
    BY <2>6 DEF Agree
  <2>13. Ready(nx, M, S, k, lvl - 1, va, h)
    BY <2>2, <2>4, <2>6, <2>10, <2>11, <2>12 DEF Ready, n
  <2> QED
    BY <2>4, <2>10, <2>11, <2>13 DEF Grown
<1> QED
  BY <1>7, <1>8, <1>9, <1>10, <1>11

-----------------------------------------------------------------------------
(* The way down to the entry of an address, as hal_pgtbl_extract and       *)
(* remove_table_reference find it.                                         *)

EntryOf(va, l) == rv64_pgtbl_calc_index_val(va, l)
\* The tables t of the levels from k on; the lowest entry is that of low.
Chain(u, L, va, t, k, low) ==
    \A m \in k .. 2 :
      /\ t[m] \in Frames /\ L[t[m]] = m /\ EntryOf(va, m) \in ValidIn(u, t[m], m) /\ ~ LeafAt(u, t[m], EntryOf(va, m))
      /\ AimOf(u, t[m], EntryOf(va, m)) = IF m = k THEN low ELSE t[m - 1]
FoundIn(u, L, R, va, p, r) ==
    LET t == p.pgtbl[p.lvl]
        i == EntryOf(va, p.lvl)
    IN  /\ p.lvl \in 0 .. 2 /\ t \in Frames /\ L[t] = p.lvl /\ Agree(va, R[t], p.lvl + 1)
        /\ i \in ValidIn(u, t, p.lvl) /\ LeafAt(u, t, i) /\ Chain(u, L, va, p.pgtbl, p.lvl + 1, t)
        /\ r.rc = "OK" /\ r.paddr = AimOf(u, t, i) /\ r.pgsize = rv64_pgtbl_calc_pagesize(p.lvl)
        /\ r.attr = pte_to_vmprot_and_vmflags(u.pte[t][i])
GoingDown(u, L, R, va, p, lvl, r) ==
    /\ r.rc = "EAGAIN" /\ r.next = p.cur /\ lvl \in 0 .. 2 /\ p.cur \in Frames /\ L[p.cur] = lvl
    /\ Agree(va, R[p.cur], lvl + 1) /\ Chain(u, L, va, p.pgtbl, lvl + 1, p.cur)
Way(u, L, R, va, p, lvl, r) ==
    /\ p = [pgtbl |-> p.pgtbl, cur |-> p.cur, lvl |-> p.lvl, rc |-> p.rc] /\ p.pgtbl \in [0 .. 2 -> Int]
    /\ \/ p.rc = "go" /\ GoingDown(u, L, R, va, p, lvl, r)
       \/ p.rc = "bad" /\ r.rc = "ENOENT"
       \/ p.rc = "found" /\ FoundIn(u, L, R, va, p, r)

(* One level of the walk: both ways of walking agree.                      *)
LEMMA WalkKeeps ==
    ASSUME NEW u, NEW L, NEW R, Tree(u, L, R), NEW va \in UserPages, NEW p, NEW lvl \in 0 .. 2, NEW r,
           Way(u, L, R, va, p, lvl, r)
    PROVE  /\ Way(u, L, R, va, Down(u, va, p, lvl), lvl - 1, walk_on(u, r, lvl, va))
           /\ \A w : (\A g \in Frames : L[g] # -1 => SameFrame(u, w, g)) => Down(w, va, p, lvl) = Down(u, va, p, lvl)
<1> DEFINE f == p.cur
           i == rv64_pgtbl_calc_index_val(va, lvl)
           pte == u.pte[f][i]
           q == [p EXCEPT !.pgtbl[lvl] = p.cur, !.lvl = lvl]
           d == Down(u, va, p, lvl)
           x == walk_on(u, r, lvl, va)
           t == [p.pgtbl EXCEPT ![lvl] = f]
<1>0. p = [pgtbl |-> p.pgtbl, cur |-> p.cur, lvl |-> p.lvl, rc |-> p.rc] /\ p.pgtbl \in [0 .. 2 -> Int]
  BY DEF Way
<1>1. CASE p.rc # "go"
  <2>1. d = p /\ \A w : Down(w, va, p, lvl) = p
    BY <1>1 DEF Down
  <2>2. r.rc # "EAGAIN"
    BY <1>1 DEF Way, FoundIn
  <2>3. x = r
    BY <2>2 DEF walk_on
  <2>4. Way(u, L, R, va, p, lvl - 1, r)
    BY <1>1 DEF Way
  <2> QED
    BY <2>1, <2>3, <2>4
<1>2. CASE p.rc = "go"
  <2>1. GoingDown(u, L, R, va, p, lvl, r)
    BY <1>2 DEF Way
  <2>2. /\ r.rc = "EAGAIN" /\ r.next = f /\ f \in Frames /\ L[f] = lvl /\ L[f] # -1
        /\ Agree(va, R[f], lvl + 1) /\ Chain(u, L, va, p.pgtbl, lvl + 1, f)
    BY <2>1 DEF GoingDown
  <2>3. i \in IndexesOf(lvl) /\ f \in Int
    <3>1. i \in IndexesOf(lvl)
      BY IndexIs
    <3>2. Frames \subseteq Int
      BY PageTableFacts
    <3> HIDE DEF i, f
    <3> QED
      BY <2>2, <3>1, <3>2
  <2>4. RV64_PTE_IS_VALID(pte) <=> i \in ValidIn(u, f, lvl)
    BY <2>3 DEF ValidIn
  <2>5. d = IF ~ RV64_PTE_IS_VALID(pte) THEN [p EXCEPT !.rc = "bad"]
            ELSE IF lvl = 0 \/ RV64_PTE_IS_LEAF(pte) THEN [q EXCEPT !.rc = "found"]
            ELSE [q EXCEPT !.cur = pte.ppn]
    BY <1>2 DEF Down
  <2>6. x = CASE ~ RV64_PTE_IS_VALID(pte) -> [rc |-> "ENOENT"]
              [] RV64_PTE_IS_VALID(pte) /\ ~ RV64_PTE_IS_LEAF(pte) -> [rc |-> "EAGAIN", next |-> pte.ppn]
              [] OTHER -> [rc |-> "OK", paddr |-> pte.ppn, pgsize |-> rv64_pgtbl_calc_pagesize(lvl),
                           attr |-> pte_to_vmprot_and_vmflags(pte)]
    BY <2>2 DEF walk_on, walk_pgtbl
  <2>7. \A w : (\A g \in Frames : L[g] # -1 => SameFrame(u, w, g)) => Down(w, va, p, lvl) = d
    BY <2>2 DEF SameFrame, Down
  <2>8. q = [pgtbl |-> t, cur |-> f, lvl |-> lvl, rc |-> "go"]
    <3> DEFINE y == [p EXCEPT !.pgtbl = t]
    <3>1. y = [pgtbl |-> t, cur |-> f, lvl |-> p.lvl, rc |-> "go"]
      BY <1>0, <1>2
    <3>2. q = [y EXCEPT !.lvl = lvl]
      OBVIOUS
    <3> HIDE DEF y, t, f
    <3> QED
      BY <3>1, <3>2
  <2>9. t \in [0 .. 2 -> Int] /\ t[lvl] = f /\ \A m \in 0 .. 2 : m # lvl => t[m] = p.pgtbl[m]
    BY <1>0, <2>3
  <2> HIDE DEF q, d, x, t
  <2>10. CASE ~ RV64_PTE_IS_VALID(pte)
    <3>1. d = [p EXCEPT !.rc = "bad"]
      BY <2>5, <2>10
    <3>2. d = [pgtbl |-> p.pgtbl, cur |-> p.cur, lvl |-> p.lvl, rc |-> "bad"]
      BY <1>0, <3>1
    <3>3. x.rc = "ENOENT"
      BY <2>6, <2>10
    <3> QED
      BY <1>0, <2>7, <3>2, <3>3 DEF Way, d, x
  <2>11. ASSUME RV64_PTE_IS_VALID(pte)
         PROVE  /\ i \in ValidIn(u, f, lvl) /\ EntryOK(u, L, R, f, i) /\ AimOf(u, f, i) = pte.ppn
                /\ LeafAt(u, f, i) <=> RV64_PTE_IS_LEAF(pte)
    <3>1. i \in ValidIn(u, f, L[f])
      BY <2>2, <2>4, <2>11
    <3>2. EntryOK(u, L, R, f, i)
      BY <2>2, <3>1, TreeFacts
    <3> QED
      BY <2>2, <3>1, <3>2 DEF AimOf, LeafAt
  <2>12. CASE RV64_PTE_IS_VALID(pte) /\ RV64_PTE_IS_LEAF(pte)
    <3>1. d = [q EXCEPT !.rc = "found"]
      BY <2>5, <2>12
    <3>2. d = [pgtbl |-> t, cur |-> f, lvl |-> lvl, rc |-> "found"]
      BY <2>8, <3>1
    <3>3. x = [rc |-> "OK", paddr |-> pte.ppn, pgsize |-> rv64_pgtbl_calc_pagesize(lvl),
               attr |-> pte_to_vmprot_and_vmflags(pte)]
      BY <2>6, <2>12
    <3>4. Chain(u, L, va, t, lvl + 1, f)
      <4>1. \A m \in lvl + 1 .. 2 : m \in 0 .. 2 /\ m # lvl /\ t[m] = p.pgtbl[m]
        BY <2>9
      <4>2. \A m \in lvl + 1 .. 2 : m # lvl + 1 => t[m - 1] = p.pgtbl[m - 1]
        BY <2>9
      <4> HIDE DEF f
      <4> QED
        BY <2>2, <4>1, <4>2 DEF Chain
    <3>5. FoundIn(u, L, R, va, d, x)
      <4>1. d.lvl = lvl /\ d.pgtbl = t /\ d.pgtbl[d.lvl] = f /\ EntryOf(va, d.lvl) = i
        BY <2>9, <3>2 DEF EntryOf
      <4>2. x.rc = "OK" /\ x.paddr = AimOf(u, f, i) /\ x.pgsize = rv64_pgtbl_calc_pagesize(lvl)
            /\ x.attr = pte_to_vmprot_and_vmflags(u.pte[f][i])
        BY <2>11, <2>12, <3>3
      <4>3. LeafAt(u, f, i) /\ i \in ValidIn(u, f, lvl)
        BY <2>11, <2>12
      <4> HIDE DEF f, i
      <4> QED
        BY <2>2, <3>4, <4>1, <4>2, <4>3 DEF FoundIn
    <3>6. d.pgtbl = t /\ d.rc = "found" /\ d = [pgtbl |-> d.pgtbl, cur |-> d.cur, lvl |-> d.lvl, rc |-> d.rc]
      BY <3>2
    <3>7. Way(u, L, R, va, d, lvl - 1, x)
      BY <2>9, <3>5, <3>6 DEF Way
    <3> QED
      BY <2>7, <3>7 DEF d, x
  <2>13. CASE RV64_PTE_IS_VALID(pte) /\ ~ RV64_PTE_IS_LEAF(pte)
    <3>1. /\ lvl >= 1 /\ pte.ppn \in Frames /\ L[pte.ppn] = lvl - 1 /\ LeadsTo(R[pte.ppn], R, f, lvl, i)
      BY <2>2, <2>11, <2>13 DEF EntryOK
    <3>2. d = [q EXCEPT !.cur = pte.ppn]
      BY <2>5, <2>13, <3>1
    <3>3. d = [pgtbl |-> t, cur |-> pte.ppn, lvl |-> lvl, rc |-> "go"]
      BY <2>8, <3>2
    <3>4. x = [rc |-> "EAGAIN", next |-> pte.ppn]
      BY <2>6, <2>13
    <3>5. Chain(u, L, va, t, (lvl - 1) + 1, pte.ppn)
      <4>1. \A m \in lvl + 1 .. 2 : m \in 0 .. 2 /\ m # lvl /\ t[m] = p.pgtbl[m]
        BY <2>9
      <4>2. \A m \in lvl + 1 .. 2 : m # lvl + 1 => t[m - 1] = p.pgtbl[m - 1]
        BY <2>9
      <4>3. \A m \in (lvl - 1) + 1 .. 2 : m = lvl \/ m \in lvl + 1 .. 2
        OBVIOUS
      <4>4. ASSUME NEW m \in lvl + 1 .. 2
            PROVE  /\ t[m] \in Frames /\ L[t[m]] = m /\ EntryOf(va, m) \in ValidIn(u, t[m], m)
                   /\ ~ LeafAt(u, t[m], EntryOf(va, m)) /\ AimOf(u, t[m], EntryOf(va, m)) = t[m - 1]
        <5>1. CASE m = lvl + 1
          BY <2>2, <2>9, <4>1, <5>1 DEF Chain
        <5>2. CASE m # lvl + 1
          BY <2>2, <4>1, <4>2, <5>2 DEF Chain
        <5> QED
          BY <5>1, <5>2
      <4>5. /\ t[lvl] \in Frames /\ L[t[lvl]] = lvl /\ EntryOf(va, lvl) \in ValidIn(u, t[lvl], lvl)
            /\ ~ LeafAt(u, t[lvl], EntryOf(va, lvl)) /\ AimOf(u, t[lvl], EntryOf(va, lvl)) = pte.ppn
        BY <2>2, <2>9, <2>11, <2>13 DEF EntryOf
      <4>6. \A m \in lvl + 1 .. 2 : m # (lvl - 1) + 1
        OBVIOUS
      <4> HIDE DEF f, i, pte
      <4> QED
        BY <4>3, <4>4, <4>5, <4>6 DEF Chain
    <3>6. Agree(va, R[pte.ppn], (lvl - 1) + 1)
      <4>1. \A m \in (lvl - 1) + 1 .. 2 : m = lvl \/ m \in lvl + 1 .. 2
        OBVIOUS
      <4> QED
        BY <2>2, <3>1, <4>1 DEF Agree, LeadsTo
    <3>7. lvl - 1 \in 0 .. 2
      BY <3>1
    <3> HIDE DEF f, i, pte
    <3>8. /\ d.pgtbl = t /\ d.rc = "go" /\ d.cur = pte.ppn /\ x.rc = "EAGAIN" /\ x.next = pte.ppn
          /\ d = [pgtbl |-> d.pgtbl, cur |-> d.cur, lvl |-> d.lvl, rc |-> d.rc]
      BY <3>3, <3>4
    <3>9. GoingDown(u, L, R, va, d, lvl - 1, x)
      BY <3>1, <3>5, <3>6, <3>7, <3>8 DEF GoingDown
    <3>10. Way(u, L, R, va, d, lvl - 1, x)
      BY <2>9, <3>8, <3>9 DEF Way
    <3> QED
      BY <2>7, <3>10 DEF d, x
  <2> QED
    BY <2>10, <2>12, <2>13
<1> QED
  BY <1>1, <1>2

\* The whole way; a record whose tables are the same has the same.
LEMMA PathIs ==
    ASSUME NEW u, NEW L, NEW R, Tree(u, L, R), NEW va \in UserPages, NEW s \in Spaces, u.base[s] # NoFrame,
           NEW p, p = TablePath(u, s, va), NEW r, r = hal_pgtbl_extract(u, s, va)
    PROVE  /\ (p.rc = "bad" /\ r.rc = "ENOENT") \/ (p.rc = "found" /\ p.pgtbl \in [0 .. 2 -> Int] /\ FoundIn(u, L, R, va, p, r))
           /\ \A w : (w.base = u.base /\ \A g \in Frames : L[g] # -1 => SameFrame(u, w, g)) => TablePath(w, s, va) = p
<1> DEFINE p0 == [pgtbl |-> [l \in 0 .. 2 |-> NoFrame], cur |-> u.base[s], lvl |-> 2, rc |-> "go"]
           r0 == [rc |-> "EAGAIN", next |-> u.base[s]]
           p1 == Down(u, va, p0, 2)
           r1 == walk_on(u, r0, 2, va)
           p2 == Down(u, va, p1, 1)
           r2 == walk_on(u, r1, 1, va)
           p3 == Down(u, va, p2, 0)
           r3 == walk_on(u, r2, 0, va)
           Alter(w) == \A g \in Frames : L[g] # -1 => SameFrame(u, w, g)
<1>1. p = p3 /\ r = r3
  BY DEF TablePath, hal_pgtbl_extract
<1>2. Way(u, L, R, va, p0, 2, r0)
  <2>1. u.base[s] \in Frames /\ L[u.base[s]] = 2
    BY DEF Tree, Shape, BasesOK
  <2>2. GoingDown(u, L, R, va, p0, 2, r0)
    BY <2>1 DEF GoingDown, Agree, Chain
  <2>3. p0.pgtbl \in [0 .. 2 -> Int]
    BY DEF NoFrame
  <2> QED
    BY <2>2, <2>3 DEF Way
<1>3. \A w : w.base = u.base => TablePath(w, s, va) = Down(w, va, Down(w, va, Down(w, va, p0, 2), 1), 0)
  BY DEF TablePath
<1> HIDE DEF p0, r0
<1>4. Way(u, L, R, va, p1, 2 - 1, r1) /\ \A w : Alter(w) => Down(w, va, p0, 2) = p1
  BY <1>2, WalkKeeps
<1> HIDE DEF p1, r1
<1>5. Way(u, L, R, va, p2, 1 - 1, r2) /\ \A w : Alter(w) => Down(w, va, p1, 1) = p2
  BY <1>4, WalkKeeps
<1> HIDE DEF p2, r2
<1>6. Way(u, L, R, va, p3, 0 - 1, r3) /\ \A w : Alter(w) => Down(w, va, p2, 0) = p3
  BY <1>5, WalkKeeps
<1> HIDE DEF p3, r3
<1>7. ~ GoingDown(u, L, R, va, p3, 0 - 1, r3)
  BY DEF GoingDown
<1> QED
  BY <1>1, <1>3, <1>4, <1>5, <1>6, <1>7 DEF Way

-----------------------------------------------------------------------------
(* The way up: an entry is taken out, and the tables that have none left.  *)

Rising(st, L, R, X, p, va, h, n) ==
    LET t == p.pgtbl[st.lvl]
        i == EntryOf(va, st.lvl)
        a == AimOf(st.v, t, i)
    IN  /\ st.lvl \in p.lvl .. 2 /\ Sound(st.v, L, R, X, h, n) /\ X \subseteq {a}
        /\ t \in Frames /\ L[t] = st.lvl /\ i \in ValidIn(st.v, t, st.lvl)
        /\ Chain(st.v, L, va, p.pgtbl, st.lvl + 1, t)
        /\ st.lvl # p.lvl => /\ X = {} /\ a \in Frames /\ L[a] = st.lvl - 1
                             /\ ValidIn(st.v, a, st.lvl - 1) = {}
Climb(st, c, p, va, h, n) ==
    /\ st = [v |-> st.v, lvl |-> st.lvl, stop |-> st.stop] /\ st.lvl \in 0 .. 3 /\ st.stop \in BOOLEAN
    /\ \/ (st.stop = TRUE \/ st.lvl = 3) /\ \E L, R : Sound(st.v, L, R, {}, h, n)
       \/ st.stop = FALSE /\ st.lvl >= c /\ \E L, R, X : Rising(st, L, R, X, p, va, h, n)

UpTo(p, s, st, cut, t, a) ==
    IF cut.use[t] > 1 THEN [v |-> cut, lvl |-> st.lvl, stop |-> TRUE]
    ELSE [v |-> IF st.lvl = p.lvl THEN cut
                ELSE drop_low(cut, s, a),
          lvl |-> st.lvl + 1, stop |-> FALSE]
UpDoes(p, s, va, st) ==
    LET t == p.pgtbl[st.lvl]
        i == rv64_pgtbl_calc_index_val(va, st.lvl)
    IN  UpTo(p, s, st, Unlink(st.v, t, i), t, st.v.pte[t][i].ppn)

(* One level of the way up, with its cases apart.                          *)
LEMMA UpIs ==
    ASSUME NEW p, NEW s, NEW va, NEW st, st.lvl \in 0 .. 3, st.stop \in BOOLEAN
    PROVE  Up(p, s, va, st) = IF st.stop = TRUE \/ st.lvl = 3 THEN st ELSE UpDoes(p, s, va, st)
<1> DEFINE up  == UpDoes(p, s, va, st)
           big == st.lvl > 2
<1>1. big <=> st.lvl = 3
  OBVIOUS
<1>2. Up(p, s, va, st) = IF st.stop \/ big THEN st ELSE up
  BY DEF Up, UpTo, UpDoes
<1> HIDE DEF up, big
<1>3. st.stop <=> st.stop = TRUE
  OBVIOUS
<1>4. Up(p, s, va, st) = IF st.stop = TRUE \/ st.lvl = 3 THEN st ELSE up
  BY <1>1, <1>2, <1>3
<1> QED
  BY <1>4 DEF up

(* One level of the way up keeps the trees.                                *)
LEMMA UpKeeps ==
    ASSUME NEW p, p.lvl \in 0 .. 2, NEW s, NEW va, NEW h, NEW n, NEW c \in Nat, NEW st, Climb(st, c, p, va, h, n),
           NEW nx, nx = Up(p, s, va, st)
    PROVE  Climb(nx, c + 1, p, va, h, n) /\ nx.v.panic = st.v.panic /\ nx.v.base = st.v.base
<1>0. st = [v |-> st.v, lvl |-> st.lvl, stop |-> st.stop] /\ st.lvl \in 0 .. 3 /\ st.stop \in BOOLEAN
  BY DEF Climb
<1> DEFINE t == p.pgtbl[st.lvl]
           i == EntryOf(va, st.lvl)
           a == AimOf(st.v, t, i)
<1>00. nx = IF st.stop = TRUE \/ st.lvl = 3 THEN st ELSE UpTo(p, s, st, Unlink(st.v, t, i), t, a)
  <2>1. nx = IF st.stop = TRUE \/ st.lvl = 3 THEN st ELSE UpDoes(p, s, va, st)
    BY <1>0, UpIs
  <2>2. UpDoes(p, s, va, st) = UpTo(p, s, st, Unlink(st.v, t, i), t, a)
    BY DEF UpDoes, EntryOf, AimOf
  <2> QED
    BY <2>1, <2>2
<1>1. CASE st.stop = TRUE \/ st.lvl = 3
  <2>1. nx = st
    BY <1>1, <1>00
  <2>2. ~ \E L, R, X : st.lvl = 3 /\ Rising(st, L, R, X, p, va, h, n)
    BY DEF Rising
  <2>3. \E L, R : Sound(st.v, L, R, {}, h, n)
    BY <1>1, <2>2 DEF Climb
  <2> QED
    BY <1>0, <1>1, <2>1, <2>3 DEF Climb
<1>2. CASE st.stop # TRUE /\ st.lvl # 3
  <2>1. PICK L, R, X : st.stop = FALSE /\ st.lvl >= c /\ Rising(st, L, R, X, p, va, h, n)
    BY <1>2 DEF Climb
  <2> DEFINE l   == st.lvl
             cut == Unlink(st.v, t, i)
             end == IF st.lvl = p.lvl THEN cut ELSE drop_low(cut, s, a)
  <2>0. l \in Int /\ p.lvl \in Int
    BY <1>0
  <2>2. /\ l \in p.lvl .. 2 /\ l \in 0 .. 2 /\ Sound(st.v, L, R, X, h, n) /\ X \subseteq {a} /\ t \in Frames /\ L[t] = l /\ L[t] # -1
        /\ i \in ValidIn(st.v, t, l) /\ i \in ValidIn(st.v, t, L[t]) /\ Chain(st.v, L, va, p.pgtbl, l + 1, t)
        /\ l # p.lvl => X = {} /\ a \in Frames /\ L[a] = l - 1 /\ ValidIn(st.v, a, l - 1) = {}
    <3>1. /\ l \in p.lvl .. 2 /\ Sound(st.v, L, R, X, h, n) /\ X \subseteq {a} /\ t \in Frames /\ L[t] = l
          /\ i \in ValidIn(st.v, t, l) /\ Chain(st.v, L, va, p.pgtbl, l + 1, t)
          /\ l # p.lvl => X = {} /\ a \in Frames /\ L[a] = l - 1 /\ ValidIn(st.v, a, l - 1) = {}
      BY <2>1 DEF Rising
    <3> HIDE DEF a, i, t, l
    <3>2. l \in 0 .. 2 /\ L[t] # -1
      BY <2>0, <3>1
    <3> QED
      BY <3>1, <3>2
  <2>3. nx = IF cut.use[t] > 1 THEN [v |-> cut, lvl |-> l, stop |-> TRUE]
             ELSE [v |-> end, lvl |-> l + 1, stop |-> FALSE]
    BY <1>2, <1>00 DEF UpTo
  <2>4. /\ Sound(cut, L, R, X \ {a}, h, n) /\ Unaimed(cut, L, a) /\ OnlyFrame(st.v, cut, t)
    <3> HIDE DEF t, i, l
    <3> QED
      BY <2>2, UnlinkKeeps DEF a, l
  <2>5. X \ {a} = {}
    BY <2>2
  <2>6. Sound(cut, L, R, {}, h, n) /\ Unaimed(cut, L, a) /\ cut.panic = st.v.panic /\ cut.base = st.v.base
    BY <2>2, <2>4, <2>5 DEF OnlyFrame, SameBase
  <2>60. l + 1 \in 0 .. 3 /\ l - 1 \in Int
    BY <2>2
  <2> HIDE DEF cut, end, l, t, i, a
  <2>7. CASE cut.use[t] > 1
    <3>1. nx.v = cut /\ nx.stop = TRUE /\ nx = [v |-> nx.v, lvl |-> nx.lvl, stop |-> nx.stop]
      <4>1. nx = [v |-> cut, lvl |-> l, stop |-> TRUE]
        BY <2>3, <2>7
      <4> QED
        BY <4>1
    <3>2. nx.lvl \in 0 .. 3 /\ nx.stop \in BOOLEAN
      BY <2>2, <2>3, <2>7
    <3> QED
      BY <2>6, <3>2, <3>1 DEF Climb
  <2>8. CASE ~ cut.use[t] > 1
    <3>1. ValidIn(cut, t, L[t]) = {}
      <4>1. Tree(cut, L, R)
        BY <2>6 DEF Sound
      <4>2. TableOK(cut, L, R, t) /\ L[t] \in 0 .. 2
        BY <2>2, <4>1, TreeFacts
      <4>3. IsFiniteSet(ValidIn(cut, t, L[t])) /\ Cardinality(ValidIn(cut, t, L[t])) \in Nat
        BY <4>2, ValidFinite
      <4>4. Cardinality(ValidIn(cut, t, L[t])) = 0
        BY <2>8, <4>2, <4>3 DEF TableOK
      <4> QED
        BY <4>3, <4>4, FS_EmptySet
    <3>2. \A g \in Frames : g # t => SameFrame(st.v, cut, g)
      BY <2>4 DEF OnlyFrame
    \* What is left to do above, when only frames of lower levels have changed.
    <3>3. ASSUME NEW w, NEW M, Sound(w, M, R, {}, h, n), M[t] = l, ValidIn(w, t, l) = {},
                 \A m \in l + 1 .. 2 : SameFrame(st.v, w, p.pgtbl[m]) /\ M[p.pgtbl[m]] = m,
                 w.panic = st.v.panic, w.base = st.v.base, end = w
          PROVE  Climb(nx, c + 1, p, va, h, n) /\ nx.v.panic = st.v.panic /\ nx.v.base = st.v.base
      <4>1. nx.v = w /\ nx.lvl = l + 1 /\ nx.stop = FALSE /\ nx = [v |-> nx.v, lvl |-> nx.lvl, stop |-> nx.stop]
        <5>1. nx = [v |-> end, lvl |-> l + 1, stop |-> FALSE]
          BY <2>3, <2>8
        <5> QED
          BY <5>1, <3>3
      <4>2. CASE l = 2
        <5>1. nx.lvl = 3 /\ nx.lvl \in 0 .. 3 /\ nx.stop \in BOOLEAN
          <6>1. nx.lvl = 2 + 1 /\ nx.stop = FALSE
            BY <4>1, <4>2
          <6>2. nx.stop \in BOOLEAN
            BY <6>1
          <6>3. 2 + 1 = 3 /\ 3 \in 0 .. 3
            OBVIOUS
          <6> QED
            BY <6>1, <6>2, <6>3
        <5>2. \E L2, R2 : Sound(nx.v, L2, R2, {}, h, n)
          BY <3>3, <4>1
        <5> QED
          BY <3>3, <4>1, <5>1, <5>2 DEF Climb
      <4>3. CASE l # 2
        <5> DEFINE g == p.pgtbl[l + 1]
                   j == EntryOf(va, l + 1)
        <5>1. l + 1 \in l + 1 .. 2 /\ l + 1 \in p.lvl .. 2 /\ l + 1 # p.lvl /\ (l + 1) - 1 = l
          BY <2>0, <2>2, <4>3
        <5>2. g \in Frames /\ j \in ValidIn(st.v, g, l + 1) /\ AimOf(st.v, g, j) = t
          BY <2>2, <5>1 DEF Chain
        <5>3. M[g] = l + 1 /\ j \in ValidIn(w, g, l + 1) /\ AimOf(w, g, j) = t
          BY <3>3, <5>1, <5>2 DEF SameFrame, ValidIn, AimOf
        <5>4. Chain(w, M, va, p.pgtbl, (l + 1) + 1, g)
          <6> SUFFICES ASSUME NEW m \in (l + 1) + 1 .. 2
                       PROVE  /\ p.pgtbl[m] \in Frames /\ M[p.pgtbl[m]] = m /\ EntryOf(va, m) \in ValidIn(w, p.pgtbl[m], m)
                              /\ ~ LeafAt(w, p.pgtbl[m], EntryOf(va, m))
                              /\ AimOf(w, p.pgtbl[m], EntryOf(va, m)) = IF m = (l + 1) + 1 THEN g ELSE p.pgtbl[m - 1]
            BY DEF Chain
          <6>1. m \in l + 1 .. 2 /\ m # l + 1 /\ m = 2 /\ l = 0
            BY <2>2
          <6>2. /\ p.pgtbl[m] \in Frames /\ EntryOf(va, m) \in ValidIn(st.v, p.pgtbl[m], m)
                /\ ~ LeafAt(st.v, p.pgtbl[m], EntryOf(va, m))
                /\ AimOf(st.v, p.pgtbl[m], EntryOf(va, m)) = p.pgtbl[m - 1]
            BY <2>2, <6>1 DEF Chain
          <6>3. M[p.pgtbl[m]] = m /\ w.pte[p.pgtbl[m]] = st.v.pte[p.pgtbl[m]]
            BY <3>3, <6>1 DEF SameFrame
          <6>4. p.pgtbl[m - 1] = g
            BY <6>1
          <6> QED
            BY <6>2, <6>3, <6>4 DEF ValidIn, AimOf, LeafAt
        <5>5. \E X2 : Rising(nx, M, R, X2, p, va, h, n)
          <6>1. {} \subseteq {AimOf(w, g, j)}
            OBVIOUS
          <6>2. t \in Frames /\ L[t] = l
            BY <2>2
          <6> HIDE DEF g, j
          <6>3. p.pgtbl[nx.lvl] = g /\ EntryOf(va, nx.lvl) = j
            BY <4>1 DEF g, j
          <6>4. Rising(nx, M, R, {}, p, va, h, n)
            BY <3>3, <4>1, <5>1, <5>2, <5>3, <5>4, <6>1, <6>2, <6>3 DEF Rising
          <6> QED
            BY <6>4
        <5>6. nx.lvl >= c + 1
          BY <2>1, <2>2, <4>1 DEF l
        <5> QED
          BY <2>60, <3>3, <4>1, <5>5, <5>6 DEF Climb
      <4> QED
        BY <4>2, <4>3
    <3>4. \A m \in l + 1 .. 2 : p.pgtbl[m] \in Frames /\ L[p.pgtbl[m]] = m /\ p.pgtbl[m] # t
      <4>1. \A m \in l + 1 .. 2 : m # l
        BY <2>2
      <4> QED
        BY <2>2, <4>1 DEF Chain
    <3>5. CASE l = p.lvl
      <4>1. end = cut
        BY <3>5 DEF end, l
      <4>2. \A m \in l + 1 .. 2 : SameFrame(st.v, cut, p.pgtbl[m]) /\ L[p.pgtbl[m]] = m
        BY <3>2, <3>4
      <4>3. L[t] = l /\ ValidIn(cut, t, l) = {}
        BY <2>2, <3>1
      <4> QED
        BY <2>6, <3>3, <4>1, <4>2, <4>3
    <3>6. CASE l # p.lvl
      <4> DEFINE M == Given(L, a, -1)
      <4>1. a \in Frames /\ L[a] = l - 1 /\ L[a] # -1 /\ ValidIn(st.v, a, l - 1) = {} /\ l - 1 \in 0 .. 2 /\ a # t
        BY <2>2, <3>6
      <4>2. ValidIn(cut, a, L[a]) = {}
        BY <3>2, <4>1 DEF SameFrame, ValidIn
      <4>3. \A y \in Spaces : cut.base[y] # a
        <5>1. L[a] # 2 /\ a # NoFrame
          BY <4>1, <2>2, PageTableFacts
        <5> QED
          BY <2>6, <5>1 DEF Sound, Tree, BasesOK
      <4> DEFINE w == pfdb_dec_page_use_count(cut, a)
                 x == [w.nr EXCEPT ![s] = @ - 1]
                 z == [w EXCEPT !.nr = x]
      <4>4. Sound(w, M, R, {}, h, n) /\ w.panic = cut.panic /\ w.base = cut.base /\ OnlyFrame(cut, w, a) /\ cut.use[a] = 1
        BY <2>6, <4>1, <4>2, <4>3, FreeTable
      <4>5. kassert(cut, cut.use[a] = 1) = cut
        BY <4>4 DEF kassert
      <4>6. end = z
        BY <3>6, <4>5 DEF end, l, drop_low
      <4> HIDE DEF x, M, w
      <4>7. Shape(w)
        BY <4>4 DEF OnlyFrame
      <4>8. Alike(w, z)
        BY <4>7, AlikeIs
      <4>9. Sound(z, M, R, {}, h, n) /\ z.panic = st.v.panic /\ z.base = st.v.base
        <5>1. Sound(w, M, R, {}, h, n)
          BY <4>4
        <5>2. Sound(z, M, R, {}, h, n) /\ z.panic = w.panic /\ z.base = w.base
          BY <4>8, <5>1, AlikeSound
        <5> QED
          BY <2>6, <4>4, <5>2
      <4>10. \A g \in Frames : g # a => SameFrame(cut, z, g)
        BY <4>4, <4>8 DEF Alike, OnlyFrame, SameFrame
      <4>11. L \in [Frames -> -1 .. 2]
        BY <2>2 DEF Sound, Tree
      <4>12. M[t] = l /\ ValidIn(z, t, l) = {}
        BY <2>2, <3>1, <4>1, <4>10, <4>11 DEF M, Given, SameFrame, ValidIn
      <4>13. ASSUME NEW m \in l + 1 .. 2 PROVE SameFrame(st.v, z, p.pgtbl[m]) /\ M[p.pgtbl[m]] = m
        <5>1. p.pgtbl[m] \in Frames /\ L[p.pgtbl[m]] = m /\ p.pgtbl[m] # t /\ p.pgtbl[m] # a
          BY <2>2, <3>4, <4>1
        <5>2. M[p.pgtbl[m]] = m
          BY <4>1, <4>11, <5>1 DEF M, Given
        <5> QED
          BY <3>2, <4>10, <5>1, <5>2 DEF SameFrame
      <4> HIDE DEF z
      <4> QED
        BY <3>3, <4>6, <4>9, <4>12, <4>13
    <3> QED
      BY <3>5, <3>6
  <2> QED
    BY <2>7, <2>8
<1> QED
  BY <1>1, <1>2

\* What an operation on the tables may do.
Result(u, w, h, n) ==
    \/ IsRecord(w) /\ w.panic = TRUE
    \/ w.panic = u.panic /\ w.base = u.base /\ \E L, R : Sound(w, L, R, {}, h, n)

(* remove_table_reference, of a page that may have been given back.        *)
LEMMA RemoveRef ==
    ASSUME NEW u, NEW L, NEW R, NEW X, NEW h, NEW n, Sound(u, L, R, X, h, n), NEW va \in UserPages,
           NEW s \in Spaces, u.base[s] # NoFrame, NEW p, p = TablePath(u, s, va),
           p.rc = "found" => X \subseteq {AimOf(u, p.pgtbl[p.lvl], EntryOf(va, p.lvl))},
           NEW w, w = remove_table_reference(u, s, va)
    PROVE  Result(u, w, h, n)
<1>1. Tree(u, L, R)
  BY DEF Sound
<1> DEFINE r == hal_pgtbl_extract(u, s, va)
<1>2. p.rc = "bad" \/ (p.rc = "found" /\ FoundIn(u, L, R, va, p, r))
  BY <1>1, PathIs
<1> HIDE DEF r
<1> DEFINE s0 == [v |-> u, lvl |-> p.lvl, stop |-> FALSE]
           s1 == Up(p, s, va, s0)
           s2 == Up(p, s, va, s1)
           s3 == Up(p, s, va, s2)
<1>3. w = IF p.rc = "bad" THEN [u EXCEPT !.panic = TRUE] ELSE s3.v
  BY DEF remove_table_reference
<1>4. CASE p.rc = "bad"
  <2>1. w = [u EXCEPT !.panic = TRUE] /\ IsRecord(u)
    BY <1>1, <1>3, <1>4 DEF Tree, Shape
  <2>2. IsRecord(w) /\ w.panic = TRUE
    BY <2>1 DEF IsRecord
  <2> QED
    BY <2>2 DEF Result
<1>5. CASE p.rc # "bad"
  <2>1. FoundIn(u, L, R, va, p, r) /\ X \subseteq {AimOf(u, p.pgtbl[p.lvl], EntryOf(va, p.lvl))} /\ p.lvl \in 0 .. 2
    BY <1>2, <1>5 DEF FoundIn
  <2>2. Climb(s0, 0, p, va, h, n)
    <3>1. s0.v = u /\ s0.lvl = p.lvl /\ s0.stop = FALSE
      OBVIOUS
    <3>2. p.lvl \in 0 .. 3 /\ p.lvl \in p.lvl .. 2 /\ p.lvl >= 0
      BY <2>1
    <3>3. Rising(s0, L, R, X, p, va, h, n)
      BY <2>1, <3>1, <3>2 DEF Rising, FoundIn
    <3>4. s0 = [v |-> s0.v, lvl |-> s0.lvl, stop |-> s0.stop]
      OBVIOUS
    <3> HIDE DEF s0
    <3> QED
      BY <3>1, <3>2, <3>3, <3>4 DEF Climb
  <2>0. s0.v = u
    OBVIOUS
  <2> HIDE DEF s0
  <2>3. Climb(s1, 0 + 1, p, va, h, n) /\ s1.v.panic = s0.v.panic /\ s1.v.base = s0.v.base
    BY <2>1, <2>2, UpKeeps
  <2> HIDE DEF s1
  <2>4. Climb(s2, 1 + 1, p, va, h, n) /\ s2.v.panic = s1.v.panic /\ s2.v.base = s1.v.base
    BY <2>1, <2>3, UpKeeps
  <2> HIDE DEF s2
  <2>5. Climb(s3, 2 + 1, p, va, h, n) /\ s3.v.panic = s2.v.panic /\ s3.v.base = s2.v.base
    BY <2>1, <2>4, UpKeeps
  <2> HIDE DEF s3
  <2>6. \E M, S : Sound(s3.v, M, S, {}, h, n)
    <3>1. ~ (s3.lvl >= 2 + 1 /\ s3.lvl \in p.lvl .. 2)
      BY <2>1
    <3>2. ~ (s3.lvl >= 2 + 1 /\ \E M, S, Y : Rising(s3, M, S, Y, p, va, h, n))
      BY <3>1 DEF Rising
    <3> QED
      BY <2>5, <3>2 DEF Climb
  <2>7. w = s3.v /\ w.panic = u.panic /\ w.base = u.base
    BY <1>3, <1>5, <2>0, <2>3, <2>4, <2>5
  <2> QED
    BY <2>6, <2>7 DEF Result
<1> QED
  BY <1>4, <1>5

(* hal_pgtbl_remove keeps the trees, whatever it finds.                    *)
LEMMA RemoveKeeps ==
    ASSUME NEW u, NEW L, NEW R, NEW h, NEW n, Sound(u, L, R, {}, h, n), NEW va \in UserPages,
           NEW s \in Spaces, u.base[s] # NoFrame, NEW w, w = hal_pgtbl_remove(u, s, va)
    PROVE  Result(u, w, h, n)
<1> DEFINE r == hal_pgtbl_extract(u, s, va)
           p == TablePath(u, s, va)
           z == IF r.rc = "OK" THEN pfdb_dec_page_use_count(u, r.paddr) ELSE u
<1>1. Tree(u, L, R)
  BY DEF Sound
<1>2. /\ (p.rc = "bad" /\ r.rc = "ENOENT") \/ (p.rc = "found" /\ FoundIn(u, L, R, va, p, r))
      /\ \A x : (x.base = u.base /\ \A g \in Frames : L[g] # -1 => SameFrame(u, x, g)) => TablePath(x, s, va) = p
  BY <1>1, PathIs
<1>3. w = remove_table_reference(z, s, va)
  BY DEF hal_pgtbl_remove
<1> HIDE DEF r, p, z
<1>4. CASE p.rc = "bad" /\ r.rc = "ENOENT"
  <2>1. z = u /\ p.rc # "found"
    BY <1>4 DEF z
  <2> QED
    BY <1>3, <2>1, RemoveRef DEF p
<1>5. CASE p.rc = "found" /\ FoundIn(u, L, R, va, p, r)
  <2> DEFINE t == p.pgtbl[p.lvl]
             i == EntryOf(va, p.lvl)
             a == AimOf(u, t, i)
  <2>1. /\ t \in Frames /\ L[t] = p.lvl /\ p.lvl \in 0 .. 2 /\ i \in ValidIn(u, t, p.lvl) /\ LeafAt(u, t, i)
        /\ r.rc = "OK" /\ r.paddr = a
    BY <1>5 DEF FoundIn
  <2> HIDE DEF t, i
  <2>2. L[t] # -1 /\ i \in ValidIn(u, t, L[t])
    BY <2>1
  <2>3. z = pfdb_dec_page_use_count(u, AimOf(u, t, i))
    BY <2>1 DEF z
  <2>4. /\ Sound(z, L, R, {AimOf(u, t, i)}, h, n) /\ z.panic = u.panic /\ z.base = u.base
        /\ \A g \in Frames : L[g] # -1 => SameFrame(u, z, g)
    BY <2>1, <2>2, <2>3, ReleaseLeaf
  <2>5. TablePath(z, s, va) = p
    BY <1>2, <2>4
  <2>6. AimOf(z, t, i) = a
    BY <2>1, <2>2, <2>4 DEF SameFrame, AimOf
  <2>7. {a} \subseteq {AimOf(z, p.pgtbl[p.lvl], EntryOf(va, p.lvl))}
    BY <2>6 DEF t, i
  <2>8. Sound(z, L, R, {a}, h, n) /\ z.base[s] # NoFrame
    BY <2>4
  <2> HIDE DEF a
  <2>9. Result(z, w, h, n)
    BY <1>3, <2>5, <2>7, <2>8, RemoveRef
  <2> QED
    BY <2>4, <2>9 DEF Result
<1> QED
  BY <1>2, <1>4, <1>5

-----------------------------------------------------------------------------
(* Entering a page.                                                        *)

\* What entering the page h may come to.
Entered(u, m, h, n) ==
    /\ m.rc \in {"OK", "EBUSY", "ENOMEM"}
    /\ IF m.rc = "OK" THEN Result(u, m.v, NoFrame, 0) ELSE Result(u, m.v, h, n)

(* map_vaddr_to_paddr maps the page h, or leaves it as it was.             *)
LEMMA MapKeeps ==
    ASSUME NEW u, NEW L, NEW R, NEW k \in 0 .. 2, NEW h, h # NoFrame, Sound(u, L, R, {}, h, rv64_pgtbl_calc_pagesize(k)),
           NEW va \in RegionPages(k), NEW s \in Spaces, u.base[s] # NoFrame, NEW prot, NEW flags, EntryBits(prot, flags),
           NEW m, m = map_vaddr_to_paddr(u, s, va, h, prot, flags, rv64_pgtbl_calc_pagesize(k))
    PROVE  Entered(u, m, h, rv64_pgtbl_calc_pagesize(k))
<1> DEFINE n  == rv64_pgtbl_calc_pagesize(k)
           s0 == [v |-> u, tbl |-> u.base[s], rc |-> "go"]
           s1 == grow_on(s0, s, 2, va, h, prot, flags, n)
           s2 == grow_on(s1, s, 1, va, h, prot, flags, n)
           s3 == grow_on(s2, s, 0, va, h, prot, flags, n)
<1>1. m = [rc |-> s3.rc, v |-> IF s3.rc = "ENOMEM" THEN remove_table_reference(s3.v, s, va) ELSE s3.v]
  BY DEF map_vaddr_to_paddr
<1>2. Grown(u, s0, k, 2, va, h)
  <2>1. u.base[s] \in Frames /\ L[u.base[s]] = 2
    BY DEF Sound, Tree, Shape, BasesOK
  <2>2. s0.v = u /\ s0.tbl = u.base[s] /\ s0 = [v |-> s0.v, tbl |-> s0.tbl, rc |-> "go"]
    OBVIOUS
  <2> HIDE DEF s0
  <2>3. Agree(va, R[s0.tbl], 2 + 1)
    BY DEF Agree
  <2>4. 2 \in k .. 2
    OBVIOUS
  <2>5. Ready(s0, L, R, k, 2, va, h)
    BY <2>1, <2>2, <2>3, <2>4 DEF Ready
  <2> QED
    BY <2>2, <2>5 DEF Grown
<1>3. ASSUME NEW st, NEW l, Grown(u, st, k, l, va, h), NEW nx, nx = grow_on(st, s, l, va, h, prot, flags, n)
      PROVE  Grown(u, nx, k, l - 1, va, h)
  <2>1. CASE Ended(st, k, h)
    <3>1. st.rc # "go"
      BY <2>1 DEF Ended
    <3>2. nx = st
      BY <1>3, <3>1 DEF grow_on
    <3> QED
      BY <1>3, <2>1, <3>2 DEF Grown
  <2>2. CASE \E M, S : Ready(st, M, S, k, l, va, h)
    <3>1. PICK M, S : Ready(st, M, S, k, l, va, h)
      BY <2>2
    <3>2. st.rc = "go"
      BY <3>1 DEF Ready
    <3>3. nx = grow_pgtbl(st, s, l, va, h, prot, flags, rv64_pgtbl_calc_pagesize(k))
      BY <1>3, <3>2 DEF grow_on
    <3>4. Grown(st.v, nx, k, l - 1, va, h)
      BY <3>1, <3>3, GrowKeeps
    <3> QED
      BY <1>3, <3>4 DEF Grown
  <2> QED
    BY <1>3, <2>1, <2>2 DEF Grown
<1> HIDE DEF s0
<1>4. Grown(u, s1, k, 2 - 1, va, h)
  BY <1>2, <1>3
<1> HIDE DEF s1
<1>5. Grown(u, s2, k, 1 - 1, va, h)
  BY <1>3, <1>4
<1> HIDE DEF s2
<1>6. Grown(u, s3, k, 0 - 1, va, h)
  BY <1>3, <1>5
<1> HIDE DEF s3
<1>7. Ended(s3, k, h) /\ s3.v.panic = u.panic /\ s3.v.base = u.base
  <2>1. ~ (0 - 1 \in k .. 2)
    OBVIOUS
  <2> QED
    BY <1>6, <2>1 DEF Grown, Ready
<1>8. s3.rc \in {"OK", "EBUSY", "ENOMEM"} /\ m.rc = s3.rc
  BY <1>1, <1>7 DEF Ended
<1>9. CASE s3.rc = "OK"
  <2>1. m.v = s3.v
    BY <1>1, <1>9
  <2>2. \E M, S : Sound(s3.v, M, S, {}, NoFrame, 0)
    BY <1>7, <1>9 DEF Ended
  <2> QED
    BY <1>7, <1>8, <1>9, <2>1, <2>2 DEF Entered, Result
<1>10. CASE s3.rc = "EBUSY"
  <2>1. m.v = s3.v
    BY <1>1, <1>10
  <2>2. \E M, S : Sound(s3.v, M, S, {}, h, n)
    BY <1>7, <1>10 DEF Ended
  <2> QED
    BY <1>7, <1>8, <1>10, <2>1, <2>2 DEF Entered, Result
<1>11. CASE s3.rc = "ENOMEM"
  <2>1. m.v = remove_table_reference(s3.v, s, va)
    BY <1>1, <1>11
  <2>2. PICK M, S : Sound(s3.v, M, S, {}, h, n)
    BY <1>7, <1>11 DEF Ended
  <2>3. va \in UserPages /\ s3.v.base[s] # NoFrame
    BY <1>7, RegionPageIs
  <2> DEFINE p == TablePath(s3.v, s, va)
  <2>4. p.rc = "found" => {} \subseteq {AimOf(s3.v, p.pgtbl[p.lvl], EntryOf(va, p.lvl))}
    OBVIOUS
  <2>5. Result(s3.v, m.v, h, n)
    BY <2>1, <2>2, <2>3, <2>4, RemoveRef
  <2> HIDE DEF p
  <2> QED
    BY <1>7, <1>8, <1>11, <2>5 DEF Entered, Result
<1> QED
  BY <1>8, <1>9, <1>10, <1>11

(* A range of one piece.                                                   *)
LEMMA OnePiece ==
    ASSUME NEW u, NEW s, NEW va \in Int, NEW h \in Int, NEW prot, NEW flags, NEW n \in Int
    PROVE  map_pieces(u, s, va, h, prot, flags, n, 1) = map_vaddr_to_paddr(u, s, va, h, prot, flags, n)
<1> DEFINE Piece(r, i) == IF r.rc # "OK" THEN r
                          ELSE map_vaddr_to_paddr(r.v, s, va + i * n, h + i * n, prot, flags, n)
           b == [rc |-> "OK", v |-> u]
           Is(f) == f = [i \in 0 .. 1 |-> IF i = 0 THEN b ELSE Piece(f[i - 1], i - 1)]
           g == CHOOSE f : Is(f)
           w == [i \in 0 .. 1 |-> IF i = 0 THEN b ELSE Piece(b, 0)]
<1>1. map_pieces(u, s, va, h, prot, flags, n, 1) = g[1]
  BY DEF map_pieces
<1>2. Piece(b, 0) = map_vaddr_to_paddr(u, s, va, h, prot, flags, n)
  OBVIOUS
<1> HIDE DEF Piece, b
<1>3. Is(w)
  <2>1. \A i \in 0 .. 1 : i = 0 \/ (i = 1 /\ i - 1 = 0 /\ 0 \in 0 .. 1)
    OBVIOUS
  <2>2. w[0] = b
    OBVIOUS
  <2>3. \A i \in 0 .. 1 : (IF i = 0 THEN b ELSE Piece(b, 0)) = (IF i = 0 THEN b ELSE Piece(w[i - 1], i - 1))
    BY <2>1, <2>2
  <2> QED
    BY <2>3
<1> HIDE DEF w
<1>4. Is(g)
  <2> HIDE DEF Is
  <2> QED
    BY <1>3
<1> HIDE DEF g
<1>5. g[0] = b /\ g[1] = Piece(g[0], 0)
  BY <1>4
<1> QED
  BY <1>1, <1>2, <1>5

\* A page of its size is entered in one piece.
LEMMA EnterSize ==
    ASSUME NEW k \in 0 .. 2, NEW va \in Nat, NEW h \in Nat, NEW n, n = rv64_pgtbl_calc_pagesize(k),
           va % n = 0, h % n = 0
    PROVE  enter_size(va, h, n) = n /\ n \div n = 1
<1> DEFINE S == {m \in {rv64_pgtbl_calc_pagesize(l) : l \in 0 .. 2} : va % m = 0 /\ h % m = 0 /\ n % m = 0}
<1>1. n \in Nat /\ n >= 1
  BY PageSizeIs
<1>2. n % n = 0 /\ n \div n = 1
  BY <1>1
<1>3. n \in S
  BY <1>2
<1>4. \A m \in S : m \in Nat /\ m >= 1 /\ n % m = 0
  BY PageSizeIs
<1>5. \A m \in S : m <= n
  <2> SUFFICES ASSUME NEW m \in S, m > n PROVE FALSE
    BY <1>1, <1>4
  <2>1. n % m = n
    BY <1>1, <1>4
  <2> QED
    BY <1>1, <1>4, <2>1
<1>6. enter_size(va, h, n) = Max(S)
  BY DEF enter_size
<1> HIDE DEF S
<1>7. Max(S) \in S /\ \A m \in S : Max(S) >= m
  <2>1. \E x \in S : \A y \in S : x >= y
    BY <1>1, <1>3, <1>4, <1>5
  <2> QED
    BY <2>1 DEF Max
<1>8. Max(S) = n
  <2> DEFINE y == Max(S)
  <2>1. y \in S /\ \A m \in S : y >= m
    BY <1>7
  <2> HIDE DEF y
  <2>2. y \in Nat /\ y <= n /\ y >= n
    BY <1>3, <1>4, <1>5, <2>1
  <2>3. y = n
    BY <1>1, <2>2
  <2> QED
    BY <2>3 DEF y
<1> QED
  BY <1>2, <1>6, <1>8

(* hal_pgtbl_enter of a page of its size.                                  *)
LEMMA EnterPageKeeps ==
    ASSUME NEW u, NEW L, NEW R, NEW k \in 0 .. 2, NEW n, n = rv64_pgtbl_calc_pagesize(k),
           NEW h \in Nat, h # NoFrame, Sound(u, L, R, {}, h, n), h % n = 0,
           NEW va \in RegionPages(k), va % n = 0, NEW s \in Spaces, u.base[s] # NoFrame,
           NEW prot, NEW flags, EntryBits(prot, flags),
           NEW m, m = hal_pgtbl_enter(u, s, va, h, prot, flags, n)
    PROVE  Entered(u, m, h, n)
<1>1. va \in Nat /\ va \in Int /\ h \in Int /\ n \in Int
  BY RegionPageIs, PageSizeIs
<1>2. enter_size(va, h, n) = n /\ n \div n = 1
  BY <1>1, EnterSize
<1>3. m = map_pieces(u, s, va, h, prot, flags, n, 1)
  BY <1>2 DEF hal_pgtbl_enter
<1>4. m = map_vaddr_to_paddr(u, s, va, h, prot, flags, n)
  BY <1>1, <1>3, OnePiece
<1> QED
  BY <1>4, MapKeeps

-----------------------------------------------------------------------------
(* Spaces come and go.                                                     *)

\* The space s is given the base b.
Rebased(u, w, s, b) ==
    /\ w.base = [u.base EXCEPT ![s] = b] /\ w.panic = u.panic
    /\ w.use = u.use /\ w.len = u.len /\ w.pte = u.pte /\ IsRecord(w)

(* What a new base changes.                                                *)
LEMMA RebasedIs ==
    ASSUME NEW u, Shape(u), NEW s \in Spaces, NEW b \in Frames \cup {NoFrame}, NEW w, Rebased(u, w, s, b)
    PROVE  /\ Shape(w) /\ (\A g \in Frames : SameFrame(u, w, g)) /\ w.panic = u.panic
           /\ w.base[s] = b /\ \A z \in Spaces : z # s => w.base[z] = u.base[z]
<1>1. u.base \in [Spaces -> Frames \cup {NoFrame}]
  BY DEF Shape
<1>2. w.base \in [Spaces -> Frames \cup {NoFrame}]
  BY <1>1 DEF Rebased
<1> QED
  BY <1>1, <1>2 DEF Rebased, Shape, SameFrame

\* What comes of a new space, and of one that is given up.
Gone(u, w, s) ==
    \/ IsRecord(w) /\ w.panic = TRUE
    \/ /\ w.panic = u.panic /\ \A z \in Spaces : z # s => w.base[z] = u.base[z]
       /\ \E M, S : Sound(w, M, S, {}, NoFrame, 0)
Born(u, w, s) == Gone(u, w, s) /\ (w.panic # TRUE => w.base[s] # NoFrame)

(* pgtbl_alloc_user_pgtbl keeps the trees and gives the space a base.      *)
LEMMA AllocSpaceKeeps ==
    ASSUME NEW u, NEW L, NEW R, Sound(u, L, R, {}, NoFrame, 0), NEW s \in Spaces, u.base[s] = NoFrame,
           NEW w, w = pgtbl_alloc_user_pgtbl(u, s)
    PROVE  Born(u, w, s)
<1>1. Tree(u, L, R) /\ Shape(u) /\ L \in [Frames -> -1 .. 2] /\ BasesOK(u, L)
  BY DEF Sound, Tree
<1> DEFINE a == pgtbl_alloc_pgtbl_page(u, s)
           t == a.frame
           M == Given(L, t, 2)
           S == Given(R, t, 0)
           x == [a.v EXCEPT !.base[s] = t]
<1>2. w = IF FreeClusters(u, 1) = {} THEN [u EXCEPT !.panic = TRUE] ELSE [x EXCEPT !.pte[x.base[s]] = KernelTable]
  BY DEF pgtbl_alloc_user_pgtbl, hal_copy_kernel_pgtbl
<1>3. CASE FreeClusters(u, 1) = {}
  <2>1. w = [u EXCEPT !.panic = TRUE] /\ IsRecord(u)
    BY <1>1, <1>2, <1>3 DEF Shape
  <2> QED
    BY <2>1 DEF IsRecord, Born, Gone
<1>4. CASE FreeClusters(u, 1) # {}
  <2>1. 2 \in 0 .. 2 /\ 0 \in Int /\ ~ (2 < 2)
    OBVIOUS
  <2>2. /\ t \in Frames /\ L[t] = -1 /\ a.v.panic = u.panic /\ a.v.base = u.base
        /\ Sound(a.v, M, S, {}, NoFrame, 0) /\ Unaimed(a.v, M, t) /\ a.v.pte[t] = NoTable
    BY <1>4, <2>1, TakeTable
  <2>3. M[t] = 2 /\ M \in [Frames -> -1 .. 2] /\ \A f \in Frames : f # t => M[f] = L[f]
    BY <1>1, <2>2 DEF Given
  <2> HIDE DEF M, S, t
  <2>4. Shape(a.v)
    BY <2>2 DEF Sound, Tree
  <2>5. Rebased(a.v, x, s, t)
    <3>1. IsRecord(a.v)
      BY <2>4, ShapeIs
    <3> QED
      BY <3>1 DEF Rebased, IsRecord
  <2> DEFINE y == a.v
  <2>6. y = a.v
    OBVIOUS
  <2> HIDE DEF a, x, y
  <2>7. /\ Shape(x) /\ (\A g \in Frames : SameFrame(y, x, g)) /\ x.panic = u.panic
        /\ x.base[s] = t /\ \A z \in Spaces : z # s => x.base[z] = u.base[z]
    BY <2>2, <2>4, <2>5, <2>6, RebasedIs
  <2>8. BasesOK(x, M)
    <3>1. \A z \in Spaces : u.base[z] # NoFrame => u.base[z] \in Frames /\ L[u.base[z]] = 2 /\ u.base[z] # t
      BY <1>1, <2>2 DEF BasesOK, Shape
    <3>2. \A z \in Spaces : x.base[z] # NoFrame => M[x.base[z]] = 2
      BY <2>3, <2>7, <3>1
    <3>3. ASSUME NEW z1 \in Spaces, NEW z2 \in Spaces, x.base[z1] = x.base[z2], x.base[z1] # NoFrame
          PROVE  z1 = z2
      BY <1>1, <2>7, <3>1, <3>3 DEF BasesOK
    <3> QED
      BY <3>2, <3>3 DEF BasesOK
  <2>9. Sound(y, M, S, {}, NoFrame, 0)
    BY <2>2, <2>6
  <2>10. Sound(x, M, S, {}, NoFrame, 0)
    BY <2>7, <2>8, <2>9, AlikeKeeps
  <2>11. Tree(x, M, S) /\ LeavesOK(x, M, {}) /\ TableOK(x, M, S, t) /\ M[t] # -1
    BY <2>2, <2>3, <2>10 DEF Sound, Tree
  <2>12. x.pte[t] = NoTable
    BY <2>2, <2>6, <2>7 DEF SameFrame
  <2>13. Becomes(x, w, t, x.use[t], x.len[t], KernelTable)
    <3>1. w = [x EXCEPT !.pte[t] = KernelTable]
      BY <1>2, <1>4, <2>7
    <3>2. x.use = [x.use EXCEPT ![t] = x.use[t]] /\ x.len = [x.len EXCEPT ![t] = x.len[t]] /\ IsRecord(x)
      <4>1. t \in Frames /\ Shape(x)
        BY <2>2, <2>7
      <4>2. IsRecord(x)
        BY <4>1, ShapeIs
      <4> QED
        BY <4>1, <4>2, FieldTypes
    <3> QED
      BY <3>1, <3>2 DEF Becomes, IsRecord
  <2>14. KernelTable \in TableType /\ \A i \in IndexesOf(2) : KernelTable[i] = Empty
    <3>1. KernelIndex \in Nat /\ KernelIndex = Top - 1
      BY PageTableFacts DEF KernelIndex
    <3>2. NoTable \in TableType /\ \A i \in 0 .. Top - 1 : NoTable[i] = Empty
      BY EmptyIs
    <3> DEFINE e == [bits |-> vmprot_and_vmflags_to_pte({"R", "W", "X"}, {"S"}) \cup {"V"}, ppn |-> KernelFrame]
    <3>3. e \in EntriesType
      BY DEF EntriesType, vmprot_and_vmflags_to_pte, KernelFrame
    <3>4. KernelTable = [NoTable EXCEPT ![KernelIndex] = e]
      BY DEF KernelTable
    <3> HIDE DEF e
    <3>5. KernelTable \in TableType
      BY <3>2, <3>3, <3>4 DEF TableType
    <3>6. IndexesOf(2) = 0 .. KernelIndex - 1
      BY DEF IndexesOf
    <3>7. \A i \in IndexesOf(2) : i \in 0 .. Top - 1 /\ i # KernelIndex
      BY <3>1, <3>6
    <3> QED
      BY <3>2, <3>4, <3>5, <3>7 DEF TableType
  <2>15. Became(x, w, t, x.use[t], x.len[t], KernelTable)
    <3>1. x.use[t] \in Nat /\ x.len[t] \in Nat
      BY <2>2, <2>7, FieldTypes
    <3> QED
      BY <2>2, <2>7, <2>13, <2>14, <3>1, SetIs
  <2>16. OnlyFrame(x, w, t) /\ w.use[t] = x.use[t] /\ w.len[t] = x.len[t] /\ w.pte[t] = KernelTable
    BY <2>15 DEF Became
  <2>17. ValidIn(x, t, 2) = {} /\ ValidIn(w, t, 2) = {}
    <3>1. IndexesOf(2) \subseteq 0 .. Top - 1
      BY <2>1, PageTableFacts
    <3> QED
      BY <2>12, <2>14, <2>16, <3>1, EmptyIs DEF ValidIn
  <2>18. TableOK(w, M, S, t)
    BY <2>3, <2>11, <2>16, <2>17 DEF TableOK
  <2>19. Tree(w, M, S)
    <3>1. NewAims(x, M, w, t)
      BY <2>3, <2>17 DEF NewAims
    <3> QED
      BY <2>2, <2>11, <2>16, <2>18, <3>1, TableKeeps
  <2>20. LeavesOK(w, M, {})
    <3>1. \A i \in ValidIn(w, t, M[t]) : FALSE
      BY <2>3, <2>17
    <3> QED
      BY <2>2, <2>11, <2>16, <2>19, <3>1, LeavesKeep
  <2>21. Sound(w, M, S, {}, NoFrame, 0)
    BY <2>19, <2>20 DEF Sound, Kept
  <2>22. w.panic = u.panic /\ w.base = x.base
    BY <2>7, <2>16 DEF OnlyFrame, SameBase
  <2>23. t # NoFrame
    BY <2>2, PageTableFacts
  <2> QED
    BY <2>7, <2>21, <2>22, <2>23 DEF Born, Gone
<1> QED
  BY <1>3, <1>4

(* pgtbl_free_user_pgtbl of a space without entries keeps the trees.       *)
LEMMA FreeSpaceKeeps ==
    ASSUME NEW u, NEW L, NEW R, Sound(u, L, R, {}, NoFrame, 0), NEW s \in Spaces, u.base[s] # NoFrame,
           NEW w, w = pgtbl_free_user_pgtbl(u, s)
    PROVE  Gone(u, w, s)
<1>1. Tree(u, L, R) /\ Shape(u) /\ IsRecord(u) /\ BasesOK(u, L)
  BY DEF Sound, Tree, Shape
<1> DEFINE b == u.base[s]
           k == kassert(u, u.nr[s] = 1)
           d == pfdb_dec_page_use_count(k, b)
<1>2. w = [d EXCEPT !.base[s] = NoFrame, !.nr[s] = 0]
  BY DEF pgtbl_free_user_pgtbl
<1>3. k = u \/ k = [u EXCEPT !.panic = TRUE]
  BY DEF kassert
<1>4. b \in Frames /\ L[b] = 2
  BY <1>1 DEF Shape, BasesOK
<1> HIDE DEF b, k, d
<1>5. CASE k = [u EXCEPT !.panic = TRUE]
  <2>1. IsRecord(k) /\ k.panic = TRUE
    BY <1>1, <1>5 DEF IsRecord
  <2>2. IsRecord(d) /\ d.panic = TRUE
    BY <2>1, PanicStays DEF d
  <2>3. IsRecord(w) /\ w.panic = TRUE
    BY <1>2, <2>2 DEF IsRecord
  <2> QED
    BY <2>3 DEF Gone
<1>6. CASE k = u
  <2>1. u.use[b] >= 1
    BY <1>1, <1>4, TreeFacts
  <2>2. d = pfdb_dec_page_use_count(u, b)
    BY <1>6 DEF d
  <2>3. OnlyFrame(u, d, b)
    BY <1>1, <1>4, <2>1, <2>2, DecIs
  <2>4. Shape(d) /\ d.base = u.base /\ d.panic = u.panic /\ \A g \in Frames : g # b => SameFrame(u, d, g)
    BY <2>3 DEF OnlyFrame, SameBase
  <2>5. Rebased(d, w, s, NoFrame)
    <3>1. IsRecord(d)
      BY <2>4, ShapeIs
    <3> QED
      BY <1>2, <3>1 DEF Rebased, IsRecord
  <2>6. /\ Shape(w) /\ (\A g \in Frames : SameFrame(d, w, g)) /\ w.panic = d.panic
        /\ w.base[s] = NoFrame /\ \A z \in Spaces : z # s => w.base[z] = d.base[z]
    BY <2>4, <2>5, RebasedIs
  <2> DEFINE x == [u EXCEPT !.base[s] = NoFrame]
  <2>7. Rebased(u, x, s, NoFrame)
    BY <1>1 DEF Rebased, IsRecord
  <2> HIDE DEF x
  <2>8. /\ Shape(x) /\ (\A g \in Frames : SameFrame(u, x, g)) /\ x.panic = u.panic
        /\ x.base[s] = NoFrame /\ \A z \in Spaces : z # s => x.base[z] = u.base[z]
    BY <1>1, <2>7, RebasedIs
  <2>9. BasesOK(x, L)
    BY <1>1, <2>8 DEF BasesOK
  <2>10. Sound(x, L, R, {}, NoFrame, 0)
    BY <2>8, <2>9, AlikeKeeps
  <2>11. Tree(x, L, R)
    BY <2>10 DEF Sound
  <2>12. Unaimed(x, L, b)
    <3> SUFFICES ASSUME NEW f \in Frames, L[f] # -1, NEW i \in ValidIn(x, f, L[f]) PROVE AimOf(x, f, i) # b
      BY DEF Unaimed
    <3>1. EntryOK(x, L, R, f, i) /\ L[f] \in 0 .. 2
      BY <2>11, TreeFacts
    <3> QED
      BY <1>4, <3>1 DEF EntryOK
  <2>13. \A z \in Spaces : x.base[z] # b
    <3>1. b # NoFrame /\ \A z \in Spaces : u.base[z] = b => z = s
      BY <1>1 DEF BasesOK, b
    <3> QED
      BY <2>8, <3>1
  <2> DEFINE M == Given(L, b, -1)
  <2>14. Sound(x, M, R, {}, NoFrame, 0) /\ Unaimed(x, M, b) /\ M[b] = -1 /\ b # NoFrame
    BY <1>4, <2>10, <2>12, <2>13, DropTable
  <2> HIDE DEF M
  <2>15. OnlyFrame(x, w, b)
    <3>1. \A g \in Frames : g # b => SameFrame(x, w, g)
      BY <2>4, <2>6, <2>8 DEF SameFrame
    <3>2. w.base = x.base
      BY <2>4, <2>6, <2>8 DEF Shape
    <3> QED
      BY <2>4, <2>6, <2>8, <3>1, <3>2 DEF OnlyFrame, SameBase
  <2>16. Sound(w, M, R, {}, NoFrame, 0)
    BY <1>4, <2>14, <2>15, UnaimedKeeps
  <2> QED
    BY <2>4, <2>6, <2>16 DEF Gone
<1> QED
  BY <1>3, <1>5, <1>6

-----------------------------------------------------------------------------
(* The operations on ranges, page by page.                                 *)

LEMMA Forgotten ==
    ASSUME NEW u, NEW w, NEW h, NEW n, Result(u, w, h, n)
    PROVE  Result(u, w, NoFrame, 0)
<1>1. \A L, R : Sound(w, L, R, {}, h, n) => Sound(w, L, R, {}, NoFrame, 0)
  BY DEF Sound, Kept
<1> QED
  BY <1>1 DEF Result

\* A cluster is taken for a page that is to be entered.
LEMMA TakeCluster ==
    ASSUME NEW u, NEW L, NEW R, Sound(u, L, R, {}, NoFrame, 0), NEW n \in Nat \ {0}, FreeClusters(u, n) # {},
           NEW h, h = Min(FreeClusters(u, n)), NEW w, w = get_free_page_cluster(u, h, n)
    PROVE  /\ h \in Nat /\ h # NoFrame /\ h % n = 0 /\ h \in Frames
           /\ Sound(w, L, R, {}, h, n) /\ w.panic = u.panic /\ w.base = u.base
<1>1. h \in FreeClusters(u, n)
  BY FreeClusterIs
<1>2. h \in Frames /\ h % n = 0
  BY <1>1 DEF FreeClusters
<1>3. h \in Nat /\ h # NoFrame
  BY <1>2, PageTableFacts
<1>4. Sound(w, L, R, {}, NoFrame, 0) /\ Loose(w, L, h, n)
  BY <1>1, AllocKeeps
<1>5. Sound(w, L, R, {}, h, n)
  BY <1>4 DEF Sound, Kept
<1>6. Shape(u)
  BY DEF Sound, Tree
<1>7. OnlyFrame(u, w, h)
  BY <1>2, <1>6, AllocIs
<1> QED
  BY <1>2, <1>3, <1>5, <1>7 DEF OnlyFrame, SameBase

(* vm_map_common keeps the trees; a page it cannot enter is left over.     *)
LEMMA MapCommonKeeps ==
    ASSUME NEW u, NEW L, NEW R, Sound(u, L, R, {}, NoFrame, 0), NEW s \in Spaces, u.base[s] # NoFrame,
           NEW k \in 0 .. 2, NEW n, n = rv64_pgtbl_calc_pagesize(k), NEW va \in RegionPages(k), va % n = 0,
           NEW prot, prot \subseteq {"R", "W", "X"}, prot # {}, NEW m, m = vm_map_common(u, s, va, prot, n)
    PROVE  Result(u, m.v, NoFrame, 0)
<1> DEFINE h == Min(FreeClusters(u, n))
           w == get_free_page_cluster(u, h, n)
<1>1. m = IF FreeClusters(u, n) = {} THEN [rc |-> "ENOMEM", v |-> u] ELSE hal_pgtbl_enter(w, s, va, h, prot, {}, n)
  BY DEF vm_map_common
<1>2. CASE FreeClusters(u, n) = {}
  <2>1. m.v = u
    BY <1>1, <1>2
  <2> QED
    BY <2>1 DEF Result
<1>3. CASE FreeClusters(u, n) # {}
  <2>1. n \in Nat \ {0}
    BY PageSizeIs
  <2>2. /\ h \in Nat /\ h # NoFrame /\ h % n = 0
        /\ Sound(w, L, R, {}, h, n) /\ w.panic = u.panic /\ w.base = u.base
    BY <1>3, <2>1, TakeCluster
  <2>3. m = hal_pgtbl_enter(w, s, va, h, prot, {}, n)
    BY <1>1, <1>3
  <2>4. EntryBits(prot, {}) /\ w.base[s] # NoFrame
    BY <2>2 DEF EntryBits
  <2> HIDE DEF h, w
  <2>5. Entered(w, m, h, n)
    BY <2>2, <2>3, <2>4, EnterPageKeeps
  <2>6. Result(w, m.v, NoFrame, 0)
    BY <2>5, Forgotten DEF Entered
  <2> QED
    BY <2>2, <2>6 DEF Result
<1> QED
  BY <1>2, <1>3

\* A small page that is found is found by itself, with the bits of its entry.
LEMMA LeafBits ==
    ASSUME NEW e, RV64_PTE_IS_LEAF(e), NEW a, a = pte_to_vmprot_and_vmflags(e)
    PROVE  EntryBits(a.prot, a.flags)
<1> DEFINE b == e.bits
<1>1. a.prot = b \cap {"R", "W", "X"}
  BY DEF pte_to_vmprot_and_vmflags
<1>2. a.flags = (b \cap {"A", "D"}) \cup (IF "U" \in b THEN {} ELSE {"S"})
  BY DEF pte_to_vmprot_and_vmflags
<1>3. b \cap {"R", "W", "X"} # {}
  BY DEF RV64_PTE_IS_LEAF
<1> HIDE DEF b
<1> QED
  BY <1>1, <1>2, <1>3 DEF EntryBits

(* A page of a region is found with the size of its region.                *)
LEMMA PageFound ==
    ASSUME NEW u, NEW L, NEW R, Tree(u, L, R), NEW s \in Spaces, u.base[s] # NoFrame,
           NEW k \in 0 .. 2, NEW va \in RegionPages(k), NEW r, r = hal_pgtbl_extract(u, s, va), r.rc = "OK"
    PROVE  r.pgsize = rv64_pgtbl_calc_pagesize(k) /\ EntryBits(r.attr.prot, r.attr.flags)
<1> DEFINE p == TablePath(u, s, va)
           t == p.pgtbl[p.lvl]
           i == EntryOf(va, p.lvl)
<1>1. va \in UserPages
  BY RegionPageIs
<1>2. FoundIn(u, L, R, va, p, r)
  BY <1>1, PathIs
<1> HIDE DEF p
<1>3. /\ p.lvl \in 0 .. 2 /\ t \in Frames /\ L[t] = p.lvl /\ Agree(va, R[t], p.lvl + 1)
      /\ i \in ValidIn(u, t, p.lvl) /\ LeafAt(u, t, i) /\ r.pgsize = rv64_pgtbl_calc_pagesize(p.lvl)
      /\ r.attr = pte_to_vmprot_and_vmflags(u.pte[t][i])
  BY <1>2 DEF FoundIn
<1>4. EntryOK(u, L, R, t, i)
  BY <1>3, TreeFacts
<1>5. PICK q \in RegionPages(p.lvl) : LeadsTo(q, R, t, p.lvl, rv64_pgtbl_calc_index_val(va, p.lvl))
  BY <1>3, <1>4 DEF EntryOK, EntryOf
<1>6. p.lvl = k
  <2>1. ~ (k < p.lvl)
    BY <1>3, <1>5, NoLargerLeaf
  <2>2. ~ (p.lvl < k)
    BY <1>3, <1>5, NoSmallerLeaf
  <2> QED
    BY <1>3, <2>1, <2>2
<1>7. EntryBits(r.attr.prot, r.attr.flags)
  BY <1>3, LeafBits DEF LeafAt
<1> QED
  BY <1>3, <1>6, <1>7

\* The page h of the level k may be entered for va.
MayEnter(u, L, R, k, n, h, va, s, prot, flags) ==
    /\ k \in 0 .. 2 /\ n = rv64_pgtbl_calc_pagesize(k) /\ h \in Nat /\ h # NoFrame /\ h % n = 0
    /\ Sound(u, L, R, {}, h, n) /\ va \in RegionPages(k) /\ va % n = 0
    /\ s \in Spaces /\ u.base[s] # NoFrame /\ EntryBits(prot, flags)
LEMMA EnterIfMay ==
    ASSUME NEW u, NEW L, NEW R, NEW k, NEW n, NEW h, NEW va, NEW s, NEW prot, NEW flags,
           MayEnter(u, L, R, k, n, h, va, s, prot, flags), NEW m, m = hal_pgtbl_enter(u, s, va, h, prot, flags, n)
    PROVE  Entered(u, m, h, n)
BY EnterPageKeeps DEF MayEnter

(* One page of vm_copy_range, entered or given back.                       *)
LEMMA CopyPageKeeps ==
    ASSUME NEW u, NEW L, NEW R, Sound(u, L, R, {}, NoFrame, 0), NEW d \in Spaces, u.base[d] # NoFrame,
           NEW s \in Spaces, u.base[s] # NoFrame,
           NEW k \in 0 .. 2, NEW n, n = rv64_pgtbl_calc_pagesize(k), NEW va \in RegionPages(k), va % n = 0,
           NEW r, r = hal_pgtbl_extract(u, s, va), r.rc = "OK", FreeClusters(u, r.pgsize) # {},
           NEW h, h = Min(FreeClusters(u, r.pgsize)),
           NEW c, c = CopyPages(get_free_page_cluster(u, h, r.pgsize), h, r.paddr, r.pgsize),
           NEW e, e = hal_pgtbl_enter(c, d, va, h, r.attr.prot, r.attr.flags, r.pgsize)
    PROVE  IF e.rc = "OK" THEN Result(u, e.v, NoFrame, 0) ELSE Result(u, pfdb_dec_page_use_count(e.v, h), NoFrame, 0)
<1>1. Tree(u, L, R)
  BY DEF Sound
<1>2. r.pgsize = n /\ EntryBits(r.attr.prot, r.attr.flags)
  BY <1>1, PageFound
<1> DEFINE w == get_free_page_cluster(u, h, n)
<1>3. /\ h \in Nat /\ h # NoFrame /\ h % n = 0 /\ h \in Frames
      /\ Sound(w, L, R, {}, h, n) /\ w.panic = u.panic /\ w.base = u.base
  <2>1. n \in Nat \ {0}
    BY PageSizeIs
  <2>2. FreeClusters(u, n) # {} /\ h = Min(FreeClusters(u, n))
    BY <1>2
  <2> QED
    BY <2>1, <2>2, TakeCluster
<1>4. \E x : c = [w EXCEPT !.word = x]
  BY <1>2 DEF CopyPages, vm_copy_kmap_page
<1> HIDE DEF w
<1>5. Alike(w, c)
  <2>1. Shape(w)
    BY <1>3 DEF Sound, Tree
  <2>2. PICK x : c = [w EXCEPT !.word = x]
    BY <1>4
  <2>3. Alike(w, [w EXCEPT !.word = x])
    BY <2>1, AlikeIs
  <2> QED
    BY <2>2, <2>3
<1>6. Sound(c, L, R, {}, h, n) /\ c.panic = u.panic /\ c.base = u.base
  BY <1>3, <1>5, AlikeSound
<1>7. c.base[d] # NoFrame /\ e = hal_pgtbl_enter(c, d, va, h, r.attr.prot, r.attr.flags, n)
  BY <1>2, <1>6
<1>8. Entered(c, e, h, n)
  <2>1. MayEnter(c, L, R, k, n, h, va, d, r.attr.prot, r.attr.flags)
    BY <1>2, <1>3, <1>6, <1>7 DEF MayEnter
  <2> QED
    BY <1>7, <2>1, EnterIfMay
<1>9. CASE e.rc = "OK"
  BY <1>6, <1>8, <1>9, Zenon DEF Entered, Result
<1>10. CASE e.rc # "OK"
  <2> DEFINE x == pfdb_dec_page_use_count(e.v, h)
  <2>1. CASE IsRecord(e.v) /\ e.v.panic = TRUE
    <3>1. IsRecord(x) /\ x.panic = TRUE
      BY <2>1, PanicStays
    <3> QED
      BY <1>10, <3>1 DEF Result
  <2>2. CASE e.v.panic = c.panic /\ e.v.base = c.base /\ \E M, S : Sound(e.v, M, S, {}, h, n)
    <3>1. PICK M, S : Sound(e.v, M, S, {}, h, n)
      BY <2>2
    <3>2. Sound(x, M, S, {}, NoFrame, 0) /\ x.panic = e.v.panic /\ x.base = e.v.base
      BY <1>3, <3>1, ReleaseLoose
    <3> QED
      BY <1>6, <1>10, <2>2, <3>2 DEF Result
  <2> QED
    BY <1>8, <1>10, <2>1, <2>2, Zenon DEF Entered, Result
<1> QED
  BY <1>9, <1>10

-----------------------------------------------------------------------------
(* The calls.                                                              *)

IsJob(j) ==
    j = [op |-> j.op, pc |-> j.pc, d |-> j.d, s |-> j.s, from |-> j.from, at |-> j.at, to |-> j.to,
         size |-> j.size, prot |-> j.prot, rc |-> j.rc]
\* A call on pages stays in its region; pages are mapped and copied whole.
InRegion(j) ==
    \E r \in Regions, k \in 0 .. 2 :
      /\ r.size = rv64_pgtbl_calc_pagesize(k) /\ j.to = r.start + r.len
      /\ j.from \in Int /\ j.at \in Int /\ r.start <= j.from /\ r.start <= j.at
      /\ j.op \in {"map", "copy"} => j.size = r.size /\ j.prot = r.prot /\ j.at % r.size = 0
JobOK(u, j) ==
    j = NoJob \/
      /\ IsJob(j) /\ j.op \in {"map", "unmap", "copy", "move", "strlen"}
      /\ j.d \in Spaces /\ j.s \in Spaces /\ u.base[j.d] # NoFrame /\ u.base[j.s] # NoFrame
      /\ j.op \in {"map", "unmap", "copy"} => InRegion(j)
      /\ j.pc \in {"undo", "unlock_src"} => j.op \in {"map", "copy"} /\ j.at < j.to
Jobs(u, jb) == jb = [a \in Actors |-> jb[a]] /\ \A a \in Actors : JobOK(u, jb[a])
TablesGood(u) == \E L, R : Sound(u, L, R, {}, NoFrame, 0)

(* The invariant: while the kernel runs, the tables are trees of pages     *)
(* that are counted once, and the calls stay in their regions.             *)
Holds(u, jb) == ~ u.panic => TablesGood(u) /\ Jobs(u, jb)
VmIInv == Holds(v, job)

(* Calls stay as they are while no space goes.                             *)
LEMMA JobsKeep ==
    ASSUME NEW u, NEW w, NEW jb, Jobs(u, jb), \A z \in Spaces : u.base[z] # NoFrame => w.base[z] # NoFrame
    PROVE  Jobs(w, jb)
<1>1. \A j : JobOK(u, j) => JobOK(w, j)
  BY DEF JobOK
<1> QED
  BY <1>1 DEF Jobs

(* One call goes on, the others stay.                                      *)
LEMMA StepJob ==
    ASSUME NEW u, NEW w, NEW jb, Jobs(u, jb), \A z \in Spaces : u.base[z] # NoFrame => w.base[z] # NoFrame,
           NEW a \in Actors, NEW j, JobOK(w, j), NEW jb2, jb2 = [jb EXCEPT ![a] = j]
    PROVE  Jobs(w, jb2)
<1>1. Jobs(w, jb)
  BY JobsKeep
<1>2. jb2 = [b \in Actors |-> jb2[b]] /\ jb2[a] = j /\ \A b \in Actors : b # a => jb2[b] = jb[b]
  BY DEF Jobs
<1> QED
  BY <1>1, <1>2 DEF Jobs

\* The page a call is at.
LEMMA PageOfJob ==
    ASSUME NEW j, InRegion(j), NEW p \in Int, p = j.at \/ p = j.from, p < j.to
    PROVE  p \in UserPages
<1>1. PICK r \in Regions, k \in 0 .. 2 :
           /\ r.size = rv64_pgtbl_calc_pagesize(k) /\ j.to = r.start + r.len /\ r.start <= j.from /\ r.start <= j.at
  BY DEF InRegion
<1>2. r.start \in UserPages /\ r.len \in Nat
  BY VmAssumption
<1>3. r.start \in Nat
  BY <1>2 DEF UserPages
<1>4. p \in r.start .. r.start + r.len - 1
  BY <1>1, <1>2, <1>3
<1>5. p \in RegionPages(k)
  BY <1>1, <1>4 DEF RegionPages
<1> QED
  BY <1>5, RegionPageIs

(* The page vm_map_userpage or vm_copy_range is at.                        *)
LEMMA PageToMap ==
    ASSUME NEW j, InRegion(j), j.op \in {"map", "copy"}, j.at < j.to
    PROVE  \E k \in 0 .. 2 : /\ j.size = rv64_pgtbl_calc_pagesize(k) /\ j.at \in RegionPages(k) /\ j.at % j.size = 0
                             /\ j.prot \subseteq {"R", "W", "X"} /\ j.prot # {}
<1>1. PICK r \in Regions, k \in 0 .. 2 :
           /\ r.size = rv64_pgtbl_calc_pagesize(k) /\ j.to = r.start + r.len /\ r.start <= j.at /\ j.at \in Int
           /\ j.size = r.size /\ j.prot = r.prot /\ j.at % r.size = 0
  BY DEF InRegion
<1>2. r.start \in UserPages /\ r.len \in Nat /\ r.prot \subseteq {"R", "W", "X"} /\ r.prot # {}
  BY VmAssumption
<1>3. r.start \in Nat
  BY <1>2 DEF UserPages
<1>4. j.at \in r.start .. r.start + r.len - 1
  BY <1>1, <1>2, <1>3
<1>5. j.at \in RegionPages(k)
  BY <1>1, <1>4 DEF RegionPages
<1> QED
  BY <1>1, <1>2, <1>5

\* A call goes on by a number of pages, or fails and is undone.
LEMMA RegionKeeps ==
    ASSUME NEW j, IsJob(j), InRegion(j), NEW n \in Nat
    PROVE  /\ (j.op \in {"map", "copy"} => n = j.size) => InRegion([j EXCEPT !.at = @ + n])
           /\ InRegion([j EXCEPT !.from = @ + n])
<1>1. PICK r \in Regions, k \in 0 .. 2 :
           /\ r.size = rv64_pgtbl_calc_pagesize(k) /\ j.to = r.start + r.len
           /\ j.from \in Int /\ j.at \in Int /\ r.start <= j.from /\ r.start <= j.at
           /\ j.op \in {"map", "copy"} => j.size = r.size /\ j.prot = r.prot /\ j.at % r.size = 0
  BY DEF InRegion
<1>2. r.start \in Int /\ r.size \in Nat /\ r.size >= 1
  BY <1>1, VmAssumption, PageSizeIs DEF UserPages
<1>3. j.op \in {"map", "copy"} /\ n = j.size => (j.at + n) % r.size = 0
  <2> SUFFICES ASSUME j.op \in {"map", "copy"}, n = j.size PROVE (j.at + n) % r.size = 0
    OBVIOUS
  <2>1. j.at % r.size = 0 /\ n = r.size
    BY <1>1
  <2> DEFINE q == j.at \div r.size
  <2>2. q \in Int /\ j.at = r.size * q
    BY <1>1, <1>2, <2>1
  <2> HIDE DEF q
  <2>3. j.at + n = r.size * (q + 1)
    BY <1>1, <1>2, <2>1, <2>2
  <2> QED
    BY <1>2, <2>2, <2>3
<1> DEFINE x == [j EXCEPT !.at = @ + n]
           y == [j EXCEPT !.from = @ + n]
<1>4. /\ x.op = j.op /\ x.to = j.to /\ x.from = j.from /\ x.at = j.at + n /\ x.size = j.size /\ x.prot = j.prot
      /\ y.op = j.op /\ y.to = j.to /\ y.from = j.from + n /\ y.at = j.at /\ y.size = j.size /\ y.prot = j.prot
  BY DEF IsJob
<1> HIDE DEF x, y
<1>5. (j.op \in {"map", "copy"} => n = j.size) => InRegion(x)
  BY <1>1, <1>2, <1>3, <1>4 DEF InRegion
<1>6. InRegion(y)
  BY <1>1, <1>2, <1>4 DEF InRegion
<1> QED
  BY <1>5, <1>6 DEF x, y

\* The call j goes on as k.
SameCall(j, k) ==
    /\ IsJob(k) /\ k.op = j.op /\ k.d = j.d /\ k.s = j.s
    /\ j.op \in {"map", "unmap", "copy"} => InRegion(k)
    /\ k.pc \in {"undo", "unlock_src"} => k.op \in {"map", "copy"} /\ k.at < k.to

(* A call goes on to its next state with sound tables.                     *)
LEMMA NextJob ==
    ASSUME NEW u, NEW w, TablesGood(u), NEW jb, Jobs(u, jb), Result(u, w, NoFrame, 0), NEW a \in Actors, jb[a] # NoJob,
           NEW k, SameCall(jb[a], k), NEW jb2, jb2 = [jb EXCEPT ![a] = k]
    PROVE  Holds(w, jb2)
<1> SUFFICES ASSUME ~ w.panic PROVE TablesGood(w) /\ Jobs(w, jb2)
  BY DEF Holds
<1>1. w.base = u.base /\ TablesGood(w)
  BY DEF Result, TablesGood
<1>2. JobOK(u, jb[a])
  BY DEF Jobs
<1>3. JobOK(w, k)
  BY <1>1, <1>2 DEF JobOK, SameCall
<1> QED
  BY <1>1, <1>3, StepJob

(* Nothing changes.                                                        *)
LEMMA SameResult ==
    ASSUME NEW u, TablesGood(u)
    PROVE  Result(u, u, NoFrame, 0)
BY DEF TablesGood, Result

\* A call that fails, or goes on to pc.
LEMMA CallFails ==
    ASSUME NEW u, NEW j, JobOK(u, j), j # NoJob, NEW rc, NEW pc,
           pc \in {"undo", "unlock_src"} => j.op \in {"map", "copy"} /\ j.at < j.to
    PROVE  SameCall(j, [j EXCEPT !.rc = rc, !.pc = pc]) /\ SameCall(j, [j EXCEPT !.pc = pc])
<1>1. IsJob(j) /\ (j.op \in {"map", "unmap", "copy"} => InRegion(j))
  BY DEF JobOK
<1>2. ASSUME NEW x, IsJob(x), x.op = j.op, x.d = j.d, x.s = j.s, x.from = j.from, x.at = j.at, x.to = j.to,
             x.size = j.size, x.prot = j.prot, x.pc = pc
      PROVE  SameCall(j, x)
  <2>1. j.op \in {"map", "unmap", "copy"} => InRegion(x)
    BY <1>1, <1>2 DEF InRegion
  <2> QED
    BY <1>2, <2>1 DEF SameCall
<1> DEFINE x == [j EXCEPT !.rc = rc, !.pc = pc]
           y == [j EXCEPT !.pc = pc]
<1>3. /\ IsJob(x) /\ x.op = j.op /\ x.d = j.d /\ x.s = j.s /\ x.from = j.from /\ x.at = j.at /\ x.to = j.to
      /\ x.size = j.size /\ x.prot = j.prot /\ x.pc = pc
  <2> DEFINE z == [op |-> j.op, pc |-> pc, d |-> j.d, s |-> j.s, from |-> j.from, at |-> j.at, to |-> j.to,
                   size |-> j.size, prot |-> j.prot, rc |-> rc]
             m == [j EXCEPT !.rc = rc]
  <2>1. m = [op |-> j.op, pc |-> j.pc, d |-> j.d, s |-> j.s, from |-> j.from, at |-> j.at, to |-> j.to,
             size |-> j.size, prot |-> j.prot, rc |-> rc]
    BY <1>1 DEF IsJob
  <2>2. x = [m EXCEPT !.pc = pc]
    OBVIOUS
  <2> HIDE DEF m, x
  <2>3. x = z
    BY <2>1, <2>2
  <2> QED
    BY <2>3 DEF IsJob
<1>4. /\ IsJob(y) /\ y.op = j.op /\ y.d = j.d /\ y.s = j.s /\ y.from = j.from /\ y.at = j.at /\ y.to = j.to
      /\ y.size = j.size /\ y.prot = j.prot /\ y.pc = pc
  BY <1>1 DEF IsJob
<1> HIDE DEF x, y
<1>5. SameCall(j, x) /\ SameCall(j, y)
  BY <1>2, <1>3, <1>4
<1> QED
  BY <1>5 DEF x, y

\* A call that advances.
LEMMA CallAdvances ==
    ASSUME NEW u, NEW j, JobOK(u, j), j # NoJob, NEW n \in Nat
    PROVE  /\ (j.op \in {"map", "copy"} => n = j.size) /\ j.pc = "loop" => SameCall(j, [j EXCEPT !.at = @ + n])
           /\ SameCall(j, [j EXCEPT !.from = @ + n])
<1>1. /\ IsJob(j) /\ (j.op \in {"map", "unmap", "copy"} => InRegion(j))
      /\ j.pc \in {"undo", "unlock_src"} => j.op \in {"map", "copy"} /\ j.at < j.to
  BY DEF JobOK
<1> DEFINE x == [j EXCEPT !.at = @ + n]
           y == [j EXCEPT !.from = @ + n]
<1>2. IsJob(x) /\ x.op = j.op /\ x.d = j.d /\ x.s = j.s /\ x.pc = j.pc
  BY <1>1 DEF IsJob
<1>3. IsJob(y) /\ y.op = j.op /\ y.d = j.d /\ y.s = j.s /\ y.pc = j.pc /\ y.at = j.at /\ y.to = j.to
  BY <1>1 DEF IsJob
<1>4. j.op \in {"map", "unmap", "copy"} => ((j.op \in {"map", "copy"} => n = j.size) => InRegion(x)) /\ InRegion(y)
  BY <1>1, RegionKeeps
<1> HIDE DEF x, y
<1>5. (j.op \in {"map", "copy"} => n = j.size) /\ j.pc = "loop" => SameCall(j, x)
  BY <1>2, <1>4 DEF SameCall
<1>6. SameCall(j, y)
  BY <1>1, <1>3, <1>4 DEF SameCall
<1> QED
  BY <1>5, <1>6 DEF x, y

\* A call on bytes.
LEMMA BytesCall ==
    ASSUME NEW u, NEW j, JobOK(u, j), j # NoJob, j.op \in {"move", "strlen"}, j.pc = "loop", NEW n, NEW m
    PROVE  /\ SameCall(j, [j EXCEPT !.at = n]) /\ SameCall(j, [j EXCEPT !.size = m, !.pc = "unlock"])
           /\ SameCall(j, [j EXCEPT !.at = n, !.size = m])
<1>1. IsJob(j)
  BY DEF JobOK
<1>2. ASSUME NEW x, IsJob(x), x.op = j.op, x.d = j.d, x.s = j.s, x.pc \in {"loop", "unlock"}
      PROVE  SameCall(j, x)
  BY <1>2 DEF SameCall
<1> DEFINE x == [j EXCEPT !.at = n]
           y == [j EXCEPT !.size = m]
           z == [y EXCEPT !.pc = "unlock"]
           k == [x EXCEPT !.size = m]
<1>3. x = [op |-> j.op, pc |-> j.pc, d |-> j.d, s |-> j.s, from |-> j.from, at |-> n, to |-> j.to,
           size |-> j.size, prot |-> j.prot, rc |-> j.rc]
  BY <1>1 DEF IsJob
<1>4. y = [op |-> j.op, pc |-> j.pc, d |-> j.d, s |-> j.s, from |-> j.from, at |-> j.at, to |-> j.to,
           size |-> m, prot |-> j.prot, rc |-> j.rc]
  BY <1>1 DEF IsJob
<1>5. [j EXCEPT !.size = m, !.pc = "unlock"] = z /\ [j EXCEPT !.at = n, !.size = m] = k
  BY <1>1
<1> HIDE DEF x, y
<1>6. z = [op |-> j.op, pc |-> "unlock", d |-> j.d, s |-> j.s, from |-> j.from, at |-> j.at, to |-> j.to,
           size |-> m, prot |-> j.prot, rc |-> j.rc]
  BY <1>4
<1>7. k = [op |-> j.op, pc |-> j.pc, d |-> j.d, s |-> j.s, from |-> j.from, at |-> n, to |-> j.to,
           size |-> m, prot |-> j.prot, rc |-> j.rc]
  BY <1>3
<1> HIDE DEF z, k
<1>8. IsJob(x) /\ IsJob(z) /\ IsJob(k)
  BY <1>3, <1>6, <1>7 DEF IsJob
<1>9. SameCall(j, x)
  BY <1>2, <1>3, <1>8
<1>10. SameCall(j, z)
  BY <1>2, <1>6, <1>8
<1>11. SameCall(j, k)
  BY <1>2, <1>7, <1>8
<1> QED
  BY <1>5, <1>9, <1>10, <1>11 DEF x

\* Words of pages change.
LEMMA WordsChange ==
    ASSUME NEW u, TablesGood(u), NEW x, NEW w, w = [u EXCEPT !.word = x]
    PROVE  Result(u, w, NoFrame, 0)
<1>1. PICK L, R : Sound(u, L, R, {}, NoFrame, 0)
  BY DEF TablesGood
<1>2. Shape(u)
  BY <1>1 DEF Sound, Tree
<1>3. Alike(u, [u EXCEPT !.word = x])
  BY <1>2, AlikeIs
<1>4. Alike(u, w)
  BY <1>3
<1> QED
  BY <1>1, <1>4, AlikeSound DEF Result

-----------------------------------------------------------------------------
(* The actions.                                                            *)

LEMMA AllocSpaceStep ==
    ASSUME VmIInv, ~ v.panic, NEW s \in Spaces, AllocSpace(s)
    PROVE  Holds(v', job')
<1>1. TablesGood(v) /\ Jobs(v, job) /\ v.base[s] = NoFrame /\ v' = pgtbl_alloc_user_pgtbl(v, s) /\ job' = job
  BY DEF VmIInv, Holds, AllocSpace, Live
<1>2. PICK L, R : Sound(v, L, R, {}, NoFrame, 0)
  BY <1>1 DEF TablesGood
<1>3. \/ IsRecord(v') /\ v'.panic = TRUE
      \/ /\ v'.panic = v.panic /\ v'.base[s] # NoFrame /\ \A z \in Spaces : z # s => v'.base[z] = v.base[z]
         /\ \E M, S : Sound(v', M, S, {}, NoFrame, 0)
  <2>1. Born(v, v', s)
    BY <1>1, <1>2, AllocSpaceKeeps
  <2> QED
    BY <2>1 DEF Born, Gone
<1>4. CASE v'.panic = TRUE
  BY <1>4 DEF Holds
<1>5. CASE /\ v'.base[s] # NoFrame /\ \A z \in Spaces : z # s => v'.base[z] = v.base[z]
           /\ \E M, S : Sound(v', M, S, {}, NoFrame, 0)
  <2>1. \A z \in Spaces : v.base[z] # NoFrame => v'.base[z] # NoFrame
    BY <1>5
  <2>2. Jobs(v', job')
    BY <1>1, <2>1, JobsKeep
  <2> QED
    BY <1>5, <2>2 DEF Holds, TablesGood
<1> QED
  BY <1>3, <1>4, <1>5

(* A space that is in use by no call goes.                                 *)
LEMMA FreeSpaceStep ==
    ASSUME VmIInv, ~ v.panic, NEW s \in Spaces, FreeSpace(s)
    PROVE  Holds(v', job')
<1>1. TablesGood(v) /\ Jobs(v, job) /\ v.base[s] # NoFrame /\ v' = pgtbl_free_user_pgtbl(v, s) /\ job' = job /\ ~ InUse(s)
  BY DEF VmIInv, Holds, FreeSpace, Live
<1>2. PICK L, R : Sound(v, L, R, {}, NoFrame, 0)
  BY <1>1 DEF TablesGood
<1>3. \/ IsRecord(v') /\ v'.panic = TRUE
      \/ /\ v'.panic = v.panic /\ \A z \in Spaces : z # s => v'.base[z] = v.base[z]
         /\ \E M, S : Sound(v', M, S, {}, NoFrame, 0)
  <2>1. Gone(v, v', s)
    BY <1>1, <1>2, FreeSpaceKeeps
  <2> QED
    BY <2>1 DEF Gone
<1>4. CASE v'.panic = TRUE
  BY <1>4 DEF Holds
<1>5. CASE /\ \A z \in Spaces : z # s => v'.base[z] = v.base[z]
           /\ \E M, S : Sound(v', M, S, {}, NoFrame, 0)
  <2>1. \A b \in Actors : JobOK(v', job[b])
    <3> SUFFICES ASSUME NEW b \in Actors, job[b] # NoJob PROVE JobOK(v', job[b])
      BY DEF JobOK
    <3>1. JobOK(v, job[b])
      BY <1>1 DEF Jobs
    <3>2. job[b].op # "none" /\ job[b].d \in Spaces /\ job[b].s \in Spaces
      BY <3>1 DEF JobOK
    <3>3. job[b].d # s /\ job[b].s # s
      BY <1>1, <3>2 DEF InUse
    <3> QED
      BY <1>5, <3>1, <3>3 DEF JobOK
  <2>2. Jobs(v', job')
    BY <1>1, <2>1 DEF Jobs
  <2> QED
    BY <1>5, <2>2 DEF Holds, TablesGood
<1> QED
  BY <1>3, <1>4, <1>5

(* Users store bytes.                                                      *)
LEMMA StoreStep ==
    ASSUME VmIInv, ~ v.panic, NEW s, NEW p, NEW i, Store(s, p, i)
    PROVE  Holds(v', job')
<1>1. TablesGood(v) /\ Jobs(v, job) /\ job' = job
  BY DEF VmIInv, Holds, Store
<1>2. \E x : v' = [v EXCEPT !.word = x]
  <2> DEFINE r == hal_pgtbl_extract(v, s, p)
  <2>1. v' = [v EXCEPT !.word[r.paddr + (p % r.pgsize)][i] = stores + 1]
    BY DEF Store
  <2> HIDE DEF r
  <2> QED
    BY <2>1
<1>3. Result(v, v', NoFrame, 0)
  BY <1>1, <1>2, WordsChange
<1>4. v'.panic # TRUE => v'.base = v.base /\ TablesGood(v')
  BY <1>3 DEF Result, TablesGood
<1>5. v'.panic # TRUE => Jobs(v', job')
  BY <1>1, <1>4, JobsKeep
<1> QED
  BY <1>4, <1>5 DEF Holds

(* A call begins, with what its caller passes.                             *)
LEMMA CallStep ==
    ASSUME VmIInv, ~ v.panic, NEW a \in Actors, NEW op \in {"map", "unmap", "copy", "move", "strlen"},
           NEW d \in Spaces, NEW s \in Spaces, NEW from, NEW to, NEW size, NEW prot, Call(a, op, d, s, from, to, size, prot),
           op \in {"map", "unmap", "copy"} =>
             \E r \in Regions : from = r.start /\ to = r.start + r.len /\ size = r.size /\ prot = r.prot
    PROVE  Holds(v', job')
<1> DEFINE j == [op |-> op, pc |-> IF d = s THEN "loop" ELSE "lock_src", d |-> d, s |-> s, from |-> from,
                 at |-> from, to |-> to, size |-> size, prot |-> prot, rc |-> "OK"]
<1>1. /\ TablesGood(v) /\ Jobs(v, job) /\ job' = [job EXCEPT ![a] = j] /\ v' = v
      /\ v.base[d] # NoFrame /\ v.base[s] # NoFrame
  BY DEF VmIInv, Holds, Call, Live
<1>2. /\ IsJob(j) /\ j.op = op /\ j.d = d /\ j.s = s /\ j.pc \in {"loop", "lock_src"}
      /\ j.from = from /\ j.at = from /\ j.to = to /\ j.size = size /\ j.prot = prot
  BY DEF IsJob
<1> HIDE DEF j
<1>3. ASSUME op \in {"map", "unmap", "copy"} PROVE InRegion(j)
  <2>1. PICK r \in Regions : from = r.start /\ to = r.start + r.len /\ size = r.size /\ prot = r.prot
    BY <1>3
  <2>2. r.start \in UserPages /\ r.start % r.size = 0 /\ \E k \in 0 .. 2 : r.size = rv64_pgtbl_calc_pagesize(k)
    BY VmAssumption
  <2>3. PICK k \in 0 .. 2 : r.size = rv64_pgtbl_calc_pagesize(k)
    BY <2>2
  <2>4. r.start \in Int
    BY <2>2 DEF UserPages
  <2> QED
    BY <1>2, <2>1, <2>2, <2>3, <2>4 DEF InRegion
<1>4. JobOK(v, j)
  BY <1>1, <1>2, <1>3 DEF JobOK
<1>5. Jobs(v', job')
  BY <1>1, <1>4, StepJob
<1> QED
  BY <1>1, <1>5 DEF Holds

\* What is known of a call that works.
LEMMA AtWork ==
    ASSUME VmIInv, ~ v.panic, NEW a \in Actors, job[a] # NoJob
    PROVE  /\ TablesGood(v) /\ Jobs(v, job) /\ JobOK(v, job[a]) /\ IsJob(job[a])
           /\ job[a].d \in Spaces /\ job[a].s \in Spaces /\ v.base[job[a].d] # NoFrame /\ v.base[job[a].s] # NoFrame
           /\ job = [b \in Actors |-> job[b]] /\ Result(v, v, NoFrame, 0)
<1>1. TablesGood(v) /\ Jobs(v, job)
  BY DEF VmIInv, Holds
<1>2. JobOK(v, job[a]) /\ job = [b \in Actors |-> job[b]]
  BY <1>1 DEF Jobs
<1> QED
  BY <1>1, <1>2, SameResult DEF JobOK

\* The size of a page that is found.
LEMMA SizeFound ==
    ASSUME TablesGood(v), NEW s \in Spaces, v.base[s] # NoFrame, NEW va \in UserPages, NEW r, r = hal_pgtbl_extract(v, s, va),
           r.rc = "OK"
    PROVE  r.pgsize \in Nat
<1>1. PICK L, R : Sound(v, L, R, {}, NoFrame, 0)
  BY DEF TablesGood
<1>2. Tree(v, L, R)
  BY <1>1 DEF Sound
<1>3. PICK p : FoundIn(v, L, R, va, p, r)
  BY <1>2, PathIs
<1> QED
  BY <1>3, PageSizeIs DEF FoundIn

(* The lock of the source is taken or given back.                          *)
LEMMA PcStep ==
    ASSUME VmIInv, ~ v.panic, NEW a \in Actors, LockSrc(a) \/ UnlockSrc(a)
    PROVE  Holds(v', job')
<1> DEFINE j == job[a]
           pc == IF LockSrc(a) THEN "loop" ELSE "undo"
           k == [j EXCEPT !.pc = pc]
<1>1. /\ j # NoJob /\ v' = v /\ job' = [job EXCEPT ![a] = k]
      /\ j.pc = "unlock_src" \/ pc = "loop"
  BY DEF LockSrc, UnlockSrc, Step
<1>2. TablesGood(v) /\ Jobs(v, job) /\ JobOK(v, j) /\ Result(v, v, NoFrame, 0)
  BY <1>1, AtWork
<1>3. pc \in {"undo", "unlock_src"} => j.op \in {"map", "copy"} /\ j.at < j.to
  BY <1>1, <1>2 DEF JobOK
<1> HIDE DEF pc
<1>4. SameCall(j, k)
  BY <1>1, <1>2, <1>3, CallFails
<1> HIDE DEF k
<1>5. Holds(v, job')
  BY <1>1, <1>2, <1>4, NextJob
<1> QED
  BY <1>1, <1>5

(* vm_map_userpage, by one page.                                           *)
LEMMA MapStep ==
    ASSUME VmIInv, ~ v.panic, NEW a \in Actors, vm_map_userpage(a)
    PROVE  Holds(v', job')
<1> DEFINE j == job[a]
           r == vm_map_common(v, j.d, j.at, j.prot, j.size)
           x == [j EXCEPT !.at = @ + j.size]
           y == [j EXCEPT !.rc = r.rc, !.pc = "undo"]
<1>1. /\ j # NoJob /\ j.op = "map" /\ j.pc = "loop" /\ j.at < j.to /\ v' = r.v
      /\ job' = [job EXCEPT ![a] = IF r.rc = "OK" THEN x ELSE y]
  BY DEF vm_map_userpage, In, Advance, Fail
<1>2. /\ TablesGood(v) /\ Jobs(v, job) /\ JobOK(v, j) /\ j.d \in Spaces /\ v.base[j.d] # NoFrame
  BY <1>1, AtWork
<1>3. PICK k \in 0 .. 2 : /\ j.size = rv64_pgtbl_calc_pagesize(k) /\ j.at \in RegionPages(k) /\ j.at % j.size = 0
                          /\ j.prot \subseteq {"R", "W", "X"} /\ j.prot # {}
  BY <1>1, <1>2, PageToMap DEF JobOK
<1>4. PICK L, R : Sound(v, L, R, {}, NoFrame, 0)
  BY <1>2 DEF TablesGood
<1>5. Result(v, v', NoFrame, 0)
  BY <1>1, <1>2, <1>3, <1>4, MapCommonKeeps
<1> HIDE DEF r
<1>6. SameCall(j, IF r.rc = "OK" THEN x ELSE y)
  <2>1. j.size \in Nat
    BY <1>3, PageSizeIs
  <2>2. SameCall(j, x)
    BY <1>1, <1>2, <2>1, CallAdvances
  <2>3. SameCall(j, y)
    BY <1>1, <1>2, CallFails
  <2> QED
    BY <2>2, <2>3
<1> HIDE DEF x, y
<1> QED
  BY <1>1, <1>2, <1>5, <1>6, NextJob

(* vm_unmap, by one page.                                                  *)
LEMMA UnmapStep ==
    ASSUME VmIInv, ~ v.panic, NEW a \in Actors, vm_unmap(a)
    PROVE  Holds(v', job')
<1> DEFINE j == job[a]
           r == hal_pgtbl_extract(v, j.d, j.at)
           x == [j EXCEPT !.at = @ + r.pgsize]
           y == [j EXCEPT !.rc = r.rc, !.pc = "unlock"]
<1>1. /\ j # NoJob /\ j.op = "unmap" /\ j.pc = "loop" /\ j.at < j.to
      /\ v' = IF r.rc = "OK" THEN hal_pgtbl_remove(v, j.d, j.at) ELSE v
      /\ job' = [job EXCEPT ![a] = IF r.rc = "OK" THEN x ELSE y]
  BY DEF vm_unmap, In, Advance, Fail
<1>2. /\ TablesGood(v) /\ Jobs(v, job) /\ JobOK(v, j) /\ j.d \in Spaces /\ v.base[j.d] # NoFrame /\ Result(v, v, NoFrame, 0)
  BY <1>1, AtWork
<1>3. j.at \in UserPages
  <2>1. InRegion(j)
    BY <1>1, <1>2 DEF JobOK
  <2>2. j.at \in Int
    BY <2>1 DEF InRegion
  <2> QED
    BY <1>1, <2>1, <2>2, PageOfJob
<1>4. PICK L, R : Sound(v, L, R, {}, NoFrame, 0)
  BY <1>2 DEF TablesGood
<1>5. Result(v, v', NoFrame, 0)
  <2>1. Result(v, hal_pgtbl_remove(v, j.d, j.at), NoFrame, 0)
    BY <1>2, <1>3, <1>4, RemoveKeeps
  <2> QED
    BY <1>1, <1>2, <2>1
<1>6. r.rc = "OK" => r.pgsize \in Nat
  BY <1>2, <1>3, SizeFound
<1> HIDE DEF r
<1>7. SameCall(j, IF r.rc = "OK" THEN x ELSE y)
  <2>1. ASSUME r.rc = "OK" PROVE SameCall(j, x)
    BY <1>1, <1>2, <1>6, <2>1, CallAdvances
  <2>2. SameCall(j, y)
    BY <1>1, <1>2, CallFails
  <2> QED
    BY <2>1, <2>2
<1> HIDE DEF x, y
<1> QED
  BY <1>1, <1>2, <1>5, <1>7, NextJob

(* vm_unmap_common, by one page.                                           *)
LEMMA UndoStep ==
    ASSUME VmIInv, ~ v.panic, NEW a \in Actors, vm_unmap_common(a)
    PROVE  Holds(v', job')
<1> DEFINE j == job[a]
           r == hal_pgtbl_extract(v, j.d, j.from)
           n == IF r.rc = "OK" THEN r.pgsize ELSE 1
           x == [j EXCEPT !.from = @ + n]
           y == [j EXCEPT !.pc = "unlock"]
<1>1. /\ j # NoJob /\ j.pc = "undo"
      /\ v' = IF j.from < j.at THEN hal_pgtbl_remove(v, j.d, j.from) ELSE v
      /\ job' = [job EXCEPT ![a] = IF j.from < j.at THEN x ELSE y]
  BY DEF vm_unmap_common, UndoEnd, Step
<1>2. /\ TablesGood(v) /\ Jobs(v, job) /\ JobOK(v, j) /\ j.d \in Spaces /\ v.base[j.d] # NoFrame /\ Result(v, v, NoFrame, 0)
  BY <1>1, AtWork
<1>3. InRegion(j) /\ j.at < j.to /\ j.from \in Int /\ j.at \in Int /\ j.to \in Int
  <2>1. InRegion(j) /\ j.at < j.to
    BY <1>1, <1>2 DEF JobOK
  <2>2. PICK q \in Regions : j.to = q.start + q.len /\ j.from \in Int /\ j.at \in Int
    BY <2>1 DEF InRegion
  <2>3. q.start \in Int /\ q.len \in Int
    BY VmAssumption DEF UserPages
  <2> QED
    BY <2>1, <2>2, <2>3
<1>4. j.from < j.at => j.from \in UserPages
  <2>1. j.from < j.at => j.from < j.to
    BY <1>3
  <2> QED
    BY <1>3, <2>1, PageOfJob
<1>5. PICK L, R : Sound(v, L, R, {}, NoFrame, 0)
  BY <1>2 DEF TablesGood
<1>6. Result(v, v', NoFrame, 0)
  <2>1. j.from < j.at => Result(v, hal_pgtbl_remove(v, j.d, j.from), NoFrame, 0)
    BY <1>2, <1>4, <1>5, RemoveKeeps
  <2> QED
    BY <1>1, <1>2, <2>1
<1>7. j.from < j.at => n \in Nat
  BY <1>2, <1>4, SizeFound
<1> HIDE DEF n
<1>8. SameCall(j, IF j.from < j.at THEN x ELSE y)
  <2>1. ASSUME j.from < j.at PROVE SameCall(j, x)
    BY <1>1, <1>2, <1>7, <2>1, CallAdvances
  <2>2. SameCall(j, y)
    BY <1>1, <1>2, CallFails
  <2> QED
    BY <2>1, <2>2
<1> HIDE DEF x, y
<1> QED
  BY <1>1, <1>2, <1>6, <1>8, NextJob

(* vm_copy_range, by one page.                                             *)
LEMMA CopyStep ==
    ASSUME VmIInv, ~ v.panic, NEW a \in Actors, vm_copy_range(a)
    PROVE  Holds(v', job')
<1> DEFINE j == job[a]
           r == hal_pgtbl_extract(v, j.s, j.at)
           h == Min(FreeClusters(v, r.pgsize))
           c == CopyPages(get_free_page_cluster(v, h, r.pgsize), h, r.paddr, r.pgsize)
           e == hal_pgtbl_enter(c, j.d, j.at, h, r.attr.prot, r.attr.flags, r.pgsize)
           res == IF r.rc # "OK" THEN [rc |-> r.rc, v |-> v]
                  ELSE IF FreeClusters(v, r.pgsize) = {} THEN [rc |-> "ENOMEM", v |-> v]
                  ELSE IF e.rc = "OK" THEN e
                  ELSE [rc |-> e.rc, v |-> pfdb_dec_page_use_count(e.v, h)]
           x == [j EXCEPT !.at = @ + r.pgsize]
           y == [j EXCEPT !.rc = res.rc, !.pc = "unlock_src"]
<1>1. /\ j # NoJob /\ j.op = "copy" /\ j.pc = "loop" /\ j.at < j.to /\ v' = res.v
      /\ job' = [job EXCEPT ![a] = IF res.rc = "OK" THEN x ELSE y]
  BY ZenonT(30) DEF vm_copy_range, In, Advance, Fail
<1>2. /\ TablesGood(v) /\ Jobs(v, job) /\ JobOK(v, j) /\ j.d \in Spaces /\ v.base[j.d] # NoFrame
      /\ j.s \in Spaces /\ v.base[j.s] # NoFrame /\ Result(v, v, NoFrame, 0)
  BY <1>1, AtWork, Zenon
<1>3. PICK k \in 0 .. 2 : j.size = rv64_pgtbl_calc_pagesize(k) /\ j.at \in RegionPages(k) /\ j.at % j.size = 0
  BY <1>1, <1>2, PageToMap DEF JobOK
<1>4. PICK L, R : Sound(v, L, R, {}, NoFrame, 0)
  BY <1>2 DEF TablesGood
<1>5. r.rc = "OK" => r.pgsize \in Nat /\ r.pgsize = j.size
  <2>1. Tree(v, L, R)
    BY <1>4 DEF Sound
  <2>2. r.rc = "OK" => r.pgsize = rv64_pgtbl_calc_pagesize(k)
    BY <1>2, <1>3, <2>1, PageFound
  <2> QED
    BY <1>3, <2>2, PageSizeIs
<1>6. r.rc = "OK" /\ FreeClusters(v, r.pgsize) # {} =>
        IF e.rc = "OK" THEN Result(v, e.v, NoFrame, 0) ELSE Result(v, pfdb_dec_page_use_count(e.v, h), NoFrame, 0)
  BY <1>2, <1>3, <1>4, CopyPageKeeps
<1> HIDE DEF r, h, c, e
<1>7. Result(v, v', NoFrame, 0) /\ (res.rc = "OK" => r.rc = "OK")
  BY <1>1, <1>2, <1>6
<1> HIDE DEF res
<1>8. SameCall(j, IF res.rc = "OK" THEN x ELSE y)
  <2>1. ASSUME res.rc = "OK" PROVE SameCall(j, x)
    BY <1>1, <1>2, <1>5, <1>7, <2>1, CallAdvances
  <2>2. SameCall(j, y)
    BY <1>1, <1>2, CallFails
  <2> QED
    BY <2>1, <2>2
<1> HIDE DEF x, y
<1> QED
  BY <1>1, <1>2, <1>7, <1>8, NextJob, Zenon

(* vm_memmove, by one piece.                                               *)
LEMMA MoveStep ==
    ASSUME VmIInv, ~ v.panic, NEW a \in Actors, vm_memmove(a)
    PROVE  Holds(v', job')
<1> DEFINE j == job[a]
<1>1. j # NoJob /\ j.op = "move" /\ j.pc = "loop"
  BY DEF vm_memmove, In
<1>2. TablesGood(v) /\ Jobs(v, job) /\ JobOK(v, j) /\ IsJob(j) /\ Result(v, v, NoFrame, 0)
  BY <1>1, AtWork
<1>3. \/ /\ \E d, doff, s, soff, n : v' = CopyBytes(v, d, doff, s, soff, n)
         /\ \E n : job' = [job EXCEPT ![a] = [j EXCEPT !.at = n]]
      \/ v' = v /\ job' = [job EXCEPT ![a] = [j EXCEPT !.rc = "ENOENT", !.pc = "unlock"]]
  <2> DEFINE sp == j.at + j.size
             rd == hal_pgtbl_extract(v, j.d, j.at \div PageBytes)
             rs == hal_pgtbl_extract(v, j.s, sp \div PageBytes)
             d == Bytes(v, j.d, j.at)
             s == Bytes(v, j.s, sp)
             doff == j.at % d.size
             soff == src_off(j.at, sp, s.size)
             n == Min({j.to - j.at, d.size - doff, s.size - soff})
  <2>1. IF rd.rc = "OK" /\ rs.rc = "OK"
          THEN v' = CopyBytes(v, d.frame, doff, s.frame, soff, n) /\ job' = [job EXCEPT ![a].at = @ + n]
          ELSE v' = v /\ job' = [job EXCEPT ![a].rc = "ENOENT", ![a].pc = "unlock"]
    BY DEF vm_memmove, Advance, Fail
  <2> HIDE DEF rd, rs, d, s, doff, soff, n
  <2>2. CASE rd.rc = "OK" /\ rs.rc = "OK"
    BY <2>1, <2>2
  <2>3. CASE ~ (rd.rc = "OK" /\ rs.rc = "OK")
    BY <2>1, <2>3
  <2> QED
    BY <2>2, <2>3
<1>4. CASE v' = v /\ job' = [job EXCEPT ![a] = [j EXCEPT !.rc = "ENOENT", !.pc = "unlock"]]
  <2> DEFINE y == [j EXCEPT !.rc = "ENOENT", !.pc = "unlock"]
  <2>1. SameCall(j, y)
    BY <1>1, <1>2, CallFails
  <2> HIDE DEF y
  <2>2. job' = [job EXCEPT ![a] = y] /\ Result(v, v', NoFrame, 0)
    BY <1>2, <1>4 DEF y
  <2> QED
    BY <1>1, <1>2, <2>1, <2>2, NextJob
<1>5. CASE /\ \E d, doff, s, soff, n : v' = CopyBytes(v, d, doff, s, soff, n)
           /\ \E n : job' = [job EXCEPT ![a] = [j EXCEPT !.at = n]]
  <2>1. \E x : v' = [v EXCEPT !.word = x]
    BY <1>5 DEF CopyBytes
  <2>2. Result(v, v', NoFrame, 0)
    BY <1>2, <2>1, WordsChange
  <2>3. PICK n : job' = [job EXCEPT ![a] = [j EXCEPT !.at = n]]
    BY <1>5
  <2> DEFINE x == [j EXCEPT !.at = n]
  <2>4. SameCall(j, x)
    BY <1>1, <1>2, BytesCall
  <2>5. job' = [job EXCEPT ![a] = x]
    BY <2>3
  <2> HIDE DEF x
  <2> QED
    BY <1>1, <1>2, <2>2, <2>4, <2>5, NextJob
<1> QED
  BY <1>3, <1>4, <1>5

(* vm_strlen, by one page.                                                 *)
LEMMA StrlenStep ==
    ASSUME VmIInv, ~ v.panic, NEW a \in Actors, vm_strlen(a)
    PROVE  Holds(v', job')
<1> DEFINE j == job[a]
<1>1. j # NoJob /\ j.op = "strlen" /\ j.pc = "loop" /\ v' = v
  BY DEF vm_strlen, In
<1>2. TablesGood(v) /\ Jobs(v, job) /\ JobOK(v, j) /\ IsJob(j) /\ Result(v, v, NoFrame, 0)
  BY <1>1, AtWork
<1>3. \/ \E m : job' = [job EXCEPT ![a] = [j EXCEPT !.size = m, !.pc = "unlock"]]
      \/ \E n, m : job' = [job EXCEPT ![a] = [j EXCEPT !.at = n, !.size = m]]
  <2> DEFINE r == hal_pgtbl_extract(v, j.s, j.at \div PageBytes)
             b == Bytes(v, j.s, j.at)
             off == j.at % b.size
             ends == {o \in off .. b.size - 1 : Byte(v, b.frame, o) = 0}
             n1 == j.size + Min(ends) - off
             n2 == j.size + b.size - off
  <2>1. IF r.rc # "OK" THEN job' = [job EXCEPT ![a].size = 0, ![a].pc = "unlock"]
        ELSE IF ends # {} THEN job' = [job EXCEPT ![a].size = n1, ![a].pc = "unlock"]
        ELSE job' = [job EXCEPT ![a].at = @ + 1, ![a].size = @ + b.size - off]
    BY DEF vm_strlen
  <2>2. [job EXCEPT ![a].at = @ + 1, ![a].size = @ + b.size - off] = [job EXCEPT ![a] = [j EXCEPT !.at = j.at + 1, !.size = n2]]
    BY <1>2
  <2>3. \A m : [job EXCEPT ![a].size = m, ![a].pc = "unlock"] = [job EXCEPT ![a] = [j EXCEPT !.size = m, !.pc = "unlock"]]
    BY <1>2
  <2> HIDE DEF r, b, off, ends, n1, n2
  <2>4. CASE r.rc # "OK"
    BY <2>1, <2>3, <2>4
  <2>5. CASE r.rc = "OK" /\ ends # {}
    BY <2>1, <2>3, <2>5
  <2>6. CASE r.rc = "OK" /\ ends = {}
    <3>1. job' = [job EXCEPT ![a].at = @ + 1, ![a].size = @ + b.size - off]
      BY <2>1, <2>6
    <3>2. job' = [job EXCEPT ![a] = [j EXCEPT !.at = j.at + 1, !.size = n2]]
      BY <2>2, <3>1, Zenon
    <3> QED
      BY <3>2
  <2> QED
    BY <2>4, <2>5, <2>6
<1>4. PICK k : SameCall(j, k) /\ job' = [job EXCEPT ![a] = k]
  <2>1. CASE \E m : job' = [job EXCEPT ![a] = [j EXCEPT !.size = m, !.pc = "unlock"]]
    <3>1. PICK m : job' = [job EXCEPT ![a] = [j EXCEPT !.size = m, !.pc = "unlock"]]
      BY <2>1
    <3>2. SameCall(j, [j EXCEPT !.size = m, !.pc = "unlock"])
      BY <1>1, <1>2, BytesCall
    <3> QED
      BY <3>1, <3>2
  <2>2. CASE \E n, m : job' = [job EXCEPT ![a] = [j EXCEPT !.at = n, !.size = m]]
    <3>1. PICK n, m : job' = [job EXCEPT ![a] = [j EXCEPT !.at = n, !.size = m]]
      BY <2>2
    <3>2. SameCall(j, [j EXCEPT !.at = n, !.size = m])
      BY <1>1, <1>2, BytesCall
    <3> QED
      BY <3>1, <3>2
  <2> QED
    BY <1>3, <2>1, <2>2
<1> QED
  BY <1>1, <1>2, <1>4, NextJob

(* A call returns.                                                         *)
LEMMA ReturnStep ==
    ASSUME VmIInv, ~ v.panic, NEW a \in Actors, Return(a)
    PROVE  Holds(v', job')
<1>1. TablesGood(v) /\ Jobs(v, job) /\ v' = v /\ job' = [job EXCEPT ![a] = NoJob]
  BY DEF VmIInv, Holds, Return
<1>2. JobOK(v, NoJob)
  BY DEF JobOK
<1>3. Jobs(v, job')
  BY <1>1, <1>2, StepJob
<1> QED
  BY <1>1, <1>3 DEF Holds

(* Any call begins.                                                        *)
LEMMA CallsStep ==
    ASSUME VmIInv, ~ v.panic, NEW a \in Actors, Calls(a)
    PROVE  Holds(v', job')
<1>1. CASE \E s \in Spaces, r \in Regions : CallMap(a, s, r)
  BY <1>1, CallStep DEF CallMap
<1>2. CASE \E s \in Spaces, r \in Regions : CallUnmap(a, s, r)
  BY <1>2, CallStep DEF CallUnmap
<1>3. CASE \E p \in CopyPairs, r \in Regions : CallCopy(a, p, r)
  <2>1. PICK p \in CopyPairs, r \in Regions : CallCopy(a, p, r)
    BY <1>3
  <2>2. p[1] \in Spaces /\ p[2] \in Spaces
    BY VmAssumption
  <2>3. Call(a, "copy", p[1], p[2], r.start, r.start + r.len, r.size, r.prot)
    BY <2>1 DEF CallCopy
  <2> QED
    BY <2>2, <2>3, CallStep
<1>4. CASE \E p \in CopyPairs, x \in Moves : CallMove(a, p, x)
  <2>1. PICK p \in CopyPairs, x \in Moves : CallMove(a, p, x)
    BY <1>4
  <2>2. p[1] \in Spaces /\ p[2] \in Spaces
    BY VmAssumption
  <2> QED
    BY <2>1, <2>2, CallStep DEF CallMove
<1>5. CASE \E s \in Spaces, addr \in Strings : CallStrlen(a, s, addr)
  BY <1>5, CallStep DEF CallStrlen
<1> QED
  BY <1>1, <1>2, <1>3, <1>4, <1>5 DEF Calls

(* Every step of the virtual memory keeps the invariant.                   *)
LEMMA VmStepKeeps ==
    ASSUME VmIInv, [VmStep]_vmVars
    PROVE  VmIInv'
<1>1. CASE UNCHANGED vmVars \/ Halt \/ Quiet
  <2>1. v' = v /\ job' = job
    BY <1>1 DEF Halt, Quiet, vmVars
  <2> QED
    BY <2>1 DEF VmIInv
<1>2. CASE ~ v.panic /\ Users
  <2>1. Holds(v', job')
    BY <1>2, AllocSpaceStep, FreeSpaceStep, StoreStep DEF Users
  <2> QED
    BY <2>1 DEF VmIInv
<1>3. ASSUME ~ v.panic, NEW a \in Actors, Calls(a) \/ Works(a) PROVE VmIInv'
  <2>1. Holds(v', job')
    BY <1>3, CallsStep, PcStep, MapStep, UnmapStep, CopyStep, UndoStep, MoveStep, StrlenStep, ReturnStep DEF Works
  <2> QED
    BY <2>1 DEF VmIInv
<1> QED
  BY <1>1, <1>2, <1>3 DEF VmStep

(* There are no tables and no calls in the beginning.                      *)
LEMMA VmInitOK == VmInit => VmIInv
<1> SUFFICES ASSUME VmInit PROVE VmIInv
  OBVIOUS
<1>1. v = PageTableInit /\ job = [a \in Actors |-> NoJob]
  BY DEF VmInit
<1>2. Jobs(v, job)
  BY <1>1 DEF Jobs, JobOK
<1> DEFINE L == [f \in Frames |-> -1]
           R == [f \in Frames |-> 0]
<1>3. /\ v.use = [f \in Frames |-> 0] /\ v.len = [f \in Frames |-> 0] /\ v.pte = [f \in Frames |-> NoTable]
      /\ v.base = [s \in Spaces |-> NoFrame] /\ v.panic = FALSE /\ IsRecord(v)
  BY <1>1 DEF PageTableInit, IsRecord
<1>4. Shape(v)
  <2>1. v.use \in [Frames -> Nat] /\ v.len \in [Frames -> Nat] /\ v.base \in [Spaces -> Frames \cup {NoFrame}]
    BY <1>3
  <2>2. v.pte \in [Frames -> TableType]
    BY <1>3, EmptyIs
  <2> QED
    BY <1>3, <2>1, <2>2 DEF Shape
<1>5. L \in [Frames -> -1 .. 2] /\ R \in [Frames -> Int] /\ \A f \in Frames : L[f] = -1
  OBVIOUS
<1> HIDE DEF L, R
<1>6. Sound(v, L, R, {}, NoFrame, 0)
  BY <1>3, <1>4, <1>5 DEF Sound, Tree, BasesOK, AimsApart, IsTable, LeavesOK, Kept
<1> QED
  BY <1>2, <1>6 DEF VmIInv, Holds, TablesGood

-----------------------------------------------------------------------------
(* What the invariant says of the tables of the spaces.                    *)

LEMMA BelowIs ==
    ASSUME NEW L, NEW R, Tree(v, L, R), NEW l \in 1 .. 2, NEW S, \A f \in S : f \in Frames /\ L[f] = l
    PROVE  \A t \in Below(S, l) : t \in Frames /\ L[t] = l - 1
<1> SUFFICES ASSUME NEW t \in Below(S, l) PROVE t \in Frames /\ L[t] = l - 1
  OBVIOUS
<1>1. PICK f \in S : \E i \in Entries(f, l) : ~ RV64_PTE_IS_LEAF(v.pte[f][i]) /\ t = v.pte[f][i].ppn
  BY DEF Below
<1>2. PICK i \in Entries(f, l) : ~ RV64_PTE_IS_LEAF(v.pte[f][i]) /\ t = v.pte[f][i].ppn
  BY <1>1
<1>3. f \in Frames /\ L[f] = l /\ L[f] # -1
  OBVIOUS
<1>4. i \in ValidIn(v, f, L[f])
  BY <1>3 DEF Entries, ValidIn, IndexesOf
<1>5. EntryOK(v, L, R, f, i)
  BY <1>3, <1>4, TreeFacts
<1> QED
  BY <1>2, <1>3, <1>5 DEF EntryOK, LeafAt, AimOf

(* The tables of a space have their levels.                                *)
LEMMA TablesAre ==
    ASSUME NEW L, NEW R, Tree(v, L, R), NEW s \in Spaces, Live(s), NEW l \in 0 .. 2
    PROVE  \A f \in Tables(s, l) : f \in Frames /\ L[f] = l
<1> DEFINE B == {v.base[s]}
           C == Below(B, 2)
           D == Below(C, 1)
<1>1. \A f \in B : f \in Frames /\ L[f] = 2
  BY DEF Tree, Shape, BasesOK, Live
<1>2. \A f \in C : f \in Frames /\ L[f] = 2 - 1
  <2>1. 2 \in 1 .. 2
    OBVIOUS
  <2> HIDE DEF B
  <2> QED
    BY <1>1, <2>1, BelowIs
<1>3. \A f \in D : f \in Frames /\ L[f] = 1 - 1
  <2>1. 1 \in 1 .. 2 /\ \A f \in C : f \in Frames /\ L[f] = 1
    BY <1>2
  <2> HIDE DEF C
  <2> QED
    BY <2>1, BelowIs
<1>4. Tables(s, 2) = B /\ Tables(s, 1) = C /\ Tables(s, 0) = D
  BY DEF Tables
<1> HIDE DEF B, C, D
<1>5. l = 0 \/ l = 1 \/ l = 2
  OBVIOUS
<1> QED
  BY <1>1, <1>2, <1>3, <1>4, <1>5

(* The entries that PagesOwned speaks of are those of the invariant.       *)
LEMMA EntriesAre ==
    ASSUME NEW L, NEW R, Tree(v, L, R), NEW e \in AllEntries
    PROVE  /\ e = <<e[1], e[2], e[3]>> /\ e[1] \in Frames /\ e[2] \in 0 .. 2 /\ L[e[1]] = e[2] /\ L[e[1]] # -1
           /\ e[3] \in ValidIn(v, e[1], L[e[1]])
           /\ Target(e).ppn = AimOf(v, e[1], e[3]) /\ (RV64_PTE_IS_LEAF(Target(e)) <=> LeafAt(v, e[1], e[3]))
<1>1. PICK t \in UNION {Tables(s, l) \X {l} : s \in {x \in Spaces : Live(x)}, l \in 0 .. 2} :
           \E i \in Entries(t[1], t[2]) : e = <<t[1], t[2], i>>
  BY DEF AllEntries
<1>2. PICK s \in {x \in Spaces : Live(x)}, l \in 0 .. 2 : t \in Tables(s, l) \X {l}
  BY <1>1
<1>3. t[1] \in Tables(s, l) /\ t[2] = l
  BY <1>2
<1>4. t[1] \in Frames /\ L[t[1]] = l
  BY <1>3, TablesAre
<1>5. PICK i \in Entries(t[1], l) : e = <<t[1], l, i>>
  BY <1>1, <1>3
<1>6. i \in ValidIn(v, t[1], l)
  BY <1>5 DEF Entries, ValidIn, IndexesOf
<1>7. e = <<e[1], e[2], e[3]>> /\ e[1] = t[1] /\ e[2] = l /\ e[3] = i
  BY <1>5
<1> QED
  BY <1>4, <1>6, <1>7 DEF Target, AimOf, LeafAt

(* The invariant gives each page its one role.                             *)
LEMMA VmOwned == VmIInv => PagesOwned
<1> SUFFICES ASSUME VmIInv, ~ v.panic PROVE PagesOwned
  BY DEF PagesOwned
<1>1. PICK L, R : Sound(v, L, R, {}, NoFrame, 0)
  BY DEF VmIInv, Holds, TablesGood
<1>2. Tree(v, L, R) /\ LeavesOK(v, L, {}) /\ AimsApart(v, L)
  BY <1>1 DEF Sound, Tree
<1> DEFINE E == AllEntries
           T == {Target(e).ppn : e \in E}
           g == [e \in E |-> Target(e).ppn]
<1>3. \A e \in E : /\ e = <<e[1], e[2], e[3]>> /\ e[1] \in Frames /\ e[2] \in 0 .. 2 /\ L[e[1]] = e[2] /\ L[e[1]] # -1
                   /\ e[3] \in ValidIn(v, e[1], L[e[1]])
                   /\ Target(e).ppn = AimOf(v, e[1], e[3]) /\ (RV64_PTE_IS_LEAF(Target(e)) <=> LeafAt(v, e[1], e[3]))
  BY <1>2, EntriesAre
<1>4. \A e \in E : EntryOK(v, L, R, e[1], e[3]) /\ Target(e).ppn \in Frames
  BY <1>2, <1>3, TreeFacts
<1>5. \A e1, e2 \in E : Target(e1).ppn = Target(e2).ppn => e1 = e2
  <2> SUFFICES ASSUME NEW e1 \in E, NEW e2 \in E, Target(e1).ppn = Target(e2).ppn PROVE e1 = e2
    OBVIOUS
  <2> HIDE DEF E
  <2>1. IsTable(L, e1[1]) /\ IsTable(L, e2[1]) /\ e1[1] \in Frames /\ e2[1] \in Frames
    BY <1>3 DEF IsTable
  <2>2. AimOf(v, e1[1], e1[3]) = AimOf(v, e2[1], e2[3])
    BY <1>3
  <2>3. e1[1] = e2[1] /\ e1[3] = e2[3]
    BY <1>2, <1>3, <2>1, <2>2 DEF AimsApart
  <2>4. e1[2] = e2[2]
    BY <1>3, <2>3
  <2> QED
    BY <1>3, <2>3, <2>4
<1>6. Cardinality(T) = Cardinality(E)
  <2>1. T \subseteq Frames
    BY <1>4
  <2>2. IsFiniteSet(T)
    BY <2>1, PageTableFacts, FS_Subset
  <2> HIDE DEF E
  <2>3. g \in Injection(E, T) /\ g \in Surjection(E, T)
    BY <1>5 DEF Injection, Surjection, IsInjective
  <2> HIDE DEF T, g
  <2> QED
    BY <2>2, <2>3, FS_Injection
<1>7. ASSUME NEW s \in Spaces, Live(s) PROVE v.base[s] \notin T
  <2>1. v.base[s] \in Frames /\ L[v.base[s]] = 2
    BY <1>2, <1>7 DEF Tree, Shape, BasesOK, Live
  <2> SUFFICES ASSUME NEW e \in E, v.base[s] = Target(e).ppn PROVE FALSE
    OBVIOUS
  <2>2. EntryOK(v, L, R, e[1], e[3]) /\ L[e[1]] \in 0 .. 2 /\ AimOf(v, e[1], e[3]) = v.base[s]
    BY <1>3, <1>4
  <2> QED
    BY <2>1, <2>2 DEF EntryOK
<1>8. ASSUME NEW s \in Spaces, Live(s), NEW l \in 0 .. 2, NEW f \in Tables(s, l)
      PROVE  v.len[f] = 1 /\ v.use[f] = 1 + Cardinality(Entries(f, l))
  <2>1. f \in Frames /\ L[f] = l /\ L[f] # -1
    BY <1>2, <1>8, TablesAre
  <2>2. TableOK(v, L, R, f)
    BY <1>2, <2>1, TreeFacts
  <2>3. Entries(f, l) = ValidIn(v, f, l)
    BY DEF Entries, ValidIn, IndexesOf
  <2> QED
    BY <2>1, <2>2, <2>3 DEF TableOK
<1>9. ASSUME NEW e \in E, RV64_PTE_IS_LEAF(Target(e))
      PROVE  v.use[Target(e).ppn] = 1 /\ v.len[Target(e).ppn] = rv64_pgtbl_calc_pagesize(e[2])
  BY <1>2, <1>3, <1>9 DEF LeavesOK
<1> HIDE DEF E
<1>10. E = AllEntries /\ T = {Target(e).ppn : e \in AllEntries}
  BY DEF E
<1> QED
  BY <1>6, <1>7, <1>8, <1>9, <1>10 DEF PagesOwned

-----------------------------------------------------------------------------
(* The theorems.                                                           *)

(* The inductive invariant of address spaces, for any number of spaces,    *)
(* pages and threads, any size of tables and any regions: until a kassert  *)
(* fails the tables are trees whose pages are counted exactly, before and  *)
(* after every page that a call maps, unmaps or copies (grow_pgtbl,        *)
(* remove_table_reference, vm_unmap_common, vm_copy_range).                *)
THEOREM PagesInvariance == VmSpec => []VmIInv
BY VmInitOK, VmStepKeeps, PTL DEF VmSpec

(* Each page has one role: it is a table or data of one entry of one       *)
(* space, a table is counted for itself and for each of its entries, a     *)
(* page of data once and with the size of its level (grow_pgtbl,           *)
(* remove_table_reference, hal_pgtbl_remove, pgtbl_free_user_pgtbl).       *)
THEOREM PagesAlwaysOwned == VmSpec => []PagesOwned
<1>1. VmSpec => []VmIInv
  BY PagesInvariance
<1> QED
  BY <1>1, VmOwned, PTL

-----------------------------------------------------------------------------
(* The pages of processes.  Every process that is complete has three       *)
(* tables and the page of its stack, one that is created has a base table  *)
(* first, and a thread has its kernel stack; W says whose a frame is.      *)

\* All clusters are single frames: what runs as a process maps small pages.
Single(u) == Shape(u) /\ u.nr \in [Spaces -> Nat] /\ \A f \in Frames : u.len[f] \in {0, 1}
Used(u) == {f \in Frames : u.len[f] = 1}
Cell(u, f, n, t) == f \in Frames /\ u.use[f] = n /\ u.len[f] = 1 /\ u.pte[f] = t

StackLeaf(d) == [bits |-> {"R", "W", "X", "U", "V"}, ppn |-> d]
TopTable(f) == [KernelTable EXCEPT ![EntryOf(StackPage, 2)] = TableEntry(f)]
MidTable(f) == [NoTable EXCEPT ![EntryOf(StackPage, 1)] = TableEntry(f)]
LowTable(f) == [NoTable EXCEPT ![EntryOf(StackPage, 0)] = StackLeaf(f)]
Cells(u, a, b, c, d) ==
    /\ Cell(u, a, 2, TopTable(b)) /\ Cell(u, b, 2, MidTable(c)) /\ Cell(u, c, 2, LowTable(d))
    /\ d \in Frames /\ u.use[d] = 1 /\ u.len[d] = 1
    /\ a # b /\ a # c /\ a # d /\ b # c /\ b # d /\ c # d

Complete(u, W, p) ==
    /\ u.nr[p] = 3
    /\ \E b, c, d \in Frames :
         Cells(u, u.base[p], b, c, d) /\ \A f \in {u.base[p], b, c, d} : W[f] = p
Bare(u, W, p) == u.nr[p] = 1 /\ Cell(u, u.base[p], 1, KernelTable) /\ W[u.base[p]] = p
Without0(u, p) == u.nr[p] = 0 /\ u.base[p] = NoFrame
OwnStack(u, W, t, f) == f \in Frames /\ u.use[f] = 1 /\ u.len[f] = 1 /\ W[f] = t

Laid(u, W, F, B, stk) ==
    /\ Single(u) /\ ~ u.panic
    /\ \A p \in F : Complete(u, W, p)
    /\ \A p \in B : Bare(u, W, p)
    /\ \A p \in Spaces \ (F \cup B) : Without0(u, p)
    /\ \A t \in Thrs : stk[t] # NoFrame => OwnStack(u, W, t, stk[t])
Counts4(u, F, B, K) ==
    /\ IsFiniteSet(F) /\ IsFiniteSet(B) /\ IsFiniteSet(K)
    /\ Cardinality(Used(u)) = 4 * Cardinality(F) + Cardinality(B) + Cardinality(K)

(* A frame of a cluster of one page is taken when it is used.              *)
LEMMA FreeIs ==
    ASSUME NEW u, Single(u)
    PROVE  /\ Taken(u) = Used(u) /\ FreeClusters(u, 1) = Frames \ Used(u)
           /\ IsFiniteSet(Used(u)) /\ Cardinality(Used(u)) \in Nat
<1>1. Frames \subseteq Nat /\ IsFiniteSet(Frames)
  BY PageTableFacts
<1>2. \A h \in Frames : h .. h + u.len[h] - 1 = IF u.len[h] = 1 THEN {h} ELSE {}
  <2> SUFFICES ASSUME NEW h \in Frames PROVE h .. h + u.len[h] - 1 = IF u.len[h] = 1 THEN {h} ELSE {}
    OBVIOUS
  <2>1. h \in Nat /\ u.len[h] \in {0, 1}
    BY <1>1 DEF Single
  <2>2. CASE u.len[h] = 0
    <3>1. h .. h + 0 - 1 = {}
      BY <2>1
    <3> QED
      BY <2>2, <3>1
  <2>3. CASE u.len[h] = 1
    <3>1. h .. h + 1 - 1 = {h}
      BY <2>1
    <3> QED
      BY <2>3, <3>1
  <2> QED
    BY <2>1, <2>2, <2>3
<1>3. Taken(u) = Used(u)
  <2> DEFINE R(h) == h .. h + u.len[h] - 1
  <2>1. Taken(u) = UNION {R(h) : h \in Frames}
    BY DEF Taken
  <2>2. \A h \in Frames : R(h) = IF u.len[h] = 1 THEN {h} ELSE {}
    BY <1>2
  <2> HIDE DEF R
  <2>3. \A x : x \in Taken(u) <=> \E h \in Frames : x \in R(h)
    BY <2>1
  <2>4. \A x : x \in Taken(u) <=> x \in Used(u)
    BY <2>2, <2>3 DEF Used
  <2> QED
    BY <2>4
<1>4. \A h \in Frames : h % 1 = 0 /\ h .. h + 1 - 1 = {h}
  <2> SUFFICES ASSUME NEW h \in Frames PROVE h % 1 = 0 /\ h .. h + 1 - 1 = {h}
    OBVIOUS
  <2>1. h \in Nat
    BY <1>1
  <2>2. h % 1 = 0
    BY <2>1
  <2>3. h .. h + 1 - 1 = {h}
    BY <2>1
  <2> QED
    BY <2>2, <2>3
<1>5. FreeClusters(u, 1) = Frames \ Used(u)
  <2>1. FreeClusters(u, 1) = {h \in Frames : h % 1 = 0 /\ h .. h + 1 - 1 \subseteq Frames \ Used(u)}
    BY <1>3 DEF FreeClusters
  <2>2. \A h \in Frames : (h % 1 = 0 /\ h .. h + 1 - 1 \subseteq Frames \ Used(u)) <=> h \notin Used(u)
    BY <1>4
  <2> QED
    BY <2>1, <2>2
<1>6. Used(u) \subseteq Frames
  BY DEF Used
<1> QED
  BY <1>1, <1>3, <1>5, <1>6, FS_Subset, FS_CardinalityType

(* The number of tables of a space changes with them alone.                *)
LEMMA NrStays ==
    ASSUME NEW u, IsRecord(u), NEW f, NEW i, NEW n, NEW e
    PROVE  /\ pfdb_dec_page_use_count(u, f).nr = u.nr /\ Unlink(u, f, i).nr = u.nr
           /\ PutEntry(u, f, i, e).nr = u.nr /\ get_free_page_cluster(u, f, n).nr = u.nr
<1>1. ASSUME NEW w, IsRecord(w) PROVE pfdb_dec_page_use_count(w, f).nr = w.nr
  <2> DEFINE x == [g \in Frames |-> IF g \in f .. f + w.len[f] - 1 THEN Zeroed ELSE w.word[g]]
             y == kassert(w, w.use[f] = 1)
  <2>1. y.nr = w.nr
    BY <1>1 DEF kassert, IsRecord
  <2>2. pfdb_dec_page_use_count(w, f) =
          IF w.use[f] > 1 THEN [w EXCEPT !.use[f] = @ - 1]
          ELSE [y EXCEPT !.use[f] = 0, !.len[f] = 0, !.pte[f] = NoTable,
                         !.word = [g \in Frames |-> IF g \in f .. f + w.len[f] - 1 THEN Zeroed ELSE @[g]]]
    BY DEF pfdb_dec_page_use_count
  <2> QED
    BY <1>1, <2>1, <2>2
<1>2. IsRecord([u EXCEPT !.pte[f][i] = Empty]) /\ [u EXCEPT !.pte[f][i] = Empty].nr = u.nr
  BY DEF IsRecord
<1>3. Unlink(u, f, i).nr = u.nr
  BY <1>1, <1>2 DEF Unlink
<1>4. PutEntry(u, f, i, e).nr = u.nr
  BY DEF PutEntry, pfdb_inc_page_use_count, kassert, IsRecord
<1>5. get_free_page_cluster(u, f, n).nr = u.nr
  BY DEF get_free_page_cluster, IsRecord
<1> QED
  BY <1>1, <1>3, <1>4, <1>5

\* A record that differs in the frames S only.
Apart(u, w, S) == Single(w) /\ SameBase(u, w) /\ \A g \in Frames : g \notin S => SameFrame(u, w, g)

LEMMA ApartFrom ==
    ASSUME NEW u, Single(u), NEW f \in Frames, NEW w, OnlyFrame(u, w, f), w.nr \in [Spaces -> Nat], w.len[f] \in {0, 1}
    PROVE  Apart(u, w, {f})
<1>1. Shape(w) /\ SameBase(u, w) /\ \A g \in Frames : g # f => SameFrame(u, w, g)
  BY DEF OnlyFrame
<1>2. \A g \in Frames : w.len[g] \in {0, 1}
  BY <1>1 DEF SameFrame, Single
<1> QED
  BY <1>1, <1>2 DEF Apart, Single

(* pfdb_dec_page_use_count of a single page.                               *)
LEMMA DecOne ==
    ASSUME NEW u, Single(u), NEW f \in Frames, u.use[f] >= 1, NEW w, w = pfdb_dec_page_use_count(u, f)
    PROVE  /\ Apart(u, w, {f}) /\ w.nr = u.nr /\ w.use[f] = u.use[f] - 1
           /\ u.use[f] > 1 => w.len[f] = u.len[f] /\ w.pte[f] = u.pte[f]
           /\ u.use[f] = 1 => w.len[f] = 0
<1>1. Shape(u) /\ IsRecord(u) /\ u.use[f] \in Nat /\ u.len[f] \in {0, 1} /\ u.nr \in [Spaces -> Nat]
  BY FieldTypes, ShapeIs DEF Single
<1>2. /\ OnlyFrame(u, w, f) /\ w.use[f] = u.use[f] - 1
      /\ u.use[f] > 1 => w.len[f] = u.len[f] /\ w.pte[f] = u.pte[f]
      /\ u.use[f] = 1 => w.len[f] = 0
  BY <1>1, DecIs
<1>3. w.nr = u.nr
  BY <1>1, NrStays
<1>4. u.use[f] > 1 \/ u.use[f] = 1
  BY <1>1
<1>5. w.len[f] \in {0, 1}
  BY <1>1, <1>2, <1>4
<1>6. Apart(u, w, {f})
  BY <1>1, <1>2, <1>3, <1>5, ApartFrom
<1> QED
  BY <1>2, <1>3, <1>6

(* Unlink takes an entry out of a table that has one.                      *)
LEMMA UnlinkOne ==
    ASSUME NEW u, Single(u), NEW f, NEW i \in 0 .. Top - 1, NEW t, Cell(u, f, 2, t), NEW w, w = Unlink(u, f, i)
    PROVE  Apart(u, w, {f}) /\ w.nr = u.nr /\ Cell(w, f, 1, [t EXCEPT ![i] = Empty])
<1>1. /\ Shape(u) /\ IsRecord(u) /\ u.nr \in [Spaces -> Nat]
      /\ f \in Frames /\ u.use[f] = 2 /\ u.len[f] = 1 /\ u.pte[f] = t
  BY ShapeIs DEF Single, Cell
<1>2. u.use[f] > 1
  BY <1>1
<1>3. /\ OnlyFrame(u, w, f) /\ w.use[f] = u.use[f] - 1 /\ w.len[f] = u.len[f]
      /\ w.pte[f] = [u.pte[f] EXCEPT ![i] = Empty]
  BY <1>1, <1>2, UnlinkIs
<1>4. w.nr = u.nr
  BY <1>1, NrStays
<1>5. w.use[f] = 1 /\ w.len[f] \in {0, 1}
  BY <1>1, <1>3
<1>6. Apart(u, w, {f})
  BY <1>1, <1>3, <1>4, <1>5, ApartFrom
<1> QED
  BY <1>1, <1>3, <1>4, <1>5, <1>6 DEF Cell

(* An entry is put into an empty table.                                    *)
LEMMA LinkOne ==
    ASSUME NEW u, Single(u), NEW f, NEW i \in 0 .. Top - 1, NEW t, Cell(u, f, 1, t), NEW e \in EntriesType,
           NEW w, w = PutEntry(u, f, i, e)
    PROVE  Apart(u, w, {f}) /\ w.nr = u.nr /\ Cell(w, f, 2, [t EXCEPT ![i] = e])
<1>1. /\ Shape(u) /\ IsRecord(u) /\ u.nr \in [Spaces -> Nat]
      /\ f \in Frames /\ u.use[f] = 1 /\ u.len[f] = 1 /\ u.pte[f] = t
  BY ShapeIs DEF Single, Cell
<1>2. u.use[f] >= 1
  BY <1>1
<1>3. /\ OnlyFrame(u, w, f) /\ w.use[f] = u.use[f] + 1 /\ w.len[f] = u.len[f]
      /\ w.pte[f] = [u.pte[f] EXCEPT ![i] = e]
  BY <1>1, <1>2, LinkIs
<1>4. w.nr = u.nr
  BY <1>1, NrStays
<1>5. w.use[f] = 2 /\ w.len[f] \in {0, 1}
  BY <1>1, <1>3
<1>6. Apart(u, w, {f})
  BY <1>1, <1>3, <1>4, <1>5, ApartFrom
<1> QED
  BY <1>1, <1>3, <1>4, <1>5, <1>6 DEF Cell

(* A page is taken, for a table or for data.                               *)
LEMMA TakeOne ==
    ASSUME NEW u, Single(u), FreeClusters(u, 1) # {}, NEW h, h = Min(FreeClusters(u, 1)),
           NEW w, w = get_free_page_cluster(u, h, 1)
    PROVE  h \in Frames \ Used(u) /\ Apart(u, w, {h}) /\ w.nr = u.nr /\ Cell(w, h, 1, NoTable)
<1>1. h \in Frames \ Used(u)
  BY FreeClusterIs, FreeIs
<1>2. Shape(u) /\ IsRecord(u) /\ u.nr \in [Spaces -> Nat] /\ 1 \in Nat
  BY ShapeIs DEF Single
<1>3. OnlyFrame(u, w, h) /\ w.use[h] = 1 /\ w.len[h] = 1 /\ w.pte[h] = NoTable
  BY <1>1, <1>2, AllocIs
<1>4. w.nr = u.nr
  BY <1>2, NrStays
<1>5. w.len[h] \in {0, 1}
  BY <1>3
<1>6. Apart(u, w, {h})
  BY <1>1, <1>2, <1>3, <1>4, <1>5, ApartFrom
<1> QED
  BY <1>1, <1>3, <1>4, <1>6 DEF Cell

LEMMA TakeTableOne ==
    ASSUME NEW u, Single(u), FreeClusters(u, 1) # {}, NEW s \in Spaces, NEW a, a = pgtbl_alloc_pgtbl_page(u, s)
    PROVE  /\ a.frame \in Frames \ Used(u) /\ Apart(u, a.v, {a.frame}) /\ Cell(a.v, a.frame, 1, NoTable)
           /\ a.v.nr = [u.nr EXCEPT ![s] = @ + 1]
<1> DEFINE h == Min(FreeClusters(u, 1))
           w == get_free_page_cluster(u, h, 1)
           x == [w.nr EXCEPT ![s] = @ + 1]
           z == [w EXCEPT !.nr = x]
<1>1. a.frame = h /\ a.v = z
  BY DEF pgtbl_alloc_pgtbl_page
<1>2. h \in Frames \ Used(u) /\ Apart(u, w, {h}) /\ w.nr = u.nr /\ Cell(w, h, 1, NoTable)
  BY TakeOne
<1>3. x \in [Spaces -> Nat] /\ x = [u.nr EXCEPT ![s] = @ + 1]
  BY <1>2 DEF Single
<1> HIDE DEF h, w, x
<1>4. Single(w) /\ Shape(w) /\ SameBase(u, w) /\ \A g \in Frames : g # h => SameFrame(u, w, g)
  BY <1>2 DEF Apart, Single
<1>5. Alike(w, z) /\ z.nr = x
  <2>1. Alike(w, z)
    BY <1>4, AlikeIs
  <2>2. IsRecord(w)
    BY <1>4, ShapeIs
  <2>3. z.nr = x
    BY <2>2 DEF IsRecord
  <2> QED
    BY <2>1, <2>3
<1> HIDE DEF z
<1>6. Shape(z) /\ SameBase(w, z) /\ \A g \in Frames : SameFrame(w, z, g)
  BY <1>5 DEF Alike
<1>7. Single(z)
  BY <1>3, <1>4, <1>5, <1>6 DEF Single, SameFrame
<1>8. Apart(u, z, {h}) /\ Cell(z, h, 1, NoTable)
  BY <1>2, <1>4, <1>6, <1>7 DEF Apart, SameBase, SameFrame, Cell
<1> QED
  BY <1>1, <1>2, <1>3, <1>5, <1>8

\* What grow_on starts from when the table has no entry for the page yet.
AtTable(st, t, va, lvl) ==
    /\ st = [v |-> st.v, tbl |-> st.tbl, rc |-> "go"] /\ Single(st.v) /\ Cell(st.v, st.tbl, 1, t)
    /\ lvl \in 0 .. 2 /\ va \in UserPages /\ t[EntryOf(va, lvl)] = Empty

(* A level of the way down of a small page, where no table was.            *)
LEMMA GrowOne ==
    ASSUME NEW st, NEW t, NEW va, NEW lvl, AtTable(st, t, va, lvl), lvl # 0, NEW s \in Spaces,
           NEW h, NEW prot, NEW flags, NEW nx, nx = grow_on(st, s, lvl, va, h, prot, flags, 1)
    PROVE  \/ nx.rc = "ENOMEM"
           \/ /\ nx = [v |-> nx.v, tbl |-> nx.tbl, rc |-> "go"] /\ nx.tbl \in Frames \ Used(st.v)
              /\ Apart(st.v, nx.v, {st.tbl, nx.tbl}) /\ nx.v.nr = [st.v.nr EXCEPT ![s] = @ + 1]
              /\ Cell(nx.v, st.tbl, 2, [t EXCEPT ![EntryOf(va, lvl)] = TableEntry(nx.tbl)])
              /\ Cell(nx.v, nx.tbl, 1, NoTable)
<1> DEFINE i    == rv64_pgtbl_calc_index_val(va, lvl)
           f    == st.tbl
           pte  == st.v.pte[f][i]
           here == rv64_pgtbl_calc_pagesize(lvl) = 1
           leaf == [bits |-> vmprot_and_vmflags_to_pte(prot, flags) \cup {"V"}, ppn |-> h]
           new  == pgtbl_alloc_pgtbl_page(st.v, s)
           e    == TableEntry(new.frame)
           w    == PutEntry(new.v, f, i, e)
<1>1. /\ st = [v |-> st.v, tbl |-> f, rc |-> "go"] /\ Single(st.v) /\ f \in Frames /\ Cell(st.v, f, 1, t)
      /\ lvl \in 0 .. 2 /\ t[i] = Empty /\ st.v.pte[f] = t /\ st.v.len[f] = 1
  BY DEF AtTable, Cell, EntryOf
<1>2. nx = grow_pgtbl(st, s, lvl, va, h, prot, flags, 1)
  BY <1>1 DEF grow_on
<1>3. i \in 0 .. Top - 1
  BY <1>1, IndexIs, PageTableFacts DEF AtTable
<1>4. ~ here
  BY <1>1, PageSizeIs, PageTableFacts
<1>5. ~ RV64_PTE_IS_VALID(pte)
  BY <1>1, EmptyIs
<1>6. nx = CASE RV64_PTE_IS_VALID(pte) /\ here   -> [st EXCEPT !.rc = "EBUSY"]
             [] RV64_PTE_IS_VALID(pte) /\ ~ here -> [st EXCEPT !.tbl = pte.ppn]
             [] ~ RV64_PTE_IS_VALID(pte) /\ here -> [st EXCEPT !.v = PutEntry(st.v, f, i, leaf), !.rc = "OK"]
             [] OTHER -> IF FreeClusters(st.v, 1) = {} THEN [st EXCEPT !.rc = "ENOMEM"]
                         ELSE [st EXCEPT !.v = PutEntry(new.v, f, i, TableEntry(new.frame)), !.tbl = new.frame]
  BY <1>2 DEF grow_pgtbl, PutEntry
<1> HIDE DEF pte, here, leaf, i, f
<1>7. nx = IF FreeClusters(st.v, 1) = {} THEN [st EXCEPT !.rc = "ENOMEM"]
           ELSE [st EXCEPT !.v = w, !.tbl = new.frame]
  BY <1>4, <1>5, <1>6
<1> HIDE DEF w
<1>8. CASE FreeClusters(st.v, 1) = {}
  BY <1>1, <1>7, <1>8
<1>9. CASE FreeClusters(st.v, 1) # {}
  <2>1. /\ new.frame \in Frames \ Used(st.v) /\ Apart(st.v, new.v, {new.frame})
        /\ Cell(new.v, new.frame, 1, NoTable) /\ new.v.nr = [st.v.nr EXCEPT ![s] = @ + 1]
    BY <1>1, <1>9, TakeTableOne
  <2>2. new.frame # f /\ new.frame \in Int
    BY <1>1, <2>1, PageTableFacts DEF Used
  <2>3. nx = [v |-> w, tbl |-> new.frame, rc |-> "go"]
    <3> DEFINE y == [st EXCEPT !.v = w]
               n == new.frame
    <3>1. y = [v |-> w, tbl |-> f, rc |-> "go"]
      BY <1>1
    <3>2. nx = [y EXCEPT !.tbl = n]
      BY <1>7, <1>9
    <3> HIDE DEF y, n
    <3>3. nx = [v |-> w, tbl |-> n, rc |-> "go"]
      BY <3>1, <3>2
    <3> QED
      BY <3>3 DEF n
  <2>4. e \in EntriesType
    BY <2>2 DEF TableEntry, EntriesType
  <2> HIDE DEF new, e
  <2>5. Cell(new.v, f, 1, t)
    BY <1>1, <2>1, <2>2 DEF Apart, SameFrame, Cell
  <2>6. Single(new.v)
    BY <2>1 DEF Apart
  <2>7. Apart(new.v, w, {f}) /\ w.nr = new.v.nr /\ Cell(w, f, 2, [t EXCEPT ![i] = e])
    BY <1>3, <2>4, <2>5, <2>6, LinkOne DEF w
  <2>8. Apart(st.v, w, {f, new.frame}) /\ Cell(w, new.frame, 1, NoTable)
    BY <2>1, <2>2, <2>7 DEF Apart, SameBase, SameFrame, Cell
  <2>9. nx.v = w /\ nx.tbl = new.frame /\ nx = [v |-> nx.v, tbl |-> nx.tbl, rc |-> "go"]
    BY <2>3
  <2>10. i = EntryOf(va, lvl) /\ f = st.tbl /\ e = TableEntry(nx.tbl)
    BY <2>9 DEF e, f, i, EntryOf
  <2> HIDE DEF f, i
  <2> QED
    BY <2>1, <2>7, <2>8, <2>9, <2>10
<1> QED
  BY <1>8, <1>9

(* The lowest level: the entry is made.                                    *)
LEMMA EnterOne ==
    ASSUME NEW st, NEW t, NEW va, AtTable(st, t, va, 0), NEW s \in Spaces, NEW h \in Int,
           NEW nx, nx = grow_on(st, s, 0, va, h, Stack.prot, {}, 1)
    PROVE  /\ nx.rc = "OK" /\ Apart(st.v, nx.v, {st.tbl}) /\ nx.v.nr = st.v.nr
           /\ Cell(nx.v, st.tbl, 2, [t EXCEPT ![EntryOf(va, 0)] = StackLeaf(h)])
<1> DEFINE i    == rv64_pgtbl_calc_index_val(va, 0)
           f    == st.tbl
           pte  == st.v.pte[f][i]
           here == rv64_pgtbl_calc_pagesize(0) = 1
           leaf == [bits |-> vmprot_and_vmflags_to_pte(Stack.prot, {}) \cup {"V"}, ppn |-> h]
           new  == pgtbl_alloc_pgtbl_page(st.v, s)
           w    == PutEntry(st.v, f, i, leaf)
<1>1. /\ st = [v |-> st.v, tbl |-> f, rc |-> "go"] /\ Single(st.v) /\ f \in Frames /\ Cell(st.v, f, 1, t)
      /\ t[i] = Empty /\ st.v.pte[f] = t /\ va \in UserPages
  BY DEF AtTable, Cell, EntryOf
<1>2. nx = grow_pgtbl(st, s, 0, va, h, Stack.prot, {}, 1)
  BY <1>1 DEF grow_on
<1>3. i \in 0 .. Top - 1
  BY <1>1, IndexIs, PageTableFacts
<1>4. here
  BY PageSizeIs
<1>5. ~ RV64_PTE_IS_VALID(pte)
  BY <1>1, EmptyIs
<1>6. nx = CASE RV64_PTE_IS_VALID(pte) /\ here   -> [st EXCEPT !.rc = "EBUSY"]
             [] RV64_PTE_IS_VALID(pte) /\ ~ here -> [st EXCEPT !.tbl = pte.ppn]
             [] ~ RV64_PTE_IS_VALID(pte) /\ here -> [st EXCEPT !.v = PutEntry(st.v, f, i, leaf), !.rc = "OK"]
             [] OTHER -> IF FreeClusters(st.v, 1) = {} THEN [st EXCEPT !.rc = "ENOMEM"]
                         ELSE [st EXCEPT !.v = PutEntry(new.v, f, i, TableEntry(new.frame)), !.tbl = new.frame]
  BY <1>2 DEF grow_pgtbl, PutEntry
<1>7. leaf = StackLeaf(h) /\ leaf \in EntriesType
  BY DEF Stack, StackLeaf, vmprot_and_vmflags_to_pte, EntriesType
<1> HIDE DEF pte, here, leaf, i, f, new
<1>8. nx = [st EXCEPT !.v = w, !.rc = "OK"]
  BY <1>4, <1>5, <1>6
<1> HIDE DEF w
<1>9. nx.rc = "OK" /\ nx.v = w
  BY <1>1, <1>8
<1>10. Apart(st.v, w, {f}) /\ w.nr = st.v.nr /\ Cell(w, f, 2, [t EXCEPT ![i] = leaf])
  <2> DEFINE x == st.v
  <2>1. w = PutEntry(x, f, i, leaf) /\ Single(x) /\ Cell(x, f, 1, t) /\ leaf \in EntriesType
    BY <1>1, <1>7 DEF w
  <2> HIDE DEF x
  <2>2. Apart(x, w, {f})
    BY <1>3, <2>1, LinkOne
  <2>3. w.nr = x.nr
    <3>1. IsRecord(x)
      BY <2>1, ShapeIs DEF Single
    <3> QED
      BY <2>1, <3>1, NrStays
  <2>4. Cell(w, f, 2, [t EXCEPT ![i] = leaf])
    BY <1>3, <2>1, LinkOne
  <2> QED
    BY <2>2, <2>3, <2>4 DEF x
<1> QED
  BY <1>7, <1>9, <1>10 DEF f, i, EntryOf

(* What is done in a row, and what other frames keep.                      *)
LEMMA ApartTwo ==
    ASSUME NEW u, NEW w, NEW x, NEW S, NEW T, Apart(u, w, S), Apart(w, x, T)
    PROVE  Apart(u, x, S \cup T)
BY DEF Apart, SameBase, SameFrame

LEMMA CellKeeps ==
    ASSUME NEW u, NEW w, NEW S, Apart(u, w, S), NEW f, NEW n, NEW t, Cell(u, f, n, t)
    PROVE  f \in Used(u) /\ (f \notin S => Cell(w, f, n, t))
BY DEF Apart, SameFrame, Cell, Used

(* The page of the stack is the last one of the user.                      *)
LEMMA StackPageIs ==
    /\ StackPage \in UserPages /\ StackPage \in Nat
    /\ \A l \in 0 .. 2 : EntryOf(StackPage, l) \in 0 .. Top - 1
    /\ EntryOf(StackPage, 2) # KernelIndex
    /\ KernelTable \in TableType /\ KernelTable[EntryOf(StackPage, 2)] = Empty
<1> DEFINE n == (Top - 1) * rv64_pgtbl_calc_pagesize(2)
<1>1. n \in Nat /\ n >= 1
  <2>1. rv64_pgtbl_calc_pagesize(2) \in Nat /\ rv64_pgtbl_calc_pagesize(2) >= 1 /\ Top - 1 \in Nat /\ Top - 1 >= 1
    BY PageSizeIs, PageTableFacts
  <2> QED
    BY <2>1
<1>2. UserPages = 0 .. n - 1
  BY DEF UserPages
<1> HIDE DEF n
<1>3. StackPage \in UserPages
  <2>1. n - 1 \in UserPages /\ \A y \in UserPages : n - 1 >= y
    BY <1>1, <1>2
  <2> QED
    BY <2>1 DEF StackPage, Max
<1>4. StackPage \in Nat
  BY <1>1, <1>2, <1>3
<1>5. \A l \in 0 .. 2 : EntryOf(StackPage, l) \in IndexesOf(l)
  BY <1>3, IndexIs DEF EntryOf
<1>6. \A l \in 0 .. 2 : EntryOf(StackPage, l) \in 0 .. Top - 1
  BY <1>5, PageTableFacts
<1>7. EntryOf(StackPage, 2) # KernelIndex
  <2>1. IndexesOf(2) = 0 .. KernelIndex - 1
    BY DEF IndexesOf
  <2> QED
    BY <1>5, <2>1, PageTableFacts
<1>8. KernelTable \in TableType /\ KernelTable[EntryOf(StackPage, 2)] = Empty
  <2> DEFINE e == [bits |-> vmprot_and_vmflags_to_pte({"R", "W", "X"}, {"S"}) \cup {"V"}, ppn |-> KernelFrame]
  <2>1. e \in EntriesType
    BY DEF vmprot_and_vmflags_to_pte, KernelFrame, EntriesType
  <2>2. KernelTable = [NoTable EXCEPT ![KernelIndex] = e]
    BY DEF KernelTable
  <2> HIDE DEF e
  <2>3. NoTable \in TableType /\ \A i \in 0 .. Top - 1 : NoTable[i] = Empty
    BY EmptyIs
  <2>4. KernelTable \in TableType
    BY <2>1, <2>2, <2>3 DEF TableType
  <2>5. EntryOf(StackPage, 2) \in 0 .. Top - 1
    BY <1>6
  <2> QED
    BY <1>7, <2>2, <2>3, <2>4, <2>5 DEF TableType
<1> QED
  BY <1>3, <1>4, <1>6, <1>7, <1>8

(* The stack is entered as one small page.                                 *)
LEMMA EnterStack ==
    ASSUME NEW u, NEW s, NEW h \in Nat
    PROVE  hal_pgtbl_enter(u, s, StackPage, h, Stack.prot, {}, 1)
             = map_vaddr_to_paddr(u, s, StackPage, h, Stack.prot, {}, 1)
<1>1. PICK k \in 0 .. 2 : k = 0
  OBVIOUS
<1>2. PICK n \in Nat : n = 1
  OBVIOUS
<1>3. n = rv64_pgtbl_calc_pagesize(k) /\ h % n = 0 /\ StackPage % n = 0
  BY <1>1, <1>2, PageSizeIs, StackPageIs
<1>4. enter_size(StackPage, h, n) = n /\ n \div n = 1
  BY <1>3, EnterSize, StackPageIs
<1>5. hal_pgtbl_enter(u, s, StackPage, h, Stack.prot, {}, n) = map_pieces(u, s, StackPage, h, Stack.prot, {}, n, 1)
  BY <1>4 DEF hal_pgtbl_enter
<1>6. StackPage \in Int /\ h \in Int /\ n \in Int
  BY StackPageIs
<1>7. hal_pgtbl_enter(u, s, StackPage, h, Stack.prot, {}, n) = map_vaddr_to_paddr(u, s, StackPage, h, Stack.prot, {}, n)
  BY <1>5, <1>6, OnePiece
<1> QED
  BY <1>2, <1>7

\* The frames of p are one table before and four pages after.
Mapped4(u, w, p, b, c, d) ==
    /\ {b, c, d} \subseteq Frames \ Used(u) /\ Apart(u, w, {u.base[p], b, c, d}) /\ Cells(w, u.base[p], b, c, d)
    /\ w.nr \in [Spaces -> Nat] /\ w.nr[p] = 3 /\ \A q \in Spaces : q # p => w.nr[q] = u.nr[q]

(* vm_map_common of the stack of a new process: when it succeeds, it has   *)
(* taken the page and two tables.                                          *)
LEMMA StackMapped ==
    ASSUME NEW u, Single(u), NEW p \in Spaces, Cell(u, u.base[p], 1, KernelTable), u.nr[p] = 1,
           NEW r, r = vm_map_common(u, p, StackPage, Stack.prot, 1), r.rc = "OK"
    PROVE  \E b, c, d \in Frames : Mapped4(u, r.v, p, b, c, d)
<1> DEFINE a  == u.base[p]
           sp == StackPage
           h  == Min(FreeClusters(u, 1))
           x  == get_free_page_cluster(u, h, 1)
           Turn(st, lvl) == grow_on(st, p, lvl, sp, h, Stack.prot, {}, 1)
           s0 == [v |-> x, tbl |-> x.base[p], rc |-> "go"]
           s1 == Turn(s0, 2)
           s2 == Turn(s1, 1)
           s3 == Turn(s2, 0)
           b  == s1.tbl
           c  == s2.tbl
<1>1. FreeClusters(u, 1) # {}
  <2> SUFFICES ASSUME FreeClusters(u, 1) = {} PROVE FALSE
    OBVIOUS
  <2>1. r = [rc |-> "ENOMEM", v |-> u]
    BY DEF vm_map_common
  <2> QED
    BY <2>1
<1>2. h \in Frames \ Used(u) /\ Apart(u, x, {h}) /\ x.nr = u.nr /\ Cell(x, h, 1, NoTable)
  BY <1>1, TakeOne
<1>3. h \in Nat /\ h \in Int /\ x.base = u.base /\ Single(x) /\ h # a /\ a \in Frames
  <2> HIDE DEF h, x
  <2>1. h \in Nat /\ h \in Int
    BY <1>2, PageTableFacts
  <2>2. x.base = u.base /\ Single(x)
    BY <1>2 DEF Apart, SameBase
  <2>3. a \in Frames /\ a \in Used(u)
    BY DEF Cell, Used
  <2> QED
    BY <1>2, <2>1, <2>2, <2>3
<1>4. r = map_vaddr_to_paddr(x, p, sp, h, Stack.prot, {}, 1)
  <2>1. r = hal_pgtbl_enter(x, p, sp, h, Stack.prot, {}, 1)
    BY <1>1 DEF vm_map_common
  <2> QED
    BY <1>3, <2>1, EnterStack
<1>5. r.rc = s3.rc /\ (s3.rc = "OK" => r.v = s3.v)
  BY <1>4 DEF map_vaddr_to_paddr
<1>6. /\ sp \in UserPages /\ KernelTable[EntryOf(sp, 2)] = Empty
      /\ NoTable[EntryOf(sp, 1)] = Empty /\ NoTable[EntryOf(sp, 0)] = Empty
  BY StackPageIs, EmptyIs
<1> HIDE DEF h, x, sp
<1>7. Cell(x, a, 1, KernelTable) /\ s0.v = x /\ s0.tbl = a /\ AtTable(s0, KernelTable, sp, 2)
  <2>1. Cell(x, a, 1, KernelTable)
    BY <1>2, <1>3, CellKeeps
  <2>2. s0 = [v |-> x, tbl |-> a, rc |-> "go"]
    BY <1>3
  <2> HIDE DEF s0, a
  <2> QED
    BY <1>3, <1>6, <2>1, <2>2 DEF AtTable
<1>8. s1.rc # "ENOMEM" /\ s2.rc # "ENOMEM"
  <2>1. s1.rc = "ENOMEM" => s2 = s1
    BY DEF grow_on
  <2>2. s2.rc = "ENOMEM" => s3 = s2
    BY DEF grow_on
  <2> HIDE DEF Turn, s1, s2, s3
  <2> QED
    BY <1>5, <2>1, <2>2
<1>9. /\ s1 = [v |-> s1.v, tbl |-> b, rc |-> "go"] /\ b \in Frames \ Used(x)
      /\ Apart(x, s1.v, {a, b}) /\ s1.v.nr = [x.nr EXCEPT ![p] = @ + 1]
      /\ Cell(s1.v, a, 2, TopTable(b)) /\ Cell(s1.v, b, 1, NoTable)
  <2> DEFINE t == [KernelTable EXCEPT ![EntryOf(sp, 2)] = TableEntry(b)]
  <2>1. t = TopTable(b)
    BY DEF TopTable, sp
  <2>0. s1 = grow_on(s0, p, 2, sp, h, Stack.prot, {}, 1)
    OBVIOUS
  <2> HIDE DEF t, s0, s1, a, Turn
  <2>2. /\ s1 = [v |-> s1.v, tbl |-> b, rc |-> "go"] /\ b \in Frames \ Used(s0.v)
        /\ Apart(s0.v, s1.v, {s0.tbl, b}) /\ s1.v.nr = [s0.v.nr EXCEPT ![p] = @ + 1]
        /\ Cell(s1.v, s0.tbl, 2, [KernelTable EXCEPT ![EntryOf(sp, 2)] = TableEntry(b)])
        /\ Cell(s1.v, b, 1, NoTable)
    BY <1>7, <1>8, <2>0, GrowOne
  <2> QED
    BY <1>7, <2>1, <2>2 DEF t
<1> HIDE DEF s0, a
<1>10. b # a /\ b # h /\ Cell(s1.v, h, 1, NoTable) /\ Single(s1.v) /\ AtTable(s1, NoTable, sp, 1)
  <2>1. b # a /\ b # h
    BY <1>2, <1>7, <1>9, CellKeeps
  <2>2. Cell(s1.v, h, 1, NoTable)
    BY <1>2, <1>3, <1>9, <2>1, CellKeeps DEF a
  <2> HIDE DEF s1
  <2> QED
    BY <1>6, <1>9, <2>1, <2>2 DEF AtTable, Apart
<1> HIDE DEF s1, b
<1>11. /\ s2 = [v |-> s2.v, tbl |-> c, rc |-> "go"] /\ c \in Frames \ Used(s1.v)
       /\ Apart(s1.v, s2.v, {b, c}) /\ s2.v.nr = [s1.v.nr EXCEPT ![p] = @ + 1]
       /\ Cell(s2.v, b, 2, MidTable(c)) /\ Cell(s2.v, c, 1, NoTable)
  <2> DEFINE t == [NoTable EXCEPT ![EntryOf(sp, 1)] = TableEntry(c)]
  <2>1. t = MidTable(c)
    BY DEF MidTable, sp
  <2> HIDE DEF t
  <2>2. /\ s2 = [v |-> s2.v, tbl |-> c, rc |-> "go"] /\ c \in Frames \ Used(s1.v)
        /\ Apart(s1.v, s2.v, {s1.tbl, c}) /\ s2.v.nr = [s1.v.nr EXCEPT ![p] = @ + 1]
        /\ Cell(s2.v, s1.tbl, 2, [NoTable EXCEPT ![EntryOf(sp, 1)] = TableEntry(c)])
        /\ Cell(s2.v, c, 1, NoTable)
    BY <1>8, <1>10, GrowOne
  <2> QED
    BY <2>1, <2>2 DEF t, b
<1>12. /\ c # a /\ c # b /\ c # h /\ Cell(s2.v, a, 2, TopTable(b)) /\ Cell(s2.v, h, 1, NoTable) /\ Single(s2.v)
       /\ AtTable(s2, NoTable, sp, 0)
  <2>1. c # a /\ c # b /\ c # h
    BY <1>9, <1>10, <1>11, CellKeeps
  <2>2. Cell(s2.v, a, 2, TopTable(b)) /\ Cell(s2.v, h, 1, NoTable)
    BY <1>3, <1>9, <1>10, <1>11, <2>1, CellKeeps DEF a
  <2> HIDE DEF s2
  <2> QED
    BY <1>6, <1>11, <2>1, <2>2 DEF AtTable, Apart
<1> HIDE DEF s2, c
<1>13. /\ s3.rc = "OK" /\ Apart(s2.v, s3.v, {c}) /\ s3.v.nr = s2.v.nr /\ Cell(s3.v, c, 2, LowTable(h))
  <2> DEFINE t == [NoTable EXCEPT ![EntryOf(sp, 0)] = StackLeaf(h)]
  <2>1. t = LowTable(h)
    BY DEF LowTable, sp
  <2> HIDE DEF t
  <2>2. /\ s3.rc = "OK" /\ Apart(s2.v, s3.v, {s2.tbl}) /\ s3.v.nr = s2.v.nr
        /\ Cell(s3.v, s2.tbl, 2, [NoTable EXCEPT ![EntryOf(sp, 0)] = StackLeaf(h)])
    BY <1>3, <1>12, EnterOne
  <2> QED
    BY <2>1, <2>2 DEF t, c
<1> DEFINE w == s3.v
<1>14. r.v = w
  BY <1>5, <1>13
<1> HIDE DEF s3, Turn, w
<1>15. /\ Cell(w, a, 2, TopTable(b)) /\ Cell(w, b, 2, MidTable(c)) /\ Cell(w, c, 2, LowTable(h)) /\ Cell(w, h, 1, NoTable)
       /\ Apart(u, w, {a, b, c, h})
  <2>1. Apart(s2.v, w, {c}) /\ Cell(w, c, 2, LowTable(h))
    BY <1>13 DEF w
  <2>2. Cell(w, a, 2, TopTable(b)) /\ Cell(w, b, 2, MidTable(c)) /\ Cell(w, h, 1, NoTable)
    BY <1>11, <1>12, <2>1, CellKeeps
  <2>3. Apart(u, s1.v, {h} \cup {a, b})
    BY <1>2, <1>9, ApartTwo
  <2>4. Apart(u, s2.v, ({h} \cup {a, b}) \cup {b, c})
    BY <1>11, <2>3, ApartTwo
  <2>5. Apart(u, w, (({h} \cup {a, b}) \cup {b, c}) \cup {c})
    BY <2>1, <2>4, ApartTwo
  <2>6. (({h} \cup {a, b}) \cup {b, c}) \cup {c} = {a, b, c, h}
    OBVIOUS
  <2> QED
    BY <2>1, <2>2, <2>5, <2>6
<1>16. b \notin Used(u) /\ c \notin Used(u) /\ b \in Frames /\ c \in Frames
  <2>1. \A f \in Used(u) : f # h => f \in Used(x)
    BY <1>2 DEF Apart, SameFrame, Used
  <2>2. \A f \in Used(x) : f # a => f \in Used(s1.v)
    BY <1>2, <1>9 DEF Apart, SameFrame, Used, Cell
  <2> QED
    BY <1>2, <1>9, <1>10, <1>11, <1>12, <2>1, <2>2
<1>17. w.nr \in [Spaces -> Nat] /\ w.nr[p] = 3 /\ \A q \in Spaces : q # p => w.nr[q] = u.nr[q]
  <2>1. u.nr \in [Spaces -> Nat]
    BY DEF Single
  <2>2. w.nr = [[u.nr EXCEPT ![p] = @ + 1] EXCEPT ![p] = @ + 1]
    BY <1>2, <1>9, <1>11, <1>13 DEF w
  <2> QED
    BY <2>1, <2>2
<1>18. Cells(w, a, b, c, h)
  BY <1>2, <1>3, <1>10, <1>12, <1>15, <1>16 DEF Cells, Cell, a
<1>19. Mapped4(u, w, p, b, c, h)
  BY <1>2, <1>15, <1>16, <1>17, <1>18 DEF Mapped4, a
<1> QED
  BY <1>2, <1>14, <1>16, <1>19

(* A table without entries is given back (remove_table_reference).         *)
LEMMA DropOne ==
    ASSUME NEW u, Single(u), NEW f, NEW t, Cell(u, f, 1, t), NEW s \in Spaces, u.nr[s] >= 1,
           NEW w, w = drop_low(u, s, f)
    PROVE  Apart(u, w, {f}) /\ w.len[f] = 0 /\ w.nr = [u.nr EXCEPT ![s] = @ - 1]
<1> DEFINE y == pfdb_dec_page_use_count(u, f)
           x == [y.nr EXCEPT ![s] = @ - 1]
           z == [y EXCEPT !.nr = x]
<1>1. f \in Frames /\ u.use[f] = 1 /\ u.nr \in [Spaces -> Nat] /\ IsRecord(u)
  BY ShapeIs DEF Cell, Single
<1>2. kassert(u, u.use[f] = 1) = u
  BY <1>1 DEF kassert
<1>3. w = z
  BY <1>2 DEF drop_low
<1>4. Apart(u, y, {f}) /\ y.nr = u.nr /\ y.len[f] = 0
  <2>1. u.use[f] >= 1
    BY <1>1
  <2> QED
    BY <1>1, <2>1, DecOne
<1>5. x \in [Spaces -> Nat] /\ x = [u.nr EXCEPT ![s] = @ - 1]
  BY <1>1, <1>4
<1> HIDE DEF y, x
<1>6. Single(y) /\ Shape(y) /\ SameBase(u, y) /\ \A g \in Frames : g # f => SameFrame(u, y, g)
  BY <1>4 DEF Apart, Single
<1>7. Alike(y, z) /\ z.nr = x
  <2>1. Alike(y, z)
    BY <1>6, AlikeIs
  <2>2. IsRecord(y)
    BY <1>6, ShapeIs
  <2>3. z.nr = x
    BY <2>2 DEF IsRecord
  <2> QED
    BY <2>1, <2>3
<1> HIDE DEF z
<1>8. Shape(z) /\ SameBase(y, z) /\ \A g \in Frames : SameFrame(y, z, g)
  BY <1>7 DEF Alike
<1>9. Single(z)
  BY <1>5, <1>6, <1>7, <1>8 DEF Single, SameFrame
<1>10. Apart(u, z, {f}) /\ z.len[f] = 0
  BY <1>1, <1>4, <1>6, <1>8, <1>9 DEF Apart, SameBase, SameFrame
<1> QED
  BY <1>3, <1>5, <1>7, <1>10

(* The entries of the tables of the stack.                                 *)
LEMMA StackEntries ==
    ASSUME NEW b, NEW c, NEW d
    PROVE  /\ TopTable(b)[EntryOf(StackPage, 2)] = TableEntry(b)
           /\ MidTable(c)[EntryOf(StackPage, 1)] = TableEntry(c)
           /\ LowTable(d)[EntryOf(StackPage, 0)] = StackLeaf(d)
           /\ [TopTable(b) EXCEPT ![EntryOf(StackPage, 2)] = Empty] = KernelTable
           /\ \A x : RV64_PTE_IS_VALID(TableEntry(x)) /\ ~ RV64_PTE_IS_LEAF(TableEntry(x)) /\ TableEntry(x).ppn = x
           /\ RV64_PTE_IS_VALID(StackLeaf(d)) /\ RV64_PTE_IS_LEAF(StackLeaf(d)) /\ StackLeaf(d).ppn = d
<1> DEFINE i == EntryOf(StackPage, 2)
<1>1. /\ \A l \in 0 .. 2 : EntryOf(StackPage, l) \in 0 .. Top - 1
      /\ NoTable \in TableType /\ KernelTable \in TableType /\ KernelTable[i] = Empty
  BY StackPageIs, EmptyIs
<1>2. EntryOf(StackPage, 0) \in 0 .. Top - 1 /\ EntryOf(StackPage, 1) \in 0 .. Top - 1 /\ i \in 0 .. Top - 1
  BY <1>1
<1>3. /\ TopTable(b)[i] = TableEntry(b)
      /\ MidTable(c)[EntryOf(StackPage, 1)] = TableEntry(c)
      /\ LowTable(d)[EntryOf(StackPage, 0)] = StackLeaf(d)
  BY <1>1, <1>2 DEF TableType, TopTable, MidTable, LowTable
<1>4. [TopTable(b) EXCEPT ![i] = Empty] = KernelTable
  <2> DEFINE e == TableEntry(b)
  <2>1. TopTable(b) = [KernelTable EXCEPT ![i] = e]
    BY DEF TopTable
  <2>2. KernelTable = [j \in 0 .. Top - 1 |-> KernelTable[j]]
    BY <1>1 DEF TableType
  <2> HIDE DEF e, i
  <2> QED
    BY <1>1, <2>1, <2>2
<1>5. /\ \A x : RV64_PTE_IS_VALID(TableEntry(x)) /\ ~ RV64_PTE_IS_LEAF(TableEntry(x)) /\ TableEntry(x).ppn = x
      /\ RV64_PTE_IS_VALID(StackLeaf(d)) /\ RV64_PTE_IS_LEAF(StackLeaf(d)) /\ StackLeaf(d).ppn = d
  BY DEF TableEntry, StackLeaf, RV64_PTE_IS_VALID, RV64_PTE_IS_LEAF
<1> QED
  BY <1>3, <1>4, <1>5

(* The stack is found by its address.                                      *)
LEMMA StackFound ==
    ASSUME NEW u, NEW p, NEW a, a = u.base[p], NEW b, NEW c, NEW d, Cells(u, a, b, c, d),
           NEW r, r = hal_pgtbl_extract(u, p, StackPage)
    PROVE  r.rc = "OK" /\ r.paddr = d
<1> DEFINE sp == StackPage
           r0 == [rc |-> "EAGAIN", next |-> a]
           r1 == walk_on(u, r0, 2, sp)
           r2 == walk_on(u, r1, 1, sp)
           r3 == walk_on(u, r2, 0, sp)
<1>1. r = r3
  BY DEF hal_pgtbl_extract
<1>2. u.pte[a] = TopTable(b) /\ u.pte[b] = MidTable(c) /\ u.pte[c] = LowTable(d)
  BY DEF Cells, Cell
<1>3. /\ u.pte[a][rv64_pgtbl_calc_index_val(sp, 2)] = TableEntry(b)
      /\ u.pte[b][rv64_pgtbl_calc_index_val(sp, 1)] = TableEntry(c)
      /\ u.pte[c][rv64_pgtbl_calc_index_val(sp, 0)] = StackLeaf(d)
  BY <1>2, StackEntries DEF EntryOf
<1> HIDE DEF sp
<1>4. r1 = [rc |-> "EAGAIN", next |-> b]
  BY <1>3, StackEntries DEF walk_on, walk_pgtbl
<1> HIDE DEF r1
<1>5. r2 = [rc |-> "EAGAIN", next |-> c]
  BY <1>3, <1>4, StackEntries DEF walk_on, walk_pgtbl
<1> HIDE DEF r2
<1>6. r3.rc = "OK" /\ r3.paddr = d
  <2> DEFINE e == u.pte[c][rv64_pgtbl_calc_index_val(sp, 0)]
  <2>1. r3 = walk_pgtbl(u, c, 0, sp)
    BY <1>5 DEF walk_on
  <2>2. RV64_PTE_IS_VALID(e) /\ RV64_PTE_IS_LEAF(e) /\ e.ppn = d
    BY <1>3, StackEntries
  <2>3. walk_pgtbl(u, c, 0, sp) = [rc |-> "OK", paddr |-> e.ppn, pgsize |-> rv64_pgtbl_calc_pagesize(0),
                                   attr |-> pte_to_vmprot_and_vmflags(e)]
    BY <2>2 DEF walk_pgtbl
  <2> QED
    BY <2>1, <2>2, <2>3
<1> QED
  BY <1>1, <1>6

(* A step of the walk down to an entry that is there.                      *)
LEMMA DownIs ==
    ASSUME NEW u, NEW va, NEW lvl, NEW q, q = [pgtbl |-> q.pgtbl, cur |-> q.cur, lvl |-> q.lvl, rc |-> "go"],
           RV64_PTE_IS_VALID(u.pte[q.cur][rv64_pgtbl_calc_index_val(va, lvl)]),
           lvl # 0 => ~ RV64_PTE_IS_LEAF(u.pte[q.cur][rv64_pgtbl_calc_index_val(va, lvl)])
    PROVE  /\ lvl = 0 => Down(u, va, q, lvl) =
                 [pgtbl |-> [q.pgtbl EXCEPT ![lvl] = q.cur], cur |-> q.cur, lvl |-> lvl, rc |-> "found"]
           /\ lvl # 0 => Down(u, va, q, lvl) =
                 [pgtbl |-> [q.pgtbl EXCEPT ![lvl] = q.cur],
                  cur |-> u.pte[q.cur][rv64_pgtbl_calc_index_val(va, lvl)].ppn, lvl |-> lvl, rc |-> "go"]
<1> DEFINE n  == q.pgtbl
           x  == q.cur
           l  == q.lvl
           e  == u.pte[x][rv64_pgtbl_calc_index_val(va, lvl)]
           m  == [n EXCEPT ![lvl] = x]
           q1 == [q EXCEPT !.pgtbl = m]
           q2 == [q1 EXCEPT !.lvl = lvl]
           end == lvl = 0 \/ RV64_PTE_IS_LEAF(e)
<1>2. [q EXCEPT !.pgtbl[lvl] = q.cur, !.lvl = lvl] = q2
  OBVIOUS
<1>3. Down(u, va, q, lvl) = IF end THEN [q2 EXCEPT !.rc = "found"] ELSE [q2 EXCEPT !.cur = e.ppn]
  <2>1. Down(u, va, q, lvl) = IF q.rc # "go" THEN q
                              ELSE IF ~ RV64_PTE_IS_VALID(e) THEN [q EXCEPT !.rc = "bad"]
                              ELSE IF end THEN [q2 EXCEPT !.rc = "found"] ELSE [q2 EXCEPT !.cur = e.ppn]
    BY <1>2 DEF Down
  <2>2. q.rc = "go" /\ RV64_PTE_IS_VALID(e)
    OBVIOUS
  <2> HIDE DEF end, q2, e
  <2> QED
    BY <2>1, <2>2
<1>0. q = [pgtbl |-> n, cur |-> x, lvl |-> l, rc |-> "go"] /\ (lvl # 0 => ~ RV64_PTE_IS_LEAF(e))
  OBVIOUS
<1> HIDE DEF m, n, x, l, e
<1>4. q1 = [pgtbl |-> m, cur |-> x, lvl |-> l, rc |-> "go"]
  BY <1>0
<1> HIDE DEF q1
<1>5. q2 = [pgtbl |-> m, cur |-> x, lvl |-> lvl, rc |-> "go"]
  BY <1>4
<1> HIDE DEF q2
<1>6. /\ [q2 EXCEPT !.rc = "found"] = [pgtbl |-> m, cur |-> x, lvl |-> lvl, rc |-> "found"]
      /\ [q2 EXCEPT !.cur = e.ppn] = [pgtbl |-> m, cur |-> e.ppn, lvl |-> lvl, rc |-> "go"]
  BY <1>5
<1>7. /\ lvl = 0 => Down(u, va, q, lvl) = [pgtbl |-> m, cur |-> x, lvl |-> lvl, rc |-> "found"]
      /\ lvl # 0 => Down(u, va, q, lvl) = [pgtbl |-> m, cur |-> e.ppn, lvl |-> lvl, rc |-> "go"]
  BY <1>0, <1>3, <1>6
<1> QED
  BY <1>7 DEF m, n, x, l, e

(* The tables above the stack, as remove_table_reference finds them.       *)
LEMMA StackPath ==
    ASSUME NEW u, NEW p, NEW a, a = u.base[p], NEW b, NEW c, NEW d,
           u.pte[a] = TopTable(b), u.pte[b] = MidTable(c), u.pte[c] = LowTable(d),
           NEW q, q = TablePath(u, p, StackPage)
    PROVE  q.rc = "found" /\ q.lvl = 0 /\ q.pgtbl[0] = c /\ q.pgtbl[1] = b /\ q.pgtbl[2] = a
<1> DEFINE sp == StackPage
           n  == [l \in 0 .. 2 |-> NoFrame]
           n2 == [n EXCEPT ![2] = a]
           n1 == [n2 EXCEPT ![1] = b]
           n0 == [n1 EXCEPT ![0] = c]
           q0 == [pgtbl |-> n, cur |-> a, lvl |-> 2, rc |-> "go"]
           q1 == Down(u, sp, q0, 2)
           q2 == Down(u, sp, q1, 1)
           q3 == Down(u, sp, q2, 0)
<1>1. q = q3
  BY DEF TablePath
<1>2. /\ u.pte[a][rv64_pgtbl_calc_index_val(sp, 2)] = TableEntry(b)
      /\ u.pte[b][rv64_pgtbl_calc_index_val(sp, 1)] = TableEntry(c)
      /\ u.pte[c][rv64_pgtbl_calc_index_val(sp, 0)] = StackLeaf(d)
  BY StackEntries DEF EntryOf
<1>3. n0[0] = c /\ n0[1] = b /\ n0[2] = a
  OBVIOUS
<1> HIDE DEF sp
<1>4. q1 = [pgtbl |-> n2, cur |-> b, lvl |-> 2, rc |-> "go"]
  <2>1. q0.pgtbl = n /\ q0.cur = a /\ q0.lvl = 2 /\ q0.rc = "go"
    OBVIOUS
  <2> HIDE DEF n
  <2>2. q0 = [pgtbl |-> q0.pgtbl, cur |-> q0.cur, lvl |-> q0.lvl, rc |-> "go"]
    OBVIOUS
  <2> HIDE DEF q0
  <2>3. q1 = [pgtbl |-> [q0.pgtbl EXCEPT ![2] = q0.cur],
              cur |-> u.pte[q0.cur][rv64_pgtbl_calc_index_val(sp, 2)].ppn, lvl |-> 2, rc |-> "go"]
    BY <1>2, <2>1, <2>2, StackEntries, DownIs
  <2> QED
    BY <1>2, <2>1, <2>3, StackEntries
<1> HIDE DEF q1
<1>5. q2 = [pgtbl |-> n1, cur |-> c, lvl |-> 1, rc |-> "go"]
  <2> HIDE DEF n2
  <2>1. q1.pgtbl = n2 /\ q1.cur = b /\ q1.lvl = 2 /\ q1.rc = "go"
    BY <1>4
  <2>2. q1 = [pgtbl |-> q1.pgtbl, cur |-> q1.cur, lvl |-> q1.lvl, rc |-> "go"]
    BY <1>4
  <2>3. q2 = [pgtbl |-> [q1.pgtbl EXCEPT ![1] = q1.cur],
              cur |-> u.pte[q1.cur][rv64_pgtbl_calc_index_val(sp, 1)].ppn, lvl |-> 1, rc |-> "go"]
    BY <1>2, <2>1, <2>2, StackEntries, DownIs
  <2> QED
    BY <1>2, <2>1, <2>3, StackEntries
<1> HIDE DEF q2
<1>6. q3 = [pgtbl |-> n0, cur |-> c, lvl |-> 0, rc |-> "found"]
  <2> HIDE DEF n1
  <2>1. q2.pgtbl = n1 /\ q2.cur = c /\ q2.lvl = 1 /\ q2.rc = "go"
    BY <1>5
  <2>2. q2 = [pgtbl |-> q2.pgtbl, cur |-> q2.cur, lvl |-> q2.lvl, rc |-> "go"]
    BY <1>5
  <2>3. q3 = [pgtbl |-> [q2.pgtbl EXCEPT ![0] = q2.cur], cur |-> q2.cur, lvl |-> 0, rc |-> "found"]
    BY <1>2, <2>1, <2>2, StackEntries, DownIs
  <2> QED
    BY <2>1, <2>3
<1> HIDE DEF q3, n0
<1> QED
  BY <1>1, <1>3, <1>6

\* The entry i of the table x has been taken out of its contents t.
Cut(u, w, x, i, t) == Apart(u, w, {x}) /\ w.nr = u.nr /\ Cell(w, x, 1, [t EXCEPT ![i] = Empty])

(* A level on the way up whose table has no other entry.                   *)
UpFrom(p, s, va, u, l) == Up(p, s, va, [v |-> u, lvl |-> l, stop |-> FALSE])
Raised(p, s, w, l, low) == [v |-> IF l = p.lvl THEN w ELSE drop_low(w, s, low), lvl |-> l + 1, stop |-> FALSE]
LEMMA UpOne ==
    ASSUME NEW p, NEW s, NEW va, NEW u, Single(u), NEW l \in 0 .. 2, NEW x, x = p.pgtbl[l],
           NEW i \in 0 .. Top - 1, i = rv64_pgtbl_calc_index_val(va, l),
           NEW t, Cell(u, x, 2, t), NEW w, w = Unlink(u, x, i)
    PROVE  Cut(u, w, x, i, t) /\ UpFrom(p, s, va, u, l) = Raised(p, s, w, l, t[i].ppn)
<1> DEFINE st == [v |-> u, lvl |-> l, stop |-> FALSE]
<1>1. Apart(u, w, {x}) /\ Cell(w, x, 1, [t EXCEPT ![i] = Empty])
  BY UnlinkOne
<1>2. w.nr = u.nr
  <2>1. IsRecord(u)
    BY ShapeIs DEF Single
  <2> QED
    BY <2>1, NrStays
<1>3. ~ (w.use[x] > 1) /\ u.pte[x] = t
  BY <1>1 DEF Cell
<1>4. Up(p, s, va, st) = Raised(p, s, w, l, t[i].ppn)
  <2>1. ~ (l > 2)
    OBVIOUS
  <2>2. Up(p, s, va, st) =
          IF l > 2 THEN st
          ELSE IF w.use[x] > 1 THEN [v |-> w, lvl |-> l, stop |-> TRUE]
          ELSE [v |-> IF l = p.lvl THEN w ELSE drop_low(w, s, u.pte[x][i].ppn), lvl |-> l + 1, stop |-> FALSE]
    BY DEF Up
  <2> HIDE DEF st
  <2> QED
    BY <1>3, <2>1, <2>2 DEF Raised
<1>5. Cut(u, w, x, i, t)
  BY <1>1, <1>2 DEF Cut
<1> QED
  BY <1>4, <1>5 DEF UpFrom

\* The stack of p has been unmapped.
Unmapped3(u, w, p, b, c, d) ==
    /\ Apart(u, w, {u.base[p], b, c, d}) /\ Cell(w, u.base[p], 1, KernelTable)
    /\ w.len[b] = 0 /\ w.len[c] = 0 /\ w.len[d] = 0
    /\ w.nr \in [Spaces -> Nat] /\ w.nr[p] = 1 /\ \A q \in Spaces : q # p => w.nr[q] = u.nr[q]

(* release_page of the stack: its page, and the two lower tables.          *)
LEMMA StackRemoved ==
    ASSUME NEW u, Single(u), NEW p \in Spaces, NEW b, NEW c, NEW d, Cells(u, u.base[p], b, c, d), u.nr[p] = 3,
           NEW w, w = hal_pgtbl_remove(u, p, StackPage)
    PROVE  Unmapped3(u, w, p, b, c, d)
<1> DEFINE a  == u.base[p]
           sp == StackPage
           w1 == pfdb_dec_page_use_count(u, d)
           q  == TablePath(w1, p, sp)
           i0 == rv64_pgtbl_calc_index_val(sp, 0)
           i1 == rv64_pgtbl_calc_index_val(sp, 1)
           i2 == rv64_pgtbl_calc_index_val(sp, 2)
           s0 == [v |-> w1, lvl |-> q.lvl, stop |-> FALSE]
           s1 == Up(q, p, sp, s0)
           s2 == Up(q, p, sp, s1)
           s3 == Up(q, p, sp, s2)
           x1 == Unlink(w1, c, i0)
           x2 == Unlink(x1, b, i1)
           y2 == drop_low(x2, p, c)
           x3 == Unlink(y2, a, i2)
           y3 == drop_low(x3, p, b)
<1>1. w = remove_table_reference(w1, p, sp)
  <2>1. hal_pgtbl_extract(u, p, sp).rc = "OK" /\ hal_pgtbl_extract(u, p, sp).paddr = d
    BY StackFound
  <2> QED
    BY <2>1 DEF hal_pgtbl_remove
<1>2. w = IF q.rc = "bad" THEN [w1 EXCEPT !.panic = TRUE] ELSE s3.v
  BY <1>1 DEF remove_table_reference
<1>3. /\ Cell(u, a, 2, TopTable(b)) /\ Cell(u, b, 2, MidTable(c)) /\ Cell(u, c, 2, LowTable(d))
      /\ d \in Frames /\ u.use[d] = 1 /\ u.len[d] = 1
      /\ a # b /\ a # c /\ a # d /\ b # c /\ b # d /\ c # d
  BY DEF Cells
<1>4. i0 \in 0 .. Top - 1 /\ i1 \in 0 .. Top - 1 /\ i2 \in 0 .. Top - 1
  BY StackPageIs DEF EntryOf
<1>5. /\ MidTable(c)[i1].ppn = c /\ TopTable(b)[i2].ppn = b /\ [TopTable(b) EXCEPT ![i2] = Empty] = KernelTable
  BY StackEntries DEF EntryOf
<1>6. /\ Apart(u, w1, {d}) /\ w1.nr = u.nr /\ w1.len[d] = 0
      /\ Cell(w1, a, 2, TopTable(b)) /\ Cell(w1, b, 2, MidTable(c)) /\ Cell(w1, c, 2, LowTable(d))
  <2>1. Apart(u, w1, {d}) /\ w1.nr = u.nr /\ w1.len[d] = 0
    <3>1. u.use[d] >= 1
      BY <1>3
    <3> QED
      BY <1>3, <3>1, DecOne
  <2> QED
    BY <1>3, <2>1, CellKeeps
<1> HIDE DEF w1
<1>7. q.rc = "found" /\ q.lvl = 0 /\ q.pgtbl[0] = c /\ q.pgtbl[1] = b /\ q.pgtbl[2] = a
  <2>1. w1.base[p] = a
    BY <1>6 DEF Apart, SameBase
  <2>2. w1.pte[a] = TopTable(b) /\ w1.pte[b] = MidTable(c) /\ w1.pte[c] = LowTable(d)
    BY <1>6 DEF Cell
  <2> HIDE DEF a
  <2> QED
    BY <2>1, <2>2, StackPath
<1> HIDE DEF sp, q, a, i0, i1, i2
<1>8. w = s3.v
  BY <1>2, <1>7
<1>9. s0 = [v |-> w1, lvl |-> 0, stop |-> FALSE] /\ Single(w1)
  BY <1>6, <1>7 DEF Apart
<1> HIDE DEF s0
<1>10. /\ Apart(w1, x1, {c}) /\ x1.nr = w1.nr /\ Cell(x1, c, 1, [LowTable(d) EXCEPT ![i0] = Empty])
       /\ s1 = [v |-> x1, lvl |-> 1, stop |-> FALSE]
  <2>1. c = q.pgtbl[0] /\ i0 = rv64_pgtbl_calc_index_val(sp, 0) /\ 0 \in 0 .. 2
    BY <1>7 DEF i0
  <2>2. Single(w1) /\ Cell(w1, c, 2, LowTable(d)) /\ x1 = Unlink(w1, c, i0)
    BY <1>6, <1>9
  <2> HIDE DEF x1
  <2>3. Cut(w1, x1, c, i0, LowTable(d))
    BY <1>4, <2>1, <2>2, UpOne
  <2>4. UpFrom(q, p, sp, w1, 0) = Raised(q, p, x1, 0, LowTable(d)[i0].ppn)
    BY <1>4, <2>1, <2>2, UpOne
  <2> QED
    BY <1>7, <1>9, <2>3, <2>4 DEF Cut, UpFrom, Raised
<1>11. Single(x1) /\ Cell(x1, a, 2, TopTable(b)) /\ Cell(x1, b, 2, MidTable(c))
  <2>1. a # c /\ b # c
    BY <1>3 DEF a
  <2>2. Single(x1)
    BY <1>10 DEF Apart
  <2> QED
    BY <1>6, <1>10, <2>1, <2>2, CellKeeps
<1> HIDE DEF s1, x1
<1>12. /\ Apart(x1, x2, {b}) /\ x2.nr = x1.nr /\ Cell(x2, b, 1, [MidTable(c) EXCEPT ![i1] = Empty])
       /\ s2 = [v |-> y2, lvl |-> 2, stop |-> FALSE]
  <2>1. b = q.pgtbl[1] /\ i1 = rv64_pgtbl_calc_index_val(sp, 1) /\ 1 \in 0 .. 2
    BY <1>7 DEF i1
  <2>2. Single(x1) /\ Cell(x1, b, 2, MidTable(c)) /\ x2 = Unlink(x1, b, i1)
    BY <1>11
  <2> HIDE DEF x2, y2
  <2>3. Cut(x1, x2, b, i1, MidTable(c))
    BY <1>4, <2>1, <2>2, UpOne
  <2>4. UpFrom(q, p, sp, x1, 1) = Raised(q, p, x2, 1, MidTable(c)[i1].ppn)
    BY <1>4, <2>1, <2>2, UpOne
  <2> QED
    BY <1>5, <1>7, <1>10, <2>3, <2>4 DEF Cut, UpFrom, Raised, y2
<1>13. Single(x2) /\ Cell(x2, a, 2, TopTable(b)) /\ Cell(x2, c, 1, [LowTable(d) EXCEPT ![i0] = Empty]) /\ x2.nr = u.nr
  <2>1. a # b /\ c # b
    BY <1>3 DEF a
  <2>2. Single(x2)
    BY <1>12 DEF Apart
  <2> QED
    BY <1>6, <1>10, <1>11, <1>12, <2>1, <2>2, CellKeeps
<1> HIDE DEF s2, x2
<1>14. Apart(x2, y2, {c}) /\ y2.len[c] = 0 /\ y2.nr = [u.nr EXCEPT ![p] = @ - 1]
  <2>1. x2.nr[p] >= 1
    BY <1>13
  <2> QED
    BY <1>13, <2>1, DropOne
<1>15. Single(y2) /\ Cell(y2, a, 2, TopTable(b)) /\ Cell(y2, b, 1, [MidTable(c) EXCEPT ![i1] = Empty])
  <2>1. a # c /\ b # c
    BY <1>3 DEF a
  <2>2. Single(y2)
    BY <1>14 DEF Apart
  <2> QED
    BY <1>12, <1>13, <1>14, <2>1, <2>2, CellKeeps
<1> HIDE DEF y2
<1>16. /\ Apart(y2, x3, {a}) /\ x3.nr = y2.nr /\ Cell(x3, a, 1, [TopTable(b) EXCEPT ![i2] = Empty])
       /\ s3 = [v |-> y3, lvl |-> 3, stop |-> FALSE]
  <2>1. a = q.pgtbl[2] /\ i2 = rv64_pgtbl_calc_index_val(sp, 2) /\ 2 \in 0 .. 2
    BY <1>7 DEF i2
  <2>2. Single(y2) /\ Cell(y2, a, 2, TopTable(b)) /\ x3 = Unlink(y2, a, i2)
    BY <1>15
  <2> HIDE DEF x3, y3
  <2>3. Cut(y2, x3, a, i2, TopTable(b))
    BY <1>4, <2>1, <2>2, UpOne
  <2>4. UpFrom(q, p, sp, y2, 2) = Raised(q, p, x3, 2, TopTable(b)[i2].ppn)
    BY <1>4, <2>1, <2>2, UpOne
  <2> QED
    BY <1>5, <1>7, <1>12, <2>3, <2>4 DEF Cut, UpFrom, Raised, y3
<1>17. w = y3 /\ Cell(x3, a, 1, KernelTable)
  <2> HIDE DEF s3, y3, x3
  <2> QED
    BY <1>5, <1>8, <1>16
<1>18. Single(x3) /\ Cell(x3, b, 1, [MidTable(c) EXCEPT ![i1] = Empty]) /\ x3.nr = [u.nr EXCEPT ![p] = @ - 1]
  <2>1. b # a
    BY <1>3 DEF a
  <2>2. Single(x3)
    BY <1>16 DEF Apart
  <2> QED
    BY <1>14, <1>15, <1>16, <2>1, <2>2, CellKeeps
<1> HIDE DEF s3, x3
<1>19. Apart(x3, y3, {b}) /\ y3.len[b] = 0 /\ y3.nr = [x3.nr EXCEPT ![p] = @ - 1] /\ x3.nr[p] = 2
  <2>1. u.nr \in [Spaces -> Nat]
    BY DEF Single
  <2>2. x3.nr[p] = 2
    BY <1>18, <2>1
  <2>3. x3.nr[p] >= 1
    BY <2>2
  <2> QED
    BY <1>18, <2>2, <2>3, DropOne
<1> HIDE DEF y3
<1>20. Apart(u, w, {a, b, c, d})
  <2>1. Apart(u, x1, {d} \cup {c})
    BY <1>6, <1>10, ApartTwo
  <2>2. Apart(u, x2, ({d} \cup {c}) \cup {b})
    BY <1>12, <2>1, ApartTwo
  <2>3. Apart(u, y2, (({d} \cup {c}) \cup {b}) \cup {c})
    BY <1>14, <2>2, ApartTwo
  <2>4. Apart(u, x3, ((({d} \cup {c}) \cup {b}) \cup {c}) \cup {a})
    BY <1>16, <2>3, ApartTwo
  <2>5. Apart(u, y3, (((({d} \cup {c}) \cup {b}) \cup {c}) \cup {a}) \cup {b})
    BY <1>19, <2>4, ApartTwo
  <2>6. (((({d} \cup {c}) \cup {b}) \cup {c}) \cup {a}) \cup {b} = {a, b, c, d}
    OBVIOUS
  <2> QED
    BY <1>17, <2>5, <2>6
<1>21. Cell(w, a, 1, KernelTable) /\ w.len[b] = 0 /\ w.len[c] = 0 /\ w.len[d] = 0
  <2>1. a # b /\ b \in Frames /\ c \in Frames /\ d \in Frames /\ b # c /\ b # d /\ c # d /\ a # d /\ a # c
    BY <1>3 DEF a, Cell
  <2>2. Cell(w, a, 1, KernelTable) /\ w.len[b] = 0
    BY <1>17, <1>19, <2>1, CellKeeps
  <2>3. w.len[c] = y2.len[c]
    BY <1>16, <1>17, <1>19, <2>1 DEF Apart, SameFrame
  <2>4. w.len[d] = w1.len[d]
    BY <1>10, <1>12, <1>14, <1>16, <1>17, <1>19, <2>1 DEF Apart, SameFrame
  <2> QED
    BY <1>6, <1>14, <2>2, <2>3, <2>4
<1>22. w.nr \in [Spaces -> Nat] /\ w.nr[p] = 1 /\ \A z \in Spaces : z # p => w.nr[z] = u.nr[z]
  <2>1. u.nr \in [Spaces -> Nat]
    BY DEF Single
  <2> QED
    BY <1>17, <1>18, <1>19, <2>1
<1> QED
  BY <1>20, <1>21, <1>22 DEF Unmapped3, a

(* The segments of a process: only that of the stack has a page.           *)
LEMMA SegmentReleased ==
    ASSUME NEW u, NEW p, NEW i \in Int
    PROVE  release_process_segment(u, p, i) = IF i = PROC_STACK_SEG THEN release_page(u, p, StackPage) ELSE u
<1> DEFINE seg == Segment(i)
           Next1(x, n) == release_page(x, p, seg[n])
           Is(f, k) == f = [n \in 0 .. k |-> IF n = 0 THEN u ELSE Next1(f[n - 1], n)]
           g(k) == CHOOSE f : Is(f, k)
<1>1. release_process_segment(u, p, i) = g(Len(seg))[Len(seg)]
  BY DEF release_process_segment
<1>2. CASE i # PROC_STACK_SEG
  <2>1. Len(seg) = 0
    BY <1>2 DEF Segment
  <2> HIDE DEF Next1, seg
  <2>2. \E f : Is(f, 0)
    <3> DEFINE f == [n \in 0 .. 0 |-> u]
    <3>1. \A n \in 0 .. 0 : u = IF n = 0 THEN u ELSE Next1(f[n - 1], n)
      OBVIOUS
    <3>2. f = [n \in 0 .. 0 |-> IF n = 0 THEN u ELSE Next1(f[n - 1], n)]
      BY <3>1
    <3> HIDE DEF f
    <3> QED
      BY <3>2
  <2>3. Is(g(0), 0)
    <3> HIDE DEF Is
    <3> QED
      BY <2>2
  <2> HIDE DEF g
  <2>4. g(0)[0] = u
    BY <2>3
  <2> QED
    BY <1>1, <1>2, <2>1, <2>4
<1>3. CASE i = PROC_STACK_SEG
  <2>1. Len(seg) = 1 /\ seg[1] = StackPage
    BY <1>3 DEF Segment
  <2>2. Next1(u, 1) = release_page(u, p, StackPage)
    BY <2>1
  <2> HIDE DEF Next1, seg
  <2>3. \E f : Is(f, 1)
    <3> DEFINE f == [n \in 0 .. 1 |-> IF n = 0 THEN u ELSE Next1(u, 1)]
    <3>1. f[0] = u
      OBVIOUS
    <3>2. \A n \in 0 .. 1 : n = 0 \/ (n = 1 /\ n - 1 = 0)
      OBVIOUS
    <3>3. \A n \in 0 .. 1 : (IF n = 0 THEN u ELSE Next1(u, 1)) = IF n = 0 THEN u ELSE Next1(f[n - 1], n)
      BY <3>1, <3>2
    <3>4. f = [n \in 0 .. 1 |-> IF n = 0 THEN u ELSE Next1(f[n - 1], n)]
      BY <3>3
    <3> HIDE DEF f
    <3> QED
      BY <3>4
  <2>4. Is(g(1), 1)
    <3> HIDE DEF Is
    <3> QED
      BY <2>3
  <2> HIDE DEF g
  <2>5. g(1)[0] = u /\ g(1)[1] = Next1(g(1)[0], 1)
    BY <2>4
  <2> QED
    BY <1>1, <1>3, <2>1, <2>2, <2>5
<1> QED
  BY <1>2, <1>3

LEMMA ProcessReleased ==
    ASSUME NEW u, NEW p
    PROVE  free_user_process(u, p) = pgtbl_free_user_pgtbl(release_page(u, p, StackPage), p)
<1> DEFINE Next1(x, n) == release_process_segment(x, p, n - 1)
           Is(f) == f = [n \in 0 .. PROC_SEG_NR |-> IF n = 0 THEN u ELSE Next1(f[n - 1], n)]
           g == CHOOSE f : Is(f)
           r == release_page(u, p, StackPage)
<1>1. free_user_process(u, p) = pgtbl_free_user_pgtbl(g[PROC_SEG_NR], p)
  BY DEF free_user_process
<1>2. \A x : Next1(x, 1) = x /\ Next1(x, 2) = x /\ Next1(x, 3) = x /\ Next1(x, 4) = x
             /\ Next1(x, 5) = release_page(x, p, StackPage)
  BY SegmentReleased DEF PROC_STACK_SEG
<1> HIDE DEF Next1, r
<1>3. PROC_SEG_NR = 5
  BY DEF PROC_SEG_NR
<1>4. \E f : Is(f)
  <2> DEFINE f == [n \in 0 .. 5 |-> IF n = 5 THEN r ELSE u]
  <2>1. f[0] = u /\ f[1] = u /\ f[2] = u /\ f[3] = u /\ f[4] = u
    OBVIOUS
  <2>2. \A n \in 0 .. 5 : n = 0 \/ n = 1 \/ n = 2 \/ n = 3 \/ n = 4 \/ n = 5
    OBVIOUS
  <2>3. \A n \in 0 .. 5 : (IF n = 5 THEN r ELSE u) = IF n = 0 THEN u ELSE Next1(f[n - 1], n)
    <3> HIDE DEF f
    <3>1. f[1 - 1] = u /\ f[2 - 1] = u /\ f[3 - 1] = u /\ f[4 - 1] = u /\ f[5 - 1] = u
      BY <2>1
    <3> QED
      BY <1>2, <2>2, <3>1 DEF r
  <2>4. f = [n \in 0 .. 5 |-> IF n = 0 THEN u ELSE Next1(f[n - 1], n)]
    BY <2>3
  <2> HIDE DEF f
  <2> QED
    BY <1>3, <2>4
<1>5. Is(g)
  <2> HIDE DEF Is
  <2> QED
    BY <1>4
<1> HIDE DEF g
<1>6. /\ g[0] = u /\ g[1] = Next1(g[0], 1) /\ g[2] = Next1(g[1], 2) /\ g[3] = Next1(g[2], 3)
      /\ g[4] = Next1(g[3], 4) /\ g[5] = Next1(g[4], 5)
  <2>1. \A n \in 0 .. 5 : g[n] = IF n = 0 THEN u ELSE Next1(g[n - 1], n)
    BY <1>3, <1>5
  <2> HIDE DEF Is
  <2>2. g[0] = u
    BY <2>1
  <2>3. g[1] = Next1(g[1 - 1], 1) /\ g[2] = Next1(g[2 - 1], 2) /\ g[3] = Next1(g[3 - 1], 3)
        /\ g[4] = Next1(g[4 - 1], 4) /\ g[5] = Next1(g[5 - 1], 5)
    BY <2>1
  <2> QED
    BY <2>2, <2>3
<1>7. g[5] = r
  BY <1>2, <1>6 DEF r
<1> QED
  BY <1>1, <1>3, <1>7 DEF r

-----------------------------------------------------------------------------
(* What each action does to the pages.                                     *)

\* The spaces P and the frames S have changed and no others.
Changed(u, w, P, S) ==
    /\ Single(w) /\ w.panic = u.panic
    /\ \A q \in Spaces \ P : w.base[q] = u.base[q] /\ w.nr[q] = u.nr[q]
    /\ \A g \in Frames \ S : SameFrame(u, w, g)

(* pgtbl_alloc_user_pgtbl: the kernel stops, or there is a base table.     *)
LEMMA SpaceBorn ==
    ASSUME NEW u, Single(u), ~ u.panic, NEW p \in Spaces, Without0(u, p), NEW w, w = pgtbl_alloc_user_pgtbl(u, p), ~ w.panic
    PROVE  \E f \in Frames \ Used(u) :
             Changed(u, w, {p}, {f}) /\ w.base[p] = f /\ Cell(w, f, 1, KernelTable) /\ w.nr[p] = 1
<1> DEFINE a == pgtbl_alloc_pgtbl_page(u, p)
           f == a.frame
           x == [a.v EXCEPT !.base[p] = f]
<1>1. w = IF FreeClusters(u, 1) = {} THEN [u EXCEPT !.panic = TRUE] ELSE [x EXCEPT !.pte[x.base[p]] = KernelTable]
  BY DEF pgtbl_alloc_user_pgtbl, hal_copy_kernel_pgtbl
<1>2. FreeClusters(u, 1) # {}
  <2> SUFFICES ASSUME FreeClusters(u, 1) = {} PROVE FALSE
    OBVIOUS
  <2>1. w = [u EXCEPT !.panic = TRUE] /\ IsRecord(u)
    BY <1>1, ShapeIs DEF Single
  <2>2. w.panic = TRUE
    BY <2>1 DEF IsRecord
  <2> QED
    BY <2>2
<1>3. f \in Frames \ Used(u) /\ Apart(u, a.v, {f}) /\ Cell(a.v, f, 1, NoTable) /\ a.v.nr = [u.nr EXCEPT ![p] = @ + 1]
  BY <1>2, TakeTableOne
<1> DEFINE y == a.v
<1>4. y = a.v
  OBVIOUS
<1> HIDE DEF f
<1>5. Rebased(y, x, p, f)
  <2>1. IsRecord(y)
    BY <1>3, ShapeIs DEF Apart, Single
  <2> QED
    BY <2>1 DEF Rebased, IsRecord
<1>6. x.nr = y.nr
  <2>1. IsRecord(y)
    BY <1>3, ShapeIs DEF Apart, Single
  <2> QED
    BY <2>1 DEF IsRecord
<1> HIDE DEF y, a, x
<1>7. /\ Shape(x) /\ (\A g \in Frames : SameFrame(y, x, g)) /\ x.panic = y.panic
      /\ x.base[p] = f /\ \A z \in Spaces : z # p => x.base[z] = y.base[z]
  <2>1. Shape(y) /\ f \in Frames \cup {NoFrame}
    BY <1>3, <1>4 DEF Apart, Single
  <2> QED
    BY <1>5, <2>1, RebasedIs
<1>8. KernelTable \in TableType
  BY StackPageIs
<1>9. Becomes(x, w, f, x.use[f], x.len[f], KernelTable) /\ w.nr = x.nr
  <2>1. w = [x EXCEPT !.pte[f] = KernelTable]
    BY <1>1, <1>2, <1>7
  <2>2. x.use = [x.use EXCEPT ![f] = x.use[f]] /\ x.len = [x.len EXCEPT ![f] = x.len[f]] /\ IsRecord(x)
    <3>1. f \in Frames /\ Shape(x)
      BY <1>3, <1>7
    <3>2. IsRecord(x)
      BY <3>1, ShapeIs
    <3> QED
      BY <3>1, <3>2, FieldTypes
  <2> QED
    BY <2>1, <2>2 DEF Becomes, IsRecord
<1>10. OnlyFrame(x, w, f) /\ w.use[f] = x.use[f] /\ w.len[f] = x.len[f] /\ w.pte[f] = KernelTable
  <2>1. x.use[f] \in Nat /\ x.len[f] \in Nat
    BY <1>3, <1>7, FieldTypes
  <2>2. f \in Frames /\ Shape(x) /\ Becomes(x, w, f, x.use[f], x.len[f], KernelTable)
    BY <1>3, <1>7, <1>9
  <2>3. Became(x, w, f, x.use[f], x.len[f], KernelTable)
    BY <1>8, <2>1, <2>2, SetIs
  <2> QED
    BY <2>3 DEF Became
<1>11. Single(w)
  <2>1. Shape(w) /\ \A g \in Frames : w.len[g] = y.len[g]
    BY <1>7, <1>10 DEF OnlyFrame, SameFrame
  <2>2. Single(y)
    BY <1>3, <1>4 DEF Apart
  <2> QED
    BY <1>6, <1>9, <2>1, <2>2 DEF Single
<1>12. w.nr = [u.nr EXCEPT ![p] = @ + 1] /\ u.nr \in [Spaces -> Nat] /\ u.nr[p] = 0
  BY <1>3, <1>4, <1>6, <1>9 DEF Single, Without0
<1>13. w.nr[p] = 1 /\ \A q \in Spaces \ {p} : w.nr[q] = u.nr[q]
  BY <1>12
<1>14. w.base[p] = f /\ w.panic = u.panic /\ \A q \in Spaces \ {p} : w.base[q] = u.base[q]
  BY <1>3, <1>4, <1>7, <1>10 DEF OnlyFrame, SameBase, Apart
<1>15. Cell(w, f, 1, KernelTable)
  BY <1>3, <1>4, <1>7, <1>10 DEF Cell, SameFrame
<1>16. \A g \in Frames \ {f} : SameFrame(u, w, g)
  BY <1>3, <1>4, <1>7, <1>10 DEF OnlyFrame, SameFrame, Apart
<1>17. Changed(u, w, {p}, {f})
  BY <1>11, <1>13, <1>14, <1>16 DEF Changed
<1> QED
  BY <1>3, <1>13, <1>14, <1>15, <1>17

(* pgtbl_free_user_pgtbl of a space whose base table is all it has.        *)
LEMMA SpaceGone ==
    ASSUME NEW u, Single(u), NEW p \in Spaces, NEW f, f = u.base[p], Cell(u, f, 1, KernelTable), u.nr[p] = 1,
           NEW w, w = pgtbl_free_user_pgtbl(u, p)
    PROVE  Changed(u, w, {p}, {f}) /\ Without0(w, p) /\ w.len[f] = 0
<1> DEFINE y == pfdb_dec_page_use_count(u, f)
           x == [y EXCEPT !.base[p] = NoFrame]
           m == [y.nr EXCEPT ![p] = 0]
           z == [x EXCEPT !.nr = m]
<1>1. Apart(u, y, {f}) /\ y.nr = u.nr /\ y.len[f] = 0 /\ Shape(y) /\ IsRecord(y)
  <2>1. f \in Frames /\ u.use[f] = 1 /\ u.use[f] >= 1
    BY DEF Cell
  <2>2. Apart(u, y, {f}) /\ y.nr = u.nr /\ y.len[f] = 0
    BY <2>1, DecOne
  <2> QED
    BY <2>2, ShapeIs DEF Apart, Single
<1>2. w = z
  <2>1. kassert(u, u.nr[p] = 1) = u
    BY DEF kassert
  <2>2. w = [y EXCEPT !.base[p] = NoFrame, !.nr[p] = 0]
    BY <2>1 DEF pgtbl_free_user_pgtbl
  <2> HIDE DEF y
  <2> QED
    BY <1>1, <2>2 DEF IsRecord
<1> HIDE DEF y, m
<1>3. Rebased(y, x, p, NoFrame)
  BY <1>1 DEF Rebased, IsRecord
<1> HIDE DEF x
<1>4. /\ Shape(x) /\ (\A g \in Frames : SameFrame(y, x, g)) /\ x.panic = y.panic
      /\ x.base[p] = NoFrame /\ \A q \in Spaces : q # p => x.base[q] = y.base[q]
  BY <1>1, <1>3, RebasedIs
<1>5. Alike(x, z) /\ z.nr = m
  <2>1. Alike(x, z)
    BY <1>4, AlikeIs
  <2>2. IsRecord(x)
    BY <1>4, ShapeIs
  <2> QED
    BY <2>1, <2>2 DEF IsRecord
<1> HIDE DEF z
<1>6. m \in [Spaces -> Nat] /\ m[p] = 0 /\ \A q \in Spaces \ {p} : m[q] = u.nr[q]
  <2>1. u.nr \in [Spaces -> Nat] /\ m = [u.nr EXCEPT ![p] = 0]
    BY <1>1 DEF Single, m
  <2> QED
    BY <2>1
<1>7. Shape(z) /\ SameBase(x, z) /\ \A g \in Frames : SameFrame(y, z, g)
  BY <1>4, <1>5 DEF Alike, SameFrame
<1>8. Single(z)
  BY <1>1, <1>5, <1>6, <1>7 DEF Single, Apart, SameFrame
<1>9. z.base[p] = NoFrame /\ z.panic = u.panic /\ \A q \in Spaces \ {p} : z.base[q] = u.base[q]
  BY <1>1, <1>4, <1>7 DEF SameBase, Apart
<1>10. \A g \in Frames \ {f} : SameFrame(u, z, g)
  BY <1>1, <1>7 DEF Apart, SameFrame
<1>11. z.len[f] = 0
  BY <1>1, <1>7 DEF SameFrame, Cell
<1> QED
  BY <1>2, <1>5, <1>6, <1>8, <1>9, <1>10, <1>11 DEF Changed, Without0

(* free_user_process of a process that is complete.                        *)
Emptied(w, a, b, c, d) == w.len[a] = 0 /\ w.len[b] = 0 /\ w.len[c] = 0 /\ w.len[d] = 0
LEMMA ProcessGone ==
    ASSUME NEW u, Single(u), NEW p \in Spaces, NEW b, NEW c, NEW d, Cells(u, u.base[p], b, c, d), u.nr[p] = 3,
           NEW w, w = free_user_process(u, p)
    PROVE  Changed(u, w, {p}, {u.base[p], b, c, d}) /\ Without0(w, p) /\ Emptied(w, u.base[p], b, c, d)
<1> DEFINE x == hal_pgtbl_remove(u, p, StackPage)
           a == u.base[p]
<1>1. w = pgtbl_free_user_pgtbl(x, p)
  <2>1. hal_pgtbl_extract(u, p, StackPage).rc = "OK"
    BY StackFound
  <2> QED
    BY <2>1, ProcessReleased DEF release_page
<1>2. Unmapped3(u, x, p, b, c, d)
  BY StackRemoved
<1> HIDE DEF x
<1>3. /\ Apart(u, x, {a, b, c, d}) /\ Cell(x, a, 1, KernelTable) /\ x.nr[p] = 1 /\ x.base = u.base /\ Single(x)
      /\ x.len[b] = 0 /\ x.len[c] = 0 /\ x.len[d] = 0 /\ \A q \in Spaces : q # p => x.nr[q] = u.nr[q]
  BY <1>2 DEF Unmapped3, Apart, SameBase
<1>4. Changed(x, w, {p}, {a}) /\ Without0(w, p) /\ w.len[a] = 0
  BY <1>1, <1>3, SpaceGone
<1>5. Changed(u, w, {p}, {a, b, c, d})
  BY <1>3, <1>4 DEF Changed, Apart, SameBase, SameFrame
<1>6. w.len[b] = 0 /\ w.len[c] = 0 /\ w.len[d] = 0
  <2>1. b \in Frames \ {a} /\ c \in Frames \ {a} /\ d \in Frames \ {a}
    BY DEF Cells, Cell
  <2> QED
    BY <1>3, <1>4, <2>1 DEF Changed, SameFrame
<1> QED
  BY <1>4, <1>5, <1>6 DEF Emptied

-----------------------------------------------------------------------------
(* Whose the pages are, before and after.                                  *)

\* W and Z agree on what is not in S, and what is in S and used is that of O.
Others(u, W, Z, O, S) ==
    /\ S \subseteq Frames /\ \A g \in S : g \in Used(u) => W[g] \in O
    /\ \A g \in Frames \ S : Z[g] = W[g]

LEMMA OthersKeep ==
    ASSUME NEW u, NEW W, NEW w, NEW Z, NEW O, NEW S, Changed(u, w, O, S), Others(u, W, Z, O, S)
    PROVE  /\ \A p \in Spaces \ O : /\ Complete(u, W, p) => Complete(w, Z, p)
                                    /\ Bare(u, W, p) => Bare(w, Z, p)
                                    /\ Without0(u, p) => Without0(w, p)
           /\ \A t \in Thrs \ O : \A f : OwnStack(u, W, t, f) => OwnStack(w, Z, t, f)
<1>1. \A f, o : f \in Used(u) /\ W[f] = o /\ o \notin O => f \in Frames /\ SameFrame(u, w, f) /\ Z[f] = o
  BY DEF Changed, Others, Used
<1>2. \A p \in Spaces \ O : w.base[p] = u.base[p] /\ w.nr[p] = u.nr[p]
  BY DEF Changed
<1>3. ASSUME NEW p \in Spaces \ O, Complete(u, W, p) PROVE Complete(w, Z, p)
  <2> DEFINE a == u.base[p]
  <2>1. PICK b \in Frames, c \in Frames, d \in Frames :
          Cells(u, a, b, c, d) /\ \A f \in {a, b, c, d} : W[f] = p
    BY <1>3 DEF Complete
  <2>2. a \in Used(u) /\ b \in Used(u) /\ c \in Used(u) /\ d \in Used(u)
    BY <2>1 DEF Cells, Cell, Used
  <2>3. W[a] = p /\ W[b] = p /\ W[c] = p /\ W[d] = p
    BY <2>1
  <2>4. /\ SameFrame(u, w, a) /\ SameFrame(u, w, b) /\ SameFrame(u, w, c) /\ SameFrame(u, w, d)
        /\ Z[a] = p /\ Z[b] = p /\ Z[c] = p /\ Z[d] = p
    BY <1>1, <2>2, <2>3
  <2>5. w.base[p] = a /\ w.nr[p] = 3
    BY <1>2, <1>3 DEF Complete
  <2> HIDE DEF a
  <2>6. Cells(w, a, b, c, d)
    BY <2>1, <2>4 DEF Cells, Cell, SameFrame
  <2>7. \A f \in {a, b, c, d} : Z[f] = p
    BY <2>4
  <2> QED
    BY <2>5, <2>6, <2>7 DEF Complete
<1>4. ASSUME NEW p \in Spaces \ O, Bare(u, W, p) PROVE Bare(w, Z, p)
  <2>1. u.base[p] \in Used(u) /\ W[u.base[p]] = p
    BY <1>4 DEF Bare, Cell, Used
  <2>2. SameFrame(u, w, u.base[p]) /\ Z[u.base[p]] = p
    BY <1>1, <2>1
  <2> QED
    BY <1>2, <1>4, <2>2 DEF Bare, Cell, SameFrame
<1>5. ASSUME NEW t \in Thrs \ O, NEW f, OwnStack(u, W, t, f) PROVE OwnStack(w, Z, t, f)
  <2>1. f \in Used(u) /\ W[f] = t
    BY <1>5 DEF OwnStack, Used
  <2>2. SameFrame(u, w, f) /\ Z[f] = t
    BY <1>1, <2>1
  <2> QED
    BY <1>5, <2>2 DEF OwnStack, SameFrame
<1> QED
  BY <1>2, <1>3, <1>4, <1>5 DEF Without0

(* The pages in use.                                                       *)
LEMMA UsedMore ==
    ASSUME NEW u, NEW w, NEW O, NEW S, S \subseteq Frames, Changed(u, w, O, S), \A g \in S : w.len[g] = 1
    PROVE  Used(w) = Used(u) \cup S
BY DEF Changed, SameFrame, Used
LEMMA UsedLess ==
    ASSUME NEW u, NEW w, NEW O, NEW S, S \subseteq Frames, Changed(u, w, O, S), \A g \in S : w.len[g] = 0
    PROVE  Used(w) = Used(u) \ S
BY DEF Changed, SameFrame, Used

(* Counting.                                                               *)
LEMMA OneMore ==
    ASSUME NEW X, IsFiniteSet(X), NEW x, x \notin X
    PROVE  /\ IsFiniteSet(X \cup {x}) /\ Cardinality(X) \in Nat
           /\ Cardinality(X \cup {x}) = Cardinality(X) + 1
BY FS_AddElement, FS_CardinalityType
LEMMA OneFewer ==
    ASSUME NEW X, IsFiniteSet(X), NEW x \in X, NEW Y, Y = X \ {x}
    PROVE  /\ IsFiniteSet(Y) /\ Cardinality(X) \in Nat /\ Cardinality(Y) \in Nat
           /\ Cardinality(X) = Cardinality(Y) + 1
<1>1. Y \subseteq X
  OBVIOUS
<1>2. IsFiniteSet(Y)
  BY <1>1, FS_Subset
<1>3. X = Y \cup {x} /\ x \notin Y
  OBVIOUS
<1>4. Cardinality(Y) \in Nat /\ Cardinality(X) \in Nat
  BY <1>2, FS_CardinalityType
<1> QED
  BY <1>2, <1>3, <1>4, FS_AddElement
LEMMA FourLess ==
    ASSUME NEW X, IsFiniteSet(X), NEW a \in X, NEW b \in X, NEW c \in X, NEW d \in X, NEW Y, Y = X \ {a, b, c, d},
           a # b, a # c, a # d, b # c, b # d, c # d
    PROVE  IsFiniteSet(Y) /\ Cardinality(X) \in Nat /\ Cardinality(Y) \in Nat /\ Cardinality(X) = Cardinality(Y) + 4
<1> DEFINE X1 == X \ {a}
           X2 == X1 \ {b}
           X3 == X2 \ {c}
           X4 == X3 \ {d}
<1>1. X4 = Y
  OBVIOUS
<1>2. b \in X1 /\ c \in X2 /\ d \in X3
  OBVIOUS
<1>3. /\ IsFiniteSet(X1) /\ Cardinality(X) \in Nat /\ Cardinality(X1) \in Nat
      /\ Cardinality(X) = Cardinality(X1) + 1
  BY OneFewer
<1> HIDE DEF X1
<1>4. IsFiniteSet(X2) /\ Cardinality(X2) \in Nat /\ Cardinality(X1) = Cardinality(X2) + 1
  BY <1>2, <1>3, OneFewer
<1> HIDE DEF X2
<1>5. IsFiniteSet(X3) /\ Cardinality(X3) \in Nat /\ Cardinality(X2) = Cardinality(X3) + 1
  BY <1>2, <1>4, OneFewer
<1> HIDE DEF X3
<1>6. IsFiniteSet(X4) /\ Cardinality(X4) \in Nat /\ Cardinality(X3) = Cardinality(X4) + 1
  BY <1>2, <1>5, OneFewer
<1> HIDE DEF X4
<1> QED
  BY <1>1, <1>3, <1>4, <1>5, <1>6
LEMMA ThreeMore ==
    ASSUME NEW X, IsFiniteSet(X), NEW b, NEW c, NEW d, b \notin X, c \notin X, d \notin X, b # c, b # d, c # d
    PROVE  Cardinality(X) \in Nat /\ Cardinality(X \cup {b, c, d}) = Cardinality(X) + 3
<1> DEFINE X1 == X \cup {b}
           X2 == X1 \cup {c}
           X3 == X2 \cup {d}
<1>1. X3 = X \cup {b, c, d}
  OBVIOUS
<1>2. c \notin X1 /\ d \notin X2
  OBVIOUS
<1>3. IsFiniteSet(X1) /\ Cardinality(X) \in Nat /\ Cardinality(X1) = Cardinality(X) + 1
  BY OneMore
<1> HIDE DEF X1
<1>4. IsFiniteSet(X2) /\ Cardinality(X2) = Cardinality(X1) + 1
  BY <1>2, <1>3, OneMore
<1> HIDE DEF X2
<1>5. Cardinality(X3) = Cardinality(X2) + 1
  BY <1>2, <1>4, OneMore
<1> HIDE DEF X3
<1> QED
  BY <1>1, <1>3, <1>4, <1>5

-----------------------------------------------------------------------------
(* The pages are those of processes and threads, before and after each     *)
(* action that takes pages or gives them back.                             *)

Give(W, S, o) == [f \in Frames |-> IF f \in S THEN o ELSE W[f]]
Accounted(u, F, B, stk) ==
    /\ F \subseteq Spaces /\ B \subseteq Spaces /\ F \cap B = {}
    /\ \E W : Laid(u, W, F, B, stk)
    /\ Counts4(u, F, B, {t \in Thrs : stk[t] # NoFrame})

(* The numbers that are counted.                                           *)
LEMMA CountsAre ==
    ASSUME NEW u, NEW F, NEW B, NEW K, Counts4(u, F, B, K)
    PROVE  Cardinality(F) \in Nat /\ Cardinality(B) \in Nat /\ Cardinality(K) \in Nat
BY FS_CardinalityType DEF Counts4

(* AllocTable: a process has a base table.                                 *)
LEMMA TableAccounted ==
    ASSUME NEW u, NEW F, NEW B, NEW stk, Accounted(u, F, B, stk), NEW p \in Spaces, p \notin F, p \notin B,
           NEW w, w = pgtbl_alloc_user_pgtbl(u, p), ~ w.panic
    PROVE  Accounted(w, F, B \cup {p}, stk)
<1> DEFINE K == {t \in Thrs : stk[t] # NoFrame}
<1>1. PICK W : Laid(u, W, F, B, stk)
  BY DEF Accounted
<1>2. Single(u) /\ ~ u.panic /\ Without0(u, p) /\ Counts4(u, F, B, K)
  BY <1>1 DEF Laid, Accounted
<1> HIDE DEF K
<1>3. PICK f \in Frames \ Used(u) :
        Changed(u, w, {p}, {f}) /\ w.base[p] = f /\ Cell(w, f, 1, KernelTable) /\ w.nr[p] = 1
  BY <1>2, SpaceBorn
<1> DEFINE Z == Give(W, {f}, p)
<1>4. Others(u, W, Z, {p}, {f}) /\ Z[f] = p
  BY <1>3 DEF Others, Give
<1> HIDE DEF Z
<1>5. Bare(w, Z, p)
  BY <1>3, <1>4 DEF Bare
<1>6. \A q \in Spaces \ {p} : /\ Complete(u, W, q) => Complete(w, Z, q)
                              /\ Bare(u, W, q) => Bare(w, Z, q)
                              /\ Without0(u, q) => Without0(w, q)
  BY <1>3, <1>4, OthersKeep
<1>7. \A t \in Thrs : \A g : OwnStack(u, W, t, g) => OwnStack(w, Z, t, g)
  <2>1. \A t \in Thrs : t \notin {p}
    BY ProcAssumption
  <2>2. \A t \in Thrs \ {p} : \A g : OwnStack(u, W, t, g) => OwnStack(w, Z, t, g)
    BY <1>3, <1>4, OthersKeep
  <2> QED
    BY <2>1, <2>2
<1>8. Laid(w, Z, F, B \cup {p}, stk)
  <2>1. Single(w) /\ ~ w.panic
    BY <1>3 DEF Changed
  <2>2. \A q \in F : Complete(w, Z, q)
    BY <1>1, <1>6 DEF Laid, Accounted
  <2>3. \A q \in B \cup {p} : Bare(w, Z, q)
    BY <1>1, <1>5, <1>6 DEF Laid, Accounted
  <2>4. \A q \in Spaces \ (F \cup (B \cup {p})) : Without0(w, q)
    BY <1>1, <1>6 DEF Laid
  <2>5. \A t \in Thrs : stk[t] # NoFrame => OwnStack(w, Z, t, stk[t])
    BY <1>1, <1>7 DEF Laid
  <2> QED
    BY <2>1, <2>2, <2>3, <2>4, <2>5 DEF Laid
<1>9. Counts4(w, F, B \cup {p}, K)
  <2>1. Used(w) = Used(u) \cup {f}
    <3>1. \A g \in {f} : w.len[g] = 1
      BY <1>3 DEF Cell
    <3> QED
      BY <1>3, <3>1, UsedMore
  <2>2. IsFiniteSet(Used(u)) /\ f \notin Used(u) /\ IsFiniteSet(B)
    BY <1>2, <1>3, FreeIs DEF Counts4
  <2>3. Cardinality(Used(w)) = Cardinality(Used(u)) + 1
    BY <2>1, <2>2, OneMore
  <2>4. IsFiniteSet(B \cup {p}) /\ Cardinality(B \cup {p}) = Cardinality(B) + 1
    BY <2>2, OneMore
  <2> QED
    BY <1>2, <2>3, <2>4, CountsAre DEF Counts4
<1> QED
  BY <1>8, <1>9 DEF Accounted, K

(* MapStack: a process has its stack.                                      *)
LEMMA StackAccounted ==
    ASSUME NEW u, NEW F, NEW B, NEW stk, Accounted(u, F, B, stk), NEW p \in B,
           NEW r, r = vm_map_common(u, p, StackPage, Stack.prot, 1), r.rc = "OK"
    PROVE  Accounted(r.v, F \cup {p}, B \ {p}, stk)
<1> DEFINE K == {t \in Thrs : stk[t] # NoFrame}
           a == u.base[p]
           w == r.v
<1>1. PICK W : Laid(u, W, F, B, stk)
  BY DEF Accounted
<1>2. /\ Single(u) /\ ~ u.panic /\ Counts4(u, F, B, K) /\ p \in Spaces /\ p \notin F
      /\ Cell(u, a, 1, KernelTable) /\ u.nr[p] = 1 /\ W[a] = p
  BY <1>1 DEF Laid, Accounted, Bare
<1> HIDE DEF K, w
<1>3. PICK b \in Frames, c \in Frames, d \in Frames : Mapped4(u, w, p, b, c, d)
  BY <1>2, StackMapped DEF w
<1> HIDE DEF a
<1>4. /\ b \notin Used(u) /\ c \notin Used(u) /\ d \notin Used(u) /\ a \in Used(u) /\ a \in Frames
      /\ Apart(u, w, {a, b, c, d}) /\ Cells(w, a, b, c, d) /\ w.nr[p] = 3
      /\ \A q \in Spaces : q # p => w.nr[q] = u.nr[q]
      /\ Single(w) /\ w.base = u.base /\ w.panic = u.panic
  BY <1>2, <1>3 DEF Mapped4, Apart, SameBase, Cell, Used, a
<1> DEFINE S == {a, b, c, d}
           Z == Give(W, S, p)
<1>5. Changed(u, w, {p}, S) /\ S \subseteq Frames
  BY <1>4 DEF Changed, Apart
<1>6. Others(u, W, Z, {p}, S) /\ \A f \in S : Z[f] = p
  BY <1>2, <1>4, <1>5 DEF Others, Give
<1> HIDE DEF Z, S
<1>7. Complete(w, Z, p)
  <2>1. \A f \in {a, b, c, d} : Z[f] = p
    BY <1>6 DEF S
  <2>2. w.base[p] = a
    BY <1>4 DEF a
  <2> QED
    BY <1>4, <2>1, <2>2 DEF Complete
<1>8. \A q \in Spaces \ {p} : /\ Complete(u, W, q) => Complete(w, Z, q)
                              /\ Bare(u, W, q) => Bare(w, Z, q)
                              /\ Without0(u, q) => Without0(w, q)
  BY <1>5, <1>6, OthersKeep
<1>9. \A t \in Thrs : \A g : OwnStack(u, W, t, g) => OwnStack(w, Z, t, g)
  <2>1. \A t \in Thrs : t \notin {p}
    BY <1>2, ProcAssumption
  <2>2. \A t \in Thrs \ {p} : \A g : OwnStack(u, W, t, g) => OwnStack(w, Z, t, g)
    BY <1>5, <1>6, OthersKeep
  <2> QED
    BY <2>1, <2>2
<1>10. Laid(w, Z, F \cup {p}, B \ {p}, stk)
  <2>1. Single(w) /\ ~ w.panic
    BY <1>2, <1>4
  <2>2. \A q \in F \cup {p} : Complete(w, Z, q)
    BY <1>1, <1>7, <1>8 DEF Laid, Accounted
  <2>3. \A q \in B \ {p} : Bare(w, Z, q)
    BY <1>1, <1>8 DEF Laid, Accounted
  <2>4. \A q \in Spaces \ ((F \cup {p}) \cup (B \ {p})) : Without0(w, q)
    BY <1>1, <1>8 DEF Laid
  <2>5. \A t \in Thrs : stk[t] # NoFrame => OwnStack(w, Z, t, stk[t])
    BY <1>1, <1>9 DEF Laid
  <2> QED
    BY <2>1, <2>2, <2>3, <2>4, <2>5 DEF Laid
<1>11. Counts4(w, F \cup {p}, B \ {p}, K)
  <2>1. Used(w) = Used(u) \cup S
    <3>1. \A g \in S : w.len[g] = 1
      BY <1>4 DEF Cells, Cell, S
    <3> QED
      BY <1>5, <3>1, UsedMore
  <2>2. Used(w) = Used(u) \cup {b, c, d}
    BY <1>4, <2>1 DEF S
  <2>3. IsFiniteSet(Used(u)) /\ b # c /\ b # d /\ c # d /\ IsFiniteSet(B) /\ IsFiniteSet(F)
    BY <1>2, <1>4, FreeIs DEF Counts4, Cells
  <2>4. Cardinality(Used(w)) = Cardinality(Used(u)) + 3
    BY <1>4, <2>2, <2>3, ThreeMore
  <2>5. IsFiniteSet(B \ {p}) /\ Cardinality(B) = Cardinality(B \ {p}) + 1 /\ Cardinality(B \ {p}) \in Nat
    BY <2>3, OneFewer
  <2>6. IsFiniteSet(F \cup {p}) /\ Cardinality(F \cup {p}) = Cardinality(F) + 1
    BY <1>2, <2>3, OneMore
  <2> QED
    BY <1>2, <2>4, <2>5, <2>6, CountsAre DEF Counts4
<1>12. F \cup {p} \subseteq Spaces /\ B \ {p} \subseteq Spaces /\ (F \cup {p}) \cap (B \ {p}) = {}
  BY <1>2 DEF Accounted
<1> QED
  BY <1>10, <1>11, <1>12 DEF Accounted, K, w

(* Free: what a process had.                                               *)
LEMMA FreeAccounted ==
    ASSUME NEW u, NEW F, NEW B, NEW stk, Accounted(u, F, B, stk), NEW p \in F,
           NEW w, w = free_user_process(u, p)
    PROVE  Accounted(w, F \ {p}, B, stk)
<1> DEFINE K == {t \in Thrs : stk[t] # NoFrame}
           a == u.base[p]
<1>1. PICK W : Laid(u, W, F, B, stk)
  BY DEF Accounted
<1>2. Single(u) /\ ~ u.panic /\ Counts4(u, F, B, K) /\ p \in Spaces /\ p \notin B /\ Complete(u, W, p)
  BY <1>1 DEF Laid, Accounted
<1>3. PICK b \in Frames, c \in Frames, d \in Frames : Cells(u, a, b, c, d) /\ \A f \in {a, b, c, d} : W[f] = p
  BY <1>2 DEF Complete
<1>4. u.nr[p] = 3
  BY <1>2 DEF Complete
<1> DEFINE S == {a, b, c, d}
<1>5. Changed(u, w, {p}, S) /\ Without0(w, p) /\ \A f \in S : w.len[f] = 0
  <2>1. /\ Changed(u, w, {p}, {u.base[p], b, c, d}) /\ Without0(w, p)
        /\ w.len[u.base[p]] = 0 /\ w.len[b] = 0 /\ w.len[c] = 0 /\ w.len[d] = 0
    <3> HIDE DEF K, S
    <3>1. Single(u) /\ p \in Spaces /\ Cells(u, u.base[p], b, c, d) /\ u.nr[p] = 3
      BY <1>2, <1>3, <1>4
    <3> HIDE DEF a
    <3>2. Changed(u, w, {p}, {u.base[p], b, c, d})
      BY <3>1, ProcessGone
    <3>3. Without0(w, p)
      BY <3>1, ProcessGone
    <3>4. Emptied(w, u.base[p], b, c, d)
      BY <3>1, ProcessGone
    <3> QED
      BY <3>2, <3>3, <3>4 DEF Emptied
  <2> QED
    BY <2>1
<1>6. /\ S \subseteq Frames /\ S \subseteq Used(u) /\ a # b /\ a # c /\ a # d /\ b # c /\ b # d /\ c # d
      /\ \A f \in S : W[f] = p
  BY <1>3 DEF Cells, Cell, Used
<1> HIDE DEF K, a
<1>7. Others(u, W, W, {p}, S)
  BY <1>6 DEF Others
<1>8. \A q \in Spaces \ {p} : /\ Complete(u, W, q) => Complete(w, W, q)
                              /\ Bare(u, W, q) => Bare(w, W, q)
                              /\ Without0(u, q) => Without0(w, q)
  BY <1>5, <1>7, OthersKeep
<1>9. \A t \in Thrs : \A g : OwnStack(u, W, t, g) => OwnStack(w, W, t, g)
  <2>1. \A t \in Thrs : t \notin {p}
    BY <1>2, ProcAssumption
  <2>2. \A t \in Thrs \ {p} : \A g : OwnStack(u, W, t, g) => OwnStack(w, W, t, g)
    BY <1>5, <1>7, OthersKeep
  <2> QED
    BY <2>1, <2>2
<1>10. Laid(w, W, F \ {p}, B, stk)
  <2>1. Single(w) /\ ~ w.panic
    BY <1>2, <1>5 DEF Changed
  <2>2. \A q \in F \ {p} : Complete(w, W, q)
    BY <1>1, <1>8 DEF Laid, Accounted
  <2>3. \A q \in B : Bare(w, W, q)
    BY <1>1, <1>2, <1>8 DEF Laid, Accounted
  <2>4. \A q \in Spaces \ ((F \ {p}) \cup B) : Without0(w, q)
    BY <1>1, <1>5, <1>8 DEF Laid
  <2>5. \A t \in Thrs : stk[t] # NoFrame => OwnStack(w, W, t, stk[t])
    BY <1>1, <1>9 DEF Laid
  <2> QED
    BY <2>1, <2>2, <2>3, <2>4, <2>5 DEF Laid
<1>11. Counts4(w, F \ {p}, B, K)
  <2>1. Used(w) = Used(u) \ {a, b, c, d}
    BY <1>5, <1>6, UsedLess
  <2>2. IsFiniteSet(Used(u)) /\ IsFiniteSet(F)
    BY <1>2, FreeIs DEF Counts4
  <2>3. Cardinality(Used(u)) = Cardinality(Used(w)) + 4 /\ Cardinality(Used(w)) \in Nat
    <3> DEFINE X == Used(u)
               Y == Used(w)
    <3>1. a \in X /\ b \in X /\ c \in X /\ d \in X /\ IsFiniteSet(X) /\ Y = X \ {a, b, c, d}
      BY <1>6, <2>1, <2>2
    <3> HIDE DEF X, Y, S
    <3> QED
      <4>1. Cardinality(X) = Cardinality(Y) + 4 /\ Cardinality(Y) \in Nat
        BY <1>6, <3>1, FourLess
      <4> QED
        BY <4>1 DEF X, Y
  <2>4. IsFiniteSet(F \ {p}) /\ Cardinality(F) = Cardinality(F \ {p}) + 1 /\ Cardinality(F \ {p}) \in Nat
    BY <2>2, OneFewer
  <2>5. Cardinality(F) \in Nat /\ Cardinality(B) \in Nat /\ Cardinality(K) \in Nat
    BY <1>2, CountsAre
  <2> QED
    BY <1>2, <2>3, <2>4, <2>5 DEF Counts4
<1>12. F \ {p} \subseteq Spaces /\ (F \ {p}) \cap B = {}
  BY DEF Accounted
<1> QED
  BY <1>10, <1>11, <1>12 DEF Accounted, K

(* The stacks of other threads, and what processes have, stay when the     *)
(* page f is taken for the thread o or given back.                         *)
LEMMA OneStackKeeps ==
    ASSUME NEW u, NEW W, NEW F, NEW B, NEW stk, Laid(u, W, F, B, stk), F \subseteq Spaces, B \subseteq Spaces,
           NEW o \in Thrs, NEW f \in Frames, f \in Used(u) => W[f] = o,
           NEW w, Changed(u, w, {}, {f}), NEW Z, Z = Give(W, {f}, o),
           NEW stk2, \A t \in Thrs \ {o} : stk2[t] = stk[t], stk2[o] # NoFrame => OwnStack(w, Z, o, stk2[o])
    PROVE  Laid(w, Z, F, B, stk2)
<1>1. Changed(u, w, {o}, {f})
  BY DEF Changed
<1>2. Others(u, W, Z, {o}, {f})
  BY DEF Others, Give
<1>3. \A q \in Spaces : q # o
  BY ProcAssumption
<1>4. \A q \in Spaces : /\ Complete(u, W, q) => Complete(w, Z, q)
                        /\ Bare(u, W, q) => Bare(w, Z, q)
                        /\ Without0(u, q) => Without0(w, q)
  <2>1. \A q \in Spaces \ {o} : /\ Complete(u, W, q) => Complete(w, Z, q)
                                /\ Bare(u, W, q) => Bare(w, Z, q)
                                /\ Without0(u, q) => Without0(w, q)
    BY <1>1, <1>2, OthersKeep
  <2> QED
    BY <1>3, <2>1
<1>5. \A t \in Thrs \ {o} : \A g : OwnStack(u, W, t, g) => OwnStack(w, Z, t, g)
  BY <1>1, <1>2, OthersKeep
<1>6. Single(w) /\ ~ w.panic
  BY DEF Changed, Laid
<1>7. \A t \in Thrs : stk2[t] # NoFrame => OwnStack(w, Z, t, stk2[t])
  BY <1>5 DEF Laid
<1> QED
  BY <1>4, <1>6, <1>7 DEF Laid

(* create_thread: a thread has a page for its kernel stack.                *)
LEMMA ThreadAccounted ==
    ASSUME NEW u, NEW F, NEW B, NEW stk, Accounted(u, F, B, stk), NEW o \in Thrs, stk[o] = NoFrame,
           FreeClusters(u, 1) # {}, NEW w, w = get_free_page_cluster(u, NewStack(u), 1),
           NEW stk2, stk2[o] = NewStack(u), \A t \in Thrs \ {o} : stk2[t] = stk[t]
    PROVE  Accounted(w, F, B, stk2)
<1> DEFINE K == {t \in Thrs : stk[t] # NoFrame}
           K2 == {t \in Thrs : stk2[t] # NoFrame}
           f == NewStack(u)
           Z(W) == Give(W, {f}, o)
<1>1. PICK W : Laid(u, W, F, B, stk)
  BY DEF Accounted
<1>2. Single(u) /\ ~ u.panic /\ Counts4(u, F, B, K) /\ F \subseteq Spaces /\ B \subseteq Spaces
  BY <1>1 DEF Laid, Accounted
<1> HIDE DEF K
<1>3. f \in Frames \ Used(u) /\ Apart(u, w, {f}) /\ w.nr = u.nr /\ Cell(w, f, 1, NoTable)
  BY <1>2, TakeOne DEF NewStack
<1>4. Changed(u, w, {}, {f}) /\ f # NoFrame
  BY <1>3, PageTableFacts DEF Apart, SameBase, Changed
<1>5. stk2[o] = f
  OBVIOUS
<1> HIDE DEF f
<1>6. OwnStack(w, Z(W), o, f)
  BY <1>3 DEF OwnStack, Give, Cell
<1>7. Laid(w, Z(W), F, B, stk2)
  BY <1>1, <1>2, <1>3, <1>4, <1>5, <1>6, OneStackKeeps
<1>8. Counts4(w, F, B, K2)
  <2>1. Used(w) = Used(u) \cup {f}
    <3>1. \A g \in {f} : w.len[g] = 1
      BY <1>3 DEF Cell
    <3> QED
      BY <1>3, <1>4, <3>1, UsedMore
  <2>2. IsFiniteSet(Used(u)) /\ IsFiniteSet(K) /\ o \notin K
    BY <1>2, FreeIs DEF Counts4, K
  <2>3. Cardinality(Used(w)) = Cardinality(Used(u)) + 1
    BY <1>3, <2>1, <2>2, OneMore
  <2>4. K2 = K \cup {o}
    BY <1>4, <1>5 DEF K
  <2> HIDE DEF K2
  <2>5. IsFiniteSet(K2) /\ Cardinality(K2) = Cardinality(K) + 1
    BY <2>2, <2>4, OneMore
  <2> QED
    BY <1>2, <2>3, <2>5, CountsAre DEF Counts4
<1> QED
  BY <1>2, <1>7, <1>8 DEF Accounted

(* Reap: the page is given back.                                           *)
LEMMA ReapAccounted ==
    ASSUME NEW u, NEW F, NEW B, NEW stk, Accounted(u, F, B, stk), NEW o \in Thrs, stk[o] # NoFrame,
           NEW w, w = pfdb_dec_page_use_count(u, stk[o]),
           NEW stk2, stk2[o] = NoFrame, \A t \in Thrs \ {o} : stk2[t] = stk[t]
    PROVE  Accounted(w, F, B, stk2)
<1> DEFINE K == {t \in Thrs : stk[t] # NoFrame}
           K2 == {t \in Thrs : stk2[t] # NoFrame}
           f == stk[o]
           Z(W) == Give(W, {f}, o)
<1>1. PICK W : Laid(u, W, F, B, stk)
  BY DEF Accounted
<1>2. /\ Single(u) /\ ~ u.panic /\ Counts4(u, F, B, K) /\ F \subseteq Spaces /\ B \subseteq Spaces
      /\ f \in Frames /\ u.use[f] = 1 /\ u.len[f] = 1 /\ W[f] = o
  BY <1>1 DEF Laid, Accounted, OwnStack
<1> HIDE DEF K
<1>3. Apart(u, w, {f}) /\ w.nr = u.nr /\ w.len[f] = 0
  <2>1. u.use[f] >= 1
    BY <1>2
  <2> QED
    BY <1>2, <2>1, DecOne
<1>4. Changed(u, w, {}, {f})
  BY <1>3 DEF Apart, SameBase, Changed
<1> HIDE DEF f
<1>5. Laid(w, Z(W), F, B, stk2)
  BY <1>1, <1>2, <1>4, OneStackKeeps
<1>6. Counts4(w, F, B, K2)
  <2>1. Used(w) = Used(u) \ {f}
    <3>1. \A g \in {f} : w.len[g] = 0
      BY <1>3
    <3> QED
      BY <1>2, <1>4, <3>1, UsedLess
  <2>2. IsFiniteSet(Used(u)) /\ IsFiniteSet(K) /\ o \in K /\ f \in Used(u)
    BY <1>2, FreeIs DEF Counts4, K, Used
  <2>3. Cardinality(Used(u)) = Cardinality(Used(w)) + 1 /\ Cardinality(Used(w)) \in Nat
    BY <2>1, <2>2, OneFewer
  <2>4. K2 = K \ {o}
    BY DEF K
  <2> HIDE DEF K2
  <2>5. IsFiniteSet(K2) /\ Cardinality(K) = Cardinality(K2) + 1 /\ Cardinality(K2) \in Nat
    BY <2>2, <2>4, OneFewer
  <2> QED
    BY <1>2, <2>3, <2>5, CountsAre DEF Counts4
<1> QED
  BY <1>2, <1>5, <1>6 DEF Accounted
-----------------------------------------------------------------------------
(* The pages of the processes and of the threads that exist.               *)

StackOf == [t \in Thrs |-> thr[t].stk]
PInv == halted = "no" => Accounted(v, Full, InStep("stack"), StackOf)

\* The processes that a client is at pc with.
Under(f, pc) == {p \in Spaces : \E a \in Actors : f[a].p = p /\ f[a].pc = pc}
EarlyPCs == {"pgtbl", "stack"}
SameIds == \A p \in Procs : proc'[p].id = proc[p].id
SameStacks == \A t \in Thrs : thr'[t].stk = thr[t].stk

LEMMA UnderIs ==
    /\ InStep("pgtbl") = Under(act, "pgtbl") /\ InStep("stack") = Under(act, "stack")
    /\ Full = Spaces \ (Unused \cup Under(act, "pgtbl") \cup Under(act, "stack"))
    /\ InStep("stack")' = Under(act', "stack")
    /\ Full' = Spaces \ (Unused' \cup Under(act', "pgtbl") \cup Under(act', "stack"))
<1>1. /\ InStep("pgtbl") = Under(act, "pgtbl") /\ InStep("stack") = Under(act, "stack")
      /\ InStep("pgtbl")' = Under(act', "pgtbl") /\ InStep("stack")' = Under(act', "stack")
  BY DEF InStep, Under, Creating
<1> QED
  BY <1>1 DEF Full

LEMMA UnderKeeps ==
    ASSUME Good, NEW a \in Actors, NEW r, act' = [act EXCEPT ![a] = r], NEW pc, act[a].pc # pc, r.pc # pc
    PROVE  Under(act', pc) = Under(act, pc)
<1>1. act \in [Actors -> ActType]
  BY DEF Good, TypeOK
<1>2. act'[a] = r /\ \A b \in Actors \ {a} : act'[b] = act[b]
  BY <1>1
<1> QED
  BY <1>2 DEF Under

LEMMA SpacesOfIds ==
    ASSUME SameIds
    PROVE  Unused' = Unused
BY DEF SameIds, Unused, Procs

(* A step of a client that changes neither pages nor numbers.              *)
LEMMA QuietKeeps ==
    ASSUME Good, PInv, halted = "no", NEW a \in Actors, NEW r, act' = [act EXCEPT ![a] = r],
           act[a].pc \notin EarlyPCs, r.pc \notin EarlyPCs, v' = v, SameIds, SameStacks
    PROVE  PInv'
<1>1. Under(act', "pgtbl") = Under(act, "pgtbl") /\ Under(act', "stack") = Under(act, "stack")
  BY UnderKeeps DEF EarlyPCs
<1>2. Full' = Full /\ InStep("stack")' = InStep("stack")
  BY <1>1, UnderIs, SpacesOfIds
<1>3. StackOf' = StackOf
  BY DEF StackOf, SameStacks
<1>4. Accounted(v, Full, InStep("stack"), StackOf)
  BY DEF PInv
<1>5. Accounted(v', Full', InStep("stack")', StackOf')
  BY <1>2, <1>3, <1>4
<1> QED
  BY <1>5 DEF PInv

LEMMA FieldKeepsIds ==
    ASSUME Good, NEW p, NEW x, NEW y,
           \/ proc' = [proc EXCEPT ![p].refs = x] \/ proc' = [proc EXCEPT ![p].thrque = x]
           \/ proc' = [proc EXCEPT ![p].master = x]
           \/ proc' = [proc EXCEPT ![p].thrque = x, ![p].master = y]
    PROVE  SameIds
<1>1. proc \in [Procs -> ProcType]
  BY DEF Good, TypeOK
<1>2. CASE p \in Procs
  <2>1. proc[p] \in ProcType
    BY <1>1, <1>2
  <2>2. /\ [proc[p] EXCEPT !.refs = x].id = proc[p].id /\ [proc[p] EXCEPT !.thrque = x].id = proc[p].id
        /\ [proc[p] EXCEPT !.master = x].id = proc[p].id
        /\ [[proc[p] EXCEPT !.thrque = x] EXCEPT !.master = y].id = proc[p].id
    BY <2>1 DEF ProcType
  <2>3. \A q \in Procs \ {p} : proc'[q] = proc[q]
    BY <1>1
  <2>4. \/ proc'[p] = [proc[p] EXCEPT !.refs = x] \/ proc'[p] = [proc[p] EXCEPT !.thrque = x]
        \/ proc'[p] = [proc[p] EXCEPT !.master = x]
        \/ proc'[p] = [[proc[p] EXCEPT !.thrque = x] EXCEPT !.master = y]
    BY <1>1, <1>2
  <2> QED
    BY <2>2, <2>3, <2>4 DEF SameIds
<1>3. CASE p \notin Procs
  BY <1>1, <1>3 DEF SameIds
<1> QED
  BY <1>2, <1>3
LEMMA RefIncIds ==
    ASSUME Good, NEW p, proc_ref_inc(p)
    PROVE  SameIds
<1> DEFINE x == IF proc[p].refs = 0 THEN 0 ELSE proc[p].refs + 1
<1>1. proc' = [proc EXCEPT ![p].refs = x]
  BY DEF proc_ref_inc
<1> HIDE DEF x
<1> QED
  BY <1>1, FieldKeepsIds

LEMMA RefDecIds ==
    ASSUME Good, NEW p, proc' = [proc EXCEPT ![p].refs = @ - 1]
    PROVE  SameIds
<1> DEFINE x == proc[p].refs - 1
<1>1. proc' = [proc EXCEPT ![p].refs = x]
  OBVIOUS
<1> HIDE DEF x
<1> QED
  BY <1>1, FieldKeepsIds

(* The end of a call: the client goes back, or on to give back a thread.   *)
LEMMA FinishIs ==
    ASSUME NEW a, Finish(a)
    PROVE  \E r : act' = [act EXCEPT ![a] = r] /\ r.pc \notin EarlyPCs
<1> DEFINE r == [pc |-> IF act[a].t = NoThr THEN "idle" ELSE "done", p |-> NoProc, t |-> act[a].t]
<1>1. act' = [act EXCEPT ![a] = r] /\ r.pc \notin EarlyPCs
  BY DEF Finish, Become, EarlyPCs
<1> QED
  BY <1>1, Zenon

LEMMA BecomeRow ==
    ASSUME NEW a, NEW pc, NEW p, NEW t, Become(a, pc, p, t), pc \notin EarlyPCs
    PROVE  \E r : act' = [act EXCEPT ![a] = r] /\ r.pc \notin EarlyPCs
<1> DEFINE r == [pc |-> pc, p |-> p, t |-> t]
<1>1. act' = [act EXCEPT ![a] = r] /\ r.pc \notin EarlyPCs
  BY DEF Become
<1> QED
  BY <1>1, Zenon

LEMMA GoRow ==
    ASSUME NEW a, NEW pc, Go(a, pc), pc \notin EarlyPCs
    PROVE  \E r : act' = [act EXCEPT ![a] = r] /\ r.pc \notin EarlyPCs
BY BecomeRow DEF Go

(* What a client does to the processes and their tree, to the references   *)
(* of threads and to its own place.                                        *)
QuietStep(a) ==
    /\ act[a].pc \notin EarlyPCs /\ v' = v /\ SameIds /\ SameStacks
    /\ \E r : act' = [act EXCEPT ![a] = r] /\ r.pc \notin EarlyPCs
LEMMA QuietStepKeeps ==
    ASSUME Good, PInv, halted = "no", NEW a \in Actors, QuietStep(a)
    PROVE  PInv'
<1>1. PICK r : act' = [act EXCEPT ![a] = r] /\ r.pc \notin EarlyPCs
  BY DEF QuietStep
<1> QED
  BY <1>1, QuietKeeps DEF QuietStep

LEMMA DropIsQuiet ==
    ASSUME Good, NEW a \in Actors, NEW p, proc_ref_dec(a, p), act[a].pc \notin EarlyPCs, UNCHANGED <<v, thr>>
    PROVE  QuietStep(a)
<1>1. SameIds
  BY RefDecIds DEF proc_ref_dec
<1>2. \E r : act' = [act EXCEPT ![a] = r] /\ r.pc \notin EarlyPCs
  <2>1. Go(a, "free") \/ Finish(a)
    BY DEF proc_ref_dec
  <2>2. "free" \notin EarlyPCs
    BY DEF EarlyPCs
  <2> QED
    BY <2>1, <2>2, GoRow, FinishIs
<1> QED
  BY <1>1, <1>2 DEF QuietStep, SameStacks

LEMMA LookupIsQuiet ==
    ASSUME Good, NEW a \in Actors,
           \/ TakeKernel(a)
           \/ \E b \in Actors : Take(a, b)
           \/ \E i \in Ids : proc_find_by_pid(a, i) \/ proc_find_thread(a, i)
    PROVE  QuietStep(a)
<1>1. PICK p, pc : /\ At(a, "idle") /\ pc \in {"hold", "found"} /\ proc_ref_inc(p) /\ Become(a, pc, p, NoThr)
                   /\ UNCHANGED <<v, thr>>
  <2>1. CASE TakeKernel(a)
    BY <2>1 DEF TakeKernel, proc_kproc_refer
  <2>2. ASSUME NEW b \in Actors, Take(a, b)
        PROVE  \E p, pc : /\ At(a, "idle") /\ pc \in {"hold", "found"} /\ proc_ref_inc(p) /\ Become(a, pc, p, NoThr)
                          /\ UNCHANGED <<v, thr>>
    BY <2>2 DEF Take
  <2>3. ASSUME NEW i \in Ids, proc_find_by_pid(a, i) \/ proc_find_thread(a, i)
        PROVE  \E p, pc : /\ At(a, "idle") /\ pc \in {"hold", "found"} /\ proc_ref_inc(p) /\ Become(a, pc, p, NoThr)
                          /\ UNCHANGED <<v, thr>>
    BY <2>3 DEF proc_find_by_pid, proc_find_thread, Find
  <2> QED
    BY <2>1, <2>2, <2>3
<1>2. pc \notin EarlyPCs /\ act[a].pc \notin EarlyPCs
  BY <1>1 DEF EarlyPCs, At
<1>3. SameIds
  BY <1>1, RefIncIds
<1>4. \E r : act' = [act EXCEPT ![a] = r] /\ r.pc \notin EarlyPCs
  BY <1>1, <1>2, BecomeRow
<1> QED
  BY <1>1, <1>2, <1>3, <1>4 DEF QuietStep, SameStacks
LEMMA ThreadKeepsStack ==
    ASSUME Good, NEW t, NEW x, t \in Thrs => x.stk = thr[t].stk, thr' = [thr EXCEPT ![t] = x]
    PROVE  SameStacks
<1>1. thr \in [Thrs -> ThrType]
  BY DEF Good, TypeOK
<1> QED
  BY <1>1 DEF SameStacks

LEMMA MasterIsQuiet ==
    ASSUME Good, NEW a \in Actors, ReadMaster(a) \/ RefMaster(a) \/ UnrefProc(a)
    PROVE  QuietStep(a)
<1>1. thr \in [Thrs -> ThrType] /\ \A q \in Procs : proc[q].id = proc[q].id
  BY DEF Good, TypeOK
<1>2. CASE ReadMaster(a)
  <2>1. act[a].pc \notin EarlyPCs /\ UNCHANGED <<v, proc, thr>> /\ "master" \notin EarlyPCs
    BY <1>2 DEF ReadMaster, At, EarlyPCs
  <2>2. \E r : act' = [act EXCEPT ![a] = r] /\ r.pc \notin EarlyPCs
    BY <1>2, <2>1, BecomeRow DEF ReadMaster
  <2> QED
    BY <2>1, <2>2 DEF QuietStep, SameIds, SameStacks
<1>3. CASE RefMaster(a)
  <2>1. act[a].pc \notin EarlyPCs /\ UNCHANGED <<v, proc>> /\ "unref" \notin EarlyPCs
    BY <1>3 DEF RefMaster, At, EarlyPCs
  <2>2. \E r : act' = [act EXCEPT ![a] = r] /\ r.pc \notin EarlyPCs
    BY <1>3, <2>1, GoRow DEF RefMaster
  <2>3. SameStacks
    <3> DEFINE t == act[a].t
               x == [thr[t] EXCEPT !.refs = @ + 1]
    <3>1. thr' = thr \/ thr' = [thr EXCEPT ![t] = x]
      BY <1>3 DEF RefMaster
    <3>2. t \in Thrs => x.stk = thr[t].stk
      <4>1. t \in Thrs => thr[t] \in ThrType
        BY <1>1
      <4> QED
        BY <4>1 DEF ThrType
    <3> HIDE DEF x, t
    <3> QED
      BY <3>1, <3>2, ThreadKeepsStack DEF SameStacks
  <2> QED
    BY <2>1, <2>2, <2>3 DEF QuietStep, SameIds
<1>4. CASE UnrefProc(a)
  <2>1. act[a].pc \notin EarlyPCs /\ UNCHANGED <<v, thr>>
    BY <1>4 DEF UnrefProc, At, EarlyPCs
  <2>2. \E r : act' = [act EXCEPT ![a] = r] /\ r.pc \notin EarlyPCs
    BY <1>4, <2>1, FinishIs DEF UnrefProc
  <2>3. SameIds
    BY <1>4, RefDecIds DEF UnrefProc
  <2> QED
    BY <2>1, <2>2, <2>3 DEF QuietStep, SameStacks
<1> QED
  BY <1>2, <1>3, <1>4

LEMMA JoinIsQuiet ==
    ASSUME Good, NEW a \in Actors, proc_add_thread(a) \/ AddToQueue(a) \/ Enter(a)
    PROVE  QuietStep(a)
<1> DEFINE p == act[a].p
           t == act[a].t
<1>1. CASE proc_add_thread(a)
  <2>1. act[a].pc \notin EarlyPCs /\ UNCHANGED <<v, thr>> /\ "add" \notin EarlyPCs
    BY <1>1 DEF proc_add_thread, At, EarlyPCs
  <2>2. \E r : act' = [act EXCEPT ![a] = r] /\ r.pc \notin EarlyPCs
    BY <1>1, <2>1, FinishIs, GoRow DEF proc_add_thread
  <2>3. SameIds
    BY <1>1, RefIncIds DEF proc_add_thread
  <2> QED
    BY <2>1, <2>2, <2>3 DEF QuietStep, SameStacks
<1>2. CASE AddToQueue(a)
  <2>1. act[a].pc \notin EarlyPCs /\ UNCHANGED v /\ "hold" \notin EarlyPCs
    BY <1>2 DEF AddToQueue, At, EarlyPCs
  <2>2. \E r : act' = [act EXCEPT ![a] = r] /\ r.pc \notin EarlyPCs
    BY <1>2, <2>1, BecomeRow DEF AddToQueue
  <2>3. SameIds
    <3> DEFINE x == Append(proc[p].thrque, t)
    <3>1. proc' = [proc EXCEPT ![p].thrque = x]
      BY <1>2 DEF AddToQueue
    <3> HIDE DEF x, p
    <3> QED
      BY <3>1, FieldKeepsIds
  <2>4. SameStacks
    <3> DEFINE x == [thr[t] EXCEPT !.p = p]
    <3>1. thr' = [thr EXCEPT ![t] = x]
      BY <1>2 DEF AddToQueue
    <3>2. t \in Thrs => x.stk = thr[t].stk
      <4>1. t \in Thrs => thr[t] \in ThrType
        BY DEF Good, TypeOK
      <4> QED
        BY <4>1 DEF ThrType
    <3> HIDE DEF x, t
    <3> QED
      BY <3>1, <3>2, ThreadKeepsStack
  <2> QED
    BY <2>1, <2>2, <2>3, <2>4 DEF QuietStep
<1>3. CASE Enter(a)
  <2>1. act[a].pc \notin EarlyPCs /\ UNCHANGED <<v, thr>> /\ "idle" \notin EarlyPCs
    BY <1>3 DEF Enter, At, EarlyPCs
  <2>2. \E r : act' = [act EXCEPT ![a] = r] /\ r.pc \notin EarlyPCs
    BY <1>3, <2>1, BecomeRow DEF Enter
  <2>3. SameIds
    <3> DEFINE x == Append(proc[p].thrque, t)
    <3>1. proc' = [proc EXCEPT ![p].thrque = x, ![p].master = t]
      BY <1>3 DEF Enter
    <3> HIDE DEF x, p, t
    <3> QED
      BY <3>1, FieldKeepsIds
  <2> QED
    BY <2>1, <2>2, <2>3 DEF QuietStep, SameStacks
<1> QED
  BY <1>1, <1>2, <1>3

LEMMA EndIsQuiet ==
    ASSUME Good, NEW a \in Actors,
           \/ \E p \in Procs, t \in Thrs : proc_del_thread(a, p, t)
           \/ DelFromQueue(a) \/ DropThreadRef(a) \/ thr_ref_dec(a)
    PROVE  QuietStep(a)
<1>1. ASSUME NEW p \in Procs, NEW t \in Thrs, proc_del_thread(a, p, t)
      PROVE  QuietStep(a)
  <2>1. act[a].pc \notin EarlyPCs /\ UNCHANGED <<v, thr>> /\ "del" \notin EarlyPCs
    BY <1>1 DEF proc_del_thread, At, EarlyPCs
  <2>2. \E r : act' = [act EXCEPT ![a] = r] /\ r.pc \notin EarlyPCs
    BY <1>1, <2>1, BecomeRow DEF proc_del_thread
  <2>3. SameIds
    BY <1>1, RefIncIds DEF proc_del_thread
  <2> QED
    BY <2>1, <2>2, <2>3 DEF QuietStep, SameStacks
<1>2. CASE DelFromQueue(a)
  <2>1. act[a].pc \notin EarlyPCs /\ UNCHANGED <<v, thr>> /\ "unque" \notin EarlyPCs
    BY <1>2 DEF DelFromQueue, At, EarlyPCs
  <2>2. \E r : act' = [act EXCEPT ![a] = r] /\ r.pc \notin EarlyPCs
    BY <1>2, <2>1, GoRow DEF DelFromQueue
  <2>3. SameIds
    <3> DEFINE p == act[a].p
               x == Without(proc[p].thrque, act[a].t)
    <3>1. proc' = [proc EXCEPT ![p].thrque = x]
      BY <1>2 DEF DelFromQueue
    <3> HIDE DEF x, p
    <3> QED
      BY <3>1, FieldKeepsIds
  <2> QED
    BY <2>1, <2>2, <2>3 DEF QuietStep, SameStacks
<1>3. CASE DropThreadRef(a)
  <2>1. act[a].pc \notin EarlyPCs /\ UNCHANGED <<v, thr>> /\ "check" \notin EarlyPCs
    BY <1>3 DEF DropThreadRef, At, EarlyPCs
  <2>2. \E r : act' = [act EXCEPT ![a] = r] /\ r.pc \notin EarlyPCs
    BY <1>3, <2>1, GoRow DEF DropThreadRef
  <2>3. SameIds
    BY <1>3, RefDecIds DEF DropThreadRef
  <2> QED
    BY <2>1, <2>2, <2>3 DEF QuietStep, SameStacks
<1>4. CASE thr_ref_dec(a)
  <2>1. act[a].pc \notin EarlyPCs /\ UNCHANGED <<v, proc>> /\ "idle" \notin EarlyPCs
    BY <1>4 DEF thr_ref_dec, At, EarlyPCs
  <2>2. \E r : act' = [act EXCEPT ![a] = r] /\ r.pc \notin EarlyPCs
    BY <1>4, <2>1, BecomeRow DEF thr_ref_dec
  <2>3. SameStacks
    <3> DEFINE t == act[a].t
               x == IF thr[t].refs = 1 THEN [FreeThr EXCEPT !.stk = thr[t].stk]
                    ELSE [thr[t] EXCEPT !.refs = @ - 1]
    <3>1. thr' = [thr EXCEPT ![t] = x]
      BY <1>4 DEF thr_ref_dec
    <3>2. t \in Thrs => x.stk = thr[t].stk
      <4>1. t \in Thrs => thr[t] \in ThrType
        BY DEF Good, TypeOK
      <4>2. [FreeThr EXCEPT !.stk = thr[t].stk].stk = thr[t].stk
        BY DEF FreeThr
      <4>3. t \in Thrs => [thr[t] EXCEPT !.refs = @ - 1].stk = thr[t].stk
        BY <4>1 DEF ThrType
      <4> QED
        BY <4>2, <4>3
    <3> HIDE DEF x, t
    <3> QED
      BY <3>1, <3>2, ThreadKeepsStack
  <2> QED
    BY <2>1, <2>2, <2>3 DEF QuietStep, SameIds
<1> QED
  BY <1>1, <1>2, <1>3, <1>4
LEMMA UpdateIsQuiet ==
    ASSUME Good, NEW a \in Actors, UpdateMaster(a)
    PROVE  QuietStep(a) \/ halted' # "no"
<1> DEFINE p == act[a].p
           t == act[a].t
           Moved == \E x : proc' = [proc EXCEPT ![p].master = x]
<1>1. \/ halted' = "thr->p"
      \/ (proc' = proc \/ Moved) /\ Go(a, "leave")
  <2>1. CASE proc[p].thrque = <<>>
    BY <2>1 DEF UpdateMaster
  <2>2. CASE proc[p].thrque # <<>>
    <3>1. PICK q \in IF thr[t].p = NoProc THEN Procs \cup {NoProc} ELSE {thr[t].p} :
            IF q = NoProc THEN halted' = "thr->p" /\ UNCHANGED <<act, proc>>
            ELSE /\ proc' = IF proc[q].master = t THEN [proc EXCEPT ![p].master = queue_top(q)] ELSE proc
                 /\ Go(a, "leave") /\ UNCHANGED halted
      BY <2>2 DEF UpdateMaster
    <3> QED
      BY <3>1
  <2> QED
    BY <2>1, <2>2
<1>2. CASE (proc' = proc \/ Moved) /\ Go(a, "leave")
  <2>1. act[a].pc \notin EarlyPCs /\ UNCHANGED <<v, thr>> /\ "leave" \notin EarlyPCs
    BY DEF UpdateMaster, At, EarlyPCs
  <2>2. \E r : act' = [act EXCEPT ![a] = r] /\ r.pc \notin EarlyPCs
    BY <1>2, <2>1, GoRow
  <2>3. CASE Moved
    <3>1. PICK x : proc' = [proc EXCEPT ![p].master = x]
      BY <2>3
    <3> HIDE DEF p
    <3> QED
      BY <2>1, <2>2, <3>1, FieldKeepsIds DEF QuietStep, SameStacks
  <2>4. CASE proc' = proc
    BY <2>1, <2>2, <2>4 DEF QuietStep, SameIds, SameStacks
  <2> QED
    BY <1>2, <2>3, <2>4
<1> QED
  BY <1>1, <1>2
(* The place of a client that creates: nobody else creates this process.   *)
LEMMA OneCreator ==
    ASSUME Good, NEW a \in Actors, NEW b \in Actors, act[a].pc \in CreatingPCs, act[b].pc \in CreatingPCs,
           act[b].p = act[a].p
    PROVE  b = a
<1> DEFINE p == act[a].p
           C == Creating(p)
<1>1. p \in Procs
  BY WorkedOn
<1>2. Cardinality(C) <= 1
  BY <1>1 DEF Good, ProcsOK, ProcOK
<1>3. IsFiniteSet(C) /\ a \in C /\ b \in C
  <2>1. C \in SUBSET Actors /\ a \in C /\ b \in C
    BY DEF Creating, CreatingPCs
  <2> QED
    BY <2>1, ProcAssumption, FS_Subset
<1> HIDE DEF C
<1>4. SUFFICES ASSUME b # a PROVE FALSE
  OBVIOUS
<1>5. PICK D : D = C \ {a}
  OBVIOUS
<1>6. IsFiniteSet(D) /\ Cardinality(C) = Cardinality(D) + 1 /\ Cardinality(D) \in Nat
  BY <1>3, <1>5, OneFewer
<1>7. b \in D
  BY <1>3, <1>4, <1>5
<1>8. Cardinality(D) = 0
  BY <1>2, <1>6
<1>9. D = {}
  BY <1>6, <1>8, FS_EmptySet
<1> QED
  BY <1>7, <1>9

(* A process that is created leaves the set that its creator is in.        *)
LEMMA UnderLess ==
    ASSUME Good, NEW a \in Actors, act[a].pc \in EarlyPCs, NEW r, act' = [act EXCEPT ![a] = r],
           r.pc # act[a].pc
    PROVE  /\ Under(act', act[a].pc) = Under(act, act[a].pc) \ {act[a].p}
           /\ act[a].p \in Under(act, act[a].pc)
           /\ \A pc \in EarlyPCs : pc # act[a].pc => act[a].p \notin Under(act, pc)
<1> DEFINE p == act[a].p
<1>1. act \in [Actors -> ActType] /\ EarlyPCs \subseteq CreatingPCs
  BY DEF Good, TypeOK, EarlyPCs, CreatingPCs
<1>2. act'[a] = r /\ \A b \in Actors \ {a} : act'[b] = act[b]
  BY <1>1
<1>3. \A b \in Actors : act[b].pc \in EarlyPCs /\ act[b].p = p => b = a
  BY <1>1, OneCreator
<1>4. p \in Spaces
  BY <1>1, RowFacts, WorkedOn DEF RowOK, Procs
<1> HIDE DEF p
<1>5. p \in Under(act, act[a].pc) /\ p = act[a].p
  BY <1>4 DEF Under, p
<1>6. \A pc \in EarlyPCs : pc # act[a].pc => p \notin Under(act, pc)
  BY <1>3, <1>5 DEF Under
<1>7. Under(act', act[a].pc) = Under(act, act[a].pc) \ {p}
  BY <1>2, <1>3, <1>5 DEF Under
<1> QED
  BY <1>5, <1>6, <1>7

LEMMA UnderMore ==
    ASSUME Good, NEW a \in Actors, NEW r, act' = [act EXCEPT ![a] = r], r.p \in Spaces, act[a].pc # r.pc
    PROVE  Under(act', r.pc) = Under(act, r.pc) \cup {r.p}
<1>1. act \in [Actors -> ActType]
  BY DEF Good, TypeOK
<1>2. act'[a] = r /\ \A b \in Actors \ {a} : act'[b] = act[b]
  BY <1>1
<1> QED
  BY <1>2 DEF Under
(* proc_user_allocate: a process with a number and without pages.          *)
LEMMA AllocatePages ==
    ASSUME Good, PInv, halted = "no", NEW a \in Actors, NEW p \in Spaces, proc_user_allocate(a, p)
    PROVE  PInv'
<1>1. act[a].pc = "idle" /\ p \in Unused /\ UNCHANGED <<v, thr, halted>>
  BY DEF proc_user_allocate, At
<1>2. CASE Ids \ ids = {}
  <2>1. UNCHANGED <<proc, act>>
    BY <1>2 DEF proc_user_allocate
  <2>2. Full' = Full /\ InStep("stack")' = InStep("stack") /\ StackOf' = StackOf
    BY <1>1, <2>1 DEF Full, InStep, Creating, Unused, StackOf
  <2> QED
    BY <1>1, <2>2 DEF PInv
<1>3. CASE Ids \ ids # {}
  <2> DEFINE r == [pc |-> "pgtbl", p |-> p, t |-> NoThr]
             new == allocate_process_common(thr_id_alloc(ids))
  <2>1. act' = [act EXCEPT ![a] = r] /\ proc' = [proc EXCEPT ![p] = new] /\ r.p = p /\ r.pc = "pgtbl"
    BY <1>3 DEF proc_user_allocate, Become
  <2>2. new.id # NoId
    BY <1>3, NewNumber DEF allocate_process_common
  <2> HIDE DEF r, new
  <2>3. Under(act', "pgtbl") = Under(act, "pgtbl") \cup {p} /\ Under(act', "stack") = Under(act, "stack")
    BY <1>1, <2>1, UnderMore, UnderKeeps
  <2>4. Unused' = Unused \ {p}
    <3>1. proc \in [Procs -> ProcType] /\ p \in Procs
      BY DEF Good, TypeOK, Procs
    <3>2. proc'[p] = new /\ \A q \in Spaces \ {p} : proc'[q] = proc[q]
      BY <2>1, <3>1 DEF Procs
    <3> QED
      BY <2>2, <3>2 DEF Unused
  <2>5. Full' = Full /\ InStep("stack")' = InStep("stack")
    BY <1>1, <2>3, <2>4, UnderIs
  <2>6. StackOf' = StackOf
    BY <1>1 DEF StackOf
  <2> QED
    BY <1>1, <2>5, <2>6 DEF PInv
<1> QED
  BY <1>2, <1>3

\* A process that is created has a number.
LEMMA CreatedHasNumber ==
    ASSUME Good, NEW a \in Actors, act[a].pc \in EarlyPCs
    PROVE  act[a].p \in Spaces /\ act[a].p \notin Unused
<1>1. act[a].pc \in CreatingPCs
  BY DEF EarlyPCs, CreatingPCs
<1>2. act[a].p \in Spaces
  BY <1>1, RowFacts, WorkedOn DEF RowOK, Procs
<1>3. proc[act[a].p].refs > 0 /\ ProcOK(act[a].p)
  BY <1>1, WorkedOn DEF Good, ProcsOK
<1> QED
  BY <1>2, <1>3 DEF ProcOK, Unused

LEMMA TablePages ==
    ASSUME Good, PInv, halted = "no", NEW a \in Actors, AllocTable(a)
    PROVE  PInv'
<1> DEFINE p == act[a].p
           w == pgtbl_alloc_user_pgtbl(v, p)
           r == [pc |-> "stack", p |-> p, t |-> act[a].t]
<1>1. act[a].pc = "pgtbl" /\ UNCHANGED <<thr, proc>>
  BY DEF AllocTable, At
<1>2. CASE w.panic
  BY <1>2 DEF AllocTable, PInv
<1>3. CASE ~ w.panic
  <2>1. v' = w /\ act' = [act EXCEPT ![a] = r] /\ r.p = p /\ r.pc = "stack"
    BY <1>3 DEF AllocTable, Go, Become
  <2>2. p \in Spaces /\ p \notin Unused
    BY <1>1, CreatedHasNumber DEF EarlyPCs
  <2> HIDE DEF r, w
  <2>3. /\ Under(act', "pgtbl") = Under(act, "pgtbl") \ {p} /\ p \in Under(act, "pgtbl")
        /\ p \notin Under(act, "stack")
    <3>1. act[a].pc \in EarlyPCs /\ "stack" \in EarlyPCs
      BY <1>1 DEF EarlyPCs
    <3> QED
      BY <1>1, <2>1, <3>1, UnderLess
  <2>4. Under(act', "stack") = Under(act, "stack") \cup {p}
    BY <1>1, <2>1, <2>2, UnderMore
  <2>5. Unused' = Unused
    BY <1>1 DEF Unused
  <2>6. /\ Full' = Full /\ InStep("stack")' = InStep("stack") \cup {p}
        /\ p \notin Full /\ p \notin InStep("stack")
    BY <2>2, <2>3, <2>4, <2>5, UnderIs
  <2>7. StackOf' = StackOf
    BY <1>1 DEF StackOf
  <2>8. Accounted(v, Full, InStep("stack"), StackOf)
    BY DEF PInv
  <2>9. Accounted(w, Full, InStep("stack") \cup {p}, StackOf)
    <3> HIDE DEF p
    <3>1. w = pgtbl_alloc_user_pgtbl(v, p)
      BY DEF w
    <3> QED
      BY <1>3, <2>2, <2>6, <2>8, <3>1, TableAccounted
  <2> QED
    BY <2>1, <2>6, <2>7, <2>9 DEF PInv
<1> QED
  BY <1>2, <1>3

LEMMA StackPages ==
    ASSUME Good, PInv, halted = "no", NEW a \in Actors, MapStack(a)
    PROVE  PInv'
<1> DEFINE p == act[a].p
           m == vm_map_common(v, p, StackPage, Stack.prot, 1)
           r == [pc |-> "first", p |-> p, t |-> act[a].t]
<1>1. act[a].pc = "stack" /\ UNCHANGED <<thr, proc>>
  BY DEF MapStack, At
<1>2. CASE m.rc # "OK"
  <2>1. halted' = "tables" \/ halted' = "unwind"
    BY <1>2 DEF MapStack
  <2> QED
    BY <2>1 DEF PInv
<1>3. CASE m.rc = "OK"
  <2>1. v' = m.v /\ act' = [act EXCEPT ![a] = r] /\ r.pc = "first"
    BY <1>3 DEF MapStack, Go, Become
  <2>2. p \in Spaces /\ p \notin Unused
    BY <1>1, CreatedHasNumber DEF EarlyPCs
  <2> HIDE DEF r, m
  <2>3. /\ Under(act', "stack") = Under(act, "stack") \ {p} /\ p \in Under(act, "stack")
        /\ p \notin Under(act, "pgtbl")
    <3>1. act[a].pc \in EarlyPCs /\ "pgtbl" \in EarlyPCs
      BY <1>1 DEF EarlyPCs
    <3> QED
      BY <1>1, <2>1, <3>1, UnderLess
  <2>4. Under(act', "pgtbl") = Under(act, "pgtbl")
    BY <1>1, <2>1, UnderKeeps
  <2>5. Unused' = Unused
    BY <1>1 DEF Unused
  <2>6. /\ Full' = Full \cup {p} /\ InStep("stack")' = InStep("stack") \ {p} /\ p \in InStep("stack")
    BY <2>2, <2>3, <2>4, <2>5, UnderIs
  <2>7. StackOf' = StackOf
    BY <1>1 DEF StackOf
  <2>8. Accounted(v, Full, InStep("stack"), StackOf)
    BY DEF PInv
  <2>9. Accounted(m.v, Full \cup {p}, InStep("stack") \ {p}, StackOf)
    <3> HIDE DEF p
    <3>1. m = vm_map_common(v, p, StackPage, Stack.prot, 1)
      BY DEF m
    <3> QED
      BY <1>3, <2>6, <2>8, <3>1, StackAccounted
  <2> QED
    BY <2>1, <2>6, <2>7, <2>9 DEF PInv
<1> QED
  BY <1>2, <1>3
(* Free: the process had a number, and nobody works on it.                 *)
LEMMA FreedIs ==
    ASSUME Good, NEW a \in Actors, act[a].pc = "free", act[a].p # KernProc
    PROVE  act[a].p \in Spaces /\ act[a].p \notin Unused /\ Creating(act[a].p) = {}
<1> DEFINE p == act[a].p
           F == Freeing(p)
           C == Creating(p)
<1>1. p \in Procs /\ p \in Spaces
  BY RowFacts DEF Procs
<1>2. ProcOK(p)
  BY <1>1 DEF Good, ProcsOK
<1>3. IsFiniteSet(F) /\ IsFiniteSet(C) /\ a \in F
  <2>1. F \in SUBSET Actors /\ C \in SUBSET Actors /\ a \in F
    BY DEF Freeing, Creating
  <2> QED
    BY <2>1, ProcAssumption, FS_Subset
<1>4. Cardinality(F) = IF proc[p].refs = 0 /\ proc[p].id # NoId THEN 1 ELSE 0
  BY <1>2 DEF ProcOK
<1> HIDE DEF F
<1>5. Cardinality(F) # 0
  BY <1>3, FS_EmptySet
<1>6. proc[p].refs = 0 /\ proc[p].id # NoId
  BY <1>4, <1>5
<1>7. C = {}
  <2>1. SUFFICES ASSUME NEW b \in C PROVE FALSE
    OBVIOUS
  <2>2. b \in Actors /\ act[b].pc \in CreatingPCs /\ act[b].p = p
    BY <2>1 DEF Creating, CreatingPCs
  <2>3. proc[p].refs > 0
    BY <2>2, WorkedOn
  <2> QED
    BY <1>6, <2>3
<1> QED
  BY <1>1, <1>6, <1>7 DEF Unused

LEMMA FreePages ==
    ASSUME Good, PInv, halted = "no", NEW a \in Actors, Free(a)
    PROVE  PInv'
<1> DEFINE p == act[a].p
           w == free_user_process(v, p)
<1>1. act[a].pc = "free" /\ UNCHANGED thr
  BY DEF Free, At
<1>2. CASE p = KernProc
  BY <1>2 DEF Free, PInv
<1>3. CASE p # KernProc
  <2>1. p \in Spaces /\ p \notin Unused /\ Creating(p) = {}
    BY <1>1, <1>3, FreedIs
  <2>2. v' = w /\ proc' = [proc EXCEPT ![p] = FreeProc] /\ Finish(a)
    BY <1>3 DEF Free
  <2> HIDE DEF w
  <2>3. PICK r : act' = [act EXCEPT ![a] = r] /\ r.pc \notin EarlyPCs
    BY <2>2, FinishIs
  <2>4. Under(act', "pgtbl") = Under(act, "pgtbl") /\ Under(act', "stack") = Under(act, "stack")
    BY <1>1, <2>3, UnderKeeps DEF EarlyPCs
  <2>5. Unused' = Unused \cup {p}
    <3>1. proc \in [Procs -> ProcType] /\ p \in Procs
      BY <2>1 DEF Good, TypeOK, Procs
    <3> HIDE DEF p
    <3>2. proc'[p] = FreeProc /\ \A q \in Spaces \ {p} : proc'[q] = proc[q]
      BY <2>2, <3>1 DEF Procs
    <3> QED
      BY <2>1, <3>2 DEF Unused, FreeProc
  <2>6. p \notin Under(act, "pgtbl") /\ p \notin Under(act, "stack")
    BY <2>1 DEF Under, Creating
  <2>7. Full' = Full \ {p} /\ InStep("stack")' = InStep("stack") /\ p \in Full
    BY <2>1, <2>4, <2>5, <2>6, UnderIs
  <2>8. StackOf' = StackOf
    BY <1>1 DEF StackOf
  <2>9. Accounted(v, Full, InStep("stack"), StackOf)
    BY DEF PInv
  <2>10. Accounted(w, Full \ {p}, InStep("stack"), StackOf)
    <3> HIDE DEF p
    <3>1. w = free_user_process(v, p)
      BY DEF w
    <3> QED
      BY <2>7, <2>9, <3>1, FreeAccounted
  <2> QED
    BY <2>2, <2>7, <2>8, <2>10 DEF PInv
<1> QED
  BY <1>2, <1>3

(* FirstThread and CreateThread: a thread with a page for its stack.       *)
LEMMA CreatePages ==
    ASSUME Good, PInv, halted = "no", NEW a \in Actors, NEW t \in Thrs, FirstThread(a, t) \/ CreateThread(a, t)
    PROVE  PInv'
<1>1. CASE FirstThread(a, t) /\ ~ CanCreate
  BY <1>1 DEF FirstThread, PInv
<1>2. CASE CreateThread(a, t) \/ (FirstThread(a, t) /\ CanCreate)
  <2>1. /\ act[a].pc \notin EarlyPCs /\ CanCreate /\ create_thread(t) /\ UNCHANGED proc
        /\ \E pc : pc \notin EarlyPCs /\ Become(a, pc, act[a].p, t)
    <3>1. "made" \notin EarlyPCs /\ "enter" \notin EarlyPCs /\ "first" \notin EarlyPCs /\ "hold" \notin EarlyPCs
      BY DEF EarlyPCs
    <3>2. CASE CreateThread(a, t)
      BY <3>1, <3>2 DEF CreateThread, At
    <3>3. CASE FirstThread(a, t) /\ CanCreate
      BY <3>1, <3>3 DEF FirstThread, At
    <3> QED
      BY <1>2, <3>2, <3>3
  <2>2. PICK r : act' = [act EXCEPT ![a] = r] /\ r.pc \notin EarlyPCs
    BY <2>1, BecomeRow
  <2>3. Under(act', "pgtbl") = Under(act, "pgtbl") /\ Under(act', "stack") = Under(act, "stack")
    BY <2>1, <2>2, UnderKeeps DEF EarlyPCs
  <2>4. Full' = Full /\ InStep("stack")' = InStep("stack")
    <3>1. Unused' = Unused
      BY <2>1 DEF Unused
    <3> QED
      BY <2>3, <3>1, UnderIs
  <2> DEFINE w == get_free_page_cluster(v, NewStack(v), 1)
  <2>5. /\ thr[t] = FreeThr /\ thr' = [thr EXCEPT ![t] = Made(thr_id_alloc(ids), NewStack(v))]
        /\ v' = w /\ FreeClusters(v, 1) # {}
    <3>1. thr[t] = FreeThr
      BY <2>1 DEF create_thread
    <3>2. thr' = [thr EXCEPT ![t] = [thr[t] EXCEPT !.refs = 1, !.id = thr_id_alloc(ids), !.stk = NewStack(v)]]
      BY <2>1, Zenon DEF create_thread
    <3>3. v' = w /\ FreeClusters(v, 1) # {}
      BY <2>1 DEF create_thread, CanCreate
    <3> QED
      BY <3>1, <3>2, <3>3 DEF Made
  <2> DEFINE s == NewStack(v)
             new == Made(thr_id_alloc(ids), s)
  <2>6. new.stk = s
    BY DEF Made, FreeThr
  <2>7. thr[t].stk = NoFrame
    BY <2>5 DEF FreeThr
  <2> HIDE DEF w, new
  <2>8. StackOf[t] = NoFrame /\ StackOf'[t] = s /\ \A o \in Thrs \ {t} : StackOf'[o] = StackOf[o]
    <3>1. thr \in [Thrs -> ThrType]
      BY DEF Good, TypeOK
    <3>2. thr'[t] = new /\ \A o \in Thrs \ {t} : thr'[o] = thr[o]
      BY <2>5, <3>1 DEF new
    <3> QED
      BY <2>6, <2>7, <3>2 DEF StackOf
  <2>9. Accounted(v, Full, InStep("stack"), StackOf)
    BY DEF PInv
  <2>10. Accounted(w, Full, InStep("stack"), StackOf')
    <3>1. w = get_free_page_cluster(v, NewStack(v), 1)
      BY DEF w
    <3> QED
      BY <2>5, <2>8, <2>9, <3>1, ThreadAccounted
  <2> QED
    BY <2>4, <2>5, <2>10 DEF PInv
<1> QED
  BY <1>1, <1>2

(* Reap: the stack of a thread that has ended.                             *)
LEMMA ReapPages ==
    ASSUME Good, PInv, NEW t \in Thrs, Reap(t)
    PROVE  PInv'
<1> DEFINE w == pfdb_dec_page_use_count(v, thr[t].stk)
<1>1. /\ halted = "no" /\ thr[t].stk # NoFrame /\ thr' = [thr EXCEPT ![t] = FreeThr] /\ v' = w
      /\ UNCHANGED <<proc, act, halted>>
  BY DEF Reap
<1> HIDE DEF w
<1>2. Full' = Full /\ InStep("stack")' = InStep("stack")
  BY <1>1 DEF Full, InStep, Creating, Unused
<1>3. /\ StackOf[t] = thr[t].stk /\ StackOf[t] # NoFrame /\ StackOf'[t] = NoFrame
      /\ \A o \in Thrs \ {t} : StackOf'[o] = StackOf[o]
  <2>1. thr \in [Thrs -> ThrType]
    BY DEF Good, TypeOK
  <2>2. thr'[t] = FreeThr /\ \A o \in Thrs \ {t} : thr'[o] = thr[o]
    BY <1>1, <2>1
  <2> QED
    BY <1>1, <2>2 DEF StackOf, FreeThr
<1>4. Accounted(v, Full, InStep("stack"), StackOf)
  BY <1>1 DEF PInv
<1>5. Accounted(w, Full, InStep("stack"), StackOf')
  <2>1. w = pfdb_dec_page_use_count(v, StackOf[t])
    BY <1>3 DEF w
  <2> QED
    BY <1>3, <1>4, <2>1, ReapAccounted
<1> QED
  BY <1>1, <1>2, <1>5 DEF PInv
LEMMA StandsStill ==
    ASSUME PInv, UNCHANGED <<v, proc, thr, act, halted>>
    PROVE  PInv'
BY DEF PInv, Full, InStep, Creating, Unused, StackOf

LEMMA PagesStep ==
    ASSUME IInv, PInv, ProcStep
    PROVE  PInv'
<1>1. CASE ProcHalt
  BY <1>1, StandsStill DEF ProcHalt, procVars
<1>2. ASSUME NEW t \in Thrs, Reap(t) PROVE PInv'
  BY <1>2, ReapPages DEF Reap, IInv
<1>3. ASSUME NEW a \in Actors, Creates(a) PROVE PInv'
  <2>1. Good /\ halted = "no"
    BY <1>3 DEF Creates, proc_user_allocate, FirstThread, CreateThread, AllocTable, MapStack, Enter, At, IInv
  <2>2. ASSUME NEW p \in Spaces, proc_user_allocate(a, p) PROVE PInv'
    BY <2>1, <2>2, AllocatePages
  <2>3. ASSUME NEW t \in Thrs, FirstThread(a, t) \/ CreateThread(a, t) PROVE PInv'
    BY <2>1, <2>3, CreatePages
  <2>4. CASE AllocTable(a)
    BY <2>1, <2>4, TablePages
  <2>5. CASE MapStack(a)
    BY <2>1, <2>5, StackPages
  <2>6. CASE Enter(a)
    BY <2>1, <2>6, JoinIsQuiet, QuietStepKeeps
  <2> QED
    BY <1>3, <2>2, <2>3, <2>4, <2>5, <2>6 DEF Creates
<1>4. ASSUME NEW a \in Actors, Lookups(a) PROVE PInv'
  <2>1. Good /\ halted = "no"
    BY <1>4 DEF Lookups, proc_find_by_pid, proc_find_thread, Find, Take, TakeKernel, proc_kproc_refer, Put, ReadMaster,
                RefMaster, UnrefProc, At, IInv
  <2>2. CASE \/ TakeKernel(a)
             \/ \E b \in Actors : Take(a, b)
             \/ \E i \in Ids : proc_find_by_pid(a, i) \/ proc_find_thread(a, i)
    BY <2>1, <2>2, LookupIsQuiet, QuietStepKeeps
  <2>3. CASE Put(a)
    <3>1. act[a].pc \notin EarlyPCs /\ proc_ref_dec(a, act[a].p) /\ UNCHANGED <<v, thr>>
      BY <2>3 DEF Put, At, EarlyPCs
    <3> QED
      BY <2>1, <3>1, DropIsQuiet, QuietStepKeeps
  <2>4. CASE ReadMaster(a) \/ RefMaster(a) \/ UnrefProc(a)
    BY <2>1, <2>4, MasterIsQuiet, QuietStepKeeps
  <2> QED
    BY <1>4, <2>2, <2>3, <2>4 DEF Lookups
<1>5. ASSUME NEW a \in Actors, Changes(a) PROVE PInv'
  <2>1. Good /\ halted = "no"
    BY <1>5 DEF Changes, proc_del_thread, proc_add_thread, AddToQueue, DelFromQueue, DropThreadRef, UpdateMaster,
                Leave, Free, thr_ref_dec, At, IInv
  <2>2. CASE proc_add_thread(a) \/ AddToQueue(a)
    BY <2>1, <2>2, JoinIsQuiet, QuietStepKeeps
  <2>3. CASE \/ \E p \in Procs, t \in Thrs : proc_del_thread(a, p, t)
             \/ DelFromQueue(a) \/ DropThreadRef(a) \/ thr_ref_dec(a)
    BY <2>1, <2>3, EndIsQuiet, QuietStepKeeps
  <2>4. CASE UpdateMaster(a)
    <3>1. QuietStep(a) \/ halted' # "no"
      BY <2>1, <2>4, UpdateIsQuiet
    <3>2. CASE halted' # "no"
      BY <3>2 DEF PInv
    <3> QED
      BY <2>1, <3>1, <3>2, QuietStepKeeps
  <2>5. CASE Leave(a)
    <3>1. act[a].pc \notin EarlyPCs /\ proc_ref_dec(a, act[a].p) /\ UNCHANGED <<v, thr>>
      BY <2>5 DEF Leave, At, EarlyPCs
    <3> QED
      BY <2>1, <3>1, DropIsQuiet, QuietStepKeeps
  <2>6. CASE Free(a)
    BY <2>1, <2>6, FreePages
  <2> QED
    BY <1>5, <2>2, <2>3, <2>4, <2>5, <2>6, Zenon DEF Changes
<1> QED
  BY <1>1, <1>2, <1>3, <1>4, <1>5 DEF ProcStep

LEMMA PagesInit ==
    ASSUME VmInit, ProcInit
    PROVE  PInv
<1>1. v = PageTableInit /\ thr = [t \in Thrs |-> FreeThr] /\ act = [a \in Actors |-> Idle]
  BY DEF VmInit, ProcInit
<1>2. /\ v.use = [f \in Frames |-> 0] /\ v.len = [f \in Frames |-> 0] /\ v.pte = [f \in Frames |-> NoTable]
      /\ v.base = [s \in Spaces |-> NoFrame] /\ v.panic = FALSE /\ v.nr = [s \in Spaces |-> 0] /\ IsRecord(v)
  BY <1>1 DEF PageTableInit, IsRecord
<1>3. Single(v)
  <2>1. v.use \in [Frames -> Nat] /\ v.len \in [Frames -> Nat] /\ v.base \in [Spaces -> Frames \cup {NoFrame}]
    BY <1>2
  <2>2. v.pte \in [Frames -> TableType]
    BY <1>2, EmptyIs
  <2>3. Shape(v)
    BY <1>2, <2>1, <2>2 DEF Shape
  <2>4. v.nr \in [Spaces -> Nat] /\ \A f \in Frames : v.len[f] \in {0, 1}
    BY <1>2
  <2> QED
    BY <2>3, <2>4 DEF Single
<1>4. Unused = Spaces /\ InStep("pgtbl") = {} /\ InStep("stack") = {} /\ Full = {}
  <2>1. \A p \in Spaces : proc[p] = FreeProc
    BY ProcAssumption DEF ProcInit, init_kernel_process, Procs
  <2>2. Unused = Spaces
    BY <2>1 DEF Unused, FreeProc
  <2>3. \A a \in Actors : act[a].pc = "idle"
    BY <1>1 DEF Idle
  <2>4. InStep("pgtbl") = {} /\ InStep("stack") = {}
    BY <2>3 DEF InStep, Creating
  <2> QED
    BY <2>2, <2>4 DEF Full
<1>5. \A t \in Thrs : StackOf[t] = NoFrame
  BY <1>1 DEF StackOf, FreeThr
<1>6. \E W : Laid(v, W, {}, {}, StackOf)
  <2>1. Laid(v, 0, {}, {}, StackOf)
    BY <1>2, <1>3, <1>5 DEF Laid, Without0
  <2> QED
    BY <2>1
<1>7. Counts4(v, {}, {}, {t \in Thrs : StackOf[t] # NoFrame})
  <2> DEFINE K == {t \in Thrs : StackOf[t] # NoFrame}
  <2>1. Used(v) = {} /\ K = {}
    BY <1>2, <1>5 DEF Used
  <2>2. IsFiniteSet({}) /\ Cardinality({}) = 0
    BY FS_EmptySet
  <2> HIDE DEF K
  <2>3. Cardinality(Used(v)) = 0 /\ Cardinality(K) = 0 /\ IsFiniteSet(K)
    BY <2>1, <2>2
  <2>4. Cardinality(Used(v)) = 4 * Cardinality({}) + Cardinality({}) + Cardinality(K)
    BY <2>2, <2>3
  <2> QED
    BY <2>2, <2>3, <2>4 DEF Counts4, K
<1>8. Accounted(v, {}, {}, StackOf)
  BY <1>6, <1>7 DEF Accounted
<1> QED
  BY <1>4, <1>8 DEF PInv

LEMMA PagesAreGivenBack == PInv => PagesGivenBack
<1> SUFFICES ASSUME PInv, halted = "no"
             PROVE  /\ ~ v.panic
                    /\ Cardinality(Taken(v)) = 4 * Cardinality(Full) + Cardinality(InStep("stack"))
                                                 + Cardinality({t \in Thrs : thr[t].stk # NoFrame})
                    /\ {p \in Spaces : v.base[p] # NoFrame} = Full \cup InStep("stack")
  BY DEF PagesGivenBack
<1> DEFINE F == Full
           B == InStep("stack")
<1>1. Accounted(v, F, B, StackOf)
  BY DEF PInv
<1> HIDE DEF F, B
<1>2. PICK W : Laid(v, W, F, B, StackOf)
  BY <1>1 DEF Accounted
<1>3. Single(v) /\ ~ v.panic
  BY <1>2 DEF Laid
<1>4. {t \in Thrs : thr[t].stk # NoFrame} = {t \in Thrs : StackOf[t] # NoFrame}
  BY DEF StackOf
<1>5. Cardinality(Taken(v)) = 4 * Cardinality(F) + Cardinality(B) + Cardinality({t \in Thrs : thr[t].stk # NoFrame})
  BY <1>1, <1>3, <1>4, FreeIs DEF Accounted, Counts4
<1>6. {p \in Spaces : v.base[p] # NoFrame} = F \cup B
  <2>1. \A p \in F : p \in Spaces /\ v.base[p] \in Frames
    BY <1>1, <1>2 DEF Accounted, Laid, Complete, Cells, Cell
  <2>2. \A p \in B : p \in Spaces /\ v.base[p] \in Frames
    BY <1>1, <1>2 DEF Accounted, Laid, Bare, Cell
  <2>3. \A p \in Spaces \ (F \cup B) : v.base[p] = NoFrame
    BY <1>2 DEF Laid, Without0
  <2>4. NoFrame \notin Frames
    BY PageTableFacts
  <2> QED
    BY <2>1, <2>2, <2>3, <2>4
<1> QED
  BY <1>3, <1>5, <1>6 DEF F, B

(* The page pool holds the tables and the stacks of the processes that     *)
(* exist and the kernel stacks of threads, and nothing else: whatever the  *)
(* clients do, what a process had is given back with it, once              *)
(* (free_user_process, proc_ref_dec).                                      *)
THEOREM PagesAlwaysGivenBack == ProcSpec => []PagesGivenBack
<1>1. VmInit /\ ProcInit => PInv
  BY PagesInit
<1>2. IInv /\ PInv /\ [ProcStep]_<<vmVars, procVars>> => PInv'
  <2>1. ASSUME PInv, UNCHANGED <<vmVars, procVars>> PROVE PInv'
    BY <2>1, StandsStill DEF vmVars, procVars
  <2> QED
    BY <2>1, PagesStep
<1>3. PInv => PagesGivenBack
  BY PagesAreGivenBack
<1> QED
  BY <1>1, <1>2, <1>3, ProcInvariance, PTL DEF ProcSpec

=============================================================================
