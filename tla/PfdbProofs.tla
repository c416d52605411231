----------------------------- MODULE PfdbProofs -----------------------------
(***************************************************************************)
(* Proofs about Pfdb, for every size of the area, every maximal order and  *)
(* every bound on the use counts.                                          *)
(*                                                                         *)
(* The argument.  The merge test of enqueue_page_to_buddy_pool looks at    *)
(* the order and the state bits of the buddy only.  It unlinks the right   *)
(* cluster because the clusters partition the area (Partition) and because *)
(* what is neither used nor kept away but heads a cluster is linked in the *)
(* list of its order (Listed).  Both are inductive together, with the      *)
(* counters beside them (Core), in every state that follows no merge with  *)
(* a page between the two steps of a reservation: WindowOK says what such  *)
(* a page looks like, and torn ends the run when a merge takes one.        *)
(*                                                                         *)
(* The module starts with the arithmetic of buddies and with what joining  *)
(* and cutting clusters does to any partition, and goes on with one lemma  *)
(* per loop of the code and one per action.                                *)
(***************************************************************************)
EXTENDS Pfdb, FiniteSetTheorems, WellFoundedInduction, TLAPS

-----------------------------------------------------------------------------
(* The provers know 2^k \in Nat and 2^0 = 1 only: the law of the next      *)
(* power is derived here from the number of subsets of 1..k.               *)

(* The size of a cluster doubles with its order.                           *)
LEMMA NextPower == ASSUME NEW k \in Nat PROVE 2^(k + 1) = 2 * 2^k
<1> DEFINE A == SUBSET (1..k)
           B == SUBSET (1..(k + 1))
           C == B \ A
           f == [a \in A |-> a \cup {k + 1}]
<1>1. IsFiniteSet(1..k) /\ Cardinality(1..k) = k
  BY FS_Interval
<1>2. IsFiniteSet(1..(k + 1)) /\ Cardinality(1..(k + 1)) = k + 1
  BY FS_Interval
<1>3. IsFiniteSet(A) /\ Cardinality(A) = 2^k
  BY <1>1, FS_SUBSET
<1>4. IsFiniteSet(B) /\ Cardinality(B) = 2^(k + 1)
  BY <1>2, FS_SUBSET
<1>5. f \in Bijection(A, C)
  <2>1. f \in [A -> C]
    <3> SUFFICES ASSUME NEW a \in A PROVE a \cup {k + 1} \in C
      OBVIOUS
    <3>1. a \cup {k + 1} \in B
      OBVIOUS
    <3>2. k + 1 \notin 1..k
      OBVIOUS
    <3> QED
      BY <3>1, <3>2
  <2>2. ASSUME NEW a \in A, NEW b \in A, f[a] = f[b] PROVE a = b
    <3>1. k + 1 \notin a /\ k + 1 \notin b
      OBVIOUS
    <3>2. a \cup {k + 1} = b \cup {k + 1}
      BY <2>2
    <3> HIDE DEF A, B, C, f
    <3>3. \A x : x \in a <=> x \in b
      BY <3>1, <3>2
    <3> QED
      BY <3>3
  <2>3. ASSUME NEW c \in C PROVE \E a \in A : f[a] = c
    <3>1. k + 1 \in c
      OBVIOUS
    <3>2. c \ {k + 1} \in A
      OBVIOUS
    <3>3. f[c \ {k + 1}] = (c \ {k + 1}) \cup {k + 1}
      BY <3>2
    <3>4. (c \ {k + 1}) \cup {k + 1} = c
      BY <3>1
    <3> QED
      BY <3>2, <3>3, <3>4
  <2> QED
    BY <2>1, <2>2, <2>3 DEF Bijection, Injection, Surjection, IsInjective
<1>6. Cardinality(C) = Cardinality(A)
  BY <1>3, <1>5, FS_Bijection DEF ExistsBijection
<1>7. Cardinality(C) = Cardinality(B) - Cardinality(B \cap A)
  BY <1>4, FS_Difference
<1>8. B \cap A = A
  OBVIOUS
<1>9. 2^k \in Int /\ 2^(k + 1) \in Int
  OBVIOUS
<1> HIDE DEF A, B, C
<1>10. 2^k = 2^(k + 1) - 2^k
  BY <1>3, <1>4, <1>6, <1>7, <1>8
<1> QED
  BY <1>9, <1>10

(* Every non-empty set of natural numbers has a least element.             *)
LEMMA LeastElement ==
    ASSUME NEW S \in SUBSET Nat, S # {}
    PROVE  \E x \in S : \A y \in S : x <= y
<1>1. IsWellFoundedOn(OpToRel(<, Nat), Nat)
  BY NatLessThanWellFounded
<1>2. PICK x \in S : \A y \in S : <<y, x>> \notin OpToRel(<, Nat)
  BY <1>1, WFMin
<1>3. \A y \in S : ~ (y < x)
  BY <1>2 DEF OpToRel
<1> QED
  BY <1>3

(* A cluster is never empty.                                               *)
LEMMA PowerPositive == \A k \in Nat : 2^k \in Nat /\ 2^k >= 1
<1> DEFINE S == {k \in Nat : ~ (2^k >= 1)}
<1> SUFFICES ASSUME S # {} PROVE FALSE
  OBVIOUS
<1>1. PICK k \in S : \A j \in S : k <= j
  <2>1. S \in SUBSET Nat
    OBVIOUS
  <2> HIDE DEF S
  <2> QED
    BY <2>1, LeastElement
<1>2. k # 0
  <2>1. 2^0 = 1
    OBVIOUS
  <2>2. 0 \notin S
    BY <2>1
  <2> QED
    BY <1>1, <2>2
<1>3. k - 1 \in Nat /\ k - 1 \notin S
  BY <1>1, <1>2
<1>4. 2^(k - 1) >= 1 /\ 2^(k - 1) \in Nat
  BY <1>3
<1>5. 2^k = 2 * 2^(k - 1)
  <2>1. (k - 1) + 1 = k
    OBVIOUS
  <2> QED
    BY <1>3, <2>1, NextPower
<1> QED
  BY <1>4, <1>5

(* The size of a cluster divides the size of every larger one.             *)
LEMMA PowerDivides ==
    ASSUME NEW k \in Nat, NEW j \in Nat, k <= j
    PROVE  \E d \in Nat : d >= 1 /\ 2^j = d * 2^k
<1> DEFINE S == {n \in Nat : k <= n /\ ~ (\E d \in Nat : d >= 1 /\ 2^n = d * 2^k)}
<1> SUFFICES ASSUME S # {} PROVE FALSE
  OBVIOUS
<1>1. PICK n \in S : \A l \in S : n <= l
  <2>1. S \in SUBSET Nat
    OBVIOUS
  <2> HIDE DEF S
  <2> QED
    BY <2>1, LeastElement
<1>2. n # k
  <2>1. 2^k = 1 * 2^k
    BY PowerPositive
  <2> QED
    BY <2>1
<1>3. n - 1 \in Nat /\ n - 1 >= k /\ n - 1 \notin S
  <2>1. n \in Nat /\ k <= n
    OBVIOUS
  <2>2. n - 1 \in Nat /\ n - 1 >= k /\ ~ (n <= n - 1)
    BY <1>2, <2>1
  <2> HIDE DEF S
  <2> QED
    BY <1>1, <2>2
<1>4. PICK d \in Nat : d >= 1 /\ 2^(n - 1) = d * 2^k
  BY <1>3
<1>5. 2^n = 2 * 2^(n - 1)
  <2>1. (n - 1) + 1 = n
    OBVIOUS
  <2> QED
    BY <1>3, <2>1, NextPower
<1>6. 2^n = (2 * d) * 2^k
  BY <1>4, <1>5, PowerPositive
<1>7. 2 * d \in Nat /\ 2 * d >= 1
  BY <1>4
<1> QED
  BY <1>6, <1>7

-----------------------------------------------------------------------------
(* Aligned clusters.                                                       *)

(* Aligned indices are the multiples of the cluster size.                  *)
LEMMA AlignedMultiple ==
    ASSUME NEW i \in Nat, NEW k \in Nat
    PROVE  Aligned(i, k) <=> \E q \in Nat : i = q * 2^k
<1>1. 2^k \in Nat /\ 2^k >= 1
  BY PowerPositive
<1> DEFINE s == 2^k
<1> HIDE DEF s
<1>2. s \in Nat /\ s >= 1
  BY <1>1 DEF s
<1>3. (i % s = 0) => \E q \in Nat : i = q * s
  <2>1. i = s * (i \div s) + (i % s) /\ i \div s \in Nat
    BY <1>2
  <2> QED
    BY <1>2, <2>1
<1>4. ASSUME NEW q \in Nat, i = q * s PROVE i % s = 0
  BY <1>2, <1>4
<1> QED
  BY <1>3, <1>4 DEF Aligned, s

(* cur_idx & mask is the head of the aligned cluster that holds cur_idx.   *)
LEMMA TruncateBounds ==
    ASSUME NEW i \in Nat, NEW k \in Nat
    PROVE  /\ Truncate(i, k) \in Nat
           /\ Aligned(Truncate(i, k), k)
           /\ Truncate(i, k) <= i
           /\ i < Truncate(i, k) + 2^k
<1> DEFINE s == 2^k
           t == i - (i % s)
<1>1. s \in Nat /\ s >= 1
  BY PowerPositive
<1> HIDE DEF s
<1>2. i = s * (i \div s) + (i % s) /\ i \div s \in Nat /\ i % s \in 0..(s - 1)
  BY <1>1
<1>3. t = (i \div s) * s /\ t \in Nat
  BY <1>1, <1>2
<1>4. t <= i /\ i < t + s
  BY <1>1, <1>2
<1>5. Truncate(i, k) = t
  BY DEF Truncate, s
<1>6. Aligned(Truncate(i, k), k)
  BY <1>2, <1>3, <1>5, AlignedMultiple DEF s
<1> QED
  BY <1>3, <1>4, <1>5, <1>6 DEF s

(* Two clusters of one order that share a page are the same cluster.       *)
LEMMA AlignedUnique ==
    ASSUME NEW i \in Nat, NEW j \in Nat, NEW k \in Nat,
           Aligned(i, k), Aligned(j, k), i < j + 2^k, j < i + 2^k
    PROVE  i = j
<1> DEFINE s == 2^k
<1>1. s \in Nat /\ s >= 1
  BY PowerPositive
<1>2. PICK p \in Nat : i = p * s
  BY AlignedMultiple
<1>3. PICK q \in Nat : j = q * s
  BY AlignedMultiple
<1>4. i < j + s /\ j < i + s
  OBVIOUS
<1> HIDE DEF s
<1>5. p * s < (q + 1) * s /\ q * s < (p + 1) * s
  BY <1>1, <1>2, <1>3, <1>4
<1>6. p < q + 1 /\ q < p + 1
  <2>1. ASSUME NEW a \in Nat, NEW b \in Nat, a * s < b * s PROVE a < b
    BY <1>1, <2>1
  <2> QED
    BY <1>5, <2>1
<1> QED
  BY <1>2, <1>3, <1>6

(* Clusters nest: if two share a page, the larger contains the smaller.    *)
LEMMA ClustersNest ==
    ASSUME NEW p \in Nat, NEW k \in Nat, NEW q \in Nat, NEW j \in Nat, k <= j,
           Aligned(p, k), Aligned(q, j), p < q + 2^j, q < p + 2^k
    PROVE  q <= p /\ p + 2^k <= q + 2^j
<1> DEFINE s == 2^k
           u == 2^j
<1>1. s \in Nat /\ s >= 1 /\ u \in Nat /\ u >= 1
  BY PowerPositive
<1>2. PICK d \in Nat : d >= 1 /\ u = d * s
  BY PowerDivides
<1>3. PICK a \in Nat : p = a * s
  BY AlignedMultiple
<1>4. PICK b \in Nat : q = b * u
  BY AlignedMultiple
<1>5. p < q + u /\ q < p + s
  OBVIOUS
<1> HIDE DEF s, u
<1> DEFINE e == b * d
<1>6. e \in Nat /\ q = e * s
  BY <1>1, <1>2, <1>4
<1> HIDE DEF e
<1>7. a * s < (e + d) * s /\ e * s < (a + 1) * s
  BY <1>1, <1>2, <1>3, <1>5, <1>6
<1>8. ASSUME NEW x \in Nat, NEW y \in Nat, x * s < y * s PROVE x < y
  BY <1>1, <1>8
<1>9. a < e + d /\ e < a + 1
  BY <1>2, <1>6, <1>7, <1>8
<1>10. ASSUME NEW x \in Nat, NEW y \in Nat, x <= y PROVE x * s <= y * s
  BY <1>1, <1>10
<1>11. e * s <= a * s /\ (a + 1) * s <= (e + d) * s
  BY <1>2, <1>6, <1>9, <1>10
<1>12. q <= p /\ p + s <= q + u
  BY <1>1, <1>2, <1>3, <1>6, <1>11
<1> QED
  BY <1>12 DEF s, u

(* What is aligned to a large cluster is aligned to every smaller one.     *)
LEMMA AlignedDown ==
    ASSUME NEW p \in Nat, NEW k \in Nat, NEW j \in Nat, k <= j, Aligned(p, j)
    PROVE  Aligned(p, k)
<1>1. PICK d \in Nat : d >= 1 /\ 2^j = d * 2^k
  BY PowerDivides
<1>2. PICK b \in Nat : p = b * 2^j
  BY AlignedMultiple
<1>3. p = (b * d) * 2^k /\ b * d \in Nat
  BY <1>1, <1>2, PowerPositive
<1> QED
  BY <1>3, AlignedMultiple

-----------------------------------------------------------------------------
(* Buddies.                                                                *)

(* A cluster and its buddy are the two halves of the aligned cluster one   *)
(* order above.                                                            *)
LEMMA BuddyPair ==
    ASSUME NEW p \in Nat, NEW k \in Nat, Aligned(p, k)
    PROVE  LET b == Buddy(p, k)
               t == Truncate(p, k + 1)
           IN  /\ b \in Nat
               /\ Aligned(b, k)
               /\ \/ t = p /\ b = p + 2^k
                  \/ t = b /\ p = b + 2^k
<1> DEFINE s == 2^k
<1>1. s \in Nat /\ s >= 1
  BY PowerPositive
<1>2. 2^(k + 1) = 2 * s
  BY NextPower
<1>3. PICK q \in Nat : p = q * s
  BY AlignedMultiple
<1> HIDE DEF s
<1>4. p \div s = q
  BY <1>1, <1>3
<1>5. CASE q % 2 = 0
  <2>1. PICK r \in Nat : q = 2 * r
    BY <1>5
  <2>2. p = r * (2 * s)
    BY <1>1, <1>3, <2>1
  <2>3. p % (2 * s) = 0
    <3>1. ASSUME NEW w \in Nat, w >= 1 PROVE (r * w) % w = 0
      BY <3>1
    <3>2. 2 * s \in Nat /\ 2 * s >= 1
      BY <1>1
    <3> QED
      BY <2>2, <3>1, <3>2
  <2>4. Truncate(p, k + 1) = p
    BY <1>2, <2>3 DEF Truncate
  <2>5. Buddy(p, k) = p + s
    BY <1>4, <1>5 DEF Buddy, s
  <2>6. p + s = (q + 1) * s /\ q + 1 \in Nat /\ p + s \in Nat
    BY <1>1, <1>3
  <2>7. Aligned(p + s, k)
    BY <2>6, AlignedMultiple DEF s
  <2> QED
    BY <2>4, <2>5, <2>6, <2>7 DEF s
<1>6. CASE q % 2 # 0
  <2>1. PICK r \in Nat : q = 2 * r + 1
    BY <1>6
  <2>2. p = r * (2 * s) + s /\ r * (2 * s) \in Nat
    BY <1>1, <1>3, <2>1
  <2>3. p % (2 * s) = s
    BY <1>1, <2>2
  <2>4. Truncate(p, k + 1) = p - s
    BY <1>2, <2>3 DEF Truncate
  <2>5. Buddy(p, k) = p - s
    BY <1>4, <1>6 DEF Buddy, s
  <2>6. p - s = (2 * r) * s /\ 2 * r \in Nat /\ p - s \in Nat
    BY <1>1, <2>2
  <2>7. Aligned(p - s, k)
    BY <2>6, AlignedMultiple DEF s
  <2> QED
    BY <1>1, <2>4, <2>5, <2>6, <2>7 DEF s
<1> QED
  BY <1>5, <1>6

(* The head of an aligned cluster stays where it is.                       *)
LEMMA TruncateAligned ==
    ASSUME NEW p \in Nat, NEW k \in Nat, Aligned(p, k)
    PROVE  Truncate(p, k) = p
BY PowerPositive DEF Truncate, Aligned

(* Cutting a cluster in two: the upper half starts in its middle.          *)
LEMMA BuddyOfAligned ==
    ASSUME NEW p \in Nat, NEW k \in Nat, Aligned(p, k + 1)
    PROVE  Buddy(p, k) = p + 2^k
<1>1. Aligned(p, k)
  BY AlignedDown
<1>2. Truncate(p, k + 1) = p
  BY TruncateAligned
<1>3. 2^k \in Nat /\ 2^k >= 1
  BY PowerPositive
<1> QED
  BY <1>1, <1>2, <1>3, BuddyPair

(* Truncating to a larger order moves the head down, to a cluster that     *)
(* contains the smaller one.                                               *)
LEMMA TruncateNest ==
    ASSUME NEW i \in Nat, NEW k \in Nat, NEW j \in Nat, k <= j
    PROVE  /\ Truncate(i, j) <= Truncate(i, k)
           /\ Truncate(i, k) + 2^k <= Truncate(i, j) + 2^j
<1>1. /\ Truncate(i, k) \in Nat /\ Aligned(Truncate(i, k), k)
      /\ Truncate(i, k) <= i /\ i < Truncate(i, k) + 2^k
  BY TruncateBounds
<1>2. /\ Truncate(i, j) \in Nat /\ Aligned(Truncate(i, j), j)
      /\ Truncate(i, j) <= i /\ i < Truncate(i, j) + 2^j
  BY TruncateBounds
<1>3. 2^k \in Nat /\ 2^j \in Nat
  BY PowerPositive
<1>4. Truncate(i, k) < Truncate(i, j) + 2^j /\ Truncate(i, j) < Truncate(i, k) + 2^k
  BY <1>1, <1>2, <1>3
<1> QED
  BY <1>1, <1>2, <1>4, ClustersNest

(* The head is a function of the cluster, not of the page it is sought     *)
(* from.                                                                   *)
LEMMA TruncateUnique ==
    ASSUME NEW i \in Nat, NEW k \in Nat, NEW t \in Nat, Aligned(t, k),
           t <= i, i < t + 2^k
    PROVE  Truncate(i, k) = t
<1>1. /\ Truncate(i, k) \in Nat /\ Aligned(Truncate(i, k), k)
      /\ Truncate(i, k) <= i /\ i < Truncate(i, k) + 2^k
  BY TruncateBounds
<1>2. 2^k \in Nat
  BY PowerPositive
<1>3. Truncate(i, k) < t + 2^k /\ t < Truncate(i, k) + 2^k
  BY <1>1, <1>2
<1> QED
  BY <1>1, <1>3, AlignedUnique

(* Flipping a bit twice: an aligned index is the buddy of its buddy.       *)
LEMMA BuddyInvolution ==
    ASSUME NEW p \in Nat, NEW k \in Nat, Aligned(p, k)
    PROVE  Buddy(Buddy(p, k), k) = p /\ Buddy(p, k) # p
<1> DEFINE b == Buddy(p, k)
           t == Truncate(p, k + 1)
           d == Buddy(b, k)
           u == Truncate(b, k + 1)
           s == 2^k
<1>1. s \in Nat /\ s >= 1 /\ 2^(k + 1) = 2 * s
  BY NextPower, PowerPositive
<1>2. /\ b \in Nat /\ Aligned(b, k)
      /\ (t = p /\ b = p + s) \/ (t = b /\ p = b + s)
  BY BuddyPair
<1> HIDE DEF b
<1>3. d \in Nat /\ ((u = b /\ d = b + s) \/ (u = d /\ b = d + s))
  BY <1>2, BuddyPair
<1>4. t \in Nat /\ Aligned(t, k + 1)
  <2>1. k + 1 \in Nat
    OBVIOUS
  <2> QED
    BY <2>1, TruncateBounds
<1> HIDE DEF t, u, d, s
<1>5. t <= b /\ b < t + 2 * s
  BY <1>1, <1>2, <1>4
<1>6. u = t
  BY <1>1, <1>2, <1>4, <1>5, TruncateUnique DEF u
<1>7. d = p /\ b # p
  BY <1>1, <1>2, <1>3, <1>6
<1> QED
  BY <1>7 DEF b, d

(* The buddy of the cluster of order k around i, and that cluster, make up *)
(* the cluster of order k + 1 around i.                                    *)
LEMMA BuddyOfTruncate ==
    ASSUME NEW i \in Nat, NEW k \in Nat
    PROVE  LET p == Truncate(i, k)
               b == Buddy(p, k)
               t == Truncate(i, k + 1)
           IN  /\ b \in Nat
               /\ Aligned(b, k)
               /\ \/ t = p /\ b = p + 2^k
                  \/ t = b /\ p = b + 2^k
<1> DEFINE p == Truncate(i, k)
<1>1. p \in Nat /\ Aligned(p, k) /\ p <= i /\ i < p + 2^k
  BY TruncateBounds
<1>2. /\ Truncate(p, k + 1) \in Nat /\ Aligned(Truncate(p, k + 1), k + 1)
      /\ Truncate(p, k + 1) <= p /\ p < Truncate(p, k + 1) + 2^(k + 1)
  BY <1>1, TruncateBounds
<1>3. 2^k \in Nat /\ 2^(k + 1) = 2 * 2^k /\ 2^(k + 1) \in Nat
  BY PowerPositive, NextPower
<1> HIDE DEF p
<1>4. p + 2^k <= Truncate(p, k + 1) + 2^(k + 1)
  <2>1. Truncate(p, k) = p
    BY <1>1, TruncateAligned
  <2> QED
    BY <1>1, <2>1, TruncateNest
<1>5. Truncate(i, k + 1) = Truncate(p, k + 1)
  <2>1. Truncate(p, k + 1) <= i /\ i < Truncate(p, k + 1) + 2^(k + 1)
    BY <1>1, <1>2, <1>3, <1>4
  <2> QED
    BY <1>2, <2>1, TruncateUnique
<1> QED
  BY <1>1, <1>5, BuddyPair DEF p

-----------------------------------------------------------------------------
(* The region of a merge, or of a split read backwards: the cluster of     *)
(* order m around i consists of the cluster of order o at i and of the     *)
(* buddies met at the orders in between.                                   *)
LEMMA RegionCovered ==
    ASSUME NEW i \in Nat, NEW o \in Nat, NEW m \in Nat, o <= m, Aligned(i, o),
           NEW x \in Nat, Truncate(i, m) <= x, x < Truncate(i, m) + 2^m
    PROVE  \/ i <= x /\ x < i + 2^o
           \/ \E k \in o..(m - 1) :
                /\ Buddy(Truncate(i, k), k) <= x
                /\ x < Buddy(Truncate(i, k), k) + 2^k
<1> DEFINE S == {k \in o..m : Truncate(i, k) <= x /\ x < Truncate(i, k) + 2^k}
<1>1. m \in S
  OBVIOUS
<1>2. PICK k \in S : \A j \in S : k <= j
  <2>1. S \in SUBSET Nat /\ S # {}
    BY <1>1
  <2> HIDE DEF S
  <2> QED
    BY <2>1, LeastElement
<1>3. k \in Nat /\ o <= k /\ k <= m /\ Truncate(i, k) <= x /\ x < Truncate(i, k) + 2^k
  OBVIOUS
<1>4. CASE k = o
  BY <1>3, <1>4, TruncateAligned
<1>5. CASE k # o
  <2> DEFINE j == k - 1
             p == Truncate(i, j)
             b == Buddy(p, j)
  <2>1. j \in Nat /\ j \in o..(m - 1) /\ k = j + 1
    BY <1>3, <1>5
  <2>2. j \notin S
    <3>1. ~ (k <= j)
      BY <2>1
    <3> HIDE DEF S, j
    <3> QED
      BY <1>2, <3>1
  <2>3. ~ (p <= x /\ x < p + 2^j)
    BY <2>1, <2>2
  <2>4. 2^k = 2 * 2^j /\ 2^j \in Nat
    BY <2>1, NextPower, PowerPositive
  <2>5. /\ p \in Nat /\ b \in Nat
        /\ \/ Truncate(i, k) = p /\ b = p + 2^j
           \/ Truncate(i, k) = b /\ p = b + 2^j
    <3>1. p \in Nat
      BY <2>1, TruncateBounds
    <3> QED
      BY <2>1, <3>1, BuddyOfTruncate
  <2> HIDE DEF j, p, b
  <2>6. b <= x /\ x < b + 2^j
    BY <1>3, <2>3, <2>4, <2>5
  <2> QED
    BY <2>1, <2>6 DEF p, b
<1> QED
  BY <1>4, <1>5

(* Conversely those buddies lie in that region, apart from the cluster     *)
(* they are joined with.                                                   *)
LEMMA RegionContains ==
    ASSUME NEW i \in Nat, NEW m \in Nat, NEW k \in Nat, k < m
    PROVE  LET b == Buddy(Truncate(i, k), k)
           IN  /\ b \in Nat
               /\ Aligned(b, k)
               /\ Truncate(i, m) <= b
               /\ b + 2^k <= Truncate(i, m) + 2^m
<1> DEFINE p == Truncate(i, k)
           b == Buddy(p, k)
           t == Truncate(i, k + 1)
<1>1. /\ b \in Nat /\ Aligned(b, k)
      /\ \/ t = p /\ b = p + 2^k
         \/ t = b /\ p = b + 2^k
  BY BuddyOfTruncate
<1>2. Truncate(i, m) <= t /\ t + 2^(k + 1) <= Truncate(i, m) + 2^m
  BY TruncateNest
<1>3. 2^(k + 1) = 2 * 2^k /\ 2^k \in Nat /\ 2^m \in Nat
  BY NextPower, PowerPositive
<1>4. p \in Nat /\ t \in Nat /\ Truncate(i, m) \in Nat
  <2>1. p \in Nat
    BY TruncateBounds
  <2>2. k + 1 \in Nat
    OBVIOUS
  <2>3. t \in Nat
    BY <2>2, TruncateBounds
  <2>4. Truncate(i, m) \in Nat
    BY TruncateBounds
  <2> QED
    BY <2>1, <2>3, <2>4
<1> HIDE DEF p, b, t
<1>5. Truncate(i, m) <= b /\ b + 2^k <= Truncate(i, m) + 2^m
  BY <1>1, <1>2, <1>3, <1>4
<1> QED
  BY <1>1, <1>5 DEF b, p

-----------------------------------------------------------------------------
(* What merging and splitting do to a partition of the area.               *)

\* What Partition says of the heads, spelled out for arithmetic.
HeadFacts(H, ord, n) ==
    /\ \A h \in H : /\ h \in Nat /\ h < n /\ ord[h] \in Nat
                    /\ 2^ord[h] \in Nat /\ 2^ord[h] >= 1
                    /\ Aligned(h, ord[h]) /\ h + 2^ord[h] <= n
    /\ \A g, h \in H : g # h => g + 2^ord[g] <= h \/ h + 2^ord[h] <= g
    /\ \A x \in Nat : x < n => \E h \in H : h <= x /\ x < h + 2^ord[h]

(* Heads are pages, clusters are not empty, and every page has a head.     *)
LEMMA PartitionFacts ==
    ASSUME NEW n \in Nat, NEW H \in SUBSET (0..(n - 1)), NEW ord \in [0..(n - 1) -> Nat],
           Partition(H, ord, n)
    PROVE  HeadFacts(H, ord, n)
<1>1. \A h \in H : /\ h \in Nat /\ h < n /\ ord[h] \in Nat
                  /\ 2^ord[h] \in Nat /\ 2^ord[h] >= 1
  <2> SUFFICES ASSUME NEW h \in H
               PROVE  /\ h \in Nat /\ h < n /\ ord[h] \in Nat
                      /\ 2^ord[h] \in Nat /\ 2^ord[h] >= 1
    OBVIOUS
  <2>1. h \in 0..(n - 1)
    OBVIOUS
  <2>2. h \in Nat /\ h < n /\ ord[h] \in Nat
    BY <2>1
  <2> QED
    BY <2>2, PowerPositive
<1>2. \A x \in Nat : x < n => x \in 0..(n - 1)
  OBVIOUS
<1> QED
  BY <1>1, <1>2 DEF Partition, HeadFacts

(* In a partition, a buddy of the expected order heads a cluster: it is    *)
(* enough for the merge loop to look at its order.                         *)
LEMMA BuddyIsHead ==
    ASSUME NEW n \in Nat, NEW H \in SUBSET (0..(n - 1)), NEW ord \in [0..(n - 1) -> Nat],
           Partition(H, ord, n), NEW i \in H, NEW k \in Nat, ord[i] <= k,
           Buddy(Truncate(i, k), k) < n,
           ord[Buddy(Truncate(i, k), k)] = k
    PROVE  Buddy(Truncate(i, k), k) \in H
<1> DEFINE p == Truncate(i, k)
           b == Buddy(p, k)
           t == Truncate(i, k + 1)
           L(h) == 2^ord[h]
<1>0. /\ \A h \in H : /\ h \in Nat /\ h < n /\ ord[h] \in Nat
                      /\ L(h) \in Nat /\ L(h) >= 1
                      /\ Aligned(h, ord[h]) /\ h + L(h) <= n
      /\ \A g, h \in H : g # h => g + L(g) <= h \/ h + L(h) <= g
      /\ \A x \in Nat : x < n => \E h \in H : h <= x /\ x < h + L(h)
  <2>1. HeadFacts(H, ord, n)
    BY PartitionFacts
  <2> QED
    BY <2>1, Zenon DEF HeadFacts
<1>1. i \in Nat /\ ord[i] \in Nat /\ k + 1 \in Nat
  BY <1>0
<1>2. /\ b \in Nat /\ Aligned(b, k)
      /\ \/ t = p /\ b = p + 2^k
         \/ t = b /\ p = b + 2^k
  BY <1>1, BuddyOfTruncate
<1>3. t \in Nat /\ Aligned(t, k + 1) /\ t <= i /\ i < t + 2^(k + 1)
  BY <1>1, TruncateBounds
<1>4. p \in Nat /\ p <= i /\ i < p + 2^k
  BY <1>1, TruncateBounds
<1>5. 2^(k + 1) = 2 * 2^k /\ 2^k \in Nat /\ 2^k >= 1
  BY NextPower, PowerPositive
<1> HIDE DEF p, b, t, L
<1>6. PICK h \in H : h <= b /\ b < h + L(h)
  <2>1. b < n
    BY DEF b, p
  <2> QED
    BY <1>0, <1>2, <2>1
<1>7. h \in Nat /\ ord[h] \in Nat /\ Aligned(h, ord[h]) /\ L(h) \in Nat /\ L(h) >= 1
  BY <1>0
<1>8. L(h) = 2^ord[h]
  BY DEF L
<1>9. CASE ord[h] <= k
  <2>1. Aligned(b, ord[h])
    BY <1>2, <1>7, <1>9, AlignedDown
  <2>2. b < h + L(h) /\ h < b + L(h)
    BY <1>2, <1>6, <1>7
  <2>3. h = b
    BY <1>2, <1>7, <1>8, <2>1, <2>2, AlignedUnique
  <2> QED
    BY <2>3 DEF b, p
<1>10. CASE k < ord[h]
  <2>1. t < h + L(h) /\ h < t + 2^(k + 1)
    <3>1. t <= b /\ b < t + 2 * 2^k
      BY <1>2, <1>4, <1>5
    <3> QED
      BY <1>2, <1>3, <1>5, <1>6, <1>7, <3>1
  <2>2. h <= t /\ t + 2^(k + 1) <= h + L(h)
    <3>1. k + 1 <= ord[h]
      BY <1>7, <1>10
    <3> QED
      BY <1>1, <1>3, <1>7, <1>8, <2>1, <3>1, ClustersNest
  <2>3. h <= i /\ i < h + L(h)
    BY <1>1, <1>3, <1>5, <1>7, <2>2
  <2>4. h # i
    BY <1>1, <1>7, <1>10
  <2>5. h + L(h) <= i \/ i + L(i) <= h
    BY <1>0, <2>4
  <2>6. L(i) >= 1 /\ L(i) \in Nat
    BY <1>0
  <2> QED
    BY <1>1, <1>7, <2>3, <2>5, <2>6
<1> QED
  BY <1>7, <1>9, <1>10

\* The cluster at i may be joined with its buddies up to order m, and ord2
\* records the result.
Merge(H, ord, n, i, m, ord2) ==
    /\ Partition(H, ord, n)
    /\ ord[i] <= m
    /\ \A k \in ord[i]..(m - 1) :
           Buddy(Truncate(i, k), k) \in H /\ ord[Buddy(Truncate(i, k), k)] = k
    /\ ord2[Truncate(i, m)] = m
    /\ \A h \in H : (h < Truncate(i, m) \/ Truncate(i, m) + 2^m <= h) => ord2[h] = ord[h]

MergeResult(H, ord, n, i, m, ord2) ==
    LET gone == {i} \cup {Buddy(Truncate(i, k), k) : k \in ord[i]..(m - 1)}
        c == Truncate(i, m)
    IN  /\ c \notin H \ gone
        /\ \A h \in H \ gone : h < c \/ c + 2^m <= h
        /\ Partition((H \ gone) \cup {c}, ord2, n)

(* Replacing a cluster and the buddies it meets by the cluster they make   *)
(* up gives a partition again.                                             *)
LEMMA MergePartition ==
    ASSUME NEW n \in Nat, NEW H \in SUBSET (0..(n - 1)), NEW ord \in [0..(n - 1) -> Nat],
           NEW i \in H, NEW m \in Nat, NEW ord2 \in [0..(n - 1) -> Nat],
           Merge(H, ord, n, i, m, ord2)
    PROVE  MergeResult(H, ord, n, i, m, ord2)
<1> USE DEF Merge
<1> DEFINE o == ord[i]
           c == Truncate(i, m)
           B(k) == Buddy(Truncate(i, k), k)
           gone == {i} \cup {B(k) : k \in o..(m - 1)}
           L(h) == 2^ord[h]
<1>0. /\ \A h \in H : /\ h \in Nat /\ h < n /\ ord[h] \in Nat
                      /\ L(h) \in Nat /\ L(h) >= 1
                      /\ Aligned(h, ord[h]) /\ h + L(h) <= n
      /\ \A g, h \in H : g # h => g + L(g) <= h \/ h + L(h) <= g
      /\ \A x \in Nat : x < n => \E h \in H : h <= x /\ x < h + L(h)
  <2>1. HeadFacts(H, ord, n)
    BY PartitionFacts
  <2> QED
    BY <2>1, Zenon DEF HeadFacts
<1>1. i \in Nat /\ o \in Nat /\ o <= m /\ Aligned(i, o) /\ i + 2^o <= n
  BY <1>0
<1>2. c \in Nat /\ Aligned(c, m) /\ c <= i /\ i < c + 2^m
  BY <1>1, TruncateBounds
<1>3. 2^m \in Nat /\ 2^m >= 1
  BY PowerPositive
\* Every page of the new cluster was in a cluster that is gone.
<1>4. ASSUME NEW x \in Nat, c <= x, x < c + 2^m
      PROVE  \E g \in gone : g \in H /\ g <= x /\ x < g + L(g)
  <2>1. \/ i <= x /\ x < i + 2^o
        \/ \E k \in o..(m - 1) : B(k) <= x /\ x < B(k) + 2^k
    BY <1>1, <1>4, RegionCovered
  <2>2. CASE i <= x /\ x < i + 2^o
    BY <2>2
  <2>3. CASE \E k \in o..(m - 1) : B(k) <= x /\ x < B(k) + 2^k
    <3>1. PICK k \in o..(m - 1) : B(k) <= x /\ x < B(k) + 2^k
      BY <2>3
    <3>2. B(k) \in H /\ ord[B(k)] = k /\ B(k) \in gone
      OBVIOUS
    <3> QED
      BY <3>1, <3>2
  <2> QED
    BY <2>1, <2>2, <2>3
\* The clusters that are gone lie in the new one.
<1>5. ASSUME NEW g \in gone
      PROVE  g \in H /\ c <= g /\ g + L(g) <= c + 2^m
  <2>1. CASE g = i
    <3>1. Truncate(i, o) = i
      BY <1>1, TruncateAligned
    <3> QED
      BY <1>1, <2>1, <3>1, TruncateNest
  <2>2. ASSUME NEW k \in o..(m - 1), g = B(k)
        PROVE  g \in H /\ c <= g /\ g + L(g) <= c + 2^m
    <3>1. k \in Nat /\ k < m
      BY <1>1
    <3>2. c <= B(k) /\ B(k) + 2^k <= c + 2^m
      BY <1>1, <3>1, RegionContains
    <3>3. B(k) \in H /\ ord[B(k)] = k
      OBVIOUS
    <3> QED
      BY <2>2, <3>2, <3>3
  <2> QED
    BY <2>1, <2>2
<1> HIDE DEF gone, c, o, B, L
<1>6. ASSUME NEW h \in H \ gone PROVE h + L(h) <= c \/ c + 2^m <= h
  <2>0. h \in Nat /\ L(h) \in Nat /\ L(h) >= 1
    BY <1>0
  <2>1. ASSUME NEW x \in Nat, c <= x, x < c + 2^m, h <= x, x < h + L(h) PROVE FALSE
    <3>1. PICK g \in gone : g \in H /\ g <= x /\ x < g + L(g)
      BY <1>4, <2>1
    <3>2. g # h /\ h \in H
      BY <1>6
    <3>3. g + L(g) <= h \/ h + L(h) <= g
      BY <1>0, <3>1, <3>2
    <3>4. g \in Nat /\ L(g) \in Nat
      BY <1>0, <3>1
    <3>5. CASE g + L(g) <= h
      BY <2>0, <2>1, <3>1, <3>4, <3>5, SMTT(30)
    <3>6. CASE h + L(h) <= g
      BY <2>0, <2>1, <3>1, <3>4, <3>6, SMTT(30)
    <3> QED
      BY <3>3, <3>5, <3>6
  <2>2. CASE h < c
    <3>1. ASSUME c < h + L(h) PROVE FALSE
      <4>1. c \in Nat /\ c <= c /\ c < c + 2^m /\ h <= c
        BY <1>2, <1>3, <2>0, <2>2
      <4> QED
        BY <2>1, <3>1, <4>1
    <3> QED
      BY <1>2, <2>0, <3>1
  <2>3. CASE c <= h
    <3>1. ASSUME h < c + 2^m PROVE FALSE
      <4>1. h <= h /\ h < h + L(h)
        BY <2>0
      <4> QED
        BY <2>0, <2>1, <2>3, <3>1, <4>1
    <3> QED
      BY <1>2, <1>3, <2>0, <3>1
  <2> QED
    BY <1>2, <2>0, <2>2, <2>3
<1>7. c + 2^m <= n
  <2>1. c + 2^m - 1 \in Nat /\ c <= c + 2^m - 1 /\ c + 2^m - 1 < c + 2^m
    BY <1>2, <1>3
  <2>2. PICK g \in gone : g \in H /\ g <= c + 2^m - 1 /\ c + 2^m - 1 < g + L(g)
    BY <1>4, <2>1
  <2>3. g + L(g) <= n /\ g \in Nat /\ L(g) \in Nat
    BY <1>0, <2>2
  <2> QED
    BY <1>2, <1>3, <2>2, <2>3
<1>8. c \in 0..(n - 1)
  BY <1>2, <1>3, <1>7
<1>9. ASSUME NEW h \in H \ gone
      PROVE  /\ h < c \/ c + 2^m <= h
             /\ ord2[h] = ord[h]
             /\ h # c
  <2>1. h \in Nat /\ L(h) \in Nat /\ L(h) >= 1
    BY <1>0
  <2>2. h < c \/ c + 2^m <= h
    BY <1>2, <1>3, <1>6, <2>1
  <2>3. ord2[h] = ord[h]
    BY <2>2 DEF c
  <2> QED
    BY <1>2, <1>3, <2>1, <2>2, <2>3
<1>10. ord2[c] = m
  BY DEF c
<1> DEFINE H2 == (H \ gone) \cup {c}
<1>11. \A h \in H2 : Aligned(h, ord2[h]) /\ h + 2^ord2[h] <= n
  BY <1>0, <1>2, <1>7, <1>9, <1>10 DEF L
<1>12. \A g, h \in H2 : g # h => g + 2^ord2[g] <= h \/ h + 2^ord2[h] <= g
  BY <1>0, <1>6, <1>9, <1>10 DEF L
<1>13. \A x \in 0..(n - 1) : \E h \in H2 : h <= x /\ x < h + 2^ord2[h]
  <2> SUFFICES ASSUME NEW x \in 0..(n - 1)
               PROVE  \E h \in H2 : h <= x /\ x < h + 2^ord2[h]
    OBVIOUS
  <2>0. x \in Nat /\ x < n
    OBVIOUS
  <2>1. PICK h \in H : h <= x /\ x < h + L(h)
    BY <1>0, <2>0
  <2>2. CASE h \in gone
    <3>1. c <= h /\ h + L(h) <= c + 2^m
      BY <1>5, <2>2
    <3>2. h \in Nat /\ L(h) \in Nat
      BY <1>0
    <3>3. c <= x /\ x < c + 2^m
      BY <1>2, <1>3, <2>1, <3>1, <3>2
    <3> QED
      BY <1>10, <3>3
  <2>3. CASE h \notin gone
    BY <1>9, <2>1, <2>3 DEF L
  <2> QED
    BY <2>2, <2>3
<1>14. Partition(H2, ord2, n)
  BY <1>11, <1>12, <1>13 DEF Partition
<1>15. c \notin H \ gone
  BY <1>9
<1>16. \A h \in H \ gone : h < c \/ c + 2^m <= h
  BY <1>9
<1> QED
  BY <1>14, <1>15, <1>16 DEF MergeResult, gone, c, o, B

-----------------------------------------------------------------------------
(* Splitting.                                                              *)

(* A larger order is at least twice the size.                              *)
LEMMA PowerGrows ==
    ASSUME NEW j \in Nat, NEW k \in Nat, j < k
    PROVE  2 * 2^j <= 2^k /\ 2^j < 2^k
<1>1. PICK d \in Nat : d >= 1 /\ 2^k = d * 2^(j + 1)
  BY PowerDivides
<1>2. 2^(j + 1) = 2 * 2^j /\ 2^j \in Nat /\ 2^j >= 1
  BY NextPower, PowerPositive
<1> DEFINE s == 2^(j + 1)
<1>3. s \in Nat /\ s >= 1
  BY <1>2
<1> HIDE DEF s
<1>4. d * s >= s
  BY <1>1, <1>3
<1> QED
  BY <1>1, <1>2, <1>4 DEF s

(* The upper half cut off at order k starts 2^k pages above the head, and  *)
(* lies in the cluster that is being cut.                                  *)
LEMMA HalfBounds ==
    ASSUME NEW i \in Nat, NEW f \in Nat, Aligned(i, f), NEW k \in 0..(f - 1)
    PROVE  /\ Buddy(i, k) = i + 2^k
           /\ Aligned(Buddy(i, k), k)
           /\ Buddy(i, k) + 2^k <= i + 2^f
<1>1. k \in Nat /\ k + 1 \in Nat /\ k + 1 <= f /\ k < f /\ k <= f
  OBVIOUS
<1>2. Aligned(i, k + 1) /\ Aligned(i, k)
  BY <1>1, AlignedDown
<1>3. Buddy(i, k) = i + 2^k
  BY <1>1, <1>2, BuddyOfAligned
<1>4. Aligned(Buddy(i, k), k)
  BY <1>1, <1>2, BuddyPair
<1>5. 2 * 2^k <= 2^f /\ 2^k \in Nat /\ 2^f \in Nat
  BY <1>1, PowerGrows, PowerPositive
<1> QED
  BY <1>3, <1>4, <1>5

(* The upper halves of a cluster of a partition are pages of the area that *)
(* headed no cluster so far.                                               *)
LEMMA HalvesNew ==
    ASSUME NEW n \in Nat, NEW H \in SUBSET (0..(n - 1)), NEW ord \in [0..(n - 1) -> Nat],
           Partition(H, ord, n), NEW i \in H, NEW k \in 0..(ord[i] - 1)
    PROVE  Buddy(i, k) \in 0..(n - 1) /\ Buddy(i, k) \notin H
<1> DEFINE f == ord[i]
           b == Buddy(i, k)
           L(h) == 2^ord[h]
<1>0. /\ \A h \in H : /\ h \in Nat /\ h < n /\ ord[h] \in Nat
                      /\ L(h) \in Nat /\ L(h) >= 1
                      /\ Aligned(h, ord[h]) /\ h + L(h) <= n
      /\ \A g, h \in H : g # h => g + L(g) <= h \/ h + L(h) <= g
  <2>1. HeadFacts(H, ord, n)
    BY PartitionFacts
  <2> QED
    BY <2>1, Zenon DEF HeadFacts
<1>1. i \in Nat /\ f \in Nat /\ Aligned(i, f) /\ i + L(i) <= n /\ L(i) \in Nat
  BY <1>0
<1>2. b = i + 2^k /\ b + 2^k <= i + L(i)
  <2> HIDE DEF f
  <2>1. b = i + 2^k /\ b + 2^k <= i + 2^f
    BY <1>1, HalfBounds DEF f
  <2> QED
    BY <2>1 DEF f
<1>3. 2^k \in Nat /\ 2^k >= 1
  <2>1. k \in Nat
    BY <1>1
  <2> QED
    BY <2>1, PowerPositive
<1> HIDE DEF f, b, L
<1>4. b \in 0..(n - 1)
  BY <1>1, <1>2, <1>3
<1>5. ASSUME b \in H PROVE FALSE
  <2>1. b \in Nat /\ L(b) \in Nat /\ L(b) >= 1 /\ b # i
    BY <1>0, <1>1, <1>2, <1>3, <1>5
  <2>2. i + L(i) <= b \/ b + L(b) <= i
    BY <1>0, <1>5, <2>1
  <2> QED
    BY <1>1, <1>2, <1>3, <2>1, <2>2
<1> QED
  BY <1>4, <1>5 DEF b

\* The cluster at i is cut down to order o, and ord2 records the result.
Split(H, ord, n, i, o, ord2) ==
    /\ Partition(H, ord, n)
    /\ o \in 0..ord[i]
    /\ ord2[i] = o
    /\ \A k \in o..(ord[i] - 1) : ord2[Buddy(i, k)] = k
    /\ \A h \in H \ {i} : ord2[h] = ord[h]

SplitResult(H, ord, n, i, o, ord2) ==
    Partition(H \cup {Buddy(i, k) : k \in o..(ord[i] - 1)}, ord2, n)

(* Cutting a cluster of order f down to order o, one upper half per order  *)
(* in between, gives a partition again.                                    *)
LEMMA SplitPartition ==
    ASSUME NEW n \in Nat, NEW H \in SUBSET (0..(n - 1)), NEW ord \in [0..(n - 1) -> Nat],
           NEW i \in H, NEW o, NEW ord2 \in [0..(n - 1) -> Nat],
           Split(H, ord, n, i, o, ord2)
    PROVE  SplitResult(H, ord, n, i, o, ord2)
<1> USE DEF Split
<1> DEFINE f == ord[i]
           B(k) == Buddy(i, k)
           halves == {B(k) : k \in o..(f - 1)}
           L(h) == 2^ord[h]
           M(h) == 2^ord2[h]
<1>0. /\ \A h \in H : /\ h \in Nat /\ h < n /\ ord[h] \in Nat
                      /\ L(h) \in Nat /\ L(h) >= 1
                      /\ Aligned(h, ord[h]) /\ h + L(h) <= n
      /\ \A g, h \in H : g # h => g + L(g) <= h \/ h + L(h) <= g
      /\ \A x \in Nat : x < n => \E h \in H : h <= x /\ x < h + L(h)
  <2>1. HeadFacts(H, ord, n)
    BY PartitionFacts
  <2> QED
    BY <2>1, Zenon DEF HeadFacts
<1>1. i \in Nat /\ f \in Nat /\ Aligned(i, f) /\ i + 2^f <= n /\ 2^f \in Nat
  BY <1>0
<1>2. o \in Nat /\ o <= f /\ Aligned(i, o)
  <2>1. o \in Nat /\ o <= f
    BY <1>1
  <2> QED
    BY <1>1, <2>1, AlignedDown
<1>3. 2^o \in Nat /\ 2^o >= 1 /\ 2^o <= 2^f
  <2>1. o = f \/ o < f
    BY <1>1, <1>2
  <2>2. o < f => 2^o < 2^f
    BY <1>1, <1>2, PowerGrows
  <2> QED
    BY <1>1, <1>2, <2>1, <2>2, PowerPositive
<1>4. ASSUME NEW k \in o..(f - 1)
      PROVE  /\ k \in Nat /\ o <= k
             /\ 2^k \in Nat /\ 2^k >= 1
             /\ B(k) = i + 2^k /\ Aligned(B(k), k) /\ B(k) + 2^k <= i + 2^f
             /\ ord2[B(k)] = k
             /\ 2^o <= 2^k
  <2>1. k \in 0..(f - 1) /\ k \in Nat /\ o <= k
    BY <1>1, <1>2
  <2>2. o = k \/ o < k
    BY <1>2, <2>1
  <2>3. o < k => 2^o < 2^k
    BY <1>2, <2>1, PowerGrows
  <2>4. 2^k \in Nat /\ 2^k >= 1
    BY <2>1, PowerPositive
  <2>5. B(k) = i + 2^k /\ Aligned(B(k), k) /\ B(k) + 2^k <= i + 2^f
    BY <1>1, <2>1, HalfBounds
  <2>6. 2^o <= 2^k
    BY <1>3, <2>2, <2>3, <2>4
  <2> QED
    BY <2>1, <2>4, <2>5, <2>6
<1>5. ASSUME NEW x \in Nat, i <= x, x < i + 2^f
      PROVE  \/ i <= x /\ x < i + 2^o
             \/ \E k \in o..(f - 1) : B(k) <= x /\ x < B(k) + 2^k
  <2>1. Truncate(i, f) = i
    BY <1>1, TruncateAligned
  <2>2. \A k \in o..(f - 1) : Truncate(i, k) = i
    <3> TAKE k \in o..(f - 1)
    <3>1. k \in Nat /\ k <= f
      BY <1>1, <1>2
    <3> QED
      BY <1>1, <3>1, AlignedDown, TruncateAligned
  <2>3. \/ i <= x /\ x < i + 2^o
        \/ \E k \in o..(f - 1) : /\ Buddy(Truncate(i, k), k) <= x
                                 /\ x < Buddy(Truncate(i, k), k) + 2^k
    <3>1. Truncate(i, f) <= x /\ x < Truncate(i, f) + 2^f
      BY <1>5, <2>1
    <3> HIDE DEF f
    <3> QED
      BY <1>1, <1>2, <3>1, RegionCovered
  <2> QED
    BY <2>2, <2>3
<1>6. L(i) = 2^f /\ M(i) = 2^o
  OBVIOUS
<1>7. \A h \in H \ {i} : M(h) = L(h) /\ ord2[h] = ord[h]
  OBVIOUS
<1>8. \A k \in o..(f - 1) : M(B(k)) = 2^k
  BY <1>4
<1> HIDE DEF f, B, L, M
\* The pieces lie in the old cluster.
<1>9. ASSUME NEW g \in {i} \cup halves
      PROVE  /\ g \in Nat /\ M(g) \in Nat /\ M(g) >= 1
             /\ i <= g /\ g + M(g) <= i + 2^f
             /\ Aligned(g, ord2[g])
  <2>1. CASE g = i
    BY <1>1, <1>2, <1>3, <1>6, <2>1
  <2>2. CASE g \in halves
    <3>1. PICK k \in o..(f - 1) : g = B(k)
      BY <2>2
    <3>2. /\ 2^k \in Nat /\ 2^k >= 1
          /\ g = i + 2^k /\ Aligned(g, k) /\ g + 2^k <= i + 2^f
          /\ ord2[g] = k /\ M(g) = 2^k
      BY <1>4, <1>8, <3>1
    <3>3. g \in Nat /\ i <= g
      BY <1>1, <3>2
    <3>4. Aligned(g, ord2[g])
      BY <3>2
    <3> QED
      BY <3>2, <3>3, <3>4
  <2> QED
    BY <2>1, <2>2
\* The other clusters lie outside it.
<1>10. ASSUME NEW h \in H \ {i}
       PROVE  /\ h \in Nat /\ M(h) \in Nat /\ M(h) >= 1
              /\ i + 2^f <= h \/ h + M(h) <= i
              /\ h + M(h) <= n /\ Aligned(h, ord2[h])
  <2>1. h \in Nat /\ L(h) \in Nat /\ L(h) >= 1 /\ h + L(h) <= n /\ Aligned(h, ord[h])
    BY <1>0
  <2>2. i + L(i) <= h \/ h + L(h) <= i
    BY <1>0
  <2> QED
    BY <1>6, <1>7, <2>1, <2>2
<1> DEFINE H2 == H \cup halves
<1>11. \A h \in H2 : Aligned(h, ord2[h]) /\ h + M(h) <= n
  <2> SUFFICES ASSUME NEW h \in H2 PROVE Aligned(h, ord2[h]) /\ h + M(h) <= n
    OBVIOUS
  <2>1. CASE h \in {i} \cup halves
    BY <1>1, <1>9, <2>1, SMTT(30)
  <2>2. CASE h \in H \ {i}
    BY <1>10, <2>2
  <2> QED
    BY <2>1, <2>2
\* Two pieces of the old cluster.
<1>12. ASSUME NEW k \in o..(f - 1), NEW g \in {i} \cup halves, g # B(k)
       PROVE  g + M(g) <= B(k) \/ B(k) + 2^k <= g
  <2>0. k \in Nat /\ o <= k /\ 2^k \in Nat /\ B(k) = i + 2^k /\ 2^o <= 2^k
    BY <1>4
  <2>1. CASE g = i
    BY <1>1, <1>3, <1>6, <2>0, <2>1
  <2>2. CASE g \in halves
    <3>1. PICK j \in o..(f - 1) : g = B(j)
      BY <2>2
    <3>2. j \in Nat /\ 2^j \in Nat /\ B(j) = i + 2^j /\ M(B(j)) = 2^j
      BY <1>4, <1>8
    <3>3. CASE j < k
      <4>1. 2 * 2^j <= 2^k
        BY <2>0, <3>2, <3>3, PowerGrows
      <4> QED
        BY <1>1, <2>0, <3>1, <3>2, <4>1
    <3>4. CASE k < j
      <4>1. 2 * 2^k <= 2^j
        BY <2>0, <3>2, <3>4, PowerGrows
      <4> QED
        BY <1>1, <2>0, <3>1, <3>2, <4>1
    <3>5. j # k
      BY <1>12, <3>1
    <3> QED
      BY <2>0, <3>2, <3>3, <3>4, <3>5
  <2> QED
    BY <2>1, <2>2
<1>13. \A g, h \in H2 : g # h => g + M(g) <= h \/ h + M(h) <= g
  <2> SUFFICES ASSUME NEW g \in H2, NEW h \in H2, g # h
               PROVE  g + M(g) <= h \/ h + M(h) <= g
    OBVIOUS
  <2>1. CASE g \in H \ {i} /\ h \in H \ {i}
    BY <1>0, <1>7, <2>1
  <2>2. CASE g \in H \ {i} /\ h \in {i} \cup halves
    <3>1. g \in Nat /\ M(g) \in Nat /\ (i + 2^f <= g \/ g + M(g) <= i)
      BY <1>10, <2>2
    <3>2. h \in Nat /\ M(h) \in Nat /\ i <= h /\ h + M(h) <= i + 2^f
      BY <1>9, <2>2
    <3> QED
      BY <1>1, <3>1, <3>2
  <2>3. CASE h \in H \ {i} /\ g \in {i} \cup halves
    <3>1. h \in Nat /\ M(h) \in Nat /\ (i + 2^f <= h \/ h + M(h) <= i)
      BY <1>10, <2>3
    <3>2. g \in Nat /\ M(g) \in Nat /\ i <= g /\ g + M(g) <= i + 2^f
      BY <1>9, <2>3
    <3> QED
      BY <1>1, <3>1, <3>2
  <2>4. CASE g \in {i} \cup halves /\ h \in halves
    <3>1. PICK k \in o..(f - 1) : h = B(k)
      BY <2>4
    <3> QED
      BY <1>8, <1>12, <2>4, <3>1
  <2>5. CASE h \in {i} \cup halves /\ g \in halves
    <3>1. PICK k \in o..(f - 1) : g = B(k)
      BY <2>5
    <3> QED
      BY <1>8, <1>12, <2>5, <3>1
  <2> QED
    BY <2>1, <2>2, <2>3, <2>4, <2>5
<1>14. \A x \in 0..(n - 1) : \E h \in H2 : h <= x /\ x < h + M(h)
  <2> SUFFICES ASSUME NEW x \in 0..(n - 1)
               PROVE  \E h \in H2 : h <= x /\ x < h + M(h)
    OBVIOUS
  <2>0. x \in Nat /\ x < n
    OBVIOUS
  <2>1. PICK h \in H : h <= x /\ x < h + L(h)
    BY <1>0, <2>0
  <2>2. CASE h = i
    <3>1. i <= x /\ x < i + 2^f
      BY <1>6, <2>1, <2>2
    <3>2. \/ i <= x /\ x < i + 2^o
          \/ \E k \in o..(f - 1) : B(k) <= x /\ x < B(k) + 2^k
      BY <1>5, <2>0, <3>1
    <3>3. CASE i <= x /\ x < i + 2^o
      BY <1>6, <3>3
    <3>4. CASE \E k \in o..(f - 1) : B(k) <= x /\ x < B(k) + 2^k
      BY <1>8, <3>4
    <3> QED
      BY <3>2, <3>3, <3>4
  <2>3. CASE h # i
    BY <1>7, <2>1, <2>3
  <2> QED
    BY <2>2, <2>3
<1>15. Partition(H2, ord2, n)
  BY <1>11, <1>13, <1>14 DEF Partition, M
<1> QED
  BY <1>15 DEF SplitResult, B, f

-----------------------------------------------------------------------------
(* The area and its free lists.                                            *)

\* pfdb_add has not reached these pages yet.
NotYetAdded == \A q \in Pages : added <= q => q \in Away

Counted ==
    /\ \A k \in Orders : free_nr[k] = Cardinality(page_list[k])
    /\ available_pages = NrPages - Cardinality(Away)

\* At most one page is between the two steps of a reservation, and pfdb_add
\* is alone with the page it has reached.
WindowOK ==
    /\ \A i, j \in Half : i = j
    /\ marking \cap clearing = {}
    /\ Half \cap reserved = {}
    /\ added < NrPages => marking = {} /\ clearing \subseteq {added}

\* The area while no merge has taken a page of Half.
Core ==
    /\ TypeOK
    /\ Listed
    /\ Partition(Heads, order, NrPages)
    /\ NotYetAdded
    /\ Counted
    /\ Merged
    /\ WindowOK

IInv == TypeOK /\ (torn \/ Core)

-----------------------------------------------------------------------------
(* The least member of a set of orders.                                    *)
LEMMA MinMember ==
    ASSUME NEW S \in SUBSET Nat, S # {}
    PROVE  Min(S) \in S /\ \A y \in S : Min(S) <= y
<1>1. \E x \in S : \A y \in S : x <= y
  BY LeastElement
<1> QED
  BY <1>1, Zenon DEF Min

(* The same of the greatest member, of a set bounded by n.                 *)
LEMMA MaxMember ==
    ASSUME NEW n \in Nat, NEW S \in SUBSET (0..n), S # {}
    PROVE  Max(S) \in S /\ \A y \in S : Max(S) >= y
<1> DEFINE T == {n - x : x \in S}
<1>1. T \in SUBSET Nat /\ T # {}
  <2>1. \A x \in S : n - x \in Nat
    OBVIOUS
  <2>2. T # {}
    OBVIOUS
  <2> QED
    BY <2>1, <2>2
<1>2. PICK t \in T : \A y \in T : t <= y
  <2> HIDE DEF T
  <2> QED
    BY <1>1, LeastElement
<1>3. PICK x \in S : t = n - x
  OBVIOUS
<1>4. \A y \in S : x >= y
  <2> TAKE y \in S
  <2>1. t <= n - y
    BY <1>2
  <2> QED
    BY <1>3, <2>1
<1>5. \E z \in S : \A y \in S : z >= y
  BY <1>4
<1> QED
  BY <1>5, Zenon DEF Max

(* Orders and pages are natural numbers, and the largest order exists.     *)
LEMMA ConstantFacts ==
    /\ NrPages \in Nat /\ MaxOrder - 1 \in Nat
    /\ \A k \in Orders : k \in Nat /\ k <= MaxOrder - 1
    /\ \A i \in Pages : i \in Nat /\ i < NrPages
    /\ Orders \subseteq Nat
BY PfdbAssumption DEF Orders, Pages

(* The area is finite.                                                     *)
LEMMA PagesFinite == IsFiniteSet(Pages) /\ Cardinality(Pages) = NrPages
<1>1. 0 \in Int /\ NrPages - 1 \in Int /\ 0 <= NrPages - 1 /\ NrPages \in Nat
  BY PfdbAssumption
<1>2. /\ IsFiniteSet(0..(NrPages - 1))
      /\ Cardinality(0..(NrPages - 1)) = (NrPages - 1) - 0 + 1
  BY <1>1, FS_Interval
<1> QED
  BY <1>1, <1>2 DEF Pages

(* The merge loop leaves at the first order at which it cannot merge.      *)
LEMMA MergedOrderFacts ==
    ASSUME TypeOK, NEW i \in Pages
    PROVE  /\ MergedOrder(i) \in Orders
           /\ order[i] <= MergedOrder(i)
           /\ \A k \in order[i]..(MergedOrder(i) - 1) : CanMerge(i, k)
           /\ ~ CanMerge(i, MergedOrder(i))
<1> DEFINE S == {k \in order[i]..(MaxOrder - 1) : ~ CanMerge(i, k)}
<1>1. order[i] \in Nat /\ order[i] <= MaxOrder - 1 /\ MaxOrder - 1 \in Nat
  BY ConstantFacts DEF TypeOK
<1>2. MaxOrder - 1 \in S
  BY <1>1 DEF CanMerge
<1>3. S \in SUBSET Nat /\ S # {}
  BY <1>1, <1>2
<1>4. MergedOrder(i) = Min(S)
  BY DEF MergedOrder
<1>5. Min(S) \in S /\ \A y \in S : Min(S) <= y
  <2> HIDE DEF S
  <2> QED
    BY <1>3, MinMember
<1>6. \A k \in order[i]..(Min(S) - 1) : CanMerge(i, k)
  <2> TAKE k \in order[i]..(Min(S) - 1)
  <2>1. Min(S) \in order[i]..(MaxOrder - 1)
    BY <1>5
  <2> DEFINE M == Min(S)
  <2>2. M \in order[i]..(MaxOrder - 1) /\ k \in order[i]..(M - 1) /\ (k \in S => M <= k)
    BY <1>5, <2>1
  <2> HIDE DEF M, S
  <2>3. k \in order[i]..(MaxOrder - 1) /\ ~ (M <= k)
    BY <1>1, <2>2
  <2> QED
    BY <2>2, <2>3 DEF S
<1>7. Min(S) \in Orders /\ order[i] <= Min(S) /\ ~ CanMerge(i, Min(S))
  BY <1>1, <1>5 DEF Orders
<1> QED
  BY <1>4, <1>6, <1>7

-----------------------------------------------------------------------------
(* Returning a cluster to the pool.                                        *)

(* The heads of a partitioned area are pages, with orders.                 *)
LEMMA HeadsArePages ==
    ASSUME TypeOK
    PROVE  /\ Heads \in SUBSET (0..(NrPages - 1))
           /\ order \in [0..(NrPages - 1) -> Nat]
           /\ \A k \in Orders : page_list[k] \subseteq Pages
           /\ used \subseteq Pages /\ Away \subseteq Pages
           /\ used \subseteq Heads /\ Away \subseteq Heads
           /\ \A k \in Orders : page_list[k] \subseteq Heads
<1>1. order \in [Pages -> Nat]
  BY ConstantFacts DEF TypeOK
<1>2. FreeHeads \subseteq Pages
  BY DEF TypeOK, FreeHeads
<1>3. used \subseteq Pages /\ Away \subseteq Pages
  BY DEF TypeOK, Away, Half
<1>4. Heads \subseteq Pages
  BY <1>2, <1>3 DEF Heads
<1>5. /\ used \subseteq Heads /\ Away \subseteq Heads
      /\ \A k \in Orders : page_list[k] \subseteq Heads
  BY DEF Heads, FreeHeads
<1>6. \A k \in Orders : page_list[k] \subseteq Pages
  BY DEF TypeOK
<1> QED
  BY <1>1, <1>3, <1>4, <1>5, <1>6 DEF Pages

(* A page is never its own buddy.                                          *)
LEMMA BuddyIsOther ==
    ASSUME NEW i \in Nat, NEW k \in Nat
    PROVE  Buddy(Truncate(i, k), k) # i
<1> DEFINE p == Truncate(i, k)
           b == Buddy(p, k)
           w == 2^k
<1>1. /\ p \in Nat /\ b \in Nat /\ w \in Nat /\ w >= 1
      /\ p <= i /\ i < p + w
      /\ b = p + w \/ p = b + w
  BY TruncateBounds, BuddyOfTruncate, PowerPositive
<1> HIDE DEF p, b, w
<1>2. b # i
  BY <1>1
<1> QED
  BY <1>2 DEF b, p

(* A buddy that passes the merge test heads a cluster of the expected      *)
(* order.                                                                  *)
LEMMA JoinedAreHeads ==
    ASSUME Core, NEW i \in Heads, NEW k \in Orders, order[i] <= k, CanMerge(i, k)
    PROVE  /\ Buddy(Truncate(i, k), k) \in Heads
           /\ order[Buddy(Truncate(i, k), k)] = k
           /\ Buddy(Truncate(i, k), k) \notin used \cup reserved
<1> DEFINE b == Buddy(Truncate(i, k), k)
<1>1. b < NrPages /\ order[b] = k /\ ~ NotFreed(b)
  BY DEF CanMerge
<1>2. b \in Heads
  BY <1>1, ConstantFacts, HeadsArePages, BuddyIsHead DEF Core
<1> QED
  BY <1>1, <1>2 DEF NotFreed

(* If it is not between the two steps of a reservation, it is linked in    *)
(* the list the code takes it from.                                        *)
LEMMA JoinedAreListed ==
    ASSUME Core, NEW b \in Heads, b \notin used \cup Away
    PROVE  b \in page_list[order[b]]
<1>1. PICK j \in Orders : b \in page_list[j]
  BY DEF Heads, FreeHeads
<1>2. order[b] = j
  BY <1>1 DEF Core, Listed
<1> QED
  BY <1>1, <1>2

(* What the merge loop does to the page i, in terms of the partition.      *)
LEMMA MergeFacts ==
    ASSUME Core, NEW i \in Heads
    PROVE  LET m == MergedOrder(i)
               c == Truncate(i, m)
           IN  /\ i \in Pages /\ m \in Orders /\ order[i] <= m /\ c \in Pages
               /\ \A k \in order[i]..(m - 1) :
                    /\ k \in Orders
                    /\ Buddy(Truncate(i, k), k) \in Heads
                    /\ order[Buddy(Truncate(i, k), k)] = k
                    /\ Buddy(Truncate(i, k), k) \notin used \cup reserved
                    /\ Buddy(Truncate(i, k), k) # i
<1>1. i \in Pages
  BY HeadsArePages DEF Core, Pages
<1>2. /\ MergedOrder(i) \in Orders /\ order[i] <= MergedOrder(i)
      /\ \A k \in order[i]..(MergedOrder(i) - 1) : CanMerge(i, k)
  BY <1>1, MergedOrderFacts DEF Core
<1> DEFINE m == MergedOrder(i)
<1> HIDE DEF m
<1>3. m \in Orders /\ order[i] <= m /\ \A k \in order[i]..(m - 1) : CanMerge(i, k)
  BY <1>2 DEF m
<1>4. order[i] \in Nat /\ m \in Nat /\ m <= MaxOrder - 1
  BY <1>1, <1>3, ConstantFacts DEF Core, TypeOK
<1>5. \A k \in order[i]..(m - 1) : k \in Orders /\ k \in Nat /\ order[i] <= k
  BY <1>4, PfdbAssumption DEF Orders
<1>6. \A k \in order[i]..(m - 1) :
         /\ k \in Orders
         /\ Buddy(Truncate(i, k), k) \in Heads
         /\ order[Buddy(Truncate(i, k), k)] = k
         /\ Buddy(Truncate(i, k), k) \notin used \cup reserved
  BY <1>3, <1>5, JoinedAreHeads
<1>7. Truncate(i, m) \in Pages
  <2>1. i \in Nat /\ i < NrPages
    BY <1>1, ConstantFacts
  <2>2. Truncate(i, m) \in Nat /\ Truncate(i, m) <= i
    BY <1>4, <2>1, TruncateBounds
  <2> QED
    BY <2>1, <2>2, ConstantFacts DEF Pages
<1>8. \A k \in order[i]..(m - 1) : Buddy(Truncate(i, k), k) # i
  BY <1>1, <1>5, ConstantFacts, BuddyIsOther
<1> QED
  BY <1>1, <1>3, <1>6, <1>7, <1>8 DEF m

\* What the return of the page i does to the orders, whatever it merges.
Reordered(i) ==
    /\ order' \in [Pages -> Orders]
    /\ page_list' \in [Orders -> SUBSET Pages]
    /\ LET m == MergedOrder(i)
           c == Truncate(i, m)
           gone == {i} \cup Joined(i)
       IN  /\ order'[c] = m
           /\ c \notin Heads \ gone
           /\ Partition((Heads \ gone) \cup {c}, order', NrPages)
           /\ \A h \in Heads \ gone : order'[h] = order[h]
           /\ used \ {i} \subseteq Heads \ gone

\* What a partition-preserving return of the page i leaves behind.
Returned(i) ==
    /\ order' \in [Pages -> Orders]
    /\ page_list' \in [Orders -> SUBSET Pages]
    /\ Listed'
    /\ Partition(Heads', order', NrPages)
    /\ \A q \in (used \cup Away) \ {i} : order'[q] = order[q]
    /\ \A k \in Orders : free_nr[k] = Cardinality(page_list[k]) =>
                         free_nr'[k] = Cardinality(page_list'[k])
    /\ Merged'
    /\ LET c == Truncate(i, MergedOrder(i))
       IN  /\ c \in Heads' \ (used' \cup Away')
           /\ order'[c] = MergedOrder(i)

(* enqueue_page_to_buddy_pool on a page that is in use or kept away: the   *)
(* merged cluster and the others are a partition.                          *)
LEMMA EnqueueOrders ==
    ASSUME Core, NEW i \in used \cup Away, enqueue_page_to_buddy_pool(i)
    PROVE  Reordered(i)
<1> DEFINE o == order[i]
           m == MergedOrder(i)
           c == Truncate(i, m)
           B(k) == Buddy(Truncate(i, k), k)
           gone == {i} \cup {B(k) : k \in o..(m - 1)}
           passed(q) == {k \in o..m : Truncate(i, k) = q}
<1>0. TypeOK /\ Listed /\ Partition(Heads, order, NrPages)
  BY DEF Core
<1>1. i \in Heads
  BY HeadsArePages, <1>0
<1>2. /\ i \in Pages /\ m \in Orders /\ o <= m /\ c \in Pages
      /\ \A k \in o..(m - 1) : /\ k \in Orders /\ B(k) \in Heads
                               /\ order[B(k)] = k /\ B(k) \notin used
  BY <1>1, MergeFacts
<1>3. /\ order' = [q \in Pages |-> IF passed(q) = {} THEN order[q] ELSE Max(passed(q))]
      /\ page_list' = [k \in Orders |->
            IF k = m THEN page_list[k] \cup {c}
            ELSE IF k \in o..(m - 1) THEN page_list[k] \ {B(k)} ELSE page_list[k]]
  BY DEF enqueue_page_to_buddy_pool
<1>4. i \in Nat /\ i < NrPages /\ NrPages \in Nat /\ o \in Nat /\ m \in Nat
  BY <1>0, <1>2, ConstantFacts DEF TypeOK
<1>5. 2^m \in Nat /\ 2^m >= 1
  BY <1>4, PowerPositive
<1>6. c \in Nat /\ c <= i /\ i < c + 2^m
  BY <1>4, TruncateBounds
\* The loop writes the order of pages of the merged cluster only.
<1>7. ASSUME NEW k \in o..m PROVE c <= Truncate(i, k) /\ Truncate(i, k) < c + 2^m
  <2>1. k \in Nat /\ k <= m
    BY <1>4
  <2>2. c <= Truncate(i, k) /\ Truncate(i, k) + 2^k <= c + 2^m
    BY <1>4, <2>1, TruncateNest
  <2>3. Truncate(i, k) \in Nat /\ 2^k \in Nat /\ 2^k >= 1
    BY <1>4, <2>1, TruncateBounds, PowerPositive
  <2> QED
    BY <1>5, <1>6, <2>2, <2>3
<1>8. ASSUME NEW q \in Pages, q < c \/ c + 2^m <= q PROVE order'[q] = order[q]
  <2>1. q \in Nat
    BY ConstantFacts
  <2>2. ASSUME NEW k \in o..m, Truncate(i, k) = q PROVE FALSE
    <3>1. c <= q /\ q < c + 2^m
      BY <1>7, <2>2
    <3> QED
      BY <1>5, <1>6, <1>8, <2>1, <3>1
  <2>3. passed(q) = {}
    BY <2>2
  <2> HIDE DEF passed
  <2> QED
    BY <1>3, <2>3
<1>9. order'[c] = m
  <2>1. m \in passed(c)
    BY <1>2, <1>4
  <2>2. passed(c) \in SUBSET (0..m)
    BY <1>4
  <2>3. \A k \in passed(c) : k \in Nat /\ k <= m
    BY <1>4
  <2> HIDE DEF passed
  <2>4. Max(passed(c)) \in passed(c) /\ \A y \in passed(c) : Max(passed(c)) >= y
    BY <1>4, <2>1, <2>2, MaxMember
  <2>5. Max(passed(c)) = m
    BY <1>4, <2>1, <2>3, <2>4
  <2> QED
    BY <1>2, <1>3, <2>1, <2>5
<1>10. order' \in [Pages -> Orders]
  <2> SUFFICES ASSUME NEW q \in Pages, passed(q) # {} PROVE Max(passed(q)) \in Orders
    BY <1>0, <1>3 DEF TypeOK
  <2>1. passed(q) \in SUBSET (0..m)
    BY <1>4
  <2> HIDE DEF passed, m
  <2>2. 0..m \subseteq Orders
    BY <1>2, <1>4, PfdbAssumption DEF Orders
  <2> QED
    BY <1>4, <2>1, <2>2, MaxMember
<1> HIDE DEF o, m, c, B, passed
<1>11. page_list' \in [Orders -> SUBSET Pages]
  BY <1>0, <1>2, <1>3 DEF TypeOK
\* The merged cluster and the rest are a partition.
<1>12. /\ c \notin Heads \ gone
       /\ \A h \in Heads \ gone : h < c \/ c + 2^m <= h
       /\ Partition((Heads \ gone) \cup {c}, order', NrPages)
  <2>1. Heads \in SUBSET (0..(NrPages - 1)) /\ order \in [0..(NrPages - 1) -> Nat]
    BY <1>0, HeadsArePages
  <2>2. order' \in [0..(NrPages - 1) -> Nat]
    BY <1>10, ConstantFacts DEF Pages
  <2>3. \A k \in o..(m - 1) : B(k) \in Heads /\ order[B(k)] = k
    BY <1>2
  <2>4. \A h \in Heads : (h < c \/ c + 2^m <= h) => order'[h] = order[h]
    BY <1>8, <2>1 DEF Pages
  <2>5. order[i] <= m /\ order'[Truncate(i, m)] = m
    BY <1>2, <1>9 DEF o, c
  <2>6. \A k \in order[i]..(m - 1) : /\ Buddy(Truncate(i, k), k) \in Heads
                                     /\ order[Buddy(Truncate(i, k), k)] = k
    BY <2>3 DEF o, B
  <2>7. \A h \in Heads : (h < Truncate(i, m) \/ Truncate(i, m) + 2^m <= h)
                         => order'[h] = order[h]
    BY <2>4 DEF c
  <2>8. Merge(Heads, order, NrPages, i, m, order')
    BY <1>0, <2>5, <2>6, <2>7 DEF Merge
  <2>9. MergeResult(Heads, order, NrPages, i, m, order')
    BY <1>1, <1>4, <2>1, <2>2, <2>8, MergePartition
  <2> QED
    BY <2>9 DEF MergeResult, c, B, o
<1>13. \A h \in Heads \ gone : order'[h] = order[h]
  <2>1. \A h \in Heads : h \in Pages
    BY <1>0, HeadsArePages DEF Pages
  <2> QED
    BY <1>8, <1>12, <2>1
<1>14. used \ {i} \subseteq Heads \ gone
  BY <1>0, <1>2, HeadsArePages
<1>15. gone = {i} \cup Joined(i)
  BY DEF Joined, B, o, m
<1> HIDE DEF gone
<1> QED
  BY <1>9, <1>10, <1>11, <1>12, <1>13, <1>14, <1>15 DEF Reordered, c, m

(* If the merge takes no page of Half, the lists and their counters stay   *)
(* exact as well.                                                          *)
LEMMA EnqueueStep ==
    ASSUME Core, NEW i \in used \cup Away,
           enqueue_page_to_buddy_pool(i), Away' = Away \ {i}, ~ torn'
    PROVE  Returned(i)
<1> DEFINE o == order[i]
           m == MergedOrder(i)
           c == Truncate(i, m)
           B(k) == Buddy(Truncate(i, k), k)
           gone == {i} \cup {B(k) : k \in o..(m - 1)}
<1>0. TypeOK /\ Listed /\ Partition(Heads, order, NrPages)
  BY DEF Core
<1>1. i \in Heads
  BY HeadsArePages, <1>0
<1>a. /\ i \in Pages /\ m \in Orders /\ o <= m /\ c \in Pages
      /\ \A k \in o..(m - 1) : /\ k \in Orders /\ B(k) \in Heads /\ order[B(k)] = k
                               /\ B(k) \notin used \cup reserved /\ B(k) # i
  BY <1>1, MergeFacts
<1>b. \A k \in o..(m - 1) : B(k) \in Joined(i)
  BY DEF Joined
<1>c. Joined(i) \cap (Half \ {i}) = {}
  BY DEF enqueue_page_to_buddy_pool
<1>3. /\ used' = used \ {i}
      /\ page_list' = [k \in Orders |->
            IF k = m THEN page_list[k] \cup {c}
            ELSE IF k \in o..(m - 1) THEN page_list[k] \ {B(k)} ELSE page_list[k]]
      /\ free_nr' = [k \in Orders |->
            IF k = m THEN free_nr[k] + 1
            ELSE IF k \in o..(m - 1) THEN free_nr[k] - 1 ELSE free_nr[k]]
  BY DEF enqueue_page_to_buddy_pool
<1>4. i \in Nat /\ i < NrPages /\ NrPages \in Nat /\ o \in Nat /\ m \in Nat
  BY <1>0, <1>a, ConstantFacts DEF TypeOK
<1>d. gone = {i} \cup Joined(i)
  BY DEF Joined
<1> HIDE DEF o, m, c, B
<1>e. \A k \in o..(m - 1) : B(k) \notin used \cup Away
  BY <1>a, <1>b, <1>c DEF Away
<1>2. /\ i \in Pages /\ m \in Orders /\ o <= m /\ c \in Pages
      /\ \A k \in o..(m - 1) : /\ k \in Orders /\ B(k) \in page_list[k]
                               /\ order[B(k)] = k /\ B(k) \notin used \cup Away
  BY <1>a, <1>e, JoinedAreListed
<1>f. Reordered(i)
  BY EnqueueOrders
<1>9. order'[c] = m
  BY <1>f DEF Reordered, c, m
<1>10. order' \in [Pages -> Orders]
  BY <1>f DEF Reordered
<1>11. page_list' \in [Orders -> SUBSET Pages]
  BY <1>f DEF Reordered
<1>12. c \notin Heads \ gone /\ Partition((Heads \ gone) \cup {c}, order', NrPages)
  BY <1>d, <1>f DEF Reordered, c, m
<1>13. \A h \in Heads \ gone : order'[h] = order[h]
  BY <1>d, <1>f DEF Reordered
\* What is in use or kept away was not merged.
<1>14. (used \cup Away) \ {i} \subseteq Heads \ gone
  BY <1>0, <1>2, HeadsArePages
<1>15. used' \cup Away' = (used \cup Away) \ {i}
  BY <1>3
\* What stays linked was not merged, and what was merged is unlinked.
<1>16. ASSUME NEW k \in Orders, NEW q \in page_list[k]
       PROVE  q \in gone <=> (k \in o..(m - 1) /\ q = B(k))
  <2>1. order[q] = k /\ q \notin used \cup Away
    BY <1>0 DEF Listed
  <2>2. q # i
    BY <1>1, <2>1
  <2>3. \A j \in o..(m - 1) : q = B(j) => j = k
    BY <1>2, <2>1
  <2> QED
    BY <2>2, <2>3
<1>17. ASSUME NEW k \in Orders
       PROVE  page_list'[k] = (page_list[k] \ gone) \cup (IF k = m THEN {c} ELSE {})
  <2>1. CASE k = m
    <3>1. k \notin o..(m - 1)
      BY <1>4, <2>1
    <3> QED
      BY <1>3, <1>16, <2>1, <3>1
  <2>2. CASE k # m
    BY <1>3, <1>16, <2>2
  <2> QED
    BY <2>1, <2>2
<1>18. FreeHeads' = (FreeHeads \ gone) \cup {c}
  <2>1. FreeHeads' = UNION {page_list'[k] : k \in Orders}
    BY DEF FreeHeads
  <2> HIDE DEF gone
  <2> QED
    BY <1>2, <1>17, <2>1 DEF FreeHeads
<1>19. Heads' = (Heads \ gone) \cup {c}
  <2>1. Heads' = FreeHeads' \cup (used' \cup Away')
    BY DEF Heads
  <2> QED
    BY <1>14, <1>15, <1>18, <2>1 DEF Heads
<1>20. Partition(Heads', order', NrPages)
  BY <1>12, <1>19
<1>21. Listed'
  <2>1. \A k \in Orders : \A q \in page_list'[k] :
           order'[q] = k /\ q \notin used' \cup Away'
    <3> SUFFICES ASSUME NEW k \in Orders, NEW q \in page_list'[k]
                 PROVE  order'[q] = k /\ q \notin used' \cup Away'
      OBVIOUS
    <3>1. CASE q \in page_list[k] \ gone
      <4>1. q \in Heads \ gone /\ order[q] = k /\ q \notin used \cup Away
        BY <1>0, <3>1, HeadsArePages DEF Listed
      <4> QED
        BY <1>13, <1>15, <4>1
    <3>2. CASE k = m /\ q = c
      <4>1. c \notin (used \cup Away) \ {i}
        BY <1>12, <1>14
      <4> QED
        BY <1>9, <1>15, <3>2, <4>1
    <3> QED
      BY <1>17, <3>1, <3>2
  <2>2. used' \cap Away' = {}
    BY <1>0, <1>3 DEF Listed
  <2>3. \A q \in Away' : order'[q] = 0
    BY <1>0, <1>13, <1>14 DEF Listed
  <2> QED
    BY <2>1, <2>2, <2>3 DEF Listed
<1>22. \A q \in (used \cup Away) \ {i} : order'[q] = order[q]
  BY <1>13, <1>14
<1>23. ASSUME NEW k \in Orders, free_nr[k] = Cardinality(page_list[k])
       PROVE  free_nr'[k] = Cardinality(page_list'[k])
  <2>1. IsFiniteSet(page_list[k])
    <3>1. IsFiniteSet(Pages)
      BY PagesFinite
    <3> QED
      BY <1>0, <3>1, FS_Subset, HeadsArePages
  <2>2. CASE k = m
    <3>1. c \notin page_list[k]
      <4>1. page_list[k] \subseteq Heads \ gone
        <5>1. \A q \in page_list[k] : q \notin gone
          <6>1. k \notin o..(m - 1)
            BY <1>4, <2>2
          <6> QED
            BY <1>16, <6>1
        <5> QED
          BY <1>0, <5>1, HeadsArePages
      <4> QED
        BY <1>12, <4>1
    <3>2. Cardinality(page_list[k] \cup {c}) = Cardinality(page_list[k]) + 1
      BY <2>1, <3>1, FS_AddElement
    <3> QED
      BY <1>3, <1>23, <2>2, <3>2
  <2>3. CASE k # m /\ k \in o..(m - 1)
    <3>1. B(k) \in page_list[k]
      BY <1>2, <2>3
    <3>2. Cardinality(page_list[k] \ {B(k)}) = Cardinality(page_list[k]) - 1
      BY <2>1, <3>1, FS_RemoveElement
    <3> QED
      BY <1>3, <1>23, <2>3, <3>2
  <2>4. CASE k # m /\ k \notin o..(m - 1)
    BY <1>3, <1>23, <2>4
  <2> QED
    BY <2>2, <2>3, <2>4
\* The merged cluster has no free buddy, or it would have been merged.
<1>24. Merged'
  <2> SUFFICES ASSUME NEW k \in 0..(MaxOrder - 2), NEW q \in page_list'[k],
                      Buddy(q, k) \in page_list'[k]
               PROVE  FALSE
    BY DEF Merged
  <2>1. k \in Orders /\ k \in Nat /\ k < MaxOrder - 1
    BY PfdbAssumption DEF Orders
  <2>2. q \in page_list[k] => Buddy(q, k) \notin page_list[k]
    BY DEF Core, Merged
  <2>3. /\ q \in page_list[k] \/ (k = m /\ q = c)
        /\ Buddy(q, k) \in page_list[k] \/ (k = m /\ Buddy(q, k) = c)
    BY <1>17, <2>1
  <2>4. k = m
    BY <2>2, <2>3
  <2>5. c \in Nat /\ Aligned(c, m)
    BY <1>4, TruncateBounds DEF c
  <2>6. Buddy(Buddy(c, m), m) = c /\ Buddy(c, m) # c
    BY <1>4, <2>5, BuddyInvolution
  <2>7. Buddy(c, m) \notin page_list[m]
    <3>1. SUFFICES ASSUME Buddy(c, m) \in page_list[m] PROVE FALSE
      OBVIOUS
    <3>2. /\ Buddy(c, m) \in Pages /\ order[Buddy(c, m)] = m /\ Buddy(c, m) \notin used \cup Away
      BY <1>0, <1>2, <3>1 DEF TypeOK, Listed
    <3>3. Buddy(c, m) < NrPages
      BY <3>2, ConstantFacts
    <3>4. CanMerge(i, m)
      BY <2>1, <2>4, <3>2, <3>3 DEF CanMerge, c, NotFreed, Away
    <3> QED
      BY <1>0, <1>2, <3>4, MergedOrderFacts DEF m
  <2>8. CASE q = c
    BY <2>3, <2>4, <2>6, <2>7, <2>8
  <2>9. CASE q \in page_list[k] /\ Buddy(q, k) = c
    <3>1. q \in Heads /\ order[q] = k
      BY <1>0, <2>1, <2>9, HeadsArePages DEF Listed
    <3>2. q \in Nat /\ Aligned(q, k)
      BY <1>0, <3>1, HeadsArePages DEF Partition
    <3>3. Buddy(c, m) = q
      BY <2>1, <2>4, <2>9, <3>2, BuddyInvolution
    <3> QED
      BY <2>4, <2>7, <2>9, <3>3
  <2> QED
    BY <2>2, <2>3, <2>8, <2>9
<1>25. c \in Heads' \ (used' \cup Away')
  BY <1>12, <1>14, <1>15, <1>19
<1> QED
  BY <1>9, <1>10, <1>11, <1>20, <1>21, <1>22, <1>23, <1>24, <1>25 DEF Returned, c, m

-----------------------------------------------------------------------------
(* Taking a cluster out of the pool.                                       *)

\* What taking the page i out of the pool, at order o, leaves behind.
Taken(i, o) ==
    /\ order' \in [Pages -> Orders]
    /\ page_list' \in [Orders -> SUBSET Pages]
    /\ Listed'
    /\ Partition(Heads', order', NrPages)
    /\ order'[i] = o
    /\ \A q \in used \cup Away : order'[q] = order[q]
    /\ \A k \in Orders : free_nr[k] = Cardinality(page_list[k]) =>
                         free_nr'[k] = Cardinality(page_list'[k])
    /\ Merged'

(* adjust_page_order on the head of a free cluster that becomes used or,   *)
(* at order 0, kept away keeps the clusters a partition and the lists and  *)
(* their counters exact.                                                   *)
LEMMA AdjustStep ==
    ASSUME Core, NEW f \in Orders, NEW i \in page_list[f], NEW o \in 0..f,
           adjust_page_order(i, f, o),
           used' \cup Away' = (used \cup Away) \cup {i},
           used' \cap Away' = {},
           \A q \in Away' : q \in Away \/ (q = i /\ o = 0)
    PROVE  Taken(i, o)
<1> DEFINE B(k) == Buddy(i, k)
           halves == {B(k) : k \in o..(f - 1)}
           cut(q) == {k \in o..(f - 1) : B(k) = q}
<1>0. TypeOK /\ Listed /\ Partition(Heads, order, NrPages)
  BY DEF Core
<1>1. i \in Pages /\ i \in Heads /\ order[i] = f /\ i \notin used \cup Away
  BY <1>0, HeadsArePages DEF Listed
<1>2. /\ order' = [q \in Pages |->
            IF q = i THEN o ELSE IF cut(q) = {} THEN order[q] ELSE Max(cut(q))]
      /\ page_list' = [k \in Orders |->
            IF k = f THEN page_list[k] \ {i}
            ELSE IF k \in o..(f - 1) THEN page_list[k] \cup {B(k)} ELSE page_list[k]]
      /\ free_nr' = [k \in Orders |->
            IF k = f THEN free_nr[k] - 1
            ELSE IF k \in o..(f - 1) THEN free_nr[k] + 1 ELSE free_nr[k]]
  BY DEF adjust_page_order, UpperHalves
<1>3. /\ i \in Nat /\ f \in Nat /\ o \in Nat /\ o <= f /\ NrPages \in Nat
      /\ f <= MaxOrder - 1 /\ MaxOrder \in Nat
  BY <1>1, ConstantFacts, PfdbAssumption
<1>4. Heads \in SUBSET (0..(NrPages - 1)) /\ order \in [0..(NrPages - 1) -> Nat]
  BY <1>0, HeadsArePages
<1>5. Aligned(i, f)
  BY <1>0, <1>1 DEF Partition
<1>6. \A k \in o..(f - 1) : k \in Orders /\ k \in 0..(f - 1) /\ k \in Nat
  BY <1>3 DEF Orders
\* The halves are pages that headed no cluster, one for each order.
<1>7. ASSUME NEW k \in o..(f - 1)
      PROVE  B(k) \in Pages /\ B(k) \notin Heads /\ B(k) = i + 2^k /\ 2^k \in Nat
  <2>1. k \in 0..(order[i] - 1) /\ k \in 0..(f - 1) /\ k \in Nat
    BY <1>1, <1>6
  <2>2. B(k) \in 0..(NrPages - 1) /\ B(k) \notin Heads
    BY <1>0, <1>1, <1>3, <1>4, <2>1, HalvesNew
  <2>3. B(k) = i + 2^k /\ 2^k \in Nat
    BY <1>3, <1>5, <2>1, HalfBounds, PowerPositive
  <2> QED
    BY <2>2, <2>3 DEF Pages
<1>8. ASSUME NEW k \in o..(f - 1), NEW j \in o..(f - 1), B(j) = B(k) PROVE j = k
  <2>1. 2^j = 2^k /\ 2^j \in Nat /\ 2^k \in Nat
    BY <1>3, <1>7, <1>8
  <2>2. j < k => 2^j < 2^k
    BY <1>6, PowerGrows
  <2>3. k < j => 2^k < 2^j
    BY <1>6, PowerGrows
  <2> QED
    BY <1>6, <2>1, <2>2, <2>3
<1>9. ASSUME NEW k \in o..(f - 1) PROVE order'[B(k)] = k
  <2>1. cut(B(k)) = {k}
    BY <1>8
  <2>2. Max({k}) = k
    <3>1. {k} \in SUBSET Nat /\ {k} \in SUBSET (0..f)
      BY <1>3, <1>6
    <3> QED
      BY <1>3, <3>1, MaxMember
  <2>3. B(k) # i /\ B(k) \in Pages
    BY <1>1, <1>7
  <2> HIDE DEF cut
  <2> QED
    BY <1>2, <2>1, <2>2, <2>3
<1>10. order'[i] = o
  BY <1>1, <1>2
<1>11. ASSUME NEW h \in Heads \ {i} PROVE order'[h] = order[h]
  <2>1. h \in Pages
    BY <1>4 DEF Pages
  <2>2. cut(h) = {}
    BY <1>7
  <2> HIDE DEF cut
  <2> QED
    BY <1>2, <2>1, <2>2
<1>12. order' \in [Pages -> Orders]
  <2>1. o \in Orders
    BY <1>3 DEF Orders
  <2>2. \A k \in o..(f - 1) : order'[B(k)] \in Orders
    BY <1>6, <1>9
  <2>3. \A q \in Pages : q # i /\ cut(q) # {} => \E k \in o..(f - 1) : q = B(k)
    OBVIOUS
  <2>4. \A q \in Pages : order'[q] \in Orders
    <3> TAKE q \in Pages
    <3>1. CASE q = i
      BY <1>10, <2>1, <3>1
    <3>2. CASE q # i /\ cut(q) # {}
      BY <2>2, <2>3, <3>2
    <3>3. CASE q # i /\ cut(q) = {}
      <4> HIDE DEF cut
      <4> QED
        BY <1>0, <1>2, <3>3 DEF TypeOK
    <3> QED
      BY <3>1, <3>2, <3>3
  <2> HIDE DEF cut
  <2>5. order' = [q \in Pages |-> order'[q]]
    BY <1>2
  <2> QED
    BY <2>4, <2>5
<1> HIDE DEF B, cut
<1>13. page_list' \in [Orders -> SUBSET Pages]
  BY <1>0, <1>2, <1>7 DEF TypeOK
<1>14. Partition(Heads \cup halves, order', NrPages)
  <2>1. Split(Heads, order, NrPages, i, o, order')
    <3>1. \A k \in o..(order[i] - 1) : order'[Buddy(i, k)] = k
      BY <1>1, <1>9 DEF B
    <3> QED
      BY <1>0, <1>1, <1>10, <1>11, <3>1 DEF Split
  <2>2. order' \in [0..(NrPages - 1) -> Nat]
    BY <1>12, ConstantFacts DEF Pages
  <2>3. SplitResult(Heads, order, NrPages, i, o, order')
    BY <1>1, <1>3, <1>4, <2>1, <2>2, SplitPartition
  <2> QED
    BY <1>1, <2>3 DEF SplitResult, B
<1>15. ASSUME NEW k \in Orders
       PROVE  page_list'[k] = (page_list[k] \ {i}) \cup (IF k \in o..(f - 1) THEN {B(k)} ELSE {})
  <2>1. k # f => i \notin page_list[k]
    BY <1>0, <1>1 DEF Listed
  <2>2. f \notin o..(f - 1)
    BY <1>3
  <2> QED
    BY <1>2, <2>1, <2>2
<1>16. FreeHeads' = (FreeHeads \ {i}) \cup halves
  <2>1. FreeHeads' = UNION {page_list'[k] : k \in Orders}
    BY DEF FreeHeads
  <2>2. ASSUME NEW q PROVE q \in FreeHeads' <=> q \in (FreeHeads \ {i}) \cup halves
    <3>1. q \in FreeHeads' <=> \E k \in Orders : q \in page_list'[k]
      BY <2>1
    <3>2. q \in FreeHeads <=> \E k \in Orders : q \in page_list[k]
      BY DEF FreeHeads
    <3>3. q \in halves <=> \E k \in Orders : k \in o..(f - 1) /\ q = B(k)
      BY <1>6
    <3>4. ASSUME q \in FreeHeads' PROVE q \in (FreeHeads \ {i}) \cup halves
      <4>1. PICK k \in Orders : q \in page_list'[k]
        BY <3>1, <3>4
      <4>2. q \in page_list[k] \ {i} \/ (k \in o..(f - 1) /\ q = B(k))
        BY <1>15, <4>1
      <4> QED
        BY <3>2, <3>3, <4>2
    <3>5. ASSUME q \in (FreeHeads \ {i}) \cup halves PROVE q \in FreeHeads'
      <4>1. CASE q \in FreeHeads \ {i}
        BY <1>15, <3>1, <3>2, <4>1
      <4>2. CASE q \in halves
        BY <1>15, <3>1, <3>3, <4>2
      <4> QED
        BY <3>5, <4>1, <4>2
    <3> QED
      BY <3>4, <3>5
  <2> QED
    BY <2>2
<1>17. Heads' = Heads \cup halves
  <2>1. Heads' = FreeHeads' \cup (used' \cup Away')
    BY DEF Heads
  <2> HIDE DEF halves
  <2> QED
    BY <1>1, <1>16, <2>1 DEF Heads
<1>18. Partition(Heads', order', NrPages)
  BY <1>14, <1>17
<1>19. \A q \in used \cup Away : order'[q] = order[q]
  BY <1>1, <1>11 DEF Heads
<1>20. Listed'
  <2>1. \A k \in Orders : \A q \in page_list'[k] :
           order'[q] = k /\ q \notin used' \cup Away'
    <3> SUFFICES ASSUME NEW k \in Orders, NEW q \in page_list'[k]
                 PROVE  order'[q] = k /\ q \notin used' \cup Away'
      OBVIOUS
    <3>1. CASE q \in page_list[k] \ {i}
      <4>1. q \in Heads \ {i} /\ order[q] = k /\ q \notin used \cup Away
        BY <1>0, <3>1, HeadsArePages DEF Listed
      <4> QED
        BY <1>11, <4>1
    <3>2. CASE k \in o..(f - 1) /\ q = B(k)
      <4>1. q \notin Heads /\ q # i
        BY <1>1, <1>7, <3>2
      <4> QED
        BY <1>9, <3>2, <4>1 DEF Heads
    <3> QED
      BY <1>15, <3>1, <3>2
  <2>2. \A q \in Away' : order'[q] = 0
    BY <1>0, <1>10, <1>19 DEF Listed
  <2> QED
    BY <2>1, <2>2 DEF Listed
<1>21. ASSUME NEW k \in Orders, free_nr[k] = Cardinality(page_list[k])
       PROVE  free_nr'[k] = Cardinality(page_list'[k])
  <2>1. IsFiniteSet(page_list[k])
    <3>1. IsFiniteSet(Pages)
      BY PagesFinite
    <3> QED
      BY <1>0, <3>1, FS_Subset, HeadsArePages
  <2>2. CASE k = f
    <3>1. Cardinality(page_list[k] \ {i}) = Cardinality(page_list[k]) - 1
      BY <2>1, <2>2, FS_RemoveElement
    <3> QED
      BY <1>2, <1>21, <2>2, <3>1
  <2>3. CASE k # f /\ k \in o..(f - 1)
    <3>1. B(k) \notin page_list[k]
      BY <1>7, <2>3 DEF Heads, FreeHeads
    <3>2. Cardinality(page_list[k] \cup {B(k)}) = Cardinality(page_list[k]) + 1
      BY <2>1, <3>1, FS_AddElement
    <3> QED
      BY <1>2, <1>21, <2>3, <3>2
  <2>4. CASE k # f /\ k \notin o..(f - 1)
    BY <1>2, <1>21, <2>4
  <2> QED
    BY <2>2, <2>3, <2>4
\* The buddy of an upper half is the page itself, which is not linked there.
<1>22. Merged'
  <2> SUFFICES ASSUME NEW k \in 0..(MaxOrder - 2), NEW q \in page_list'[k],
                      Buddy(q, k) \in page_list'[k]
               PROVE  FALSE
    BY DEF Merged
  <2>1. k \in Orders /\ k \in Nat
    BY PfdbAssumption DEF Orders
  <2>2. q \in page_list[k] => Buddy(q, k) \notin page_list[k]
    BY DEF Core, Merged
  <2>3. /\ q \in page_list[k] \ {i} \/ (k \in o..(f - 1) /\ q = B(k))
        /\ Buddy(q, k) \in page_list[k] \ {i} \/ (k \in o..(f - 1) /\ Buddy(q, k) = B(k))
    BY <1>15, <2>1
  <2>4. k \in o..(f - 1)
    BY <2>2, <2>3
  <2>5. Aligned(i, k)
    BY <1>3, <1>5, <2>1, <2>4, AlignedDown
  <2>6. Buddy(B(k), k) = i /\ B(k) # i
    BY <1>3, <2>1, <2>5, BuddyInvolution DEF B
  <2>7. CASE q = B(k)
    BY <2>3, <2>6, <2>7
  <2>8. CASE q \in page_list[k] \ {i} /\ Buddy(q, k) = B(k)
    <3>1. q \in Heads /\ order[q] = k
      BY <1>0, <2>1, <2>8, HeadsArePages DEF Listed
    <3>2. q \in Nat /\ Aligned(q, k)
      BY <1>0, <3>1, HeadsArePages DEF Partition
    <3>3. Buddy(B(k), k) = q
      BY <2>1, <2>8, <3>2, BuddyInvolution
    <3> QED
      BY <2>6, <2>8, <3>3
  <2> QED
    BY <2>2, <2>3, <2>7, <2>8
<1> QED
  BY <1>10, <1>12, <1>13, <1>18, <1>19, <1>20, <1>21, <1>22 DEF Taken

-----------------------------------------------------------------------------
(* The invariant.                                                          *)

(* The state pfdb_add starts from satisfies the invariant.                 *)
LEMMA InitCore == Init => Core
<1> SUFFICES ASSUME Init PROVE Core
  OBVIOUS
<1>0. Half = {} /\ Away = Pages
  BY DEF Init, Half, Away
<1>1. NrPages \in Nat /\ MaxOrder \in Nat \ {0} /\ MaxUse \in Nat
  BY PfdbAssumption
<1>2. 0 \in Orders /\ 0 \in 0..MaxUse /\ 0 \in 0..NrPages
  BY <1>1 DEF Orders
<1>3. TypeOK
  <2>1. order \in [Pages -> Orders] /\ usecnt \in [Pages -> 0..MaxUse]
    BY <1>2 DEF Init
  <2>2. /\ usage \in [Pages -> Usages \cup {NoUsage}]
        /\ headp \in [Pages -> Pages \cup {NoPage}]
        /\ page_list \in [Orders -> SUBSET Pages] /\ free_nr \in [Orders -> Int]
        /\ usage_pages \in [Usages -> Int]
    BY DEF Init
  <2>3. /\ used \in SUBSET Pages /\ reserved \in SUBSET Pages /\ marking \in SUBSET Pages
        /\ clearing \in SUBSET Pages
    BY DEF Init
  <2>4. torn \in BOOLEAN /\ registered \in BOOLEAN
    BY Zenon DEF Init
  <2>5. available_pages \in Int /\ added \in 0..NrPages
    BY <1>2 DEF Init
  <2> QED
    BY <2>1, <2>2, <2>3, <2>4, <2>5 DEF TypeOK
<1>4. Heads = Pages
  BY <1>0 DEF Init, Heads, FreeHeads
<1>5. Listed
  BY <1>0 DEF Init, Listed
<1>6. Partition(Pages, order, NrPages)
  <2>1. \A i \in Pages : order[i] = 0 /\ i \in Nat /\ i < NrPages
    BY ConstantFacts DEF Init
  <2>2. 2^0 = 1
    OBVIOUS
  <2>a. \A i \in Pages : 2^order[i] = 1
    BY <2>1, <2>2
  <2>3. \A i \in Pages : Aligned(i, order[i]) /\ i + 2^order[i] <= NrPages
    <3> TAKE i \in Pages
    <3>1. i % 1 = 0 /\ i + 1 <= NrPages
      BY <1>1, <2>1
    <3> QED
      BY <2>a, <3>1 DEF Aligned
  <2>4. \A i, j \in Pages : i # j => i + 2^order[i] <= j \/ j + 2^order[j] <= i
    <3> TAKE i, j \in Pages
    <3>1. i # j => i + 1 <= j \/ j + 1 <= i
      BY <2>1
    <3> QED
      BY <2>a, <3>1
  <2>5. \A x \in 0..(NrPages - 1) : \E i \in Pages : i <= x /\ x < i + 2^order[i]
    <3> TAKE x \in 0..(NrPages - 1)
    <3>1. x \in Pages /\ order[x] = 0 /\ x <= x /\ x < x + 2^0
      BY <2>1, <2>2 DEF Pages
    <3> QED
      BY <3>1
  <2> QED
    BY <2>3, <2>4, <2>5 DEF Partition
<1>7. NotYetAdded
  BY <1>0 DEF NotYetAdded
<1>8. Counted
  <2>1. Cardinality(Pages) = NrPages /\ Cardinality({}) = 0
    BY PagesFinite, FS_EmptySet
  <2> QED
    BY <1>0, <1>1, <2>1 DEF Init, Counted
<1>9. Merged
  <2>1. \A k \in 0..(MaxOrder - 2) : page_list[k] = {}
    BY <1>1 DEF Init, Orders
  <2> QED
    BY <2>1 DEF Merged
<1>10. WindowOK
  BY <1>0 DEF Init, WindowOK
<1> QED
  BY <1>3, <1>4, <1>5, <1>6, <1>7, <1>8, <1>9, <1>10 DEF Core

(* The bookkeeping of a returned page keeps its types.                     *)
LEMMA EnqueueTypes ==
    ASSUME TypeOK, NEW i \in Pages, enqueue_page_to_buddy_pool(i)
    PROVE  /\ usage' \in [Pages -> Usages \cup {NoUsage}]
           /\ usage_pages' \in [Usages -> Int]
           /\ headp' \in [Pages -> Pages \cup {NoPage}]
           /\ used' = used \ {i}
           /\ free_nr' \in [Orders -> Int]
           /\ \A q \in Pages \ {i} : usage'[q] = usage[q]
<1>1. unmark_page_usage(i, order[i]) /\ used' = used \ {i}
  BY DEF enqueue_page_to_buddy_pool
<1>2. 2^order[i] \in Int
  <2>1. order[i] \in Nat
    BY ConstantFacts DEF TypeOK
  <2> QED
    BY <2>1, PowerPositive
<1>3. usage_pages' \in [Usages -> Int]
  BY <1>1, <1>2 DEF TypeOK, unmark_page_usage
<1>4. /\ usage' \in [Pages -> Usages \cup {NoUsage}]
      /\ \A q \in Pages \ {i} : usage'[q] = usage[q]
  BY <1>1 DEF TypeOK, unmark_page_usage
<1>5. headp' \in [Pages -> Pages \cup {NoPage}]
  BY DEF TypeOK, enqueue_page_to_buddy_pool, clear_clustered_pages
<1>6. free_nr' \in [Orders -> Int]
  BY DEF TypeOK, enqueue_page_to_buddy_pool
<1> QED
  BY <1>1, <1>3, <1>4, <1>5, <1>6

\* What the return of a page i leaves to its callers.
Handed(i) ==
    /\ i \in used \cup Away
    /\ enqueue_page_to_buddy_pool(i)
    /\ Away' = Away \ {i}
    /\ reserved' = reserved /\ marking' = marking /\ clearing' \in {clearing, {}}
    /\ usecnt' = usecnt /\ registered' = registered /\ added' \in 0..NrPages
    /\ available_pages' = available_pages + (IF i \in Away THEN 1 ELSE 0)
    /\ \A q \in Pages : added' <= q => q \in Away \ {i}
    /\ WindowOK'

(* The return of a page keeps the types, whatever it merges.               *)
LEMMA ReturnKeepsTypes ==
    ASSUME Core, NEW i, Handed(i)
    PROVE  TypeOK'
<1>1. TypeOK /\ i \in Pages /\ i \in used \cup Away /\ enqueue_page_to_buddy_pool(i)
  BY HeadsArePages DEF Core, Handed
<1>2. order' \in [Pages -> Orders] /\ page_list' \in [Orders -> SUBSET Pages]
  BY <1>1, EnqueueOrders DEF Reordered
<1>3. /\ usage' \in [Pages -> Usages \cup {NoUsage}]
      /\ usage_pages' \in [Usages -> Int]
      /\ headp' \in [Pages -> Pages \cup {NoPage}]
      /\ used' = used \ {i}
      /\ free_nr' \in [Orders -> Int]
  BY <1>1, EnqueueTypes
<1>4. available_pages' \in Int
  BY <1>1 DEF TypeOK, Handed
<1>5. torn' \in BOOLEAN
  BY <1>1 DEF enqueue_page_to_buddy_pool
<1>6. reserved' \in SUBSET Pages /\ marking' \in SUBSET Pages /\ clearing' \in SUBSET Pages
  BY <1>1 DEF Handed, TypeOK
<1>7. used' \in SUBSET Pages /\ usecnt' \in [Pages -> 0..MaxUse] /\ added' \in 0..NrPages
      /\ registered' \in BOOLEAN
  BY <1>1, <1>3 DEF Handed, TypeOK
<1> QED
  BY <1>2, <1>3, <1>4, <1>5, <1>6, <1>7 DEF TypeOK

(* If it takes no page of Half, it keeps the invariant.                    *)
LEMMA ReturnKeepsCore ==
    ASSUME Core, NEW i, Handed(i), ~ torn'
    PROVE  Core'
<1>1. TypeOK /\ i \in Pages /\ Away \subseteq Pages
  BY HeadsArePages DEF Core, Handed
<1>2. Returned(i)
  BY EnqueueStep DEF Handed
<1>4. TypeOK'
  BY ReturnKeepsTypes
<1>5. Listed' /\ Partition(Heads', order', NrPages) /\ Merged'
  BY <1>2 DEF Returned
<1>6. NotYetAdded'
  BY DEF NotYetAdded, Handed
<1>7. Counted'
  <2>1. \A k \in Orders : free_nr'[k] = Cardinality(page_list'[k])
    BY <1>2 DEF Returned, Core, Counted
  <2>2. available_pages' = NrPages - Cardinality(Away')
    <3>1. IsFiniteSet(Away)
      <4>1. IsFiniteSet(Pages)
        BY PagesFinite
      <4> QED
        BY <1>1, <4>1, FS_Subset
    <3>2. available_pages = NrPages - Cardinality(Away) /\ NrPages \in Nat
      BY ConstantFacts DEF Core, Counted
    <3>3. CASE i \in Away
      <4>1. Cardinality(Away') = Cardinality(Away) - 1 /\ Cardinality(Away) \in Nat
        BY <3>1, <3>3, FS_RemoveElement, FS_CardinalityType DEF Handed
      <4>2. available_pages' = available_pages + 1
        BY <3>3 DEF Handed
      <4> QED
        BY <3>2, <4>1, <4>2
    <3>4. CASE i \notin Away
      <4>1. Away' = Away
        BY <3>4 DEF Handed
      <4>2. available_pages' = available_pages
        BY <1>1, <3>4 DEF TypeOK, Handed
      <4> QED
        BY <3>2, <4>1, <4>2
    <3> QED
      BY <3>3, <3>4
  <2> QED
    BY <2>1, <2>2 DEF Counted
<1>8. WindowOK'
  BY DEF Handed
<1> QED
  BY <1>4, <1>5, <1>6, <1>7, <1>8 DEF Core

(* Taking a cluster out of the pool keeps the invariant.                   *)
LEMMA TakeKeepsCore ==
    ASSUME Core, Ready, NEW f \in Orders, NEW i \in page_list[f], NEW o \in 0..f,
           adjust_page_order(i, f, o), setup_clustered_pages(i, o),
           \/ used' = used \cup {i} /\ Away' = Away
           \/ used' = used /\ Away' = Away \cup {i} /\ o = 0,
           usage' \in [Pages -> Usages \cup {NoUsage}],
           usage_pages' \in [Usages -> Int],
           usecnt' \in [Pages -> 0..MaxUse],
           available_pages' = available_pages - (IF i \in Away' THEN 1 ELSE 0),
           added' = added, registered' = registered,
           reserved' = reserved, marking' \in SUBSET Pages, clearing' = clearing,
           torn' = torn, WindowOK'
    PROVE  Core'
<1>1. /\ TypeOK /\ i \in Pages /\ i \notin used /\ i \notin Away /\ used \cap Away = {}
      /\ Away \subseteq Pages
  BY HeadsArePages DEF Core, Listed
<1>2. Taken(i, o)
  <2>1. used' \cup Away' = (used \cup Away) \cup {i}
    OBVIOUS
  <2>2. used' \cap Away' = {}
    BY <1>1
  <2>3. \A q \in Away' : q \in Away \/ (q = i /\ o = 0)
    OBVIOUS
  <2> QED
    BY <2>1, <2>2, <2>3, AdjustStep
<1>3. headp' \in [Pages -> Pages \cup {NoPage}]
  BY <1>1 DEF setup_clustered_pages, TypeOK
<1>4. free_nr' \in [Orders -> Int]
  BY <1>1 DEF adjust_page_order, TypeOK
<1>5. TypeOK'
  <2>1. available_pages' \in Int
    BY <1>1 DEF TypeOK
  <2>2. order' \in [Pages -> Orders] /\ page_list' \in [Orders -> SUBSET Pages]
    BY <1>2 DEF Taken
  <2>3. used' \in SUBSET Pages /\ reserved' \in SUBSET Pages /\ clearing' \in SUBSET Pages
        /\ torn' \in BOOLEAN
    BY <1>1 DEF TypeOK
  <2> QED
    BY <1>1, <1>3, <1>4, <2>1, <2>2, <2>3 DEF TypeOK
<1>6. Listed' /\ Partition(Heads', order', NrPages) /\ Merged'
  BY <1>2 DEF Taken
<1>7. NotYetAdded'
  <2>1. \A q \in Pages : ~ (added <= q)
    BY ConstantFacts DEF Ready
  <2> QED
    BY <2>1 DEF NotYetAdded
<1>8. Counted'
  <2>1. \A k \in Orders : free_nr'[k] = Cardinality(page_list'[k])
    BY <1>2 DEF Taken, Core, Counted
  <2>2. available_pages' = NrPages - Cardinality(Away')
    <3>1. IsFiniteSet(Away)
      <4>1. IsFiniteSet(Pages)
        BY PagesFinite
      <4> QED
        BY <1>1, <4>1, FS_Subset
    <3>2. available_pages = NrPages - Cardinality(Away) /\ NrPages \in Nat
      BY ConstantFacts DEF Core, Counted
    <3>3. CASE Away' = Away \cup {i}
      <4>1. Cardinality(Away') = Cardinality(Away) + 1 /\ Cardinality(Away) \in Nat
        BY <1>1, <3>1, <3>3, FS_AddElement, FS_CardinalityType
      <4>2. available_pages' = available_pages - 1
        BY <3>3
      <4> QED
        BY <3>2, <4>1, <4>2
    <3>4. CASE Away' = Away
      <4>1. available_pages' = available_pages
        BY <1>1, <3>4 DEF TypeOK
      <4> QED
        BY <3>2, <3>4, <4>1
    <3> QED
      BY <3>3, <3>4
  <2> QED
    BY <2>1, <2>2 DEF Counted
<1> QED
  BY <1>5, <1>6, <1>7, <1>8 DEF Core

\* What the state of the pool and the frames' orders are made of.
shape == <<order, used, Away, page_list, free_nr, available_pages, added>>

(* Nothing of a reservation changes.                                       *)
LEMMA SameWindow ==
    ASSUME UNCHANGED <<reserved, marking, clearing, torn, added>>
    PROVE  Away' = Away /\ (WindowOK => WindowOK')
BY DEF Away, Half, WindowOK

(* The return of a page, in one of the two handlers that make one.         *)
LEMMA EnqueueIsReturn ==
    ASSUME Core, NEW i \in Pages, enqueue_unreserved(i)
    PROVE  Handed(i) /\ i \in Away
<1>0. TypeOK /\ WindowOK /\ NotYetAdded
  BY DEF Core
<1>1. /\ i \in clearing /\ enqueue_page_to_buddy_pool(i)
      /\ available_pages' = available_pages + 1 /\ clearing' = {}
      /\ added' = IF added = i THEN added + 1 ELSE added
      /\ UNCHANGED <<reserved, usecnt, marking, registered>>
  BY DEF enqueue_unreserved
<1>2. i \in Half /\ i \in Away /\ i \notin reserved /\ i \notin marking
  BY <1>0, <1>1 DEF Half, Away, WindowOK
<1>3. \A j \in clearing : j = i
  BY <1>0, <1>2 DEF WindowOK, Half
<1>4. Away' = Away \ {i}
  BY <1>1, <1>2, <1>3 DEF Away, Half
<1>5. added \in Nat /\ i \in Nat /\ i < NrPages /\ NrPages \in Nat /\ added <= NrPages
  BY <1>0, ConstantFacts DEF TypeOK
<1>6. added < NrPages => added = i
  BY <1>0, <1>1 DEF WindowOK
<1>7. added' \in 0..NrPages
  BY <1>1, <1>5
<1>8. \A q \in Pages : added' <= q => q \in Away \ {i}
  <2> TAKE q \in Pages
  <2>1. q \in Nat /\ q < NrPages
    BY ConstantFacts
  <2>2. added' <= q => added <= q /\ q # i
    BY <1>1, <1>5, <1>6, <2>1
  <2> QED
    BY <1>0, <2>2 DEF NotYetAdded
<1>9. WindowOK'
  <2>1. Half' = marking /\ marking' = marking /\ reserved' = reserved /\ clearing' = {}
    BY <1>1 DEF Half
  <2>2. added' < NrPages => marking = {}
    BY <1>0, <1>1, <1>5, <1>6 DEF WindowOK
  <2> QED
    BY <1>0, <2>1, <2>2 DEF WindowOK, Half
<1> QED
  BY <1>1, <1>2, <1>4, <1>7, <1>8, <1>9 DEF Handed

(* free_page returns a cluster in use, so never a page between the steps.  *)
LEMMA FreeIsReturn ==
    ASSUME Core, NEW i \in Pages, free_page(i)
    PROVE  Handed(i) /\ i \in used /\ i \notin Away
<1>0. TypeOK /\ WindowOK /\ NotYetAdded
  BY DEF Core
<1>1. i \in used /\ i \notin Away /\ enqueue_page_to_buddy_pool(i)
  BY DEF free_page, Freeing, Core, Listed
<1>2. UNCHANGED <<reserved, usecnt, marking, clearing, available_pages, added, registered>>
  BY DEF free_page
<1>3. Away' = Away \ {i} /\ WindowOK'
  BY <1>0, <1>1, <1>2 DEF Away, Half, WindowOK
<1>4. available_pages' = available_pages + (IF i \in Away THEN 1 ELSE 0)
  BY <1>0, <1>1, <1>2 DEF TypeOK
<1>5. added' \in 0..NrPages /\ \A q \in Pages : added' <= q => q \in Away \ {i}
  BY <1>0, <1>1, <1>2 DEF TypeOK, NotYetAdded
<1> QED
  BY <1>1, <1>2, <1>3, <1>4, <1>5 DEF Handed

(* Every step of every operation keeps the invariant.                      *)
LEMMA NextCore == Core /\ [Next]_vars => TypeOK' /\ (torn' \/ Core')
<1> SUFFICES ASSUME Core, [Next]_vars PROVE TypeOK' /\ (torn' \/ Core')
  OBVIOUS
<1>0. TypeOK
  BY DEF Core
<1>a. Core' => TypeOK'
  BY DEF Core
\* Steps that leave the clusters alone.
<1>1. ASSUME UNCHANGED shape, UNCHANGED <<usage, headp, usage_pages>>,
             reserved' \in SUBSET Pages, marking' \in SUBSET Pages,
             clearing' \in SUBSET Pages, torn' \in BOOLEAN, WindowOK',
             usecnt' \in [Pages -> 0..MaxUse], registered' \in BOOLEAN
      PROVE  Core'
  <2>1. TypeOK'
    BY <1>0, <1>1 DEF TypeOK, shape
  <2>2. Listed' /\ Heads' = Heads
    BY <1>1 DEF Core, Listed, Heads, FreeHeads, shape
  <2>3. NotYetAdded' /\ Counted' /\ Merged'
    BY <1>1 DEF Core, NotYetAdded, Counted, Merged, shape
  <2>4. Partition(Heads', order', NrPages)
    BY <1>1, <2>2 DEF Core, shape
  <2> QED
    BY <1>1, <2>1, <2>2, <2>3, <2>4 DEF Core
<1>2. CASE pfdb_add
  <2>1. added < NrPages /\ clearing = {} /\ added \in 0..NrPages /\ NrPages \in Nat
    BY <1>0, <1>2, ConstantFacts DEF pfdb_add, TypeOK
  <2>2. added \in Pages /\ added \in Away
    BY <2>1 DEF Pages, Core, NotYetAdded
  <2>a. marking = {} /\ Half = {}
    BY <2>1 DEF Core, WindowOK, Half
  <2>4. CASE added < NrPages - MetaPages
    <3>1. /\ reserved' = reserved \ {added} /\ clearing' = {added} /\ added' = added
          /\ UNCHANGED <<order, used, usage, headp, usecnt, marking, torn, pool, registered>>
      BY <1>2, <2>4 DEF pfdb_add
    <3>2. Away' = Away
      BY <2>1, <2>2, <3>1 DEF Away, Half
    <3>3. WindowOK'
      BY <2>a, <3>1 DEF WindowOK, Half
    <3> QED
      BY <1>0, <1>1, <1>a, <2>2, <3>1, <3>2, <3>3 DEF shape, pool, TypeOK
  <2>5. CASE ~ (added < NrPages - MetaPages)
    <3>1. added' = added + 1 /\ UNCHANGED <<frames, window, pool, registered>>
      BY <1>2, <2>5 DEF pfdb_add, frames, window
    <3>a. Away' = Away /\ Half' = {} /\ marking' = {} /\ clearing' = {}
      BY <2>1, <2>a, <3>1 DEF Away, Half, frames, window
    <3>2. TypeOK'
      BY <1>0, <2>1, <3>1 DEF TypeOK, frames, pool, window
    <3>3. Listed' /\ Heads' = Heads
      BY <3>1, <3>a DEF Core, Listed, Heads, FreeHeads, frames, pool
    <3>4. NotYetAdded'
      <4>1. \A q \in Pages : added' <= q => added <= q
        BY <2>1, <3>1, ConstantFacts
      <4> QED
        BY <3>a, <4>1 DEF NotYetAdded, Core
    <3>5. Counted' /\ Merged'
      BY <3>1, <3>a DEF Core, Counted, Merged, frames, pool
    <3>6. Partition(Heads', order', NrPages)
      BY <3>1, <3>3 DEF Core, frames
    <3>7. WindowOK'
      BY <3>a DEF WindowOK
    <3> QED
      BY <3>2, <3>3, <3>4, <3>5, <3>6, <3>7 DEF Core
  <2> QED
    BY <2>4, <2>5
<1>3. ASSUME NEW o \in Orders, NEW u \in Usages, pfdb_buddy_dequeue(o, u) PROVE Core'
  <2>1. Ready /\ UNCHANGED <<reserved, window, available_pages, added, registered>>
    BY <1>3 DEF pfdb_buddy_dequeue
  <2>a. Away' = Away /\ WindowOK' /\ marking' \in SUBSET Pages
    BY <1>0, <2>1 DEF window, Away, Half, WindowOK, Core, TypeOK
  <2>2. PICK f \in o..(MaxOrder - 1) : \E i \in page_list[f] :
            /\ adjust_page_order(i, f, o) /\ setup_clustered_pages(i, o)
            /\ mark_page_usage(i, o, u) /\ used' = used \cup {i}
            /\ usecnt' = [usecnt EXCEPT ![i] = 1]
    BY <1>3 DEF pfdb_buddy_dequeue
  <2>3. PICK i \in page_list[f] :
            /\ adjust_page_order(i, f, o) /\ setup_clustered_pages(i, o)
            /\ mark_page_usage(i, o, u) /\ used' = used \cup {i}
            /\ usecnt' = [usecnt EXCEPT ![i] = 1]
    BY <2>2
  <2>4. f \in Orders /\ o \in 0..f
    BY ConstantFacts, PfdbAssumption DEF Orders
  <2>5. i \in Pages /\ i \notin Away
    BY <1>0, <2>4 DEF TypeOK, Core, Listed
  <2>6. usecnt' \in [Pages -> 0..MaxUse]
    <3>1. 1 \in 0..MaxUse
      BY PfdbAssumption
    <3> QED
      BY <1>0, <2>3, <2>5, <3>1 DEF TypeOK
  <2>7. usage' \in [Pages -> Usages \cup {NoUsage}]
    BY <1>0, <2>3, <2>5 DEF mark_page_usage, TypeOK
  <2>8. usage_pages' \in [Usages -> Int]
    <3>1. 2^o \in Int
      BY ConstantFacts, PowerPositive
    <3> QED
      BY <1>0, <2>3, <3>1 DEF mark_page_usage, TypeOK
  <2>9. available_pages' = available_pages - (IF i \in Away' THEN 1 ELSE 0)
    BY <1>0, <2>1, <2>5, <2>a DEF TypeOK
  <2>b. UNCHANGED <<reserved, clearing, torn, added, registered>>
    BY <2>1 DEF window
  <2> QED
    BY <2>1, <2>3, <2>4, <2>a, <2>b, <2>6, <2>7, <2>8, <2>9, TakeKeepsCore
<1>4. ASSUME NEW i \in Pages, pfdb_inc_page_use_count(i) PROVE Core'
  <2>1. usecnt' \in [Pages -> 0..MaxUse]
    <3>1. usecnt[i] + 1 \in 0..MaxUse
      BY <1>4, PfdbAssumption DEF pfdb_inc_page_use_count
    <3> QED
      BY <1>0, <1>4, <3>1 DEF pfdb_inc_page_use_count, TypeOK
  <2> QED
    BY <1>0, <1>1, <1>4, <2>1, SameWindow DEF pfdb_inc_page_use_count, shape, pool, TypeOK, Core, window
<1>5. ASSUME NEW i \in Pages, pfdb_dec_page_use_count(i) PROVE Core'
  <2>1. usecnt' \in [Pages -> 0..MaxUse]
    <3>1. usecnt[i] \in 0..MaxUse /\ usecnt[i] > 0
      BY <1>0, <1>5 DEF pfdb_dec_page_use_count, TypeOK
    <3>2. usecnt[i] - 1 \in 0..MaxUse
      BY <3>1, PfdbAssumption
    <3> QED
      BY <1>0, <1>5, <3>2 DEF pfdb_dec_page_use_count, TypeOK
  <2> QED
    BY <1>0, <1>1, <1>5, <2>1, SameWindow DEF pfdb_dec_page_use_count, shape, pool, TypeOK, Core, window
<1>6. ASSUME NEW i \in Pages, free_page(i) PROVE TypeOK' /\ (torn' \/ Core')
  BY <1>6, FreeIsReturn, ReturnKeepsTypes, ReturnKeepsCore
<1>7. ASSUME NEW i \in Pages, mark_page_frame_reserved(i) PROVE Core'
  <2>1. /\ Ready /\ Unlocked /\ i \in page_list[order[i]]
        /\ adjust_page_order(i, order[i], 0) /\ setup_clustered_pages(i, 0)
        /\ available_pages' = available_pages - 1
        /\ marking' = {i}
        /\ UNCHANGED <<used, reserved, usage, usecnt, usage_pages, clearing, torn, added, registered>>
    BY <1>7 DEF mark_page_frame_reserved
  <2>2. order[i] \in Orders /\ order[i] \in Nat /\ 0 \in 0..order[i]
    <3>1. order[i] \in Orders /\ order[i] \in Nat
      BY <1>0, ConstantFacts DEF TypeOK
    <3> QED
      BY <3>1
  <2>3. /\ usage' \in [Pages -> Usages \cup {NoUsage}]
        /\ usage_pages' \in [Usages -> Int]
        /\ usecnt' \in [Pages -> 0..MaxUse]
    BY <1>0, <2>1 DEF TypeOK
  <2>4. clearing = {} /\ marking = {} /\ Away' = Away \cup {i}
    BY <2>1 DEF Unlocked, Half, Away
  <2>5. available_pages' = available_pages - (IF i \in Away' THEN 1 ELSE 0)
    BY <2>1, <2>4
  <2>6. i \notin Away /\ ~ (added < NrPages)
    BY <2>1, <2>2, ConstantFacts DEF Core, Listed, Ready
  <2>7. WindowOK'
    BY <2>1, <2>4, <2>6 DEF WindowOK, Half, Away
  <2>8. marking' \in SUBSET Pages
    BY <2>1
  <2> QED
    BY <2>1, <2>2, <2>3, <2>4, <2>5, <2>7, <2>8, TakeKeepsCore
<1>8. ASSUME NEW i \in Pages, set_reserved(i) PROVE Core'
  <2>1. /\ i \in marking /\ marking' = {} /\ reserved' = reserved \cup {i}
        /\ UNCHANGED <<order, used, usage, headp, usecnt, clearing, torn, pool, added, registered>>
    BY <1>8 DEF set_reserved
  <2>2. marking = {i} /\ clearing = {}
    BY <2>1 DEF Core, WindowOK, Half
  <2>3. Away' = Away
    BY <2>1, <2>2 DEF Away, Half
  <2>4. WindowOK'
    BY <2>1, <2>2 DEF WindowOK, Half, Core
  <2> QED
    BY <1>0, <1>1, <2>1, <2>3, <2>4 DEF shape, pool, TypeOK
<1>9. ASSUME NEW i \in Pages, unmark_page_frame_reserved(i) PROVE Core'
  <2>1. /\ Ready /\ Unlocked /\ i \in reserved /\ reserved' = reserved \ {i} /\ clearing' = {i}
        /\ UNCHANGED <<order, used, usage, headp, usecnt, marking, torn, pool, added, registered>>
    BY <1>9 DEF unmark_page_frame_reserved
  <2>2. marking = {} /\ clearing = {} /\ ~ (added < NrPages)
    BY <2>1, ConstantFacts DEF Unlocked, Half, Ready
  <2>3. Away' = Away
    BY <2>1, <2>2 DEF Away, Half
  <2>4. WindowOK'
    BY <2>1, <2>2 DEF WindowOK, Half
  <2> QED
    BY <1>0, <1>1, <2>1, <2>3, <2>4 DEF shape, pool, TypeOK
<1>10. ASSUME NEW i \in Pages, enqueue_unreserved(i) PROVE TypeOK' /\ (torn' \/ Core')
  BY <1>10, EnqueueIsReturn, ReturnKeepsTypes, ReturnKeepsCore
<1>11. CASE pfdb_remove
  BY <1>0, <1>1, <1>11, SameWindow DEF pfdb_remove, shape, frames, window, pool, TypeOK, Core
<1>12. CASE UNCHANGED vars
  BY <1>0, <1>1, <1>12, SameWindow DEF vars, shape, frames, window, pool, TypeOK, Core
<1> QED
  BY <1>a, <1>2, <1>3, <1>4, <1>5, <1>6, <1>7, <1>8, <1>9, <1>10, <1>11, <1>12 DEF Next

(* In the state after a torn merge there is no step left.                  *)
LEMMA NextIInv == IInv /\ [Next]_vars => IInv'
<1> SUFFICES ASSUME IInv, [Next]_vars PROVE IInv'
  OBVIOUS
<1>1. CASE Core
  BY <1>1, NextCore DEF IInv
<1>2. CASE torn
  <2>1. UNCHANGED vars
    BY <1>2 DEF Next
  <2> QED
    BY <1>2, <2>1 DEF IInv, TypeOK, vars, frames, window, pool
<1> QED
  BY <1>1, <1>2 DEF IInv

(* The invariant holds in every state of the page frame database.          *)
THEOREM Invariance == Spec => []IInv
<1>1. Init => IInv
  BY InitCore DEF IInv, Core
<1>2. IInv /\ [Next]_vars => IInv'
  BY NextIInv
<1> QED
  BY <1>1, <1>2, PTL DEF Spec

-----------------------------------------------------------------------------
(* What follows from the invariant.                                        *)

(* Every variable keeps its type: no order above PAGE_POOL_MAX_ORDER - 1   *)
(* and no link outside the area ever arises from merging and splitting.    *)
THEOREM TypeCorrect == Spec => []TypeOK
<1>1. IInv => TypeOK
  BY DEF IInv
<1> QED
  BY <1>1, Invariance, PTL

(* A linked page heads a free cluster of its list's order, in the windows  *)
(* of reservations as well, until a merge takes the page of a window.      *)
THEOREM ListsCorrect == Spec => []ListedOK
<1>1. IInv => ListedOK
  BY DEF IInv, Core, ListedOK
<1> QED
  BY <1>1, Invariance, PTL

(* Freed memory is fully merged, whatever was split and merged before.     *)
THEOREM AlwaysCoalesced == Spec => []Coalesced
<1>1. IInv => Coalesced
  BY DEF IInv, Core, Coalesced
<1> QED
  BY <1>1, Invariance, PTL

(* Every cluster is aligned to its size and inside the area.               *)
THEOREM AlwaysAligned == Spec => []ClustersAligned
<1>1. IInv => ClustersAligned
  BY DEF IInv, Core, Partition, ClustersAligned, Aligned
<1> QED
  BY <1>1, Invariance, PTL

\* The facts of Core about the sizes of clusters, with the sizes as numbers.
Sized ==
    /\ \A i \in Heads : i \in Nat /\ 2^order[i] \in Nat /\ 2^order[i] >= 1
    /\ \A i \in Heads : i + 2^order[i] <= NrPages
    /\ \A i, j \in Heads : i # j => i + 2^order[i] <= j \/ j + 2^order[j] <= i
    /\ \A x \in Pages : \E i \in Heads : i <= x /\ x < i + 2^order[i]

(* The invariant gives these facts.                                        *)
LEMMA SizedHeads == Core => Sized
<1> SUFFICES ASSUME Core PROVE Sized
  OBVIOUS
<1>1. /\ Heads \in SUBSET (0..(NrPages - 1)) /\ order \in [0..(NrPages - 1) -> Nat]
      /\ Partition(Heads, order, NrPages)
  BY HeadsArePages DEF Core
<1>2. \A i \in Heads : i \in Nat /\ order[i] \in Nat
  BY <1>1
<1>3. \A i \in Heads : i \in Nat /\ 2^order[i] \in Nat /\ 2^order[i] >= 1
  BY <1>2, PowerPositive
<1> QED
  BY <1>1, <1>3 DEF Partition, Sized, Pages

(* Membership in a cluster is a matter of bounds.                          *)
LEMMA InCluster ==
    ASSUME Core, NEW i \in Heads
    PROVE  \A x : x \in Cluster(i, order[i]) <=> x \in Int /\ i <= x /\ x < i + 2^order[i]
<1> DEFINE s == 2^order[i]
<1>1. i \in Nat /\ s \in Nat
  BY SizedHeads DEF Sized
<1> HIDE DEF s
<1>2. \A x : x \in i..(i + s - 1) <=> x \in Int /\ i <= x /\ x < i + s
  BY <1>1
<1> QED
  BY <1>2 DEF Cluster, s

(* Two clusters of the area share no page.                                 *)
LEMMA Disjoint == Core => Separate
<1> SUFFICES ASSUME Core, NEW i \in Heads, NEW j \in Heads, i # j,
                    NEW x \in Cluster(i, order[i]), x \in Cluster(j, order[j])
             PROVE  FALSE
  BY DEF Separate
<1> DEFINE s == 2^order[i]
           t == 2^order[j]
<1>1. /\ i \in Nat /\ j \in Nat /\ s \in Nat /\ t \in Nat
      /\ i + s <= j \/ j + t <= i
  BY SizedHeads DEF Sized
<1>2. x \in Int /\ i <= x /\ x < i + s /\ j <= x /\ x < j + t
  BY InCluster
<1> HIDE DEF s, t
<1> QED
  BY <1>1, <1>2

(* No page ever belongs to two clusters.                                   *)
THEOREM AlwaysDisjoint == Spec => []ClustersDisjoint
<1>1. IInv => ClustersDisjoint
  BY Disjoint DEF IInv, ClustersDisjoint
<1> QED
  BY <1>1, Invariance, PTL

(* No page is ever lost, and the pool's counters and lists are exact.      *)
THEOREM NeverLost == Spec => []NoPageLost
<1>1. Core => Complete /\ Listed
  <2> SUFFICES ASSUME Core PROVE Complete /\ Listed
    OBVIOUS
  <2>1. UNION {Cluster(i, order[i]) : i \in Heads} = Pages
    <3>1. ASSUME NEW x \in Pages PROVE \E i \in Heads : x \in Cluster(i, order[i])
      <4>1. PICK i \in Heads : i <= x /\ x < i + 2^order[i]
        BY SizedHeads DEF Sized
      <4>2. x \in Int
        BY ConstantFacts
      <4> QED
        BY <4>1, <4>2, InCluster
    <3>2. ASSUME NEW i \in Heads, NEW x \in Cluster(i, order[i]) PROVE x \in Pages
      <4> DEFINE s == 2^order[i]
      <4>1. i \in Nat /\ s \in Nat /\ i + s <= NrPages /\ NrPages \in Nat
        BY SizedHeads, ConstantFacts DEF Sized
      <4>2. x \in Int /\ i <= x /\ x < i + s
        BY InCluster
      <4> HIDE DEF s
      <4> QED
        BY <4>1, <4>2 DEF Pages
    <3> QED
      BY <3>1, <3>2
  <2> QED
    BY <2>1 DEF Core, Counted, Complete
<1>2. IInv => NoPageLost
  BY <1>1 DEF IInv, NoPageLost
<1> QED
  BY <1>2, Invariance, PTL

-----------------------------------------------------------------------------
(* What a step may do to the clusters in use.                              *)

\* Clusters in use before and after keep their order and their usage.
UsersKept == \A q \in used \cap used' : order'[q] = order[q] /\ usage'[q] = usage[q]

Idle == used' = used /\ Away' = Away

GivesBack(i) == used' = used \ {i} /\ Away' = Away \ {i}

HandsOut(i) == /\ i \in FreeHeads /\ i \notin used \cup Away
               /\ used' = used \cup {i} /\ Away' = Away
               /\ order'[i] <= order[i] /\ ~ torn'

Reserves(i) == /\ i \in FreeHeads /\ i \notin used \cup Away
               /\ used' = used /\ Away' = Away \cup {i} /\ ~ torn'

Effect ==
    /\ UsersKept
    /\ \/ Idle
       \/ \E i \in used \cup Away : GivesBack(i)
       \/ \E i \in Pages : HandsOut(i) \/ Reserves(i)

(* A returned page leaves the other clusters in use as they are.           *)
LEMMA ReturnEffect ==
    ASSUME Core, NEW i, Handed(i)
    PROVE  UsersKept /\ GivesBack(i) /\ i \in used \cup Away
<1>1. TypeOK /\ i \in Pages /\ i \in used \cup Away /\ enqueue_page_to_buddy_pool(i)
  BY HeadsArePages DEF Core, Handed
<1>2. Reordered(i)
  BY <1>1, EnqueueOrders
<1>3. used' = used \ {i} /\ \A q \in Pages \ {i} : usage'[q] = usage[q]
  BY <1>1, EnqueueTypes
<1>4. \A q \in used \cap used' : order'[q] = order[q]
  BY <1>2, <1>3 DEF Reordered
<1>5. \A q \in used \cap used' : usage'[q] = usage[q]
  BY <1>1, <1>3 DEF TypeOK
<1> QED
  BY <1>1, <1>3, <1>4, <1>5 DEF UsersKept, GivesBack, Handed

(* So does taking a cluster out of the pool.                               *)
LEMMA TakeEffect ==
    ASSUME Core, NEW f \in Orders, NEW i \in page_list[f], NEW o \in 0..f,
           adjust_page_order(i, f, o),
           \/ used' = used \cup {i} /\ Away' = Away
           \/ used' = used /\ Away' = Away \cup {i} /\ o = 0,
           \A q \in used : usage'[q] = usage[q], ~ torn'
    PROVE  UsersKept /\ (HandsOut(i) \/ Reserves(i)) /\ i \in Pages
<1>1. /\ TypeOK /\ i \in Pages /\ i \notin used /\ i \notin Away
      /\ used \cap Away = {} /\ order[i] = f
  BY DEF Core, TypeOK, Listed
<1>2. Taken(i, o)
  <2>1. used' \cup Away' = (used \cup Away) \cup {i}
    OBVIOUS
  <2>2. used' \cap Away' = {}
    BY <1>1
  <2>3. \A q \in Away' : q \in Away \/ (q = i /\ o = 0)
    OBVIOUS
  <2> QED
    BY <2>1, <2>2, <2>3, AdjustStep
<1>3. i \in FreeHeads
  BY DEF FreeHeads
<1>4. order'[i] <= order[i]
  <2>1. order'[i] = o
    BY <1>2 DEF Taken
  <2>2. f \in Nat
    BY ConstantFacts
  <2> QED
    BY <1>1, <2>1, <2>2
<1>5. UsersKept
  BY <1>2 DEF Taken, UsersKept
<1> QED
  BY <1>1, <1>3, <1>4, <1>5 DEF HandsOut, Reserves

(* Every step is of one of these kinds.                                    *)
LEMMA StepEffect == IInv /\ [Next]_vars => Effect
<1> SUFFICES ASSUME IInv, [Next]_vars PROVE Effect
  OBVIOUS
<1>0. TypeOK
  BY DEF IInv
<1>1. ASSUME UNCHANGED <<order, used, usage>>, Away' = Away PROVE Effect
  BY <1>1 DEF Effect, UsersKept, Idle
<1>2. CASE UNCHANGED vars
  <2>1. Away' = Away
    BY <1>2 DEF Away, Half, vars, frames, window
  <2> QED
    BY <1>1, <1>2, <2>1 DEF vars, frames
<1>a. SUFFICES ASSUME Next PROVE Effect
  BY <1>2
<1>b. ~ torn /\ Core
  BY <1>a DEF Next, IInv
<1>3. ASSUME NEW o \in Orders, NEW u \in Usages, pfdb_buddy_dequeue(o, u) PROVE Effect
  <2>1. PICK f \in o..(MaxOrder - 1) : \E i \in page_list[f] :
            /\ adjust_page_order(i, f, o) /\ mark_page_usage(i, o, u)
            /\ used' = used \cup {i} /\ Away' = Away
    BY <1>3 DEF pfdb_buddy_dequeue, Away, Half, window
  <2>2. PICK i \in page_list[f] :
            /\ adjust_page_order(i, f, o) /\ mark_page_usage(i, o, u)
            /\ used' = used \cup {i} /\ Away' = Away
    BY <2>1
  <2>3. f \in Orders /\ o \in 0..f
    BY ConstantFacts, PfdbAssumption DEF Orders
  <2>4. i \notin used /\ used \subseteq Pages
    BY <1>0, <1>b, <2>3 DEF TypeOK, Core, Listed
  <2>5. \A q \in used : usage'[q] = usage[q]
    BY <1>0, <2>2, <2>4 DEF mark_page_usage, TypeOK
  <2>a. ~ torn'
    BY <1>b, <1>3 DEF pfdb_buddy_dequeue, window
  <2>6. UsersKept /\ (HandsOut(i) \/ Reserves(i)) /\ i \in Pages
    BY <1>b, <2>2, <2>3, <2>5, <2>a, TakeEffect
  <2> QED
    BY <2>6 DEF Effect
<1>4. ASSUME NEW i \in Pages, pfdb_inc_page_use_count(i) \/ pfdb_dec_page_use_count(i)
      PROVE  Effect
  <2>1. Away' = Away
    BY <1>4 DEF pfdb_inc_page_use_count, pfdb_dec_page_use_count, Away, Half, window
  <2> QED
    BY <1>1, <1>4, <2>1 DEF pfdb_inc_page_use_count, pfdb_dec_page_use_count
<1>5. ASSUME NEW i \in Pages, free_page(i) PROVE Effect
  <2>1. UsersKept /\ GivesBack(i) /\ i \in used \cup Away
    BY <1>b, <1>5, FreeIsReturn, ReturnEffect
  <2> QED
    BY <2>1 DEF Effect
<1>6. ASSUME NEW i \in Pages, enqueue_unreserved(i) PROVE Effect
  <2>1. UsersKept /\ GivesBack(i) /\ i \in used \cup Away
    BY <1>b, <1>6, EnqueueIsReturn, ReturnEffect
  <2> QED
    BY <2>1 DEF Effect
<1>7. ASSUME NEW i \in Pages, mark_page_frame_reserved(i) PROVE Effect
  <2>1. /\ i \in page_list[order[i]] /\ adjust_page_order(i, order[i], 0)
        /\ Away' = Away \cup {i} /\ used' = used /\ usage' = usage /\ ~ torn'
    BY <1>b, <1>7 DEF mark_page_frame_reserved, Unlocked, Away, Half
  <2>2. order[i] \in Orders /\ order[i] \in Nat
    BY <1>0, ConstantFacts DEF TypeOK
  <2>3. 0 \in 0..order[i]
    BY <2>2
  <2>4. UsersKept /\ (HandsOut(i) \/ Reserves(i))
    BY <1>b, <2>1, <2>2, <2>3, TakeEffect
  <2> QED
    BY <2>4 DEF Effect
\* The steps that only change a bit.
<1>8. ASSUME NEW i \in Pages, set_reserved(i) PROVE Effect
  <2>1. marking = {i}
    BY <1>b, <1>8 DEF set_reserved, Core, WindowOK, Half
  <2>2. Away' = Away
    BY <1>8, <2>1 DEF set_reserved, Away, Half
  <2> QED
    BY <1>1, <1>8, <2>2 DEF set_reserved
<1>10. ASSUME NEW i \in Pages, unmark_page_frame_reserved(i) PROVE Effect
  <2>1. Away' = Away
    BY <1>10 DEF unmark_page_frame_reserved, Unlocked, Away, Half
  <2> QED
    BY <1>1, <1>10, <2>1 DEF unmark_page_frame_reserved
<1>11. CASE pfdb_add
  <2>1. added \in Away
    <3>1. added < NrPages /\ added \in 0..NrPages /\ NrPages \in Nat
      BY <1>0, <1>11, ConstantFacts DEF pfdb_add, TypeOK
    <3> QED
      BY <1>b, <3>1 DEF Pages, Core, NotYetAdded
  <2>2. Away' = Away
    BY <1>11, <2>1 DEF pfdb_add, Away, Half
  <2> QED
    BY <1>1, <1>11, <2>2 DEF pfdb_add
<1>12. CASE pfdb_remove
  <2>1. Away' = Away
    BY <1>12 DEF pfdb_remove, frames, window, Away, Half
  <2> QED
    BY <1>1, <1>12, <2>1 DEF pfdb_remove, frames
<1> QED
  BY <1>a, <1>3, <1>4, <1>5, <1>6, <1>7, <1>8, <1>10, <1>11, <1>12 DEF Next

(* Nothing that is allocated, split, freed or merged around it changes the *)
(* order or the usage of a cluster in use.                                 *)
THEOREM UsersStable == Spec => InUseStable
<1>1. IInv /\ [Next]_vars =>
        [\A i \in used \cap used' : order'[i] = order[i] /\ usage'[i] = usage[i]]_vars
  BY StepEffect DEF Effect, UsersKept
<1> QED
  BY <1>1, Invariance, PTL DEF Spec, InUseStable

-----------------------------------------------------------------------------
(* Facts about the clusters of a state.                                    *)

\* What the refinement and the statistics need of a state.
ClusterFacts ==
    /\ Separate
    /\ \A i \in Heads : i \in Cluster(i, order[i]) /\ Cluster(i, order[i]) \subseteq Pages
    /\ used \subseteq Heads /\ Away \subseteq Heads
    /\ used \cap Away = {}
    /\ order \in [Pages -> Orders]
    /\ Heads \subseteq Pages

(* The invariant gives it.                                                 *)
LEMMA ClusterFactsHold == Core => ClusterFacts
<1> SUFFICES ASSUME Core PROVE ClusterFacts
  OBVIOUS
<1>1. ASSUME NEW i \in Heads
      PROVE  i \in Cluster(i, order[i]) /\ Cluster(i, order[i]) \subseteq Pages
  <2> DEFINE s == 2^order[i]
  <2>1. i \in Nat /\ s \in Nat /\ s >= 1 /\ i + s <= NrPages /\ NrPages \in Nat
    BY SizedHeads, ConstantFacts DEF Sized
  <2>2. \A x : x \in Cluster(i, order[i]) <=> x \in Int /\ i <= x /\ x < i + s
    BY InCluster
  <2> HIDE DEF s
  <2>3. i \in Int /\ i <= i /\ i < i + s
    BY <2>1
  <2>4. \A x \in Int : i <= x /\ x < i + s => x \in Pages
    BY <2>1 DEF Pages
  <2> QED
    BY <2>2, <2>3, <2>4
<1>2. /\ used \subseteq Heads /\ Away \subseteq Heads /\ used \cap Away = {}
      /\ order \in [Pages -> Orders] /\ Heads \subseteq Pages
  BY HeadsArePages DEF Core, Listed, TypeOK, Pages
<1> QED
  BY <1>1, <1>2, Disjoint DEF ClusterFacts

(* ... in the state after a step as well.                                  *)
LEMMA ClusterFactsNext == Core' => ClusterFacts'
BY ClusterFactsHold, PTL

-----------------------------------------------------------------------------
(* The statistics by usage and the links from a cluster's pages to its     *)
(* head.                                                                   *)

\* A page carries a usage exactly while it heads a cluster in use.
UsageOfUsed == \A i \in Pages : i \in used <=> usage[i] \in Usages

\* Accounted is inductive with the partition and with UsageOfUsed: a page
\* that goes back from those kept away must not change the statistics.
UInv == UsageOfUsed /\ Accounted

\* The clusters of the heads in U to which the page q belongs, if of many pages.
Owners(U, ord, q) == {i \in U : ord[i] > 0 /\ q \in Cluster(i, ord[i])}

\* headp leads from the page q to the head of its cluster.
LinkRight(U, ord, hp, q) ==
    IF Owners(U, ord, q) = {} THEN hp[q] = NoPage ELSE Owners(U, ord, q) = {hp[q]}

(* Accounted in these words.                                               *)
LEMMA UseParts ==
    Accounted <=> /\ \A u \in Usages : usage_pages[u] = Cardinality(PagesUsedAs(u))
                  /\ \A q \in Pages : LinkRight(used, order, headp, q)
BY DEF Accounted, LinkRight, Owners

(* ... in the state after a step as well.                                  *)
LEMMA UsePartsNext ==
    Accounted' <=> /\ \A u \in Usages : usage_pages'[u] = Cardinality(PagesUsedAs(u)')
                   /\ \A q \in Pages : LinkRight(used', order', headp', q)
BY DEF Accounted, LinkRight, Owners

(* A cluster has as many pages as its order says.                          *)
LEMMA ClusterSize ==
    ASSUME NEW i \in Pages, NEW o \in Orders
    PROVE  /\ IsFiniteSet(Cluster(i, o)) /\ Cardinality(Cluster(i, o)) = 2^o
           /\ 2^o \in Nat
<1> DEFINE s == 2^o
<1>1. i \in Nat /\ s \in Nat /\ s >= 1
  BY ConstantFacts, PowerPositive
<1> HIDE DEF s
<1>2. i \in Int /\ i + s - 1 \in Int /\ ~ (i > i + s - 1) /\ (i + s - 1) - i + 1 = s
  BY <1>1
<1>3. IsFiniteSet(i..(i + s - 1)) /\ Cardinality(i..(i + s - 1)) = s
  BY <1>2, FS_Interval
<1> QED
  BY <1>1, <1>3 DEF Cluster, s

(* The pages used for one purpose are finitely many.                       *)
LEMMA PagesUsedFinite ==
    ASSUME ClusterFacts, NEW u
    PROVE  IsFiniteSet(PagesUsedAs(u)) /\ Cardinality(PagesUsedAs(u)) \in Nat
<1>1. PagesUsedAs(u) \subseteq Pages
  BY DEF ClusterFacts, PagesUsedAs
<1> QED
  BY <1>1, PagesFinite, FS_Subset, FS_CardinalityType

(* Adding a disjoint set of pages.                                         *)
LEMMA AddDisjoint ==
    ASSUME NEW S, NEW T, IsFiniteSet(S), IsFiniteSet(T), S \cap T = {}
    PROVE  Cardinality(S \cup T) = Cardinality(S) + Cardinality(T)
<1>1. /\ Cardinality(S \cup T) = Cardinality(S) + Cardinality(T) - Cardinality({})
      /\ Cardinality({}) = 0 /\ Cardinality(S) \in Nat /\ Cardinality(T) \in Nat
  BY FS_Union, FS_EmptySet, FS_CardinalityType
<1> QED
  BY <1>1

\* A step that gives the page i back, hands out a page of order f or takes it
\* away.
Return(i) ==
    /\ i \in used \cup Away
    /\ enqueue_page_to_buddy_pool(i) /\ Away' = Away \ {i}

HandOut(f, i, o, u) ==
    /\ i \in page_list[f] /\ o \in 0..f
    /\ adjust_page_order(i, f, o) /\ setup_clustered_pages(i, o)
    /\ used' = used \cup {i} /\ Away' = Away /\ mark_page_usage(i, o, u)

Reserve(f, i) ==
    /\ i \in page_list[f] /\ 0 \in 0..f
    /\ adjust_page_order(i, f, 0) /\ setup_clustered_pages(i, 0)
    /\ used' = used /\ Away' = Away \cup {i} /\ UNCHANGED <<usage, usage_pages>>

(* A returned cluster takes its pages out of the statistics and all pages  *)
(* of the merged cluster lose their link.                                  *)
LEMMA ReturnKeepsUse ==
    ASSUME Core, Core', ~ torn', UInv, NEW i, Return(i)
    PROVE  UInv'
<1> DEFINE m == MergedOrder(i)
           c == Truncate(i, m)
           o == order[i]
<1>1. TypeOK /\ i \in Pages /\ i \in used \cup Away /\ ClusterFacts /\ ClusterFacts'
  BY ClusterFactsHold, ClusterFactsNext, HeadsArePages DEF Core, Return
<1>2. Returned(i)
  BY EnqueueStep DEF Return
<1>3. /\ used' = used \ {i}
      /\ usage' = [usage EXCEPT ![i] = NoUsage]
      /\ usage_pages' = [u \in Usages |->
            IF usage[i] = u THEN usage_pages[u] - 2^o ELSE usage_pages[u]]
      /\ headp' = [q \in Pages |-> IF q \in Cluster(c, m) THEN NoPage ELSE headp[q]]
  BY DEF Return, enqueue_page_to_buddy_pool, unmark_page_usage, clear_clustered_pages
<1>4. \A q \in used' : /\ q # i /\ q \in used /\ q \in Pages
                       /\ order'[q] = order[q] /\ usage'[q] = usage[q]
  BY <1>1, <1>2, <1>3 DEF Returned, TypeOK
<1>5. UsageOfUsed'
  <2>1. \A q \in Pages : q \in used' <=> usage'[q] \in Usages
    BY <1>1, <1>3, UsageAssumption DEF UInv, UsageOfUsed, TypeOK
  <2> QED
    BY <2>1 DEF UsageOfUsed
<1>6. ASSUME NEW u \in Usages PROVE usage_pages'[u] = Cardinality(PagesUsedAs(u)')
  <2>1. PagesUsedAs(u)' = UNION {Cluster(j, order[j]) : j \in {k \in used \ {i} : usage[k] = u}}
    <3>1. {k \in used' : usage'[k] = u} = {k \in used \ {i} : usage[k] = u}
      BY <1>3, <1>4
    <3>2. \A j \in {k \in used \ {i} : usage[k] = u} : Cluster(j, order'[j]) = Cluster(j, order[j])
      BY <1>3, <1>4
    <3> QED
      BY <3>1, <3>2 DEF PagesUsedAs
  <2>2. usage_pages[u] = Cardinality(PagesUsedAs(u))
    BY DEF UInv, Accounted
  <2>3. CASE usage[i] = u
    <3>1. i \in used
      BY <1>1, <2>3 DEF UInv, UsageOfUsed
    <3>2. PagesUsedAs(u) = PagesUsedAs(u)' \cup Cluster(i, o)
      BY <2>1, <2>3, <3>1 DEF PagesUsedAs
    <3>3. PagesUsedAs(u)' \cap Cluster(i, o) = {}
      BY <2>1, <1>1, <3>1 DEF ClusterFacts, Separate
    <3>4. IsFiniteSet(PagesUsedAs(u)) /\ PagesUsedAs(u)' \subseteq PagesUsedAs(u)
      BY <1>1, <3>2, PagesUsedFinite
    <3>5. IsFiniteSet(PagesUsedAs(u)') /\ Cardinality(PagesUsedAs(u)') \in Nat
      BY <3>4, FS_Subset, FS_CardinalityType
    <3>6. /\ IsFiniteSet(Cluster(i, o)) /\ Cardinality(Cluster(i, o)) = 2^o /\ 2^o \in Nat
      BY <1>1, ClusterSize DEF TypeOK
    <3>7. Cardinality(PagesUsedAs(u)) = Cardinality(PagesUsedAs(u)') + 2^o
      BY <3>2, <3>3, <3>5, <3>6, AddDisjoint
    <3>8. usage_pages'[u] = usage_pages[u] - 2^o
      BY <1>3, <2>3
    <3> QED
      BY <2>2, <3>5, <3>6, <3>7, <3>8
  <2>4. CASE usage[i] # u
    <3>1. PagesUsedAs(u)' = PagesUsedAs(u)
      BY <2>1, <2>4 DEF PagesUsedAs
    <3> QED
      BY <1>3, <2>2, <2>4, <3>1
  <2> QED
    BY <2>3, <2>4
<1>7. ASSUME NEW q \in Pages PROVE LinkRight(used', order', headp', q)
  <2>1. LinkRight(used, order, headp, q)
    BY UseParts DEF UInv
  <2>2. /\ c \in Heads' /\ c \notin used' /\ order'[c] = m
        /\ m \in Orders /\ o <= m
    <3>1. m \in Orders /\ o <= m
      BY <1>1, MergedOrderFacts
    <3> QED
      BY <1>2, <3>1 DEF Returned
  <2>3. CASE q \in Cluster(c, m)
    <3>1. Owners(used', order', q) = {}
      BY <1>1, <2>2, <2>3 DEF Owners, ClusterFacts, Separate
    <3> QED
      BY <1>3, <2>3, <3>1 DEF LinkRight
  <2>4. CASE q \notin Cluster(c, m)
    <3>1. q \notin Cluster(i, o)
      <4>1. i \in Heads /\ i \in Nat /\ o \in Nat /\ m \in Nat
        BY <1>1, <2>2, ConstantFacts DEF ClusterFacts
      <4>2. Aligned(i, o)
        BY <4>1 DEF Core, Partition
      <4>3. Truncate(i, o) = i
        BY <4>1, <4>2, TruncateAligned
      <4>4. c <= i /\ i + 2^o <= c + 2^m
        BY <2>2, <4>1, <4>3, TruncateNest
      <4>5. c \in Nat /\ 2^o \in Nat /\ 2^m \in Nat
        BY <4>1, TruncateBounds, PowerPositive
      <4> DEFINE s == 2^o
                 t == 2^m
      <4> HIDE DEF c, m, o, s, t
      <4>6. i..(i + s - 1) \subseteq c..(c + t - 1)
        BY <4>1, <4>4, <4>5 DEF s, t
      <4>7. Cluster(i, o) \subseteq Cluster(c, m)
        BY <4>6 DEF Cluster, s, t
      <4> QED
        BY <2>4, <4>7
    <3>2. Owners(used', order', q) = Owners(used, order, q)
      BY <1>3, <1>4, <3>1 DEF Owners
    <3> QED
      BY <1>3, <2>1, <2>4, <3>2 DEF LinkRight
  <2> QED
    BY <2>3, <2>4
<1> QED
  BY <1>5, <1>6, <1>7, UsePartsNext DEF UInv

(* The links of a cluster taken out of the pool lead to its head.          *)
LEMMA TakeKeepsLinks ==
    ASSUME Core, Core', UInv, NEW f \in Orders, NEW i \in page_list[f], NEW o \in 0..f,
           Taken(i, o), setup_clustered_pages(i, o),
           \/ used' = used \cup {i}
           \/ used' = used /\ i \in Away' /\ o = 0,
           NEW q \in Pages
    PROVE  LinkRight(used', order', headp', q)
<1>1. TypeOK /\ i \in Pages /\ i \notin used /\ ClusterFacts /\ ClusterFacts'
  BY ClusterFactsHold, ClusterFactsNext DEF Core, TypeOK, Listed
<1>2. order'[i] = o /\ \A j \in used : order'[j] = order[j]
  BY DEF Taken
<1>3. LinkRight(used, order, headp, q)
  BY UseParts DEF UInv
<1>4. i \in Heads' /\ used \subseteq Heads'
  BY DEF Heads
<1>5. \A j \in used : Cluster(j, order[j]) \cap Cluster(i, o) = {}
  BY <1>1, <1>2, <1>4 DEF ClusterFacts, Separate
<1>6. i \in Cluster(i, o) /\ o \in Nat
  BY <1>1, <1>2, <1>4, ConstantFacts DEF ClusterFacts
<1>7. headp'[q] = IF o = 0 THEN IF q = i THEN NoPage ELSE headp[q]
                  ELSE IF q \in Cluster(i, o) THEN i ELSE headp[q]
  BY DEF setup_clustered_pages
<1>8. CASE o = 0
  <2>1. Owners(used', order', q) = Owners(used, order, q)
    BY <1>1, <1>2, <1>8 DEF Owners
  <2>2. q = i => Owners(used, order, q) = {}
    BY <1>5, <1>6 DEF Owners
  <2> QED
    BY <1>3, <1>7, <1>8, <2>1, <2>2 DEF LinkRight
<1>9. CASE o # 0 /\ q \in Cluster(i, o)
  <2>1. o > 0 /\ used' = used \cup {i}
    BY <1>6, <1>9
  <2>2. Owners(used', order', q) = {i}
    BY <1>2, <1>5, <1>9, <2>1 DEF Owners
  <2> QED
    BY <1>7, <1>9, <2>2 DEF LinkRight
<1>10. CASE o # 0 /\ q \notin Cluster(i, o)
  <2>1. Owners(used', order', q) = Owners(used, order, q)
    BY <1>2, <1>10 DEF Owners
  <2> QED
    BY <1>3, <1>7, <1>10, <2>1 DEF LinkRight
<1> QED
  BY <1>8, <1>9, <1>10

(* A cluster handed out adds its pages to the statistics.                  *)
LEMMA HandOutKeepsUse ==
    ASSUME Core, Core', UInv, NEW f \in Orders, NEW i, NEW o, NEW v \in Usages,
           HandOut(f, i, o, v)
    PROVE  UInv'
<1>1. TypeOK /\ i \in Pages /\ i \notin used \cup Away /\ ClusterFacts /\ ClusterFacts'
  BY ClusterFactsHold, ClusterFactsNext DEF Core, TypeOK, Listed, HandOut
<1>2. /\ used' = used \cup {i} /\ Away' = Away
      /\ usage' = [usage EXCEPT ![i] = v]
      /\ usage_pages' = [usage_pages EXCEPT ![v] = @ + 2^o]
      /\ setup_clustered_pages(i, o) /\ adjust_page_order(i, f, o)
      /\ i \in page_list[f] /\ o \in 0..f
  BY DEF HandOut, mark_page_usage
<1>3. Taken(i, o)
  <2>1. used' \cap Away' = {}
    BY <1>1, <1>2 DEF ClusterFacts
  <2> QED
    BY <1>2, <2>1, AdjustStep
<1>4. order'[i] = o /\ \A j \in used : j # i /\ order'[j] = order[j] /\ usage'[j] = usage[j]
  BY <1>1, <1>2, <1>3 DEF Taken, TypeOK
<1>5. UsageOfUsed'
  <2>1. \A q \in Pages : q \in used' <=> usage'[q] \in Usages
    BY <1>1, <1>2 DEF UInv, UsageOfUsed, TypeOK
  <2> QED
    BY <2>1 DEF UsageOfUsed
<1>6. ASSUME NEW u \in Usages PROVE usage_pages'[u] = Cardinality(PagesUsedAs(u)')
  <2>1. usage_pages[u] = Cardinality(PagesUsedAs(u))
    BY DEF UInv, Accounted
  <2>2. usage'[i] = v
    BY <1>1, <1>2 DEF TypeOK
  <2>3. CASE u = v
    <3>1. {k \in used' : usage'[k] = u} = {k \in used : usage[k] = u} \cup {i}
      BY <1>2, <1>4, <2>2, <2>3
    <3>2. PagesUsedAs(u)' = PagesUsedAs(u) \cup Cluster(i, o)
      BY <1>4, <3>1 DEF PagesUsedAs
    <3>3. i \in Heads' /\ used \subseteq Heads'
      BY <1>2 DEF Heads
    <3>4. PagesUsedAs(u) \cap Cluster(i, o) = {}
      BY <1>1, <1>4, <3>3 DEF ClusterFacts, Separate, PagesUsedAs
    <3>5. IsFiniteSet(PagesUsedAs(u)) /\ Cardinality(PagesUsedAs(u)) \in Nat
      BY <1>1, PagesUsedFinite
    <3>6. /\ IsFiniteSet(Cluster(i, o)) /\ Cardinality(Cluster(i, o)) = 2^o /\ 2^o \in Nat
      <4>1. o \in Orders
        BY <1>1, <1>4 DEF ClusterFacts
      <4> QED
        BY <1>1, <4>1, ClusterSize
    <3>7. Cardinality(PagesUsedAs(u)') = Cardinality(PagesUsedAs(u)) + 2^o
      BY <3>2, <3>4, <3>5, <3>6, AddDisjoint
    <3>8. usage_pages'[u] = usage_pages[u] + 2^o
      BY <1>1, <1>2, <2>3 DEF TypeOK
    <3> QED
      BY <2>1, <3>7, <3>8
  <2>4. CASE u # v
    <3>1. {k \in used' : usage'[k] = u} = {k \in used : usage[k] = u}
      BY <1>2, <1>4, <2>2, <2>4
    <3>2. PagesUsedAs(u)' = PagesUsedAs(u)
      BY <1>4, <3>1 DEF PagesUsedAs
    <3> QED
      BY <1>1, <1>2, <2>1, <2>4, <3>2 DEF TypeOK
  <2> QED
    BY <2>3, <2>4
<1>7. \A q \in Pages : LinkRight(used', order', headp', q)
  BY <1>2, <1>3, TakeKeepsLinks
<1> QED
  BY <1>5, <1>6, <1>7, UsePartsNext DEF UInv

(* A page kept away is in no statistics and has no link.                   *)
LEMMA ReserveKeepsUse ==
    ASSUME Core, Core', UInv, NEW f \in Orders, NEW i, Reserve(f, i)
    PROVE  UInv'
<1>1. TypeOK /\ i \in Pages /\ i \notin used \cup Away /\ used \cap Away = {}
  BY DEF Core, TypeOK, Listed, Reserve
<1>2. /\ used' = used /\ Away' = Away \cup {i} /\ usage' = usage
      /\ usage_pages' = usage_pages
      /\ setup_clustered_pages(i, 0) /\ adjust_page_order(i, f, 0)
      /\ i \in page_list[f] /\ 0 \in 0..f
  BY DEF Reserve
<1>3. Taken(i, 0)
  <2>1. used' \cap Away' = {}
    BY <1>1, <1>2
  <2> QED
    BY <1>2, <2>1, AdjustStep
<1>4. \A u \in Usages : usage_pages'[u] = Cardinality(PagesUsedAs(u)')
  <2>1. \A j \in used : order'[j] = order[j]
    BY <1>3 DEF Taken
  <2>2. \A u \in Usages : PagesUsedAs(u)' = PagesUsedAs(u)
    BY <1>2, <2>1 DEF PagesUsedAs
  <2> QED
    BY <1>2, <2>2 DEF UInv, Accounted
<1>5. \A q \in Pages : LinkRight(used', order', headp', q)
  BY <1>2, <1>3, TakeKeepsLinks
<1>6. UsageOfUsed'
  BY <1>2 DEF UInv, UsageOfUsed
<1> QED
  BY <1>4, <1>5, <1>6, UsePartsNext DEF UInv

(* Every step keeps the statistics and the links exact.                    *)
LEMMA NextUInv == Core /\ Core' /\ ~ torn' /\ UInv /\ [Next]_vars => UInv'
<1> SUFFICES ASSUME Core, Core', ~ torn', UInv, [Next]_vars PROVE UInv'
  OBVIOUS
<1>0. TypeOK
  BY DEF Core
<1>1. ASSUME UNCHANGED <<order, used, usage, headp, usage_pages>> PROVE UInv'
  BY <1>1 DEF UInv, UsageOfUsed, Accounted, PagesUsedAs
<1>2. CASE pfdb_add
  BY <1>1, <1>2 DEF pfdb_add, pool, frames
<1>3. ASSUME NEW o \in Orders, NEW u \in Usages, pfdb_buddy_dequeue(o, u) PROVE UInv'
  <2>a. PICK f \in o..(MaxOrder - 1) : \E i \in page_list[f] :
            /\ adjust_page_order(i, f, o) /\ setup_clustered_pages(i, o)
            /\ mark_page_usage(i, o, u) /\ used' = used \cup {i} /\ Away' = Away
    BY <1>3 DEF pfdb_buddy_dequeue, Away, Half, window
  <2>1. PICK i \in page_list[f] :
            /\ adjust_page_order(i, f, o) /\ setup_clustered_pages(i, o)
            /\ mark_page_usage(i, o, u) /\ used' = used \cup {i} /\ Away' = Away
    BY <2>a
  <2>2. f \in Orders /\ o \in 0..f
    BY ConstantFacts, PfdbAssumption DEF Orders
  <2>3. HandOut(f, i, o, u)
    BY <2>1, <2>2 DEF HandOut
  <2> QED
    BY <2>2, <2>3, HandOutKeepsUse
<1>4. ASSUME NEW i \in Pages, pfdb_inc_page_use_count(i) PROVE UInv'
  BY <1>1, <1>4 DEF pfdb_inc_page_use_count, pool
<1>5. ASSUME NEW i \in Pages, pfdb_dec_page_use_count(i) PROVE UInv'
  BY <1>1, <1>5 DEF pfdb_dec_page_use_count, pool
<1>6. ASSUME NEW i \in Pages, free_page(i) PROVE UInv'
  <2>1. Return(i)
    BY <1>6, FreeIsReturn DEF Handed, Return
  <2> QED
    BY <2>1, ReturnKeepsUse
<1>7. ASSUME NEW i \in Pages, mark_page_frame_reserved(i) PROVE UInv'
  <2>1. order[i] \in Orders /\ order[i] \in Nat
    BY <1>0, ConstantFacts DEF TypeOK
  <2>2. Away' = Away \cup {i}
    BY <1>7 DEF mark_page_frame_reserved, Unlocked, Away, Half
  <2>3. Reserve(order[i], i)
    BY <1>7, <2>1, <2>2 DEF Reserve, mark_page_frame_reserved
  <2> QED
    BY <2>1, <2>3, ReserveKeepsUse
<1>8. ASSUME NEW i \in Pages, set_reserved(i) PROVE UInv'
  BY <1>1, <1>8 DEF set_reserved, pool
<1>9. ASSUME NEW i \in Pages, unmark_page_frame_reserved(i) PROVE UInv'
  BY <1>1, <1>9 DEF unmark_page_frame_reserved, pool
<1>10. ASSUME NEW i \in Pages, enqueue_unreserved(i) PROVE UInv'
  <2>1. Return(i)
    BY <1>10, EnqueueIsReturn DEF Handed, Return
  <2> QED
    BY <2>1, ReturnKeepsUse
<1>11. CASE pfdb_remove
  BY <1>1, <1>11 DEF pfdb_remove, frames, pool
<1>12. CASE UNCHANGED vars
  BY <1>1, <1>12 DEF vars, frames, pool
<1> QED
  BY <1>2, <1>3, <1>4, <1>5, <1>6, <1>7, <1>8, <1>9, <1>10, <1>11, <1>12 DEF Next

(* The statistics by usage count the pages in use, and headp leads to the  *)
(* head of a page's cluster, in every state.                               *)
THEOREM AlwaysAccounted == Spec => []UseAccounted
<1>1. Init => UInv
  <2> SUFFICES ASSUME Init PROVE UInv
    OBVIOUS
  <2>1. UsageOfUsed
    BY UsageAssumption DEF Init, UsageOfUsed
  <2>2. \A u \in Usages : PagesUsedAs(u) = {}
    BY DEF Init, PagesUsedAs
  <2>3. \A u \in Usages : usage_pages[u] = Cardinality(PagesUsedAs(u))
    BY <2>2, FS_EmptySet DEF Init
  <2>4. \A q \in Pages : LinkRight(used, order, headp, q)
    BY DEF Init, LinkRight, Owners
  <2> QED
    BY <2>1, <2>3, <2>4, UseParts DEF UInv
<1>2. IInv /\ IInv' /\ (torn \/ UInv) /\ [Next]_vars => (torn \/ UInv)'
  <2> SUFFICES ASSUME IInv, IInv', torn \/ UInv, [Next]_vars, ~ torn' PROVE UInv'
    OBVIOUS
  <2>1. ~ torn
    BY DEF Next, vars, window
  <2>2. Core /\ Core'
    BY <2>1 DEF IInv
  <2> QED
    BY <2>1, <2>2, NextUInv
<1>3. torn \/ UInv => UseAccounted
  BY DEF UInv, UseAccounted
<1> QED
  BY <1>1, <1>2, <1>3, Invariance, PTL DEF Spec

-----------------------------------------------------------------------------
(* The allocator implements PageAllocator.                                 *)

\* The refinement mapping.
clusters == {Cluster(i, order[i]) : i \in used}

(* Every step of the allocator is a step of PageAllocator or invisible.    *)
LEMMA StepSimulation ==
    ASSUME Core, torn' \/ Core', Effect
    PROVE  [Promise!Next]_<<clusters, Away>>
<1>1. ClusterFacts /\ (torn' \/ ClusterFacts')
  BY ClusterFactsHold, ClusterFactsNext
<1>2. \A q \in used \cap used' : Cluster(q, order'[q]) = Cluster(q, order[q])
  BY DEF Effect, UsersKept
<1>3. clusters' = {Cluster(q, order'[q]) : q \in used'}
  BY DEF clusters
<1>4. CASE Idle
  BY <1>2, <1>3, <1>4 DEF Idle, clusters
<1>5. ASSUME NEW i \in used, GivesBack(i) PROVE Promise!Next
  <2>1. Away' = Away /\ used' = used \ {i}
    BY <1>1, <1>5 DEF GivesBack, ClusterFacts
  <2> DEFINE c == Cluster(i, order[i])
  <2>2. c \in clusters
    BY DEF clusters
  <2>3. \A q \in used \ {i} : Cluster(q, order[q]) # c
    <3> SUFFICES ASSUME NEW q \in used \ {i}, Cluster(q, order[q]) = c PROVE FALSE
      OBVIOUS
    <3>1. i \in Heads /\ q \in Heads /\ i # q /\ i \in c
      BY <1>1 DEF ClusterFacts
    <3>2. Cluster(i, order[i]) \cap Cluster(q, order[q]) = {}
      BY <1>1, <3>1 DEF ClusterFacts, Separate
    <3> QED
      BY <3>1, <3>2
  <2>4. clusters' = {Cluster(q, order[q]) : q \in used \ {i}}
    BY <1>2, <1>3, <2>1
  <2> HIDE DEF c
  <2>5. clusters' = clusters \ {c}
    BY <2>3, <2>4 DEF clusters, c
  <2> QED
    BY <2>1, <2>2, <2>5 DEF Promise!Next, Promise!PutCluster, clusters
<1>6. ASSUME NEW i \in Away, GivesBack(i) PROVE Promise!Next
  <2>1. used' = used /\ Away' = Away \ {i}
    BY <1>1, <1>6 DEF GivesBack, ClusterFacts
  <2>2. clusters' = clusters
    BY <1>2, <1>3, <2>1 DEF clusters
  <2> QED
    BY <2>1, <2>2 DEF Promise!Next, Promise!Unreserve, clusters
<1>7. ASSUME NEW i \in Pages, HandsOut(i) PROVE Promise!Next
  <2>1. /\ i \notin used /\ i \notin Away
        /\ used' = used \cup {i} /\ Away' = Away
    BY <1>7 DEF HandsOut
  <2>a. ClusterFacts'
    BY <1>1, <1>7 DEF HandsOut
  <2> DEFINE o == order'[i]
             c == Cluster(i, o)
  <2>2. o \in 0..(MaxOrder - 1)
    BY <1>1, <2>a, <1>7 DEF ClusterFacts, Orders
  <2>3. c \subseteq Pages
    BY <1>1, <2>a, <2>1 DEF ClusterFacts
  <2>4. clusters' = clusters \cup {c}
    BY <1>2, <1>3, <2>1 DEF clusters
  <2>5. \A q \in used : c \cap Cluster(q, order[q]) = {}
    <3> TAKE q \in used
    <3>1. q \in Heads' /\ i \in Heads' /\ q # i
      BY <1>1, <2>a, <2>1 DEF ClusterFacts
    <3>2. Cluster(i, order'[i]) \cap Cluster(q, order'[q]) = {}
      BY <1>1, <2>a, <3>1 DEF ClusterFacts, Separate
    <3> QED
      BY <1>2, <2>1, <3>2
  <2>6. \A q \in Away : q \notin c
    <3> TAKE q \in Away
    <3>1. q \in Heads' /\ i \in Heads' /\ q # i /\ q \in Cluster(q, order'[q])
      BY <1>1, <2>a, <2>1 DEF ClusterFacts
    <3>2. Cluster(i, order'[i]) \cap Cluster(q, order'[q]) = {}
      BY <1>1, <2>a, <3>1 DEF ClusterFacts, Separate
    <3> QED
      BY <3>1, <3>2
  <2>7. c = i..(i + 2^o - 1)
    BY DEF Cluster
  <2> HIDE DEF c, o
  <2>8. c \cap ((UNION clusters) \cup Away) = {}
    BY <2>5, <2>6 DEF clusters
  <2>9. Promise!GetCluster(i, o)
    BY <2>1, <2>3, <2>4, <2>7, <2>8 DEF Promise!GetCluster, Promise!Taken, clusters
  <2> QED
    BY <2>2, <2>9 DEF Promise!Next
<1>8. ASSUME NEW i \in Pages, Reserves(i) PROVE Promise!Next
  <2>1. i \notin Away /\ used' = used /\ Away' = Away \cup {i} /\ i \notin used
    BY <1>8 DEF Reserves
  <2>a. ClusterFacts'
    BY <1>1, <1>8 DEF Reserves
  <2>2. clusters' = clusters
    BY <1>2, <1>3, <2>1 DEF clusters
  <2>3. \A q \in used : i \notin Cluster(q, order[q])
    <3> TAKE q \in used
    <3>1. q \in Heads' /\ i \in Heads' /\ q # i /\ i \in Cluster(i, order'[i])
      BY <1>1, <2>a, <2>1 DEF ClusterFacts
    <3>2. Cluster(i, order'[i]) \cap Cluster(q, order'[q]) = {}
      BY <1>1, <2>a, <3>1 DEF ClusterFacts, Separate
    <3> QED
      BY <1>2, <2>1, <3>1, <3>2
  <2>4. i \notin (UNION clusters) \cup Away
    BY <2>1, <2>3 DEF clusters
  <2> QED
    BY <2>1, <2>2, <2>4 DEF Promise!Next, Promise!Reserve, Promise!Taken, clusters
<1> QED
  BY <1>4, <1>5, <1>6, <1>7, <1>8 DEF Effect

(* The buddy system keeps the promise of the page allocator: every cluster *)
(* handed out is made of pages nobody holds.                               *)
THEOREM Refinement == Spec => PromiseSpec
<1>1. Init => Promise!Init
  BY DEF Init, Promise!Init, Away, Half
<1>2. IInv /\ IInv' /\ [Next]_vars => [Promise!Next]_<<clusters, Away>>
  <2> SUFFICES ASSUME IInv, IInv', [Next]_vars PROVE [Promise!Next]_<<clusters, Away>>
    OBVIOUS
  <2>1. CASE Core
    BY <2>1, StepEffect, StepSimulation DEF IInv
  <2>2. CASE torn
    <3>1. UNCHANGED vars
      BY <2>2 DEF Next
    <3> QED
      BY <3>1 DEF vars, frames, window, clusters, Away, Half
  <2> QED
    BY <2>1, <2>2 DEF IInv
<1> QED
  BY <1>1, <1>2, Invariance, PTL DEF Spec, PromiseSpec, Promise!Spec, clusters
=============================================================================
