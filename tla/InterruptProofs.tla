--------------------------- MODULE InterruptProofs --------------------------
(***************************************************************************)
(* Proofs about the interrupt lines, the nested traps and the callouts of  *)
(* Interrupts, for every set of lines and handlers that the platform may   *)
(* have, with any priorities, every depth of nesting, any number of users  *)
(* and entries of callouts, and every length of a second.                  *)
(*                                                                         *)
(* The lines.  A line has one reference as long as it has handlers and     *)
(* three more while a trap serves it.  No second trap serves it: a trap    *)
(* below the top has called a nestable handler, so it serves a line of the *)
(* PLIC, whose priority the threshold has been at ever since, though       *)
(* irqline_put may raise it and the end of a trap lowers it again; what    *)
(* the claim register shows is above the threshold, so that a trap finds   *)
(* only lines of higher priority pending than those below it serve.  Each  *)
(* function is first described by the fields of the record q that it may   *)
(* change (Touch); then each step is shown to keep the lines (LinesOK),    *)
(* the stack (FramesOK), the thresholds saved in it (MasksOK) and its top  *)
(* (TopOK).  The timer is not nestable, so that its pending bits change    *)
(* only by a tick while its handler runs (WallInv).                        *)
(*                                                                         *)
(* The callouts.  The entry of an armed callout is queued once and belongs *)
(* to its user (QueueOK, OwnerOK, HandleOK), so that whoever takes it, or  *)
(* removes it, ends that callout and no other.  It is not due too early    *)
(* because its time is the one asked for or one second later, when the     *)
(* carry was added and the nanoseconds kept (TimeOK).                      *)
(***************************************************************************)
EXTENDS Interrupts, SequenceTheorems, FiniteSetTheorems, WellFoundedInduction, TLAPS

-----------------------------------------------------------------------------
(* Queues are sequences without repetition: what taking an entry out of    *)
(* one and putting an entry into one does to its contents.                 *)

(* The CHOOSE of a least number is well defined.                           *)
LEMMA LeastNatural ==
    ASSUME NEW S \in SUBSET Nat, S # {}
    PROVE  \E x \in S : \A y \in S : x <= y
<1>1. IsWellFoundedOn(OpToRel(<, Nat), Nat)
  BY NatLessThanWellFounded
<1>2. PICK x \in S : \A y \in S : <<y, x>> \notin OpToRel(<, Nat)
  BY <1>1, WFMin
<1>3. \A y \in S : ~ (y < x)
  BY <1>2 DEF OpToRel
<1> QED
  BY <1>3

(* Taking out the entry at i.                                              *)
LEMMA RemoveAtFacts ==
    ASSUME NEW S, NEW s \in Seq(S), IsInjective(s), NEW i \in 1..Len(s)
    PROVE  /\ RemoveAt(s, i) \in Seq(S) /\ IsInjective(RemoveAt(s, i))
           /\ Range(RemoveAt(s, i)) = Range(s) \ {s[i]}
<1> DEFINE n == Len(s)
           r == RemoveAt(s, i)
<1>1. n \in Nat /\ DOMAIN s = 1..n /\ \A j \in 1..n : s[j] \in S
  BY LenProperties, ElementOfSeq
<1>2. /\ r \in Seq(S) /\ Len(r) = n - 1
      /\ \A j \in 1..(n - 1) : r[j] = IF j < i THEN s[j] ELSE s[j + 1]
  <2> DEFINE a == SubSeq(s, 1, i - 1)
             z == SubSeq(s, i + 1, n)
  <2>1. /\ a \in Seq(S) /\ Len(a) = i - 1
        /\ \A j \in 1..(i - 1) : a[j] = s[j]
    BY <1>1
  <2>2. /\ z \in Seq(S) /\ Len(z) = n - i
        /\ \A j \in 1..(n - i) : z[j] = s[i + j]
    <3>1. i + 1 \in Int /\ n \in Int /\ \A j \in (i + 1)..n : s[j] \in S
      BY <1>1
    <3>2. /\ z \in Seq(S) /\ Len(z) = IF i + 1 <= n THEN n - (i + 1) + 1 ELSE 0
          /\ \A j \in 1..(n - (i + 1) + 1) : z[j] = s[(i + 1) + j - 1]
      BY <3>1, SubSeqProperties
    <3> HIDE DEF z
    <3>3. n \in Nat /\ i \in 1..n
      BY <1>1
    <3> HIDE DEF n
    <3>4. n - (i + 1) + 1 = n - i /\ (~ (i + 1 <= n) => n - i = 0)
      BY <3>3
    <3>5. Len(z) = n - i
      BY <3>2, <3>4
    <3>6. \A j \in 1..(n - i) : (i + 1) + j - 1 = i + j
      BY <3>3
    <3> QED
      BY <3>2, <3>4, <3>5, <3>6
  <2> HIDE DEF a, z
  <2>3. /\ a \o z \in Seq(S) /\ Len(a \o z) = Len(a) + Len(z)
        /\ \A j \in 1..(Len(a) + Len(z)) :
             (a \o z)[j] = IF j <= Len(a) THEN a[j] ELSE z[j - Len(a)]
    BY <2>1, <2>2, ConcatProperties
  <2>4. r = a \o z
    BY DEF RemoveAt, a, z
  <2>5. Len(a) + Len(z) = n - 1
    BY <1>1, <2>1, <2>2
  <2>6. ASSUME NEW j \in 1..(n - 1)
        PROVE  (a \o z)[j] = IF j < i THEN s[j] ELSE s[j + 1]
    <3>1. CASE j < i
      BY <1>1, <2>1, <2>3, <2>5, <3>1
    <3>2. CASE ~ (j < i)
      <4>1. j - (i - 1) \in 1..(n - i) /\ ~ (j <= i - 1) /\ i + (j - (i - 1)) = j + 1
        BY <1>1, <3>2
      <4>2. (a \o z)[j] = z[j - (i - 1)]
        BY <2>1, <2>3, <2>5, <4>1
      <4> QED
        BY <2>2, <3>2, <4>1, <4>2
    <3> QED
      BY <3>1, <3>2
  <2> QED
    BY <2>3, <2>4, <2>5, <2>6
<1>3. DOMAIN r = 1..(n - 1)
  BY <1>2, LenProperties
<1> HIDE DEF n, r
<1>4. \A a, b \in 1..n : s[a] = s[b] => a = b
  BY <1>1 DEF IsInjective
<1>5. IsInjective(r)
  <2> SUFFICES ASSUME NEW a \in 1..(n - 1), NEW b \in 1..(n - 1), r[a] = r[b] PROVE a = b
    BY <1>3 DEF IsInjective
  <2> DEFINE x == IF a < i THEN a ELSE a + 1
             y == IF b < i THEN b ELSE b + 1
  <2>1. x \in 1..n /\ y \in 1..n /\ s[x] = s[y]
    BY <1>1, <1>2
  <2>2. x = y
    BY <1>4, <2>1
  <2> QED
    BY <2>2
<1>6. ASSUME NEW j \in 1..(n - 1) PROVE r[j] \in Range(s) \ {s[i]}
  <2>1. i \in 1..n
    BY DEF n
  <2>2. CASE j < i
    <3>1. j \in 1..n /\ j # i /\ r[j] = s[j]
      BY <1>1, <1>2, <2>1, <2>2
    <3> QED
      BY <1>1, <1>4, <2>1, <3>1 DEF Range
  <2>3. CASE ~ (j < i)
    <3>1. j + 1 \in 1..n /\ j + 1 # i /\ r[j] = s[j + 1]
      BY <1>1, <1>2, <2>1, <2>3
    <3> QED
      BY <1>1, <1>4, <2>1, <3>1 DEF Range
  <2> QED
    BY <2>2, <2>3
<1>7. ASSUME NEW x \in Range(s) \ {s[i]} PROVE x \in Range(r)
  <2>1. PICK j \in 1..n : x = s[j] /\ j # i
    BY <1>1 DEF Range
  <2>2. i \in 1..n
    BY DEF n
  <2>3. CASE j < i
    <3>1. j \in 1..(n - 1) /\ r[j] = x
      BY <1>1, <1>2, <2>1, <2>2, <2>3
    <3> QED
      BY <1>3, <3>1 DEF Range
  <2>4. CASE ~ (j < i)
    <3>1. j - 1 \in 1..(n - 1) /\ r[j - 1] = x
      BY <1>1, <1>2, <2>1, <2>2, <2>4
    <3> QED
      BY <1>3, <3>1 DEF Range
  <2> QED
    BY <2>3, <2>4
<1>8. Range(r) = Range(s) \ {s[i]}
  BY <1>3, <1>6, <1>7 DEF Range
<1> QED
  BY <1>2, <1>5, <1>8 DEF r

(* Taking out the first entry.                                             *)
LEMMA TailFacts ==
    ASSUME NEW S, NEW s \in Seq(S), IsInjective(s), s # <<>>
    PROVE  /\ Tail(s) \in Seq(S) /\ IsInjective(Tail(s))
           /\ Head(s) \in Range(s)
           /\ Range(Tail(s)) = Range(s) \ {Head(s)}
<1> DEFINE n == Len(s)
           r == Tail(s)
<1>1. n \in Nat /\ n >= 1 /\ DOMAIN s = 1..n /\ Head(s) = s[1]
  BY LenProperties, EmptySeq
<1>2. /\ r \in Seq(S) /\ Len(r) = n - 1 /\ DOMAIN r = 1..(n - 1)
      /\ \A j \in 1..(n - 1) : r[j] = s[j + 1]
  BY <1>1, HeadTailProperties, LenProperties
<1> HIDE DEF n, r
<1>3. \A a, b \in 1..n : s[a] = s[b] => a = b
  BY <1>1 DEF IsInjective
<1>4. IsInjective(r)
  <2> SUFFICES ASSUME NEW a \in 1..(n - 1), NEW b \in 1..(n - 1), r[a] = r[b] PROVE a = b
    BY <1>2 DEF IsInjective
  <2>1. a + 1 \in 1..n /\ b + 1 \in 1..n /\ s[a + 1] = s[b + 1]
    BY <1>1, <1>2
  <2> QED
    BY <1>1, <1>3, <2>1
<1>5. ASSUME NEW j \in 1..(n - 1) PROVE r[j] \in Range(s) \ {s[1]}
  <2>1. j + 1 \in 1..n /\ j + 1 # 1 /\ 1 \in 1..n /\ r[j] = s[j + 1]
    BY <1>1, <1>2
  <2> QED
    BY <1>1, <1>3, <2>1 DEF Range
<1>6. ASSUME NEW x \in Range(s) \ {s[1]} PROVE x \in Range(r)
  <2>1. PICK j \in 1..n : x = s[j] /\ j # 1
    BY <1>1 DEF Range
  <2>2. j - 1 \in 1..(n - 1) /\ r[j - 1] = x
    BY <1>1, <1>2, <2>1
  <2> QED
    BY <1>2, <2>2 DEF Range
<1>7. Range(r) = Range(s) \ {Head(s)}
  BY <1>1, <1>2, <1>5, <1>6 DEF Range
<1>8. Head(s) \in Range(s)
  BY <1>1 DEF Range
<1> QED
  BY <1>2, <1>4, <1>7, <1>8 DEF r

(* Appending an entry that is not in the queue.                            *)
LEMMA AppendFacts ==
    ASSUME NEW S, NEW s \in Seq(S), IsInjective(s), NEW x \in S \ Range(s)
    PROVE  /\ Append(s, x) \in Seq(S) /\ IsInjective(Append(s, x))
           /\ Range(Append(s, x)) = Range(s) \cup {x}
<1> DEFINE n == Len(s)
           r == Append(s, x)
<1>1. n \in Nat /\ DOMAIN s = 1..n
  BY LenProperties
<1>2. /\ r \in Seq(S) /\ Len(r) = n + 1 /\ DOMAIN r = 1..(n + 1)
      /\ \A j \in 1..n : r[j] = s[j]
      /\ r[n + 1] = x
  BY <1>1, AppendProperties, LenProperties
<1> HIDE DEF n, r
<1>3. \A a, b \in 1..n : s[a] = s[b] => a = b
  BY <1>1 DEF IsInjective
<1>4. \A j \in 1..n : s[j] # x /\ s[j] \in Range(s)
  BY <1>1 DEF Range
<1>5. \A j \in 1..(n + 1) : j \in 1..n \/ j = n + 1
  BY <1>1
<1>6. IsInjective(r)
  BY <1>2, <1>3, <1>4, <1>5 DEF IsInjective
<1>7. \A j \in 1..n : j \in 1..(n + 1)
  BY <1>1
<1>8. n + 1 \in 1..(n + 1)
  BY <1>1
<1>9. Range(r) = Range(s) \cup {x}
  BY <1>1, <1>2, <1>4, <1>5, <1>7, <1>8 DEF Range
<1> QED
  BY <1>2, <1>6, <1>9 DEF r

(* Putting an entry that is not in the queue before the one at i.          *)
LEMMA InsertAtFacts ==
    ASSUME NEW S, NEW s \in Seq(S), IsInjective(s), NEW i \in 1..(Len(s) + 1), NEW x \in S \ Range(s)
    PROVE  /\ InsertAt(s, i, x) \in Seq(S) /\ IsInjective(InsertAt(s, i, x))
           /\ Range(InsertAt(s, i, x)) = Range(s) \cup {x}
<1> DEFINE n == Len(s)
           r == InsertAt(s, i, x)
<1>1. n \in Nat /\ DOMAIN s = 1..n /\ \A j \in 1..n : s[j] \in S
  BY LenProperties, ElementOfSeq
<1>2. /\ r \in Seq(S) /\ Len(r) = n + 1
      /\ \A j \in 1..(n + 1) : r[j] = IF j < i THEN s[j] ELSE IF j = i THEN x ELSE s[j - 1]
  <2> DEFINE a == SubSeq(s, 1, i - 1)
             b == <<x>>
             z == SubSeq(s, i, n)
  <2>1. /\ a \in Seq(S) /\ Len(a) = i - 1
        /\ \A j \in 1..(i - 1) : a[j] = s[j]
    BY <1>1
  <2>2. /\ z \in Seq(S) /\ Len(z) = n - i + 1
        /\ \A j \in 1..(n - i + 1) : z[j] = s[i + j - 1]
    <3>1. i \in Int /\ n \in Int /\ i <= n + 1 /\ \A j \in i..n : s[j] \in S
      BY <1>1
    <3> QED
      BY <3>1, SubSeqProperties
  <2>3. b \in Seq(S) /\ Len(b) = 1 /\ b[1] = x
    OBVIOUS
  <2> HIDE DEF a, b, z
  <2>4. /\ a \o b \in Seq(S) /\ Len(a \o b) = i
        /\ \A j \in 1..i : (a \o b)[j] = IF j < i THEN s[j] ELSE x
    <3>1. /\ a \o b \in Seq(S) /\ Len(a \o b) = Len(a) + Len(b)
          /\ \A j \in 1..(Len(a) + Len(b)) :
               (a \o b)[j] = IF j <= Len(a) THEN a[j] ELSE b[j - Len(a)]
      BY <2>1, <2>3, ConcatProperties
    <3>2. Len(a) + Len(b) = i
      BY <2>1, <2>3
    <3>3. ASSUME NEW j \in 1..i PROVE (a \o b)[j] = IF j < i THEN s[j] ELSE x
      <4>1. CASE j < i
        BY <2>1, <3>1, <3>2, <4>1
      <4>2. CASE j = i
        <5>1. ~ (j <= Len(a)) /\ j - Len(a) = 1
          BY <2>1, <4>2
        <5>2. j \in 1..(Len(a) + Len(b)) /\ ~ (j < i)
          BY <3>2, <4>2
        <5>3. (a \o b)[j] = b[1]
          BY <3>1, <5>1, <5>2
        <5> QED
          BY <2>3, <5>2, <5>3
      <4>3. j < i \/ j = i
        BY <1>1
      <4> QED
        BY <4>1, <4>2, <4>3
    <3> QED
      BY <3>1, <3>2, <3>3
  <2> DEFINE y == a \o b
  <2>5. y \in Seq(S) /\ Len(y) = i /\ \A j \in 1..i : y[j] = IF j < i THEN s[j] ELSE x
    BY <2>4
  <2> HIDE DEF y
  <2>6. /\ y \o z \in Seq(S) /\ Len(y \o z) = Len(y) + Len(z)
        /\ \A j \in 1..(Len(y) + Len(z)) :
             (y \o z)[j] = IF j <= Len(y) THEN y[j] ELSE z[j - Len(y)]
    BY <2>2, <2>5, ConcatProperties
  <2>7. r = y \o z
    BY DEF InsertAt, a, b, y, z
  <2>8. Len(y) + Len(z) = n + 1
    BY <1>1, <2>2, <2>5
  <2>9. ASSUME NEW j \in 1..(n + 1)
        PROVE  (y \o z)[j] = IF j < i THEN s[j] ELSE IF j = i THEN x ELSE s[j - 1]
    <3>1. CASE j <= i
      <4>1. j \in 1..i
        BY <3>1
      <4> QED
        BY <2>5, <2>6, <2>8, <3>1, <4>1
    <3>2. CASE ~ (j <= i)
      <4>1. j - i \in 1..(n - i + 1) /\ i + (j - i) - 1 = j - 1
        BY <1>1, <3>2
      <4>2. (y \o z)[j] = z[j - i]
        BY <2>5, <2>6, <2>8, <3>2
      <4>3. z[j - i] = s[j - 1]
        BY <2>2, <4>1
      <4> QED
        BY <3>2, <4>2, <4>3
    <3> QED
      BY <3>1, <3>2
  <2> QED
    BY <2>6, <2>7, <2>8, <2>9
<1>3. DOMAIN r = 1..(n + 1) /\ i \in 1..(n + 1)
  BY <1>2, LenProperties
<1> HIDE DEF n, r
<1>4. \A a, b \in 1..n : s[a] = s[b] => a = b
  BY <1>1 DEF IsInjective
<1>5. \A j \in 1..n : s[j] # x /\ s[j] \in Range(s)
  BY <1>1 DEF Range
<1>6. IsInjective(r)
  <2> SUFFICES ASSUME NEW a \in 1..(n + 1), NEW b \in 1..(n + 1), r[a] = r[b] PROVE a = b
    BY <1>3 DEF IsInjective
  <2> DEFINE u == IF a < i THEN a ELSE a - 1
             v == IF b < i THEN b ELSE b - 1
  <2>1. CASE a = i
    <3>1. b # i => v \in 1..n /\ r[b] = s[v]
      BY <1>1, <1>2, <1>3
    <3> QED
      BY <1>2, <1>5, <2>1, <3>1
  <2>2. CASE b = i
    <3>1. a # i => u \in 1..n /\ r[a] = s[u]
      BY <1>1, <1>2, <1>3
    <3> QED
      BY <1>2, <1>5, <2>2, <3>1
  <2>3. CASE a # i /\ b # i
    <3>1. u \in 1..n /\ v \in 1..n /\ s[u] = s[v]
      BY <1>1, <1>2, <1>3, <2>3
    <3>2. u = v
      BY <1>4, <3>1
    <3> QED
      BY <1>3, <2>3, <3>2
  <2> QED
    BY <2>1, <2>2, <2>3
<1>7. ASSUME NEW j \in 1..(n + 1) PROVE r[j] \in Range(s) \cup {x}
  <2>1. CASE j = i
    BY <1>2, <2>1
  <2>2. CASE j # i
    <3> DEFINE u == IF j < i THEN j ELSE j - 1
    <3>1. u \in 1..n /\ r[j] = s[u]
      BY <1>1, <1>2, <1>3, <2>2
    <3> QED
      BY <1>5, <3>1
  <2> QED
    BY <2>1, <2>2
<1>8. ASSUME NEW j \in 1..n PROVE s[j] \in Range(r)
  <2> DEFINE u == IF j < i THEN j ELSE j + 1
  <2>1. u \in 1..(n + 1) /\ r[u] = s[j]
    BY <1>1, <1>2, <1>3
  <2> QED
    BY <1>3, <2>1 DEF Range
<1>9. x \in Range(r)
  <2>1. i \in 1..(n + 1) /\ r[i] = x
    BY <1>1, <1>2, <1>3
  <2> QED
    BY <1>3, <2>1 DEF Range
<1>10. Range(r) = Range(s) \cup {x}
  BY <1>1, <1>3, <1>7, <1>8, <1>9 DEF Range
<1> QED
  BY <1>2, <1>6, <1>10 DEF r

-----------------------------------------------------------------------------
(* The inductive invariant of the callouts.                                *)

EntryType ==
    [st : {"free", "queued", "taken"}, user : Users \cup {NoEnt}, sec : Int, nsec : Nat, left : Int]

CalloutType ==
    /\ wall \in 0 .. (SecLen - 1)
    /\ cq \in Seq(Entries)
    /\ ent \in [Entries -> EntryType]
    /\ handle \in [Users -> Entries \cup {NoEnt}]
    /\ ran \in [Users -> BOOLEAN]

IsQueued(e) == ent[e].st = "queued"

\* The queue holds each queued entry once.
QueueOK ==
    /\ IsInjective(cq)
    /\ \A e \in Entries : e \in Range(cq) <=> IsQueued(e)

\* A queued entry belongs to the user that armed it last.
OwnerOK ==
    \A e \in Entries : IsQueued(e) =>
        /\ ent[e].user \in Users
        /\ handle[ent[e].user] = e
        /\ ~ ran[ent[e].user]

\* What a user's pointer refers to: an entry taken for good, or its queued one.
HandleOK ==
    \A u \in Users : handle[u] # NoEnt =>
        /\ ran[u] => ent[handle[u]].st = "taken"
        /\ ~ ran[u] => IsQueued(handle[u]) /\ ent[handle[u]].user = u

\* d is the second too much of an entry whose nanoseconds were not reduced.
Late(x, d) ==
    /\ SecLen * x.sec + x.nsec = wall + x.left + d
    /\ x.nsec < SecLen + d
TimeOK == \A e \in Entries : IsQueued(e) => \E d \in {0, SecLen} : Late(ent[e], d)

CalloutInv == CalloutType /\ QueueOK /\ OwnerOK /\ HandleOK /\ TimeOK

-----------------------------------------------------------------------------
(* The steps of the machine that concern the callouts.                     *)

coState == <<wall, cq, ent, handle, ran>>

CalloutStep ==
    \/ tim_update_walltime
    \/ invoke_callout
    \/ \E u \in Users : tim_callout_cancel(u) \/ \E rel \in 0 .. MaxRel : tim_callout_add(u, rel)

LEMMA StepsAre == [Next]_vars => CalloutStep \/ UNCHANGED coState
<1> SUFFICES ASSUME [Next]_vars PROVE CalloutStep \/ UNCHANGED coState
  OBVIOUS
<1>1. CASE Tick \/ Trap \/ Scan
  BY <1>1 DEF Tick, Trap, Scan, coVars, coState
<1>2. CASE TimerStep
  <2>1. CASE TimerWallTime \/ TimerInvoke
    BY <2>1 DEF TimerWallTime, TimerInvoke, CalloutStep
  <2>2. CASE TimerCalloutReturns \/ rv64_timer_handler
    BY <2>2 DEF TimerCalloutReturns, callout_returns, rv64_timer_handler, coState
  <2> QED
    BY <1>2, <2>1, <2>2 DEF TimerStep
<1>3. CASE Devices
  <2>1. UNCHANGED coVars
    <3>1. CASE ReplugPlic
      BY <3>1 DEF ReplugPlic
    <3>2. CASE \E l \in PlicLines : Raise(l)
      BY <3>2 DEF Raise
    <3>3. CASE \E h \in Drivers : Device(h)
      BY <3>3 DEF Device
    <3>4. CASE \E h \in Drivers : Unregister(h) \/ Register(h)
      BY <3>4 DEF Unregister, Register
    <3> QED
      BY <1>3, <3>1, <3>2, <3>3, <3>4 DEF Devices
  <2> QED
    BY <2>1 DEF coVars, coState
<1>4. CASE Callers
  <2>1. PICK u \in Users : Arm(u) \/ Cancel(u)
    BY <1>4 DEF Callers
  <2> QED
    BY <2>1 DEF Arm, Cancel, CalloutStep
<1>5. CASE UNCHANGED vars
  BY <1>5 DEF vars, coVars, coState
<1> QED
  BY <1>1, <1>2, <1>3, <1>4, <1>5 DEF Next

-----------------------------------------------------------------------------
(* What a user sees.                                                       *)

LeftFacts ==
    /\ \A u \in Users : ~ Armed(u) => leftOf[u] = NoEnt
    /\ \A u \in Users : Armed(u) =>
         /\ handle[u] \in Entries /\ IsQueued(handle[u]) /\ ent[handle[u]].user = u
         /\ leftOf[u] = ent[handle[u]].left /\ leftOf[u] \in Int /\ leftOf[u] # NoEnt

LEMMA LeftFactsHold == CalloutInv => LeftFacts
<1> SUFFICES ASSUME CalloutInv, NEW u \in Users, Armed(u)
             PROVE  /\ handle[u] \in Entries /\ IsQueued(handle[u]) /\ ent[handle[u]].user = u
                    /\ leftOf[u] = ent[handle[u]].left /\ leftOf[u] \in Int /\ leftOf[u] # NoEnt
  BY DEF leftOf, LeftFacts
<1>1. handle[u] \in Entries /\ IsQueued(handle[u]) /\ ent[handle[u]].user = u
  BY DEF CalloutInv, CalloutType, HandleOK, Armed
<1>2. ent[handle[u]] \in EntryType
  BY <1>1 DEF CalloutInv, CalloutType
<1>3. leftOf[u] = ent[handle[u]].left
  BY <1>1 DEF leftOf, IsQueued
<1>4. ent[handle[u]].left \in Int
  BY <1>2 DEF EntryType
<1> QED
  BY <1>1, <1>3, <1>4, CalloutAssumption

\* ... in the state after a step as well.
LEMMA LeftFactsNext == CalloutInv' => LeftFacts'
BY LeftFactsHold, PTL

\* An entry that is due has no time left.
LEMMA DueIsDue ==
    ASSUME CalloutInv, NEW e \in Entries, IsQueued(e), Due(e)
    PROVE  ent[e].left <= 0
<1> DEFINE x == ent[e]
<1>1. /\ x.sec \in Int /\ x.nsec \in Nat /\ x.left \in Int
      /\ wall \in 0 .. (SecLen - 1) /\ SecLen \in Nat \ {0}
  BY CalloutAssumption DEF CalloutInv, CalloutType, EntryType
<1>2. PICK d \in {0, SecLen} : Late(x, d)
  BY DEF CalloutInv, TimeOK
<1>3. x.sec < 0 \/ (x.sec = 0 /\ x.nsec <= wall)
  BY <1>1 DEF Due, calloutent_less
<1> HIDE DEF x
<1>4. CASE x.sec = 0 /\ x.nsec <= wall
  <2>1. SecLen * x.sec = 0
    BY <1>1, <1>4
  <2>2. x.nsec = wall + x.left + d
    BY <1>1, <1>2, <2>1 DEF Late
  <2> QED
    BY <1>1, <1>4, <2>2 DEF x
<1>5. CASE x.sec < 0
  <2>1. SecLen * x.sec <= 0 - SecLen
    <3>1. 0 - x.sec - 1 \in Nat
      BY <1>1, <1>5
    <3>2. SecLen * (0 - x.sec - 1) >= 0
      BY <1>1, <3>1
    <3>3. SecLen * (0 - x.sec - 1) = 0 - SecLen * x.sec - SecLen
      BY <1>1
    <3>4. SecLen * x.sec \in Int
      BY <1>1
    <3> QED
      BY <1>1, <3>2, <3>3, <3>4
  <2>2. x.nsec < SecLen + d /\ SecLen * x.sec + x.nsec = wall + x.left + d /\ SecLen * x.sec \in Int
    BY <1>1, <1>2 DEF Late
  <2> QED
    BY <1>1, <2>1, <2>2 DEF x
<1> QED
  BY <1>3, <1>4, <1>5

-----------------------------------------------------------------------------
(* Each step keeps the invariant and is a step of the service.             *)

LEMMA InitKeeps == tim_callout_init => CalloutInv
<1> SUFFICES ASSUME tim_callout_init PROVE CalloutInv
  OBVIOUS
<1>0. \A u \in Users : ran[u] = FALSE
  BY DEF tim_callout_init
<1>1. ran \in [Users -> BOOLEAN]
  BY Zenon DEF tim_callout_init
<1>2. CalloutType
  <2>1. ent \in [Entries -> EntryType]
    BY DEF tim_callout_init, FreeEnt, EntryType
  <2>2. wall \in 0 .. (SecLen - 1)
    BY CalloutAssumption DEF tim_callout_init
  <2>3. cq \in Seq(Entries) /\ handle \in [Users -> Entries \cup {NoEnt}]
    BY DEF tim_callout_init
  <2> QED
    BY <1>1, <2>1, <2>2, <2>3 DEF CalloutType
<1>3. \A e \in Entries : ~ IsQueued(e)
  BY DEF tim_callout_init, FreeEnt, IsQueued
<1>4. Range(cq) = {} /\ IsInjective(cq)
  BY DEF tim_callout_init, Range, IsInjective
<1>5. HandleOK
  BY DEF tim_callout_init, HandleOK
<1> QED
  BY <1>2, <1>3, <1>4, <1>5 DEF CalloutInv, QueueOK, OwnerOK, TimeOK

\* An entry whose times move.
MovedTo(x, y, s, l) == y = [x EXCEPT !.sec = s, !.left = l]
LEMMA Moved ==
    ASSUME NEW x \in EntryType, NEW s \in Int, NEW l \in Int, NEW y,
           MovedTo(x, y, s, l)
    PROVE  /\ y \in EntryType
           /\ y.st = x.st /\ y.user = x.user /\ y.sec = s /\ y.nsec = x.nsec /\ y.left = l
<1>1. x = [st |-> x.st, user |-> x.user, sec |-> x.sec, nsec |-> x.nsec, left |-> x.left]
  BY DEF EntryType
<1>2. y = [st |-> x.st, user |-> x.user, sec |-> s, nsec |-> x.nsec, left |-> l]
  BY <1>1 DEF MovedTo
<1>3. x.st \in {"free", "queued", "taken"} /\ x.user \in Users \cup {NoEnt} /\ x.nsec \in Nat
  BY DEF EntryType
<1>4. y \in EntryType
  BY <1>2, <1>3 DEF EntryType
<1> QED
  BY <1>2, <1>4

\* What a user's pointer refers to, by its state.
LEMMA HandleIs ==
    ASSUME CalloutInv, NEW v \in Users, handle[v] # NoEnt
    PROVE  /\ handle[v] \in Entries
           /\ \/ ran[v] /\ ent[handle[v]].st = "taken" /\ ~ IsQueued(handle[v])
              \/ ~ ran[v] /\ IsQueued(handle[v]) /\ ent[handle[v]].user = v
<1>1. handle[v] \in Entries
  BY DEF CalloutInv, CalloutType
<1>2. HandleOK
  BY DEF CalloutInv
<1>3. /\ ran[v] => ent[handle[v]].st = "taken"
      /\ ~ ran[v] => IsQueued(handle[v]) /\ ent[handle[v]].user = v
  BY <1>2, Zenon DEF HandleOK
<1>4. ent[handle[v]].st = "taken" => ~ IsQueued(handle[v])
  BY DEF IsQueued
<1> QED
  BY <1>1, <1>3, <1>4, Zenon

LEMMA StutterKeeps ==
    ASSUME CalloutInv, UNCHANGED coState
    PROVE  CalloutInv' /\ UNCHANGED <<leftOf, ran>>
<1>1. UNCHANGED <<wall, cq, ent, handle, ran>>
  BY DEF coState
<1>2. CalloutType' /\ QueueOK' /\ OwnerOK' /\ HandleOK' /\ TimeOK'
  BY <1>1 DEF CalloutInv, CalloutType, QueueOK, OwnerOK, HandleOK, TimeOK, Late, IsQueued
<1>3. leftOf' = leftOf
  BY <1>1 DEF leftOf, Armed
<1> QED
  BY <1>1, <1>2, <1>3 DEF CalloutInv

LEMMA WallTimeStep ==
    ASSUME CalloutInv, tim_update_walltime
    PROVE  CalloutInv' /\ Service!Tick
<1> DEFINE carry == wall + 1 = SecLen
<1>0. /\ wall' = IF carry THEN 0 ELSE wall + 1
      /\ UNCHANGED <<cq, handle, ran>>
  BY DEF tim_update_walltime
<1>1. /\ carry => wall' = 0 /\ wall = SecLen - 1
      /\ ~ carry => wall' = wall + 1
      /\ wall' \in 0 .. (SecLen - 1) /\ wall \in 0 .. (SecLen - 1) /\ SecLen \in Nat \ {0}
  <2>1. wall \in 0 .. (SecLen - 1) /\ SecLen \in Nat \ {0}
    BY CalloutAssumption DEF CalloutInv, CalloutType
  <2> QED
    BY <1>0, <2>1
<1>2. \A e \in Entries : ent[e] \in EntryType
  BY DEF CalloutInv, CalloutType
<1>3. ASSUME NEW e \in Entries
      PROVE  /\ ent'[e] \in EntryType /\ ent'[e].st = ent[e].st /\ ent'[e].user = ent[e].user
             /\ IsQueued(e) => /\ carry => ent'[e].sec = ent[e].sec - 1
                               /\ ~ carry => ent'[e].sec = ent[e].sec
                               /\ ent'[e].nsec = ent[e].nsec
                               /\ ent'[e].left = ent[e].left - 1
  <2>1. CASE ~ IsQueued(e)
    <3>1. ent'[e] = ent[e]
      BY <2>1 DEF tim_update_walltime, IsQueued
    <3> QED
      BY <1>2, <2>1, <3>1
  <2>2. CASE IsQueued(e) /\ carry
    <3>1. MovedTo(ent[e], ent'[e], ent[e].sec - 1, ent[e].left - 1)
      BY <2>2 DEF tim_update_walltime, IsQueued, MovedTo
    <3>2. ent[e].sec - 1 \in Int /\ ent[e].left - 1 \in Int
      BY <1>2 DEF EntryType
    <3>3. /\ ent'[e] \in EntryType /\ ent'[e].st = ent[e].st /\ ent'[e].user = ent[e].user
          /\ ent'[e].sec = ent[e].sec - 1 /\ ent'[e].nsec = ent[e].nsec /\ ent'[e].left = ent[e].left - 1
      BY <1>2, <3>1, <3>2, Moved
    <3> QED
      BY <2>2, <3>3
  <2>3. CASE IsQueued(e) /\ ~ carry
    <3>1. MovedTo(ent[e], ent'[e], ent[e].sec, ent[e].left - 1)
      BY <2>3 DEF tim_update_walltime, IsQueued, MovedTo
    <3>2. ent[e].sec \in Int /\ ent[e].left - 1 \in Int
      BY <1>2 DEF EntryType
    <3>3. /\ ent'[e] \in EntryType /\ ent'[e].st = ent[e].st /\ ent'[e].user = ent[e].user
          /\ ent'[e].sec = ent[e].sec /\ ent'[e].nsec = ent[e].nsec /\ ent'[e].left = ent[e].left - 1
      BY <1>2, <3>1, <3>2, Moved
    <3> QED
      BY <2>3, <3>3
  <2> QED
    BY <2>1, <2>2, <2>3
<1>4. \A e \in Entries : IsQueued(e)' <=> IsQueued(e)
  BY <1>3 DEF IsQueued
<1>5. CalloutType'
  <2>1. DOMAIN ent' = Entries /\ ent' = [e \in Entries |-> ent'[e]]
    BY DEF tim_update_walltime
  <2>2. ent' \in [Entries -> EntryType]
    BY <1>3, <2>1
  <2> QED
    BY <1>0, <1>1, <2>2 DEF CalloutInv, CalloutType
<1>6. QueueOK' /\ OwnerOK' /\ HandleOK'
  <2>1. QueueOK'
    BY <1>0, <1>4 DEF CalloutInv, QueueOK
  <2>2. OwnerOK'
    BY <1>0, <1>3, <1>4 DEF CalloutInv, OwnerOK
  <2>3. HandleOK'
    <3>1. \A u \in Users : handle[u] # NoEnt => handle[u] \in Entries
      BY DEF CalloutInv, CalloutType
    <3> QED
      BY <1>0, <1>3, <1>4, <3>1 DEF CalloutInv, HandleOK
  <2> QED
    BY <2>1, <2>2, <2>3
<1>7. TimeOK'
  <2> SUFFICES ASSUME NEW e \in Entries, IsQueued(e) PROVE \E d \in {0, SecLen} : Late(ent[e], d)'
    BY <1>4 DEF TimeOK
  <2>1. PICK d \in {0, SecLen} : Late(ent[e], d)
    BY DEF CalloutInv, TimeOK
  <2> DEFINE x == ent[e]
             y == ent'[e]
  <2>2. /\ x.sec \in Int /\ x.nsec \in Nat /\ x.left \in Int
        /\ carry => y.sec = x.sec - 1
        /\ ~ carry => y.sec = x.sec
        /\ y.nsec = x.nsec /\ y.left = x.left - 1
    BY <1>2, <1>3 DEF EntryType
  <2>3. SecLen * (x.sec - 1) = SecLen * x.sec - SecLen /\ SecLen * x.sec \in Int
    BY <1>1, <2>2
  <2>4. SecLen * x.sec + x.nsec = wall + x.left + d /\ x.nsec < SecLen + d
    BY <2>1 DEF Late
  <2> HIDE DEF x, y
  <2>5. SecLen * y.sec + y.nsec = wall' + y.left + d
    <3>1. CASE carry
      <4>1. SecLen * y.sec = SecLen * x.sec - SecLen
        BY <2>2, <2>3, <3>1
      <4>2. wall' = 0 /\ wall = SecLen - 1
        BY <1>1, <3>1
      <4> QED
        BY <1>1, <2>2, <2>3, <2>4, <4>1, <4>2
    <3>2. CASE ~ carry
      <4>1. SecLen * y.sec = SecLen * x.sec
        BY <2>2, <3>2
      <4>2. wall' = wall + 1
        BY <1>1, <3>2
      <4> QED
        BY <1>1, <2>2, <2>3, <2>4, <4>1, <4>2
    <3> QED
      BY <3>1, <3>2
  <2>6. y.nsec < SecLen + d
    BY <2>2, <2>4
  <2> QED
    BY <2>5, <2>6 DEF y, Late
<1>8. CalloutInv'
  BY <1>5, <1>6, <1>7 DEF CalloutInv
<1>9. LeftFacts /\ LeftFacts'
  BY <1>8, LeftFactsHold, LeftFactsNext
<1>10. ASSUME NEW u \in Users
       PROVE  leftOf'[u] = IF leftOf[u] = NoEnt THEN NoEnt ELSE leftOf[u] - 1
  <2>1. Armed(u)' <=> Armed(u)
    BY <1>0 DEF Armed
  <2>2. CASE ~ Armed(u)
    BY <1>9, <2>1, <2>2 DEF LeftFacts
  <2>3. CASE Armed(u)
    <3>1. /\ leftOf'[u] = ent'[handle'[u]].left /\ handle' = handle
          /\ leftOf[u] = ent[handle[u]].left /\ leftOf[u] # NoEnt
          /\ handle[u] \in Entries /\ IsQueued(handle[u])
      BY <1>0, <1>9, <2>1, <2>3 DEF LeftFacts
    <3> QED
      BY <1>3, <3>1
  <2> QED
    BY <2>2, <2>3
<1>11. leftOf' = [u \in Users |-> IF leftOf[u] = NoEnt THEN NoEnt ELSE leftOf[u] - 1]
  BY <1>10 DEF leftOf
<1> QED
  BY <1>0, <1>8, <1>11 DEF Service!Tick, Service!Idle

\* An entry leaves the queue: this ends the callout of its user and no other.
Leaves(e, x, u) ==
    /\ wall' = wall /\ ent' = [ent EXCEPT ![e] = x]
    /\ cq' \in Seq(Entries) /\ IsInjective(cq') /\ Range(cq') = Range(cq) \ {e}
    /\ u = ent[e].user
    /\ \/ x.st = "taken" /\ handle' = handle /\ ran' = [ran EXCEPT ![u] = TRUE]
       \/ handle' = [handle EXCEPT ![u] = NoEnt] /\ ran' = ran
LEMMA Ended ==
    ASSUME CalloutInv, NEW e \in Entries, IsQueued(e), NEW x \in EntryType, x.st # "queued",
           NEW u, Leaves(e, x, u)
    PROVE  /\ CalloutInv'
           /\ u \in Users /\ handle[u] = e /\ Armed(u)
           /\ leftOf' = [leftOf EXCEPT ![u] = NoEnt]
<1>0. /\ wall' = wall /\ ent' = [ent EXCEPT ![e] = x]
      /\ cq' \in Seq(Entries) /\ IsInjective(cq') /\ Range(cq') = Range(cq) \ {e}
      /\ u = ent[e].user
      /\ \/ x.st = "taken" /\ handle' = handle /\ ran' = [ran EXCEPT ![u] = TRUE]
         \/ handle' = [handle EXCEPT ![u] = NoEnt] /\ ran' = ran
  BY DEF Leaves
<1>1. u \in Users /\ handle[u] = e /\ ~ ran[u]
  BY <1>0 DEF CalloutInv, OwnerOK
<1>2. e # NoEnt /\ e \in Range(cq)
  BY CalloutAssumption DEF CalloutInv, QueueOK
<1>3. Armed(u)
  BY <1>1, <1>2 DEF Armed
<1>4. ent'[e] = x /\ \A f \in Entries \ {e} : ent'[f] = ent[f]
  BY <1>0 DEF CalloutInv, CalloutType
<1>5. /\ \A v \in Users \ {u} : handle'[v] = handle[v] /\ (ran'[v] <=> ran[v])
      /\ \/ x.st = "taken" /\ handle'[u] = e /\ ran'[u]
         \/ handle'[u] = NoEnt
  <2>1. handle \in [Users -> Entries \cup {NoEnt}] /\ ran \in [Users -> BOOLEAN]
    BY DEF CalloutInv, CalloutType
  <2>2. CASE x.st = "taken" /\ handle' = handle /\ ran' = [ran EXCEPT ![u] = TRUE]
    <3>1. \A v \in Users \ {u} : ran'[v] = ran[v]
      BY <1>1, <2>1, <2>2
    <3>2. ran'[u]
      BY <1>1, <2>1, <2>2
    <3> QED
      BY <1>1, <2>2, <3>1, <3>2
  <2>3. CASE handle' = [handle EXCEPT ![u] = NoEnt] /\ ran' = ran
    BY <1>1, <2>1, <2>3
  <2> QED
    BY <1>0, <2>2, <2>3
<1>6. CalloutType'
  <2>1. ent' \in [Entries -> EntryType]
    BY <1>0 DEF CalloutInv, CalloutType
  <2>2. handle' \in [Users -> Entries \cup {NoEnt}]
    BY <1>0 DEF CalloutInv, CalloutType
  <2>3. ran' \in [Users -> BOOLEAN]
    <3>1. ran \in [Users -> BOOLEAN]
      BY DEF CalloutInv, CalloutType
    <3>2. [ran EXCEPT ![u] = TRUE] \in [Users -> BOOLEAN]
      BY <3>1, Zenon
    <3> QED
      BY <1>0, <3>1, <3>2
  <2> QED
    BY <1>0, <2>1, <2>2, <2>3 DEF CalloutInv, CalloutType
<1>7. QueueOK'
  BY <1>0, <1>2, <1>4 DEF CalloutInv, QueueOK, IsQueued
<1>8. OwnerOK'
  <2> SUFFICES ASSUME NEW f \in Entries, IsQueued(f)'
               PROVE  ent'[f].user \in Users /\ handle'[ent'[f].user] = f /\ ~ ran'[ent'[f].user]
    BY DEF OwnerOK
  <2>1. f # e /\ ent'[f] = ent[f] /\ IsQueued(f)
    BY <1>4 DEF IsQueued
  <2>2. ent[f].user \in Users /\ handle[ent[f].user] = f /\ ~ ran[ent[f].user]
    BY <2>1 DEF CalloutInv, OwnerOK
  <2>3. ent[f].user # u
    BY <1>1, <2>1, <2>2
  <2> QED
    BY <1>5, <2>1, <2>2, <2>3
<1>9. \A v \in Users \ {u} : handle[v] # e
  <2> SUFFICES ASSUME NEW v \in Users \ {u}, handle[v] = e PROVE FALSE
    OBVIOUS
  <2>1. handle[v] # NoEnt /\ v \in Users
    BY <1>2
  <2> QED
    BY <1>0, <2>1, HandleIs
<1>10. HandleOK'
  <2>1. ASSUME NEW v \in Users, handle'[v] # NoEnt
        PROVE  \/ ran'[v] /\ ent'[handle'[v]].st = "taken"
               \/ ~ ran'[v] /\ ent'[handle'[v]].st = "queued" /\ ent'[handle'[v]].user = v
    <3>1. CASE v = u
      BY <1>4, <1>5, <2>1, <3>1
    <3>2. CASE v # u
      <4>1. handle'[v] = handle[v] /\ (ran'[v] <=> ran[v])
        BY <1>5, <3>2
      <4>2. handle[v] # NoEnt /\ handle[v] # e
        BY <1>9, <2>1, <3>2, <4>1
      <4>3. /\ handle[v] \in Entries
            /\ \/ ran[v] /\ ent[handle[v]].st = "taken" /\ ~ IsQueued(handle[v])
               \/ ~ ran[v] /\ IsQueued(handle[v]) /\ ent[handle[v]].user = v
        BY <4>2, HandleIs
      <4>4. ent'[handle[v]] = ent[handle[v]]
        BY <1>4, <4>2, <4>3
      <4>5. ent'[handle'[v]] = ent[handle[v]]
        BY <4>1, <4>4
      <4>6. CASE ran[v]
        BY <4>1, <4>3, <4>5, <4>6, Zenon
      <4>7. CASE ~ ran[v]
        BY <4>1, <4>3, <4>5, <4>7, Zenon DEF IsQueued
      <4> QED
        BY <4>6, <4>7
    <3> QED
      BY <3>1, <3>2
  <2>2. ASSUME NEW v \in Users, handle'[v] # NoEnt
        PROVE  /\ ran'[v] => ent'[handle'[v]].st = "taken"
               /\ ~ ran'[v] => (ent'[handle'[v]].st = "queued" /\ ent'[handle'[v]].user = v)
    <3>1. CASE ran'[v]
      BY <2>1, <2>2, <3>1, Zenon
    <3>2. CASE ~ ran'[v]
      BY <2>1, <2>2, <3>2, Zenon
    <3> QED
      BY <3>1, <3>2, Zenon
  <2> QED
    BY <2>2, Zenon DEF HandleOK, IsQueued
<1>11. TimeOK'
  <2> SUFFICES ASSUME NEW f \in Entries, IsQueued(f)'
               PROVE  \E d \in {0, SecLen} : Late(ent[f], d)'
    BY DEF TimeOK
  <2>1. ent'[f] = ent[f] /\ IsQueued(f)
    BY <1>4 DEF IsQueued
  <2>2. PICK d \in {0, SecLen} : Late(ent[f], d)
    BY <2>1 DEF CalloutInv, TimeOK
  <2> QED
    BY <1>0, <2>1, <2>2 DEF Late
<1>12. CalloutInv'
  BY <1>6, <1>7, <1>8, <1>10, <1>11 DEF CalloutInv
<1>13. LeftFacts /\ LeftFacts'
  BY <1>12, LeftFactsHold, LeftFactsNext
<1>14. ASSUME NEW v \in Users PROVE leftOf'[v] = IF v = u THEN NoEnt ELSE leftOf[v]
  <2>1. CASE v = u
    <3>1. ~ Armed(v)'
      BY <1>5, <2>1 DEF Armed
    <3> QED
      BY <1>13, <2>1, <3>1 DEF LeftFacts
  <2>2. CASE v # u
    <3>1. handle'[v] = handle[v] /\ (Armed(v)' <=> Armed(v))
      BY <1>5, <2>2 DEF Armed
    <3>2. CASE ~ Armed(v)
      BY <1>13, <2>2, <3>1, <3>2 DEF LeftFacts
    <3>3. CASE Armed(v)
      <4>1. /\ leftOf'[v] = ent'[handle'[v]].left /\ leftOf[v] = ent[handle[v]].left
            /\ handle[v] \in Entries
        BY <1>13, <3>1, <3>3 DEF LeftFacts
      <4>2. ent'[handle[v]] = ent[handle[v]]
        BY <1>4, <1>9, <2>2, <4>1
      <4> QED
        BY <2>2, <3>1, <4>1, <4>2
    <3> QED
      BY <3>2, <3>3
  <2> QED
    BY <2>1, <2>2
<1>15. leftOf' = [leftOf EXCEPT ![u] = NoEnt]
  <2>1. DOMAIN leftOf = Users /\ leftOf' = [v \in Users |-> leftOf'[v]]
    BY DEF leftOf
  <2>2. leftOf' = [v \in Users |-> IF v = u THEN NoEnt ELSE leftOf[v]]
    BY <1>14, <2>1
  <2> QED
    BY <2>1, <2>2
<1> QED
  BY <1>1, <1>3, <1>12, <1>15

LEMMA InvokeStep ==
    ASSUME CalloutInv, invoke_callout
    PROVE  CalloutInv' /\ [Service!Next]_<<leftOf, ran>>
<1>1. CASE cq # <<>> /\ Due(Head(cq))
  <2> DEFINE e == Head(cq)
             u == ent[e].user
  <2>1. cq \in Seq(Entries) /\ IsInjective(cq)
    BY DEF CalloutInv, CalloutType, QueueOK
  <2>2. /\ Tail(cq) \in Seq(Entries) /\ IsInjective(Tail(cq))
        /\ e \in Range(cq) /\ Range(Tail(cq)) = Range(cq) \ {e}
    BY <1>1, <2>1, TailFacts
  <2>3. e \in Entries /\ IsQueued(e)
    BY <1>1, <2>1, <2>2, HeadTailProperties DEF CalloutInv, QueueOK
  <2>4. /\ wall' = wall /\ handle' = handle /\ cq' = Tail(cq)
        /\ ent' = [ent EXCEPT ![e] = taken(e)]
        /\ ran' = [ran EXCEPT ![u] = TRUE]
    BY <1>1 DEF invoke_callout
  <2>5. taken(e) \in EntryType /\ taken(e).st = "taken"
    <3>1. u \in Users
      BY <2>3 DEF CalloutInv, OwnerOK
    <3>2. taken(e) = [st |-> "taken", user |-> u, sec |-> 0, nsec |-> 0, left |-> 0]
      <4>1. taken(e) = [[st |-> "free", user |-> NoEnt, sec |-> 0, nsec |-> 0, left |-> 0]
                        EXCEPT !.st = "taken", !.user = u]
        BY DEF taken, FreeEnt
      <4> HIDE DEF u
      <4> QED
        BY <4>1
    <3> QED
      BY <3>1, <3>2 DEF EntryType
  <2>6. ent[e].left <= 0
    BY <1>1, <2>3, DueIsDue
  <2> DEFINE x == taken(e)
  <2> HIDE DEF e, u, x
  <2>7. /\ CalloutInv'
        /\ u \in Users /\ handle[u] = e /\ Armed(u)
        /\ leftOf' = [leftOf EXCEPT ![u] = NoEnt]
    <3>1. x \in EntryType /\ x.st = "taken" /\ x.st # "queued" /\ ent' = [ent EXCEPT ![e] = x] /\ u = ent[e].user
      BY <2>4, <2>5 DEF x, u
    <3>2. cq' \in Seq(Entries) /\ IsInjective(cq') /\ Range(cq') = Range(cq) \ {e}
      BY <2>2, <2>4
    <3>3. wall' = wall /\ handle' = handle /\ ran' = [ran EXCEPT ![u] = TRUE]
      BY <2>4
    <3>4. Leaves(e, x, u)
      BY <3>1, <3>2, <3>3 DEF Leaves
    <3> QED
      BY <2>3, <3>1, <3>4, Ended
  <2>8. leftOf[u] = ent[e].left /\ leftOf[u] # NoEnt
    BY <2>7, LeftFactsHold DEF LeftFacts
  <2>9. Service!Run(u)
    BY <2>4, <2>6, <2>7, <2>8 DEF Service!Run, Service!Idle
  <2> QED
    BY <2>7, <2>9 DEF Service!Next
<1>2. CASE ~ (cq # <<>> /\ Due(Head(cq)))
  <2>1. UNCHANGED coState
    BY <1>2 DEF invoke_callout, coState
  <2> QED
    BY <2>1, StutterKeeps
<1> QED
  BY <1>1, <1>2

LEMMA CancelStep ==
    ASSUME CalloutInv, NEW u \in Users, tim_callout_cancel(u)
    PROVE  CalloutInv' /\ [Service!Next]_<<leftOf, ran>>
<1> DEFINE e == handle[u]
<1>1. handle[u] # NoEnt /\ wall' = wall /\ ran' = ran /\ handle' = [handle EXCEPT ![u] = NoEnt]
  BY DEF tim_callout_cancel
<1>2. /\ e \in Entries
      /\ \/ ran[u] /\ ent[e].st = "taken" /\ ~ IsQueued(e)
         \/ ~ ran[u] /\ IsQueued(e) /\ ent[e].user = u
  BY <1>1, HandleIs
<1>3. cq \in Seq(Entries) /\ IsInjective(cq) /\ (e \in Range(cq) <=> IsQueued(e))
  BY <1>2 DEF CalloutInv, CalloutType, QueueOK
<1>4. CASE IsQueued(e)
  <2> DEFINE i == CHOOSE j \in DOMAIN cq : cq[j] = e
  <2>1. cq' = RemoveAt(cq, i) /\ ent' = [ent EXCEPT ![e] = FreeEnt]
    BY <1>3, <1>4 DEF tim_callout_cancel
  <2>2. \E j \in DOMAIN cq : cq[j] = e
    BY <1>3, <1>4 DEF Range
  <2>3. i \in DOMAIN cq /\ cq[i] = e
    BY <2>2
  <2> HIDE DEF e, i
  <2>4. i \in 1..Len(cq)
    BY <1>3, <2>3, LenProperties
  <2>5. cq' \in Seq(Entries) /\ IsInjective(cq') /\ Range(cq') = Range(cq) \ {e}
    BY <1>3, <2>1, <2>3, <2>4, RemoveAtFacts
  <2> DEFINE x == FreeEnt
  <2>6. x \in EntryType /\ x.st # "queued"
    BY DEF FreeEnt, EntryType
  <2> HIDE DEF x
  <2>7. Leaves(e, x, u)
    BY <1>1, <1>2, <1>4, <2>1, <2>5 DEF Leaves, x
  <2>8. CalloutInv' /\ Armed(u) /\ leftOf' = [leftOf EXCEPT ![u] = NoEnt]
    BY <1>2, <1>4, <2>6, <2>7, Ended
  <2>9. leftOf[u] # NoEnt
    BY <2>8, LeftFactsHold DEF LeftFacts
  <2>10. Service!Cancel(u)
    BY <1>1, <2>8, <2>9 DEF Service!Cancel, Service!Idle
  <2> QED
    BY <2>8, <2>10 DEF Service!Next
<1>5. CASE ~ IsQueued(e)
  <2>1. cq' = cq /\ ent' = ent
    BY <1>3, <1>5 DEF tim_callout_cancel
  <2>2. handle \in [Users -> Entries \cup {NoEnt}]
    BY DEF CalloutInv, CalloutType
  <2>3. handle'[u] = NoEnt /\ \A v \in Users \ {u} : handle'[v] = handle[v]
    BY <1>1, <2>2
  <2>4. \A f \in Entries : IsQueued(f)' <=> IsQueued(f)
    BY <2>1 DEF IsQueued
  <2>5. CalloutType' /\ QueueOK' /\ TimeOK'
    <3>1. CalloutType'
      BY <1>1, <2>1, <2>2 DEF CalloutInv, CalloutType
    <3>2. QueueOK' /\ TimeOK'
      BY <1>1, <2>1, <2>4 DEF CalloutInv, QueueOK, TimeOK, Late
    <3> QED
      BY <3>1, <3>2
  <2>6. OwnerOK'
    <3>1. ASSUME NEW f \in Entries, IsQueued(f)
          PROVE  ent[f].user \in Users /\ handle'[ent[f].user] = f /\ ~ ran[ent[f].user]
      <4>1. ent[f].user \in Users /\ handle[ent[f].user] = f /\ ~ ran[ent[f].user]
        BY <3>1 DEF CalloutInv, OwnerOK
      <4>2. ent[f].user # u
        BY <1>5, <3>1, <4>1
      <4> QED
        BY <2>3, <4>1, <4>2
    <3> QED
      BY <1>1, <2>1, <2>4, <3>1 DEF OwnerOK
  <2>7. HandleOK'
    <3>1. ASSUME NEW v \in Users, handle'[v] # NoEnt
          PROVE  /\ ran[v] => ent[handle'[v]].st = "taken"
                 /\ ~ ran[v] => (ent[handle'[v]].st = "queued" /\ ent[handle'[v]].user = v)
      <4>1. v # u /\ handle'[v] = handle[v] /\ handle[v] # NoEnt
        BY <2>3, <3>1
      <4>2. /\ ran[v] => ent[handle[v]].st = "taken"
            /\ ~ ran[v] => (ent[handle[v]].st = "queued" /\ ent[handle[v]].user = v)
        BY <4>1, Zenon DEF CalloutInv, HandleOK, IsQueued
      <4> QED
        BY <4>1, <4>2, Zenon
    <3> QED
      BY <1>1, <2>1, <3>1, Zenon DEF HandleOK, IsQueued
  <2>8. CalloutInv'
    BY <2>5, <2>6, <2>7 DEF CalloutInv
  <2>9. LeftFacts /\ LeftFacts'
    BY <2>8, LeftFactsHold, LeftFactsNext
  <2>10. ~ Armed(u) /\ ~ Armed(u)'
    BY <1>2, <1>5, <2>3 DEF Armed
  <2>11. ASSUME NEW v \in Users PROVE leftOf'[v] = leftOf[v]
    <3>1. CASE v = u
      BY <2>9, <2>10, <3>1 DEF LeftFacts
    <3>2. CASE v # u
      BY <1>1, <2>1, <2>3, <3>2 DEF leftOf, Armed
    <3> QED
      BY <3>1, <3>2
  <2>12. leftOf' = leftOf
    BY <2>11 DEF leftOf
  <2> QED
    BY <1>1, <2>8, <2>12
<1> QED
  BY <1>4, <1>5

\* The sorted insertion puts the entry into the queue, wherever that is.
LEMMA SortedInsertion ==
    ASSUME NEW S, NEW que \in Seq(S), IsInjective(que), NEW n \in S \ Range(que), NEW later
    PROVE  LET new == queue_add_sort(que, n, later)
           IN  new \in Seq(S) /\ IsInjective(new) /\ Range(new) = Range(que) \cup {n}
<1>1. CASE que = <<>>
  <2>1. queue_add_sort(que, n, later) = <<n>>
    BY <1>1 DEF queue_add_sort
  <2>2. <<n>> \in Seq(S) /\ IsInjective(<<n>>) /\ Range(<<n>>) = {n}
    BY DEF IsInjective, Range
  <2>3. Range(que) = {}
    BY <1>1 DEF Range
  <2> QED
    BY <2>1, <2>2, <2>3
<1>2. CASE que # <<>>
  <2> DEFINE stops == Stops(que, later)
             i == CHOOSE j \in stops : \A k \in stops : j <= k
  <2>1. Len(que) \in 1..Len(que) /\ DOMAIN que = 1..Len(que) /\ 1..Len(que) \subseteq Nat
    BY <1>2, LenProperties, EmptySeq
  <2>2. stops \in SUBSET Nat /\ stops # {} /\ stops \subseteq 1..Len(que)
    BY <2>1 DEF Stops
  <2> HIDE DEF stops
  <2>3. \E j \in stops : \A k \in stops : j <= k
    BY <2>2, LeastNatural
  <2>4. i \in 1..Len(que)
    BY <2>2, <2>3
  <2>5. queue_add_sort(que, n, later) = InsertAt(que, i, n)
    BY <1>2 DEF queue_add_sort, stops
  <2> HIDE DEF i
  <2> QED
    BY <2>4, <2>5, InsertAtFacts
<1> QED
  BY <1>1, <1>2

\* The time of a new entry is the one asked for, or a second more.
LEMMA ExpireFacts ==
    ASSUME NEW rel \in Nat, wall \in 0 .. (SecLen - 1)
    PROVE  LET x == expire(rel)
           IN  /\ x.sec \in Int /\ x.nsec \in Nat
               /\ \E d \in {0, SecLen} :
                     SecLen * x.sec + x.nsec = wall + rel + d /\ x.nsec < SecLen + d
<1> DEFINE n == rel % SecLen
           k == rel \div SecLen
           c == IF wall + n >= SecLen THEN 1 ELSE 0
           x == expire(rel)
<1>1. SecLen \in Nat \ {0}
  BY CalloutAssumption
<1>2. n \in 0 .. (SecLen - 1) /\ k \in Int /\ rel = SecLen * k + n
  BY <1>1
<1>3. x.sec = k + c /\ x.nsec = wall + n
  BY DEF expire
<1> HIDE DEF n, k, x
<1>4. CASE wall + n >= SecLen
  <2>1. c = 1
    BY <1>4
  <2>2. SecLen * (k + 1) = SecLen * k + SecLen /\ SecLen * k \in Int
    BY <1>1, <1>2
  <2>3. SecLen * x.sec + x.nsec = wall + rel + SecLen /\ x.nsec < SecLen + SecLen
    BY <1>1, <1>2, <1>3, <2>1, <2>2
  <2> QED
    BY <1>1, <1>2, <1>3, <2>1, <2>3 DEF x
<1>5. CASE ~ (wall + n >= SecLen)
  <2>1. c = 0
    BY <1>5
  <2>2. SecLen * x.sec + x.nsec = wall + rel + 0 /\ x.nsec < SecLen + 0
    BY <1>1, <1>2, <1>3, <1>5, <2>1
  <2> QED
    BY <1>1, <1>2, <1>3, <2>1, <2>2 DEF x
<1> QED
  BY <1>4, <1>5

LEMMA AddStep ==
    ASSUME CalloutInv, NEW u \in Users, NEW rel \in 0 .. MaxRel, tim_callout_add(u, rel)
    PROVE  CalloutInv' /\ Service!Arm(u, rel)
<1> DEFINE e == CHOOSE f \in FreeEntries : \A g \in FreeEntries : f <= g
           t == expire(rel)
           x == [st |-> "queued", user |-> u, sec |-> t.sec, nsec |-> t.nsec, left |-> rel]
           later == {f \in Range(cq) : calloutent_less(x, ent[f])}
<1>1. /\ handle[u] = NoEnt \/ ran[u]
      /\ FreeEntries # {}
      /\ wall' = wall
      /\ ent' = [ent EXCEPT ![e] = x]
      /\ cq' = queue_add_sort(cq, e, later)
      /\ handle' = [handle EXCEPT ![u] = e]
      /\ ran' = [ran EXCEPT ![u] = FALSE]
  BY DEF tim_callout_add
<1>2. e \in Entries /\ ent[e].st = "free" /\ ~ IsQueued(e)
  <2>1. FreeEntries \in SUBSET Nat
    BY CalloutAssumption DEF FreeEntries
  <2>2. \E f \in FreeEntries : \A g \in FreeEntries : f <= g
    BY <1>1, <2>1, LeastNatural
  <2>3. e \in FreeEntries
    BY <2>2
  <2> HIDE DEF e
  <2> QED
    BY <2>3 DEF FreeEntries, IsQueued
<1>3. rel \in Nat /\ rel \in Int
  BY CalloutAssumption
<1>4. /\ t.sec \in Int /\ t.nsec \in Nat
      /\ \E d \in {0, SecLen} : SecLen * t.sec + t.nsec = wall + rel + d /\ t.nsec < SecLen + d
  <2>1. wall \in 0 .. (SecLen - 1)
    BY DEF CalloutInv, CalloutType
  <2> QED
    BY <1>3, <2>1, ExpireFacts
<1> HIDE DEF e, t, later
<1>5. /\ x \in EntryType /\ x.st = "queued" /\ x.user = u /\ x.left = rel
      /\ \E d \in {0, SecLen} : SecLen * x.sec + x.nsec = wall + x.left + d /\ x.nsec < SecLen + d
  <2>1. x \in EntryType
    BY <1>3, <1>4 DEF EntryType
  <2> QED
    BY <1>4, <2>1
<1> HIDE DEF x
<1>6. cq \in Seq(Entries) /\ IsInjective(cq) /\ e \in Entries \ Range(cq)
  BY <1>2 DEF CalloutInv, CalloutType, QueueOK
<1>7. cq' \in Seq(Entries) /\ IsInjective(cq') /\ Range(cq') = Range(cq) \cup {e}
  BY <1>1, <1>6, SortedInsertion
<1>8. ent'[e] = x /\ \A f \in Entries \ {e} : ent'[f] = ent[f]
  BY <1>1, <1>2 DEF CalloutInv, CalloutType
<1>9. e # NoEnt
  BY <1>2, CalloutAssumption
<1>10. /\ handle'[u] = e /\ ~ ran'[u]
       /\ \A v \in Users \ {u} : handle'[v] = handle[v] /\ (ran'[v] <=> ran[v])
  <2>1. handle \in [Users -> Entries \cup {NoEnt}] /\ ran \in [Users -> BOOLEAN]
    BY DEF CalloutInv, CalloutType
  <2>2. handle'[u] = e /\ \A v \in Users \ {u} : handle'[v] = handle[v]
    BY <1>1, <2>1
  <2>3. ran'[u] = FALSE /\ \A v \in Users \ {u} : ran'[v] = ran[v]
    BY <1>1, <2>1
  <2> QED
    BY <2>2, <2>3
<1>11. ~ Armed(u) /\ Armed(u)'
  BY <1>1, <1>9, <1>10 DEF Armed
<1>12. CalloutType'
  <2>1. ent' \in [Entries -> EntryType]
    BY <1>1, <1>5 DEF CalloutInv, CalloutType
  <2>2. handle' \in [Users -> Entries \cup {NoEnt}]
    BY <1>1, <1>2 DEF CalloutInv, CalloutType
  <2>3. ran' \in [Users -> BOOLEAN]
    <3>1. ran \in [Users -> BOOLEAN]
      BY DEF CalloutInv, CalloutType
    <3>2. [ran EXCEPT ![u] = FALSE] \in [Users -> BOOLEAN]
      BY <3>1, Zenon
    <3> QED
      BY <1>1, <3>2
  <2>4. wall' \in 0 .. (SecLen - 1)
    BY <1>1 DEF CalloutInv, CalloutType
  <2> QED
    BY <1>7, <2>1, <2>2, <2>3, <2>4 DEF CalloutType
<1>13. \A f \in Entries : IsQueued(f)' <=> IsQueued(f) \/ f = e
  BY <1>5, <1>8 DEF IsQueued
<1>14. QueueOK'
  BY <1>7, <1>13 DEF CalloutInv, QueueOK
<1>15. OwnerOK'
  <2> SUFFICES ASSUME NEW f \in Entries, IsQueued(f)'
               PROVE  ent'[f].user \in Users /\ handle'[ent'[f].user] = f /\ ~ ran'[ent'[f].user]
    BY DEF OwnerOK
  <2>1. CASE f = e
    BY <1>5, <1>8, <1>10, <2>1
  <2>2. CASE f # e
    <3>1. ent'[f] = ent[f] /\ IsQueued(f)
      BY <1>8, <1>13, <2>2
    <3>2. ent[f].user \in Users /\ handle[ent[f].user] = f /\ ~ ran[ent[f].user]
      BY <3>1 DEF CalloutInv, OwnerOK
    <3>3. f # NoEnt
      BY CalloutAssumption
    <3>4. ent[f].user # u
      BY <1>1, <3>2, <3>3
    <3> QED
      BY <1>10, <3>1, <3>2, <3>4
  <2> QED
    BY <2>1, <2>2
<1>16. \A v \in Users : handle[v] # e
  <2> SUFFICES ASSUME NEW v \in Users, handle[v] = e PROVE FALSE
    OBVIOUS
  <2>1. handle[v] # NoEnt
    BY <1>9
  <2>2. ent[e].st = "taken" \/ IsQueued(e)
    BY <2>1, HandleIs
  <2> QED
    BY <1>2, <2>2
<1>17. HandleOK'
  <2>1. ASSUME NEW v \in Users, handle'[v] # NoEnt
        PROVE  /\ ran'[v] => ent'[handle'[v]].st = "taken"
               /\ ~ ran'[v] => (ent'[handle'[v]].st = "queued" /\ ent'[handle'[v]].user = v)
    <3>1. CASE v = u
      BY <1>5, <1>8, <1>10, <3>1
    <3>2. CASE v # u
      <4>1. handle'[v] = handle[v] /\ (ran'[v] <=> ran[v]) /\ handle[v] # NoEnt
        BY <1>10, <2>1, <3>2
      <4>2. handle[v] \in Entries \ {e}
        BY <1>16, <4>1, HandleIs
      <4>3. ent'[handle'[v]] = ent[handle[v]]
        BY <1>8, <4>1, <4>2
      <4>4. /\ ran[v] => ent[handle[v]].st = "taken"
            /\ ~ ran[v] => (ent[handle[v]].st = "queued" /\ ent[handle[v]].user = v)
        BY <4>1, Zenon DEF CalloutInv, HandleOK, IsQueued
      <4> QED
        BY <4>1, <4>3, <4>4, Zenon
    <3> QED
      BY <3>1, <3>2
  <2> QED
    BY <2>1, Zenon DEF HandleOK, IsQueued
<1>18. TimeOK'
  <2> SUFFICES ASSUME NEW f \in Entries, IsQueued(f)'
               PROVE  \E d \in {0, SecLen} : Late(ent[f], d)'
    BY DEF TimeOK
  <2>1. CASE f = e
    BY <1>1, <1>5, <1>8, <2>1 DEF Late
  <2>2. CASE f # e
    <3>1. ent'[f] = ent[f] /\ IsQueued(f)
      BY <1>8, <1>13, <2>2
    <3>2. PICK d \in {0, SecLen} : Late(ent[f], d)
      BY <3>1 DEF CalloutInv, TimeOK
    <3> QED
      BY <1>1, <3>1, <3>2 DEF Late
  <2> QED
    BY <2>1, <2>2
<1>19. CalloutInv'
  BY <1>12, <1>14, <1>15, <1>17, <1>18 DEF CalloutInv
<1>20. LeftFacts /\ LeftFacts'
  BY <1>19, LeftFactsHold, LeftFactsNext
<1>21. ASSUME NEW v \in Users PROVE leftOf'[v] = IF v = u THEN rel ELSE leftOf[v]
  <2>1. CASE v = u
    <3>1. leftOf'[u] = ent'[handle'[u]].left
      BY <1>11, <1>20 DEF LeftFacts
    <3> QED
      BY <1>5, <1>8, <1>10, <2>1, <3>1
  <2>2. CASE v # u
    <3>1. handle'[v] = handle[v] /\ (Armed(v)' <=> Armed(v))
      BY <1>10, <2>2 DEF Armed
    <3>2. CASE ~ Armed(v)
      BY <1>20, <2>2, <3>1, <3>2 DEF LeftFacts
    <3>3. CASE Armed(v)
      <4>1. /\ leftOf'[v] = ent'[handle'[v]].left /\ leftOf[v] = ent[handle[v]].left
            /\ handle[v] \in Entries
        BY <1>20, <3>1, <3>3 DEF LeftFacts
      <4>2. ent'[handle[v]] = ent[handle[v]]
        BY <1>8, <1>16, <4>1
      <4> QED
        BY <2>2, <3>1, <4>1, <4>2
    <3> QED
      BY <3>2, <3>3
  <2> QED
    BY <2>1, <2>2
<1>22. leftOf' = [leftOf EXCEPT ![u] = rel]
  <2>1. DOMAIN leftOf = Users /\ leftOf' = [v \in Users |-> leftOf'[v]]
    BY DEF leftOf
  <2>2. leftOf' = [v \in Users |-> IF v = u THEN rel ELSE leftOf[v]]
    BY <1>21, <2>1
  <2> QED
    BY <2>1, <2>2
<1>23. leftOf[u] = NoEnt
  BY <1>11, <1>20 DEF LeftFacts
<1> QED
  BY <1>1, <1>19, <1>22, <1>23 DEF Service!Arm, Service!Idle

LEMMA StepKeeps == CalloutInv /\ [Next]_vars => CalloutInv' /\ [Service!Next]_<<leftOf, ran>>
<1> SUFFICES ASSUME CalloutInv, [Next]_vars PROVE CalloutInv' /\ [Service!Next]_<<leftOf, ran>>
  OBVIOUS
<1>1. CASE tim_update_walltime
  BY <1>1, WallTimeStep DEF Service!Next
<1>2. CASE invoke_callout
  BY <1>2, InvokeStep
<1>3. ASSUME NEW u \in Users, tim_callout_cancel(u)
      PROVE  CalloutInv' /\ [Service!Next]_<<leftOf, ran>>
  BY <1>3, CancelStep
<1>4. ASSUME NEW u \in Users, NEW rel \in 0 .. MaxRel, tim_callout_add(u, rel)
      PROVE  CalloutInv' /\ [Service!Next]_<<leftOf, ran>>
  BY <1>4, AddStep DEF Service!Next
<1>5. CASE UNCHANGED coState
  BY <1>5, StutterKeeps
<1> QED
  BY <1>1, <1>2, <1>3, <1>4, <1>5, StepsAre DEF CalloutStep

(* The state of the callouts is consistent at all times: a queued entry is *)
(* queued once and belongs to the user that armed it, whatever interrupts  *)
(* come between tim_callout_add, tim_callout_cancel and invoke_callout.    *)
THEOREM CalloutInvariance == Spec => []CalloutInv
<1>1. Init => CalloutInv
  BY InitKeeps DEF Init
<1> QED
  BY <1>1, StepKeeps, PTL DEF Spec

(* The callouts of kern/timer.c implement the timer service: a callout     *)
(* runs at most once, not before its time and not after tim_callout_cancel *)
(* has removed it, and no call for another user ends it.                   *)
THEOREM CalloutsKeepPromise == Spec => CalloutPromise
<1>1. Init => Service!Init
  <2> SUFFICES ASSUME Init PROVE Service!Init
    OBVIOUS
  <2>1. handle = [u \in Users |-> NoEnt] /\ ran = [u \in Users |-> FALSE]
    BY DEF Init, tim_callout_init
  <2>2. leftOf = [u \in Users |-> NoEnt]
    BY <2>1 DEF leftOf, Armed
  <2> QED
    BY <2>1, <2>2 DEF Service!Init
<1>2. CalloutInv /\ [Next]_vars => [Service!Next]_<<leftOf, ran>>
  BY StepKeeps
<1> QED
  BY <1>1, <1>2, CalloutInvariance, PTL DEF Spec, CalloutPromise, Service!Spec, Service!vars

-----------------------------------------------------------------------------
(* The lines and the traps.                                                *)

IrqAttrs == {"EXCLUSIVE", "NESTABLE", "EDGE"}
LineType ==
    [refs : Nat, prio : Nat, attr : SUBSET IrqAttrs, handlers : Seq(Handlers),
     ctrlr : Ctrlrs \cup {NULL}]
FrameType ==
    [pc : {"scan", "handler"}, line : Lines \cup {NULL}, ent : Handlers \cup {NULL},
     prio : 0..PLIC_PRIO_MAX]
QType ==
    [line : [Lines -> LineType], prio_que : Seq(Lines), ctrlrs : Seq(Ctrlrs),
     frames : Seq(FrameType), panic : BOOLEAN, sie : BOOLEAN, stie : BOOLEAN,
     stip : BOOLEAN, ssip : BOOLEAN, pend : SUBSET PlicLines, claimed : SUBSET PlicLines,
     enabled : SUBSET PlicLines, thr : 0..PLIC_PRIO_MAX, lprio : [PlicLines -> 0..PLIC_PRIO_MAX]]

\* A line is what the last driver has made of it whose configuration its controller took.
CtrlrOf(l) == IF l \in PlicLines THEN "PLIC" ELSE "CLINT"
Accepted(h) == h = Timer \/ plic_config_irq_ok(AttrOf[h], PrioOf[h])
Configured(s, l) ==
    /\ s.line[l].ctrlr = CtrlrOf(l)
    /\ \E h \in Handlers : /\ Accepted(h) /\ LineOf[h] = l
                           /\ s.line[l].prio = PrioOf[h] /\ s.line[l].attr = AttrOf[h]

LineOK(s, l) ==
    /\ l \in Range(s.prio_que) <=> s.line[l].refs > 0
    /\ s.line[l].refs = 0 => l \notin s.enabled
    /\ IsInjective(s.line[l].handlers)
    /\ \A h \in Range(s.line[l].handlers) : LineOf[h] = l
    /\ s.line[l].prio = 0 \/ Configured(s, l)
    /\ s.line[l].refs > 0 => s.line[l].prio > 0
    /\ l \in PlicLines => s.lprio[l] \in {0, s.line[l].prio}

Base(s, l) == IF s.line[l].handlers = <<>> THEN 0 ELSE 1
Serves(s, i, l) == s.frames[i].pc = "handler" /\ s.frames[i].line = l
Served(s, l) == \E i \in DOMAIN s.frames : Serves(s, i, l)
RefsAre(s, l) == s.line[l].refs = Base(s, l) + IF Served(s, l) THEN 3 ELSE 0

LinesOK(s) ==
    /\ ~ s.panic
    /\ s.ctrlrs \in {<<"CLINT">>, <<"CLINT", "PLIC">>}
    /\ IsInjective(s.prio_que)
    /\ \A l \in Lines : LineOK(s, l) /\ RefsAre(s, l)

\* A trap that has been interrupted has called a nestable handler of its line.
Nests(s, i) == "NESTABLE" \in s.line[s.frames[i].line].attr
EntOK(s, i) == s.frames[i].ent \in Range(s.line[s.frames[i].line].handlers)
FramesOK(s) ==
    /\ \A i \in 1..Len(s.frames) : s.frames[i].pc = "handler" => s.frames[i].line \in Lines
    /\ \A i \in 1..(Len(s.frames) - 1) : s.frames[i].pc = "handler" /\ Nests(s, i) /\ EntOK(s, i)

\* The threshold masks what a trap that serves a line of the PLIC must not nest.
FPrio(s, i) == s.line[s.frames[i].line].prio
Masking(s, i) == s.frames[i].pc = "handler" /\ s.frames[i].line \in PlicLines
MasksOK(s) ==
    /\ \A i \in 1..Len(s.frames) : Masking(s, i) => FPrio(s, i) <= s.thr
    /\ \A i, j \in 1..Len(s.frames) :
          i < j /\ Masking(s, i) /\ s.frames[j].pc = "handler" =>
             FPrio(s, i) <= s.frames[j].prio /\ FPrio(s, i) < FPrio(s, j)

\* The trap that runs, with interrupts off unless its handler is nestable.
TopOK(s) ==
    s.frames # <<>> =>
      LET n == Len(s.frames) IN
      /\ s.frames[n].pc = "scan" => ~ s.sie /\ s.frames[n].line \in Range(s.prio_que) \cup {NULL}
      /\ s.frames[n].pc = "handler" => (s.sie <=> Nests(s, n)) /\ EntOK(s, n)

Sound(s) == s \in QType /\ LinesOK(s) /\ FramesOK(s) /\ MasksOK(s)
TrapsInv == Sound(q) /\ TopOK(q)

\* The wall time: a pending bit is a tick that has not been counted.
TimerRuns(s) == s.frames # <<>> /\ Top(s).pc = "handler" /\ Top(s).ent = Timer
AtLeast(n, b) == b => lag >= n
WallInv ==
    /\ lag \in Nat /\ inv = [pc |-> inv.pc, cur |-> inv.cur]
    /\ ~ TimerRuns(q) => inv.pc = "idle" /\ AtLeast(1, q.stip \/ q.ssip)
    /\ TimerRuns(q) => AtLeast(IF inv.pc = "idle" THEN 2 ELSE 1, q.ssip)
                       /\ (inv.pc = "idle" => lag >= 1)
-----------------------------------------------------------------------------
(* The constants.                                                          *)

(* What the platform says of its lines and handlers.                       *)
LEMMA PlatformFacts ==
    /\ \A l \in Lines : l \in Nat /\ l > 0 /\ l # NULL
    /\ NULL \notin Handlers
    /\ PlicLines \subseteq Lines /\ \A l \in PlicLines : l < 32
    /\ 32 \in Lines \ PlicLines /\ LineOf[Timer] = 32
    /\ \A h \in Handlers : LineOf[h] \in Lines /\ PrioOf[h] \in Nat /\ AttrOf[h] \in SUBSET IrqAttrs
    /\ \A h \in Handlers : LineOf[h] \notin PlicLines => h = Timer
    /\ \A h \in Handlers : LineOf[h] \in PlicLines => h # Timer
<1>1. /\ \A l \in Lines : l \in Nat /\ l > 0 /\ l # NULL
      /\ PlicLines \subseteq Lines /\ \A l \in PlicLines : l < 32
  BY PlatformAssumption DEF PlicLines, MaxIrq
<1>2. \A h \in Handlers : LineOf[h] \in Lines /\ PrioOf[h] \in Nat /\ AttrOf[h] \in SUBSET IrqAttrs
  BY PlatformAssumption DEF IrqAttrs
<1>3. LineOf[Timer] = 32
  BY PlatformAssumption DEF MinIrq
<1>4. 32 \in Lines \ PlicLines
  BY <1>1, <1>2, <1>3, InterruptsAssumption
<1> QED
  BY <1>1, <1>2, <1>3, <1>4, PlatformAssumption

(* The priority of an accepted handler.                                    *)
LEMMA AcceptedFacts ==
    ASSUME NEW h \in Handlers, Accepted(h)
    PROVE  /\ PrioOf[h] > 0
           /\ LineOf[h] \in PlicLines => PrioOf[h] \in 1..PLIC_PRIO_MAX
           /\ LineOf[h] \notin PlicLines =>
                h = Timer /\ PrioOf[h] > PLIC_PRIO_MAX /\ "NESTABLE" \notin AttrOf[h]
BY PlatformFacts, PlatformAssumption
   DEF Accepted, plic_config_irq_ok, PLIC_PRIO_MIN, PLIC_PRIO_MAX

(* What a line is that has been configured.                                *)
LEMMA ConfiguredFacts ==
    ASSUME NEW s, NEW l \in Lines, Configured(s, l)
    PROVE  /\ s.line[l].ctrlr = CtrlrOf(l)
           /\ l \in PlicLines => s.line[l].prio \in 1..PLIC_PRIO_MAX
           /\ l \notin PlicLines => s.line[l].prio > PLIC_PRIO_MAX /\ "NESTABLE" \notin s.line[l].attr
BY AcceptedFacts DEF Configured

(* Lines of the PLIC that have been configured differ in priority.         *)
LEMMA PriosDiffer ==
    ASSUME NEW s, NEW l \in Lines, NEW m \in Lines, Configured(s, l), Configured(s, m), l # m
    PROVE  s.line[l].prio # s.line[m].prio
<1> PICK g \in Handlers : Accepted(g) /\ LineOf[g] = l /\ s.line[l].prio = PrioOf[g]
  BY DEF Configured
<1> PICK h \in Handlers : Accepted(h) /\ LineOf[h] = m /\ s.line[m].prio = PrioOf[h]
  BY DEF Configured
<1> SUFFICES ASSUME PrioOf[g] = PrioOf[h] PROVE FALSE
  OBVIOUS
<1>1. CASE g = Timer \/ h = Timer
  <2>1. l \notin PlicLines \/ m \notin PlicLines
    BY <1>1, PlatformFacts
  <2>2. PrioOf[g] > PLIC_PRIO_MAX \/ PrioOf[h] > PLIC_PRIO_MAX
    BY <2>1, AcceptedFacts
  <2>3. l \notin PlicLines /\ m \notin PlicLines
    BY <2>2, AcceptedFacts DEF PLIC_PRIO_MAX
  <2> QED
    BY <2>3, PlatformFacts
<1>2. CASE g # Timer /\ h # Timer
  BY <1>2, PlatformAssumption DEF Accepted
<1> QED
  BY <1>1, <1>2

-----------------------------------------------------------------------------
(* What a function changes of the record q.                                *)

QFields ==
    {"line", "prio_que", "ctrlrs", "frames", "panic", "sie", "stie", "stip", "ssip", "pend",
     "claimed", "enabled", "thr", "lprio"}
Touch(s, m, F) == m \in QType /\ \A f \in QFields \ F : m[f] = s[f]

(* Two steps one after the other, and a step seen as one that may change more. *)
LEMMA TouchTrans ==
    ASSUME NEW s, NEW m, NEW r, NEW F, NEW G, Touch(s, m, F), Touch(m, r, G)
    PROVE  Touch(s, r, F \cup G)
BY DEF Touch

LEMMA TouchMore ==
    ASSUME NEW s, NEW m, NEW F, NEW G, Touch(s, m, F), F \subseteq G
    PROVE  Touch(s, m, G)
BY DEF Touch

LEMMA TouchSame == ASSUME NEW s \in QType PROVE Touch(s, s, {})
BY DEF Touch

\* The reference count of the line l becomes n.
RefsSet(s, m, l, n) ==
    /\ m.line[l].refs = n
    /\ m.line[l].prio = s.line[l].prio /\ m.line[l].attr = s.line[l].attr
    /\ m.line[l].handlers = s.line[l].handlers /\ m.line[l].ctrlr = s.line[l].ctrlr
    /\ \A k \in Lines \ {l} : m.line[k] = s.line[k]

(* A line, its reference count or its queue of handlers is assigned.       *)
LEMMA SetLine ==
    ASSUME NEW s \in QType, NEW l \in Lines, NEW x \in LineType
    PROVE  LET m == [s EXCEPT !.line[l] = x]
           IN  Touch(s, m, {"line"}) /\ m.line[l] = x /\ \A k \in Lines \ {l} : m.line[k] = s.line[k]
<1> DEFINE line == [s.line EXCEPT ![l] = x]
           m == [s EXCEPT !.line[l] = x]
<1>1. line \in [Lines -> LineType] /\ line[l] = x /\ \A k \in Lines \ {l} : line[k] = s.line[k]
  BY DEF QType
<1>2. m = [s EXCEPT !.line = line]
  BY DEF QType
<1> HIDE DEF line, m
<1>3. Touch(s, m, {"line"}) /\ m.line = line
  BY <1>1, <1>2 DEF Touch, QFields, QType
<1> QED
  BY <1>1, <1>3 DEF m

(* The fields of a line.                                                   *)
LEMMA LineFields ==
    ASSUME NEW s \in QType, NEW l \in Lines
    PROVE  /\ s.line[l] \in LineType /\ s.line[l].refs \in Nat /\ s.line[l].prio \in Nat
           /\ s.line[l].attr \in SUBSET IrqAttrs /\ s.line[l].handlers \in Seq(Handlers)
           /\ s.line[l].ctrlr \in Ctrlrs \cup {NULL}
BY DEF QType, LineType

LEMMA SetRefs ==
    ASSUME NEW s \in QType, NEW l \in Lines, NEW n \in Nat
    PROVE  LET m == [s EXCEPT !.line[l].refs = n] IN Touch(s, m, {"line"}) /\ RefsSet(s, m, l, n)
<1> DEFINE x == [s.line[l] EXCEPT !.refs = n]
           m == [s EXCEPT !.line[l] = x]
<1>1. x \in LineType /\ x.refs = n /\ x.prio = s.line[l].prio /\ x.attr = s.line[l].attr
      /\ x.handlers = s.line[l].handlers /\ x.ctrlr = s.line[l].ctrlr
  BY LineFields DEF LineType
<1>2. [s EXCEPT !.line[l].refs = n] = m
  BY DEF QType
<1> HIDE DEF x
<1>3. Touch(s, m, {"line"}) /\ m.line[l] = x /\ \A k \in Lines \ {l} : m.line[k] = s.line[k]
  BY <1>1, SetLine
<1> QED
  BY <1>1, <1>2, <1>3 DEF RefsSet

LEMMA SetHandlers ==
    ASSUME NEW s \in QType, NEW l \in Lines, NEW hs \in Seq(Handlers)
    PROVE  LET m == [s EXCEPT !.line[l].handlers = hs]
           IN  /\ Touch(s, m, {"line"})
               /\ m.line[l].refs = s.line[l].refs /\ m.line[l].prio = s.line[l].prio
               /\ m.line[l].attr = s.line[l].attr /\ m.line[l].handlers = hs
               /\ m.line[l].ctrlr = s.line[l].ctrlr
               /\ \A k \in Lines \ {l} : m.line[k] = s.line[k]
<1> DEFINE x == [s.line[l] EXCEPT !.handlers = hs]
           m == [s EXCEPT !.line[l] = x]
<1>1. x \in LineType /\ x.refs = s.line[l].refs /\ x.prio = s.line[l].prio
      /\ x.attr = s.line[l].attr /\ x.handlers = hs /\ x.ctrlr = s.line[l].ctrlr
  BY LineFields DEF LineType
<1>2. [s EXCEPT !.line[l].handlers = hs] = m
  BY DEF QType
<1> HIDE DEF x
<1>3. Touch(s, m, {"line"}) /\ m.line[l] = x /\ \A k \in Lines \ {l} : m.line[k] = s.line[k]
  BY <1>1, SetLine
<1> QED
  BY <1>1, <1>2, <1>3

(* Taking a reference.                                                     *)
LEMMA GetEffect ==
    ASSUME NEW s \in QType, NEW l \in Lines, s.line[l].refs > 0
    PROVE  /\ Touch(s, irqline_get(s, l), {"line"})
           /\ RefsSet(s, irqline_get(s, l), l, s.line[l].refs + 1)
<1>1. s.line[l].refs \in Nat /\ s.line[l].refs + 1 \in Nat
  BY LineFields
<1>2. (IF s.line[l].refs = 0 THEN 0 ELSE s.line[l].refs + 1) = s.line[l].refs + 1
  BY <1>1
<1>3. irqline_get(s, l) = [s EXCEPT !.line[l].refs = s.line[l].refs + 1]
  BY <1>2 DEF irqline_get, QType
<1> QED
  BY <1>1, <1>3, SetRefs

(* Dropping a reference that is not the last one.                          *)
LEMMA PutEffect ==
    ASSUME NEW s \in QType, NEW l \in Lines, s.line[l].refs > 1
    PROVE  /\ Touch(s, irqline_put(s, l), {"line"})
           /\ RefsSet(s, irqline_put(s, l), l, s.line[l].refs - 1)
<1>1. s.line[l].refs \in Nat /\ s.line[l].refs - 1 \in Nat
  BY LineFields
<1>2. irqline_put(s, l) = [s EXCEPT !.line[l].refs = s.line[l].refs - 1]
  BY <1>1 DEF irqline_put
<1> QED
  BY <1>1, <1>2, SetRefs

(* Setting the threshold of the PLIC.                                      *)
LEMMA ThresholdEffect ==
    ASSUME NEW s \in QType, NEW p \in Nat
    PROVE  /\ Touch(s, plic_set_priority(s, p), {"thr"})
           /\ plic_set_priority(s, p).thr = IF p > PLIC_PRIO_MAX THEN s.thr ELSE p
<1>1. CASE p > PLIC_PRIO_MAX
  BY <1>1 DEF plic_set_priority, Touch
<1>2. CASE ~ (p > PLIC_PRIO_MAX)
  <2>1. plic_set_priority(s, p) = [s EXCEPT !.thr = p] /\ p \in 0..PLIC_PRIO_MAX
    BY <1>2 DEF plic_set_priority, PLIC_PRIO_MAX
  <2>2. Touch(s, [s EXCEPT !.thr = p], {"thr"}) /\ [s EXCEPT !.thr = p].thr = p
    BY <2>1 DEF Touch, QFields, QType
  <2> QED
    BY <1>2, <2>1, <2>2
<1> QED
  BY <1>1, <1>2

(* Closing a line, and opening it again: opening a line of the PLIC closes *)
(* the others.                                                             *)
LEMMA DisableEffect ==
    ASSUME NEW s \in QType, NEW l \in Lines
    PROVE  /\ Touch(s, disable_irq(s, CtrlrOf(l), l), {"enabled", "stie"})
           /\ disable_irq(s, CtrlrOf(l), l).enabled = s.enabled \ {l}
<1>1. CASE l \in PlicLines
  <2>1. disable_irq(s, CtrlrOf(l), l) = [s EXCEPT !.enabled = s.enabled \ {l}]
    BY <1>1 DEF disable_irq, CtrlrOf, plic_disable_irq
  <2>2. /\ Touch(s, [s EXCEPT !.enabled = s.enabled \ {l}], {"enabled", "stie"})
        /\ [s EXCEPT !.enabled = s.enabled \ {l}].enabled = s.enabled \ {l}
    BY DEF Touch, QFields, QType
  <2> QED
    BY <2>1, <2>2
<1>2. CASE l \notin PlicLines
  <2>1. disable_irq(s, CtrlrOf(l), l) = [s EXCEPT !.stie = FALSE]
    BY <1>2 DEF disable_irq, CtrlrOf, clint_disable_irq
  <2>2. /\ Touch(s, [s EXCEPT !.stie = FALSE], {"enabled", "stie"})
        /\ [s EXCEPT !.stie = FALSE].enabled = s.enabled
    BY DEF Touch, QFields, QType
  <2>3. s.enabled = s.enabled \ {l}
    BY <1>2 DEF QType
  <2> QED
    BY <2>1, <2>2, <2>3
<1> QED
  BY <1>1, <1>2

LEMMA EnableEffect ==
    ASSUME NEW s \in QType, NEW l \in Lines
    PROVE  /\ Touch(s, enable_irq(s, CtrlrOf(l), l), {"enabled", "stie"})
           /\ enable_irq(s, CtrlrOf(l), l).enabled \subseteq s.enabled \cup {l}
<1>1. CASE l \in PlicLines
  <2>1. enable_irq(s, CtrlrOf(l), l) = [s EXCEPT !.enabled = {l}]
    BY <1>1 DEF enable_irq, CtrlrOf, plic_enable_irq
  <2>2. /\ Touch(s, [s EXCEPT !.enabled = {l}], {"enabled", "stie"})
        /\ [s EXCEPT !.enabled = {l}].enabled = {l}
    BY <1>1 DEF Touch, QFields, QType
  <2> QED
    BY <2>1, <2>2
<1>2. CASE l \notin PlicLines
  <2>1. enable_irq(s, CtrlrOf(l), l) = [s EXCEPT !.stie = TRUE]
    BY <1>2 DEF enable_irq, CtrlrOf, clint_enable_irq
  <2>2. /\ Touch(s, [s EXCEPT !.stie = TRUE], {"enabled", "stie"})
        /\ [s EXCEPT !.stie = TRUE].enabled = s.enabled
    BY DEF Touch, QFields, QType
  <2> QED
    BY <2>1, <2>2
<1> QED
  BY <1>1, <1>2

(* Completing an interrupt at the controller.                              *)
LEMMA EoiEffect ==
    ASSUME NEW s \in QType, NEW l \in Lines
    PROVE  /\ l \in PlicLines => Touch(s, eoi(s, CtrlrOf(l), l), {"claimed"})
           /\ l \notin PlicLines => /\ Touch(s, eoi(s, CtrlrOf(l), l), {"ssip"})
                                    /\ ~ eoi(s, CtrlrOf(l), l).ssip
<1>1. CASE l \in PlicLines
  <2>1. eoi(s, CtrlrOf(l), l) = [s EXCEPT !.claimed = s.claimed \ {l}]
    BY <1>1 DEF eoi, CtrlrOf, plic_eoi
  <2>2. Touch(s, [s EXCEPT !.claimed = s.claimed \ {l}], {"claimed"})
    BY DEF Touch, QFields, QType
  <2> QED
    BY <1>1, <2>1, <2>2
<1>2. CASE l \notin PlicLines
  <2>1. eoi(s, CtrlrOf(l), l) = [s EXCEPT !.ssip = FALSE]
    BY <1>2 DEF eoi, CtrlrOf, clint_eoi
  <2>2. Touch(s, [s EXCEPT !.ssip = FALSE], {"ssip"}) /\ ~ [s EXCEPT !.ssip = FALSE].ssip
    BY DEF Touch, QFields, QType
  <2> QED
    BY <1>2, <2>1, <2>2
<1> QED
  BY <1>1, <1>2

(* Reading the claim register.                                             *)
LEMMA ReadClaimEffect ==
    ASSUME NEW s \in QType
    PROVE  Touch(s, ReadClaim(s), {"pend", "claimed"})
<1> DEFINE p == s.pend \ {ClaimReg(s)}
           c == s.claimed \cup (PlicLines \cap {ClaimReg(s)})
<1>1. ReadClaim(s) = [s EXCEPT !.pend = p, !.claimed = c]
  BY DEF ReadClaim
<1>2. p \in SUBSET PlicLines /\ c \in SUBSET PlicLines
  BY DEF QType
<1> HIDE DEF p, c
<1>3. Touch(s, [s EXCEPT !.pend = p, !.claimed = c], {"pend", "claimed"})
  BY <1>2 DEF Touch, QFields, QType
<1> QED
  BY <1>1, <1>3

-----------------------------------------------------------------------------
(* The tree of the lines.                                                  *)

(* Taking an element out of a sequence that has it once.                   *)
LEMMA WithoutFacts ==
    ASSUME NEW S, NEW s \in Seq(S), IsInjective(s), NEW x \in Range(s)
    PROVE  /\ Without(s, x) \in Seq(S) /\ IsInjective(Without(s, x))
           /\ Range(Without(s, x)) = Range(s) \ {x}
<1> DEFINE i == CHOOSE j \in DOMAIN s : s[j] = x
<1>1. \E j \in DOMAIN s : s[j] = x
  BY DEF Range
<1>2. i \in DOMAIN s /\ s[i] = x
  BY <1>1
<1>3. i \in 1..Len(s)
  BY <1>2, LenProperties
<1>4. Without(s, x) = RemoveAt(s, i)
  BY DEF Without
<1> HIDE DEF i
<1> QED
  BY <1>2, <1>3, <1>4, RemoveAtFacts

(* A line leaves the tree.                                                 *)
LEMMA RemoveEffect ==
    ASSUME NEW s \in QType, IsInjective(s.prio_que), NEW l \in Range(s.prio_que)
    PROVE  /\ Touch(s, RB_REMOVE(s, l), {"prio_que"})
           /\ IsInjective(RB_REMOVE(s, l).prio_que)
           /\ Range(RB_REMOVE(s, l).prio_que) = Range(s.prio_que) \ {l}
<1> DEFINE v == Without(s.prio_que, l)
<1>1. s.prio_que \in Seq(Lines)
  BY DEF QType
<1>2. v \in Seq(Lines) /\ IsInjective(v) /\ Range(v) = Range(s.prio_que) \ {l}
  BY <1>1, WithoutFacts
<1>3. RB_REMOVE(s, l) = [s EXCEPT !.prio_que = v]
  BY DEF RB_REMOVE
<1> HIDE DEF v
<1>4. Touch(s, [s EXCEPT !.prio_que = v], {"prio_que"}) /\ [s EXCEPT !.prio_que = v].prio_que = v
  BY <1>2 DEF Touch, QFields, QType
<1> QED
  BY <1>2, <1>3, <1>4

(* A line whose priority no line of the tree has finds its place.          *)
LEMMA PlaceExists ==
    ASSUME NEW s \in QType, NEW l \in Lines, ~ EqualInTree(s, l)
    PROVE  \E i \in 1..(Len(s.prio_que) + 1) : i \in InsertPlaces(s, l)
<1> DEFINE que == s.prio_que
           n == Len(que)
           p(i) == s.line[que[i]].prio
           S == {i \in 1..(n + 1) : i = n + 1 \/ p(i) < s.line[l].prio}
<1>1. que \in Seq(Lines) /\ n \in Nat
  BY LenProperties DEF QType
<1>2. ASSUME NEW i \in 1..n PROVE p(i) \in Nat /\ p(i) # s.line[l].prio
  <2>1. que[i] \in Lines /\ que[i] \in Range(que)
    BY <1>1, ElementOfSeq, LenProperties DEF Range
  <2>2. s.line[que[i]].prio # s.line[l].prio
    BY <2>1 DEF EqualInTree
  <2> QED
    BY <2>1, <2>2, LineFields
<1>3. s.line[l].prio \in Nat
  BY LineFields
<1> HIDE DEF p
<1>4. S \in SUBSET Nat /\ n + 1 \in S
  BY <1>1
<1>5. PICK i \in S : \A j \in S : i <= j
  BY <1>4, LeastNatural
<1>6. i \in 1..(n + 1)
  OBVIOUS
<1>7. i > 1 => p(i - 1) > s.line[l].prio
  <2> SUFFICES ASSUME i > 1 PROVE p(i - 1) > s.line[l].prio
    OBVIOUS
  <2>1. i - 1 \in 1..n /\ i - 1 \notin S
    BY <1>1, <1>5, <1>6
  <2>2. ~ (p(i - 1) < s.line[l].prio)
    BY <1>1, <2>1
  <2> QED
    BY <1>2, <1>3, <2>1, <2>2
<1>8. i <= n => s.line[l].prio > p(i)
  BY <1>1, <1>2, <1>3, <1>6
<1>9. i \in InsertPlaces(s, l)
  BY <1>6, <1>7, <1>8 DEF InsertPlaces, Before, p
<1> QED
  BY <1>6, <1>9

(* A line enters the tree.                                                 *)
LEMMA InsertEffect ==
    ASSUME NEW s \in QType, IsInjective(s.prio_que), NEW l \in Lines, l \notin Range(s.prio_que),
           ~ EqualInTree(s, l)
    PROVE  /\ Touch(s, RB_INSERT(s, l), {"prio_que"})
           /\ IsInjective(RB_INSERT(s, l).prio_que)
           /\ Range(RB_INSERT(s, l).prio_que) = Range(s.prio_que) \cup {l}
<1> DEFINE i == CHOOSE j \in InsertPlaces(s, l) : TRUE
           v == InsertAt(s.prio_que, i, l)
<1>1. i \in InsertPlaces(s, l)
  BY PlaceExists
<1>2. i \in 1..(Len(s.prio_que) + 1)
  BY <1>1 DEF InsertPlaces
<1>3. s.prio_que \in Seq(Lines)
  BY DEF QType
<1> HIDE DEF i
<1>4. v \in Seq(Lines) /\ IsInjective(v) /\ Range(v) = Range(s.prio_que) \cup {l}
  BY <1>2, <1>3, InsertAtFacts
<1>5. RB_INSERT(s, l) = [s EXCEPT !.prio_que = v]
  BY DEF RB_INSERT, i
<1> HIDE DEF v
<1>6. Touch(s, [s EXCEPT !.prio_que = v], {"prio_que"}) /\ [s EXCEPT !.prio_que = v].prio_que = v
  BY <1>4 DEF Touch, QFields, QType
<1> QED
  BY <1>4, <1>5, <1>6

(* Dropping the last reference takes the line out of the tree and closes   *)
(* it; the threshold may go up.                                            *)
LEMMA PutLastEffect ==
    ASSUME NEW s \in QType, NEW l \in Lines, s.line[l].refs = 1, s.line[l].ctrlr = CtrlrOf(l),
           IsInjective(s.prio_que), l \in Range(s.prio_que)
    PROVE  LET m == irqline_put(s, l) IN
           /\ Touch(s, m, {"line", "prio_que", "thr", "enabled", "stie"})
           /\ RefsSet(s, m, l, 0)
           /\ IsInjective(m.prio_que) /\ Range(m.prio_que) = Range(s.prio_que) \ {l}
           /\ m.enabled = s.enabled \ {l} /\ m.thr >= s.thr
<1> DEFINE c  == CtrlrOf(l)
           s1 == [s EXCEPT !.line[l].refs = 0]
           s2 == RB_REMOVE(s1, l)
           s3 == IF HasPriMask(c) /\ s2.line[l].prio > s2.thr
                 THEN plic_set_priority(s2, s2.line[l].prio) ELSE s2
           m  == disable_irq(s3, c, l)
<1>1. irqline_put(s, l) = m
  BY DEF irqline_put
<1>2. Touch(s, s1, {"line"}) /\ RefsSet(s, s1, l, 0)
  BY SetRefs
<1> HIDE DEF s1
<1>3. s1 \in QType /\ s1.prio_que = s.prio_que
  BY <1>2 DEF Touch, QFields
<1>4. /\ Touch(s1, s2, {"prio_que"}) /\ IsInjective(s2.prio_que)
      /\ Range(s2.prio_que) = Range(s.prio_que) \ {l}
  BY <1>3, RemoveEffect
<1> HIDE DEF s2
<1>5. s2 \in QType /\ s2.line = s1.line /\ s2.enabled = s.enabled /\ s2.thr = s.thr
  BY <1>2, <1>4 DEF Touch, QFields
<1>6. s2.thr \in Nat /\ s2.line[l].prio \in Nat
  <2>1. s2.line[l].prio \in Nat
    BY <1>5, LineFields
  <2>2. s2.thr \in Nat
    BY <1>5 DEF QType, PLIC_PRIO_MAX
  <2> QED
    BY <2>1, <2>2
<1>7. Touch(s2, s3, {"thr"}) /\ s3.thr >= s2.thr
  <2>1. CASE HasPriMask(c) /\ s2.line[l].prio > s2.thr
    BY <1>5, <1>6, <2>1, ThresholdEffect
  <2>2. CASE ~ (HasPriMask(c) /\ s2.line[l].prio > s2.thr)
    <3>1. s3 = s2
      BY <2>2
    <3> QED
      BY <1>5, <1>6, <3>1 DEF Touch
  <2> QED
    BY <2>1, <2>2
<1> HIDE DEF s3
<1>8. s3 \in QType /\ s3.line = s2.line /\ s3.prio_que = s2.prio_que /\ s3.enabled = s2.enabled
  BY <1>7 DEF Touch, QFields
<1>9. Touch(s3, m, {"enabled", "stie"}) /\ m.enabled = s3.enabled \ {l}
  BY <1>8, DisableEffect
<1> HIDE DEF m
<1>10. m \in QType /\ m.line = s1.line /\ m.prio_que = s2.prio_que /\ m.thr = s3.thr
  BY <1>5, <1>8, <1>9 DEF Touch, QFields
<1>11. Touch(s, m, {"line", "prio_que", "thr", "enabled", "stie"})
  BY <1>2, <1>4, <1>7, <1>9 DEF Touch
<1>12. RefsSet(s, m, l, 0)
  BY <1>2, <1>10 DEF RefsSet
<1> QED
  BY <1>1, <1>4, <1>5, <1>7, <1>8, <1>9, <1>10, <1>11, <1>12

-----------------------------------------------------------------------------
(* The stack of traps.                                                     *)

(* A sequence without its last element.                                    *)
LEMMA FrontFacts ==
    ASSUME NEW S, NEW fs \in Seq(S), fs # <<>>
    PROVE  /\ Len(fs) \in Nat \ {0} /\ Last(fs) = fs[Len(fs)] /\ fs[Len(fs)] \in S
           /\ Front(fs) \in Seq(S) /\ Len(Front(fs)) = Len(fs) - 1
           /\ \A i \in 1..(Len(fs) - 1) : Front(fs)[i] = fs[i]
<1>1. Len(fs) \in Nat /\ Len(fs) # 0
  BY LenProperties, EmptySeq
<1>2. \A i \in 1..Len(fs) : fs[i] \in S
  BY ElementOfSeq
<1>3. Front(fs) = SubSeq(fs, 1, Len(fs) - 1) /\ Last(fs) = fs[Len(fs)]
  BY DEF Front, Last
<1> DEFINE n == Len(fs)
<1>4. 1 \in Int /\ n - 1 \in Int /\ \A i \in 1 .. (n - 1) : fs[i] \in S
  BY <1>1, <1>2
<1> HIDE DEF n
<1>5. /\ SubSeq(fs, 1, n - 1) \in Seq(S)
      /\ Len(SubSeq(fs, 1, n - 1)) = IF 1 <= n - 1 THEN n - 1 - 1 + 1 ELSE 0
      /\ \A i \in 1 .. n - 1 - 1 + 1 : SubSeq(fs, 1, n - 1)[i] = fs[1 + i - 1]
  BY <1>4, SubSeqProperties
<1>6. n \in Nat \ {0}
  BY <1>1 DEF n
<1>7. Len(SubSeq(fs, 1, n - 1)) = n - 1 /\ \A i \in 1 .. (n - 1) : SubSeq(fs, 1, n - 1)[i] = fs[i]
  BY <1>5, <1>6
<1> QED
  BY <1>2, <1>3, <1>5, <1>6, <1>7 DEF n

(* The frames of a state.                                                  *)
LEMMA FrameFields ==
    ASSUME NEW s \in QType
    PROVE  /\ s.frames \in Seq(FrameType) /\ Len(s.frames) \in Nat
           /\ DOMAIN s.frames = 1..Len(s.frames)
           /\ \A i \in 1..Len(s.frames) :
                /\ s.frames[i] \in FrameType
                /\ s.frames[i].pc \in {"scan", "handler"}
                /\ s.frames[i].line \in Lines \cup {NULL}
                /\ s.frames[i].ent \in Handlers \cup {NULL}
                /\ s.frames[i].prio \in 0..PLIC_PRIO_MAX
<1>1. s.frames \in Seq(FrameType)
  BY DEF QType
<1>2. /\ Len(s.frames) \in Nat /\ DOMAIN s.frames = 1..Len(s.frames)
      /\ \A i \in 1..Len(s.frames) : s.frames[i] \in FrameType
  BY <1>1, LenProperties, ElementOfSeq
<1> QED
  BY <1>1, <1>2 DEF FrameType

(* A line that is served, or that has a reference, has been configured.    *)
LEMMA ReferredLine ==
    ASSUME NEW s, Sound(s), NEW l \in Lines, s.line[l].refs > 0
    PROVE  /\ Configured(s, l) /\ s.line[l].ctrlr = CtrlrOf(l)
           /\ l \in Range(s.prio_que)
           /\ l \in PlicLines => s.line[l].prio \in 1..PLIC_PRIO_MAX
           /\ l \notin PlicLines => s.line[l].prio > PLIC_PRIO_MAX /\ "NESTABLE" \notin s.line[l].attr
<1>1. LineOK(s, l)
  BY DEF Sound, LinesOK
<1>2. Configured(s, l) /\ l \in Range(s.prio_que)
  BY <1>1 DEF LineOK
<1> QED
  BY <1>2, ConfiguredFacts

(* The line of a trap that has called a handler.                           *)
LEMMA ServedLine ==
    ASSUME NEW s, Sound(s), NEW i \in 1..Len(s.frames), s.frames[i].pc = "handler"
    PROVE  /\ s.frames[i].line \in Lines
           /\ s.line[s.frames[i].line].refs = Base(s, s.frames[i].line) + 3
           /\ s.line[s.frames[i].line].refs > 0
<1> DEFINE l == s.frames[i].line
<1>1. l \in Lines
  BY DEF Sound, FramesOK
<1>2. Served(s, l)
  BY FrameFields DEF Served, Serves, Sound
<1>3. RefsAre(s, l)
  BY <1>1 DEF Sound, LinesOK
<1> QED
  BY <1>1, <1>2, <1>3 DEF RefsAre, Base

(* A trap that has been interrupted serves a line of the PLIC.             *)
LEMMA InterruptedFrame ==
    ASSUME NEW s, Sound(s), NEW i \in 1..(Len(s.frames) - 1)
    PROVE  /\ i \in 1..Len(s.frames) /\ s.frames[i].pc = "handler"
           /\ s.frames[i].line \in PlicLines /\ Masking(s, i)
<1>1. Len(s.frames) \in Nat
  BY FrameFields DEF Sound
<1>2. i \in 1..Len(s.frames) /\ s.frames[i].pc = "handler" /\ Nests(s, i)
  BY <1>1 DEF Sound, FramesOK
<1>3. s.frames[i].line \in PlicLines
  BY <1>2, ServedLine, ReferredLine DEF Nests
<1> QED
  BY <1>2, <1>3 DEF Masking

(* No line is served by two traps.                                         *)
LEMMA ServedOnce ==
    ASSUME NEW s, Sound(s), NEW i \in 1..Len(s.frames), NEW j \in 1..Len(s.frames), i < j,
           s.frames[j].pc = "handler"
    PROVE  /\ Masking(s, i) /\ FPrio(s, i) < FPrio(s, j) /\ s.frames[i].line # s.frames[j].line
<1>1. Len(s.frames) \in Nat
  BY FrameFields DEF Sound
<1>2. i \in 1..(Len(s.frames) - 1)
  BY <1>1
<1>3. Masking(s, i)
  BY <1>2, InterruptedFrame
<1>4. FPrio(s, i) < FPrio(s, j)
  BY <1>3 DEF Sound, MasksOK
<1>5. s.frames[i].line \in Lines /\ s.frames[j].line \in Lines
  BY <1>3, ServedLine DEF Masking
<1>6. FPrio(s, i) \in Nat /\ FPrio(s, j) \in Nat
  BY <1>5, LineFields DEF FPrio, Sound
<1> QED
  BY <1>3, <1>4, <1>6 DEF FPrio

-----------------------------------------------------------------------------
(* The end of a trap.                                                      *)

FinishFields == {"line", "prio_que", "thr", "enabled", "stie", "frames", "sie"}

\* What finish_irq_line makes of a state whose trap has the frame f.
Finished(s, m, f) ==
    /\ Touch(s, m, FinishFields)
    /\ RefsSet(s, m, f.line, Base(s, f.line))
    /\ m.frames = Front(s.frames) /\ m.sie
    /\ IsInjective(m.prio_que)
    /\ Range(m.prio_que) = IF Base(s, f.line) = 0 THEN Range(s.prio_que) \ {f.line} ELSE Range(s.prio_que)
    /\ m.enabled \subseteq s.enabled \cup {f.line}
    /\ Base(s, f.line) = 0 => f.line \notin m.enabled
    /\ m.thr >= IF f.line \in PlicLines THEN f.prio ELSE s.thr

LEMMA FinishEffect ==
    ASSUME NEW s \in QType, NEW f \in FrameType, f.line \in Lines, s.frames # <<>>,
           s.line[f.line].refs = Base(s, f.line) + 3, s.line[f.line].ctrlr = CtrlrOf(f.line),
           IsInjective(s.prio_que), f.line \in Range(s.prio_que)
    PROVE  Finished(s, finish_irq_line(s, f), f)
<1> DEFINE l  == f.line
           b  == Base(s, l)
           c  == CtrlrOf(l)
           s0 == irqline_put(s, l)
           s1 == irqline_put(s0, l)
           s2 == enable_irq(s1, c, l)
           s3 == IF HasPriMask(c) THEN plic_set_priority(s2, f.prio) ELSE s2
           s4 == irqline_put(s3, l)
           m  == rv64_return_from_trap(s4)
<1>1. finish_irq_line(s, f) = m
  BY DEF finish_irq_line
<1>2. b \in {0, 1} /\ l \in Lines /\ s.line[l].refs = b + 3 /\ f.prio \in 0..PLIC_PRIO_MAX
  BY DEF Base, FrameType
<1>3. s.thr \in Nat
  BY DEF QType, PLIC_PRIO_MAX
<1> HIDE DEF l, b, c
<1>4. Touch(s, s0, {"line"}) /\ RefsSet(s, s0, l, b + 2)
  <2>1. s.line[l].refs > 1 /\ s.line[l].refs - 1 = b + 2
    BY <1>2
  <2> QED
    BY <1>2, <2>1, PutEffect
<1> HIDE DEF s0
<1>5. Touch(s0, s1, {"line"}) /\ RefsSet(s0, s1, l, b + 1)
  <2>1. s0 \in QType
    BY <1>4 DEF Touch
  <2>2. s0.line[l].refs > 1 /\ s0.line[l].refs - 1 = b + 1
    BY <1>2, <1>4 DEF RefsSet
  <2> QED
    BY <1>2, <2>1, <2>2, PutEffect
<1> HIDE DEF s1
<1>6. Touch(s, s1, {"line"}) /\ RefsSet(s, s1, l, b + 1)
  BY <1>4, <1>5 DEF Touch, RefsSet
<1>7. Touch(s1, s2, {"enabled", "stie"}) /\ s2.enabled \subseteq s.enabled \cup {l}
  <2>1. s1 \in QType /\ s1.enabled = s.enabled
    BY <1>6 DEF Touch, QFields
  <2> QED
    BY <1>2, <2>1, EnableEffect DEF c
<1> HIDE DEF s2
<1>8. s2 \in QType /\ s2.line = s1.line /\ s2.prio_que = s.prio_que /\ s2.thr = s.thr /\ s2.frames = s.frames
  BY <1>6, <1>7 DEF Touch, QFields
<1>9. Touch(s2, s3, {"thr"}) /\ s3.thr = IF l \in PlicLines THEN f.prio ELSE s.thr
  <2>1. CASE l \in PlicLines
    <3>1. s3 = plic_set_priority(s2, f.prio)
      BY <2>1 DEF c, CtrlrOf, HasPriMask
    <3>2. f.prio \in Nat /\ ~ (f.prio > PLIC_PRIO_MAX)
      BY <1>2 DEF PLIC_PRIO_MAX
    <3> QED
      BY <1>8, <2>1, <3>1, <3>2, ThresholdEffect
  <2>2. CASE l \notin PlicLines
    <3>1. s3 = s2
      BY <2>2 DEF c, CtrlrOf, HasPriMask
    <3> QED
      BY <1>8, <2>2, <3>1 DEF Touch
  <2> QED
    BY <2>1, <2>2
<1> HIDE DEF s3
<1>10. /\ s3 \in QType /\ s3.line = s1.line /\ s3.prio_que = s.prio_que
       /\ s3.enabled = s2.enabled /\ s3.frames = s.frames
  BY <1>8, <1>9 DEF Touch, QFields
<1>11. /\ s3.line[l].refs = b + 1 /\ s3.line[l].ctrlr = c
  BY <1>6, <1>10 DEF RefsSet, l, c
<1>12. /\ Touch(s3, s4, {"line", "prio_que", "thr", "enabled", "stie"})
       /\ RefsSet(s3, s4, l, b)
       /\ IsInjective(s4.prio_que)
       /\ Range(s4.prio_que) = IF b = 0 THEN Range(s.prio_que) \ {l} ELSE Range(s.prio_que)
       /\ s4.enabled \subseteq s3.enabled
       /\ b = 0 => l \notin s4.enabled
       /\ s4.thr >= s3.thr
  <2>1. CASE b = 0
    <3>1. IsInjective(s3.prio_que) /\ l \in Range(s3.prio_que) /\ s3.line[l].refs = 1
      BY <1>10, <1>11, <2>1 DEF l
    <3> QED
      BY <1>2, <1>10, <1>11, <2>1, <3>1, PutLastEffect DEF c
  <2>2. CASE b = 1
    <3>1. s3.line[l].refs > 1 /\ s3.line[l].refs - 1 = b /\ b # 0
      BY <1>11, <2>2
    <3>2. Touch(s3, s4, {"line"}) /\ RefsSet(s3, s4, l, b)
      BY <1>2, <1>10, <3>1, PutEffect
    <3>3. s4.prio_que = s.prio_que /\ s4.enabled = s3.enabled /\ s4.thr = s3.thr
      BY <1>10, <3>2 DEF Touch, QFields
    <3>4. s3.thr \in Nat
      BY <1>10 DEF QType, PLIC_PRIO_MAX
    <3>5. Touch(s3, s4, {"line", "prio_que", "thr", "enabled", "stie"})
      BY <3>2 DEF Touch
    <3> QED
      BY <3>1, <3>2, <3>3, <3>4, <3>5
  <2> QED
    BY <1>2, <2>1, <2>2
<1> HIDE DEF s4
<1>13. s4 \in QType /\ s4.frames = s.frames
  BY <1>10, <1>12 DEF Touch, QFields
<1>14. Front(s4.frames) \in Seq(FrameType)
  BY <1>13, FrontFacts, FrameFields
<1>15. m = [s4 EXCEPT !.frames = Front(s4.frames), !.sie = TRUE]
  BY DEF rv64_return_from_trap
<1>16. Touch(s4, m, {"frames", "sie"}) /\ m.frames = Front(s.frames) /\ m.sie
  <2> DEFINE v == Front(s4.frames)
  <2>1. v \in Seq(FrameType) /\ m = [s4 EXCEPT !.frames = v, !.sie = TRUE] /\ v = Front(s.frames)
    BY <1>13, <1>14, <1>15
  <2> HIDE DEF v, m
  <2> QED
    BY <1>13, <2>1 DEF Touch, QFields, QType
<1> HIDE DEF m
<1>17. Touch(s, m, FinishFields)
  BY <1>6, <1>7, <1>9, <1>12, <1>16 DEF Touch, FinishFields
<1>18. RefsSet(s, m, l, b)
  <2>1. m.line = s4.line
    BY <1>16 DEF Touch, QFields
  <2> QED
    BY <1>6, <1>10, <1>12, <2>1 DEF RefsSet
<1>19. m.prio_que = s4.prio_que /\ m.enabled = s4.enabled /\ m.thr = s4.thr
  BY <1>16 DEF Touch, QFields
<1>20. m.enabled \subseteq s.enabled \cup {l} /\ (b = 0 => l \notin m.enabled)
  BY <1>7, <1>10, <1>12, <1>19
<1>21. m.thr >= IF l \in PlicLines THEN f.prio ELSE s.thr
  BY <1>9, <1>12, <1>19
<1> QED
  BY <1>1, <1>12, <1>16, <1>17, <1>18, <1>19, <1>20, <1>21 DEF Finished, l, b

(* A step that moves only bits the lines and traps do not depend on.       *)
LEMMA SoundKept ==
    ASSUME NEW s, NEW m, Sound(s), Touch(s, m, {"sie", "stie", "stip", "ssip", "pend", "claimed"})
    PROVE  Sound(m)
<1>1. /\ m \in QType /\ m.line = s.line /\ m.prio_que = s.prio_que /\ m.ctrlrs = s.ctrlrs
      /\ m.frames = s.frames /\ m.panic = s.panic /\ m.enabled = s.enabled /\ m.thr = s.thr
      /\ m.lprio = s.lprio
  BY DEF Touch, QFields
<1>2. \A l \in Lines : LineOK(m, l) /\ RefsAre(m, l)
  <2> TAKE l \in Lines
  <2>1. LineOK(s, l) /\ RefsAre(s, l)
    BY DEF Sound, LinesOK
  <2>2. LineOK(m, l)
    BY <1>1, <2>1 DEF LineOK, Configured
  <2>3. RefsAre(m, l)
    BY <1>1, <2>1 DEF RefsAre, Base, Served, Serves
  <2> QED
    BY <2>2, <2>3
<1>3. LinesOK(m)
  BY <1>1, <1>2 DEF Sound, LinesOK
<1>4. FramesOK(m)
  BY <1>1 DEF Sound, FramesOK, Nests, EntOK
<1>5. MasksOK(m)
  BY <1>1 DEF Sound, MasksOK, Masking, FPrio
<1> QED
  BY <1>1, <1>3, <1>4, <1>5 DEF Sound

(* The end of the trap on top of the stack.                                *)
LEMMA FinishKeeps ==
    ASSUME NEW s, Sound(s), s.frames # <<>>, NEW f \in FrameType,
           f.line = s.frames[Len(s.frames)].line, s.frames[Len(s.frames)].pc = "handler",
           f.prio = s.frames[Len(s.frames)].prio
    PROVE  LET m == finish_irq_line(s, f)
           IN  Sound(m) /\ TopOK(m) /\ m.sie /\ Touch(s, m, FinishFields) /\ m.frames = Front(s.frames)
<1> DEFINE n == Len(s.frames)
           l == f.line
           m == finish_irq_line(s, f)
           fs == Front(s.frames)
<1>1. s \in QType /\ n \in Nat \ {0} /\ n \in 1..n
  BY FrameFields, FrontFacts DEF Sound
<1>2. l \in Lines /\ s.line[l].refs = Base(s, l) + 3 /\ s.line[l].refs > 0
  BY <1>1, ServedLine
<1>3. s.line[l].ctrlr = CtrlrOf(l) /\ l \in Range(s.prio_que) /\ Configured(s, l)
  BY <1>2, ReferredLine
<1>4. Finished(s, m, f)
  BY <1>1, <1>2, <1>3, FinishEffect DEF Sound, LinesOK
<1> HIDE DEF m
<1>5. /\ m \in QType /\ m.ctrlrs = s.ctrlrs /\ m.panic = s.panic /\ m.lprio = s.lprio
      /\ m.frames = fs /\ m.sie
  BY <1>4 DEF Finished, FinishFields, Touch, QFields
<1>6. /\ fs \in Seq(FrameType) /\ Len(fs) = n - 1 /\ DOMAIN fs = 1..(n - 1)
      /\ \A i \in 1..(n - 1) : i \in 1..n /\ fs[i] = s.frames[i]
  <2>1. fs \in Seq(FrameType) /\ Len(fs) = n - 1 /\ \A i \in 1..(n - 1) : fs[i] = s.frames[i]
    BY <1>1, FrontFacts, FrameFields
  <2> QED
    BY <1>1, <2>1, LenProperties
<1>7. /\ m.line[l].refs = Base(s, l) /\ m.line[l].prio = s.line[l].prio
      /\ m.line[l].attr = s.line[l].attr /\ m.line[l].handlers = s.line[l].handlers
      /\ m.line[l].ctrlr = s.line[l].ctrlr
      /\ \A k \in Lines \ {l} : m.line[k] = s.line[k]
  BY <1>4 DEF Finished, RefsSet
<1>8. \A k \in Lines : /\ m.line[k].prio = s.line[k].prio /\ m.line[k].attr = s.line[k].attr
                       /\ m.line[k].handlers = s.line[k].handlers /\ m.line[k].ctrlr = s.line[k].ctrlr
                       /\ Base(m, k) = Base(s, k)
  BY <1>7 DEF Base
<1>9. \A i \in 1..(n - 1) : /\ s.frames[i].pc = "handler" /\ Masking(s, i)
                            /\ s.frames[i].line \in PlicLines
                            /\ s.frames[i].line # l /\ FPrio(s, i) < FPrio(s, n)
                            /\ Nests(s, i) /\ EntOK(s, i)
  <2> TAKE i \in 1..(n - 1)
  <2>1. i \in 1..n /\ i < n
    BY <1>1
  <2>2. Masking(s, i) /\ s.frames[i].line # l /\ FPrio(s, i) < FPrio(s, n)
    BY <1>1, <2>1, ServedOnce
  <2>3. s.frames[i].pc = "handler" /\ Nests(s, i) /\ EntOK(s, i)
    BY DEF Sound, FramesOK
  <2> QED
    BY <2>2, <2>3 DEF Masking
<1>10. ASSUME NEW k \in Lines PROVE LineOK(m, k)
  <2>1. LineOK(s, k)
    BY DEF Sound, LinesOK
  <2>2. k \in Range(m.prio_que) <=> m.line[k].refs > 0
    <3>1. CASE k = l
      <4>1. Base(s, l) = 0 \/ Base(s, l) = 1
        BY DEF Base
      <4>2. Range(m.prio_que) = IF Base(s, l) = 0 THEN Range(s.prio_que) \ {l} ELSE Range(s.prio_que)
        BY <1>4 DEF Finished
      <4> QED
        BY <1>3, <1>7, <3>1, <4>1, <4>2
    <3>2. CASE k # l
      BY <1>4, <1>7, <2>1, <3>2 DEF Finished, LineOK
    <3> QED
      BY <3>1, <3>2
  <2>3. m.line[k].refs = 0 => k \notin m.enabled
    <3>1. CASE k = l
      BY <1>4, <1>7, <3>1 DEF Finished
    <3>2. CASE k # l
      BY <1>4, <1>7, <2>1, <3>2 DEF Finished, LineOK
    <3> QED
      BY <3>1, <3>2
  <2>4. m.line[k].prio = 0 \/ Configured(m, k)
    BY <1>8, <2>1, SMTT(30) DEF LineOK, Configured
  <2>5. m.line[k].refs > 0 => m.line[k].prio > 0
    BY <1>2, <1>7, <1>8, <2>1 DEF LineOK
  <2>6. k \in PlicLines => m.lprio[k] \in {0, m.line[k].prio}
    BY <1>5, <1>8, <2>1 DEF LineOK
  <2>7. IsInjective(m.line[k].handlers) /\ \A h \in Range(m.line[k].handlers) : LineOf[h] = k
    BY <1>8, <2>1 DEF LineOK
  <2> QED
    BY <2>2, <2>3, <2>4, <2>5, <2>6, <2>7 DEF LineOK
<1>11. ASSUME NEW k \in Lines PROVE RefsAre(m, k)
  <2>1. RefsAre(s, k)
    BY SMTT(30) DEF Sound, LinesOK
  <2>2. CASE k = l
    <3>1. ~ Served(m, l)
      BY <1>5, <1>6, <1>9 DEF Served, Serves
    <3> QED
      BY <1>7, <1>8, <2>2, <3>1 DEF RefsAre, Base
  <2>3. CASE k # l
    <3>1. Served(m, k) => Served(s, k)
      BY <1>1, <1>5, <1>6, FrameFields DEF Served, Serves
    <3>2. Served(s, k) => Served(m, k)
      <4> SUFFICES ASSUME NEW i \in DOMAIN s.frames, Serves(s, i, k) PROVE Served(m, k)
        BY DEF Served
      <4>1. i \in 1..n /\ i # n
        BY <1>1, <2>3, FrameFields DEF Serves
      <4>2. i \in 1..(n - 1)
        BY <1>1, <4>1
      <4> QED
        BY <1>5, <1>6, <4>2 DEF Served, Serves
    <3> QED
      BY <1>7, <1>8, <2>1, <2>3, <3>1, <3>2 DEF RefsAre
  <2> QED
    BY <2>2, <2>3
<1>12. LinesOK(m)
  BY <1>4, <1>5, <1>10, <1>11 DEF Sound, LinesOK, Finished
<1>13. \A i \in 1..(n - 1) : /\ m.frames[i] = s.frames[i] /\ m.frames[i].line \in Lines
                             /\ Nests(m, i) /\ EntOK(m, i) /\ FPrio(m, i) = FPrio(s, i)
  <2> TAKE i \in 1..(n - 1)
  <2>1. m.frames[i] = s.frames[i] /\ m.frames[i].line \in Lines
    BY <1>5, <1>6, <1>9, PlatformFacts, SMTT(30)
  <2> QED
    BY <1>8, <1>9, <2>1 DEF Nests, EntOK, FPrio
<1>14. FramesOK(m)
  <2>1. Len(m.frames) = n - 1 /\ n - 1 \in Nat /\ \A i \in 1..(n - 1 - 1) : i \in 1..(n - 1)
    BY <1>1, <1>5, <1>6
  <2> QED
    BY <1>9, <1>13, <2>1 DEF FramesOK
<1>15. MasksOK(m)
  <2>1. Len(m.frames) = n - 1
    BY <1>5, <1>6
  <2>2. ASSUME NEW i \in 1..(n - 1) PROVE FPrio(m, i) <= m.thr
    <3>1. i \in 1..n /\ i < n /\ FPrio(s, i) <= f.prio /\ FPrio(s, i) <= s.thr
      <4>1. i \in 1..n /\ i < n
        BY <1>1
      <4> QED
        BY <1>1, <1>9, <4>1 DEF Sound, MasksOK
    <3>2. FPrio(s, i) \in Nat
      BY <1>1, <1>9, LineFields, PlatformFacts DEF FPrio
    <3>3. m.thr >= (IF l \in PlicLines THEN f.prio ELSE s.thr)
      BY <1>4 DEF Finished
    <3>4. f.prio \in Nat /\ s.thr \in Nat /\ m.thr \in Nat
      BY <1>1, <1>5 DEF FrameType, QType, PLIC_PRIO_MAX
    <3> QED
      BY <1>13, <3>1, <3>2, <3>3, <3>4
  <2>3. ASSUME NEW i \in 1..(n - 1), NEW j \in 1..(n - 1), i < j
        PROVE  FPrio(m, i) <= m.frames[j].prio /\ FPrio(m, i) < FPrio(m, j)
    <3>1. i \in 1..n /\ j \in 1..n /\ Masking(s, i) /\ s.frames[j].pc = "handler"
      BY <1>6, <1>9
    <3> QED
      BY <1>13, <2>3, <3>1 DEF Sound, MasksOK
  <2> QED
    BY <2>1, <2>2, <2>3 DEF MasksOK
<1>16. TopOK(m)
  <2> SUFFICES ASSUME m.frames # <<>>
               PROVE  /\ m.frames[n - 1].pc = "handler"
                      /\ (m.sie <=> Nests(m, n - 1)) /\ EntOK(m, n - 1)
    BY <1>5, <1>6 DEF TopOK
  <2>1. n - 1 \in 1..(n - 1)
    BY <1>1, <1>5, <1>6, FrontFacts
  <2> QED
    BY <1>5, <1>9, <1>13, <2>1
<1> QED
  BY <1>4, <1>5, <1>12, <1>14, <1>15, <1>16 DEF Sound, Finished, m

-----------------------------------------------------------------------------
(* Changes of the frame on top of the stack, and of one line.              *)

\* The trap on top of the stack has another handler, or looks for another line.
SameTraps(s, m) ==
    /\ Touch(s, m, {"frames", "sie"})
    /\ Len(m.frames) = Len(s.frames)
    /\ \A i \in 1..Len(s.frames) : m.frames[i].pc = s.frames[i].pc
    /\ \A i \in 1..Len(s.frames) : s.frames[i].pc = "handler" =>
         m.frames[i].line = s.frames[i].line /\ m.frames[i].prio = s.frames[i].prio
    /\ \A i \in 1..(Len(s.frames) - 1) : m.frames[i] = s.frames[i]

LEMMA SameTrapsSound ==
    ASSUME NEW s, NEW m, Sound(s), SameTraps(s, m)
    PROVE  Sound(m)
<1> DEFINE n == Len(s.frames)
<1>1. /\ m \in QType /\ m.line = s.line /\ m.prio_que = s.prio_que /\ m.ctrlrs = s.ctrlrs
      /\ m.panic = s.panic /\ m.enabled = s.enabled /\ m.thr = s.thr /\ m.lprio = s.lprio
  BY DEF SameTraps, Touch, QFields
<1>2. /\ Len(m.frames) = n /\ DOMAIN m.frames = 1..n /\ DOMAIN s.frames = 1..n /\ n \in Nat
      /\ \A i \in 1..n : m.frames[i].pc = s.frames[i].pc
      /\ \A i \in 1..n : s.frames[i].pc = "handler" =>
           m.frames[i].line = s.frames[i].line /\ m.frames[i].prio = s.frames[i].prio
      /\ \A i \in 1..(n - 1) : m.frames[i] = s.frames[i]
  BY <1>1, FrameFields DEF SameTraps, Sound
<1> HIDE DEF n
<1>3. \A l \in Lines : LineOK(m, l) /\ RefsAre(m, l)
  <2> TAKE l \in Lines
  <2>1. LineOK(s, l) /\ RefsAre(s, l)
    BY DEF Sound, LinesOK
  <2>2. LineOK(m, l)
    BY <1>1, <2>1 DEF LineOK, Configured
  <2>3. Served(m, l) <=> Served(s, l)
    BY <1>2 DEF Served, Serves
  <2> QED
    BY <1>1, <2>1, <2>2, <2>3 DEF RefsAre, Base
<1>4. LinesOK(m)
  BY <1>1, <1>3 DEF Sound, LinesOK
<1>5. FramesOK(m)
  <2>1. \A i \in 1..n : s.frames[i].pc = "handler" => s.frames[i].line \in Lines
    BY DEF Sound, FramesOK, n
  <2>2. \A i \in 1..(n - 1) : s.frames[i].pc = "handler" /\ Nests(s, i) /\ EntOK(s, i)
    BY DEF Sound, FramesOK, n
  <2>3. \A i \in 1..(n - 1) : m.frames[i].pc = "handler" /\ Nests(m, i) /\ EntOK(m, i)
    BY <1>1, <1>2, <2>2 DEF Nests, EntOK
  <2> QED
    BY <1>2, <2>1, <2>3 DEF FramesOK
<1>6. MasksOK(m)
  <2>1. \A i \in 1..n : m.frames[i].pc = "handler" =>
          (Masking(m, i) <=> Masking(s, i)) /\ FPrio(m, i) = FPrio(s, i)
    BY <1>1, <1>2 DEF Masking, FPrio
  <2>2. \A i \in 1..n : Masking(s, i) => FPrio(s, i) <= s.thr
    BY DEF Sound, MasksOK, n
  <2>3. \A i, j \in 1..n : i < j /\ Masking(s, i) /\ s.frames[j].pc = "handler" =>
          FPrio(s, i) <= s.frames[j].prio /\ FPrio(s, i) < FPrio(s, j)
    BY DEF Sound, MasksOK, n
  <2>4. \A i \in 1..n : Masking(m, i) => m.frames[i].pc = "handler"
    BY DEF Masking
  <2>5. \A i \in 1..n : Masking(m, i) => FPrio(m, i) <= m.thr
    BY <1>1, <2>1, <2>2, <2>4
  <2>6. \A i, j \in 1..n : i < j /\ Masking(m, i) /\ m.frames[j].pc = "handler" =>
          FPrio(m, i) <= m.frames[j].prio /\ FPrio(m, i) < FPrio(m, j)
    BY <1>2, <2>1, <2>3, <2>4
  <2> QED
    BY <1>2, <2>5, <2>6 DEF MasksOK
<1> QED
  BY <1>1, <1>4, <1>5, <1>6 DEF Sound

(* Another frame on top of the stack.                                      *)
LEMMA SetTopEffect ==
    ASSUME NEW s \in QType, s.frames # <<>>, NEW g \in FrameType, NEW b \in BOOLEAN
    PROVE  LET m == [SetTop(s, g) EXCEPT !.sie = b]
               n == Len(s.frames)
           IN  /\ Touch(s, m, {"frames", "sie"})
               /\ Len(m.frames) = n /\ m.frames[n] = g /\ m.sie = b
               /\ \A i \in 1..(n - 1) : m.frames[i] = s.frames[i]
<1> DEFINE n == Len(s.frames)
           fs == [s.frames EXCEPT ![n] = g]
           m == [SetTop(s, g) EXCEPT !.sie = b]
<1>1. s.frames \in Seq(FrameType) /\ n \in Nat \ {0} /\ DOMAIN s.frames = 1..n
  BY FrameFields, FrontFacts
<1>2. /\ fs \in Seq(FrameType) /\ Len(fs) = n /\ fs[n] = g
      /\ \A i \in 1..(n - 1) : fs[i] = s.frames[i]
  BY <1>1
<1>3. m = [s EXCEPT !.frames = fs, !.sie = b]
  BY DEF SetTop, QType
<1> HIDE DEF fs, m
<1>4. Touch(s, m, {"frames", "sie"}) /\ m.frames = fs /\ m.sie = b
  BY <1>2, <1>3 DEF Touch, QFields, QType
<1> QED
  BY <1>2, <1>4 DEF m

(* A function that changes one line, and only that.                        *)
OneLineFields == {"line", "prio_que", "thr", "enabled", "stie", "lprio"}
LEMMA OneLine ==
    ASSUME NEW s, NEW m, Sound(s), NEW l \in Lines,
           Touch(s, m, OneLineFields),
           \A k \in Lines \ {l} : m.line[k] = s.line[k],
           IsInjective(m.prio_que),
           \A k \in Lines \ {l} : k \in Range(m.prio_que) <=> k \in Range(s.prio_que),
           m.enabled \subseteq s.enabled \cup {l}, m.thr >= s.thr,
           \A k \in PlicLines \ {l} : m.lprio[k] = s.lprio[k],
           LineOK(m, l), RefsAre(m, l),
           \A i \in 1..Len(s.frames) : Serves(s, i, l) =>
             m.line[l].prio = s.line[l].prio /\ m.line[l].attr = s.line[l].attr,
           \A i \in 1..(Len(s.frames) - 1) : s.frames[i].line # l
    PROVE  Sound(m)
<1> DEFINE n == Len(s.frames)
<1>1. m \in QType /\ m.ctrlrs = s.ctrlrs /\ m.panic = s.panic /\ m.frames = s.frames
  BY DEF Touch, QFields, OneLineFields
<1>2. /\ n \in Nat /\ DOMAIN s.frames = 1..n /\ DOMAIN m.frames = 1..n /\ Len(m.frames) = n
  BY <1>1, FrameFields DEF Sound
<1>3. \A k \in Lines \ {l} : LineOK(m, k) /\ RefsAre(m, k)
  <2> TAKE k \in Lines \ {l}
  <2>1. LineOK(s, k) /\ RefsAre(s, k) /\ m.line[k] = s.line[k]
    BY DEF Sound, LinesOK
  <2>2. LineOK(m, k)
    BY <2>1 DEF LineOK, Configured
  <2>3. RefsAre(m, k)
    BY <1>1, <2>1 DEF RefsAre, Base, Served, Serves
  <2> QED
    BY <2>2, <2>3
<1>4. LinesOK(m)
  BY <1>1, <1>3 DEF Sound, LinesOK
<1>5. \A i \in 1..n : s.frames[i].pc = "handler" =>
        /\ s.frames[i].line \in Lines
        /\ m.line[s.frames[i].line].prio = s.line[s.frames[i].line].prio
        /\ m.line[s.frames[i].line].attr = s.line[s.frames[i].line].attr
  <2> TAKE i \in 1..n
  <2>1. s.frames[i].pc = "handler" => s.frames[i].line \in Lines
    BY DEF Sound, FramesOK
  <2> QED
    BY <2>1 DEF Serves
<1>6. FramesOK(m)
  <2>1. ASSUME NEW i \in 1..(n - 1)
        PROVE  m.frames[i].pc = "handler" /\ Nests(m, i) /\ EntOK(m, i)
    <3>1. s.frames[i].pc = "handler" /\ Nests(s, i) /\ EntOK(s, i) /\ i \in 1..n
      BY <1>2 DEF Sound, FramesOK
    <3>2. m.line[s.frames[i].line] = s.line[s.frames[i].line]
      BY <1>5, <3>1
    <3> QED
      BY <1>1, <3>1, <3>2 DEF Nests, EntOK
  <2> QED
    BY <1>1, <1>2, <1>5, <2>1 DEF FramesOK
<1>7. MasksOK(m)
  <2>1. \A i \in 1..n : s.frames[i].pc = "handler" => FPrio(m, i) = FPrio(s, i)
    BY <1>1, <1>5 DEF FPrio
  <2>2. \A i \in 1..n : Masking(m, i) <=> Masking(s, i)
    BY <1>1 DEF Masking
  <2>3. \A i \in 1..n : Masking(s, i) => s.frames[i].pc = "handler" /\ FPrio(s, i) \in Nat
    <3> TAKE i \in 1..n
    <3> QED
      BY <1>5, LineFields DEF Masking, FPrio, Sound
  <2>4. s.thr \in Nat /\ m.thr \in Nat
    BY <1>1 DEF Sound, QType, PLIC_PRIO_MAX
  <2>5. \A i \in 1..n : Masking(s, i) => FPrio(s, i) <= s.thr
    BY DEF Sound, MasksOK
  <2>6. \A i, j \in 1..n : i < j /\ Masking(s, i) /\ s.frames[j].pc = "handler" =>
          FPrio(s, i) <= s.frames[j].prio /\ FPrio(s, i) < FPrio(s, j)
    BY DEF Sound, MasksOK
  <2>7. \A i \in 1..n : Masking(m, i) => FPrio(m, i) <= m.thr
    BY <2>1, <2>2, <2>3, <2>4, <2>5
  <2>8. \A i, j \in 1..n : i < j /\ Masking(m, i) /\ m.frames[j].pc = "handler" =>
          FPrio(m, i) <= m.frames[j].prio /\ FPrio(m, i) < FPrio(m, j)
    BY <1>1, <2>1, <2>2, <2>3, <2>6
  <2> QED
    BY <1>2, <2>7, <2>8 DEF MasksOK
<1> QED
  BY <1>1, <1>4, <1>6, <1>7 DEF Sound

-----------------------------------------------------------------------------
(* Handlers are called and return.                                         *)

LEMMA TopFacts ==
    ASSUME NEW s, Sound(s), s.frames # <<>>
    PROVE  /\ s \in QType /\ Len(s.frames) \in 1..Len(s.frames) /\ Len(s.frames) \in Nat \ {0}
           /\ Top(s) = s.frames[Len(s.frames)] /\ Top(s) \in FrameType
BY FrameFields, FrontFacts DEF Sound, Top

(* The next handler of a line is called.                                   *)
LEMMA CallKeeps ==
    ASSUME NEW s, Sound(s), s.frames # <<>>, Top(s).pc = "handler",
           NEW e \in Range(s.line[Top(s).line].handlers)
    PROVE  LET m == call_handler(s, Top(s), e)
               n == Len(s.frames)
           IN  /\ Sound(m) /\ TopOK(m) /\ Touch(s, m, {"frames", "sie"})
               /\ Len(m.frames) = n /\ m.frames[n].line = s.frames[n].line
<1> DEFINE n == Len(s.frames)
           f == Top(s)
           g == [f EXCEPT !.pc = "handler", !.ent = e]
           b == "NESTABLE" \in s.line[f.line].attr
           m == [SetTop(s, g) EXCEPT !.sie = b]
<1>1. s \in QType /\ n \in 1..n /\ n \in Nat \ {0} /\ f = s.frames[n] /\ f \in FrameType
  BY TopFacts
<1>2. f.line \in Lines
  BY <1>1, ServedLine
<1>3. e \in Handlers
  BY <1>1, <1>2, LineFields, ElementOfSeq, LenProperties DEF Range
<1>4. e # NULL
  BY <1>3, PlatformFacts
<1>5. call_handler(s, f, e) = m
  BY <1>4 DEF call_handler
<1>6. g \in FrameType /\ g.pc = "handler" /\ g.line = f.line /\ g.prio = f.prio /\ g.ent = e
  BY <1>1, <1>3 DEF FrameType
<1>7. b \in BOOLEAN
  OBVIOUS
<1> HIDE DEF g, b
<1>8. /\ Touch(s, m, {"frames", "sie"})
      /\ Len(m.frames) = n /\ m.frames[n] = g /\ m.sie = b
      /\ \A i \in 1..(n - 1) : m.frames[i] = s.frames[i]
  BY <1>1, <1>6, <1>7, SetTopEffect
<1> HIDE DEF m
<1>9. \A i \in 1..n : m.frames[i].pc = s.frames[i].pc /\ m.frames[i].line = s.frames[i].line
                      /\ m.frames[i].prio = s.frames[i].prio
  <2> TAKE i \in 1..n
  <2>1. i = n \/ i \in 1..(n - 1)
    BY <1>1
  <2> QED
    BY <1>1, <1>6, <1>8, <2>1
<1>10. SameTraps(s, m)
  BY <1>8, <1>9 DEF SameTraps
<1>11. Sound(m)
  BY <1>10, SameTrapsSound
<1>12. m.line = s.line
  BY <1>8 DEF Touch, QFields
<1>13. (m.sie <=> Nests(m, n)) /\ EntOK(m, n) /\ m.frames[n].pc = "handler"
  BY <1>1, <1>6, <1>8, <1>12 DEF Nests, EntOK, b
<1>14. TopOK(m)
  BY <1>8, <1>13 DEF TopOK
<1> QED
  BY <1>1, <1>5, <1>6, <1>8, <1>11, <1>14

(* The handler behind another in the queue of its line.                    *)
LEMMA NextHandlerFacts ==
    ASSUME NEW s \in QType, NEW l \in Lines, NEW h \in Range(s.line[l].handlers)
    PROVE  NextHandler(s, l, h) = NULL \/ NextHandler(s, l, h) \in Range(s.line[l].handlers)
<1> DEFINE hs == s.line[l].handlers
           i == CHOOSE j \in DOMAIN hs : hs[j] = h
<1>1. hs \in Seq(Handlers) /\ DOMAIN hs = 1..Len(hs) /\ Len(hs) \in Nat
  BY LineFields, LenProperties
<1>2. \E j \in DOMAIN hs : hs[j] = h
  BY DEF Range
<1>3. i \in DOMAIN hs
  BY <1>2
<1>4. NextHandler(s, l, h) = IF i = Len(hs) THEN NULL ELSE hs[i + 1]
  BY DEF NextHandler
<1> HIDE DEF i
<1>5. i # Len(hs) => i + 1 \in DOMAIN hs
  BY <1>1, <1>3
<1> QED
  BY <1>4, <1>5 DEF Range

(* A handler has returned.  ReturnFields is all that may change.           *)
ReturnFields == {"line", "prio_que", "thr", "enabled", "stie", "frames", "sie"}

\* The trap ends, or the next handler of its line runs.
Returned(s, m) ==
    /\ Sound(m) /\ TopOK(m) /\ Touch(s, m, ReturnFields)
    /\ \/ m.sie
       \/ /\ Len(m.frames) = Len(s.frames)
          /\ m.frames[Len(s.frames)].line = s.frames[Len(s.frames)].line

LEMMA ReturnKeeps ==
    ASSUME NEW s, Sound(s), s.frames # <<>>, Top(s).pc = "handler", NEW handled \in BOOLEAN,
           handled \/ EntOK(s, Len(s.frames))
    PROVE  LET m == HandlerReturns(s, handled) IN Returned(s, m) /\ (handled => m.sie)
<1> DEFINE n == Len(s.frames)
           r == [s EXCEPT !.sie = FALSE]
           f == Top(s)
           e == IF handled THEN NULL ELSE NextHandler(s, f.line, f.ent)
           m == call_handler(r, f, e)
<1>1. s \in QType /\ n \in 1..n /\ f = s.frames[n] /\ f \in FrameType
  BY TopFacts
<1>2. HandlerReturns(s, handled) = m
  BY DEF HandlerReturns
<1>3. Touch(s, r, {"sie"})
  BY <1>1 DEF Touch, QFields, QType
<1> HIDE DEF r
<1>4. r \in QType /\ r.line = s.line /\ r.frames = s.frames
  BY <1>3 DEF Touch, QFields
<1>5. Sound(r)
  <2>1. Touch(s, r, {"sie", "stie", "stip", "ssip", "pend", "claimed"})
    BY <1>3 DEF Touch
  <2> QED
    BY <2>1, SoundKept
<1>6. f = Top(r)
  BY <1>4 DEF Top
<1>7. f.line \in Lines
  BY <1>1, ServedLine
<1>8. CASE e = NULL
  <2>1. m = finish_irq_line(r, f)
    BY <1>8 DEF call_handler
  <2>2. Sound(m) /\ TopOK(m) /\ m.sie /\ Touch(r, m, FinishFields)
    BY <1>1, <1>4, <1>5, <2>1, FinishKeeps
  <2>3. Touch(s, m, ReturnFields)
    BY <1>3, <2>2 DEF Touch, FinishFields, ReturnFields
  <2> QED
    BY <1>2, <2>2, <2>3 DEF Returned
<1>9. CASE e # NULL
  <2>1. ~ handled /\ f.ent \in Range(s.line[f.line].handlers)
    BY <1>1, <1>4, <1>9 DEF EntOK
  <2>2. e \in Range(r.line[f.line].handlers)
    BY <1>1, <1>4, <1>7, <1>9, <2>1, NextHandlerFacts
  <2> HIDE DEF e, m
  <2>3. /\ Sound(m) /\ TopOK(m) /\ Touch(r, m, {"frames", "sie"})
        /\ Len(m.frames) = n /\ m.frames[n].line = s.frames[n].line
    BY <1>4, <1>5, <1>6, <2>2, CallKeeps DEF m
  <2>4. Touch(s, m, ReturnFields)
    BY <1>3, <2>3 DEF Touch, ReturnFields
  <2> QED
    BY <1>2, <2>1, <2>3, <2>4 DEF Returned
<1> QED
  BY <1>8, <1>9

(* The timer handler runs with interrupts off.                             *)
LEMMA TimerMasked ==
    ASSUME NEW s, Sound(s), TopOK(s), TimerRuns(s)
    PROVE  ~ s.sie /\ s.frames[Len(s.frames)].line = 32
<1> DEFINE n == Len(s.frames)
           l == s.frames[n].line
<1>1. s.frames # <<>> /\ s.frames[n].pc = "handler" /\ s.frames[n].ent = Timer /\ n \in 1..n
  BY TopFacts DEF TimerRuns
<1>2. (s.sie <=> Nests(s, n)) /\ EntOK(s, n)
  BY <1>1 DEF TopOK
<1>3. l \in Lines /\ s.line[l].refs > 0
  BY <1>1, ServedLine
<1>4. LineOK(s, l)
  BY <1>3, SMTT(30) DEF Sound, LinesOK
<1>5. LineOf[Timer] = l
  BY <1>1, <1>2, <1>4 DEF EntOK, LineOK
<1>6. l = 32 /\ l \notin PlicLines
  BY <1>5, PlatformFacts
<1>7. ~ Nests(s, n)
  BY <1>3, <1>6, ReferredLine DEF Nests
<1> QED
  BY <1>2, <1>6, <1>7

-----------------------------------------------------------------------------
(* Registration.                                                           *)

(* Without traps no line is served; the trap on top serves one line only.  *)
LEMMA ServedByTop ==
    ASSUME NEW s, Sound(s), NEW l \in Lines
    PROVE  /\ s.frames = <<>> => ~ Served(s, l) /\ Len(s.frames) = 0
           /\ s.frames # <<>> /\ Top(s).pc = "handler" /\ Top(s).line = l =>
                /\ Served(s, l)
                /\ \A i \in 1..(Len(s.frames) - 1) : s.frames[i].line # l
<1>1. DOMAIN s.frames = 1..Len(s.frames) /\ Len(s.frames) \in Nat
  BY FrameFields DEF Sound
<1>2. CASE s.frames = <<>>
  BY <1>1, <1>2 DEF Served
<1>3. CASE s.frames # <<>> /\ Top(s).pc = "handler" /\ Top(s).line = l
  <2> DEFINE n == Len(s.frames)
  <2>1. n \in 1..n /\ s.frames[n].pc = "handler" /\ s.frames[n].line = l
    BY <1>3, TopFacts
  <2>2. Served(s, l)
    BY <1>1, <2>1 DEF Served, Serves
  <2>3. ASSUME NEW i \in 1..(n - 1) PROVE s.frames[i].line # l
    <3>1. i \in 1..n /\ i < n
      BY <1>1
    <3> QED
      BY <2>1, <3>1, ServedOnce
  <2> QED
    BY <1>3, <2>2, <2>3
<1> QED
  BY <1>2, <1>3

(* A handler is removed by a thread, or by itself while it runs.           *)
UnregisterFields == {"line", "prio_que", "thr", "enabled", "stie"}
LEMMA UnregisterKeeps ==
    ASSUME NEW s, Sound(s), NEW h \in Handlers, h \in Range(s.line[LineOf[h]].handlers),
           s.frames = <<>> \/ (Top(s).pc = "handler" /\ Top(s).line = LineOf[h])
    PROVE  LET m == irq_unregister_handler(s, h)
           IN  Sound(m) /\ Touch(s, m, UnregisterFields)
<1> DEFINE l == LineOf[h]
           hs == s.line[l].handlers
           v == Without(hs, h)
           s1 == [s EXCEPT !.line[l].handlers = v]
           m == irq_unregister_handler(s, h)
<1>1. s \in QType /\ l \in Lines
  BY PlatformFacts DEF Sound
<1>2. hs \in Seq(Handlers) /\ hs # <<>>
  BY <1>1, LineFields DEF Range
<1>3. LineOK(s, l) /\ RefsAre(s, l)
  BY <1>1 DEF Sound, LinesOK
<1>4. s.line[l].refs > 0 /\ s.line[l].refs = 1 + IF Served(s, l) THEN 3 ELSE 0
  BY <1>2, <1>3 DEF RefsAre, Base
<1>5. s.line[l].ctrlr = CtrlrOf(l) /\ l \in Range(s.prio_que)
  BY <1>1, <1>4, ReferredLine
<1>6. s.line[l].ctrlr # NULL
  BY <1>5, PlatformAssumption DEF CtrlrOf, Ctrlrs
<1>7. /\ v \in Seq(Handlers) /\ IsInjective(v) /\ Range(v) = Range(hs) \ {h}
  BY <1>2, <1>3, WithoutFacts DEF LineOK
<1> HIDE DEF v
<1>8. /\ Touch(s, s1, {"line"})
      /\ s1.line[l].refs = s.line[l].refs /\ s1.line[l].prio = s.line[l].prio
      /\ s1.line[l].attr = s.line[l].attr /\ s1.line[l].handlers = v
      /\ s1.line[l].ctrlr = s.line[l].ctrlr
      /\ \A k \in Lines \ {l} : s1.line[k] = s.line[k]
  BY <1>1, <1>7, SetHandlers, ZenonT(60)
<1>9. m = IF v = <<>> THEN irqline_put(s1, l) ELSE s1
  <2>1. Contains(hs, h)
    BY <1>2, LenProperties DEF Contains, Range
  <2>2. m = IF s1.line[l].handlers = <<>> THEN irqline_put(s1, l) ELSE s1
    BY <1>6, <2>1 DEF irq_unregister_handler, v
  <2> QED
    BY <1>8, <2>2
<1> HIDE DEF s1, m
<1>10. /\ s1 \in QType /\ s1.prio_que = s.prio_que /\ s1.enabled = s.enabled /\ s1.thr = s.thr
       /\ s1.lprio = s.lprio /\ s1.frames = s.frames
  BY <1>8 DEF Touch, QFields
<1>11. IsInjective(s.prio_que) /\ s.thr \in Nat
  BY <1>1 DEF Sound, LinesOK, QType, PLIC_PRIO_MAX
\* What the function leaves, by the number of references that it leaves.
<1>12. /\ Touch(s, m, UnregisterFields)
       /\ m.line[l].handlers = v
       /\ m.line[l].refs = (IF v = <<>> THEN 0 ELSE 1) + IF Served(s, l) THEN 3 ELSE 0
       /\ m.line[l].prio = s.line[l].prio /\ m.line[l].attr = s.line[l].attr
       /\ m.line[l].ctrlr = s.line[l].ctrlr
       /\ \A k \in Lines \ {l} : m.line[k] = s.line[k]
       /\ IsInjective(m.prio_que)
       /\ Range(m.prio_que) = IF m.line[l].refs = 0 THEN Range(s.prio_que) \ {l} ELSE Range(s.prio_que)
       /\ m.enabled \subseteq s.enabled
       /\ m.line[l].refs = 0 => l \notin m.enabled
       /\ m.thr >= s.thr
  <2>1. CASE v # <<>>
    <3>1. m = s1 /\ m.line[l].refs # 0
      BY <1>4, <1>8, <1>9, <2>1
    <3>2. Touch(s, m, UnregisterFields)
      BY <1>8, <3>1 DEF Touch, UnregisterFields
    <3>3. m.line[l].refs = 1 + IF Served(s, l) THEN 3 ELSE 0
      BY <1>4, <1>8, <3>1
    <3>4. m.prio_que = s.prio_que /\ m.enabled = s.enabled /\ m.thr >= s.thr
      BY <1>10, <1>11, <3>1
    <3> QED
      BY <1>8, <1>11, <2>1, <3>1, <3>2, <3>3, <3>4
  <2>2. CASE v = <<>> /\ Served(s, l)
    <3>1. m = irqline_put(s1, l) /\ s1.line[l].refs > 1 /\ s1.line[l].refs - 1 = 3
      BY <1>4, <1>8, <1>9, <2>2
    <3>2. Touch(s1, m, {"line"}) /\ RefsSet(s1, m, l, 3)
      BY <1>1, <1>10, <3>1, PutEffect
    <3>3. Touch(s, m, UnregisterFields)
      BY <1>8, <3>2 DEF Touch, UnregisterFields
    <3>4. m.prio_que = s.prio_que /\ m.enabled = s.enabled /\ m.thr >= s.thr
      BY <1>10, <1>11, <3>2 DEF Touch, QFields
    <3> QED
      BY <1>8, <1>11, <2>2, <3>2, <3>3, <3>4 DEF RefsSet
  <2>3. CASE v = <<>> /\ ~ Served(s, l)
    <3>1. m = irqline_put(s1, l) /\ s1.line[l].refs = 1 /\ s1.line[l].ctrlr = CtrlrOf(l)
      BY <1>4, <1>5, <1>8, <1>9, <2>3
    <3>2. /\ Touch(s1, m, {"line", "prio_que", "thr", "enabled", "stie"}) /\ RefsSet(s1, m, l, 0)
          /\ IsInjective(m.prio_que) /\ Range(m.prio_que) = Range(s.prio_que) \ {l}
          /\ m.enabled = s.enabled \ {l} /\ m.thr >= s.thr
      BY <1>1, <1>5, <1>10, <1>11, <3>1, PutLastEffect
    <3>3. Touch(s, m, UnregisterFields)
      BY <1>8, <3>2 DEF Touch, UnregisterFields
    <3> QED
      BY <1>8, <2>3, <3>2, <3>3 DEF RefsSet
  <2> QED
    BY <2>1, <2>2, <2>3
<1>13. m \in QType /\ m.lprio = s.lprio /\ m.frames = s.frames
  BY <1>12 DEF Touch, QFields, UnregisterFields
<1>14. LineOK(m, l)
  <2>1. l \in Range(m.prio_que) <=> m.line[l].refs > 0
    BY <1>5, <1>12
  <2>2. IsInjective(m.line[l].handlers) /\ \A g \in Range(m.line[l].handlers) : LineOf[g] = l
    BY <1>3, <1>7, <1>12 DEF LineOK
  <2>3. m.line[l].prio = 0 \/ Configured(m, l)
    BY <1>3, <1>12 DEF LineOK, Configured
  <2>4. m.line[l].refs > 0 => m.line[l].prio > 0
    BY <1>3, <1>4, <1>12 DEF LineOK
  <2>5. l \in PlicLines => m.lprio[l] \in {0, m.line[l].prio}
    BY <1>3, <1>12, <1>13 DEF LineOK
  <2> QED
    BY <1>12, <2>1, <2>2, <2>3, <2>4, <2>5 DEF LineOK
<1>15. RefsAre(m, l)
  <2>1. Served(m, l) <=> Served(s, l)
    BY <1>13 DEF Served, Serves
  <2> QED
    BY <1>12, <2>1 DEF RefsAre, Base
<1>16. \A i \in 1..(Len(s.frames) - 1) : s.frames[i].line # l
  BY <1>1, ServedByTop
<1>17. Touch(s, m, OneLineFields)
  BY <1>12 DEF Touch, UnregisterFields, OneLineFields
<1>18. Sound(m)
  <2>1. \A k \in Lines \ {l} : k \in Range(m.prio_que) <=> k \in Range(s.prio_que)
    BY <1>12
  <2>2. m.enabled \subseteq s.enabled \cup {l}
    BY <1>12
  <2> QED
    BY <1>1, <1>12, <1>13, <1>14, <1>15, <1>16, <1>17, <2>1, <2>2, OneLine
<1> QED
  BY <1>12, <1>18 DEF m

(* The controller that is found for a line, if one is.                     *)
LEMMA SeenFacts ==
    ASSUME NEW s, s.ctrlrs \in {<<"CLINT">>, <<"CLINT", "PLIC">>},
           NEW l \in Lines, l \in PlicLines \/ l = 32, CtrlrsSeen(s, l) # {}
    PROVE  s.ctrlrs[FirstSeen(s, l)] = CtrlrOf(l) /\ l # MaxIrq[CtrlrOf(l)]
<1> DEFINE C == CtrlrsSeen(s, l)
           i == FirstSeen(s, l)
<1>1. l \in Nat /\ l > 0 /\ (l \in PlicLines => l < 32) /\ 32 \notin PlicLines
  BY PlatformFacts
<1>2. s.ctrlrs[1] = "CLINT" /\ DOMAIN s.ctrlrs \subseteq {1, 2}
      /\ (2 \in DOMAIN s.ctrlrs => s.ctrlrs[2] = "PLIC") /\ 1 \in DOMAIN s.ctrlrs
  BY LenProperties
<1>3. 1 \in C <=> l = 32
  BY <1>1, <1>2 DEF CtrlrsSeen, MinIrq, MaxIrq, PlicLines
<1>4. C \subseteq {1, 2}
  BY <1>2 DEF CtrlrsSeen
<1>5. \E j \in C : \A k \in C : j <= k
  BY <1>4
<1>6. i \in C /\ \A k \in C : i <= k
  BY <1>5 DEF FirstSeen
<1> HIDE DEF i
<1>7. i = IF l = 32 THEN 1 ELSE 2
  BY <1>3, <1>4, <1>6
<1>8. s.ctrlrs[i] = CtrlrOf(l)
  BY <1>1, <1>2, <1>4, <1>6, <1>7 DEF CtrlrOf, CtrlrsSeen
<1>9. l # MaxIrq[CtrlrOf(l)]
  BY <1>1 DEF CtrlrOf, MaxIrq
<1> QED
  BY <1>8, <1>9 DEF i

(* What the controller makes of a line that it accepts.                    *)
LEMMA ConfigEffect ==
    ASSUME NEW s \in QType, NEW h \in Handlers,
           config_irq_ok(CtrlrOf(LineOf[h]), AttrOf[h], PrioOf[h])
    PROVE  LET l == LineOf[h]
               m == config_irq(s, CtrlrOf(l), l, PrioOf[h])
           IN  /\ Accepted(h)
               /\ Touch(s, m, {"stie", "enabled", "lprio"})
               /\ m.enabled \subseteq s.enabled \cup {l}
               /\ \A k \in PlicLines \ {l} : m.lprio[k] = s.lprio[k]
               /\ l \in PlicLines => m.lprio[l] = PrioOf[h]
<1> DEFINE l == LineOf[h]
           p == PrioOf[h]
           m == config_irq(s, CtrlrOf(l), l, p)
<1>1. CASE l \in PlicLines
  <2>1. plic_config_irq_ok(AttrOf[h], p)
    BY <1>1 DEF config_irq_ok, CtrlrOf
  <2>2. p \in 0..PLIC_PRIO_MAX
    BY <2>1 DEF plic_config_irq_ok, PLIC_PRIO_MIN, PLIC_PRIO_MAX
  <2> DEFINE e == s.enabled \cup {l}
             v == [s.lprio EXCEPT ![l] = p]
  <2>3. m = [s EXCEPT !.lprio = v, !.enabled = e]
    BY <1>1 DEF config_irq, CtrlrOf, plic_config_irq, QType
  <2>4. e \in SUBSET PlicLines
    BY <1>1 DEF QType
  <2>5. v \in [PlicLines -> 0..PLIC_PRIO_MAX] /\ v[l] = p /\ \A k \in PlicLines \ {l} : v[k] = s.lprio[k]
    BY <1>1, <2>2 DEF QType
  <2> HIDE DEF v, e
  <2>6. Touch(s, m, {"stie", "enabled", "lprio"}) /\ m.lprio = v /\ m.enabled = e
    BY <2>3, <2>4, <2>5 DEF Touch, QFields, QType
  <2>7. Accepted(h)
    BY <2>1 DEF Accepted
  <2> QED
    BY <2>5, <2>6, <2>7 DEF e
<1>2. CASE l \notin PlicLines
  <2>1. m = [s EXCEPT !.stie = TRUE]
    BY <1>2 DEF config_irq, CtrlrOf, clint_config_irq
  <2>2. Touch(s, m, {"stie", "enabled", "lprio"}) /\ m.lprio = s.lprio /\ m.enabled = s.enabled
    BY <2>1 DEF Touch, QFields, QType
  <2>3. Accepted(h)
    BY <1>2, PlatformFacts DEF Accepted
  <2> QED
    BY <1>2, <2>2, <2>3
<1> QED
  BY <1>1, <1>2

(* No line of the tree has the priority that a free line had before.       *)
LEMMA NotEqualInTree ==
    ASSUME NEW s, Sound(s), NEW l \in Lines, l \notin Range(s.prio_que)
    PROVE  ~ EqualInTree(s, l)
<1> SUFFICES ASSUME NEW m \in Range(s.prio_que) PROVE s.line[m].prio # s.line[l].prio
  BY DEF EqualInTree
<1>1. s \in QType /\ s.prio_que \in Seq(Lines)
  BY DEF Sound, QType
<1>2. m \in Lines
  BY <1>1, ElementOfSeq, LenProperties DEF Range
<1>3. LineOK(s, m) /\ LineOK(s, l)
  BY <1>2 DEF Sound, LinesOK
<1>4. s.line[m].refs > 0 /\ s.line[m].prio > 0 /\ m # l
  BY <1>3 DEF LineOK
<1>5. Configured(s, m)
  BY <1>2, <1>4, ReferredLine
<1>6. CASE Configured(s, l)
  BY <1>2, <1>4, <1>5, <1>6, PriosDiffer
<1>7. CASE s.line[l].prio = 0
  BY <1>4, <1>7
<1> QED
  BY <1>3, <1>6, <1>7 DEF LineOK

(* A driver registers its handler.                                         *)
LEMMA RegisterKeeps ==
    ASSUME NEW s, Sound(s), s.frames = <<>>, NEW h \in Handlers,
           h \notin Range(s.line[LineOf[h]].handlers)
    PROVE  LET m == irq_register_handler(s, h)
           IN  /\ Sound(m) /\ Touch(s, m, OneLineFields)
               /\ \A k \in Lines \ {LineOf[h]} : m.line[k] = s.line[k]
<1> DEFINE l  == LineOf[h]
           hs == s.line[l].handlers
           c  == CtrlrOf(l)
           m  == irq_register_handler(s, h)
<1>1. s \in QType /\ l \in Lines /\ (l \in PlicLines \/ l = 32)
  BY PlatformFacts DEF Sound
<1>2. LineOK(s, l) /\ RefsAre(s, l)
  BY <1>1 DEF Sound, LinesOK
<1>3. ~ Served(s, l) /\ Len(s.frames) = 0 /\ s.line[l].refs = Base(s, l)
  <2>1. ~ Served(s, l) /\ Len(s.frames) = 0
    BY <1>1, ServedByTop
  <2>2. s.line[l].refs = Base(s, l) + 0
    BY <1>2, <2>1 DEF RefsAre
  <2> QED
    BY <2>1, <2>2 DEF Base
<1>4. hs \in Seq(Handlers)
  BY <1>1, LineFields
<1>5. IsInjective(s.prio_que) /\ s.thr \in Nat /\ s.prio_que \in Seq(Lines)
      /\ s.ctrlrs \in {<<"CLINT">>, <<"CLINT", "PLIC">>}
  BY <1>1 DEF Sound, LinesOK, QType, PLIC_PRIO_MAX
<1>6. CASE CtrlrsSeen(s, l) = {}
  <2>1. m = s
    BY <1>6 DEF irq_register_handler
  <2> QED
    BY <1>1, <2>1, TouchSame, TouchMore
\* Nothing is served: OneLine needs no more than the line and the registers.
<1>7. ASSUME NEW r, Touch(s, r, OneLineFields), \A k \in Lines \ {l} : r.line[k] = s.line[k],
             IsInjective(r.prio_que),
             \A k \in Lines \ {l} : k \in Range(r.prio_que) <=> k \in Range(s.prio_que),
             r.enabled \subseteq s.enabled \cup {l}, r.thr = s.thr,
             \A k \in PlicLines \ {l} : r.lprio[k] = s.lprio[k],
             LineOK(r, l), r.line[l].refs = Base(r, l)
      PROVE  Sound(r)
  <2>1. r.frames = s.frames
    BY <1>7 DEF Touch, QFields, OneLineFields
  <2>2. RefsAre(r, l)
    <3>1. ~ Served(r, l)
      BY <1>3, <2>1 DEF Served, Serves
    <3>2. Base(r, l) = Base(r, l) + 0
      BY DEF Base
    <3> QED
      BY <1>7, <3>1, <3>2 DEF RefsAre
  <2>3. 1..Len(s.frames) = {} /\ 1..(Len(s.frames) - 1) = {}
    BY <1>3
  <2>4. r.thr >= s.thr
    BY <1>5, <1>7
  <2> QED
    BY <1>1, <1>7, <2>2, <2>3, <2>4, OneLine
<1>8. CASE CtrlrsSeen(s, l) # {} /\ hs # <<>>
  <2>1. m = IF may_share(s, h, l) THEN [s EXCEPT !.line[l].handlers = Append(hs, h)] ELSE s
    BY <1>1, <1>5, <1>8, SeenFacts DEF irq_register_handler
  <2>2. CASE ~ may_share(s, h, l)
    BY <1>1, <2>1, <2>2, TouchSame, TouchMore
  <2>3. CASE may_share(s, h, l)
    <3> DEFINE v == Append(hs, h)
    <3>1. v \in Seq(Handlers) /\ IsInjective(v) /\ Range(v) = Range(hs) \cup {h}
      BY <1>2, <1>4, AppendFacts DEF LineOK
    <3>2. m = [s EXCEPT !.line[l].handlers = v]
      BY <2>1, <2>3
    <3> HIDE DEF v
    <3>3. /\ Touch(s, m, {"line"})
          /\ m.line[l].refs = s.line[l].refs /\ m.line[l].prio = s.line[l].prio
          /\ m.line[l].attr = s.line[l].attr /\ m.line[l].handlers = v
          /\ m.line[l].ctrlr = s.line[l].ctrlr
          /\ \A k \in Lines \ {l} : m.line[k] = s.line[k]
      BY <1>1, <3>1, <3>2, SetHandlers
    <3> HIDE DEF m
    <3>4. /\ m.prio_que = s.prio_que /\ m.enabled = s.enabled /\ m.lprio = s.lprio /\ m.thr = s.thr
          /\ Touch(s, m, OneLineFields)
      BY <3>3 DEF Touch, QFields, OneLineFields
    <3>5. v # <<>>
      BY <3>1 DEF Range
    <3>6. m.line[l].refs = Base(m, l)
      BY <1>3, <1>8, <3>3, <3>5 DEF Base
    <3>7. LineOK(m, l)
      <4>1. \A g \in Range(v) : LineOf[g] = l
        BY <1>2, <3>1 DEF LineOK
      <4>2. Configured(s, l) => Configured(m, l)
        BY <3>3 DEF Configured
      <4> QED
        BY <1>2, <3>1, <3>3, <3>4, <4>1, <4>2 DEF LineOK
    <3> QED
      BY <1>5, <1>7, <3>3, <3>4, <3>6, <3>7 DEF m
  <2> QED
    BY <2>2, <2>3
<1>9. CASE CtrlrsSeen(s, l) # {} /\ hs = <<>>
  <2>1. s.line[l].refs = 0 /\ l \notin Range(s.prio_que)
    BY <1>2, <1>3, <1>9 DEF Base, LineOK
  <2>2. ~ EqualInTree(s, l)
    BY <1>1, <2>1, NotEqualInTree
  <2> DEFINE s1 == RB_INSERT(s, l)
             x  == [refs |-> 1, prio |-> PrioOf[h], attr |-> AttrOf[h], handlers |-> <<h>>, ctrlr |-> c]
             s2 == config_irq(s1, c, l, PrioOf[h])
             ok == config_irq_ok(c, AttrOf[h], PrioOf[h])
  <2>3. m = first_handler(s, h, l, c)
    BY <1>1, <1>5, <1>9, SeenFacts DEF irq_register_handler
  <2>4. m = IF ok THEN [s2 EXCEPT !.line[l] = x] ELSE RB_REMOVE(s1, l)
    BY <2>2, <2>3 DEF first_handler
  <2>5. /\ Touch(s, s1, {"prio_que"}) /\ IsInjective(s1.prio_que)
        /\ Range(s1.prio_que) = Range(s.prio_que) \cup {l}
    BY <1>1, <1>5, <2>1, <2>2, InsertEffect
  <2> HIDE DEF s1, m
  <2>6. s1 \in QType
    BY <2>5 DEF Touch
  <2>7. CASE ~ ok
    <3>1. m = RB_REMOVE(s1, l)
      BY <2>4, <2>7
    <3>2. /\ Touch(s1, m, {"prio_que"}) /\ IsInjective(m.prio_que)
          /\ Range(m.prio_que) = Range(s1.prio_que) \ {l}
      BY <2>5, <2>6, <3>1, RemoveEffect
    <3>3. Range(m.prio_que) = Range(s.prio_que)
      BY <2>1, <2>5, <3>2
    <3>4. /\ m.line = s.line /\ m.enabled = s.enabled /\ m.lprio = s.lprio /\ m.thr = s.thr
          /\ Touch(s, m, OneLineFields)
      BY <2>5, <3>2 DEF Touch, QFields, OneLineFields
    <3>5. LineOK(m, l) /\ m.line[l].refs = Base(m, l)
      BY <1>2, <1>3, <3>3, <3>4 DEF LineOK, Configured, Base
    <3> QED
      BY <1>7, <3>2, <3>3, <3>4, <3>5 DEF m
  <2>8. CASE ok
    <3>1. /\ Accepted(h)
          /\ Touch(s1, s2, {"stie", "enabled", "lprio"})
          /\ s2.enabled \subseteq s1.enabled \cup {l}
          /\ \A k \in PlicLines \ {l} : s2.lprio[k] = s1.lprio[k]
          /\ l \in PlicLines => s2.lprio[l] = PrioOf[h]
      BY <2>6, <2>8, ConfigEffect
    <3>2. m = [s2 EXCEPT !.line[l] = x]
      BY <2>4, <2>8
    <3> HIDE DEF s2
    <3>3. s2 \in QType
      BY <3>1 DEF Touch
    <3>4. x \in LineType
      <4>1. c \in Ctrlrs \cup {NULL} /\ <<h>> \in Seq(Handlers)
        BY DEF CtrlrOf, Ctrlrs
      <4> QED
        BY <4>1, PlatformFacts DEF LineType
    <3>5. x.refs = 1 /\ x.prio = PrioOf[h] /\ x.attr = AttrOf[h] /\ x.handlers = <<h>> /\ x.ctrlr = c
      OBVIOUS
    <3> HIDE DEF x
    <3>6. Touch(s2, m, {"line"}) /\ m.line[l] = x /\ \A k \in Lines \ {l} : m.line[k] = s2.line[k]
      BY <1>1, <3>2, <3>3, <3>4, SetLine
    <3>7. /\ m.prio_que = s1.prio_que /\ m.enabled = s2.enabled /\ m.lprio = s2.lprio /\ m.thr = s.thr
          /\ s2.line = s.line /\ s1.enabled = s.enabled /\ s1.lprio = s.lprio
          /\ Touch(s, m, OneLineFields)
      BY <2>5, <3>1, <3>6 DEF Touch, QFields, OneLineFields
    <3>8. m.line[l].refs = Base(m, l)
      <4>1. <<h>> # <<>>
        OBVIOUS
      <4> QED
        BY <3>5, <3>6, <4>1 DEF Base
    <3>9. LineOK(m, l)
      <4>1. IsInjective(<<h>>) /\ Range(<<h>>) = {h}
        BY DEF IsInjective, Range
      <4>2. Configured(m, l)
        BY <3>1, <3>5, <3>6 DEF Configured
      <4>3. m.line[l].prio > 0
        BY <3>1, <3>5, <3>6, AcceptedFacts
      <4>4. l \in Range(m.prio_que)
        BY <2>5, <3>7
      <4>5. m.line[l].refs = 1
        BY <3>5, <3>6
      <4>6. IsInjective(m.line[l].handlers) /\ \A g \in Range(m.line[l].handlers) : LineOf[g] = l
        BY <3>5, <3>6, <4>1
      <4>7. l \in PlicLines => m.lprio[l] \in {0, m.line[l].prio}
        BY <3>1, <3>5, <3>6, <3>7
      <4> QED
        BY <4>2, <4>3, <4>4, <4>5, <4>6, <4>7 DEF LineOK
    <3>10. \A k \in Lines \ {l} : k \in Range(m.prio_que) <=> k \in Range(s.prio_que)
      BY <2>5, <3>7
    <3>11. IsInjective(m.prio_que) /\ m.enabled \subseteq s.enabled \cup {l}
           /\ (\A k \in PlicLines \ {l} : m.lprio[k] = s.lprio[k])
           /\ (\A k \in Lines \ {l} : m.line[k] = s.line[k])
      BY <2>5, <3>1, <3>6, <3>7
    <3> QED
      BY <1>7, <3>7, <3>8, <3>9, <3>10, <3>11 DEF m
  <2> QED
    BY <2>7, <2>8
<1> QED
  BY <1>6, <1>8, <1>9

(* A controller is taken away or comes back.                               *)
LEMMA CtrlrsChange ==
    ASSUME NEW s, NEW m, Sound(s), Touch(s, m, {"ctrlrs", "lprio"}),
           m.ctrlrs \in {<<"CLINT">>, <<"CLINT", "PLIC">>}, \A l \in PlicLines : m.lprio[l] = 0
    PROVE  Sound(m)
<1>1. m \in QType /\ m.line = s.line /\ m.prio_que = s.prio_que /\ m.frames = s.frames
      /\ m.panic = s.panic /\ m.enabled = s.enabled /\ m.thr = s.thr
  BY DEF Touch, QFields
<1>2. ASSUME NEW l \in Lines PROVE LineOK(m, l) /\ RefsAre(m, l)
  <2>1. LineOK(s, l) /\ RefsAre(s, l)
    BY DEF Sound, LinesOK
  <2>2. LineOK(m, l)
    BY <1>1, <2>1 DEF LineOK, Configured
  <2>3. RefsAre(m, l)
    BY <1>1, <2>1 DEF RefsAre, Base, Served, Serves
  <2> QED
    BY <2>2, <2>3
<1>3. LinesOK(m)
  BY <1>1, <1>2 DEF Sound, LinesOK
<1>4. FramesOK(m)
  BY <1>1 DEF Sound, FramesOK, Nests, EntOK
<1>5. MasksOK(m)
  BY <1>1 DEF Sound, MasksOK, Masking, FPrio
<1> QED
  BY <1>1, <1>3, <1>4, <1>5 DEF Sound

(* The PLIC is initialized: the priorities of its lines are zero.          *)
LEMMA InitializeKeeps ==
    ASSUME NEW s, Sound(s), NEW cs \in {<<"CLINT">>, <<"CLINT", "PLIC">>},
           NEW m, m = [plic_initialize(s) EXCEPT !.ctrlrs = cs]
    PROVE  Sound(m) /\ Touch(s, m, {"ctrlrs", "lprio"})
<1> DEFINE z == [l \in PlicLines |-> 0]
<1>1. s \in QType /\ cs \in Seq(Ctrlrs)
  <2>1. <<"CLINT">> \in Seq(Ctrlrs) /\ <<"CLINT", "PLIC">> \in Seq(Ctrlrs)
    BY DEF Ctrlrs
  <2> QED
    BY <2>1 DEF Sound
<1>2. m = [s EXCEPT !.lprio = z, !.ctrlrs = cs]
  BY <1>1 DEF plic_initialize, QType
<1>3. z \in [PlicLines -> 0..PLIC_PRIO_MAX] /\ \A l \in PlicLines : z[l] = 0
  BY DEF PLIC_PRIO_MAX
<1> HIDE DEF z
<1>4. Touch(s, m, {"ctrlrs", "lprio"}) /\ m.ctrlrs = cs /\ m.lprio = z
  BY <1>1, <1>2, <1>3 DEF Touch, QFields, QType
<1> QED
  BY <1>3, <1>4, CtrlrsChange

(* The PLIC is unregistered or registered again.                           *)
LEMMA ReplugKeeps ==
    ASSUME NEW s, Sound(s),
           NEW m, m = IF Contains(s.ctrlrs, "PLIC") THEN irq_unregister_ctrlr(s, "PLIC")
                      ELSE irq_register_ctrlr(s, "PLIC")
    PROVE  Sound(m) /\ Touch(s, m, {"ctrlrs", "lprio"})
<1> DEFINE CLINT == <<"CLINT">>
           BOTH == <<"CLINT", "PLIC">>
<1>1. s \in QType /\ s.ctrlrs \in {CLINT, BOTH}
  BY DEF Sound, LinesOK
<1>2. /\ CLINT \in Seq(Ctrlrs) /\ BOTH \in Seq(Ctrlrs) /\ Len(CLINT) = 1 /\ Len(BOTH) = 2
      /\ CLINT[1] = "CLINT" /\ BOTH[1] = "CLINT" /\ BOTH[2] = "PLIC"
      /\ DOMAIN CLINT = {1} /\ DOMAIN BOTH = {1, 2}
  BY DEF Ctrlrs
<1>3. ~ Contains(CLINT, "PLIC") /\ Contains(BOTH, "PLIC")
  BY <1>2 DEF Contains
<1>4. Append(CLINT, "PLIC") = BOTH /\ RemoveAt(BOTH, 2) = CLINT
  <2> HIDE DEF CLINT, BOTH
  <2>1. Append(CLINT, "PLIC") = BOTH
    <3> DEFINE r == Append(CLINT, "PLIC")
    <3>1. "PLIC" \in Ctrlrs /\ CLINT \in Seq(Ctrlrs)
      BY <1>2 DEF Ctrlrs
    <3>2. /\ r \in Seq(Ctrlrs) /\ Len(r) = Len(CLINT) + 1
          /\ \A i \in 1..Len(CLINT) : r[i] = CLINT[i]
          /\ r[Len(CLINT) + 1] = "PLIC"
      BY <3>1, AppendProperties
    <3> HIDE DEF r
    <3>3. Len(r) = 2 /\ r[1] = "CLINT" /\ r[2] = "PLIC"
      BY <1>2, <3>2
    <3>4. \A i \in 1..2 : r[i] = BOTH[i]
      BY <1>2, <3>3
    <3>5. r = BOTH
      BY <1>2, <3>2, <3>3, <3>4, SeqEqual
    <3> QED
      BY <3>5 DEF r
  <2>2. IsInjective(BOTH)
    BY <1>2 DEF IsInjective
  <2>3. Range(BOTH) = {"CLINT", "PLIC"}
    BY <1>2 DEF Range
  <2> DEFINE r == RemoveAt(BOTH, 2)
  <2>4. r \in Seq(Ctrlrs) /\ IsInjective(r) /\ Range(r) = {"CLINT"}
    BY <1>2, <2>2, <2>3, RemoveAtFacts
  <2> HIDE DEF r
  <2>5. Len(r) \in Nat /\ DOMAIN r = 1..Len(r)
    BY <2>4, LenProperties
  <2>6. \A i \in 1..Len(r) : r[i] = "CLINT"
    BY <2>4, <2>5 DEF Range
  <2>7. Len(r) > 0
    BY <2>4, <2>5, SMTT(30) DEF Range
  <2>8. ~ (Len(r) > 1)
    BY <2>4, <2>5, <2>6 DEF IsInjective
  <2>9. Len(r) = 1 /\ r[1] = "CLINT"
    BY <2>5, <2>6, <2>7, <2>8
  <2>10. r = CLINT
    BY <1>2, <2>4, <2>9, SeqEqual
  <2> QED
    BY <2>1, <2>10 DEF r
<1> HIDE DEF CLINT, BOTH
<1>5. CASE s.ctrlrs = CLINT
  <2>1. ~ Overlap("PLIC", "CLINT")
    BY DEF Overlap, MinIrq, MaxIrq
  <2>2. \A i \in DOMAIN s.ctrlrs : s.ctrlrs[i] = "CLINT"
    BY <1>2, <1>5
  <2>3. irq_register_ctrlr(s, "PLIC") = [plic_initialize(s) EXCEPT !.ctrlrs = Append(CLINT, "PLIC")]
    <3>1. plic_initialize(s).ctrlrs = CLINT
      BY <1>1, <1>5 DEF plic_initialize, QType
    <3>2. irq_register_ctrlr(s, "PLIC") = [initialize(s, "PLIC") EXCEPT !.ctrlrs = Append(@, "PLIC")]
      BY <1>3, <1>5, <2>1, <2>2 DEF irq_register_ctrlr
    <3> QED
      BY <3>1, <3>2 DEF initialize
  <2>4. m = [plic_initialize(s) EXCEPT !.ctrlrs = BOTH]
    BY <1>3, <1>4, <1>5, <2>3
  <2> QED
    BY <2>4, InitializeKeeps DEF BOTH
<1>6. CASE s.ctrlrs = BOTH
  <2> DEFINE i == CHOOSE j \in DOMAIN BOTH : BOTH[j] = "PLIC"
  <2>1. i = 2
    BY <1>2
  <2> HIDE DEF i
  <2>2. Without(BOTH, "PLIC") = RemoveAt(BOTH, 2)
    BY <2>1 DEF Without, i
  <2>3. irq_unregister_ctrlr(s, "PLIC") = plic_initialize([s EXCEPT !.ctrlrs = CLINT])
    BY <1>3, <1>4, <1>6, <2>2 DEF irq_unregister_ctrlr, initialize
  <2>4. plic_initialize([s EXCEPT !.ctrlrs = CLINT]) = [plic_initialize(s) EXCEPT !.ctrlrs = CLINT]
    BY <1>1 DEF plic_initialize, QType
  <2>5. m = [plic_initialize(s) EXCEPT !.ctrlrs = CLINT]
    BY <1>3, <1>6, <2>3, <2>4
  <2> QED
    BY <2>5, InitializeKeeps DEF CLINT
<1> QED
  BY <1>1, <1>5, <1>6

(* A trap is taken: the trap it interrupts runs a nestable handler.        *)
LEMMA TrapKeeps ==
    ASSUME NEW s, Sound(s), TopOK(s), s.sie,
           NEW m, m = [s EXCEPT !.sie = FALSE,
                                !.frames = Append(s.frames, [pc |-> "scan", line |-> LastLine(s),
                                                             ent |-> NULL, prio |-> 0])]
    PROVE  /\ Sound(m) /\ TopOK(m) /\ Touch(s, m, {"sie", "frames"})
           /\ ~ TimerRuns(m)
<1> DEFINE n == Len(s.frames)
           g == [pc |-> "scan", line |-> LastLine(s), ent |-> NULL, prio |-> 0]
           fs == Append(s.frames, g)
<1>1. s \in QType /\ s.frames \in Seq(FrameType) /\ n \in Nat /\ DOMAIN s.frames = 1..n
  BY FrameFields DEF Sound
<1>2. LastLine(s) \in Range(s.prio_que) \cup {NULL} /\ LastLine(s) \in Lines \cup {NULL}
  <2>1. s.prio_que \in Seq(Lines)
    BY <1>1 DEF QType
  <2>2. CASE s.prio_que = <<>>
    BY <2>2 DEF LastLine
  <2>3. CASE s.prio_que # <<>>
    <3>1. Last(s.prio_que) \in Range(s.prio_que) /\ Last(s.prio_que) \in Lines
      BY <2>1, <2>3, FrontFacts, LenProperties DEF Range
    <3> QED
      BY <2>3, <3>1 DEF LastLine
  <2> QED
    BY <2>2, <2>3
<1>3. g \in FrameType /\ g.pc = "scan" /\ g.line = LastLine(s) /\ g.ent = NULL
  BY <1>2 DEF FrameType, PLIC_PRIO_MAX
<1> HIDE DEF g
<1>4. /\ fs \in Seq(FrameType) /\ Len(fs) = n + 1 /\ fs # <<>>
      /\ \A i \in 1..n : fs[i] = s.frames[i]
      /\ fs[n + 1] = g
  BY <1>1, <1>3, AppendProperties
<1> HIDE DEF fs
<1>5. m = [s EXCEPT !.sie = FALSE, !.frames = fs]
  BY DEF fs, g
<1>6. Touch(s, m, {"sie", "frames"}) /\ m.frames = fs /\ ~ m.sie
  BY <1>1, <1>4, <1>5 DEF Touch, QFields, QType
<1>7. /\ m \in QType /\ m.line = s.line /\ m.prio_que = s.prio_que /\ m.ctrlrs = s.ctrlrs
      /\ m.panic = s.panic /\ m.enabled = s.enabled /\ m.thr = s.thr /\ m.lprio = s.lprio
  BY <1>6 DEF Touch, QFields
<1>8. \A i \in 1..(n + 1) : i \in 1..n \/ i = n + 1
  BY <1>1
<1>9. DOMAIN m.frames = 1..(n + 1) /\ Len(m.frames) = n + 1
  BY <1>4, <1>6, LenProperties
<1>10. \A i \in 1..n : i \in 1..(n + 1) /\ m.frames[i] = s.frames[i]
  BY <1>1, <1>4, <1>6
<1>11. m.frames[n + 1].pc # "handler" /\ m.frames[n + 1] = g
  BY <1>3, <1>4, <1>6
<1>12. ASSUME NEW l \in Lines PROVE LineOK(m, l) /\ RefsAre(m, l)
  <2>1. LineOK(s, l) /\ RefsAre(s, l)
    BY DEF Sound, LinesOK
  <2>2. Served(m, l) <=> Served(s, l)
    BY <1>1, <1>8, <1>9, <1>10, <1>11 DEF Served, Serves
  <2>3. LineOK(m, l)
    BY <1>7, <2>1 DEF LineOK, Configured
  <2>4. RefsAre(m, l)
    BY <1>7, <2>1, <2>2 DEF RefsAre, Base
  <2> QED
    BY <2>3, <2>4
<1>13. LinesOK(m)
  BY <1>7, <1>12 DEF Sound, LinesOK
<1>14. ASSUME NEW i \in 1..n PROVE s.frames[i].pc = "handler" /\ Nests(s, i) /\ EntOK(s, i)
  <2>1. CASE i \in 1..(n - 1)
    BY <2>1 DEF Sound, FramesOK
  <2>2. CASE i = n
    <3>1. s.frames # <<>> /\ s.frames[n].pc \in {"scan", "handler"}
      BY <1>1, <2>2, FrameFields
    <3> QED
      BY <2>2, <3>1 DEF TopOK
  <2>3. i \in 1..(n - 1) \/ i = n
    BY <1>1
  <2> QED
    BY <2>1, <2>2, <2>3
<1>15. FramesOK(m)
  <2>1. \A i \in 1..(n + 1) : m.frames[i].pc = "handler" => m.frames[i].line \in Lines
    BY <1>8, <1>10, <1>11 DEF Sound, FramesOK
  <2>2. \A i \in 1..n : m.frames[i].pc = "handler" /\ Nests(m, i) /\ EntOK(m, i)
    BY <1>7, <1>10, <1>14 DEF Nests, EntOK
  <2>3. n + 1 - 1 = n
    BY <1>1
  <2> QED
    BY <1>9, <2>1, <2>2, <2>3 DEF FramesOK
<1>16. MasksOK(m)
  <2>1. \A i \in 1..(n + 1) : Masking(m, i) => FPrio(m, i) <= m.thr
    BY <1>7, <1>8, <1>10, <1>11 DEF Sound, MasksOK, Masking, FPrio
  <2>2. \A i, j \in 1..(n + 1) :
          i < j /\ Masking(m, i) /\ m.frames[j].pc = "handler" =>
             FPrio(m, i) <= m.frames[j].prio /\ FPrio(m, i) < FPrio(m, j)
    BY <1>7, <1>8, <1>10, <1>11 DEF Sound, MasksOK, Masking, FPrio
  <2> QED
    BY <1>9, <2>1, <2>2 DEF MasksOK
<1>17. TopOK(m)
  BY <1>2, <1>3, <1>6, <1>7, <1>9, <1>11 DEF TopOK
<1>18. ~ TimerRuns(m)
  <2>1. Top(m) = m.frames[n + 1]
    BY <1>9 DEF Top, Last
  <2> QED
    BY <1>11, <2>1 DEF TimerRuns
<1> QED
  BY <1>6, <1>7, <1>13, <1>15, <1>16, <1>17, <1>18 DEF Sound

(* A trap that has found no more lines returns.                            *)
LEMMA PopKeeps ==
    ASSUME NEW s, Sound(s), s.frames # <<>>, Top(s).pc = "scan"
    PROVE  LET m == rv64_return_from_trap(s)
           IN  Sound(m) /\ TopOK(m) /\ m.sie /\ Touch(s, m, {"sie", "frames"})
<1> DEFINE n == Len(s.frames)
           fs == Front(s.frames)
           m == rv64_return_from_trap(s)
<1>1. s \in QType /\ s.frames \in Seq(FrameType) /\ n \in Nat \ {0} /\ DOMAIN s.frames = 1..n
      /\ s.frames[n].pc = "scan"
  BY FrameFields, TopFacts DEF Sound
<1>2. fs \in Seq(FrameType) /\ Len(fs) = n - 1 /\ \A i \in 1..(n - 1) : fs[i] = s.frames[i]
  BY <1>1, FrontFacts
<1>3. m = [s EXCEPT !.frames = fs, !.sie = TRUE]
  BY DEF rv64_return_from_trap
<1> HIDE DEF fs, m
<1>4. Touch(s, m, {"sie", "frames"}) /\ m.frames = fs /\ m.sie
  BY <1>1, <1>2, <1>3 DEF Touch, QFields, QType
<1>5. /\ m \in QType /\ m.line = s.line /\ m.prio_que = s.prio_que /\ m.ctrlrs = s.ctrlrs
      /\ m.panic = s.panic /\ m.enabled = s.enabled /\ m.thr = s.thr /\ m.lprio = s.lprio
  BY <1>4 DEF Touch, QFields
<1>6. \A i \in 1..n : i \in 1..(n - 1) \/ i = n
  BY <1>1
<1>7. DOMAIN m.frames = 1..(n - 1) /\ Len(m.frames) = n - 1
  BY <1>2, <1>4, LenProperties
<1>8. \A i \in 1..(n - 1) : i \in 1..n /\ m.frames[i] = s.frames[i]
  BY <1>1, <1>2, <1>4
<1>9. ASSUME NEW l \in Lines PROVE LineOK(m, l) /\ RefsAre(m, l)
  <2>1. LineOK(s, l) /\ RefsAre(s, l)
    BY DEF Sound, LinesOK
  <2>2. Served(m, l) <=> Served(s, l)
    BY <1>1, <1>6, <1>7, <1>8 DEF Served, Serves
  <2>3. LineOK(m, l)
    BY <1>5, <2>1 DEF LineOK, Configured
  <2>4. RefsAre(m, l)
    BY <1>5, <2>1, <2>2 DEF RefsAre, Base
  <2> QED
    BY <2>3, <2>4
<1>10. LinesOK(m)
  BY <1>5, <1>9 DEF Sound, LinesOK
<1>11. \A i \in 1..(n - 1) : m.frames[i].pc = "handler" /\ Nests(m, i) /\ EntOK(m, i)
  BY <1>5, <1>8 DEF Sound, FramesOK, Nests, EntOK
<1>12. FramesOK(m)
  <2>1. \A i \in 1..(n - 1) : m.frames[i].pc = "handler" => m.frames[i].line \in Lines
    BY <1>8 DEF Sound, FramesOK
  <2>2. \A i \in 1..(n - 1 - 1) : i \in 1..(n - 1)
    BY <1>1
  <2> QED
    BY <1>7, <1>11, <2>1, <2>2 DEF FramesOK
<1>13. MasksOK(m)
  <2>1. \A i \in 1..(n - 1) : Masking(m, i) => FPrio(m, i) <= m.thr
    BY <1>5, <1>8 DEF Sound, MasksOK, Masking, FPrio
  <2>2. \A i, j \in 1..(n - 1) :
          i < j /\ Masking(m, i) /\ m.frames[j].pc = "handler" =>
             FPrio(m, i) <= m.frames[j].prio /\ FPrio(m, i) < FPrio(m, j)
    BY <1>5, <1>8 DEF Sound, MasksOK, Masking, FPrio
  <2> QED
    BY <1>7, <2>1, <2>2 DEF MasksOK
<1>14. TopOK(m)
  <2> SUFFICES ASSUME m.frames # <<>> PROVE TopOK(m)
    BY DEF TopOK
  <2>1. n - 1 \in 1..(n - 1)
    BY <1>5, <1>7, FrontFacts, FrameFields
  <2> QED
    BY <1>4, <1>7, <1>11, <2>1 DEF TopOK
<1> QED
  BY <1>4, <1>5, <1>10, <1>12, <1>13, <1>14 DEF Sound, m

(* The line that the claim register shows is above the threshold.          *)
LEMMA ClaimFacts ==
    ASSUME NEW s \in QType, NEW l \in PlicLines, ClaimReg(s) = l
    PROVE  s.lprio[l] > s.thr
<1> DEFINE C == Claimable(s)
           Best(x) == \A y \in C : s.lprio[x] > s.lprio[y] \/ (s.lprio[x] = s.lprio[y] /\ x <= y)
<1>1. l > 0 /\ \A x \in C : x \in PlicLines /\ x \in Nat /\ s.lprio[x] \in 0..7 /\ s.lprio[x] > s.thr
  BY PlatformFacts DEF Claimable, QType, PLIC_PRIO_MAX
<1>2. C # {}
  BY <1>1 DEF ClaimReg
<1>3. ClaimReg(s) = CHOOSE x \in C : Best(x)
  BY <1>2 DEF ClaimReg
<1>4. \E x \in C : Best(x)
  <2> DEFINE P == {7 - s.lprio[x] : x \in C}
  <2>1. P \in SUBSET Nat /\ P # {}
    BY <1>1, <1>2
  <2>2. PICK p \in P : \A r \in P : p <= r
    BY <2>1, LeastNatural
  <2> DEFINE D == {x \in C : 7 - s.lprio[x] = p}
  <2>3. D \in SUBSET Nat /\ D # {}
    BY <1>1
  <2>4. PICK x \in D : \A y \in D : x <= y
    BY <2>3, LeastNatural
  <2>5. ASSUME NEW y \in C PROVE s.lprio[x] > s.lprio[y] \/ (s.lprio[x] = s.lprio[y] /\ x <= y)
    <3>1. 7 - s.lprio[x] = p /\ x \in C /\ p <= 7 - s.lprio[y]
      BY <2>2
    <3>2. s.lprio[x] \in 0..7 /\ s.lprio[y] \in 0..7
      BY <1>1, <3>1
    <3>3. CASE y \in D
      BY <2>4, <3>1, <3>2, <3>3
    <3>4. CASE y \notin D
      BY <3>1, <3>2, <3>4
    <3> QED
      BY <3>3, <3>4
  <2> QED
    BY <2>5
<1> HIDE DEF Best
<1>5. l \in C
  BY <1>3, <1>4
<1> QED
  BY <1>1, <1>5

(* What the search of a trap and the call of a handler change.             *)
ServeFields == {"line", "thr", "enabled", "stie", "ssip", "pend", "claimed"}

\* What the line l and the registers are before the first handler is called.
Serving(s, m, l) ==
    /\ Touch(s, m, ServeFields)
    /\ RefsSet(s, m, l, s.line[l].refs + 3)
    /\ m.enabled = s.enabled \ {l}
    /\ m.thr = IF l \in PlicLines THEN s.line[l].prio ELSE s.thr
    /\ m.ssip = IF l \in PlicLines THEN s.ssip ELSE FALSE

(* The threshold becomes the priority of the line that is served.          *)
LEMMA MaskEffect ==
    ASSUME NEW s \in QType, NEW l \in Lines, l \in PlicLines => s.line[l].prio \in 1..PLIC_PRIO_MAX
    PROVE  LET m == mask_priority(s, CtrlrOf(l), l) IN
           /\ Touch(s, m, {"thr"})
           /\ m.thr = IF l \in PlicLines THEN s.line[l].prio ELSE s.thr
<1>1. CASE l \in PlicLines
  <2>1. s.line[l].prio \in Nat /\ ~ (s.line[l].prio > PLIC_PRIO_MAX)
    BY <1>1 DEF PLIC_PRIO_MAX
  <2>2. mask_priority(s, CtrlrOf(l), l) = plic_set_priority(s, s.line[l].prio)
    BY <1>1 DEF mask_priority, CtrlrOf, HasPriMask
  <2> QED
    BY <1>1, <2>1, <2>2, ThresholdEffect
<1>2. CASE l \notin PlicLines
  <2>1. mask_priority(s, CtrlrOf(l), l) = s
    BY <1>2 DEF mask_priority, CtrlrOf, HasPriMask
  <2> QED
    BY <1>2, <2>1 DEF Touch
<1> QED
  BY <1>1, <1>2

(* What the test for a pending line leaves behind.                         *)
LEMMA PendingEffect ==
    ASSUME NEW s \in QType, NEW l \in Lines
    PROVE  Touch(s, after_is_pending(s, l), {"pend", "claimed"})
<1>1. CASE s.line[l].ctrlr = "CLINT"
  BY <1>1 DEF after_is_pending, Touch
<1>2. CASE s.line[l].ctrlr # "CLINT"
  BY <1>2, ReadClaimEffect DEF after_is_pending
<1> QED
  BY <1>1, <1>2

(* The calls of irq_handle_irq and handle_irq_line up to the first handler. *)
LEMMA ServeEffect ==
    ASSUME NEW s \in QType, NEW l \in Lines, s.line[l].refs > 0, s.line[l].ctrlr = CtrlrOf(l),
           l \in PlicLines => s.line[l].prio \in 1..PLIC_PRIO_MAX
    PROVE  LET c  == CtrlrOf(l)
               a1 == after_is_pending(irqline_get(s, l), l)
               a2 == mask_priority(irqline_get(a1, l), c, l)
               a3 == irqline_get(eoi(disable_irq(a2, c, l), c, l), l)
           IN  Serving(s, a3, l) /\ a1.thr = s.thr
               /\ a1.line[l].ctrlr = c /\ a1.line[l].handlers = s.line[l].handlers
<1> DEFINE c  == CtrlrOf(l)
           n  == s.line[l].refs
           b1 == irqline_get(s, l)
           b2 == after_is_pending(b1, l)
           b3 == irqline_get(b2, l)
           b4 == mask_priority(b3, c, l)
           b5 == disable_irq(b4, c, l)
           b6 == eoi(b5, c, l)
           b7 == irqline_get(b6, l)
<1>1. n \in Nat
  BY LineFields
<1>2. Touch(s, b1, {"line"}) /\ RefsSet(s, b1, l, n + 1)
  BY GetEffect
<1> HIDE DEF b1
<1>3. Touch(b1, b2, {"pend", "claimed"})
  BY <1>2, PendingEffect DEF Touch
<1> HIDE DEF b2
<1>4. b2 \in QType /\ b2.line = b1.line /\ b2.line[l].refs = n + 1 /\ b2.line[l].refs > 0
      /\ n + 1 + 1 = n + 2
  BY <1>1, <1>2, <1>3 DEF Touch, QFields, RefsSet
<1>5. Touch(b2, b3, {"line"}) /\ RefsSet(b2, b3, l, n + 2)
  BY <1>4, GetEffect
<1> HIDE DEF b3
<1>6. b3 \in QType /\ b3.line[l].prio = s.line[l].prio
  BY <1>2, <1>4, <1>5 DEF Touch, RefsSet
<1>7. Touch(b3, b4, {"thr"}) /\ b4.thr = IF l \in PlicLines THEN b3.line[l].prio ELSE b3.thr
  BY <1>6, MaskEffect
<1> HIDE DEF b4
<1>8. Touch(b4, b5, {"enabled", "stie"}) /\ b5.enabled = b4.enabled \ {l}
  BY <1>7, DisableEffect DEF Touch
<1> HIDE DEF b5
<1>9. /\ l \in PlicLines => Touch(b5, b6, {"claimed"})
      /\ l \notin PlicLines => Touch(b5, b6, {"ssip"}) /\ ~ b6.ssip
  BY <1>8, EoiEffect DEF Touch
<1> HIDE DEF b6
<1>10. Touch(b5, b6, {"claimed", "ssip"}) /\ b6.ssip = IF l \in PlicLines THEN b5.ssip ELSE FALSE
  <2>1. Touch(b5, b6, {"claimed", "ssip"})
    BY <1>9 DEF Touch
  <2>2. l \in PlicLines => b6.ssip = b5.ssip
    BY <1>9 DEF Touch, QFields
  <2>3. b6.ssip \in BOOLEAN
    BY <2>1 DEF Touch, QType
  <2> QED
    BY <1>9, <2>1, <2>2, <2>3
<1>11. b6 \in QType /\ b6.line = b3.line /\ b6.line[l].refs = n + 2 /\ b6.line[l].refs > 0
       /\ n + 2 + 1 = n + 3
  BY <1>1, <1>5, <1>7, <1>8, <1>10 DEF Touch, QFields, RefsSet
<1>12. Touch(b6, b7, {"line"}) /\ RefsSet(b6, b7, l, n + 3)
  BY <1>11, GetEffect
<1> HIDE DEF b7
<1>13. Touch(s, b7, ServeFields)
  <2>1. Touch(s, b3, ServeFields)
    BY <1>2, <1>3, <1>5 DEF Touch, ServeFields
  <2>2. Touch(b3, b6, ServeFields)
    BY <1>7, <1>8, <1>10 DEF Touch, ServeFields
  <2> QED
    BY <1>12, <2>1, <2>2 DEF Touch, ServeFields
<1>14. RefsSet(s, b7, l, n + 3)
  BY <1>2, <1>4, <1>5, <1>11, <1>12 DEF RefsSet
<1>15. b7.enabled = s.enabled \ {l}
  BY <1>2, <1>3, <1>5, <1>7, <1>8, <1>10, <1>12 DEF Touch, QFields
<1>16. b2.thr = s.thr /\ b3.thr = s.thr
  BY <1>2, <1>3, <1>5 DEF Touch, QFields
<1>17. b7.thr = IF l \in PlicLines THEN s.line[l].prio ELSE s.thr
  <2>1. b7.thr = b4.thr
    BY <1>8, <1>10, <1>12 DEF Touch, QFields
  <2> QED
    BY <1>6, <1>7, <1>16, <2>1
<1>18. b7.ssip = IF l \in PlicLines THEN s.ssip ELSE FALSE
  <2>1. b7.ssip = b6.ssip /\ b5.ssip = s.ssip
    BY <1>2, <1>3, <1>5, <1>7, <1>8, <1>12 DEF Touch, QFields
  <2> QED
    BY <1>10, <2>1
<1>19. b2.line[l].ctrlr = c /\ b2.line[l].handlers = s.line[l].handlers
  BY <1>2, <1>4 DEF RefsSet
<1> QED
  BY <1>13, <1>14, <1>15, <1>16, <1>17, <1>18, <1>19 DEF Serving, b1, b2, b3, b4, b5, b6, b7

(* A trap that finds its line pending is the only one that serves it: the  *)
(* threshold masks the lines of the traps below.                           *)
LEMMA PendingFacts ==
    ASSUME NEW s, Sound(s), TopOK(s), s.frames # <<>>, Top(s).pc = "scan", Top(s).line # NULL
    PROVE  LET l == Top(s).line IN
           /\ l \in Lines /\ l \in Range(s.prio_que) /\ s.line[l].refs > 0
           /\ s.line[l].ctrlr = CtrlrOf(l)
           /\ irq_is_pending(s, l) =>
                /\ ~ Served(s, l) /\ s.line[l].refs = 1 /\ s.line[l].handlers # <<>>
                /\ l \in PlicLines => s.line[l].prio > s.thr
<1> DEFINE n == Len(s.frames)
           l == Top(s).line
<1>1. /\ s \in QType /\ n \in 1..n /\ Top(s) = s.frames[n] /\ s.prio_que \in Seq(Lines)
      /\ DOMAIN s.frames = 1..n /\ n \in Nat
  BY TopFacts, FrameFields DEF Sound, QType
<1>2. l \in Range(s.prio_que)
  BY <1>1 DEF TopOK
<1>3. l \in Lines
  BY <1>1, <1>2, ElementOfSeq, LenProperties DEF Range
<1>4. LineOK(s, l) /\ RefsAre(s, l)
  BY <1>3 DEF Sound, LinesOK
<1>5. s.line[l].refs > 0 /\ s.line[l].ctrlr = CtrlrOf(l)
  BY <1>2, <1>3, <1>4, ReferredLine DEF LineOK
<1>6. ASSUME irq_is_pending(s, l), l \in PlicLines PROVE s.line[l].prio > s.thr
  <2>1. ClaimReg(s) = l
    BY <1>5, <1>6, SMTT(30) DEF irq_is_pending, plic_irq_is_pending, CtrlrOf
  <2>2. s.lprio[l] > s.thr /\ s.lprio[l] \in {0, s.line[l].prio}
    BY <1>1, <1>4, <1>6, <2>1, ClaimFacts DEF LineOK
  <2>3. s.thr \in Nat
    BY <1>1 DEF QType, PLIC_PRIO_MAX
  <2> QED
    BY <2>2, <2>3
<1>7. ASSUME irq_is_pending(s, l) PROVE ~ Served(s, l)
  <2> SUFFICES ASSUME NEW i \in 1..n, Serves(s, i, l) PROVE FALSE
    BY <1>1 DEF Served
  <2>1. i \in 1..(n - 1)
    BY <1>1 DEF Serves
  <2>2. l \in PlicLines /\ Masking(s, i) /\ FPrio(s, i) = s.line[l].prio
    BY <2>1, InterruptedFrame DEF Serves, FPrio
  <2>3. s.line[l].prio <= s.thr
    BY <2>2 DEF Sound, MasksOK
  <2>4. s.thr \in Nat /\ s.line[l].prio \in Nat
    <3>1. s.thr \in Nat
      BY <1>1 DEF QType, PLIC_PRIO_MAX
    <3> QED
      BY <1>1, <1>3, <3>1, LineFields
  <2> QED
    BY <1>6, <1>7, <2>2, <2>3, <2>4
<1>8. ASSUME irq_is_pending(s, l) PROVE s.line[l].refs = 1 /\ s.line[l].handlers # <<>>
  <2>1. s.line[l].refs = Base(s, l) + 0
    BY <1>4, <1>7, <1>8 DEF RefsAre
  <2> QED
    BY <1>5, <2>1 DEF Base
<1> QED
  BY <1>2, <1>3, <1>5, <1>6, <1>7, <1>8

(* The first handler of the pending line is called.                        *)
LEMMA ServeKeeps ==
    ASSUME NEW s, Sound(s), TopOK(s), s.frames # <<>>, Top(s).pc = "scan", Top(s).line # NULL,
           irq_is_pending(s, Top(s).line)
    PROVE  LET l == Top(s).line
               m == handle_irq_line(after_is_pending(irqline_get(s, l), l), Top(s))
           IN  /\ Sound(m) /\ TopOK(m) /\ Touch(s, m, ServeFields \cup {"frames", "sie"})
               /\ m.ssip = IF l \in PlicLines THEN s.ssip ELSE FALSE
               /\ TimerRuns(m) => l \notin PlicLines
<1> DEFINE n == Len(s.frames)
           f == Top(s)
           l == f.line
           c == CtrlrOf(l)
           hs == s.line[l].handlers
           a1 == after_is_pending(irqline_get(s, l), l)
           a2 == mask_priority(irqline_get(a1, l), c, l)
           a3 == irqline_get(eoi(disable_irq(a2, c, l), c, l), l)
           g  == [[[f EXCEPT !.prio = s.thr] EXCEPT !.pc = "handler"] EXCEPT !.ent = Head(hs)]
           b  == "NESTABLE" \in s.line[l].attr
           m  == handle_irq_line(a1, f)
<1>1. /\ s \in QType /\ n \in 1..n /\ n \in Nat \ {0} /\ f = s.frames[n] /\ f \in FrameType
      /\ DOMAIN s.frames = 1..n
  BY TopFacts, FrameFields DEF Sound
<1>2. /\ l \in Lines /\ l \in Range(s.prio_que) /\ s.line[l].refs = 1
      /\ s.line[l].ctrlr = c /\ ~ Served(s, l) /\ hs # <<>>
      /\ l \in PlicLines => s.line[l].prio > s.thr
  BY PendingFacts
<1>3. /\ l \in PlicLines => s.line[l].prio \in 1..PLIC_PRIO_MAX
      /\ l \notin PlicLines => s.line[l].prio > PLIC_PRIO_MAX
      /\ s.thr \in 0..PLIC_PRIO_MAX /\ s.line[l].prio \in Nat
  <2>1. s.line[l].refs > 0
    BY <1>2
  <2>2. s.thr \in 0..PLIC_PRIO_MAX
    BY <1>1 DEF QType
  <2>3. s.line[l].prio \in Nat
    BY <1>1, <1>2, LineFields
  <2> HIDE DEF l
  <2> QED
    BY <1>2, <2>1, <2>2, <2>3, ReferredLine
<1>4. LineOK(s, l) /\ RefsAre(s, l)
  BY <1>2 DEF Sound, LinesOK
<1>5. hs \in Seq(Handlers) /\ Head(hs) \in Handlers /\ Head(hs) \in Range(hs) /\ Head(hs) # NULL
  <2>1. hs \in Seq(Handlers)
    BY <1>1, <1>2, LineFields
  <2>2. Head(hs) = hs[1] /\ 1 \in DOMAIN hs /\ hs[1] \in Handlers
    BY <1>2, <2>1, LenProperties, EmptySeq, ElementOfSeq
  <2> QED
    BY <2>1, <2>2, PlatformFacts DEF Range
<1>6. /\ Serving(s, a3, l) /\ a1.thr = s.thr /\ a1.line[l].ctrlr = c /\ a1.line[l].handlers = hs
  BY <1>1, <1>2, <1>3, ServeEffect
<1>7. m = [SetTop(a3, g) EXCEPT !.sie = b]
  <2>1. a3.line[l].attr = s.line[l].attr
    BY <1>6 DEF Serving, RefsSet
  <2>2. [f EXCEPT !.prio = s.thr].line = l
    BY <1>1 DEF FrameType
  <2>3. m = call_handler(a3, [f EXCEPT !.prio = s.thr], Head(hs))
    BY <1>2, <1>6 DEF handle_irq_line
  <2>4. g = [[f EXCEPT !.prio = s.thr] EXCEPT !.pc = "handler", !.ent = Head(hs)]
    BY SMTT(30)
  <2> HIDE DEF a3, g, f
  <2> QED
    BY <1>5, <2>1, <2>2, <2>3, <2>4, SMTT(30) DEF call_handler
<1>8. g \in FrameType /\ g.pc = "handler" /\ g.line = l /\ g.ent = Head(hs) /\ g.prio = s.thr
  BY <1>1, <1>3, <1>5 DEF FrameType
<1> HIDE DEF a1, a2, a3, g, m, f
<1>9. a3 \in QType /\ a3.frames = s.frames
  BY <1>6 DEF Serving, Touch, QFields, ServeFields
<1>10. /\ Touch(a3, m, {"frames", "sie"})
       /\ Len(m.frames) = n /\ m.frames[n] = g /\ m.sie = b
       /\ \A i \in 1..(n - 1) : m.frames[i] = s.frames[i]
  <2> DEFINE r == [SetTop(a3, g) EXCEPT !.sie = b]
  <2>1. b \in BOOLEAN
    OBVIOUS
  <2> HIDE DEF b
  <2>2. /\ Touch(a3, r, {"frames", "sie"})
        /\ Len(r.frames) = n /\ r.frames[n] = g /\ r.sie = b
        /\ \A i \in 1..(n - 1) : r.frames[i] = s.frames[i]
    BY <1>1, <1>8, <1>9, <2>1, SetTopEffect
  <2> QED
    BY <1>7, <2>2
<1>11. /\ Touch(s, m, ServeFields \cup {"frames", "sie"}) /\ RefsSet(s, m, l, 4)
       /\ m.enabled = s.enabled \ {l} /\ m.thr = IF l \in PlicLines THEN s.line[l].prio ELSE s.thr
       /\ m.ssip = IF l \in PlicLines THEN s.ssip ELSE FALSE
  <2>1. Touch(s, m, ServeFields \cup {"frames", "sie"})
    BY <1>6, <1>10 DEF Serving, Touch
  <2>2. m.line = a3.line /\ m.enabled = a3.enabled /\ m.thr = a3.thr /\ m.ssip = a3.ssip
    BY <1>10 DEF Touch, QFields
  <2>3. RefsSet(s, a3, l, 4)
    BY <1>2, <1>6 DEF Serving
  <2> QED
    BY <1>6, <2>1, <2>2, <2>3 DEF Serving, RefsSet
<1>12. /\ m \in QType /\ m.prio_que = s.prio_que /\ m.ctrlrs = s.ctrlrs /\ m.panic = s.panic
       /\ m.lprio = s.lprio
  BY <1>11 DEF Touch, QFields, ServeFields
<1>13. DOMAIN m.frames = 1..n /\ \A i \in 1..n : i \in 1..(n - 1) \/ i = n
  BY <1>1, <1>10, <1>12, FrameFields
\* The lines are the same but for the references to l.
<1>14. \A k \in Lines : /\ m.line[k].prio = s.line[k].prio /\ m.line[k].attr = s.line[k].attr
                        /\ m.line[k].handlers = s.line[k].handlers
                        /\ m.line[k].ctrlr = s.line[k].ctrlr
  BY <1>11 DEF RefsSet
<1>15. ASSUME NEW k \in Lines PROVE LineOK(m, k) /\ RefsAre(m, k)
  <2>1. LineOK(s, k) /\ RefsAre(s, k)
    BY DEF Sound, LinesOK
  <2>2. m.line[k].refs > 0 <=> s.line[k].refs > 0
    BY <1>2, <1>11 DEF RefsSet
  <2>3. m.line[k].refs = 0 => k \notin m.enabled
    BY <1>11, <2>1 DEF RefsSet, LineOK
  <2>4. Configured(s, k) => Configured(m, k)
    BY <1>14 DEF Configured
  <2>5. LineOK(m, k)
    BY <1>12, <1>14, <2>1, <2>2, <2>3, <2>4 DEF LineOK
  <2>6. Base(m, k) = Base(s, k)
    BY <1>14 DEF Base
  <2>7. CASE k = l
    <3>1. Served(m, l)
      BY <1>1, <1>8, <1>10, <1>13 DEF Served, Serves
    <3>2. Base(m, l) = 1 /\ m.line[l].refs = 4
      BY <1>2, <1>11, <2>6, <2>7 DEF Base, RefsSet
    <3>3. RefsAre(m, l)
      BY <3>1, <3>2 DEF RefsAre
    <3> QED
      BY <2>5, <2>7, <3>3
  <2>8. CASE k # l
    <3>1. \A i \in 1..n : Serves(m, i, k) <=> Serves(s, i, k)
      <4>1. ~ Serves(m, n, k) /\ ~ Serves(s, n, k)
        BY <1>1, <1>8, <1>10, <2>8 DEF Serves, f
      <4>2. \A i \in 1..(n - 1) : Serves(m, i, k) <=> Serves(s, i, k)
        BY <1>10 DEF Serves
      <4> QED
        BY <1>13, <4>1, <4>2
    <3>2. Served(m, k) <=> Served(s, k)
      BY <1>1, <1>13, <3>1 DEF Served
    <3>3. m.line[k].refs = s.line[k].refs
      BY <1>11, <2>8 DEF RefsSet
    <3>4. RefsAre(m, k)
      BY <2>1, <2>6, <3>2, <3>3 DEF RefsAre
    <3> QED
      BY <2>5, <3>4
  <2> QED
    BY <2>7, <2>8
<1>16. LinesOK(m)
  BY <1>12, <1>15 DEF Sound, LinesOK
<1>17. ASSUME NEW i \in 1..(n - 1)
       PROVE  /\ m.frames[i] = s.frames[i] /\ i \in 1..n /\ i # n
              /\ s.frames[i].pc = "handler" /\ s.frames[i].line \in PlicLines /\ s.frames[i].line \in Lines
              /\ Masking(s, i) /\ Nests(s, i) /\ EntOK(s, i)
              /\ FPrio(m, i) = FPrio(s, i) /\ FPrio(s, i) <= s.thr /\ FPrio(s, i) \in Nat
  <2>1. m.frames[i] = s.frames[i] /\ i \in 1..n /\ i # n
    BY <1>1, <1>10
  <2>2. s.frames[i].pc = "handler" /\ s.frames[i].line \in PlicLines /\ Masking(s, i)
    BY InterruptedFrame
  <2>3. s.frames[i].line \in Lines
    BY <2>2, PlatformFacts
  <2>4. Nests(s, i) /\ EntOK(s, i) /\ FPrio(s, i) <= s.thr
    BY <2>1, <2>2 DEF Sound, FramesOK, MasksOK
  <2>5. FPrio(s, i) \in Nat
    BY <1>1, <2>3, LineFields DEF FPrio
  <2>6. FPrio(m, i) = FPrio(s, i)
    BY <1>14, <2>1, <2>3 DEF FPrio
  <2> QED
    BY <2>1, <2>2, <2>3, <2>4, <2>5, <2>6
<1>18. m.frames[n].pc = "handler" /\ m.frames[n].line = l /\ m.frames[n].prio = s.thr
       /\ FPrio(m, n) = s.line[l].prio
  BY <1>2, <1>8, <1>10, <1>14 DEF FPrio
<1>19. FramesOK(m)
  <2>1. ASSUME NEW i \in 1..(n - 1)
        PROVE  m.frames[i].pc = "handler" /\ Nests(m, i) /\ EntOK(m, i)
    <3> DEFINE k == s.frames[i].line
    <3>1. k \in Lines /\ m.frames[i] = s.frames[i] /\ s.frames[i].pc = "handler"
          /\ Nests(s, i) /\ EntOK(s, i)
      BY <1>17
    <3>2. m.line[k].attr = s.line[k].attr /\ m.line[k].handlers = s.line[k].handlers
      BY <1>14, <3>1
    <3> QED
      BY <3>1, <3>2 DEF Nests, EntOK
  <2>2. \A i \in 1..n : m.frames[i].pc = "handler" => m.frames[i].line \in Lines
    BY <1>2, <1>13, <1>17, <1>18
  <2> QED
    BY <1>10, <2>1, <2>2 DEF FramesOK
<1>20. MasksOK(m)
  <2>1. s.thr <= m.thr /\ (l \in PlicLines => s.thr < s.line[l].prio /\ s.line[l].prio <= m.thr)
        /\ s.thr < s.line[l].prio /\ s.thr \in Nat /\ m.thr \in Nat
    BY <1>2, <1>3, <1>11 DEF PLIC_PRIO_MAX
  <2>2. \A i \in 1..(n - 1) : Masking(m, i) => FPrio(m, i) <= m.thr
    BY <1>17, <2>1
  <2>3. Masking(m, n) => FPrio(m, n) <= m.thr
    BY <1>18, <2>1 DEF Masking
  <2>4. ASSUME NEW i \in 1..n, NEW j \in 1..n, i < j
        PROVE  FPrio(m, i) <= m.frames[j].prio /\ FPrio(m, i) < FPrio(m, j)
    <3>1. i \in 1..(n - 1)
      BY <1>1, <2>4
    <3>2. CASE j = n
      <4>1. FPrio(m, i) = FPrio(s, i) /\ FPrio(s, i) <= s.thr /\ FPrio(s, i) \in Nat
        BY <1>17, <3>1
      <4>2. m.frames[j].prio = s.thr /\ FPrio(m, j) = s.line[l].prio
        BY <1>18, <3>2
      <4> QED
        BY <1>3, <2>1, <4>1, <4>2
    <3>3. CASE j \in 1..(n - 1)
      <4>1. FPrio(s, i) <= s.frames[j].prio /\ FPrio(s, i) < FPrio(s, j)
        BY <1>17, <2>4, <3>1, <3>3 DEF Sound, MasksOK
      <4> QED
        BY <1>17, <3>1, <3>3, <4>1
    <3> QED
      BY <1>13, <3>2, <3>3
  <2> QED
    BY <1>10, <1>13, <2>2, <2>3, <2>4 DEF MasksOK
<1>21. TopOK(m)
  <2>1. m.sie <=> Nests(m, n)
    BY <1>2, <1>10, <1>14, <1>18 DEF Nests
  <2>2. EntOK(m, n)
    BY <1>2, <1>5, <1>8, <1>10, <1>14 DEF EntOK
  <2> QED
    BY <1>10, <1>18, <2>1, <2>2 DEF TopOK
<1>22. TimerRuns(m) => l \notin PlicLines
  <2> SUFFICES ASSUME TimerRuns(m) PROVE l \notin PlicLines
    OBVIOUS
  <2>1. m.frames[Len(m.frames)].line = 32
    BY <1>12, <1>16, <1>19, <1>20, <1>21, TimerMasked DEF Sound
  <2> QED
    BY <1>10, <1>18, <2>1, PlatformFacts
<1> QED
  BY <1>11, <1>12, <1>16, <1>19, <1>20, <1>21, <1>22 DEF Sound, m, a1, f

(* A trap goes on to the next line, when its line is not pending.          *)
LEMMA SkipKeeps ==
    ASSUME NEW s, Sound(s), TopOK(s), s.frames # <<>>, Top(s).pc = "scan", Top(s).line # NULL
    PROVE  LET l == Top(s).line
               a == after_is_pending(irqline_get(s, l), l)
               m == SetTop(irqline_put(a, l), [Top(s) EXCEPT !.line = PrevLine(s, l)])
           IN  /\ Sound(m) /\ TopOK(m) /\ Touch(s, m, {"line", "pend", "claimed", "frames", "sie"})
               /\ ~ TimerRuns(m)
<1> DEFINE n  == Len(s.frames)
           f  == Top(s)
           l  == f.line
           b1 == irqline_get(s, l)
           b2 == after_is_pending(b1, l)
           b3 == irqline_put(b2, l)
           p  == PrevLine(s, l)
           g  == [f EXCEPT !.line = p]
           m  == SetTop(b3, g)
<1>1. /\ s \in QType /\ n \in 1..n /\ n \in Nat \ {0} /\ f = s.frames[n] /\ f \in FrameType
      /\ s.prio_que \in Seq(Lines)
  BY TopFacts, FrameFields DEF Sound, QType
<1>2. l \in Lines /\ l \in Range(s.prio_que) /\ s.line[l].refs > 0
  BY PendingFacts
<1>3. ~ s.sie
  BY <1>1 DEF TopOK
<1>4. p \in Range(s.prio_que) \cup {NULL} /\ p \in Lines \cup {NULL}
  <2> DEFINE i == CHOOSE j \in DOMAIN s.prio_que : s.prio_que[j] = l
  <2>1. i \in DOMAIN s.prio_que /\ DOMAIN s.prio_que = 1..Len(s.prio_que) /\ Len(s.prio_que) \in Nat
    BY <1>1, <1>2, LenProperties DEF Range
  <2>2. p = IF i = 1 THEN NULL ELSE s.prio_que[i - 1]
    BY DEF PrevLine
  <2> HIDE DEF i, p
  <2>3. i # 1 => i - 1 \in 1..Len(s.prio_que)
    BY <2>1
  <2>4. i # 1 => s.prio_que[i - 1] \in Range(s.prio_que) /\ s.prio_que[i - 1] \in Lines
    BY <1>1, <2>1, <2>3, ElementOfSeq DEF Range
  <2> QED
    BY <2>2, <2>4
<1>5. g \in FrameType /\ g.pc = "scan" /\ g.line = p
  BY <1>1, <1>4 DEF FrameType
<1> HIDE DEF f, g, p
<1>6. s.line[l].refs \in Nat
  BY <1>1, <1>2, LineFields
<1>7. Touch(s, b1, {"line"}) /\ RefsSet(s, b1, l, s.line[l].refs + 1)
  BY <1>1, <1>2, GetEffect
<1> HIDE DEF b1
<1>8. Touch(b1, b2, {"pend", "claimed"})
  BY <1>2, <1>7, PendingEffect DEF Touch
<1> HIDE DEF b2
<1>9. b2 \in QType /\ b2.line = b1.line /\ b2.line[l].refs = s.line[l].refs + 1
      /\ b2.line[l].refs > 1 /\ b2.line[l].refs - 1 = s.line[l].refs
  <2>1. b2 \in QType /\ b2.line = b1.line /\ b2.line[l].refs = s.line[l].refs + 1
    BY <1>7, <1>8 DEF Touch, QFields, RefsSet
  <2> QED
    BY <1>2, <1>6, <2>1
<1>10. Touch(b2, b3, {"line"}) /\ RefsSet(b2, b3, l, s.line[l].refs)
  <2>1. Touch(b2, b3, {"line"}) /\ RefsSet(b2, b3, l, b2.line[l].refs - 1)
    BY <1>2, <1>9, PutEffect
  <2> QED
    BY <1>9, <2>1
<1> HIDE DEF b3
<1>11. b3.line = s.line
  <2>1. RefsSet(s, b3, l, s.line[l].refs)
    BY <1>7, <1>9, <1>10 DEF RefsSet
  <2>2. b3.line \in [Lines -> LineType] /\ s.line \in [Lines -> LineType]
    BY <1>1, <1>10 DEF Touch, QType
  <2>3. b3.line[l] = s.line[l]
    <3> DEFINE x == b3.line[l]
               y == s.line[l]
    <3>1. x \in LineType /\ y \in LineType
      BY <1>2, <2>2
    <3>2. x.refs = y.refs /\ x.prio = y.prio /\ x.attr = y.attr /\ x.handlers = y.handlers
          /\ x.ctrlr = y.ctrlr
      BY <2>1 DEF RefsSet
    <3> HIDE DEF x, y
    <3>3. x = y
      BY <3>1, <3>2 DEF LineType
    <3> QED
      BY <3>3 DEF x, y
  <2>4. \A k \in Lines : b3.line[k] = s.line[k]
    BY <2>1, <2>3 DEF RefsSet
  <2> QED
    BY <2>2, <2>4
<1>12. Touch(s, b3, {"pend", "claimed"})
  BY <1>7, <1>8, <1>10, <1>11 DEF Touch, QFields
<1>13. Sound(b3) /\ b3.frames = s.frames /\ b3.prio_que = s.prio_que /\ ~ b3.sie
  <2>1. Touch(s, b3, {"sie", "stie", "stip", "ssip", "pend", "claimed"})
    BY <1>12, TouchMore
  <2>2. b3.frames = s.frames /\ b3.prio_que = s.prio_que /\ b3.sie = s.sie
    BY <1>12 DEF Touch, QFields
  <2> QED
    BY <1>3, <2>1, <2>2, SoundKept
<1>14. m = [SetTop(b3, g) EXCEPT !.sie = FALSE]
  <2>1. b3 \in QType /\ b3.sie = FALSE
    BY <1>12, <1>13 DEF Touch, QType
  <2> QED
    BY <2>1 DEF SetTop, QType
<1>15. /\ Touch(b3, m, {"frames", "sie"})
       /\ Len(m.frames) = n /\ m.frames[n] = g /\ ~ m.sie
       /\ \A i \in 1..(n - 1) : m.frames[i] = s.frames[i]
  <2> DEFINE b == FALSE
             r == [SetTop(b3, g) EXCEPT !.sie = b]
  <2>1. /\ Touch(b3, r, {"frames", "sie"})
        /\ Len(r.frames) = n /\ r.frames[n] = g /\ r.sie = b
        /\ \A i \in 1..(n - 1) : r.frames[i] = s.frames[i]
    <3>1. b3 \in QType /\ b3.frames = s.frames /\ b3.frames # <<>> /\ b \in BOOLEAN
      BY <1>13 DEF Sound
    <3> HIDE DEF b
    <3>2. /\ Touch(b3, r, {"frames", "sie"})
          /\ Len(r.frames) = n /\ r.frames[n] = g /\ r.sie = b
          /\ \A i \in 1..(n - 1) : r.frames[i] = b3.frames[i]
      BY <1>5, <3>1, SetTopEffect
    <3> QED
      BY <3>1, <3>2
  <2> QED
    BY <1>14, <2>1
<1> HIDE DEF m
<1>16. SameTraps(b3, m)
  <2>1. s.frames[n].pc = "scan"
    BY <1>1 DEF f
  <2>2. \A i \in 1..n : i = n \/ i \in 1..(n - 1)
    BY <1>1
  <2>3. \A i \in 1..n : m.frames[i].pc = s.frames[i].pc
    BY <1>5, <1>15, <2>1, <2>2
  <2>4. \A i \in 1..n : s.frames[i].pc = "handler" =>
          m.frames[i].line = s.frames[i].line /\ m.frames[i].prio = s.frames[i].prio
    BY <1>15, <2>1, <2>2
  <2> QED
    BY <1>13, <1>15, <2>3, <2>4 DEF SameTraps
<1>17. Sound(m)
  BY <1>13, <1>16, SameTrapsSound
<1>18. m.prio_que = s.prio_que
  BY <1>13, <1>15 DEF Touch, QFields
<1>19. TopOK(m)
  BY <1>4, <1>5, <1>15, <1>18 DEF TopOK
<1>20. Touch(s, m, {"line", "pend", "claimed", "frames", "sie"})
  BY <1>12, <1>15 DEF Touch
<1>21. ~ TimerRuns(m)
  BY <1>5, <1>15 DEF TimerRuns, Top, Last
<1> QED
  BY <1>17, <1>19, <1>20, <1>21 DEF m, b3, b2, b1, g, f, p

\* What the search may change.
ScanFields == ServeFields \cup {"frames", "sie"}

(* One round of irq_handle_irq.  The wall time depends on the bits it clears. *)
LEMMA ScanKeeps ==
    ASSUME NEW s, Sound(s), TopOK(s), s.frames # <<>>, Top(s).pc = "scan",
           NEW m,
           LET f  == Top(s)
               s1 == after_is_pending(irqline_get(s, f.line), f.line)
           IN  m = IF f.line = NULL THEN rv64_return_from_trap(s)
                   ELSE IF irq_is_pending(s, f.line) THEN handle_irq_line(s1, f)
                   ELSE SetTop(irqline_put(s1, f.line), [f EXCEPT !.line = PrevLine(s, f.line)])
    PROVE  /\ Sound(m) /\ TopOK(m) /\ Touch(s, m, ScanFields)
           /\ \/ ~ TimerRuns(m) /\ m.ssip = s.ssip
              \/ (s.stip \/ s.ssip) /\ ~ m.ssip
<1> DEFINE l  == Top(s).line
           s1 == after_is_pending(irqline_get(s, l), l)
<1>1. CASE l = NULL
  <2>1. m = rv64_return_from_trap(s)
    BY <1>1
  <2>2. Sound(m) /\ TopOK(m) /\ m.sie /\ Touch(s, m, {"sie", "frames"})
    BY <2>1, PopKeeps
  <2>3. ~ TimerRuns(m)
    BY <2>2, TimerMasked
  <2>4. Touch(s, m, ScanFields) /\ m.ssip = s.ssip
    BY <2>2 DEF Touch, QFields, ScanFields
  <2> QED
    BY <2>2, <2>3, <2>4
<1>2. CASE l # NULL /\ irq_is_pending(s, l)
  <2>1. m = handle_irq_line(s1, Top(s))
    BY <1>2
  <2>2. /\ Sound(m) /\ TopOK(m) /\ Touch(s, m, ScanFields)
        /\ m.ssip = IF l \in PlicLines THEN s.ssip ELSE FALSE
        /\ TimerRuns(m) => l \notin PlicLines
    BY <1>2, <2>1, ServeKeeps DEF ScanFields
  <2>3. l \in PlicLines \/ s.stip \/ s.ssip
    <3>1. s.line[l].ctrlr = CtrlrOf(l)
      BY <1>2, PendingFacts
    <3> QED
      BY <1>2, <3>1 DEF irq_is_pending, CtrlrOf, clint_irq_is_pending
  <2> QED
    BY <2>2, <2>3
<1>3. CASE l # NULL /\ ~ irq_is_pending(s, l)
  <2>1. m = SetTop(irqline_put(s1, l), [Top(s) EXCEPT !.line = PrevLine(s, l)])
    BY <1>3
  <2>2. /\ Sound(m) /\ TopOK(m) /\ Touch(s, m, {"line", "pend", "claimed", "frames", "sie"})
        /\ ~ TimerRuns(m)
    BY <1>3, <2>1, SkipKeeps
  <2>3. Touch(s, m, ScanFields) /\ m.ssip = s.ssip
    BY <2>2 DEF Touch, QFields, ScanFields, ServeFields
  <2> QED
    BY <2>2, <2>3
<1> QED
  BY <1>1, <1>2, <1>3

-----------------------------------------------------------------------------
(* The steps of the machine.                                               *)

(* A step that leaves alone what the top of the stack depends on.          *)
LEMMA TopKept ==
    ASSUME NEW s, NEW m, TopOK(s), m.frames = s.frames, m.sie = s.sie, m.line = s.line,
           m.prio_que = s.prio_que
    PROVE  TopOK(m) /\ (TimerRuns(m) <=> TimerRuns(s))
BY DEF TopOK, Nests, EntOK, TimerRuns, Top

(* Without traps there is no top.                                          *)
LEMMA NoTop == ASSUME NEW s, s.frames = <<>> PROVE TopOK(s) /\ ~ TimerRuns(s)
BY DEF TopOK, TimerRuns

\* The inductive invariant of the machine.
MachineInv == TrapsInv /\ WallInv

(* The machine mode timer ticks.                                           *)
LEMMA TickKeeps == MachineInv /\ Tick => MachineInv'
<1> SUFFICES ASSUME MachineInv, Tick PROVE MachineInv'
  OBVIOUS
<1>1. Sound(q) /\ TopOK(q) /\ q \in QType
  BY DEF MachineInv, TrapsInv, Sound
<1>2. Touch(q, q', {"stip", "ssip"}) /\ q'.stip /\ q'.ssip
  BY <1>1 DEF Tick, machine_mode_vector, Touch, QFields, QType
<1>3. Sound(q')
  BY <1>1, <1>2, SoundKept, TouchMore
<1>4. TopOK(q') /\ (TimerRuns(q') <=> TimerRuns(q))
  BY <1>1, <1>2, TopKept DEF Touch, QFields
<1>5. lag \in Nat /\ lag' \in Nat /\ lag' >= 1 /\ (lag >= 1 => lag' >= 2) /\ inv' = inv
  BY InterruptsAssumption DEF MachineInv, WallInv, Tick, coVars
<1>6. WallInv'
  BY <1>2, <1>4, <1>5 DEF MachineInv, WallInv, AtLeast
<1> QED
  BY <1>3, <1>4, <1>6 DEF MachineInv, TrapsInv

(* A device raises its line.                                               *)
LEMMA RaiseKeeps == \A l \in PlicLines : MachineInv /\ Raise(l) => MachineInv'
<1> SUFFICES ASSUME NEW l \in PlicLines, MachineInv, Raise(l) PROVE MachineInv'
  OBVIOUS
<1>1. Sound(q) /\ TopOK(q) /\ q \in QType
  BY DEF MachineInv, TrapsInv, Sound
<1>2. Touch(q, q', {"pend"})
  BY <1>1 DEF Raise, RaiseIrq, Touch, QFields, QType
<1>3. Sound(q')
  BY <1>1, <1>2, SoundKept, TouchMore
<1>4. TopOK(q') /\ (TimerRuns(q') <=> TimerRuns(q)) /\ q'.stip = q.stip /\ q'.ssip = q.ssip
  BY <1>1, <1>2, TopKept DEF Touch, QFields
<1>5. lag' = lag /\ inv' = inv
  BY DEF Raise, coVars
<1>6. WallInv'
  BY <1>4, <1>5 DEF MachineInv, WallInv, AtLeast
<1> QED
  BY <1>3, <1>4, <1>6 DEF MachineInv, TrapsInv

(* The hart takes a trap.                                                  *)
LEMMA TrapStep == MachineInv /\ Trap => MachineInv'
<1> SUFFICES ASSUME MachineInv, Trap PROVE MachineInv'
  OBVIOUS
<1>1. Sound(q) /\ TopOK(q) /\ q.sie
  BY DEF MachineInv, TrapsInv, Trap, supervisor_trap_vector
<1>2. /\ Sound(q') /\ TopOK(q') /\ Touch(q, q', {"sie", "frames"})
      /\ ~ TimerRuns(q')
  <2>1. q' = [q EXCEPT !.sie = FALSE,
                       !.frames = Append(q.frames, [pc |-> "scan", line |-> LastLine(q),
                                                    ent |-> NULL, prio |-> 0])]
    BY DEF Trap, supervisor_trap_vector
  <2> QED
    BY <1>1, <2>1, TrapKeeps
<1>3. ~ TimerRuns(q)
  BY <1>1, TimerMasked
<1>4. q'.stip = q.stip /\ q'.ssip = q.ssip /\ lag' = lag /\ inv' = inv
  BY <1>2 DEF Touch, QFields, Trap, coVars
<1>5. WallInv'
  BY <1>2, <1>3, <1>4 DEF MachineInv, WallInv, AtLeast
<1> QED
  BY <1>2, <1>5 DEF MachineInv, TrapsInv

(* A trap looks at the next line.                                          *)
LEMMA ScanStep == MachineInv /\ Scan => MachineInv'
<1> SUFFICES ASSUME MachineInv, Scan PROVE MachineInv'
  OBVIOUS
<1>1. Sound(q) /\ TopOK(q) /\ q.frames # <<>> /\ Top(q).pc = "scan" /\ q \in QType
  BY DEF MachineInv, TrapsInv, Scan, irq_handle_irq, InThread, Sound
<1>2. /\ Sound(q') /\ TopOK(q') /\ Touch(q, q', ScanFields)
      /\ \/ ~ TimerRuns(q') /\ q'.ssip = q.ssip
         \/ (q.stip \/ q.ssip) /\ ~ q'.ssip
  BY <1>1, ScanKeeps DEF Scan, irq_handle_irq
<1>3. ~ TimerRuns(q)
  BY <1>1 DEF TimerRuns
<1>4. q'.stip = q.stip /\ lag' = lag /\ inv' = inv
  BY <1>2 DEF Touch, QFields, ScanFields, ServeFields, Scan, coVars
<1>5. lag \in Nat /\ inv.pc = "idle" /\ ((q.stip \/ q.ssip) => lag >= 1)
      /\ inv = [pc |-> inv.pc, cur |-> inv.cur]
  BY <1>3 DEF MachineInv, WallInv, AtLeast
<1>6. WallInv'
  BY <1>2, <1>4, <1>5 DEF WallInv, AtLeast
<1> QED
  BY <1>2, <1>6 DEF MachineInv, TrapsInv

(* The handler h of a device has returned.                                 *)
LEMMA DeviceStep == \A h \in Drivers : MachineInv /\ Device(h) => MachineInv'
<1> SUFFICES ASSUME NEW h \in Drivers, MachineInv, Device(h) PROVE MachineInv'
  OBVIOUS
<1> DEFINE n == Len(q.frames)
           l == Top(q).line
           Done == Sound(q') /\ TopOK(q') /\ ~ TimerRuns(q') /\ q'.stip = q.stip /\ q'.ssip = q.ssip
<1>1. /\ Sound(q) /\ TopOK(q) /\ q.frames # <<>> /\ Top(q).pc = "handler" /\ Top(q).ent = h
      /\ q \in QType /\ h \in Handlers /\ h # Timer
  BY DEF MachineInv, TrapsInv, Device, device_handler, Returning, InThread, Sound, Drivers
<1>2. n \in 1..n /\ Top(q) = q.frames[n]
  BY <1>1, TopFacts
<1>3. EntOK(q, n) /\ l \in Lines /\ h \in Range(q.line[l].handlers)
  BY <1>1, <1>2, ServedLine DEF TopOK, EntOK
<1>4. LineOf[h] = l /\ l # 32
  <2>1. LineOK(q, l)
    BY <1>1, <1>3 DEF Sound, LinesOK
  <2>2. LineOf[h] = l
    BY <1>3, <2>1 DEF LineOK
  <2> QED
    BY <1>1, <2>2, PlatformFacts
<1>5. ASSUME NEW s, Returned(s, q'), s.frames = q.frames, s.stip = q.stip, s.ssip = q.ssip
      PROVE  Done
  <2>1. Sound(q') /\ TopOK(q') /\ q'.stip = q.stip /\ q'.ssip = q.ssip
    BY <1>5 DEF Returned, Touch, QFields, ReturnFields
  <2>2. CASE q'.sie
    BY <2>1, <2>2, TimerMasked
  <2>3. CASE Len(q'.frames) = n /\ q'.frames[n].line = q.frames[n].line
    BY <1>2, <1>4, <2>1, <2>3, TimerMasked
  <2> QED
    BY <1>5, <2>1, <2>2, <2>3 DEF Returned
<1>6. ASSUME q' = HandlerReturns(q, TRUE) PROVE Done
  BY <1>1, <1>5, <1>6, ReturnKeeps
<1>7. ASSUME q' = HandlerReturns(q, FALSE) PROVE Done
  BY <1>1, <1>3, <1>5, <1>7, ReturnKeeps
<1>8. ASSUME q' = HandlerReturns(irq_unregister_handler(q, h), TRUE) PROVE Done
  <2> DEFINE s == irq_unregister_handler(q, h)
  <2>1. Sound(s) /\ Touch(q, s, UnregisterFields)
    BY <1>1, <1>3, <1>4, UnregisterKeeps
  <2> HIDE DEF s
  <2>2. s.frames = q.frames /\ s.stip = q.stip /\ s.ssip = q.ssip
    BY <2>1 DEF Touch, QFields, UnregisterFields
  <2>3. s.frames # <<>> /\ Top(s).pc = "handler"
    BY <1>1, <2>2 DEF Top
  <2>4. Returned(s, q')
    BY <1>8, <2>1, <2>3, ReturnKeeps DEF s
  <2> QED
    BY <1>5, <2>2, <2>4
<1>9. Done
  BY <1>5, <1>6, <1>7, <1>8 DEF Device, device_handler
<1>10. ~ TimerRuns(q) /\ lag' = lag /\ inv' = inv
  BY <1>1 DEF TimerRuns, Device, coVars
<1>11. WallInv'
  BY <1>9, <1>10 DEF MachineInv, WallInv, AtLeast
<1> QED
  BY <1>9, <1>11 DEF MachineInv, TrapsInv

(* The parts of the timer interrupt.                                       *)
LEMMA TimerKeeps == MachineInv /\ TimerStep => MachineInv'
<1> SUFFICES ASSUME MachineInv, TimerStep PROVE MachineInv'
  OBVIOUS
<1>1. /\ Sound(q) /\ TopOK(q) /\ q.frames # <<>> /\ Top(q).pc = "handler" /\ TimerRuns(q)
      /\ q \in QType
  BY DEF MachineInv, TrapsInv, TimerStep, TimerWallTime, TimerInvoke, TimerCalloutReturns,
         rv64_timer_handler, Returning, InThread, Sound, TimerRuns
<1>2. /\ lag \in Nat /\ inv = [pc |-> inv.pc, cur |-> inv.cur]
      /\ q.ssip => lag >= IF inv.pc = "idle" THEN 2 ELSE 1
      /\ inv.pc = "idle" => lag >= 1
  BY <1>1 DEF MachineInv, WallInv, AtLeast
<1>3. CASE TimerWallTime
  <2>1. q' = q /\ lag' = lag - 1 /\ inv.pc = "idle" /\ inv' = [inv EXCEPT !.pc = "loop"]
    BY <1>3 DEF TimerWallTime, tim_update_walltime
  <2>2. inv'.pc = "loop" /\ inv' = [pc |-> inv'.pc, cur |-> inv'.cur]
    BY <1>2, <2>1
  <2>3. lag' \in Nat /\ (q'.ssip => lag' >= 1)
    BY <1>2, <2>1
  <2> QED
    BY <1>1, <2>1, <2>2, <2>3 DEF MachineInv, TrapsInv, WallInv, AtLeast
<1>4. CASE TimerInvoke \/ TimerCalloutReturns
  <2>1. q' = q /\ lag' = lag /\ inv.pc \in {"loop", "call"}
    BY <1>4 DEF TimerInvoke, TimerCalloutReturns, invoke_callout, callout_returns
  <2>2. \/ \E u : inv' = [pc |-> "call", cur |-> u]
        \/ inv' = [inv EXCEPT !.pc = "done"]
        \/ inv' = [pc |-> "loop", cur |-> NoEnt]
    BY <1>4 DEF TimerInvoke, TimerCalloutReturns, invoke_callout, callout_returns
  <2>3. inv'.pc \in {"call", "done", "loop"} /\ inv' = [pc |-> inv'.pc, cur |-> inv'.cur]
    BY <1>2, <2>2
  <2>4. inv'.pc # "idle" /\ (q'.ssip => lag' >= 1)
    BY <1>2, <2>1, <2>3
  <2> QED
    BY <1>1, <1>2, <2>1, <2>3, <2>4 DEF MachineInv, TrapsInv, WallInv, AtLeast
<1>5. CASE rv64_timer_handler
  <2> DEFINE s == clear_stip(q)
  <2>1. q' = HandlerReturns(s, TRUE) /\ lag' = lag /\ inv.pc = "done" /\ inv' = [inv EXCEPT !.pc = "idle"]
    BY <1>5 DEF rv64_timer_handler
  <2>2. Touch(q, s, {"stip"}) /\ ~ s.stip
    BY <1>1 DEF clear_stip, Touch, QFields, QType
  <2>3. Sound(s)
    BY <1>1, <2>2, SoundKept, TouchMore
  <2> HIDE DEF s
  <2>4. s.frames = q.frames /\ s.ssip = q.ssip /\ s.frames # <<>> /\ Top(s).pc = "handler"
    BY <1>1, <2>2 DEF Touch, QFields, Top
  <2>5. Returned(s, q') /\ q'.sie
    BY <2>1, <2>3, <2>4, ReturnKeeps
  <2>6. Sound(q') /\ TopOK(q') /\ ~ q'.stip /\ q'.ssip = q.ssip
    BY <2>2, <2>4, <2>5 DEF Returned, Touch, QFields, ReturnFields
  <2>7. ~ TimerRuns(q')
    BY <2>5, <2>6, TimerMasked
  <2>8. inv'.pc = "idle" /\ inv' = [pc |-> inv'.pc, cur |-> inv'.cur]
    BY <1>2, <2>1
  <2> QED
    BY <1>2, <2>1, <2>6, <2>7, <2>8 DEF MachineInv, TrapsInv, WallInv, AtLeast
<1> QED
  BY <1>3, <1>4, <1>5 DEF TimerStep

(* Threads register and remove handlers and controllers.                   *)
LEMMA ThreadKeeps ==
    ASSUME MachineInv, q.frames = <<>>, Sound(q'), q'.frames = q.frames, q'.stip = q.stip,
           q'.ssip = q.ssip, lag' = lag, inv' = inv
    PROVE  MachineInv'
<1>1. TopOK(q') /\ ~ TimerRuns(q') /\ ~ TimerRuns(q)
  BY NoTop
<1>2. WallInv'
  BY <1>1 DEF MachineInv, WallInv, AtLeast
<1> QED
  BY <1>1, <1>2 DEF MachineInv, TrapsInv

(* Everything that devices and their drivers do.                           *)
LEMMA DevicesKeep == MachineInv /\ Devices => MachineInv'
<1> SUFFICES ASSUME MachineInv, Devices PROVE MachineInv'
  OBVIOUS
<1>1. Sound(q)
  BY DEF MachineInv, TrapsInv
<1>2. CASE ReplugPlic
  <2>1. Sound(q') /\ Touch(q, q', {"ctrlrs", "lprio"})
    BY <1>1, <1>2, ReplugKeeps DEF ReplugPlic
  <2> QED
    BY <1>2, <2>1, ThreadKeeps DEF ReplugPlic, InThread, Touch, QFields, coVars
<1>3. CASE \E l \in PlicLines : Raise(l)
  BY <1>3, RaiseKeeps
<1>4. CASE \E h \in Drivers : Device(h)
  BY <1>4, DeviceStep
<1>5. ASSUME NEW h \in Drivers, Registered(h), Unregister(h) PROVE MachineInv'
  <2>1. Sound(q') /\ Touch(q, q', UnregisterFields)
    BY <1>1, <1>5, UnregisterKeeps DEF Drivers, Registered, Unregister, InThread
  <2> QED
    BY <1>5, <2>1, ThreadKeeps DEF Unregister, InThread, Touch, QFields, UnregisterFields, coVars
<1>6. ASSUME NEW h \in Drivers, ~ Registered(h), Register(h) PROVE MachineInv'
  <2>1. Sound(q') /\ Touch(q, q', OneLineFields)
    BY <1>1, <1>6, RegisterKeeps DEF Drivers, Registered, Register, InThread
  <2> QED
    BY <1>6, <2>1, ThreadKeeps DEF Register, InThread, Touch, QFields, OneLineFields, coVars
<1> QED
  BY <1>2, <1>3, <1>4, <1>5, <1>6 DEF Devices

(* Users arm and cancel callouts.                                          *)
LEMMA CallersKeep == MachineInv /\ Callers => MachineInv'
<1> SUFFICES ASSUME MachineInv, Callers PROVE MachineInv'
  OBVIOUS
<1>1. q' = q /\ lag' = lag /\ inv' = inv
  BY DEF Callers, Arm, Cancel, tim_callout_add, tim_callout_cancel
<1> QED
  BY <1>1 DEF MachineInv, TrapsInv, WallInv, AtLeast

(* Every step keeps the invariant.                                         *)
LEMMA MachineStep == MachineInv /\ [Next]_vars => MachineInv'
<1> SUFFICES ASSUME MachineInv, [Next]_vars PROVE MachineInv'
  OBVIOUS
<1>1. CASE Tick
  BY <1>1, TickKeeps
<1>2. CASE Trap
  BY <1>2, TrapStep
<1>3. CASE Scan
  BY <1>3, ScanStep
<1>4. CASE TimerStep
  BY <1>4, TimerKeeps
<1>5. CASE Devices
  BY <1>5, DevicesKeep
<1>6. CASE Callers
  BY <1>6, CallersKeep
<1>7. CASE UNCHANGED vars
  <2>1. q' = q /\ lag' = lag /\ inv' = inv
    BY <1>7 DEF vars, coVars
  <2> QED
    BY <2>1 DEF MachineInv, TrapsInv, WallInv, AtLeast
<1> QED
  BY <1>1, <1>2, <1>3, <1>4, <1>5, <1>6, <1>7 DEF Next

(* The machine starts with the CLINT, the PLIC and their two handlers.     *)
LEMMA ClintSound ==
    LET s == rv64_clint_init(irq_init)
    IN  /\ Sound(s) /\ s.ctrlrs = <<"CLINT">> /\ s.frames = <<>> /\ ~ s.stip /\ ~ s.ssip
        /\ \A l \in Lines : s.line[l].handlers = <<>>
<1> DEFINE x == [refs |-> 0, prio |-> 0, attr |-> {}, handlers |-> <<>>, ctrlr |-> NULL]
           line == [l \in Lines |-> x]
           z == [l \in PlicLines |-> 0]
           s == rv64_clint_init(irq_init)
<1>1. s = [line |-> line, prio_que |-> <<>>, ctrlrs |-> <<"CLINT">>, frames |-> <<>>, panic |-> FALSE,
           sie |-> TRUE, stie |-> FALSE, stip |-> FALSE, ssip |-> FALSE, pend |-> {}, claimed |-> {},
           enabled |-> {}, thr |-> 0, lprio |-> z]
  <2>1. irq_init.ctrlrs = <<>>
    BY DEF irq_init
  <2>2. ~ Contains(<<>>, "CLINT") /\ DOMAIN <<>> = {}
    BY DEF Contains
  <2>3. s = [clint_initialize(irq_init) EXCEPT !.ctrlrs = Append(@, "CLINT")]
    BY <2>1, <2>2 DEF rv64_clint_init, irq_register_ctrlr, initialize
  <2>4. Append(<<>>, "CLINT") = <<"CLINT">>
    OBVIOUS
  <2>5. irq_init =
          [line |-> line, prio_que |-> <<>>, ctrlrs |-> <<>>, frames |-> <<>>, panic |-> FALSE,
           sie |-> TRUE, stie |-> FALSE, stip |-> FALSE, ssip |-> FALSE, pend |-> {}, claimed |-> {},
           enabled |-> {}, thr |-> 0, lprio |-> z]
    BY DEF irq_init
  <2> HIDE DEF line, z, s
  <2>6. clint_initialize(irq_init) = [irq_init EXCEPT !.stie = FALSE]
    BY DEF clint_initialize
  <2>7. [irq_init EXCEPT !.stie = FALSE].ctrlrs = <<>>
    BY <2>5
  <2>8. s = [[irq_init EXCEPT !.stie = FALSE] EXCEPT !.ctrlrs = <<"CLINT">>]
    BY <2>3, <2>4, <2>6, <2>7
  <2> QED
    BY <2>5, <2>8
<1>2. x \in LineType /\ x.refs = 0 /\ x.prio = 0 /\ x.handlers = <<>>
  BY DEF LineType
<1>3. line \in [Lines -> LineType] /\ \A l \in Lines : line[l] = x
  BY <1>2
<1>4. z \in [PlicLines -> 0..PLIC_PRIO_MAX] /\ \A l \in PlicLines : z[l] = 0
  BY DEF PLIC_PRIO_MAX
<1> HIDE DEF x, line, z, s
<1>5. <<"CLINT">> \in Seq(Ctrlrs) /\ <<>> \in Seq(Lines) /\ <<>> \in Seq(FrameType)
  BY DEF Ctrlrs
<1>6. s \in QType
  BY <1>1, <1>3, <1>4, <1>5 DEF QType, PLIC_PRIO_MAX
<1>7. /\ s.line = line /\ s.prio_que = <<>> /\ s.ctrlrs = <<"CLINT">> /\ s.frames = <<>> /\ ~ s.panic
      /\ s.enabled = {} /\ s.lprio = z /\ ~ s.stip /\ ~ s.ssip
  BY <1>1
<1>8. IsInjective(<<>>) /\ Range(<<>>) = {} /\ DOMAIN <<>> = {} /\ Len(<<>>) = 0
  BY DEF IsInjective, Range
<1>9. \A l \in Lines : LineOK(s, l) /\ RefsAre(s, l)
  <2> TAKE l \in Lines
  <2>1. s.line[l].refs = 0 /\ s.line[l].prio = 0 /\ s.line[l].handlers = <<>>
    BY <1>2, <1>3, <1>7
  <2>2. LineOK(s, l)
    BY <1>4, <1>7, <1>8, <2>1 DEF LineOK
  <2>3. ~ Served(s, l)
    BY <1>7, <1>8 DEF Served
  <2>4. RefsAre(s, l)
    BY <2>1, <2>3 DEF RefsAre, Base
  <2> QED
    BY <2>2, <2>4
<1>10. LinesOK(s)
  BY <1>7, <1>8, <1>9 DEF LinesOK
<1>11. FramesOK(s) /\ MasksOK(s)
  BY <1>7, <1>8 DEF FramesOK, MasksOK
<1>12. \A l \in Lines : s.line[l].handlers = <<>>
  BY <1>2, <1>3, <1>7
<1> QED
  BY <1>6, <1>7, <1>10, <1>11, <1>12 DEF Sound, s

(* The state that hal_platform_init leaves.                                *)
LEMMA MachineInit == Init => MachineInv
<1> SUFFICES ASSUME Init PROVE MachineInv
  OBVIOUS
<1> DEFINE s0 == rv64_clint_init(irq_init)
           s1 == rv64_plic_init(s0)
           s2 == rv64_timer_init(s1)
           s3 == uart_rxintr_enable(s2)
<1>1. /\ Sound(s0) /\ s0.ctrlrs = <<"CLINT">> /\ s0.frames = <<>> /\ ~ s0.stip /\ ~ s0.ssip
      /\ \A l \in Lines : s0.line[l].handlers = <<>>
  BY ClintSound
<1> HIDE DEF s0
<1>2. Sound(s1) /\ Touch(s0, s1, {"ctrlrs", "lprio"})
  <2>1. <<"CLINT">>[1] = "CLINT" /\ DOMAIN <<"CLINT">> = {1}
    OBVIOUS
  <2>2. ~ Contains(<<"CLINT">>, "PLIC")
    BY <2>1 DEF Contains
  <2>3. s1 = IF Contains(s0.ctrlrs, "PLIC") THEN irq_unregister_ctrlr(s0, "PLIC")
             ELSE irq_register_ctrlr(s0, "PLIC")
    BY <1>1, <2>2 DEF rv64_plic_init
  <2> QED
    BY <1>1, <2>3, ReplugKeeps
<1> HIDE DEF s1
<1>3. /\ s1.frames = <<>> /\ ~ s1.stip /\ ~ s1.ssip
      /\ \A l \in Lines : s1.line[l].handlers = <<>>
  BY <1>1, <1>2 DEF Touch, QFields
<1>4. Range(<<>>) = {}
  BY DEF Range
<1>5. /\ Timer \in Handlers /\ Uart \in Handlers /\ LineOf[Timer] \in Lines /\ LineOf[Uart] \in Lines
      /\ LineOf[Uart] # LineOf[Timer]
  BY PlatformFacts, InterruptsAssumption
<1>6. /\ Sound(s2) /\ Touch(s1, s2, OneLineFields)
      /\ \A l \in Lines \ {LineOf[Timer]} : s2.line[l] = s1.line[l]
  BY <1>2, <1>3, <1>4, <1>5, RegisterKeeps DEF rv64_timer_init
<1> HIDE DEF s2
<1>7. s2.frames = <<>> /\ ~ s2.stip /\ ~ s2.ssip /\ Uart \notin Range(s2.line[LineOf[Uart]].handlers)
  BY <1>3, <1>4, <1>5, <1>6 DEF Touch, QFields, OneLineFields
<1>8. Sound(s3) /\ Touch(s2, s3, OneLineFields)
  BY <1>5, <1>6, <1>7, RegisterKeeps DEF uart_rxintr_enable
<1>9. q = s3
  BY DEF Init, hal_platform_init, s0, s1, s2
<1> HIDE DEF s3
<1>10. q.frames = <<>> /\ ~ q.stip /\ ~ q.ssip /\ Sound(q)
  BY <1>7, <1>8, <1>9 DEF Touch, QFields, OneLineFields
<1>11. TopOK(q) /\ ~ TimerRuns(q)
  BY <1>10, NoTop
<1>12. lag = 0 /\ inv = [pc |-> "idle", cur |-> NoEnt]
  BY DEF Init, tim_callout_init
<1>13. WallInv
  BY <1>10, <1>11, <1>12 DEF WallInv, AtLeast
<1> QED
  BY <1>10, <1>11, <1>13 DEF MachineInv, TrapsInv

-----------------------------------------------------------------------------
(* The theorems.                                                           *)

(* Whatever registers, interrupts and returns in kern/irq.c, the lines and *)
(* the traps on the stack agree, and every pending bit of the timer is a   *)
(* tick that the wall time has not counted.                                *)
THEOREM MachineInvariance == Spec => []MachineInv
<1> QED
  BY MachineInit, MachineStep, PTL DEF Spec

(* The references of irqline_get and irqline_put balance over registration *)
(* and nested traps: a line has exactly those of its handlers and of the   *)
(* traps that serve it, is in the tree as long as it has one and closed    *)
(* when it has none, and no assertion on them fails.                       *)
THEOREM LinesAlwaysExact == Spec => []LineRefsExact
<1>1. MachineInv => LineRefsExact
  <2> SUFFICES ASSUME Sound(q), NEW l \in Lines
               PROVE  /\ ~ q.panic
                      /\ q.line[l].refs = (IF q.line[l].handlers = <<>> THEN 0 ELSE 1)
                                          + 3 * Cardinality(FramesOf(l))
                      /\ (l \in Range(q.prio_que)) = (q.line[l].refs > 0)
                      /\ q.line[l].refs = 0 => l \notin q.enabled
    BY DEF MachineInv, TrapsInv, LineRefsExact, Sound, LinesOK
  <2>1. ~ q.panic /\ LineOK(q, l) /\ RefsAre(q, l) /\ DOMAIN q.frames = 1..Len(q.frames)
        /\ Len(q.frames) \in Nat
    BY FrameFields DEF Sound, LinesOK
  <2>2. FramesOf(l) = {i \in 1..Len(q.frames) : Serves(q, i, l)}
    BY <2>1 DEF FramesOf, Serves
  <2>3. CASE ~ Served(q, l)
    <3>1. FramesOf(l) = {}
      BY <2>1, <2>2, <2>3 DEF Served
    <3>2. 3 * Cardinality(FramesOf(l)) = 0
      BY <3>1, FS_EmptySet
    <3> QED
      BY <2>1, <2>3, <3>2 DEF LineOK, RefsAre, Base
  <2>4. CASE Served(q, l)
    <3>1. PICK i \in 1..Len(q.frames) : Serves(q, i, l)
      BY <2>1, <2>4 DEF Served
    <3>2. ASSUME NEW j \in 1..Len(q.frames), Serves(q, j, l) PROVE j = i
      <4>1. ~ (i < j) /\ ~ (j < i)
        BY <3>1, <3>2, ServedOnce DEF Serves
      <4> QED
        BY <2>1, <4>1
    <3>3. FramesOf(l) = {i}
      BY <2>2, <3>1, <3>2
    <3>4. Cardinality({i}) = 1
      BY FS_Singleton
    <3>5. 3 * Cardinality(FramesOf(l)) = 3
      BY <3>3, <3>4
    <3> QED
      BY <2>1, <2>4, <3>5 DEF LineOK, RefsAre, Base
  <2> QED
    BY <2>3, <2>4
<1> QED
  BY <1>1, MachineInvariance, PTL

(* The threshold that handle_irq_line sets lets only lines of higher       *)
(* priority interrupt a nestable handler, through any depth of nesting and *)
(* whatever handlers remove themselves meanwhile.                          *)
THEOREM NestingAlwaysRises == Spec => []NestingRises
<1>1. MachineInv => NestingRises
  <2> SUFFICES ASSUME Sound(q), NEW i \in DOMAIN q.frames, NEW j \in DOMAIN q.frames,
                      i < j, q.frames[j].pc = "handler"
               PROVE  q.line[q.frames[i].line].prio < q.line[q.frames[j].line].prio
    BY DEF MachineInv, TrapsInv, NestingRises
  <2>1. i \in 1..Len(q.frames) /\ j \in 1..Len(q.frames)
    BY FrameFields DEF Sound
  <2>2. FPrio(q, i) < FPrio(q, j)
    BY <2>1, ServedOnce
  <2> QED
    BY <2>2 DEF FPrio
<1> QED
  BY <1>1, MachineInvariance, PTL

(* rv64_timer_handler and clint_eoi together clear the pending bits of a   *)
(* tick without losing or repeating it: the wall time never counts more    *)
(* ticks than the machine has had.                                         *)
THEOREM WallNeverAhead == Spec => []WallTimeNeverAhead
<1>1. MachineInv => WallTimeNeverAhead
  BY DEF MachineInv, WallInv, WallTimeNeverAhead
<1> QED
  BY <1>1, MachineInvariance, PTL
=============================================================================
