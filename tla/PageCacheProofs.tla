-------------------------- MODULE PageCacheProofs ---------------------------
(***************************************************************************)
(* Proofs about PageCache, for every number of users, shrinkers, pages and *)
(* blocks.                                                                 *)
(*                                                                         *)
(* The argument.  PCACHE_STATE_BUSY excludes two workers because a thread  *)
(* takes a page only out of the LRU queue, whose pages are not busy        *)
(* (LruOK), or registers one that it alone knows (InsertOK).  An update    *)
(* survives because a valid registered page is the latest (DataOK), and    *)
(* because only the shrinker drops the last reference (RefsOK), to a page  *)
(* that it has written back (WorkersOK).                                   *)
(***************************************************************************)
EXTENDS PageCache, SequenceTheorems, FiniteSetTheorems, TLAPS

-----------------------------------------------------------------------------
(* The LRU queue and the wait queues are sequences without repetition.     *)

(* Taking out the entry at i.                                              *)
LEMMA RemoveAtFacts ==
    ASSUME NEW S, NEW s \in Seq(S), IsInjective(s), NEW i \in 1..Len(s)
    PROVE  /\ RemoveAt(s, i) \in Seq(S) /\ IsInjective(RemoveAt(s, i))
           /\ Range(RemoveAt(s, i)) = Range(s) \ {s[i]}
<1> DEFINE n == Len(s)
           r == RemoveAt(s, i)
<1>1. n \in Nat /\ DOMAIN s = 1..n /\ \A j \in 1..n : s[j] \in S
  BY LenProperties, ElementOfSeq
<1>2. /\ r \in Seq(S) /\ Len(r) = n - 1
      /\ \A j \in 1..(n - 1) : r[j] = IF j < i THEN s[j] ELSE s[j + 1]
  <2> DEFINE a == SubSeq(s, 1, i - 1)
             z == SubSeq(s, i + 1, n)
  <2>1. /\ a \in Seq(S) /\ Len(a) = i - 1
        /\ \A j \in 1..(i - 1) : a[j] = s[j]
    BY <1>1
  <2>2. /\ z \in Seq(S) /\ Len(z) = n - i
        /\ \A j \in 1..(n - i) : z[j] = s[i + j]
    <3>1. i + 1 \in Int /\ n \in Int /\ \A j \in (i + 1)..n : s[j] \in S
      BY <1>1
    <3>2. /\ z \in Seq(S) /\ Len(z) = IF i + 1 <= n THEN n - (i + 1) + 1 ELSE 0
          /\ \A j \in 1..(n - (i + 1) + 1) : z[j] = s[(i + 1) + j - 1]
      BY <3>1, SubSeqProperties
    <3> HIDE DEF z
    <3>3. n \in Nat /\ i \in 1..n
      BY <1>1
    <3> HIDE DEF n
    <3>4. n - (i + 1) + 1 = n - i /\ (~ (i + 1 <= n) => n - i = 0)
      BY <3>3
    <3>5. Len(z) = n - i
      BY <3>2, <3>4
    <3>6. \A j \in 1..(n - i) : (i + 1) + j - 1 = i + j
      BY <3>3
    <3> QED
      BY <3>2, <3>4, <3>5, <3>6
  <2> HIDE DEF a, z
  <2>3. /\ a \o z \in Seq(S) /\ Len(a \o z) = Len(a) + Len(z)
        /\ \A j \in 1..(Len(a) + Len(z)) :
             (a \o z)[j] = IF j <= Len(a) THEN a[j] ELSE z[j - Len(a)]
    BY <2>1, <2>2, ConcatProperties
  <2>4. r = a \o z
    BY DEF RemoveAt, a, z
  <2>5. Len(a) + Len(z) = n - 1
    BY <1>1, <2>1, <2>2
  <2>6. ASSUME NEW j \in 1..(n - 1)
        PROVE  (a \o z)[j] = IF j < i THEN s[j] ELSE s[j + 1]
    <3>1. CASE j < i
      BY <1>1, <2>1, <2>3, <2>5, <3>1
    <3>2. CASE ~ (j < i)
      <4>1. j - (i - 1) \in 1..(n - i) /\ ~ (j <= i - 1) /\ i + (j - (i - 1)) = j + 1
        BY <1>1, <3>2
      <4>2. (a \o z)[j] = z[j - (i - 1)]
        BY <2>1, <2>3, <2>5, <4>1
      <4> QED
        BY <2>2, <3>2, <4>1, <4>2
    <3> QED
      BY <3>1, <3>2
  <2> QED
    BY <2>3, <2>4, <2>5, <2>6
<1>3. DOMAIN r = 1..(n - 1)
  BY <1>2, LenProperties
<1> HIDE DEF n, r
<1>4. \A a, b \in 1..n : s[a] = s[b] => a = b
  BY <1>1 DEF IsInjective
<1>5. IsInjective(r)
  <2> SUFFICES ASSUME NEW a \in 1..(n - 1), NEW b \in 1..(n - 1), r[a] = r[b] PROVE a = b
    BY <1>3 DEF IsInjective
  <2> DEFINE x == IF a < i THEN a ELSE a + 1
             y == IF b < i THEN b ELSE b + 1
  <2>1. x \in 1..n /\ y \in 1..n /\ s[x] = s[y]
    BY <1>1, <1>2
  <2>2. x = y
    BY <1>4, <2>1
  <2> QED
    BY <2>2
<1>6. ASSUME NEW j \in 1..(n - 1) PROVE r[j] \in Range(s) \ {s[i]}
  <2>1. i \in 1..n
    BY DEF n
  <2>2. CASE j < i
    <3>1. j \in 1..n /\ j # i /\ r[j] = s[j]
      BY <1>1, <1>2, <2>1, <2>2
    <3> QED
      BY <1>1, <1>4, <2>1, <3>1 DEF Range
  <2>3. CASE ~ (j < i)
    <3>1. j + 1 \in 1..n /\ j + 1 # i /\ r[j] = s[j + 1]
      BY <1>1, <1>2, <2>1, <2>3
    <3> QED
      BY <1>1, <1>4, <2>1, <3>1 DEF Range
  <2> QED
    BY <2>2, <2>3
<1>7. ASSUME NEW x \in Range(s) \ {s[i]} PROVE x \in Range(r)
  <2>1. PICK j \in 1..n : x = s[j] /\ j # i
    BY <1>1 DEF Range
  <2>2. i \in 1..n
    BY DEF n
  <2>3. CASE j < i
    <3>1. j \in 1..(n - 1) /\ r[j] = x
      BY <1>1, <1>2, <2>1, <2>2, <2>3
    <3> QED
      BY <1>3, <3>1 DEF Range
  <2>4. CASE ~ (j < i)
    <3>1. j - 1 \in 1..(n - 1) /\ r[j - 1] = x
      BY <1>1, <1>2, <2>1, <2>2, <2>4
    <3> QED
      BY <1>3, <3>1 DEF Range
  <2> QED
    BY <2>3, <2>4
<1>8. Range(r) = Range(s) \ {s[i]}
  BY <1>3, <1>6, <1>7 DEF Range
<1> QED
  BY <1>2, <1>5, <1>8 DEF r

(* Taking out the first entry.                                             *)
LEMMA TailFacts ==
    ASSUME NEW S, NEW s \in Seq(S), IsInjective(s), s # <<>>
    PROVE  /\ Tail(s) \in Seq(S) /\ IsInjective(Tail(s))
           /\ Head(s) \in Range(s)
           /\ Range(Tail(s)) = Range(s) \ {Head(s)}
<1> DEFINE n == Len(s)
           r == Tail(s)
<1>1. n \in Nat /\ n >= 1 /\ DOMAIN s = 1..n /\ Head(s) = s[1]
  BY LenProperties, EmptySeq
<1>2. /\ r \in Seq(S) /\ Len(r) = n - 1 /\ DOMAIN r = 1..(n - 1)
      /\ \A j \in 1..(n - 1) : r[j] = s[j + 1]
  BY <1>1, HeadTailProperties, LenProperties
<1> HIDE DEF n, r
<1>3. \A a, b \in 1..n : s[a] = s[b] => a = b
  BY <1>1 DEF IsInjective
<1>4. IsInjective(r)
  <2> SUFFICES ASSUME NEW a \in 1..(n - 1), NEW b \in 1..(n - 1), r[a] = r[b] PROVE a = b
    BY <1>2 DEF IsInjective
  <2>1. a + 1 \in 1..n /\ b + 1 \in 1..n /\ s[a + 1] = s[b + 1]
    BY <1>1, <1>2
  <2> QED
    BY <1>1, <1>3, <2>1
<1>5. ASSUME NEW j \in 1..(n - 1) PROVE r[j] \in Range(s) \ {s[1]}
  <2>1. j + 1 \in 1..n /\ j + 1 # 1 /\ 1 \in 1..n /\ r[j] = s[j + 1]
    BY <1>1, <1>2
  <2> QED
    BY <1>1, <1>3, <2>1 DEF Range
<1>6. ASSUME NEW x \in Range(s) \ {s[1]} PROVE x \in Range(r)
  <2>1. PICK j \in 1..n : x = s[j] /\ j # 1
    BY <1>1 DEF Range
  <2>2. j - 1 \in 1..(n - 1) /\ r[j - 1] = x
    BY <1>1, <1>2, <2>1
  <2> QED
    BY <1>2, <2>2 DEF Range
<1>7. Range(r) = Range(s) \ {Head(s)}
  BY <1>1, <1>2, <1>5, <1>6 DEF Range
<1>8. Head(s) \in Range(s)
  BY <1>1 DEF Range
<1> QED
  BY <1>2, <1>4, <1>7, <1>8 DEF r

(* Appending an entry that is not in the queue.                            *)
LEMMA AppendFacts ==
    ASSUME NEW S, NEW s \in Seq(S), IsInjective(s), NEW x \in S \ Range(s)
    PROVE  /\ Append(s, x) \in Seq(S) /\ IsInjective(Append(s, x))
           /\ Range(Append(s, x)) = Range(s) \cup {x}
<1> DEFINE n == Len(s)
           r == Append(s, x)
<1>1. n \in Nat /\ DOMAIN s = 1..n
  BY LenProperties
<1>2. /\ r \in Seq(S) /\ Len(r) = n + 1 /\ DOMAIN r = 1..(n + 1)
      /\ \A j \in 1..n : r[j] = s[j]
      /\ r[n + 1] = x
  BY <1>1, AppendProperties, LenProperties
<1> HIDE DEF n, r
<1>3. \A a, b \in 1..n : s[a] = s[b] => a = b
  BY <1>1 DEF IsInjective
<1>4. \A j \in 1..n : s[j] # x /\ s[j] \in Range(s)
  BY <1>1 DEF Range
<1>5. \A j \in 1..(n + 1) : j \in 1..n \/ j = n + 1
  BY <1>1
<1>6. IsInjective(r)
  BY <1>2, <1>3, <1>4, <1>5 DEF IsInjective
<1>7. \A j \in 1..n : j \in 1..(n + 1)
  BY <1>1
<1>8. n + 1 \in 1..(n + 1)
  BY <1>1
<1>9. Range(r) = Range(s) \cup {x}
  BY <1>1, <1>2, <1>4, <1>5, <1>7, <1>8 DEF Range
<1> QED
  BY <1>2, <1>6, <1>9 DEF r

-----------------------------------------------------------------------------
(* The invariant.                                                          *)

\* The state bits of a page: at most one of CLEAN and DIRTY is set.
Clean(p) == "CLEAN" \in state[p]
Dirty(p) == "DIRTY" \in state[p]

(* Registered pages have a key of their own; a page without a key is free. *)
KeysOK ==
    /\ \A p \in tree : key[p] \in Keys
    /\ \A p, q \in tree : key[p] = key[q] => p = q
    /\ \A p \in Pages : key[p] = Nil => state[p] = {}

(* What a worker may rely on about its page.                               *)
WorkersOK ==
    /\ \A t \in Working : page[t] \in tree /\ Busy(page[t])
    /\ \A s, t \in Working : page[s] = page[t] => s = t
    /\ \A t \in Working : loc[t] # "fill" => Clean(page[t]) \/ Dirty(page[t])
    /\ \A t \in Working : loc[t] \in {"written", "drop"} => ~ Dirty(page[t])

(* The page of a thread that is about to register it is known to it only.  *)
InsertOK ==
    /\ \A t \in Users : loc[t] \in {"alloc", "insert"} => want[t] \in Keys
    /\ \A t \in Users : loc[t] = "insert" =>
         /\ page[t] \in Pages \ tree
         /\ key[page[t]] = want[t]
         /\ state[page[t]] = {"BUSY"}
         /\ refs[page[t]] = 1
    /\ \A s, t \in Users : loc[s] = "insert" /\ loc[t] = "insert" /\ page[s] = page[t] => s = t

(* The LRU queue holds no page twice, and only idle ones.                  *)
LruOK ==
    /\ IsInjective(lru)
    /\ \A p \in Range(lru) : /\ p \in tree /\ ~ Busy(p) /\ refs[p] = 2
                             /\ Clean(p) \/ Dirty(p)

(* Only the shrinker drops a page to its last reference.                   *)
RefsOK ==
    \A t \in Working :
        refs[page[t]] = IF loc[t] \in {"put", "written", "drop"} THEN 1 ELSE 2

(* Threads sleep for registered busy pages only.                           *)
WaitersOK == \A p \in Pages : waiters[p] # {} => p \in tree /\ Busy(p)

(* A valid registered page has the latest contents, and so has the block   *)
(* unless that page is dirty.                                              *)
DataOK ==
    /\ \A p \in Pages : ~ (Clean(p) /\ Dirty(p))
    /\ \A p \in tree : Clean(p) \/ Dirty(p) => p \in latest
    /\ \A k \in Keys \ synced : \E p \in tree : key[p] = k /\ Dirty(p)

IInv == TypeOK /\ KeysOK /\ WorkersOK /\ InsertOK /\ LruOK /\ RefsOK /\ WaitersOK /\ DataOK

\* Where a thread is when it works on a page it has locked.
WorkLocs == {"fill", "own", "put", "shrink", "flush", "written", "drop"}

-----------------------------------------------------------------------------
(* PCACHE_IS_VALID asks for one of the two bits.                           *)
LEMMA ValidIs ==
    ASSUME NEW p \in Pages, ~ (Clean(p) /\ Dirty(p))
    PROVE  Valid(p) <=> Clean(p) \/ Dirty(p)
<1>1. CASE Clean(p)
  <2>1. state[p] \cap {"CLEAN", "DIRTY"} = {"CLEAN"}
    BY <1>1 DEF Clean, Dirty
  <2> QED
    BY <1>1, <2>1, FS_Singleton DEF Valid
<1>2. CASE Dirty(p)
  <2>1. state[p] \cap {"CLEAN", "DIRTY"} = {"DIRTY"}
    BY <1>2 DEF Clean, Dirty
  <2> QED
    BY <1>2, <2>1, FS_Singleton DEF Valid
<1>3. CASE ~ Clean(p) /\ ~ Dirty(p)
  <2>1. state[p] \cap {"CLEAN", "DIRTY"} = {}
    BY <1>3 DEF Clean, Dirty
  <2> QED
    BY <1>3, <2>1, FS_EmptySet DEF Valid
<1> QED
  BY <1>1, <1>2, <1>3

-----------------------------------------------------------------------------
(* The work on a locked page.                                              *)

(* fsimg_strategy moves the latest contents in either direction: a dirty   *)
(* page has them, and a page that is not dirty finds them in the block.    *)
LEMMA CopyFacts ==
    ASSUME IInv, NEW p \in tree, fsimg_strategy(p)
    PROVE  /\ latest' = IF Dirty(p) THEN latest ELSE latest \cup {p}
           /\ synced' = IF Dirty(p) THEN synced \cup {key[p]} ELSE synced
<1>1. p \in Pages /\ key[p] \in Keys
  BY DEF IInv, TypeOK, KeysOK
<1>2. CASE Dirty(p)
  <2>1. p \in latest
    BY <1>2 DEF IInv, DataOK
  <2> QED
    BY <1>2, <2>1 DEF fsimg_strategy, Dirty
<1>3. CASE ~ Dirty(p)
  <2>1. key[p] \in synced
    <3>1. SUFFICES ASSUME key[p] \in Keys \ synced PROVE FALSE
      BY <1>1
    <3>2. PICK q \in tree : key[q] = key[p] /\ Dirty(q)
      BY <3>1 DEF IInv, DataOK
    <3>3. q = p
      BY <3>2 DEF IInv, KeysOK
    <3> QED
      BY <1>3, <3>2, <3>3
  <2> QED
    BY <1>3, <2>1 DEF fsimg_strategy, Dirty
<1> QED
  BY <1>2, <1>3

\* The thread t works on its page, which gets the bits b and r references.
Works(t, l, b, r) ==
    /\ t \in Working
    /\ loc' = [loc EXCEPT ![t] = l]
    /\ state' = [state EXCEPT ![page[t]] = b]
    /\ refs' = [refs EXCEPT ![page[t]] = r]
    /\ "BUSY" \in b
    /\ l \in WorkLocs \ {"fill"} => "CLEAN" \in b \/ "DIRTY" \in b
    /\ l \in {"written", "drop"} => "DIRTY" \notin b
    /\ l \in WorkLocs => r = IF l \in {"put", "written", "drop"} THEN 1 ELSE 2
    /\ l # "insert" /\ l # "alloc"
    /\ UNCHANGED <<tree, lru, key, waiters, page, want>>

(* Working on a locked page disturbs nobody else, if the data stay right.  *)
LEMMA WorkKeepsIInv ==
    ASSUME IInv, NEW t, NEW l, NEW b, NEW r, Works(t, l, b, r), TypeOK', DataOK'
    PROVE  IInv'
<1> DEFINE p == page[t]
<1>1. /\ TypeOK /\ t \in Threads /\ t \in Working /\ p \in tree /\ p \in Pages /\ Busy(p)
      /\ UNCHANGED <<tree, lru, key, waiters, page, want>>
      /\ \A s \in Working : page[s] = p => s = t
  BY DEF IInv, TypeOK, WorkersOK, Works, Working
<1>2. /\ \A x \in Pages : state'[x] = IF x = p THEN b ELSE state[x]
      /\ \A x \in Pages : refs'[x] = IF x = p THEN r ELSE refs[x]
      /\ \A s \in Threads : loc'[s] = IF s = t THEN l ELSE loc[s]
  BY <1>1 DEF Works, TypeOK
<1> HIDE DEF p
<1>3. KeysOK'
  <2>1. key[p] # Nil
    BY <1>1, PageCacheAssumption DEF IInv, KeysOK
  <2> QED
    BY <1>1, <1>2, <2>1 DEF IInv, KeysOK
<1>4. Working' = IF l \in WorkLocs THEN Working ELSE Working \ {t}
  BY <1>1, <1>2 DEF Working, WorkLocs
<1>5. \A s \in Working' : /\ s \in Working /\ s \in Threads
                          /\ page'[s] \in tree' /\ page'[s] \in Pages /\ Busy(page[s])
                          /\ s # t => page[s] # p
  BY <1>1, <1>4 DEF IInv, WorkersOK, TypeOK, Working
<1>6. WorkersOK'
  <2>1. \A s \in Working' : page'[s] \in tree' /\ Busy(page[s])'
    BY <1>1, <1>2, <1>5 DEF Busy, Works
  <2>2. \A s, u \in Working' : page'[s] = page'[u] => s = u
    BY <1>1, <1>5 DEF IInv, WorkersOK
  <2>3. \A s \in Working' : loc'[s] # "fill" => Clean(page[s])' \/ Dirty(page[s])'
    <3> SUFFICES ASSUME NEW s \in Working', loc'[s] # "fill"
                 PROVE  Clean(page[s])' \/ Dirty(page[s])'
      OBVIOUS
    <3>1. CASE s = t
      <4>1. l \in WorkLocs \ {"fill"}
        BY <1>1, <1>2, <1>4, <3>1 DEF Working, WorkLocs
      <4> QED
        BY <1>1, <1>2, <3>1, <4>1 DEF Clean, Dirty, Works, p
    <3>2. CASE s # t
      BY <1>1, <1>2, <1>5, <3>2 DEF IInv, WorkersOK, Clean, Dirty
    <3> QED
      BY <3>1, <3>2
  <2>4. \A s \in Working' : loc'[s] \in {"written", "drop"} => ~ Dirty(page[s])'
    <3> SUFFICES ASSUME NEW s \in Working', loc'[s] \in {"written", "drop"}
                 PROVE  ~ Dirty(page[s])'
      OBVIOUS
    <3>1. CASE s = t
      BY <1>1, <1>2, <3>1 DEF Dirty, Works, p
    <3>2. CASE s # t
      BY <1>1, <1>2, <1>5, <3>2 DEF IInv, WorkersOK, Dirty
    <3> QED
      BY <3>1, <3>2
  <2> QED
    BY <2>1, <2>2, <2>3, <2>4 DEF WorkersOK
<1>7. InsertOK'
  <2>1. \A s \in Users : loc'[s] \in {"alloc", "insert"} => s # t /\ loc'[s] = loc[s] /\ s \in Threads
    BY <1>2 DEF Works, Threads
  <2>2. \A s \in Users : loc[s] = "insert" => page[s] # p
    BY <1>1 DEF IInv, InsertOK
  <2> QED
    BY <1>1, <1>2, <2>1, <2>2 DEF IInv, InsertOK
<1>8. LruOK'
  <2>1. p \notin Range(lru) /\ \A x \in Range(lru) : x \in Pages
    BY <1>1 DEF IInv, LruOK, TypeOK
  <2> QED
    BY <1>1, <1>2, <2>1 DEF IInv, LruOK, Busy, Clean, Dirty
<1>9. RefsOK'
  <2> SUFFICES ASSUME NEW s \in Working'
               PROVE  refs'[page'[s]] = IF loc'[s] \in {"put", "written", "drop"} THEN 1 ELSE 2
    BY DEF RefsOK
  <2>1. CASE s = t
    <3>1. l \in WorkLocs
      BY <1>4, <2>1
    <3> QED
      BY <1>1, <1>2, <2>1, <3>1 DEF Works, p
  <2>2. CASE s # t
    BY <1>1, <1>2, <1>5, <2>2 DEF IInv, RefsOK
  <2> QED
    BY <2>1, <2>2
<1>10. WaitersOK'
  BY <1>1, <1>2 DEF IInv, WaitersOK, Busy, Works
<1> QED
  BY <1>3, <1>6, <1>7, <1>8, <1>9, <1>10 DEF IInv

(* What the invariant says about a thread that works.                      *)
LEMMA WorkerFacts ==
    ASSUME IInv, NEW t \in Threads, loc[t] \in WorkLocs
    PROVE  /\ t \in Working /\ page[t] \in tree /\ page[t] \in Pages /\ key[page[t]] \in Keys
           /\ "BUSY" \in state[page[t]]
           /\ state[page[t]] \in SUBSET {"BUSY", "CLEAN", "DIRTY"}
           /\ refs[page[t]] = IF loc[t] \in {"put", "written", "drop"} THEN 1 ELSE 2
           /\ loc[t] # "fill" => Clean(page[t]) \/ Dirty(page[t])
           /\ loc[t] \in {"written", "drop"} => ~ Dirty(page[t])
           /\ ~ (Clean(page[t]) /\ Dirty(page[t]))
<1>1. t \in Working
  BY DEF Working, WorkLocs
<1>2. page[t] \in tree /\ page[t] \in Pages /\ Busy(page[t]) /\ key[page[t]] \in Keys
  BY <1>1 DEF IInv, TypeOK, WorkersOK, KeysOK
<1> QED
  BY <1>1, <1>2 DEF IInv, TypeOK, WorkersOK, RefsOK, DataOK, Busy

(* Marking the page dirty, writing it back or reading it keeps the data    *)
(* right, if it keeps the page's lock.                                     *)
LEMMA CopyKeepsData ==
    ASSUME IInv, NEW p \in tree, fsimg_strategy(p), UNCHANGED <<tree, key>>,
           state' = [state EXCEPT ![p] = (@ \ {"DIRTY"}) \cup {"CLEAN"}]
    PROVE  DataOK' /\ latest' \in SUBSET Pages /\ synced' \in SUBSET Keys
<1>1. /\ TypeOK /\ p \in Pages /\ key[p] \in Keys
      /\ \A x \in Pages : state'[x] = IF x = p THEN (state[x] \ {"DIRTY"}) \cup {"CLEAN"}
                                      ELSE state[x]
  BY DEF IInv, TypeOK, KeysOK
<1>2. /\ latest' = IF Dirty(p) THEN latest ELSE latest \cup {p}
      /\ synced' = IF Dirty(p) THEN synced \cup {key[p]} ELSE synced
  BY CopyFacts
<1>3. p \in latest'
  BY <1>2 DEF IInv, DataOK
<1>4. \A x \in Pages : ~ (Clean(x)' /\ Dirty(x)')
  BY <1>1 DEF IInv, DataOK, Clean, Dirty
<1>5. \A x \in tree' : Clean(x)' \/ Dirty(x)' => x \in latest'
  <2> SUFFICES ASSUME NEW x \in tree, Clean(x)' \/ Dirty(x)', x # p PROVE x \in latest'
    BY <1>3
  <2>1. Clean(x) \/ Dirty(x)
    BY <1>1 DEF Clean, Dirty, TypeOK
  <2> QED
    BY <1>2, <2>1 DEF IInv, DataOK
<1>6. \A k \in Keys \ synced' : \E x \in tree' : key'[x] = k /\ Dirty(x)'
  <2> TAKE k \in Keys \ synced'
  <2>1. k \in Keys \ synced
    BY <1>2
  <2>2. PICK x \in tree : key[x] = k /\ Dirty(x)
    BY <2>1 DEF IInv, DataOK
  <2>3. x # p
    BY <1>2, <2>2
  <2>4. Dirty(x)'
    BY <1>1, <2>2, <2>3 DEF Dirty, TypeOK
  <2> QED
    BY <2>2, <2>4
<1>7. latest' \in SUBSET Pages /\ synced' \in SUBSET Keys
  BY <1>1, <1>2 DEF TypeOK
<1> QED
  BY <1>4, <1>5, <1>6, <1>7 DEF DataOK

(* A step that changes no bit but BUSY and no registration keeps the data. *)
LEMMA SameData ==
    ASSUME IInv, UNCHANGED <<tree, key, data>>,
           \A x \in Pages : state'[x] \ {"BUSY"} = state[x] \ {"BUSY"}
    PROVE  DataOK'
<1>1. \A x \in Pages : (Clean(x)' <=> Clean(x)) /\ (Dirty(x)' <=> Dirty(x))
  BY DEF Clean, Dirty
<1>2. tree \subseteq Pages
  BY DEF IInv, TypeOK
<1>3. /\ \A x \in Pages : ~ (Clean(x)' /\ Dirty(x)')
      /\ \A x \in tree' : Clean(x)' \/ Dirty(x)' => x \in latest'
  BY <1>1, <1>2 DEF IInv, DataOK, data
<1>4. \A k \in Keys \ synced' : \E x \in tree' : key'[x] = k /\ Dirty(x)'
  <2> TAKE k \in Keys \ synced'
  <2>1. PICK x \in tree : key[x] = k /\ Dirty(x)
    BY DEF IInv, DataOK, data
  <2> QED
    BY <1>1, <1>2, <2>1
<1> QED
  BY <1>3, <1>4 DEF DataOK

(* Reading a page that is not valid.                                       *)
LEMMA FillStep == ASSUME IInv, NEW t \in Users, fill_pagecache(t) PROVE IInv'
<1> DEFINE p == page[t]
<1>1. /\ TypeOK /\ t \in Threads /\ loc[t] = "fill"
      /\ UNCHANGED <<pool, key, refs, waiters, page, want, free_nr, stopped>>
      /\ loc' = [loc EXCEPT ![t] = "own"]
  BY DEF IInv, Threads, fill_pagecache, goto
<1>2. /\ t \in Working /\ p \in tree /\ p \in Pages /\ "BUSY" \in state[p]
      /\ state[p] \in SUBSET {"BUSY", "CLEAN", "DIRTY"} /\ refs[p] = 2
      /\ ~ (Clean(p) /\ Dirty(p))
  BY <1>1, WorkerFacts DEF WorkLocs
<1>3. Valid(p) <=> Clean(p) \/ Dirty(p)
  BY <1>2, ValidIs
<1>4. refs' = [refs EXCEPT ![p] = 2]
  BY <1>1, <1>2 DEF TypeOK
<1>5. CASE Valid(p)
  <2>1. UNCHANGED <<state, data>>
    BY <1>5 DEF fill_pagecache
  <2>2. state' = [state EXCEPT ![p] = state[p]]
    BY <1>1, <1>2, <2>1 DEF TypeOK
  <2>3. DataOK'
    BY <1>1, <2>1, SameData DEF pool
  <2>4. TypeOK'
    BY <1>1, <2>1 DEF TypeOK, pool, data, UserLocs, ShrinkLocs
  <2>5. Works(t, "own", state[p], 2)
    BY <1>1, <1>2, <1>3, <1>4, <1>5, <2>2 DEF Works, pool, Clean, Dirty, WorkLocs
  <2> QED
    BY <2>3, <2>4, <2>5, WorkKeepsIInv
<1>6. CASE ~ Valid(p)
  <2>1. fsimg_strategy(p) /\ state' = [state EXCEPT ![p] = @ \cup {"CLEAN"}]
    BY <1>6 DEF fill_pagecache
  <2>2. state[p] \ {"DIRTY"} = state[p]
    BY <1>3, <1>6 DEF Dirty
  <2>3. state' = [state EXCEPT ![p] = (@ \ {"DIRTY"}) \cup {"CLEAN"}]
    BY <2>1, <2>2
  <2>4. DataOK' /\ latest' \in SUBSET Pages /\ synced' \in SUBSET Keys
    BY <1>1, <1>2, <2>1, <2>3, CopyKeepsData DEF pool
  <2>5. TypeOK'
    BY <1>1, <1>2, <2>1, <2>4 DEF TypeOK, pool, UserLocs, ShrinkLocs
  <2>6. Works(t, "own", state[p] \cup {"CLEAN"}, 2)
    BY <1>1, <1>2, <1>4, <2>1 DEF Works, pool, WorkLocs
  <2> QED
    BY <2>4, <2>5, <2>6, WorkKeepsIInv
<1> QED
  BY <1>5, <1>6

(* The owner writes to its page.                                           *)
LEMMA DirtyStep == ASSUME IInv, NEW t \in Users, pagecache_mark_dirty(t) PROVE IInv'
<1> DEFINE p == page[t]
           b == (state[p] \ {"CLEAN"}) \cup {"DIRTY"}
<1>1. /\ TypeOK /\ t \in Threads /\ loc[t] = "own"
      /\ UNCHANGED <<pool, key, refs, waiters, local, stopped>>
      /\ latest' = {q \in latest : key[q] # key[p]} \cup {p}
      /\ synced' = synced \ {key[p]}
      /\ state' = [state EXCEPT ![p] = b]
  BY DEF IInv, Threads, pagecache_mark_dirty
<1>2. /\ t \in Working /\ p \in tree /\ p \in Pages /\ "BUSY" \in state[p] /\ key[p] \in Keys
      /\ state[p] \in SUBSET {"BUSY", "CLEAN", "DIRTY"} /\ refs[p] = 2
  BY <1>1, WorkerFacts DEF WorkLocs
<1>3. refs' = [refs EXCEPT ![p] = 2] /\ loc' = [loc EXCEPT ![t] = "own"]
  BY <1>1, <1>2 DEF TypeOK, local
<1>4. \A x \in Pages : state'[x] = IF x = p THEN b ELSE state[x]
  BY <1>1, <1>2 DEF TypeOK
<1>5. DataOK'
  <2>1. \A x \in Pages : ~ (Clean(x)' /\ Dirty(x)')
    BY <1>4 DEF IInv, DataOK, Clean, Dirty
  <2>2. \A x \in tree' : Clean(x)' \/ Dirty(x)' => x \in latest'
    <3> SUFFICES ASSUME NEW x \in tree, Clean(x)' \/ Dirty(x)', x # p PROVE x \in latest'
      BY <1>1 DEF pool
    <3>1. (Clean(x) \/ Dirty(x)) /\ key[x] # key[p]
      BY <1>2, <1>4 DEF IInv, TypeOK, KeysOK, Clean, Dirty
    <3> QED
      BY <1>1, <3>1 DEF IInv, DataOK
  <2>3. \A k \in Keys \ synced' : \E x \in tree' : key'[x] = k /\ Dirty(x)'
    <3> TAKE k \in Keys \ synced'
    <3>1. CASE k = key[p]
      BY <1>1, <1>2, <1>4, <3>1 DEF pool, Dirty
    <3>2. CASE k # key[p]
      <4>1. PICK x \in tree : key[x] = k /\ Dirty(x)
        BY <1>1, <3>2 DEF IInv, DataOK
      <4>2. x # p /\ x \in Pages
        BY <1>1, <3>2, <4>1 DEF TypeOK
      <4> QED
        BY <1>1, <1>4, <4>1, <4>2 DEF pool, Dirty
    <3> QED
      BY <3>1, <3>2
  <2> QED
    BY <2>1, <2>2, <2>3 DEF DataOK
<1>6. TypeOK'
  <2>1. b \in SUBSET {"BUSY", "CLEAN", "DIRTY"}
    BY <1>2
  <2>2. latest' \in SUBSET Pages /\ synced' \in SUBSET Keys
    BY <1>1, <1>2 DEF TypeOK
  <2> HIDE DEF b
  <2> QED
    BY <1>1, <1>2, <2>1, <2>2 DEF TypeOK, pool, local
<1>7. Works(t, "own", b, 2)
  BY <1>1, <1>2, <1>3 DEF Works, pool, local, WorkLocs
<1> QED
  BY <1>5, <1>6, <1>7, WorkKeepsIInv

(* The owner writes its page back.                                         *)
LEMMA WriteStep == ASSUME IInv, NEW t \in Users, pagecache_write(t) PROVE IInv'
<1> DEFINE p == page[t]
           b == (state[p] \ {"DIRTY"}) \cup {"CLEAN"}
<1>1. /\ TypeOK /\ t \in Threads /\ loc[t] = "own"
      /\ UNCHANGED <<pool, key, refs, waiters, local, stopped>>
      /\ fsimg_strategy(p) /\ state' = [state EXCEPT ![p] = b]
  BY DEF IInv, Threads, pagecache_write, WriteBack
<1>2. /\ t \in Working /\ p \in tree /\ p \in Pages /\ "BUSY" \in state[p]
      /\ state[p] \in SUBSET {"BUSY", "CLEAN", "DIRTY"} /\ refs[p] = 2
  BY <1>1, WorkerFacts DEF WorkLocs
<1>3. refs' = [refs EXCEPT ![p] = 2] /\ loc' = [loc EXCEPT ![t] = "own"]
  BY <1>1, <1>2 DEF TypeOK, local
<1>4. DataOK' /\ latest' \in SUBSET Pages /\ synced' \in SUBSET Keys
  BY <1>1, <1>2, CopyKeepsData DEF pool
<1>5. TypeOK'
  <2>1. b \in SUBSET {"BUSY", "CLEAN", "DIRTY"}
    BY <1>2
  <2> HIDE DEF b
  <2> QED
    BY <1>1, <1>2, <1>4, <2>1 DEF TypeOK, pool, local
<1>6. Works(t, "own", b, 2)
  BY <1>1, <1>2, <1>3 DEF Works, pool, local, WorkLocs
<1> QED
  BY <1>4, <1>5, <1>6, WorkKeepsIInv

(* The owner gives its reference up; the page's own one remains.           *)
LEMMA PutStep == ASSUME IInv, NEW t \in Users, pagecache_put(t) PROVE IInv'
<1> DEFINE p == page[t]
<1>1. /\ TypeOK /\ t \in Threads /\ loc[t] = "own" /\ dec_pcache_reference(p)
      /\ loc' = [loc EXCEPT ![t] = IF FreesPage(p) THEN "idle" ELSE "put"]
      /\ UNCHANGED <<lock, lru, waiters, data, page, want, free_nr, stopped>>
  BY DEF IInv, Threads, pagecache_put, goto
<1>2. /\ t \in Working /\ p \in tree /\ p \in Pages /\ "BUSY" \in state[p]
      /\ state[p] \in SUBSET {"BUSY", "CLEAN", "DIRTY"} /\ refs[p] = 2
      /\ Clean(p) \/ Dirty(p)
  BY <1>1, WorkerFacts DEF WorkLocs
<1>3. ~ FreesPage(p)
  BY <1>2 DEF FreesPage
<1>4. /\ refs' = [refs EXCEPT ![p] = 1] /\ loc' = [loc EXCEPT ![t] = "put"]
      /\ UNCHANGED <<tree, key, state>>
  BY <1>1, <1>2, <1>3 DEF dec_pcache_reference
<1>5. state' = [state EXCEPT ![p] = state[p]]
  BY <1>1, <1>2, <1>4 DEF TypeOK
<1>6. DataOK'
  BY <1>1, <1>4, SameData
<1>7. TypeOK'
  BY <1>1, <1>2, <1>4 DEF TypeOK, data, UserLocs, ShrinkLocs
<1>8. Works(t, "put", state[p], 1)
  BY <1>1, <1>2, <1>4, <1>5 DEF Works, WorkLocs, Clean, Dirty
<1> QED
  BY <1>6, <1>7, <1>8, WorkKeepsIInv

(* The shrinker writes a dirty page back, and drops a reference unless it  *)
(* only flushes.                                                           *)
LEMMA ShrinkWriteStep == ASSUME IInv, NEW t \in Shrinkers, ShrinkWrite(t) PROVE IInv'
<1> DEFINE p == page[t]
           b == IF Dirty(p) THEN (state[p] \ {"DIRTY"}) \cup {"CLEAN"} ELSE state[p]
           l == IF loc[t] = "flush" THEN "flushed" ELSE "written"
           r == IF loc[t] = "flush" THEN 2 ELSE 1
<1>1. /\ TypeOK /\ t \in Threads /\ loc[t] \in {"shrink", "flush"}
      /\ UNCHANGED <<pool, key, waiters, page, want, free_nr, stopped>>
      /\ IF "DIRTY" \in state[p] THEN WriteBack(p) ELSE UNCHANGED <<state, data>>
  BY DEF IInv, Threads, ShrinkWrite
<1>2. /\ t \in Working /\ p \in tree /\ p \in Pages /\ "BUSY" \in state[p]
      /\ state[p] \in SUBSET {"BUSY", "CLEAN", "DIRTY"} /\ refs[p] = 2
      /\ Clean(p) \/ Dirty(p)
  BY <1>1, WorkerFacts DEF WorkLocs
<1>3. refs' = [refs EXCEPT ![p] = r] /\ loc' = [loc EXCEPT ![t] = l]
  <2>1. CASE loc[t] = "flush"
    BY <1>1, <1>2, <2>1 DEF ShrinkWrite, goto, TypeOK
  <2>2. CASE loc[t] = "shrink"
    BY <1>1, <1>2, <2>2 DEF ShrinkWrite, goto, TypeOK
  <2> QED
    BY <1>1, <2>1, <2>2
<1>4. /\ DataOK' /\ latest' \in SUBSET Pages /\ synced' \in SUBSET Keys
      /\ state' = [state EXCEPT ![p] = b]
  <2>1. CASE Dirty(p)
    <3>1. fsimg_strategy(p) /\ state' = [state EXCEPT ![p] = (@ \ {"DIRTY"}) \cup {"CLEAN"}]
      BY <1>1, <2>1 DEF Dirty, WriteBack
    <3> QED
      BY <1>1, <1>2, <2>1, <3>1, CopyKeepsData DEF pool
  <2>2. CASE ~ Dirty(p)
    <3>1. UNCHANGED <<state, data>>
      BY <1>1, <2>2 DEF Dirty
    <3> QED
      BY <1>1, <1>2, <2>2, <3>1, SameData DEF pool, TypeOK, data
  <2> QED
    BY <2>1, <2>2
<1>5. /\ b \in SUBSET {"BUSY", "CLEAN", "DIRTY"} /\ "BUSY" \in b /\ "DIRTY" \notin b
      /\ "CLEAN" \in b /\ r \in 0..2 /\ l \in {"flushed", "written"}
      /\ l = "written" => r = 1
  BY <1>2 DEF Clean, Dirty
<1> HIDE DEF b, l, r
<1>6. TypeOK'
  <2>1. /\ loc' \in [Threads -> UserLocs \cup ShrinkLocs]
        /\ \A s \in Users : loc'[s] \in UserLocs
        /\ \A s \in Shrinkers : loc'[s] \in ShrinkLocs
    <3>1. \A s \in Threads : loc'[s] = IF s = t THEN l ELSE loc[s]
      BY <1>1, <1>3 DEF TypeOK
    <3>2. t \notin Users /\ l \in ShrinkLocs
      BY <1>5, PageCacheAssumption DEF ShrinkLocs
    <3> QED
      BY <1>1, <1>3, <3>1, <3>2 DEF TypeOK, Threads
  <2> QED
    BY <1>1, <1>2, <1>3, <1>4, <1>5, <2>1 DEF TypeOK, pool
<1>7. Works(t, l, b, r)
  BY <1>1, <1>2, <1>3, <1>4, <1>5 DEF Works, pool, WorkLocs
<1> QED
  BY <1>4, <1>6, <1>7, WorkKeepsIInv

\* The thread t unlocks its page, which may enter the LRU queue.
Releases(t, l) ==
    /\ t \in Working /\ l \notin WorkLocs \cup {"alloc", "insert"}
    /\ loc' = [loc EXCEPT ![t] = l]
    /\ Unlock(page[t])
    /\ UNCHANGED <<tree, key, page, want, data>>
    /\ \/ lru' = lru /\ refs' = refs
       \/ /\ lru' = Append(lru, page[t]) /\ refs' = [refs EXCEPT ![page[t]] = 2]
          /\ Clean(page[t]) \/ Dirty(page[t])

(* Unlocking a page and waking its waiters keeps the invariant.            *)
LEMMA ReleaseKeepsIInv ==
    ASSUME IInv, NEW t, NEW l, Releases(t, l), TypeOK'
    PROVE  IInv'
<1> DEFINE p == page[t]
<1>1. /\ TypeOK /\ t \in Threads /\ t \in Working /\ p \in tree /\ p \in Pages /\ Busy(p)
      /\ UNCHANGED <<tree, key, page, want, data>>
      /\ \A s \in Working : page[s] = p => s = t
  BY DEF IInv, TypeOK, WorkersOK, Releases, Working
<1>2. /\ \A x \in Pages : state'[x] = IF x = p THEN state[x] \ {"BUSY"} ELSE state[x]
      /\ \A x \in Pages : waiters'[x] = IF x = p THEN {} ELSE waiters[x]
      /\ \A s \in Threads : loc'[s] = IF s = t THEN l ELSE loc[s]
      /\ \A x \in Pages \ {p} : refs'[x] = refs[x]
  BY <1>1 DEF Releases, Unlock, TypeOK
<1>3. l \notin WorkLocs \cup {"alloc", "insert"}
  BY DEF Releases
<1>4. LruOK'
  <2>1. p \notin Range(lru) /\ \A x \in Range(lru) : x \in Pages \ {p}
    BY <1>1 DEF IInv, LruOK, TypeOK
  <2>2. CASE lru' = lru /\ refs' = refs
    BY <1>1, <1>2, <2>1, <2>2 DEF IInv, LruOK, Busy, Clean, Dirty
  <2>3. CASE /\ lru' = Append(lru, p) /\ refs' = [refs EXCEPT ![p] = 2]
             /\ Clean(p) \/ Dirty(p)
    <3>1. IsInjective(lru') /\ Range(lru') = Range(lru) \cup {p}
      BY <1>1, <2>1, <2>3, AppendFacts DEF IInv, LruOK, TypeOK
    <3> DEFINE Idle(x) == /\ x \in tree' /\ "BUSY" \notin state'[x] /\ refs'[x] = 2
                          /\ "CLEAN" \in state'[x] \/ "DIRTY" \in state'[x]
    <3>2. Idle(p)
      BY <1>1, <1>2, <2>3 DEF TypeOK, Clean, Dirty
    <3>3. \A x \in Range(lru) : Idle(x)
      BY <1>1, <1>2, <2>1 DEF IInv, LruOK, Busy, Clean, Dirty
    <3> HIDE DEF p
    <3>4. \A x \in Range(lru') : Idle(x)
      BY <3>1, <3>2, <3>3
    <3> QED
      BY <3>1, <3>4 DEF LruOK, Busy, Clean, Dirty
  <2> QED
    BY <2>2, <2>3 DEF Releases
<1> HIDE DEF p
<1>5. KeysOK'
  BY <1>1, <1>2 DEF IInv, KeysOK
<1>6. Working' = Working \ {t}
  BY <1>1, <1>2, <1>3 DEF Working, WorkLocs
<1>7. \A s \in Working' : /\ s \in Working /\ s \in Threads /\ s # t /\ page'[s] = page[s]
                          /\ page[s] \in tree' /\ page[s] \in Pages /\ page[s] # p
                          /\ loc'[s] = loc[s]
  BY <1>1, <1>2, <1>6 DEF IInv, WorkersOK, TypeOK, Working
<1>8. WorkersOK'
  <2>1. \A s \in Working' : state'[page'[s]] = state[page[s]]
    BY <1>2, <1>7, ZenonT(60)
  <2>2. \A s, u \in Working' : page'[s] = page'[u] => s = u
    BY <1>7 DEF IInv, WorkersOK
  <2> QED
    BY <1>7, <2>1, <2>2 DEF IInv, WorkersOK, Busy, Clean, Dirty
<1>9. RefsOK'
  BY <1>2, <1>7 DEF IInv, RefsOK
<1>10. InsertOK'
  <2>1. \A s \in Users : loc'[s] \in {"alloc", "insert"} => s # t /\ loc'[s] = loc[s] /\ s \in Threads
    BY <1>2, <1>3 DEF Threads
  <2>2. \A s \in Users : loc[s] = "insert" => page[s] # p
    BY <1>1 DEF IInv, InsertOK
  <2> QED
    BY <1>1, <1>2, <2>1, <2>2 DEF IInv, InsertOK
<1>11. WaitersOK'
  BY <1>1, <1>2 DEF IInv, WaitersOK, Busy
<1>12. DataOK'
  <2>1. \A x \in Pages : state'[x] \ {"BUSY"} = state[x] \ {"BUSY"}
    BY <1>2
  <2> QED
    BY <1>1, <2>1, SameData
<1> QED
  BY <1>4, <1>5, <1>8, <1>9, <1>10, <1>11, <1>12 DEF IInv

(* The second half of pagecache_put.                                       *)
LEMMA PutInLruStep == ASSUME IInv, NEW t \in Users, PutInLru(t) PROVE IInv'
<1> DEFINE p == page[t]
<1>1. /\ TypeOK /\ t \in Threads /\ loc[t] = "put" /\ Unlock(p) /\ lru' = Append(lru, p)
      /\ loc' = [loc EXCEPT ![t] = "idle"]
      /\ UNCHANGED <<lock, tree, key, data, page, want, free_nr, stopped>>
      /\ refs' = [refs EXCEPT ![p] = @ + 1]
  BY DEF IInv, Threads, PutInLru, goto
<1>2. /\ t \in Working /\ p \in tree /\ p \in Pages /\ refs[p] = 1
      /\ Clean(p) \/ Dirty(p)
  BY <1>1, WorkerFacts DEF WorkLocs
<1>3. refs' = [refs EXCEPT ![p] = 2]
  BY <1>1, <1>2
<1>4. lru' \in Seq(Pages)
  BY <1>1, <1>2 DEF TypeOK
<1>5. TypeOK'
  BY <1>1, <1>2, <1>3, <1>4 DEF TypeOK, Unlock, data, UserLocs, ShrinkLocs
<1>6. Releases(t, "idle")
  BY <1>1, <1>2, <1>3 DEF Releases, WorkLocs
<1> QED
  BY <1>5, <1>6, ReleaseKeepsIInv

(* The shrinker lets a page with waiters go.                               *)
LEMMA ShrinkCheckStep == ASSUME IInv, NEW t \in Shrinkers, ShrinkCheck(t) PROVE IInv'
<1> DEFINE p == page[t]
<1>1. /\ TypeOK /\ t \in Threads /\ loc[t] = "written" /\ t \notin Users
      /\ UNCHANGED <<pool, key, refs, data, page, want, free_nr, stopped>>
  BY PageCacheAssumption DEF IInv, Threads, ShrinkCheck
<1>2. /\ t \in Working /\ p \in tree /\ p \in Pages /\ "BUSY" \in state[p]
      /\ state[p] \in SUBSET {"BUSY", "CLEAN", "DIRTY"} /\ refs[p] = 1
      /\ Clean(p) /\ ~ Dirty(p)
  BY <1>1, WorkerFacts DEF WorkLocs
<1>3. CASE waiters[p] # {}
  <2>1. Unlock(p) /\ loc' = [loc EXCEPT ![t] = "unlocked"]
    BY <1>3 DEF ShrinkCheck, goto
  <2>2. TypeOK'
    BY <1>1, <1>2, <2>1 DEF TypeOK, Unlock, pool, data, UserLocs, ShrinkLocs
  <2>3. Releases(t, "unlocked")
    BY <1>1, <1>2, <2>1 DEF Releases, WorkLocs, pool
  <2> QED
    BY <2>2, <2>3, ReleaseKeepsIInv
<1>4. CASE waiters[p] = {}
  <2>1. loc' = [loc EXCEPT ![t] = "drop"] /\ UNCHANGED <<state, waiters>>
    BY <1>4 DEF ShrinkCheck, goto
  <2>2. state' = [state EXCEPT ![p] = state[p]] /\ refs' = [refs EXCEPT ![p] = 1]
    BY <1>1, <1>2, <2>1 DEF TypeOK
  <2>3. TypeOK'
    BY <1>1, <1>2, <2>1 DEF TypeOK, pool, data, UserLocs, ShrinkLocs
  <2>4. DataOK'
    BY <1>1, <2>1, SameData DEF pool
  <2>5. Works(t, "drop", state[p], 1)
    BY <1>1, <1>2, <2>1, <2>2 DEF Works, WorkLocs, pool, Clean, Dirty
  <2> QED
    BY <2>3, <2>4, <2>5, WorkKeepsIInv
<1> QED
  BY <1>3, <1>4

(* The shrinker frees a page for which nobody waits.                       *)
LEMMA ShrinkDropStep == ASSUME IInv, NEW t \in Shrinkers, ShrinkDrop(t) PROVE IInv'
<1> DEFINE p == page[t]
           l == IF FreesPage(p) /\ free_nr[t] + 1 = MaxFree THEN "idle" ELSE "dropped"
<1>1. /\ TypeOK /\ t \in Threads /\ loc[t] = "drop" /\ t \notin Users
      /\ dec_pcache_reference(p)
      /\ loc' = [loc EXCEPT ![t] = l]
      /\ UNCHANGED <<lock, lru, waiters, data, page, want, stopped>>
  BY PageCacheAssumption DEF IInv, Threads, ShrinkDrop, goto
<1>2. /\ t \in Working /\ p \in tree /\ p \in Pages /\ "BUSY" \in state[p]
      /\ state[p] \in SUBSET {"BUSY", "CLEAN", "DIRTY"} /\ refs[p] = 1
      /\ ~ Dirty(p)
      /\ \A s \in Working : page[s] = p => s = t
  BY <1>1, WorkerFacts DEF WorkLocs, IInv, WorkersOK
<1>3. free_nr' \in [Shrinkers -> 0..(MaxFree - 1)]
  <2> DEFINE n == free_nr[t]
             m == IF ~ FreesPage(p) THEN n ELSE IF n + 1 = MaxFree THEN 0 ELSE n + 1
  <2>1. n \in 0..(MaxFree - 1) /\ MaxFree \in Nat \ {0}
    BY <1>1, PageCacheAssumption DEF TypeOK
  <2>2. free_nr' = [free_nr EXCEPT ![t] = m]
    BY DEF ShrinkDrop
  <2> HIDE DEF n
  <2>3. m \in 0..(MaxFree - 1)
    BY <2>1
  <2> HIDE DEF m
  <2> QED
    BY <1>1, <2>2, <2>3 DEF TypeOK
<1>4. l \in {"idle", "dropped"}
  OBVIOUS
<1> HIDE DEF l
<1>5. /\ loc' \in [Threads -> UserLocs \cup ShrinkLocs]
      /\ \A s \in Users : loc'[s] \in UserLocs
      /\ \A s \in Shrinkers : loc'[s] \in ShrinkLocs
  <2>1. \A s \in Threads : loc'[s] = IF s = t THEN l ELSE loc[s]
    BY <1>1 DEF TypeOK
  <2>2. l \in ShrinkLocs
    BY <1>4 DEF ShrinkLocs
  <2> QED
    BY <1>1, <2>1, <2>2 DEF TypeOK, Threads
<1>6. CASE ~ FreesPage(p)
  <2>1. /\ refs' = [refs EXCEPT ![p] = 1] /\ UNCHANGED <<tree, key, state>>
    BY <1>1, <1>2, <1>6 DEF dec_pcache_reference
  <2>2. state' = [state EXCEPT ![p] = state[p]]
    BY <1>1, <1>2, <2>1 DEF TypeOK
  <2>3. TypeOK'
    BY <1>1, <1>2, <1>3, <1>5, <2>1 DEF TypeOK, data
  <2>4. DataOK'
    BY <1>1, <2>1, SameData
  <2>5. Works(t, l, state[p], 1)
    BY <1>1, <1>2, <1>4, <2>1, <2>2 DEF Works, WorkLocs
  <2> QED
    BY <2>3, <2>4, <2>5, WorkKeepsIInv
<1>7. CASE FreesPage(p)
  <2>1. /\ tree' = tree \ {p}
        /\ key' = [key EXCEPT ![p] = Nil]
        /\ state' = [state EXCEPT ![p] = {}]
        /\ refs' = [refs EXCEPT ![p] = 0]
        /\ waiters[p] = {}
    BY <1>1, <1>7 DEF dec_pcache_reference, FreesPage
  <2>2. TypeOK'
    BY <1>1, <1>2, <1>3, <1>5, <2>1 DEF TypeOK, data
  <2>3. /\ \A x \in Pages : state'[x] = IF x = p THEN {} ELSE state[x]
        /\ \A x \in Pages : key'[x] = IF x = p THEN Nil ELSE key[x]
        /\ \A x \in Pages : refs'[x] = IF x = p THEN 0 ELSE refs[x]
        /\ \A s \in Threads : loc'[s] = IF s = t THEN l ELSE loc[s]
        /\ page' = page /\ lru' = lru /\ waiters' = waiters /\ want' = want
        /\ latest' = latest /\ synced' = synced
    BY <1>1, <1>2, <2>1 DEF TypeOK, data
  <2> HIDE DEF p
  <2>4. KeysOK'
    BY <1>1, <2>1, <2>3 DEF IInv, KeysOK, TypeOK
  <2>5. Working' = Working \ {t}
    BY <1>1, <1>4, <2>3 DEF Working
  <2>6. \A s \in Working' : /\ s \in Working /\ s \in Threads /\ s # t /\ page'[s] = page[s]
                            /\ page[s] \in tree' /\ page[s] \in Pages /\ page[s] # p
                            /\ loc'[s] = loc[s]
    BY <1>1, <1>2, <2>1, <2>3, <2>5 DEF IInv, WorkersOK, TypeOK, Working
  <2>7. \A s \in Working' : /\ state'[page'[s]] = state[page[s]]
                            /\ refs'[page'[s]] = refs[page[s]]
    BY <2>3, <2>6
  <2>8. WorkersOK' /\ RefsOK'
    <3>1. \A s, u \in Working' : page'[s] = page'[u] => s = u
      BY <2>6 DEF IInv, WorkersOK
    <3> QED
      BY <2>6, <2>7, <3>1 DEF IInv, WorkersOK, RefsOK, Busy, Clean, Dirty
  <2>9. InsertOK'
    <3>1. \A s \in Users : loc'[s] \in {"alloc", "insert"} => s # t /\ loc'[s] = loc[s] /\ s \in Threads
      BY <1>1, <2>3 DEF Threads
    <3>2. \A s \in Users : loc[s] = "insert" => page[s] # p
      BY <1>2 DEF IInv, InsertOK
    <3> QED
      BY <1>1, <2>1, <2>3, <3>1, <3>2 DEF IInv, InsertOK
  <2>10. LruOK'
    <3>1. p \notin Range(lru) /\ \A x \in Range(lru) : x \in Pages
      BY <1>1, <1>2 DEF IInv, LruOK, TypeOK, Busy
    <3> QED
      BY <2>1, <2>3, <3>1 DEF IInv, LruOK, Busy, Clean, Dirty
  <2>11. WaitersOK'
    BY <2>1, <2>3 DEF IInv, WaitersOK, Busy
  <2>12. DataOK'
    <3>1. \A x \in Pages : x # p => (Clean(x)' <=> Clean(x)) /\ (Dirty(x)' <=> Dirty(x))
      BY <2>3 DEF Clean, Dirty
    <3>2. ~ Clean(p)' /\ ~ Dirty(p)'
      BY <1>2, <2>3 DEF Clean, Dirty, p
    <3>3. \A x \in Pages : ~ (Clean(x)' /\ Dirty(x)')
      BY <2>3 DEF IInv, DataOK, Clean, Dirty
    <3>4. \A x \in tree' : Clean(x)' \/ Dirty(x)' => x \in latest'
      BY <1>1, <2>1, <2>3, <3>1 DEF IInv, DataOK, TypeOK
    <3>5. \A k \in Keys \ synced' : \E x \in tree' : key'[x] = k /\ Dirty(x)'
      <4> TAKE k \in Keys \ synced'
      <4>1. PICK x \in tree : key[x] = k /\ Dirty(x)
        BY <2>3 DEF IInv, DataOK
      <4>2. x # p /\ x \in Pages
        BY <1>1, <1>2, <4>1 DEF TypeOK
      <4> QED
        BY <2>1, <2>3, <3>1, <4>1, <4>2
    <3> QED
      BY <3>3, <3>4, <3>5 DEF DataOK
  <2> QED
    BY <2>2, <2>4, <2>8, <2>9, <2>10, <2>11, <2>12 DEF IInv
<1> QED
  BY <1>6, <1>7

-----------------------------------------------------------------------------
(* Steps between the work on two pages.                                    *)

(* A thread that works on no page moves on.                                *)
LEMMA MoveKeepsIInv ==
    ASSUME IInv, TypeOK', NEW t \in Threads, NEW l,
           UNCHANGED <<tree, lru, pages, data, page>>,
           loc[t] \notin WorkLocs \cup {"insert"}, l \notin WorkLocs \cup {"insert"},
           loc' = [loc EXCEPT ![t] = l],
           t \in Users /\ l = "alloc" => want'[t] \in Keys,
           \A s \in Users \ {t} : want'[s] = want[s]
    PROVE  IInv'
<1>1. /\ TypeOK
      /\ \A s \in Threads : loc'[s] = IF s = t THEN l ELSE loc[s]
  BY DEF IInv, TypeOK
<1>2. Working' = Working
  BY <1>1 DEF Working, WorkLocs
<1>3. \A s \in Working : s # t /\ loc'[s] = loc[s]
  BY <1>1 DEF Working, WorkLocs
<1>4. KeysOK' /\ LruOK' /\ WaitersOK'
  BY DEF IInv, KeysOK, LruOK, WaitersOK, pages, Busy, Clean, Dirty
<1>5. WorkersOK' /\ RefsOK'
  BY <1>2, <1>3 DEF IInv, WorkersOK, RefsOK, pages, Busy, Clean, Dirty
<1>6. InsertOK'
  <2>1. \A s \in Users : loc'[s] = "insert" => s # t /\ loc[s] = "insert"
    BY <1>1 DEF Threads
  <2>2. \A s \in Users : loc'[s] \in {"alloc", "insert"} => want'[s] \in Keys
    BY <1>1 DEF IInv, InsertOK, Threads
  <2> QED
    BY <2>1, <2>2 DEF IInv, InsertOK, pages
<1>7. DataOK'
  BY SameData DEF pages
<1> QED
  BY <1>4, <1>5, <1>6, <1>7 DEF IInv

(* Nothing but the reason for which the program has stopped changes.       *)
LEMMA StopKeepsIInv ==
    ASSUME IInv, NEW how \in {"kassert", "wild"}, Stop(how)
    PROVE  IInv'
<1>1. UNCHANGED <<pool, pages, data, local>> /\ stopped' = how
  BY DEF Stop
<1>2. Working' = Working
  BY <1>1 DEF Working, local
<1>3. TypeOK'
  BY <1>1 DEF IInv, TypeOK, pool, pages, data, local
<1>4. KeysOK' /\ LruOK' /\ WaitersOK'
  BY <1>1 DEF IInv, KeysOK, LruOK, WaitersOK, pool, pages, Busy, Clean, Dirty
<1>5. WorkersOK' /\ RefsOK' /\ InsertOK'
  BY <1>1, <1>2 DEF IInv, WorkersOK, RefsOK, InsertOK, pool, pages, local, Busy, Clean, Dirty
<1>6. DataOK'
  BY <1>1, SameData DEF pool, pages
<1> QED
  BY <1>3, <1>4, <1>5, <1>6 DEF IInv

-----------------------------------------------------------------------------
(* Locking a page, or waiting for it.                                      *)

\* The new page that a thread has found to be superfluous.
Superfluous(t) == IF loc[t] = "insert" THEN page[t] ELSE Nil

\* The page q gets the bits b, and the superfluous page of t is free again.
Discards(t, q, b) ==
    /\ \A x \in Pages : state'[x] = IF x = q THEN b
                                    ELSE IF x = Superfluous(t) THEN {} ELSE state[x]
    /\ \A x \in Pages : key'[x] = IF x = Superfluous(t) THEN Nil ELSE key[x]
    /\ \A x \in Pages : refs'[x] = IF x = Superfluous(t) THEN 0 ELSE refs[x]

(* What is left of the invariant when a thread locks or awaits the page q. *)
LEMMA DiscardFacts ==
    ASSUME IInv, TypeOK', NEW t \in Threads, loc[t] \notin WorkLocs,
           NEW q \in tree, NEW b, Discards(t, q, b),
           "BUSY" \in b, b \ {"BUSY"} = state[q] \ {"BUSY"},
           UNCHANGED <<tree, data>>,
           NEW l, l \notin {"alloc", "insert"}, loc' = [loc EXCEPT ![t] = l],
           page' = [page EXCEPT ![t] = q],
           \A s \in Users \ {t} : want'[s] = want[s]
    PROVE  /\ q # Superfluous(t) /\ Superfluous(t) \notin tree
           /\ KeysOK' /\ InsertOK' /\ DataOK'
           /\ \A s \in Working : /\ s # t /\ loc'[s] = loc[s] /\ page'[s] = page[s]
                                 /\ page[s] \in Pages /\ page[s] # Superfluous(t)
<1> DEFINE d == Superfluous(t)
<1>1. /\ TypeOK /\ tree \subseteq Pages /\ q \in Pages /\ key[q] \in Keys
      /\ \A s \in Threads : loc'[s] = IF s = t THEN l ELSE loc[s]
      /\ \A s \in Threads : page'[s] = IF s = t THEN q ELSE page[s]
  BY DEF IInv, TypeOK, KeysOK
<1>2. loc[t] = "insert" => t \in Users
  BY <1>1 DEF TypeOK, Threads, ShrinkLocs
<1>3. d \notin tree
  BY <1>1, <1>2, PageCacheAssumption DEF IInv, InsertOK, Superfluous
<1>4. \A s \in Users \ {t} : loc[s] = "insert" => page[s] # d
  BY <1>2, PageCacheAssumption DEF IInv, InsertOK, Superfluous
<1>5. \A s \in Working : /\ s # t /\ loc'[s] = loc[s] /\ page'[s] = page[s]
                         /\ page[s] \in tree /\ page[s] \in Pages /\ page[s] # d
  BY <1>1, <1>3 DEF IInv, WorkersOK, Working, WorkLocs
<1> HIDE DEF d
<1>6. Discards(t, q, b) /\ d = Superfluous(t) /\ q # d
  BY <1>3 DEF d
<1>7. /\ \A x \in Pages : state'[x] = IF x = q THEN b ELSE IF x = d THEN {} ELSE state[x]
      /\ \A x \in Pages : key'[x] = IF x = d THEN Nil ELSE key[x]
      /\ \A x \in Pages : refs'[x] = IF x = d THEN 0 ELSE refs[x]
  BY <1>6 DEF Discards
<1>8. KeysOK'
  <2>1. \A x \in tree : x # d /\ key'[x] = key[x]
    BY <1>1, <1>3, <1>7
  <2>2. \A x \in Pages : key'[x] = Nil => state'[x] = {}
    BY <1>1, <1>6, <1>7, PageCacheAssumption DEF IInv, KeysOK
  <2> QED
    BY <2>1, <2>2 DEF IInv, KeysOK
<1>9. InsertOK'
  <2>1. \A s \in Users : loc'[s] \in {"alloc", "insert"} =>
           s # t /\ loc'[s] = loc[s] /\ s \in Threads /\ page'[s] = page[s] /\ want'[s] = want[s]
    BY <1>1 DEF Threads
  <2>2. \A s \in Users : loc'[s] = "insert" => page[s] # d /\ page[s] # q /\ page[s] \in Pages
    BY <1>4, <2>1 DEF IInv, InsertOK
  <2> QED
    BY <1>7, <2>1, <2>2 DEF IInv, InsertOK
<1>10. DataOK'
  <2>1. \A x \in Pages : x # d => (Clean(x)' <=> Clean(x)) /\ (Dirty(x)' <=> Dirty(x))
    BY <1>7 DEF Clean, Dirty
  <2>2. \A x \in Pages : ~ (Clean(x)' /\ Dirty(x)')
    <3>1. \A x \in Pages : x = d => state'[x] = {}
      BY <1>6, <1>7
    <3>2. \A x \in Pages : x = d => ~ Clean(x)'
      BY <3>1 DEF Clean
    <3> QED
      BY <2>1, <3>2 DEF IInv, DataOK
  <2>3. \A x \in tree' : Clean(x)' \/ Dirty(x)' => x \in latest'
    BY <1>1, <1>3, <2>1 DEF IInv, DataOK, data
  <2>4. \A k \in Keys \ synced' : \E x \in tree' : key'[x] = k /\ Dirty(x)'
    <3> TAKE k \in Keys \ synced'
    <3>1. PICK x \in tree : key[x] = k /\ Dirty(x)
      BY DEF IInv, DataOK, data
    <3> QED
      BY <1>1, <1>3, <1>7, <2>1, <3>1
  <2> QED
    BY <2>2, <2>3, <2>4 DEF DataOK
<1> QED
  BY <1>3, <1>5, <1>6, <1>8, <1>9, <1>10

(* A thread locks a page that it takes out of the LRU queue.               *)
LEMMA TakeKeepsIInv ==
    ASSUME IInv, TypeOK', NEW t \in Threads, loc[t] \notin WorkLocs,
           NEW q \in Range(lru), Discards(t, q, state[q] \cup {"BUSY"}),
           UNCHANGED <<tree, waiters, data>>,
           NEW l \in {"fill", "shrink", "flush"}, loc' = [loc EXCEPT ![t] = l],
           page' = [page EXCEPT ![t] = q],
           \A s \in Users \ {t} : want'[s] = want[s],
           IsInjective(lru'), Range(lru') = Range(lru) \ {q}
    PROVE  IInv'
<1> DEFINE d == Superfluous(t)
<1>1. /\ TypeOK /\ q \in tree /\ q \in Pages /\ ~ Busy(q) /\ refs[q] = 2
      /\ Clean(q) \/ Dirty(q)
      /\ loc'[t] = l /\ page'[t] = q
      /\ \A s \in Threads : loc'[s] = IF s = t THEN l ELSE loc[s]
  BY DEF IInv, TypeOK, LruOK
<1>2. /\ q # d /\ d \notin tree /\ KeysOK' /\ InsertOK' /\ DataOK'
      /\ \A s \in Working : /\ s # t /\ loc'[s] = loc[s] /\ page'[s] = page[s]
                            /\ page[s] \in Pages /\ page[s] # d
  <2> DEFINE b == state[q] \cup {"BUSY"}
  <2>1. b \ {"BUSY"} = state[q] \ {"BUSY"} /\ "BUSY" \in b /\ l \notin {"alloc", "insert"}
    OBVIOUS
  <2>2. Discards(t, q, b)
    OBVIOUS
  <2> HIDE DEF b, d
  <2>3. /\ q # Superfluous(t) /\ Superfluous(t) \notin tree
        /\ KeysOK' /\ InsertOK' /\ DataOK'
        /\ \A s \in Working : /\ s # t /\ loc'[s] = loc[s] /\ page'[s] = page[s]
                              /\ page[s] \in Pages /\ page[s] # Superfluous(t)
    BY <1>1, <2>1, <2>2, DiscardFacts
  <2> QED
    BY <2>3 DEF d
<1>3. /\ \A x \in Pages : state'[x] = IF x = q THEN state[q] \cup {"BUSY"}
                                      ELSE IF x = d THEN {} ELSE state[x]
      /\ \A x \in Pages : refs'[x] = IF x = d THEN 0 ELSE refs[x]
  BY DEF Discards
<1> HIDE DEF d
<1>4. Working' = Working \cup {t}
  BY <1>1 DEF Working, WorkLocs
<1>5. \A s \in Working : /\ page[s] # q /\ state'[page'[s]] = state[page[s]]
                         /\ refs'[page'[s]] = refs[page[s]]
  <2>1. \A s \in Working : page[s] # q
    BY <1>1 DEF IInv, WorkersOK
  <2> QED
    BY <1>2, <1>3, <2>1
<1>6. /\ state'[page'[t]] = state[q] \cup {"BUSY"} /\ refs'[page'[t]] = 2
      /\ page'[t] \in tree'
  BY <1>1, <1>2, <1>3
<1>7. WorkersOK'
  <2>1. \A s \in Working' : page'[s] \in tree' /\ Busy(page[s])'
    BY <1>2, <1>4, <1>5, <1>6 DEF IInv, WorkersOK, Busy
  <2>2. \A s, u \in Working' : page'[s] = page'[u] => s = u
    BY <1>1, <1>2, <1>4, <1>5 DEF IInv, WorkersOK
  <2>3. \A s \in Working' : loc'[s] # "fill" => Clean(page[s])' \/ Dirty(page[s])'
    BY <1>1, <1>2, <1>4, <1>5, <1>6 DEF IInv, WorkersOK, Clean, Dirty
  <2>4. \A s \in Working' : loc'[s] \in {"written", "drop"} => ~ Dirty(page[s])'
    BY <1>1, <1>2, <1>4, <1>5 DEF IInv, WorkersOK, Dirty
  <2> QED
    BY <2>1, <2>2, <2>3, <2>4 DEF WorkersOK
<1>8. RefsOK'
  BY <1>1, <1>2, <1>4, <1>5, <1>6 DEF IInv, RefsOK
<1>9. LruOK'
  <2>1. \A x \in Range(lru') : x \in tree /\ x \in Pages /\ x # q /\ x # d /\ x \in Range(lru)
    BY <1>1, <1>2 DEF IInv, LruOK, TypeOK
  <2> QED
    BY <1>3, <2>1 DEF IInv, LruOK, Busy, Clean, Dirty
<1>10. WaitersOK'
  <2>1. \A x \in Pages : waiters[x] # {} => x # d
    BY <1>2 DEF IInv, WaitersOK
  <2> QED
    BY <1>3, <2>1 DEF IInv, WaitersOK, Busy
<1> QED
  BY <1>2, <1>7, <1>8, <1>9, <1>10 DEF IInv

(* A thread queues up for a page that is busy, or that it has made busy.   *)
LEMMA WaitKeepsIInv ==
    ASSUME IInv, TypeOK', NEW t \in Threads, loc[t] \notin WorkLocs,
           NEW q \in tree \ Range(lru), NEW b, Discards(t, q, b),
           "BUSY" \in b, b \ {"BUSY"} = state[q] \ {"BUSY"},
           UNCHANGED <<tree, lru, data>>,
           loc' = [loc EXCEPT ![t] = "wait"], page' = [page EXCEPT ![t] = q],
           waiters' = [waiters EXCEPT ![q] = @ \cup {t}],
           \A s \in Users \ {t} : want'[s] = want[s]
    PROVE  IInv'
<1> DEFINE d == Superfluous(t)
<1>1. /\ TypeOK /\ q \in tree /\ q \in Pages
      /\ \A s \in Threads : loc'[s] = IF s = t THEN "wait" ELSE loc[s]
      /\ \A x \in Pages : waiters'[x] = IF x = q THEN waiters[x] \cup {t} ELSE waiters[x]
  BY DEF IInv, TypeOK
<1>2. /\ q # d /\ d \notin tree /\ KeysOK' /\ InsertOK' /\ DataOK'
      /\ \A s \in Working : /\ s # t /\ loc'[s] = loc[s] /\ page'[s] = page[s]
                            /\ page[s] \in Pages /\ page[s] # d
  BY DiscardFacts
<1>3. /\ \A x \in Pages : state'[x] = IF x = q THEN b ELSE IF x = d THEN {} ELSE state[x]
      /\ \A x \in Pages : refs'[x] = IF x = d THEN 0 ELSE refs[x]
  BY DEF Discards
<1> HIDE DEF d
<1>4. Working' = Working
  BY <1>1 DEF Working, WorkLocs
<1>5. \A s \in Working : /\ state'[page'[s]] = state[page[s]]
                         /\ refs'[page'[s]] = refs[page[s]]
  <2> TAKE s \in Working
  <2>1. Busy(page[s])
    BY DEF IInv, WorkersOK
  <2>2. page[s] = q => b = state[q]
    BY <2>1 DEF Busy
  <2> QED
    BY <1>2, <1>3, <2>2
<1>6. WorkersOK' /\ RefsOK'
  <2>1. \A s, u \in Working' : page'[s] = page'[u] => s = u
    BY <1>2, <1>4 DEF IInv, WorkersOK
  <2> QED
    BY <1>2, <1>4, <1>5, <2>1 DEF IInv, WorkersOK, RefsOK, Busy, Clean, Dirty
<1>7. LruOK'
  <2>1. \A x \in Range(lru) : x \in Pages /\ x # q /\ x # d
    BY <1>1, <1>2 DEF IInv, LruOK, TypeOK
  <2> QED
    BY <1>3, <2>1 DEF IInv, LruOK, Busy, Clean, Dirty
<1>8. WaitersOK'
  <2>1. \A x \in Pages : waiters[x] # {} => x # d
    BY <1>2 DEF IInv, WaitersOK
  <2> QED
    BY <1>1, <1>3, <2>1 DEF IInv, WaitersOK, Busy
<1> QED
  BY <1>2, <1>6, <1>7, <1>8 DEF IInv

(* What the arm of lookup_pagecache for a registered page does.            *)
LEMMA LookupStep ==
    ASSUME IInv, NEW t \in Users, loc[t] \in {"idle", "wait", "insert"},
           NEW q \in tree, NEW st, TakeOrWait(t, q, st),
           \/ /\ loc[t] # "insert" /\ st = state /\ UNCHANGED <<key, refs>>
           \/ /\ loc[t] = "insert" /\ st = [state EXCEPT ![page[t]] = {}]
              /\ key' = [key EXCEPT ![page[t]] = Nil]
              /\ refs' = [refs EXCEPT ![page[t]] = 0],
           want' \in [Users -> Keys \cup {Nil}],
           \A s \in Users \ {t} : want'[s] = want[s]
    PROVE  IInv'
<1> DEFINE d == Superfluous(t)
           b == IF Busy(q) THEN state[q] ELSE state[q] \cup {"BUSY"}
<1>1. /\ TypeOK /\ t \in Threads /\ q \in Pages /\ loc[t] \notin WorkLocs /\ t \notin Shrinkers
  BY PageCacheAssumption DEF IInv, TypeOK, Threads, WorkLocs
<1>2. loc[t] = "insert" => page[t] \in Pages \ tree
  BY DEF IInv, InsertOK
<1>3. /\ st \in [Pages -> SUBSET {"BUSY", "CLEAN", "DIRTY"}]
      /\ key' \in [Pages -> Keys \cup {Nil}]
      /\ refs' \in [Pages -> 0..2]
      /\ \A x \in Pages : st[x] = IF x = d THEN {} ELSE state[x]
      /\ \A x \in Pages : key'[x] = IF x = d THEN Nil ELSE key[x]
      /\ \A x \in Pages : refs'[x] = IF x = d THEN 0 ELSE refs[x]
      /\ q # d
  <2>1. CASE loc[t] # "insert" /\ st = state /\ UNCHANGED <<key, refs>>
    <3>1. d = Nil
      BY <2>1 DEF Superfluous
    <3>2. \A x \in Pages : x # d
      BY <3>1, PageCacheAssumption
    <3> HIDE DEF d
    <3> QED
      BY <1>1, <2>1, <3>2 DEF TypeOK
  <2>2. CASE /\ loc[t] = "insert" /\ st = [state EXCEPT ![page[t]] = {}]
             /\ key' = [key EXCEPT ![page[t]] = Nil]
             /\ refs' = [refs EXCEPT ![page[t]] = 0]
    <3>1. d = page[t] /\ d \in Pages /\ q # d
      BY <1>2, <2>2 DEF Superfluous
    <3> HIDE DEF d
    <3> QED
      BY <1>1, <2>2, <3>1 DEF TypeOK
  <2> QED
    BY <2>1, <2>2
<1>4. /\ state' = [st EXCEPT ![q] = IF Busy(q) THEN @ ELSE @ \cup {"BUSY"}]
      /\ page' = [page EXCEPT ![t] = q]
      /\ UNCHANGED <<lock, tree, data, free_nr, stopped>>
  BY DEF TakeOrWait, MustWait
<1>5. st[q] = state[q]
  BY <1>1, <1>3
<1>6. /\ \A x \in Pages : state'[x] = IF x = q THEN b ELSE IF x = d THEN {} ELSE state[x]
      /\ b \in SUBSET {"BUSY", "CLEAN", "DIRTY"} /\ "BUSY" \in b
      /\ b \ {"BUSY"} = state[q] \ {"BUSY"}
      /\ state' \in [Pages -> SUBSET {"BUSY", "CLEAN", "DIRTY"}]
  <2>1. b \in SUBSET {"BUSY", "CLEAN", "DIRTY"} /\ "BUSY" \in b
        /\ b \ {"BUSY"} = state[q] \ {"BUSY"}
    BY <1>1 DEF TypeOK, Busy
  <2>2. state' = [st EXCEPT ![q] = b]
    BY <1>4, <1>5
  <2> HIDE DEF b, d
  <2> QED
    BY <1>1, <1>3, <2>1, <2>2
<1>7. Discards(t, q, b)
  BY <1>3, <1>6 DEF Discards
<1>8. page' \in [Threads -> Pages \cup {Nil}] /\ latest' = latest /\ synced' = synced
  BY <1>1, <1>4 DEF TypeOK, data
<1>9. DOMAIN lru = 1..Len(lru) /\ Len(lru) \in Nat
  BY <1>1, LenProperties DEF TypeOK
<1>10. Contains(lru, q) <=> q \in Range(lru)
  BY <1>9 DEF Contains, Range
<1> HIDE DEF b, d
<1>11. CASE ~ Busy(q) /\ Contains(lru, q)
  <2>1. lru' = TakenFromLru(q) /\ loc' = [loc EXCEPT ![t] = "fill"] /\ waiters' = waiters
    BY <1>11 DEF TakeOrWait, MustWait, goto
  <2> DEFINE i == CHOOSE j \in 1..Len(lru) : lru[j] = q
  <2>2. i \in 1..Len(lru) /\ lru[i] = q
    BY <1>11 DEF Contains
  <2>3. lru' = RemoveAt(lru, i)
    BY <2>1 DEF TakenFromLru
  <2> HIDE DEF i
  <2>4. IsInjective(lru') /\ Range(lru') = Range(lru) \ {q} /\ lru' \in Seq(Pages)
    BY <1>1, <2>2, <2>3, RemoveAtFacts DEF IInv, LruOK, TypeOK
  <2>5. TypeOK'
    BY <1>1, <1>3, <1>4, <1>6, <1>8, <2>1, <2>4 DEF TypeOK, UserLocs, ShrinkLocs
  <2>6. Discards(t, q, state[q] \cup {"BUSY"})
    BY <1>7, <1>11 DEF b
  <2> QED
    BY <1>1, <1>4, <1>10, <1>11, <2>1, <2>4, <2>5, <2>6, TakeKeepsIInv
<1>12. CASE ~ (~ Busy(q) /\ Contains(lru, q))
  <2>1. /\ lru' = lru /\ loc' = [loc EXCEPT ![t] = "wait"]
        /\ waiters' = [waiters EXCEPT ![q] = @ \cup {t}]
    BY <1>12 DEF TakeOrWait, MustWait, goto
  <2>2. q \in tree \ Range(lru)
    BY <1>10, <1>12 DEF IInv, LruOK
  <2>3. TypeOK'
    BY <1>1, <1>3, <1>4, <1>6, <1>8, <2>1 DEF TypeOK, UserLocs, ShrinkLocs
  <2> QED
    BY <1>1, <1>4, <1>6, <1>7, <2>1, <2>2, <2>3, WaitKeepsIInv
<1> QED
  BY <1>11, <1>12

(* The search for a page, first try.                                       *)
LEMMA GetStep == ASSUME IInv, NEW t \in Users, NEW k \in Keys, pagecache_get(t, k) PROVE IInv'
<1>1. /\ TypeOK /\ t \in Threads /\ loc[t] = "idle" /\ want' = [want EXCEPT ![t] = k]
      /\ t \notin Shrinkers
  BY PageCacheAssumption DEF IInv, Threads, pagecache_get
<1>2. /\ want' \in [Users -> Keys \cup {Nil}] /\ want'[t] = k
      /\ \A s \in Users \ {t} : want'[s] = want[s]
  BY <1>1 DEF TypeOK
<1>3. ASSUME NEW p \in Registered(k), TakeOrWait(t, p, state), UNCHANGED <<key, refs>>
      PROVE  IInv'
  BY <1>1, <1>2, <1>3, LookupStep DEF Registered
<1>4. CASE /\ loc' = [loc EXCEPT ![t] = "alloc"]
           /\ UNCHANGED <<pool, pages, data, page, free_nr, stopped>>
  <2>1. TypeOK'
    BY <1>1, <1>2, <1>4 DEF TypeOK, pool, pages, data, UserLocs, ShrinkLocs
  <2> QED
    BY <1>1, <1>2, <1>4, <2>1, MoveKeepsIInv DEF WorkLocs, pool
<1> QED
  BY <1>3, <1>4 DEF pagecache_get, goto

(* A woken thread goes on with the pointer from before its sleep.          *)
LEMMA WokenStep == ASSUME IInv, NEW t \in Users, WaitWoken(t) PROVE IInv'
<1>1. CASE page[t] \in Registered(want[t])
  <2>1. /\ TakeOrWait(t, page[t], state) /\ UNCHANGED <<key, refs, want>>
        /\ page[t] \in tree /\ loc[t] = "wait"
    BY <1>1 DEF WaitWoken, Registered
  <2> QED
    BY <2>1, LookupStep DEF IInv, TypeOK
<1>2. CASE page[t] \notin Registered(want[t])
  <2>1. Stop("wild")
    BY <1>2 DEF WaitWoken
  <2> QED
    BY <2>1, StopKeepsIInv
<1> QED
  BY <1>1, <1>2

(* A free page gets a key; nobody else knows it yet.                       *)
LEMMA AllocateStep == ASSUME IInv, NEW t \in Users, allocate_new_pcache(t) PROVE IInv'
<1>1. /\ TypeOK /\ t \in Threads /\ loc[t] = "alloc" /\ t \notin Shrinkers
      /\ want[t] \in Keys
      /\ UNCHANGED <<pool, waiters, synced, want, free_nr, stopped>>
  BY PageCacheAssumption DEF IInv, InsertOK, Threads, allocate_new_pcache
<1>2. CASE loc' = [loc EXCEPT ![t] = "idle"] /\ UNCHANGED <<key, state, refs, page, latest>>
  <2>1. TypeOK'
    BY <1>1, <1>2 DEF TypeOK, pool, UserLocs, ShrinkLocs
  <2> QED
    BY <1>1, <1>2, <2>1, MoveKeepsIInv DEF WorkLocs, pool, pages, data
<1>3. ASSUME NEW p \in Pages, key[p] = Nil,
             key' = [key EXCEPT ![p] = want[t]],
             state' = [state EXCEPT ![p] = {"BUSY"}],
             refs' = [refs EXCEPT ![p] = 1],
             page' = [page EXCEPT ![t] = p],
             latest' = latest \ {p},
             loc' = [loc EXCEPT ![t] = "insert"]
      PROVE  IInv'
  <2>1. TypeOK'
    BY <1>1, <1>3 DEF TypeOK, pool, UserLocs, ShrinkLocs
  <2>2. /\ \A x \in Pages : key'[x] = IF x = p THEN want[t] ELSE key[x]
        /\ \A x \in Pages : state'[x] = IF x = p THEN {"BUSY"} ELSE state[x]
        /\ \A x \in Pages : refs'[x] = IF x = p THEN 1 ELSE refs[x]
        /\ \A s \in Threads : page'[s] = IF s = t THEN p ELSE page[s]
        /\ \A s \in Threads : loc'[s] = IF s = t THEN "insert" ELSE loc[s]
        /\ tree' = tree /\ lru' = lru /\ waiters' = waiters /\ want' = want
        /\ synced' = synced
    BY <1>1, <1>3 DEF TypeOK, pool
  <2>3. p \notin tree /\ tree \subseteq Pages
    BY <1>1, <1>3, PageCacheAssumption DEF IInv, KeysOK, TypeOK
  <2>4. KeysOK'
    <3>1. \A x \in tree : x # p /\ key'[x] = key[x]
      BY <2>2, <2>3
    <3>2. \A x \in Pages : key'[x] = Nil => state'[x] = {}
      BY <1>1, <2>2, PageCacheAssumption DEF IInv, KeysOK
    <3> QED
      BY <2>2, <3>1, <3>2 DEF IInv, KeysOK
  <2>5. Working' = Working
    BY <1>1, <2>2 DEF Working
  <2>6. \A s \in Working : /\ s # t /\ s \in Threads /\ loc'[s] = loc[s] /\ page'[s] = page[s]
                           /\ state'[page[s]] = state[page[s]] /\ refs'[page[s]] = refs[page[s]]
    BY <1>1, <2>2, <2>3 DEF Working, IInv, WorkersOK
  <2>7. WorkersOK' /\ RefsOK'
    <3>1. \A s, u \in Working' : page'[s] = page'[u] => s = u
      BY <2>5, <2>6 DEF IInv, WorkersOK
    <3> QED
      BY <2>2, <2>5, <2>6, <3>1 DEF IInv, WorkersOK, RefsOK, Busy, Clean, Dirty
  <2>8. InsertOK'
    <3>1. \A s \in Users : s \in Threads
      BY DEF Threads
    <3>2. \A s \in Users : s # t /\ loc[s] = "insert" => page[s] # p /\ page[s] \in Pages
      BY <1>3, PageCacheAssumption DEF IInv, InsertOK
    <3>3. \A s \in Users : loc'[s] = "insert" =>
             /\ page'[s] \in Pages \ tree' /\ key'[page'[s]] = want'[s]
             /\ state'[page'[s]] = {"BUSY"} /\ refs'[page'[s]] = 1
      <4> SUFFICES ASSUME NEW s \in Users, loc'[s] = "insert"
                   PROVE  /\ page'[s] \in Pages \ tree' /\ key'[page'[s]] = want'[s]
                          /\ state'[page'[s]] = {"BUSY"} /\ refs'[page'[s]] = 1
        OBVIOUS
      <4>1. CASE s = t
        BY <1>1, <2>2, <2>3, <4>1
      <4>2. CASE s # t
        BY <2>2, <3>1, <3>2, <4>2 DEF IInv, InsertOK
      <4> QED
        BY <4>1, <4>2
    <3>4. \A s, u \in Users : loc'[s] = "insert" /\ loc'[u] = "insert" /\ page'[s] = page'[u] => s = u
      BY <2>2, <3>1, <3>2 DEF IInv, InsertOK
    <3>5. \A s \in Users : loc'[s] \in {"alloc", "insert"} => want'[s] \in Keys
      BY <1>1, <2>2, <3>1 DEF IInv, InsertOK
    <3> QED
      BY <3>3, <3>4, <3>5 DEF InsertOK
  <2>9. LruOK'
    <3>1. \A x \in Range(lru) : x \in Pages /\ x # p
      BY <2>3 DEF IInv, LruOK
    <3> QED
      BY <2>2, <3>1 DEF IInv, LruOK, Busy, Clean, Dirty
  <2>10. WaitersOK'
    BY <2>2, <2>3 DEF IInv, WaitersOK, Busy
  <2>11. DataOK'
    <3>1. \A x \in Pages : x # p => (Clean(x)' <=> Clean(x)) /\ (Dirty(x)' <=> Dirty(x))
      BY <2>2 DEF Clean, Dirty
    <3>2. \A x \in Pages : ~ (Clean(x)' /\ Dirty(x)')
      BY <2>2 DEF IInv, DataOK, Clean, Dirty
    <3>3. \A x \in tree' : Clean(x)' \/ Dirty(x)' => x \in latest'
      BY <1>3, <2>2, <2>3, <3>1 DEF IInv, DataOK
    <3>4. \A k \in Keys \ synced' : \E x \in tree' : key'[x] = k /\ Dirty(x)'
      <4> TAKE k \in Keys \ synced'
      <4>1. PICK x \in tree : key[x] = k /\ Dirty(x)
        BY <2>2 DEF IInv, DataOK
      <4> QED
        BY <2>2, <2>3, <3>1, <4>1
    <3> QED
      BY <3>2, <3>3, <3>4 DEF DataOK
  <2> QED
    BY <2>1, <2>4, <2>7, <2>8, <2>9, <2>10, <2>11 DEF IInv
<1> QED
  BY <1>2, <1>3 DEF allocate_new_pcache, goto

(* The new page is registered, or another thread was faster.               *)
LEMMA InsertStep == ASSUME IInv, NEW t \in Users, Insert(t) PROVE IInv'
<1> DEFINE p == page[t]
<1>1. /\ TypeOK /\ t \in Threads /\ loc[t] = "insert" /\ t \notin Shrinkers
      /\ p \in Pages \ tree /\ key[p] = want[t] /\ want[t] \in Keys
      /\ state[p] = {"BUSY"} /\ refs[p] = 1
  BY PageCacheAssumption DEF IInv, InsertOK, Threads, Insert
<1>2. ASSUME NEW q \in Conflicting(want[t]),
             key' = [key EXCEPT ![p] = Nil], refs' = [refs EXCEPT ![p] = 0],
             TakeOrWait(t, q, [state EXCEPT ![p] = {}]), UNCHANGED want
      PROVE  IInv'
  <2>1. q \in tree
    BY DEF Conflicting, Registered
  <2> QED
    BY <1>1, <1>2, <2>1, LookupStep DEF TypeOK
<1>3. CASE /\ Conflicting(want[t]) = {}
           /\ tree' = tree \cup {p}
           /\ refs' = [refs EXCEPT ![p] = @ + 1]
           /\ loc' = [loc EXCEPT ![t] = "fill"]
           /\ UNCHANGED <<lock, lru, key, state, waiters, data, page, want, free_nr, stopped>>
  <2>1. refs' = [refs EXCEPT ![p] = 2]
    BY <1>1, <1>3
  <2>2. TypeOK'
    BY <1>1, <1>3, <2>1 DEF TypeOK, data, UserLocs, ShrinkLocs
  <2>3. /\ \A x \in Pages : refs'[x] = IF x = p THEN 2 ELSE refs[x]
        /\ \A s \in Threads : loc'[s] = IF s = t THEN "fill" ELSE loc[s]
        /\ tree' = tree \cup {p} /\ UNCHANGED <<lru, key, state, waiters, page, want>>
        /\ latest' = latest /\ synced' = synced
        /\ \A q \in tree : key[q] # key[p]
        /\ p = page[t]
    BY <1>1, <1>3, <2>1 DEF TypeOK, data, Conflicting, Registered
  <2> HIDE DEF p
  <2>4. KeysOK'
    <3>1. \A x \in tree' : x \in tree \/ x = p
      BY <2>3
    <3> QED
      BY <1>1, <2>3, <3>1 DEF IInv, KeysOK
  <2>5. Working' = Working \cup {t}
    BY <1>1, <2>3 DEF Working
  <2>6. \A s \in Working : /\ s # t /\ loc'[s] = loc[s] /\ page[s] \in tree /\ page[s] # p
                           /\ refs'[page[s]] = refs[page[s]]
    BY <1>1, <2>3 DEF Working, IInv, WorkersOK, TypeOK
  <2>7. WorkersOK'
    <3>1. \A s \in Working' : page'[s] \in tree' /\ Busy(page[s])'
      BY <1>1, <2>3, <2>5, <2>6 DEF IInv, WorkersOK, Busy
    <3>2. \A s, u \in Working' : page'[s] = page'[u] => s = u
      BY <2>3, <2>5, <2>6 DEF IInv, WorkersOK
    <3>3. \A s \in Working' : loc'[s] # "fill" => Clean(page[s])' \/ Dirty(page[s])'
      BY <1>1, <2>3, <2>5, <2>6 DEF IInv, WorkersOK, Clean, Dirty
    <3>4. \A s \in Working' : loc'[s] \in {"written", "drop"} => ~ Dirty(page[s])'
      BY <1>1, <2>3, <2>5, <2>6 DEF IInv, WorkersOK, Dirty
    <3> QED
      BY <3>1, <3>2, <3>3, <3>4 DEF WorkersOK
  <2>8. RefsOK'
    <3> SUFFICES ASSUME NEW s \in Working'
                 PROVE  refs'[page'[s]] = IF loc'[s] \in {"put", "written", "drop"} THEN 1 ELSE 2
      BY DEF RefsOK
    <3>1. CASE s = t
      BY <1>1, <2>3, <3>1
    <3>2. CASE s # t
      BY <2>3, <2>5, <2>6, <3>2 DEF IInv, RefsOK
    <3> QED
      BY <3>1, <3>2
  <2>9. InsertOK'
    <3>1. \A s \in Users : loc'[s] \in {"alloc", "insert"} => s # t /\ loc'[s] = loc[s]
      BY <2>3 DEF Threads
    <3>2. \A s \in Users : loc'[s] = "insert" => page[s] # p
      BY <1>1, <2>3, <3>1 DEF IInv, InsertOK
    <3> QED
      BY <2>3, <3>1, <3>2 DEF IInv, InsertOK
  <2>10. LruOK'
    <3>1. \A x \in Range(lru) : x \in Pages /\ x # p
      BY <1>1 DEF IInv, LruOK, TypeOK
    <3> QED
      BY <2>3, <3>1 DEF IInv, LruOK, Busy, Clean, Dirty
  <2>11. WaitersOK'
    BY <2>3 DEF IInv, WaitersOK, Busy
  <2>12. DataOK'
    <3>1. ~ Clean(p) /\ ~ Dirty(p)
      BY <1>1 DEF Clean, Dirty
    <3>2. \A x \in tree' : Clean(x)' \/ Dirty(x)' => x \in latest'
      BY <2>3, <3>1 DEF IInv, DataOK, Clean, Dirty
    <3>3. \A k \in Keys \ synced' : \E x \in tree' : key'[x] = k /\ Dirty(x)'
      BY <2>3 DEF IInv, DataOK, Dirty
    <3>4. \A x \in Pages : ~ (Clean(x)' /\ Dirty(x)')
      BY <2>3 DEF IInv, DataOK, Clean, Dirty
    <3> QED
      BY <3>2, <3>3, <3>4 DEF DataOK
  <2> QED
    BY <2>2, <2>4, <2>7, <2>8, <2>9, <2>10, <2>11, <2>12 DEF IInv
<1> QED
  BY <1>2, <1>3 DEF Insert, goto

(* The top of the shrinker's loop: the end, a failure, or the next page.   *)
LEMMA LoopTopStep ==
    ASSUME IInv, NEW t \in Shrinkers, loc[t] \notin WorkLocs, NEW lp, NEW locked,
           NEW work \in {"shrink", "flush"}, LoopTop(t, lp, locked, work)
    PROVE  IInv'
<1>1. TypeOK /\ t \in Threads /\ t \notin Users /\ loc[t] \in ShrinkLocs
  BY PageCacheAssumption DEF IInv, TypeOK, Threads
<1>2. loc[t] \notin WorkLocs \cup {"insert"}
  BY <1>1 DEF ShrinkLocs
<1>3. CASE lp = Nil
  <2>1. /\ lock' = IF locked THEN t ELSE lock
        /\ free_nr' = [free_nr EXCEPT ![t] = 0]
        /\ loc' = [loc EXCEPT ![t] = "idle"]
        /\ UNCHANGED <<tree, lru, pages, data, page, want, stopped>>
    BY <1>3 DEF LoopTop, goto
  <2>2. 0 \in 0..(MaxFree - 1)
    BY PageCacheAssumption
  <2>3. lock' \in Threads \cup {Nil}
    BY <1>1, <2>1 DEF TypeOK
  <2>4. TypeOK'
    BY <1>1, <2>1, <2>2, <2>3 DEF TypeOK, pages, data, UserLocs, ShrinkLocs
  <2> QED
    BY <1>1, <1>2, <2>1, <2>4, MoveKeepsIInv DEF WorkLocs
<1>4. CASE lp # Nil /\ lru = <<>>
  <2>1. Stop("wild")
    BY <1>4 DEF LoopTop
  <2> QED
    BY <2>1, StopKeepsIInv
<1>5. CASE lp # Nil /\ lru # <<>>
  <2> DEFINE p == Head(lru)
  <2>1. CASE Stop("kassert")
    BY <2>1, StopKeepsIInv
  <2>2. CASE /\ state' = MarkBusy(p)
             /\ lru' = Tail(lru)
             /\ page' = [page EXCEPT ![t] = p]
             /\ loc' = [loc EXCEPT ![t] = work]
             /\ lock' = Nil
             /\ UNCHANGED <<tree, key, refs, waiters, data, want, free_nr, stopped>>
    <3>1. /\ lru' \in Seq(Pages) /\ IsInjective(lru') /\ p \in Range(lru)
          /\ Range(lru') = Range(lru) \ {p}
      BY <1>1, <1>5, <2>2, TailFacts DEF IInv, LruOK, TypeOK
    <3>2. p \in Pages
      BY <1>1, <3>1 DEF IInv, LruOK, TypeOK
    <3> HIDE DEF p
    <3>3. \A x \in Pages : x # Superfluous(t)
      BY <1>2, PageCacheAssumption DEF Superfluous
    <3>4. Discards(t, p, state[p] \cup {"BUSY"})
      BY <1>1, <2>2, <3>2, <3>3 DEF Discards, MarkBusy, TypeOK
    <3>5. /\ loc' \in [Threads -> UserLocs \cup ShrinkLocs]
          /\ \A s \in Users : loc'[s] \in UserLocs
          /\ \A s \in Shrinkers : loc'[s] \in ShrinkLocs
      <4>1. \A s \in Threads : loc'[s] = IF s = t THEN work ELSE loc[s]
        BY <1>1, <2>2 DEF TypeOK
      <4>2. work \in ShrinkLocs
        BY DEF ShrinkLocs
      <4> QED
        BY <1>1, <2>2, <4>1, <4>2 DEF TypeOK, Threads
    <3>6. state' \in [Pages -> SUBSET {"BUSY", "CLEAN", "DIRTY"}]
      BY <1>1, <2>2, <3>2 DEF TypeOK, MarkBusy
    <3>7. TypeOK'
      BY <1>1, <2>2, <3>1, <3>2, <3>5, <3>6 DEF TypeOK, data
    <3>8. work \in {"fill", "shrink", "flush"}
      OBVIOUS
    <3> QED
      BY <1>1, <2>2, <3>1, <3>4, <3>7, <3>8, TakeKeepsIInv
  <2> QED
    BY <1>5, <2>1, <2>2 DEF LoopTop, goto
<1> QED
  BY <1>3, <1>4, <1>5

-----------------------------------------------------------------------------
(* The invariant and what follows from it.                                 *)

(* pagecache_init leaves an empty pool.                                    *)
LEMMA InitIInv == Init => IInv
<1> SUFFICES ASSUME Init PROVE IInv
  OBVIOUS
<1>1. TypeOK
  <2>1. 0 \in 0..2 /\ 0 \in 0..(MaxFree - 1)
    BY PageCacheAssumption
  <2>2. <<>> \in Seq(Pages)
    OBVIOUS
  <2> QED
    BY <2>1, <2>2 DEF Init, TypeOK, UserLocs, ShrinkLocs, Threads
<1>2. Working = {}
  BY DEF Init, Working
<1>3. DOMAIN <<>> = {}
  OBVIOUS
<1>4. LruOK
  BY <1>3 DEF Init, LruOK, IsInjective, Range
<1>5. KeysOK /\ WaitersOK /\ DataOK
  BY DEF Init, KeysOK, WaitersOK, DataOK, Clean
<1>6. InsertOK
  BY DEF Init, InsertOK, Threads
<1> QED
  BY <1>1, <1>2, <1>4, <1>5, <1>6 DEF IInv, WorkersOK, RefsOK

(* Every step keeps the invariant.                                         *)
LEMMA NextIInv == IInv /\ [Next]_vars => IInv'
<1> SUFFICES ASSUME IInv, [Next]_vars PROVE IInv'
  OBVIOUS
<1>1. CASE UNCHANGED vars
  <2>1. Working' = Working
    BY <1>1 DEF Working, vars, local
  <2>2. TypeOK'
    BY <1>1 DEF IInv, TypeOK, vars, pool, pages, data, local
  <2>3. KeysOK' /\ LruOK' /\ WaitersOK'
    BY <1>1 DEF IInv, KeysOK, LruOK, WaitersOK, vars, pool, pages, Busy, Clean, Dirty
  <2>4. WorkersOK' /\ RefsOK' /\ InsertOK'
    BY <1>1, <2>1 DEF IInv, WorkersOK, RefsOK, InsertOK, vars, pool, pages, local,
                      Busy, Clean, Dirty
  <2>5. DataOK'
    BY <1>1, SameData DEF vars, pool, pages
  <2> QED
    BY <2>2, <2>3, <2>4, <2>5 DEF IInv
<1>2. ASSUME NEW t \in Users, NEW k \in Keys, pagecache_get(t, k) PROVE IInv'
  BY <1>2, GetStep
<1>3. ASSUME NEW t \in Users, \/ WaitWoken(t) \/ allocate_new_pcache(t) \/ Insert(t)
                              \/ fill_pagecache(t) \/ pagecache_mark_dirty(t)
                              \/ pagecache_write(t) \/ pagecache_put(t) \/ PutInLru(t)
      PROVE  IInv'
  BY <1>3, WokenStep, AllocateStep, InsertStep, FillStep, DirtyStep, WriteStep, PutStep,
     PutInLruStep
<1>4. ASSUME NEW t \in Shrinkers, NEW work \in {"shrink", "flush"},
             pagecache_shrink_pages(t, work)
      PROVE  IInv'
  <2>1. loc[t] \notin WorkLocs
    BY <1>4 DEF pagecache_shrink_pages, WorkLocs
  <2> QED
    BY <1>4, <2>1, LoopTopStep DEF pagecache_shrink_pages
<1>5. ASSUME NEW t \in Shrinkers, ShrinkLoop(t) PROVE IInv'
  <2>1. loc[t] \notin WorkLocs
    BY <1>5 DEF ShrinkLoop, WorkLocs
  <2> QED
    BY <1>5, <2>1, LoopTopStep DEF ShrinkLoop
<1>6. ASSUME NEW t \in Shrinkers, ShrinkWrite(t) \/ ShrinkCheck(t) \/ ShrinkDrop(t)
      PROVE  IInv'
  BY <1>6, ShrinkWriteStep, ShrinkCheckStep, ShrinkDropStep
<1> QED
  BY <1>1, <1>2, <1>3, <1>4, <1>5, <1>6 DEF Next

(* The invariant holds in every state of the page cache.                   *)
THEOREM Invariance == Spec => []IInv
<1>1. Init => IInv
  BY InitIInv
<1>2. IInv /\ [Next]_vars => IInv'
  BY NextIInv
<1> QED
  BY <1>1, <1>2, PTL DEF Spec

(* A locked page has one worker at a time, is registered and alone for its *)
(* block, whatever the users and the shrinkers do (PCACHE_STATE_BUSY).     *)
THEOREM AlwaysOneWorker == Spec => []OneWorker
<1>1. IInv => OneWorker
  BY DEF IInv, WorkersOK, KeysOK, OneWorker
<1> QED
  BY <1>1, Invariance, PTL

(* The contents written last are in the block or in a registered dirty     *)
(* page, and an owner sees them.                                           *)
THEOREM NeverLost == Spec => []NoUpdateLost
<1>1. IInv => NoUpdateLost
  <2> SUFFICES ASSUME IInv PROVE NoUpdateLost
    OBVIOUS
  <2>1. \A k \in Keys \ synced : \E p \in Registered(k) : p \in latest /\ "DIRTY" \in state[p]
    <3> TAKE k \in Keys \ synced
    <3>1. PICK p \in tree : key[p] = k /\ Dirty(p)
      BY DEF IInv, DataOK
    <3> QED
      BY <3>1 DEF IInv, DataOK, Registered, Dirty
  <2>2. \A t \in Users : loc[t] = "own" => page[t] \in latest
    <3> SUFFICES ASSUME NEW t \in Users, loc[t] = "own" PROVE page[t] \in latest
      OBVIOUS
    <3>1. page[t] \in tree /\ (Clean(page[t]) \/ Dirty(page[t]))
      BY WorkerFacts DEF Threads, WorkLocs
    <3> QED
      BY <3>1 DEF IInv, DataOK
  <2> QED
    BY <2>1, <2>2 DEF NoUpdateLost
<1> QED
  BY <1>1, Invariance, PTL

(* The shrinker finds only idle, valid, registered pages in the LRU queue, *)
(* and whoever sleeps for a page sleeps for a busy one, which may be one   *)
(* it has locked itself: clearing the bit leaves no sleeper behind         *)
(* (pagecache_shrink_pages, pagecache_put).                                *)
THEOREM BusyAlwaysExact == Spec => []BusyExact
<1>1. IInv => LruIsIdle
  <2> SUFFICES ASSUME IInv, NEW p \in Range(lru) PROVE p \in tree /\ Valid(p) /\ ~ Busy(p)
    BY DEF LruIsIdle
  <2>1. p \in tree /\ p \in Pages /\ ~ Busy(p) /\ (Clean(p) \/ Dirty(p)) /\ ~ (Clean(p) /\ Dirty(p))
    BY DEF IInv, LruOK, TypeOK, DataOK
  <2> QED
    BY <2>1, ValidIs
<1>2. IInv => SleepersHaveCause
  BY DEF IInv, WaitersOK, SleepersHaveCause
<1>3. IInv => BusyExact
  BY <1>1, <1>2 DEF BusyExact
<1> QED
  BY <1>3, Invariance, PTL
=============================================================================
