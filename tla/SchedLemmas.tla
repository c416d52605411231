---------------------------- MODULE SchedLemmas -----------------------------
(***************************************************************************)
(* What the functions of the scheduler and of the wait queues do, for any  *)
(* number of threads and any priorities: each keeps SchedOK, which says    *)
(* that a thread is in exactly the queue of its state.                     *)
(***************************************************************************)
EXTENDS Sched, SequenceTheorems, FiniteSetTheorems, WellFoundedInduction, TLAPS

-----------------------------------------------------------------------------
(* Queues as sequences without repetition.                                 *)

(* The CHOOSE of a least number is well defined.                           *)
LEMMA LeastNatural ==
    ASSUME NEW S \in SUBSET Nat, S # {}
    PROVE  \E x \in S : \A y \in S : x <= y
<1>1. IsWellFoundedOn(OpToRel(<, Nat), Nat)
  BY NatLessThanWellFounded
<1>2. PICK x \in S : \A y \in S : <<y, x>> \notin OpToRel(<, Nat)
  BY <1>1, WFMin
<1>3. \A y \in S : ~ (y < x)
  BY <1>2 DEF OpToRel
<1> QED
  BY <1>3

(* Taking out the first entry.                                             *)
LEMMA TailFacts ==
    ASSUME NEW S, NEW s \in Seq(S), IsInjective(s), s # <<>>
    PROVE  /\ Tail(s) \in Seq(S) /\ IsInjective(Tail(s))
           /\ Head(s) \in Range(s)
           /\ Range(Tail(s)) = Range(s) \ {Head(s)}
<1> DEFINE n == Len(s)
           r == Tail(s)
<1>1. n \in Nat /\ n >= 1 /\ DOMAIN s = 1..n /\ Head(s) = s[1]
  BY LenProperties, EmptySeq
<1>2. /\ r \in Seq(S) /\ Len(r) = n - 1 /\ DOMAIN r = 1..(n - 1)
      /\ \A j \in 1..(n - 1) : r[j] = s[j + 1]
  BY <1>1, HeadTailProperties, LenProperties
<1> HIDE DEF n, r
<1>3. \A a, b \in 1..n : s[a] = s[b] => a = b
  BY <1>1 DEF IsInjective
<1>4. IsInjective(r)
  <2> SUFFICES ASSUME NEW a \in 1..(n - 1), NEW b \in 1..(n - 1), r[a] = r[b] PROVE a = b
    BY <1>2 DEF IsInjective
  <2>1. a + 1 \in 1..n /\ b + 1 \in 1..n /\ s[a + 1] = s[b + 1]
    BY <1>1, <1>2
  <2> QED
    BY <1>1, <1>3, <2>1
<1>5. ASSUME NEW j \in 1..(n - 1) PROVE r[j] \in Range(s) \ {s[1]}
  <2>1. j + 1 \in 1..n /\ j + 1 # 1 /\ 1 \in 1..n /\ r[j] = s[j + 1]
    BY <1>1, <1>2
  <2> QED
    BY <1>1, <1>3, <2>1 DEF Range
<1>6. ASSUME NEW x \in Range(s) \ {s[1]} PROVE x \in Range(r)
  <2>1. PICK j \in 1..n : x = s[j] /\ j # 1
    BY <1>1 DEF Range
  <2>2. j - 1 \in 1..(n - 1) /\ r[j - 1] = x
    BY <1>1, <1>2, <2>1
  <2> QED
    BY <1>2, <2>2 DEF Range
<1>7. Range(r) = Range(s) \ {Head(s)}
  BY <1>1, <1>2, <1>5, <1>6 DEF Range
<1>8. Head(s) \in Range(s)
  BY <1>1 DEF Range
<1> QED
  BY <1>2, <1>4, <1>7, <1>8 DEF r

(* Appending an entry that is not in the queue.                            *)
LEMMA AppendFacts ==
    ASSUME NEW S, NEW s \in Seq(S), IsInjective(s), NEW x \in S \ Range(s)
    PROVE  /\ Append(s, x) \in Seq(S) /\ IsInjective(Append(s, x))
           /\ Range(Append(s, x)) = Range(s) \cup {x}
<1> DEFINE n == Len(s)
           r == Append(s, x)
<1>1. n \in Nat /\ DOMAIN s = 1..n
  BY LenProperties
<1>2. /\ r \in Seq(S) /\ Len(r) = n + 1 /\ DOMAIN r = 1..(n + 1)
      /\ \A j \in 1..n : r[j] = s[j]
      /\ r[n + 1] = x
  BY <1>1, AppendProperties, LenProperties
<1> HIDE DEF n, r
<1>3. \A a, b \in 1..n : s[a] = s[b] => a = b
  BY <1>1 DEF IsInjective
<1>4. \A j \in 1..n : s[j] # x /\ s[j] \in Range(s)
  BY <1>1 DEF Range
<1>5. \A j \in 1..(n + 1) : j \in 1..n \/ j = n + 1
  BY <1>1
<1>6. IsInjective(r)
  BY <1>2, <1>3, <1>4, <1>5 DEF IsInjective
<1>7. \A j \in 1..n : j \in 1..(n + 1)
  BY <1>1
<1>8. n + 1 \in 1..(n + 1)
  BY <1>1
<1>9. Range(r) = Range(s) \cup {x}
  BY <1>1, <1>2, <1>4, <1>5, <1>7, <1>8 DEF Range
<1> QED
  BY <1>2, <1>6, <1>9 DEF r

-----------------------------------------------------------------------------
(* The invariant of the scheduler.                                         *)

Off(s, t) == t \notin Ready(s) \cup Waiting(s)

QueuesOK(s) ==
    /\ \A p \in Prios : IsInjective(s.que[p])
    /\ \A p \in Prios : \A t \in Range(s.que[p]) : Prio[t] = p /\ s.state[t] = "RUNABLE"
    /\ \A q \in WaitQueues : IsInjective(s.wq[q])
    /\ \A q \in WaitQueues : \A t \in Range(s.wq[q]) : s.state[t] = "WAIT"
    /\ \A q, r \in WaitQueues : q # r => Range(s.wq[q]) \cap Range(s.wq[r]) = {}

\* The threads that are off the CPU.
OthersOK(s) ==
    \A t \in Threads \ {s.cur} :
        /\ s.state[t] = "RUNABLE" /\ t # Idle => t \in Ready(s)
        /\ s.state[t] = "WAIT" => t \in Waiting(s)
        /\ s.state[t] # "RUN"

FlagsOK(s) ==
    /\ s.state[Idle] \in {"RUN", "RUNABLE"}
    /\ s.cur \notin s.active \cup s.fresh
    /\ s.active \cap s.fresh = {}

SchedOK(s) == s \in SchedType /\ BitmapExact(s) /\ QueuesOK(s) /\ OthersOK(s) /\ FlagsOK(s)

-----------------------------------------------------------------------------
(* Putting threads into the ready queues.                                  *)

\* A state of the scheduler by its fields.
Make(cur, state, que, bitmap, delayed, active, fresh, wq, reason, panic) ==
    [cur |-> cur, state |-> state, que |-> que, bitmap |-> bitmap, delayed |-> delayed,
     active |-> active, fresh |-> fresh, wq |-> wq, reason |-> reason, panic |-> panic]

LEMMA SchedFields ==
    ASSUME NEW s \in SchedType
    PROVE  /\ s = Make(s.cur, s.state, s.que, s.bitmap, s.delayed, s.active, s.fresh, s.wq,
                       s.reason, s.panic)
           /\ s.cur \in Threads /\ s.state \in [Threads -> States]
           /\ s.que \in [Prios -> Seq(Threads)] /\ s.bitmap \in SUBSET Prios
           /\ s.delayed \in SUBSET Threads /\ s.active \in SUBSET Threads
           /\ s.fresh \in SUBSET Threads
           /\ s.wq \in [WaitQueues -> Seq(Threads)] /\ s.reason \in [Threads -> Reasons]
           /\ s.panic \in BOOLEAN
BY DEF SchedType, Make

LEMMA MakeSched ==
    ASSUME NEW cur \in Threads, NEW state \in [Threads -> States],
           NEW que \in [Prios -> Seq(Threads)], NEW bitmap \in SUBSET Prios,
           NEW delayed \in SUBSET Threads, NEW active \in SUBSET Threads,
           NEW fresh \in SUBSET Threads,
           NEW wq \in [WaitQueues -> Seq(Threads)], NEW reason \in [Threads -> Reasons],
           NEW panic \in BOOLEAN
    PROVE  Make(cur, state, que, bitmap, delayed, active, fresh, wq, reason, panic) \in SchedType
BY DEF SchedType, Make

\* What a step that only changes the ready queues leaves alone.
SameThreads(s, m) ==
    /\ m.cur = s.cur /\ m.state = s.state /\ m.active = s.active /\ m.fresh = s.fresh
    /\ m.wq = s.wq /\ m.reason = s.reason /\ m.panic = s.panic

\* A condition that holds does no harm in an assertion.
LEMMA AssertHolds ==
    ASSUME NEW s \in SchedType, NEW c, c
    PROVE  kassert(s, c) = s
<1>1. (s.panic \/ ~ c) = s.panic
  BY SchedFields, Zenon
<1>2. kassert(s, c) = [s EXCEPT !.panic = s.panic \/ ~ c]
  BY DEF kassert
<1> DEFINE r == Make(s.cur, s.state, s.que, s.bitmap, s.delayed, s.active, s.fresh, s.wq,
                     s.reason, s.panic)
<1>3. s = r
  BY SchedFields
<1>4. kassert(s, c) = [r EXCEPT !.panic = s.panic]
  BY <1>1, <1>2, <1>3, Zenon
<1>5. [r EXCEPT !.panic = s.panic] = r
  BY DEF Make
<1> QED
  BY <1>3, <1>4, <1>5, Zenon

LEMMA AddFields ==
    ASSUME NEW s \in SchedType, NEW t \in Threads \ Ready(s), s.state[t] = "RUNABLE"
    PROVE  sched_thread_add(s, t) =
             Make(s.cur, s.state, [s.que EXCEPT ![Prio[t]] = Append(@, t)],
                  IF s.que[Prio[t]] = <<>> THEN s.bitmap \cup {Prio[t]} ELSE s.bitmap,
                  s.delayed \cup {s.cur}, s.active, s.fresh, s.wq, s.reason, s.panic)
<1> DEFINE ok == t \notin Ready(s) /\ s.state[t] = "RUNABLE"
           que == [s.que EXCEPT ![Prio[t]] = Append(@, t)]
           bits == IF s.que[Prio[t]] = <<>> THEN s.bitmap \cup {Prio[t]} ELSE s.bitmap
           a == kassert(s, ok)
           b == [a EXCEPT !.que = que, !.bitmap = bits]
<1>1. a = s
  BY AssertHolds
<1>2. sched_thread_add(s, t) = [b EXCEPT !.delayed = b.delayed \cup {s.cur}]
  BY <1>1 DEF sched_thread_add, ti_set_delay_dispatch
<1> HIDE DEF que, bits
<1>3. b = Make(s.cur, s.state, que, bits, s.delayed, s.active, s.fresh, s.wq, s.reason, s.panic)
  <2>1. s = Make(s.cur, s.state, s.que, s.bitmap, s.delayed, s.active, s.fresh, s.wq,
                 s.reason, s.panic)
    BY SchedFields
  <2>2. b = [Make(s.cur, s.state, s.que, s.bitmap, s.delayed, s.active, s.fresh, s.wq,
                  s.reason, s.panic) EXCEPT !.que = que, !.bitmap = bits]
    BY <1>1, <2>1, Zenon
  <2> HIDE DEF b
  <2> QED
    BY <2>2 DEF Make
<1> HIDE DEF b
<1>4. sched_thread_add(s, t) =
        Make(s.cur, s.state, que, bits, s.delayed \cup {s.cur}, s.active, s.fresh, s.wq,
             s.reason, s.panic)
  BY <1>2, <1>3 DEF Make
<1> QED
  BY <1>4 DEF que, bits

LEMMA PrioIs == ASSUME NEW t \in Threads PROVE Prio[t] \in Prios /\ Prio[t] \in Nat
BY SchedAssumption DEF Prios

\* One thread.
LEMMA AddOne ==
    ASSUME NEW s \in SchedType, NEW t \in Threads \ Ready(s), s.state[t] = "RUNABLE",
           BitmapExact(s), \A p \in Prios : IsInjective(s.que[p])
    PROVE  LET m == sched_thread_add(s, t)
           IN  /\ m \in SchedType /\ SameThreads(s, m) /\ BitmapExact(m)
               /\ \A p \in Prios :
                    /\ IsInjective(m.que[p])
                    /\ Range(m.que[p]) = Range(s.que[p]) \cup {x \in {t} : Prio[x] = p}
<1> DEFINE m == sched_thread_add(s, t)
           c == Prio[t]
           que == [s.que EXCEPT ![c] = Append(@, t)]
           bits == IF s.que[c] = <<>> THEN s.bitmap \cup {c} ELSE s.bitmap
<1>1. c \in Prios /\ c \in Nat
  BY PrioIs
<1>2. s.que \in [Prios -> Seq(Threads)] /\ s.que[c] \in Seq(Threads)
  BY <1>1, SchedFields
<1>3. t \notin Range(s.que[c])
  BY <1>1 DEF Ready
<1>4. /\ Append(s.que[c], t) \in Seq(Threads) /\ IsInjective(Append(s.que[c], t))
      /\ Range(Append(s.que[c], t)) = Range(s.que[c]) \cup {t}
      /\ Append(s.que[c], t) # <<>>
  BY <1>1, <1>2, <1>3, AppendFacts, AppendProperties
<1>5. /\ que \in [Prios -> Seq(Threads)] /\ que[c] = Append(s.que[c], t)
      /\ \A p \in Prios \ {c} : que[p] = s.que[p]
  BY <1>1, <1>2, <1>4
<1>6. bits \in SUBSET Prios /\ s.delayed \cup {s.cur} \in SUBSET Threads
  BY <1>1, SchedFields
<1>7. m = Make(s.cur, s.state, que, bits, s.delayed \cup {s.cur}, s.active, s.fresh, s.wq,
               s.reason, s.panic)
  BY AddFields
<1>8. bits = {p \in Prios : que[p] # <<>>}
  BY <1>1, <1>4, <1>5 DEF BitmapExact
<1>9. /\ s.cur \in Threads /\ s.state \in [Threads -> States]
      /\ s.active \in SUBSET Threads /\ s.fresh \in SUBSET Threads
      /\ s.wq \in [WaitQueues -> Seq(Threads)] /\ s.reason \in [Threads -> Reasons]
      /\ s.panic \in BOOLEAN
  BY SchedFields
<1> HIDE DEF que, bits, m
<1>10. /\ m \in SchedType /\ SameThreads(s, m) /\ m.que = que /\ m.bitmap = bits
  <2> DEFINE d == s.delayed \cup {s.cur}
  <2>1. d \in SUBSET Threads
    BY <1>6
  <2> HIDE DEF d
  <2>2. m \in SchedType
    BY <1>5, <1>6, <1>7, <1>9, <2>1, MakeSched DEF d
  <2>3. SameThreads(s, m) /\ m.que = que /\ m.bitmap = bits
    BY <1>7 DEF SameThreads, Make
  <2> QED
    BY <2>2, <2>3
<1>11. ASSUME NEW p \in Prios
       PROVE  /\ IsInjective(que[p])
              /\ Range(que[p]) = Range(s.que[p]) \cup {x \in {t} : Prio[x] = p}
  BY <1>4, <1>5, ZenonT(60)
<1> QED
  BY <1>8, <1>10, <1>11 DEF BitmapExact, m

\* The recursion of AddThreads has a solution.
LEMMA AddThreadsUnfold ==
    ASSUME NEW s, NEW ts, Len(ts) \in Nat
    PROVE  \E f : /\ f[0] = s
                  /\ \A i \in 1 .. Len(ts) : f[i] = sched_thread_add(f[i - 1], ts[i])
                  /\ AddThreads(s, ts) = f[Len(ts)]
<1> DEFINE n == Len(ts)
           Solves(g, j) == g = [i \in 0 .. j |-> IF i = 0 THEN s ELSE sched_thread_add(g[i - 1], ts[i])]
           bad == {j \in Nat : ~ \E g : Solves(g, j)}
           f == CHOOSE g : Solves(g, n)
<1>1. bad = {}
  <2> SUFFICES ASSUME bad # {} PROVE FALSE
    OBVIOUS
  <2>1. PICK j \in bad : \A x \in bad : j <= x
    BY LeastNatural
  <2>2. CASE j = 0
    <3> DEFINE g == [i \in 0 .. 0 |-> s]
    <3>1. Solves(g, 0)
      OBVIOUS
    <3> QED
      BY <2>1, <2>2, <3>1
  <2>3. CASE j # 0
    <3>1. j \in Nat /\ j - 1 \in Nat /\ j - 1 \notin bad
      <4>1. j \in Nat
        OBVIOUS
      <4>2. j - 1 \in Nat /\ ~ (j <= j - 1)
        BY <2>3, <4>1
      <4> HIDE DEF bad
      <4> QED
        BY <2>1, <4>1, <4>2
    <3>2. PICK g : Solves(g, j - 1)
      BY <3>1
    <3> DEFINE h == [i \in 0 .. j |-> IF i = j THEN sched_thread_add(g[j - 1], ts[j]) ELSE g[i]]
    <3>3. ASSUME NEW i \in 0 .. j
          PROVE  h[i] = IF i = 0 THEN s ELSE sched_thread_add(h[i - 1], ts[i])
      <4>1. CASE i = j
        <5>1. h[j] = sched_thread_add(g[j - 1], ts[j]) /\ h[j - 1] = g[j - 1]
          BY <3>1
        <5> QED
          BY <2>3, <4>1, <5>1
      <4>2. CASE i # j
        <5>1. i \in 0 .. (j - 1)
          BY <3>1, <4>2
        <5>2. h[i] = g[i] /\ (i # 0 => h[i - 1] = g[i - 1])
          BY <3>1, <4>2
        <5>3. g[i] = IF i = 0 THEN s ELSE sched_thread_add(g[i - 1], ts[i])
          BY <3>2, <5>1
        <5> QED
          BY <5>2, <5>3
      <4> QED
        BY <4>1, <4>2
    <3>4. Solves(h, j)
      BY <3>3
    <3> QED
      BY <2>1, <3>4
  <2> QED
    BY <2>2, <2>3
<1>2. Solves(f, n)
  BY <1>1
<1>3. AddThreads(s, ts) = f[n]
  BY DEF AddThreads
<1> HIDE DEF f
<1>4. f[0] = s
  BY <1>2
<1>5. \A i \in 1 .. n : f[i] = sched_thread_add(f[i - 1], ts[i])
  BY <1>2
<1> QED
  BY <1>3, <1>4, <1>5

\* The threads of ts up to the i-th are in the ready queues of m as well.
Added(s, m, ts, i) ==
    /\ m \in SchedType /\ SameThreads(s, m) /\ BitmapExact(m)
    /\ \A p \in Prios :
         /\ IsInjective(m.que[p])
         /\ Range(m.que[p]) = Range(s.que[p]) \cup {t \in Threads : Prio[t] = p /\ \E j \in 1 .. i : ts[j] = t}

LEMMA AddThreadsFacts ==
    ASSUME NEW s \in SchedType, NEW ts \in Seq(Threads), IsInjective(ts),
           \A t \in Range(ts) : t \notin Ready(s) /\ s.state[t] = "RUNABLE",
           BitmapExact(s), \A p \in Prios : IsInjective(s.que[p])
    PROVE  Added(s, AddThreads(s, ts), ts, Len(ts))
<1> DEFINE n == Len(ts)
<1>1. n \in Nat /\ DOMAIN ts = 1 .. n /\ \A i \in 1 .. n : ts[i] \in Threads
  BY LenProperties, ElementOfSeq
<1>2. PICK f : /\ f[0] = s
               /\ \A i \in 1 .. n : f[i] = sched_thread_add(f[i - 1], ts[i])
               /\ AddThreads(s, ts) = f[n]
  BY <1>1, AddThreadsUnfold
<1> HIDE DEF n
<1>3. Added(s, f[0], ts, 0)
  BY <1>2 DEF Added, SameThreads
<1>4. ASSUME NEW i \in 1 .. n, Added(s, f[i - 1], ts, i - 1)
      PROVE  Added(s, f[i], ts, i)
  <2> DEFINE a == f[i - 1]
             t == ts[i]
             m == f[i]
             Upto(p, u) == {x \in Threads : Prio[x] = p /\ \E j \in 1 .. u : ts[j] = x}
  <2>1. t \in Threads /\ t \in Range(ts) /\ m = sched_thread_add(a, t)
    BY <1>1, <1>2 DEF Range
  <2>2. /\ a \in SchedType /\ SameThreads(s, a) /\ BitmapExact(a)
        /\ \A p \in Prios : IsInjective(a.que[p]) /\ Range(a.que[p]) = Range(s.que[p]) \cup Upto(p, i - 1)
    BY <1>4 DEF Added
  <2>3. \A j \in 1 .. (i - 1) : ts[j] # t
    <3> SUFFICES ASSUME NEW j \in 1 .. (i - 1), ts[j] = ts[i] PROVE FALSE
      OBVIOUS
    <3>1. j \in 1 .. n /\ j # i
      BY <1>1
    <3> QED
      BY <1>1, <3>1 DEF IsInjective
  <2>4. t \notin Ready(a)
    <3> SUFFICES ASSUME NEW p \in Prios, t \in Range(a.que[p]) PROVE FALSE
      BY DEF Ready
    <3>1. t \notin Range(s.que[p])
      BY <2>1 DEF Ready
    <3>2. t \notin Upto(p, i - 1)
      BY <2>3
    <3> QED
      BY <2>2, <3>1, <3>2
  <2>5. a.state[t] = "RUNABLE"
    BY <2>1, <2>2 DEF SameThreads
  <2>6. /\ m \in SchedType /\ SameThreads(a, m) /\ BitmapExact(m)
        /\ \A p \in Prios :
             /\ IsInjective(m.que[p])
             /\ Range(m.que[p]) = Range(a.que[p]) \cup {x \in {t} : Prio[x] = p}
    <3> HIDE DEF a, t, m
    <3>1. \A p \in Prios : IsInjective(a.que[p])
      BY <2>2
    <3>2. t \in Threads \ Ready(a) /\ a \in SchedType /\ BitmapExact(a)
      BY <2>1, <2>2, <2>4
    <3> QED
      BY <2>1, <2>5, <3>1, <3>2, AddOne
  <2>7. SameThreads(s, m)
    BY <2>2, <2>6 DEF SameThreads
  <2>8. \A p \in Prios : Upto(p, i) = Upto(p, i - 1) \cup {x \in {t} : Prio[x] = p}
    <3>1. \A j \in 1 .. i : j \in 1 .. (i - 1) \/ j = i
      BY <1>1
    <3>2. i \in 1 .. i /\ \A j \in 1 .. (i - 1) : j \in 1 .. i
      BY <1>1
    <3> QED
      BY <2>1, <3>1, <3>2
  <2>9. ASSUME NEW p \in Prios
        PROVE  IsInjective(m.que[p]) /\ Range(m.que[p]) = Range(s.que[p]) \cup Upto(p, i)
    <3> HIDE DEF a, t, m, Upto
    <3> QED
      BY <2>2, <2>6, <2>8
  <2> QED
    BY <2>6, <2>7, <2>9 DEF Added
<1>5. \A i \in 0 .. n : Added(s, f[i], ts, i)
  <2> DEFINE bad == {i \in 0 .. n : ~ Added(s, f[i], ts, i)}
  <2> SUFFICES ASSUME bad # {} PROVE FALSE
    OBVIOUS
  <2>1. bad \in SUBSET Nat
    OBVIOUS
  <2>2. PICK i \in bad : \A x \in bad : i <= x
    <3> HIDE DEF bad
    <3> QED
      BY <2>1, LeastNatural
  <2>3. i \in 1 .. n
    BY <1>1, <1>3, <2>2
  <2>4. i - 1 \in 0 .. n /\ i - 1 \notin bad
    BY <1>1, <2>2, <2>3
  <2>5. Added(s, f[i - 1], ts, i - 1)
    BY <2>4
  <2>6. Added(s, f[i], ts, i)
    BY <1>4, <2>3, <2>5
  <2> QED
    BY <2>2, <2>6
<1> QED
  BY <1>1, <1>2, <1>5 DEF n

-----------------------------------------------------------------------------
(* The wakeup of a wait queue.                                             *)

Woken(s, q) == Range(s.wq[q])

LEMMA WakeFields ==
    ASSUME NEW s \in SchedType, NEW q \in WaitQueues, NEW r \in Reasons
    PROVE  wque_wakeup(s, q, r) =
             AddThreads(Make(s.cur,
                             [t \in Threads |-> IF t \in Woken(s, q) THEN "RUNABLE" ELSE s.state[t]],
                             s.que, s.bitmap, s.delayed, s.active, s.fresh,
                             [s.wq EXCEPT ![q] = <<>>],
                             [t \in Threads |-> IF t \in Woken(s, q) THEN r ELSE s.reason[t]],
                             s.panic),
                        s.wq[q])
<1> DEFINE state == [t \in Threads |-> IF t \in Range(s.wq[q]) THEN "RUNABLE" ELSE s.state[t]]
           reason == [t \in Threads |-> IF t \in Range(s.wq[q]) THEN r ELSE s.reason[t]]
           wq == [s.wq EXCEPT ![q] = <<>>]
           f == Make(s.cur, s.state, s.que, s.bitmap, s.delayed, s.active, s.fresh, s.wq,
                     s.reason, s.panic)
           b == [s EXCEPT !.wq = wq, !.reason = reason, !.state = state]
<1>1. wque_wakeup(s, q, r) = AddThreads(b, s.wq[q])
  <2>1. [s EXCEPT !.wq[q] = <<>>, !.reason = reason, !.state = state] = b
    OBVIOUS
  <2> QED
    BY <2>1 DEF wque_wakeup
<1> HIDE DEF wq, state, reason
<1>2. s = f
  BY SchedFields
<1>3. b = [f EXCEPT !.wq = wq, !.reason = reason, !.state = state]
  BY <1>2, Zenon
<1>4. b = Make(s.cur, state, s.que, s.bitmap, s.delayed, s.active, s.fresh, wq, reason, s.panic)
  <2> HIDE DEF b
  <2> QED
    BY <1>3 DEF Make
<1> QED
  BY <1>1, <1>4 DEF wq, state, reason, Woken

\* m is s with the threads of q woken.
Wakes(s, m, q, r) ==
    /\ m.cur = s.cur /\ m.active = s.active /\ m.fresh = s.fresh /\ m.panic = s.panic
    /\ m.wq = [s.wq EXCEPT ![q] = <<>>]
    /\ m.state = [t \in Threads |-> IF t \in Woken(s, q) THEN "RUNABLE" ELSE s.state[t]]
    /\ m.reason = [t \in Threads |-> IF t \in Woken(s, q) THEN r ELSE s.reason[t]]
    /\ Ready(m) = Ready(s) \cup Woken(s, q)
    /\ Waiting(m) = Waiting(s) \ Woken(s, q)

LEMMA Wakeup ==
    ASSUME NEW s, SchedOK(s), NEW q \in WaitQueues, NEW r \in Reasons
    PROVE  SchedOK(wque_wakeup(s, q, r)) /\ Wakes(s, wque_wakeup(s, q, r), q, r)
<1> DEFINE W == Woken(s, q)
           state == [t \in Threads |-> IF t \in W THEN "RUNABLE" ELSE s.state[t]]
           reason == [t \in Threads |-> IF t \in W THEN r ELSE s.reason[t]]
           wq == [s.wq EXCEPT ![q] = <<>>]
           b == Make(s.cur, state, s.que, s.bitmap, s.delayed, s.active, s.fresh, wq, reason, s.panic)
           ts == s.wq[q]
           m == wque_wakeup(s, q, r)
<1>1. /\ s \in SchedType /\ s.cur \in Threads /\ s.state \in [Threads -> States]
      /\ s.que \in [Prios -> Seq(Threads)] /\ s.wq \in [WaitQueues -> Seq(Threads)]
      /\ s.reason \in [Threads -> Reasons]
  BY SchedFields DEF SchedOK
<1>2. ts \in Seq(Threads) /\ IsInjective(ts) /\ W = Range(ts) /\ W \in SUBSET Threads
  <2>1. ts \in Seq(Threads)
    BY <1>1
  <2>2. Range(ts) \in SUBSET Threads
    BY <2>1, ElementOfSeq, LenProperties DEF Range
  <2> QED
    BY <2>1, <2>2 DEF SchedOK, QueuesOK, Woken
<1>3. state \in [Threads -> States] /\ reason \in [Threads -> Reasons]
  BY <1>1 DEF States
<1>4. /\ wq \in [WaitQueues -> Seq(Threads)] /\ wq[q] = <<>>
      /\ \A x \in WaitQueues \ {q} : wq[x] = s.wq[x]
  <2>1. <<>> \in Seq(Threads)
    BY EmptySeq
  <2> QED
    BY <1>1, <2>1
<1>5. b \in SchedType
  <2> HIDE DEF state, reason, wq
  <2> QED
    BY <1>1, <1>3, <1>4, SchedFields, MakeSched
<1>6. /\ b.cur = s.cur /\ b.state = state /\ b.que = s.que /\ b.bitmap = s.bitmap
      /\ b.active = s.active /\ b.fresh = s.fresh /\ b.wq = wq /\ b.panic = s.panic
      /\ b.reason = reason
  BY DEF Make
<1>7. Ready(b) = Ready(s)
  BY <1>6 DEF Ready
<1>8. \A t \in W : s.state[t] = "WAIT" /\ t \notin Ready(s) /\ state[t] = "RUNABLE"
  <2>1. \A t \in W : s.state[t] = "WAIT" /\ state[t] = "RUNABLE"
    BY <1>2 DEF SchedOK, QueuesOK, Woken
  <2>2. \A t \in Ready(s) : s.state[t] = "RUNABLE"
    BY DEF SchedOK, QueuesOK, Ready
  <2> QED
    BY <2>1, <2>2
<1>9. m = AddThreads(b, ts)
  BY <1>1, WakeFields
<1>10. Added(b, m, ts, Len(ts))
  <2> HIDE DEF b, ts
  <2>1. \A t \in Range(ts) : t \notin Ready(b) /\ b.state[t] = "RUNABLE"
    BY <1>2, <1>6, <1>7, <1>8, ZenonT(60)
  <2>2. BitmapExact(b) /\ \A p \in Prios : IsInjective(b.que[p])
    BY <1>6 DEF SchedOK, QueuesOK, BitmapExact
  <2> QED
    BY <1>2, <1>5, <1>9, <2>1, <2>2, AddThreadsFacts
<1> HIDE DEF m, b, state, reason, wq
<1>11. /\ m \in SchedType /\ BitmapExact(m) /\ m.cur = s.cur /\ m.state = state
       /\ m.active = s.active /\ m.fresh = s.fresh /\ m.wq = wq /\ m.panic = s.panic
       /\ m.reason = reason
  BY <1>6, <1>10 DEF Added, SameThreads
<1>12. ASSUME NEW p \in Prios
       PROVE  IsInjective(m.que[p]) /\ Range(m.que[p]) = Range(s.que[p]) \cup {t \in W : Prio[t] = p}
  <2>1. \A t \in Threads : (\E j \in 1 .. Len(ts) : ts[j] = t) <=> t \in W
    BY <1>2, LenProperties DEF Range
  <2>2. Range(m.que[p]) = Range(s.que[p]) \cup {t \in Threads : Prio[t] = p /\ \E j \in 1 .. Len(ts) : ts[j] = t}
    BY <1>6, <1>10 DEF Added
  <2> QED
    BY <1>2, <1>10, <2>1, <2>2 DEF Added
<1>13. Ready(m) = Ready(s) \cup W
  <2>1. ASSUME NEW t \in Ready(m) PROVE t \in Ready(s) \cup W
    BY <1>12 DEF Ready
  <2>2. ASSUME NEW t \in Ready(s) PROVE t \in Ready(m)
    BY <1>12 DEF Ready
  <2>3. ASSUME NEW t \in W PROVE t \in Ready(m)
    <3>1. Prio[t] \in Prios
      BY <1>2, PrioIs
    <3> QED
      BY <1>12, <3>1 DEF Ready
  <2> QED
    BY <2>1, <2>2, <2>3
<1>14. Waiting(m) = Waiting(s) \ W
  <2>1. \A x \in WaitQueues : Range(m.wq[x]) = IF x = q THEN {} ELSE Range(s.wq[x])
    BY <1>4, <1>11 DEF Range
  <2>2. \A x \in WaitQueues \ {q} : Range(s.wq[x]) \cap W = {}
    BY <1>2 DEF SchedOK, QueuesOK, Woken
  <2> QED
    BY <1>2, <2>1, <2>2 DEF Waiting
<1>15. Wakes(s, m, q, r)
  BY <1>11, <1>13, <1>14 DEF Wakes, state, reason, wq
<1>16. \A t \in Threads : m.state[t] = IF t \in W THEN "RUNABLE" ELSE s.state[t]
  BY <1>11 DEF state
<1>17. QueuesOK(m)
  <2>1. ASSUME NEW p \in Prios, NEW t \in Range(m.que[p])
        PROVE  Prio[t] = p /\ m.state[t] = "RUNABLE"
    <3>1. t \in W \/ (Prio[t] = p /\ s.state[t] = "RUNABLE")
      BY <1>12 DEF SchedOK, QueuesOK
    <3>2. t \in Threads
      BY <1>11, SchedFields, ElementOfSeq, LenProperties DEF Range
    <3> QED
      BY <1>12, <1>16, <3>1, <3>2 DEF SchedOK, QueuesOK
  <2>2. ASSUME NEW x \in WaitQueues
        PROVE  IsInjective(m.wq[x]) /\ \A t \in Range(m.wq[x]) : m.state[t] = "WAIT"
    <3>1. CASE x = q
      <4>1. m.wq[x] = <<>>
        BY <1>4, <1>11, <3>1
      <4> QED
        BY <4>1 DEF IsInjective, Range
    <3>2. CASE x # q
      <4>1. m.wq[x] = s.wq[x] /\ Range(s.wq[x]) \cap W = {}
        BY <1>2, <1>4, <1>11, <3>2 DEF SchedOK, QueuesOK, Woken
      <4>2. Range(s.wq[x]) \in SUBSET Threads
        BY <1>1, ElementOfSeq, LenProperties DEF Range
      <4> QED
        BY <1>16, <4>1, <4>2 DEF SchedOK, QueuesOK
    <3> QED
      BY <3>1, <3>2
  <2>3. ASSUME NEW x \in WaitQueues, NEW y \in WaitQueues, x # y
        PROVE  Range(m.wq[x]) \cap Range(m.wq[y]) = {}
    <3>1. \A z \in WaitQueues : Range(m.wq[z]) = IF z = q THEN {} ELSE Range(s.wq[z])
      BY <1>4, <1>11 DEF Range
    <3> QED
      BY <2>3, <3>1 DEF SchedOK, QueuesOK
  <2> QED
    BY <1>12, <2>1, <2>2, <2>3 DEF QueuesOK
<1>18. OthersOK(m)
  BY <1>11, <1>13, <1>14, <1>16 DEF SchedOK, OthersOK
<1>19. FlagsOK(m)
  BY <1>11, <1>16, SchedAssumption DEF SchedOK, FlagsOK
<1> QED
  BY <1>11, <1>15, <1>17, <1>18, <1>19 DEF SchedOK, m

-----------------------------------------------------------------------------
(* The dispatch.                                                           *)

\* g is s without the thread n, which is the next to run.
Takes(s, g, n) ==
    /\ g \in SchedType /\ SameThreads(s, g) /\ BitmapExact(g)
    /\ n \in Ready(s) \/ n = Idle
    /\ \A p \in Prios : IsInjective(g.que[p]) /\ Range(g.que[p]) = Range(s.que[p]) \ {n}

LEMMA TakeNext ==
    ASSUME NEW s, SchedOK(s)
    PROVE  Takes(s, get_next_thread(s), NextThread(s))
<1> DEFINE n == NextThread(s)
           g == get_next_thread(s)
<1>1. /\ s \in SchedType /\ s.que \in [Prios -> Seq(Threads)] /\ s.bitmap \in SUBSET Prios
      /\ Prios \in SUBSET Nat
  BY SchedFields, SchedAssumption, ZenonT(60) DEF SchedOK, Prios
<1>2. CASE s.bitmap = {}
  <2>1. n = Idle /\ g = s
    BY <1>2 DEF NextThread, get_next_thread
  <2>2. \A p \in Prios : s.que[p] = <<>> /\ IsInjective(s.que[p])
    BY <1>2 DEF SchedOK, BitmapExact, QueuesOK
  <2>3. \A p \in Prios : Range(s.que[p]) = Range(s.que[p]) \ {n}
    BY <2>2 DEF Range
  <2> QED
    BY <1>1, <2>1, <2>2, <2>3 DEF Takes, SameThreads, SchedOK
<1>3. CASE s.bitmap # {}
  <2> DEFINE p == Min(s.bitmap)
             que == [s.que EXCEPT ![p] = Tail(@)]
             bits == IF Tail(s.que[p]) = <<>> THEN s.bitmap \ {p} ELSE s.bitmap
             f == Make(s.cur, s.state, s.que, s.bitmap, s.delayed, s.active, s.fresh, s.wq,
                       s.reason, s.panic)
             r == Make(s.cur, s.state, que, bits, s.delayed, s.active, s.fresh, s.wq,
                       s.reason, s.panic)
  <2>1. p \in s.bitmap /\ p \in Prios
    <3>1. \E x \in s.bitmap : \A y \in s.bitmap : x <= y
      BY <1>1, <1>3, LeastNatural
    <3> QED
      BY <1>1, <3>1 DEF Min
  <2>2. s.que[p] \in Seq(Threads) /\ s.que[p] # <<>> /\ IsInjective(s.que[p])
    BY <1>1, <2>1 DEF SchedOK, BitmapExact, QueuesOK
  <2>3. n = Head(s.que[p])
    BY <1>3 DEF NextThread
  <2> HIDE DEF p
  <2>4. /\ Tail(s.que[p]) \in Seq(Threads) /\ IsInjective(Tail(s.que[p]))
        /\ n \in Range(s.que[p]) /\ Range(Tail(s.que[p])) = Range(s.que[p]) \ {n}
    BY <2>2, <2>3, TailFacts
  <2>5. s.state[n] = "RUNABLE" /\ Prio[n] = p
    BY <2>1, <2>4 DEF SchedOK, QueuesOK
  <2>6. kassert(s, s.state[n] = "RUNABLE") = s
    BY <1>1, <2>5, AssertHolds
  <2>7. g = [s EXCEPT !.que = que, !.bitmap = bits]
    <3>1. g = [kassert(s, s.state[n] = "RUNABLE") EXCEPT !.que[p] = Tail(@), !.bitmap = BitAfterGet(s, p)]
      BY <1>3 DEF get_next_thread, p
    <3> QED
      BY <2>6, <3>1 DEF BitAfterGet
  <2> HIDE DEF n, g, que, bits
  <2>8. g = r
    <3>1. s = f
      BY <1>1, SchedFields
    <3>2. g = [f EXCEPT !.que = que, !.bitmap = bits]
      BY <2>7, <3>1, Zenon
    <3> QED
      BY <3>2 DEF Make
  <2>9. /\ que \in [Prios -> Seq(Threads)] /\ que[p] = Tail(s.que[p])
        /\ \A x \in Prios \ {p} : que[x] = s.que[x]
    BY <1>1, <2>1, <2>4 DEF que
  <2>10. bits \in SUBSET Prios /\ bits = {x \in Prios : que[x] # <<>>}
    BY <1>1, <2>1, <2>9 DEF bits, SchedOK, BitmapExact
  <2>11. g \in SchedType
    BY <1>1, <2>8, <2>9, <2>10, SchedFields, MakeSched
  <2>12. g.que = que /\ g.bitmap = bits /\ SameThreads(s, g)
    BY <2>8 DEF Make, SameThreads
  <2>13. ASSUME NEW x \in Prios
         PROVE  IsInjective(g.que[x]) /\ Range(g.que[x]) = Range(s.que[x]) \ {n}
    <3>1. CASE x = p
      BY <2>4, <2>9, <2>12, <3>1
    <3>2. CASE x # p
      <4>1. n \notin Range(s.que[x])
        BY <2>5, <3>2 DEF SchedOK, QueuesOK
      <4> QED
        BY <2>9, <2>12, <3>2, <4>1 DEF SchedOK, QueuesOK
    <3> QED
      BY <3>1, <3>2
  <2>14. n \in Ready(s)
    BY <2>1, <2>4 DEF Ready
  <2> QED
    BY <2>10, <2>11, <2>12, <2>13, <2>14 DEF Takes, BitmapExact, n, g
<1> QED
  BY <1>2, <1>3

\* The thread that leaves the CPU is back in its ready queue when it was running.
Leaves(g, h) ==
    LET c == g.cur
        back == {t \in {c} : g.state[t] = "RUN"}
    IN  /\ h \in SchedType /\ BitmapExact(h)
        /\ h.cur = c /\ h.active = g.active \cup {c} /\ h.fresh = g.fresh /\ h.wq = g.wq
        /\ h.panic = g.panic /\ h.reason = g.reason
        /\ h.state = [t \in Threads |-> IF t \in back THEN "RUNABLE" ELSE g.state[t]]
        /\ \A p \in Prios :
             /\ IsInjective(h.que[p])
             /\ Range(h.que[p]) = Range(g.que[p]) \cup {t \in back : Prio[t] = p}

LEMMA LeaveCPU ==
    ASSUME NEW g \in SchedType, BitmapExact(g), \A p \in Prios : IsInjective(g.que[p]),
           g.state[g.cur] = "RUN" => g.cur \notin Ready(g)
    PROVE  Leaves(g, Requeue(ti_set_preempt_active(ti_clr_delay_dispatch(g))))
<1> DEFINE c == g.cur
           f == Make(c, g.state, g.que, g.bitmap, g.delayed, g.active, g.fresh, g.wq,
                     g.reason, g.panic)
           d == g.delayed \ {c}
           a == g.active \cup {c}
           x == ti_clr_delay_dispatch(g)
           y == ti_set_preempt_active(x)
           h == Requeue(y)
           back == {t \in {c} : g.state[t] = "RUN"}
           state == [t \in Threads |-> IF t \in back THEN "RUNABLE" ELSE g.state[t]]
           z == [y EXCEPT !.state[c] = "RUNABLE"]
<1>1. /\ g = f /\ c \in Threads /\ g.state \in [Threads -> States]
      /\ g.que \in [Prios -> Seq(Threads)] /\ g.bitmap \in SUBSET Prios
      /\ d \in SUBSET Threads /\ a \in SUBSET Threads
      /\ g.fresh \in SUBSET Threads
      /\ g.wq \in [WaitQueues -> Seq(Threads)] /\ g.reason \in [Threads -> Reasons]
      /\ g.panic \in BOOLEAN
  BY SchedFields
<1> HIDE DEF d, a
<1>2. x = Make(c, g.state, g.que, g.bitmap, d, g.active, g.fresh, g.wq, g.reason, g.panic)
  <2>1. x = [g EXCEPT !.delayed = d]
    BY DEF ti_clr_delay_dispatch, d
  <2>2. x = [f EXCEPT !.delayed = d]
    BY <1>1, <2>1, Zenon
  <2> HIDE DEF x
  <2> QED
    BY <2>2 DEF Make
<1>3. y = Make(c, g.state, g.que, g.bitmap, d, a, g.fresh, g.wq, g.reason, g.panic)
  <2> HIDE DEF x
  <2>1. y = [x EXCEPT !.active = x.active \cup {x.cur}]
    BY DEF ti_set_preempt_active
  <2>2. x.active = g.active /\ x.cur = c
    BY <1>2 DEF Make
  <2>3. y = [x EXCEPT !.active = a]
    BY <2>1, <2>2 DEF a
  <2> HIDE DEF y
  <2> QED
    BY <1>2, <2>3 DEF Make
<1> HIDE DEF x, y
<1>4. /\ y \in SchedType /\ y.cur = c /\ y.state = g.state /\ y.que = g.que
      /\ y.bitmap = g.bitmap /\ y.active = a /\ y.fresh = g.fresh /\ y.wq = g.wq
      /\ y.panic = g.panic /\ y.reason = g.reason
  <2>1. y \in SchedType
    BY <1>1, <1>3, MakeSched
  <2> QED
    BY <1>3, <2>1 DEF Make
<1>5. CASE g.state[c] = "RUN"
  <2>1. h = sched_thread_add(z, c) /\ back = {c}
    BY <1>4, <1>5 DEF Requeue
  <2>2. z = Make(c, state, g.que, g.bitmap, d, a, g.fresh, g.wq, g.reason, g.panic)
    <3>1. state = [g.state EXCEPT ![c] = "RUNABLE"]
      BY <1>1, <2>1
    <3> HIDE DEF state
    <3> QED
      BY <1>3, <3>1 DEF Make
  <2>3. state \in [Threads -> States] /\ state[c] = "RUNABLE"
    BY <1>1, <2>1 DEF States
  <2> HIDE DEF h, z, state, back
  <2>4. z \in SchedType
    BY <1>1, <2>2, <2>3, MakeSched
  <2>5. /\ z.cur = c /\ z.state = state /\ z.que = g.que /\ z.bitmap = g.bitmap
        /\ z.active = a /\ z.fresh = g.fresh /\ z.wq = g.wq /\ z.panic = g.panic
        /\ z.reason = g.reason
    BY <2>2 DEF Make
  <2>6. c \notin Ready(z) /\ BitmapExact(z) /\ \A p \in Prios : IsInjective(z.que[p])
    BY <1>5, <2>5 DEF Ready, BitmapExact
  <2>7. /\ h \in SchedType /\ SameThreads(z, h) /\ BitmapExact(h)
        /\ \A p \in Prios :
             /\ IsInjective(h.que[p])
             /\ Range(h.que[p]) = Range(z.que[p]) \cup {t \in {c} : Prio[t] = p}
    <3>1. c \in Threads \ Ready(z) /\ z.state[c] = "RUNABLE"
      BY <1>1, <2>3, <2>5, <2>6
    <3> HIDE DEF c
    <3> QED
      BY <2>1, <2>4, <2>6, <3>1, AddOne, SMTT(30)
  <2>8. /\ h.cur = c /\ h.active = g.active \cup {c} /\ h.fresh = g.fresh /\ h.wq = g.wq
        /\ h.panic = g.panic /\ h.reason = g.reason /\ h.state = state
    BY <2>5, <2>7 DEF SameThreads, a
  <2>9. \A p \in Prios : Range(h.que[p]) = Range(g.que[p]) \cup {t \in back : Prio[t] = p}
    BY <2>1, <2>5, <2>7
  <2> QED
    BY <2>7, <2>8, <2>9 DEF Leaves, h, state, back, x, y
<1>6. CASE g.state[c] # "RUN"
  <2>1. h = y /\ back = {}
    BY <1>4, <1>6 DEF Requeue
  <2>2. state = g.state
    BY <1>1, <2>1
  <2>3. BitmapExact(h) /\ \A p \in Prios : IsInjective(h.que[p])
    BY <1>4, <2>1 DEF BitmapExact
  <2>4. \A p \in Prios : Range(h.que[p]) = Range(g.que[p]) \cup {t \in back : Prio[t] = p}
    BY <1>4, <2>1
  <2> HIDE DEF h, state, back
  <2>5. /\ h.cur = c /\ h.active = g.active \cup {c} /\ h.fresh = g.fresh /\ h.wq = g.wq
        /\ h.panic = g.panic /\ h.reason = g.reason /\ h.state = state /\ h \in SchedType
    BY <1>4, <2>1, <2>2 DEF a
  <2> QED
    BY <2>3, <2>4, <2>5 DEF Leaves, h, state, back, x, y
<1> QED
  BY <1>5, <1>6

\* h after the thread n has got the CPU.
Switched(h, n, m) ==
    /\ m \in SchedType /\ m.cur = n /\ m.que = h.que /\ m.bitmap = h.bitmap /\ m.wq = h.wq
    /\ m.panic = h.panic /\ m.reason = h.reason
    /\ m.state = [t \in Threads |-> IF t = n /\ n \notin h.fresh THEN "RUN" ELSE h.state[t]]
    /\ m.active = IF n \in h.fresh THEN h.active ELSE h.active \ {n}
    /\ m.fresh = h.fresh \ {n}

LEMMA Switch ==
    ASSUME NEW h \in SchedType, NEW n \in Threads
    PROVE  Switched(h, n, thr_thread_switch(h, n))
<1> DEFINE f == Make(h.cur, h.state, h.que, h.bitmap, h.delayed, h.active, h.fresh, h.wq,
                     h.reason, h.panic)
           m == thr_thread_switch(h, n)
           state == [t \in Threads |-> IF t = n /\ n \notin h.fresh THEN "RUN" ELSE h.state[t]]
<1>1. /\ h = f /\ h.state \in [Threads -> States]
      /\ h.que \in [Prios -> Seq(Threads)] /\ h.bitmap \in SUBSET Prios
      /\ h.delayed \in SUBSET Threads /\ h.active \in SUBSET Threads /\ h.fresh \in SUBSET Threads
      /\ h.wq \in [WaitQueues -> Seq(Threads)] /\ h.reason \in [Threads -> Reasons]
      /\ h.panic \in BOOLEAN
  BY SchedFields
<1>2. state \in [Threads -> States]
  BY <1>1 DEF States
<1>3. CASE n \in h.fresh
  <2> DEFINE fresh == h.fresh \ {n}
  <2>1. m = [h EXCEPT !.cur = n, !.fresh = fresh] /\ state = h.state
    BY <1>1, <1>3 DEF thr_thread_switch
  <2>2. fresh \in SUBSET Threads
    BY <1>1
  <2> HIDE DEF fresh, m, state
  <2>3. m = Make(n, state, h.que, h.bitmap, h.delayed, h.active, fresh, h.wq, h.reason, h.panic)
    <3>1. m = [f EXCEPT !.cur = n, !.fresh = fresh]
      BY <1>1, <2>1, Zenon
    <3> QED
      BY <2>1, <3>1 DEF Make
  <2>4. m \in SchedType
    BY <1>1, <1>2, <2>2, <2>3, MakeSched
  <2>5. /\ m.cur = n /\ m.que = h.que /\ m.bitmap = h.bitmap /\ m.wq = h.wq
        /\ m.panic = h.panic /\ m.reason = h.reason /\ m.state = state /\ m.active = h.active /\ m.fresh = fresh
    BY <2>3 DEF Make
  <2> QED
    BY <1>3, <2>4, <2>5 DEF Switched, m, fresh, state
<1>4. CASE n \notin h.fresh
  <2> DEFINE active == h.active \ {n}
             x == [h EXCEPT !.cur = n, !.state[n] = "RUN"]
  <2>1. m = [x EXCEPT !.active = x.active \ {x.cur}]
    BY <1>4 DEF thr_thread_switch, ti_clr_preempt_active
  <2>2. state = [h.state EXCEPT ![n] = "RUN"]
    BY <1>1, <1>4
  <2>3. x = Make(n, state, h.que, h.bitmap, h.delayed, h.active, h.fresh, h.wq, h.reason, h.panic)
    <3>1. x = [h EXCEPT !.cur = n, !.state = state]
      BY <2>2
    <3> HIDE DEF x, state
    <3>2. x = [f EXCEPT !.cur = n, !.state = state]
      BY <1>1, <3>1, Zenon
    <3> QED
      BY <3>2 DEF Make
  <2>4. active \in SUBSET Threads
    BY <1>1
  <2> HIDE DEF x, m, state, active
  <2>5. m = Make(n, state, h.que, h.bitmap, h.delayed, active, h.fresh, h.wq, h.reason, h.panic)
    <3>1. x.active = h.active /\ x.cur = n
      BY <2>3 DEF Make
    <3>2. m = [x EXCEPT !.active = active]
      BY <2>1, <3>1 DEF active
    <3> QED
      BY <2>3, <3>2 DEF Make
  <2>6. m \in SchedType
    BY <1>1, <1>2, <2>4, <2>5, MakeSched
  <2>7. /\ m.cur = n /\ m.que = h.que /\ m.bitmap = h.bitmap /\ m.wq = h.wq
        /\ m.panic = h.panic /\ m.reason = h.reason /\ m.state = state /\ m.active = active /\ m.fresh = h.fresh
    BY <2>5 DEF Make
  <2>8. h.fresh \ {n} = h.fresh
    BY <1>4
  <2> QED
    BY <1>4, <2>6, <2>7, <2>8 DEF Switched, m, active, state
<1> QED
  BY <1>3, <1>4

\* The thread on the CPU runs, and may give the CPU away.
OnCpu(s) == Off(s, s.cur) /\ s.state[s.cur] \in {"RUN", "RUNABLE"}
MayLeave(s) ==
    /\ s.state[s.cur] = "RUNABLE" => s.cur \in Ready(s) \cup {Idle}
    /\ s.state[s.cur] = "WAIT" => s.cur \in Waiting(s)

LEMMA QueuedThreads ==
    ASSUME NEW s, SchedOK(s)
    PROVE  /\ Ready(s) \in SUBSET Threads /\ Waiting(s) \in SUBSET Threads
           /\ \A t \in Ready(s) : s.state[t] = "RUNABLE"
           /\ \A t \in Waiting(s) : s.state[t] = "WAIT"
<1>1. \A p \in Prios : Range(s.que[p]) \in SUBSET Threads
  BY SchedFields, ElementOfSeq, LenProperties DEF SchedOK, Range
<1>2. \A q \in WaitQueues : Range(s.wq[q]) \in SUBSET Threads
  BY SchedFields, ElementOfSeq, LenProperties DEF SchedOK, Range
<1> QED
  BY <1>1, <1>2 DEF Ready, Waiting, SchedOK, QueuesOK

LEMMA Schedule ==
    ASSUME NEW s, SchedOK(s), MayLeave(s)
    PROVE  LET m == sched_schedule(s)
           IN  /\ SchedOK(m) /\ OnCpu(m) /\ m.wq = s.wq /\ m.panic = s.panic /\ m.reason = s.reason
               /\ \A t \in Threads : m.state[t] = s.state[t] \/ {m.state[t], s.state[t]} \subseteq {"RUN", "RUNABLE"}
<1> DEFINE c == s.cur
           n == NextThread(s)
           g == get_next_thread(s)
           k1 == ti_clr_delay_dispatch(g)
           h == Requeue(ti_set_preempt_active(k1))
           m == sched_schedule(s)
<1>1. /\ s \in SchedType /\ c \in Threads /\ s.state \in [Threads -> States]
      /\ c \notin s.active /\ c \notin s.fresh /\ s.active \cap s.fresh = {}
  BY SchedFields DEF SchedOK, FlagsOK
<1>2. m = IF n = c THEN k1 ELSE thr_thread_switch(h, n)
  BY <1>1 DEF sched_schedule, Dispatch, ti_dispatch_disabled
<1>3. /\ g \in SchedType /\ g.cur = c /\ g.state = s.state /\ g.active = s.active
      /\ g.fresh = s.fresh /\ g.wq = s.wq /\ g.reason = s.reason /\ g.panic = s.panic
      /\ BitmapExact(g) /\ n \in Ready(s) \cup {Idle}
      /\ \A p \in Prios : IsInjective(g.que[p]) /\ Range(g.que[p]) = Range(s.que[p]) \ {n}
  BY TakeNext DEF Takes, SameThreads
<1>4. Ready(g) = Ready(s) \ {n} /\ Waiting(g) = Waiting(s)
  BY <1>3 DEF Ready, Waiting
<1>5. /\ n \in Threads /\ s.state[n] \in {"RUN", "RUNABLE"} /\ n \notin Waiting(s)
      /\ s.state[Idle] \in {"RUN", "RUNABLE"} /\ Idle \in Threads
  BY <1>3, QueuedThreads, SchedAssumption DEF SchedOK, FlagsOK
<1> HIDE DEF g, n
<1>6. CASE n = c
  <2>1. m = k1
    BY <1>2, <1>6
  <2> DEFINE d == g.delayed \ {c}
             f == Make(g.cur, g.state, g.que, g.bitmap, g.delayed, g.active, g.fresh, g.wq,
                       g.reason, g.panic)
  <2>2. k1 = [g EXCEPT !.delayed = d]
    BY <1>3 DEF ti_clr_delay_dispatch
  <2>3. g = f /\ d \in SUBSET Threads
    BY <1>3, SchedFields
  <2> HIDE DEF d, k1, m
  <2>4. m = Make(g.cur, g.state, g.que, g.bitmap, d, g.active, g.fresh, g.wq, g.reason, g.panic)
    <3>1. m = [f EXCEPT !.delayed = d]
      BY <2>1, <2>2, <2>3, Zenon
    <3> QED
      BY <3>1 DEF Make
  <2>5. m \in SchedType
    BY <1>3, <2>3, <2>4, SchedFields, MakeSched
  <2>6. /\ m.cur = c /\ m.state = s.state /\ m.que = g.que /\ m.bitmap = g.bitmap
        /\ m.active = s.active /\ m.fresh = s.fresh /\ m.wq = s.wq
        /\ m.panic = s.panic /\ m.reason = s.reason
    BY <1>3, <2>4 DEF Make
  <2>7. Ready(m) = Ready(s) \ {c} /\ Waiting(m) = Waiting(s)
    BY <1>4, <1>6, <2>6 DEF Ready, Waiting
  <2>8. BitmapExact(m) /\ QueuesOK(m)
    <3>1. BitmapExact(m)
      BY <1>3, <2>6 DEF BitmapExact
    <3>2. /\ m.wq = s.wq /\ m.state = s.state
          /\ \A p \in Prios : IsInjective(m.que[p]) /\ Range(m.que[p]) = Range(s.que[p]) \ {n}
      BY <1>3, <2>6
    <3> HIDE DEF c, n
    <3>3. QueuesOK(m)
      BY <3>2 DEF SchedOK, QueuesOK
    <3> QED
      BY <3>1, <3>3
  <2>9. OthersOK(m) /\ FlagsOK(m)
    BY <2>6, <2>7 DEF SchedOK, OthersOK, FlagsOK
  <2>10. OnCpu(m)
    BY <1>5, <1>6, <2>6, <2>7 DEF OnCpu, Off
  <2> QED
    BY <2>5, <2>6, <2>8, <2>9, <2>10 DEF SchedOK, m
<1>7. CASE n # c
  <2> DEFINE back == {t \in {c} : s.state[t] = "RUN"}
  <2>1. m = thr_thread_switch(h, n)
    BY <1>2, <1>7
  <2>2. Leaves(g, h)
    <3>1. g.state[g.cur] = "RUN" => g.cur \notin Ready(g)
      BY <1>3, <1>4, QueuedThreads
    <3>2. \A p \in Prios : IsInjective(g.que[p])
      BY <1>3
    <3> QED
      BY <1>3, <3>1, <3>2, LeaveCPU
  <2> HIDE DEF k1, h, m
  <2>3. /\ h \in SchedType /\ BitmapExact(h) /\ h.active = s.active \cup {c}
        /\ h.fresh = s.fresh /\ h.wq = s.wq /\ h.panic = s.panic /\ h.reason = s.reason
        /\ \A t \in Threads : h.state[t] = IF t \in back THEN "RUNABLE" ELSE s.state[t]
        /\ \A p \in Prios : IsInjective(h.que[p])
    BY <1>3, <2>2 DEF Leaves
  <2>4. \A p \in Prios : Range(h.que[p]) = (Range(s.que[p]) \ {n}) \cup {t \in back : Prio[t] = p}
    BY <1>3, <2>2 DEF Leaves
  <2> DEFINE fresh == n \in s.fresh
  <2>5. Switched(h, n, m)
    BY <1>5, <2>1, <2>3, Switch
  <2>6. /\ m \in SchedType /\ m.cur = n /\ m.que = h.que /\ m.bitmap = h.bitmap /\ m.wq = s.wq
        /\ \A t \in Threads : m.state[t] = IF t = n /\ ~ fresh THEN "RUN" ELSE h.state[t]
        /\ m.active = IF fresh THEN h.active ELSE h.active \ {n}
        /\ m.fresh = s.fresh \ {n} /\ m.panic = s.panic /\ m.reason = s.reason
    BY <2>3, <2>5 DEF Switched
  <2> HIDE DEF fresh, back
  <2>7. Ready(m) = (Ready(s) \ {n}) \cup back /\ Waiting(m) = Waiting(s)
    <3>1. \A t \in back : Prio[t] \in Prios
      BY <1>1, PrioIs DEF back
    <3> QED
      BY <2>4, <2>6, <3>1 DEF Ready, Waiting
  <2>8. BitmapExact(m)
    BY <2>3, <2>6 DEF BitmapExact
  <2>9. n \notin back /\ n \notin Ready(m)
    BY <1>7, <2>7 DEF back
  <2>10. \A t \in Threads : m.state[t] = IF t = n /\ ~ fresh THEN "RUN"
                                         ELSE IF t \in back THEN "RUNABLE" ELSE s.state[t]
    BY <2>3, <2>6
  <2>11. QueuesOK(m)
    <3>1. ASSUME NEW p \in Prios, NEW t \in Range(m.que[p])
          PROVE  Prio[t] = p /\ m.state[t] = "RUNABLE"
      <4>1. t \in Ready(m) /\ t \in (Range(s.que[p]) \ {n}) \cup {x \in back : Prio[x] = p}
        BY <2>4, <2>6 DEF Ready
      <4>2. t \in Threads /\ t # n
        BY <1>1, <2>7, <2>9, <4>1, QueuedThreads DEF back
      <4>3. CASE t \in back
        BY <2>10, <4>1, <4>2, <4>3 DEF SchedOK, QueuesOK
      <4>4. CASE t \notin back
        BY <2>10, <4>1, <4>2, <4>4 DEF SchedOK, QueuesOK
      <4> QED
        BY <4>3, <4>4
    <3>2. ASSUME NEW q \in WaitQueues, NEW t \in Range(m.wq[q])
          PROVE  m.state[t] = "WAIT"
      <4>1. t \in Waiting(s) /\ t \in Threads /\ s.state[t] = "WAIT"
        BY <2>6, QueuedThreads DEF Waiting
      <4>2. t # n /\ t \notin back
        BY <1>5, <4>1 DEF back
      <4> QED
        BY <2>10, <4>1, <4>2
    <3> QED
      BY <2>3, <2>6, <3>1, <3>2 DEF QueuesOK, SchedOK
  <2>12. OthersOK(m)
    <3> SUFFICES ASSUME NEW t \in Threads \ {n}
                 PROVE  /\ m.state[t] = "RUNABLE" /\ t # Idle => t \in Ready(m)
                        /\ m.state[t] = "WAIT" => t \in Waiting(m)
                        /\ m.state[t] # "RUN"
      BY <2>6 DEF OthersOK
    <3>1. CASE t = c
      BY <2>7, <2>10, <3>1 DEF MayLeave, back
    <3>2. CASE t # c
      <4>1. /\ s.state[t] = "RUNABLE" /\ t # Idle => t \in Ready(s)
            /\ s.state[t] = "WAIT" => t \in Waiting(s)
            /\ s.state[t] # "RUN"
        BY <3>2 DEF SchedOK, OthersOK
      <4>2. m.state[t] = s.state[t]
        BY <2>10, <3>2 DEF back
      <4> QED
        BY <2>7, <4>1, <4>2
    <3> QED
      BY <3>1, <3>2
  <2>13. FlagsOK(m)
    <3>1. m.state[Idle] \in {"RUN", "RUNABLE"}
      BY <1>5, <2>10
    <3>2. m.cur \notin m.active
      BY <1>1, <1>7, <2>3, <2>6 DEF fresh
    <3>3. m.cur \notin m.fresh /\ m.active \cap m.fresh = {}
      BY <1>1, <2>3, <2>6
    <3> QED
      BY <3>1, <3>2, <3>3 DEF FlagsOK
  <2>14. OnCpu(m)
    <3>1. n \notin Waiting(m)
      BY <1>5, <2>7
    <3>2. m.state[n] \in {"RUN", "RUNABLE"}
      BY <1>5, <2>10
    <3> QED
      BY <2>6, <2>9, <3>1, <3>2 DEF OnCpu, Off
  <2>15. ASSUME NEW t \in Threads
         PROVE  m.state[t] = s.state[t] \/ {m.state[t], s.state[t]} \subseteq {"RUN", "RUNABLE"}
    BY <1>5, <2>10 DEF back
  <2> QED
    BY <2>6, <2>8, <2>11, <2>12, <2>13, <2>14, <2>15 DEF SchedOK, m
<1> QED
  BY <1>6, <1>7

-----------------------------------------------------------------------------
(* What a thread does to itself while it is on the CPU.                    *)

\* m is s but for the state of the thread on the CPU and what no part of SchedOK reads.
OwnState(s, m, st) ==
    /\ m \in SchedType /\ m.cur = s.cur /\ m.que = s.que /\ m.bitmap = s.bitmap
    /\ m.active = s.active /\ m.fresh = s.fresh /\ m.wq = s.wq
    /\ m.state = [s.state EXCEPT ![s.cur] = st]

LEMMA OwnStateKeeps ==
    ASSUME NEW s, SchedOK(s), Off(s, s.cur), s.cur # Idle, NEW st \in States,
           NEW m, OwnState(s, m, st)
    PROVE  SchedOK(m) /\ Off(m, m.cur) /\ m.cur = s.cur /\ m.wq = s.wq /\ m.state[m.cur] = st
<1> DEFINE c == s.cur
<1>1. /\ c \in Threads /\ m.cur = c /\ m.state[c] = st
      /\ \A t \in Threads \ {c} : m.state[t] = s.state[t]
  BY SchedFields DEF SchedOK, OwnState
<1>2. Ready(m) = Ready(s) /\ Waiting(m) = Waiting(s) /\ BitmapExact(m)
  BY DEF OwnState, SchedOK, Ready, Waiting, BitmapExact
<1>3. QueuesOK(m)
  <2>1. ASSUME NEW p \in Prios, NEW t \in Range(m.que[p])
        PROVE  Prio[t] = p /\ m.state[t] = "RUNABLE"
    <3>1. t \in Range(s.que[p]) /\ t \in Ready(s)
      BY DEF OwnState, Ready
    <3>2. t \in Threads /\ t # c
      BY <3>1, QueuedThreads DEF Off
    <3> QED
      BY <1>1, <3>1, <3>2 DEF SchedOK, QueuesOK
  <2>2. ASSUME NEW q \in WaitQueues, NEW t \in Range(m.wq[q])
        PROVE  m.state[t] = "WAIT"
    <3>1. t \in Range(s.wq[q]) /\ t \in Waiting(s)
      BY DEF OwnState, Waiting
    <3>2. t \in Threads /\ t # c
      BY <3>1, QueuedThreads DEF Off
    <3> QED
      BY <1>1, <3>1, <3>2 DEF SchedOK, QueuesOK
  <2> QED
    BY <2>1, <2>2 DEF OwnState, SchedOK, QueuesOK
<1>4. OthersOK(m) /\ FlagsOK(m)
  BY <1>1, <1>2, SchedAssumption DEF OwnState, SchedOK, OthersOK, FlagsOK
<1>5. Off(m, m.cur)
  BY <1>1, <1>2 DEF Off
<1> QED
  BY <1>1, <1>2, <1>3, <1>4, <1>5 DEF OwnState, SchedOK

LEMMA AssertFields ==
    ASSUME NEW s \in SchedType, NEW b \in BOOLEAN
    PROVE  \E x \in BOOLEAN :
             kassert(s, b) = Make(s.cur, s.state, s.que, s.bitmap, s.delayed, s.active, s.fresh,
                                  s.wq, s.reason, x)
<1> DEFINE x == s.panic \/ ~ b
           f == Make(s.cur, s.state, s.que, s.bitmap, s.delayed, s.active, s.fresh, s.wq,
                     s.reason, s.panic)
<1>1. x \in BOOLEAN
  OBVIOUS
<1>2. kassert(s, b) = [s EXCEPT !.panic = x]
  BY DEF kassert
<1> HIDE DEF x
<1>3. s = f
  BY SchedFields
<1>4. kassert(s, b) = [f EXCEPT !.panic = x]
  BY <1>2, <1>3, Zenon
<1>5. [f EXCEPT !.panic = x] =
        Make(s.cur, s.state, s.que, s.bitmap, s.delayed, s.active, s.fresh, s.wq, s.reason, x)
  BY DEF Make
<1> QED
  BY <1>1, <1>4, <1>5, Zenon

LEMMA AssertKeeps ==
    ASSUME NEW s, SchedOK(s), NEW b \in BOOLEAN
    PROVE  LET m == kassert(s, b)
           IN  SchedOK(m) /\ m.cur = s.cur /\ m.wq = s.wq /\ (OnCpu(s) => OnCpu(m))
<1> DEFINE m == kassert(s, b)
<1>1. s \in SchedType
  BY DEF SchedOK
<1>2. PICK x \in BOOLEAN : m = Make(s.cur, s.state, s.que, s.bitmap, s.delayed, s.active, s.fresh,
                                    s.wq, s.reason, x)
  BY <1>1, AssertFields
<1> HIDE DEF m
<1>3. m \in SchedType
  BY <1>1, <1>2, SchedFields, MakeSched
<1>4. /\ m.cur = s.cur /\ m.state = s.state /\ m.que = s.que /\ m.bitmap = s.bitmap
      /\ m.active = s.active /\ m.fresh = s.fresh /\ m.wq = s.wq
  BY <1>2 DEF Make
<1>5. Ready(m) = Ready(s) /\ Waiting(m) = Waiting(s)
  BY <1>4 DEF Ready, Waiting
<1>6. BitmapExact(m) /\ QueuesOK(m)
  BY <1>4 DEF SchedOK, BitmapExact, QueuesOK
<1>7. OthersOK(m) /\ FlagsOK(m)
  BY <1>4, <1>5 DEF SchedOK, OthersOK, FlagsOK
<1>8. OnCpu(s) => OnCpu(m)
  BY <1>4, <1>5 DEF OnCpu, Off
<1> QED
  BY <1>3, <1>4, <1>6, <1>7, <1>8 DEF SchedOK, m

LEMMA InitWait ==
    ASSUME NEW s, SchedOK(s), Off(s, s.cur), s.cur # Idle
    PROVE  LET m == init_wque_entry(s)
           IN  /\ SchedOK(m) /\ Off(m, m.cur) /\ m.cur = s.cur /\ m.wq = s.wq
               /\ m.state[m.cur] = "WAIT" /\ m.panic = s.panic
               /\ m.state = [s.state EXCEPT ![s.cur] = "WAIT"]
               /\ m.reason = [s.reason EXCEPT ![s.cur] = "WAIT"]
<1> DEFINE c == s.cur
           f == Make(c, s.state, s.que, s.bitmap, s.delayed, s.active, s.fresh, s.wq,
                     s.reason, s.panic)
           state == [s.state EXCEPT ![c] = "WAIT"]
           reason == [s.reason EXCEPT ![c] = "WAIT"]
           i == init_wque_entry(s)
<1>1. s \in SchedType /\ s = f
  BY SchedFields DEF SchedOK
<1>2. /\ state \in [Threads -> States] /\ reason \in [Threads -> Reasons]
  BY <1>1, SchedFields DEF States, Reasons
<1>3. i = [s EXCEPT !.state = state, !.reason = reason]
  BY DEF init_wque_entry
<1>4. i = [f EXCEPT !.state = state, !.reason = reason]
  BY <1>1, <1>3, Zenon
<1> HIDE DEF i, state, reason
<1>5. i = Make(c, state, s.que, s.bitmap, s.delayed, s.active, s.fresh, s.wq, reason, s.panic)
  BY <1>4 DEF Make
<1>6. i \in SchedType
  BY <1>1, <1>2, <1>5, SchedFields, MakeSched
<1>7. OwnState(s, i, "WAIT")
  BY <1>5, <1>6 DEF OwnState, Make, state
<1>8. SchedOK(i) /\ Off(i, i.cur) /\ i.cur = s.cur /\ i.wq = s.wq /\ i.state[i.cur] = "WAIT"
  BY <1>7, OwnStateKeeps DEF States
<1>9. i.panic = s.panic /\ i.state = state /\ i.reason = reason
  BY <1>5 DEF Make
<1> QED
  BY <1>8, <1>9 DEF i, state, reason

LEMMA InitEntry ==
    ASSUME NEW s, SchedOK(s), Off(s, s.cur), s.cur # Idle, NEW stale
    PROVE  LET m == wque_init_wque_entry(s, stale)
           IN  /\ SchedOK(m) /\ Off(m, m.cur) /\ m.cur = s.cur /\ m.wq = s.wq
               /\ m.state[m.cur] = "WAIT"
<1> DEFINE i == init_wque_entry(s)
           b == (stale = s.cur)
           m == wque_init_wque_entry(s, stale)
<1>1. m = kassert(i, b) /\ b \in BOOLEAN
  BY DEF wque_init_wque_entry
<1>2. SchedOK(i) /\ Off(i, i.cur) /\ i.cur = s.cur /\ i.wq = s.wq /\ i.state[i.cur] = "WAIT"
  BY InitWait
<1> HIDE DEF i, b, m
<1>3. i \in SchedType
  BY <1>2 DEF SchedOK
<1>4. PICK x \in BOOLEAN : m = Make(i.cur, i.state, i.que, i.bitmap, i.delayed, i.active, i.fresh,
                                     i.wq, i.reason, x)
  BY <1>1, <1>3, AssertFields
<1>5. m.state = i.state /\ m.que = i.que /\ m.cur = i.cur /\ m.wq = i.wq
  BY <1>4 DEF Make
<1>6. SchedOK(m)
  BY <1>1, <1>2, AssertKeeps
<1>7. Off(m, m.cur)
  BY <1>2, <1>5 DEF Off, Ready, Waiting
<1> QED
  BY <1>2, <1>5, <1>6, <1>7 DEF m

LEMMA Enqueue ==
    ASSUME NEW s, SchedOK(s), Off(s, s.cur), s.state[s.cur] = "WAIT", NEW q \in WaitQueues
    PROVE  LET m == enque_wque_entry(s, q)
           IN  /\ SchedOK(m) /\ MayLeave(m) /\ ~ Off(m, m.cur) /\ m.cur = s.cur
               /\ m.wq = [s.wq EXCEPT ![q] = Append(@, s.cur)]
               /\ m.state = s.state /\ m.panic = s.panic
               /\ m.reason = [s.reason EXCEPT ![s.cur] = "WAIT"]
<1> DEFINE c == s.cur
           f == Make(c, s.state, s.que, s.bitmap, s.delayed, s.active, s.fresh, s.wq,
                     s.reason, s.panic)
           reason == [s.reason EXCEPT ![c] = "WAIT"]
           wq == [s.wq EXCEPT ![q] = Append(@, c)]
           m == enque_wque_entry(s, q)
<1>1. /\ s \in SchedType /\ s = f /\ c \in Threads
      /\ s.wq \in [WaitQueues -> Seq(Threads)] /\ s.wq[q] \in Seq(Threads)
  BY SchedFields DEF SchedOK
<1>2. c \notin Range(s.wq[q]) /\ c \notin Waiting(s) /\ c \notin Ready(s)
  BY DEF Off, Waiting
<1>3. /\ Append(s.wq[q], c) \in Seq(Threads) /\ IsInjective(Append(s.wq[q], c))
      /\ Range(Append(s.wq[q], c)) = Range(s.wq[q]) \cup {c}
  <2>1. IsInjective(s.wq[q])
    BY DEF SchedOK, QueuesOK
  <2> HIDE DEF c
  <2> QED
    BY <1>1, <1>2, <2>1, AppendFacts
<1>4. /\ wq \in [WaitQueues -> Seq(Threads)] /\ wq[q] = Append(s.wq[q], c)
      /\ \A x \in WaitQueues \ {q} : wq[x] = s.wq[x]
  BY <1>1, <1>3
<1>5. reason \in [Threads -> Reasons]
  BY <1>1, SchedFields DEF Reasons
<1>6. m = [s EXCEPT !.reason = reason, !.wq = wq]
  BY DEF enque_wque_entry
<1> HIDE DEF m, reason, wq
<1>7. m = Make(c, s.state, s.que, s.bitmap, s.delayed, s.active, s.fresh, wq, reason, s.panic)
  <2>1. m = [f EXCEPT !.reason = reason, !.wq = wq]
    BY <1>1, <1>6, Zenon
  <2> QED
    BY <2>1 DEF Make
<1>8. m \in SchedType
  BY <1>1, <1>4, <1>5, <1>7, SchedFields, MakeSched
<1>9. /\ m.cur = c /\ m.state = s.state /\ m.que = s.que /\ m.bitmap = s.bitmap
      /\ m.active = s.active /\ m.fresh = s.fresh /\ m.wq = wq
      /\ m.panic = s.panic /\ m.reason = reason
  BY <1>7 DEF Make
<1>10. \A x \in WaitQueues : Range(wq[x]) = IF x = q THEN Range(s.wq[x]) \cup {c} ELSE Range(s.wq[x])
  BY <1>3, <1>4
<1> HIDE DEF c
<1>11. Ready(m) = Ready(s) /\ Waiting(m) = Waiting(s) \cup {c}
  <2>1. Ready(m) = Ready(s)
    BY <1>9 DEF Ready
  <2>2. \A x \in WaitQueues : Range(m.wq[x]) = IF x = q THEN Range(s.wq[x]) \cup {c} ELSE Range(s.wq[x])
    BY <1>9, <1>10
  <2> QED
    BY <2>1, <2>2 DEF Waiting
<1>12. BitmapExact(m)
  BY <1>9 DEF SchedOK, BitmapExact
<1>13. QueuesOK(m)
  <2>1. ASSUME NEW x \in WaitQueues PROVE IsInjective(wq[x])
    <3>1. IsInjective(s.wq[x])
      BY DEF SchedOK, QueuesOK
    <3> QED
      BY <1>3, <1>4, <3>1
  <2>2. ASSUME NEW x \in WaitQueues, NEW t \in Range(wq[x]) PROVE s.state[t] = "WAIT"
    <3>1. t \in Range(s.wq[x]) \/ t = c
      BY <1>10
    <3>2. t \in Range(s.wq[x]) => s.state[t] = "WAIT"
      BY DEF SchedOK, QueuesOK
    <3> QED
      BY <3>1, <3>2 DEF c
  <2>3. ASSUME NEW x \in WaitQueues, NEW y \in WaitQueues, x # y
        PROVE  Range(wq[x]) \cap Range(wq[y]) = {}
    <3>1. Range(s.wq[x]) \cap Range(s.wq[y]) = {}
      BY <2>3 DEF SchedOK, QueuesOK
    <3>2. c \notin Range(s.wq[x]) /\ c \notin Range(s.wq[y])
      BY <1>2 DEF Waiting
    <3> QED
      BY <1>10, <2>3, <3>1, <3>2
  <2> QED
    BY <1>9, <2>1, <2>2, <2>3 DEF SchedOK, QueuesOK
<1>14. OthersOK(m) /\ FlagsOK(m)
  BY <1>9, <1>11 DEF SchedOK, OthersOK, FlagsOK, c
<1>15. MayLeave(m) /\ ~ Off(m, m.cur)
  BY <1>9, <1>11 DEF MayLeave, Off, c
<1> QED
  BY <1>8, <1>9, <1>12, <1>13, <1>14, <1>15 DEF SchedOK, m, wq, c, reason

-----------------------------------------------------------------------------
(* Threads that end and threads that begin.                                *)

(* A thread in no queue leaves the scheduler.                              *)
LEMMA Ends ==
    ASSUME NEW s, SchedOK(s), NEW t \in Threads \ {Idle}, Off(s, t),
           NEW st \in {"EXIT", "DEAD", "FREE"}
    PROVE  LET m == [s EXCEPT !.state[t] = st]
           IN  /\ SchedOK(m) /\ m.cur = s.cur /\ m.wq = s.wq /\ m.reason = s.reason
               /\ m.panic = s.panic /\ m.state = [s.state EXCEPT ![t] = st]
               /\ Ready(m) = Ready(s) /\ Waiting(m) = Waiting(s)
<1> DEFINE f == Make(s.cur, s.state, s.que, s.bitmap, s.delayed, s.active, s.fresh, s.wq,
                     s.reason, s.panic)
           state == [s.state EXCEPT ![t] = st]
           m == [s EXCEPT !.state[t] = st]
<1>1. s \in SchedType /\ s = f /\ s.state \in [Threads -> States]
  BY SchedFields DEF SchedOK
<1>2. /\ state \in [Threads -> States] /\ state[t] = st
      /\ \A x \in Threads \ {t} : state[x] = s.state[x]
  BY <1>1 DEF States
<1>3. m = [s EXCEPT !.state = state]
  OBVIOUS
<1>4. m = [f EXCEPT !.state = state]
  BY <1>1, <1>3, Zenon
<1> HIDE DEF m, state
<1>5. m = Make(s.cur, state, s.que, s.bitmap, s.delayed, s.active, s.fresh, s.wq, s.reason, s.panic)
  BY <1>4 DEF Make
<1>6. m \in SchedType
  BY <1>1, <1>2, <1>5, SchedFields, MakeSched
<1>7. /\ m.cur = s.cur /\ m.state = state /\ m.que = s.que /\ m.bitmap = s.bitmap
      /\ m.active = s.active /\ m.fresh = s.fresh /\ m.wq = s.wq /\ m.reason = s.reason
      /\ m.panic = s.panic
  BY <1>5 DEF Make
<1>8. Ready(m) = Ready(s) /\ Waiting(m) = Waiting(s)
  BY <1>7 DEF Ready, Waiting
<1>9. BitmapExact(m)
  BY <1>7 DEF SchedOK, BitmapExact
<1>10. QueuesOK(m)
  <2>1. ASSUME NEW p \in Prios, NEW x \in Range(m.que[p])
        PROVE  Prio[x] = p /\ m.state[x] = "RUNABLE"
    <3>1. x \in Range(s.que[p]) /\ x \in Ready(s)
      BY <1>7 DEF Ready
    <3>2. x \in Threads /\ x # t
      BY <3>1, QueuedThreads DEF Off
    <3> QED
      BY <1>2, <1>7, <3>1, <3>2 DEF SchedOK, QueuesOK
  <2>2. ASSUME NEW q \in WaitQueues, NEW x \in Range(m.wq[q])
        PROVE  m.state[x] = "WAIT"
    <3>1. x \in Range(s.wq[q]) /\ x \in Waiting(s)
      BY <1>7 DEF Waiting
    <3>2. x \in Threads /\ x # t
      BY <3>1, QueuedThreads DEF Off
    <3> QED
      BY <1>2, <1>7, <3>1, <3>2 DEF SchedOK, QueuesOK
  <2> QED
    BY <1>7, <2>1, <2>2 DEF SchedOK, QueuesOK
<1>11. OthersOK(m) /\ FlagsOK(m)
  BY <1>2, <1>7, <1>8, SchedAssumption DEF SchedOK, OthersOK, FlagsOK
<1> QED
  BY <1>6, <1>7, <1>8, <1>9, <1>10, <1>11 DEF SchedOK, m, state

(* A structure that is free becomes a runnable thread.                     *)
LEMMA Begins ==
    ASSUME NEW s, SchedOK(s), NEW t \in Threads \ {Idle, s.cur}, s.state[t] = "FREE"
    PROVE  LET g == [s EXCEPT !.state[t] = "RUNABLE", !.fresh = @ \cup {t},
                              !.delayed = @ \ {t}, !.active = @ \ {t}]
               m == sched_thread_add(g, t)
           IN  /\ g \in SchedType
               /\ SchedOK(m) /\ m.cur = s.cur /\ m.wq = s.wq /\ m.reason = s.reason
               /\ m.panic = s.panic /\ m.state = [s.state EXCEPT ![t] = "RUNABLE"]
               /\ Ready(m) = Ready(s) \cup {t} /\ Waiting(m) = Waiting(s)
<1> DEFINE f == Make(s.cur, s.state, s.que, s.bitmap, s.delayed, s.active, s.fresh, s.wq,
                     s.reason, s.panic)
           state == [s.state EXCEPT ![t] = "RUNABLE"]
           fresh == s.fresh \cup {t}
           delayed == s.delayed \ {t}
           active == s.active \ {t}
           g == [s EXCEPT !.state[t] = "RUNABLE", !.fresh = @ \cup {t},
                          !.delayed = @ \ {t}, !.active = @ \ {t}]
           m == sched_thread_add(g, t)
<1>1. s \in SchedType /\ s = f /\ s.state \in [Threads -> States]
  BY SchedFields DEF SchedOK
<1>2. /\ state \in [Threads -> States] /\ state[t] = "RUNABLE"
      /\ \A x \in Threads \ {t} : state[x] = s.state[x]
  BY <1>1 DEF States
<1>3. /\ fresh \in SUBSET Threads /\ delayed \in SUBSET Threads /\ active \in SUBSET Threads
  BY <1>1, SchedFields
<1>4. g = [s EXCEPT !.state = state, !.fresh = fresh, !.delayed = delayed, !.active = active]
  OBVIOUS
<1>5. g = [f EXCEPT !.state = state, !.fresh = fresh, !.delayed = delayed, !.active = active]
  BY <1>1, <1>4, Zenon
<1> HIDE DEF g, m, state, fresh, delayed, active
<1>6. g = Make(s.cur, state, s.que, s.bitmap, delayed, active, fresh, s.wq, s.reason, s.panic)
  BY <1>5 DEF Make
<1>7. g \in SchedType
  BY <1>1, <1>2, <1>3, <1>6, SchedFields, MakeSched
<1>8. /\ g.cur = s.cur /\ g.state = state /\ g.que = s.que /\ g.bitmap = s.bitmap
      /\ g.active = active /\ g.fresh = fresh /\ g.wq = s.wq /\ g.reason = s.reason
      /\ g.panic = s.panic
  BY <1>6 DEF Make
<1>9. t \notin Ready(s) /\ t \notin Waiting(s)
  BY QueuedThreads
<1>10. t \in Threads \ Ready(g) /\ g.state[t] = "RUNABLE" /\ BitmapExact(g)
       /\ \A p \in Prios : IsInjective(g.que[p])
  BY <1>2, <1>8, <1>9 DEF SchedOK, QueuesOK, BitmapExact, Ready
<1>11. /\ m \in SchedType /\ SameThreads(g, m) /\ BitmapExact(m)
       /\ \A p \in Prios :
            /\ IsInjective(m.que[p])
            /\ Range(m.que[p]) = Range(g.que[p]) \cup {x \in {t} : Prio[x] = p}
  BY <1>7, <1>10, AddOne DEF m
<1>12. /\ m.cur = s.cur /\ m.state = state /\ m.active = active /\ m.fresh = fresh
       /\ m.wq = s.wq /\ m.reason = s.reason /\ m.panic = s.panic
  BY <1>8, <1>11 DEF SameThreads
<1>13. \A p \in Prios : Range(m.que[p]) = Range(s.que[p]) \cup {x \in {t} : Prio[x] = p}
  BY <1>8, <1>11
<1>14. Ready(m) = Ready(s) \cup {t} /\ Waiting(m) = Waiting(s)
  <2>1. Prio[t] \in Prios
    BY PrioIs
  <2>2. Ready(m) = Ready(s) \cup {t}
    BY <1>13, <2>1 DEF Ready
  <2> QED
    BY <1>12, <2>2 DEF Waiting
<1>15. QueuesOK(m)
  <2>1. ASSUME NEW p \in Prios, NEW x \in Range(m.que[p])
        PROVE  Prio[x] = p /\ m.state[x] = "RUNABLE"
    <3>1. CASE x = t
      <4>1. t \notin Range(s.que[p])
        BY <1>9 DEF Ready
      <4> QED
        BY <1>2, <1>12, <1>13, <3>1, <4>1
    <3>2. CASE x # t
      <4>1. x \in Range(s.que[p]) /\ x \in Ready(s)
        BY <1>13, <3>2 DEF Ready
      <4>2. x \in Threads
        BY <4>1, QueuedThreads
      <4> QED
        BY <1>2, <1>12, <3>2, <4>1, <4>2 DEF SchedOK, QueuesOK
    <3> QED
      BY <3>1, <3>2
  <2>2. ASSUME NEW q \in WaitQueues, NEW x \in Range(m.wq[q])
        PROVE  m.state[x] = "WAIT"
    <3>1. x \in Range(s.wq[q]) /\ x \in Waiting(s)
      BY <1>12 DEF Waiting
    <3>2. x \in Threads /\ x # t
      BY <1>9, <3>1, QueuedThreads
    <3> QED
      BY <1>2, <1>12, <3>1, <3>2 DEF SchedOK, QueuesOK
  <2> QED
    BY <1>11, <1>12, <2>1, <2>2 DEF SchedOK, QueuesOK
<1>16. OthersOK(m)
  <2> SUFFICES ASSUME NEW x \in Threads \ {s.cur}
               PROVE  /\ m.state[x] = "RUNABLE" /\ x # Idle => x \in Ready(m)
                      /\ m.state[x] = "WAIT" => x \in Waiting(m)
                      /\ m.state[x] # "RUN"
    BY <1>12 DEF OthersOK
  <2>1. CASE x = t
    BY <1>2, <1>12, <1>14, <2>1
  <2>2. CASE x # t
    BY <1>2, <1>12, <1>14, <2>2 DEF SchedOK, OthersOK
  <2> QED
    BY <2>1, <2>2
<1>17. FlagsOK(m)
  BY <1>2, <1>12, SchedAssumption DEF SchedOK, FlagsOK, active, fresh
<1> QED
  BY <1>7, <1>11, <1>12, <1>14, <1>15, <1>16, <1>17 DEF SchedOK, g, m, state

LEMMA QueuedOnce ==
    ASSUME NEW s, SchedOK(s), NEW t \in Ready(s)
    PROVE  Cardinality(Places(s, t)) = 1 /\ t \in Range(s.que[Prio[t]])
<1>1. PICK p \in Prios : t \in Range(s.que[p])
  BY DEF Ready
<1>2. Prio[t] = p /\ \A q \in Prios : t \in Range(s.que[q]) => q = p
  BY <1>1 DEF SchedOK, QueuesOK
<1>3. PICK i \in DOMAIN s.que[p] : s.que[p][i] = t
  BY <1>1 DEF Range
<1>4. \A j \in DOMAIN s.que[p] : s.que[p][j] = t => j = i
  BY <1>1, <1>3 DEF SchedOK, QueuesOK, IsInjective
<1>5. Places(s, t) = {<<p, i>>}
  <2>1. <<p, i>> \in Places(s, t)
    BY <1>3 DEF Places
  <2>2. ASSUME NEW x \in Places(s, t) PROVE x = <<p, i>>
    <3>1. PICK q \in Prios : x \in {q} \X {j \in DOMAIN s.que[q] : s.que[q][j] = t}
      BY DEF Places
    <3>2. PICK j \in DOMAIN s.que[q] : s.que[q][j] = t /\ x = <<q, j>>
      BY <3>1
    <3>3. q = p
      BY <1>2, <3>2 DEF Range
    <3> QED
      BY <1>4, <3>2, <3>3
  <2> QED
    BY <2>1, <2>2
<1>6. Cardinality({<<p, i>>}) = 1
  BY FS_Singleton
<1> QED
  BY <1>1, <1>2, <1>5, <1>6
=============================================================================
