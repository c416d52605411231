----------------------------- MODULE BaseProofs -----------------------------
(***************************************************************************)
(* What the rest of the kernel stands on.  The two locks exclude: first    *)
(* the spinlock, with the interrupt flag and the reference counter that it *)
(* guards (Sync), for any finite set of CPUs; then the mutex, whose        *)
(* waiters the scheduler queues (Mutex), for every number of threads and   *)
(* every priority.  Then the linked queues and lists (Links) are the       *)
(* sequences their users take them for, for every number of queues and     *)
(* elements.                                                               *)
(***************************************************************************)
EXTENDS Sync, Mutex, Links, SchedLemmas

-----------------------------------------------------------------------------
(* The inductive invariant of Sync.                                        *)

\* Where a thread is outside the section that it runs with interrupts off,
\* and the places of that section.
Outside == {"idle", "unless", "lr", "sc", "save"}
Masked  == {"spin", "locked", "section", "unlock", "release", "restore"}

Frames ==
    [op : {"thread", "handler"}, pc : Outside \cup Masked \cup {"return"},
     cur : Nat, flags : BOOLEAN]

SyncTypeOK ==
    /\ ie \in [CPUs -> BOOLEAN] /\ ie0 \in [CPUs -> BOOLEAN]
    /\ locked \in {0, 1} /\ depth \in {0, 1}
    /\ count \in Nat /\ live \in BOOLEAN
    /\ refs \in [CPUs -> 0 .. MaxHeld]
    /\ resv \subseteq CPUs /\ seen \in Int
    /\ stk \in [CPUs -> Seq(Frames)]
    /\ \A c \in CPUs : Len(stk[c]) \in {1, 2}

Thr(c) == stk[c][1]
Hdl(c) == stk[c][2]

\* The thread of a CPU: what it holds, and what its interrupt flag is.
ThreadOK(c) ==
    /\ Thr(c).op = "thread" /\ Thr(c).pc # "return"
    /\ Thr(c).pc \in {"unless", "lr", "sc"} => refs[c] < MaxHeld
    /\ Thr(c).pc \in {"save", "spin", "locked", "section"} => refs[c] > 0
    /\ Thr(c).pc \in {"lr", "sc"} => Thr(c).cur # 0
    /\ Thr(c).pc = "sc" /\ c \in resv => count = Thr(c).cur
    /\ Thr(c).pc \in Masked => Len(stk[c]) = 1 /\ ~ ie[c] /\ Thr(c).flags = ie0[c]
    /\ Thr(c).pc \notin Masked /\ Len(stk[c]) = 1 => ie[c] = ie0[c]

\* The handler of a CPU: it interrupts a thread with interrupts enabled only.
HandlerOK(c) ==
    Len(stk[c]) = 2 =>
      /\ Hdl(c).op = "handler" /\ Hdl(c).pc \in Masked \cup {"save", "return"}
      /\ ~ ie[c] /\ ie0[c]
      /\ Hdl(c).pc \in Masked => Hdl(c).flags = FALSE

\* The running frame of the CPU is between lock and unlock.
Owner(c) == Top(c).pc \in Owning

LockOK ==
    /\ \A c, d \in CPUs : Owner(c) /\ Owner(d) => c = d
    /\ (locked = 1) <=> \E c \in CPUs : Owner(c)
    /\ locked = 0 => depth = 0
    /\ \A c \in CPUs : /\ Top(c).pc \in {"locked", "release"} => depth = 0
                       /\ Top(c).pc \in {"section", "unlock"} => depth = 1

RefsOK == count = Cardinality(HeldRefs) /\ (live <=> count > 0)

CpusOK == \A c \in CPUs : ThreadOK(c) /\ HandlerOK(c)
SyncIInv == SyncTypeOK /\ CpusOK /\ LockOK /\ RefsOK

-----------------------------------------------------------------------------
(* The stacks of frames.                                                   *)

(* The running frame is the handler's, if there is one.                    *)
LEMMA TopIs ==
  ASSUME SyncTypeOK, CpusOK, NEW c \in CPUs
  PROVE  /\ stk[c] \in Seq(Frames) /\ Top(c) \in Frames /\ Thr(c) \in Frames
         /\ Len(stk[c]) = 1 => Top(c) = Thr(c)
         /\ Len(stk[c]) = 2 => Top(c) = Hdl(c) /\ Hdl(c) \in Frames
         /\ Top(c).op = "thread" <=> Len(stk[c]) = 1
         /\ Top(c).op = "handler" <=> Len(stk[c]) = 2
         /\ Top(c).pc \in Outside \ {"save"} => Len(stk[c]) = 1
         /\ Top(c).pc = "return" => Len(stk[c]) = 2
         /\ Len(stk[c]) = 2 => Thr(c).pc \notin Masked
<1>1. stk[c] \in Seq(Frames) /\ Len(stk[c]) \in {1, 2}
  BY DEF SyncTypeOK
<1>2. Len(stk[c]) = 1 => Top(c) = Thr(c)
  BY <1>1 DEF Top, Last, Thr
<1>3. Len(stk[c]) = 2 => Top(c) = Hdl(c)
  BY <1>1 DEF Top, Last, Hdl
<1>4. Thr(c) \in Frames /\ (Len(stk[c]) = 2 => Hdl(c) \in Frames)
  BY <1>1 DEF Thr, Hdl
<1>5. ThreadOK(c) /\ HandlerOK(c)
  BY DEF CpusOK
<1> QED
  BY <1>1, <1>2, <1>3, <1>4, <1>5 DEF ThreadOK, HandlerOK, Outside, Masked

(* Replacing the running frame keeps the rest of the stack.                *)
LEMMA SetTop ==
  ASSUME SyncTypeOK, NEW c \in CPUs, NEW f \in Frames, Set(c, f)
  PROVE  /\ stk' \in [CPUs -> Seq(Frames)]
         /\ \A d \in CPUs : Len(stk'[d]) = Len(stk[d])
         /\ \A d \in CPUs \ {c} : stk'[d] = stk[d]
         /\ Len(stk[c]) = 1 => Thr(c)' = f
         /\ Len(stk[c]) = 2 => Thr(c)' = Thr(c) /\ Hdl(c)' = f
         /\ Top(c)' = f
<1> DEFINE s == stk[c]
           t == Append(Front(s), f)
<1>1. s \in Seq(Frames) /\ Len(s) \in {1, 2} /\ stk \in [CPUs -> Seq(Frames)]
  BY DEF SyncTypeOK
<1> HIDE DEF s
<1>2. Front(s) \in Seq(Frames) /\ Len(Front(s)) = Len(s) - 1 /\ (Len(s) = 2 => Front(s)[1] = s[1])
  <2>1. 1 \in Int /\ Len(s) - 1 \in Int /\ \A i \in 1 .. Len(s) - 1 : s[i] \in Frames
    BY <1>1
  <2>2. /\ Front(s) \in Seq(Frames)
        /\ Len(Front(s)) = IF 1 <= Len(s) - 1 THEN (Len(s) - 1) - 1 + 1 ELSE 0
        /\ \A i \in 1 .. (Len(s) - 1) - 1 + 1 : Front(s)[i] = s[1 + i - 1]
    BY <2>1, SubSeqProperties DEF Front
  <2>3. Len(s) = 2 => Front(s)[1] = s[1]
    <3> SUFFICES ASSUME Len(s) = 2 PROVE Front(s)[1] = s[1]
      OBVIOUS
    <3>1. 1 \in 1 .. (Len(s) - 1) - 1 + 1 /\ 1 + 1 - 1 = 1
      BY <1>1
    <3>2. Front(s)[1] = s[1 + 1 - 1]
      BY <2>2, <3>1
    <3> QED
      BY <3>1, <3>2
  <2>4. Len(Front(s)) = Len(s) - 1
    <3>1. CASE Len(s) = 1
      BY <2>2, <3>1
    <3>2. CASE Len(s) = 2
      BY <2>2, <3>2
    <3> QED
      BY <1>1, <3>1, <3>2
  <2> QED
    BY <2>2, <2>3, <2>4
<1>3. /\ t \in Seq(Frames) /\ Len(t) = Len(Front(s)) + 1
      /\ \A i \in 1 .. Len(Front(s)) : t[i] = Front(s)[i]
      /\ t[Len(Front(s)) + 1] = f
  BY <1>2, AppendProperties
<1>4. t \in Seq(Frames) /\ Len(t) = Len(s) /\ t[Len(s)] = f
  BY <1>1, <1>2, <1>3
<1>5. Len(s) = 1 => t[1] = f
  BY <1>4
<1>6. Len(s) = 2 => t[1] = s[1] /\ t[2] = f
  BY <1>2, <1>3, <1>4
<1>7. stk' = [stk EXCEPT ![c] = t]
  BY DEF Set, s
<1> HIDE DEF t
<1>8. stk'[c] = t /\ stk' \in [CPUs -> Seq(Frames)] /\ \A d \in CPUs \ {c} : stk'[d] = stk[d]
  BY <1>1, <1>4, <1>7
<1>9. \A d \in CPUs : Len(stk'[d]) = Len(stk[d])
  BY <1>4, <1>8 DEF s
<1>10. Top(c)' = f
  BY <1>1, <1>4, <1>5, <1>6, <1>8 DEF Top, Last
<1> QED
  BY <1>5, <1>6, <1>8, <1>9, <1>10 DEF Thr, Hdl, s

(* A CPU is as before when a step changes nothing that concerns it: a      *)
(* store to the counter at most takes its reservation.                     *)
LEMMA OtherCpu ==
  ASSUME CpusOK, NEW d \in CPUs, stk'[d] = stk[d], ie'[d] = ie[d], ie0' = ie0, refs'[d] = refs[d],
         d \in resv' => d \in resv /\ count' = count
  PROVE  ThreadOK(d)' /\ HandlerOK(d)' /\ Top(d)' = Top(d)
<1>1. ThreadOK(d) /\ HandlerOK(d)
  BY DEF CpusOK
<1>2. Thr(d)' = Thr(d) /\ Hdl(d)' = Hdl(d) /\ Top(d)' = Top(d)
  BY DEF Thr, Hdl, Top
<1> QED
  BY <1>1, <1>2 DEF ThreadOK, HandlerOK

(* The lock, after a step of CPU c that leaves it alone.                   *)
LEMMA LockKept ==
  ASSUME LockOK, NEW c \in CPUs, UNCHANGED lockVars,
         \A d \in CPUs \ {c} : Top(d)' = Top(d),
         Owner(c)' <=> Owner(c),
         Top(c)'.pc \in {"locked", "release"} => Top(c).pc \in {"locked", "release"},
         Top(c)'.pc \in {"section", "unlock"} => Top(c).pc \in {"section", "unlock"}
  PROVE  LockOK'
<1>1. \A d \in CPUs : Owner(d)' <=> Owner(d)
  BY DEF Owner
<1>2. \A d \in CPUs : /\ Top(d)'.pc \in {"locked", "release"} => Top(d).pc \in {"locked", "release"}
                      /\ Top(d)'.pc \in {"section", "unlock"} => Top(d).pc \in {"section", "unlock"}
  OBVIOUS
<1>3. locked' = locked /\ depth' = depth
  BY DEF lockVars
<1> QED
  BY <1>1, <1>2, <1>3 DEF LockOK

-----------------------------------------------------------------------------
(* The references.                                                         *)

LEMMA HeldFinite ==
  ASSUME NEW r \in [CPUs -> 0 .. MaxHeld]
  PROVE  IsFiniteSet({h \in CPUs \X (1 .. MaxHeld) : h[2] <= r[h[1]]})
<1>0. 1 \in Int /\ MaxHeld \in Int
  BY DEF MaxHeld
<1>1. IsFiniteSet(1 .. MaxHeld)
  BY <1>0, FS_Interval
<1>2. IsFiniteSet(CPUs \X (1 .. MaxHeld))
  BY <1>1, CPUsAssumption, FS_Product
<1> QED
  BY <1>2, FS_Subset

(* One reference more, and one less.                                       *)
LEMMA HoldOne ==
  ASSUME SyncTypeOK, NEW c \in CPUs, refs[c] < MaxHeld, refs' = [refs EXCEPT ![c] = @ + 1]
  PROVE  refs' \in [CPUs -> 0 .. MaxHeld] /\ Cardinality(HeldRefs)' = Cardinality(HeldRefs) + 1
<1>1. refs \in [CPUs -> 0 .. MaxHeld] /\ refs' \in [CPUs -> 0 .. MaxHeld] /\ refs'[c] = refs[c] + 1
  BY SMTT(30) DEF SyncTypeOK, MaxHeld
<1>2. <<c, refs[c] + 1>> \notin HeldRefs
  BY <1>1 DEF HeldRefs, MaxHeld
<1>3. HeldRefs' = HeldRefs \cup {<<c, refs[c] + 1>>}
  <2>1. ASSUME NEW d \in CPUs, NEW i \in 1 .. MaxHeld
        PROVE  i <= refs'[d] <=> (i <= refs[d] \/ (d = c /\ i = refs[c] + 1))
    BY <1>1, <2>1 DEF MaxHeld
  <2>2. <<c, refs[c] + 1>> \in CPUs \X (1 .. MaxHeld)
    BY <1>1 DEF MaxHeld
  <2> QED
    BY <2>1, <2>2 DEF HeldRefs
<1>4. IsFiniteSet(HeldRefs)
  BY <1>1, HeldFinite DEF HeldRefs
<1> QED
  BY <1>1, <1>2, <1>3, <1>4, FS_AddElement

LEMMA DropOne ==
  ASSUME SyncTypeOK, NEW c \in CPUs, refs[c] > 0, refs' = [refs EXCEPT ![c] = @ - 1]
  PROVE  /\ refs' \in [CPUs -> 0 .. MaxHeld]
         /\ Cardinality(HeldRefs)' = Cardinality(HeldRefs) - 1
         /\ Cardinality(HeldRefs) > 0
<1>1. refs \in [CPUs -> 0 .. MaxHeld] /\ refs' \in [CPUs -> 0 .. MaxHeld] /\ refs'[c] = refs[c] - 1
  BY DEF SyncTypeOK, MaxHeld
<1>2. <<c, refs[c]>> \in HeldRefs
  BY <1>1 DEF HeldRefs, MaxHeld
<1>3. HeldRefs' = HeldRefs \ {<<c, refs[c]>>}
  <2>1. ASSUME NEW d \in CPUs, NEW i \in 1 .. MaxHeld
        PROVE  i <= refs'[d] <=> (i <= refs[d] /\ ~ (d = c /\ i = refs[c]))
    BY <1>1, <2>1 DEF MaxHeld
  <2> QED
    BY <2>1 DEF HeldRefs
<1>4. IsFiniteSet(HeldRefs)
  BY <1>1, HeldFinite DEF HeldRefs
<1>5. Cardinality(HeldRefs) \in Nat /\ Cardinality(HeldRefs) # 0
  BY <1>2, <1>4, FS_CardinalityType, FS_EmptySet
<1>6. Cardinality(HeldRefs \ {<<c, refs[c]>>}) = Cardinality(HeldRefs) - 1
  BY <1>2, <1>4, FS_RemoveElement
<1> QED
  BY <1>1, <1>3, <1>5, <1>6

(* Nobody has a reference to an object whose counter is 0.                 *)
LEMMA NoneHeld ==
  ASSUME SyncTypeOK, Cardinality(HeldRefs) = 0
  PROVE  \A d \in CPUs : refs[d] = 0
<1>1. IsFiniteSet(HeldRefs)
  BY HeldFinite DEF HeldRefs, SyncTypeOK
<1>2. HeldRefs = {}
  BY <1>1, FS_EmptySet
<1> SUFFICES ASSUME NEW d \in CPUs, refs[d] # 0 PROVE FALSE
  OBVIOUS
<1>3. refs[d] \in 1 .. MaxHeld
  BY DEF SyncTypeOK, MaxHeld
<1>4. <<d, refs[d]>> \in HeldRefs
  BY <1>3 DEF HeldRefs, MaxHeld
<1> QED
  BY <1>2, <1>4

-----------------------------------------------------------------------------
(* Each step keeps the invariant.                                          *)

LEMMA InitKeeps == SyncInit => SyncIInv
<1> SUFFICES ASSUME SyncInit PROVE SyncIInv
  OBVIOUS
<1>1. Frame("thread", "idle") \in Frames
  BY DEF Frame, Frames, Outside, Masked
<1> DEFINE f == Frame("thread", "idle")
           s == <<f>>
<1> HIDE DEF f
<1>2. s \in Seq(Frames) /\ Len(s) = 1 /\ s[1] = f
  BY <1>1 DEF f
<1> HIDE DEF s
<1>3. stk = [c \in CPUs |-> s]
  BY DEF SyncInit, f, s
<1>31. \A c \in CPUs : Len(stk[c]) = 1 /\ Thr(c) = Frame("thread", "idle") /\ Top(c) = Frame("thread", "idle")
  BY <1>2, <1>3 DEF Thr, Top, Last, f
<1>32. stk \in [CPUs -> Seq(Frames)] /\ \A c \in CPUs : Len(stk[c]) \in {1, 2}
  BY <1>2, <1>3
<1>4. refs \in [CPUs -> 0 .. MaxHeld]
  BY DEF SyncInit, MaxHeld
<1>5. SyncTypeOK
  <2>1. ie \in [CPUs -> BOOLEAN] /\ ie0 \in [CPUs -> BOOLEAN] /\ live \in BOOLEAN
    BY Zenon DEF SyncInit
  <2>2. /\ locked \in {0, 1} /\ depth \in {0, 1} /\ count \in Nat
        /\ resv \subseteq CPUs /\ seen \in Int
    BY DEF SyncInit
  <2> QED
    BY <1>4, <1>32, <2>1, <2>2 DEF SyncTypeOK
<1>6. CpusOK
  BY <1>31 DEF SyncInit, CpusOK, ThreadOK, HandlerOK, Frame, Masked
<1>7. LockOK
  BY <1>31 DEF SyncInit, LockOK, Owner, Owning, Frame
<1>8. HeldRefs = {}
  BY DEF SyncInit, HeldRefs
<1>9. RefsOK
  BY <1>8, FS_EmptySet DEF SyncInit, RefsOK
<1> QED
  BY <1>5, <1>6, <1>7, <1>9 DEF SyncIInv

(* The counter without the lock: refcnt_init and refcnt_inc_if_valid.      *)
LEMMA InitObject ==
  ASSUME SyncIInv, NEW c \in CPUs, refcnt_init(c)
  PROVE  SyncIInv'
<1> USE DEF SyncIInv
<1>1. count = 0 /\ Cardinality(HeldRefs) = 0
  BY DEF refcnt_init, RefsOK, SyncTypeOK
<1>2. \A d \in CPUs : refs[d] = 0
  BY <1>1, NoneHeld
<1>3. refs[c] < MaxHeld /\ refs' = [refs EXCEPT ![c] = @ + 1]
  <2>1. refs[c] < MaxHeld /\ refs[c] + 1 = 1
    BY <1>2 DEF MaxHeld
  <2> QED
    BY <2>1 DEF refcnt_init
<1>4. refs' \in [CPUs -> 0 .. MaxHeld] /\ Cardinality(HeldRefs)' = 1
  <2>1. refs' \in [CPUs -> 0 .. MaxHeld] /\ Cardinality(HeldRefs)' = Cardinality(HeldRefs) + 1
    BY <1>3, HoldOne
  <2> QED
    BY <1>1, <2>1
<1>5. count' = 1 /\ live' = TRUE /\ resv' = {} /\ UNCHANGED <<ie, ie0, lockVars, seen, stk>>
  BY DEF refcnt_init, Store, REFCNT_INITIAL_VAL
<1>6. SyncTypeOK'
  BY <1>4, <1>5 DEF SyncTypeOK, lockVars
<1>7. \A d \in CPUs : Top(d)' = Top(d) /\ Thr(d)' = Thr(d) /\ Hdl(d)' = Hdl(d)
  BY <1>5 DEF Top, Thr, Hdl
<1>8. CpusOK'
  <2> SUFFICES ASSUME NEW d \in CPUs PROVE ThreadOK(d)' /\ HandlerOK(d)'
    BY DEF CpusOK
  <2>1. CASE d = c
    <3>1. Top(c) = Thr(c) /\ Len(stk[c]) = 1 /\ Thr(c).pc = "idle"
      BY TopIs DEF refcnt_init, FrameAt, Outside
    <3> QED
      BY <1>5, <1>7, <2>1, <3>1 DEF CpusOK, ThreadOK, HandlerOK, Masked
  <2>2. CASE d # c
    <3>1. refs'[d] = refs[d]
      BY <2>2 DEF refcnt_init, SyncTypeOK
    <3> QED
      BY <1>5, <3>1, OtherCpu
  <2> QED
    BY <2>1, <2>2
<1>9. LockOK'
  BY <1>5, <1>7, LockKept DEF Owner
<1> QED
  BY <1>4, <1>5, <1>6, <1>8, <1>9 DEF RefsOK

(* A step of a thread that changes its frame, and neither the interrupt    *)
(* flag nor the lock: what is left to show.                                *)
LEMMA ThreadStep ==
  ASSUME SyncIInv, NEW c \in CPUs, NEW f \in Frames, Set(c, f),
         Top(c).pc \in Outside \ {"save"}, f.op = "thread", f.pc \in Outside,
         UNCHANGED <<ie, ie0, lockVars, seen>>,
         count' \in Nat, live' \in BOOLEAN, refs' \in [CPUs -> 0 .. MaxHeld], resv' \subseteq CPUs,
         \A d \in CPUs \ {c} : refs'[d] = refs[d] /\ (d \in resv' => d \in resv /\ count' = count),
         f.pc \in {"unless", "lr", "sc"} => refs'[c] < MaxHeld,
         f.pc = "save" => refs'[c] > 0,
         f.pc \in {"lr", "sc"} => f.cur # 0,
         f.pc = "sc" /\ c \in resv' => count' = f.cur
  PROVE  SyncTypeOK' /\ CpusOK' /\ LockOK'
<1> USE DEF SyncIInv
<1>1. Len(stk[c]) = 1 /\ Top(c) = Thr(c)
  BY TopIs
<1>2. /\ stk' \in [CPUs -> Seq(Frames)]
      /\ \A d \in CPUs : Len(stk'[d]) = Len(stk[d])
      /\ \A d \in CPUs \ {c} : stk'[d] = stk[d]
      /\ Thr(c)' = f /\ Top(c)' = f
  BY <1>1, SetTop
<1>3. SyncTypeOK'
  BY <1>2 DEF SyncTypeOK, lockVars
<1>4. ThreadOK(c)' /\ HandlerOK(c)'
  BY <1>1, <1>2, SMTT(30) DEF CpusOK, ThreadOK, HandlerOK, Outside, Masked
<1>5. \A d \in CPUs \ {c} : ThreadOK(d)' /\ HandlerOK(d)' /\ Top(d)' = Top(d)
  BY <1>2, OtherCpu
<1>6. CpusOK'
  BY <1>4, <1>5 DEF CpusOK
<1>7. LockOK'
  <2>1. ~ Owner(c) /\ ~ Owner(c)' /\ f.pc \notin Owning
    BY <1>2 DEF Owner, Owning, Outside
  <2> QED
    BY <1>2, <1>5, <2>1, LockKept DEF Owning
<1> QED
  BY <1>3, <1>6, <1>7

LEMMA Read ==
  ASSUME SyncIInv, NEW c \in CPUs, atomic_read(c)
  PROVE  SyncIInv'
<1> USE DEF SyncIInv
<1> DEFINE f == [Top(c) EXCEPT !.cur = count, !.pc = "unless"]
<1>1. f \in Frames /\ f.op = "thread" /\ f.pc = "unless"
  BY TopIs DEF atomic_read, FrameAt, Frames, Outside, SyncTypeOK
<1>2. Set(c, f) /\ Top(c).pc = "idle" /\ refs[c] < MaxHeld
      /\ UNCHANGED <<ie, ie0, lockVars, count, live, refs, resv, seen>>
  BY DEF atomic_read, FrameAt, objVars
<1> HIDE DEF f
<1>3. SyncTypeOK' /\ CpusOK' /\ LockOK'
  BY <1>1, <1>2, ThreadStep DEF SyncTypeOK, Outside
<1> QED
  BY <1>2, <1>3 DEF RefsOK, HeldRefs

LEMMA Unless ==
  ASSUME SyncIInv, NEW c \in CPUs, atomic_add_fetch_unless(c)
  PROVE  SyncIInv'
<1> USE DEF SyncIInv
<1> DEFINE f == [Top(c) EXCEPT !.pc = IF Top(c).cur = 0 THEN "idle" ELSE "lr"]
<1>0. Top(c) \in Frames /\ Top(c) = Thr(c) /\ Thr(c).pc = "unless" /\ Top(c).op = "thread"
  BY TopIs DEF atomic_add_fetch_unless, FrameAt, Outside
<1>1. /\ f \in Frames /\ f.op = "thread" /\ f.pc \in {"idle", "lr"}
      /\ f.pc = "lr" => f.cur # 0
  BY <1>0 DEF Frames, Outside
<1>2. /\ Set(c, f)
      /\ UNCHANGED <<ie, ie0, lockVars, count, live, refs, resv, seen>>
  BY DEF atomic_add_fetch_unless, Goto, objVars
<1>3. refs[c] < MaxHeld
  BY <1>0 DEF CpusOK, ThreadOK
<1> HIDE DEF f
<1>4. SyncTypeOK' /\ CpusOK' /\ LockOK'
  BY <1>0, <1>1, <1>2, <1>3, ThreadStep DEF SyncTypeOK, Outside
<1> QED
  BY <1>2, <1>4 DEF RefsOK, HeldRefs

LEMMA LoadReserved ==
  ASSUME SyncIInv, NEW c \in CPUs, load_reserved(c)
  PROVE  SyncIInv'
<1> USE DEF SyncIInv
<1> DEFINE f == IF count = Top(c).cur THEN [Top(c) EXCEPT !.pc = "sc"]
                ELSE [Top(c) EXCEPT !.cur = count, !.pc = "unless"]
<1>0. Top(c) \in Frames /\ Top(c) = Thr(c) /\ Thr(c).pc = "lr" /\ Top(c).op = "thread"
  BY TopIs DEF load_reserved, FrameAt, Outside
<1>1. refs[c] < MaxHeld /\ Top(c).cur # 0
  BY <1>0 DEF CpusOK, ThreadOK
<1>2. /\ f \in Frames /\ f.op = "thread" /\ f.pc \in {"sc", "unless"}
      /\ f.pc = "sc" => f.cur # 0 /\ count = f.cur
  BY <1>0, <1>1 DEF Frames, Outside, SyncTypeOK
<1>3. /\ Set(c, f) /\ resv' = resv \cup {c}
      /\ UNCHANGED <<ie, ie0, lockVars, count, live, refs, seen>>
  BY DEF load_reserved
<1> HIDE DEF f
<1>4. /\ resv' \subseteq CPUs
      /\ \A d \in CPUs \ {c} : refs'[d] = refs[d] /\ (d \in resv' => d \in resv /\ count' = count)
  BY <1>3 DEF SyncTypeOK
<1>5. SyncTypeOK' /\ CpusOK' /\ LockOK'
  BY <1>0, <1>1, <1>2, <1>3, <1>4, ThreadStep DEF SyncTypeOK, Outside
<1> QED
  BY <1>3, <1>5 DEF RefsOK, HeldRefs

(* A valid reservation means that nobody has stored since the counter was  *)
(* read, so that the store adds one to what it is.                         *)
LEMMA Cmpxchg ==
  ASSUME SyncIInv, NEW c \in CPUs, hal_atomic_cmpxchg_fetch(c)
  PROVE  SyncIInv'
<1> USE DEF SyncIInv
<1>0. Top(c) \in Frames /\ Top(c) = Thr(c) /\ Thr(c).pc = "sc" /\ Top(c).op = "thread"
  BY TopIs DEF hal_atomic_cmpxchg_fetch, FrameAt, Outside
<1>1. refs[c] < MaxHeld /\ Top(c).cur # 0 /\ (c \in resv => count = Top(c).cur)
  BY <1>0 DEF CpusOK, ThreadOK
<1>2. CASE c \in resv
  <2> DEFINE f == [Top(c) EXCEPT !.pc = "idle"]
  <2>1. f \in Frames /\ f.op = "thread" /\ f.pc = "idle"
    BY <1>0 DEF Frames, Outside
  <2>2. /\ Set(c, f) /\ count' = count + 1 /\ resv' = {}
        /\ refs' = [refs EXCEPT ![c] = @ + 1]
        /\ UNCHANGED <<ie, ie0, lockVars, live, seen>>
    BY <1>1, <1>2 DEF hal_atomic_cmpxchg_fetch, ScSucceeds, Store, Goto
  <2> HIDE DEF f
  <2>3. refs' \in [CPUs -> 0 .. MaxHeld] /\ Cardinality(HeldRefs)' = Cardinality(HeldRefs) + 1
    BY <1>1, <2>2, HoldOne
  <2>4. count' \in Nat /\ live' \in BOOLEAN /\ \A d \in CPUs \ {c} : refs'[d] = refs[d]
    BY <2>2 DEF SyncTypeOK
  <2>5. SyncTypeOK' /\ CpusOK' /\ LockOK'
    BY <1>0, <2>1, <2>2, <2>3, <2>4, ThreadStep DEF Outside
  <2>6. count > 0
    BY <1>1, <1>2 DEF SyncTypeOK
  <2> QED
    BY <2>2, <2>3, <2>5, <2>6 DEF RefsOK, SyncTypeOK
<1>3. CASE c \notin resv
  <2> DEFINE f == [Top(c) EXCEPT !.pc = "lr"]
  <2>1. f \in Frames /\ f.op = "thread" /\ f.pc = "lr" /\ f.cur # 0
    BY <1>0, <1>1 DEF Frames, Outside
  <2>2. Set(c, f) /\ UNCHANGED <<ie, ie0, lockVars, count, live, refs, resv, seen>>
    BY <1>3 DEF hal_atomic_cmpxchg_fetch, ScSucceeds, Goto
  <2> HIDE DEF f
  <2>3. SyncTypeOK' /\ CpusOK' /\ LockOK'
    BY <1>0, <1>1, <2>1, <2>2, ThreadStep DEF SyncTypeOK, Outside
  <2> QED
    BY <2>2, <2>3 DEF RefsOK, HeldRefs
<1> QED
  BY <1>2, <1>3

LEMMA DecCalled ==
  ASSUME SyncIInv, NEW c \in CPUs, refcnt_dec_and_lock_disable_intr(c)
  PROVE  SyncIInv'
<1> USE DEF SyncIInv
<1> DEFINE f == Frame("thread", "save")
<1>1. f \in Frames /\ f.op = "thread" /\ f.pc = "save"
  BY DEF Frame, Frames, Outside
<1>2. /\ Set(c, f) /\ Top(c).pc = "idle" /\ refs[c] > 0
      /\ UNCHANGED <<ie, ie0, lockVars, count, live, refs, resv, seen>>
  BY DEF refcnt_dec_and_lock_disable_intr, FrameAt, objVars
<1> HIDE DEF f
<1>3. SyncTypeOK' /\ CpusOK' /\ LockOK'
  BY <1>1, <1>2, ThreadStep DEF SyncTypeOK, Outside
<1> QED
  BY <1>2, <1>3 DEF RefsOK, HeldRefs

-----------------------------------------------------------------------------
(* With interrupts off: the thread and the handler take the lock alike.    *)

(* A step within the section, of the running frame of c.                   *)
LEMMA MaskedStep ==
  ASSUME SyncIInv, NEW c \in CPUs, NEW f \in Frames, Set(c, f),
         Top(c).pc \in Masked \cup {"save"}, f.op = Top(c).op, f.pc \in Masked,
         f.flags = IF Top(c).pc = "save" THEN ie[c] ELSE Top(c).flags,
         ie' = Disabled(c), ie0' = ie0,
         \A d \in CPUs \ {c} : refs'[d] = refs[d],
         \A d \in CPUs : d \in resv' => d \in resv /\ count' = count,
         f.op = "thread" /\ f.pc \in {"spin", "locked", "section"} => refs'[c] > 0,
         f.op = "handler" => refs'[c] = refs[c]
  PROVE  /\ CpusOK' /\ ie' \in [CPUs -> BOOLEAN] /\ stk' \in [CPUs -> Seq(Frames)]
         /\ \A d \in CPUs : Len(stk'[d]) \in {1, 2}
         /\ Top(c)' = f /\ \A d \in CPUs \ {c} : Top(d)' = Top(d)
<1> USE DEF SyncIInv
<1>1. /\ stk' \in [CPUs -> Seq(Frames)]
      /\ \A d \in CPUs : Len(stk'[d]) = Len(stk[d])
      /\ \A d \in CPUs \ {c} : stk'[d] = stk[d]
      /\ Len(stk[c]) = 1 => Thr(c)' = f
      /\ Len(stk[c]) = 2 => Thr(c)' = Thr(c) /\ Hdl(c)' = f
      /\ Top(c)' = f
  BY SetTop
<1>2. /\ ie' \in [CPUs -> BOOLEAN] /\ ie'[c] = FALSE
      /\ \A d \in CPUs \ {c} : ie'[d] = ie[d]
  BY DEF SyncTypeOK, Disabled
<1>3. ThreadOK(c) /\ HandlerOK(c) /\ Len(stk[c]) \in {1, 2}
  BY DEF CpusOK, SyncTypeOK
<1>4. CASE Len(stk[c]) = 1
  <2>1. Top(c) = Thr(c) /\ f.op = "thread"
    BY <1>4, TopIs
  <2>2. f.flags = ie0[c]
    BY <1>3, <1>4, <2>1 DEF ThreadOK, Masked
  <2>3. ThreadOK(c)'
    BY <1>1, <1>2, <1>4, <2>1, <2>2 DEF ThreadOK, Masked
  <2>4. HandlerOK(c)'
    <3>1. Len(stk'[c]) = Len(stk[c])
      BY <1>1, Zenon
    <3>2. Len(stk'[c]) # 2
      BY <1>4, <3>1
    <3> QED
      BY <3>2 DEF HandlerOK
  <2>5. \A d \in CPUs \ {c} : ThreadOK(d)' /\ HandlerOK(d)' /\ Top(d)' = Top(d)
    BY <1>1, <1>2, OtherCpu
  <2> QED
    BY <1>1, <1>2, <2>3, <2>4, <2>5 DEF CpusOK, SyncTypeOK
<1>5. CASE Len(stk[c]) = 2
  <2>1. Top(c) = Hdl(c) /\ f.op = "handler" /\ Thr(c).pc \notin Masked
    BY <1>5, TopIs
  <2>2. f.flags = FALSE
    BY <1>3, <1>5, <2>1 DEF HandlerOK, Masked
  <2>3. HandlerOK(c)'
    BY <1>1, <1>2, <1>3, <1>5, <2>1, <2>2 DEF HandlerOK
  <2>4. ThreadOK(c)'
    BY <1>1, <1>3, <1>5, <2>1 DEF ThreadOK
  <2>5. \A d \in CPUs \ {c} : ThreadOK(d)' /\ HandlerOK(d)' /\ Top(d)' = Top(d)
    BY <1>1, <1>2, OtherCpu
  <2> QED
    BY <1>1, <1>2, <2>3, <2>4, <2>5 DEF CpusOK, SyncTypeOK
<1> QED
  BY <1>3, <1>4, <1>5

(* What is known of the running frame in the section.                      *)
LEMMA MaskedTop ==
  ASSUME SyncIInv, NEW c \in CPUs, Top(c).pc \in Masked
  PROVE  /\ Top(c) \in Frames /\ ie[c] = FALSE /\ ie = Disabled(c)
         /\ Top(c).op = "thread" /\ Top(c).pc \in {"spin", "locked", "section"} => refs[c] > 0
<1> USE DEF SyncIInv
<1>1. /\ Len(stk[c]) \in {1, 2} /\ Top(c) \in Frames
      /\ Len(stk[c]) = 1 => Top(c) = Thr(c)
      /\ Len(stk[c]) = 2 => Top(c) = Hdl(c) /\ Top(c).op = "handler"
  BY TopIs DEF SyncTypeOK
<1>2. ThreadOK(c) /\ HandlerOK(c) /\ ie \in [CPUs -> BOOLEAN]
  BY DEF CpusOK, SyncTypeOK
<1>3. ~ ie[c]
  BY <1>1, <1>2 DEF ThreadOK, HandlerOK
<1>4. ie[c] = FALSE
  BY <1>2, <1>3
<1>5. ie = Disabled(c)
  BY <1>2, <1>4 DEF Disabled
<1> QED
  BY <1>1, <1>2, <1>4, <1>5 DEF ThreadOK

LEMMA SaveAndDisable ==
  ASSUME SyncIInv, NEW c \in CPUs, krn_cpu_save_and_disable_interrupt(c)
  PROVE  SyncIInv'
<1> USE DEF SyncIInv
<1> DEFINE f == [Top(c) EXCEPT !.flags = ie[c], !.pc = "spin"]
<1>0. Top(c) \in Frames /\ Top(c).pc = "save" /\ ie[c] \in BOOLEAN
  BY TopIs DEF krn_cpu_save_and_disable_interrupt, FrameAt, SyncTypeOK
<1>1. f \in Frames /\ f.op = Top(c).op /\ f.pc = "spin" /\ f.flags = ie[c]
  BY <1>0 DEF Frames, Masked
<1>2. Set(c, f) /\ ie' = Disabled(c) /\ UNCHANGED <<ie0, lockVars, count, live, refs, resv, seen>>
  BY DEF krn_cpu_save_and_disable_interrupt, objVars
<1>3. Top(c).op = "thread" => refs[c] > 0
  BY <1>0, TopIs DEF CpusOK, ThreadOK
<1> HIDE DEF f
<1>4. /\ CpusOK' /\ ie' \in [CPUs -> BOOLEAN] /\ stk' \in [CPUs -> Seq(Frames)]
      /\ \A d \in CPUs : Len(stk'[d]) \in {1, 2}
      /\ Top(c)' = f /\ \A d \in CPUs \ {c} : Top(d)' = Top(d)
  BY <1>0, <1>1, <1>2, <1>3, MaskedStep DEF Masked
<1>5. SyncTypeOK'
  BY <1>2, <1>4 DEF SyncTypeOK, lockVars
<1>6. LockOK'
  BY <1>0, <1>1, <1>2, <1>4, LockKept DEF Owner, Owning
<1> QED
  BY <1>2, <1>4, <1>5, <1>6 DEF RefsOK, HeldRefs

(* A step in the section that changes only the lock and the place.         *)
LEMMA PlaceStep ==
  ASSUME SyncIInv, NEW c \in CPUs, NEW p \in Masked, Top(c).pc \in Masked, Goto(c, p),
         UNCHANGED <<ie, ie0, objVars, seen>>, locked' \in {0, 1}, depth' \in {0, 1},
         p \in {"spin", "locked", "section"} => Top(c).pc \in {"spin", "locked", "section"}
  PROVE  /\ SyncTypeOK' /\ CpusOK' /\ RefsOK'
         /\ Top(c)'.pc = p /\ \A d \in CPUs \ {c} : Top(d)' = Top(d)
<1> USE DEF SyncIInv
<1> DEFINE f == [Top(c) EXCEPT !.pc = p]
<1>1. /\ Top(c) \in Frames /\ ie = Disabled(c)
      /\ Top(c).op = "thread" /\ Top(c).pc \in {"spin", "locked", "section"} => refs[c] > 0
  BY MaskedTop
<1>2. f \in Frames /\ f.op = Top(c).op /\ f.pc = p /\ f.flags = Top(c).flags
  BY <1>1 DEF Frames
<1>3. Set(c, f) /\ ie' = Disabled(c) /\ UNCHANGED <<ie, ie0, count, live, refs, resv, seen>>
  BY <1>1 DEF Goto, objVars
<1>31. Top(c).pc # "save"
  BY DEF Masked
<1> HIDE DEF f
<1>4. /\ CpusOK' /\ ie' \in [CPUs -> BOOLEAN] /\ stk' \in [CPUs -> Seq(Frames)]
      /\ \A d \in CPUs : Len(stk'[d]) \in {1, 2}
      /\ Top(c)' = f /\ \A d \in CPUs \ {c} : Top(d)' = Top(d)
  BY <1>1, <1>2, <1>3, <1>31, MaskedStep
<1>5. SyncTypeOK'
  BY <1>3, <1>4 DEF SyncTypeOK
<1> QED
  BY <1>2, <1>3, <1>4, <1>5 DEF RefsOK, HeldRefs

LEMMA TakeLock ==
  ASSUME SyncIInv, NEW c \in CPUs, hal_spinlock_lock(c)
  PROVE  SyncIInv'
<1> USE DEF SyncIInv
<1>1. /\ Top(c).pc = "spin" /\ locked = 0 /\ locked' = 1 /\ depth' = depth
      /\ Goto(c, "locked") /\ UNCHANGED <<ie, ie0, objVars, seen>>
  BY DEF hal_spinlock_lock, FrameAt
<1>2. /\ SyncTypeOK' /\ CpusOK' /\ RefsOK'
      /\ Top(c)'.pc = "locked" /\ \A d \in CPUs \ {c} : Top(d)' = Top(d)
  BY <1>1, PlaceStep DEF Masked, SyncTypeOK
<1>3. \A d \in CPUs : ~ Owner(d)
  BY <1>1 DEF LockOK
<1>4. \A d \in CPUs : Owner(d)' <=> d = c
  BY <1>2, <1>3 DEF Owner, Owning
<1>5. depth' = 0
  BY <1>1 DEF LockOK
<1>6. \A d \in CPUs : Top(d)'.pc \notin {"section", "unlock"}
  BY <1>2, <1>3 DEF Owner, Owning
<1>7. LockOK'
  BY <1>1, <1>4, <1>5, <1>6 DEF LockOK
<1> QED
  BY <1>2, <1>7

LEMMA EnterSection ==
  ASSUME SyncIInv, NEW c \in CPUs, spinlock_raw_lock(c)
  PROVE  SyncIInv'
<1> USE DEF SyncIInv
<1>1. /\ Top(c).pc = "locked" /\ locked' = locked /\ depth' = depth + 1
      /\ Goto(c, "section") /\ UNCHANGED <<ie, ie0, objVars, seen>>
  BY DEF spinlock_raw_lock, FrameAt
<1>2. Owner(c) /\ depth' = 1 /\ locked = 1
  BY <1>1 DEF LockOK, Owner, Owning
<1>3. /\ SyncTypeOK' /\ CpusOK' /\ RefsOK'
      /\ Top(c)'.pc = "section" /\ \A d \in CPUs \ {c} : Top(d)' = Top(d)
  BY <1>1, <1>2, PlaceStep DEF Masked, SyncTypeOK
<1>4. \A d \in CPUs \ {c} : ~ Owner(d) /\ ~ Owner(d)'
  BY <1>2, <1>3 DEF LockOK, Owner
<1>5. \A d \in CPUs : (Owner(d)' <=> d = c) /\ Top(d)'.pc \notin {"locked", "release"}
  BY <1>3, <1>4 DEF Owner, Owning
<1>6. LockOK'
  BY <1>1, <1>2, <1>5 DEF LockOK
<1> QED
  BY <1>3, <1>6

LEMMA LeaveSection ==
  ASSUME SyncIInv, NEW c \in CPUs, spinlock_raw_unlock(c)
  PROVE  SyncIInv'
<1> USE DEF SyncIInv
<1>1. /\ Top(c).pc = "unlock" /\ locked' = locked /\ depth' = depth - 1
      /\ Goto(c, "release") /\ UNCHANGED <<ie, ie0, objVars, seen>>
  BY DEF spinlock_raw_unlock, FrameAt
<1>2. Owner(c) /\ depth' = 0 /\ locked = 1
  BY <1>1 DEF LockOK, Owner, Owning
<1>3. /\ SyncTypeOK' /\ CpusOK' /\ RefsOK'
      /\ Top(c)'.pc = "release" /\ \A d \in CPUs \ {c} : Top(d)' = Top(d)
  BY <1>1, <1>2, PlaceStep DEF Masked, SyncTypeOK
<1>4. \A d \in CPUs \ {c} : ~ Owner(d) /\ ~ Owner(d)'
  BY <1>2, <1>3 DEF LockOK, Owner
<1>5. \A d \in CPUs : (Owner(d)' <=> d = c) /\ Top(d)'.pc \notin {"section", "unlock"}
  BY <1>3, <1>4 DEF Owner, Owning
<1>6. LockOK'
  BY <1>1, <1>2, <1>5 DEF LockOK
<1> QED
  BY <1>3, <1>6

LEMMA ReleaseLock ==
  ASSUME SyncIInv, NEW c \in CPUs, hal_spinlock_unlock(c)
  PROVE  SyncIInv'
<1> USE DEF SyncIInv
<1>1. /\ Top(c).pc = "release" /\ locked' = 0 /\ depth' = depth
      /\ Goto(c, "restore") /\ UNCHANGED <<ie, ie0, objVars, seen>>
  BY DEF hal_spinlock_unlock, FrameAt
<1>2. Owner(c) /\ depth' = 0
  BY <1>1 DEF LockOK, Owner, Owning
<1>3. /\ SyncTypeOK' /\ CpusOK' /\ RefsOK'
      /\ Top(c)'.pc = "restore" /\ \A d \in CPUs \ {c} : Top(d)' = Top(d)
  BY <1>1, <1>2, PlaceStep DEF Masked, SyncTypeOK
<1>4. \A d \in CPUs : ~ Owner(d)'
  BY <1>2, <1>3 DEF LockOK, Owner, Owning
<1>5. LockOK'
  BY <1>1, <1>2, <1>4 DEF LockOK, Owner, Owning
<1> QED
  BY <1>3, <1>5

(* The section of a thread: the object ends with the last reference.       *)
LEMMA DecAndTest ==
  ASSUME SyncIInv, NEW c \in CPUs, refcnt_dec_and_test(c)
  PROVE  SyncIInv'
<1> USE DEF SyncIInv
<1> DEFINE f == [Top(c) EXCEPT !.pc = "unlock"]
<1>0. Top(c).pc = "section" /\ Top(c).op = "thread"
  BY DEF refcnt_dec_and_test, FrameAt
<1>1. Top(c) \in Frames /\ ie = Disabled(c) /\ refs[c] > 0
  BY <1>0, MaskedTop DEF Masked
<1>2. f \in Frames /\ f.op = Top(c).op /\ f.pc = "unlock" /\ f.flags = Top(c).flags
  BY <1>1 DEF Frames, Masked
<1>3. /\ Set(c, f) /\ count' = count - 1 /\ resv' = {} /\ refs' = [refs EXCEPT ![c] = @ - 1]
      /\ ie' = Disabled(c) /\ UNCHANGED <<ie0, lockVars, seen>>
  BY <1>1 DEF refcnt_dec_and_test, Goto, Store
<1>4. live' = (live /\ count - 1 # 0)
  BY DEF refcnt_dec_and_test
<1> HIDE DEF f
<1>5. /\ refs' \in [CPUs -> 0 .. MaxHeld]
      /\ Cardinality(HeldRefs)' = Cardinality(HeldRefs) - 1 /\ Cardinality(HeldRefs) > 0
  BY <1>1, <1>3, DropOne
<1>6. count' \in Nat /\ count > 0
  BY <1>3, <1>5 DEF RefsOK, SyncTypeOK
<1>7. \A d \in CPUs \ {c} : refs'[d] = refs[d]
  BY <1>3 DEF SyncTypeOK
<1>8. /\ CpusOK' /\ ie' \in [CPUs -> BOOLEAN] /\ stk' \in [CPUs -> Seq(Frames)]
      /\ \A d \in CPUs : Len(stk'[d]) \in {1, 2}
      /\ Top(c)' = f /\ \A d \in CPUs \ {c} : Top(d)' = Top(d)
  <2>1. f.flags = IF Top(c).pc = "save" THEN ie[c] ELSE Top(c).flags
    BY <1>0, <1>2
  <2> QED
    BY <1>0, <1>2, <1>3, <1>7, <2>1, MaskedStep DEF Masked
<1>9. live' \in BOOLEAN
  BY <1>4, Zenon
<1>10. SyncTypeOK'
  BY <1>3, <1>5, <1>6, <1>8, <1>9 DEF SyncTypeOK, lockVars
<1>11. LockOK'
  BY <1>0, <1>2, <1>3, <1>8, LockKept DEF Owner, Owning
<1>12. live' <=> count' > 0
  <2>1. live
    BY <1>6 DEF RefsOK
  <2>2. live' <=> count - 1 # 0
    BY <1>4, <2>1
  <2> QED
    BY <1>3, <1>6, <2>2 DEF SyncTypeOK
<1>13. count' = Cardinality(HeldRefs)'
  BY <1>3, <1>5 DEF RefsOK
<1> QED
  BY <1>8, <1>10, <1>11, <1>12, <1>13 DEF RefsOK

(* The section of the handler.                                             *)
LEMMA HandlerSection ==
  ASSUME SyncIInv, NEW c \in CPUs, statcnt_inc(c)
  PROVE  SyncIInv'
<1> USE DEF SyncIInv
<1> DEFINE f == [Top(c) EXCEPT !.pc = "unlock"]
<1>0. Top(c).pc = "section" /\ Top(c).op = "handler"
  BY DEF statcnt_inc, FrameAt
<1>1. Top(c) \in Frames /\ ie = Disabled(c)
  BY <1>0, MaskedTop DEF Masked
<1>2. f \in Frames /\ f.op = Top(c).op /\ f.pc = "unlock" /\ f.flags = Top(c).flags
  BY <1>1 DEF Frames, Masked
<1>3. /\ Set(c, f) /\ seen' = seen + 1 /\ ie' = Disabled(c)
      /\ UNCHANGED <<ie, ie0, lockVars, count, live, refs, resv>>
  BY <1>1 DEF statcnt_inc, Goto, objVars
<1>4. f.flags = IF Top(c).pc = "save" THEN ie[c] ELSE Top(c).flags
  BY <1>0, <1>2
<1> HIDE DEF f
<1>5. /\ CpusOK' /\ ie' \in [CPUs -> BOOLEAN] /\ stk' \in [CPUs -> Seq(Frames)]
      /\ \A d \in CPUs : Len(stk'[d]) \in {1, 2}
      /\ Top(c)' = f /\ \A d \in CPUs \ {c} : Top(d)' = Top(d)
  BY <1>0, <1>2, <1>3, <1>4, MaskedStep DEF Masked
<1>6. SyncTypeOK'
  BY <1>3, <1>5 DEF SyncTypeOK, lockVars
<1>7. LockOK'
  BY <1>0, <1>2, <1>3, <1>5, LockKept DEF Owner, Owning
<1> QED
  BY <1>3, <1>5, <1>6, <1>7 DEF RefsOK, HeldRefs

(* The thread gets the flag back that it had, the handler goes on with     *)
(* interrupts off.                                                         *)
LEMMA Restore ==
  ASSUME SyncIInv, NEW c \in CPUs, krn_cpu_restore_interrupt(c)
  PROVE  SyncIInv'
<1> USE DEF SyncIInv
<1> DEFINE f == IF Top(c).op = "handler" THEN [Top(c) EXCEPT !.pc = "return"]
                ELSE Frame("thread", "idle")
<1>0. /\ Top(c) \in Frames /\ Top(c).pc = "restore" /\ Len(stk[c]) \in {1, 2}
      /\ ThreadOK(c) /\ HandlerOK(c)
  BY TopIs DEF krn_cpu_restore_interrupt, FrameAt, SyncTypeOK, CpusOK
<1>1. f \in Frames
  BY <1>0 DEF Frames, Frame, Outside
<1>2. /\ Set(c, f) /\ ie' = [ie EXCEPT ![c] = Top(c).flags]
      /\ UNCHANGED <<ie0, lockVars, count, live, refs, resv, seen>>
  BY DEF krn_cpu_restore_interrupt, Goto, objVars
<1>3. /\ Top(c).op = "handler" => f.op = "handler" /\ f.pc = "return"
      /\ Top(c).op # "handler" => f.op = "thread" /\ f.pc = "idle"
  BY <1>0 DEF Frames, Frame
<1> HIDE DEF f
<1>4. /\ stk' \in [CPUs -> Seq(Frames)]
      /\ \A d \in CPUs : Len(stk'[d]) = Len(stk[d])
      /\ \A d \in CPUs \ {c} : stk'[d] = stk[d]
      /\ Len(stk[c]) = 1 => Thr(c)' = f
      /\ Len(stk[c]) = 2 => Thr(c)' = Thr(c) /\ Hdl(c)' = f
      /\ Top(c)' = f
  BY <1>1, <1>2, SetTop
<1>5. /\ ie' \in [CPUs -> BOOLEAN] /\ ie'[c] = Top(c).flags
      /\ \A d \in CPUs \ {c} : ie'[d] = ie[d]
  BY <1>0, <1>2 DEF SyncTypeOK, Frames
<1>6. ThreadOK(c)' /\ HandlerOK(c)'
  <2>0. Len(stk'[c]) = Len(stk[c])
    BY <1>4, Zenon
  <2>1. CASE Len(stk[c]) = 1
    <3>1. Top(c) = Thr(c) /\ Top(c).op = "thread" /\ Thr(c)' = f
      BY <1>4, <2>1, TopIs
    <3>2. ie'[c] = ie0[c]
      BY <1>0, <1>5, <3>1 DEF ThreadOK, Masked
    <3>3. ThreadOK(c)'
      BY <1>2, <1>3, <2>0, <3>1, <3>2 DEF ThreadOK, Masked
    <3>4. HandlerOK(c)'
      BY <2>0, <2>1 DEF HandlerOK
    <3> QED
      BY <3>3, <3>4
  <2>2. CASE Len(stk[c]) = 2
    <3>1. /\ Top(c) = Hdl(c) /\ Top(c).op = "handler" /\ Thr(c).pc \notin Masked
          /\ Thr(c)' = Thr(c) /\ Hdl(c)' = f
      BY <1>4, <2>2, TopIs
    <3>2. ~ ie'[c]
      BY <1>0, <1>5, <2>2, <3>1 DEF HandlerOK, Masked
    <3>3. HandlerOK(c)'
      BY <1>0, <1>2, <1>3, <2>0, <2>2, <3>1, <3>2 DEF HandlerOK, Masked
    <3>4. ThreadOK(c)'
      BY <1>0, <1>2, <2>0, <2>2, <3>1 DEF ThreadOK
    <3> QED
      BY <3>3, <3>4
  <2> QED
    BY <1>0, <2>1, <2>2
<1>7. \A d \in CPUs \ {c} : ThreadOK(d)' /\ HandlerOK(d)' /\ Top(d)' = Top(d)
  BY <1>2, <1>4, <1>5, OtherCpu
<1>8. CpusOK'
  BY <1>6, <1>7 DEF CpusOK
<1>9. SyncTypeOK'
  BY <1>2, <1>4, <1>5 DEF SyncTypeOK, lockVars
<1>10. LockOK'
  <2>1. ~ Owner(c) /\ ~ Owner(c)' /\ f.pc \notin Owning
    BY <1>0, <1>3, <1>4 DEF Owner, Owning
  <2> QED
    BY <1>2, <1>4, <1>7, <2>1, LockKept DEF Owning
<1> QED
  BY <1>2, <1>8, <1>9, <1>10 DEF RefsOK, HeldRefs

(* A frame more on the stack, and the stack without it.                    *)
LEMMA Pushed ==
  ASSUME NEW S, NEW s \in Seq(S), Len(s) = 1, NEW f \in S
  PROVE  Append(s, f) \in Seq(S) /\ Len(Append(s, f)) = 2 /\ Append(s, f)[1] = s[1] /\ Append(s, f)[2] = f
<1> DEFINE t == Append(s, f)
<1>0. t \in Seq(S)
  OBVIOUS
<1>1. Len(t) = Len(s) + 1
  OBVIOUS
<1>4. t[1] = s[1]
  OBVIOUS
<1>2. t[Len(s) + 1] = f
  BY AppendProperties
<1> HIDE DEF t
<1>3. Len(t) = 2 /\ t[2] = f
  BY <1>1, <1>2
<1> QED
  BY <1>0, <1>3, <1>4 DEF t

LEMMA Popped ==
  ASSUME NEW S, NEW s \in Seq(S), Len(s) = 2
  PROVE  Front(s) \in Seq(S) /\ Len(Front(s)) = 1 /\ Front(s)[1] = s[1]
<1>0. 1 \in 1 .. Len(s) /\ Len(s) - 1 = 1
  OBVIOUS
<1>1. 1 \in Int /\ \A i \in 1 .. 1 : s[i] \in S
  <2>1. s[1] \in S
    BY <1>0, ElementOfSeq
  <2>2. \A i \in 1 .. 1 : i = 1
    OBVIOUS
  <2> QED
    BY <2>1, <2>2
<1>2. Front(s) = SubSeq(s, 1, 1)
  BY <1>0 DEF Front
<1>3. /\ SubSeq(s, 1, 1) \in Seq(S)
      /\ Len(SubSeq(s, 1, 1)) = IF 1 <= 1 THEN 1 - 1 + 1 ELSE 0
      /\ \A i \in 1 .. 1 - 1 + 1 : SubSeq(s, 1, 1)[i] = s[1 + i - 1]
  BY <1>1, SubSeqProperties
<1>4. SubSeq(s, 1, 1)[1] = s[1 + 1 - 1] /\ 1 + 1 - 1 = 1
  BY <1>3
<1>5. Len(SubSeq(s, 1, 1)) = 1 /\ SubSeq(s, 1, 1)[1] = s[1]
  BY <1>3, <1>4
<1> QED
  BY <1>2, <1>3, <1>5

(* A handler starts on a CPU whose thread has interrupts enabled, and so   *)
(* outside the section.                                                    *)
LEMMA Interrupted ==
  ASSUME SyncIInv, NEW c \in CPUs, Interrupt(c)
  PROVE  SyncIInv'
<1> USE DEF SyncIInv
<1> DEFINE f == Frame("handler", "save")
           s == stk[c]
           t == Append(s, f)
<1>0. /\ s \in Seq(Frames) /\ Len(s) = 1 /\ ie[c] /\ ThreadOK(c) /\ Top(c) = Thr(c)
      /\ stk \in [CPUs -> Seq(Frames)] /\ ie \in [CPUs -> BOOLEAN]
  BY TopIs DEF Interrupt, CpusOK, SyncTypeOK
<1>1. f \in Frames /\ f.op = "handler" /\ f.pc = "save"
  BY DEF Frame, Frames, Outside
<1>2. /\ stk' = [stk EXCEPT ![c] = t] /\ ie' = [ie EXCEPT ![c] = FALSE]
      /\ UNCHANGED <<ie0, lockVars, count, live, refs, resv, seen>>
  BY DEF Interrupt, objVars
<1> HIDE DEF f, s
<1>3. t \in Seq(Frames) /\ Len(t) = 2 /\ t[1] = s[1] /\ t[2] = f
  BY <1>0, <1>1, Pushed
<1> HIDE DEF t
<1>4. /\ stk' \in [CPUs -> Seq(Frames)] /\ stk'[c] = t
      /\ \A d \in CPUs \ {c} : stk'[d] = stk[d]
  BY <1>0, <1>2, <1>3
<1>5. /\ Len(stk'[c]) = 2 /\ Thr(c)' = Thr(c) /\ Hdl(c)' = f /\ Top(c)' = f
  BY <1>3, <1>4 DEF Thr, Hdl, Top, Last, s
<1>6. /\ ie' \in [CPUs -> BOOLEAN] /\ ~ ie'[c] /\ \A d \in CPUs \ {c} : ie'[d] = ie[d]
  BY <1>0, <1>2
<1>7. Thr(c).pc \notin Masked /\ ie0[c]
  BY <1>0 DEF ThreadOK, s
<1>8. ThreadOK(c)'
  <2>1. Len(stk'[c]) # 1
    BY <1>5
  <2>2. UNCHANGED <<ie0, count, refs, resv>> /\ Thr(c)' = Thr(c)
    BY <1>2, <1>5
  <2> QED
    BY <1>0, <1>7, <2>1, <2>2 DEF ThreadOK
<1>9. HandlerOK(c)'
  BY <1>1, <1>2, <1>5, <1>6, <1>7 DEF HandlerOK, Masked
<1>10. \A d \in CPUs \ {c} : ThreadOK(d)' /\ HandlerOK(d)' /\ Top(d)' = Top(d)
  BY <1>2, <1>4, <1>6, OtherCpu
<1>11. CpusOK'
  BY <1>8, <1>9, <1>10 DEF CpusOK
<1>12. \A d \in CPUs : Len(stk'[d]) \in {1, 2}
  BY <1>4, <1>5 DEF SyncTypeOK
<1>13. SyncTypeOK'
  BY <1>2, <1>4, <1>6, <1>12 DEF SyncTypeOK, lockVars
<1>14. LockOK'
  <2>1. ~ Owner(c) /\ ~ Owner(c)' /\ f.pc \notin Owning
    BY <1>0, <1>1, <1>5, <1>7 DEF Owner, Owning, Masked
  <2> QED
    BY <1>2, <1>5, <1>10, <2>1, LockKept DEF Owning
<1> QED
  BY <1>2, <1>11, <1>13, <1>14 DEF RefsOK, HeldRefs

(* The handler returns to the thread, which had interrupts enabled.        *)
LEMMA Returned ==
  ASSUME SyncIInv, NEW c \in CPUs, statcnt_dec(c)
  PROVE  SyncIInv'
<1> USE DEF SyncIInv
<1> DEFINE s == stk[c]
           t == Front(s)
<1>0. /\ s \in Seq(Frames) /\ Len(s) = 2 /\ ThreadOK(c) /\ HandlerOK(c) /\ Thr(c) \in Frames
      /\ Thr(c).pc \notin Masked /\ Top(c).pc = "return"
      /\ stk \in [CPUs -> Seq(Frames)] /\ ie \in [CPUs -> BOOLEAN] /\ ie0 \in [CPUs -> BOOLEAN]
  BY TopIs DEF statcnt_dec, FrameAt, CpusOK, SyncTypeOK
<1>1. /\ stk' = [stk EXCEPT ![c] = t] /\ ie' = [ie EXCEPT ![c] = TRUE] /\ seen' = seen - 1
      /\ UNCHANGED <<ie0, lockVars, count, live, refs, resv>>
  BY DEF statcnt_dec, objVars
<1> HIDE DEF s
<1>2. t \in Seq(Frames) /\ Len(t) = 1 /\ t[1] = s[1]
  BY <1>0, Popped
<1> HIDE DEF t
<1>3. /\ stk' \in [CPUs -> Seq(Frames)] /\ stk'[c] = t
      /\ \A d \in CPUs \ {c} : stk'[d] = stk[d]
  BY <1>0, <1>1, <1>2
<1>4. Len(stk'[c]) = 1 /\ Thr(c)' = Thr(c) /\ Top(c)' = Thr(c)
  BY <1>2, <1>3 DEF Thr, Top, Last, s
<1>5. ie' \in [CPUs -> BOOLEAN] /\ ie'[c] = TRUE /\ \A d \in CPUs \ {c} : ie'[d] = ie[d]
  BY <1>0, <1>1
<1>6. ie'[c] = ie0[c]
  BY <1>0, <1>5 DEF HandlerOK, s
<1>7. ThreadOK(c)'
  BY <1>0, <1>1, <1>4, <1>6 DEF ThreadOK
<1>8. HandlerOK(c)'
  BY <1>4 DEF HandlerOK
<1>9. \A d \in CPUs \ {c} : ThreadOK(d)' /\ HandlerOK(d)' /\ Top(d)' = Top(d)
  BY <1>1, <1>3, <1>5, OtherCpu
<1>10. CpusOK'
  BY <1>7, <1>8, <1>9 DEF CpusOK
<1>11. \A d \in CPUs : Len(stk'[d]) \in {1, 2}
  BY <1>3, <1>4 DEF SyncTypeOK
<1>12. SyncTypeOK'
  BY <1>1, <1>3, <1>5, <1>11 DEF SyncTypeOK, lockVars
<1>13. LockOK'
  <2>1. ~ Owner(c) /\ ~ Owner(c)' /\ Thr(c).pc \notin Owning
    BY <1>0, <1>4 DEF Owner, Owning, Masked
  <2> QED
    BY <1>1, <1>4, <1>9, <2>1, LockKept DEF Owning
<1> QED
  BY <1>1, <1>10, <1>12, <1>13 DEF RefsOK, HeldRefs

-----------------------------------------------------------------------------
LEMMA NextKeeps == SyncIInv /\ [SyncStep]_syncVars => SyncIInv'
<1> SUFFICES ASSUME SyncIInv, [SyncStep]_syncVars PROVE SyncIInv'
  OBVIOUS
<1>1. ASSUME NEW c \in CPUs, SyncCpu(c) PROVE SyncIInv'
  BY <1>1, InitObject, Read, Unless, LoadReserved, Cmpxchg, DecCalled, SaveAndDisable, TakeLock,
     EnterSection, DecAndTest, HandlerSection, LeaveSection, ReleaseLock, Restore, Interrupted,
     Returned, Zenon DEF SyncCpu
<1>2. CASE UNCHANGED syncVars
  BY <1>2 DEF syncVars, SyncIInv, SyncTypeOK, CpusOK, ThreadOK, HandlerOK, LockOK, RefsOK, HeldRefs, Owner,
     Top, Thr, Hdl
<1> QED
  BY <1>1, <1>2 DEF SyncStep

(* The invariant holds in every state.                                     *)
THEOREM Invariance == SyncSpec => []SyncIInv
<1> QED
  BY InitKeeps, NextKeeps, PTL DEF SyncSpec

(* The frames between lock and unlock, counted.                            *)
LEMMA OwnersAre ==
  ASSUME SyncIInv, NEW c \in CPUs
  PROVE  /\ OwnersOn(c) # {} <=> Owner(c)
         /\ OwnersOn(c) # {} => ~ ie[c] /\ OwnersOn(c) = {Len(stk[c])}
<1> USE DEF SyncIInv
<1>1. stk[c] \in Seq(Frames) /\ Len(stk[c]) \in {1, 2} /\ Top(c) = stk[c][Len(stk[c])]
  BY DEF SyncTypeOK, Top, Last
<1>2. DOMAIN stk[c] = 1 .. Len(stk[c])
  BY <1>1
<1>3. Len(stk[c]) = 2 => stk[c][1].pc \notin Owning
  BY TopIs DEF Thr, Masked, Owning
<1>4. \A i \in DOMAIN stk[c] : stk[c][i].pc \in Owning => i = Len(stk[c])
  BY <1>1, <1>2, <1>3
<1>5. Len(stk[c]) \in DOMAIN stk[c]
  <2>1. \A n \in {1, 2} : n \in 1 .. n
    OBVIOUS
  <2> QED
    BY <1>1, <1>2, <2>1, Zenon
<1>6. OwnersOn(c) = IF Owner(c) THEN {Len(stk[c])} ELSE {}
  BY <1>1, <1>4, <1>5 DEF OwnersOn, Owner
<1>7. Owner(c) => ~ ie[c]
  BY MaskedTop DEF Owner, Owning, Masked
<1> QED
  BY <1>6, <1>7

(* On any number of CPUs: one frame at a time holds the spinlock, with     *)
(* interrupts off and the depth right, each thread gets its interrupt flag *)
(* back, the counter is the number of references held, and the object      *)
(* lives exactly while there is one (spinlock.c, cpuintr.c, refcount.c,    *)
(* rv64-atomic.S).                                                         *)
THEOREM AlwaysSafe == SyncSpec => []SyncSafe
<1>1. SyncIInv => SyncSafe
  <2> SUFFICES ASSUME SyncIInv PROVE SyncSafe
    OBVIOUS
  <2> DEFINE O == {c \in CPUs : OwnersOn(c) # {}}
  <2>1. \A c \in CPUs : c \in O <=> Owner(c)
    BY OwnersAre
  <2>2. Cardinality(O) <= 1 /\ locked = Cardinality(O)
    <3>1. CASE \E c \in CPUs : Owner(c)
      <4>1. PICK c \in CPUs : Owner(c)
        BY <3>1
      <4>2. O = {c}
        BY <2>1, <4>1 DEF SyncIInv, LockOK
      <4>3. locked = 1
        BY <3>1 DEF SyncIInv, LockOK
      <4>4. Cardinality(O) = 1
        BY <4>2, FS_Singleton
      <4> HIDE DEF O
      <4> QED
        BY <4>3, <4>4
    <3>2. CASE ~ \E c \in CPUs : Owner(c)
      <4>1. O = {}
        BY <2>1, <3>2
      <4>2. locked = 0
        BY <3>2 DEF SyncIInv, LockOK, SyncTypeOK
      <4>3. Cardinality(O) = 0
        BY <4>1, FS_EmptySet
      <4> HIDE DEF O
      <4> QED
        BY <4>2, <4>3
    <3> QED
      BY <3>1, <3>2
  <2>3. \A c \in CPUs : CpuIdle(c) => ie[c] = ie0[c]
    <3> SUFFICES ASSUME NEW c \in CPUs, CpuIdle(c) PROVE ie[c] = ie0[c]
      OBVIOUS
    <3>1. Len(stk[c]) = 1 /\ Thr(c) = Frame("thread", "idle")
      BY DEF CpuIdle, Thr
    <3> QED
      BY <3>1 DEF SyncIInv, CpusOK, ThreadOK, Frame, Masked
  <2>4. \A c \in CPUs : OwnersOn(c) # {} => ~ ie[c] /\ OwnersOn(c) = {Len(stk[c])}
    BY OwnersAre
  <2> QED
    BY <2>2, <2>3, <2>4 DEF SyncSafe, SyncIInv, SyncTypeOK, RefsOK
<1> QED
  BY <1>1, Invariance, PTL
-----------------------------------------------------------------------------
(* The inductive invariant of Mutex.                                       *)

Labels == {"run", "lock", "own", "ev_init", "ev_enqueued", "ev_unlocked", "ev_wait", "done"}

\* Labels of a thread that prepares to wait while it is on the CPU.
Awake == {"ev_init", "ev_enqueued", "ev_unlocked"}

PcOK ==
    /\ \A t \in Workers : pc[t] \in Awake => t = k.cur
    /\ k.cur = Idle \/ pc[k.cur] \notin Awake => OnCpu(k)
    /\ At("ev_init") => Off(k, k.cur) /\ k.state[k.cur] = "WAIT"
    /\ At("ev_enqueued") \/ At("ev_unlocked") => ~ Off(k, k.cur)

MutexTypeOK == pc \in [Workers -> Labels] /\ resources \in Int /\ destroyed \in BOOLEAN

\* The counter of the mutex and its holder.
Exclusive ==
    ~ destroyed => \/ Holding = {} /\ resources = 1
                   \/ resources = 0 /\ \E t \in Workers : Holding = {t}

MutexIInv == MutexTypeOK /\ SchedOK(k) /\ PcOK /\ Exclusive /\ NoLostWakeup

LEMMA ExclusiveImplies == MutexIInv => MutualExclusion
<1> SUFFICES ASSUME MutexIInv, ~ destroyed
             PROVE  Cardinality(Holding) <= 1 /\ resources + Cardinality(Holding) = 1
  BY DEF MutualExclusion
<1>1. CASE Holding = {} /\ resources = 1
  <2>1. Cardinality(Holding) = 0
    BY <1>1, FS_EmptySet
  <2> QED
    BY <1>1, <2>1
<1>2. CASE resources = 0 /\ \E t \in Workers : Holding = {t}
  <2>1. Cardinality(Holding) = 1
    BY <1>2, FS_Singleton
  <2> QED
    BY <1>2, <2>1
<1> QED
  BY <1>1, <1>2 DEF MutexIInv, Exclusive

-----------------------------------------------------------------------------
(* Sleeping, waking and moving on.                                         *)

LEMMA Sleep ==
    ASSUME NEW s, SchedOK(s), OnCpu(s), s.cur # Idle, NEW stale, NEW q \in WaitQueues
    PROVE  LET v == sched_schedule(enque_wque_entry(wque_init_wque_entry(s, stale), q))
           IN  SchedOK(v) /\ OnCpu(v) /\ v.wq = [s.wq EXCEPT ![q] = Append(@, s.cur)]
<1> DEFINE i == wque_init_wque_entry(s, stale)
           e == enque_wque_entry(i, q)
           v == sched_schedule(e)
<1>1. SchedOK(i) /\ Off(i, i.cur) /\ i.cur = s.cur /\ i.wq = s.wq /\ i.state[i.cur] = "WAIT"
  BY InitEntry DEF OnCpu
<1> HIDE DEF i
<1>2. SchedOK(e) /\ MayLeave(e) /\ e.wq = [i.wq EXCEPT ![q] = Append(@, i.cur)]
  BY <1>1, Enqueue
<1> HIDE DEF e
<1>3. SchedOK(v) /\ OnCpu(v) /\ v.wq = e.wq
  BY <1>2, Schedule
<1> HIDE DEF v
<1>4. v.wq = [s.wq EXCEPT ![q] = Append(@, s.cur)]
  BY <1>1, <1>2, <1>3
<1> QED
  BY <1>3, <1>4 DEF v, e, i

LEMMA WakeCurrent ==
    ASSUME NEW s, SchedOK(s), NEW q \in WaitQueues, NEW r \in Reasons
    PROVE  LET v == wque_wakeup(s, q, r)
           IN  /\ SchedOK(v) /\ v.cur = s.cur /\ v.wq = [s.wq EXCEPT ![q] = <<>>]
               /\ Off(s, s.cur) => Off(v, v.cur) /\ v.state[v.cur] = s.state[s.cur]
               /\ ~ Off(s, s.cur) => ~ Off(v, v.cur)
               /\ OnCpu(s) => OnCpu(v)
<1> DEFINE v == wque_wakeup(s, q, r)
           W == Woken(s, q)
<1>1. SchedOK(v) /\ Wakes(s, v, q, r)
  BY Wakeup
<1> HIDE DEF v
<1>2. v.cur = s.cur /\ s.cur \in Threads /\ v.wq = [s.wq EXCEPT ![q] = <<>>]
  BY <1>1, SchedFields DEF Wakes, SchedOK
<1>3. W \subseteq Waiting(s)
  BY DEF Waiting, Woken
<1>4. Ready(v) = Ready(s) \cup W /\ Waiting(v) = Waiting(s) \ W
  BY <1>1 DEF Wakes
<1>5. v.state[s.cur] = IF s.cur \in W THEN "RUNABLE" ELSE s.state[s.cur]
  BY <1>1, <1>2 DEF Wakes
<1> HIDE DEF W
<1>6. Off(s, s.cur) => Off(v, v.cur) /\ v.state[v.cur] = s.state[s.cur]
  BY <1>2, <1>3, <1>4, <1>5 DEF Off
<1>7. ~ Off(s, s.cur) => ~ Off(v, v.cur)
  BY <1>2, <1>3, <1>4 DEF Off
<1> QED
  BY <1>1, <1>2, <1>6, <1>7 DEF OnCpu, v

\* The thread on the CPU goes to the label l.
LEMMA Moves ==
    ASSUME MutexTypeOK, k.cur \in Workers, NEW l \in Labels, goto(l)
    PROVE  /\ pc' \in [Workers -> Labels] /\ pc'[k.cur] = l
           /\ \A t \in Workers \ {k.cur} : pc'[t] = pc[t]
           /\ Holding' = IF l \in {"own", "ev_init", "ev_enqueued"} THEN Holding \cup {k.cur}
                         ELSE Holding \ {k.cur}
<1>1. /\ pc' \in [Workers -> Labels] /\ pc'[k.cur] = l
      /\ \A t \in Workers \ {k.cur} : pc'[t] = pc[t]
  BY DEF MutexTypeOK, goto
<1>2. Workers' = Workers
  BY DEF Workers
<1> QED
  BY <1>1, <1>2 DEF Holding

\* A thread that is not about to wait, and goes on or sleeps.
LEMMA PcKept ==
    ASSUME MutexIInv, k.cur \in Workers, NEW l \in Labels \ Awake, goto(l),
           SchedOK(k'), OnCpu(k')
    PROVE  PcOK'
<1>1. /\ pc' \in [Workers -> Labels] /\ pc'[k.cur] = l
      /\ \A t \in Workers \ {k.cur} : pc'[t] = pc[t]
  BY Moves DEF MutexIInv
<1>2. \A t \in Workers : pc'[t] \notin Awake
  BY <1>1 DEF MutexIInv, PcOK
<1>3. k'.cur = Idle \/ k'.cur \in Workers
  BY SchedFields DEF SchedOK, Workers
<1> QED
  BY <1>2, <1>3 DEF PcOK, At, Awake, Workers

LEMMA StartsRight == Init => MutexIInv
<1> SUFFICES ASSUME Init PROVE MutexIInv
  OBVIOUS
<1> DEFINE ts == SetToSeq(Workers)
           s == SchedInit
<1>1. /\ IsFiniteSet(Workers) /\ Workers \in SUBSET Threads /\ Cardinality(Workers) \in Nat
  BY SchedAssumption, FS_Subset, FS_CardinalityType DEF Workers
<1>2. ts \in Seq(Threads) /\ IsInjective(ts) /\ Range(ts) = Workers
  <2> DEFINE n == Cardinality(Workers)
             F == [1 .. n -> Workers]
  <2>1. \E f \in F : IsInjective(f)
    <3>1. ExistsBijection(1 .. n, Workers)
      <4>1. PICK j \in Nat : ExistsBijection(1 .. j, Workers)
        BY <1>1, FS_NatBijection
      <4>2. j = n
        BY <4>1, FS_CountingElements
      <4> QED
        BY <4>1, <4>2
    <3>2. PICK f \in F : IsInjective(f)
      BY <3>1 DEF ExistsBijection, Bijection, Injection, IsInjective
    <3> QED
      BY <3>2
  <2>2. ts \in F /\ IsInjective(ts)
    BY <2>1 DEF SetToSeq
  <2> HIDE DEF ts
  <2>3. ts \in Seq(Threads)
    BY <1>1, <2>2, SeqDef
  <2>4. Range(ts) = Workers
    <3>1. IsFiniteSet(1 .. n) /\ Cardinality(1 .. n) = n
      BY <1>1, FS_Interval
    <3>2. ts \in Injection(1 .. n, Workers)
      BY <2>2 DEF Injection, IsInjective
    <3>3. ts \in Surjection(1 .. n, Workers)
      BY <1>1, <3>1, <3>2, FS_Injection
    <3> QED
      BY <2>2, <3>3 DEF Surjection, Range
  <2> QED
    BY <2>2, <2>3, <2>4
<1>3. /\ s \in SchedType /\ s.cur = Idle /\ s.que = [p \in Prios |-> <<>>] /\ s.bitmap = {}
      /\ s.state = [t \in Threads |-> "RUNABLE"] /\ s.active = {} /\ s.fresh = Workers
      /\ s.wq = [q \in WaitQueues |-> <<>>]
  <2>1. <<>> \in Seq(Threads)
    BY EmptySeq
  <2> QED
    BY <2>1, SchedAssumption DEF SchedInit, SchedType, States, Reasons, Workers
<1> HIDE DEF s, ts
<1>4. Ready(s) = {} /\ BitmapExact(s) /\ \A p \in Prios : IsInjective(s.que[p]) /\ Range(s.que[p]) = {}
  BY <1>3 DEF Ready, Range, BitmapExact, IsInjective
<1>5. Added(s, k, ts, Len(ts))
  <2>1. k = AddThreads(s, ts)
    BY DEF Init, s, ts
  <2>2. \A t \in Range(ts) : t \notin Ready(s) /\ s.state[t] = "RUNABLE"
    BY <1>1, <1>2, <1>3, <1>4
  <2> QED
    BY <1>2, <1>3, <1>4, <2>1, <2>2, AddThreadsFacts
<1>6. /\ k \in SchedType /\ BitmapExact(k) /\ k.cur = Idle /\ k.active = {} /\ k.fresh = Workers
      /\ k.state = [t \in Threads |-> "RUNABLE"] /\ k.wq = [q \in WaitQueues |-> <<>>]
  BY <1>3, <1>5 DEF Added, SameThreads
<1>7. ASSUME NEW p \in Prios
      PROVE  IsInjective(k.que[p]) /\ Range(k.que[p]) = {t \in Workers : Prio[t] = p}
  <2>1. \A t \in Threads : (\E j \in 1 .. Len(ts) : ts[j] = t) <=> t \in Workers
    BY <1>2, LenProperties DEF Range
  <2>2. Range(k.que[p]) = Range(s.que[p]) \cup {t \in Threads : Prio[t] = p /\ \E j \in 1 .. Len(ts) : ts[j] = t}
    BY <1>5 DEF Added
  <2>3. IsInjective(k.que[p])
    BY <1>5 DEF Added
  <2> QED
    BY <1>1, <1>4, <2>1, <2>2, <2>3
<1>8. \A q \in WaitQueues : IsInjective(k.wq[q]) /\ Range(k.wq[q]) = {}
  BY <1>6 DEF Range, IsInjective
<1>9. Ready(k) = Workers /\ Waiting(k) = {}
  BY <1>1, <1>7, <1>8, PrioIs DEF Ready, Waiting
<1>10. QueuesOK(k)
  BY <1>1, <1>6, <1>7, <1>8 DEF QueuesOK
<1>11. OthersOK(k) /\ FlagsOK(k)
  BY <1>6, <1>9, SchedAssumption DEF OthersOK, FlagsOK, Workers
<1>12. OnCpu(k)
  BY <1>6, <1>9, SchedAssumption DEF OnCpu, Off, Workers
<1>13. MutexTypeOK /\ PcOK /\ Exclusive
  <2>1. MutexTypeOK
    <3>1. pc \in [Workers -> Labels] /\ resources \in Int
      BY DEF Init, Labels
    <3>2. destroyed \in BOOLEAN
      BY Zenon DEF Init
    <3> QED
      BY <3>1, <3>2 DEF MutexTypeOK
  <2>2. PcOK
    <3>1. \A t \in Workers : pc[t] \notin Awake
      BY DEF Init, Awake
    <3> QED
      BY <1>6, <1>12, <3>1 DEF PcOK, At
  <2>3. Exclusive
    BY DEF Init, Exclusive, Holding
  <2> QED
    BY <2>1, <2>2, <2>3
<1>14. NoLostWakeup
  BY <1>6, MutexAssumption DEF NoLostWakeup
<1> QED
  BY <1>6, <1>10, <1>11, <1>13, <1>14 DEF MutexIInv, SchedOK

-----------------------------------------------------------------------------
(* Each action keeps the invariant.                                        *)

LEMMA OnCpuNow ==
    ASSUME MutexIInv, NEW l \in Labels, At(l)
    PROVE  k.cur \in Workers /\ pc[k.cur] = l /\ (l \notin Awake => OnCpu(k))
BY SchedFields DEF MutexIInv, SchedOK, At, Workers, PcOK

\* The loop of mutex_lock.
LEMMA LockKeeps ==
    ASSUME MutexIInv, k.cur \in Workers, pc[k.cur] \in {"run", "lock", "ev_wait"},
           NEW kk, SchedOK(kk), OnCpu(kk), kk.cur = k.cur, kk.wq = k.wq,
           LockOrWait(kk, "own"), UNCHANGED destroyed
    PROVE  MutexIInv'
<1>1. /\ MutexTypeOK /\ {"mtx", "ev", "io"} \subseteq WaitQueues /\ k.cur # Idle
      /\ Exclusive /\ k.cur \notin Holding /\ "own" \in Labels \ Awake /\ "lock" \in Labels \ Awake
  BY MutexAssumption DEF MutexIInv, Holding, Workers, Labels, Awake
<1>2. CASE /\ lock_mutex_common /\ resources' = resources - 1 /\ k' = kk /\ goto("own")
  <2>1. SchedOK(k') /\ OnCpu(k') /\ k'.wq = k.wq
    BY <1>2
  <2>2. PcOK'
    BY <1>1, <1>2, <2>1, PcKept
  <2>3. pc' \in [Workers -> Labels] /\ Holding' = Holding \cup {k.cur}
    BY <1>1, <1>2, Moves
  <2>4. MutexTypeOK'
    BY <1>1, <1>2, <2>3 DEF MutexTypeOK, Workers, Labels
  <2>5. Exclusive'
    BY <1>1, <1>2, <2>3 DEF Exclusive, lock_mutex_common, MutexTypeOK
  <2>6. NoLostWakeup'
    BY <1>1, <1>2, <2>1 DEF MutexIInv, NoLostWakeup, lock_mutex_common, MutexTypeOK
  <2> QED
    BY <2>1, <2>2, <2>4, <2>5, <2>6 DEF MutexIInv
<1>3. ASSUME ~ lock_mutex_common, UNCHANGED resources, goto("lock"), NEW stale \in Residues,
             k' = sched_schedule(enque_wque_entry(wque_init_wque_entry(kk, stale), "mtx"))
      PROVE  MutexIInv'
  <2>1. SchedOK(k') /\ OnCpu(k')
    BY <1>1, <1>3, Sleep
  <2>2. PcOK'
    BY <1>1, <1>3, <2>1, PcKept
  <2>3. pc' \in [Workers -> Labels] /\ Holding' = Holding \ {k.cur}
    BY <1>1, <1>3, Moves
  <2>4. MutexTypeOK'
    BY <1>1, <1>3, <2>3 DEF MutexTypeOK, Workers, Labels
  <2>5. Exclusive'
    BY <1>1, <1>3, <2>3 DEF Exclusive
  <2>6. NoLostWakeup'
    BY <1>3 DEF NoLostWakeup, lock_mutex_common
  <2> QED
    BY <2>1, <2>2, <2>4, <2>5, <2>6 DEF MutexIInv
<1> QED
  BY <1>2, <1>3 DEF LockOrWait

\* The mutex is given up and its waiters are woken, the thread goes to l.
LEMMA UnlockKeeps ==
    ASSUME MutexIInv, k.cur \in Workers, pc[k.cur] \in {"own", "ev_enqueued"},
           NEW l \in {"run", "ev_unlocked"}, goto(l), PcOK',
           resources' = resources + 1, k' = WakeWaiters(k), UNCHANGED destroyed
    PROVE  MutexIInv'
<1>1. MutexTypeOK /\ "mtx" \in WaitQueues /\ "RELEASED" \in Reasons /\ l \in Labels
  BY MutexAssumption DEF MutexIInv, Reasons, Labels
<1>2. SchedOK(k') /\ k'.wq = [k.wq EXCEPT !["mtx"] = <<>>]
  BY <1>1, WakeCurrent DEF MutexIInv, WakeWaiters
<1>3. k'.wq["mtx"] = <<>>
  BY <1>1, <1>2, SchedFields DEF MutexIInv, SchedOK
<1>4. pc' \in [Workers -> Labels] /\ Holding' = Holding \ {k.cur} /\ k.cur \in Holding
  BY <1>1, Moves DEF Holding
<1>5. MutexTypeOK'
  BY <1>1, <1>4 DEF MutexTypeOK, Workers, Labels
<1>6. Exclusive'
  BY <1>4 DEF MutexIInv, Exclusive
<1>7. NoLostWakeup'
  BY <1>3 DEF NoLostWakeup
<1> QED
  BY <1>2, <1>5, <1>6, <1>7 DEF MutexIInv

LEMMA MutexStepKeeps == MutexIInv /\ MutexStep => MutexIInv'
<1> SUFFICES ASSUME MutexIInv, MutexStep PROVE MutexIInv'
  OBVIOUS
<1>1. CASE mutex_lock
  <2>1. At("run") /\ LockOrWait(k, "own") /\ UNCHANGED destroyed
    BY <1>1 DEF mutex_lock
  <2>2. k.cur \in Workers /\ pc[k.cur] = "run" /\ OnCpu(k) /\ SchedOK(k)
    BY <2>1, OnCpuNow DEF Labels, Awake, MutexIInv
  <2> QED
    BY <2>1, <2>2, LockKeeps
<1>2. CASE LockWoken
  <2> DEFINE kk == kassert(k, k.reason[k.cur] = "RELEASED")
  <2>1. At("lock") /\ UNCHANGED destroyed
    BY <1>2 DEF LockWoken
  <2>2. k.cur \in Workers /\ pc[k.cur] = "lock" /\ OnCpu(k) /\ SchedOK(k)
    BY <2>1, OnCpuNow DEF Labels, Awake, MutexIInv
  <2>3. CASE LockOrWait(kk, "own")
    <3>1. SchedOK(kk) /\ kk.cur = k.cur /\ kk.wq = k.wq /\ OnCpu(kk)
      <4> DEFINE b == (k.reason[k.cur] = "RELEASED")
      <4>1. b \in BOOLEAN
        OBVIOUS
      <4> HIDE DEF b
      <4>2. SchedOK(kassert(k, b)) /\ kassert(k, b).cur = k.cur /\ kassert(k, b).wq = k.wq /\ OnCpu(kassert(k, b))
        BY <2>2, <4>1, AssertKeeps
      <4> QED
        BY <4>2 DEF b
    <3> HIDE DEF kk
    <3> QED
      BY <2>1, <2>2, <2>3, <3>1, LockKeeps
  <2>4. CASE goto("run") /\ UNCHANGED <<k, resources>>
    <3>1. MutexTypeOK /\ "run" \in Labels \ Awake
      BY DEF MutexIInv, Labels, Awake
    <3>2. PcOK'
      BY <2>2, <2>4, <3>1, PcKept
    <3>3. pc' \in [Workers -> Labels] /\ Holding' = Holding \ {k.cur} /\ k.cur \notin Holding
      BY <2>2, <2>4, <3>1, Moves DEF Holding
    <3>4. MutexTypeOK' /\ Exclusive' /\ NoLostWakeup'
      BY <2>1, <2>4, <3>1, <3>3 DEF MutexIInv, MutexTypeOK, Exclusive, NoLostWakeup, Workers, Labels
    <3> QED
      BY <2>2, <2>4, <3>2, <3>4 DEF MutexIInv
  <2> QED
    BY <1>2, <2>3, <2>4 DEF LockWoken
<1>3. CASE mutex_try_lock
  <2>1. LockOrWait(k, "own") /\ At("run") /\ UNCHANGED destroyed
    BY <1>3 DEF mutex_try_lock, LockOrWait
  <2>2. k.cur \in Workers /\ pc[k.cur] = "run" /\ OnCpu(k) /\ SchedOK(k)
    BY <2>1, OnCpuNow DEF Labels, Awake, MutexIInv
  <2> QED
    BY <2>1, <2>2, LockKeeps
<1>4. CASE mutex_unlock
  <2>1. /\ At("own") /\ resources' = resources + 1 /\ k' = WakeWaiters(k) /\ goto("run")
        /\ UNCHANGED destroyed
    BY <1>4 DEF mutex_unlock
  <2>2. k.cur \in Workers /\ pc[k.cur] = "own" /\ OnCpu(k) /\ SchedOK(k)
    BY <2>1, OnCpuNow DEF Labels, Awake, MutexIInv
  <2>3. SchedOK(k') /\ OnCpu(k')
    BY <2>1, <2>2, MutexAssumption, WakeCurrent DEF WakeWaiters, Reasons
  <2>4. PcOK'
    BY <2>1, <2>2, <2>3, PcKept DEF Labels, Awake
  <2> QED
    BY <2>1, <2>2, <2>4, UnlockKeeps
<1>5. CASE mutex_destroy
  <2>1. /\ (At("own") \/ At("run")) /\ k' = wque_wakeup(k, "mtx", "DESTROYED") /\ resources' = 0
        /\ destroyed' = TRUE /\ goto("run")
    BY <1>5 DEF mutex_destroy
  <2>2. k.cur \in Workers /\ OnCpu(k) /\ SchedOK(k)
    BY <2>1, OnCpuNow DEF Labels, Awake, MutexIInv
  <2>3. SchedOK(k') /\ OnCpu(k')
    BY <2>1, <2>2, MutexAssumption, WakeCurrent DEF Reasons
  <2>4. PcOK'
    BY <2>1, <2>2, <2>3, PcKept DEF Labels, Awake
  <2>5. MutexTypeOK'
    BY <2>1, <2>2, Moves DEF MutexIInv, MutexTypeOK, Labels, Workers
  <2>6. Exclusive' /\ NoLostWakeup'
    BY <2>1 DEF Exclusive, NoLostWakeup
  <2> QED
    BY <2>3, <2>4, <2>5, <2>6 DEF MutexIInv
<1> QED
  BY <1>1, <1>2, <1>3, <1>4, <1>5 DEF MutexStep

LEMMA EventStepKeeps == MutexIInv /\ EventStep => MutexIInv'
<1> SUFFICES ASSUME MutexIInv, EventStep PROVE MutexIInv'
  OBVIOUS
<1> USE MutexAssumption
<1>1. CASE EventInit
  <2>1. At("own") /\ goto("ev_init") /\ UNCHANGED <<resources, destroyed>>
    BY <1>1 DEF EventInit
  <2>2. PICK stale \in Residues : k' = wque_init_wque_entry(k, stale)
    BY <1>1 DEF EventInit
  <2>3. k.cur \in Workers /\ pc[k.cur] = "own" /\ OnCpu(k) /\ SchedOK(k) /\ k.cur # Idle
    BY <2>1, OnCpuNow DEF Labels, Awake, MutexIInv, Workers
  <2>4. /\ SchedOK(k') /\ Off(k', k'.cur) /\ k'.cur = k.cur /\ k'.wq = k.wq
        /\ k'.state[k'.cur] = "WAIT"
    BY <2>2, <2>3, InitEntry DEF OnCpu
  <2>5. /\ pc' \in [Workers -> Labels] /\ pc'[k.cur] = "ev_init"
        /\ \A t \in Workers \ {k.cur} : pc'[t] = pc[t]
        /\ Holding' = Holding \cup {k.cur} /\ k.cur \in Holding
    BY <2>1, <2>3, Moves DEF MutexIInv, Labels, Holding
  <2>6. PcOK'
    BY <2>3, <2>4, <2>5 DEF MutexIInv, PcOK, At, Awake, Workers
  <2>7. MutexTypeOK' /\ Exclusive' /\ NoLostWakeup'
    BY <2>1, <2>4, <2>5 DEF MutexIInv, MutexTypeOK, Exclusive, NoLostWakeup, Workers, Labels
  <2> QED
    BY <2>4, <2>6, <2>7 DEF MutexIInv
<1>2. CASE EventEnqueue
  <2>1. /\ At("ev_init") /\ goto("ev_enqueued") /\ UNCHANGED <<resources, destroyed>>
        /\ k' = enque_wque_entry(k, "ev")
    BY <1>2 DEF EventEnqueue
  <2>2. /\ k.cur \in Workers /\ pc[k.cur] = "ev_init" /\ SchedOK(k) /\ k.cur # Idle
        /\ Off(k, k.cur) /\ k.state[k.cur] = "WAIT"
    BY <2>1, OnCpuNow DEF Labels, MutexIInv, PcOK, Workers
  <2>3. /\ SchedOK(k') /\ ~ Off(k', k'.cur) /\ k'.cur = k.cur
        /\ k'.wq = [k.wq EXCEPT !["ev"] = Append(@, k.cur)]
    BY <2>1, <2>2, Enqueue
  <2>4. /\ pc' \in [Workers -> Labels] /\ pc'[k.cur] = "ev_enqueued"
        /\ \A t \in Workers \ {k.cur} : pc'[t] = pc[t]
        /\ Holding' = Holding \cup {k.cur} /\ k.cur \in Holding
    BY <2>1, <2>2, Moves DEF MutexIInv, Labels, Holding
  <2>5. PcOK'
    BY <2>2, <2>3, <2>4 DEF MutexIInv, PcOK, At, Awake, Workers
  <2>6. k'.wq["mtx"] = k.wq["mtx"]
    BY <2>2, <2>3, SchedFields DEF SchedOK
  <2>7. MutexTypeOK' /\ Exclusive' /\ NoLostWakeup'
    BY <2>1, <2>4, <2>6 DEF MutexIInv, MutexTypeOK, Exclusive, NoLostWakeup, Workers, Labels
  <2> QED
    BY <2>3, <2>5, <2>7 DEF MutexIInv
<1>3. CASE EventUnlock
  <2>1. /\ At("ev_enqueued") /\ goto("ev_unlocked") /\ UNCHANGED destroyed
        /\ resources' = resources + 1 /\ k' = WakeWaiters(k)
    BY <1>3 DEF EventUnlock
  <2>2. /\ k.cur \in Workers /\ pc[k.cur] = "ev_enqueued" /\ SchedOK(k) /\ k.cur # Idle
        /\ ~ Off(k, k.cur)
    BY <2>1, OnCpuNow DEF Labels, MutexIInv, PcOK, Workers
  <2>3. SchedOK(k') /\ k'.cur = k.cur /\ ~ Off(k', k'.cur)
    BY <2>1, <2>2, WakeCurrent, ZenonT(60) DEF WakeWaiters, Reasons
  <2>4. /\ pc' \in [Workers -> Labels] /\ pc'[k.cur] = "ev_unlocked"
        /\ \A t \in Workers \ {k.cur} : pc'[t] = pc[t]
    BY <2>1, <2>2, Moves DEF MutexIInv, Labels
  <2>5. PcOK'
    BY <2>2, <2>3, <2>4 DEF MutexIInv, PcOK, At, Awake, Workers
  <2> QED
    BY <2>1, <2>2, <2>5, UnlockKeeps
<1>4. CASE EventSchedule
  <2>1. /\ At("ev_unlocked") /\ goto("ev_wait") /\ UNCHANGED <<resources, destroyed>>
        /\ k' = sched_schedule(k)
    BY <1>4 DEF EventSchedule
  <2>2. /\ k.cur \in Workers /\ pc[k.cur] = "ev_unlocked" /\ SchedOK(k) /\ k.cur # Idle
        /\ ~ Off(k, k.cur)
    BY <2>1, OnCpuNow DEF Labels, MutexIInv, PcOK, Workers
  <2>3. MayLeave(k)
    BY <2>2, QueuedThreads DEF MayLeave, Off
  <2>4. SchedOK(k') /\ OnCpu(k') /\ k'.wq = k.wq
    BY <2>1, <2>2, <2>3, Schedule
  <2>5. PcOK'
    BY <2>1, <2>2, <2>4, PcKept DEF Labels, Awake
  <2>6. /\ pc' \in [Workers -> Labels] /\ Holding' = Holding \ {k.cur} /\ k.cur \notin Holding
    BY <2>1, <2>2, Moves DEF MutexIInv, Labels, Holding
  <2>7. MutexTypeOK' /\ Exclusive' /\ NoLostWakeup'
    BY <2>1, <2>4, <2>6 DEF MutexIInv, MutexTypeOK, Exclusive, NoLostWakeup, Workers, Labels
  <2> QED
    BY <2>4, <2>5, <2>7 DEF MutexIInv
<1>5. CASE EventWoken
  <2>1. At("ev_wait") /\ LockOrWait(k, "own") /\ UNCHANGED destroyed
    BY <1>5 DEF EventWoken
  <2>2. k.cur \in Workers /\ pc[k.cur] = "ev_wait" /\ OnCpu(k) /\ SchedOK(k)
    BY <2>1, OnCpuNow DEF Labels, Awake, MutexIInv
  <2> QED
    BY <2>1, <2>2, LockKeeps
<1> QED
  BY <1>1, <1>2, <1>3, <1>4, <1>5 DEF EventStep

\* The rest of an action that moves no thread and leaves the mutex alone.
LEMMA RestKept ==
    ASSUME MutexIInv, UNCHANGED <<pc, resources, destroyed>>, SchedOK(k'), PcOK',
           resources > 0 => k'.wq["mtx"] = <<>>
    PROVE  MutexIInv'
BY DEF MutexIInv, MutexTypeOK, Exclusive, Holding, NoLostWakeup, Workers, Labels

LEMMA OtherStepKeeps ==
    MutexIInv /\ (SleepHolding \/ Signal("ev") \/ Signal("io") \/ Exit \/ IdleStep) => MutexIInv'
<1> USE MutexAssumption
<1>1. ASSUME MutexIInv, SleepHolding PROVE MutexIInv'
  <2>1. At("own") /\ UNCHANGED <<pc, resources, destroyed>>
    BY <1>1 DEF SleepHolding
  <2>2. PICK stale \in Residues :
          k' = sched_schedule(enque_wque_entry(wque_init_wque_entry(k, stale), "io"))
    BY <1>1 DEF SleepHolding
  <2>3. k.cur \in Workers /\ pc[k.cur] = "own" /\ OnCpu(k) /\ SchedOK(k) /\ k.cur # Idle
    BY <1>1, <2>1, OnCpuNow DEF Labels, Awake, MutexIInv, Workers
  <2>4. SchedOK(k') /\ OnCpu(k') /\ k'.wq = [k.wq EXCEPT !["io"] = Append(@, k.cur)]
    BY <2>2, <2>3, Sleep
  <2>5. goto("own")
    BY <1>1, <2>1, <2>3 DEF goto, MutexIInv, MutexTypeOK
  <2>6. PcOK'
    BY <1>1, <2>3, <2>4, <2>5, PcKept DEF Labels, Awake
  <2>7. k'.wq["mtx"] = k.wq["mtx"]
    BY <2>3, <2>4, SchedFields DEF SchedOK
  <2> QED
    BY <1>1, <2>1, <2>4, <2>6, <2>7, RestKept DEF MutexIInv, NoLostWakeup
<1>2. ASSUME MutexIInv, NEW q \in {"ev", "io"}, Signal(q) PROVE MutexIInv'
  <2>1. UNCHANGED <<pc, resources, destroyed>> /\ k' = wque_wakeup(k, q, "RELEASED")
    BY <1>2 DEF Signal
  <2>2. SchedOK(k) /\ q \in WaitQueues
    BY <1>2 DEF MutexIInv
  <2>3. /\ SchedOK(k') /\ k'.cur = k.cur /\ k'.wq = [k.wq EXCEPT ![q] = <<>>]
        /\ Off(k, k.cur) => Off(k', k'.cur) /\ k'.state[k'.cur] = k.state[k.cur]
        /\ ~ Off(k, k.cur) => ~ Off(k', k'.cur)
        /\ OnCpu(k) => OnCpu(k')
    BY <2>1, <2>2, WakeCurrent DEF Reasons
  <2>4. PcOK'
    BY <1>2, <2>1, <2>3 DEF MutexIInv, PcOK, At, Workers
  <2>5. k'.wq["mtx"] = k.wq["mtx"]
    BY <1>2, <2>2, <2>3, SchedFields DEF SchedOK
  <2> QED
    BY <1>2, <2>1, <2>3, <2>4, <2>5, RestKept DEF MutexIInv, NoLostWakeup
<1>3. ASSUME MutexIInv, Exit PROVE MutexIInv'
  <2> DEFINE e == [k EXCEPT !.state[k.cur] = "EXIT"]
  <2>1. At("run") /\ k' = sched_schedule(e) /\ goto("done") /\ UNCHANGED <<resources, destroyed>>
    BY <1>3 DEF Exit
  <2>2. k.cur \in Workers /\ pc[k.cur] = "run" /\ OnCpu(k) /\ SchedOK(k) /\ k.cur # Idle
    BY <1>3, <2>1, OnCpuNow DEF Labels, Awake, MutexIInv, Workers
  <2>3. OwnState(k, e, "EXIT")
    <3> DEFINE f == Make(k.cur, k.state, k.que, k.bitmap, k.delayed, k.active, k.fresh, k.wq,
                         k.reason, k.panic)
               state == [k.state EXCEPT ![k.cur] = "EXIT"]
    <3>1. k \in SchedType /\ k = f /\ state \in [Threads -> States]
      BY <2>2, SchedFields DEF SchedOK, States
    <3>2. e = [k EXCEPT !.state = state]
      OBVIOUS
    <3> HIDE DEF e, state
    <3>3. e = Make(k.cur, state, k.que, k.bitmap, k.delayed, k.active, k.fresh, k.wq,
                   k.reason, k.panic)
      <4>1. e = [f EXCEPT !.state = state]
        BY <3>1, <3>2, Zenon
      <4> QED
        BY <4>1 DEF Make
    <3>4. e \in SchedType
      BY <3>1, <3>3, SchedFields, MakeSched
    <3> QED
      BY <3>3, <3>4 DEF OwnState, Make, state
  <2> HIDE DEF e
  <2>4. SchedOK(e) /\ e.wq = k.wq /\ e.state[e.cur] = "EXIT"
    BY <2>2, <2>3, OwnStateKeeps DEF OnCpu, States
  <2>5. SchedOK(k') /\ OnCpu(k') /\ k'.wq = k.wq
    BY <2>1, <2>4, Schedule DEF MayLeave
  <2>6. PcOK'
    BY <1>3, <2>1, <2>2, <2>5, PcKept DEF Labels, Awake
  <2>7. /\ pc' \in [Workers -> Labels] /\ Holding' = Holding \ {k.cur} /\ k.cur \notin Holding
    BY <1>3, <2>1, <2>2, Moves DEF MutexIInv, Labels, Holding
  <2>8. MutexTypeOK' /\ Exclusive' /\ NoLostWakeup'
    BY <1>3, <2>1, <2>5, <2>7 DEF MutexIInv, MutexTypeOK, Exclusive, NoLostWakeup, Workers, Labels
  <2> QED
    BY <2>5, <2>6, <2>8 DEF MutexIInv
<1>4. ASSUME MutexIInv, IdleStep PROVE MutexIInv'
  <2>1. k.cur = Idle /\ UNCHANGED <<pc, resources, destroyed>> /\ k' \in {k, sched_schedule(k)}
    BY <1>4 DEF IdleStep, thr_idle_loop
  <2>2. SchedOK(k) /\ OnCpu(k)
    BY <1>4, <2>1 DEF MutexIInv, PcOK
  <2>3. MayLeave(k)
    BY <2>1, <2>2 DEF MayLeave, OnCpu
  <2>4. SchedOK(k') /\ OnCpu(k') /\ k'.wq = k.wq
    BY <2>1, <2>2, <2>3, Schedule
  <2>5. \A t \in Workers : pc'[t] \notin Awake
    BY <1>4, <2>1 DEF MutexIInv, PcOK, Workers
  <2>6. k'.cur = Idle \/ k'.cur \in Workers
    BY <2>4, SchedFields DEF SchedOK, Workers
  <2>7. PcOK'
    BY <2>4, <2>5, <2>6 DEF PcOK, At, Awake, Workers
  <2> QED
    BY <1>4, <2>1, <2>4, <2>7, RestKept DEF MutexIInv, NoLostWakeup
<1> QED
  BY <1>1, <1>2, <1>3, <1>4

-----------------------------------------------------------------------------
(* The theorems.                                                           *)

(* Invariance.  The queues of the scheduler are as their states say, a     *)
(* thread that prepares to wait is on the CPU and queued as far as it has  *)
(* come (wque_wait_on_event_with_mutex), and the counter of the mutex      *)
(* tells whether there is a holder (kern/mutex.c).                         *)
THEOREM MutexInvariance == Spec => []MutexIInv
<1>1. MutexIInv /\ [Next]_vars => MutexIInv'
  <2> SUFFICES ASSUME MutexIInv, [Next]_vars PROVE MutexIInv'
    OBVIOUS
  <2>1. CASE Next
    BY <2>1, MutexStepKeeps, EventStepKeeps, OtherStepKeeps DEF Next
  <2>2. CASE UNCHANGED vars
    BY <2>2 DEF vars, MutexIInv, MutexTypeOK, PcOK, At, Exclusive, Holding, NoLostWakeup, Workers, Labels, Awake
  <2> QED
    BY <2>1, <2>2
<1> QED
  BY <1>1, StartsRight, PTL DEF Spec

(* At most one thread is between mutex_lock and mutex_unlock, and the      *)
(* counter of the mutex says whether there is one.                         *)
THEOREM AlwaysExclusive == Spec => []MutualExclusion
BY MutexInvariance, ExclusiveImplies, PTL

(* Nobody sleeps on a free mutex: mutex_unlock leaves no waiter behind.    *)
THEOREM NoWakeupLost == Spec => []NoLostWakeup
<1>1. MutexIInv => NoLostWakeup
  BY DEF MutexIInv
<1> QED
  BY <1>1, MutexInvariance, PTL

(* Threads are queued where their states say, once, and the bitmap of the  *)
(* ready queue is exact (kern/sched-queue.c), also when a wakeup comes     *)
(* while the waiter has the CPU.                                           *)
THEOREM QueuesAlwaysConsistent == Spec => []QueuesConsistent
<1>1. ASSUME MutexIInv PROVE QueuesConsistent
  <2>1. SchedOK(k)
    BY <1>1 DEF MutexIInv
  <2>2. QueuedWhereStateSays(k)
    <3> SUFFICES ASSUME NEW t \in Threads
                 PROVE  /\ t \in Ready(k) => k.state[t] = "RUNABLE" /\ Cardinality(Places(k, t)) = 1
                                             /\ t \in Range(k.que[Prio[t]])
                        /\ t \in Waiting(k) => k.state[t] = "WAIT"
                        /\ k.state[t] = "RUNABLE" /\ t \notin {k.cur, Idle} => t \in Ready(k)
                        /\ k.state[t] = "WAIT" /\ t # k.cur => t \in Waiting(k)
                        /\ k.state[t] = "RUN" => t = k.cur
      BY DEF QueuedWhereStateSays
    <3>1. t \in Ready(k) => Cardinality(Places(k, t)) = 1 /\ t \in Range(k.que[Prio[t]])
      BY <2>1, QueuedOnce
    <3>2. /\ t \in Ready(k) => k.state[t] = "RUNABLE"
          /\ t \in Waiting(k) => k.state[t] = "WAIT"
      BY <2>1, QueuedThreads
    <3> QED
      BY <2>1, <3>1, <3>2 DEF SchedOK, OthersOK
  <2> QED
    BY <2>1, <2>2 DEF QueuesConsistent, SchedOK
<1> QED
  BY <1>1, MutexInvariance, PTL

-----------------------------------------------------------------------------
(* What insertion and removal do to a sequence, element by element.        *)

LEMMA InsertAtIs ==
    ASSUME NEW S, NEW s \in Seq(S), NEW i \in 1..(Len(s) + 1), NEW x \in S
    PROVE  /\ InsertAt(s, i, x) \in Seq(S) /\ Len(InsertAt(s, i, x)) = Len(s) + 1
           /\ \A j \in 1..(Len(s) + 1) :
                InsertAt(s, i, x)[j] = IF j < i THEN s[j] ELSE IF j = i THEN x ELSE s[j - 1]
<1> DEFINE n == Len(s)
           r == InsertAt(s, i, x)
<1>0. n \in Nat /\ DOMAIN s = 1..n /\ \A j \in 1..n : s[j] \in S
  BY LenProperties, ElementOfSeq
<1> DEFINE a == SubSeq(s, 1, i - 1)
           b == <<x>>
           z == SubSeq(s, i, n)
<1>1. /\ a \in Seq(S) /\ Len(a) = i - 1
      /\ \A j \in 1..(i - 1) : a[j] = s[j]
  BY <1>0
<1>2. /\ z \in Seq(S) /\ Len(z) = n - i + 1
      /\ \A j \in 1..(n - i + 1) : z[j] = s[i + j - 1]
  <2>1. i \in Int /\ n \in Int /\ i <= n + 1 /\ \A j \in i..n : s[j] \in S
    BY <1>0
  <2> QED
    BY <2>1, SubSeqProperties
<1>3. b \in Seq(S) /\ Len(b) = 1 /\ b[1] = x
  OBVIOUS
<1> HIDE DEF a, b, z
<1>4. /\ a \o b \in Seq(S) /\ Len(a \o b) = i
      /\ \A j \in 1..i : (a \o b)[j] = IF j < i THEN s[j] ELSE x
  <2>1. /\ a \o b \in Seq(S) /\ Len(a \o b) = Len(a) + Len(b)
        /\ \A j \in 1..(Len(a) + Len(b)) :
             (a \o b)[j] = IF j <= Len(a) THEN a[j] ELSE b[j - Len(a)]
    BY <1>1, <1>3, ConcatProperties
  <2>2. Len(a) + Len(b) = i
    BY <1>1, <1>3
  <2>3. ASSUME NEW j \in 1..i PROVE (a \o b)[j] = IF j < i THEN s[j] ELSE x
    <3>1. CASE j < i
      BY <1>1, <2>1, <2>2, <3>1
    <3>2. CASE j = i
      <4>1. ~ (j <= Len(a)) /\ j - Len(a) = 1
        BY <1>1, <3>2
      <4>2. j \in 1..(Len(a) + Len(b)) /\ ~ (j < i)
        BY <2>2, <3>2
      <4>3. (a \o b)[j] = b[1]
        BY <2>1, <4>1, <4>2
      <4> QED
        BY <1>3, <4>2, <4>3
    <3>3. j < i \/ j = i
      BY <1>0
    <3> QED
      BY <3>1, <3>2, <3>3
  <2> QED
    BY <2>1, <2>2, <2>3
<1> DEFINE y == a \o b
<1>5. y \in Seq(S) /\ Len(y) = i /\ \A j \in 1..i : y[j] = IF j < i THEN s[j] ELSE x
  BY <1>4
<1> HIDE DEF y
<1>6. /\ y \o z \in Seq(S) /\ Len(y \o z) = Len(y) + Len(z)
      /\ \A j \in 1..(Len(y) + Len(z)) :
           (y \o z)[j] = IF j <= Len(y) THEN y[j] ELSE z[j - Len(y)]
  BY <1>2, <1>5, ConcatProperties
<1>7. r = y \o z
  BY DEF InsertAt, a, b, y, z
<1>8. Len(y) + Len(z) = n + 1
  BY <1>0, <1>2, <1>5
<1>9. ASSUME NEW j \in 1..(n + 1)
      PROVE  (y \o z)[j] = IF j < i THEN s[j] ELSE IF j = i THEN x ELSE s[j - 1]
  <2>1. CASE j <= i
    <3>1. j \in 1..i
      BY <2>1
    <3> QED
      BY <1>5, <1>6, <1>8, <2>1, <3>1
  <2>2. CASE ~ (j <= i)
    <3>1. j - i \in 1..(n - i + 1) /\ i + (j - i) - 1 = j - 1
      BY <1>0, <2>2
    <3>2. (y \o z)[j] = z[j - i]
      BY <1>5, <1>6, <1>8, <2>2
    <3>3. z[j - i] = s[j - 1]
      BY <1>2, <3>1
    <3> QED
      BY <2>2, <3>2, <3>3
  <2> QED
    BY <2>1, <2>2
<1> QED
  BY <1>6, <1>7, <1>8, <1>9

LEMMA RemoveAtIs ==
    ASSUME NEW S, NEW s \in Seq(S), NEW i \in 1..Len(s)
    PROVE  /\ RemoveAt(s, i) \in Seq(S) /\ Len(RemoveAt(s, i)) = Len(s) - 1
           /\ \A j \in 1..(Len(s) - 1) : RemoveAt(s, i)[j] = IF j < i THEN s[j] ELSE s[j + 1]
<1> DEFINE n == Len(s)
           r == RemoveAt(s, i)
<1>0. n \in Nat /\ DOMAIN s = 1..n /\ \A j \in 1..n : s[j] \in S
  BY LenProperties, ElementOfSeq
<1> DEFINE a == SubSeq(s, 1, i - 1)
           z == SubSeq(s, i + 1, n)
<1>1. /\ a \in Seq(S) /\ Len(a) = i - 1
      /\ \A j \in 1..(i - 1) : a[j] = s[j]
  BY <1>0
<1>2. /\ z \in Seq(S) /\ Len(z) = n - i
      /\ \A j \in 1..(n - i) : z[j] = s[i + j]
  <2>1. i + 1 \in Int /\ n \in Int /\ \A j \in (i + 1)..n : s[j] \in S
    BY <1>0
  <2>2. /\ z \in Seq(S) /\ Len(z) = IF i + 1 <= n THEN n - (i + 1) + 1 ELSE 0
        /\ \A j \in 1..(n - (i + 1) + 1) : z[j] = s[(i + 1) + j - 1]
    BY <2>1, SubSeqProperties
  <2> HIDE DEF z
  <2>3. n \in Nat /\ i \in 1..n
    BY <1>0
  <2> HIDE DEF n
  <2>4. n - (i + 1) + 1 = n - i /\ (~ (i + 1 <= n) => n - i = 0)
    BY <2>3
  <2>5. Len(z) = n - i
    BY <2>2, <2>4
  <2>6. \A j \in 1..(n - i) : (i + 1) + j - 1 = i + j
    BY <2>3
  <2> QED
    BY <2>2, <2>4, <2>5, <2>6
<1> HIDE DEF a, z
<1>3. /\ a \o z \in Seq(S) /\ Len(a \o z) = Len(a) + Len(z)
      /\ \A j \in 1..(Len(a) + Len(z)) :
           (a \o z)[j] = IF j <= Len(a) THEN a[j] ELSE z[j - Len(a)]
  BY <1>1, <1>2, ConcatProperties
<1>4. r = a \o z
  BY DEF RemoveAt, a, z
<1>5. Len(a) + Len(z) = n - 1
  BY <1>0, <1>1, <1>2
<1>6. ASSUME NEW j \in 1..(n - 1)
      PROVE  (a \o z)[j] = IF j < i THEN s[j] ELSE s[j + 1]
  <2>1. CASE j < i
    BY <1>0, <1>1, <1>3, <1>5, <2>1
  <2>2. CASE ~ (j < i)
    <3>1. j - (i - 1) \in 1..(n - i) /\ ~ (j <= i - 1) /\ i + (j - (i - 1)) = j + 1
      BY <1>0, <2>2
    <3>2. (a \o z)[j] = z[j - (i - 1)]
      BY <1>1, <1>3, <1>5, <3>1
    <3> QED
      BY <1>2, <2>2, <3>1, <3>2
  <2> QED
    BY <2>1, <2>2
<1> QED
  BY <1>3, <1>4, <1>5, <1>6

(* The places at the ends.                                                 *)
LEMMA EndsAre ==
    ASSUME NEW S, NEW s \in Seq(S), NEW x \in S
    PROVE  /\ Append(s, x) = InsertAt(s, Len(s) + 1, x)
           /\ <<x>> \o s = InsertAt(s, 1, x)
           /\ s # <<>> => /\ Tail(s) = RemoveAt(s, 1) /\ Head(s) = s[1]
                          /\ Front(s) = RemoveAt(s, Len(s)) /\ Len(s) \in 1..Len(s)
<1> DEFINE n == Len(s)
<1>1. n \in Nat /\ \A j \in 1..n : s[j] \in S
  BY LenProperties, ElementOfSeq
<1>2. Append(s, x) = InsertAt(s, n + 1, x)
  <2> DEFINE a == Append(s, x)
             b == InsertAt(s, n + 1, x)
  <2>1. a \in Seq(S) /\ Len(a) = n + 1 /\ a[n + 1] = x /\ \A j \in 1..n : a[j] = s[j]
    BY AppendProperties
  <2>2. n + 1 \in 1..(n + 1)
    BY <1>1
  <2>3. /\ b \in Seq(S) /\ Len(b) = n + 1
        /\ \A j \in 1..(n + 1) : b[j] = IF j < n + 1 THEN s[j] ELSE IF j = n + 1 THEN x ELSE s[j - 1]
    <3> DEFINE i == n + 1
    <3>1. i \in 1..(n + 1) /\ b = InsertAt(s, i, x)
      BY <2>2
    <3> HIDE DEF i, b
    <3>2. /\ b \in Seq(S) /\ Len(b) = n + 1
          /\ \A j \in 1..(n + 1) : b[j] = IF j < i THEN s[j] ELSE IF j = i THEN x ELSE s[j - 1]
      <4>1. InsertAt(s, i, x) \in Seq(S) /\ Len(InsertAt(s, i, x)) = Len(s) + 1
        BY <3>1, InsertAtIs, SMTT(40)
      <4>2. \A j \in 1..(Len(s) + 1) :
              InsertAt(s, i, x)[j] = IF j < i THEN s[j] ELSE IF j = i THEN x ELSE s[j - 1]
        BY <3>1, InsertAtIs, SMTT(40)
      <4> QED
        BY <3>1, <4>1, <4>2
    <3> QED
      BY <3>2 DEF i
  <2> HIDE DEF a, b
  <2>4. \A j \in 1..(n + 1) : a[j] = b[j]
    <3> TAKE j \in 1..(n + 1)
    <3>1. CASE j = n + 1
      <4>1. ~ (j < n + 1)
        BY <1>1, <3>1
      <4> QED
        BY <2>1, <2>3, <3>1, <4>1
    <3>2. CASE j # n + 1
      <4>1. j < n + 1 /\ j \in 1..n
        BY <1>1, <3>2
      <4> QED
        BY <2>1, <2>3, <4>1
    <3> QED
      BY <3>1, <3>2
  <2>5. a = b
    BY <2>1, <2>3, <2>4, SeqEqual
  <2> QED
    BY <2>5 DEF a, b
<1>3. <<x>> \o s = InsertAt(s, 1, x)
  <2> DEFINE a == <<x>> \o s
             b == InsertAt(s, 1, x)
             o == <<x>>
  <2>0. o \in Seq(S) /\ Len(o) = 1 /\ o[1] = x
    OBVIOUS
  <2> HIDE DEF o
  <2>1. /\ o \o s \in Seq(S) /\ Len(o \o s) = 1 + n
        /\ \A j \in 1..(1 + n) : (o \o s)[j] = IF j <= 1 THEN o[j] ELSE s[j - 1]
    <3>1. /\ o \o s \in Seq(S) /\ Len(o \o s) = Len(o) + Len(s)
          /\ \A j \in 1..(Len(o) + Len(s)) : (o \o s)[j] = IF j <= Len(o) THEN o[j] ELSE s[j - Len(o)]
      BY <2>0, ConcatProperties
    <3> QED
      BY <2>0, <3>1
  <2>2. a = o \o s
    BY DEF o
  <2>3. /\ b \in Seq(S) /\ Len(b) = n + 1
        /\ \A j \in 1..(n + 1) : b[j] = IF j < 1 THEN s[j] ELSE IF j = 1 THEN x ELSE s[j - 1]
    <3>1. 1 \in 1..(n + 1)
      BY <1>1
    <3> QED
      BY <3>1, InsertAtIs
  <2> HIDE DEF a, b
  <2>4. a \in Seq(S) /\ Len(a) = n + 1
    BY <1>1, <2>1, <2>2
  <2>5. \A j \in 1..(n + 1) : a[j] = b[j]
    <3> TAKE j \in 1..(n + 1)
    <3>0. j \in 1..(1 + n)
      BY <1>1
    <3>1. CASE j = 1
      <4>1. ~ (j < 1) /\ j <= 1
        BY <3>1
      <4>2. a[j] = o[1]
        BY <2>1, <2>2, <3>0, <3>1, <4>1
      <4> QED
        BY <2>0, <2>3, <3>1, <4>1, <4>2
    <3>2. CASE j # 1
      <4>1. ~ (j <= 1) /\ ~ (j < 1)
        BY <1>1, <3>2
      <4> QED
        BY <2>1, <2>2, <2>3, <3>0, <3>2, <4>1
    <3> QED
      BY <3>1, <3>2
  <2>6. a = b
    BY <2>3, <2>4, <2>5, SeqEqual
  <2> QED
    BY <2>6 DEF a, b
<1>4. ASSUME s # <<>>
      PROVE  Tail(s) = RemoveAt(s, 1) /\ Head(s) = s[1] /\ Front(s) = RemoveAt(s, n) /\ n \in 1..n
  <2>1. n \in 1..n /\ 1 \in 1..n
    BY <1>1, <1>4, EmptySeq
  <2>2. Tail(s) = RemoveAt(s, 1)
    <3> DEFINE a == Tail(s)
               b == RemoveAt(s, 1)
    <3>1. a \in Seq(S) /\ Len(a) = n - 1 /\ \A j \in 1..(n - 1) : a[j] = s[j + 1]
      BY <1>4, HeadTailProperties
    <3>2. /\ b \in Seq(S) /\ Len(b) = n - 1
          /\ \A j \in 1..(n - 1) : b[j] = IF j < 1 THEN s[j] ELSE s[j + 1]
      BY <2>1, RemoveAtIs
    <3> HIDE DEF a, b
    <3>3. \A j \in 1..(n - 1) : a[j] = b[j]
      BY <1>1, <3>1, <3>2
    <3>4. a = b
      BY <3>1, <3>2, <3>3, SeqEqual
    <3> QED
      BY <3>4 DEF a, b
  <2>3. Front(s) = RemoveAt(s, n)
    <3> DEFINE a == Front(s)
               b == RemoveAt(s, n)
    <3>1. /\ a \in Seq(S) /\ Len(a) = n - 1
          /\ \A j \in 1..(n - 1) : a[j] = s[j]
      <4>1. 1 \in Int /\ n - 1 \in Int /\ \A j \in 1..(n - 1) : s[j] \in S
        BY <1>1
      <4>2. /\ a \in Seq(S) /\ Len(a) = IF 1 <= n - 1 THEN (n - 1) - 1 + 1 ELSE 0
            /\ \A j \in 1..((n - 1) - 1 + 1) : a[j] = s[1 + j - 1]
        BY <4>1, SubSeqProperties DEF Front
      <4> HIDE DEF a
      <4>3. n \in Nat /\ n \in 1..n
        BY <1>1, <2>1
      <4> HIDE DEF n
      <4>4. (n - 1) - 1 + 1 = n - 1 /\ (~ (1 <= n - 1) => n - 1 = 0) /\ \A j \in 1..(n - 1) : 1 + j - 1 = j
        BY <4>3
      <4> QED
        BY <4>2, <4>4
    <3>2. /\ b \in Seq(S) /\ Len(b) = n - 1
          /\ \A j \in 1..(n - 1) : b[j] = IF j < n THEN s[j] ELSE s[j + 1]
      BY <2>1, RemoveAtIs
    <3> HIDE DEF a, b
    <3>3. \A j \in 1..(n - 1) : a[j] = b[j]
      <4> TAKE j \in 1..(n - 1)
      <4>1. j < n
        BY <1>1
      <4> QED
        BY <3>1, <3>2, <4>1
    <3>4. a = b
      BY <3>1, <3>2, <3>3, SeqEqual
    <3> QED
      BY <3>4 DEF a, b
  <2>4. Head(s) = s[1]
    OBVIOUS
  <2> QED
    BY <2>1, <2>2, <2>3, <2>4
<1> QED
  BY <1>1, <1>2, <1>3, <1>4

-----------------------------------------------------------------------------
(* A chain: from h over the elements of q to e.  A queue is one that comes *)
(* back to its head.                                                       *)

Stop(q, h, e, i) == IF i \in 1..Len(q) THEN q[i] ELSE IF i = 0 THEN h ELSE e
NoRepeat(q) == \A i, j \in DOMAIN q : q[i] = q[j] => i = j

LEMMA StopFacts ==
    ASSUME NEW q \in Seq(Elems), NoRepeat(q), NEW h, NEW e, h \notin Elems, e \notin Elems
    PROVE  /\ Len(q) \in Nat /\ DOMAIN q = 1..Len(q)
           /\ Stop(q, h, e, 0) = h /\ Stop(q, h, e, Len(q) + 1) = e
           /\ \A i \in 1..Len(q) : Stop(q, h, e, i) = q[i] /\ q[i] \in Elems /\ q[i] \in Range(q)
           /\ \A i, j \in 0..Len(q) : Stop(q, h, e, i) = Stop(q, h, e, j) => i = j
           /\ \A i, j \in 1..(Len(q) + 1) : Stop(q, h, e, i) = Stop(q, h, e, j) => i = j
           /\ \A i \in 0..Len(q) : Stop(q, h, e, i) \in {h} \cup Range(q)
           /\ \A i \in 1..(Len(q) + 1) : Stop(q, h, e, i) \in {e} \cup Range(q)
           /\ Range(q) \subseteq Elems
<1> DEFINE n == Len(q)
<1>1. n \in Nat /\ DOMAIN q = 1..n /\ \A i \in 1..n : q[i] \in Elems
  BY LenProperties, ElementOfSeq
<1>2. \A i \in 1..n : q[i] \in Range(q)
  BY <1>1 DEF Range
<1>3. Range(q) \subseteq Elems
  BY <1>1 DEF Range
<1>4. \A i, j \in 1..n : q[i] = q[j] => i = j
  BY <1>1 DEF NoRepeat
<1> DEFINE P(i) == Stop(q, h, e, i)
<1>5. /\ P(0) = h /\ P(n + 1) = e
      /\ \A i \in 1..n : P(i) = q[i]
  BY <1>1 DEF Stop
<1> HIDE DEF n, P
<1>6. ASSUME NEW i \in 0..n, NEW j \in 0..n, P(i) = P(j) PROVE i = j
  <2>1. (i = 0 \/ i \in 1..n) /\ (j = 0 \/ j \in 1..n)
    BY <1>1
  <2> QED
    BY <1>1, <1>4, <1>5, <1>6, <2>1
<1>7. ASSUME NEW i \in 1..(n + 1), NEW j \in 1..(n + 1), P(i) = P(j) PROVE i = j
  <2>1. (i = n + 1 \/ i \in 1..n) /\ (j = n + 1 \/ j \in 1..n)
    BY <1>1
  <2> QED
    BY <1>1, <1>4, <1>5, <1>7, <2>1
<1>8. \A i \in 0..n : P(i) \in {h} \cup Range(q)
  <2> TAKE i \in 0..n
  <2>1. i = 0 \/ i \in 1..n
    BY <1>1
  <2> QED
    BY <1>2, <1>5, <2>1
<1>9. \A i \in 1..(n + 1) : P(i) \in {e} \cup Range(q)
  <2> TAKE i \in 1..(n + 1)
  <2>1. i = n + 1 \/ i \in 1..n
    BY <1>1
  <2> QED
    BY <1>2, <1>5, <2>1
<1> QED
  BY <1>1, <1>2, <1>3, <1>5, <1>6, <1>7, <1>8, <1>9 DEF n, P

LEMMA InsertedStop ==
    ASSUME NEW q \in Seq(Elems), NoRepeat(q), NEW h, NEW e, h \notin Elems, e \notin Elems,
           NEW i \in 1..(Len(q) + 1), NEW x \in Elems, x \notin Range(q)
    PROVE  LET r == InsertAt(q, i, x)
           IN  /\ r \in Seq(Elems) /\ NoRepeat(r) /\ Range(r) = Range(q) \cup {x} /\ Len(r) = Len(q) + 1
               /\ \A j \in 0..(Len(q) + 2) :
                    Stop(r, h, e, j) = IF j < i THEN Stop(q, h, e, j) ELSE IF j = i THEN x ELSE Stop(q, h, e, j - 1)
<1> DEFINE r == InsertAt(q, i, x)
           n == Len(q)
<1>1. n \in Nat /\ DOMAIN q = 1..n /\ (\A j \in 1..n : q[j] \in Elems /\ q[j] \in Range(q)) /\ i \in 1..(n + 1)
  BY LenProperties, ElementOfSeq DEF Range
<1>2. /\ r \in Seq(Elems) /\ Len(r) = n + 1 /\ DOMAIN r = 1..(n + 1)
      /\ \A j \in 1..(n + 1) : r[j] = IF j < i THEN q[j] ELSE IF j = i THEN x ELSE q[j - 1]
  <2>1. /\ r \in Seq(Elems) /\ Len(r) = n + 1
        /\ \A j \in 1..(n + 1) : r[j] = IF j < i THEN q[j] ELSE IF j = i THEN x ELSE q[j - 1]
    BY InsertAtIs
  <2> QED
    BY <2>1, LenProperties
<1>3. \A j, w \in 1..n : q[j] = q[w] => j = w
  BY <1>1 DEF NoRepeat
<1> HIDE DEF r, n
<1> DEFINE From(j) == IF j < i THEN j ELSE j - 1
<1>4. \A j \in 1..(n + 1) : j # i => From(j) \in 1..n /\ r[j] = q[From(j)]
  <2> TAKE j \in 1..(n + 1)
  <2> HAVE j # i
  <2>1. CASE j < i
    BY <1>1, <1>2, <2>1
  <2>2. CASE ~ (j < i)
    BY <1>1, <1>2, <2>2
  <2> QED
    BY <2>1, <2>2
<1>5. \A j, w \in 1..(n + 1) : j # i /\ w # i /\ From(j) = From(w) => j = w
  BY <1>1
<1>6. r[i] = x
  BY <1>1, <1>2
<1> HIDE DEF From
<1>7. NoRepeat(r)
  <2> SUFFICES ASSUME NEW j \in 1..(n + 1), NEW w \in 1..(n + 1), r[j] = r[w] PROVE j = w
    BY <1>2 DEF NoRepeat
  <2>1. CASE j # i /\ w # i
    BY <1>3, <1>4, <1>5, <2>1
  <2>2. CASE j = i \/ w = i
    BY <1>1, <1>4, <1>6, <2>2
  <2> QED
    BY <2>1, <2>2
<1>8. Range(r) = Range(q) \cup {x}
  <2>1. Range(r) = {r[j] : j \in 1..(n + 1)} /\ Range(q) = {q[j] : j \in 1..n}
    BY <1>1, <1>2 DEF Range
  <2>2. \A j \in 1..(n + 1) : r[j] \in {q[w] : w \in 1..n} \cup {x}
    BY <1>4, <1>6
  <2>3. ASSUME NEW w \in 1..n PROVE q[w] \in {r[j] : j \in 1..(n + 1)}
    <3>1. CASE w < i
      <4>1. w \in 1..(n + 1) /\ w # i /\ From(w) = w
        BY <1>1, <3>1 DEF From
      <4> QED
        BY <1>4, <4>1
    <3>2. CASE ~ (w < i)
      <4>1. w + 1 \in 1..(n + 1) /\ w + 1 # i /\ From(w + 1) = w
        BY <1>1, <3>2 DEF From
      <4> QED
        BY <1>4, <4>1
    <3> QED
      BY <3>1, <3>2
  <2> QED
    BY <1>1, <1>6, <2>1, <2>2, <2>3
<1>9. ASSUME NEW j \in 0..(n + 2)
      PROVE  Stop(r, h, e, j) = IF j < i THEN Stop(q, h, e, j) ELSE IF j = i THEN x ELSE Stop(q, h, e, j - 1)
  <2>1. CASE j = 0
    <3>1. j < i /\ j \notin 1..(n + 1) /\ j \notin 1..n
      BY <1>1, <2>1
    <3> QED
      BY <1>2, <2>1, <3>1 DEF Stop, n
  <2>2. CASE j = n + 2
    <3>1. ~ (j < i) /\ j # i /\ j # 0 /\ j \notin 1..(n + 1) /\ j - 1 # 0 /\ j - 1 \notin 1..n
      BY <1>1, <2>2
    <3> QED
      BY <1>2, <3>1 DEF Stop, n
  <2>3. CASE j \in 1..(n + 1)
    <3>1. Stop(r, h, e, j) = r[j]
      BY <1>2, <2>3 DEF Stop
    <3>2. CASE j < i
      <4>1. j \in 1..n
        BY <1>1, <2>3, <3>2
      <4> QED
        BY <1>2, <2>3, <3>1, <3>2, <4>1 DEF Stop, n
    <3>3. CASE j = i
      <4>1. ~ (j < i)
        BY <1>1, <3>3
      <4> QED
        BY <1>6, <3>1, <3>3, <4>1
    <3>4. CASE ~ (j < i) /\ j # i
      <4>1. j - 1 \in 1..n
        BY <1>1, <2>3, <3>4
      <4> QED
        BY <1>2, <2>3, <3>1, <3>4, <4>1 DEF Stop, n
    <3> QED
      BY <3>2, <3>3, <3>4
  <2>4. j = 0 \/ j = n + 2 \/ j \in 1..(n + 1)
    BY <1>1
  <2> QED
    BY <2>1, <2>2, <2>3, <2>4
<1> QED
  BY <1>2, <1>7, <1>8, <1>9 DEF r, n

LEMMA RemovedStop ==
    ASSUME NEW q \in Seq(Elems), NoRepeat(q), NEW h, NEW e, h \notin Elems, e \notin Elems,
           NEW i \in 1..Len(q)
    PROVE  LET r == RemoveAt(q, i)
           IN  /\ r \in Seq(Elems) /\ NoRepeat(r) /\ Range(r) = Range(q) \ {q[i]} /\ Len(r) = Len(q) - 1
               /\ \A j \in 0..Len(q) :
                    Stop(r, h, e, j) = IF j < i THEN Stop(q, h, e, j) ELSE Stop(q, h, e, j + 1)
<1> DEFINE r == RemoveAt(q, i)
           n == Len(q)
<1>1. n \in Nat /\ DOMAIN q = 1..n /\ (\A j \in 1..n : q[j] \in Elems /\ q[j] \in Range(q)) /\ i \in 1..n
  BY LenProperties, ElementOfSeq DEF Range
<1>2. /\ r \in Seq(Elems) /\ Len(r) = n - 1 /\ DOMAIN r = 1..(n - 1)
      /\ \A j \in 1..(n - 1) : r[j] = IF j < i THEN q[j] ELSE q[j + 1]
  <2>1. /\ r \in Seq(Elems) /\ Len(r) = n - 1
        /\ \A j \in 1..(n - 1) : r[j] = IF j < i THEN q[j] ELSE q[j + 1]
    BY RemoveAtIs
  <2> QED
    BY <2>1, LenProperties
<1>3. \A j, w \in 1..n : q[j] = q[w] => j = w
  BY <1>1 DEF NoRepeat
<1> HIDE DEF r, n
<1> DEFINE From(j) == IF j < i THEN j ELSE j + 1
<1>4. \A j \in 1..(n - 1) : From(j) \in 1..n /\ From(j) # i /\ r[j] = q[From(j)]
  <2> TAKE j \in 1..(n - 1)
  <2>1. CASE j < i
    BY <1>1, <1>2, <2>1
  <2>2. CASE ~ (j < i)
    BY <1>1, <1>2, <2>2
  <2> QED
    BY <2>1, <2>2
<1>5. \A j, w \in 1..(n - 1) : From(j) = From(w) => j = w
  BY <1>1
<1> HIDE DEF From
<1>6. NoRepeat(r)
  BY <1>2, <1>3, <1>4, <1>5 DEF NoRepeat
<1>7. Range(r) = Range(q) \ {q[i]}
  <2>1. Range(r) = {r[j] : j \in 1..(n - 1)} /\ Range(q) = {q[j] : j \in 1..n}
    BY <1>1, <1>2 DEF Range
  <2>2. \A j \in 1..(n - 1) : r[j] \in {q[w] : w \in 1..n} \ {q[i]}
    BY <1>1, <1>3, <1>4
  <2>3. ASSUME NEW w \in 1..n, w # i PROVE q[w] \in {r[j] : j \in 1..(n - 1)}
    <3>1. CASE w < i
      <4>1. w \in 1..(n - 1) /\ From(w) = w
        BY <1>1, <3>1 DEF From
      <4> QED
        BY <1>4, <4>1
    <3>2. CASE ~ (w < i)
      <4>1. w - 1 \in 1..(n - 1) /\ From(w - 1) = w
        BY <1>1, <2>3, <3>2 DEF From
      <4> QED
        BY <1>4, <4>1
    <3> QED
      BY <3>1, <3>2
  <2> QED
    BY <1>1, <2>1, <2>2, <2>3
<1>8. ASSUME NEW j \in 0..n
      PROVE  Stop(r, h, e, j) = IF j < i THEN Stop(q, h, e, j) ELSE Stop(q, h, e, j + 1)
  <2>1. CASE j = 0
    <3>1. j < i /\ j \notin 1..(n - 1) /\ j \notin 1..n
      BY <1>1, <2>1
    <3> QED
      BY <1>2, <2>1, <3>1 DEF Stop, n
  <2>2. CASE j = n
    <3>1. ~ (j < i) /\ j # 0 /\ j \notin 1..(n - 1) /\ j + 1 # 0 /\ j + 1 \notin 1..n
      BY <1>1, <2>2
    <3> QED
      BY <1>2, <3>1 DEF Stop, n
  <2>3. CASE j \in 1..(n - 1)
    <3>1. Stop(r, h, e, j) = r[j]
      BY <1>2, <2>3 DEF Stop
    <3>2. CASE j < i
      <4>1. j \in 1..n
        BY <1>1, <2>3, <3>2
      <4> QED
        BY <1>2, <2>3, <3>1, <3>2, <4>1 DEF Stop, n
    <3>3. CASE ~ (j < i)
      <4>1. j + 1 \in 1..n
        BY <1>1, <2>3
      <4> QED
        BY <1>2, <2>3, <3>1, <3>3, <4>1 DEF Stop, n
    <3> QED
      BY <3>2, <3>3
  <2>4. j = 0 \/ j = n \/ j \in 1..(n - 1)
    BY <1>1
  <2> QED
    BY <2>1, <2>2, <2>3, <2>4
<1> QED
  BY <1>2, <1>6, <1>7, <1>8 DEF r, n

-----------------------------------------------------------------------------
(* The inductive invariant: every queue is the ring of its sequence, in    *)
(* both directions, no element is in two places, and an element that is in *)
(* no queue is linked to itself; the singly linked list is the chain of    *)
(* its sequence, and an element that is not in it points nowhere.          *)

Ends2 == Heads \cup Elems
Links1 == {ListHead} \cup Elems
Memory == [next : [Ends2 -> Ends2], prev : [Ends2 -> Ends2], snext : [Links1 -> Links1 \cup {Nil}]]

RingAt(q, h, i) == Stop(q, h, h, i)
Ring(s, h, q) ==
    \A i \in 0..Len(q) : s.next[RingAt(q, h, i)] = RingAt(q, h, i + 1) /\ s.prev[RingAt(q, h, i + 1)] = RingAt(q, h, i)

Members(o) == UNION {Range(o[h]) : h \in Heads}
OrderOK(o) ==
    /\ o \in [Heads -> Seq(Elems)]
    /\ \A h \in Heads : NoRepeat(o[h])
    /\ \A g, h \in Heads : g # h => Range(o[g]) \cap Range(o[h]) = {}
RingsOK(s, o) ==
    /\ OrderOK(o)
    /\ \A h \in Heads : Ring(s, h, o[h])
    /\ \A x \in Elems \ Members(o) : s.next[x] = x /\ s.prev[x] = x

Chain(s, q) == \A i \in 0..Len(q) : s.snext[Stop(q, ListHead, Nil, i)] = Stop(q, ListHead, Nil, i + 1)
ChainOK(s, q) ==
    /\ q \in Seq(Elems) /\ NoRepeat(q) /\ Chain(s, q)
    /\ \A x \in Elems \ Range(q) : s.snext[x] = Nil

LinksIInv == m \in Memory /\ RingsOK(m, order) /\ ChainOK(m, stack)

-----------------------------------------------------------------------------
(* What the functions do to the links.                                     *)

\* x is linked between a and b; taken out from between them.
Joined(s, u, a, x, b) ==
    /\ u \in Memory /\ u.snext = s.snext
    /\ \A z \in Ends2 : /\ u.next[z] = IF z = x THEN b ELSE IF z = a THEN x ELSE s.next[z]
                        /\ u.prev[z] = IF z = x THEN a ELSE IF z = b THEN x ELSE s.prev[z]
Parted(s, u, a, x, b) ==
    /\ u \in Memory /\ u.snext = s.snext
    /\ \A z \in Ends2 : /\ u.next[z] = IF z = x THEN x ELSE IF z = a THEN b ELSE s.next[z]
                        /\ u.prev[z] = IF z = x THEN x ELSE IF z = b THEN a ELSE s.prev[z]

\* Only the one link of x is another.
NextSet(s, u, x, y) ==
    /\ u \in Memory /\ u.prev = s.prev /\ u.snext = s.snext
    /\ \A z \in Ends2 : u.next[z] = IF z = x THEN y ELSE s.next[z]
PrevSet(s, u, x, y) ==
    /\ u \in Memory /\ u.next = s.next /\ u.snext = s.snext
    /\ \A z \in Ends2 : u.prev[z] = IF z = x THEN y ELSE s.prev[z]

LEMMA SetIs ==
    ASSUME NEW s \in Memory, NEW x \in Ends2, NEW y \in Ends2
    PROVE  NextSet(s, SetNext(s, x, y), x, y) /\ PrevSet(s, SetPrev(s, x, y), x, y)
BY DEF Memory, SetNext, SetPrev, NextSet, PrevSet

LEMMA MemoryIs ==
    ASSUME NEW s \in Memory
    PROVE  \A x \in Ends2 : s.next[x] \in Ends2 /\ s.prev[x] \in Ends2
BY DEF Memory

LEMMA BeforeIs ==
    ASSUME NEW s \in Memory, NEW t \in Ends2, NEW x \in Ends2, x # t, s.prev[t] # x
    PROVE  /\ Joined(s, queue_add_before(s, t, x), s.prev[t], x, t)
           /\ queue_add(s, t, x) = queue_add_before(s, t, x)
<1> DEFINE a == s.prev[t]
           u1 == SetPrev(s, x, a)
           u2 == SetNext(u1, x, t)
           u3 == SetNext(u2, u2.prev[t], x)
           u4 == SetPrev(u3, t, x)
<1>1. u4 = queue_add_before(s, t, x)
  BY DEF queue_add_before
<1>2. queue_add(s, t, x) = queue_add_before(s, t, x)
  <2>1. SetPrev(SetNext(s, x, t), x, a) = SetNext(SetPrev(s, x, a), x, t)
    BY MemoryIs DEF SetNext, SetPrev, Memory
  <2> QED
    BY <2>1 DEF queue_add, queue_add_before
<1>3. a \in Ends2 /\ a # x
  BY MemoryIs
<1> HIDE DEF a
<1>4. PrevSet(s, u1, x, a) /\ u1 \in Memory
  BY <1>3, SetIs DEF PrevSet
<1> HIDE DEF u1
<1>5. NextSet(u1, u2, x, t) /\ u2 \in Memory
  BY <1>4, SetIs DEF NextSet
<1>6. u2.prev[t] = a
  <2> HIDE DEF u2
  <2> QED
    BY <1>4, <1>5 DEF NextSet, PrevSet, a
<1>7. NextSet(u2, u3, a, x) /\ u3 \in Memory
  <2> HIDE DEF u2
  <2> QED
    BY <1>3, <1>5, <1>6, SetIs DEF NextSet
<1> HIDE DEF u2, u3
<1>8. PrevSet(u3, u4, t, x)
  BY <1>7, SetIs
<1> HIDE DEF u4
<1>9. Joined(s, u4, a, x, t)
  BY <1>3, <1>4, <1>5, <1>7, <1>8 DEF Joined, NextSet, PrevSet
<1> QED
  BY <1>1, <1>2, <1>9 DEF a

LEMMA AfterIs ==
    ASSUME NEW s \in Memory, NEW t \in Ends2, NEW x \in Ends2, x # t, s.next[t] # x
    PROVE  /\ Joined(s, queue_add_after(s, t, x), t, x, s.next[t])
           /\ queue_add_top(s, t, x) = queue_add_after(s, t, x)
<1> DEFINE b == s.next[t]
           u1 == SetNext(s, x, b)
           u2 == SetPrev(u1, x, t)
           u3 == SetPrev(u2, u2.next[t], x)
           u4 == SetNext(u3, t, x)
<1>1. u4 = queue_add_after(s, t, x) /\ queue_add_top(s, t, x) = queue_add_after(s, t, x)
  BY DEF queue_add_after, queue_add_top
<1>3. b \in Ends2 /\ b # x
  BY MemoryIs
<1> HIDE DEF b
<1>4. NextSet(s, u1, x, b) /\ u1 \in Memory
  BY <1>3, SetIs DEF NextSet
<1> HIDE DEF u1
<1>5. PrevSet(u1, u2, x, t) /\ u2 \in Memory
  BY <1>4, SetIs DEF PrevSet
<1>6. u2.next[t] = b
  <2> HIDE DEF u2
  <2> QED
    BY <1>4, <1>5 DEF NextSet, PrevSet, b
<1>7. PrevSet(u2, u3, b, x) /\ u3 \in Memory
  <2> HIDE DEF u2
  <2> QED
    BY <1>3, <1>5, <1>6, SetIs DEF PrevSet
<1> HIDE DEF u2, u3
<1>8. NextSet(u3, u4, t, x)
  BY <1>7, SetIs
<1> HIDE DEF u4
<1>9. Joined(s, u4, t, x, b)
  BY <1>3, <1>4, <1>5, <1>7, <1>8 DEF Joined, NextSet, PrevSet
<1> QED
  BY <1>1, <1>9 DEF b

LEMMA DelIs ==
    ASSUME NEW s \in Memory, NEW x \in Ends2, s.prev[x] # x, s.next[x] # x
    PROVE  Parted(s, list_del(s, x), s.prev[x], x, s.next[x])
<1> DEFINE a == s.prev[x]
           b == s.next[x]
           u1 == SetPrev(s, b, a)
           u2 == SetNext(u1, u1.prev[x], u1.next[x])
           u3 == SetPrev(u2, x, x)
           u4 == SetNext(u3, x, x)
<1>1. u4 = list_del(s, x)
  BY DEF list_del, list_init
<1>2. a \in Ends2 /\ b \in Ends2 /\ a # x /\ b # x
  BY MemoryIs
<1>3. a = s.prev[x] /\ b = s.next[x]
  OBVIOUS
<1> HIDE DEF a, b
<1>4. PrevSet(s, u1, b, a) /\ u1 \in Memory
  BY <1>2, SetIs DEF PrevSet
<1> HIDE DEF u1
<1>5. u1.prev[x] = a /\ u1.next[x] = b
  BY <1>2, <1>3, <1>4 DEF PrevSet
<1>6. NextSet(u1, u2, a, b) /\ u2 \in Memory
  BY <1>2, <1>4, <1>5, SetIs DEF NextSet
<1> HIDE DEF u2
<1>7. PrevSet(u2, u3, x, x) /\ u3 \in Memory
  BY <1>6, SetIs DEF PrevSet
<1> HIDE DEF u3
<1>8. NextSet(u3, u4, x, x)
  BY <1>7, SetIs
<1> HIDE DEF u4
<1>9. Parted(s, u4, a, x, b)
  BY <1>2, <1>4, <1>6, <1>7, <1>8 DEF Parted, NextSet, PrevSet
<1> QED
  BY <1>1, <1>3, <1>9

-----------------------------------------------------------------------------
(* An insertion and a removal at a place of a queue.                       *)

LEMMA HeadsApart == \A h \in Heads : h \notin Elems
BY LinksAssumption

\* The stops of a queue are places of the memory; a stop tells its position.
LEMMA AtFacts ==
    ASSUME NEW o, OrderOK(o), NEW h \in Heads
    PROVE  /\ o[h] \in Seq(Elems) /\ NoRepeat(o[h]) /\ Len(o[h]) \in Nat /\ h \notin Elems
           /\ DOMAIN o[h] = 1..Len(o[h])
           /\ RingAt(o[h], h, 0) = h /\ RingAt(o[h], h, Len(o[h]) + 1) = h
           /\ \A i \in 1..Len(o[h]) : RingAt(o[h], h, i) = o[h][i] /\ o[h][i] \in Elems /\ o[h][i] \in Range(o[h])
           /\ \A i, j \in 0..Len(o[h]) : RingAt(o[h], h, i) = RingAt(o[h], h, j) => i = j
           /\ \A i, j \in 1..(Len(o[h]) + 1) : RingAt(o[h], h, i) = RingAt(o[h], h, j) => i = j
           /\ \A i \in 0..(Len(o[h]) + 1) : RingAt(o[h], h, i) \in {h} \cup Range(o[h]) /\ RingAt(o[h], h, i) \in Ends2
           /\ Range(o[h]) \subseteq Elems
<1> DEFINE q == o[h]
<1>1. q \in Seq(Elems) /\ NoRepeat(q) /\ h \notin Elems
  BY HeadsApart DEF OrderOK
<1> HIDE DEF q
<1>2. /\ Len(q) \in Nat /\ DOMAIN q = 1..Len(q)
      /\ RingAt(q, h, 0) = h /\ RingAt(q, h, Len(q) + 1) = h
      /\ \A i \in 1..Len(q) : RingAt(q, h, i) = q[i] /\ q[i] \in Elems /\ q[i] \in Range(q)
      /\ \A i, j \in 0..Len(q) : RingAt(q, h, i) = RingAt(q, h, j) => i = j
      /\ \A i, j \in 1..(Len(q) + 1) : RingAt(q, h, i) = RingAt(q, h, j) => i = j
      /\ \A i \in 0..Len(q) : RingAt(q, h, i) \in {h} \cup Range(q)
      /\ \A i \in 1..(Len(q) + 1) : RingAt(q, h, i) \in {h} \cup Range(q)
      /\ Range(q) \subseteq Elems
  BY <1>1, StopFacts DEF RingAt
<1>3. \A i \in 0..(Len(q) + 1) : RingAt(q, h, i) \in {h} \cup Range(q) /\ RingAt(q, h, i) \in Ends2
  <2> TAKE i \in 0..(Len(q) + 1)
  <2>1. i \in 0..Len(q) \/ i \in 1..(Len(q) + 1)
    BY <1>2
  <2>2. RingAt(q, h, i) \in {h} \cup Range(q)
    BY <1>2, <2>1
  <2> QED
    BY <1>2, <2>2 DEF Ends2
<1> QED
  BY <1>1, <1>2, <1>3 DEF q

LEMMA MembersAre ==
    ASSUME NEW o, OrderOK(o), NEW h \in Heads, NEW r \in Seq(Elems)
    PROVE  LET p == [o EXCEPT ![h] = r]
           IN  /\ p[h] = r /\ \A g \in Heads : g # h => p[g] = o[g]
               /\ Members(p) = Range(r) \cup UNION {Range(o[g]) : g \in Heads \ {h}}
               /\ Members(o) = Range(o[h]) \cup UNION {Range(o[g]) : g \in Heads \ {h}}
               /\ \A g \in Heads : Range(o[g]) \subseteq Members(o)
<1> DEFINE p == [o EXCEPT ![h] = r]
<1>1. p[h] = r /\ \A g \in Heads : g # h => p[g] = o[g]
  BY DEF OrderOK
<1> HIDE DEF p
<1>2. Members(p) = Range(r) \cup UNION {Range(o[g]) : g \in Heads \ {h}}
  BY <1>1 DEF Members
<1>3. Members(o) = Range(o[h]) \cup UNION {Range(o[g]) : g \in Heads \ {h}}
  BY DEF Members
<1>4. \A g \in Heads : Range(o[g]) \subseteq Members(o)
  BY DEF Members
<1> QED
  BY <1>1, <1>2, <1>3, <1>4 DEF p

\* A queue that the change does not reach stays as it is.
LEMMA OtherRing ==
    ASSUME NEW s \in Memory, NEW o, OrderOK(o), NEW g \in Heads, Ring(s, g, o[g]), NEW u,
           \A z \in {g} \cup Range(o[g]) : u.next[z] = s.next[z] /\ u.prev[z] = s.prev[z]
    PROVE  Ring(u, g, o[g])
<1> DEFINE q == o[g]
<1>1. Len(q) \in Nat /\ \A i \in 0..(Len(q) + 1) : RingAt(q, g, i) \in {g} \cup Range(q)
  BY AtFacts
<1> HIDE DEF q
<1> SUFFICES ASSUME NEW i \in 0..Len(q)
             PROVE  u.next[RingAt(q, g, i)] = RingAt(q, g, i + 1) /\ u.prev[RingAt(q, g, i + 1)] = RingAt(q, g, i)
  BY DEF Ring, q
<1>2. i \in 0..(Len(q) + 1) /\ i + 1 \in 0..(Len(q) + 1)
  BY <1>1
<1>3. s.next[RingAt(q, g, i)] = RingAt(q, g, i + 1) /\ s.prev[RingAt(q, g, i + 1)] = RingAt(q, g, i)
  BY DEF Ring, q
<1>4. RingAt(q, g, i) \in {g} \cup Range(q) /\ RingAt(q, g, i + 1) \in {g} \cup Range(q)
  BY <1>1, <1>2
<1> QED
  BY <1>3, <1>4 DEF q

LEMMA InsertKeeps ==
    ASSUME NEW s \in Memory, NEW o, RingsOK(s, o), NEW h \in Heads, NEW i \in 1..(Len(o[h]) + 1),
           NEW x \in Elems, x \notin Members(o),
           NEW u, Joined(s, u, RingAt(o[h], h, i - 1), x, RingAt(o[h], h, i))
    PROVE  RingsOK(u, [o EXCEPT ![h] = InsertAt(o[h], i, x)])
<1> DEFINE q == o[h]
           n == Len(q)
           r == InsertAt(q, i, x)
           p == [o EXCEPT ![h] = r]
           A(j) == RingAt(q, h, j)
           B(j) == RingAt(r, h, j)
           a == A(i - 1)
           b == A(i)
<1>0. OrderOK(o) /\ Ring(s, h, q) /\ x \notin Range(q) /\ i \in 1..(Len(q) + 1)
  BY DEF RingsOK, Members
<1>1. /\ q \in Seq(Elems) /\ NoRepeat(q) /\ n \in Nat /\ h \notin Elems
      /\ A(0) = h /\ A(n + 1) = h
      /\ \A j, z \in 0..n : A(j) = A(z) => j = z
      /\ \A j, z \in 1..(n + 1) : A(j) = A(z) => j = z
      /\ \A j \in 0..(n + 1) : A(j) \in {h} \cup Range(q) /\ A(j) \in Ends2
      /\ Range(q) \subseteq Elems
  BY <1>0, AtFacts
<1>2. /\ r \in Seq(Elems) /\ NoRepeat(r) /\ Range(r) = Range(q) \cup {x} /\ Len(r) = n + 1
      /\ \A j \in 0..(n + 2) : B(j) = IF j < i THEN A(j) ELSE IF j = i THEN x ELSE A(j - 1)
  <2> HIDE DEF q
  <2> QED
    BY <1>0, <1>1, InsertedStop DEF RingAt
<1>3. i \in 1..(n + 1) /\ i - 1 \in 0..n /\ x \in Ends2 /\ x # h
  BY <1>1 DEF Ends2
<1>4. a \in {h} \cup Range(q) /\ b \in {h} \cup Range(q) /\ a # x /\ b # x /\ a \in Ends2 /\ b \in Ends2
  <2>1. i - 1 \in 0..(n + 1) /\ i \in 0..(n + 1)
    BY <1>1, <1>3
  <2> QED
    BY <1>0, <1>1, <1>3, <2>1
<1>5. \A z \in Ends2 : /\ u.next[z] = IF z = x THEN b ELSE IF z = a THEN x ELSE s.next[z]
                       /\ u.prev[z] = IF z = x THEN a ELSE IF z = b THEN x ELSE s.prev[z]
  BY DEF Joined
<1>6. \A j \in 0..n : s.next[A(j)] = A(j + 1) /\ s.prev[A(j + 1)] = A(j)
  BY <1>0 DEF Ring
<1>7. \A j \in 0..(n + 1) : A(j) # x
  BY <1>0, <1>1, <1>3
<1> HIDE DEF A, B
<1>8. Ring(u, h, r)
  <2> SUFFICES ASSUME NEW j \in 0..(n + 1) PROVE u.next[B(j)] = B(j + 1) /\ u.prev[B(j + 1)] = B(j)
    BY <1>2 DEF Ring, B
  <2> HIDE DEF n, q, r
  <2>0. j \in 0..(n + 2) /\ j + 1 \in 0..(n + 2)
    BY <1>1
  <2>1. CASE j < i - 1
    <3>1. /\ j \in 0..n /\ j # i - 1 /\ j + 1 \in 1..(n + 1) /\ j + 1 # i /\ j < i /\ j + 1 < i
          /\ j \in 0..(n + 1) /\ j + 1 \in 0..(n + 1)
      BY <1>1, <1>3, <2>1
    <3>2. B(j) = A(j) /\ B(j + 1) = A(j + 1)
      BY <1>2, <2>0, <3>1
    <3>3. A(j) # a /\ A(j) # x /\ A(j) \in Ends2
      BY <1>1, <1>3, <1>7, <3>1
    <3>4. A(j + 1) # b /\ A(j + 1) # x /\ A(j + 1) \in Ends2
      BY <1>1, <1>3, <1>7, <3>1
    <3>5. u.next[A(j)] = s.next[A(j)] /\ u.prev[A(j + 1)] = s.prev[A(j + 1)]
      BY <1>5, <3>3, <3>4
    <3> QED
      BY <1>6, <3>1, <3>2, <3>5
  <2>2. CASE j = i - 1
    <3>1. j < i /\ ~ (j + 1 < i) /\ j + 1 = i
      BY <1>1, <1>3, <2>2
    <3>2. B(j) = a /\ B(j + 1) = x
      BY <1>2, <2>0, <2>2, <3>1
    <3> QED
      BY <1>3, <1>4, <1>5, <3>2
  <2>3. CASE j = i
    <3>1. ~ (j < i) /\ ~ (j + 1 < i) /\ j + 1 # i /\ j + 1 - 1 = i
      BY <1>1, <1>3, <2>3
    <3>2. B(j) = x /\ B(j + 1) = b
      BY <1>2, <2>0, <2>3, <3>1
    <3> QED
      BY <1>3, <1>4, <1>5, <3>2
  <2>4. CASE j > i
    <3>1. /\ j - 1 \in 0..n /\ j - 1 # i - 1 /\ j \in 1..(n + 1) /\ j # i /\ ~ (j < i) /\ ~ (j + 1 < i) /\ j + 1 # i
          /\ j - 1 \in 0..(n + 1) /\ j \in 0..(n + 1) /\ j + 1 - 1 = j /\ j - 1 + 1 = j
      BY <1>1, <1>3, <2>4
    <3>2. B(j) = A(j - 1) /\ B(j + 1) = A(j)
      BY <1>2, <2>0, <3>1
    <3>3. A(j - 1) # a /\ A(j - 1) # x /\ A(j - 1) \in Ends2
      BY <1>1, <1>3, <1>7, <3>1
    <3>4. A(j) # b /\ A(j) # x /\ A(j) \in Ends2
      BY <1>1, <1>3, <1>7, <3>1
    <3>5. u.next[A(j - 1)] = s.next[A(j - 1)] /\ u.prev[A(j)] = s.prev[A(j)]
      BY <1>5, <3>3, <3>4
    <3>6. s.next[A(j - 1)] = A(j) /\ s.prev[A(j)] = A(j - 1)
      BY <1>6, <3>1
    <3> QED
      BY <3>2, <3>5, <3>6
  <2> QED
    BY <1>1, <1>3, <2>1, <2>2, <2>3, <2>4
<1> HIDE DEF a, b, n, r
<1>9. /\ p[h] = r /\ \A g \in Heads : g # h => p[g] = o[g]
      /\ Members(p) = Range(r) \cup UNION {Range(o[g]) : g \in Heads \ {h}}
      /\ Members(o) = Range(q) \cup UNION {Range(o[g]) : g \in Heads \ {h}}
      /\ \A g \in Heads : Range(o[g]) \subseteq Members(o)
  BY <1>0, <1>2, MembersAre
<1>10. OrderOK(p)
  <2>1. p \in [Heads -> Seq(Elems)]
    BY <1>0, <1>2 DEF OrderOK
  <2>2. \A g \in Heads : NoRepeat(p[g])
    BY <1>0, <1>2, <1>9 DEF OrderOK
  <2> HIDE DEF p
  <2>3. ASSUME NEW f \in Heads, NEW g \in Heads, f # g PROVE Range(p[f]) \cap Range(p[g]) = {}
    <3>1. Range(o[f]) \cap Range(o[g]) = {} /\ x \notin Range(o[f]) /\ x \notin Range(o[g])
      BY <1>0, <1>9, <2>3 DEF OrderOK
    <3>2. \A e \in Heads : Range(p[e]) = IF e = h THEN Range(o[e]) \cup {x} ELSE Range(o[e])
      BY <1>2, <1>9
    <3> QED
      BY <2>3, <3>1, <3>2
  <2> QED
    BY <2>1, <2>2, <2>3 DEF OrderOK
<1> HIDE DEF p
<1>11. ASSUME NEW g \in Heads, g # h PROVE Ring(u, g, o[g])
  <2>1. Ring(s, g, o[g]) /\ Range(o[g]) \cap Range(q) = {} /\ x \notin Range(o[g])
    BY <1>0, <1>9, <1>11 DEF RingsOK, OrderOK
  <2>2. Range(o[g]) \subseteq Elems /\ g \notin Elems
    BY <1>0, AtFacts
  <2>3. \A z \in {g} \cup Range(o[g]) : z \in Ends2 /\ z # x /\ z # a /\ z # b
    BY <1>1, <1>4, <1>11, <2>1, <2>2 DEF Ends2
  <2> QED
    BY <1>0, <1>5, <2>1, <2>3, OtherRing
<1>12. ASSUME NEW y \in Elems, y \notin Members(p) PROVE u.next[y] = y /\ u.prev[y] = y
  <2>1. y # x /\ y \notin Members(o) /\ y \notin Range(q) /\ y # h
    BY <1>1, <1>2, <1>9, <1>12
  <2>2. s.next[y] = y /\ s.prev[y] = y
    BY <2>1 DEF RingsOK
  <2> QED
    BY <1>4, <1>5, <2>1, <2>2 DEF Ends2
<1>13. \A g \in Heads : Ring(u, g, p[g])
  BY <1>8, <1>9, <1>11
<1>14. RingsOK(u, p)
  BY <1>10, <1>12, <1>13 DEF RingsOK
<1> QED
  BY <1>14 DEF p, r

LEMMA RemoveKeeps ==
    ASSUME NEW s \in Memory, NEW o, RingsOK(s, o), NEW h \in Heads, NEW i \in 1..Len(o[h]),
           NEW u, u = list_del(s, o[h][i])
    PROVE  LET p == [o EXCEPT ![h] = RemoveAt(o[h], i)]
           IN  u \in Memory /\ u.snext = s.snext /\ RingsOK(u, p) /\ o[h][i] \notin Members(p)
<1> DEFINE q == o[h]
           n == Len(q)
           r == RemoveAt(q, i)
           p == [o EXCEPT ![h] = r]
           A(j) == RingAt(q, h, j)
           B(j) == RingAt(r, h, j)
           a == A(i - 1)
           b == A(i + 1)
           x == q[i]
<1>0. OrderOK(o) /\ Ring(s, h, q) /\ i \in 1..Len(q)
  BY DEF RingsOK
<1>1. /\ q \in Seq(Elems) /\ NoRepeat(q) /\ n \in Nat /\ h \notin Elems
      /\ A(0) = h /\ A(n + 1) = h
      /\ \A j, z \in 0..n : A(j) = A(z) => j = z
      /\ \A j, z \in 1..(n + 1) : A(j) = A(z) => j = z
      /\ \A j \in 0..(n + 1) : A(j) \in {h} \cup Range(q) /\ A(j) \in Ends2
      /\ \A j \in 1..n : A(j) = q[j] /\ q[j] \in Elems /\ q[j] \in Range(q)
      /\ Range(q) \subseteq Elems
  BY <1>0, AtFacts
<1>2. /\ r \in Seq(Elems) /\ NoRepeat(r) /\ Range(r) = Range(q) \ {x} /\ Len(r) = n - 1
      /\ \A j \in 0..n : B(j) = IF j < i THEN A(j) ELSE A(j + 1)
  <2> HIDE DEF q
  <2> QED
    BY <1>0, <1>1, RemovedStop DEF RingAt
<1>3. /\ i \in 1..n /\ i - 1 \in 0..n /\ i + 1 \in 1..(n + 1) /\ i \in 0..n /\ i \in 1..(n + 1)
      /\ i - 1 \in 0..(n + 1) /\ i + 1 \in 0..(n + 1) /\ i - 1 + 1 = i /\ i - 1 # i /\ i + 1 # i
  BY <1>1
<1>4. x = A(i) /\ x \in Elems /\ x \in Ends2 /\ x # h /\ x \in Range(q)
  BY <1>1, <1>3
<1>6. \A j \in 0..n : s.next[A(j)] = A(j + 1) /\ s.prev[A(j + 1)] = A(j)
  BY <1>0 DEF Ring
<1> HIDE DEF A, B
<1>5. /\ a \in {h} \cup Range(q) /\ b \in {h} \cup Range(q) /\ a # x /\ b # x /\ a \in Ends2 /\ b \in Ends2
      /\ s.prev[x] = a /\ s.next[x] = b
  <2>1. a # x
    BY <1>1, <1>3, <1>4
  <2>2. b # x
    BY <1>1, <1>3, <1>4
  <2>3. s.prev[x] = a /\ s.next[x] = b
    BY <1>3, <1>4, <1>6
  <2> QED
    BY <1>1, <1>3, <2>1, <2>2, <2>3
<1>7. Parted(s, u, a, x, b)
  <2> HIDE DEF a, b, x
  <2> QED
    BY <1>4, <1>5, DelIs DEF x
<1>8. /\ u \in Memory /\ u.snext = s.snext
      /\ \A z \in Ends2 : /\ u.next[z] = IF z = x THEN x ELSE IF z = a THEN b ELSE s.next[z]
                          /\ u.prev[z] = IF z = x THEN x ELSE IF z = b THEN a ELSE s.prev[z]
  BY <1>7 DEF Parted
<1> HIDE DEF x
<1>9. Ring(u, h, r)
  <2> SUFFICES ASSUME NEW j \in 0..(n - 1) PROVE u.next[B(j)] = B(j + 1) /\ u.prev[B(j + 1)] = B(j)
    BY <1>2 DEF Ring, B
  <2> HIDE DEF n, q, r
  <2>0. j \in 0..n /\ j + 1 \in 0..n
    BY <1>1
  <2>1. CASE j < i - 1
    <3>1. /\ j # i - 1 /\ j + 1 \in 1..(n + 1) /\ j + 1 # i + 1 /\ j < i /\ j + 1 < i /\ j # i /\ j + 1 # i
          /\ j \in 0..(n + 1) /\ j + 1 \in 0..(n + 1)
      BY <1>1, <1>3, <2>1
    <3>2. B(j) = A(j) /\ B(j + 1) = A(j + 1)
      BY <1>2, <2>0, <3>1
    <3>3. A(j) # a /\ A(j) # x /\ A(j) \in Ends2
      BY <1>1, <1>3, <1>4, <2>0, <3>1
    <3>4. A(j + 1) # b /\ A(j + 1) # x /\ A(j + 1) \in Ends2
      BY <1>1, <1>3, <1>4, <3>1
    <3>5. u.next[A(j)] = s.next[A(j)] /\ u.prev[A(j + 1)] = s.prev[A(j + 1)]
      BY <1>8, <3>3, <3>4
    <3> QED
      BY <1>6, <2>0, <3>2, <3>5
  <2>2. CASE j = i - 1
    <3>1. j < i /\ ~ (j + 1 < i) /\ j + 1 + 1 = i + 1
      BY <1>1, <1>3, <2>2
    <3>2. B(j) = a /\ B(j + 1) = b
      BY <1>2, <2>0, <2>2, <3>1
    <3> QED
      BY <1>5, <1>8, <3>2
  <2>3. CASE j >= i
    <3>1. /\ j + 1 \in 0..n /\ j + 1 # i - 1 /\ j + 1 # i /\ ~ (j < i) /\ ~ (j + 1 < i)
          /\ j + 2 \in 1..(n + 1) /\ j + 2 # i + 1 /\ j + 2 # i /\ j + 1 \in 0..(n + 1) /\ j + 2 \in 0..(n + 1)
          /\ j + 1 + 1 = j + 2
      BY <1>1, <1>3, <2>3
    <3>2. B(j) = A(j + 1) /\ B(j + 1) = A(j + 2)
      BY <1>2, <2>0, <3>1
    <3>3. A(j + 1) # a /\ A(j + 1) # x /\ A(j + 1) \in Ends2
      BY <1>1, <1>3, <1>4, <3>1
    <3>4. A(j + 2) # b /\ A(j + 2) # x /\ A(j + 2) \in Ends2
      BY <1>1, <1>3, <1>4, <3>1
    <3>5. u.next[A(j + 1)] = s.next[A(j + 1)] /\ u.prev[A(j + 2)] = s.prev[A(j + 2)]
      BY <1>8, <3>3, <3>4
    <3>6. s.next[A(j + 1)] = A(j + 2) /\ s.prev[A(j + 2)] = A(j + 1)
      BY <1>6, <3>1
    <3> QED
      BY <3>2, <3>5, <3>6
  <2>4. j < i - 1 \/ j = i - 1 \/ j >= i
    BY <1>1, <1>3
  <2> QED
    BY <2>1, <2>2, <2>3, <2>4
<1> HIDE DEF a, b, n, r
<1>10. /\ p[h] = r /\ \A g \in Heads : g # h => p[g] = o[g]
       /\ Members(p) = Range(r) \cup UNION {Range(o[g]) : g \in Heads \ {h}}
       /\ Members(o) = Range(q) \cup UNION {Range(o[g]) : g \in Heads \ {h}}
  BY <1>0, <1>2, MembersAre
<1>11. OrderOK(p)
  <2>1. p \in [Heads -> Seq(Elems)]
    BY <1>0, <1>2 DEF OrderOK
  <2>2. \A g \in Heads : NoRepeat(p[g])
    BY <1>0, <1>2, <1>10 DEF OrderOK
  <2> HIDE DEF p
  <2>3. ASSUME NEW f \in Heads, NEW g \in Heads, f # g PROVE Range(p[f]) \cap Range(p[g]) = {}
    <3>1. Range(o[f]) \cap Range(o[g]) = {}
      BY <1>0, <2>3 DEF OrderOK
    <3>2. \A e \in Heads : Range(p[e]) \subseteq Range(o[e])
      BY <1>2, <1>10
    <3> QED
      BY <3>1, <3>2
  <2> QED
    BY <2>1, <2>2, <2>3 DEF OrderOK
<1> HIDE DEF p
<1>12. ASSUME NEW g \in Heads, g # h PROVE Ring(u, g, o[g]) /\ x \notin Range(o[g])
  <2>1. Ring(s, g, o[g]) /\ Range(o[g]) \cap Range(q) = {}
    BY <1>0, <1>12 DEF RingsOK, OrderOK
  <2>2. Range(o[g]) \subseteq Elems /\ g \notin Elems
    BY <1>0, AtFacts
  <2>3. \A z \in {g} \cup Range(o[g]) : z \in Ends2 /\ z # x /\ z # a /\ z # b
    BY <1>1, <1>4, <1>5, <1>12, <2>1, <2>2 DEF Ends2
  <2>4. \A z \in {g} \cup Range(o[g]) : u.next[z] = s.next[z] /\ u.prev[z] = s.prev[z]
    BY <1>8, <2>3
  <2> QED
    BY <1>0, <2>1, <2>3, <2>4, OtherRing
<1>13. ASSUME NEW y \in Elems, y \notin Members(p) PROVE u.next[y] = y /\ u.prev[y] = y
  <2>1. CASE y = x
    BY <1>4, <1>8, <2>1
  <2>2. CASE y # x
    <3>1. y \notin Members(o) /\ y \notin Range(q) /\ y # h
      BY <1>1, <1>2, <1>10, <1>13, <2>2
    <3>2. s.next[y] = y /\ s.prev[y] = y
      BY <3>1 DEF RingsOK
    <3> QED
      BY <1>5, <1>8, <2>2, <3>1, <3>2 DEF Ends2
  <2> QED
    BY <2>1, <2>2
<1>14. \A g \in Heads : Ring(u, g, p[g])
  BY <1>9, <1>10, <1>12
<1>15. RingsOK(u, p)
  BY <1>11, <1>13, <1>14 DEF RingsOK
<1>16. x \notin Members(p)
  BY <1>2, <1>10, <1>12
<1> QED
  BY <1>8, <1>15, <1>16 DEF p, r, x

LEMMA AddBeforeKeeps ==
    ASSUME NEW s \in Memory, NEW o, RingsOK(s, o), NEW h \in Heads, NEW i \in 1..(Len(o[h]) + 1),
           NEW x \in Elems, x \notin Members(o), NEW t, t = RingAt(o[h], h, i)
    PROVE  LET u == queue_add_before(s, t, x)
           IN  /\ u \in Memory /\ u.snext = s.snext /\ RingsOK(u, [o EXCEPT ![h] = InsertAt(o[h], i, x)])
               /\ queue_add(s, t, x) = u
<1> DEFINE q == o[h]
           n == Len(q)
           u == queue_add_before(s, t, x)
<1>0. OrderOK(o) /\ Ring(s, h, q) /\ x \notin Range(q) /\ i \in 1..(n + 1)
  BY DEF RingsOK, Members
<1>1. /\ n \in Nat /\ h \notin Elems
      /\ \A j \in 0..(n + 1) : RingAt(q, h, j) \in {h} \cup Range(q) /\ RingAt(q, h, j) \in Ends2
  BY <1>0, AtFacts
<1>2. i \in 0..(n + 1) /\ i - 1 \in 0..(n + 1) /\ i - 1 \in 0..n /\ i - 1 + 1 = i
  BY <1>0, <1>1
<1>3. t \in Ends2 /\ x # t /\ s.prev[t] = RingAt(q, h, i - 1) /\ x # RingAt(q, h, i - 1) /\ x \in Ends2
  <2>1. s.prev[RingAt(q, h, i - 1 + 1)] = RingAt(q, h, i - 1)
    BY <1>0, <1>2 DEF Ring
  <2> QED
    BY <1>0, <1>1, <1>2, <2>1 DEF Ends2
<1>4. Joined(s, u, RingAt(q, h, i - 1), x, t) /\ queue_add(s, t, x) = u
  BY <1>3, BeforeIs
<1> HIDE DEF u
<1>5. RingsOK(u, [o EXCEPT ![h] = InsertAt(o[h], i, x)])
  BY <1>4, InsertKeeps
<1>6. u \in Memory /\ u.snext = s.snext
  BY <1>4 DEF Joined
<1> QED
  BY <1>4, <1>5, <1>6 DEF u

LEMMA AddAfterKeeps ==
    ASSUME NEW s \in Memory, NEW o, RingsOK(s, o), NEW h \in Heads, NEW i \in 1..(Len(o[h]) + 1),
           NEW x \in Elems, x \notin Members(o), NEW t, t = RingAt(o[h], h, i - 1)
    PROVE  LET u == queue_add_after(s, t, x)
           IN  /\ u \in Memory /\ u.snext = s.snext /\ RingsOK(u, [o EXCEPT ![h] = InsertAt(o[h], i, x)])
               /\ queue_add_top(s, t, x) = u
<1> DEFINE q == o[h]
           n == Len(q)
           u == queue_add_after(s, t, x)
<1>0. OrderOK(o) /\ Ring(s, h, q) /\ x \notin Range(q) /\ i \in 1..(n + 1)
  BY DEF RingsOK, Members
<1>1. /\ n \in Nat /\ h \notin Elems
      /\ \A j \in 0..(n + 1) : RingAt(q, h, j) \in {h} \cup Range(q) /\ RingAt(q, h, j) \in Ends2
  BY <1>0, AtFacts
<1>2. i \in 0..(n + 1) /\ i - 1 \in 0..(n + 1) /\ i - 1 \in 0..n /\ i - 1 + 1 = i
  BY <1>0, <1>1
<1>3. t \in Ends2 /\ x # t /\ s.next[t] = RingAt(q, h, i) /\ x # RingAt(q, h, i) /\ x \in Ends2
  <2>1. s.next[RingAt(q, h, i - 1)] = RingAt(q, h, i - 1 + 1)
    BY <1>0, <1>2 DEF Ring
  <2> QED
    BY <1>0, <1>1, <1>2, <2>1 DEF Ends2
<1>4. Joined(s, u, t, x, RingAt(q, h, i)) /\ queue_add_top(s, t, x) = u
  BY <1>3, AfterIs
<1> HIDE DEF u
<1>5. RingsOK(u, [o EXCEPT ![h] = InsertAt(o[h], i, x)])
  BY <1>4, InsertKeeps
<1>6. u \in Memory /\ u.snext = s.snext
  BY <1>4 DEF Joined
<1> QED
  BY <1>4, <1>5, <1>6 DEF u

-----------------------------------------------------------------------------
(* Following the links.                                                    *)

LEMMA LeastIs ==
    ASSUME NEW S \in SUBSET Nat, S # {}
    PROVE  Min(S) \in S /\ \A y \in S : Min(S) <= y
BY LeastNatural DEF Min

(* A chain of elements is no longer than there are elements, so that Walk  *)
(* comes to its end and meets the elements in order.                       *)
LEMMA WalkIs ==
    ASSUME NEW q \in Seq(Elems), NoRepeat(q), NEW head, NEW end, head \notin Elems, end \notin Elems, NEW field,
           \A i \in 0..Len(q) : field[Stop(q, head, end, i)] = Stop(q, head, end, i + 1)
    PROVE  Walk(field, head, end) = q
<1> DEFINE n == Len(q)
           N == Cardinality(Elems) + 1
           C(w) == Stop(q, head, end, w)
<1>1. /\ n \in Nat /\ DOMAIN q = 1..n /\ C(0) = head /\ C(n + 1) = end
      /\ \A i \in 1..n : C(i) = q[i] /\ q[i] \in Elems
      /\ Range(q) \subseteq Elems
  BY StopFacts
<1>2. n < N /\ N \in Nat
  <2>1. IsFiniteSet(Elems) /\ Cardinality(Elems) \in Nat
    BY LinksAssumption, FS_CardinalityType
  <2>2. IsFiniteSet(1..n) /\ Cardinality(1..n) = n
    <3>1. n \in Nat
      BY <1>1
    <3> HIDE DEF n
    <3>2. IsFiniteSet(1..n) /\ Cardinality(1..n) = IF 1 > n THEN 0 ELSE n - 1 + 1
      BY <3>1, FS_Interval
    <3> QED
      BY <3>1, <3>2
  <2>3. q \in [1..n -> Elems]
    BY <1>1
  <2>4. \A i, j \in 1..n : q[i] = q[j] => i = j
    BY <1>1 DEF NoRepeat
  <2>5. q \in Injection(1..n, Elems)
    BY <2>3, <2>4 DEF Injection, IsInjective
  <2>6. n <= Cardinality(Elems)
    BY <2>1, <2>2, <2>5, FS_Injection
  <2> QED
    BY <1>1, <2>1, <2>6
<1> DEFINE F(g) == [w \in 1..N |-> IF w = 1 THEN field[head] ELSE IF g[w - 1] = end THEN end ELSE field[g[w - 1]]]
           W == CHOOSE g : g = F(g)
           G == [w \in 1..N |-> IF w <= n THEN q[w] ELSE end]
           ends == {w \in 1..N : W[w] = end}
<1>3. Walk(field, head, end) = [w \in 1 .. (IF ends = {} THEN N ELSE Min(ends) - 1) |-> W[w]]
  BY DEF Walk
<1>4. /\ field[head] = IF 1 <= n THEN q[1] ELSE end
      /\ \A w \in 1..n : field[q[w]] = IF w + 1 <= n THEN q[w + 1] ELSE end
  <2>1. \A w \in 1..(n + 1) : C(w) = IF w <= n THEN q[w] ELSE end
    <3> HIDE DEF C, n
    <3> TAKE w \in 1..(n + 1)
    <3>1. CASE w <= n
      <4>1. w \in 1..n
        BY <1>1, <3>1
      <4> QED
        BY <1>1, <3>1, <4>1
    <3>2. CASE ~ (w <= n)
      <4>1. w = n + 1
        BY <1>1, <3>2
      <4> QED
        BY <1>1, <3>2, <4>1
    <3> QED
      BY <3>1, <3>2
  <2>2. \A w \in 0..n : field[C(w)] = C(w + 1)
    OBVIOUS
  <2> HIDE DEF C, n
  <2>3. field[head] = C(1) /\ 1 \in 1..(n + 1)
    <3>1. 0 \in 0..n /\ 0 + 1 = 1
      BY <1>1
    <3> QED
      BY <1>1, <2>2, <3>1
  <2>4. ASSUME NEW w \in 1..n PROVE field[q[w]] = C(w + 1) /\ w + 1 \in 1..(n + 1)
    <3>1. w \in 0..n
      BY <1>1
    <3> QED
      BY <1>1, <2>2, <3>1
  <2> QED
    BY <2>1, <2>3, <2>4
<1> HIDE DEF n, N, C
<1>5. G = F(G)
  <2> SUFFICES ASSUME NEW w \in 1..N PROVE G[w] = F(G)[w]
    OBVIOUS
  <2>1. CASE w = 1
    BY <1>4, <2>1
  <2>2. CASE w # 1 /\ w - 1 <= n
    <3>1. w - 1 \in 1..N /\ w - 1 \in 1..n /\ (w - 1) + 1 = w
      BY <1>1, <1>2, <2>2
    <3>2. G[w - 1] = q[w - 1] /\ q[w - 1] # end
      BY <1>1, <2>2, <3>1
    <3>3. field[q[w - 1]] = IF w <= n THEN q[w] ELSE end
      BY <1>4, <3>1
    <3> HIDE DEF G
    <3>4. F(G)[w] = field[q[w - 1]]
      BY <2>2, <3>2
    <3> QED
      BY <3>3, <3>4 DEF G
  <2>3. CASE w # 1 /\ ~ (w - 1 <= n)
    <3>1. w - 1 \in 1..N /\ ~ (w <= n)
      BY <1>1, <1>2, <2>3
    <3>2. G[w - 1] = end /\ G[w] = end
      BY <2>3, <3>1
    <3> HIDE DEF G
    <3> QED
      BY <2>3, <3>2
  <2> QED
    BY <2>1, <2>2, <2>3
<1>6. W = F(W)
  <2>1. \E g : g = F(g)
    BY <1>5
  <2> HIDE DEF F
  <2> QED
    BY <2>1
<1>7. \A w \in 1..N : W[w] = G[w]
  <2> DEFINE S == {w \in 1..N : W[w] # G[w]}
  <2> SUFFICES ASSUME S # {} PROVE FALSE
    OBVIOUS
  <2>1. S \in SUBSET Nat
    BY <1>2
  <2>2. PICK w \in S : \A y \in S : w <= y
    BY <2>1, LeastNatural
  <2>3. w \in 1..N /\ W[w] # G[w] /\ \A y \in 1..N : y < w => W[y] = G[y]
    BY <2>2
  <2>4. W[w] = F(W)[w] /\ G[w] = F(G)[w]
    BY <1>5, <1>6
  <2>5. CASE w = 1
    <3> HIDE DEF W, G
    <3> QED
      BY <2>3, <2>4, <2>5
  <2>6. CASE w # 1
    <3>1. w - 1 \in 1..N /\ w - 1 < w
      BY <1>2, <2>3, <2>6
    <3>2. W[w - 1] = G[w - 1]
      BY <2>3, <3>1
    <3> HIDE DEF W, G
    <3> QED
      BY <2>3, <2>4, <2>6, <3>2
  <2> QED
    BY <2>5, <2>6
<1> HIDE DEF F, W
<1>8. \A w \in 1..N : W[w] = IF w <= n THEN q[w] ELSE end
  BY <1>7
<1> HIDE DEF G
<1>9. ends # {} /\ Min(ends) = n + 1
  <2>1. n + 1 \in ends
    BY <1>1, <1>2, <1>8
  <2>2. \A w \in ends : w \in Nat /\ n + 1 <= w
    <3> TAKE w \in ends
    <3>1. w \in 1..N /\ W[w] = end
      OBVIOUS
    <3>2. CASE w <= n
      <4>1. w \in 1..n
        BY <1>2, <3>1, <3>2
      <4> QED
        BY <1>1, <1>8, <3>1, <3>2, <4>1
    <3>3. CASE ~ (w <= n)
      BY <1>1, <1>2, <3>1, <3>3
    <3> QED
      BY <3>2, <3>3
  <2> HIDE DEF ends
  <2>3. ends \in SUBSET Nat
    BY <2>2
  <2>4. Min(ends) \in ends /\ \A y \in ends : Min(ends) <= y
    BY <2>1, <2>3, LeastIs
  <2>5. Min(ends) \in Nat /\ n + 1 <= Min(ends) /\ Min(ends) <= n + 1
    BY <2>1, <2>2, <2>4
  <2> QED
    BY <1>1, <2>1, <2>5
<1> HIDE DEF ends
<1>10. Walk(field, head, end) = [w \in 1..n |-> W[w]]
  <2>1. Min(ends) - 1 = n
    BY <1>1, <1>9
  <2> QED
    BY <1>3, <1>9, <2>1
<1>11. \A w \in 1..n : W[w] = q[w]
  BY <1>1, <1>2, <1>8
<1>12. q = [w \in 1..n |-> q[w]]
  BY <1>1
<1> QED
  BY <1>10, <1>11, <1>12

-----------------------------------------------------------------------------
(* The singly linked list.                                                 *)

LEMMA ListFacts == ListHead \notin Elems /\ Nil \notin Elems
BY LinksAssumption

LEMMA PushKeeps ==
    ASSUME NEW s \in Memory, NEW q, ChainOK(s, q), NEW x \in Elems, x \notin Range(q)
    PROVE  LET u == slist_add(s, x)
           IN  u \in Memory /\ u.next = s.next /\ u.prev = s.prev /\ ChainOK(u, <<x>> \o q)
<1> DEFINE n == Len(q)
           r == InsertAt(q, 1, x)
           A(j) == Stop(q, ListHead, Nil, j)
           B(j) == Stop(r, ListHead, Nil, j)
           u == slist_add(s, x)
<1>0. q \in Seq(Elems) /\ NoRepeat(q) /\ ListHead \notin Elems /\ Nil \notin Elems
  BY ListFacts DEF ChainOK
<1>1. /\ n \in Nat /\ DOMAIN q = 1..n /\ A(0) = ListHead
      /\ \A j \in 1..n : A(j) = q[j] /\ q[j] \in Elems /\ q[j] \in Range(q)
      /\ Range(q) \subseteq Elems
  <2>1. /\ n \in Nat /\ DOMAIN q = 1..n /\ Range(q) \subseteq Elems
        /\ \A j \in 1..n : A(j) = q[j] /\ q[j] \in Elems /\ q[j] \in Range(q)
    BY <1>0, StopFacts
  <2>2. A(0) = ListHead
    BY <2>1 DEF Stop
  <2> QED
    BY <2>1, <2>2
<1>2. /\ r \in Seq(Elems) /\ NoRepeat(r) /\ Range(r) = Range(q) \cup {x} /\ Len(r) = n + 1
      /\ \A j \in 0..(n + 2) : B(j) = IF j < 1 THEN A(j) ELSE IF j = 1 THEN x ELSE A(j - 1)
  <2>1. 1 \in 1..(Len(q) + 1)
    BY <1>1
  <2> QED
    BY <1>0, <2>1, InsertedStop
<1>3. /\ u \in Memory /\ u.next = s.next /\ u.prev = s.prev
      /\ \A z \in Links1 : u.snext[z] = IF z = ListHead THEN x ELSE IF z = x THEN s.snext[ListHead] ELSE s.snext[z]
  BY <1>0 DEF slist_add, Memory, Links1
<1>4. \A j \in 0..n : s.snext[A(j)] = A(j + 1)
  BY DEF ChainOK, Chain
<1>5. r = <<x>> \o q
  BY <1>0, EndsAre
<1> HIDE DEF A, B, u, r
<1>6. Chain(u, r)
  <2> SUFFICES ASSUME NEW j \in 0..(n + 1) PROVE u.snext[B(j)] = B(j + 1)
    BY <1>2 DEF Chain, B
  <2> HIDE DEF n
  <2>0. j \in 0..(n + 2) /\ j + 1 \in 0..(n + 2)
    BY <1>1
  <2>1. CASE j = 0
    <3>1. B(j) = ListHead /\ B(j + 1) = x
      BY <1>1, <1>2, <2>0, <2>1
    <3> QED
      BY <1>3, <3>1 DEF Links1
  <2>2. CASE j = 1
    <3>1. B(j) = x /\ B(j + 1) = A(1)
      BY <1>2, <2>0, <2>2
    <3>2. s.snext[ListHead] = A(1)
      <4>1. 0 \in 0..n /\ 0 + 1 = 1
        BY <1>1
      <4> QED
        BY <1>1, <1>4, <4>1
    <3> QED
      BY <1>0, <1>3, <3>1, <3>2 DEF Links1
  <2>3. CASE j > 1
    <3>1. j - 1 \in 1..n /\ j - 1 \in 0..n /\ (j - 1) + 1 = j /\ ~ (j < 1) /\ j # 1 /\ ~ (j + 1 < 1) /\ j + 1 # 1 /\ j + 1 - 1 = j
      BY <1>1, <2>3
    <3>2. B(j) = A(j - 1) /\ B(j + 1) = A(j)
      BY <1>2, <2>0, <3>1
    <3>3. A(j - 1) \in Elems /\ A(j - 1) # ListHead /\ A(j - 1) # x
      BY <1>0, <1>1, <3>1
    <3>4. s.snext[A(j - 1)] = A(j)
      BY <1>4, <3>1
    <3> QED
      BY <1>3, <3>2, <3>3, <3>4 DEF Links1
  <2>4. j = 0 \/ j = 1 \/ j > 1
    BY <1>1
  <2> QED
    BY <2>1, <2>2, <2>3, <2>4
<1>7. \A y \in Elems \ Range(r) : u.snext[y] = Nil
  <2> TAKE y \in Elems \ Range(r)
  <2>1. y # x /\ y # ListHead /\ y \notin Range(q) /\ s.snext[y] = Nil
    BY <1>0, <1>2 DEF ChainOK
  <2> QED
    BY <1>3, <2>1 DEF Links1
<1>8. ChainOK(u, r)
  BY <1>2, <1>6, <1>7 DEF ChainOK
<1> QED
  BY <1>3, <1>5, <1>8 DEF u

LEMMA DropKeeps ==
    ASSUME NEW s \in Memory, NEW q, ChainOK(s, q), NEW i \in 1..Len(q)
    PROVE  LET u == slist_del(s, q[i])
           IN  u \in Memory /\ u.next = s.next /\ u.prev = s.prev /\ ChainOK(u, RemoveAt(q, i))
<1> DEFINE n == Len(q)
           x == q[i]
           r == RemoveAt(q, i)
           A(j) == Stop(q, ListHead, Nil, j)
           B(j) == Stop(r, ListHead, Nil, j)
           u == slist_del(s, x)
           f == find_slist_node_referer(s, x)
           a == A(i - 1)
           b == A(i + 1)
<1>0. q \in Seq(Elems) /\ NoRepeat(q) /\ ListHead \notin Elems /\ Nil \notin Elems /\ i \in 1..n
  BY ListFacts DEF ChainOK
<1>1. /\ n \in Nat /\ DOMAIN q = 1..n /\ A(0) = ListHead
      /\ \A j \in 1..n : A(j) = q[j] /\ q[j] \in Elems /\ q[j] \in Range(q)
      /\ \A j, z \in 0..n : A(j) = A(z) => j = z
      /\ \A j, z \in 1..(n + 1) : A(j) = A(z) => j = z
      /\ \A j \in 0..n : A(j) \in {ListHead} \cup Range(q)
      /\ \A j \in 1..(n + 1) : A(j) \in {Nil} \cup Range(q)
      /\ Range(q) \subseteq Elems
  <2> HIDE DEF x, r, f, a, b
  <2>1. /\ Len(q) \in Nat /\ DOMAIN q = 1..Len(q)
        /\ Stop(q, ListHead, Nil, 0) = ListHead /\ Stop(q, ListHead, Nil, Len(q) + 1) = Nil
        /\ \A j \in 1..Len(q) : Stop(q, ListHead, Nil, j) = q[j] /\ q[j] \in Elems /\ q[j] \in Range(q)
        /\ \A j, p \in 0..Len(q) : Stop(q, ListHead, Nil, j) = Stop(q, ListHead, Nil, p) => j = p
        /\ \A j, p \in 1..(Len(q) + 1) : Stop(q, ListHead, Nil, j) = Stop(q, ListHead, Nil, p) => j = p
        /\ \A j \in 0..Len(q) : Stop(q, ListHead, Nil, j) \in {ListHead} \cup Range(q)
        /\ \A j \in 1..(Len(q) + 1) : Stop(q, ListHead, Nil, j) \in {Nil} \cup Range(q)
        /\ Range(q) \subseteq Elems
    BY <1>0, StopFacts, ZenonT(30)
  <2> QED
    BY <2>1
<1>2. /\ r \in Seq(Elems) /\ NoRepeat(r) /\ Range(r) = Range(q) \ {x} /\ Len(r) = n - 1
      /\ \A j \in 0..n : B(j) = IF j < i THEN A(j) ELSE A(j + 1)
  BY <1>0, RemovedStop
<1>3. /\ i \in 1..n /\ i - 1 \in 0..n /\ i + 1 \in 1..(n + 1) /\ i \in 0..n /\ i \in 1..(n + 1)
      /\ i - 1 + 1 = i /\ i - 1 # i /\ i + 1 # i
  BY <1>0, <1>1
<1>4. \A j \in 0..n : s.snext[A(j)] = A(j + 1)
  BY DEF ChainOK, Chain
<1>5. \A z \in Range(q) : \E j \in 1..n : z = A(j)
  BY <1>1 DEF Range
<1> HIDE DEF A, B, r, n
<1>6. x = A(i) /\ x \in Elems /\ x \in Range(q) /\ x # ListHead /\ x # Nil
  BY <1>0, <1>1, <1>3
<1>7. a # x /\ a \in Links1 /\ b \in Elems \cup {Nil} /\ s.snext[a] = x /\ s.snext[x] = b
  <2>1. a # x
    BY <1>1, <1>3, <1>6
  <2>2. a \in Links1 /\ b \in Elems \cup {Nil}
    BY <1>1, <1>3 DEF Links1
  <2>3. s.snext[a] = x /\ s.snext[x] = b
    BY <1>3, <1>4, <1>6
  <2> QED
    BY <2>1, <2>2, <2>3
<1>8. ASSUME NEW z \in Links1, s.snext[z] = x PROVE z = a
  <2>1. CASE z = ListHead
    <3>1. 0 \in 0..n /\ 0 + 1 = 1 /\ 1 \in 1..(n + 1)
      BY <1>1
    <3>2. A(1) = A(i)
      BY <1>1, <1>4, <1>6, <1>8, <2>1, <3>1
    <3>3. i = 1
      BY <1>1, <1>3, <3>1, <3>2
    <3>4. i - 1 = 0
      BY <3>3
    <3> QED
      BY <1>1, <2>1, <3>4
  <2>2. CASE z \in Range(q)
    <3>1. PICK j \in 1..n : z = A(j)
      BY <1>5, <2>2
    <3>2. j \in 0..n /\ j + 1 \in 1..(n + 1)
      BY <1>1
    <3>3. A(j + 1) = A(i)
      BY <1>4, <1>6, <1>8, <3>1, <3>2
    <3>4. j + 1 = i
      BY <1>1, <1>3, <3>2, <3>3
    <3>5. j = i - 1
      BY <1>3, <3>4
    <3> QED
      BY <3>1, <3>5
  <2>3. CASE z \in Elems \ Range(q)
    BY <1>6, <1>8, <2>3 DEF ChainOK
  <2> QED
    BY <2>1, <2>2, <2>3 DEF Links1
<1>9. f = a
  BY <1>7, <1>8 DEF find_slist_node_referer, Links1
<1>10. /\ u \in Memory /\ u.next = s.next /\ u.prev = s.prev
       /\ \A z \in Links1 : u.snext[z] = IF z = x THEN Nil ELSE IF z = a THEN b ELSE s.snext[z]
  <2>1. u = [[s EXCEPT !.snext[a] = b] EXCEPT !.snext[x] = Nil]
    BY <1>7, <1>9 DEF slist_del, slist_init_node
  <2>2. x \in Links1 /\ Elems \cup {Nil} \subseteq Links1 \cup {Nil}
    BY <1>6 DEF Links1
  <2> HIDE DEF u, a, b, x
  <2> QED
    BY <1>7, <2>1, <2>2 DEF Memory
<1> HIDE DEF u, x, f
<1>11. Chain(u, r)
  <2> SUFFICES ASSUME NEW j \in 0..(n - 1) PROVE u.snext[B(j)] = B(j + 1)
    BY <1>2 DEF Chain, B
  <2>0. j \in 0..n /\ j + 1 \in 0..n
    BY <1>1
  <2>1. CASE j < i - 1
    <3>1. j # i - 1 /\ j # i /\ j < i /\ j + 1 < i
      BY <1>1, <1>3, <2>1
    <3>2. B(j) = A(j) /\ B(j + 1) = A(j + 1)
      BY <1>2, <2>0, <3>1
    <3>3. A(j) # a /\ A(j) # x /\ A(j) \in Links1
      BY <1>1, <1>3, <1>6, <2>0, <3>1 DEF Links1
    <3> QED
      BY <1>4, <1>10, <2>0, <3>2, <3>3
  <2>2. CASE j = i - 1
    <3>1. j < i /\ ~ (j + 1 < i) /\ j + 1 + 1 = i + 1
      BY <1>1, <1>3, <2>2
    <3>2. B(j) = a /\ B(j + 1) = b
      BY <1>2, <2>0, <2>2, <3>1
    <3> QED
      BY <1>7, <1>10, <3>2
  <2>3. CASE j >= i
    <3>1. j + 1 # i - 1 /\ j + 1 # i /\ ~ (j < i) /\ ~ (j + 1 < i)
      BY <1>1, <1>3, <2>3
    <3>2. B(j) = A(j + 1) /\ B(j + 1) = A(j + 1 + 1)
      BY <1>2, <2>0, <3>1
    <3>3. A(j + 1) # a /\ A(j + 1) # x /\ A(j + 1) \in Links1
      BY <1>1, <1>3, <1>6, <2>0, <3>1 DEF Links1
    <3> QED
      BY <1>4, <1>10, <2>0, <3>2, <3>3
  <2>4. j < i - 1 \/ j = i - 1 \/ j >= i
    BY <1>1, <1>3
  <2> QED
    BY <2>1, <2>2, <2>3, <2>4
<1>12. \A y \in Elems \ Range(r) : u.snext[y] = Nil
  <2> TAKE y \in Elems \ Range(r)
  <2>1. CASE y = x
    BY <1>6, <1>10, <2>1 DEF Links1
  <2>2. CASE y # x
    <3>1. y \notin Range(q) /\ s.snext[y] = Nil
      BY <1>2, <2>2 DEF ChainOK
    <3>2. y # a
      BY <1>6, <1>7, <3>1
    <3> QED
      BY <1>10, <2>2, <3>1, <3>2 DEF Links1
  <2> QED
    BY <2>1, <2>2
<1>13. ChainOK(u, r)
  BY <1>2, <1>11, <1>12 DEF ChainOK
<1> QED
  BY <1>10, <1>13 DEF u, x, r

-----------------------------------------------------------------------------
(* The calls.                                                              *)

LEMMA InitLinks ==
    ASSUME LinksInit
    PROVE  LinksIInv
<1>1. m \in Memory
  BY DEF LinksInit, Memory, Ends2, Links1, queue_init
<1>2. order = [h \in Heads |-> <<>>] /\ stack = <<>> /\ \A z \in Ends2 : m.next[z] = z /\ m.prev[z] = z
  BY DEF LinksInit, Ends2, queue_init
<1>3. \A z \in Links1 : m.snext[z] = Nil
  BY DEF LinksInit, Links1
<1>4. <<>> \in Seq(Elems) /\ NoRepeat(<<>>) /\ Len(<<>>) = 0 /\ Range(<<>>) = {}
  BY DEF NoRepeat, Range
<1>5. OrderOK(order)
  BY <1>2, <1>4 DEF OrderOK
<1>6. \A h \in Heads : Ring(m, h, order[h])
  <2> SUFFICES ASSUME NEW h \in Heads, NEW i \in 0..0
               PROVE  m.next[RingAt(<<>>, h, i)] = RingAt(<<>>, h, i + 1) /\ m.prev[RingAt(<<>>, h, i + 1)] = RingAt(<<>>, h, i)
    BY <1>2, <1>4 DEF Ring
  <2>1. RingAt(<<>>, h, i) = h /\ RingAt(<<>>, h, i + 1) = h
    BY <1>4 DEF RingAt, Stop
  <2> QED
    BY <1>2, <2>1 DEF Ends2
<1>7. RingsOK(m, order)
  BY <1>2, <1>5, <1>6 DEF RingsOK, Ends2
<1>8. Chain(m, stack)
  <2> SUFFICES ASSUME NEW i \in 0..0
               PROVE  m.snext[Stop(<<>>, ListHead, Nil, i)] = Stop(<<>>, ListHead, Nil, i + 1)
    BY <1>2, <1>4 DEF Chain
  <2>1. Stop(<<>>, ListHead, Nil, i) = ListHead /\ Stop(<<>>, ListHead, Nil, i + 1) = Nil
    BY <1>4 DEF Stop
  <2> QED
    BY <1>3, <2>1 DEF Links1
<1>9. ChainOK(m, stack)
  BY <1>2, <1>3, <1>4, <1>8 DEF ChainOK, Links1
<1> QED
  BY <1>1, <1>7, <1>9 DEF LinksIInv

\* A call on a queue leaves the singly linked list alone, and the other way round.
LEMMA QueueCallKeeps ==
    ASSUME LinksIInv, NEW h \in Heads, NEW s \in Memory, s.snext = m.snext, NEW q,
           RingsOK(s, [order EXCEPT ![h] = q]), QueueCall(h, s, q)
    PROVE  LinksIInv'
<1>1. m' = s /\ order' = [order EXCEPT ![h] = q] /\ stack' = stack
  BY DEF QueueCall
<1>2. ChainOK(s, stack)
  BY DEF LinksIInv, ChainOK, Chain
<1>3. LinksIInv' <=> s \in Memory /\ RingsOK(s, [order EXCEPT ![h] = q]) /\ ChainOK(s, stack)
  BY <1>1 DEF LinksIInv
<1> QED
  BY <1>2, <1>3

LEMMA ListCallKeeps ==
    ASSUME LinksIInv, NEW s \in Memory, s.next = m.next, s.prev = m.prev, NEW q, ChainOK(s, q), ListCall(s, q)
    PROVE  LinksIInv'
<1>1. m' = s /\ stack' = q /\ order' = order
  BY DEF ListCall
<1>2. RingsOK(s, order)
  BY DEF LinksIInv, RingsOK, Ring
<1>3. LinksIInv' <=> s \in Memory /\ RingsOK(s, order) /\ ChainOK(s, q)
  BY <1>1 DEF LinksIInv
<1> QED
  BY <1>2, <1>3

LEMMA PlaceIs ==
    ASSUME NEW h \in Heads, NEW x \in Range(order[h]), OrderOK(order)
    PROVE  Place(h, x) \in 1..Len(order[h]) /\ order[h][Place(h, x)] = x
<1>1. DOMAIN order[h] = 1..Len(order[h])
  BY AtFacts
<1>2. \E i \in DOMAIN order[h] : order[h][i] = x
  BY DEF Range
<1> QED
  BY <1>1, <1>2 DEF Place

LEMMA InvIs ==
    ASSUME LinksIInv
    PROVE  /\ m \in Memory /\ RingsOK(m, order) /\ ChainOK(m, stack) /\ OrderOK(order) /\ Members(order) = Queued
BY DEF LinksIInv, RingsOK, Members, Queued

LEMMA AddKeeps ==
    ASSUME LinksIInv, NEW h \in Heads, NEW x \in Elems
    PROVE  /\ AddLast(h, x) => LinksIInv'
           /\ AddTop(h, x) => LinksIInv'
           /\ \A t \in Range(order[h]) : AddBefore(h, t, x) \/ AddAfter(h, t, x) => LinksIInv'
<1> DEFINE q == order[h]
           n == Len(q)
<1>1. m \in Memory /\ RingsOK(m, order) /\ OrderOK(order) /\ Members(order) = Queued
  BY InvIs
<1>2. /\ q \in Seq(Elems) /\ n \in Nat /\ RingAt(q, h, 0) = h /\ RingAt(q, h, n + 1) = h
      /\ \A i \in 1..n : RingAt(q, h, i) = q[i]
  BY <1>1, AtFacts
<1>3. ASSUME AddLast(h, x) PROVE LinksIInv'
  <2>1. n + 1 \in 1..(n + 1)
    BY <1>2
  <2>2. Append(q, x) = InsertAt(q, n + 1, x)
    BY <1>2, EndsAre
  <2> DEFINE u == queue_add(m, h, x)
  <2>3. x \notin Members(order) /\ QueueCall(h, u, InsertAt(q, n + 1, x))
    BY <1>1, <1>3, <2>2 DEF AddLast
  <2> DEFINE i == n + 1
  <2>4. i \in 1..(Len(order[h]) + 1) /\ h = RingAt(order[h], h, i)
    BY <1>2, <2>1
  <2> HIDE DEF i
  <2>5. u \in Memory /\ u.snext = m.snext /\ RingsOK(u, [order EXCEPT ![h] = InsertAt(q, i, x)])
    BY <1>1, <2>3, <2>4, AddBeforeKeeps
  <2> HIDE DEF u
  <2> QED
    BY <2>3, <2>5, QueueCallKeeps DEF i
<1>4. ASSUME AddTop(h, x) PROVE LinksIInv'
  <2>2. <<x>> \o q = InsertAt(q, 1, x)
    BY <1>2, EndsAre
  <2> DEFINE u == queue_add_top(m, h, x)
             i == 1
  <2>3. x \notin Members(order) /\ QueueCall(h, u, InsertAt(q, i, x))
    BY <1>1, <1>4, <2>2 DEF AddTop
  <2>4. i \in 1..(Len(order[h]) + 1) /\ h = RingAt(order[h], h, i - 1)
    BY <1>2
  <2> HIDE DEF i
  <2>5. u \in Memory /\ u.snext = m.snext /\ RingsOK(u, [order EXCEPT ![h] = InsertAt(q, i, x)])
    BY <1>1, <2>3, <2>4, AddAfterKeeps
  <2> HIDE DEF u
  <2> QED
    BY <2>3, <2>5, QueueCallKeeps
<1>5. ASSUME NEW t \in Range(order[h]), AddBefore(h, t, x) PROVE LinksIInv'
  <2> DEFINE u == queue_add_before(m, t, x)
             i == Place(h, t)
  <2>3. x \notin Members(order) /\ QueueCall(h, u, InsertAt(q, i, x))
    BY <1>1, <1>5 DEF AddBefore
  <2>4. i \in 1..(Len(order[h]) + 1) /\ t = RingAt(order[h], h, i)
    <3>1. i \in 1..n /\ q[i] = t
      BY <1>1, PlaceIs
    <3> QED
      BY <1>2, <3>1
  <2> HIDE DEF i
  <2>5. u \in Memory /\ u.snext = m.snext /\ RingsOK(u, [order EXCEPT ![h] = InsertAt(q, i, x)])
    BY <1>1, <2>3, <2>4, AddBeforeKeeps
  <2> HIDE DEF u
  <2> QED
    BY <2>3, <2>5, QueueCallKeeps
<1>6. ASSUME NEW t \in Range(order[h]), AddAfter(h, t, x) PROVE LinksIInv'
  <2> DEFINE u == queue_add_after(m, t, x)
             i == Place(h, t) + 1
  <2>3. x \notin Members(order) /\ QueueCall(h, u, InsertAt(q, i, x))
    BY <1>1, <1>6 DEF AddAfter
  <2>4. i \in 1..(Len(order[h]) + 1) /\ t = RingAt(order[h], h, i - 1)
    <3>1. Place(h, t) \in 1..n /\ q[Place(h, t)] = t
      BY <1>1, PlaceIs
    <3>2. i \in 1..(n + 1) /\ i - 1 = Place(h, t)
      BY <1>2, <3>1
    <3> QED
      BY <1>2, <3>1, <3>2
  <2> HIDE DEF i
  <2>5. u \in Memory /\ u.snext = m.snext /\ RingsOK(u, [order EXCEPT ![h] = InsertAt(q, i, x)])
    BY <1>1, <2>3, <2>4, AddAfterKeeps
  <2> HIDE DEF u
  <2> QED
    BY <2>3, <2>5, QueueCallKeeps
<1> QED
  BY <1>3, <1>4, <1>5, <1>6

LEMMA ForEachIs ==
    ASSUME LinksIInv, NEW h \in Heads
    PROVE  queue_for_each(m, h) = order[h]
<1> DEFINE q == order[h]
<1>1. q \in Seq(Elems) /\ NoRepeat(q) /\ h \notin Elems /\ Ring(m, h, q)
  BY InvIs, AtFacts DEF RingsOK
<1>2. \A i \in 0..Len(q) : m.next[Stop(q, h, h, i)] = Stop(q, h, h, i + 1)
  BY <1>1 DEF Ring, RingAt
<1> HIDE DEF q
<1>3. Walk(m.next, h, h) = q
  BY <1>1, <1>2, WalkIs
<1> QED
  BY <1>3 DEF queue_for_each, q

(* The place that queue_add_sort comes to.                                 *)
LEMMA AddSortedKeeps ==
    ASSUME LinksIInv, NEW h \in Heads, NEW x \in Elems, AddSorted(h, x)
    PROVE  LinksIInv'
<1> DEFINE q == order[h]
           n == Len(q)
           K == {i \in DOMAIN q : i = n \/ Rank[q[i]] > Rank[x]}
           stop == {i \in DOMAIN q : m.next[q[i]] = h \/ Rank[x] < Rank[q[i]]}
           i == SortedPlace(h, x)
           t == IF q = <<>> THEN h ELSE q[Min(stop)]
           u == queue_add_before(m, t, x)
<1>1. m \in Memory /\ RingsOK(m, order) /\ OrderOK(order) /\ Members(order) = Queued
  BY InvIs
<1>2. /\ q \in Seq(Elems) /\ n \in Nat /\ DOMAIN q = 1..n /\ RingAt(q, h, n + 1) = h /\ h \notin Elems
      /\ \A j \in 1..n : RingAt(q, h, j) = q[j] /\ q[j] \in Elems
      /\ \A j, w \in 1..(n + 1) : RingAt(q, h, j) = RingAt(q, h, w) => j = w
  BY <1>1, AtFacts
<1>3. \A j \in 1..n : m.next[q[j]] = h <=> j = n
  <2> TAKE j \in 1..n
  <2>1. m.next[RingAt(q, h, j)] = RingAt(q, h, j + 1)
    <3>1. j \in 0..n
      BY <1>2
    <3> QED
      BY <1>1, <3>1 DEF RingsOK, Ring
  <2> HIDE DEF n, q
  <2>2. j + 1 \in 1..(n + 1) /\ n + 1 \in 1..(n + 1) /\ (j + 1 = n + 1 <=> j = n)
    BY <1>2
  <2>3. RingAt(q, h, j + 1) = h <=> j + 1 = n + 1
    BY <1>2, <2>2
  <2> QED
    BY <1>2, <2>1, <2>2, <2>3
<1>4. stop = K
  <2>1. \A j \in 1..n : Rank[q[j]] > Rank[x] <=> Rank[x] < Rank[q[j]]
    BY <1>2, LinksAssumption
  <2> QED
    BY <1>2, <1>3, <2>1
<1>5. u = queue_add_sort(m, h, x)
  BY ForEachIs DEF queue_add_sort
<1>6. i = Min(K \cup {n + 1})
  BY DEF SortedPlace
<1>7. i \in 1..(n + 1) /\ t = RingAt(q, h, i)
  <2>1. K \subseteq 1..n /\ K \cup {n + 1} \in SUBSET Nat
    BY <1>2
  <2>2. i \in K \cup {n + 1} /\ \A y \in K \cup {n + 1} : i <= y
    <3> HIDE DEF K, i, n
    <3> QED
      BY <1>6, <2>1, LeastIs
  <2>3. CASE q = <<>>
    <3>1. n = 0
      BY <2>3
    <3>2. i = n + 1 /\ t = h
      BY <2>1, <2>2, <2>3, <3>1
    <3> QED
      BY <1>2, <3>1, <3>2
  <2>4. CASE q # <<>>
    <3>1. n \in K
      <4>1. n # 0
        BY <1>2, <2>4, EmptySeq
      <4> QED
        BY <1>2, <4>1
    <3> HIDE DEF K, i, stop, n
    <3>2. Min(K) \in K /\ \A y \in K : Min(K) <= y
      BY <2>1, <3>1, LeastIs
    <3>3. i # n + 1
      BY <1>2, <2>2, <3>1
    <3>4. i \in K /\ i <= Min(K) /\ Min(K) <= i /\ i \in 1..n /\ Min(K) \in 1..n
      BY <2>1, <2>2, <3>2, <3>3
    <3>5. i = Min(K)
      BY <3>4
    <3> QED
      BY <1>2, <1>4, <2>4, <3>4, <3>5
  <2> QED
    BY <2>3, <2>4
<1>8. x \notin Members(order) /\ QueueCall(h, u, InsertAt(q, i, x))
  BY <1>1, <1>5 DEF AddSorted
<1> HIDE DEF i, t
<1>9. u \in Memory /\ u.snext = m.snext /\ RingsOK(u, [order EXCEPT ![h] = InsertAt(q, i, x)])
  BY <1>1, <1>7, <1>8, AddBeforeKeeps
<1> HIDE DEF u
<1> QED
  BY <1>8, <1>9, QueueCallKeeps

LEMMA QueueDelKeeps ==
    ASSUME LinksIInv, NEW h \in Heads
    PROVE  /\ \A x \in Range(order[h]) : QueueCall(h, list_del(m, x), RemoveAt(order[h], Place(h, x))) => LinksIInv'
           /\ GetTop(h) => LinksIInv'
           /\ GetLast(h) => LinksIInv'
<1> DEFINE q == order[h]
           n == Len(q)
<1>1. m \in Memory /\ RingsOK(m, order) /\ OrderOK(order)
  BY InvIs
<1>2. /\ q \in Seq(Elems) /\ n \in Nat /\ DOMAIN q = 1..n /\ RingAt(q, h, 0) = h /\ RingAt(q, h, n + 1) = h
      /\ \A i \in 1..n : RingAt(q, h, i) = q[i] /\ q[i] \in Elems
      /\ \A i \in 0..n : m.next[RingAt(q, h, i)] = RingAt(q, h, i + 1) /\ m.prev[RingAt(q, h, i + 1)] = RingAt(q, h, i)
  BY <1>1, AtFacts DEF RingsOK, Ring
<1>3. ASSUME NEW i \in 1..n, QueueCall(h, list_del(m, q[i]), RemoveAt(q, i)) PROVE LinksIInv'
  <2> DEFINE u == list_del(m, q[i])
  <2>0. u = list_del(m, order[h][i])
    OBVIOUS
  <2>2. QueueCall(h, u, RemoveAt(q, i))
    BY <1>3
  <2> HIDE DEF u
  <2>1. u \in Memory /\ u.snext = m.snext /\ RingsOK(u, [order EXCEPT ![h] = RemoveAt(q, i)])
    BY <1>1, <2>0, RemoveKeeps
  <2> QED
    BY <2>1, <2>2, QueueCallKeeps
<1>4. ASSUME NEW x \in Range(q), QueueCall(h, list_del(m, x), RemoveAt(q, Place(h, x))) PROVE LinksIInv'
  <2>1. Place(h, x) \in 1..n /\ q[Place(h, x)] = x
    BY <1>1, PlaceIs
  <2> QED
    BY <1>3, <1>4, <2>1
<1>5. ASSUME q # <<>>
      PROVE  /\ 1 \in 1..n /\ n \in 1..n /\ queue_ref_top(m, h) = q[1] /\ queue_ref_last(m, h) = q[n]
             /\ Tail(q) = RemoveAt(q, 1) /\ Front(q) = RemoveAt(q, n)
  <2>1. n \in 1..n /\ Tail(q) = RemoveAt(q, 1) /\ Front(q) = RemoveAt(q, n)
    <3>1. q[1] \in Elems
      <4>1. n # 0
        BY <1>2, <1>5, EmptySeq
      <4> QED
        BY <1>2, <4>1
    <3> HIDE DEF q
    <3> QED
      BY <1>2, <1>5, <3>1, EndsAre DEF n
  <2> HIDE DEF n, q
  <2>2. 1 \in 1..n /\ 0 \in 0..n /\ n \in 0..n /\ 0 + 1 = 1
    BY <1>2, <2>1
  <2> QED
    BY <1>2, <2>1, <2>2 DEF queue_ref_top, queue_ref_last
<1>6. ASSUME GetTop(h) PROVE LinksIInv'
  <2>1. q # <<>> /\ QueueCall(h, list_del(m, queue_ref_top(m, h)), Tail(q))
    BY <1>6 DEF GetTop, queue_get_top
  <2> QED
    BY <1>3, <1>5, <2>1
<1>7. ASSUME GetLast(h) PROVE LinksIInv'
  <2>1. q # <<>> /\ QueueCall(h, list_del(m, queue_ref_last(m, h)), Front(q))
    BY <1>7 DEF GetLast, queue_get_last
  <2> QED
    BY <1>3, <1>5, <2>1
<1> QED
  BY <1>4, <1>6, <1>7

(* An element that is taken out at one end and put back at the other; an   *)
(* empty queue is linked to itself as before.                              *)
LEMMA EmptyDel ==
    ASSUME NEW s \in Memory, NEW h \in Ends2, s.next[h] = h, s.prev[h] = h
    PROVE  list_del(s, h) = s /\ queue_add(s, h, h) = s /\ queue_add_top(s, h, h) = s
<1>1. SetNext(s, h, h) = s /\ SetPrev(s, h, h) = s
  BY DEF SetNext, SetPrev, Memory
<1> QED
  BY <1>1 DEF list_del, list_init, queue_add, queue_add_top

(* queue_del of an element that is in a queue takes it out of that queue   *)
(* alone; of one that is in none, it changes nothing.                      *)
LEMMA DelKeeps ==
    ASSUME LinksIInv, NEW x \in Elems, queue_del(x)
    PROVE  LinksIInv'
<1> DEFINE w == [h \in Heads |-> IF x \in Range(order[h]) THEN RemoveAt(order[h], Place(h, x)) ELSE order[h]]
<1>1. m \in Memory /\ RingsOK(m, order) /\ ChainOK(m, stack) /\ OrderOK(order)
  BY InvIs
<1>2. m' = list_del(m, x) /\ order' = w /\ stack' = stack
  BY DEF queue_del
<1>3. CASE \E h \in Heads : x \in Range(order[h])
  <2>1. PICK h \in Heads : x \in Range(order[h])
    BY <1>3
  <2>2. \A g \in Heads : g # h => x \notin Range(order[g])
    BY <1>1, <2>1 DEF OrderOK
  <2>3. w = [order EXCEPT ![h] = RemoveAt(order[h], Place(h, x))]
    <3> DEFINE r == RemoveAt(order[h], Place(h, x))
    <3>1. order \in [Heads -> Seq(Elems)]
      BY <1>1 DEF OrderOK
    <3>2. w[h] = r /\ \A g \in Heads : g # h => w[g] = order[g]
      BY <2>1, <2>2
    <3> HIDE DEF r
    <3>3. w \in [Heads -> {w[g] : g \in Heads}]
      OBVIOUS
    <3>4. w = [g \in Heads |-> w[g]]
      OBVIOUS
    <3> HIDE DEF w
    <3>5. [order EXCEPT ![h] = r] = [g \in Heads |-> IF g = h THEN r ELSE order[g]]
      BY <3>1
    <3>6. \A g \in Heads : w[g] = IF g = h THEN r ELSE order[g]
      BY <3>2
    <3> QED
      BY <3>4, <3>5, <3>6 DEF r
  <2>4. QueueCall(h, list_del(m, x), RemoveAt(order[h], Place(h, x)))
    BY <1>2, <2>3 DEF QueueCall
  <2> QED
    BY <2>1, <2>4, QueueDelKeeps
<1>4. CASE \A h \in Heads : x \notin Range(order[h])
  <2>1. x \notin Members(order)
    BY <1>4 DEF Members
  <2>2. m.next[x] = x /\ m.prev[x] = x
    BY <1>1, <2>1 DEF RingsOK
  <2>3. list_del(m, x) = m
    BY <1>1, <2>2, EmptyDel DEF Ends2
  <2>4. w = order
    BY <1>1, <1>4 DEF OrderOK
  <2> QED
    BY <1>2, <2>3, <2>4 DEF LinksIInv
<1> QED
  BY <1>3, <1>4

LEMMA RotateKeeps ==
    ASSUME LinksIInv, NEW h \in Heads
    PROVE  (RotateStep(h) => LinksIInv') /\ (ReverseRotate(h) => LinksIInv')
<1> DEFINE q == order[h]
           n == Len(q)
<1>1. m \in Memory /\ RingsOK(m, order) /\ OrderOK(order)
  BY InvIs
<1>2. /\ q \in Seq(Elems) /\ n \in Nat /\ DOMAIN q = 1..n /\ RingAt(q, h, 0) = h /\ RingAt(q, h, n + 1) = h
      /\ \A i \in 1..n : RingAt(q, h, i) = q[i] /\ q[i] \in Elems
      /\ \A i \in 0..n : m.next[RingAt(q, h, i)] = RingAt(q, h, i + 1) /\ m.prev[RingAt(q, h, i + 1)] = RingAt(q, h, i)
  BY <1>1, AtFacts DEF RingsOK, Ring
<1>3. CASE q = <<>>
  <2>1. m.next[h] = h /\ m.prev[h] = h
    <3>1. n = 0 /\ 0 \in 0..0 /\ 0 + 1 = 1
      BY <1>3
    <3> QED
      BY <1>2, <3>1
  <2>2. queue_rotate(m, h) = m /\ queue_reverse_rotate(m, h) = m
    <3>1. h \in Ends2
      BY DEF Ends2
    <3>2. list_del(m, h) = m /\ queue_add(m, h, h) = m /\ queue_add_top(m, h, h) = m
      BY <1>1, <2>1, <3>1, EmptyDel
    <3> QED
      BY <2>1, <3>2
      DEF queue_rotate, queue_reverse_rotate, queue_get_top, queue_get_last, queue_ref_top, queue_ref_last
  <2>3. [order EXCEPT ![h] = <<>>] = order
    BY <1>1, <1>3 DEF OrderOK
  <2>4. RotateStep(h) \/ ReverseRotate(h) => QueueCall(h, m, <<>>)
    BY <1>3, <2>2 DEF RotateStep, ReverseRotate
  <2> QED
    BY <1>1, <2>3, <2>4, QueueCallKeeps
<1>4. CASE q # <<>>
  <2>0. n # 0
    BY <1>2, <1>4, EmptySeq
  <2>1. /\ 1 \in 1..n /\ n \in 1..n /\ q[1] \in Elems /\ q[n] \in Elems
        /\ queue_ref_top(m, h) = q[1] /\ queue_ref_last(m, h) = q[n]
    <3> HIDE DEF n, q
    <3>1. 1 \in 1..n /\ 0 \in 0..n /\ n \in 0..n /\ 0 + 1 = 1 /\ n \in 1..n
      BY <1>2, <2>0
    <3> QED
      BY <1>2, <3>1 DEF queue_ref_top, queue_ref_last
  <2>2. Tail(q) = RemoveAt(q, 1) /\ Front(q) = RemoveAt(q, n) /\ Head(q) = q[1] /\ Last(q) = q[n]
    <3>1. Last(q) = q[n]
      BY DEF Last
    <3> HIDE DEF q
    <3> QED
      BY <1>2, <1>4, <2>1, <3>1, EndsAre DEF n
  <2>3. ASSUME NEW i \in 1..n
        PROVE  LET x == q[i]
                   s == list_del(m, x)
                   r == RemoveAt(q, i)
                   u == queue_add(s, h, x)
                   v == queue_add_top(s, h, x)
               IN  /\ u \in Memory /\ u.snext = m.snext /\ RingsOK(u, [order EXCEPT ![h] = Append(r, x)])
                   /\ v \in Memory /\ v.snext = m.snext /\ RingsOK(v, [order EXCEPT ![h] = <<x>> \o r])
    <3> DEFINE x == q[i]
               s == list_del(m, x)
               r == RemoveAt(q, i)
               o == [order EXCEPT ![h] = r]
               u == queue_add(s, h, x)
               v == queue_add_top(s, h, x)
    <3>1. x \in Elems
      BY <1>2
    <3>2. s = list_del(m, order[h][i])
      OBVIOUS
    <3> HIDE DEF s
    <3>3. s \in Memory /\ s.snext = m.snext /\ RingsOK(s, o) /\ x \notin Members(o)
      BY <1>1, <3>2, RemoveKeeps
    <3>4. o[h] = r /\ \A z : [o EXCEPT ![h] = z] = [order EXCEPT ![h] = z]
      BY <1>1 DEF OrderOK
    <3> HIDE DEF o
    <3>5. OrderOK(o)
      BY <3>3 DEF RingsOK
    <3>6. o[h] \in Seq(Elems) /\ Len(o[h]) \in Nat /\ RingAt(o[h], h, 0) = h /\ RingAt(o[h], h, Len(o[h]) + 1) = h
      BY <3>5, AtFacts
    <3> HIDE DEF r, x
    <3>7. u \in Memory /\ u.snext = m.snext /\ RingsOK(u, [o EXCEPT ![h] = Append(r, x)])
      <4> DEFINE w == Len(o[h]) + 1
      <4>1. w \in 1..(Len(o[h]) + 1) /\ h = RingAt(o[h], h, w)
        BY <3>6
      <4>2. Append(r, x) = InsertAt(r, w, x)
        <5>1. r \in Seq(Elems) /\ o[h] = r
          BY <3>4, <3>6
        <5>2. Append(r, x) = InsertAt(r, Len(r) + 1, x)
          BY <3>1, <5>1, EndsAre
        <5> QED
          BY <5>1, <5>2
      <4> HIDE DEF w
      <4>3. /\ queue_add_before(s, h, x) \in Memory /\ queue_add_before(s, h, x).snext = s.snext
            /\ RingsOK(queue_add_before(s, h, x), [o EXCEPT ![h] = InsertAt(o[h], w, x)])
            /\ queue_add(s, h, x) = queue_add_before(s, h, x)
        BY <3>1, <3>3, <4>1, AddBeforeKeeps
      <4> QED
        BY <3>3, <3>4, <4>2, <4>3
    <3>8. v \in Memory /\ v.snext = m.snext /\ RingsOK(v, [o EXCEPT ![h] = <<x>> \o r])
      <4> DEFINE w == 1
      <4>1. w \in 1..(Len(o[h]) + 1) /\ h = RingAt(o[h], h, w - 1)
        BY <3>6
      <4>2. <<x>> \o r = InsertAt(r, w, x)
        BY <3>1, <3>4, <3>6, EndsAre
      <4> HIDE DEF w
      <4>3. /\ queue_add_after(s, h, x) \in Memory /\ queue_add_after(s, h, x).snext = s.snext
            /\ RingsOK(queue_add_after(s, h, x), [o EXCEPT ![h] = InsertAt(o[h], w, x)])
            /\ queue_add_top(s, h, x) = queue_add_after(s, h, x)
        BY <3>1, <3>3, <4>1, AddAfterKeeps
      <4> QED
        BY <3>3, <3>4, <4>2, <4>3
    <3> QED
      BY <3>4, <3>7, <3>8 DEF s, r, x
  <2>4. ASSUME RotateStep(h) PROVE LinksIInv'
    <3> DEFINE u == queue_add(list_del(m, q[1]), h, q[1])
               p == Append(RemoveAt(q, 1), q[1])
    <3>1. QueueCall(h, u, p)
      BY <1>4, <2>1, <2>2, <2>4 DEF RotateStep, queue_rotate, queue_get_top
    <3>2. u \in Memory /\ u.snext = m.snext /\ RingsOK(u, [order EXCEPT ![h] = p])
      BY <2>1, <2>3
    <3> HIDE DEF u, p
    <3> QED
      BY <3>1, <3>2, QueueCallKeeps
  <2>5. ASSUME ReverseRotate(h) PROVE LinksIInv'
    <3> DEFINE u == queue_add_top(list_del(m, q[n]), h, q[n])
               p == <<q[n]>> \o RemoveAt(q, n)
    <3>1. QueueCall(h, u, p)
      BY <1>4, <2>1, <2>2, <2>5 DEF ReverseRotate, queue_reverse_rotate, queue_get_last
    <3>2. u \in Memory /\ u.snext = m.snext /\ RingsOK(u, [order EXCEPT ![h] = p])
      BY <2>1, <2>3
    <3> HIDE DEF u, p
    <3> QED
      BY <3>1, <3>2, QueueCallKeeps
  <2> QED
    BY <2>4, <2>5
<1> QED
  BY <1>3, <1>4

LEMMA ListStepKeeps ==
    ASSUME LinksIInv
    PROVE  /\ \A x \in Elems : Push(x) \/ Drop(x) => LinksIInv'
           /\ Pop => LinksIInv'
<1> DEFINE n == Len(stack)
<1>1. m \in Memory /\ ChainOK(m, stack) /\ stack \in Seq(Elems) /\ NoRepeat(stack)
  BY InvIs DEF ChainOK
<1>2. /\ n \in Nat /\ DOMAIN stack = 1..n /\ Stop(stack, ListHead, Nil, 0) = ListHead
      /\ \A i \in 1..n : Stop(stack, ListHead, Nil, i) = stack[i] /\ stack[i] \in Elems
      /\ Stop(stack, ListHead, Nil, n + 1) = Nil
  <2>1. /\ Len(stack) \in Nat /\ DOMAIN stack = 1..Len(stack)
        /\ \A i \in 1..Len(stack) : stack[i] \in Elems
    BY <1>1, LenProperties, ElementOfSeq
  <2>2. \A i \in 1..n : Stop(stack, ListHead, Nil, i) = stack[i]
    BY DEF Stop
  <2>3. ~ (0 \in 1..n) /\ ~ (n + 1 \in 1..n) /\ n + 1 # 0
    BY <2>1
  <2>4. Stop(stack, ListHead, Nil, 0) = ListHead /\ Stop(stack, ListHead, Nil, n + 1) = Nil
    BY <2>3 DEF Stop
  <2> QED
    BY <2>1, <2>2, <2>4
<1>3. ASSUME NEW x \in Elems, Push(x) PROVE LinksIInv'
  <2> DEFINE u == slist_add(m, x)
  <2>1. x \notin Range(stack) /\ ListCall(u, <<x>> \o stack)
    BY <1>3 DEF Push
  <2>2. u \in Memory /\ u.next = m.next /\ u.prev = m.prev /\ ChainOK(u, <<x>> \o stack)
    BY <1>1, <2>1, PushKeeps
  <2> HIDE DEF u
  <2> QED
    BY <2>1, <2>2, ListCallKeeps
<1>4. ASSUME NEW i \in 1..n, ListCall(slist_del(m, stack[i]), RemoveAt(stack, i)) PROVE LinksIInv'
  <2> DEFINE u == slist_del(m, stack[i])
  <2>1. ListCall(u, RemoveAt(stack, i))
    BY <1>4
  <2>2. u \in Memory /\ u.next = m.next /\ u.prev = m.prev /\ ChainOK(u, RemoveAt(stack, i))
    BY <1>1, DropKeeps
  <2> HIDE DEF u
  <2> QED
    BY <2>1, <2>2, ListCallKeeps
<1>5. ASSUME NEW x \in Elems, Drop(x) PROVE LinksIInv'
  BY <1>2, <1>4, <1>5 DEF Drop
<1>6. ASSUME Pop PROVE LinksIInv'
  <2>1. m.snext[ListHead] # Nil /\ ListCall(slist_del(m, m.snext[ListHead]), Tail(stack))
    BY <1>6 DEF Pop, slist_is_empty, slist_get_top, slist_ref_top
  <2>2. m.snext[ListHead] = Stop(stack, ListHead, Nil, 1)
    <3>1. 0 \in 0..n /\ 0 + 1 = 1
      BY <1>2
    <3> QED
      BY <1>1, <1>2, <3>1 DEF ChainOK, Chain
  <2>3. n # 0
    BY <1>2, <2>1, <2>2
  <2>4. 1 \in 1..n /\ stack # <<>>
    BY <1>2, <2>3
  <2>5. m.snext[ListHead] = stack[1] /\ stack[1] \in Elems
    BY <1>2, <2>2, <2>4
  <2>6. Tail(stack) = RemoveAt(stack, 1)
    BY <1>1, <2>4, <2>5, EndsAre
  <2> QED
    BY <1>4, <2>1, <2>4, <2>5, <2>6
<1> QED
  BY <1>3, <1>5, <1>6


LEMMA LinksStepKeeps == LinksIInv /\ [LinksStep]_linkVars => LinksIInv'
<1> SUFFICES ASSUME LinksIInv, [LinksStep]_linkVars PROVE LinksIInv'
  OBVIOUS
<1>1. ASSUME NEW h \in Heads, NEW x \in Elems, AddLast(h, x) \/ AddTop(h, x) \/ AddSorted(h, x)
      PROVE  LinksIInv'
  BY <1>1, AddKeeps, AddSortedKeeps
<1>2. ASSUME NEW h \in Heads, NEW x \in Elems, NEW t \in Range(order[h]),
             AddBefore(h, t, x) \/ AddAfter(h, t, x)
      PROVE  LinksIInv'
  BY <1>2, AddKeeps
<1>3. ASSUME NEW h \in Heads, GetTop(h) \/ GetLast(h) PROVE LinksIInv'
  BY <1>3, QueueDelKeeps
<1>4. ASSUME NEW h \in Heads, RotateStep(h) \/ ReverseRotate(h) PROVE LinksIInv'
  BY <1>4, RotateKeeps
<1>5. ASSUME (\E x \in Elems : queue_del(x) \/ Push(x) \/ Drop(x)) \/ Pop PROVE LinksIInv'
  BY <1>5, DelKeeps, ListStepKeeps
<1>6. ASSUME UNCHANGED linkVars PROVE LinksIInv'
  BY <1>6 DEF linkVars, LinksIInv
<1> QED
  BY <1>1, <1>2, <1>3, <1>4, <1>5, <1>6 DEF LinksStep

(* Whatever the sequence of calls on whatever queues and elements, every   *)
(* queue of klib/queue.c and list.c is a ring through its head and its     *)
(* elements, with backward links that reverse the forward ones, and every  *)
(* list of slist.c ends.                                                   *)
THEOREM LinksInvariance == LinksSpec => []LinksIInv
<1>1. LinksInit => LinksIInv
  BY InitLinks
<1> QED
  BY <1>1, LinksStepKeeps, PTL DEF LinksSpec

-----------------------------------------------------------------------------
(* What the readers of a queue find.                                       *)

\* The ring backwards is the ring of the reverse.
LEMMA BackwardsIs ==
    ASSUME LinksIInv, NEW h \in Heads
    PROVE  queue_reverse_for_each(m, h) = Reverse(order[h])
<1> DEFINE q == order[h]
           n == Len(q)
           r == Reverse(q)
<1>1. q \in Seq(Elems) /\ NoRepeat(q) /\ h \notin Elems /\ Ring(m, h, q)
  BY InvIs, AtFacts DEF RingsOK
<1>2. n \in Nat /\ DOMAIN q = 1..n /\ \A i \in 1..n : q[i] \in Elems
  BY <1>1, LenProperties, ElementOfSeq
<1>3. /\ r = [i \in 1..n |-> q[n - i + 1]] /\ r \in Seq(Elems) /\ Len(r) = n /\ DOMAIN r = 1..n
      /\ \A i \in 1..n : r[i] = q[n - i + 1]
  <2>1. r = [i \in 1..n |-> q[n - i + 1]]
    BY DEF Reverse
  <2> HIDE DEF q, r, n
  <2>2. \A i \in 1..n : n - i + 1 \in 1..n
    BY <1>2
  <2>3. r \in [1..n -> Elems]
    BY <1>2, <2>1, <2>2
  <2> QED
    BY <1>2, <2>1, <2>3
<1> HIDE DEF q, n, r
<1>4. NoRepeat(r)
  <2> SUFFICES ASSUME NEW i \in 1..n, NEW j \in 1..n, r[i] = r[j] PROVE i = j
    BY <1>3 DEF NoRepeat
  <2>1. n - i + 1 \in 1..n /\ n - j + 1 \in 1..n /\ q[n - i + 1] = q[n - j + 1]
    BY <1>2, <1>3
  <2>2. n - i + 1 = n - j + 1
    BY <1>1, <1>2, <2>1 DEF NoRepeat
  <2> QED
    BY <1>2, <2>2
<1>5. ASSUME NEW i \in 0..(n + 1) PROVE Stop(r, h, h, i) = RingAt(q, h, n + 1 - i)
  <2>1. CASE i \in 1..n
    <3>1. n + 1 - i \in 1..n /\ n + 1 - i = n - i + 1
      BY <1>2, <2>1
    <3>2. Stop(r, h, h, i) = r[i] /\ RingAt(q, h, n + 1 - i) = q[n + 1 - i]
      BY <1>3, <2>1, <3>1 DEF Stop, RingAt, n
    <3> QED
      BY <1>3, <2>1, <3>1, <3>2
  <2>2. CASE i \notin 1..n
    <3>1. ~ (n + 1 - i \in 1..n)
      BY <1>2, <2>2
    <3>2. ~ (n + 1 - i \in 1..Len(q)) /\ ~ (i \in 1..Len(r))
      BY <1>3, <2>2, <3>1 DEF n
    <3>3. Stop(r, h, h, i) = h /\ RingAt(q, h, n + 1 - i) = h
      BY <3>2 DEF Stop, RingAt
    <3> QED
      BY <3>3
  <2> QED
    BY <2>1, <2>2
<1>6. ASSUME NEW i \in 0..n PROVE m.prev[Stop(r, h, h, i)] = Stop(r, h, h, i + 1)
  <2> DEFINE w == n - i
  <2>1. /\ w \in 0..n /\ i \in 0..(n + 1) /\ i + 1 \in 0..(n + 1)
        /\ n + 1 - i = w + 1 /\ n + 1 - (i + 1) = w
    <3>1. n \in Nat /\ i \in Nat /\ i <= n
      BY <1>2
    <3> QED
      BY <3>1
  <2> HIDE DEF w
  <2>2. m.prev[RingAt(q, h, w + 1)] = RingAt(q, h, w)
    BY <1>1, <2>1 DEF Ring, n
  <2> QED
    BY <1>5, <2>1, <2>2
<1>7. r \in Seq(Elems) /\ NoRepeat(r) /\ h \notin Elems /\ \A i \in 0..Len(r) : m.prev[Stop(r, h, h, i)] = Stop(r, h, h, i + 1)
  BY <1>1, <1>3, <1>4, <1>6
<1>8. Walk(m.prev, h, h) = r
  BY <1>7, WalkIs
<1> QED
  BY <1>8 DEF queue_reverse_for_each, r, q

LEMMA EmptyIs ==
    ASSUME LinksIInv, NEW h \in Heads
    PROVE  queue_is_empty(m, h) = (order[h] = <<>>)
<1> DEFINE q == order[h]
           n == Len(q)
<1>1. /\ q \in Seq(Elems) /\ n \in Nat /\ h \notin Elems /\ RingAt(q, h, 0) = h /\ RingAt(q, h, n + 1) = h
      /\ \A i \in 1..n : RingAt(q, h, i) = q[i] /\ q[i] \in Elems
      /\ \A i \in 0..n : m.next[RingAt(q, h, i)] = RingAt(q, h, i + 1) /\ m.prev[RingAt(q, h, i + 1)] = RingAt(q, h, i)
  BY InvIs, AtFacts DEF RingsOK, Ring
<1>2. CASE q = <<>>
  <2>1. n = 0 /\ 0 \in 0..0 /\ 0 + 1 = 1
    BY <1>2
  <2> QED
    BY <1>1, <1>2, <2>1 DEF queue_is_empty
<1>3. CASE q # <<>>
  <2>1. n # 0
    BY <1>1, <1>3, EmptySeq
  <2> HIDE DEF n, q
  <2>2. 0 \in 0..n /\ 1 \in 1..n /\ 0 + 1 = 1
    BY <1>1, <2>1
  <2>3. m.next[h] # h
    BY <1>1, <2>2
  <2> QED
    BY <1>3, <2>3 DEF queue_is_empty, q
<1> QED
  BY <1>2, <1>3

LEMMA FindIs ==
    ASSUME LinksIInv, NEW h \in Heads, NEW x \in Elems
    PROVE  LET f == queue_find_element(m, h, Rank[x])
           IN  IF f = Nil THEN x \notin Range(order[h])
               ELSE /\ f \in Range(order[h]) /\ Rank[f] = Rank[x]
                    /\ \A i \in 1..(Place(h, f) - 1) : Rank[order[h][i]] # Rank[x]
<1> DEFINE q == order[h]
           n == Len(q)
           S == {i \in DOMAIN q : Rank[q[i]] = Rank[x]}
           f == queue_find_element(m, h, Rank[x])
<1>1. q \in Seq(Elems) /\ NoRepeat(q) /\ n \in Nat /\ DOMAIN q = 1..n /\ OrderOK(order)
  BY InvIs, AtFacts
<1>2. f = IF S = {} THEN Nil ELSE q[Min(S)]
  BY ForEachIs DEF queue_find_element
<1>3. CASE S = {}
  <2>1. x \notin Range(q)
    BY <1>3 DEF Range
  <2> QED
    BY <1>2, <1>3, <2>1
<1>4. CASE S # {}
  <2>1. S \in SUBSET Nat /\ \A i \in S : i \in 1..n /\ Rank[q[i]] = Rank[x]
    BY <1>1
  <2>2. \A i \in 1..n : Rank[q[i]] = Rank[x] => i \in S
    BY <1>1
  <2>3. f = q[Min(S)]
    BY <1>2, <1>4
  <2> HIDE DEF S, f
  <2>4. Min(S) \in S /\ \A y \in S : Min(S) <= y
    BY <1>4, <2>1, LeastIs
  <2>5. Min(S) \in 1..n /\ f \in Range(q) /\ f \in Elems /\ Rank[f] = Rank[x]
    BY <1>1, <2>1, <2>3, <2>4, ElementOfSeq DEF Range
  <2>6. Place(h, f) \in 1..n /\ q[Place(h, f)] = f
    BY <1>1, <2>5, PlaceIs
  <2>7. Place(h, f) = Min(S)
    BY <1>1, <2>3, <2>5, <2>6 DEF NoRepeat
  <2>8. f # Nil
    BY <2>5, ListFacts
  <2>9. ASSUME NEW i \in 1..(Place(h, f) - 1) PROVE Rank[q[i]] # Rank[x]
    <3>1. i \in 1..n /\ ~ (Min(S) <= i)
      BY <1>1, <2>5, <2>7
    <3> QED
      BY <2>2, <2>4, <3>1
  <2> QED
    BY <2>5, <2>8, <2>9 DEF f
<1> QED
  BY <1>3, <1>4

LEMMA NotLinkedIs ==
    ASSUME LinksIInv, NEW x \in Elems
    PROVE  list_not_linked(m, x) = (x \notin Queued)
<1>1. m \in Memory /\ RingsOK(m, order) /\ OrderOK(order) /\ Members(order) = Queued
  BY InvIs
<1>2. CASE x \notin Queued
  BY <1>1, <1>2 DEF RingsOK, list_not_linked
<1>3. CASE x \in Queued
  <2>1. PICK h \in Heads : x \in Range(order[h])
    BY <1>3 DEF Queued
  <2> DEFINE q == order[h]
             n == Len(q)
  <2>2. /\ n \in Nat /\ DOMAIN q = 1..n /\ h \notin Elems
        /\ \A i \in 1..n : RingAt(q, h, i) = q[i] /\ q[i] \in Elems
        /\ \A i, j \in 0..n : RingAt(q, h, i) = RingAt(q, h, j) => i = j
        /\ \A i \in 0..n : m.next[RingAt(q, h, i)] = RingAt(q, h, i + 1) /\ m.prev[RingAt(q, h, i + 1)] = RingAt(q, h, i)
    BY <1>1, AtFacts DEF RingsOK, Ring
  <2>3. PICK i \in 1..n : q[i] = x
    BY <2>1, <2>2 DEF Range
  <2> HIDE DEF q, n
  <2> DEFINE w == i - 1
  <2>4. w \in 0..n /\ i \in 0..n /\ w + 1 = i /\ w # i
    BY <2>2
  <2> HIDE DEF w
  <2>5. m.prev[x] = RingAt(q, h, w) /\ RingAt(q, h, i) = x
    BY <2>2, <2>3, <2>4
  <2>6. m.prev[x] # x
    BY <2>2, <2>4, <2>5
  <2> QED
    BY <1>3, <2>6 DEF list_not_linked
<1> QED
  BY <1>2, <1>3

LEMMA ListIs ==
    ASSUME LinksIInv
    PROVE  slist_for_each(m) = stack
<1>1. stack \in Seq(Elems) /\ NoRepeat(stack) /\ Chain(m, stack)
  BY InvIs DEF ChainOK
<1>2. Walk(m.snext, ListHead, Nil) = stack
  BY <1>1, ListFacts, WalkIs DEF Chain
<1> QED
  BY <1>2 DEF slist_for_each

(* Walking a queue forwards meets its sequence and backwards its reverse,  *)
(* an element in no queue is linked to itself, the first element of a key  *)
(* is found, and a singly linked list is its sequence, for every set of    *)
(* queues, elements and keys.                                              *)
THEOREM LinksAlwaysMatch == LinksSpec => []LinksMatch
<1>1. LinksIInv => LinksMatch
  <2> SUFFICES ASSUME LinksIInv PROVE LinksMatch
    OBVIOUS
  <2>1. ASSUME NEW h \in Heads
        PROVE  /\ queue_for_each(m, h) = order[h]
               /\ queue_reverse_for_each(m, h) = Reverse(order[h])
               /\ queue_is_empty(m, h) = (order[h] = <<>>)
    BY ForEachIs, BackwardsIs, EmptyIs
  <2> QED
    BY <2>1, FindIs, NotLinkedIs, ListIs DEF LinksMatch
<1> QED
  BY <1>1, LinksInvariance, PTL
=============================================================================
