-------------------------------- MODULE Sync --------------------------------
(***************************************************************************)
(* Spinlocks with the interrupt flag (kern/spinlock.c, kern/cpuintr.c,     *)
(* hal/riscv64/rv64-spinlock.c, rv64-cpuintr.c), atomic operations         *)
(* (klib/atomic.c, hal/riscv64/rv64-atomic.S) and reference counters       *)
(* (klib/refcount.c), on several CPUs.                                     *)
(*                                                                         *)
(* The CPUs share one object with a reference counter that lives until the *)
(* last reference is dropped, under a lock that an interrupt handler of    *)
(* each CPU takes as well.  A CPU runs a stack of frames: the thread and   *)
(* the handler that interrupts it.  A step is one access to memory.        *)
(***************************************************************************)
EXTENDS Integers, Sequences, FiniteSets, SequencesExt

CONSTANT CPUs
ASSUME CPUsAssumption == IsFiniteSet(CPUs)

VARIABLES
    ie,       \* ie[c] : SIE of sstatus
    ie0,      \* ie0[c] : the flag with which the thread calls the kernel
    locked, depth,   \* the spinlock
    count,    \* the reference counter, a 32 bit integer
    live,     \* the object exists
    refs,     \* refs[c] : the references that the thread of c holds
    resv,     \* the CPUs whose reservation of the counter is valid
    seen,     \* stat_cnt : handlers that have run, less the ones under way
    stk       \* stk[c] : the frames of the CPU, the running one last

syncVars == <<ie, ie0, locked, depth, count, live, refs, resv, seen, stk>>

\* A frame that has read nothing: cur and flags are written before they are used.
Frame(op, pc) == [op |-> op, pc |-> pc, cur |-> 0, flags |-> FALSE]

MaxHeld == 2     \* the references that a thread holds at most: a bound of the model
REFCNT_INITIAL_VAL == 1
SyncInit ==
    /\ ie0 \in [CPUs -> BOOLEAN] /\ ie = ie0
    /\ locked = 0 /\ depth = 0
    /\ count = 0 /\ live = FALSE /\ refs = [c \in CPUs |-> 0]
    /\ resv = {} /\ seen = 0
    /\ stk = [c \in CPUs |-> <<Frame("thread", "idle")>>]

Top(c) == Last(stk[c])
FrameAt(c, pc) == Top(c).pc = pc
Set(c, f) == stk' = [stk EXCEPT ![c] = Append(Front(@), f)]
Goto(c, pc) == Set(c, [Top(c) EXCEPT !.pc = pc])

lockVars == <<locked, depth>>
objVars  == <<count, live, refs, resv>>

\* A store to the counter takes the reservations of the other CPUs.
Store(v) == count' = v /\ resv' = {}

-----------------------------------------------------------------------------
(* refcnt_inc_if_valid: atomic_add_fetch_unless(counter, 0, 1).            *)

refcnt_init(c) ==
    /\ FrameAt(c, "idle") /\ ~ live
    /\ live' = TRUE /\ Store(REFCNT_INITIAL_VAL)
    /\ refs' = [refs EXCEPT ![c] = 1]
    /\ UNCHANGED <<ie, ie0, lockVars, seen, stk>>

atomic_read(c) ==
    /\ FrameAt(c, "idle") /\ refs[c] < MaxHeld
    /\ Set(c, [Top(c) EXCEPT !.cur = count, !.pc = "unless"])
    /\ UNCHANGED <<ie, ie0, lockVars, objVars, seen>>

\* The test of the loop of atomic_add_fetch_unless.
atomic_add_fetch_unless(c) ==
    /\ FrameAt(c, "unless")
    /\ Goto(c, IF Top(c).cur = 0 THEN "idle" ELSE "lr")
    /\ UNCHANGED <<ie, ie0, lockVars, objVars, seen>>

\* lr.w, and the branch of hal_atomic_cmpxchg_fetch when the value is another.
load_reserved(c) ==
    /\ FrameAt(c, "lr")
    /\ resv' = resv \cup {c}
    /\ Set(c, IF count = Top(c).cur THEN [Top(c) EXCEPT !.pc = "sc"]
              ELSE [Top(c) EXCEPT !.cur = count, !.pc = "unless"])
    /\ UNCHANGED <<ie, ie0, lockVars, count, live, refs, seen>>

\* A faulty variant: a plain store.
ScStored(c) == TRUE
ScSucceeds(c) == c \in resv

\* sc.w, which stores when the reservation is valid, and else tries again.
hal_atomic_cmpxchg_fetch(c) ==
    /\ FrameAt(c, "sc")
    /\ IF ScSucceeds(c)
       THEN /\ Store(Top(c).cur + 1)
            /\ refs' = [refs EXCEPT ![c] = @ + 1]
            /\ Goto(c, "idle")
       ELSE Goto(c, "lr") /\ UNCHANGED <<count, resv, refs>>
    /\ UNCHANGED <<ie, ie0, lockVars, live, seen>>

-----------------------------------------------------------------------------
(* refcnt_dec_and_lock_disable_intr, by a thread that holds a reference,   *)
(* and spinlock_lock_disable_intr by a handler.                            *)

refcnt_dec_and_lock_disable_intr(c) ==
    /\ FrameAt(c, "idle") /\ refs[c] > 0
    /\ Set(c, Frame("thread", "save"))
    /\ UNCHANGED <<ie, ie0, lockVars, objVars, seen>>

Disabled(c) == [ie EXCEPT ![c] = FALSE]

krn_cpu_save_and_disable_interrupt(c) ==
    /\ FrameAt(c, "save")
    /\ Set(c, [Top(c) EXCEPT !.flags = ie[c], !.pc = "spin"])
    /\ ie' = Disabled(c)
    /\ UNCHANGED <<ie0, lockVars, objVars, seen>>

\* rv64_xchg(&lock->locked, 1) until it returns 0; before that it changes nothing.
hal_spinlock_lock(c) ==
    /\ FrameAt(c, "spin") /\ locked = 0
    /\ locked' = 1
    /\ Goto(c, "locked")
    /\ UNCHANGED <<ie, ie0, depth, objVars, seen>>

spinlock_raw_lock(c) ==
    /\ FrameAt(c, "locked")
    /\ depth' = depth + 1
    /\ Goto(c, "section")
    /\ UNCHANGED <<ie, ie0, locked, objVars, seen>>

\* atomic_sub_and_test under the lock; the last reference ends the object.
refcnt_dec_and_test(c) ==
    /\ FrameAt(c, "section") /\ Top(c).op = "thread"
    /\ Store(count - 1)
    /\ refs' = [refs EXCEPT ![c] = @ - 1]
    /\ live' = (live /\ count - 1 # 0)
    /\ Goto(c, "unlock")
    /\ UNCHANGED <<ie, ie0, lockVars, seen>>
\* The critical section of the handler, which counts with statcnt_inc.
statcnt_inc(c) ==
    /\ FrameAt(c, "section") /\ Top(c).op = "handler"
    /\ seen' = seen + 1
    /\ Goto(c, "unlock")
    /\ UNCHANGED <<ie, ie0, lockVars, objVars>>

spinlock_raw_unlock(c) ==
    /\ FrameAt(c, "unlock")
    /\ depth' = depth - 1
    /\ Goto(c, "release")
    /\ UNCHANGED <<ie, ie0, locked, objVars, seen>>
hal_spinlock_unlock(c) ==
    /\ FrameAt(c, "release")
    /\ locked' = 0
    /\ Goto(c, "restore")
    /\ UNCHANGED <<ie, ie0, depth, objVars, seen>>

\* krn_cpu_restore_interrupt; the handler then returns to what it interrupted.
krn_cpu_restore_interrupt(c) ==
    /\ FrameAt(c, "restore")
    /\ ie' = [ie EXCEPT ![c] = Top(c).flags]
    /\ IF Top(c).op = "handler" THEN Goto(c, "return") ELSE Set(c, Frame("thread", "idle"))
    /\ UNCHANGED <<ie0, lockVars, objVars, seen>>

Interrupt(c) ==
    /\ ie[c] /\ Len(stk[c]) = 1
    /\ ie' = [ie EXCEPT ![c] = FALSE]
    /\ stk' = [stk EXCEPT ![c] = Append(@, Frame("handler", "save"))]
    /\ UNCHANGED <<ie0, lockVars, objVars, seen>>
statcnt_dec(c) ==
    /\ FrameAt(c, "return")
    /\ seen' = seen - 1
    /\ stk' = [stk EXCEPT ![c] = Front(@)]
    /\ ie' = [ie EXCEPT ![c] = TRUE]
    /\ UNCHANGED <<ie0, lockVars, objVars>>

SyncCpu(c) ==
    \/ refcnt_init(c) \/ atomic_read(c) \/ atomic_add_fetch_unless(c) \/ load_reserved(c)
    \/ hal_atomic_cmpxchg_fetch(c) \/ refcnt_dec_and_lock_disable_intr(c)
    \/ krn_cpu_save_and_disable_interrupt(c) \/ hal_spinlock_lock(c) \/ spinlock_raw_lock(c)
    \/ refcnt_dec_and_test(c) \/ statcnt_inc(c) \/ spinlock_raw_unlock(c)
    \/ hal_spinlock_unlock(c) \/ krn_cpu_restore_interrupt(c) \/ Interrupt(c) \/ statcnt_dec(c)
SyncStep == \E c \in CPUs : SyncCpu(c)
SyncSpec == SyncInit /\ [][SyncStep]_syncVars

-----------------------------------------------------------------------------
Owning == {"locked", "section", "unlock", "release"}
OwnersOn(c) == {i \in DOMAIN stk[c] : stk[c][i].pc \in Owning}
CpuIdle(c) == stk[c] = <<Frame("thread", "idle")>>
\* The references held, the i-th one of the thread of c.
HeldRefs == {h \in CPUs \X (1 .. MaxHeld) : h[2] <= refs[h[1]]}

(* One frame at a time is between lock and unlock, the assertions on the   *)
(* depth of the lock hold, its CPU has the interrupts off, so that no      *)
(* handler of the CPU can spin on a lock that it has interrupted, and each *)
(* thread gets the interrupt flag back that it had.  The counter is the    *)
(* number of references held, no increment is lost, and the object ends    *)
(* exactly when the last reference goes: a reference taken at the same     *)
(* time finds 0 or keeps the object.                                       *)
SyncSafe ==
    /\ Cardinality({c \in CPUs : OwnersOn(c) # {}}) <= 1
    /\ locked = Cardinality({c \in CPUs : OwnersOn(c) # {}})
    /\ depth \in {0, 1}
    /\ \A c \in CPUs :
         /\ OwnersOn(c) # {} => ~ ie[c] /\ OwnersOn(c) = {Len(stk[c])}
         /\ CpuIdle(c) => ie[c] = ie0[c]
    /\ count = Cardinality(HeldRefs)
    /\ live <=> count > 0
=============================================================================
