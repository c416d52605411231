-------------------------------- MODULE Mutex -------------------------------
(***************************************************************************)
(* One mutex (kern/mutex.c) used by threads under the scheduler of Sched,  *)
(* with two more wait queues: threads wait for an event in "ev" and give   *)
(* the mutex up meanwhile (wque_wait_on_event_with_mutex), and the holder  *)
(* sleeps in "io" for something else with the mutex held.  An interrupt    *)
(* handler or another thread wakes them.                                   *)
(*                                                                         *)
(* A step is what the thread on the CPU does until interrupts are enabled  *)
(* again or it gives the CPU away.                                         *)
(***************************************************************************)
EXTENDS Sched

ASSUME MutexAssumption == {"mtx", "ev", "io"} \subseteq WaitQueues

VARIABLES
    k,           \* the scheduler
    pc,          \* where a thread is
    resources,   \* mtx->resources
    destroyed    \* mutex_destroy was called

vars == <<k, pc, resources, destroyed>>
Workers == Threads \ {Idle}

\* The residues in the stack slot of a wait queue entry.
Residues == {k.cur, Idle}

Init ==
    /\ k = AddThreads(SchedInit, SetToSeq(Workers))
    /\ pc = [t \in Workers |-> "run"]
    /\ resources = 1
    /\ destroyed = FALSE

goto(l) == pc' = [pc EXCEPT ![k.cur] = l]
At(l)   == k.cur # Idle /\ pc[k.cur] = l

-----------------------------------------------------------------------------
TakeAnyway == resources >= 0       \* a faulty variant
\* lock_mutex_common succeeds.
lock_mutex_common == resources > 0

\* The loop of mutex_lock up to the lock or the next wait, entered in state kk.
LockOrWait(kk, owned) ==
    \/ /\ lock_mutex_common
       /\ resources' = resources - 1
       /\ k' = kk
       /\ goto(owned)
    \/ /\ ~ lock_mutex_common
       /\ \E stale \in Residues :
            k' = sched_schedule(enque_wque_entry(wque_init_wque_entry(kk, stale), "mtx"))
       /\ goto("lock")
       /\ UNCHANGED resources

mutex_lock ==
    /\ At("run") /\ ~ destroyed
    /\ LockOrWait(k, "own")
    /\ UNCHANGED destroyed

\* mutex_lock after the wait: an error, or the next turn of the loop.
LockWoken ==
    /\ At("lock")
    /\ \/ /\ k.reason[k.cur] = "DESTROYED"
          /\ goto("run")
          /\ UNCHANGED <<k, resources>>
       \/ /\ k.reason[k.cur] # "DESTROYED"
          /\ LockOrWait(kassert(k, k.reason[k.cur] = "RELEASED"), "own")
    /\ UNCHANGED destroyed

mutex_try_lock ==
    /\ At("run") /\ ~ destroyed /\ lock_mutex_common
    /\ resources' = resources - 1
    /\ goto("own")
    /\ UNCHANGED <<k, destroyed>>

WakeFirst(kk) == WakeOne(kk, "mtx", "RELEASED")     \* a faulty variant
\* The wakeup of mutex_unlock.
WakeWaiters(kk) == wque_wakeup(kk, "mtx", "RELEASED")

mutex_unlock ==
    /\ At("own")
    /\ resources' = resources + 1
    /\ k' = WakeWaiters(k)
    /\ goto("run")
    /\ UNCHANGED destroyed

(* mutex_destroy by the holder, or by another thread when there is none.   *)
mutex_destroy ==
    /\ ~ destroyed
    /\ At("own") \/ (At("run") /\ resources = 1)
    /\ \A t \in Workers : pc[t] \notin {"ev_init", "ev_enqueued", "ev_unlocked", "ev_wait"}
    /\ k' = wque_wakeup(k, "mtx", "DESTROYED")
    /\ resources' = 0
    /\ destroyed' = TRUE
    /\ goto("run")

-----------------------------------------------------------------------------
(* wque_wait_on_event_with_mutex.  Interrupts are enabled between its      *)
(* steps: the wakeup may come while the thread is still on the CPU.        *)

EventInit ==
    /\ At("own") /\ ~ destroyed
    /\ \E stale \in Residues : k' = wque_init_wque_entry(k, stale)
    /\ goto("ev_init")
    /\ UNCHANGED <<resources, destroyed>>

EventEnqueue ==
    /\ At("ev_init")
    /\ k' = enque_wque_entry(k, "ev")
    /\ goto("ev_enqueued")
    /\ UNCHANGED <<resources, destroyed>>

EventUnlock ==
    /\ At("ev_enqueued")
    /\ resources' = resources + 1
    /\ k' = WakeWaiters(k)
    /\ goto("ev_unlocked")
    /\ UNCHANGED destroyed

EventSchedule ==
    /\ At("ev_unlocked")
    /\ k' = sched_schedule(k)
    /\ goto("ev_wait")
    /\ UNCHANGED <<resources, destroyed>>

\* Back on the CPU: takes the mutex again with mutex_lock.
EventWoken ==
    /\ At("ev_wait")
    /\ LockOrWait(k, "own")
    /\ UNCHANGED destroyed

-----------------------------------------------------------------------------
(* The holder sleeps on another resource, that a spinlock protects, with   *)
(* the mutex held (wque_wait_on_queue_with_spinlock).                      *)
SleepHolding ==
    /\ At("own")
    /\ \E stale \in Residues :
         k' = sched_schedule(enque_wque_entry(wque_init_wque_entry(k, stale), "io"))
    /\ UNCHANGED <<pc, resources, destroyed>>

\* Another thread, or an interrupt handler on any thread, wakes the sleepers.
Signal(q) ==
    /\ k.wq[q] # <<>>
    /\ ~ At("lock")     \* interrupts stay disabled in mutex_lock
    /\ k' = wque_wakeup(k, q, "RELEASED")
    /\ UNCHANGED <<pc, resources, destroyed>>

\* A thread ends (thr_thread_exit) outside the mutex.
Exit ==
    /\ At("run")
    /\ k' = sched_schedule([k EXCEPT !.state[k.cur] = "EXIT"])
    /\ goto("done")
    /\ UNCHANGED <<resources, destroyed>>

IdleStep ==
    /\ k.cur = Idle
    /\ k' = thr_idle_loop(k)
    /\ UNCHANGED <<pc, resources, destroyed>>

MutexStep == mutex_lock \/ LockWoken \/ mutex_try_lock \/ mutex_unlock \/ mutex_destroy
EventStep == EventInit \/ EventEnqueue \/ EventUnlock \/ EventSchedule \/ EventWoken

Next ==
    /\ ~ k.panic
    /\ \/ MutexStep \/ EventStep \/ SleepHolding
       \/ Signal("ev") \/ Signal("io") \/ Exit \/ IdleStep

\* The idle thread runs its loop whenever it is on the CPU.
Spec == Init /\ [][Next]_vars /\ WF_vars(~ k.panic /\ IdleStep)

-----------------------------------------------------------------------------
(* Properties.                                                             *)

Holding == {t \in Workers : pc[t] \in {"own", "ev_init", "ev_enqueued"}}

(* At most one thread is between mutex_lock and mutex_unlock, also while   *)
(* it sleeps, and the counter of the mutex says whether there is one.      *)
MutualExclusion ==
    ~ destroyed => /\ Cardinality(Holding) <= 1
                   /\ resources + Cardinality(Holding) = 1

(* No wakeup of mutex_unlock is lost: nobody sleeps on a free mutex.       *)
NoLostWakeup == resources > 0 => k.wq["mtx"] = <<>>

(* Threads are queued where their states say, also when the wakeup of an   *)
(* event comes while the waiter still has the CPU, and the bitmap of the   *)
(* ready queue never misleads get_next_thread.                             *)
QueuesConsistent == (k.panic \/ QueuedWhereStateSays(k)) /\ BitmapExact(k)

(* The idle thread gives the CPU to a ready thread: a dispatch request is  *)
(* never left with a thread that no longer runs.                           *)
ReadyIsDispatched == (k.cur = Idle /\ k.bitmap # {}) ~> (k.cur # Idle \/ k.panic)
=============================================================================
