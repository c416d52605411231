-------------------------------- MODULE Sched -------------------------------
(***************************************************************************)
(* The thread scheduler (kern/sched-queue.c), wait queues (kern/wqueue.c)  *)
(* and the dispatch flags of a thread (kern/thr-preempt.c) on the one CPU  *)
(* the kernel brings up.                                                   *)
(*                                                                         *)
(* The kernel is not preemptive: a thread keeps the CPU until it calls     *)
(* sched_schedule, and a call of the functions below runs with interrupts  *)
(* disabled.  Each of them is therefore one function on the state k of the *)
(* scheduler, a record of                                                  *)
(*   cur       the thread on the CPU                                       *)
(*   state     thr->state, or FREE when there is no such thread            *)
(*   que       the ready queue of a priority, the first thread is next     *)
(*   bitmap    the priorities whose ready queue is marked as not empty     *)
(*   delayed   threads with TI_DISPATCH_DELAYED in their thread_info       *)
(*   active    threads with TI_PREEMPT_ACTIVE in their thread_info         *)
(*   fresh     threads that have not run yet                               *)
(*   wq        the threads in a wait queue, in order                       *)
(*   reason    the reason in the wait queue entry of a thread              *)
(*   panic     a kassert failed                                            *)
(* Priorities are numbered as in the source: the lowest number goes first. *)
(***************************************************************************)
EXTENDS Integers, Sequences, SequencesExt, FiniteSets, FiniteSetsExt

CONSTANTS Threads, Idle, Prio, WaitQueues

Prios == {Prio[t] : t \in Threads}

ASSUME SchedAssumption ==
    /\ IsFiniteSet(Threads) /\ Idle \in Threads
    /\ Prio \in [Threads -> Nat]
    /\ \A t \in Threads : Prio[t] <= Prio[Idle]   \* SCHED_MIN_RR_PRIO

States  == {"RUN", "RUNABLE", "WAIT", "EXIT", "DEAD", "FREE"}
Reasons == {"WAIT", "RELEASED", "DESTROYED"}

SchedType ==
    [cur : Threads, state : [Threads -> States],
     que : [Prios -> Seq(Threads)], bitmap : SUBSET Prios,
     delayed : SUBSET Threads, active : SUBSET Threads, fresh : SUBSET Threads,
     wq : [WaitQueues -> Seq(Threads)], reason : [Threads -> Reasons],
     panic : BOOLEAN]

Ready(k)   == UNION {Range(k.que[p]) : p \in Prios}
Waiting(k) == UNION {Range(k.wq[q]) : q \in WaitQueues}

kassert(k, c) == [k EXCEPT !.panic = @ \/ ~ c]

(* After sched_init: the boot context runs as the idle thread, which was   *)
(* made runnable but never put in a queue.                                 *)
SchedInit ==
    [cur |-> Idle, state |-> [t \in Threads |-> "RUNABLE"],
     que |-> [p \in Prios |-> <<>>], bitmap |-> {},
     delayed |-> {}, active |-> {}, fresh |-> Threads \ {Idle},
     wq |-> [q \in WaitQueues |-> <<>>], reason |-> [t \in Threads |-> "WAIT"],
     panic |-> FALSE]

-----------------------------------------------------------------------------
(* The flags in the thread_info of a thread.  Nothing in the kernel raises *)
(* the counters of preemption and interrupts, so that dispatch is disabled *)
(* only while a preemption is active.                                      *)

ti_set_delay_dispatch(k, t) == [k EXCEPT !.delayed = @ \cup {t}]
ti_clr_delay_dispatch(k) == [k EXCEPT !.delayed = @ \ {k.cur}]
ti_dispatch_delayed(k)  == k.cur \in k.delayed
ti_dispatch_disabled(k) == k.cur \in k.active
ti_set_preempt_active(k) == [k EXCEPT !.active = @ \cup {k.cur}]
ti_clr_preempt_active(k) == [k EXCEPT !.active = @ \ {k.cur}]

-----------------------------------------------------------------------------
(* The ready queue.                                                        *)

(* Puts a runnable thread at the end of its ready queue and asks the       *)
(* thread on the CPU for a dispatch.                                       *)
sched_thread_add(k, t) ==
    ti_set_delay_dispatch(
      [kassert(k, t \notin Ready(k) /\ k.state[t] = "RUNABLE") EXCEPT
         !.que[Prio[t]] = Append(@, t),
         !.bitmap = IF k.que[Prio[t]] = <<>> THEN @ \cup {Prio[t]} ELSE @],
      k.cur)

\* The threads of the sequence ts, one after the other.
AddThreads(k, ts) ==
    LET Added[i \in 0 .. Len(ts)] ==
          IF i = 0 THEN k ELSE sched_thread_add(Added[i - 1], ts[i])
    IN  Added[Len(ts)]

BitKept(k, p) == k.bitmap     \* a faulty variant
BitAfterGet(k, p) == IF Tail(k.que[p]) = <<>> THEN k.bitmap \ {p} ELSE k.bitmap

\* The thread get_next_thread takes, and the state after it.
NextThread(k) ==
    IF k.bitmap = {} THEN Idle ELSE Head(k.que[Min(k.bitmap)])
get_next_thread(k) ==
    IF k.bitmap = {} THEN k
    ELSE LET p == Min(k.bitmap) IN
         [kassert(k, k.state[NextThread(k)] = "RUNABLE") EXCEPT
            !.que[p] = Tail(@), !.bitmap = BitAfterGet(k, p)]

(* thr_thread_switch and what follows it in the thread that gets the CPU:  *)
(* one that left it in sched_schedule becomes running and ends its         *)
(* preemption; a new one starts at its entry and stays runnable.           *)
thr_thread_switch(k, next) ==
    IF next \in k.fresh
    THEN [k EXCEPT !.cur = next, !.fresh = @ \ {next}]
    ELSE ti_clr_preempt_active([k EXCEPT !.cur = next, !.state[next] = "RUN"])

RequeueAll(k) ==             \* a faulty variant
    sched_thread_add([k EXCEPT !.state[k.cur] = "RUNABLE"], k.cur)

\* Only a running thread goes back to the ready queue.
Requeue(k) ==
    IF k.state[k.cur] = "RUN"
    THEN sched_thread_add([k EXCEPT !.state[k.cur] = "RUNABLE"], k.cur)
    ELSE k

ClearAfterRequeue(k) ==      \* a faulty variant
    LET next == NextThread(k) IN
    IF next = k.cur THEN ti_clr_delay_dispatch(get_next_thread(k))
    ELSE thr_thread_switch(ti_clr_delay_dispatch(Requeue(ti_set_preempt_active(get_next_thread(k)))), next)

\* The dispatch of sched_schedule; the request is cleared before the requeue.
Dispatch(k) ==
    LET next == NextThread(k)
        k1   == ti_clr_delay_dispatch(get_next_thread(k))
    IN IF next = k.cur THEN k1
       ELSE thr_thread_switch(Requeue(ti_set_preempt_active(k1)), next)

sched_schedule(k) ==
    IF ti_dispatch_disabled(k) THEN ti_set_delay_dispatch(k, k.cur) ELSE Dispatch(k)

-----------------------------------------------------------------------------
(* Wait queues.                                                            *)

\* init_wque_entry_nolock for the thread on the CPU.
init_wque_entry(k) ==
    [k EXCEPT !.state[k.cur] = "WAIT", !.reason[k.cur] = "WAIT"]

(* wque_init_wque_entry locks the thread of an entry that is not           *)
(* initialised yet, and unlocks the thread on the CPU: the two are the     *)
(* same only when the stack slot still holds that thread from an earlier   *)
(* wait, otherwise the unlock fails its kassert (or the lock its access).  *)
wque_init_wque_entry(k, stale) == kassert(init_wque_entry(k), stale = k.cur)

enque_wque_entry(k, q) ==
    [k EXCEPT !.reason[k.cur] = "WAIT", !.wq[q] = Append(@, k.cur)]

WakeOne(k, q, r) ==           \* a faulty variant
    IF k.wq[q] = <<>> THEN k
    ELSE sched_thread_add([k EXCEPT !.wq[q] = Tail(@), !.state[Head(k.wq[q])] = "RUNABLE",
                                    !.reason[Head(k.wq[q])] = r], Head(k.wq[q]))

\* Wakes all the threads of the queue in order (WQUE_WAKEFLAG_ALL).
wque_wakeup(k, q, r) ==
    LET woken == Range(k.wq[q]) IN
    AddThreads([k EXCEPT !.wq[q] = <<>>,
                         !.reason = [t \in Threads |-> IF t \in woken THEN r ELSE @[t]],
                         !.state = [t \in Threads |-> IF t \in woken THEN "RUNABLE" ELSE @[t]]],
               k.wq[q])

-----------------------------------------------------------------------------
(* The idle thread: one iteration of thr_idle_loop.                        *)
thr_idle_loop(k) == IF ti_dispatch_delayed(k) THEN sched_schedule(k) ELSE k

-----------------------------------------------------------------------------
(* Properties of the scheduler state.                                      *)

\* The places of a thread in the ready queues.
Places(k, t) == UNION {{p} \X {i \in DOMAIN k.que[p] : k.que[p][i] = t} : p \in Prios}

(* A thread is where its state says: a runnable one that is off the CPU is *)
(* in one ready queue, once, that of its priority; a waiting one is in one *)
(* wait queue; nothing else is in a queue.  Only the idle thread, which    *)
(* sched_schedule knows, may be runnable and in none.                      *)
QueuedWhereStateSays(k) ==
    \A t \in Threads :
        /\ t \in Ready(k) => k.state[t] = "RUNABLE" /\ Cardinality(Places(k, t)) = 1
                             /\ t \in Range(k.que[Prio[t]])
        /\ t \in Waiting(k) => k.state[t] = "WAIT"
        /\ k.state[t] = "RUNABLE" /\ t \notin {k.cur, Idle} => t \in Ready(k)
        /\ k.state[t] = "WAIT" /\ t # k.cur => t \in Waiting(k)
        /\ k.state[t] = "RUN" => t = k.cur

\* The bitmap marks exactly the priorities with a thread in the ready queue.
BitmapExact(k) == k.bitmap = {p \in Prios : k.que[p] # <<>>}
=============================================================================
