----------------------------- MODULE ThreadLife -----------------------------
(***************************************************************************)
(* The life of threads (kern/thr-thread.c) under the scheduler of Sched:   *)
(* creation, the tree of parents and children, references, exit, the       *)
(* notification of the parent, the wait for a child and the reaper thread  *)
(* that inherits orphans.                                                  *)
(*                                                                         *)
(* A member of Threads is a thread structure of the slab cache; it is used *)
(* again after free_thread.  A step is what the thread on the CPU does     *)
(* until the end of a call or until it gives the CPU away.  The functions  *)
(* of thr-thread.c act on the record w of                                  *)
(*   k         the scheduler; the wait queue of a thread is its pque       *)
(*   parent    thr->parent                                                 *)
(*   children  thr->children                                               *)
(*   waiters   thr->waiters, the children that ended, in order             *)
(*   refs      thr->refs                                                   *)
(*   tree      the threads in g_thrdb                                      *)
(***************************************************************************)
EXTENDS Sched

CONSTANT Reaper, MaxPins

ASSUME LifeAssumption == Reaper \in Threads \ {Idle} /\ WaitQueues = Threads

VARIABLES
    w,      \* threads and scheduler
    pc,     \* where a thread is: run, wait
    pins    \* references from elsewhere (proc_find_thread), as <<holder, thread>>

vars == <<w, pc, pins>>
Workers == Threads \ {Idle, Reaper}
cur == w.k.cur

Allocated(u) == {t \in Threads : u.k.state[t] # "FREE"}
assert(u, c) == [u EXCEPT !.k = kassert(@, c)]

\* The link of a thread is in the ready queue or in the waiters of a parent.
LinkUsed(u, t) == t \in Ready(u.k) \/ \E p \in Threads : t \in Range(u.waiters[p])

\* After kern_init: the idle thread and the reaper.
Init ==
    /\ w = [k |-> sched_thread_add([SchedInit EXCEPT
                     !.state = [t \in Threads |->
                        IF t \in {Idle, Reaper} THEN "RUNABLE" ELSE "FREE"]], Reaper),
            parent   |-> [t \in Threads |-> t],
            children |-> [t \in Threads |-> {}],
            waiters  |-> [t \in Threads |-> <<>>],
            refs     |-> [t \in Threads |-> IF t \in {Idle, Reaper} THEN 1 ELSE 0],
            tree     |-> {Idle, Reaper}]
    /\ pc = [t \in Threads |-> "run"]
    /\ pins = {}

-----------------------------------------------------------------------------
(* References.                                                             *)

thr_ref_inc(u, t) == [assert(u, u.refs[t] > 0) EXCEPT !.refs[t] = @ + 1]

NotifyUnheard(u, t) ==      \* a faulty variant: the parent is woken first
    [u EXCEPT !.k = [wque_wakeup(@, u.parent[t], "RELEASED") EXCEPT !.state[t] = "DEAD"]]

NotifySilent(u, t) ==       \* a faulty variant: the parent is not woken
    [u EXCEPT !.waiters[u.parent[t]] = Append(@, t), !.k.state[t] = "DEAD"]

(* The first part of notify_parent_child_exit: the thread waits for its    *)
(* parent to collect it, and the parent is woken.                          *)
TellParent(u, t) ==
    [assert(u, ~ LinkUsed(u, t)) EXCEPT
       !.waiters[u.parent[t]] = Append(@, t),
       !.k = wque_wakeup([@ EXCEPT !.state[t] = "DEAD"], u.parent[t], "RELEASED")]

\* t, its parent, the parent of that one, and so on.
Ancestor(u, t) ==
    LET Line[i \in 0 .. Cardinality(Threads)] == IF i = 0 THEN t ELSE u.parent[Line[i - 1]]
    IN  Line

\* The last reference takes a thread out of the tree and tells the parent.
LastRef(u, t) == TellParent([assert(u, t \in u.tree) EXCEPT !.refs[t] = 0, !.tree = @ \ {t}], t)

(* t has lost its last reference: it ends, and with it the ancestors whose *)
(* last reference was the one of the child, up to the first with others.   *)
RefGone(u, t) ==
    LET line == Ancestor(u, t)
        stay == Min({i \in DOMAIN line : u.refs[line[i]] > 1})
        Ended[i \in 0 .. stay] == IF i = 0 THEN u ELSE LastRef(Ended[i - 1], line[i - 1])
    IN  [Ended[stay] EXCEPT !.refs[line[stay]] = @ - 1]
thr_ref_dec(u, t) == IF u.refs[t] > 1 THEN [u EXCEPT !.refs[t] = @ - 1] ELSE RefGone(u, t)

\* thr_ref_dec where the kassert says that it is not the last reference.
RefDecNotLast(u, t) == thr_ref_dec(assert(u, u.refs[t] > 1), t)

-----------------------------------------------------------------------------
(* Parents and children.                                                   *)

NoRefToParent(u, t, p) ==     \* a faulty variant
    thr_ref_inc([u EXCEPT !.children[p] = @ \cup {t}, !.parent[t] = p], t)

\* The parent's list refers to the child, and the child to the parent.
add_child_thread_nolock(u, t, p) ==
    thr_ref_inc(thr_ref_inc(
      [u EXCEPT !.children[p] = @ \cup {t}, !.parent[t] = p], t), p)

\* Drops the reference of the list only.
del_child_thread_nolock(u, t, p) ==
    RefDecNotLast([assert(u, t \in u.children[p] /\ u.parent[t] = p) EXCEPT
                     !.children[p] = @ \ {t}], t)

\* The children of p become children of the reaper.
handle_orphan_thread(u, p) ==
    FoldSet(LAMBDA t, v :
              add_child_thread_nolock(
                RefDecNotLast(del_child_thread_nolock(v, t, p), p), t, Reaper),
            u, u.children[p])

-----------------------------------------------------------------------------
(* Actions.                                                                *)

MayRun(t) == cur = t /\ pc[t] = "run"

\* thr_thread_create by any thread but the reaper, and sched_thread_add.
thr_thread_create(t) ==
    /\ MayRun(cur) /\ cur # Reaper
    /\ w.k.state[t] = "FREE"
    /\ w' = LET u == add_child_thread_nolock(
                       [w EXCEPT !.refs[t] = 1, !.tree = @ \cup {t},
                                 !.waiters[t] = <<>>, !.children[t] = {},
                                 !.k.state[t] = "RUNABLE", !.k.fresh = @ \cup {t},
                                 !.k.delayed = @ \ {t}, !.k.active = @ \ {t}], t, cur)
            IN [u EXCEPT !.k = sched_thread_add(@, t)]
    /\ UNCHANGED <<pc, pins>>

\* The reference of the tree and the one thr_thread_exit took.
DropOwn(u, t) == thr_ref_dec(thr_ref_dec(u, t), t)

thr_thread_exit ==
    /\ MayRun(cur) /\ cur \in Workers
    /\ \A x \in pins : x[1] # cur
    /\ \E u1 \in {thr_ref_inc(assert(w, ~ LinkUsed(w, cur)), cur)} :
       \E u2 \in {handle_orphan_thread(u1, cur)} :
       \E u3 \in {del_child_thread_nolock(u2, cur, w.parent[cur])} :
       \E u4 \in {DropOwn([u3 EXCEPT !.k.state[cur] = "EXIT"], cur)} :
         w' = [u4 EXCEPT !.k = sched_schedule(@)]
    /\ UNCHANGED <<pc, pins>>

free_thread(u, t) == [assert(u, u.refs[t] = 0) EXCEPT !.k.state[t] = "FREE"]

CollectKeepsLink(u) ==      \* a faulty variant: the child stays in the list
    free_thread(thr_ref_dec(u, cur), Head(u.waiters[cur]))

(* The end of thr_thread_wait: takes the first child that ended, gives up  *)
(* the caller's reference to itself and frees the child's structure and    *)
(* stack.                                                                  *)
Collect(u) ==
    LET t == Head(u.waiters[cur])
        v == [assert(u, u.k.state[t] = "DEAD") EXCEPT !.waiters[cur] = Tail(@)]
    IN  free_thread(thr_ref_dec(v, cur), t)

(* The caller takes a reference to itself, which never fails for a running *)
(* thread, and keeps it while it sleeps.  Nobody wakes it with an event,   *)
(* so that the return with -EINTR is never taken (see WaitWoken).          *)
thr_thread_wait ==
    /\ MayRun(cur) /\ cur # Idle
    /\ LET u == thr_ref_inc(w, cur) IN
       IF u.waiters[cur] = <<>>
       THEN /\ w' = [u EXCEPT !.k =
                       sched_schedule(enque_wque_entry(init_wque_entry(@), cur))]
            /\ pc' = [pc EXCEPT ![cur] = "wait"]
       ELSE /\ w' = Collect(u)
            /\ UNCHANGED pc
    /\ UNCHANGED pins

\* The rest of thr_thread_wait, after the sleep.
WaitWoken ==
    /\ pc[cur] = "wait"
    /\ w' = IF w.waiters[cur] = <<>> THEN assert(w, FALSE)
            ELSE Collect(assert(w, w.k.reason[cur] = "RELEASED"))
    /\ pc' = [pc EXCEPT ![cur] = "run"]
    /\ UNCHANGED pins

\* A thread takes, and gives back, a reference to another thread.
Pin(t) ==
    /\ MayRun(cur) /\ cur \in Workers \ {t}
    /\ t \in w.tree \cap Workers /\ w.k.state[t] # "EXIT"
    /\ <<cur, t>> \notin pins /\ Cardinality(pins) < MaxPins
    /\ w' = thr_ref_inc(w, t)
    /\ pins' = pins \cup {<<cur, t>>}
    /\ UNCHANGED pc

Unpin(t) ==
    /\ MayRun(cur)
    /\ <<cur, t>> \in pins
    /\ w' = thr_ref_dec(w, t)
    /\ pins' = pins \ {<<cur, t>>}
    /\ UNCHANGED pc

IdleStep ==
    /\ cur = Idle
    /\ w' = [w EXCEPT !.k = thr_idle_loop(@)]
    /\ UNCHANGED <<pc, pins>>

WaitStep == thr_thread_wait \/ WaitWoken

Next ==
    /\ ~ w.k.panic
    /\ \/ \E t \in Workers : thr_thread_create(t) \/ Pin(t) \/ Unpin(t)
       \/ thr_thread_exit \/ WaitStep \/ IdleStep

(* The threads of the kernel go on: the idle thread dispatches, the reaper *)
(* collects, and a worker ends rather than keep the CPU for ever.          *)
Running(A) == ~ w.k.panic /\ A
Spec ==
    /\ Init /\ [][Next]_vars
    /\ WF_vars(Running(IdleStep))
    /\ WF_vars(Running(cur = Reaper /\ WaitStep))
    /\ WF_vars(Running(cur \in Workers /\ (WaitWoken \/ thr_thread_exit)))

-----------------------------------------------------------------------------
(* Properties.                                                             *)

\* Threads that still refer to t as their parent.
Dependants(t) == {c \in w.tree \ {t} : w.parent[c] = t}

(* The counter of a thread is the number of references there are: those of *)
(* the tree until it exits, of the list of its parent, of its children     *)
(* that have not been handed over yet, of itself while it waits for a      *)
(* child, and of the other threads.                                        *)
RefsExact ==
    \A t \in Allocated(w) :
        w.refs[t] = Cardinality({x \in {t} : w.k.state[t] \notin {"EXIT", "DEAD"}})
                    + Cardinality({p \in Threads : t \in w.children[p]})
                    + Cardinality(Dependants(t))
                    + Cardinality({x \in {t} : pc[t] = "wait"})
                    + Cardinality({x \in pins : x[2] = t})

(* A thread structure that was freed is referred to by nothing: not by the *)
(* scheduler, a list, a wait queue, a reference or as a parent of a thread *)
(* that has yet to tell it its end.  Threads are queued where their states *)
(* say, no kassert fails and a woken parent finds its child.               *)
NoUseAfterFree ==
    LET A == Allocated(w) IN
    /\ ~ w.k.panic /\ QueuedWhereStateSays(w.k)
    /\ cur \in A /\ Ready(w.k) \cup Waiting(w.k) \subseteq A
    /\ \A p \in A : w.children[p] \cup Range(w.waiters[p]) \subseteq A
    /\ \A c \in w.tree : w.parent[c] \in A
    /\ {x[2] : x \in pins} \subseteq A

(* The reaper collects every orphan that ends.                             *)
OrphansReaped ==
    \A t \in Workers :
        (w.k.state[t] = "DEAD" /\ w.parent[t] = Reaper) ~>
            (w.k.state[t] = "FREE" \/ w.k.panic)
=============================================================================
