-------------------------------- MODULE Proc --------------------------------
(***************************************************************************)
(* Processes (kern/proc-proc.c): creation with a page table, a stack and a *)
(* first thread, lookup by number, threads that join and leave, and the    *)
(* release with the last reference.  The clients are kernel threads that   *)
(* run concurrently; a step is what one does under a lock, or between two. *)
(*                                                                         *)
(* A process structure owns the page table of the same name (p->pgt); the  *)
(* process of the kernel has none of its own.  A thread here is what       *)
(* processes see of it: its number, references, kernel stack and the       *)
(* pointer to its process, which create_thread_common does not set.        *)
(***************************************************************************)
EXTENDS VmMap

CONSTANTS
    Thrs,       \* thread structures
    Ids,        \* numbers of processes and threads
    Reserved,   \* those that are never given out
    KernProc,   \* the process of the kernel
    NoProc, NoThr, NoId

PROC_KERN_PID == 0

ASSUME ProcAssumption ==
    /\ KernProc \notin Spaces /\ NoProc \notin Spaces \cup {KernProc}
    /\ NoThr \notin Thrs /\ NoId \notin Ids /\ Thrs \cap (Spaces \cup {KernProc}) = {}
    /\ IsFiniteSet(Actors) /\ IsFiniteSet(Ids) /\ Ids \subseteq Nat
    /\ PROC_KERN_PID \in Reserved /\ Reserved \subseteq Ids

VARIABLES
    proc,   \* the process structures
    thr,    \* the thread structures
    ids,    \* g_thrdb.idmap: numbers in use, by processes and threads
    procdb, \* g_procdb: the processes in the tree
    act,    \* what a client is doing, the process and the thread it points to
    halted  \* why the kernel stopped, "no" while it runs; "off" without processes

procVars == <<proc, thr, ids, procdb, act, halted>>

Procs == Spaces \cup {KernProc}
FreeProc == [refs |-> 0, thrque |-> <<>>, master |-> NoThr, id |-> NoId]
FreeThr == [refs |-> 0, id |-> NoId, stk |-> NoFrame, p |-> NoProc]
Idle == [pc |-> "idle", p |-> NoProc, t |-> NoThr]

\* The reference is that of the first thread to come.
allocate_process_common(i) == [refs |-> 1, thrque |-> <<>>, master |-> NoThr, id |-> i]
init_kernel_process == [p \in Procs |-> IF p = KernProc THEN allocate_process_common(PROC_KERN_PID) ELSE FreeProc]

ProcInit ==
    /\ proc = init_kernel_process
    /\ thr = [t \in Thrs |-> FreeThr]
    /\ ids = Reserved /\ procdb = {}
    /\ act = [a \in Actors |-> Idle]
    /\ halted \in {"no", "off"}

Unused == {p \in Spaces : proc[p].id = NoId}
At(a, pc) == act[a].pc = pc /\ halted = "no" /\ ~ v.panic
Become(a, pc, p, t) == act' = [act EXCEPT ![a] = [pc |-> pc, p |-> p, t |-> t]]
Go(a, pc) == Become(a, pc, act[a].p, act[a].t)
Finish(a) == Become(a, IF act[a].t = NoThr THEN "idle" ELSE "done", NoProc, act[a].t)
\* A faulty variant: the position that ffc returns is not made an index.
thr_id_allocFfc(used) == Min(Ids \ used) + 1
thr_id_alloc(used) == Min(Ids \ used)
StackPage == Max(UserPages)

-----------------------------------------------------------------------------
(* Resources of a process and of a thread, as operators on tables and      *)
(* pages.                                                                  *)

\* The pages of a segment; only the stack has any.
PROC_STACK_SEG == 4
PROC_SEG_NR == 5
Segment(i) == IF i = PROC_STACK_SEG THEN <<StackPage>> ELSE <<>>
release_page(u, p, page) ==
    IF hal_pgtbl_extract(u, p, page).rc = "OK" THEN hal_pgtbl_remove(u, p, page) ELSE u
release_process_segment(u, p, i) ==
    LET upto[n \in 0 .. Len(Segment(i))] == IF n = 0 THEN u ELSE release_page(upto[n - 1], p, Segment(i)[n])
    IN  upto[Len(Segment(i))]
\* A faulty variant: the segments are left to the page table.
free_user_processTables(u, p) == pgtbl_free_user_pgtbl(u, p)
free_user_process(u, p) ==
    LET upto[i \in 0 .. PROC_SEG_NR] == IF i = 0 THEN u ELSE release_process_segment(upto[i - 1], p, i - 1)
    IN  pgtbl_free_user_pgtbl(upto[PROC_SEG_NR], p)

\* A new thread needs a number and a page for its kernel stack.
CanCreate == Ids \ ids # {} /\ FreeClusters(v, 1) # {}
NewStack(u) == Min(FreeClusters(u, 1))
create_thread(t) ==
    /\ thr[t] = FreeThr
    /\ thr' = [thr EXCEPT ![t] = [@ EXCEPT !.refs = 1, !.id = thr_id_alloc(ids), !.stk = NewStack(v)]]
    /\ ids' = ids \cup {thr_id_alloc(ids)}
    /\ v' = get_free_page_cluster(v, NewStack(v), 1)

-----------------------------------------------------------------------------
(* proc_user_allocate: a structure with a number, its page table, its      *)
(* stack, its first thread, and the tree.  When the stack or the thread    *)
(* cannot be had the unwinding gives back the number of a thread that does *)
(* not exist yet: it reads through a pointer without a value, and nothing  *)
(* is said of what follows.                                                *)

Stack == [prot |-> {"R", "W", "X"}, size |-> 1, bytes |-> Zeroed]

proc_user_allocate(a, p) ==
    /\ At(a, "idle") /\ p \in Unused
    /\ IF Ids \ ids = {}
       THEN UNCHANGED <<proc, ids, act>>    \* -ENOSPC: the structure is given back
       ELSE /\ proc' = [proc EXCEPT ![p] = allocate_process_common(thr_id_alloc(ids))]
            /\ ids' = ids \cup {thr_id_alloc(ids)}
            /\ Become(a, "pgtbl", p, NoThr)
    /\ UNCHANGED <<v, mem, thr, procdb, halted>>
AllocTable(a) ==            \* stops the kernel when there is no page
    /\ At(a, "pgtbl")
    /\ LET u == pgtbl_alloc_user_pgtbl(v, act[a].p)
       IN  IF u.panic THEN halted' = "tables" /\ UNCHANGED <<v, act>>
           ELSE v' = u /\ Go(a, "stack") /\ UNCHANGED halted
    /\ UNCHANGED <<mem, proc, thr, ids, procdb>>
MapStack(a) ==
    LET p == act[a].p
        r == vm_map_common(v, p, StackPage, Stack.prot, 1)
    IN  /\ At(a, "stack")
        /\ IF r.rc = "OK"
           THEN /\ v' = r.v /\ mem' = [mem EXCEPT ![p][StackPage] = Stack]
                /\ Go(a, "first") /\ UNCHANGED halted
           ELSE /\ IF r.v.panic THEN halted' = "tables" /\ UNCHANGED v
                   ELSE halted' = "unwind" /\ v' = pgtbl_free_user_pgtbl(r.v, p)
                /\ UNCHANGED <<mem, act>>
        /\ UNCHANGED <<proc, thr, ids, procdb>>
FirstThread(a, t) ==
    LET p == act[a].p
    IN  /\ At(a, "first")
        /\ IF CanCreate
           THEN create_thread(t) /\ Become(a, "enter", p, t) /\ UNCHANGED <<mem, halted>>
           ELSE /\ v' = pgtbl_free_user_pgtbl(release_process_segment(v, p, PROC_STACK_SEG), p)
                /\ mem' = [mem EXCEPT ![p][StackPage] = Hole]
                /\ halted' = "unwind" /\ UNCHANGED <<thr, ids, act>>
        /\ UNCHANGED <<proc, procdb>>
Enter(a) ==                 \* kassert: no process with this number
    LET p == act[a].p
        t == act[a].t
    IN  /\ At(a, "enter")
        /\ proc' = [proc EXCEPT ![p].thrque = Append(@, t), ![p].master = t]
        /\ procdb' = procdb \cup {p}
        /\ halted' = IF \E q \in procdb : proc[q].id = proc[p].id THEN "same number" ELSE halted
        /\ Become(a, "idle", NoProc, NoThr)
        /\ UNCHANGED <<v, mem, thr, ids>>

-----------------------------------------------------------------------------
(* References.  proc_ref_dec takes the lock of the tree for every release, *)
(* so that zero, the check of the thread queue and the removal from the    *)
(* tree are one step; the resources follow after the unlock.               *)

proc_ref_inc(p) == proc' = [proc EXCEPT ![p].refs = IF @ = 0 THEN 0 ELSE @ + 1]

\* A faulty variant: the tree keeps the process until its resources are gone.
LeaveTreeLate(p) == procdb
LeaveTree(p) == IF proc[p].refs = 1 THEN procdb \ {p} ELSE procdb
proc_ref_dec(a, p) ==
    LET last == proc[p].refs = 1
    IN  /\ proc' = [proc EXCEPT ![p].refs = @ - 1]
        /\ procdb' = LeaveTree(p)
        /\ halted' = IF last /\ proc[p].thrque # <<>> THEN "threads left" ELSE halted
        /\ IF last THEN Go(a, "free") ELSE Finish(a)

\* The pointer alone: a caller that wants a reference takes it itself.
proc_kproc_refer == KernProc
TakeKernel(a) ==
    /\ At(a, "idle")
    /\ proc_ref_inc(proc_kproc_refer) /\ Become(a, "hold", proc_kproc_refer, NoThr)
    /\ UNCHANGED <<v, mem, thr, ids, procdb, halted>>
\* A reference from one that another caller holds.
Take(a, b) ==
    /\ At(a, "idle") /\ At(b, "hold")
    /\ proc_ref_inc(act[b].p) /\ Become(a, "hold", act[b].p, NoThr)
    /\ UNCHANGED <<v, mem, thr, ids, procdb, halted>>

\* The process with a number is found and referred to under the lock of the tree.
Find(a, i, pc) ==
    /\ At(a, "idle")
    /\ \E p \in procdb : proc[p].id = i /\ proc_ref_inc(p) /\ Become(a, pc, p, NoThr)
    /\ UNCHANGED <<v, mem, thr, ids, procdb, halted>>
proc_find_by_pid(a, i) == Find(a, i, "hold")

Put(a) == At(a, "hold") /\ proc_ref_dec(a, act[a].p) /\ UNCHANGED <<v, mem, thr, ids>>

\* The end of proc_ref_dec of the last reference; kassert: not the kernel's.
Free(a) ==
    LET p == act[a].p
    IN  /\ At(a, "free")
        /\ IF p = KernProc THEN halted' = "kernel process" /\ UNCHANGED <<v, mem, ids, proc, act>>
           ELSE /\ v' = free_user_process(v, p)
                /\ ids' = ids \ {proc[p].id}
                /\ proc' = [proc EXCEPT ![p] = FreeProc]
                /\ mem' = [mem EXCEPT ![p][StackPage] = Hole]
                /\ Finish(a) /\ UNCHANGED halted
        /\ UNCHANGED <<thr, procdb>>

\* The thread that ended, or was found, is given back; its number with the
\* last reference, its stack when its parent has waited for it.
thr_ref_dec(a) ==
    LET t == act[a].t
        last == thr[t].refs = 1
    IN  /\ At(a, "done")
        /\ Become(a, "idle", NoProc, NoThr)
        /\ thr' = [thr EXCEPT ![t] = IF last THEN [FreeThr EXCEPT !.stk = thr[t].stk]
                                     ELSE [thr[t] EXCEPT !.refs = @ - 1]]
        /\ ids' = IF last THEN ids \ {thr[t].id} ELSE ids
        /\ UNCHANGED <<v, mem, proc, procdb, halted>>
Reap(t) ==
    /\ halted = "no" /\ ~ v.panic /\ thr[t].refs = 0 /\ thr[t].stk # NoFrame
    /\ thr' = [thr EXCEPT ![t] = FreeThr]
    /\ v' = pfdb_dec_page_use_count(v, thr[t].stk)
    /\ UNCHANGED <<mem, proc, ids, procdb, act, halted>>

-----------------------------------------------------------------------------
(* proc_find_thread: after the lookup it runs without the lock of the tree. *)

proc_find_thread(a, i) == Find(a, i, "found")
ReadMaster(a) ==
    /\ At(a, "found")
    /\ Become(a, "master", act[a].p, proc[act[a].p].master)
    /\ UNCHANGED <<v, mem, proc, thr, ids, procdb, halted>>
RefMaster(a) ==                 \* kassert: the thread still exists
    LET t == act[a].t
        gone == t = NoThr \/ thr[t].refs = 0
    IN  /\ At(a, "master")
        /\ halted' = IF gone THEN "master gone" ELSE halted
        /\ thr' = IF gone THEN thr ELSE [thr EXCEPT ![t].refs = @ + 1]
        /\ Go(a, "unref")
        /\ UNCHANGED <<v, mem, proc, ids, procdb>>
UnrefProc(a) ==                 \* kassert: not the last reference
    LET p == act[a].p
    IN  /\ At(a, "unref")
        /\ proc' = [proc EXCEPT ![p].refs = @ - 1]
        /\ procdb' = LeaveTree(p)
        /\ halted' = IF proc[p].refs = 1 THEN "process gone" ELSE halted
        /\ Finish(a)
        /\ UNCHANGED <<v, mem, thr, ids>>

-----------------------------------------------------------------------------
(* proc_add_thread and proc_del_thread.                                    *)

\* A caller with a reference has made a thread for the process.
CreateThread(a, t) ==
    /\ At(a, "hold") /\ CanCreate
    /\ create_thread(t) /\ Become(a, "made", act[a].p, t)
    /\ UNCHANGED <<mem, proc, procdb, halted>>
proc_add_thread(a) ==           \* -ENOENT of a process that is being freed
    LET p == act[a].p
    IN  /\ At(a, "made")
        /\ IF proc[p].refs = 0 THEN Finish(a) ELSE Go(a, "add")
        /\ proc_ref_inc(p)
        /\ UNCHANGED <<v, mem, thr, ids, procdb, halted>>
AddToQueue(a) ==                \* under the lock of the process
    LET p == act[a].p
        t == act[a].t
    IN  /\ At(a, "add")
        /\ proc' = [proc EXCEPT ![p].thrque = Append(@, t)]
        /\ thr' = [thr EXCEPT ![t].p = p]
        /\ Become(a, "hold", p, NoThr)
        /\ UNCHANGED <<v, mem, ids, procdb, halted>>

Ending(t) == \E b \in Actors : act[b].pc \in {"del", "unque"} /\ act[b].t = t
\* A thread of the process ends, once; kassert: the process exists.
proc_del_thread(a, p, t) ==
    /\ At(a, "idle") /\ t \in Range(proc[p].thrque) /\ ~ Ending(t)
    /\ halted' = IF proc[p].refs = 0 THEN "no process" ELSE halted
    /\ proc_ref_inc(p)
    /\ Become(a, "del", p, t)
    /\ UNCHANGED <<v, mem, thr, ids, procdb>>
Without(que, t) == RemoveAt(que, CHOOSE i \in DOMAIN que : que[i] = t)
DelFromQueue(a) ==              \* under the lock of the process
    LET p == act[a].p
    IN  /\ At(a, "del")
        /\ proc' = [proc EXCEPT ![p].thrque = Without(@, act[a].t)]
        /\ Go(a, "unque")
        /\ UNCHANGED <<v, mem, thr, ids, procdb, halted>>
DropThreadRef(a) ==             \* kassert: not the last one
    LET p == act[a].p
    IN  /\ At(a, "unque")
        /\ proc' = [proc EXCEPT ![p].refs = @ - 1]
        /\ procdb' = LeaveTree(p)
        /\ halted' = IF proc[p].refs = 1 THEN "last reference" ELSE halted
        /\ Go(a, "check")
        /\ UNCHANGED <<v, mem, thr, ids>>
(* The master is compared through thr->p, without a lock, and only when    *)
(* other threads are left.  thr->p of the first thread was never set: it   *)
(* is any process, or no address at all.                                   *)
queue_top(q) == IF proc[q].thrque = <<>> THEN NoThr ELSE Head(proc[q].thrque)
UpdateMaster(a) ==
    LET p == act[a].p
        t == act[a].t
    IN  /\ At(a, "check")
        /\ IF proc[p].thrque = <<>> THEN Go(a, "leave") /\ UNCHANGED <<proc, halted>>
           ELSE \E q \in IF thr[t].p = NoProc THEN Procs \cup {NoProc} ELSE {thr[t].p} :
                  IF q = NoProc THEN halted' = "thr->p" /\ UNCHANGED <<act, proc>>
                  ELSE /\ proc' = IF proc[q].master = t THEN [proc EXCEPT ![p].master = queue_top(q)] ELSE proc
                       /\ Go(a, "leave") /\ UNCHANGED halted
        /\ UNCHANGED <<v, mem, thr, ids, procdb>>
Leave(a) == At(a, "leave") /\ proc_ref_dec(a, act[a].p) /\ UNCHANGED <<v, mem, thr, ids>>

-----------------------------------------------------------------------------
(* After a kassert or a read through a pointer without a value the kernel  *)
(* stands still.                                                           *)
ProcHalt == (halted # "no" \/ v.panic) /\ UNCHANGED <<v, mem, procVars>>

Creates(a) ==
    \/ \E p \in Spaces : proc_user_allocate(a, p)
    \/ \E t \in Thrs : FirstThread(a, t) \/ CreateThread(a, t)
    \/ AllocTable(a) \/ MapStack(a) \/ Enter(a)
Lookups(a) ==
    \/ \E i \in Ids : proc_find_by_pid(a, i) \/ proc_find_thread(a, i)
    \/ \E b \in Actors : Take(a, b)
    \/ TakeKernel(a) \/ Put(a) \/ ReadMaster(a) \/ RefMaster(a) \/ UnrefProc(a)
Changes(a) ==
    \/ \E p \in Procs, t \in Thrs : proc_del_thread(a, p, t)
    \/ proc_add_thread(a) \/ AddToQueue(a)
    \/ DelFromQueue(a) \/ DropThreadRef(a) \/ UpdateMaster(a) \/ Leave(a)
    \/ Free(a) \/ thr_ref_dec(a)
ProcStep ==
    /\ \/ ProcHalt
       \/ \E a \in Actors : Creates(a) \/ Lookups(a) \/ Changes(a)
       \/ \E t \in Thrs : Reap(t)
    /\ UNCHANGED <<owner, job, stores, calls>>
ProcSpec == VmInit /\ ProcInit /\ [][ProcStep]_<<vmVars, procVars>>

-----------------------------------------------------------------------------
(* Properties.                                                             *)

Creating(p) == {a \in Actors : act[a].p = p /\ act[a].pc \in {"pgtbl", "stack", "first", "enter"}}
\* Calls in progress that refer to p, and those that count one more thread of it.
Referring(p) ==
    {a \in Actors : act[a].p = p /\ act[a].pc \in {"hold", "made", "add", "found", "master", "unref", "del", "unque", "check", "leave"}}
Between(p) == {a \in Actors : act[a].p = p /\ act[a].pc \in {"add", "unque"}}
Freeing(p) == {a \in Actors : act[a].p = p /\ act[a].pc = "free"}
Own(p) == IF p = KernProc THEN 1 ELSE 0

(* The other kasserts hold: a process that is freed has no thread left and *)
(* is not the kernel's, no two processes in the tree have one number, and  *)
(* a thread that ends finds its process, and does not drop its last        *)
(* reference before it leaves (proc_ref_dec, proc_user_allocate,           *)
(* proc_del_thread).                                                       *)
KassertsHold ==
    halted \notin {"threads left", "kernel process", "same number", "no process", "last reference"}

(* The references of a process are one for each of its threads and one for *)
(* each call that works on it, and the kernel's process has one of its     *)
(* own; a process is in the tree while it has any, from the end of its     *)
(* creation on; it is freed once, by the call that dropped the last one,   *)
(* and while it is freed nobody refers to it (proc_ref_inc, proc_ref_dec,  *)
(* proc_add_thread, proc_del_thread, proc_find_by_pid).  The kasserts that *)
(* rest on this hold.                                                      *)
RefsExact(p) ==
    /\ proc[p].refs = Len(proc[p].thrque) + Cardinality(Creating(p)) + Cardinality(Referring(p))
                        + Cardinality(Between(p)) + Own(p)
    /\ p \in procdb <=> proc[p].refs > 0 /\ Creating(p) = {} /\ p # KernProc
    /\ Cardinality(Freeing(p)) = IF proc[p].refs = 0 /\ proc[p].id # NoId THEN 1 ELSE 0
ProcRefsExact == KassertsHold /\ (halted = "no" => \A p \in Procs : RefsExact(p))

(* A number belongs to one process or to one thread at a time, a number in *)
(* use is never given out again, and none is lost (thr_id_alloc,           *)
(* thr_id_release, thr_ref_dec).                                           *)
Numbered == {p \in Procs : proc[p].id # NoId} \cup {t \in Thrs : thr[t].refs > 0}
NumberOf(x) == IF x \in Thrs THEN thr[x].id ELSE proc[x].id
NumbersUnique ==
    halted = "no" =>
      /\ \A x, y \in Numbered : NumberOf(x) = NumberOf(y) => x = y
      /\ ids = Reserved \cup {NumberOf(x) : x \in Numbered}
      /\ \A x \in Numbered : NumberOf(x) \in Reserved => x = KernProc

(* The page pool holds nothing but the tables and the stack of processes   *)
(* that exist and the kernel stacks of threads: what a process had is      *)
(* given back with it, once (free_user_process).                           *)
InStep(pc) == {p \in Spaces : \E a \in Creating(p) : act[a].pc = pc}
Full == Spaces \ (Unused \cup InStep("pgtbl") \cup InStep("stack"))
PagesGivenBack ==
    halted = "no" =>
      /\ ~ v.panic
      /\ Cardinality(Taken(v)) = 4 * Cardinality(Full) + Cardinality(InStep("stack"))
                                   + Cardinality({t \in Thrs : thr[t].stk # NoFrame})
      /\ {p \in Spaces : v.base[p] # NoFrame} = Full \cup InStep("stack")

(* proc_find_thread finds a master that exists, and its process outlives   *)
(* the call: its kasserts.                                                 *)
FindThreadHolds == halted \notin {"master gone", "process gone"}
=============================================================================
