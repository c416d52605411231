------------------------------- MODULE Callout ------------------------------
(***************************************************************************)
(* Wall time and callouts (kern/timer.c).                                  *)
(*                                                                         *)
(* Time is counted in timer ticks: SecLen of them make a second, so that   *)
(* wall is curtime.tv_nsec and the carry into tv_sec happens within a few  *)
(* ticks.  Seconds are only added and compared, so they are kept relative  *)
(* to curtime.tv_sec: the carry of the wall time takes one from the        *)
(* seconds of every entry instead of adding one to curtime.                *)
(*                                                                         *)
(* An entry of callout_ent_cache is "free", "queued" or "taken", once      *)
(* invoke_callout has removed it.  A user arms a callout, keeps the        *)
(* pointer it gets and may cancel with it at any later time.               *)
(*                                                                         *)
(* The timer interrupt goes through inv.pc: "idle", "loop" in the loop of  *)
(* invoke_callout, "call" while the callout of inv.cur runs, "done".       *)
(***************************************************************************)
EXTENDS Integers, Sequences, SequencesExt, FiniteSets

CONSTANTS Users, Entries, NoEnt, SecLen, MaxRel

ASSUME CalloutAssumption ==
    /\ SecLen \in Nat \ {0} /\ MaxRel \in Nat
    /\ Entries \subseteq Nat /\ NoEnt \notin Int

VARIABLES
    wall,      \* curtime.tv_nsec, in ticks
    cq,        \* the queue of callouts
    ent,       \* the entries
    handle,    \* handle[u] : the entry the user armed last
    ran,       \* ran[u] : the callout the user armed last has run
    inv        \* the timer interrupt

coVars == <<wall, cq, ent, handle, ran, inv>>

FreeEnt == [st |-> "free", user |-> NoEnt, sec |-> 0, nsec |-> 0, left |-> 0]

tim_callout_init ==
    /\ wall = 0 /\ cq = <<>>
    /\ ent = [e \in Entries |-> FreeEnt]
    /\ handle = [u \in Users |-> NoEnt]
    /\ ran = [u \in Users |-> FALSE]
    /\ inv = [pc |-> "idle", cur |-> NoEnt]

-----------------------------------------------------------------------------
\* A faulty variant: the carry is forgotten.
expireNoCarry(rel) == [sec |-> rel \div SecLen, nsec |-> (wall + (rel % SecLen)) % SecLen]
(* When the nanoseconds carry, the second is added but they are reduced    *)
(* before curtime is added to them, so that they may exceed a second.      *)
expire(rel) ==
    LET nsec  == rel % SecLen
        carry == IF wall + nsec >= SecLen THEN 1 ELSE 0
    IN  [sec |-> rel \div SecLen + carry, nsec |-> wall + nsec]

calloutent_less(a, b) == a.sec < b.sec \/ (a.sec = b.sec /\ a.nsec < b.nsec)

(* queue_add_sort, ascending: the new element goes before the first one of *)
(* the set later, or before the last one when there is none.               *)
Stops(que, later) == {i \in DOMAIN que : i = Len(que) \/ que[i] \in later}
queue_add_sort(que, n, later) ==
    IF que = <<>> THEN <<n>>
    ELSE LET stops == Stops(que, later)
         IN  InsertAt(que, CHOOSE i \in stops : \A j \in stops : i <= j, n)

FreeEntries == {e \in Entries : ent[e].st = "free"}

(* A user arms one callout at a time: when its last one has run, from that *)
(* callout or from a thread.  Without a free entry the answer is -ENOMEM.  *)
tim_callout_add(u, rel) ==
    /\ handle[u] = NoEnt \/ ran[u]
    /\ FreeEntries # {}
    /\ LET e   == CHOOSE f \in FreeEntries : \A g \in FreeEntries : f <= g
           x   == expire(rel)
           new == [st |-> "queued", user |-> u, sec |-> x.sec, nsec |-> x.nsec, left |-> rel]
       IN /\ ent' = [ent EXCEPT ![e] = new]
          /\ cq' = queue_add_sort(cq, e, {f \in Range(cq) : calloutent_less(new, ent[f])})
          /\ handle' = [handle EXCEPT ![u] = e]
    /\ ran' = [ran EXCEPT ![u] = FALSE]
    /\ UNCHANGED <<wall, inv>>

\* -ENOENT when the entry is not in the queue any more; the user forgets it.
tim_callout_cancel(u) ==
    /\ handle[u] # NoEnt
    /\ LET e == handle[u] IN
       IF e \in Range(cq)
       THEN cq' = RemoveAt(cq, CHOOSE i \in DOMAIN cq : cq[i] = e) /\ ent' = [ent EXCEPT ![e] = FreeEnt]
       ELSE UNCHANGED <<cq, ent>>
    /\ handle' = [handle EXCEPT ![u] = NoEnt]
    /\ UNCHANGED <<wall, ran, inv>>

-----------------------------------------------------------------------------
\* The wall time moves by one tick; so does what is left of every callout.
tim_update_walltime ==
    /\ inv.pc = "idle"
    /\ LET carry == wall + 1 = SecLen IN
       /\ wall' = IF carry THEN 0 ELSE wall + 1
       /\ ent' = [e \in Entries |->
                    IF ent[e].st # "queued" THEN ent[e]
                    ELSE [ent[e] EXCEPT !.sec = IF carry THEN @ - 1 ELSE @, !.left = @ - 1]]
    /\ inv' = [inv EXCEPT !.pc = "loop"]
    /\ UNCHANGED <<cq, handle, ran>>

Due(e) == ~ calloutent_less([sec |-> 0, nsec |-> wall], ent[e])

\* A faulty variant: the entry goes back to the cache when it is taken.
takenFreed(e) == FreeEnt
\* The entry that was taken is not given back to the cache.
taken(e) == [FreeEnt EXCEPT !.st = "taken", !.user = ent[e].user]

\* Takes the first entry of the queue, if it is due, and calls its callout.
invoke_callout ==
    /\ inv.pc = "loop"
    /\ IF cq # <<>> /\ Due(Head(cq))
       THEN LET e == Head(cq) IN
            /\ inv' = [pc |-> "call", cur |-> ent[e].user]
            /\ cq' = Tail(cq)
            /\ ent' = [ent EXCEPT ![e] = taken(e)]
            /\ ran' = [ran EXCEPT ![ent[e].user] = TRUE]
       ELSE inv' = [inv EXCEPT !.pc = "done"] /\ UNCHANGED <<cq, ent, ran>>
    /\ UNCHANGED <<wall, handle>>

\* The callout returns.
callout_returns ==
    /\ inv.pc = "call"
    /\ inv' = [pc |-> "loop", cur |-> NoEnt]
    /\ UNCHANGED <<wall, cq, ent, handle, ran>>

-----------------------------------------------------------------------------
Armed(u) == handle[u] # NoEnt /\ ~ ran[u]

(* What a user sees: an entry that is armed is in the queue, with the time *)
(* that remains; any other armed entry is one that will never run.         *)
leftOf == [u \in Users |->
             IF ~ Armed(u) THEN NoEnt
             ELSE IF ent[handle[u]].st = "queued" THEN ent[handle[u]].left ELSE MaxRel + 1]

Service == INSTANCE TimerService WITH left <- leftOf, ran <- ran, None <- NoEnt

(* The callouts keep the promise of the timer service: a callout runs at   *)
(* most once, not before the time asked for has passed, and not after it   *)
(* was cancelled; and nobody else's call cancels it.                       *)
CalloutPromise == Service!Spec
=============================================================================
