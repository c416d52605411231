---------------------------- MODULE TimerService ----------------------------
(***************************************************************************)
(* What the callouts of the kernel promise to a user: a callout that was   *)
(* armed runs at most once, not before the time asked for has passed, and  *)
(* never after it was cancelled.  Times are relative to now: left[u] is    *)
(* what remains until the callout of u is due, and falls below zero when   *)
(* it is late.                                                             *)
(***************************************************************************)
EXTENDS Integers

CONSTANTS Users, MaxRel, None

VARIABLES
    left,    \* left[u] : time to go of the armed callout of u, or None
    ran      \* ran[u]  : the callout u armed last has run

vars == <<left, ran>>

Idle(u) == left[u] = None

Init == left = [u \in Users |-> None] /\ ran = [u \in Users |-> FALSE]

Arm(u, rel) ==
    /\ Idle(u)
    /\ left' = [left EXCEPT ![u] = rel]
    /\ ran' = [ran EXCEPT ![u] = FALSE]

Cancel(u) ==
    /\ ~ Idle(u)
    /\ left' = [left EXCEPT ![u] = None]
    /\ UNCHANGED ran

Run(u) ==
    /\ ~ Idle(u) /\ left[u] <= 0
    /\ left' = [left EXCEPT ![u] = None]
    /\ ran' = [ran EXCEPT ![u] = TRUE]

Tick ==
    /\ left' = [u \in Users |-> IF Idle(u) THEN None ELSE left[u] - 1]
    /\ UNCHANGED ran

Next == Tick \/ \E u \in Users : Cancel(u) \/ Run(u) \/ \E rel \in 0..MaxRel : Arm(u, rel)

Spec == Init /\ [][Next]_vars
=============================================================================
