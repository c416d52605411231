------------------------------- MODULE MCMutex ------------------------------
(* Mutex for TLC.                                                          *)
EXTENDS Mutex

CONSTANTS idle, t1, t2, t3

ThreeWorkers == {idle, t1, t2, t3}
Queues       == {"mtx", "ev", "io"}

\* t1 goes first, the others have the priority of the idle thread.
HighFirst == [t \in Threads |-> IF t = t1 THEN 1 ELSE 2]
=============================================================================
