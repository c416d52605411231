---------------------------- MODULE MCThreadLife ----------------------------
(* ThreadLife for TLC.                                                     *)
EXTENDS ThreadLife

CONSTANTS idle, reaper, t1, t2, t3

ThreeWorkers == {idle, reaper, t1, t2, t3}

\* The reaper goes first, the workers have the priority of the idle thread.
ReaperFirst == [t \in Threads |-> IF t = Reaper THEN 1 ELSE 2]
=============================================================================
