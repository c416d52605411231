------------------------------- MODULE MCSlab -------------------------------
(* Slab for TLC.                                                           *)
EXTENDS Slab, TLC

CONSTANTS u1, u2, u3, r1, r2, s1, s2

OneUser    == {u1}
TwoUsers   == {u1, u2}
ThreeUsers == {u1, u2, u3}
NoReaper   == {}
OneReaper  == {r1}
TwoReapers == {r1, r2}
TwoSlabs   == {s1, s2}

Symmetry == Permutations(Users) \cup Permutations(Slabs)
=============================================================================
