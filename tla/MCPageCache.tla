---------------------------- MODULE MCPageCache -----------------------------
(* PageCache for TLC.                                                      *)
EXTENDS PageCache, TLC

CONSTANTS u1, u2, u3, s1, p1, p2, p3, k1, k2

TwoUsers == {u1, u2}
ThreeUsers == {u1, u2, u3}
OneShrinker == {s1}
TwoPages == {p1, p2}
ThreePages == {p1, p2, p3}
OneKey == {k1}
TwoKeys == {k1, k2}

Symmetry == Permutations(Users) \cup Permutations(Pages) \cup Permutations(Keys)
=============================================================================
