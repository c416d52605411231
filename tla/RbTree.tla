------------------------------- MODULE RbTree -------------------------------
(***************************************************************************)
(* The red-black trees of include/klib/rbtree.h, at the level of their     *)
(* pointers.  A tree is a record t of the root and, for every node, the    *)
(* fields of its RB_ENTRY.  The comparison function of a tree is given by  *)
(* the keys of its nodes at the time of the call: cmp(a, b) is the sign of *)
(* key[a] - key[b].  Several modules use these operators for the trees of  *)
(* the kernel.                                                             *)
(***************************************************************************)
EXTENDS Integers, Sequences, FiniteSets

CONSTANTS Nodes, NULL

ASSUME RbAssumption == NULL \notin Nodes

RbType == [root : Nodes \cup {NULL}, left : [Nodes -> Nodes \cup {NULL}],
           right : [Nodes -> Nodes \cup {NULL}],
           parent : [Nodes -> Nodes \cup {NULL}], color : [Nodes -> {"RED", "BLACK"}]]

RB_INIT == [root |-> NULL, left |-> [n \in Nodes |-> NULL],
            right |-> [n \in Nodes |-> NULL], parent |-> [n \in Nodes |-> NULL],
            color |-> [n \in Nodes |-> "RED"]]

SetColor(t, n, c) == [t EXCEPT !.color[n] = c]
SetParent(t, n, p) == IF n = NULL THEN t ELSE [t EXCEPT !.parent[n] = p]
IsRed(t, n) == n # NULL /\ t.color[n] = "RED"

\* Makes c the child of p in the place of n, or the root when p is NULL.
Replace(t, p, n, c) ==
    CASE p = NULL        -> [t EXCEPT !.root = c]
      [] p # NULL /\ t.left[p] = n -> [t EXCEPT !.left[p] = c]
      [] OTHER           -> [t EXCEPT !.right[p] = c]

RB_SET_BLACKRED(t, black, red) == SetColor(SetColor(t, black, "BLACK"), red, "RED")

RB_ROTATE_LEFT(t, elm) ==
    LET tmp == t.right[elm]
        t1  == SetParent([t EXCEPT !.right[elm] = t.left[tmp]], t.left[tmp], elm)
        t2  == Replace([t1 EXCEPT !.parent[tmp] = t.parent[elm]], t.parent[elm], elm, tmp)
    IN  [t2 EXCEPT !.left[tmp] = elm, !.parent[elm] = tmp]

RB_ROTATE_RIGHT(t, elm) ==
    LET tmp == t.left[elm]
        t1  == SetParent([t EXCEPT !.left[elm] = t.right[tmp]], t.right[tmp], elm)
        t2  == Replace([t1 EXCEPT !.parent[tmp] = t.parent[elm]], t.parent[elm], elm, tmp)
    IN  [t2 EXCEPT !.right[tmp] = elm, !.parent[elm] = tmp]

-----------------------------------------------------------------------------
(* The two sides of every case of the source are mirror images: L is the   *)
(* side the node is on.                                                    *)

Child(t, n, isLeft) == IF isLeft THEN t.left[n] ELSE t.right[n]
Rotate(t, n, toLeft) == IF toLeft THEN RB_ROTATE_LEFT(t, n) ELSE RB_ROTATE_RIGHT(t, n)

\* Rotates an inner grandchild outwards; the result is the tree and the new parent.
InnerGrandchild(t, parent, elm, L) ==
    IF Child(t, parent, ~L) = elm THEN <<Rotate(t, parent, L), elm>> ELSE <<t, parent>>

RECURSIVE RB_INSERT_COLOR(_, _)
RB_INSERT_COLOR(t, elm) ==
    LET parent == t.parent[elm] IN
    IF ~ IsRed(t, parent) THEN SetColor(t, t.root, "BLACK")
    ELSE LET gparent == t.parent[parent]
             L   == t.left[gparent] = parent
             tmp == Child(t, gparent, ~L)
         IN IF IsRed(t, tmp)
            THEN RB_INSERT_COLOR(RB_SET_BLACKRED(SetColor(t, tmp, "BLACK"), parent, gparent), gparent)
            ELSE LET r   == InnerGrandchild(t, parent, elm, L)
                     low == IF r[2] = elm THEN parent ELSE elm
                 IN RB_INSERT_COLOR(Rotate(RB_SET_BLACKRED(r[1], r[2], gparent), gparent, ~L), low)

\* A faulty variant: the rotation without the new colours.
RotateBlackInPlain(t, parent, sib, L) == Rotate(t, parent, L)
\* The last two of the cases of RB_REMOVE_COLOR, which end its loop.
RotateBlackIn(t, parent, sib, L) ==
    LET t1  == IF IsRed(t, Child(t, sib, ~L)) THEN t
               ELSE Rotate(SetColor(SetColor(t, Child(t, sib, L), "BLACK"), sib, "RED"), sib, ~L)
        tmp == Child(t1, parent, ~L)
        out == Child(t1, tmp, ~L)
        t2  == SetColor(SetColor(t1, tmp, t1.color[parent]), parent, "BLACK")
    IN  Rotate(IF out = NULL THEN t2 ELSE SetColor(t2, out, "BLACK"), parent, L)

RECURSIVE RB_REMOVE_COLOR(_, _, _)
RB_REMOVE_COLOR(t, parent, elm) ==
    IF IsRed(t, elm) \/ elm = t.root
    THEN IF elm = NULL THEN t ELSE SetColor(t, elm, "BLACK")
    ELSE LET L   == t.left[parent] = elm
             sib == Child(t, parent, ~L)
             t1  == IF IsRed(t, sib) THEN Rotate(RB_SET_BLACKRED(t, sib, parent), parent, L) ELSE t
             tmp == Child(t1, parent, ~L)
         IN IF ~ IsRed(t1, t1.left[tmp]) /\ ~ IsRed(t1, t1.right[tmp])
            THEN RB_REMOVE_COLOR(SetColor(t1, tmp, "RED"), t1.parent[parent], parent)
            ELSE LET t2 == RotateBlackIn(t1, parent, tmp, L)
                 IN  SetColor(t2, t2.root, "BLACK")

-----------------------------------------------------------------------------
\* Where the descent for a key from n ends: the equal node, or the last one seen.
Descend(t, key, k, start) ==
    LET D[n \in Nodes] ==
          LET c == IF k < key[n] THEN t.left[n] ELSE t.right[n]
          IN  IF k = key[n] \/ c = NULL THEN n ELSE D[c]
    IN D[start]

RB_FIND(t, key, k) ==
    IF t.root = NULL THEN NULL
    ELSE LET n == Descend(t, key, k, t.root) IN IF key[n] = k THEN n ELSE NULL

\* The node with an equal key that makes RB_INSERT return without inserting.
RB_INSERT_found(t, key, elm) == RB_FIND(t, key, key[elm])

RB_INSERT(t, key, elm) ==
    IF RB_INSERT_found(t, key, elm) # NULL THEN t
    ELSE LET parent == IF t.root = NULL THEN NULL ELSE Descend(t, key, key[elm], t.root)
             t1 == [t EXCEPT !.parent[elm] = parent, !.left[elm] = NULL,
                             !.right[elm] = NULL, !.color[elm] = "RED"]
             t2 == CASE parent = NULL -> [t1 EXCEPT !.root = elm]
                     [] parent # NULL /\ key[elm] < key[parent] -> [t1 EXCEPT !.left[parent] = elm]
                     [] OTHER -> [t1 EXCEPT !.right[parent] = elm]
         IN RB_INSERT_COLOR(t2, elm)

Leftmost(t, start) ==
    LET M[n \in Nodes] == IF t.left[n] = NULL THEN n ELSE M[t.left[n]] IN M[start]
Rightmost(t, start) ==
    LET M[n \in Nodes] == IF t.right[n] = NULL THEN n ELSE M[t.right[n]] IN M[start]

\* Unlinks the spliced node elm, whose only child takes its place.
Splice(t, elm, child) ==
    Replace(SetParent(t, child, t.parent[elm]), t.parent[elm], elm, child)

\* Removal of a node with two children: its successor takes its place.
RemoveInner(t, old) ==
    LET elm    == Leftmost(t, t.right[old])
        child  == t.right[elm]
        parent == IF t.parent[elm] = old THEN elm ELSE t.parent[elm]
        t1 == Splice(t, elm, child)
        t2 == [t1 EXCEPT !.left[elm] = t1.left[old], !.right[elm] = t1.right[old],
                         !.parent[elm] = t1.parent[old], !.color[elm] = t1.color[old]]
        t3 == Replace(t2, t2.parent[old], old, elm)
        t4 == SetParent(SetParent(t3, t3.left[old], elm), t3.right[old], elm)
    IN  IF t.color[elm] = "BLACK" THEN RB_REMOVE_COLOR(t4, parent, child) ELSE t4

RemoveOuter(t, elm) ==
    LET child == IF t.left[elm] = NULL THEN t.right[elm] ELSE t.left[elm]
        t1    == Splice(t, elm, child)
    IN  IF t.color[elm] = "BLACK" THEN RB_REMOVE_COLOR(t1, t.parent[elm], child) ELSE t1

(* Removal is by the links of the node; its key is not compared with any   *)
(* other.  The links the node keeps afterwards are left out: RB_SET writes *)
(* them before they are read again.                                        *)
RB_REMOVE(t, elm) ==
    [IF t.left[elm] # NULL /\ t.right[elm] # NULL THEN RemoveInner(t, elm) ELSE RemoveOuter(t, elm)
     EXCEPT !.left[elm] = NULL, !.right[elm] = NULL, !.parent[elm] = NULL, !.color[elm] = "RED"]

-----------------------------------------------------------------------------
\* RB_NEXT and RB_PREV: the neighbours of a node in the order of the tree.
FirstAncestor(t, start, isLeft) ==
    LET A[n \in Nodes] ==
          LET p == t.parent[n]
          IN  IF p = NULL THEN NULL ELSE IF Child(t, p, isLeft) = n THEN p ELSE A[p]
    IN A[start]
RB_NEXT(t, n) == IF t.right[n] # NULL THEN Leftmost(t, t.right[n]) ELSE FirstAncestor(t, n, TRUE)
RB_PREV(t, n) == IF t.left[n] # NULL THEN Rightmost(t, t.left[n]) ELSE FirstAncestor(t, n, FALSE)
RB_MIN(t) == IF t.root = NULL THEN NULL ELSE Leftmost(t, t.root)
RB_MAX(t) == IF t.root = NULL THEN NULL ELSE Rightmost(t, t.root)

\* The nodes in the order in which RB_FOREACH visits them, and in that of RB_FOREACH_REVERSE.
RECURSIVE WalkFrom(_, _, _)
WalkFrom(t, n, up) ==
    IF n = NULL THEN <<>> ELSE <<n>> \o WalkFrom(t, IF up THEN RB_NEXT(t, n) ELSE RB_PREV(t, n), up)
RB_FOREACH(t) == WalkFrom(t, RB_MIN(t), TRUE)
RB_FOREACH_REVERSE(t) == WalkFrom(t, RB_MAX(t), FALSE)

-----------------------------------------------------------------------------
(* What a red-black tree is.                                               *)

InTree(t) == {n \in Nodes : t.root = n \/ t.parent[n] # NULL}

RECURSIVE BlackHeight(_, _)
\* The number of black nodes on each path down from n, or -1 when the paths differ.
BlackHeight(t, n) ==
    IF n = NULL THEN 1
    ELSE LET l == BlackHeight(t, t.left[n])
             r == BlackHeight(t, t.right[n])
         IN IF l = -1 \/ l # r THEN -1 ELSE IF t.color[n] = "BLACK" THEN l + 1 ELSE l

\* The root is black, no red node has a red child, all paths have as many black nodes.
Balanced(t) ==
    /\ ~ IsRed(t, t.root)
    /\ \A n \in Nodes : IsRed(t, n) /\ n \in InTree(t) => ~ IsRed(t, t.left[n]) /\ ~ IsRed(t, t.right[n])
    /\ BlackHeight(t, t.root) # -1
=============================================================================
