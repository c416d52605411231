-------------------------------- MODULE Trees -------------------------------
(***************************************************************************)
(* A red-black tree and a splay tree under any sequence of calls.  Two     *)
(* nodes may have the same key, of which a tree takes only one.            *)
(***************************************************************************)
EXTENDS RbTree, SequencesExt

CONSTANTS Key, Temp

ASSUME KeyAssumption == Key \in [Nodes -> Int] /\ Temp \notin Nodes \cup {NULL}

-----------------------------------------------------------------------------
(* The splay trees of include/klib/splay.h (the page cache looks its pages *)
(* up in one), at the level of their pointers.  A tree is a record of the  *)
(* root and the links of every node; Temp is the node that SPLAY keeps on  *)
(* the stack.  A search is given by the function side: side[n] is the sign *)
(* of the comparison of what is searched for with the node n.              *)
SPLAY_INIT == [root |-> NULL, left |-> [n \in Nodes \cup {Temp} |-> NULL],
               right |-> [n \in Nodes \cup {Temp} |-> NULL]]

SPLAY_ROTATE_RIGHT(t, tmp) ==
    [t EXCEPT !.left[t.root] = t.right[tmp], !.right[tmp] = t.root, !.root = tmp]
SPLAY_ROTATE_LEFT(t, tmp) ==
    [t EXCEPT !.right[t.root] = t.left[tmp], !.left[tmp] = t.root, !.root = tmp]

\* The root becomes the last node of the right (left) tree, its child the root.
SPLAY_LINKLEFT(t, tmp) == [t EXCEPT !.left[tmp] = t.root, !.root = t.left[t.root]]
SPLAY_LINKRIGHT(t, tmp) == [t EXCEPT !.right[tmp] = t.root, !.root = t.right[t.root]]

\* A faulty variant: the subtrees of the root are not handed over.
SPLAY_ASSEMBLEShort(t, left, right) ==
    [t EXCEPT !.left[t.root] = t.right[Temp], !.right[t.root] = t.left[Temp]]
SPLAY_ASSEMBLE(t, left, right) ==
    LET t1 == [t EXCEPT !.right[left] = t.left[t.root]]
        t2 == [t1 EXCEPT !.left[right] = t1.right[t1.root]]
        t3 == [t2 EXCEPT !.left[t2.root] = t2.right[Temp]]
    IN  [t3 EXCEPT !.right[t3.root] = t3.left[Temp]]

(* One round of the loop of SPLAY on s = <<tree, left, right>>; the round  *)
(* that leaves the loop sets the fourth component.                         *)
SplayLeft(s, side) ==
    LET t == s[1]  tmp == t.left[t.root] IN
    IF tmp = NULL THEN <<t, s[2], s[3], TRUE>>
    ELSE LET r == IF side[tmp] < 0 THEN SPLAY_ROTATE_RIGHT(t, tmp) ELSE t
         IN  IF side[tmp] < 0 /\ r.left[r.root] = NULL THEN <<r, s[2], s[3], TRUE>>
             ELSE <<SPLAY_LINKLEFT(r, s[3]), s[2], r.root, FALSE>>
SplayRight(s, side) ==
    LET t == s[1]  tmp == t.right[t.root] IN
    IF tmp = NULL THEN <<t, s[2], s[3], TRUE>>
    ELSE LET r == IF side[tmp] > 0 THEN SPLAY_ROTATE_LEFT(t, tmp) ELSE t
         IN  IF side[tmp] > 0 /\ r.right[r.root] = NULL THEN <<r, s[2], s[3], TRUE>>
             ELSE <<SPLAY_LINKRIGHT(r, s[2]), r.root, s[3], FALSE>>

RECURSIVE SplayLoop(_, _)
SplayLoop(s, side) ==
    LET c == side[s[1].root] IN
    IF c = 0 \/ s[4] THEN SPLAY_ASSEMBLE(s[1], s[2], s[3])
    ELSE SplayLoop(IF c < 0 THEN SplayLeft(s, side) ELSE SplayRight(s, side), side)

\* The stack node is cleared again: it does not outlive the call.
SPLAY(t, side) ==
    [SplayLoop(<<t, Temp, Temp, FALSE>>, side) EXCEPT !.left[Temp] = NULL, !.right[Temp] = NULL]

\* SPLAY_MINMAX is the splay in which every comparison has the same result.
SPLAY_MINMAX(t, comp) == SPLAY(t, [n \in Nodes |-> comp])

SPLAY_FIND(t, side) == IF t.root = NULL THEN t ELSE SPLAY(t, side)

SPLAY_INSERT(t, elm, side) ==
    IF t.root = NULL THEN [t EXCEPT !.left[elm] = NULL, !.right[elm] = NULL, !.root = elm]
    ELSE LET s == SPLAY(t, side)  r == s.root IN
         CASE side[r] < 0 -> [s EXCEPT !.left[elm] = s.left[r], !.right[elm] = r,
                                       !.left[r] = NULL, !.root = elm]
           [] side[r] > 0 -> [s EXCEPT !.right[elm] = s.right[r], !.left[elm] = r,
                                       !.right[r] = NULL, !.root = elm]
           [] OTHER       -> s

\* The links the removed node keeps are cleared: SPLAY_INSERT writes them anew.
SPLAY_REMOVE(t, elm, side) ==
    IF t.root = NULL THEN t
    ELSE LET s == SPLAY(t, side)  r == s.root IN
         IF side[r] # 0 THEN s
         ELSE LET joined == SPLAY([s EXCEPT !.root = s.left[r]], side)
                  rest   == IF s.left[r] = NULL THEN [s EXCEPT !.root = s.right[r]]
                            ELSE [joined EXCEPT !.right[joined.root] = s.right[r]]
              IN  [rest EXCEPT !.left[r] = NULL, !.right[r] = NULL]

\* The node after elm, found from the root to which the splay has moved elm.
SPLAY_NEXT(t, elm) ==
    LET L[n \in Nodes] == IF t.left[n] = NULL THEN n ELSE L[t.left[n]]
    IN  IF t.right[elm] = NULL THEN NULL ELSE L[t.right[elm]]

-----------------------------------------------------------------------------
VARIABLES
    rb,       \* a red-black tree
    sp,       \* a splay tree
    members   \* the nodes whose insertion found no node with the same key

treeVars == <<rb, sp, members>>
TreesInit == rb = RB_INIT /\ sp = SPLAY_INIT /\ members = [rb |-> {}, sp |-> {}]

Sign(i) == CASE i < 0 -> -1 [] i = 0 -> 0 [] OTHER -> 1
cmp(n) == [m \in Nodes |-> Sign(Key[n] - Key[m])]
Twin(n, in) == \E m \in in : Key[m] = Key[n]

RbInsert(n) ==
    /\ n \notin members.rb
    /\ rb' = RB_INSERT(rb, Key, n)
    /\ members' = [members EXCEPT !.rb = IF Twin(n, @) THEN @ ELSE @ \cup {n}]
    /\ UNCHANGED sp
RbRemove(n) ==
    /\ n \in members.rb
    /\ rb' = RB_REMOVE(rb, n)
    /\ members' = [members EXCEPT !.rb = @ \ {n}]
    /\ UNCHANGED sp

SplayInsert(n) ==
    /\ n \notin members.sp
    /\ sp' = SPLAY_INSERT(sp, n, cmp(n))
    /\ members' = [members EXCEPT !.sp = IF Twin(n, @) THEN @ ELSE @ \cup {n}]
    /\ UNCHANGED rb
SplayRemove(n) ==
    /\ n \in members.sp
    /\ sp' = SPLAY_REMOVE(sp, n, cmp(n))
    /\ members' = [members EXCEPT !.sp = @ \ {n}]
    /\ UNCHANGED rb
\* SPLAY_FIND, SPLAY_MIN and SPLAY_MAX rearrange the tree they search.
SplayFind(n) == sp' = SPLAY_FIND(sp, cmp(n)) /\ UNCHANGED <<rb, members>>
SplayEnd(c) == sp.root # NULL /\ sp' = SPLAY_MINMAX(sp, c) /\ UNCHANGED <<rb, members>>

RbStep == \E n \in Nodes : RbInsert(n) \/ RbRemove(n)
SplayStep ==
    \/ \E n \in Nodes : SplayInsert(n) \/ SplayRemove(n) \/ SplayFind(n)
    \/ \E c \in {-1, 1} : SplayEnd(c)

-----------------------------------------------------------------------------
Ordered(s) == \A i, j \in DOMAIN s : i < j => Key[s[i]] < Key[s[j]]

(* After any sequence of insertions and removals RB_FOREACH visits exactly *)
(* the nodes that were inserted and not removed, in the order of their     *)
(* keys, RB_FOREACH_REVERSE the other way, RB_FIND finds each of them, and *)
(* the tree is balanced.                                                   *)
RbTreeCorrect ==
    /\ Range(RB_FOREACH(rb)) = members.rb /\ Ordered(RB_FOREACH(rb))
    /\ RB_FOREACH_REVERSE(rb) = Reverse(RB_FOREACH(rb))
    /\ \A n \in members.rb : RB_FIND(rb, Key, Key[n]) = n
    /\ Balanced(rb)

RECURSIVE InOrder(_)
InOrder(n) == IF n = NULL THEN <<>> ELSE InOrder(sp.left[n]) \o <<n>> \o InOrder(sp.right[n])

(* Splaying never loses or reorders a node: the tree holds exactly the     *)
(* nodes that were inserted and not removed, in order, and a search moves  *)
(* the node it looks for to the root, where SPLAY_NEXT finds its neighbour.*)
SplayCorrect ==
    LET s == InOrder(sp.root) IN
    /\ Range(s) = members.sp /\ Ordered(s)
    /\ \A i \in DOMAIN s :
         LET t == SPLAY_FIND(sp, cmp(s[i]))
         IN  /\ t.root = s[i]
             /\ SPLAY_NEXT(t, s[i]) = IF i = Len(s) THEN NULL ELSE s[i + 1]

\* Both kinds of trees keep what was put into them and find it (rbtree.h, splay.h).
TreesCorrect == RbTreeCorrect /\ SplayCorrect
=============================================================================
