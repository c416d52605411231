--------------------------- MODULE PageAllocator ---------------------------
(***************************************************************************)
(* What the page allocator promises to the rest of the kernel: a cluster   *)
(* handed out is a run of 2^order pages none of which is reserved or part  *)
(* of a cluster handed out before and not yet returned; nothing else ever  *)
(* changes the set of clusters in use.                                     *)
(***************************************************************************)
EXTENDS Integers

CONSTANTS Pages, MaxOrder

VARIABLES
    clusters,   \* the clusters in use, each a set of pages
    resv        \* the reserved pages

Taken == (UNION clusters) \cup resv

Init == clusters = {} /\ resv = Pages

GetCluster(i, o) ==
    LET c == i .. (i + 2^o - 1) IN
    /\ c \subseteq Pages
    /\ c \cap Taken = {}
    /\ clusters' = clusters \cup {c}
    /\ UNCHANGED resv

PutCluster(c) ==
    /\ clusters' = clusters \ {c}
    /\ UNCHANGED resv

Reserve(i) ==
    /\ i \notin Taken
    /\ resv' = resv \cup {i}
    /\ UNCHANGED clusters

Unreserve(i) ==
    /\ resv' = resv \ {i}
    /\ UNCHANGED clusters

Next ==
    \/ \E i \in Pages, o \in 0..(MaxOrder - 1) : GetCluster(i, o)
    \/ \E c \in clusters : PutCluster(c)
    \/ \E i \in Pages : Reserve(i)
    \/ \E i \in resv : Unreserve(i)

Spec == Init /\ [][Next]_<<clusters, resv>>
=============================================================================
