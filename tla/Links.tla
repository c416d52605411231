-------------------------------- MODULE Links -------------------------------
(***************************************************************************)
(* The linked queues and lists of klib (klib/queue.c, klib/list.c,         *)
(* klib/slist.c, include/klib/queue.h) at the level of their pointers,     *)
(* next to the sequences that their users take them for.                   *)
(*                                                                         *)
(* m is the memory: the fields next and prev of every queue head and list  *)
(* node, and the field snext of every head and node of a singly linked     *)
(* list.  order and stack are the sequences: each call changes them as its *)
(* description says.  An element is added when it is in no queue, as the   *)
(* callers do; it may be removed at any time, twice or while it is in      *)
(* another queue than its caller believes.                                 *)
(***************************************************************************)
EXTENDS Integers, Sequences, SequencesExt, FiniteSets, FiniteSetsExt

CONSTANTS
    Heads,      \* queue heads
    ListHead,   \* the head of a singly linked list
    Elems,      \* elements, each with a list node and a slist node
    Rank,       \* Rank[n] : the key of the element, for sorted insertion
    Nil

ASSUME LinksAssumption ==
    /\ Rank \in [Elems -> Int] /\ IsFiniteSet(Elems)
    /\ Elems \cap Heads = {} /\ ListHead \notin Elems /\ Nil \notin Elems \cup {ListHead}

VARIABLES m, order, stack

linkVars == <<m, order, stack>>

queue_init(h) == h
LinksInit ==
    /\ m = [next  |-> [h \in Heads \cup Elems |-> queue_init(h)],
            prev  |-> [h \in Heads \cup Elems |-> queue_init(h)],
            snext |-> [n \in {ListHead} \cup Elems |-> Nil]]
    /\ order = [h \in Heads |-> <<>>]
    /\ stack = <<>>

-----------------------------------------------------------------------------
(* The functions, from a memory to the next; assignments in their order.   *)

SetNext(s, n, v) == [s EXCEPT !.next[n] = v]
SetPrev(s, n, v) == [s EXCEPT !.prev[n] = v]

queue_add(s, head, node) ==
    LET s1 == SetPrev(SetNext(s, node, head), node, s.prev[head])
        s2 == SetNext(s1, s1.prev[head], node)
    IN  SetPrev(s2, head, node)
queue_add_top(s, head, node) ==
    LET s1 == SetPrev(SetNext(s, node, s.next[head]), node, head)
        s2 == SetPrev(s1, s1.next[head], node)
    IN  SetNext(s2, head, node)
queue_add_before(s, target, node) ==
    LET s1 == SetNext(SetPrev(s, node, s.prev[target]), node, target)
        s2 == SetNext(s1, s1.prev[target], node)
    IN  SetPrev(s2, target, node)
queue_add_after(s, target, node) ==
    LET s1 == SetPrev(SetNext(s, node, s.next[target]), node, target)
        s2 == SetPrev(s1, s1.next[target], node)
    IN  SetNext(s2, target, node)

list_init(s, node) == SetNext(SetPrev(s, node, node), node, node)
list_not_linked(s, node) == s.prev[node] = node /\ s.next[node] = node
\* A faulty variant: the backward link of the successor is not corrected.
list_delForward(s, node) == list_init(SetNext(s, s.prev[node], s.next[node]), node)
list_del(s, node) ==
    LET s1 == SetPrev(s, s.next[node], s.prev[node])
    IN  list_init(SetNext(s1, s1.prev[node], s1.next[node]), node)

queue_ref_top(s, head) == s.next[head]
queue_ref_last(s, head) == s.prev[head]
queue_is_empty(s, head) == s.prev[head] = head /\ s.next[head] = head
queue_get_top(s, head) == list_del(s, queue_ref_top(s, head))
queue_get_last(s, head) == list_del(s, queue_ref_last(s, head))
queue_rotate(s, head) == queue_add(queue_get_top(s, head), head, queue_ref_top(s, head))
queue_reverse_rotate(s, head) ==
    queue_add_top(queue_get_last(s, head), head, queue_ref_last(s, head))

(* The elements that following a field from a head meets, up to a bound    *)
(* that only a broken chain exceeds.                                       *)
Walk(field, head, end) ==
    LET N == Cardinality(Elems) + 1
        At[k \in 1..N] == IF k = 1 THEN field[head]
                          ELSE IF At[k - 1] = end THEN end ELSE field[At[k - 1]]
        ends == {k \in 1..N : At[k] = end}
    IN  [k \in 1 .. (IF ends = {} THEN N ELSE Min(ends) - 1) |-> At[k]]
queue_for_each(s, head) == Walk(s.next, head, head)
queue_reverse_for_each(s, head) == Walk(s.prev, head, head)
slist_for_each(s) == Walk(s.snext, ListHead, Nil)

\* queue_add_sort, ascending, and queue_find_element.
queue_add_sort(s, head, node) ==
    LET es   == queue_for_each(s, head)
        stop == {i \in DOMAIN es : s.next[es[i]] = head \/ Rank[node] < Rank[es[i]]}
    IN  queue_add_before(s, IF es = <<>> THEN head ELSE es[Min(stop)], node)
queue_find_element(s, head, k) ==
    LET es == queue_for_each(s, head)
        is == {i \in DOMAIN es : Rank[es[i]] = k}
    IN  IF is = {} THEN Nil ELSE es[Min(is)]

slist_add(s, node) == [s EXCEPT !.snext[node] = s.snext[ListHead], !.snext[ListHead] = node]
find_slist_node_referer(s, node) == CHOOSE r \in {ListHead} \cup Elems : s.snext[r] = node
slist_init_node(s, node) == [s EXCEPT !.snext[node] = Nil]
slist_del(s, node) ==
    slist_init_node([s EXCEPT !.snext[find_slist_node_referer(s, node)] = s.snext[node]], node)
slist_is_empty(s) == s.snext[ListHead] = Nil
slist_ref_top(s) == s.snext[ListHead]
slist_get_top(s) == slist_del(s, slist_ref_top(s))

-----------------------------------------------------------------------------
Queued == UNION {Range(order[h]) : h \in Heads}
Place(h, n) == CHOOSE i \in DOMAIN order[h] : order[h][i] = n

\* One call on the queue h: the new memory and the new sequence.
QueueCall(h, s, o) ==
    /\ m' = s
    /\ order' = [order EXCEPT ![h] = o]
    /\ UNCHANGED stack

(* The place of a sorted insertion: behind everything that does not come   *)
(* later, but before the last element.                                     *)
SortedPlace(h, n) ==
    Min({i \in DOMAIN order[h] : i = Len(order[h]) \/ Rank[order[h][i]] > Rank[n]} \cup {Len(order[h]) + 1})

AddLast(h, n) == n \notin Queued /\ QueueCall(h, queue_add(m, h, n), Append(order[h], n))
AddTop(h, n) == n \notin Queued /\ QueueCall(h, queue_add_top(m, h, n), <<n>> \o order[h])
AddBefore(h, t, n) ==
    n \notin Queued /\ QueueCall(h, queue_add_before(m, t, n), InsertAt(order[h], Place(h, t), n))
AddAfter(h, t, n) ==
    n \notin Queued /\ QueueCall(h, queue_add_after(m, t, n), InsertAt(order[h], Place(h, t) + 1, n))
AddSorted(h, n) ==
    n \notin Queued /\ QueueCall(h, queue_add_sort(m, h, n), InsertAt(order[h], SortedPlace(h, n), n))
(* The queue that is passed along is not looked at: the element leaves the *)
(* queue it is in, and a call for one that is in no queue changes nothing. *)
queue_del(n) ==
    /\ m' = list_del(m, n)
    /\ order' = [h \in Heads |-> IF n \in Range(order[h]) THEN RemoveAt(order[h], Place(h, n))
                                ELSE order[h]]
    /\ UNCHANGED stack
GetTop(h) == order[h] # <<>> /\ QueueCall(h, queue_get_top(m, h), Tail(order[h]))
GetLast(h) == order[h] # <<>> /\ QueueCall(h, queue_get_last(m, h), Front(order[h]))
RotateStep(h) ==
    QueueCall(h, queue_rotate(m, h), IF order[h] = <<>> THEN <<>> ELSE Append(Tail(order[h]), Head(order[h])))
ReverseRotate(h) ==
    QueueCall(h, queue_reverse_rotate(m, h),
              IF order[h] = <<>> THEN <<>> ELSE <<Last(order[h])>> \o Front(order[h]))

ListCall(s, o) == m' = s /\ stack' = o /\ UNCHANGED order
Push(n) == n \notin Range(stack) /\ ListCall(slist_add(m, n), <<n>> \o stack)
Drop(n) == \E i \in DOMAIN stack : stack[i] = n /\ ListCall(slist_del(m, n), RemoveAt(stack, i))
Pop == ~ slist_is_empty(m) /\ ListCall(slist_get_top(m), Tail(stack))

LinksStep ==
    \/ \E h \in Heads :
         \/ \E n \in Elems : AddLast(h, n) \/ AddTop(h, n) \/ AddSorted(h, n)
         \/ \E n \in Elems : \E t \in Range(order[h]) : AddBefore(h, t, n) \/ AddAfter(h, t, n)
         \/ GetTop(h) \/ GetLast(h) \/ RotateStep(h) \/ ReverseRotate(h)
    \/ \E n \in Elems : queue_del(n) \/ Push(n) \/ Drop(n)
    \/ Pop

LinksSpec == LinksInit /\ [][LinksStep]_linkVars

(* Whatever the sequence of calls on several queues that exchange their    *)
(* elements, removals of elements that have left or have moved on          *)
(* included, walking a queue forwards meets its sequence and backwards its *)
(* reverse, an element in no queue is linked to itself, the first element  *)
(* of a key is found, and a singly linked list is its sequence.            *)
LinksMatch ==
    /\ \A h \in Heads :
         /\ queue_for_each(m, h) = order[h]
         /\ queue_reverse_for_each(m, h) = Reverse(order[h])
         /\ queue_is_empty(m, h) = (order[h] = <<>>)
         /\ \A n \in Elems :
              LET f == queue_find_element(m, h, Rank[n])
              IN  IF f = Nil THEN n \notin Range(order[h])
                  ELSE /\ f \in Range(order[h]) /\ Rank[f] = Rank[n]
                       /\ \A i \in 1..(Place(h, f) - 1) : Rank[order[h][i]] # Rank[n]
    /\ \A n \in Elems : list_not_linked(m, n) = (n \notin Queued)
    /\ slist_for_each(m) = stack
=============================================================================
