---------------------------- MODULE SequenceList ----------------------------
(***************************************************************************)
(* What an intrusive list promises its users, without links: each list is  *)
(* a sequence of elements, no element is in two places, and an operation   *)
(* inserts, removes, moves or reverses.  src/a3/fs/list.c implements it.   *)
(***************************************************************************)
EXTENDS Naturals, Sequences, FiniteSets

CONSTANTS Elem,   \* the elements
          Lists   \* the lists

VARIABLE lists    \* the sequence of elements of each list

Used == UNION {{lists[l][k] : k \in 1 .. Len(lists[l])} : l \in Lists}

Init == lists = [l \in Lists |-> << >>]

\* s with the elements of t between its first k elements and the others.
InsertedAfter(s, k, t) == SubSeq(s, 1, k) \o t \o SubSeq(s, k + 1, Len(s))

\* s without its elements i .. j.
Without(s, i, j) == SubSeq(s, 1, i - 1) \o SubSeq(s, j + 1, Len(s))

Insert(l, k, e) == /\ e \notin Used
                   /\ lists' = [lists EXCEPT ![l] = InsertedAfter(@, k, <<e>>)]

Remove(l, k) == lists' = [lists EXCEPT ![l] = Without(@, k, k)]

\* Elements i .. j of list l go behind the first k elements that m has without them.
Move(l, i, j, m, k) ==
    LET left == [lists EXCEPT ![l] = Without(@, i, j)]
    IN  lists' = [left EXCEPT ![m] = InsertedAfter(@, k, SubSeq(lists[l], i, j))]

Reverse(l) == lists' = [lists EXCEPT ![l] = [k \in 1 .. Len(@) |-> @[Len(@) + 1 - k]]]

\* The elements of s at the places K, in their order.
Chosen(s, K) ==
    [i \in 1 .. Cardinality(K) |-> s[CHOOSE k \in K : Cardinality({j \in K : j <= k}) = i]]

\* The elements of l at K leave it, all the others keep their order; those that
\* left may have been appended to another list in the order they had.
Drop(l) ==
    \E K \in SUBSET (1 .. Len(lists[l])) :
        LET left == [lists EXCEPT ![l] = Chosen(@, (1 .. Len(@)) \ K)]
        IN  \/ lists' = left
            \/ \E m \in Lists \ {l} : lists' = [left EXCEPT ![m] = @ \o Chosen(lists[l], K)]

Next == \E l \in Lists :
           \/ \E k \in 0 .. Len(lists[l]), e \in Elem : Insert(l, k, e)
           \/ \E k \in 1 .. Len(lists[l]) : Remove(l, k)
           \/ \E i, j \in 1 .. Len(lists[l]), m \in Lists :
                 /\ i <= j
                 /\ \E k \in 0 .. Len(lists[m]) - (IF m = l THEN j + 1 - i ELSE 0) : Move(l, i, j, m, k)
           \/ Reverse(l)
           \/ Drop(l)

Spec == Init /\ [][Next]_lists
=============================================================================
