---------------------------- MODULE IntrusiveList ----------------------------
(***************************************************************************)
(* The doubly linked lists of src/a3/fs/list.c, link by link.  The file    *)
(* system keeps its open inodes and its table of open files in them.  An   *)
(* element carries its own links; a list is a head and a tail.             *)
(*                                                                         *)
(* One action is one call, except that list_sort is taken apart into the   *)
(* rounds of its loops.  An element that leaves its list keeps stale links *)
(* until its owner frees it, which both users do at once; here its links   *)
(* become NULL.                                                            *)
(***************************************************************************)
EXTENDS Naturals, Sequences, FiniteSets

CONSTANTS Elem,  \* the elements
          key,   \* what the callers' less function compares
          NULL

Lists == {"list", "duplicates"}
head(l) == <<l, "head">>
tail(l) == <<l, "tail">>
Ends == {head(l) : l \in Lists} \cup {tail(l) : l \in Lists}
Node == Elem \cup Ends

ASSUME ElemAssumption == /\ IsFiniteSet(Elem) /\ Elem \cap Ends = {} /\ NULL \notin Node
                         /\ key \in [Elem -> Nat]

VARIABLES links,    \* next and prev of every node
          lists,    \* what a walk through each list yields
          sort,     \* the local variables of list_sort
          before,   \* what the list was when list_sort was called
          runs      \* how many runs it had at the beginning of this pass

vars == <<links, lists, sort, before, runs>>

Idle == [pc |-> "idle", a0 |-> NULL, a1b0 |-> NULL, b1 |-> NULL, output_run_cnt |-> 0]

less(a, b) == key[a] < key[b]

\* The node k steps after n.
After(p, n, k) ==
    LET node[j \in 0 .. k] ==
            IF j = 0 THEN n
            ELSE LET m == node[j - 1] IN IF m = NULL THEN NULL ELSE p.next[m]
    IN  node[k]

\* How often a walk goes on until Stop holds, at most as often as there are nodes.
FirstStep(Stop(_)) ==
    CHOOSE j \in 1 .. Cardinality(Node) :
        (Stop(j) \/ j = Cardinality(Node)) /\ \A i \in 1 .. j - 1 : ~Stop(i)

\* The elements from list_begin to list_end.
Contents(p, l) ==
    LET AtTail(j) == After(p, head(l), j) = tail(l)
    IN  [k \in 1 .. FirstStep(AtTail) - 1 |-> After(p, head(l), k)]

Members(s) == {s[k] : k \in 1 .. Len(s)}
Linked == UNION {Members(lists[l]) : l \in Lists}

list_empty(p, l) == p.next[head(l)] = tail(l)

-----------------------------------------------------------------------------
\* The operations on links.

\* An empty list.
llist_init == [next |-> [n \in Node |-> IF \E l \in Lists : n = head(l) THEN tail(n[1]) ELSE NULL],
               prev |-> [n \in Node |-> IF \E l \in Lists : n = tail(l) THEN head(n[1]) ELSE NULL]]

Insert(p, b, e) ==
    [next |-> [p.next EXCEPT ![e] = b, ![p.prev[b]] = e],
     prev |-> [p.prev EXCEPT ![e] = p.prev[b], ![b] = e]]

\* Mutant: the link back is forgotten.
MutOneWay(p, e) == [p EXCEPT !.next[p.prev[e]] = p.next[e]]

Unlink(p, e) == [next |-> [p.next EXCEPT ![p.prev[e]] = p.next[e]],
                 prev |-> [p.prev EXCEPT ![p.next[e]] = p.prev[e]]]

\* The owner of the elements X frees them.
Freed(p, X) == [next |-> [n \in Node |-> IF n \in X THEN NULL ELSE p.next[n]],
                prev |-> [n \in Node |-> IF n \in X THEN NULL ELSE p.prev[n]]]

\* Mutant: the place is looked up before the range is taken out.
MutSpliceEarly(p, b, first, last) ==
    LET l == p.prev[last]
        q == [next |-> [p.next EXCEPT ![p.prev[first]] = p.next[l]],
              prev |-> [p.prev EXCEPT ![p.next[l]] = p.prev[first]]]
    IN  IF first = last THEN p
        ELSE [next |-> [q.next EXCEPT ![l] = b, ![p.prev[b]] = first],
              prev |-> [q.prev EXCEPT ![first] = p.prev[b], ![b] = l]]

\* Elements first up to last, exclusive, go before b.
Splice(p, b, first, last) ==
    LET l == p.prev[last]
        q == [next |-> [p.next EXCEPT ![p.prev[first]] = p.next[l]],
              prev |-> [p.prev EXCEPT ![p.next[l]] = p.prev[first]]]
    IN  IF first = last THEN p
        ELSE [next |-> [q.next EXCEPT ![l] = b, ![q.prev[b]] = first],
              prev |-> [q.prev EXCEPT ![first] = q.prev[b], ![b] = l]]

\* All elements swap their links, then the two ends are repaired.
Reversed(p, l) ==
    LET X == Members(Contents(p, l))
        first == p.next[head(l)]
        last == p.prev[tail(l)]
    IN  IF list_empty(p, l) THEN p
        ELSE [next |-> [n \in Node |-> CASE n = first -> tail(l)
                                         [] n \in X \ {first} -> p.prev[n]
                                         [] n = head(l) -> last
                                         [] OTHER -> p.next[n]],
              prev |-> [n \in Node |-> CASE n = last -> head(l)
                                         [] n \in X \ {last} -> p.next[n]
                                         [] n = tail(l) -> first
                                         [] OTHER -> p.prev[n]]]

\* Mutant: stops at an equal element and so goes before it.
MutBeforeEqual(p, l, e) ==
    LET Stops(j) == LET n == After(p, head(l), j) IN n = tail(l) \/ ~less(n, e)
    IN  After(p, head(l), FirstStep(Stops))

\* Where list_insert_ordered stops.
OrderedPlace(p, l, e) ==
    LET Stops(j) == LET n == After(p, head(l), j) IN n = tail(l) \/ less(e, n)
    IN  After(p, head(l), FirstStep(Stops))

\* A round of list_unique's loop; with keep a duplicate is appended to the other
\* list.
UniqueRound(r, keep) ==
    LET n == r.links.next[r.elem]
        u == Unlink(r.links, n)
    IN  IF n = tail("list") THEN r
        ELSE IF less(r.elem, n) \/ less(n, r.elem) THEN [r EXCEPT !.elem = n]
        ELSE [r EXCEPT !.links = IF keep THEN Insert(u, tail("duplicates"), n)
                                 ELSE Freed(u, {n})]

Unique(p, keep) ==
    LET round[k \in 0 .. Cardinality(Elem)] ==
            IF k = 0 THEN [links |-> p, elem |-> p.next[head("list")]]
            ELSE UniqueRound(round[k - 1], keep)
    IN  IF list_empty(p, "list") THEN p ELSE round[Cardinality(Elem)].links

\* Mutant: the loop that looks for the end of the run is missing.
MutSingle(p, a, b) == p.next[a]

\* The end of the run of nondecreasing elements that begins at a.
find_end_of_run(p, a, b) ==
    LET Stops(j) == LET n == After(p, a, j) IN n = b \/ less(n, p.prev[n])
    IN  After(p, a, FirstStep(Stops))

\* list_max and list_min: the best so far is replaced by one that beats it.
Best(p, l, Beats(_, _)) ==
    LET s == Contents(p, l)
        best[k \in 1 .. Len(s)] == IF k = 1 THEN s[1]
                                   ELSE LET m == best[k - 1] IN IF Beats(s[k], m) THEN s[k] ELSE m
    IN  IF s = << >> THEN tail(l) ELSE best[Len(s)]

list_max(p, l) == LET Larger(e, m) == less(m, e) IN Best(p, l, Larger)
list_min(p, l) == LET Smaller(e, m) == less(e, m) IN Best(p, l, Smaller)

-----------------------------------------------------------------------------
Init == links = llist_init /\ lists = [l \in Lists |-> << >>] /\ sort = Idle /\ before = << >> /\ runs = 0

\* The links become p, and a walk yields what is linked there.
Relinked(new) == \E p \in {new} : links' = p /\ lists' = [l \in Lists |-> Contents(p, l)]

Becomes(p) == sort.pc = "idle" /\ Relinked(p) /\ UNCHANGED <<sort, before, runs>>

\* b is an element of a list or a tail.  Covers list_push_front and list_push_back.
list_insert(b, e) == e \notin Linked /\ Becomes(Insert(links, b, e))

list_remove(e) == e \in Linked /\ Becomes(Freed(Unlink(links, e), {e}))

\* One round of free_file_table: the popped element is removed a second time.
free_file_table(l) ==
    LET e == links.next[head(l)]
    IN  ~list_empty(links, l) /\ Becomes(Freed(Unlink(Unlink(links, e), e), {e}))

list_pop_back(l) ==
    LET e == links.prev[tail(l)]
    IN  ~list_empty(links, l) /\ Becomes(Freed(Unlink(links, e), {e}))

\* Elements i .. j of l go before b, which is not one of them.
list_splice(l, i, j, b) ==
    LET s == lists[l]
    IN  /\ b \notin {s[k] : k \in i .. j}
        /\ Becomes(Splice(links, b, s[i], links.next[s[j]]))

list_reverse(l) == Becomes(Reversed(links, l))

Sorted(s) == \A k \in 2 .. Len(s) : ~less(s[k], s[k - 1])

list_insert_ordered(l, e) ==
    /\ e \notin Linked
    /\ Sorted(lists[l])
    /\ Becomes(Insert(links, OrderedPlace(links, l, e), e))

list_unique(keep) == Becomes(Unique(links, keep))

-----------------------------------------------------------------------------
\* list_sort, of the list "list".

Runs(s) == Cardinality({k \in 1 .. Len(s) : k = 1 \/ less(s[k], s[k - 1])})

\* Mutant: the count of runs goes on.
MutKeepCount == /\ sort' = [sort EXCEPT !.pc = "runs", !.a0 = links.next[head("list")]]
                /\ runs' = Runs(lists["list"])

StartPass == /\ sort' = [Idle EXCEPT !.pc = "runs", !.a0 = links.next[head("list")]]
             /\ runs' = Runs(lists["list"])

list_sort == /\ sort.pc = "idle"
             /\ StartPass
             /\ before' = lists["list"]
             /\ UNCHANGED <<links, lists>>

\* The end of a pass that put out n runs.
EndPass(n) == IF n > 1 THEN StartPass /\ UNCHANGED before
              ELSE sort' = Idle /\ before' = << >> /\ runs' = 0

\* The head of the loop over pairs of runs.
FindRuns ==
    LET end == tail("list")
        cnt == sort.output_run_cnt + 1
        a1b0 == find_end_of_run(links, sort.a0, end)
    IN  /\ sort.pc = "runs"
        /\ UNCHANGED <<links, lists>>
        /\ \/ sort.a0 = end /\ EndPass(sort.output_run_cnt)
           \/ sort.a0 # end /\ a1b0 = end /\ EndPass(cnt)
           \/ /\ sort.a0 # end /\ a1b0 # end
              /\ sort' = [pc |-> "merge", a0 |-> sort.a0, a1b0 |-> a1b0,
                          b1 |-> find_end_of_run(links, a1b0, end), output_run_cnt |-> cnt]
              /\ UNCHANGED <<before, runs>>

\* Mutant: an equal element of the second run goes first.
MutUnstable(b, a) == ~less(a, b)

\* Whether the first element of the second run goes before that of the first.
GoesFirst(b, a) == less(b, a)

\* A round of inplace_merge.
MergeStep ==
    LET a1 == links.next[sort.a1b0]
    IN  /\ sort.pc = "merge"
        /\ UNCHANGED <<before, runs>>
        /\ \/ /\ sort.a0 # sort.a1b0 /\ sort.a1b0 # sort.b1
              /\ \/ /\ ~GoesFirst(sort.a1b0, sort.a0)
                    /\ sort' = [sort EXCEPT !.a0 = links.next[@]]
                    /\ UNCHANGED <<links, lists>>
                 \/ /\ GoesFirst(sort.a1b0, sort.a0)
                    /\ sort' = [sort EXCEPT !.a1b0 = a1]
                    /\ Relinked(Splice(links, sort.a0, links.prev[a1], a1))
           \/ /\ sort.a0 = sort.a1b0 \/ sort.a1b0 = sort.b1
              /\ sort' = [sort EXCEPT !.pc = "runs", !.a0 = sort.b1]
              /\ UNCHANGED <<links, lists>>

SortStep == FindRuns \/ MergeStep

Next == \/ \E b \in Linked \cup {tail(l) : l \in Lists}, e \in Elem : list_insert(b, e)
        \/ \E e \in Elem : list_remove(e)
        \/ \E l \in Lists : \/ free_file_table(l)
                            \/ list_pop_back(l)
                            \/ list_reverse(l)
                            \/ \E e \in Elem : list_insert_ordered(l, e)
        \/ \E l \in Lists, b \in Linked \cup {tail(m) : m \in Lists} :
              \E i \in 1 .. Len(lists[l]) : \E j \in i .. Len(lists[l]) :
                 list_splice(l, i, j, b)
        \/ \E keep \in BOOLEAN : list_unique(keep)
        \/ list_sort
        \/ SortStep

Spec == Init /\ [][Next]_vars /\ WF_vars(SortStep)
-----------------------------------------------------------------------------
\* The type of the state.
TypeOK == /\ links.next \in [Node -> (Node \ {head(l) : l \in Lists}) \cup {NULL}]
          /\ links.prev \in [Node -> (Node \ {tail(l) : l \in Lists}) \cup {NULL}]
          /\ sort.pc \in {"idle", "runs", "merge"}
          /\ {sort.a0, sort.a1b0, sort.b1} \subseteq Node \cup {NULL}
          /\ sort.output_run_cnt \in 0 .. Cardinality(Elem)
          /\ runs \in 0 .. Cardinality(Elem)

\* After every call and in the middle of list_sort, both lists are chains from
\* head to tail whose backward links mirror the forward ones, no element is in
\* both, and the outer links of the ends are NULL, which is_head, is_tail and
\* is_interior go by.
WellLinked ==
    /\ TypeOK
    /\ \A l \in Lists : /\ \E j \in 1 .. Cardinality(Node) : After(links, head(l), j) = tail(l)
                        /\ links.prev[head(l)] = NULL /\ links.next[tail(l)] = NULL
    /\ \A n \in Node : links.next[n] # NULL => links.prev[links.next[n]] = n
    /\ \A n \in Node : links.prev[n] # NULL => links.next[links.prev[n]] = n

\* list_sort ends with the elements it was given, sorted, and equal ones in the
\* order they had.
SortsStably ==
    [][sort.pc # "idle" /\ sort'.pc = "idle" =>
         LET s == lists'["list"]
             Old(e) == CHOOSE k \in 1 .. Len(before) : before[k] = e
         IN  /\ Members(s) = Members(before) /\ Len(s) = Len(before)
             /\ \A k \in 2 .. Len(s) : \/ less(s[k - 1], s[k])
                                       \/ key[s[k - 1]] = key[s[k]] /\ Old(s[k - 1]) < Old(s[k])]_vars

\* "runs in O(n lg n) time": a pass leaves at most half as many runs as it found,
\* and there is no further pass over a list that was sorted.
PassHalves == [][sort.pc # "idle" /\ sort'.pc = "runs" /\ sort'.output_run_cnt = 0 =>
                    runs > 1 /\ 2 * runs' <= runs + 1]_vars

\* list_sort returns.
SortReturns == sort.pc # "idle" ~> sort.pc = "idle"

\* list_max and list_min return the first of the extreme elements s of l, or the tail.
FirstExtremes(p, l, s) ==
    LET FirstOf(r, Worse(_, _)) ==
            \E k \in 1 .. Len(s) : /\ s[k] = r
                                   /\ \A j \in 1 .. k - 1 : Worse(s[j], r)
                                   /\ \A j \in 1 .. Len(s) : ~Worse(r, s[j])
        Above(x, y) == less(y, x)
    IN  IF s = << >> THEN list_max(p, l) = tail(l) /\ list_min(p, l) = tail(l)
        ELSE \E max \in {list_max(p, l)}, min \in {list_min(p, l)} :
                FirstOf(max, less) /\ FirstOf(min, Above)

\* The operations that compare elements, in whatever state the calls before left
\* the links: list_insert_ordered keeps a list sorted and puts an element behind
\* its equals, and list_max and list_min find the first of the extreme ones.
ComparesRight ==
    [][/\ sort.pc = "idle" => \A l \in Lists : FirstExtremes(links, l, lists[l])
       /\ \A l \in Lists, e \in Elem : list_insert_ordered(l, e) =>
             LET s == lists'[l]
             IN  Sorted(s) /\ \A i, j \in 1 .. Len(s) : i < j /\ s[i] = e => less(e, s[j])]_vars

\* The links implement lists of elements that operations only insert into, take
\* from, move within or reverse; the second removal in free_file_table and every
\* round of list_sort included.
Abstract == INSTANCE SequenceList
ImplementsLists == Abstract!Spec
=============================================================================
