------------------------- MODULE IntrusiveListProofs -------------------------
(***************************************************************************)
(* Proofs about IntrusiveList, for every finite set of elements: the links *)
(* are proper after every call, they implement the lists of SequenceList,  *)
(* list_sort sorts stably in passes that halve the runs, and the calls     *)
(* that compare elements find the right place or element.                  *)
(***************************************************************************)
EXTENDS IntrusiveList, NatLemmas, SequenceTheorems

-----------------------------------------------------------------------------
\* Chains of nodes.

\* The k-th node of the list l that holds s: its head, its elements, its tail.
At(l, s, k) == IF k = 0 THEN head(l) ELSE IF k = Len(s) + 1 THEN tail(l) ELSE s[k]

\* The elements of the lists S.
Of(S) == {e \in Elem : \E l \in Lists : \E k \in 1 .. Len(S[l]) : S[l][k] = e}

IsLists(S) == /\ S \in [Lists -> Seq(Elem)]
              /\ \A l, m \in Lists : \A i \in 1 .. Len(S[l]) : \A j \in 1 .. Len(S[m]) :
                    S[l][i] = S[m][j] => l = m /\ i = j

IsLinks(p) == /\ p.next \in [Node -> Node \cup {NULL}]
              /\ p.prev \in [Node -> Node \cup {NULL}]

Chain(p, l, s) == \A k \in 0 .. Len(s) : /\ p.next[At(l, s, k)] = At(l, s, k + 1)
                                         /\ p.prev[At(l, s, k + 1)] = At(l, s, k)

\* The links p are those of the lists S.  Of the elements that are in no list only
\* those in X have links.
Chains(p, S, X) ==
    /\ IsLists(S) /\ IsLinks(p)
    /\ \A l \in Lists : /\ Chain(p, l, S[l])
                        /\ p.prev[head(l)] = NULL /\ p.next[tail(l)] = NULL
    /\ \A e \in Elem : e \in Of(S) \/ e \in X \/ (p.next[e] = NULL /\ p.prev[e] = NULL)

LEMMA EndFacts ==
    /\ \A l \in Lists : /\ head(l) \in Node /\ tail(l) \in Node
                        /\ head(l) \notin Elem /\ tail(l) \notin Elem
    /\ \A l, m \in Lists : head(l) # tail(m)
    /\ \A l, m \in Lists : head(l) = head(m) => l = m
    /\ \A l, m \in Lists : tail(l) = tail(m) => l = m
    /\ \A n \in Node : n # NULL /\ (n \in Elem \/ \E l \in Lists : n = head(l) \/ n = tail(l))
    /\ Elem \subseteq Node
  BY ElemAssumption DEF Node, Ends, head, tail, Lists

LEMMA AtFacts ==
    ASSUME NEW S, IsLists(S), NEW l \in Lists
    PROVE  /\ S[l] \in Seq(Elem) /\ Len(S[l]) \in Nat
           /\ At(l, S[l], 0) = head(l) /\ At(l, S[l], Len(S[l]) + 1) = tail(l)
           /\ \A k \in 1 .. Len(S[l]) : At(l, S[l], k) = S[l][k] /\ S[l][k] \in Elem
           /\ \A k \in 0 .. Len(S[l]) + 1 : At(l, S[l], k) \in Node /\ At(l, S[l], k) # NULL
  <1>1. S[l] \in Seq(Elem)
    BY DEF IsLists
  <1>2. Len(S[l]) \in Nat
    BY <1>1
  <1>3. \A k \in 1 .. Len(S[l]) : S[l][k] \in Elem
    BY <1>1
  <1>4. At(l, S[l], 0) = head(l) /\ At(l, S[l], Len(S[l]) + 1) = tail(l)
    BY <1>2 DEF At
  <1>5. \A k \in 1 .. Len(S[l]) : At(l, S[l], k) = S[l][k]
    BY <1>2 DEF At
  <1>6. ASSUME NEW k \in 0 .. Len(S[l]) + 1
        PROVE  At(l, S[l], k) \in Node
    <2>1. k = 0 \/ k = Len(S[l]) + 1 \/ k \in 1 .. Len(S[l])
      BY <1>2
    <2> QED
      BY <2>1, <1>3, <1>4, <1>5, EndFacts
  <1> QED
    BY <1>1, <1>2, <1>3, <1>4, <1>5, <1>6, EndFacts

LEMMA SameElem ==
    ASSUME NEW S, IsLists(S), NEW l \in Lists, NEW m \in Lists,
           NEW i \in 1 .. Len(S[l]), NEW j \in 1 .. Len(S[m]), S[l][i] = S[m][j]
    PROVE  l = m /\ i = j
  BY DEF IsLists

LEMMA AtKinds ==
    ASSUME NEW S, IsLists(S), NEW l \in Lists, NEW i \in 0 .. Len(S[l]) + 1
    PROVE  \/ i = 0 /\ At(l, S[l], i) = head(l)
           \/ i = Len(S[l]) + 1 /\ At(l, S[l], i) = tail(l)
           \/ i \in 1 .. Len(S[l]) /\ At(l, S[l], i) = S[l][i] /\ At(l, S[l], i) \in Elem
  <1>1. Len(S[l]) \in Nat
    BY AtFacts
  <1>2. i = 0 \/ i = Len(S[l]) + 1 \/ i \in 1 .. Len(S[l])
    BY <1>1
  <1>3. CASE i = 0
    BY <1>3, AtFacts
  <1>4. CASE i = Len(S[l]) + 1
    BY <1>4, AtFacts
  <1>5. CASE i \in 1 .. Len(S[l])
    <2>1. At(l, S[l], i) = S[l][i] /\ S[l][i] \in Elem
      BY <1>5, AtFacts
    <2> QED
      BY <1>5, <2>1
  <1> QED
    BY <1>2, <1>3, <1>4, <1>5

LEMMA AtDistinct ==
    ASSUME NEW S, IsLists(S), NEW l \in Lists, NEW m \in Lists,
           NEW i \in 0 .. Len(S[l]) + 1, NEW j \in 0 .. Len(S[m]) + 1,
           At(l, S[l], i) = At(m, S[m], j)
    PROVE  l = m /\ i = j
  <1> DEFINE x == At(l, S[l], i)
             y == At(m, S[m], j)
  <1>1. \/ i = 0 /\ x = head(l)
        \/ i = Len(S[l]) + 1 /\ x = tail(l)
        \/ i \in 1 .. Len(S[l]) /\ x = S[l][i] /\ x \in Elem
    BY AtKinds
  <1>2. \/ j = 0 /\ y = head(m)
        \/ j = Len(S[m]) + 1 /\ y = tail(m)
        \/ j \in 1 .. Len(S[m]) /\ y = S[m][j] /\ y \in Elem
    BY AtKinds
  <1>3. x = y
    OBVIOUS
  <1> HIDE DEF x, y
  <1>4. /\ head(l) \notin Elem /\ tail(l) \notin Elem /\ head(m) \notin Elem /\ tail(m) \notin Elem
        /\ head(l) # tail(m) /\ head(m) # tail(l)
        /\ head(l) = head(m) => l = m
        /\ tail(l) = tail(m) => l = m
    BY EndFacts
  <1>5. CASE i = 0 /\ x = head(l)
    <2>1. j = 0 /\ y = head(m)
      BY <1>2, <1>3, <1>4, <1>5, Zenon
    <2> QED
      BY <2>1, <1>3, <1>4, <1>5
  <1>6. CASE i = Len(S[l]) + 1 /\ x = tail(l)
    <2>1. j = Len(S[m]) + 1 /\ y = tail(m)
      BY <1>2, <1>3, <1>4, <1>6, Zenon
    <2> QED
      BY <2>1, <1>3, <1>4, <1>6
  <1>7. CASE i \in 1 .. Len(S[l]) /\ x = S[l][i] /\ x \in Elem
    <2>1. j \in 1 .. Len(S[m]) /\ y = S[m][j]
      BY <1>2, <1>3, <1>4, <1>7, Zenon
    <2>2. S[l][i] = S[m][j]
      BY <2>1, <1>3, <1>7, Zenon
    <2> QED
      BY <2>1, <2>2, <1>7, Zenon DEF IsLists
  <1> QED
    BY <1>1, <1>5, <1>6, <1>7, Zenon

\* The neighbours of a node.
LEMMA Neighbours ==
    ASSUME NEW p, NEW S, NEW X, Chains(p, S, X), NEW l \in Lists
    PROVE  /\ IsLists(S) /\ IsLinks(p)
           /\ \A k \in 0 .. Len(S[l]) : p.next[At(l, S[l], k)] = At(l, S[l], k + 1)
           /\ \A k \in 1 .. Len(S[l]) + 1 : p.prev[At(l, S[l], k)] = At(l, S[l], k - 1)
           /\ p.prev[head(l)] = NULL /\ p.next[tail(l)] = NULL
  <1>1. IsLists(S) /\ IsLinks(p) /\ Chain(p, l, S[l]) /\ p.prev[head(l)] = NULL /\ p.next[tail(l)] = NULL
    BY DEF Chains
  <1>2. Len(S[l]) \in Nat
    BY <1>1, AtFacts
  <1>3. \A k \in 0 .. Len(S[l]) : /\ p.next[At(l, S[l], k)] = At(l, S[l], k + 1)
                                  /\ p.prev[At(l, S[l], k + 1)] = At(l, S[l], k)
    BY <1>1 DEF Chain
  <1>4. ASSUME NEW k \in 1 .. Len(S[l]) + 1 PROVE p.prev[At(l, S[l], k)] = At(l, S[l], k - 1)
    <2> DEFINE h == k - 1
    <2>1. h \in 0 .. Len(S[l]) /\ k = h + 1
      BY <1>2
    <2> HIDE DEF h
    <2>2. p.prev[At(l, S[l], h + 1)] = At(l, S[l], h)
      BY <2>1, <1>3
    <2> QED
      BY <2>1, <2>2 DEF h
  <1> QED
    BY <1>1, <1>3, <1>4

-----------------------------------------------------------------------------
\* Walks.

\* A function that follows the links says where After gets.
LEMMA Walk ==
    ASSUME NEW p, NEW n, NEW k \in Nat, NEW w, w = [j \in 0 .. k |-> w[j]], w[0] = n,
           \A j \in 1 .. k : w[j - 1] # NULL /\ w[j] = p.next[w[j - 1]]
    PROVE  After(p, n, k) = w[k]
  <1> DEFINE next(m) == IF m = NULL THEN NULL ELSE p.next[m]
             body(f) == [j \in 0 .. k |-> IF j = 0 THEN n ELSE next(f[j - 1])]
             g == CHOOSE f : f = body(f)
  <1>1. After(p, n, k) = g[k]
    BY DEF After
  <1>2. w = body(w)
    <2>1. ASSUME NEW j \in 0 .. k PROVE w[j] = IF j = 0 THEN n ELSE next(w[j - 1])
      <3>1. CASE j = 0
        BY <3>1
      <3>2. CASE j # 0
        <4>1. j \in 1 .. k
          BY <3>2
        <4> QED
          BY <4>1, <3>2
      <3> QED
        BY <3>1, <3>2
    <2>2. [j \in 0 .. k |-> w[j]] = [j \in 0 .. k |-> IF j = 0 THEN n ELSE next(w[j - 1])]
      <3> HIDE DEF next
      <3> QED
        BY <2>1, Zenon
    <2> QED
      BY <2>2, Zenon
  <1>3. g = body(g)
    <2> HIDE DEF body
    <2> QED
      BY <1>2, Zenon
  <1>4. \A j \in 0 .. k : g[j] = IF j = 0 THEN n ELSE next(g[j - 1])
    <2> HIDE DEF g, next
    <2>1. g = [j \in 0 .. k |-> IF j = 0 THEN n ELSE next(g[j - 1])]
      BY <1>3, Zenon
    <2>2. \A j \in 0 .. k : [i \in 0 .. k |-> IF i = 0 THEN n ELSE next(g[i - 1])][j] =
             IF j = 0 THEN n ELSE next(g[j - 1])
      BY Zenon
    <2> QED
      BY <2>1, <2>2, Zenon
  <1> HIDE DEF g, body
  <1> DEFINE B == {j \in 0 .. k : g[j] # w[j]}
  <1>5. B = {}
    <2> SUFFICES ASSUME B # {} PROVE FALSE
      OBVIOUS
    <2>0. B \in SUBSET Nat
      OBVIOUS
    <2>1. PICK j \in B : \A i \in B : j <= i
      <3> HIDE DEF B
      <3> QED
        BY <2>0, LeastNat
    <2>2. j \in 0 .. k /\ g[j] # w[j] /\ j # 0
      BY <1>4, <2>1
    <2>3. j - 1 \in 0 .. k /\ j - 1 \notin B /\ j \in 1 .. k
      BY <2>1, <2>2
    <2>4. g[j - 1] = w[j - 1]
      BY <2>3
    <2>5. g[j] = next(w[j - 1])
      BY <2>2, <2>4, <1>4
    <2>6. w[j - 1] # NULL /\ w[j] = p.next[w[j - 1]]
      BY <2>3
    <2> QED
      BY <2>2, <2>5, <2>6
  <1>6. k \in 0 .. k
    OBVIOUS
  <1> QED
    BY <1>1, <1>5, <1>6

\* Walking from a place in a list.
LEMMA WalkChain ==
    ASSUME NEW p, NEW S, NEW X, Chains(p, S, X), NEW l \in Lists,
           NEW a \in Nat, NEW k \in Nat, a + k <= Len(S[l]) + 1
    PROVE  After(p, At(l, S[l], a), k) = At(l, S[l], a + k)
  <1> DEFINE w == [j \in 0 .. k |-> At(l, S[l], a + j)]
  <1>1. IsLists(S) /\ Len(S[l]) \in Nat
    BY AtFacts DEF Chains
  <1>2. w = [j \in 0 .. k |-> w[j]] /\ w[0] = At(l, S[l], a) /\ w[k] = At(l, S[l], a + k)
    <2>1. 0 \in 0 .. k /\ k \in 0 .. k /\ a + 0 = a
      OBVIOUS
    <2>2. w[0] = At(l, S[l], a + 0) /\ w[k] = At(l, S[l], a + k)
      BY <2>1
    <2>3. w = [j \in 0 .. k |-> w[j]]
      BY Zenon
    <2> QED
      BY <2>1, <2>2, <2>3
  <1>3. ASSUME NEW j \in 1 .. k PROVE w[j - 1] # NULL /\ w[j] = p.next[w[j - 1]]
    <2> DEFINE h == a + (j - 1)
    <2>1. h \in 0 .. Len(S[l]) /\ a + j = h + 1 /\ j - 1 \in 0 .. k /\ j \in 0 .. k
          /\ h \in 0 .. Len(S[l]) + 1
      BY <1>1
    <2>2. w[j - 1] = At(l, S[l], h) /\ w[j] = At(l, S[l], a + j)
      BY <2>1
    <2> HIDE DEF h, w
    <2>3. p.next[At(l, S[l], h)] = At(l, S[l], h + 1)
      BY <2>1, Neighbours
    <2>4. At(l, S[l], h) # NULL
      BY <1>1, <2>1, AtFacts
    <2> QED
      BY <2>1, <2>2, <2>3, <2>4
  <1> HIDE DEF w
  <1>4. After(p, At(l, S[l], a), k) = w[k]
    BY <1>2, <1>3, Walk
  <1> QED
    BY <1>2, <1>4

LEMMA NodeCount ==
    /\ IsFiniteSet(Elem) /\ Cardinality(Elem) \in Nat
    /\ IsFiniteSet(Node) /\ Cardinality(Node) = Cardinality(Elem) + 4
  <1> DEFINE E == Elem
  <1>1. IsFiniteSet(Elem) /\ Cardinality(Elem) \in Nat
    BY ElemAssumption, FS_CardinalityType
  <1>2. /\ Ends = {head("list"), head("duplicates"), tail("list"), tail("duplicates")}
        /\ Cardinality(Ends) = 4 /\ IsFiniteSet(Ends)
    <2> DEFINE A == {head("list")}
               B == A \cup {head("duplicates")}
               C == B \cup {tail("list")}
               D == C \cup {tail("duplicates")}
    <2>1. "list" \in Lists /\ "duplicates" \in Lists /\ "list" # "duplicates"
      BY DEF Lists
    <2>2. Ends = D
      BY Zenon DEF Ends, Lists
    <2>3. IsFiniteSet(A) /\ Cardinality(A) = 1
      BY FS_Singleton
    <2>4. head("duplicates") \notin A
      BY <2>1, EndFacts
    <2>5. tail("list") \notin B
      BY <2>1, EndFacts
    <2>6. tail("duplicates") \notin C
      BY <2>1, EndFacts
    <2>7. D = {head("list"), head("duplicates"), tail("list"), tail("duplicates")}
      OBVIOUS
    <2> HIDE DEF A
    <2>8. IsFiniteSet(B) /\ Cardinality(B) = 2
      BY <2>3, <2>4, FS_AddElement
    <2> HIDE DEF B
    <2>9. IsFiniteSet(C) /\ Cardinality(C) = 3
      BY <2>5, <2>8, FS_AddElement
    <2> HIDE DEF C
    <2>10. IsFiniteSet(D) /\ Cardinality(D) = 4
      BY <2>6, <2>9, FS_AddElement
    <2> HIDE DEF D
    <2> QED
      BY <2>2, <2>7, <2>10
  <1>3. Elem \cap Ends = {}
    BY ElemAssumption
  <1>4. Cardinality(Elem \cap Ends) = 0
    BY <1>3, FS_EmptySet
  <1>5. /\ IsFiniteSet(Elem \cup Ends)
        /\ Cardinality(Elem \cup Ends) = Cardinality(Elem) + Cardinality(Ends) - Cardinality(Elem \cap Ends)
    BY <1>1, <1>2, FS_Union, Zenon
  <1> QED
    BY <1>1, <1>2, <1>4, <1>5 DEF Node

\* A list has no more elements than there are.
LEMMA ShortLists ==
    ASSUME NEW S, IsLists(S), NEW l \in Lists
    PROVE  Len(S[l]) \in Nat /\ Len(S[l]) <= Cardinality(Elem)
  <1> DEFINE n == Len(S[l])
             f == [k \in 1 .. n |-> S[l][k]]
  <1>1. n \in Nat /\ \A k \in 1 .. n : S[l][k] \in Elem
    BY AtFacts
  <1>2. \A i, j \in 1 .. n : S[l][i] = S[l][j] => i = j
    BY DEF IsLists
  <1> HIDE DEF n
  <1>3. f \in Injection(1 .. n, Elem)
    BY <1>1, <1>2 DEF Injection, IsInjective
  <1> HIDE DEF f
  <1>4. Cardinality(1 .. n) <= Cardinality(Elem)
    BY <1>3, NodeCount, FS_Injection
  <1>5. Cardinality(1 .. n) = n
    BY <1>1, FS_Interval
  <1> QED
    BY <1>1, <1>4, <1>5 DEF n
\* Walking from the head.
LEMMA WalkList ==
    ASSUME NEW p, NEW S, NEW X, Chains(p, S, X), NEW l \in Lists, NEW k \in 0 .. Len(S[l]) + 1
    PROVE  After(p, head(l), k) = At(l, S[l], k)
  <1>1. IsLists(S)
    BY DEF Chains
  <1>2. Len(S[l]) \in Nat /\ At(l, S[l], 0) = head(l)
    BY <1>1, AtFacts
  <1>3. k \in Nat /\ 0 \in Nat /\ 0 + k = k /\ 0 + k <= Len(S[l]) + 1
    BY <1>2
  <1>4. After(p, At(l, S[l], 0), k) = At(l, S[l], 0 + k)
    BY <1>3, WalkChain
  <1> QED
    BY <1>2, <1>3, <1>4

LEMMA ContentsOf ==
    ASSUME NEW p, NEW S, NEW X, Chains(p, S, X), NEW l \in Lists
    PROVE  Contents(p, l) = S[l]
  <1> DEFINE n == Len(S[l])
             c == Cardinality(Node)
             AtTail(j) == After(p, head(l), j) = tail(l)
             Q(j) == (AtTail(j) \/ j = c) /\ \A i \in 1 .. j - 1 : ~AtTail(i)
             f == CHOOSE j \in 1 .. c : Q(j)
  <1>1. IsLists(S)
    BY DEF Chains
  <1>2. /\ S[l] \in Seq(Elem) /\ n \in Nat
        /\ \A k \in 1 .. n : At(l, S[l], k) = S[l][k]
        /\ At(l, S[l], n + 1) = tail(l)
    BY <1>1, AtFacts
  <1>3. c \in Nat /\ n + 1 \in 1 .. c
    BY <1>1, <1>2, ShortLists, NodeCount
  <1>4. \A k \in 0 .. n + 1 : After(p, head(l), k) = At(l, S[l], k)
    BY WalkList
  <1>5. AtTail(n + 1)
    BY <1>2, <1>4
  <1>6. \A k \in 1 .. n : ~AtTail(k)
    <2> SUFFICES ASSUME NEW k \in 1 .. n, AtTail(k) PROVE FALSE
      OBVIOUS
    <2>1. k \in 0 .. n + 1 /\ n + 1 \in 0 .. n + 1 /\ k # n + 1
      BY <1>2
    <2>2. At(l, S[l], k) = At(l, S[l], n + 1)
      BY <2>1, <1>2, <1>4
    <2> HIDE DEF AtTail
    <2>3. k = n + 1
      BY <2>1, <2>2, <1>1, AtDistinct
    <2> QED
      BY <2>1, <2>3
  <1>7. Contents(p, l) = [k \in 1 .. f - 1 |-> After(p, head(l), k)]
    BY DEF Contents, FirstStep
  <1> HIDE DEF AtTail, n, c
  <1>8. Q(n + 1)
    BY <1>2, <1>5, <1>6
  <1>9. ASSUME NEW j \in 1 .. c, Q(j) PROVE j = n + 1
    <2>1. ~(j < n + 1)
      BY <1>9, <1>2, <1>3, <1>6
    <2>2. ~(n + 1 < j)
      BY <1>9, <1>2, <1>3, <1>5
    <2> QED
      BY <2>1, <2>2, <1>2, <1>3
  <1>10. f = n + 1
    <2> HIDE DEF Q
    <2> QED
      BY <1>3, <1>8, <1>9
  <1> HIDE DEF f
  <1>11. f - 1 = n
    BY <1>2, <1>10
  <1>12. \A k \in 1 .. n : After(p, head(l), k) = S[l][k]
    BY <1>2, <1>4
  <1>13. [k \in 1 .. n |-> After(p, head(l), k)] = [k \in 1 .. n |-> S[l][k]]
    BY <1>12, Zenon
  <1>14. [k \in 1 .. n |-> S[l][k]] = S[l]
    BY <1>2 DEF n
  <1> QED
    BY <1>7, <1>11, <1>13, <1>14, Zenon
-----------------------------------------------------------------------------
\* Taking a part out of a list.

Cut(s, i, j) == [k \in 1 .. Len(s) - (j + 1 - i) |-> IF k < i THEN s[k] ELSE s[k + (j + 1 - i)]]

LEMMA CutSeq ==
    ASSUME NEW s \in Seq(Elem), NEW i \in 1 .. Len(s), NEW j \in i .. Len(s)
    PROVE  /\ Cut(s, i, j) \in Seq(Elem)
           /\ Len(Cut(s, i, j)) = Len(s) - (j + 1 - i) /\ Len(s) - (j + 1 - i) \in Nat
           /\ \A k \in 1 .. Len(s) - (j + 1 - i) :
                 Cut(s, i, j)[k] = IF k < i THEN s[k] ELSE s[k + (j + 1 - i)]
  <1> DEFINE n == Len(s) - (j + 1 - i)
             v(k) == IF k < i THEN s[k] ELSE s[k + (j + 1 - i)]
  <1>1. Len(s) \in Nat /\ n \in Nat
    OBVIOUS
  <1>2. ASSUME NEW k \in 1 .. n PROVE v(k) \in Elem
    <2>1. CASE k < i
      BY <2>1
    <2>2. CASE ~(k < i)
      <3>1. k + (j + 1 - i) \in 1 .. Len(s)
        BY <1>1
      <3> QED
        BY <2>2, <3>1
    <2> QED
      BY <2>1, <2>2
  <1>3. Cut(s, i, j) = [k \in 1 .. n |-> v(k)]
    BY DEF Cut
  <1> HIDE DEF n, v
  <1>4. /\ Cut(s, i, j) \in Seq(Elem) /\ Len(Cut(s, i, j)) = n
        /\ \A k \in 1 .. n : Cut(s, i, j)[k] = v(k)
    BY <1>1, <1>2, <1>3
  <1> QED
    BY <1>1, <1>4 DEF n, v

LEMMA AtCut ==
    ASSUME NEW l, NEW s \in Seq(Elem), NEW i \in 1 .. Len(s), NEW j \in i .. Len(s),
           NEW k \in 0 .. Len(s) - (j + 1 - i) + 1
    PROVE  At(l, Cut(s, i, j), k) = IF k < i THEN At(l, s, k) ELSE At(l, s, k + (j + 1 - i))
  <1> DEFINE c == Cut(s, i, j)
             d == j + 1 - i
  <1>0. k \in 0 .. Len(s) - d + 1
    OBVIOUS
  <1>1. /\ Len(c) = Len(s) - d /\ Len(s) - d \in Nat /\ Len(s) \in Nat
        /\ \A h \in 1 .. Len(s) - d : c[h] = IF h < i THEN s[h] ELSE s[h + d]
    <2>1. Len(s) \in Nat
      OBVIOUS
    <2> QED
      BY <2>1, CutSeq, Zenon
  <1>2. d \in Nat /\ d >= 1 /\ i <= Len(s) - d + 1
    OBVIOUS
  <1> HIDE DEF c, d
  <1>3. CASE k = 0
    BY <1>1, <1>2, <1>3 DEF At, c, d
  <1>4. CASE k = Len(s) - d + 1
    <2>1. ~(k < i) /\ k + d = Len(s) + 1 /\ k # 0 /\ k = Len(c) + 1 /\ k + d # 0
      BY <1>1, <1>2, <1>4
    <2>2. At(l, c, k) = tail(l) /\ At(l, s, k + d) = tail(l)
      BY <2>1 DEF At
    <2> QED
      BY <2>1, <2>2 DEF c, d
  <1>5. CASE k \in 1 .. Len(s) - d
    <2>1. k # 0 /\ k # Len(c) + 1
      BY <1>1, <1>2, <1>5
    <2>2. At(l, c, k) = c[k]
      BY <2>1 DEF At
    <2>3. c[k] = IF k < i THEN s[k] ELSE s[k + d]
      BY <1>1, <1>5
    <2>4. k # Len(s) + 1 /\ k + d # 0 /\ k + d # Len(s) + 1
      BY <1>1, <1>2, <1>5
    <2>5. At(l, s, k) = s[k] /\ At(l, s, k + d) = s[k + d]
      BY <2>1, <2>4 DEF At
    <2> QED
      BY <2>2, <2>3, <2>5 DEF c, d
  <1>6. k = 0 \/ k = Len(s) - d + 1 \/ k \in 1 .. Len(s) - d
    BY <1>0, <1>1, <1>2
  <1> QED
    BY <1>3, <1>4, <1>5, <1>6

CutLinks(p, e, f) == [next |-> [p.next EXCEPT ![p.prev[e]] = p.next[f]],
                      prev |-> [p.prev EXCEPT ![p.next[f]] = p.prev[e]]]

CutLists(S, l, i, j) == [S EXCEPT ![l] = Cut(S[l], i, j)]

LEMMA CutListsFacts ==
    ASSUME NEW S, IsLists(S), NEW l \in Lists, NEW i \in 1 .. Len(S[l]), NEW j \in i .. Len(S[l])
    PROVE  LET S2 == CutLists(S, l, i, j)
           IN  /\ IsLists(S2) /\ S2[l] = Cut(S[l], i, j)
               /\ \A m \in Lists : m # l => S2[m] = S[m]
               /\ \A e \in Elem : e \in Of(S) <=> e \in Of(S2) \/ \E k \in i .. j : e = S[l][k]
               /\ \A k \in i .. j : S[l][k] \notin Of(S2)
  <1> DEFINE S2 == CutLists(S, l, i, j)
             d == j + 1 - i
             s == S[l]
             c == Cut(S[l], i, j)
             n == Len(s) - d
  <1>1. S \in [Lists -> Seq(Elem)] /\ s \in Seq(Elem) /\ Len(s) \in Nat
    BY AtFacts DEF IsLists
  <1>2. /\ c \in Seq(Elem) /\ Len(c) = n /\ n \in Nat
        /\ \A k \in 1 .. n : c[k] = IF k < i THEN s[k] ELSE s[k + d]
    BY <1>1, CutSeq
  <1>3. d \in Nat /\ d >= 1
    OBVIOUS
  <1>4. S2 \in [Lists -> Seq(Elem)] /\ S2[l] = c /\ \A m \in Lists : m # l => S2[m] = S[m]
    <2> HIDE DEF c
    <2> QED
      BY <1>1, <1>2 DEF c, CutLists
  <1> HIDE DEF S2
  <1>5. \A m, q \in Lists : \A a \in 1 .. Len(S[m]) : \A b \in 1 .. Len(S[q]) :
           S[m][a] = S[q][b] => m = q /\ a = b
    BY DEF IsLists
  <1> DEFINE old(k) == IF k < i THEN k ELSE k + d
  <1>6. ASSUME NEW k \in 1 .. n PROVE old(k) \in 1 .. Len(s) /\ old(k) \notin i .. j /\ c[k] = s[old(k)]
    BY <1>1, <1>2, <1>3
  <1>7. \A a, b \in 1 .. n : old(a) = old(b) => a = b
    BY <1>1, <1>2, <1>3
  <1>8. \A h \in 1 .. Len(s) : h \in i .. j \/ \E k \in 1 .. n : old(k) = h
    <2> SUFFICES ASSUME NEW h \in 1 .. Len(s), h \notin i .. j PROVE \E k \in 1 .. n : old(k) = h
      OBVIOUS
    <2>1. CASE h < i
      <3>1. h \in 1 .. n /\ old(h) = h
        BY <1>1, <1>2, <2>1
      <3> QED
        BY <3>1
    <2>2. CASE ~(h < i)
      <3>1. h - d \in 1 .. n /\ old(h - d) = h
        BY <1>1, <1>2, <2>2
      <3> QED
        BY <3>1
    <2> QED
      BY <2>1, <2>2
  <1>9. \A k \in i .. j : k \in 1 .. Len(s) /\ s[k] \in Elem
    BY <1>1
  <1> HIDE DEF old, d, n, c
  <1>10. \A m \in Lists : \A a \in 1 .. Len(S2[m]) :
            \E h \in 1 .. Len(S[m]) : S2[m][a] = S[m][h] /\ (m = l => h = old(a) /\ a \in 1 .. n)
                                                        /\ (m # l => h = a)
    <2> TAKE m \in Lists
    <2> TAKE a \in 1 .. Len(S2[m])
    <2>1. CASE m = l
      BY <1>2, <1>4, <1>6, <2>1
    <2>2. CASE m # l
      BY <1>4, <2>2
    <2> QED
      BY <2>1, <2>2
  <1>11. IsLists(S2)
    <2> SUFFICES ASSUME NEW m \in Lists, NEW q \in Lists, NEW a \in 1 .. Len(S2[m]),
                        NEW b \in 1 .. Len(S2[q]), S2[m][a] = S2[q][b]
                 PROVE  m = q /\ a = b
      BY <1>4, Zenon DEF IsLists
    <2>1. PICK h \in 1 .. Len(S[m]) : /\ S2[m][a] = S[m][h] /\ (m = l => h = old(a) /\ a \in 1 .. n)
                                      /\ (m # l => h = a)
      BY <1>10
    <2>2. PICK g \in 1 .. Len(S[q]) : /\ S2[q][b] = S[q][g] /\ (q = l => g = old(b) /\ b \in 1 .. n)
                                      /\ (q # l => g = b)
      BY <1>10
    <2>a. S[m][h] = S[q][g]
      BY <2>1, <2>2
    <2>3. m = q /\ h = g
      BY <2>a, SameElem
    <2> QED
      BY <2>1, <2>2, <2>3, <1>7
  <1>12. \A e \in Elem : e \in Of(S2) => e \in Of(S)
    BY <1>10 DEF Of
  <1>13. ASSUME NEW k \in i .. j PROVE s[k] \notin Of(S2) /\ s[k] \in Of(S) /\ s[k] \in Elem
    <2>1. ASSUME NEW m \in Lists, NEW a \in 1 .. Len(S2[m]), S2[m][a] = s[k] PROVE FALSE
      <3>1. PICK h \in 1 .. Len(S[m]) : /\ S2[m][a] = S[m][h] /\ (m = l => h = old(a) /\ a \in 1 .. n)
                                        /\ (m # l => h = a)
        BY <1>10
      <3>a. S[m][h] = S[l][k] /\ k \in 1 .. Len(S[l])
        BY <3>1, <2>1, <1>9
      <3>2. m = l /\ h = k
        BY <3>a, <1>5, Zenon
      <3>3. a \in 1 .. n /\ old(a) = k
        BY <3>1, <3>2
      <3> QED
        BY <3>3, <1>6
    <2> QED
      BY <2>1, <1>9 DEF Of
  <1>14. ASSUME NEW e \in Elem, e \in Of(S) PROVE e \in Of(S2) \/ \E k \in i .. j : e = s[k]
    <2>1. PICK m \in Lists : \E h \in 1 .. Len(S[m]) : S[m][h] = e
      BY <1>14 DEF Of
    <2>2. PICK h \in 1 .. Len(S[m]) : S[m][h] = e
      BY <2>1
    <2>3. CASE m # l
      <3>1. S2[m] = S[m]
        BY <1>4, <2>3
      <3> QED
        BY <3>1, <2>2 DEF Of
    <2>4. CASE m = l
      <3>1. CASE h \in i .. j
        BY <2>2, <2>4, <3>1
      <3>2. CASE h \notin i .. j
        <4>1. PICK k \in 1 .. n : old(k) = h
          BY <1>8, <2>4, <3>2
        <4>2. c[k] = e
          BY <4>1, <1>6, <2>2, <2>4
        <4> QED
          BY <4>2, <1>2, <1>4 DEF Of
      <3> QED
        BY <3>1, <3>2
    <2> QED
      BY <2>3, <2>4
  <1> QED
    BY <1>4, <1>11, <1>12, <1>13, <1>14 DEF c, S2
\* A node of a list is an element of it or an end.
LEMMA AtElem ==
    ASSUME NEW S, IsLists(S), NEW l \in Lists, NEW k \in 0 .. Len(S[l]) + 1,
           NEW e \in Elem, e = At(l, S[l], k)
    PROVE  e \in Of(S) /\ k \in 1 .. Len(S[l]) /\ e = S[l][k]
  <1>1. k \in 1 .. Len(S[l]) /\ At(l, S[l], k) = S[l][k]
    BY AtKinds, EndFacts
  <1> QED
    BY <1>1 DEF Of

LEMMA SkipStep ==
    ASSUME NEW n \in Nat, NEW i \in 1 .. n, NEW j \in i .. n, NEW k \in 0 .. n - (j + 1 - i),
           k # i - 1
    PROVE  LET old(h) == IF h < i THEN h ELSE h + (j + 1 - i)
           IN  /\ old(k + 1) = old(k) + 1 /\ old(k) \in 0 .. n /\ old(k) # i - 1
               /\ old(k + 1) \in 1 .. n + 1 /\ old(k + 1) # j + 1 /\ old(k + 1) - 1 = old(k)
  <1>1. CASE k < i - 1
    BY <1>1
  <1>2. CASE k >= i
    BY <1>2
  <1> QED
    BY <1>1, <1>2

\* The elements i .. j of s.
Between(s, i, j) == {s[k] : k \in i .. j}

\* What is taken out stays linked as it was.
CutKeeps(p, q, s, i, j) ==
    /\ \A k \in i .. j - 1 : q.next[s[k]] = s[k + 1] /\ q.prev[s[k + 1]] = s[k]
    /\ q.prev[s[i]] = p.prev[s[i]] /\ q.next[s[j]] = p.next[s[j]]

LEMMA CutOut ==
    ASSUME NEW p, NEW S, NEW X, Chains(p, S, X), NEW l \in Lists,
           NEW i \in 1 .. Len(S[l]), NEW j \in i .. Len(S[l])
    PROVE  LET q == CutLinks(p, S[l][i], S[l][j])
           IN  /\ Chains(q, CutLists(S, l, i, j), X \cup Between(S[l], i, j))
               /\ CutKeeps(p, q, S[l], i, j)
  <1> DEFINE q == CutLinks(p, S[l][i], S[l][j])
             S2 == CutLists(S, l, i, j)
             s == S[l]
             n == Len(S[l])
             d == j + 1 - i
             N(m, k) == At(m, S[m], k)
             a == N(l, i - 1)
             b == N(l, j + 1)
  <1>1. IsLists(S) /\ IsLinks(p) /\ s \in Seq(Elem) /\ n \in Nat
    BY AtFacts DEF Chains
  <1>2. \A m \in Lists : /\ Len(S[m]) \in Nat
                         /\ \A k \in 0 .. Len(S[m]) : p.next[N(m, k)] = N(m, k + 1)
                         /\ \A k \in 1 .. Len(S[m]) + 1 : p.prev[N(m, k)] = N(m, k - 1)
                         /\ p.prev[head(m)] = NULL /\ p.next[tail(m)] = NULL
                         /\ \A k \in 0 .. Len(S[m]) + 1 : N(m, k) \in Node
                         /\ N(m, 0) = head(m) /\ N(m, Len(S[m]) + 1) = tail(m)
                         /\ \A k \in 1 .. Len(S[m]) : N(m, k) = S[m][k] /\ S[m][k] \in Elem
    BY <1>1, Neighbours, AtFacts
  <1>3. \A m1, m2 \in Lists : \A x \in 0 .. Len(S[m1]) + 1 : \A y \in 0 .. Len(S[m2]) + 1 :
           N(m1, x) = N(m2, y) => m1 = m2 /\ x = y
    BY <1>1, AtDistinct
  <1>4. i \in 1 .. n /\ j \in 1 .. n /\ i <= j /\ i - 1 \in 0 .. n /\ j + 1 \in 1 .. n + 1
        /\ i - 1 \in 0 .. n + 1 /\ j + 1 \in 0 .. n + 1 /\ i \in 1 .. n + 1 /\ j \in 0 .. n
        /\ i \in Nat /\ j \in Nat
    BY <1>1
  <1>5. s[i] = N(l, i) /\ s[j] = N(l, j)
    BY <1>2, <1>4
  <1> HIDE DEF N
  <1>6. p.prev[s[i]] = a /\ p.next[s[j]] = b /\ a \in Node /\ b \in Node
    <2>0. /\ \A k \in 0 .. n : p.next[N(l, k)] = N(l, k + 1)
          /\ \A k \in 1 .. n + 1 : p.prev[N(l, k)] = N(l, k - 1)
      BY <1>2
    <2>1. p.prev[N(l, i)] = N(l, i - 1)
      BY <2>0, <1>4
    <2>2. p.next[N(l, j)] = N(l, j + 1)
      BY <2>0, <1>4
    <2> QED
      BY <2>1, <2>2, <1>2, <1>4, <1>5
  <1>7. q.next = [p.next EXCEPT ![a] = b] /\ q.prev = [p.prev EXCEPT ![b] = a]
    BY <1>6 DEF CutLinks
  <1> HIDE DEF q
  <1>8. p.next \in [Node -> Node \cup {NULL}] /\ p.prev \in [Node -> Node \cup {NULL}]
    BY <1>1 DEF IsLinks
  <1>9. /\ IsLists(S2) /\ S2[l] = Cut(s, i, j)
        /\ \A m \in Lists : m # l => S2[m] = S[m]
        /\ \A e \in Elem : e \in Of(S) <=> e \in Of(S2) \/ \E k \in i .. j : e = s[k]
    BY <1>1, CutListsFacts
  <1> HIDE DEF S2
  <1>10. q.next[a] = b /\ \A y \in Node : y # a => q.next[y] = p.next[y]
    BY <1>6, <1>7, <1>8
  <1>11. q.prev[b] = a /\ \A y \in Node : y # b => q.prev[y] = p.prev[y]
    BY <1>6, <1>7, <1>8
  <1>12. IsLinks(q)
    BY <1>6, <1>7, <1>8 DEF IsLinks
  <1>13. \A m \in Lists : \A k \in 0 .. Len(S[m]) + 1 : /\ N(m, k) = a => m = l /\ k = i - 1
                                                        /\ N(m, k) = b => m = l /\ k = j + 1
    BY <1>3, <1>4
  <1> HIDE DEF a, b
  <1>14. \A m \in Lists : q.prev[head(m)] = NULL /\ q.next[tail(m)] = NULL
    <2> TAKE m \in Lists
    <2>1. 0 \in 0 .. Len(S[m]) + 1 /\ Len(S[m]) + 1 \in 0 .. Len(S[m]) + 1
      BY <1>2
    <2>2. N(m, 0) # b
      BY <2>1, <1>13, <1>4
    <2>3. N(m, Len(S[m]) + 1) # a
      BY <2>1, <1>13, <1>4, <1>1
    <2>4. head(m) \in Node /\ tail(m) \in Node /\ head(m) # b /\ tail(m) # a
      BY <2>1, <2>2, <2>3, <1>2
    <2> QED
      BY <2>4, <1>2, <1>10, <1>11
  <1>15. ASSUME NEW m \in Lists, NEW k \in 0 .. Len(S[m]), m = l => k # i - 1
         PROVE  q.next[N(m, k)] = N(m, k + 1)
    <2>1. k \in 0 .. Len(S[m]) + 1
      BY <1>2
    <2>2. N(m, k) # a /\ N(m, k) \in Node
      BY <2>1, <1>2, <1>13, <1>15
    <2> QED
      BY <2>2, <1>2, <1>10
  <1>16. ASSUME NEW m \in Lists, NEW k \in 1 .. Len(S[m]) + 1, m = l => k # j + 1
         PROVE  q.prev[N(m, k)] = N(m, k - 1)
    <2>1. k \in 0 .. Len(S[m]) + 1
      BY <1>2
    <2>2. N(m, k) # b /\ N(m, k) \in Node
      BY <2>1, <1>2, <1>13, <1>16
    <2> QED
      BY <2>2, <1>2, <1>11
  <1>17. ASSUME NEW m \in Lists, m # l PROVE Chain(q, m, S2[m])
    <2>1. S2[m] = S[m] /\ Len(S[m]) \in Nat
      BY <1>9, <1>17, <1>2
    <2>2. ASSUME NEW k \in 0 .. Len(S[m])
          PROVE  q.next[N(m, k)] = N(m, k + 1) /\ q.prev[N(m, k + 1)] = N(m, k)
      <3>1. k + 1 \in 1 .. Len(S[m]) + 1 /\ k + 1 - 1 = k
        BY <2>1
      <3>2. q.prev[N(m, k + 1)] = N(m, k + 1 - 1)
        BY <3>1, <1>16, <1>17
      <3> QED
        BY <3>1, <3>2, <1>15, <1>17
    <2> QED
      BY <2>1, <2>2 DEF Chain, N
  <1>18. Chain(q, l, S2[l])
    <2> DEFINE c == Cut(s, i, j)
               old(k) == IF k < i THEN k ELSE k + d
    <2>1. Len(c) = n - d /\ n - d \in Nat /\ d \in Nat /\ d >= 1
      <3>1. Len(c) = Len(s) - (j + 1 - i) /\ Len(s) - (j + 1 - i) \in Nat
        BY <1>1, CutSeq, Zenon
      <3> QED
        BY <3>1, <1>1, <1>4
    <2>2. \A k \in 0 .. n - d + 1 : At(l, c, k) = N(l, old(k))
      BY <1>1, AtCut DEF N
    <2> HIDE DEF c
    <2>3. ASSUME NEW k \in 0 .. n - d
          PROVE  q.next[At(l, c, k)] = At(l, c, k + 1) /\ q.prev[At(l, c, k + 1)] = At(l, c, k)
      <3>0. n \in Nat /\ i \in 1 .. n /\ j \in i .. n /\ k \in 0 .. n - d
        BY <1>1
      <3>1. k \in 0 .. n - d + 1 /\ k + 1 \in 0 .. n - d + 1
        BY <2>1
      <3>2. At(l, c, k) = N(l, old(k)) /\ At(l, c, k + 1) = N(l, old(k + 1))
        BY <3>1, <2>2
      <3>3. CASE k = i - 1
        <4>1. old(k) = i - 1 /\ old(k + 1) = j + 1
          BY <3>3, <1>4, <3>0
        <4> QED
          BY <4>1, <3>2, <1>10, <1>11 DEF a, b
      <3>4. CASE k # i - 1
        <4>1. /\ old(k + 1) = old(k) + 1 /\ old(k) \in 0 .. n /\ old(k) # i - 1
              /\ old(k + 1) \in 1 .. n + 1 /\ old(k + 1) # j + 1 /\ old(k + 1) - 1 = old(k)
          BY <3>4, <3>0, SkipStep
        <4> HIDE DEF old
        <4>2. q.next[N(l, old(k))] = N(l, old(k) + 1)
          BY <4>1, <1>15
        <4>3. q.prev[N(l, old(k + 1))] = N(l, old(k + 1) - 1)
          BY <4>1, <1>16
        <4> QED
          BY <4>1, <4>2, <4>3, <3>2
      <3> QED
        BY <3>3, <3>4
    <2> QED
      BY <2>1, <2>3, <1>9 DEF Chain, c
  <1>19. \A e \in Elem : \/ e \in Of(S2) \/ e \in X \cup Between(S[l], i, j)
                         \/ (q.next[e] = NULL /\ q.prev[e] = NULL)
    <2> SUFFICES ASSUME NEW e \in Elem, e \notin Of(S2), e \notin X, e \notin Between(s, i, j)
                 PROVE  q.next[e] = NULL /\ q.prev[e] = NULL
      OBVIOUS
    <2>1. e \notin Of(S) /\ e \in Node
      BY <1>9, EndFacts DEF Between
    <2>2. p.next[e] = NULL /\ p.prev[e] = NULL
      BY <2>1 DEF Chains
    <2>3. e # a /\ e # b
      BY <2>1, <1>1, <1>4, AtElem DEF a, b, N
    <2> QED
      BY <2>1, <2>2, <2>3, <1>10, <1>11
  <1>20. Chains(q, S2, X \cup Between(S[l], i, j))
    BY <1>9, <1>12, <1>14, <1>17, <1>18, <1>19 DEF Chains
  <1>21. ASSUME NEW k \in i .. j - 1 PROVE q.next[s[k]] = s[k + 1] /\ q.prev[s[k + 1]] = s[k]
    <2>1. /\ k \in 1 .. n /\ k + 1 \in 1 .. n /\ k \in 0 .. n /\ k # i - 1 /\ k + 1 # j + 1
          /\ k + 1 \in 1 .. n + 1 /\ k + 1 - 1 = k
      BY <1>1, <1>4
    <2>2. s[k] = N(l, k) /\ s[k + 1] = N(l, k + 1)
      BY <2>1, <1>2
    <2>3. q.next[N(l, k)] = N(l, k + 1)
      BY <2>1, <1>15
    <2>4. q.prev[N(l, k + 1)] = N(l, k + 1 - 1)
      BY <2>1, <1>16
    <2> QED
      BY <2>1, <2>2, <2>3, <2>4
  <1>22. q.prev[s[i]] = p.prev[s[i]] /\ q.next[s[j]] = p.next[s[j]]
    <2>1. i \in 0 .. n + 1 /\ j \in 0 .. n + 1 /\ i # j + 1 /\ j # i - 1
      BY <1>1, <1>4
    <2>2. N(l, i) # b /\ N(l, j) # a /\ N(l, i) \in Node /\ N(l, j) \in Node
      BY <2>1, <1>2, <1>13
    <2> QED
      BY <2>2, <1>5, <1>10, <1>11
  <1> QED
    BY <1>20, <1>21, <1>22 DEF S2, q, CutKeeps
-----------------------------------------------------------------------------
\* Putting elements into a list.

Paste(s, k, t) == [h \in 1 .. Len(s) + Len(t) |-> IF h <= k THEN s[h]
                                                  ELSE IF h <= k + Len(t) THEN t[h - k]
                                                  ELSE s[h - Len(t)]]

PasteLists(S, m, k, t) == [S EXCEPT ![m] = Paste(S[m], k, t)]

LEMMA PasteSeq ==
    ASSUME NEW s \in Seq(Elem), NEW t \in Seq(Elem), NEW k \in 0 .. Len(s)
    PROVE  /\ Paste(s, k, t) \in Seq(Elem) /\ Len(Paste(s, k, t)) = Len(s) + Len(t)
           /\ \A h \in 1 .. Len(s) + Len(t) :
                 Paste(s, k, t)[h] = IF h <= k THEN s[h]
                                     ELSE IF h <= k + Len(t) THEN t[h - k] ELSE s[h - Len(t)]
  <1> DEFINE n == Len(s) + Len(t)
             v(h) == IF h <= k THEN s[h] ELSE IF h <= k + Len(t) THEN t[h - k] ELSE s[h - Len(t)]
  <1>1. Len(s) \in Nat /\ Len(t) \in Nat /\ n \in Nat
    OBVIOUS
  <1>2. ASSUME NEW h \in 1 .. n PROVE v(h) \in Elem
    <2>1. CASE h <= k
      <3>1. h \in 1 .. Len(s)
        BY <1>1, <2>1
      <3> QED
        BY <2>1, <3>1
    <2>2. CASE ~(h <= k) /\ h <= k + Len(t)
      <3>1. h - k \in 1 .. Len(t)
        BY <1>1, <2>2
      <3> QED
        BY <2>2, <3>1
    <2>3. CASE ~(h <= k) /\ ~(h <= k + Len(t))
      <3>1. h - Len(t) \in 1 .. Len(s)
        BY <1>1, <2>3
      <3> QED
        BY <2>3, <3>1
    <2> QED
      BY <2>1, <2>2, <2>3
  <1>3. Paste(s, k, t) = [h \in 1 .. n |-> v(h)]
    BY DEF Paste
  <1> HIDE DEF n, v
  <1>4. /\ Paste(s, k, t) \in Seq(Elem) /\ Len(Paste(s, k, t)) = n
        /\ \A h \in 1 .. n : Paste(s, k, t)[h] = v(h)
    BY <1>1, <1>2, <1>3
  <1> QED
    BY <1>4 DEF n, v

LEMMA AtPaste ==
    ASSUME NEW l, NEW s \in Seq(Elem), NEW t \in Seq(Elem), NEW k \in 0 .. Len(s),
           NEW h \in 0 .. Len(s) + Len(t) + 1
    PROVE  At(l, Paste(s, k, t), h) = IF h <= k THEN At(l, s, h)
                                      ELSE IF h <= k + Len(t) THEN t[h - k]
                                      ELSE At(l, s, h - Len(t))
  <1> DEFINE c == Paste(s, k, t)
  <1>1. /\ Len(c) = Len(s) + Len(t) /\ Len(s) \in Nat /\ Len(t) \in Nat
        /\ \A g \in 1 .. Len(s) + Len(t) :
              c[g] = IF g <= k THEN s[g] ELSE IF g <= k + Len(t) THEN t[g - k] ELSE s[g - Len(t)]
    <2>1. Len(s) \in Nat /\ Len(t) \in Nat /\ Len(c) = Len(s) + Len(t)
      BY PasteSeq
    <2>2. \A g \in 1 .. Len(s) + Len(t) :
              c[g] = IF g <= k THEN s[g] ELSE IF g <= k + Len(t) THEN t[g - k] ELSE s[g - Len(t)]
      BY PasteSeq, Zenon
    <2> QED
      BY <2>1, <2>2
  <1>0. h = 0 \/ h = Len(s) + Len(t) + 1 \/ h \in 1 .. Len(s) + Len(t)
    BY <1>1
  <1>2. k \in Nat /\ k <= Len(s)
    OBVIOUS
  <1> HIDE DEF c
  <1>3. CASE h = 0
    BY <1>1, <1>2, <1>3 DEF At, c
  <1>4. CASE h = Len(s) + Len(t) + 1
    <2>1. ~(h <= k) /\ ~(h <= k + Len(t)) /\ h - Len(t) = Len(s) + 1 /\ h # 0 /\ h = Len(c) + 1
          /\ h - Len(t) # 0
      BY <1>1, <1>2, <1>4
    <2>2. At(l, c, h) = tail(l) /\ At(l, s, h - Len(t)) = tail(l)
      BY <2>1 DEF At
    <2> QED
      BY <2>1, <2>2 DEF c
  <1>5. CASE h \in 1 .. Len(s) + Len(t)
    <2>1. h # 0 /\ h # Len(c) + 1
      BY <1>1, <1>2, <1>5
    <2>2. At(l, c, h) = c[h]
      BY <2>1 DEF At
    <2>3. c[h] = IF h <= k THEN s[h] ELSE IF h <= k + Len(t) THEN t[h - k] ELSE s[h - Len(t)]
      BY <1>1, <1>5
    <2>4. (h <= k => h # Len(s) + 1) /\ (~(h <= k + Len(t)) => h - Len(t) # 0 /\ h - Len(t) # Len(s) + 1)
      BY <1>1, <1>2, <1>5
    <2>5. (h <= k => At(l, s, h) = s[h]) /\ (~(h <= k + Len(t)) => At(l, s, h - Len(t)) = s[h - Len(t)])
      BY <2>1, <2>4 DEF At
    <2> QED
      BY <2>2, <2>3, <2>5 DEF c
  <1> QED
    BY <1>0, <1>3, <1>4, <1>5

\* t can be put into the lists S.
Fresh(S, t) == /\ t \in Seq(Elem) /\ Len(t) >= 1
               /\ \A i, j \in 1 .. Len(t) : t[i] = t[j] => i = j
               /\ \A i \in 1 .. Len(t) : t[i] \notin Of(S)

LEMMA PasteListsFacts ==
    ASSUME NEW S, IsLists(S), NEW m \in Lists, NEW k \in 0 .. Len(S[m]), NEW t, Fresh(S, t)
    PROVE  LET S2 == PasteLists(S, m, k, t)
           IN  /\ IsLists(S2) /\ S2[m] = Paste(S[m], k, t)
               /\ \A l \in Lists : l # m => S2[l] = S[l]
               /\ \A e \in Elem : e \in Of(S2) <=> e \in Of(S) \/ \E i \in 1 .. Len(t) : e = t[i]
  <1> DEFINE S2 == PasteLists(S, m, k, t)
             s == S[m]
             c == Paste(S[m], k, t)
             z == Len(t)
             n == Len(s) + Len(t)
  <1>1. S \in [Lists -> Seq(Elem)] /\ s \in Seq(Elem) /\ Len(s) \in Nat
    BY AtFacts DEF IsLists
  <1>2. t \in Seq(Elem) /\ z \in Nat /\ z >= 1 /\ k \in Nat /\ k <= Len(s)
    BY <1>1 DEF Fresh
  <1>3. /\ c \in Seq(Elem) /\ Len(c) = n /\ n \in Nat
        /\ \A h \in 1 .. n : c[h] = IF h <= k THEN s[h] ELSE IF h <= k + z THEN t[h - k] ELSE s[h - z]
    <2>1. c \in Seq(Elem) /\ Len(c) = n /\ n \in Nat
      BY <1>1, <1>2, PasteSeq
    <2>2. \A h \in 1 .. n : c[h] = IF h <= k THEN s[h] ELSE IF h <= k + z THEN t[h - k] ELSE s[h - z]
      BY <1>1, <1>2, PasteSeq, Zenon
    <2> QED
      BY <2>1, <2>2
  <1>4. S2 \in [Lists -> Seq(Elem)] /\ S2[m] = c /\ \A l \in Lists : l # m => S2[l] = S[l]
    <2> HIDE DEF c
    <2> QED
      BY <1>1, <1>3 DEF c, PasteLists
  <1>5. /\ \A i, j \in 1 .. z : t[i] = t[j] => i = j
        /\ \A i \in 1 .. z : t[i] \notin Of(S) /\ t[i] \in Elem
    BY <1>2 DEF Fresh
  <1> DEFINE new(h) == h > k /\ h <= k + z
             old(h) == IF h <= k THEN h ELSE h - z
  <1>6. \A h \in 1 .. n : IF new(h) THEN h - k \in 1 .. z /\ c[h] = t[h - k]
                          ELSE old(h) \in 1 .. Len(s) /\ c[h] = s[old(h)]
    <2> TAKE h \in 1 .. n
    <2>1. CASE h <= k
      <3>1. ~new(h) /\ old(h) = h /\ h \in 1 .. Len(s)
        BY <2>1, <1>1, <1>2
      <3> QED
        BY <3>1, <2>1, <1>3
    <2>2. CASE new(h)
      <3>1. ~(h <= k) /\ h - k \in 1 .. z
        BY <2>2, <1>2, <1>3
      <3> QED
        BY <3>1, <2>2, <1>3
    <2>3. CASE h > k + z
      <3>1. ~new(h) /\ ~(h <= k) /\ old(h) = h - z /\ h - z \in 1 .. Len(s)
        BY <2>3, <1>1, <1>2
      <3> QED
        BY <3>1, <2>3, <1>2, <1>3
    <2> QED
      BY <2>1, <2>2, <2>3, <1>2
  <1>7. \A a, b \in 1 .. n : /\ ~new(a) /\ ~new(b) /\ old(a) = old(b) => a = b
                             /\ a - k = b - k => a = b
    BY <1>1, <1>2, <1>3
  <1>8. \A h \in 1 .. Len(s) : \E a \in 1 .. n : ~new(a) /\ old(a) = h
    <2> TAKE h \in 1 .. Len(s)
    <2>1. CASE h <= k
      <3>1. h \in 1 .. n /\ ~new(h) /\ old(h) = h
        BY <1>1, <1>2, <2>1
      <3> QED
        BY <3>1
    <2>2. CASE ~(h <= k)
      <3>1. h + z \in 1 .. n /\ ~new(h + z) /\ old(h + z) = h
        BY <1>1, <1>2, <2>2
      <3> QED
        BY <3>1
    <2> QED
      BY <2>1, <2>2
  <1>9. \A i \in 1 .. z : i + k \in 1 .. n /\ new(i + k) /\ i + k - k = i
    BY <1>1, <1>2
  <1> HIDE DEF old, new, n, c, S2, z
  <1>10. ASSUME NEW l \in Lists, NEW a \in 1 .. Len(S2[l])
         PROVE  IF l = m /\ new(a) THEN a \in 1 .. n /\ a - k \in 1 .. z /\ S2[l][a] = t[a - k]
                ELSE \E h \in 1 .. Len(S[l]) : /\ S2[l][a] = S[l][h]
                                               /\ l = m => a \in 1 .. n /\ ~new(a) /\ h = old(a)
                                               /\ l # m => h = a
    <2>1. CASE l = m
      <3>1. a \in 1 .. n /\ S2[l] = c
        BY <2>1, <1>3, <1>4
      <3> QED
        BY <2>1, <3>1, <1>6
    <2>2. CASE l # m
      BY <1>4, <2>2
    <2> QED
      BY <2>1, <2>2
  <1>11. ASSUME NEW l \in Lists, NEW a \in 1 .. Len(S2[l]), ~(l = m /\ new(a))
         PROVE  S2[l][a] \in Of(S)
    <2>1. PICK h \in 1 .. Len(S[l]) : S2[l][a] = S[l][h]
      BY <1>10, <1>11
    <2>2. S[l][h] \in Elem
      BY AtFacts
    <2> QED
      BY <2>1, <2>2 DEF Of
  <1>12. IsLists(S2)
    <2> SUFFICES ASSUME NEW l \in Lists, NEW q \in Lists, NEW a \in 1 .. Len(S2[l]),
                        NEW b \in 1 .. Len(S2[q]), S2[l][a] = S2[q][b]
                 PROVE  l = q /\ a = b
      BY <1>4, Zenon DEF IsLists
    <2>1. CASE l = m /\ new(a)
      <3>1. a \in 1 .. n /\ a - k \in 1 .. z /\ S2[l][a] = t[a - k]
        BY <2>1, <1>10
      <3>2. q = m /\ new(b)
        <4>1. t[a - k] \notin Of(S)
          BY <3>1, <1>5
        <4>2. ~(q = m /\ new(b)) => S2[q][b] \in Of(S)
          BY <1>11
        <4> QED
          BY <4>1, <4>2, <3>1
      <3>3. b \in 1 .. n /\ b - k \in 1 .. z /\ S2[q][b] = t[b - k]
        BY <3>2, <1>10
      <3>4. a - k = b - k
        BY <3>1, <3>3, <1>5
      <3> QED
        BY <3>1, <3>2, <3>3, <3>4, <2>1, <1>7
    <2>2. CASE ~(l = m /\ new(a))
      <3>1. S2[l][a] \in Of(S)
        BY <2>2, <1>11
      <3>2. ~(q = m /\ new(b))
        <4>1. q = m /\ new(b) => b - k \in 1 .. z /\ S2[q][b] = t[b - k]
          BY <1>10
        <4> QED
          BY <4>1, <3>1, <1>5
      <3>3. PICK h \in 1 .. Len(S[l]) : /\ S2[l][a] = S[l][h]
                                        /\ l = m => a \in 1 .. n /\ ~new(a) /\ h = old(a)
                                        /\ l # m => h = a
        BY <2>2, <1>10
      <3>4. PICK g \in 1 .. Len(S[q]) : /\ S2[q][b] = S[q][g]
                                        /\ q = m => b \in 1 .. n /\ ~new(b) /\ g = old(b)
                                        /\ q # m => g = b
        BY <3>2, <1>10
      <3>5. S[l][h] = S[q][g]
        BY <3>3, <3>4
      <3>6. l = q /\ h = g
        BY <3>5, SameElem
      <3> QED
        BY <3>3, <3>4, <3>6, <1>7
    <2> QED
      BY <2>1, <2>2
  <1>13. ASSUME NEW e \in Elem, e \in Of(S2) PROVE e \in Of(S) \/ \E i \in 1 .. z : e = t[i]
    <2>1. PICK l \in Lists : \E a \in 1 .. Len(S2[l]) : S2[l][a] = e
      BY <1>13 DEF Of
    <2>2. PICK a \in 1 .. Len(S2[l]) : S2[l][a] = e
      BY <2>1
    <2>3. CASE l = m /\ new(a)
      BY <2>2, <2>3, <1>10
    <2>4. CASE ~(l = m /\ new(a))
      BY <2>2, <2>4, <1>11
    <2> QED
      BY <2>3, <2>4
  <1>14. ASSUME NEW e \in Elem, NEW i \in 1 .. z, e = t[i] PROVE e \in Of(S2)
    <2>1. i + k \in 1 .. n /\ c[i + k] = t[i]
      BY <1>6, <1>9
    <2>2. S2[m][i + k] = e /\ i + k \in 1 .. Len(S2[m])
      BY <2>1, <1>3, <1>4, <1>14
    <2> QED
      BY <2>2 DEF Of
  <1>15. ASSUME NEW e \in Elem, e \in Of(S) PROVE e \in Of(S2)
    <2>1. PICK l \in Lists : \E h \in 1 .. Len(S[l]) : S[l][h] = e
      BY <1>15 DEF Of
    <2>2. PICK h \in 1 .. Len(S[l]) : S[l][h] = e
      BY <2>1
    <2>3. CASE l # m
      <3>1. S2[l] = S[l]
        BY <2>3, <1>4
      <3> QED
        BY <2>2, <3>1 DEF Of
    <2>4. CASE l = m
      <3>1. PICK a \in 1 .. n : ~new(a) /\ old(a) = h
        BY <2>4, <1>8
      <3>2. S2[m][a] = e /\ a \in 1 .. Len(S2[m])
        BY <3>1, <2>2, <2>4, <1>3, <1>4, <1>6
      <3> QED
        BY <3>2 DEF Of
    <2> QED
      BY <2>3, <2>4
  <1> QED
    BY <1>4, <1>12, <1>13, <1>14, <1>15 DEF c, S2, z
PasteLinks(p, b, f, e) == [next |-> [p.next EXCEPT ![e] = b, ![p.prev[b]] = f],
                           prev |-> [p.prev EXCEPT ![f] = p.prev[b], ![b] = e]]

\* The elements of t are linked among themselves.
Segment(p, t) == \A i \in 1 .. Len(t) - 1 : p.next[t[i]] = t[i + 1] /\ p.prev[t[i + 1]] = t[i]

LEMMA PasteIn ==
    ASSUME NEW p, NEW S, NEW X, Chains(p, S, X), NEW m \in Lists, NEW k \in 0 .. Len(S[m]),
           NEW t, Fresh(S, t), Segment(p, t)
    PROVE  Chains(PasteLinks(p, At(m, S[m], k + 1), t[1], t[Len(t)]), PasteLists(S, m, k, t), X \ Members(t))
  <1> DEFINE q == PasteLinks(p, At(m, S[m], k + 1), t[1], t[Len(t)])
             S2 == PasteLists(S, m, k, t)
             s == S[m]
             n == Len(S[m])
             z == Len(t)
             N(l, h) == At(l, S[l], h)
             a == N(m, k)
             b == N(m, k + 1)
  <1>1. IsLists(S) /\ IsLinks(p) /\ s \in Seq(Elem) /\ n \in Nat
    BY AtFacts DEF Chains
  <1>2. \A l \in Lists : /\ Len(S[l]) \in Nat
                         /\ \A h \in 0 .. Len(S[l]) : p.next[N(l, h)] = N(l, h + 1)
                         /\ \A h \in 1 .. Len(S[l]) + 1 : p.prev[N(l, h)] = N(l, h - 1)
                         /\ p.prev[head(l)] = NULL /\ p.next[tail(l)] = NULL
                         /\ \A h \in 0 .. Len(S[l]) + 1 : N(l, h) \in Node
                         /\ N(l, 0) = head(l) /\ N(l, Len(S[l]) + 1) = tail(l)
    BY <1>1, Neighbours, AtFacts
  <1>3. \A l1, l2 \in Lists : \A x \in 0 .. Len(S[l1]) + 1 : \A y \in 0 .. Len(S[l2]) + 1 :
           N(l1, x) = N(l2, y) => l1 = l2 /\ x = y
    BY <1>1, AtDistinct
  <1>4. k \in Nat /\ k \in 0 .. n /\ k + 1 \in 1 .. n + 1 /\ k \in 0 .. n + 1 /\ k + 1 \in 0 .. n + 1
    BY <1>1
  <1>5. /\ t \in Seq(Elem) /\ z \in Nat /\ z >= 1
        /\ \A i, j \in 1 .. z : t[i] = t[j] => i = j
        /\ \A i \in 1 .. z : t[i] \notin Of(S) /\ t[i] \in Elem /\ t[i] \in Node
        /\ \A i \in 1 .. z - 1 : p.next[t[i]] = t[i + 1] /\ p.prev[t[i + 1]] = t[i]
    <2>1. t \in Seq(Elem) /\ z \in Nat /\ z >= 1
      BY DEF Fresh
    <2>2. \A i \in 1 .. z : t[i] \notin Of(S) /\ t[i] \in Elem
      BY <2>1 DEF Fresh
    <2> QED
      BY <2>1, <2>2, EndFacts DEF Fresh, Segment
  <1>6. \A l \in Lists : \A h \in 0 .. Len(S[l]) + 1 : \A i \in 1 .. z : N(l, h) # t[i]
    BY <1>1, <1>5, AtElem
  <1> HIDE DEF N
  <1>7. p.prev[b] = a /\ a \in Node /\ b \in Node
    <2>1. \A h \in 1 .. n + 1 : p.prev[N(m, h)] = N(m, h - 1)
      BY <1>2
    <2>2. p.prev[N(m, k + 1)] = N(m, k + 1 - 1) /\ k + 1 - 1 = k
      BY <2>1, <1>4
    <2> QED
      BY <2>2, <1>2, <1>4
  <1>8. 1 \in 1 .. z /\ z \in 1 .. z
    BY <1>5
  <1>9. p.next \in [Node -> Node \cup {NULL}] /\ p.prev \in [Node -> Node \cup {NULL}]
    BY <1>1 DEF IsLinks
  <1>10. a # t[z] /\ b # t[1]
    BY <1>4, <1>6, <1>8
  <1>11. /\ q.next = [p.next EXCEPT ![t[z]] = b, ![a] = t[1]]
         /\ q.prev = [p.prev EXCEPT ![t[1]] = a, ![b] = t[z]]
    BY <1>7 DEF PasteLinks, N
  <1> HIDE DEF q
  <1>12. \A l \in Lists : \A h \in 0 .. Len(S[l]) + 1 : /\ N(l, h) = a => l = m /\ h = k
                                                        /\ N(l, h) = b => l = m /\ h = k + 1
    BY <1>3, <1>4
  <1>13. \A i \in 1 .. z : t[i] # a /\ t[i] # b
    BY <1>4, <1>6
  <1>30. a \notin Elem \/ a \in Of(S)
    BY <1>1, <1>4, AtElem DEF N
  <1>31. b \notin Elem \/ b \in Of(S)
    BY <1>1, <1>4, AtElem DEF N
  <1> HIDE DEF a, b
  <1>14. /\ q.next[t[z]] = b /\ q.next[a] = t[1]
         /\ \A y \in Node : y # a /\ y # t[z] => q.next[y] = p.next[y]
    BY <1>5, <1>7, <1>8, <1>9, <1>10, <1>11
  <1>15. /\ q.prev[t[1]] = a /\ q.prev[b] = t[z]
         /\ \A y \in Node : y # b /\ y # t[1] => q.prev[y] = p.prev[y]
    BY <1>5, <1>7, <1>8, <1>9, <1>10, <1>11
  <1>16. IsLinks(q)
    <2>1. t[1] \in Node /\ t[z] \in Node
      BY <1>5, <1>8
    <2> HIDE DEF z
    <2>2. q.next \in [Node -> Node \cup {NULL}]
      BY <2>1, <1>7, <1>9, <1>11
    <2>3. q.prev \in [Node -> Node \cup {NULL}]
      BY <2>1, <1>7, <1>9, <1>11
    <2> QED
      BY <2>2, <2>3 DEF IsLinks
  <1>17. /\ IsLists(S2) /\ S2[m] = Paste(s, k, t)
         /\ \A l \in Lists : l # m => S2[l] = S[l]
         /\ \A e \in Elem : e \in Of(S2) <=> e \in Of(S) \/ \E i \in 1 .. z : e = t[i]
    BY <1>1, PasteListsFacts
  <1> HIDE DEF S2
  <1>18. \A l \in Lists : q.prev[head(l)] = NULL /\ q.next[tail(l)] = NULL
    <2> TAKE l \in Lists
    <2>1. 0 \in 0 .. Len(S[l]) + 1 /\ Len(S[l]) + 1 \in 0 .. Len(S[l]) + 1
      BY <1>2
    <2>a. N(l, 0) # b
      <3>1. 0 # k + 1
        BY <1>4
      <3> QED
        BY <2>1, <3>1, <1>12, Zenon
    <2>b. N(l, 0) # t[1]
      BY <2>1, <1>6, <1>8, Zenon
    <2>2. N(l, 0) # b /\ N(l, 0) # t[1]
      BY <2>a, <2>b
    <2>3. N(l, Len(S[l]) + 1) # a
      <3>1. l = m => Len(S[l]) + 1 # k
        BY <1>1, <1>4
      <3> QED
        BY <2>1, <3>1, <1>12, Zenon
    <2>6. N(l, Len(S[l]) + 1) # t[z]
      BY <2>1, <1>6, <1>8
    <2>4. head(l) \in Node /\ tail(l) \in Node /\ head(l) # b /\ tail(l) # a
      BY <2>2, <2>3, <1>2, EndFacts
    <2>5. head(l) # t[1] /\ tail(l) # t[z]
      BY <2>2, <2>6, <1>2
    <2> QED
      BY <2>4, <2>5, <1>2, <1>14, <1>15
  <1>19. ASSUME NEW l \in Lists, NEW h \in 0 .. Len(S[l]), l = m => h # k
         PROVE  q.next[N(l, h)] = N(l, h + 1)
    <2>1. h \in 0 .. Len(S[l]) + 1
      BY <1>2
    <2>a. N(l, h) # a
      BY <2>1, <1>12, <1>19, Zenon
    <2>b. N(l, h) # t[z]
      BY <2>1, <1>6, <1>8, Zenon
    <2>2. N(l, h) # a /\ N(l, h) \in Node /\ N(l, h) # t[z]
      BY <2>1, <2>a, <2>b, <1>2
    <2> QED
      BY <2>2, <1>2, <1>14
  <1>20. ASSUME NEW l \in Lists, NEW h \in 1 .. Len(S[l]) + 1, l = m => h # k + 1
         PROVE  q.prev[N(l, h)] = N(l, h - 1)
    <2>1. h \in 0 .. Len(S[l]) + 1
      BY <1>2
    <2>a. N(l, h) # b
      BY <2>1, <1>12, <1>20, Zenon
    <2>b. N(l, h) # t[1]
      BY <2>1, <1>6, <1>8, Zenon
    <2>2. N(l, h) # b /\ N(l, h) \in Node /\ N(l, h) # t[1]
      BY <2>1, <2>a, <2>b, <1>2
    <2> QED
      BY <2>2, <1>2, <1>15
  <1>21. ASSUME NEW l \in Lists, l # m PROVE Chain(q, l, S2[l])
    <2>1. S2[l] = S[l] /\ Len(S[l]) \in Nat
      BY <1>17, <1>21, <1>2
    <2>2. ASSUME NEW h \in 0 .. Len(S[l])
          PROVE  q.next[N(l, h)] = N(l, h + 1) /\ q.prev[N(l, h + 1)] = N(l, h)
      <3>1. h + 1 \in 1 .. Len(S[l]) + 1 /\ h + 1 - 1 = h
        BY <2>1
      <3>2. q.prev[N(l, h + 1)] = N(l, h + 1 - 1)
        BY <3>1, <1>20, <1>21
      <3> QED
        BY <3>1, <3>2, <1>19, <1>21
    <2> QED
      BY <2>1, <2>2 DEF Chain, N
  <1>22. \A i \in 1 .. z - 1 : q.next[t[i]] = t[i + 1] /\ q.prev[t[i + 1]] = t[i]
    <2> TAKE i \in 1 .. z - 1
    <2>1. i \in 1 .. z /\ i + 1 \in 1 .. z /\ i # z /\ i + 1 # 1
      BY <1>5
    <2>2. t[i] # t[z] /\ t[i + 1] # t[1]
      BY <2>1, <1>5, <1>8
    <2>3. t[i] # a /\ t[i + 1] # b /\ t[i] \in Node /\ t[i + 1] \in Node
      BY <2>1, <1>5, <1>13
    <2> QED
      BY <2>2, <2>3, <1>5, <1>14, <1>15
  <1>23. Chain(q, m, S2[m])
    <2> DEFINE c == Paste(s, k, t)
               C(h) == At(m, c, h)
    <2>1. Len(c) = n + z /\ n + z \in Nat
      <3>1. Len(c) = Len(s) + Len(t)
        BY <1>1, <1>5, PasteSeq, Zenon
      <3> QED
        BY <3>1, <1>1, <1>5
    <2>2. ASSUME NEW h \in 0 .. n + z + 1
          PROVE  /\ h <= k => C(h) = N(m, h)
                 /\ h > k /\ h <= k + z => C(h) = t[h - k]
                 /\ h > k + z => C(h) = N(m, h - z)
      <3>1. C(h) = IF h <= k THEN N(m, h) ELSE IF h <= k + z THEN t[h - k] ELSE N(m, h - z)
        BY <1>1, <1>5, AtPaste, Zenon DEF N
      <3> HIDE DEF C, z
      <3> QED
        BY <3>1, <1>4, <1>5
    <2> HIDE DEF C, z
    <2>3. ASSUME NEW h \in 0 .. n + z
          PROVE  q.next[C(h)] = C(h + 1) /\ q.prev[C(h + 1)] = C(h)
      <3>1. h \in 0 .. n + z + 1 /\ h + 1 \in 0 .. n + z + 1
        BY <2>1
      <3>2. CASE h < k
        <4>1. C(h) = N(m, h) /\ C(h + 1) = N(m, h + 1)
          BY <3>1, <3>2, <2>2, <1>4
        <4>2. h \in 0 .. n /\ h # k /\ h + 1 \in 1 .. n + 1 /\ h + 1 # k + 1 /\ h + 1 - 1 = h
          BY <3>2, <1>1, <1>4
        <4>3. q.next[N(m, h)] = N(m, h + 1)
          BY <4>2, <1>19
        <4>4. q.prev[N(m, h + 1)] = N(m, h + 1 - 1)
          BY <4>2, <1>20
        <4> QED
          BY <4>1, <4>2, <4>3, <4>4
      <3>3. CASE h = k
        <4>1. h <= k /\ h + 1 > k /\ h + 1 <= k + z /\ h + 1 - k = 1
          BY <3>3, <1>4, <1>5
        <4>2. C(h) = N(m, h)
          BY <4>1, <3>1, <2>2
        <4>3. C(h + 1) = t[h + 1 - k]
          BY <4>1, <3>1, <2>2
        <4> QED
          BY <4>1, <4>2, <4>3, <3>3, <1>14, <1>15 DEF a
      <3>4. CASE h > k /\ h < k + z
        <4>1. /\ h > k /\ h <= k + z /\ h + 1 > k /\ h + 1 <= k + z
              /\ h - k \in 1 .. z - 1 /\ h + 1 - k = h - k + 1
          BY <3>4, <1>4, <1>5
        <4>2. C(h) = t[h - k]
          BY <4>1, <3>1, <2>2
        <4>3. C(h + 1) = t[h + 1 - k]
          BY <4>1, <3>1, <2>2
        <4>4. q.next[t[h - k]] = t[h - k + 1] /\ q.prev[t[h - k + 1]] = t[h - k]
          BY <4>1, <1>22
        <4> QED
          BY <4>1, <4>2, <4>3, <4>4
      <3>5. CASE h = k + z
        <4>1. h > k /\ h <= k + z /\ h + 1 > k + z /\ h - k = z /\ h + 1 - z = k + 1
          BY <3>5, <1>4, <1>5
        <4>2. C(h) = t[h - k]
          BY <4>1, <3>1, <2>2
        <4>3. C(h + 1) = N(m, h + 1 - z)
          BY <4>1, <3>1, <2>2
        <4> QED
          BY <4>1, <4>2, <4>3, <1>14, <1>15 DEF b
      <3>6. CASE h > k + z
        <4>1. /\ h + 1 > k + z /\ h - z \in 0 .. n /\ h - z # k /\ h + 1 - z = h - z + 1
              /\ h + 1 - z \in 1 .. n + 1 /\ h + 1 - z # k + 1 /\ h + 1 - z - 1 = h - z
          BY <3>6, <1>1, <1>4, <1>5
        <4>2. C(h) = N(m, h - z)
          BY <3>6, <3>1, <2>2
        <4>0. h + 1 > k + z
          BY <4>1
        <4>3. C(h + 1) = N(m, h + 1 - z)
          BY <4>0, <3>1, <2>2, <1>1, <1>4, <1>5
        <4>4. q.next[N(m, h - z)] = N(m, h - z + 1)
          BY <4>1, <1>19
        <4>5. q.prev[N(m, h + 1 - z)] = N(m, h + 1 - z - 1)
          BY <4>1, <1>20
        <4> QED
          BY <4>1, <4>2, <4>3, <4>4, <4>5
      <3> QED
        BY <3>2, <3>3, <3>4, <3>5, <3>6, <1>4, <1>5
    <2> QED
      BY <2>1, <2>3, <1>17 DEF Chain, C
  <1>24. \A e \in Elem : \/ e \in Of(S2) \/ e \in X \ Members(t)
                         \/ (q.next[e] = NULL /\ q.prev[e] = NULL)
    <2> SUFFICES ASSUME NEW e \in Elem, e \notin Of(S2), e \notin X \ Members(t)
                 PROVE  q.next[e] = NULL /\ q.prev[e] = NULL
      OBVIOUS
    <2>1. e \notin Of(S) /\ e \in Node /\ \A i \in 1 .. z : e # t[i]
      BY <1>17, EndFacts
    <2>2. e \notin X
      BY <2>1 DEF Members
    <2>3. p.next[e] = NULL /\ p.prev[e] = NULL
      BY <2>1, <2>2 DEF Chains
    <2>4. e # a /\ e # b
      BY <2>1, <1>30, <1>31
    <2>5. e # t[1] /\ e # t[z]
      BY <2>1, <1>8
    <2> QED
      BY <2>1, <2>3, <2>4, <2>5, <1>14, <1>15
  <1> QED
    BY <1>16, <1>17, <1>18, <1>21, <1>23, <1>24 DEF Chains, S2, q

LEMMA FreedChains ==
    ASSUME NEW p, NEW S, NEW X, Chains(p, S, X), \A e \in X : e \in Elem /\ e \notin Of(S)
    PROVE  Chains(Freed(p, X), S, {})
  <1> DEFINE q == Freed(p, X)
  <1>1. /\ \A n \in Node : q.next[n] = IF n \in X THEN NULL ELSE p.next[n]
        /\ \A n \in Node : q.prev[n] = IF n \in X THEN NULL ELSE p.prev[n]
    BY DEF Freed
  <1>2. IsLists(S) /\ IsLinks(p)
    BY DEF Chains
  <1>3. IsLinks(q)
    BY <1>2 DEF IsLinks, Freed
  <1> HIDE DEF q
  <1>4. ASSUME NEW l \in Lists, NEW k \in 0 .. Len(S[l]) + 1
        PROVE  At(l, S[l], k) \in Node /\ At(l, S[l], k) \notin X
    BY <1>2, AtFacts, AtElem
  <1>5. ASSUME NEW l \in Lists
        PROVE  Chain(q, l, S[l]) /\ q.prev[head(l)] = NULL /\ q.next[tail(l)] = NULL
    <2>1. Len(S[l]) \in Nat /\ head(l) \in Node /\ tail(l) \in Node
      BY <1>2, AtFacts, EndFacts
    <2>2. Chain(p, l, S[l]) /\ p.prev[head(l)] = NULL /\ p.next[tail(l)] = NULL
      BY DEF Chains
    <2>3. ASSUME NEW k \in 0 .. Len(S[l])
          PROVE  q.next[At(l, S[l], k)] = At(l, S[l], k + 1) /\ q.prev[At(l, S[l], k + 1)] = At(l, S[l], k)
      <3>1. k \in 0 .. Len(S[l]) + 1 /\ k + 1 \in 0 .. Len(S[l]) + 1
        BY <2>1
      <3>2. p.next[At(l, S[l], k)] = At(l, S[l], k + 1) /\ p.prev[At(l, S[l], k + 1)] = At(l, S[l], k)
        BY <2>2 DEF Chain
      <3>3. q.next[At(l, S[l], k)] = p.next[At(l, S[l], k)]
        BY <3>1, <1>1, <1>4
      <3>4. q.prev[At(l, S[l], k + 1)] = p.prev[At(l, S[l], k + 1)]
        BY <3>1, <1>1, <1>4
      <3> QED
        BY <3>2, <3>3, <3>4
    <2>4. Chain(q, l, S[l])
      BY <2>3 DEF Chain
    <2>5. q.prev[head(l)] = NULL /\ q.next[tail(l)] = NULL
      BY <2>1, <2>2, <1>1
    <2> QED
      BY <2>4, <2>5
  <1>6. \A e \in Elem : e \in Of(S) \/ e \in {} \/ (q.next[e] = NULL /\ q.prev[e] = NULL)
    <2> SUFFICES ASSUME NEW e \in Elem, e \notin Of(S) PROVE q.next[e] = NULL /\ q.prev[e] = NULL
      OBVIOUS
    <2>1. e \in X \/ (p.next[e] = NULL /\ p.prev[e] = NULL)
      BY DEF Chains
    <2> QED
      BY <2>1, <1>1, EndFacts
  <1> QED
    BY <1>2, <1>3, <1>5, <1>6 DEF Chains, q
-----------------------------------------------------------------------------
\* The operations that take out or put in.

LEMMA UnlinkAt ==
    ASSUME NEW p, NEW S, NEW X, Chains(p, S, X), NEW l \in Lists, NEW i \in 1 .. Len(S[l]),
           NEW e, e = S[l][i]
    PROVE  /\ Chains(Unlink(p, e), CutLists(S, l, i, i), X \cup {e})
           /\ e \in Elem /\ e \in Of(S) /\ e \notin Of(CutLists(S, l, i, i))
  <1>1. IsLists(S)
    BY DEF Chains
  <1>2. Len(S[l]) \in Nat /\ e \in Elem
    BY <1>1, AtFacts
  <1>3. i \in i .. Len(S[l]) /\ i .. i = {i}
    BY <1>2
  <1>4. Unlink(p, e) = CutLinks(p, S[l][i], S[l][i])
    BY DEF Unlink, CutLinks
  <1>5. Between(S[l], i, i) = {e}
    BY <1>3 DEF Between
  <1>a. Chains(CutLinks(p, S[l][i], S[l][i]), CutLists(S, l, i, i), X \cup Between(S[l], i, i))
    BY <1>3, CutOut, Zenon
  <1>6. Chains(Unlink(p, e), CutLists(S, l, i, i), X \cup Between(S[l], i, i))
    BY <1>4, <1>a
  <1>8. S[l][i] \notin Of(CutLists(S, l, i, i))
    <2>1. \A k \in i .. i : S[l][k] \notin Of(CutLists(S, l, i, i))
      BY <1>1, <1>3, CutListsFacts
    <2> QED
      BY <2>1, <1>3
  <1>9. e \in Of(S)
    BY <1>2 DEF Of
  <1> QED
    BY <1>2, <1>5, <1>6, <1>8, <1>9

\* The element is removed and its owner frees it.
LEMMA RemoveAt ==
    ASSUME NEW p, NEW S, Chains(p, S, {}), NEW l \in Lists, NEW i \in 1 .. Len(S[l]),
           NEW e, e = S[l][i]
    PROVE  Chains(Freed(Unlink(p, e), {e}), CutLists(S, l, i, i), {})
  <1>1. Chains(Unlink(p, e), CutLists(S, l, i, i), {} \cup {e}) /\ {} \cup {e} = {e}
    BY UnlinkAt
  <1>2. e \in Elem /\ e \notin Of(CutLists(S, l, i, i))
    BY UnlinkAt
  <1> QED
    BY <1>1, <1>2, FreedChains

\* The second removal in free_file_table changes nothing.
LEMMA UnlinkTwice ==
    ASSUME NEW p, NEW S, NEW X, Chains(p, S, X), NEW l \in Lists, NEW i \in 1 .. Len(S[l]),
           NEW e, e = S[l][i]
    PROVE  Unlink(Unlink(p, e), e) = Unlink(p, e)
  <1> DEFINE q == Unlink(p, e)
             a == p.prev[e]
             b == p.next[e]
  <1>1. q.prev[e] = a /\ q.next[e] = b
    <2>1. Unlink(p, e) = CutLinks(p, S[l][i], S[l][i])
      BY DEF Unlink, CutLinks
    <2>2. i \in i .. Len(S[l])
      BY AtFacts DEF Chains
    <2>3. CutKeeps(p, CutLinks(p, S[l][i], S[l][i]), S[l], i, i)
      BY <2>2, CutOut, Zenon
    <2> QED
      BY <2>1, <2>3 DEF CutKeeps
  <1>2. IsLinks(p) /\ IsLists(S)
    BY DEF Chains
  <1>3. p.next \in [Node -> Node \cup {NULL}] /\ p.prev \in [Node -> Node \cup {NULL}]
    BY <1>2 DEF IsLinks
  <1>4. q.next = [p.next EXCEPT ![a] = b] /\ q.prev = [p.prev EXCEPT ![b] = a]
        /\ q = [next |-> q.next, prev |-> q.prev]
    BY DEF Unlink
  <1>5. Unlink(q, e) = [next |-> [q.next EXCEPT ![q.prev[e]] = q.next[e]],
                        prev |-> [q.prev EXCEPT ![q.next[e]] = q.prev[e]]]
    BY DEF Unlink
  <1>6. Unlink(q, e) = [next |-> [q.next EXCEPT ![a] = b], prev |-> [q.prev EXCEPT ![b] = a]]
    BY <1>1, <1>5
  <1> HIDE DEF q, a, b
  <1>7. [q.next EXCEPT ![a] = b] = q.next
    BY <1>3, <1>4
  <1>8. [q.prev EXCEPT ![b] = a] = q.prev
    BY <1>3, <1>4
  <1> QED
    BY <1>4, <1>6, <1>7, <1>8 DEF q

LEMMA InsertAt ==
    ASSUME NEW p, NEW S, NEW X, Chains(p, S, X), NEW m \in Lists, NEW k \in 0 .. Len(S[m]),
           NEW e \in Elem, e \notin Of(S)
    PROVE  Chains(Insert(p, At(m, S[m], k + 1), e), PasteLists(S, m, k, <<e>>), X \ {e})
  <1> DEFINE t == <<e>>
             b == At(m, S[m], k + 1)
  <1>1. t \in Seq(Elem) /\ Len(t) = 1 /\ t[1] = e
    OBVIOUS
  <1>2. Insert(p, b, e) = PasteLinks(p, b, e, e)
    BY DEF Insert, PasteLinks
  <1> HIDE DEF t, b
  <1>3. Fresh(S, t)
    BY <1>1 DEF Fresh
  <1>4. Segment(p, t)
    BY <1>1 DEF Segment
  <1>5. Members(t) = {e}
    BY <1>1 DEF Members
  <1>6. Insert(p, b, e) = PasteLinks(p, b, t[1], t[Len(t)])
    BY <1>1, <1>2
  <1>a. Chains(PasteLinks(p, At(m, S[m], k + 1), t[1], t[Len(t)]), PasteLists(S, m, k, t), X \ Members(t))
    BY <1>3, <1>4, PasteIn, Zenon
  <1>7. Chains(Insert(p, b, e), PasteLists(S, m, k, t), X \ Members(t))
    BY <1>6, <1>a DEF b
  <1> QED
    BY <1>5, <1>7 DEF t, b

\* Elements i .. j of s.
Part(s, i, j) == [h \in 1 .. j + 1 - i |-> s[h + i - 1]]

LEMMA SpliceAt ==
    ASSUME NEW p, NEW S, Chains(p, S, {}), NEW l \in Lists,
           NEW i \in 1 .. Len(S[l]), NEW j \in i .. Len(S[l]),
           NEW m \in Lists, NEW k \in 0 .. Len(CutLists(S, l, i, j)[m])
    PROVE  LET S1 == CutLists(S, l, i, j)
           IN  Chains(Splice(p, At(m, S1[m], k + 1), S[l][i], p.next[S[l][j]]),
                      PasteLists(S1, m, k, Part(S[l], i, j)), {})
  <1> DEFINE S1 == CutLists(S, l, i, j)
             s == S[l]
             t == Part(S[l], i, j)
             z == j + 1 - i
             b == At(m, S1[m], k + 1)
             q == CutLinks(p, s[i], s[j])
             X == Between(S[l], i, j)
  <1>1. IsLists(S) /\ s \in Seq(Elem) /\ Len(s) \in Nat
    BY AtFacts DEF Chains
  <1>2. /\ Chains(q, S1, {} \cup X) /\ {} \cup X = X
        /\ \A h \in i .. j - 1 : q.next[s[h]] = s[h + 1] /\ q.prev[s[h + 1]] = s[h]
    <2>1. Chains(q, S1, {} \cup X)
      BY CutOut, Zenon
    <2>2. CutKeeps(p, q, s, i, j)
      BY CutOut, Zenon
    <2> QED
      BY <2>1, <2>2 DEF CutKeeps
  <1>3. \A h \in i .. j : s[h] \notin Of(S1)
    BY <1>1, CutListsFacts
  <1>4. i \in Nat /\ j \in Nat /\ i >= 1 /\ i <= j /\ j <= Len(s) /\ z \in Nat /\ z >= 1
    BY <1>1
  <1>5. t \in Seq(Elem) /\ Len(t) = z /\ \A h \in 1 .. z : t[h] = s[h + i - 1] /\ h + i - 1 \in i .. j
    <2>1. \A h \in 1 .. z : h + i - 1 \in i .. j /\ h + i - 1 \in 1 .. Len(s)
      BY <1>4
    <2>2. \A h \in 1 .. z : s[h + i - 1] \in Elem
      BY <2>1, <1>1
    <2>3. t = [h \in 1 .. z |-> s[h + i - 1]]
      BY DEF Part
    <2>4. z \in Nat
      BY <1>4
    <2> HIDE DEF t, z
    <2>5. t \in Seq(Elem) /\ Len(t) = z
      BY <2>2, <2>3, <2>4
    <2>6. \A h \in 1 .. z : t[h] = s[h + i - 1]
      BY <2>3
    <2> QED
      BY <2>1, <2>5, <2>6
  <1>6. Fresh(S1, t)
    <2>1. ASSUME NEW a \in 1 .. z, NEW c \in 1 .. z, t[a] = t[c] PROVE a = c
      <3>1. s[a + i - 1] = s[c + i - 1] /\ a + i - 1 \in 1 .. Len(s) /\ c + i - 1 \in 1 .. Len(s)
        BY <2>1, <1>4, <1>5
      <3>2. a + i - 1 = c + i - 1
        BY <3>1, <1>1, SameElem
      <3> QED
        BY <3>2, <1>4
    <2>2. \A a \in 1 .. z : t[a] \notin Of(S1)
      BY <1>3, <1>5
    <2> HIDE DEF t, z
    <2> QED
      BY <2>1, <2>2, <1>4, <1>5 DEF Fresh
  <1>7. Segment(q, t)
    <2>1. ASSUME NEW a \in 1 .. z - 1 PROVE q.next[t[a]] = t[a + 1] /\ q.prev[t[a + 1]] = t[a]
      <3>1. a \in 1 .. z /\ a + 1 \in 1 .. z /\ a + i - 1 \in i .. j - 1 /\ a + 1 + i - 1 = a + i - 1 + 1
        BY <1>4
      <3>2. t[a] = s[a + i - 1] /\ t[a + 1] = s[a + i - 1 + 1]
        BY <3>1, <1>5
      <3> HIDE DEF t, z, q
      <3> QED
        BY <3>1, <3>2, <1>2
    <2> HIDE DEF t, z
    <2> QED
      BY <2>1, <1>5 DEF Segment
  <1>8. Members(t) = X
    <2>1. \A a \in 1 .. z : t[a] \in X
      BY <1>5 DEF Between
    <2>2. ASSUME NEW h \in i .. j PROVE \E a \in 1 .. z : t[a] = s[h]
      <3>1. h - i + 1 \in 1 .. z /\ h - i + 1 + i - 1 = h
        BY <1>4
      <3>2. t[h - i + 1] = s[h]
        BY <3>1, <1>5
      <3> QED
        BY <3>1, <3>2
    <2> HIDE DEF t, z
    <2> QED
      BY <2>1, <2>2, <1>5 DEF Members, Between
  <1>9. t[1] = s[i] /\ t[Len(t)] = s[j]
    <2>1. 1 \in 1 .. z /\ z \in 1 .. z /\ 1 + i - 1 = i /\ z + i - 1 = j
      BY <1>4
    <2> HIDE DEF t, z
    <2> QED
      BY <2>1, <1>5
  <1>10. Chains(PasteLinks(q, b, s[i], s[j]), PasteLists(S1, m, k, t), X \ X)
    <2> HIDE DEF t, q, X
    <2> QED
      BY <1>2, <1>6, <1>7, <1>8, <1>9, PasteIn
  <1>11. p.prev[p.next[s[j]]] = s[j] /\ s[i] # p.next[s[j]]
    <2>1. j \in 0 .. Len(s) /\ j \in 0 .. Len(s) + 1 /\ i \in 0 .. Len(s) + 1 /\ j + 1 \in 0 .. Len(s) + 1
          /\ j + 1 \in 1 .. Len(s) + 1 /\ j + 1 - 1 = j /\ i # j + 1 /\ i \in 1 .. Len(s) /\ j \in 1 .. Len(s)
      BY <1>4
    <2>2. s[j] = At(l, s, j) /\ s[i] = At(l, s, i)
      BY <2>1, <1>1, AtFacts
    <2>3. p.next[At(l, s, j)] = At(l, s, j + 1)
      BY <2>1, Neighbours
    <2>4. p.prev[At(l, s, j + 1)] = At(l, s, j + 1 - 1)
      BY <2>1, Neighbours
    <2>5. At(l, s, i) # At(l, s, j + 1)
      BY <2>1, <1>1, AtDistinct
    <2> QED
      BY <2>1, <2>2, <2>3, <2>4, <2>5
  <1>12. Splice(p, b, s[i], p.next[s[j]]) = PasteLinks(q, b, s[i], s[j])
    <2> HIDE DEF b
    <2>1. Splice(p, b, s[i], p.next[s[j]]) =
            LET r == [next |-> [p.next EXCEPT ![p.prev[s[i]]] = p.next[s[j]]],
                      prev |-> [p.prev EXCEPT ![p.next[s[j]]] = p.prev[s[i]]]]
            IN  [next |-> [r.next EXCEPT ![s[j]] = b, ![r.prev[b]] = s[i]],
                 prev |-> [r.prev EXCEPT ![s[i]] = r.prev[b], ![b] = s[j]]]
      BY <1>11, Zenon DEF Splice
    <2> QED
      BY <2>1, Zenon DEF PasteLinks, CutLinks
  <1>13. X \ X = {}
    OBVIOUS
  <1> QED
    BY <1>10, <1>12, <1>13
-----------------------------------------------------------------------------
\* list_reverse.

Turned(s) == [k \in 1 .. Len(s) |-> s[Len(s) + 1 - k]]
TurnedLists(S, l) == [S EXCEPT ![l] = Turned(S[l])]

LEMMA TurnedFacts ==
    ASSUME NEW S, IsLists(S), NEW l \in Lists
    PROVE  LET S2 == TurnedLists(S, l)
           IN  /\ IsLists(S2) /\ Len(S2[l]) = Len(S[l])
               /\ \A k \in 1 .. Len(S[l]) : S2[l][k] = S[l][Len(S[l]) + 1 - k]
               /\ \A m \in Lists : m # l => S2[m] = S[m]
               /\ \A e \in Elem : e \in Of(S) <=> e \in Of(S2)
  <1> DEFINE S2 == TurnedLists(S, l)
             s == S[l]
             n == Len(S[l])
             c == Turned(s)
  <1>1. S \in [Lists -> Seq(Elem)] /\ s \in Seq(Elem) /\ n \in Nat /\ \A k \in 1 .. n : s[k] \in Elem
    BY AtFacts DEF IsLists
  <1>2. \A k \in 1 .. n : n + 1 - k \in 1 .. n /\ n + 1 - (n + 1 - k) = k
    BY <1>1
  <1>3. c = [k \in 1 .. n |-> s[n + 1 - k]]
    BY DEF Turned
  <1>4. c \in Seq(Elem) /\ Len(c) = n /\ \A k \in 1 .. n : c[k] = s[n + 1 - k]
    <2>1. \A k \in 1 .. n : s[n + 1 - k] \in Elem
      BY <1>1, <1>2
    <2> HIDE DEF n, c
    <2> QED
      BY <2>1, <1>1, <1>3
  <1> HIDE DEF c
  <1>5. S2 \in [Lists -> Seq(Elem)] /\ S2[l] = c /\ \A m \in Lists : m # l => S2[m] = S[m]
    BY <1>1, <1>4 DEF c, TurnedLists
  <1> HIDE DEF S2
  <1>6. ASSUME NEW m \in Lists, NEW a \in 1 .. Len(S2[m])
        PROVE  \E h \in 1 .. Len(S[m]) : S2[m][a] = S[m][h] /\ h = IF m = l THEN n + 1 - a ELSE a
    <2>1. CASE m = l
      <3>1. a \in 1 .. n /\ S2[m] = c
        BY <2>1, <1>4, <1>5
      <3> QED
        BY <2>1, <3>1, <1>2, <1>4
    <2>2. CASE m # l
      BY <2>2, <1>5
    <2> QED
      BY <2>1, <2>2
  <1>7. IsLists(S2)
    <2> SUFFICES ASSUME NEW m \in Lists, NEW q \in Lists, NEW a \in 1 .. Len(S2[m]),
                        NEW b \in 1 .. Len(S2[q]), S2[m][a] = S2[q][b]
                 PROVE  m = q /\ a = b
      BY <1>5, Zenon DEF IsLists
    <2>1. PICK h \in 1 .. Len(S[m]) : S2[m][a] = S[m][h] /\ h = IF m = l THEN n + 1 - a ELSE a
      BY <1>6
    <2>2. PICK g \in 1 .. Len(S[q]) : S2[q][b] = S[q][g] /\ g = IF q = l THEN n + 1 - b ELSE b
      BY <1>6
    <2>3. S[m][h] = S[q][g]
      BY <2>1, <2>2
    <2>4. m = q /\ h = g
      BY <2>3, SameElem
    <2>5. CASE m = l
      <3>1. a \in 1 .. n /\ b \in 1 .. n
        BY <2>4, <2>5, <1>4, <1>5
      <3> QED
        BY <3>1, <2>1, <2>2, <2>4, <2>5, <1>1
    <2>6. CASE m # l
      BY <2>1, <2>2, <2>4, <2>6
    <2> QED
      BY <2>5, <2>6
  <1>8. \A e \in Elem : e \in Of(S2) => e \in Of(S)
    BY <1>6 DEF Of
  <1>9. ASSUME NEW e \in Elem, e \in Of(S) PROVE e \in Of(S2)
    <2>1. PICK m \in Lists : \E h \in 1 .. Len(S[m]) : S[m][h] = e
      BY <1>9 DEF Of
    <2>2. PICK h \in 1 .. Len(S[m]) : S[m][h] = e
      BY <2>1
    <2>3. CASE m = l
      <3>1. n + 1 - h \in 1 .. n /\ c[n + 1 - h] = s[n + 1 - (n + 1 - h)] /\ n + 1 - (n + 1 - h) = h
        BY <2>3, <1>2, <1>4
      <3>2. n + 1 - h \in 1 .. Len(S2[l]) /\ S2[l][n + 1 - h] = e
        BY <3>1, <2>2, <2>3, <1>4, <1>5
      <3> QED
        BY <3>2 DEF Of
    <2>4. CASE m # l
      <3>1. S2[m] = S[m]
        BY <2>4, <1>5
      <3> QED
        BY <3>1, <2>2 DEF Of
    <2> QED
      BY <2>3, <2>4
  <1> QED
    BY <1>4, <1>5, <1>7, <1>8, <1>9 DEF S2

LEMMA Emptiness ==
    ASSUME NEW p, NEW S, NEW X, Chains(p, S, X), NEW l \in Lists
    PROVE  list_empty(p, l) <=> Len(S[l]) = 0
  <1>1. IsLists(S)
    BY DEF Chains
  <1>2. Len(S[l]) \in Nat /\ At(l, S[l], 0) = head(l) /\ At(l, S[l], Len(S[l]) + 1) = tail(l)
    BY <1>1, AtFacts
  <1>3. 0 \in 0 .. Len(S[l]) /\ 0 + 1 = 1 /\ 1 \in 0 .. Len(S[l]) + 1
        /\ Len(S[l]) + 1 \in 0 .. Len(S[l]) + 1
    BY <1>2
  <1>4. p.next[At(l, S[l], 0)] = At(l, S[l], 0 + 1)
    BY <1>3, Neighbours
  <1>5. p.next[head(l)] = At(l, S[l], 1)
    BY <1>2, <1>3, <1>4
  <1>6. At(l, S[l], 1) = At(l, S[l], Len(S[l]) + 1) => 1 = Len(S[l]) + 1
    BY <1>1, <1>3, AtDistinct
  <1>7. CASE Len(S[l]) = 0
    BY <1>7, <1>2, <1>5 DEF list_empty
  <1>8. CASE Len(S[l]) # 0
    BY <1>8, <1>2, <1>5, <1>6 DEF list_empty
  <1> QED
    BY <1>7, <1>8

LEMMA ReverseAt ==
    ASSUME NEW p, NEW S, Chains(p, S, {}), NEW l \in Lists
    PROVE  Chains(Reversed(p, l), TurnedLists(S, l), {})
  <1> DEFINE S2 == TurnedLists(S, l)
             s == S[l]
             n == Len(S[l])
             N(m, k) == At(m, S[m], k)
             X == Members(Contents(p, l))
             first == p.next[head(l)]
             last == p.prev[tail(l)]
             q == Reversed(p, l)
  <1>1. IsLists(S) /\ IsLinks(p) /\ s \in Seq(Elem) /\ n \in Nat
    BY AtFacts DEF Chains
  <1>2. \A m \in Lists : /\ Len(S[m]) \in Nat
                         /\ \A k \in 0 .. Len(S[m]) : p.next[N(m, k)] = N(m, k + 1)
                         /\ \A k \in 1 .. Len(S[m]) + 1 : p.prev[N(m, k)] = N(m, k - 1)
                         /\ p.prev[head(m)] = NULL /\ p.next[tail(m)] = NULL
                         /\ \A k \in 0 .. Len(S[m]) + 1 : N(m, k) \in Node
                         /\ N(m, 0) = head(m) /\ N(m, Len(S[m]) + 1) = tail(m)
                         /\ \A k \in 1 .. Len(S[m]) : N(m, k) = S[m][k] /\ S[m][k] \in Elem
    BY <1>1, Neighbours, AtFacts
  <1>3. \A m1, m2 \in Lists : \A x \in 0 .. Len(S[m1]) + 1 : \A y \in 0 .. Len(S[m2]) + 1 :
           N(m1, x) = N(m2, y) => m1 = m2 /\ x = y
    BY <1>1, AtDistinct
  <1>4. /\ IsLists(S2) /\ Len(S2[l]) = n
        /\ \A k \in 1 .. n : S2[l][k] = s[n + 1 - k]
        /\ \A m \in Lists : m # l => S2[m] = S[m]
        /\ \A e \in Elem : e \in Of(S) <=> e \in Of(S2)
    BY <1>1, TurnedFacts
  <1>5. list_empty(p, l) <=> n = 0
    BY Emptiness
  <1>6. CASE n = 0
    <2>1. q = p
      BY <1>5, <1>6 DEF Reversed
    <2>2. S2 = S
      <3>1. S \in [Lists -> Seq(Elem)] /\ S2 \in [Lists -> Seq(Elem)]
        BY <1>1, <1>4 DEF IsLists
      <3>2. \A m \in Lists : S2[m] = S[m]
        <4>1. S2[l] = S[l]
          BY <3>1, <1>4, <1>6
        <4> QED
          BY <4>1, <1>4
      <3> HIDE DEF S2
      <3> QED
        BY <3>1, <3>2
    <2> QED
      BY <2>1, <2>2
  <1>7. CASE n # 0
    <2>1. 1 \in 1 .. n /\ n \in 1 .. n /\ 1 \in 0 .. n + 1 /\ n \in 0 .. n + 1 /\ 0 \in 0 .. n
          /\ n + 1 \in 1 .. n + 1 /\ n + 1 - 1 = n /\ 0 + 1 = 1 /\ 0 \in 0 .. n + 1 /\ n + 1 \in 0 .. n + 1
      BY <1>1, <1>7
    <2>2. Contents(p, l) = s
      BY ContentsOf
    <2> HIDE DEF N
    <2>3. p.next[head(l)] = N(l, 1) /\ p.prev[tail(l)] = N(l, n)
      <3>1. p.next[N(l, 0)] = N(l, 0 + 1)
        BY <1>2, <2>1
      <3>2. p.prev[N(l, n + 1)] = N(l, n + 1 - 1)
        BY <1>2, <2>1
      <3> QED
        BY <3>1, <3>2, <1>2, <2>1
    <2>4. /\ \A k \in 1 .. n : N(l, k) \in X
          /\ \A e : e \in X => \E k \in 1 .. n : e = N(l, k)
          /\ \A e \in X : e \in Elem /\ e \in Of(S)
      BY <1>2, <2>2 DEF Members, Of
    <2>5. q = [next |-> [x \in Node |-> CASE x = first -> tail(l)
                                         [] x \in X \ {first} -> p.prev[x]
                                         [] x = head(l) -> last
                                         [] OTHER -> p.next[x]],
               prev |-> [x \in Node |-> CASE x = last -> head(l)
                                         [] x \in X \ {last} -> p.next[x]
                                         [] x = tail(l) -> first
                                         [] OTHER -> p.prev[x]]]
      <3>1. ~list_empty(p, l)
        BY <1>5, <1>7
      <3> QED
        BY <3>1, Zenon DEF Reversed
    <2>6. /\ head(l) \notin X /\ tail(l) \notin X /\ head(l) # tail(l) /\ first \in X /\ last \in X
          /\ head(l) \in Node /\ tail(l) \in Node
      BY <2>1, <2>3, <2>4, EndFacts
    <2> HIDE DEF first, last, X, q
    <2>7. /\ q.next = [x \in Node |-> CASE x = first -> tail(l)
                                         [] x \in X \ {first} -> p.prev[x]
                                         [] x = head(l) -> last
                                         [] OTHER -> p.next[x]]
          /\ q.prev = [x \in Node |-> CASE x = last -> head(l)
                                         [] x \in X \ {last} -> p.next[x]
                                         [] x = tail(l) -> first
                                         [] OTHER -> p.prev[x]]
      BY <2>5
    <2>8. ASSUME NEW x \in Node
          PROVE  /\ x = first => q.next[x] = tail(l)
                 /\ x \in X /\ x # first => q.next[x] = p.prev[x]
                 /\ x = head(l) => q.next[x] = last
                 /\ x \notin X /\ x # head(l) => q.next[x] = p.next[x]
      BY <2>6, <2>7
    <2>9. ASSUME NEW x \in Node
          PROVE  /\ x = last => q.prev[x] = head(l)
                 /\ x \in X /\ x # last => q.prev[x] = p.next[x]
                 /\ x = tail(l) => q.prev[x] = first
                 /\ x \notin X /\ x # tail(l) => q.prev[x] = p.prev[x]
      BY <2>6, <2>7
    <2>10. IsLinks(q)
      <3>1. p.next \in [Node -> Node \cup {NULL}] /\ p.prev \in [Node -> Node \cup {NULL}]
        BY <1>1 DEF IsLinks
      <3>2. first \in Node /\ last \in Node
        BY <1>2, <2>1, <2>3 DEF first, last
      <3>3. \A x \in Node : q.next[x] \in Node \cup {NULL}
        BY <3>1, <3>2, <2>6, <2>8
      <3>4. \A x \in Node : q.prev[x] \in Node \cup {NULL}
        BY <3>1, <3>2, <2>6, <2>9
      <3> QED
        BY <3>3, <3>4, <2>7 DEF IsLinks
    <2>11. ASSUME NEW m \in Lists PROVE q.prev[head(m)] = NULL /\ q.next[tail(m)] = NULL
      <3>1. head(m) \in Node /\ tail(m) \in Node /\ head(m) # tail(l) /\ tail(m) # head(l)
            /\ head(m) \notin X /\ tail(m) \notin X
        BY <2>4, EndFacts
      <3> QED
        BY <3>1, <1>2, <2>8, <2>9
    <2>12. ASSUME NEW m \in Lists, m # l PROVE Chain(q, m, S2[m])
      <3>1. S2[m] = S[m] /\ Len(S[m]) \in Nat
        BY <1>2, <1>4, <2>12
      <3>2. ASSUME NEW k \in 0 .. Len(S[m]) + 1
            PROVE  N(m, k) \in Node /\ N(m, k) \notin X /\ N(m, k) # head(l) /\ N(m, k) # tail(l)
        <4>1. \A h \in 0 .. n + 1 : N(m, k) # N(l, h)
          BY <1>3, <2>12
        <4>2. \A h \in 1 .. n : h \in 0 .. n + 1
          BY <1>1
        <4> QED
          BY <4>1, <4>2, <2>1, <2>4, <1>2
      <3>3. ASSUME NEW k \in 0 .. Len(S[m])
            PROVE  q.next[N(m, k)] = N(m, k + 1) /\ q.prev[N(m, k + 1)] = N(m, k)
        <4>1. k \in 0 .. Len(S[m]) + 1 /\ k + 1 \in 0 .. Len(S[m]) + 1
              /\ k + 1 \in 1 .. Len(S[m]) + 1 /\ k + 1 - 1 = k
          BY <3>1
        <4>2. q.next[N(m, k)] = p.next[N(m, k)]
          BY <4>1, <3>2, <2>8
        <4>3. q.prev[N(m, k + 1)] = p.prev[N(m, k + 1)]
          BY <4>1, <3>2, <2>9
        <4>4. p.next[N(m, k)] = N(m, k + 1)
          BY <1>2
        <4>5. p.prev[N(m, k + 1)] = N(m, k + 1 - 1)
          BY <4>1, <1>2
        <4> QED
          BY <4>1, <4>2, <4>3, <4>4, <4>5
      <3> QED
        BY <3>1, <3>3 DEF Chain, N
    <2>13. Chain(q, l, S2[l])
      <3> DEFINE C(h) == At(l, S2[l], h)
      <3>1. C(0) = head(l) /\ C(n + 1) = tail(l) /\ \A h \in 1 .. n : C(h) = S2[l][h]
        BY <1>4, AtFacts
      <3>2. ASSUME NEW h \in 1 .. n PROVE C(h) = N(l, n + 1 - h) /\ n + 1 - h \in 1 .. n
        <4>1. n + 1 - h \in 1 .. n
          BY <1>1
        <4>2. N(l, n + 1 - h) = s[n + 1 - h]
          BY <4>1, <1>2
        <4> QED
          BY <4>1, <4>2, <3>1, <1>4
      <3> HIDE DEF C
      <3>3. ASSUME NEW k \in 1 .. n
            PROVE  /\ N(l, k) \in Node /\ N(l, k) \in X
                   /\ k # 1 => N(l, k) # first /\ q.next[N(l, k)] = N(l, k - 1)
                   /\ k # n => N(l, k) # last /\ q.prev[N(l, k)] = N(l, k + 1)
        <4>1. k \in 0 .. n + 1 /\ k \in 0 .. n /\ k \in 1 .. n + 1
          BY <1>1
        <4>2. N(l, k) \in Node /\ N(l, k) \in X
          BY <4>1, <1>2, <2>4
        <4>3. k # 1 => N(l, k) # first
          BY <4>1, <2>1, <1>3, <2>3 DEF first
        <4>4. k # n => N(l, k) # last
          BY <4>1, <2>1, <1>3, <2>3 DEF last
        <4>5. p.prev[N(l, k)] = N(l, k - 1) /\ p.next[N(l, k)] = N(l, k + 1)
          BY <4>1, <1>2
        <4>6. k # 1 => q.next[N(l, k)] = p.prev[N(l, k)]
          BY <4>2, <4>3, <2>8
        <4>7. k # n => q.prev[N(l, k)] = p.next[N(l, k)]
          BY <4>2, <4>4, <2>9
        <4> QED
          BY <4>2, <4>3, <4>4, <4>5, <4>6, <4>7
      <3>4. ASSUME NEW h \in 0 .. n
            PROVE  q.next[C(h)] = C(h + 1) /\ q.prev[C(h + 1)] = C(h)
        <4>1. CASE h = 0
          <5>1. C(1) = N(l, n + 1 - 1)
            BY <3>2, <2>1
          <5>2. C(h) = head(l) /\ C(h + 1) = last
            BY <5>1, <4>1, <3>1, <2>1, <2>3 DEF last
          <5>3. last \in Node
            BY <2>1, <1>2, <2>3 DEF last
          <5> QED
            BY <5>2, <5>3, <2>6, <2>8, <2>9
        <4>2. CASE h = n
          <5>1. C(n) = N(l, n + 1 - n) /\ n + 1 - n = 1
            BY <3>2, <2>1, <1>1
          <5>2. C(h) = first /\ C(h + 1) = tail(l)
            BY <5>1, <4>2, <3>1, <2>3 DEF first
          <5>3. first \in Node
            BY <2>1, <1>2, <2>3 DEF first
          <5> QED
            BY <5>2, <5>3, <2>6, <2>8, <2>9
        <4>3. CASE h # 0 /\ h # n
          <5>1. h \in 1 .. n /\ h + 1 \in 1 .. n /\ n + 1 - h # 1 /\ n + 1 - (h + 1) # n
                /\ n + 1 - h - 1 = n + 1 - (h + 1) /\ n + 1 - (h + 1) + 1 = n + 1 - h
            <6> HIDE DEF n
            <6>1. h \in 1 .. n - 1
              BY <4>3, <1>1
            <6> QED
              BY <6>1, <1>1
          <5>2. C(h) = N(l, n + 1 - h) /\ n + 1 - h \in 1 .. n
            BY <5>1, <3>2
          <5>3. C(h + 1) = N(l, n + 1 - (h + 1)) /\ n + 1 - (h + 1) \in 1 .. n
            BY <5>1, <3>2
          <5>4. q.next[N(l, n + 1 - h)] = N(l, n + 1 - (h + 1))
            <6> DEFINE g == n + 1 - h
            <6>1. g \in 1 .. n /\ g # 1
              BY <5>1, <5>2
            <6> HIDE DEF g
            <6>2. q.next[N(l, g)] = N(l, g - 1)
              BY <6>1, <3>3
            <6>3. g = n + 1 - h
              BY DEF g
            <6>4. g - 1 = n + 1 - (h + 1)
              <7> HIDE DEF n
              <7> QED
                BY <6>3, <1>1
            <6> HIDE DEF n
            <6> QED
              BY <6>2, <6>3, <6>4
          <5>5. q.prev[N(l, n + 1 - (h + 1))] = N(l, n + 1 - (h + 1) + 1)
            <6> DEFINE g == n + 1 - (h + 1)
            <6>1. g \in 1 .. n /\ g # n
              BY <5>1, <5>3
            <6> HIDE DEF g
            <6>2. q.prev[N(l, g)] = N(l, g + 1)
              BY <6>1, <3>3
            <6> QED
              BY <6>2 DEF g
          <5> QED
            BY <5>1, <5>2, <5>3, <5>4, <5>5
        <4> QED
          BY <4>1, <4>2, <4>3
      <3> QED
        BY <3>4, <1>4 DEF Chain, C
    <2>14. \A e \in Elem : e \in Of(S2) \/ e \in {} \/ (q.next[e] = NULL /\ q.prev[e] = NULL)
      <3> SUFFICES ASSUME NEW e \in Elem, e \notin Of(S2) PROVE q.next[e] = NULL /\ q.prev[e] = NULL
        OBVIOUS
      <3>1. e \notin Of(S) /\ e \in Node
        BY <1>4, EndFacts
      <3>2. p.next[e] = NULL /\ p.prev[e] = NULL
        BY <3>1 DEF Chains
      <3>3. e \notin X /\ e # head(l) /\ e # tail(l)
        BY <3>1, <2>4, EndFacts
      <3> QED
        BY <3>1, <3>2, <3>3, <2>8, <2>9
    <2>15. \A m \in Lists : Chain(q, m, S2[m])
      BY <2>12, <2>13
    <2> QED
      BY <1>4, <2>10, <2>11, <2>14, <2>15 DEF Chains, q
  <1> QED
    BY <1>6, <1>7
-----------------------------------------------------------------------------
\* The walks of list_insert_ordered and find_end_of_run.

\* A walk stops at the least step at which it may.
LEMMA FirstOfSteps ==
    ASSUME NEW c \in Nat, NEW T \in SUBSET (1 .. c), T # {}, NEW f \in 1 .. c,
           f \in T \/ f = c, \A i \in 1 .. f - 1 : i \notin T
    PROVE  f \in T
  <1>1. PICK t \in T : TRUE
    OBVIOUS
  <1>2. t \in 1 .. c /\ ~(t \in 1 .. f - 1)
    BY <1>1
  <1> QED
    BY <1>1, <1>2

LEMMA OrderedPlaceAt ==
    ASSUME NEW p, NEW S, Chains(p, S, {}), NEW l \in Lists, NEW e \in Elem
    PROVE  \E k \in 0 .. Len(S[l]) :
              /\ OrderedPlace(p, l, e) = At(l, S[l], k + 1)
              /\ \A i \in 1 .. k : ~less(e, S[l][i])
              /\ k # Len(S[l]) => less(e, S[l][k + 1])
  <1> DEFINE n == Len(S[l])
             c == Cardinality(Node)
             Stops(j) == After(p, head(l), j) = tail(l) \/ less(e, After(p, head(l), j))
             Q(j) == (Stops(j) \/ j = c) /\ \A i \in 1 .. j - 1 : ~Stops(i)
             f == CHOOSE j \in 1 .. c : Q(j)
             T == {j \in 1 .. c : Stops(j)}
  <1>1. IsLists(S)
    BY DEF Chains
  <1>2. /\ n \in Nat
        /\ \A k \in 1 .. n : At(l, S[l], k) = S[l][k] /\ S[l][k] \in Elem
        /\ At(l, S[l], n + 1) = tail(l)
    BY <1>1, AtFacts
  <1>3. c \in Nat /\ n + 1 \in 1 .. c /\ n + 1 <= c
    BY <1>1, <1>2, ShortLists, NodeCount
  <1>4. \A k \in 0 .. n + 1 : After(p, head(l), k) = At(l, S[l], k)
    BY WalkList
  <1>5. Stops(n + 1)
    BY <1>2, <1>4
  <1>6. \A k \in 1 .. n : Stops(k) <=> less(e, S[l][k])
    <2> TAKE k \in 1 .. n
    <2>1. After(p, head(l), k) = S[l][k] /\ S[l][k] # tail(l)
      BY <1>2, <1>4, EndFacts
    <2> QED
      BY <2>1
  <1>7. OrderedPlace(p, l, e) = After(p, head(l), f)
    BY DEF OrderedPlace, FirstStep
  <1> HIDE DEF Stops, n, c
  <1>8. T \in SUBSET (1 .. c) /\ T \in SUBSET Nat /\ n + 1 \in T
    BY <1>3, <1>5
  <1>9. PICK t \in T : \A i \in T : t <= i
    <2> HIDE DEF T
    <2> QED
      BY <1>8, LeastNat
  <1>10. t \in 1 .. c /\ Q(t)
    <2>1. t \in 1 .. c /\ Stops(t)
      BY <1>9
    <2>2. \A i \in 1 .. t - 1 : ~Stops(i)
      <3> SUFFICES ASSUME NEW i \in 1 .. t - 1, Stops(i) PROVE FALSE
        OBVIOUS
      <3>1. i \in 1 .. c /\ i < t
        BY <2>1, <1>3
      <3>2. i \in T
        BY <3>1
      <3> QED
        BY <3>1, <3>2, <1>9, <2>1
    <2> QED
      BY <2>1, <2>2
  <1>11. f \in 1 .. c /\ Q(f)
    <2> HIDE DEF Q
    <2> QED
      BY <1>10
  <1> HIDE DEF f
  <1>12. f \in T
    <2>1. f \in T \/ f = c
      BY <1>11
    <2>2. \A i \in 1 .. f - 1 : i \notin T
      BY <1>11
    <2> HIDE DEF T, Q
    <2> QED
      BY <1>3, <1>8, <1>11, <2>1, <2>2, FirstOfSteps
  <1>13. f <= n + 1
    <2>1. ~(n + 1 \in 1 .. f - 1)
      BY <1>5, <1>11
    <2> QED
      BY <2>1, <1>2, <1>3, <1>11
  <1> DEFINE k == f - 1
  <1>14. k \in 0 .. n /\ k + 1 = f /\ f \in 0 .. n + 1
    BY <1>2, <1>3, <1>11, <1>13
  <1>15. OrderedPlace(p, l, e) = At(l, S[l], k + 1)
    BY <1>4, <1>7, <1>14
  <1>16. ASSUME NEW i \in 1 .. k PROVE ~less(e, S[l][i])
    <2>1. i \in 1 .. f - 1 /\ i \in 1 .. n
      BY <1>2, <1>14
    <2>2. ~Stops(i)
      BY <2>1, <1>11
    <2> QED
      BY <2>1, <2>2, <1>6
  <1>17. ASSUME k # n PROVE less(e, S[l][k + 1])
    <2>1. f \in 1 .. n
      BY <1>14, <1>17, <1>2
    <2>2. Stops(f)
      BY <1>12
    <2> QED
      BY <2>1, <2>2, <1>6, <1>14
  <1> QED
    <2> HIDE DEF k
    <2> QED
      BY <1>14, <1>15, <1>16, <1>17 DEF n

\* The end of the run that begins at place x.
LEMMA RunEndAt ==
    ASSUME NEW p, NEW S, Chains(p, S, {}), NEW l \in Lists, NEW x \in 1 .. Len(S[l])
    PROVE  \E y \in x + 1 .. Len(S[l]) + 1 :
              /\ find_end_of_run(p, At(l, S[l], x), tail(l)) = At(l, S[l], y)
              /\ \A i \in x + 1 .. y - 1 : ~less(S[l][i], S[l][i - 1])
              /\ y # Len(S[l]) + 1 => less(S[l][y], S[l][y - 1])
  <1> DEFINE n == Len(S[l])
             c == Cardinality(Node)
             a == At(l, S[l], x)
             Stops(j) == After(p, a, j) = tail(l) \/ less(After(p, a, j), p.prev[After(p, a, j)])
             Q(j) == (Stops(j) \/ j = c) /\ \A i \in 1 .. j - 1 : ~Stops(i)
             f == CHOOSE j \in 1 .. c : Q(j)
             T == {j \in 1 .. c : Stops(j)}
  <1>1. IsLists(S)
    BY DEF Chains
  <1>2. /\ n \in Nat /\ x \in Nat /\ x >= 1 /\ x <= n
        /\ \A k \in 1 .. n : At(l, S[l], k) = S[l][k] /\ S[l][k] \in Elem
        /\ At(l, S[l], n + 1) = tail(l)
    BY <1>1, AtFacts
  <1>3. c \in Nat /\ n + 1 - x \in 1 .. c /\ n + 1 <= c
    BY <1>1, <1>2, ShortLists, NodeCount
  <1>4. \A k \in 0 .. n + 1 - x : After(p, a, k) = At(l, S[l], x + k)
    BY <1>2, WalkChain
  <1>5. Stops(n + 1 - x)
    <2>1. n + 1 - x \in 0 .. n + 1 - x /\ x + (n + 1 - x) = n + 1
      BY <1>2
    <2>2. After(p, a, n + 1 - x) = At(l, S[l], x + (n + 1 - x))
      BY <2>1, <1>4
    <2> QED
      BY <2>1, <2>2, <1>2
  <1>6. \A k \in 1 .. n - x : Stops(k) <=> less(S[l][x + k], S[l][x + k - 1])
    <2> TAKE k \in 1 .. n - x
    <2>1. k \in 0 .. n + 1 - x /\ x + k \in 1 .. n /\ x + k - 1 \in 1 .. n /\ x + k \in 1 .. n + 1
      BY <1>2
    <2>2. After(p, a, k) = At(l, S[l], x + k)
      BY <2>1, <1>4
    <2>3. At(l, S[l], x + k) = S[l][x + k] /\ S[l][x + k] \in Elem
      BY <2>1, <1>2
    <2>4. p.prev[At(l, S[l], x + k)] = At(l, S[l], x + k - 1)
      BY <2>1, Neighbours
    <2>5. At(l, S[l], x + k - 1) = S[l][x + k - 1]
      BY <2>1, <1>2
    <2>6. S[l][x + k] # tail(l)
      BY <2>3, EndFacts
    <2> HIDE DEF a, n
    <2> QED
      BY <2>2, <2>3, <2>4, <2>5, <2>6
  <1>7. find_end_of_run(p, a, tail(l)) = After(p, a, f)
    BY DEF find_end_of_run, FirstStep
  <1> HIDE DEF Stops, n, c, a
  <1>8. T \in SUBSET (1 .. c) /\ T \in SUBSET Nat /\ n + 1 - x \in T
    BY <1>3, <1>5
  <1>9. PICK t \in T : \A i \in T : t <= i
    <2> HIDE DEF T
    <2> QED
      BY <1>8, LeastNat
  <1>10. t \in 1 .. c /\ Q(t)
    <2>1. t \in 1 .. c /\ Stops(t)
      BY <1>9
    <2>2. \A i \in 1 .. t - 1 : ~Stops(i)
      <3> SUFFICES ASSUME NEW i \in 1 .. t - 1, Stops(i) PROVE FALSE
        OBVIOUS
      <3>1. i \in 1 .. c /\ i < t
        BY <2>1, <1>3
      <3>2. i \in T
        BY <3>1
      <3> QED
        BY <3>1, <3>2, <1>9, <2>1
    <2> QED
      BY <2>1, <2>2
  <1>11. f \in 1 .. c /\ Q(f)
    <2> HIDE DEF Q
    <2> QED
      BY <1>10
  <1> HIDE DEF f
  <1>12. f \in T
    <2>1. f \in T \/ f = c
      BY <1>11
    <2>2. \A i \in 1 .. f - 1 : i \notin T
      BY <1>11
    <2> HIDE DEF T, Q
    <2> QED
      BY <1>3, <1>8, <1>11, <2>1, <2>2, FirstOfSteps
  <1>13. f <= n + 1 - x
    <2>1. ~(n + 1 - x \in 1 .. f - 1)
      BY <1>5, <1>11
    <2> QED
      BY <2>1, <1>2, <1>3, <1>11
  <1> DEFINE y == x + f
  <1>14. y \in x + 1 .. n + 1 /\ f \in 0 .. n + 1 - x /\ f \in Nat /\ f >= 1
    BY <1>2, <1>3, <1>11, <1>13
  <1>15. find_end_of_run(p, a, tail(l)) = At(l, S[l], y)
    BY <1>4, <1>7, <1>14
  <1>16. ASSUME NEW i \in x + 1 .. y - 1 PROVE ~less(S[l][i], S[l][i - 1])
    <2>1. i - x \in 1 .. f - 1 /\ i - x \in 1 .. n - x /\ x + (i - x) = i /\ x + (i - x) - 1 = i - 1
      BY <1>2, <1>13, <1>14
    <2>2. ~Stops(i - x)
      BY <2>1, <1>11
    <2> QED
      BY <2>1, <2>2, <1>6
  <1>17. ASSUME y # n + 1 PROVE less(S[l][y], S[l][y - 1])
    <2>1. f \in 1 .. n - x
      BY <1>13, <1>14, <1>17, <1>2
    <2>2. Stops(f)
      BY <1>12
    <2> QED
      BY <2>1, <2>2, <1>6
  <1> QED
    <2> HIDE DEF y
    <2> QED
      BY <1>14, <1>15, <1>16, <1>17 DEF n, a
-----------------------------------------------------------------------------
\* list_unique.

\* f lists k numbers up to n in their order.
Increasing(f, k, n) == f \in [1 .. k -> 1 .. n] /\ \A i, j \in 1 .. k : i < j => f[i] < f[j]

Listed(f, k) == {f[i] : i \in 1 .. k}

LEMMA IncreasingRank ==
    ASSUME NEW n \in Nat, NEW k \in Nat, NEW f, Increasing(f, k, n), NEW i \in 0 .. k
    PROVE  IsFiniteSet(Listed(f, i)) /\ Cardinality(Listed(f, i)) = i
  <1> DEFINE b == [j \in 1 .. i |-> f[j]]
  <1>1. \A j \in 1 .. i : j \in 1 .. k
    OBVIOUS
  <1>2. f \in [1 .. k -> 1 .. n] /\ \A x, y \in 1 .. k : x < y => f[x] < f[y]
    BY DEF Increasing
  <1>3. \A x, y \in 1 .. i : f[x] = f[y] => x = y
    BY <1>1, <1>2
  <1>4. b \in Bijection(1 .. i, Listed(f, i))
    BY <1>3 DEF Bijection, Injection, Surjection, IsInjective, Listed
  <1>5. IsFiniteSet(1 .. i) /\ Cardinality(1 .. i) = i
    BY FS_Interval
  <1>6. ExistsBijection(1 .. i, Listed(f, i))
    <2> HIDE DEF b
    <2> QED
      BY <1>4 DEF ExistsBijection
  <1> QED
    BY <1>5, <1>6, FS_Bijection

LEMMA ChosenListed ==
    ASSUME NEW s, NEW n \in Nat, NEW k \in Nat, NEW f, Increasing(f, k, n)
    PROVE  Abstract!Chosen(s, Listed(f, k)) = [i \in 1 .. k |-> s[f[i]]]
  <1> DEFINE K == Listed(f, k)
             rank(x) == Cardinality({j \in K : j <= x})
  <1>1. f \in [1 .. k -> 1 .. n] /\ \A x, y \in 1 .. k : x < y => f[x] < f[y]
    BY DEF Increasing
  <1>2. Cardinality(K) = k
    BY IncreasingRank
  <1>3. ASSUME NEW i \in 1 .. k PROVE rank(f[i]) = i /\ f[i] \in K
    <2>1. ASSUME NEW x PROVE x \in {j \in K : j <= f[i]} <=> x \in Listed(f, i)
      <3>1. ASSUME x \in K, x <= f[i] PROVE x \in Listed(f, i)
        <4>1. PICK y \in 1 .. k : x = f[y]
          BY <3>1 DEF Listed
        <4>2. ~(i < y)
          BY <3>1, <4>1, <1>1
        <4>3. y \in 1 .. i
          BY <4>2
        <4> QED
          BY <4>1, <4>3 DEF Listed
      <3>2. ASSUME x \in Listed(f, i) PROVE x \in K /\ x <= f[i]
        <4>1. PICK y \in 1 .. i : x = f[y]
          BY <3>2 DEF Listed
        <4>2. y \in 1 .. k /\ (y = i \/ y < i)
          OBVIOUS
        <4>3. f[y] <= f[i]
          BY <4>2, <1>1
        <4> QED
          BY <4>1, <4>2, <4>3 DEF Listed
      <3> QED
        BY <3>1, <3>2
    <2>2. {j \in K : j <= f[i]} = Listed(f, i)
      BY <2>1
    <2>3. Cardinality(Listed(f, i)) = i
      BY IncreasingRank
    <2> QED
      BY <2>2, <2>3 DEF Listed
  <1>4. \A x \in K : \E i \in 1 .. k : x = f[i]
    BY DEF Listed
  <1>5. Abstract!Chosen(s, K) = [i \in 1 .. k |-> s[CHOOSE x \in K : rank(x) = i]]
    <2> HIDE DEF K
    <2>1. Abstract!Chosen(s, K) = [i \in 1 .. Cardinality(K) |-> s[CHOOSE x \in K : rank(x) = i]]
      BY Zenon DEF Abstract!Chosen, Abstract!Cardinality, Cardinality
    <2> HIDE DEF rank
    <2> QED
      BY <2>1, <1>2, Zenon
  <1> HIDE DEF K, rank
  <1>6. ASSUME NEW i \in 1 .. k PROVE (CHOOSE x \in K : rank(x) = i) = f[i]
    <2>1. f[i] \in K /\ rank(f[i]) = i
      BY <1>3
    <2>2. ASSUME NEW x \in K, rank(x) = i PROVE x = f[i]
      <3>1. PICK j \in 1 .. k : x = f[j]
        BY <1>4
      <3>2. rank(x) = j
        BY <3>1, <1>3
      <3> QED
        BY <3>1, <3>2, <2>2
    <2> QED
      BY <2>1, <2>2
  <1>7. \A i \in 1 .. k : s[CHOOSE x \in K : rank(x) = i] = s[f[i]]
    BY <1>6
  <1>8. [i \in 1 .. k |-> s[CHOOSE x \in K : rank(x) = i]] = [i \in 1 .. k |-> s[f[i]]]
    BY <1>7, Zenon
  <1> QED
    BY <1>5, <1>8, Zenon DEF K

\* The state of list_unique's loop: it has gone as far as place c of "list", and has
\* taken out b elements.  g and h say where in the list of S are the elements that are
\* left and those that were taken out.
UniqueAt(r, keep, S, T, g, h, b, c) ==
    /\ IsLists(S) /\ Chains(r.links, T, {}) /\ r = [links |-> r.links, elem |-> r.elem]
    /\ c \in 1 .. Len(T["list"]) /\ r.elem = T["list"][c]
    /\ Increasing(g, Len(T["list"]), Len(S["list"]))
    /\ b \in Nat /\ Increasing(h, b, Len(S["list"]))
    /\ \A x \in 1 .. Len(S["list"]) : x \in Listed(g, Len(T["list"])) \/ x \in Listed(h, b)
    /\ \A i \in 1 .. Len(T["list"]) : \A j \in 1 .. b : g[i] # h[j] /\ (i > c => h[j] < g[i])
    /\ \A i \in 1 .. Len(T["list"]) : T["list"][i] = S["list"][g[i]]
    /\ keep => /\ Len(T["duplicates"]) = Len(S["duplicates"]) + b
               /\ \A i \in 1 .. Len(S["duplicates"]) : T["duplicates"][i] = S["duplicates"][i]
               /\ \A j \in 1 .. b : T["duplicates"][Len(S["duplicates"]) + j] = S["list"][h[j]]
    /\ ~keep => T["duplicates"] = S["duplicates"]

UniqueInv(r, keep, S) == \E T, g, h, b, c : UniqueAt(r, keep, S, T, g, h, b, c)
\* Where the loop goes on without taking anything out.
LEMMA UniqueGoesOn ==
    ASSUME NEW r, NEW keep \in BOOLEAN, NEW S, NEW T, NEW g, NEW h, NEW b, NEW c,
           UniqueAt(r, keep, S, T, g, h, b, c), c + 1 \in 1 .. Len(T["list"])
    PROVE  UniqueAt([r EXCEPT !.elem = T["list"][c + 1]], keep, S, T, g, h, b, c + 1)
  <1> DEFINE r2 == [r EXCEPT !.elem = T["list"][c + 1]]
  <1>1. r = [links |-> r.links, elem |-> r.elem] /\ c \in Nat
    BY DEF UniqueAt
  <1>2. /\ r2.links = r.links /\ r2.elem = T["list"][c + 1] /\ r2 = [links |-> r2.links, elem |-> r2.elem]
    BY <1>1
  <1>3. \A i \in 1 .. Len(T["list"]) : \A j \in 1 .. b : g[i] # h[j] /\ (i > c + 1 => h[j] < g[i])
    <2>1. \A i \in 1 .. Len(T["list"]) : i > c + 1 => i > c
      BY <1>1
    <2>2. \A i \in 1 .. Len(T["list"]) : \A j \in 1 .. b : g[i] # h[j] /\ (i > c => h[j] < g[i])
      BY DEF UniqueAt
    <2> QED
      BY <2>1, <2>2
  <1> HIDE DEF r2
  <1> QED
    <2>1. UniqueAt(r2, keep, S, T, g, h, b, c + 1)
      BY <1>2, <1>3 DEF UniqueAt
    <2> QED
      BY <2>1 DEF r2

\* The lists after the element behind place c was taken out.
Taken(T, keep, c) ==
    LET T1 == CutLists(T, "list", c + 1, c + 1)
    IN  IF keep THEN PasteLists(T1, "duplicates", Len(T1["duplicates"]), <<T["list"][c + 1]>>) ELSE T1

LEMMA PasteLast ==
    ASSUME NEW s \in Seq(Elem), NEW e \in Elem
    PROVE  /\ Len(Paste(s, Len(s), <<e>>)) = Len(s) + 1
           /\ \A i \in 1 .. Len(s) : Paste(s, Len(s), <<e>>)[i] = s[i]
           /\ Paste(s, Len(s), <<e>>)[Len(s) + 1] = e
  <1> DEFINE t == <<e>>
             d == Len(s)
             q == Paste(s, d, t)
  <1>1. t \in Seq(Elem) /\ Len(t) = 1 /\ t[1] = e /\ d \in Nat /\ d \in 0 .. Len(s)
    OBVIOUS
  <1> HIDE DEF t
  <1>2. Len(q) = d + Len(t)
    BY <1>1, PasteSeq
  <1>3. \A i \in 1 .. d + Len(t) :
           q[i] = IF i <= d THEN s[i] ELSE IF i <= d + Len(t) THEN t[i - d] ELSE s[i - Len(t)]
    BY <1>1, PasteSeq, Zenon
  <1> HIDE DEF d, q
  <1>4. \A i \in 1 .. d : i <= d /\ i \in 1 .. d + Len(t)
    BY <1>1
  <1>5. d + 1 - d = 1 /\ ~(d + 1 <= d) /\ d + 1 <= d + Len(t) /\ d + 1 \in 1 .. d + Len(t)
    BY <1>1
  <1>6. q[d + 1] = t[d + 1 - d]
    BY <1>1, <1>3, <1>5
  <1>7. \A i \in 1 .. d : q[i] = s[i]
    BY <1>3, <1>4
  <1> QED
    BY <1>1, <1>2, <1>5, <1>6, <1>7 DEF d, q, t

IsTaken(T, T2, keep, c) ==
    /\ Len(T2["list"]) = Len(T["list"]) - 1
    /\ \A i \in 1 .. Len(T["list"]) - 1 :
          T2["list"][i] = IF i <= c THEN T["list"][i] ELSE T["list"][i + 1]
    /\ keep => /\ Len(T2["duplicates"]) = Len(T["duplicates"]) + 1
               /\ T2["duplicates"][Len(T["duplicates"]) + 1] = T["list"][c + 1]
               /\ \A i \in 1 .. Len(T["duplicates"]) : T2["duplicates"][i] = T["duplicates"][i]
    /\ ~keep => T2["duplicates"] = T["duplicates"]

LEMMA TakenFacts ==
    ASSUME NEW p, NEW T, Chains(p, T, {}), NEW keep \in BOOLEAN, NEW c \in Nat,
           c >= 1, c + 1 <= Len(T["list"])
    PROVE  LET e == T["list"][c + 1]
               u == Unlink(p, e)
           IN  /\ Chains(IF keep THEN Insert(u, tail("duplicates"), e) ELSE Freed(u, {e}),
                         Taken(T, keep, c), {})
               /\ IsTaken(T, Taken(T, keep, c), keep, c)
  <1> DEFINE e == T["list"][c + 1]
             u == Unlink(p, e)
             T1 == CutLists(T, "list", c + 1, c + 1)
             T2 == Taken(T, keep, c)
             s == T["list"]
             d == Len(T["duplicates"])
  <1>0. "list" \in Lists /\ "duplicates" \in Lists /\ "list" # "duplicates"
    BY DEF Lists
  <1>1. IsLists(T) /\ s \in Seq(Elem) /\ Len(s) \in Nat /\ d \in Nat /\ T["duplicates"] \in Seq(Elem)
    BY <1>0, AtFacts DEF Chains
  <1>2. c + 1 \in 1 .. Len(s) /\ c + 1 \in c + 1 .. Len(s) /\ c + 1 + 1 - (c + 1) = 1
    BY <1>1
  <1>3. /\ Chains(u, T1, {e}) /\ e \in Elem /\ e \notin Of(T1)
    <2>1. Chains(u, T1, {} \cup {e}) /\ {} \cup {e} = {e}
      BY <1>0, <1>2, UnlinkAt
    <2>2. e \in Elem /\ e \notin Of(T1)
      BY <1>0, <1>2, UnlinkAt
    <2> QED
      BY <2>1, <2>2
  <1>4. T1["list"] = Cut(s, c + 1, c + 1) /\ T1["duplicates"] = T["duplicates"] /\ IsLists(T1)
    BY <1>0, <1>1, <1>2, CutListsFacts
  <1>5. /\ Len(T1["list"]) = Len(s) - 1
        /\ \A i \in 1 .. Len(s) - 1 : T1["list"][i] = IF i <= c THEN s[i] ELSE s[i + 1]
    <2>1. /\ Len(Cut(s, c + 1, c + 1)) = Len(s) - (c + 1 + 1 - (c + 1))
          /\ \A k \in 1 .. Len(s) - (c + 1 + 1 - (c + 1)) :
                Cut(s, c + 1, c + 1)[k] = IF k < c + 1 THEN s[k] ELSE s[k + (c + 1 + 1 - (c + 1))]
      BY <1>1, <1>2, CutSeq, Zenon
    <2>2. \A i \in 1 .. Len(s) - 1 : (i < c + 1 <=> i <= c)
      BY <1>1
    <2> QED
      BY <2>1, <2>2, <1>2, <1>4
  <1>6. CASE ~keep
    <2>1. Chains(Freed(u, {e}), T1, {})
      <3> HIDE DEF e, u, T1
      <3> QED
        BY <1>3, FreedChains
    <2>2. T2 = T1
      BY <1>6 DEF Taken
    <2> HIDE DEF e, u, T1, T2
    <2> QED
      BY <2>1, <2>2, <1>4, <1>5, <1>6 DEF e, u, T2, IsTaken
  <1>7. CASE keep
    <2> DEFINE v == Insert(u, tail("duplicates"), e)
    <2>1. T2 = PasteLists(T1, "duplicates", d, <<e>>)
      BY <1>4, <1>7 DEF Taken
    <2>2. d \in 0 .. Len(T1["duplicates"]) /\ At("duplicates", T1["duplicates"], d + 1) = tail("duplicates")
      BY <1>1, <1>4 DEF At
    <2>3. Chains(v, T2, {})
      <3> HIDE DEF e, u, T1
      <3>1. Chains(Insert(u, At("duplicates", T1["duplicates"], d + 1), e),
                   PasteLists(T1, "duplicates", d, <<e>>), {e} \ {e})
        BY <1>0, <1>3, <2>2, InsertAt, Zenon
      <3>2. {e} \ {e} = {}
        OBVIOUS
      <3> QED
        BY <2>1, <2>2, <3>1, <3>2
    <2>4. T2["duplicates"] = Paste(T["duplicates"], d, <<e>>) /\ T2["list"] = T1["list"]
      <3>1. T1 \in [Lists -> Seq(Elem)]
        BY <1>4 DEF IsLists
      <3> HIDE DEF T1, e
      <3> QED
        BY <3>1, <2>1, <1>0, <1>4 DEF PasteLists
    <2>5. <<e>> \in Seq(Elem) /\ Len(<<e>>) = 1 /\ <<e>>[1] = e
      BY <1>3
    <2>6. /\ Len(Paste(T["duplicates"], d, <<e>>)) = d + 1
          /\ \A i \in 1 .. d : Paste(T["duplicates"], d, <<e>>)[i] = T["duplicates"][i]
          /\ Paste(T["duplicates"], d, <<e>>)[d + 1] = e
      <3> HIDE DEF e
      <3> QED
        BY <1>1, <1>3, PasteLast
    <2> HIDE DEF e, u, T1, T2
    <2> QED
      BY <2>3, <2>4, <2>6, <1>5, <1>7 DEF e, u, T2, IsTaken
  <1> QED
    BY <1>6, <1>7
\* Where the loop takes out the element behind place c.
LEMMA UniqueTakes ==
    ASSUME NEW r, NEW keep \in BOOLEAN, NEW S, NEW T, NEW g, NEW h, NEW b, NEW c,
           UniqueAt(r, keep, S, T, g, h, b, c), c + 1 \in 1 .. Len(T["list"])
    PROVE  LET e == T["list"][c + 1]
               u == Unlink(r.links, e)
               q == IF keep THEN Insert(u, tail("duplicates"), e) ELSE Freed(u, {e})
           IN  UniqueInv([r EXCEPT !.links = q], keep, S)
  <1> DEFINE e == T["list"][c + 1]
             u == Unlink(r.links, e)
             q == IF keep THEN Insert(u, tail("duplicates"), e) ELSE Freed(u, {e})
             r2 == [r EXCEPT !.links = q]
             T2 == Taken(T, keep, c)
             a == Len(T["list"])
             n == Len(S["list"])
             d == Len(T["duplicates"])
             g2 == [i \in 1 .. a - 1 |-> IF i <= c THEN g[i] ELSE g[i + 1]]
             h2 == [j \in 1 .. b + 1 |-> IF j <= b THEN h[j] ELSE g[c + 1]]
  <1>1. /\ Chains(r.links, T, {}) /\ r = [links |-> r.links, elem |-> r.elem]
        /\ c \in 1 .. a /\ r.elem = T["list"][c]
        /\ b \in Nat
        /\ \A x \in 1 .. n : x \in Listed(g, a) \/ x \in Listed(h, b)
        /\ \A i \in 1 .. a : \A j \in 1 .. b : g[i] # h[j] /\ (i > c => h[j] < g[i])
        /\ \A i \in 1 .. a : T["list"][i] = S["list"][g[i]]
    BY DEF UniqueAt
  <1>2. a \in Nat /\ c \in Nat /\ c >= 1 /\ c + 1 <= a
    <2>1. "list" \in Lists
      BY DEF Lists
    <2>2. a \in Nat
      BY <2>1, <1>1, AtFacts DEF Chains
    <2> QED
      BY <2>2, <1>1
  <1>3. g \in [1 .. a -> 1 .. n] /\ \A i, j \in 1 .. a : i < j => g[i] < g[j]
    BY DEF UniqueAt, Increasing
  <1>4. h \in [1 .. b -> 1 .. n] /\ \A i, j \in 1 .. b : i < j => h[i] < h[j]
    BY DEF UniqueAt, Increasing
  <1>5. /\ Chains(q, T2, {})
        /\ Len(T2["list"]) = a - 1
        /\ \A i \in 1 .. a - 1 : T2["list"][i] = IF i <= c THEN T["list"][i] ELSE T["list"][i + 1]
        /\ keep => /\ Len(T2["duplicates"]) = d + 1 /\ T2["duplicates"][d + 1] = e
                   /\ \A i \in 1 .. d : T2["duplicates"][i] = T["duplicates"][i]
        /\ ~keep => T2["duplicates"] = T["duplicates"]
    <2>0. Chains(r.links, T, {}) /\ c \in Nat /\ c >= 1 /\ c + 1 <= Len(T["list"])
      BY <1>1, <1>2
    <2>1. Chains(q, T2, {})
      BY <2>0, TakenFacts, Zenon
    <2>2. IsTaken(T, T2, keep, c)
      BY <2>0, TakenFacts, Zenon
    <2> HIDE DEF q, T2
    <2> QED
      BY <2>1, <2>2 DEF IsTaken
  <1>6. r2.links = q /\ r2.elem = r.elem /\ r2 = [links |-> r2.links, elem |-> r2.elem]
    <2> HIDE DEF q
    <2> QED
      BY <1>1
  <1>7. /\ keep => /\ d = Len(S["duplicates"]) + b
                   /\ \A i \in 1 .. Len(S["duplicates"]) : T["duplicates"][i] = S["duplicates"][i]
                   /\ \A j \in 1 .. b : T["duplicates"][Len(S["duplicates"]) + j] = S["list"][h[j]]
        /\ ~keep => T["duplicates"] = S["duplicates"]
    BY DEF UniqueAt
  <1> HIDE DEF T2, q, r2, e, u, a, n, d
  <1>8. /\ \A i \in 1 .. a - 1 : (i <= c => g2[i] = g[i]) /\ (i > c => g2[i] = g[i + 1])
        /\ \A j \in 1 .. b : h2[j] = h[j]
        /\ h2[b + 1] = g[c + 1]
        /\ \A i \in 1 .. a - 1 : i \in 1 .. a /\ i + 1 \in 1 .. a
        /\ c + 1 \in 1 .. a
    BY <1>1, <1>2
  <1>9. Increasing(g2, a - 1, n)
    <2>1. \A i \in 1 .. a - 1 : g2[i] \in 1 .. n
      BY <1>2, <1>3, <1>8
    <2>2. g2 \in [1 .. a - 1 -> 1 .. n]
      <3>1. g2 = [i \in 1 .. a - 1 |-> g2[i]]
        BY Zenon
      <3> HIDE DEF g2
      <3> QED
        BY <2>1, <3>1
    <2> HIDE DEF g2
    <2>3. ASSUME NEW i \in 1 .. a - 1, NEW j \in 1 .. a - 1, i < j PROVE g2[i] < g2[j]
      <3>1. CASE j <= c
        <4>1. i <= c /\ g2[i] = g[i] /\ g2[j] = g[j] /\ i \in 1 .. a /\ j \in 1 .. a
          BY <3>1, <2>3, <1>2, <1>8
        <4> QED
          BY <4>1, <2>3, <1>3
      <3>2. CASE j > c /\ i <= c
        <4>1. g2[i] = g[i] /\ g2[j] = g[j + 1] /\ i \in 1 .. a /\ j + 1 \in 1 .. a /\ i < j + 1
          BY <3>2, <2>3, <1>2, <1>8
        <4> QED
          BY <4>1, <1>3
      <3>3. CASE j > c /\ i > c
        <4>1. g2[i] = g[i + 1] /\ g2[j] = g[j + 1] /\ i + 1 \in 1 .. a /\ j + 1 \in 1 .. a /\ i + 1 < j + 1
          BY <3>3, <2>3, <1>2, <1>8
        <4> QED
          BY <4>1, <1>3
      <3> QED
        BY <3>1, <3>2, <3>3, <1>2
    <2> QED
      BY <2>2, <2>3 DEF Increasing
  <1>10. Increasing(h2, b + 1, n)
    <2>1. \A j \in 1 .. b + 1 : j \in 1 .. b \/ j = b + 1
      BY <1>1
    <2>2. \A j \in 1 .. b + 1 : h2[j] \in 1 .. n
      BY <2>1, <1>3, <1>4, <1>8
    <2>3. h2 \in [1 .. b + 1 -> 1 .. n]
      <3>1. h2 = [j \in 1 .. b + 1 |-> h2[j]]
        BY Zenon
      <3> HIDE DEF h2
      <3> QED
        BY <2>2, <3>1
    <2> HIDE DEF h2
    <2>4. ASSUME NEW i \in 1 .. b + 1, NEW j \in 1 .. b + 1, i < j PROVE h2[i] < h2[j]
      <3>1. i \in 1 .. b
        BY <2>4, <1>1
      <3>2. CASE j \in 1 .. b
        BY <3>1, <3>2, <2>4, <1>4, <1>8
      <3>3. CASE j = b + 1
        <4>1. h[i] < g[c + 1]
          <5>1. c + 1 > c
            BY <1>2
          <5> QED
            BY <5>1, <3>1, <1>1, <1>8
        <4> QED
          BY <4>1, <3>1, <3>3, <1>8
      <3> QED
        BY <2>1, <3>2, <3>3
    <2> QED
      BY <2>3, <2>4 DEF Increasing
  <1> HIDE DEF g2, h2
  <1>11. \A x \in 1 .. n : x \in Listed(g2, a - 1) \/ x \in Listed(h2, b + 1)
    <2> TAKE x \in 1 .. n
    <2>1. CASE x \in Listed(h, b)
      <3>1. PICK j \in 1 .. b : x = h[j]
        BY <2>1 DEF Listed
      <3>2. j \in 1 .. b + 1 /\ x = h2[j]
        BY <3>1, <1>1, <1>8
      <3> QED
        BY <3>2 DEF Listed
    <2>2. CASE x \in Listed(g, a)
      <3>1. PICK i \in 1 .. a : x = g[i]
        BY <2>2 DEF Listed
      <3>2. CASE i <= c
        <4>1. i \in 1 .. a - 1 /\ x = g2[i]
          BY <3>1, <3>2, <1>2, <1>8
        <4> QED
          BY <4>1 DEF Listed
      <3>3. CASE i = c + 1
        <4>1. b + 1 \in 1 .. b + 1 /\ x = h2[b + 1]
          BY <3>1, <3>3, <1>1, <1>8
        <4> QED
          BY <4>1 DEF Listed
      <3>4. CASE i > c + 1
        <4>1. i - 1 \in 1 .. a - 1 /\ i - 1 > c /\ i - 1 + 1 = i
          BY <3>1, <3>4, <1>2
        <4>2. x = g2[i - 1]
          BY <4>1, <3>1, <1>8
        <4> QED
          BY <4>1, <4>2 DEF Listed
      <3> QED
        BY <3>2, <3>3, <3>4, <1>2
    <2> QED
      BY <2>1, <2>2, <1>1
  <1>12. \A i \in 1 .. a - 1 : \A j \in 1 .. b + 1 : g2[i] # h2[j] /\ (i > c => h2[j] < g2[i])
    <2> TAKE i \in 1 .. a - 1
    <2> TAKE j \in 1 .. b + 1
    <2> DEFINE k == IF i <= c THEN i ELSE i + 1
    <2>1. k \in 1 .. a /\ g2[i] = g[k] /\ k # c + 1 /\ (i > c => k > c + 1 /\ k > c)
      BY <1>2, <1>8
    <2> HIDE DEF k
    <2>2. CASE j \in 1 .. b
      BY <2>1, <2>2, <1>1, <1>8
    <2>3. CASE j = b + 1
      <3>1. h2[j] = g[c + 1] /\ c + 1 \in 1 .. a /\ k \in Nat
        BY <2>1, <2>3, <1>2, <1>8
      <3>2. g[k] # g[c + 1]
        <4>1. k < c + 1 \/ c + 1 < k
          BY <3>1, <2>1, <1>2
        <4>2. g[k] \in Nat /\ g[c + 1] \in Nat
          BY <3>1, <2>1, <1>3
        <4> QED
          BY <4>1, <4>2, <3>1, <2>1, <1>3
      <3>3. i > c => g[c + 1] < g[k]
        BY <3>1, <2>1, <1>2, <1>3
      <3> QED
        BY <3>1, <3>2, <3>3, <2>1
    <2> QED
      BY <2>2, <2>3, <1>1
  <1>13. \A i \in 1 .. a - 1 : T2["list"][i] = S["list"][g2[i]]
    <2> TAKE i \in 1 .. a - 1
    <2>1. CASE i <= c
      BY <2>1, <1>1, <1>5, <1>8
    <2>2. CASE i > c
      <3>1. ~(i <= c) /\ i + 1 \in 1 .. a
        BY <2>2, <1>2, <1>8
      <3> QED
        BY <2>2, <3>1, <1>1, <1>5, <1>8
    <2> QED
      BY <2>1, <2>2, <1>2
  <1>14. ASSUME keep
         PROVE  /\ Len(T2["duplicates"]) = Len(S["duplicates"]) + (b + 1)
                /\ \A i \in 1 .. Len(S["duplicates"]) : T2["duplicates"][i] = S["duplicates"][i]
                /\ \A j \in 1 .. b + 1 : T2["duplicates"][Len(S["duplicates"]) + j] = S["list"][h2[j]]
    <2> DEFINE z == Len(S["duplicates"])
               D == T["duplicates"]
               D2 == T2["duplicates"]
    <2>1. d \in Nat /\ z \in Nat
      <3>1. "duplicates" \in Lists /\ IsLists(T) /\ IsLists(S)
        BY <1>1 DEF Lists, Chains, UniqueAt
      <3> QED
        BY <3>1, AtFacts DEF d
    <2>2. /\ d = z + b /\ \A i \in 1 .. z : D[i] = S["duplicates"][i]
          /\ \A j \in 1 .. b : D[z + j] = S["list"][h[j]]
      BY <1>7, <1>14
    <2>3. Len(D2) = d + 1 /\ D2[d + 1] = e /\ \A i \in 1 .. d : D2[i] = D[i]
      BY <1>5, <1>14
    <2> HIDE DEF z, D, D2
    <2>4. Len(D2) = z + (b + 1)
      BY <2>1, <2>2, <2>3, <1>1
    <2>5. \A i \in 1 .. z : D2[i] = S["duplicates"][i]
      <3>1. \A i \in 1 .. z : i \in 1 .. d
        BY <2>1, <2>2, <1>1
      <3> QED
        BY <3>1, <2>2, <2>3
    <2>6. ASSUME NEW j \in 1 .. b + 1 PROVE D2[z + j] = S["list"][h2[j]]
      <3>1. CASE j \in 1 .. b
        <4>1. z + j \in 1 .. d
          BY <3>1, <2>1, <2>2, <1>1
        <4> QED
          BY <3>1, <4>1, <2>2, <2>3, <1>8
      <3>2. CASE j = b + 1
        <4>1. z + j = d + 1
          BY <3>2, <2>1, <2>2, <1>1
        <4>2. e = S["list"][g[c + 1]]
          BY <1>1, <1>8 DEF e
        <4> QED
          BY <3>2, <4>1, <4>2, <2>3, <1>8
      <3> QED
        BY <3>1, <3>2, <1>1
    <2> QED
      BY <2>4, <2>5, <2>6 DEF z, D, D2
  <1>15. c \in 1 .. a - 1 /\ T2["list"][c] = T["list"][c] /\ b + 1 \in Nat /\ IsLists(S)
    BY <1>1, <1>2, <1>5 DEF UniqueAt
  <1>16. \A i \in 1 .. a - 1 : \A j \in 1 .. b + 1 : g2[i] # h2[j] /\ (i > c => h2[j] < g2[i])
    BY <1>12
  <1>17. UniqueAt(r2, keep, S, T2, g2, h2, b + 1, c)
    <2>1. /\ IsLists(S) /\ Chains(r2.links, T2, {}) /\ r2 = [links |-> r2.links, elem |-> r2.elem]
          /\ c \in 1 .. Len(T2["list"]) /\ r2.elem = T2["list"][c]
      BY <1>1, <1>5, <1>6, <1>15
    <2>2. Increasing(g2, Len(T2["list"]), Len(S["list"])) /\ Increasing(h2, b + 1, Len(S["list"]))
      BY <1>5, <1>9, <1>10 DEF n
    <2>3. \A x \in 1 .. Len(S["list"]) : x \in Listed(g2, Len(T2["list"])) \/ x \in Listed(h2, b + 1)
      BY <1>5, <1>11 DEF n
    <2>4. \A i \in 1 .. Len(T2["list"]) : \A j \in 1 .. b + 1 :
             g2[i] # h2[j] /\ (i > c => h2[j] < g2[i])
      BY <1>5, <1>16
    <2>5. \A i \in 1 .. Len(T2["list"]) : T2["list"][i] = S["list"][g2[i]]
      BY <1>5, <1>13
    <2>6. ~keep => T2["duplicates"] = S["duplicates"]
      BY <1>5, <1>7
    <2> QED
      BY <2>1, <2>2, <2>3, <2>4, <2>5, <2>6, <1>14, <1>15 DEF UniqueAt
  <1>18. UniqueInv(r2, keep, S)
    BY <1>17, Zenon DEF UniqueInv
  <1> QED
    BY <1>18 DEF r2, q, u, e
LEMMA UniqueRoundKeeps ==
    ASSUME NEW r, NEW keep \in BOOLEAN, NEW S, UniqueInv(r, keep, S)
    PROVE  UniqueInv(UniqueRound(r, keep), keep, S)
  <1>1. PICK T, g, h, b, c : UniqueAt(r, keep, S, T, g, h, b, c)
    BY Zenon DEF UniqueInv
  <1> DEFINE a == Len(T["list"])
             n == r.links.next[r.elem]
             u == Unlink(r.links, n)
             q == IF keep THEN Insert(u, tail("duplicates"), n) ELSE Freed(u, {n})
  <1>0. "list" \in Lists
    BY DEF Lists
  <1>2. Chains(r.links, T, {}) /\ c \in 1 .. a /\ r.elem = T["list"][c]
    BY <1>1 DEF UniqueAt
  <1>3. IsLists(T) /\ a \in Nat
    BY <1>0, <1>2, AtFacts DEF Chains
  <1>4. c \in 0 .. a /\ c + 1 \in 0 .. a + 1 /\ (c + 1 \in 1 .. a \/ c + 1 = a + 1)
    BY <1>2, <1>3
  <1>5. n = At("list", T["list"], c + 1)
    <2>1. r.links.next[At("list", T["list"], c)] = At("list", T["list"], c + 1)
      BY <1>0, <1>2, <1>4, Neighbours
    <2>2. At("list", T["list"], c) = T["list"][c]
      BY <1>0, <1>2, <1>3, AtFacts
    <2> QED
      BY <2>1, <2>2, <1>2
  <1>6. CASE c + 1 = a + 1
    <2>1. n = tail("list")
      BY <1>0, <1>3, <1>5, <1>6, AtFacts
    <2>2. UniqueRound(r, keep) = r
      BY <2>1, Zenon DEF UniqueRound
    <2> QED
      BY <2>2
  <1>7. CASE c + 1 \in 1 .. a
    <2>1. n = T["list"][c + 1] /\ n \in Elem
      BY <1>0, <1>3, <1>5, <1>7, AtFacts
    <2>2. n # tail("list")
      BY <2>1, <1>0, EndFacts
    <2>3. CASE less(r.elem, n) \/ less(n, r.elem)
      <3>1. UniqueRound(r, keep) = [r EXCEPT !.elem = n]
        BY <2>2, <2>3, Zenon DEF UniqueRound
      <3>2. UniqueAt([r EXCEPT !.elem = T["list"][c + 1]], keep, S, T, g, h, b, c + 1)
        BY <1>1, <1>7, UniqueGoesOn
      <3>3. UniqueInv([r EXCEPT !.elem = T["list"][c + 1]], keep, S)
        BY <3>2, Zenon DEF UniqueInv
      <3> HIDE DEF n
      <3> QED
        BY <3>1, <3>3, <2>1
    <2>4. CASE ~(less(r.elem, n) \/ less(n, r.elem))
      <3>1. UniqueRound(r, keep) = [r EXCEPT !.links = q]
        BY <2>2, <2>4, Zenon DEF UniqueRound
      <3> HIDE DEF n
      <3> DEFINE e == T["list"][c + 1]
                 v == Unlink(r.links, e)
                 w == IF keep THEN Insert(v, tail("duplicates"), e) ELSE Freed(v, {e})
      <3>2. UniqueInv([r EXCEPT !.links = w], keep, S)
        BY <1>1, <1>7, UniqueTakes, Zenon
      <3>3. q = w
        BY <2>1
      <3> HIDE DEF q, w
      <3> QED
        BY <3>1, <3>2, <3>3
    <2> QED
      BY <2>3, <2>4
  <1> QED
    BY <1>4, <1>6, <1>7

\* The rounds of list_unique from r.
IsRounds(w, r, keep, m) == w = [j \in 0 .. m |-> IF j = 0 THEN r ELSE UniqueRound(w[j - 1], keep)]

LEMMA RoundsExist ==
    ASSUME NEW r, NEW keep, NEW m \in Nat
    PROVE  \E w : IsRounds(w, r, keep, m)
  <1> DEFINE B == {j \in Nat : ~\E w : IsRounds(w, r, keep, j)}
  <1> SUFFICES ASSUME B # {} PROVE FALSE
    OBVIOUS
  <1>1. B \in SUBSET Nat
    OBVIOUS
  <1>2. PICK k \in B : \A j \in B : k <= j
    <2> HIDE DEF B
    <2> QED
      BY <1>1, LeastNat
  <1>3. k \in Nat /\ ~\E w : IsRounds(w, r, keep, k)
    BY <1>2
  <1>4. CASE k = 0
    <2> DEFINE w == [j \in 0 .. 0 |-> r]
    <2>1. \A j \in 0 .. 0 : j = 0
      OBVIOUS
    <2>2. w = [j \in 0 .. 0 |-> IF j = 0 THEN r ELSE UniqueRound(w[j - 1], keep)]
      BY <2>1, Zenon
    <2>3. IsRounds(w, r, keep, 0)
      BY <2>2 DEF IsRounds
    <2> QED
      BY <2>3, <1>3, <1>4, Zenon
  <1>5. CASE k # 0
    <2>1. k - 1 \in Nat /\ ~(k <= k - 1)
      BY <1>3, <1>5
    <2>2. k - 1 \notin B
      BY <2>1, <1>2
    <2>3. PICK v : IsRounds(v, r, keep, k - 1)
      BY <2>1, <2>2
    <2> DEFINE w == [j \in 0 .. k |-> IF j = k THEN UniqueRound(v[k - 1], keep) ELSE v[j]]
               f(u, j) == IF j = 0 THEN r ELSE UniqueRound(u[j - 1], keep)
    <2>4. \A j \in 0 .. k - 1 : v[j] = f(v, j)
      <3>1. v = [j \in 0 .. k - 1 |-> f(v, j)]
        BY <2>3 DEF IsRounds
      <3> HIDE DEF f
      <3>2. \A j \in 0 .. k - 1 : [i \in 0 .. k - 1 |-> f(v, i)][j] = f(v, j)
        BY Zenon
      <3> QED
        BY <3>1, <3>2, Zenon
    <2>5. ASSUME NEW j \in 0 .. k PROVE w[j] = f(w, j)
      <3>1. CASE j = k
        <4>1. w[j] = UniqueRound(v[k - 1], keep)
          BY <3>1
        <4>2. j # 0 /\ j - 1 \in 0 .. k /\ j - 1 # k
          BY <3>1, <1>5, <2>1
        <4>3. w[j - 1] = v[j - 1]
          BY <4>2
        <4>4. f(w, j) = UniqueRound(w[j - 1], keep)
          BY <4>2
        <4> HIDE DEF w, f
        <4> QED
          BY <3>1, <4>1, <4>3, <4>4
      <3>2. CASE j # k
        <4>1. w[j] = v[j] /\ j \in 0 .. k - 1
          BY <3>2, <2>1
        <4>2. v[j] = f(v, j)
          BY <4>1, <2>4
        <4>3. ASSUME j # 0 PROVE w[j - 1] = v[j - 1]
          <5>1. j - 1 \in 0 .. k /\ j - 1 # k
            BY <4>1, <4>3, <2>1
          <5> QED
            BY <5>1
        <4>4. f(w, j) = f(v, j)
          <5> HIDE DEF w
          <5> QED
            BY <4>3
        <4> HIDE DEF w, f
        <4> QED
          BY <4>1, <4>2, <4>4
      <3> QED
        BY <3>1, <3>2
    <2>6. w = [j \in 0 .. k |-> w[j]]
      BY Zenon
    <2>7. w = [j \in 0 .. k |-> f(w, j)]
      <3> HIDE DEF w, f
      <3>1. [j \in 0 .. k |-> w[j]] = [j \in 0 .. k |-> f(w, j)]
        BY <2>5, Zenon
      <3> QED
        BY <3>1, <2>6, Zenon
    <2> HIDE DEF w
    <2>8. IsRounds(w, r, keep, k)
      BY <2>7 DEF IsRounds
    <2> QED
      BY <2>8, <1>3, Zenon
  <1> QED
    BY <1>4, <1>5

LEMMA RoundsKeep ==
    ASSUME NEW r, NEW keep \in BOOLEAN, NEW S, UniqueInv(r, keep, S), NEW m \in Nat,
           NEW w, IsRounds(w, r, keep, m)
    PROVE  UniqueInv(w[m], keep, S)
  <1> DEFINE B == {j \in 0 .. m : ~UniqueInv(w[j], keep, S)}
             f(j) == IF j = 0 THEN r ELSE UniqueRound(w[j - 1], keep)
  <1>1. B \in SUBSET Nat
    OBVIOUS
  <1>2. \A j \in 0 .. m : w[j] = f(j)
    <2>1. w = [j \in 0 .. m |-> f(j)]
      BY DEF IsRounds
    <2> HIDE DEF f
    <2>2. \A j \in 0 .. m : [i \in 0 .. m |-> f(i)][j] = f(j)
      BY Zenon
    <2> QED
      BY <2>1, <2>2, Zenon
  <1>3. B = {}
    <2> SUFFICES ASSUME B # {} PROVE FALSE
      OBVIOUS
    <2>1. PICK k \in B : \A j \in B : k <= j
      <3> HIDE DEF B
      <3> QED
        BY <1>1, LeastNat
    <2>2. k \in 0 .. m /\ ~UniqueInv(w[k], keep, S)
      BY <2>1
    <2>3. k # 0
      <3>1. 0 \in 0 .. m => w[0] = r
        BY <1>2
      <3> QED
        BY <2>2, <3>1
    <2>4. k - 1 \in 0 .. m /\ ~(k <= k - 1)
      BY <2>2, <2>3
    <2>5. k - 1 \notin B
      BY <2>1, <2>4
    <2>6. UniqueInv(w[k - 1], keep, S)
      BY <2>4, <2>5
    <2>7. UniqueInv(UniqueRound(w[k - 1], keep), keep, S)
      BY <2>6, UniqueRoundKeeps
    <2>8. w[k] = UniqueRound(w[k - 1], keep)
      BY <2>2, <2>3, <1>2
    <2> QED
      BY <2>2, <2>7, <2>8
  <1>4. m \in 0 .. m
    OBVIOUS
  <1> QED
    BY <1>3, <1>4

LEMMA UniqueBegins ==
    ASSUME NEW p, NEW S, Chains(p, S, {}), NEW keep \in BOOLEAN, ~list_empty(p, "list")
    PROVE  UniqueInv([links |-> p, elem |-> p.next[head("list")]], keep, S)
  <1> DEFINE r == [links |-> p, elem |-> p.next[head("list")]]
             n == Len(S["list"])
             g == [i \in 1 .. n |-> i]
             h == [i \in 1 .. 0 |-> i]
  <1>0. "list" \in Lists /\ "duplicates" \in Lists
    BY DEF Lists
  <1>1. IsLists(S) /\ n \in Nat /\ Len(S["duplicates"]) \in Nat
    BY <1>0, AtFacts DEF Chains
  <1>2. n # 0
    BY <1>0, Emptiness
  <1>3. 1 \in 1 .. n /\ 0 \in 0 .. n /\ 0 + 1 = 1
    BY <1>1, <1>2
  <1>4. p.next[head("list")] = S["list"][1]
    <2>1. p.next[At("list", S["list"], 0)] = At("list", S["list"], 0 + 1)
      BY <1>0, <1>3, Neighbours
    <2>2. At("list", S["list"], 0) = head("list") /\ At("list", S["list"], 1) = S["list"][1]
      BY <1>0, <1>1, <1>3, AtFacts
    <2> QED
      BY <2>1, <2>2, <1>3
  <1>5. r.links = p /\ r.elem = S["list"][1] /\ r = [links |-> r.links, elem |-> r.elem]
    BY <1>4
  <1>6. \A i \in 1 .. n : g[i] = i
    OBVIOUS
  <1>7. Increasing(g, n, n) /\ Increasing(h, 0, n)
    BY <1>1 DEF Increasing
  <1>8. 1 .. 0 = {} /\ 0 \in Nat
    OBVIOUS
  <1> HIDE DEF r, g, h, n
  <1>9. \A x \in 1 .. n : x \in Listed(g, n)
    BY <1>6 DEF Listed
  <1>10. UniqueAt(r, keep, S, S, g, h, 0, 1)
    <2>1. \A i \in 1 .. n : S["list"][i] = S["list"][g[i]]
      BY <1>6
    <2>2. Len(S["duplicates"]) = Len(S["duplicates"]) + 0
      BY <1>1
    <2> QED
      BY <1>1, <1>3, <1>5, <1>7, <1>8, <1>9, <2>1, <2>2 DEF UniqueAt, n
  <1>11. UniqueInv(r, keep, S)
    BY <1>10, Zenon DEF UniqueInv
  <1> QED
    BY <1>11 DEF r

LEMMA UniqueEnds ==
    ASSUME NEW p, NEW S, Chains(p, S, {}), NEW keep \in BOOLEAN, ~list_empty(p, "list")
    PROVE  \E r : UniqueInv(r, keep, S) /\ r.links = Unique(p, keep)
  <1> DEFINE m == Cardinality(Elem)
             r == [links |-> p, elem |-> p.next[head("list")]]
             w == CHOOSE v : IsRounds(v, r, keep, m)
  <1>1. m \in Nat
    BY NodeCount
  <1>2. Unique(p, keep) = w[m].links
    BY Zenon DEF Unique, IsRounds
  <1>3. UniqueInv(r, keep, S)
    BY UniqueBegins
  <1> HIDE DEF m, r
  <1>4. IsRounds(w, r, keep, m)
    BY <1>1, RoundsExist
  <1> HIDE DEF w
  <1>5. UniqueInv(w[m], keep, S)
    BY <1>1, <1>3, <1>4, RoundsKeep
  <1> QED
    BY <1>2, <1>5
-----------------------------------------------------------------------------
\* What the lists of SequenceList are put together from.

LEMMA PartOf ==
    ASSUME NEW s \in Seq(Elem), NEW i \in 1 .. Len(s), NEW j \in i .. Len(s)
    PROVE  Part(s, i, j) = SubSeq(s, i, j)
  <1> DEFINE z == j + 1 - i
             t == SubSeq(s, i, j)
             v == Part(s, i, j)
  <1>1. i \in Int /\ j \in Int /\ i <= j /\ i >= 1 /\ j <= Len(s) /\ Len(s) \in Nat /\ z \in Nat
    OBVIOUS
  <1>2. \A h \in i .. j : s[h] \in Elem
    <2>1. \A h \in i .. j : h \in 1 .. Len(s)
      BY <1>1
    <2> QED
      BY <2>1
  <1>3. t \in Seq(Elem) /\ Len(t) = IF i <= j THEN j - i + 1 ELSE 0
    BY <1>1, <1>2, SubSeqProperties, Zenon
  <1>4. \A h \in 1 .. j - i + 1 : t[h] = s[i + h - 1]
    BY <1>1, <1>2, SubSeqProperties
  <1>5. v = [h \in 1 .. z |-> s[h + i - 1]]
    BY DEF Part
  <1> HIDE DEF t, v
  <1>6. Len(t) = z /\ t = [h \in 1 .. Len(t) |-> t[h]]
    BY <1>1, <1>3
  <1>7. \A h \in 1 .. z : t[h] = s[h + i - 1]
    <2> TAKE h \in 1 .. z
    <2>1. h \in 1 .. j - i + 1 /\ i + h - 1 = h + i - 1
      BY <1>1
    <2>2. t[h] = s[i + h - 1]
      BY <2>1, <1>4
    <2> QED
      BY <2>1, <2>2
  <1> HIDE DEF z
  <1>8. [h \in 1 .. z |-> t[h]] = [h \in 1 .. z |-> s[h + i - 1]]
    BY <1>7, Zenon
  <1> QED
    BY <1>5, <1>6, <1>8, Zenon DEF t, v

\* The beginning and the end of a sequence.
LEMMA Halves ==
    ASSUME NEW s \in Seq(Elem), NEW a \in 0 .. Len(s), NEW b \in 0 .. Len(s)
    PROVE  /\ SubSeq(s, 1, a) \in Seq(Elem) /\ Len(SubSeq(s, 1, a)) = a
           /\ \A h \in 1 .. a : SubSeq(s, 1, a)[h] = s[h]
           /\ SubSeq(s, b + 1, Len(s)) \in Seq(Elem) /\ Len(SubSeq(s, b + 1, Len(s))) = Len(s) - b
           /\ \A h \in 1 .. Len(s) - b : SubSeq(s, b + 1, Len(s))[h] = s[b + h]
  <1> DEFINE n == Len(s)
             t == SubSeq(s, 1, a)
             v == SubSeq(s, b + 1, n)
  <1>1. n \in Nat /\ n \in Int /\ a \in Int /\ b + 1 \in Int /\ 1 \in Int /\ b \in Nat /\ a \in Nat
        /\ a <= n /\ b <= n
    OBVIOUS
  <1>2. (\A h \in 1 .. a : s[h] \in Elem) /\ (\A h \in b + 1 .. n : s[h] \in Elem)
    <2>1. (\A h \in 1 .. a : h \in 1 .. n) /\ (\A h \in b + 1 .. n : h \in 1 .. n)
      BY <1>1
    <2> QED
      BY <2>1
  <1>3. t \in Seq(Elem) /\ Len(t) = IF 1 <= a THEN a - 1 + 1 ELSE 0
    BY <1>1, <1>2, SubSeqProperties
  <1>4. \A h \in 1 .. a - 1 + 1 : t[h] = s[1 + h - 1]
    BY <1>1, <1>2, SubSeqProperties
  <1>5. v \in Seq(Elem) /\ Len(v) = IF b + 1 <= n THEN n - (b + 1) + 1 ELSE 0
    BY <1>1, <1>2, SubSeqProperties
  <1>6. \A h \in 1 .. n - (b + 1) + 1 : v[h] = s[b + 1 + h - 1]
    BY <1>1, <1>2, SubSeqProperties
  <1> HIDE DEF t, v, n
  <1>7. Len(t) = a
    BY <1>1, <1>3
  <1>8. Len(v) = n - b
    BY <1>1, <1>5
  <1>9. \A h \in 1 .. a : t[h] = s[h]
    <2> TAKE h \in 1 .. a
    <2>1. h \in 1 .. a - 1 + 1 /\ 1 + h - 1 = h
      BY <1>1
    <2>2. t[h] = s[1 + h - 1]
      BY <2>1, <1>4
    <2> QED
      BY <2>1, <2>2
  <1>10. \A h \in 1 .. n - b : v[h] = s[b + h]
    <2> TAKE h \in 1 .. n - b
    <2>1. h \in 1 .. n - (b + 1) + 1 /\ b + 1 + h - 1 = b + h
      BY <1>1
    <2>2. v[h] = s[b + 1 + h - 1]
      BY <2>1, <1>6
    <2> QED
      BY <2>1, <2>2
  <1> QED
    BY <1>3, <1>5, <1>7, <1>8, <1>9, <1>10 DEF t, v, n

LEMMA SameSeq ==
    ASSUME NEW s \in Seq(Elem), NEW t \in Seq(Elem), Len(s) = Len(t),
           \A h \in 1 .. Len(s) : s[h] = t[h]
    PROVE  s = t
  <1>1. s = [h \in 1 .. Len(s) |-> s[h]] /\ t = [h \in 1 .. Len(t) |-> t[h]]
    OBVIOUS
  <1>2. [h \in 1 .. Len(s) |-> s[h]] = [h \in 1 .. Len(s) |-> t[h]]
    BY Zenon
  <1> QED
    BY <1>1, <1>2, Zenon

LEMMA WithoutIsCut ==
    ASSUME NEW s \in Seq(Elem), NEW i \in 1 .. Len(s), NEW j \in i .. Len(s)
    PROVE  Abstract!Without(s, i, j) = Cut(s, i, j)
  <1> DEFINE n == Len(s)
             d == j + 1 - i
             u == SubSeq(s, 1, i - 1)
             v == SubSeq(s, j + 1, Len(s))
             c == Cut(s, i, j)
  <1>1. i - 1 \in 0 .. n /\ j \in 0 .. n /\ n \in Nat /\ i \in Nat /\ j \in Nat /\ i <= j /\ i >= 1 /\ j <= n
    OBVIOUS
  <1>2. u \in Seq(Elem) /\ Len(u) = i - 1 /\ \A h \in 1 .. i - 1 : u[h] = s[h]
    BY <1>1, Halves, Zenon
  <1>3. v \in Seq(Elem) /\ Len(v) = n - j /\ \A h \in 1 .. n - j : v[h] = s[j + h]
    BY <1>1, Halves, Zenon
  <1>4. c \in Seq(Elem) /\ Len(c) = n - d
    BY CutSeq, Zenon
  <1>5. \A k \in 1 .. n - d : c[k] = IF k < i THEN s[k] ELSE s[k + d]
    BY CutSeq, Zenon
  <1>6. Abstract!Without(s, i, j) = u \o v
    BY DEF Abstract!Without
  <1> HIDE DEF u, v, c, n, d
  <1>7. /\ u \o v \in Seq(Elem) /\ Len(u \o v) = Len(u) + Len(v)
        /\ \A h \in 1 .. Len(u) + Len(v) : (u \o v)[h] = IF h <= Len(u) THEN u[h] ELSE v[h - Len(u)]
    BY <1>2, <1>3, ConcatProperties, Zenon
  <1> DEFINE w == u \o v
  <1>8. w \in Seq(Elem) /\ Len(w) = n - d /\ n - d = (i - 1) + (n - j)
    BY <1>1, <1>2, <1>3, <1>7 DEF d
  <1>9. \A h \in 1 .. (i - 1) + (n - j) : w[h] = IF h <= i - 1 THEN u[h] ELSE v[h - (i - 1)]
    BY <1>2, <1>3, <1>7
  <1> HIDE DEF w
  <1>10. ASSUME NEW h \in 1 .. n - d PROVE c[h] = w[h]
    <2>0. h \in Nat /\ h >= 1 /\ h <= (i - 1) + (n - j) /\ h \in 1 .. (i - 1) + (n - j)
      BY <1>1, <1>8
    <2>1. CASE h < i
      <3>1. h <= i - 1 /\ h \in 1 .. i - 1
        BY <2>0, <2>1, <1>1
      <3>2. w[h] = u[h]
        BY <2>0, <3>1, <1>9
      <3> QED
        BY <3>1, <3>2, <2>1, <1>2, <1>5
    <2>2. CASE ~(h < i)
      <3>1. ~(h <= i - 1) /\ h - (i - 1) \in 1 .. n - j /\ j + (h - (i - 1)) = h + d
        BY <2>0, <2>2, <1>1 DEF d
      <3>2. w[h] = v[h - (i - 1)]
        BY <2>0, <3>1, <1>9
      <3>3. v[h - (i - 1)] = s[j + (h - (i - 1))]
        BY <3>1, <1>3
      <3> QED
        BY <3>1, <3>2, <3>3, <2>2, <1>5
    <2> QED
      BY <2>1, <2>2
  <1>11. c = w
    BY <1>4, <1>8, <1>10, SameSeq
  <1> QED
    BY <1>6, <1>11 DEF c, w

LEMMA InsertedIsPaste ==
    ASSUME NEW s \in Seq(Elem), NEW t \in Seq(Elem), NEW k \in 0 .. Len(s)
    PROVE  Abstract!InsertedAfter(s, k, t) = Paste(s, k, t)
  <1> DEFINE n == Len(s)
             m == Len(t)
             u == SubSeq(s, 1, k)
             v == SubSeq(s, k + 1, Len(s))
             c == Paste(s, k, t)
             x == u \o t
             w == x \o v
  <1>1. k \in 0 .. n /\ n \in Nat /\ k \in Nat /\ k <= n /\ m \in Nat
    OBVIOUS
  <1>2. u \in Seq(Elem) /\ Len(u) = k /\ \A h \in 1 .. k : u[h] = s[h]
    BY <1>1, Halves, Zenon
  <1>3. v \in Seq(Elem) /\ Len(v) = n - k /\ \A h \in 1 .. n - k : v[h] = s[k + h]
    BY <1>1, Halves, Zenon
  <1>4. c \in Seq(Elem) /\ Len(c) = n + m
    BY PasteSeq, Zenon
  <1>5. \A h \in 1 .. n + m : c[h] = IF h <= k THEN s[h] ELSE IF h <= k + m THEN t[h - k] ELSE s[h - m]
    BY PasteSeq, Zenon
  <1>6. Abstract!InsertedAfter(s, k, t) = w
    BY DEF Abstract!InsertedAfter
  <1> HIDE DEF u, v, c
  <1>7. /\ x \in Seq(Elem) /\ Len(x) = Len(u) + m
        /\ \A h \in 1 .. Len(u) + m : x[h] = IF h <= Len(u) THEN u[h] ELSE t[h - Len(u)]
    BY <1>2, ConcatProperties, Zenon
  <1> HIDE DEF x
  <1>8. /\ w \in Seq(Elem) /\ Len(w) = Len(x) + Len(v)
        /\ \A h \in 1 .. Len(x) + Len(v) : w[h] = IF h <= Len(x) THEN x[h] ELSE v[h - Len(x)]
    <2>1. x \in Seq(Elem) /\ v \in Seq(Elem)
      BY <1>3, <1>7
    <2> QED
      BY <2>1, ConcatProperties, Zenon
  <1> HIDE DEF w, n, m
  <1>9. Len(x) = k + m /\ Len(w) = n + m /\ Len(x) + Len(v) = n + m
    BY <1>1, <1>2, <1>3, <1>7, <1>8
  <1>10. \A h \in 1 .. n + m : w[h] = IF h <= k + m THEN x[h] ELSE v[h - (k + m)]
    BY <1>8, <1>9
  <1>11. \A h \in 1 .. k + m : x[h] = IF h <= k THEN u[h] ELSE t[h - k]
    BY <1>2, <1>7
  <1>12. ASSUME NEW h \in 1 .. n + m PROVE c[h] = w[h]
    <2>1. CASE h <= k
      <3>1. h <= k + m /\ h \in 1 .. k + m /\ h \in 1 .. k
        BY <2>1, <1>1
      <3>2. w[h] = x[h] /\ x[h] = u[h] /\ u[h] = s[h]
        BY <3>1, <2>1, <1>2, <1>10, <1>11
      <3> QED
        BY <3>2, <2>1, <1>5
    <2>2. CASE ~(h <= k) /\ h <= k + m
      <3>1. h \in 1 .. k + m
        BY <2>2, <1>1
      <3>2. w[h] = x[h] /\ x[h] = t[h - k]
        BY <3>1, <2>2, <1>10, <1>11
      <3> QED
        BY <3>2, <2>2, <1>5
    <2>3. CASE ~(h <= k) /\ ~(h <= k + m)
      <3>1. h - (k + m) \in 1 .. n - k /\ k + (h - (k + m)) = h - m
        BY <2>3, <1>1
      <3>2. w[h] = v[h - (k + m)]
        BY <2>3, <1>10
      <3>3. v[h - (k + m)] = s[k + (h - (k + m))]
        BY <3>1, <1>3
      <3> QED
        BY <3>1, <3>2, <3>3, <2>3, <1>5
    <2> QED
      BY <2>1, <2>2, <2>3
  <1>13. c = w
    BY <1>4, <1>8, <1>9, <1>12, SameSeq
  <1> QED
    BY <1>6, <1>13 DEF c

-----------------------------------------------------------------------------
\* The state of the specification.

LEMMA LinkedOf ==
    ASSUME IsLists(lists)
    PROVE  Linked = Of(lists) /\ Abstract!Used = Of(lists)
  <1>1. \A l \in Lists : \A k \in 1 .. Len(lists[l]) : lists[l][k] \in Elem
    BY AtFacts
  <1>2. \A e : e \in Linked <=> \E l \in Lists : \E k \in 1 .. Len(lists[l]) : lists[l][k] = e
    BY DEF Linked, Members
  <1>3. \A e : e \in Abstract!Used <=> \E l \in Lists : \E k \in 1 .. Len(lists[l]) : lists[l][k] = e
    BY DEF Abstract!Used
  <1>4. \A e : e \in Of(lists) <=> \E l \in Lists : \E k \in 1 .. Len(lists[l]) : lists[l][k] = e
    BY <1>1 DEF Of
  <1>5. \A e : e \in Linked <=> e \in Of(lists)
    BY <1>2, <1>4, Zenon
  <1>6. \A e : e \in Abstract!Used <=> e \in Of(lists)
    BY <1>3, <1>4, Zenon
  <1> QED
    BY <1>5, <1>6, Zenon

\* A node that an element may go before.
Behind(S, b) == b \in Of(S) \/ \E l \in Lists : b = tail(l)

LEMMA PlaceOf ==
    ASSUME NEW S, IsLists(S), NEW b, Behind(S, b)
    PROVE  \E m \in Lists : \E k \in 0 .. Len(S[m]) : b = At(m, S[m], k + 1)
  <1>1. CASE b \in Of(S)
    <2>1. PICK m \in Lists : \E h \in 1 .. Len(S[m]) : S[m][h] = b
      BY <1>1 DEF Of
    <2>2. PICK h \in 1 .. Len(S[m]) : S[m][h] = b
      BY <2>1
    <2>3. Len(S[m]) \in Nat /\ At(m, S[m], h) = b
      BY <2>2, AtFacts
    <2> DEFINE k == h - 1
    <2>4. k \in 0 .. Len(S[m]) /\ k + 1 = h
      BY <2>3
    <2> HIDE DEF k
    <2> QED
      BY <2>3, <2>4
  <1>2. CASE \E l \in Lists : b = tail(l)
    <2>1. PICK m \in Lists : b = tail(m)
      BY <1>2
    <2>2. Len(S[m]) \in Nat /\ At(m, S[m], Len(S[m]) + 1) = b
      BY <2>1, AtFacts
    <2>3. Len(S[m]) \in 0 .. Len(S[m])
      BY <2>2
    <2> QED
      BY <2>2, <2>3
  <1> QED
    BY <1>1, <1>2 DEF Behind

LEMMA RelinkedTo ==
    ASSUME NEW q, NEW S, NEW X, Chains(q, S, X), Relinked(q)
    PROVE  links' = q /\ lists' = S
  <1>1. links' = q /\ lists' = [l \in Lists |-> Contents(q, l)]
    BY DEF Relinked
  <1>2. \A l \in Lists : Contents(q, l) = S[l]
    BY ContentsOf
  <1>3. [l \in Lists |-> Contents(q, l)] = [l \in Lists |-> S[l]]
    BY <1>2
  <1>4. S = [l \in Lists |-> S[l]]
    BY DEF Chains, IsLists
  <1> QED
    BY <1>1, <1>3, <1>4

\* Every node with links is a place of a list.
LEMMA NodePlace ==
    ASSUME NEW p, NEW S, Chains(p, S, {}), NEW n \in Node
    PROVE  \/ n \in Elem /\ p.next[n] = NULL /\ p.prev[n] = NULL
           \/ \E l \in Lists : \E k \in 0 .. Len(S[l]) + 1 : n = At(l, S[l], k)
  <1>1. IsLists(S)
    BY DEF Chains
  <1>2. CASE n \in Elem /\ n \notin Of(S)
    BY <1>2 DEF Chains
  <1>3. CASE n \in Of(S)
    <2>1. PICK l \in Lists : \E h \in 1 .. Len(S[l]) : S[l][h] = n
      BY <1>3 DEF Of
    <2>2. PICK h \in 1 .. Len(S[l]) : S[l][h] = n
      BY <2>1
    <2>3. Len(S[l]) \in Nat /\ At(l, S[l], h) = n
      BY <1>1, <2>2, AtFacts
    <2>4. h \in 0 .. Len(S[l]) + 1
      BY <2>3
    <2> QED
      BY <2>3, <2>4
  <1>4. ASSUME NEW l \in Lists, n = head(l) \/ n = tail(l)
        PROVE  \E k \in 0 .. Len(S[l]) + 1 : n = At(l, S[l], k)
    <2>1. /\ Len(S[l]) \in Nat /\ At(l, S[l], 0) = head(l) /\ At(l, S[l], Len(S[l]) + 1) = tail(l)
      BY <1>1, AtFacts
    <2>2. 0 \in 0 .. Len(S[l]) + 1 /\ Len(S[l]) + 1 \in 0 .. Len(S[l]) + 1
      BY <2>1
    <2> QED
      BY <2>1, <2>2, <1>4
  <1> QED
    BY <1>2, <1>3, <1>4, EndFacts
\* What lies behind a link.
LEMMA NextOf ==
    ASSUME NEW p, NEW S, Chains(p, S, {}), NEW n \in Node
    PROVE  \/ p.next[n] = NULL
           \/ /\ p.next[n] \in Node /\ p.prev[p.next[n]] = n
              /\ \A l \in Lists : p.next[n] # head(l)
  <1>1. IsLists(S)
    BY DEF Chains
  <1>2. CASE n \in Elem /\ p.next[n] = NULL
    BY <1>2
  <1>3. ASSUME NEW l \in Lists, NEW k \in 0 .. Len(S[l]) + 1, n = At(l, S[l], k)
        PROVE  \/ p.next[n] = NULL
               \/ /\ p.next[n] \in Node /\ p.prev[p.next[n]] = n
                  /\ \A m \in Lists : p.next[n] # head(m)
    <2>0. Len(S[l]) \in Nat
      BY <1>1, AtFacts
    <2>1. CASE k = Len(S[l]) + 1
      <3>1. n = tail(l)
        BY <1>1, <1>3, <2>1, AtFacts
      <3> QED
        BY <3>1 DEF Chains
    <2>2. CASE k # Len(S[l]) + 1
      <3> DEFINE j == k + 1
      <3>1. k \in 0 .. Len(S[l]) /\ j \in 0 .. Len(S[l]) + 1 /\ j \in 1 .. Len(S[l]) + 1 /\ j - 1 = k /\ j # 0
        BY <2>0, <2>2
      <3>2. p.next[At(l, S[l], k)] = At(l, S[l], j)
        BY <3>1, Neighbours
      <3> HIDE DEF j
      <3>3. p.prev[At(l, S[l], j)] = At(l, S[l], j - 1)
        BY <3>1, Neighbours
      <3>4. p.next[n] = At(l, S[l], j) /\ p.prev[At(l, S[l], j)] = n
        BY <1>3, <3>1, <3>2, <3>3
      <3>5. At(l, S[l], j) \in Node
        BY <1>1, <3>1, AtFacts
      <3>6. ASSUME NEW m \in Lists PROVE At(l, S[l], j) # head(m)
        <4>1. At(m, S[m], 0) = head(m) /\ Len(S[m]) \in Nat
          BY <1>1, AtFacts
        <4>2. 0 \in 0 .. Len(S[m]) + 1
          BY <4>1
        <4> QED
          BY <4>1, <4>2, <3>1, <1>1, AtDistinct
      <3> QED
        BY <3>4, <3>5, <3>6, Zenon
    <2> QED
      BY <2>1, <2>2
  <1> QED
    BY <1>2, <1>3, NodePlace

LEMMA PrevOf ==
    ASSUME NEW p, NEW S, Chains(p, S, {}), NEW n \in Node
    PROVE  \/ p.prev[n] = NULL
           \/ /\ p.prev[n] \in Node /\ p.next[p.prev[n]] = n
              /\ \A l \in Lists : p.prev[n] # tail(l)
  <1>1. IsLists(S)
    BY DEF Chains
  <1>2. CASE n \in Elem /\ p.prev[n] = NULL
    BY <1>2
  <1>3. ASSUME NEW l \in Lists, NEW k \in 0 .. Len(S[l]) + 1, n = At(l, S[l], k)
        PROVE  \/ p.prev[n] = NULL
               \/ /\ p.prev[n] \in Node /\ p.next[p.prev[n]] = n
                  /\ \A m \in Lists : p.prev[n] # tail(m)
    <2>0. Len(S[l]) \in Nat
      BY <1>1, AtFacts
    <2>1. CASE k = 0
      <3>1. n = head(l)
        BY <1>1, <1>3, <2>1, AtFacts
      <3> QED
        BY <3>1 DEF Chains
    <2>2. CASE k # 0
      <3> DEFINE j == k - 1
      <3>1. k \in 1 .. Len(S[l]) + 1 /\ j \in 0 .. Len(S[l]) + 1 /\ j \in 0 .. Len(S[l]) /\ j + 1 = k
            /\ j # Len(S[l]) + 1
        BY <2>0, <2>2
      <3>2. p.prev[At(l, S[l], k)] = At(l, S[l], j)
        BY <3>1, Neighbours
      <3> HIDE DEF j
      <3>3. p.next[At(l, S[l], j)] = At(l, S[l], j + 1)
        BY <3>1, Neighbours
      <3>4. p.prev[n] = At(l, S[l], j) /\ p.next[At(l, S[l], j)] = n
        BY <1>3, <3>1, <3>2, <3>3
      <3>5. At(l, S[l], j) \in Node
        BY <1>1, <3>1, AtFacts
      <3>6. ASSUME NEW m \in Lists PROVE At(l, S[l], j) # tail(m)
        <4>1. At(m, S[m], Len(S[m]) + 1) = tail(m) /\ Len(S[m]) \in Nat
          BY <1>1, AtFacts
        <4>2. Len(S[m]) + 1 \in 0 .. Len(S[m]) + 1
          BY <4>1
        <4>3. ASSUME At(l, S[l], j) = tail(m) PROVE FALSE
          <5>1. l = m /\ j = Len(S[m]) + 1
            BY <4>1, <4>2, <4>3, <3>1, <1>1, AtDistinct
          <5> QED
            BY <5>1, <3>1
        <4> QED
          BY <4>3
      <3> QED
        BY <3>4, <3>5, <3>6, Zenon
    <2> QED
      BY <2>1, <2>2
  <1> QED
    BY <1>2, <1>3, NodePlace

\* The links of lists are proper.
Proper(p) ==
    /\ p.next \in [Node -> (Node \ {head(l) : l \in Lists}) \cup {NULL}]
    /\ p.prev \in [Node -> (Node \ {tail(l) : l \in Lists}) \cup {NULL}]
    /\ \A l \in Lists : /\ \E j \in 1 .. Cardinality(Node) : After(p, head(l), j) = tail(l)
                        /\ p.prev[head(l)] = NULL /\ p.next[tail(l)] = NULL
    /\ \A n \in Node : p.next[n] # NULL => p.prev[p.next[n]] = n
    /\ \A n \in Node : p.prev[n] # NULL => p.next[p.prev[n]] = n

LEMMA ChainsProper ==
    ASSUME NEW p, NEW S, Chains(p, S, {})
    PROVE  Proper(p)
  <1>0. IsLists(S) /\ IsLinks(p)
    BY DEF Chains
  <1>1. p.next = [n \in Node |-> p.next[n]] /\ p.prev = [n \in Node |-> p.prev[n]]
    BY <1>0 DEF IsLinks
  <1>2. \A n \in Node : p.next[n] \in (Node \ {head(l) : l \in Lists}) \cup {NULL}
    BY NextOf
  <1>3. \A n \in Node : p.prev[n] \in (Node \ {tail(l) : l \in Lists}) \cup {NULL}
    BY PrevOf
  <1>4. p.next \in [Node -> (Node \ {head(l) : l \in Lists}) \cup {NULL}]
    BY <1>1, <1>2
  <1>5. p.prev \in [Node -> (Node \ {tail(l) : l \in Lists}) \cup {NULL}]
    BY <1>1, <1>3
  <1>6. ASSUME NEW l \in Lists
        PROVE  \E j \in 1 .. Cardinality(Node) : After(p, head(l), j) = tail(l)
    <2> DEFINE n == Len(S[l])
    <2>1. n \in Nat /\ n <= Cardinality(Elem)
      BY <1>0, ShortLists
    <2>2. Cardinality(Elem) \in Nat /\ Cardinality(Node) = Cardinality(Elem) + 4
      BY NodeCount
    <2>3. n + 1 \in 1 .. Cardinality(Node) /\ n + 1 \in 0 .. n + 1
      BY <2>1, <2>2
    <2>4. After(p, head(l), n + 1) = At(l, S[l], n + 1)
      BY <2>3, WalkList
    <2>5. At(l, S[l], n + 1) = tail(l)
      BY <1>0, AtFacts
    <2> HIDE DEF n
    <2> QED
      BY <2>3, <2>4, <2>5
  <1>7. \A l \in Lists : p.prev[head(l)] = NULL /\ p.next[tail(l)] = NULL
    BY DEF Chains
  <1>8. \A n \in Node : p.next[n] # NULL => p.prev[p.next[n]] = n
    BY NextOf
  <1>9. \A n \in Node : p.prev[n] # NULL => p.next[p.prev[n]] = n
    BY PrevOf
  <1> QED
    BY <1>4, <1>5, <1>6, <1>7, <1>8, <1>9, Zenon DEF Proper
-----------------------------------------------------------------------------
\* Every call leaves the links of lists, and is a step of SequenceList.

Implements == Chains(links', lists', {}) /\ (Abstract!Next \/ lists' = lists)

LEMMA InsertStep ==
    ASSUME Chains(links, lists, {}), NEW m \in Lists, NEW k \in 0 .. Len(lists[m]),
           NEW e \in Elem, e \notin Linked, Relinked(Insert(links, At(m, lists[m], k + 1), e))
    PROVE  Implements /\ lists' = PasteLists(lists, m, k, <<e>>)
  <1> DEFINE q == Insert(links, At(m, lists[m], k + 1), e)
             T == PasteLists(lists, m, k, <<e>>)
  <1>1. IsLists(lists) /\ lists[m] \in Seq(Elem)
    BY AtFacts DEF Chains
  <1>2. Linked = Of(lists) /\ Abstract!Used = Of(lists)
    BY <1>1, LinkedOf
  <1>3. Chains(q, T, {})
    <2>1. Chains(q, T, {} \ {e})
      BY <1>2, InsertAt
    <2>2. {} \ {e} = {}
      OBVIOUS
    <2> QED
      BY <2>1, <2>2, Zenon
  <1>4. links' = q /\ lists' = T
    BY <1>3, RelinkedTo, Zenon
  <1>5. Abstract!InsertedAfter(lists[m], k, <<e>>) = Paste(lists[m], k, <<e>>)
    <2>1. <<e>> \in Seq(Elem)
      OBVIOUS
    <2> QED
      BY <1>1, <2>1, InsertedIsPaste, Zenon
  <1>6. lists' = [lists EXCEPT ![m] = Abstract!InsertedAfter(lists[m], k, <<e>>)]
    BY <1>4, <1>5, Zenon DEF PasteLists
  <1>7. Abstract!Insert(m, k, e)
    BY <1>2, <1>6, Zenon DEF Abstract!Insert
  <1>8. Abstract!Next
    BY <1>7, Zenon DEF Abstract!Next
  <1> QED
    BY <1>3, <1>4, <1>8, Zenon DEF Implements

LEMMA RemoveStep ==
    ASSUME Chains(links, lists, {}), NEW l \in Lists, NEW i \in 1 .. Len(lists[l]),
           NEW e, e = lists[l][i], Relinked(Freed(Unlink(links, e), {e}))
    PROVE  Implements
  <1> DEFINE q == Freed(Unlink(links, e), {e})
             T == CutLists(lists, l, i, i)
  <1>1. IsLists(lists) /\ lists[l] \in Seq(Elem) /\ Len(lists[l]) \in Nat
    BY AtFacts DEF Chains
  <1>2. Chains(q, T, {})
    BY RemoveAt
  <1>3. links' = q /\ lists' = T
    BY <1>2, RelinkedTo, Zenon
  <1>4. i \in i .. Len(lists[l])
    BY <1>1
  <1>5. Abstract!Without(lists[l], i, i) = Cut(lists[l], i, i)
    BY <1>1, <1>4, WithoutIsCut
  <1>6. lists' = [lists EXCEPT ![l] = Abstract!Without(lists[l], i, i)]
    BY <1>3, <1>5, Zenon DEF CutLists
  <1>7. Abstract!Remove(l, i)
    BY <1>6, Zenon DEF Abstract!Remove
  <1>8. Abstract!Next
    BY <1>7, Zenon DEF Abstract!Next
  <1> QED
    BY <1>2, <1>3, <1>8, Zenon DEF Implements

LEMMA InsertCall ==
    ASSUME Chains(links, lists, {}), NEW b \in Linked \cup {tail(l) : l \in Lists},
           NEW e \in Elem, list_insert(b, e)
    PROVE  Implements
  <1>1. IsLists(lists)
    BY DEF Chains
  <1>2. Behind(lists, b)
    BY <1>1, LinkedOf DEF Behind
  <1>3. PICK m \in Lists : \E k \in 0 .. Len(lists[m]) : b = At(m, lists[m], k + 1)
    BY <1>1, <1>2, PlaceOf, Zenon
  <1>4. PICK k \in 0 .. Len(lists[m]) : b = At(m, lists[m], k + 1)
    BY <1>3
  <1>5. e \notin Linked /\ Relinked(Insert(links, b, e))
    BY DEF list_insert, Becomes
  <1> QED
    BY <1>4, <1>5, InsertStep

LEMMA OrderedCall ==
    ASSUME Chains(links, lists, {}), NEW l \in Lists, NEW e \in Elem, list_insert_ordered(l, e)
    PROVE  Implements
  <1>1. PICK k \in 0 .. Len(lists[l]) : OrderedPlace(links, l, e) = At(l, lists[l], k + 1)
    BY OrderedPlaceAt
  <1>2. e \notin Linked /\ Relinked(Insert(links, OrderedPlace(links, l, e), e))
    BY DEF list_insert_ordered, Becomes
  <1> QED
    BY <1>1, <1>2, InsertStep

LEMMA RemoveCall ==
    ASSUME Chains(links, lists, {}), NEW e \in Elem, list_remove(e)
    PROVE  Implements
  <1>1. IsLists(lists)
    BY DEF Chains
  <1>2. e \in Linked /\ Relinked(Freed(Unlink(links, e), {e}))
    BY DEF list_remove, Becomes
  <1>3. PICK l \in Lists : \E i \in 1 .. Len(lists[l]) : lists[l][i] = e
    BY <1>1, <1>2, LinkedOf DEF Of
  <1>4. PICK i \in 1 .. Len(lists[l]) : lists[l][i] = e
    BY <1>3
  <1> QED
    BY <1>2, <1>4, RemoveStep

\* The first and the last element of a list that is not empty.
LEMMA EndsOf ==
    ASSUME NEW p, NEW S, NEW X, Chains(p, S, X), NEW l \in Lists, ~list_empty(p, l)
    PROVE  /\ 1 \in 1 .. Len(S[l]) /\ Len(S[l]) \in 1 .. Len(S[l])
           /\ p.next[head(l)] = S[l][1] /\ p.prev[tail(l)] = S[l][Len(S[l])]
  <1> DEFINE n == Len(S[l])
  <1>1. IsLists(S) /\ n \in Nat /\ n # 0
    BY Emptiness, AtFacts DEF Chains
  <1>2. 1 \in 1 .. n /\ n \in 1 .. n /\ 0 \in 0 .. n /\ n + 1 \in 1 .. n + 1 /\ 0 + 1 = 1 /\ (n + 1) - 1 = n
    BY <1>1
  <1>3. p.next[At(l, S[l], 0)] = At(l, S[l], 0 + 1) /\ p.prev[At(l, S[l], n + 1)] = At(l, S[l], (n + 1) - 1)
    BY <1>2, Neighbours
  <1>4. /\ At(l, S[l], 0) = head(l) /\ At(l, S[l], n + 1) = tail(l)
        /\ At(l, S[l], 1) = S[l][1] /\ At(l, S[l], n) = S[l][n]
    BY <1>1, <1>2, AtFacts
  <1> HIDE DEF n
  <1>5. p.next[head(l)] = S[l][1] /\ p.prev[tail(l)] = S[l][n]
    BY <1>2, <1>3, <1>4
  <1> QED
    BY <1>2, <1>5 DEF n

LEMMA FreeCall ==
    ASSUME Chains(links, lists, {}), NEW l \in Lists, free_file_table(l)
    PROVE  Implements
  <1> DEFINE e == links.next[head(l)]
  <1>1. ~list_empty(links, l) /\ Relinked(Freed(Unlink(Unlink(links, e), e), {e}))
    BY DEF free_file_table, Becomes
  <1>2. 1 \in 1 .. Len(lists[l]) /\ e = lists[l][1]
    BY <1>1, EndsOf
  <1> HIDE DEF e
  <1>3. Unlink(Unlink(links, e), e) = Unlink(links, e)
    BY <1>2, UnlinkTwice
  <1>4. Relinked(Freed(Unlink(links, e), {e}))
    BY <1>1, <1>3
  <1> QED
    BY <1>2, <1>4, RemoveStep

LEMMA PopCall ==
    ASSUME Chains(links, lists, {}), NEW l \in Lists, list_pop_back(l)
    PROVE  Implements
  <1> DEFINE e == links.prev[tail(l)]
  <1>1. ~list_empty(links, l) /\ Relinked(Freed(Unlink(links, e), {e}))
    BY DEF list_pop_back, Becomes
  <1>2. Len(lists[l]) \in 1 .. Len(lists[l]) /\ e = lists[l][Len(lists[l])]
    BY <1>1, EndsOf
  <1> HIDE DEF e
  <1> QED
    BY <1>1, <1>2, RemoveStep

LEMMA ReverseCall ==
    ASSUME Chains(links, lists, {}), NEW l \in Lists, list_reverse(l)
    PROVE  Implements
  <1> DEFINE q == Reversed(links, l)
             T == TurnedLists(lists, l)
  <1>1. Relinked(q)
    BY DEF list_reverse, Becomes
  <1>2. Chains(q, T, {})
    BY ReverseAt
  <1>3. links' = q /\ lists' = T
    BY <1>1, <1>2, RelinkedTo, Zenon
  <1>4. Abstract!Reverse(l)
    BY <1>3, Zenon DEF Abstract!Reverse, TurnedLists, Turned
  <1>5. Abstract!Next
    BY <1>4, Zenon DEF Abstract!Next
  <1> QED
    BY <1>2, <1>3, <1>5, Zenon DEF Implements
\* What is spliced goes to a place that the lists have without it.
LEMMA SpliceStep ==
    ASSUME Chains(links, lists, {}), NEW l \in Lists, NEW i \in 1 .. Len(lists[l]),
           NEW j \in i .. Len(lists[l]), NEW m \in Lists,
           NEW k \in 0 .. Len(CutLists(lists, l, i, j)[m]),
           Relinked(Splice(links, At(m, CutLists(lists, l, i, j)[m], k + 1), lists[l][i], links.next[lists[l][j]]))
    PROVE  /\ Implements
           /\ lists' = PasteLists(CutLists(lists, l, i, j), m, k, Part(lists[l], i, j))
  <1> DEFINE T == CutLists(lists, l, i, j)
             t == Part(lists[l], i, j)
             U == PasteLists(T, m, k, t)
             q == Splice(links, At(m, T[m], k + 1), lists[l][i], links.next[lists[l][j]])
  <1>1. IsLists(lists) /\ lists[l] \in Seq(Elem) /\ Len(lists[l]) \in Nat
    BY AtFacts DEF Chains
  <1>2. Chains(q, U, {})
    BY SpliceAt
  <1>3. links' = q /\ lists' = U
    BY <1>2, RelinkedTo, Zenon
  <1>4. T = [lists EXCEPT ![l] = Abstract!Without(lists[l], i, j)]
    <2>1. Abstract!Without(lists[l], i, j) = Cut(lists[l], i, j)
      BY <1>1, WithoutIsCut
    <2> QED
      BY <2>1, Zenon DEF CutLists
  <1>5. t = SubSeq(lists[l], i, j)
    BY <1>1, PartOf
  <1>6. t \in Seq(Elem)
    BY <1>1, <1>5, SubSeqProperties
  <1>7. IsLists(T)
    BY <1>1, CutListsFacts, Zenon
  <1>8. T[m] \in Seq(Elem) /\ Len(T[m]) \in Nat
    BY <1>7, AtFacts, Zenon
  <1>9. Abstract!InsertedAfter(T[m], k, t) = Paste(T[m], k, t)
    BY <1>6, <1>8, InsertedIsPaste, Zenon
  <1>10. U = [T EXCEPT ![m] = Abstract!InsertedAfter(T[m], k, t)]
    BY <1>9, Zenon DEF PasteLists
  <1>11. k \in 0 .. Len(lists[m]) - (IF m = l THEN j + 1 - i ELSE 0)
    <2>1. CASE m = l
      <3>1. T[m] = Cut(lists[l], i, j)
        BY <2>1, <1>1, CutListsFacts
      <3>2. Len(T[m]) = Len(lists[l]) - (j + 1 - i)
        BY <1>1, <3>1, CutSeq
      <3> QED
        BY <2>1, <3>2
    <2>2. CASE m # l
      <3>1. T[m] = lists[m]
        BY <2>2, <1>1, CutListsFacts
      <3>2. Len(lists[m]) \in Nat
        BY <1>1, AtFacts
      <3> QED
        BY <2>2, <3>1, <3>2
    <2> QED
      BY <2>1, <2>2
  <1> HIDE DEF T, t, U, q
  <1>12. Abstract!Move(l, i, j, m, k)
    BY <1>3, <1>4, <1>5, <1>10, Zenon DEF Abstract!Move
  <1>13. i \in 1 .. Len(lists[l]) /\ j \in 1 .. Len(lists[l]) /\ i <= j
    BY <1>1
  <1>14. Abstract!Next
    BY <1>11, <1>12, <1>13, Zenon DEF Abstract!Next
  <1>15. Implements
    BY <1>2, <1>3, <1>14, Zenon DEF Implements
  <1> QED
    BY <1>3, <1>15 DEF U, T, t

LEMMA SpliceCall ==
    ASSUME Chains(links, lists, {}), NEW l \in Lists, NEW b \in Linked \cup {tail(m) : m \in Lists},
           NEW i \in 1 .. Len(lists[l]), NEW j \in i .. Len(lists[l]), list_splice(l, i, j, b)
    PROVE  Implements
  <1> DEFINE T == CutLists(lists, l, i, j)
  <1>1. IsLists(lists)
    BY DEF Chains
  <1>2. /\ \A k \in i .. j : b # lists[l][k]
        /\ Relinked(Splice(links, b, lists[l][i], links.next[lists[l][j]]))
    BY DEF list_splice, Becomes
  <1>3. /\ IsLists(T)
        /\ \A e \in Elem : e \in Of(lists) <=> e \in Of(T) \/ \E k \in i .. j : e = lists[l][k]
    BY <1>1, CutListsFacts, Zenon
  <1>4. Behind(T, b)
    <2>1. b \in Of(lists) \/ \E m \in Lists : b = tail(m)
      BY <1>1, LinkedOf
    <2>2. b \in Of(lists) => b \in Elem
      BY DEF Of
    <2> QED
      BY <1>2, <1>3, <2>1, <2>2, Zenon DEF Behind
  <1> HIDE DEF T
  <1>5. PICK m \in Lists : \E k \in 0 .. Len(T[m]) : b = At(m, T[m], k + 1)
    <2>1. IsLists(T)
      BY <1>3
    <2> QED
      BY <2>1, <1>4, PlaceOf
  <1>6. PICK k \in 0 .. Len(T[m]) : b = At(m, T[m], k + 1)
    BY <1>5
  <1>7. Relinked(Splice(links, At(m, T[m], k + 1), lists[l][i], links.next[lists[l][j]]))
    BY <1>2, <1>6, Zenon
  <1> QED
    BY <1>7, SpliceStep, Zenon DEF T
\* The places of the elements that are left are those of no element taken out.
Apart(g, a, h, b, n) ==
    /\ Increasing(g, a, n) /\ Increasing(h, b, n)
    /\ \A x \in 1 .. n : x \in Listed(g, a) \/ x \in Listed(h, b)
    /\ \A i \in 1 .. a : \A j \in 1 .. b : g[i] # h[j]

LEMMA OtherPlaces ==
    ASSUME NEW g, NEW h, NEW a \in Nat, NEW b \in Nat, NEW n \in Nat, Apart(g, a, h, b, n)
    PROVE  Listed(h, b) \in SUBSET (1 .. n) /\ (1 .. n) \ Listed(h, b) = Listed(g, a)
  <1>1. \A x \in Listed(h, b) : x \in 1 .. n
    BY DEF Listed, Increasing, Apart
  <1>2. \A x \in Listed(g, a) : x \in 1 .. n
    BY DEF Listed, Increasing, Apart
  <1>3. \A x \in Listed(g, a) : x \notin Listed(h, b)
    BY DEF Listed, Apart
  <1>4. \A x : x \in (1 .. n) \ Listed(h, b) <=> x \in Listed(g, a)
    BY <1>2, <1>3 DEF Apart
  <1> QED
    BY <1>1, <1>4, Zenon

LEMMA ChosenSeq ==
    ASSUME NEW s \in Seq(Elem), NEW k \in Nat, NEW f, Increasing(f, k, Len(s))
    PROVE  LET c == Abstract!Chosen(s, Listed(f, k))
           IN  c \in Seq(Elem) /\ Len(c) = k /\ \A i \in 1 .. k : c[i] = s[f[i]]
  <1> DEFINE c == Abstract!Chosen(s, Listed(f, k))
  <1>1. Len(s) \in Nat
    OBVIOUS
  <1>2. c = [i \in 1 .. k |-> s[f[i]]]
    BY <1>1, ChosenListed
  <1>3. \A i \in 1 .. k : s[f[i]] \in Elem
    BY DEF Increasing
  <1> HIDE DEF c
  <1>4. c \in Seq(Elem) /\ Len(c) = k
    BY <1>2, <1>3
  <1>5. \A i \in 1 .. k : c[i] = s[f[i]]
    BY <1>2
  <1> QED
    BY <1>4, <1>5 DEF c

\* T is S where the elements of "list" at the places K have left it.
Dropped(S, T, K, keep) ==
    LET left == [S EXCEPT !["list"] = Abstract!Chosen(S["list"], (1 .. Len(S["list"])) \ K)]
    IN  /\ K \in SUBSET (1 .. Len(S["list"]))
        /\ keep => T = [left EXCEPT !["duplicates"] = left["duplicates"] \o Abstract!Chosen(S["list"], K)]
        /\ ~keep => T = left

LEMMA UniqueStep ==
    ASSUME NEW r, NEW keep \in BOOLEAN, NEW S, NEW T, NEW g, NEW h, NEW b, NEW c,
           UniqueAt(r, keep, S, T, g, h, b, c)
    PROVE  Dropped(S, T, Listed(h, b), keep)
  <1> DEFINE s == S["list"]
             d == S["duplicates"]
             n == Len(s)
             a == Len(T["list"])
             u == Abstract!Chosen(s, Listed(g, a))
             v == Abstract!Chosen(s, Listed(h, b))
             left == [S EXCEPT !["list"] = Abstract!Chosen(s, (1 .. n) \ Listed(h, b))]
  <1>0. "list" \in Lists /\ "duplicates" \in Lists /\ "list" # "duplicates"
    BY DEF Lists
  <1>1. /\ IsLists(S) /\ Chains(r.links, T, {})
        /\ Increasing(g, a, n) /\ b \in Nat /\ Increasing(h, b, n)
        /\ \A x \in 1 .. n : x \in Listed(g, a) \/ x \in Listed(h, b)
        /\ \A i \in 1 .. a : \A j \in 1 .. b : g[i] # h[j]
        /\ \A i \in 1 .. a : T["list"][i] = s[g[i]]
    BY DEF UniqueAt
  <1>2. IsLists(T)
    BY <1>1 DEF Chains
  <1>3. s \in Seq(Elem) /\ n \in Nat /\ d \in Seq(Elem) /\ Len(d) \in Nat
    BY <1>0, <1>1, AtFacts
  <1>4. T["list"] \in Seq(Elem) /\ a \in Nat /\ T["duplicates"] \in Seq(Elem)
    BY <1>0, <1>2, AtFacts
  <1>5. Listed(h, b) \in SUBSET (1 .. n) /\ (1 .. n) \ Listed(h, b) = Listed(g, a)
    <2>1. Apart(g, a, h, b, n)
      BY <1>1 DEF Apart
    <2>2. a \in Nat /\ b \in Nat /\ n \in Nat
      BY <1>1, <1>3, <1>4
    <2> HIDE DEF a, n
    <2> QED
      BY <2>1, <2>2, OtherPlaces
  <1>6. u \in Seq(Elem) /\ Len(u) = a /\ \A i \in 1 .. a : u[i] = s[g[i]]
    <2>1. Increasing(g, a, Len(s)) /\ a \in Nat /\ s \in Seq(Elem)
      BY <1>1, <1>3, <1>4
    <2> HIDE DEF a, s
    <2> QED
      BY <2>1, ChosenSeq
  <1>7. v \in Seq(Elem) /\ Len(v) = b /\ \A i \in 1 .. b : v[i] = s[h[i]]
    <2>1. Increasing(h, b, Len(s)) /\ b \in Nat /\ s \in Seq(Elem)
      BY <1>1, <1>3
    <2> HIDE DEF s
    <2> QED
      BY <2>1, ChosenSeq
  <1>8. T["list"] = u
    <2> HIDE DEF u
    <2> QED
      BY <1>1, <1>4, <1>6, SameSeq
  <1>9. left = [S EXCEPT !["list"] = u]
    BY <1>5, Zenon
  <1>10. S = [l \in Lists |-> S[l]] /\ T = [l \in Lists |-> T[l]]
    BY <1>1, <1>2 DEF IsLists
  <1>11. \A l \in Lists : l = "list" \/ l = "duplicates"
    BY DEF Lists
  <1>12. DOMAIN left = Lists /\ left["list"] = u /\ left["duplicates"] = d
    BY <1>0, <1>9, <1>10
  <1>13. left = [l \in Lists |-> left[l]]
    BY <1>9, <1>10
  <1>14. ASSUME keep
         PROVE  T = [left EXCEPT !["duplicates"] = left["duplicates"] \o v]
    <2>1. /\ Len(T["duplicates"]) = Len(d) + b
          /\ \A i \in 1 .. Len(d) : T["duplicates"][i] = d[i]
          /\ \A j \in 1 .. b : T["duplicates"][Len(d) + j] = s[h[j]]
      BY <1>14 DEF UniqueAt
    <2> DEFINE w == d \o v
               z == T["duplicates"]
    <2> HIDE DEF v, d, s, u, left, a, n
    <2>2. /\ w \in Seq(Elem) /\ Len(w) = Len(d) + Len(v)
          /\ \A i \in 1 .. Len(d) + Len(v) : w[i] = IF i <= Len(d) THEN d[i] ELSE v[i - Len(d)]
      <3>1. d \in Seq(Elem) /\ v \in Seq(Elem)
        BY <1>3, <1>7
      <3> QED
        BY <3>1, ConcatProperties, Zenon
    <2>3. z \in Seq(Elem) /\ Len(z) = Len(d) + b
      BY <1>4, <2>1
    <2>4. /\ \A i \in 1 .. Len(d) : z[i] = d[i]
          /\ \A j \in 1 .. b : z[Len(d) + j] = s[h[j]]
      BY <2>1
    <2> HIDE DEF w, z
    <2>5. ASSUME NEW i \in 1 .. Len(d) + b PROVE z[i] = w[i]
      <3>1. CASE i <= Len(d)
        BY <3>1, <1>1, <1>3, <1>7, <2>2, <2>4
      <3>2. CASE ~(i <= Len(d))
        <4> DEFINE j == i - Len(d)
        <4>1. j \in 1 .. b /\ Len(d) + j = i
          BY <3>2, <1>1, <1>3
        <4>2. w[i] = v[j]
          BY <3>2, <1>7, <2>2
        <4> HIDE DEF j
        <4> QED
          BY <4>1, <4>2, <1>7, <2>4
      <3> QED
        BY <3>1, <3>2
    <2>6. z = w
      BY <1>7, <2>2, <2>3, <2>5, SameSeq
    <2> DEFINE L == [left EXCEPT !["duplicates"] = left["duplicates"] \o v]
    <2>7. \A l \in Lists : T[l] = L[l]
      BY <1>0, <1>8, <1>11, <1>12, <2>6 DEF w, z
    <2>8. L = [l \in Lists |-> L[l]]
      BY <1>13
    <2> HIDE DEF L
    <2>9. T = L
      BY <1>10, <2>7, <2>8
    <2> QED
      BY <2>9 DEF L
  <1>15. ASSUME ~keep PROVE T = left
    <2>1. T["duplicates"] = d
      BY <1>15 DEF UniqueAt
    <2>2. \A l \in Lists : T[l] = left[l]
      BY <1>8, <1>11, <1>12, <2>1
    <2> HIDE DEF left
    <2> QED
      BY <1>10, <1>13, <2>2
  <1> QED
    BY <1>5, <1>14, <1>15, Zenon DEF Dropped

LEMMA UniqueCall ==
    ASSUME Chains(links, lists, {}), NEW keep \in BOOLEAN, list_unique(keep)
    PROVE  Implements
  <1>1. Relinked(Unique(links, keep))
    BY DEF list_unique, Becomes
  <1>2. CASE list_empty(links, "list")
    <2>1. Unique(links, keep) = links
      BY <1>2 DEF Unique
    <2>2. links' = links /\ lists' = lists
      BY <1>1, <2>1, RelinkedTo
    <2> QED
      BY <2>2 DEF Implements
  <1>3. CASE ~list_empty(links, "list")
    <2>1. PICK r : UniqueInv(r, keep, lists) /\ r.links = Unique(links, keep)
      BY <1>3, UniqueEnds
    <2>2. PICK T, g, h, b, c : UniqueAt(r, keep, lists, T, g, h, b, c)
      BY <2>1, Zenon DEF UniqueInv
    <2>3. Chains(r.links, T, {})
      BY <2>2 DEF UniqueAt
    <2>4. links' = r.links /\ lists' = T
      BY <1>1, <2>1, <2>3, RelinkedTo
    <2> DEFINE K == Listed(h, b)
               s == lists["list"]
               left == [lists EXCEPT !["list"] = Abstract!Chosen(s, (1 .. Len(s)) \ K)]
    <2>5. /\ K \in SUBSET (1 .. Len(s))
          /\ keep => T = [left EXCEPT !["duplicates"] = left["duplicates"] \o Abstract!Chosen(s, K)]
          /\ ~keep => T = left
      <3>1. Dropped(lists, T, K, keep)
        BY <2>2, UniqueStep
      <3> QED
        BY <3>1, Zenon DEF Dropped
    <2>6. "list" \in Lists /\ "duplicates" \in Lists \ {"list"}
      BY DEF Lists
    <2> HIDE DEF K
    <2>7. Abstract!Drop("list")
      BY <2>4, <2>5, <2>6, Zenon DEF Abstract!Drop
    <2>8. Abstract!Next
      BY <2>6, <2>7, Zenon DEF Abstract!Next
    <2> QED
      BY <2>3, <2>4, <2>8 DEF Implements
  <1> QED
    BY <1>2, <1>3
-----------------------------------------------------------------------------
\* list_sort.

\* The places i .. j of s hold a run.
RunOf(s, i, j) == \A k \in i + 1 .. j : ~less(s[k], s[k - 1])

LEMMA KeyFacts ==
    /\ \A e \in Elem : key[e] \in Nat
    /\ \A d, e \in Elem : ~less(d, e) => key[e] <= key[d]
    /\ \A d, e \in Elem : key[e] <= key[d] => ~less(d, e)
    /\ \A d, e \in Elem : less(d, e) => key[d] < key[e]
  BY ElemAssumption DEF less

\* The first element of a run is a least one.
LEMMA RunBound ==
    ASSUME NEW s \in Seq(Elem), NEW x \in 1 .. Len(s), NEW y \in x .. Len(s), RunOf(s, x, y)
    PROVE  \A i \in x .. y : key[s[x]] <= key[s[i]]
  <1> DEFINE bad == {i \in x .. y : ~(key[s[x]] <= key[s[i]])}
  <1>0. x \in Nat /\ y \in Nat /\ Len(s) \in Nat /\ x >= 1 /\ y <= Len(s)
    OBVIOUS
  <1>1. ASSUME bad # {} PROVE FALSE
    <2>1. bad \subseteq Nat
      BY <1>0
    <2>2. PICK i \in bad : \A j \in bad : i <= j
      BY <1>1, <2>1, LeastNat, Zenon
    <2>3. i \in x .. y /\ ~(key[s[x]] <= key[s[i]])
      BY <2>2
    <2>4. s[x] \in Elem /\ s[i] \in Elem
      BY <2>3, <1>0
    <2>5. i # x
      BY <2>3, <2>4, KeyFacts
    <2>6. i \in x + 1 .. y /\ i - 1 \in x .. y /\ ~(i <= i - 1) /\ i - 1 \in 1 .. Len(s)
      BY <2>3, <2>5, <1>0
    <2>7. i - 1 \notin bad
      BY <2>2, <2>6
    <2>8. key[s[x]] <= key[s[i - 1]]
      BY <2>6, <2>7
    <2>9. ~less(s[i], s[i - 1])
      BY <2>6 DEF RunOf
    <2>10. s[i - 1] \in Elem
      BY <2>6
    <2> QED
      BY <2>3, <2>4, <2>8, <2>9, <2>10, KeyFacts
  <1> QED
    BY <1>1

\* s is b in another order in which equal elements are in the order of b: the element at
\* place i was at place g[i].
Stable(s, b, g) ==
    /\ b \in Seq(Elem) /\ s \in Seq(Elem) /\ Len(s) = Len(b)
    /\ \A i, j \in 1 .. Len(b) : b[i] = b[j] => i = j
    /\ g \in [1 .. Len(b) -> 1 .. Len(b)]
    /\ \A i \in 1 .. Len(b) : s[i] = b[g[i]]
    /\ \A k \in 1 .. Len(b) : \E i \in 1 .. Len(b) : g[i] = k
    /\ \A i, j \in 1 .. Len(b) : i < j /\ key[s[i]] = key[s[j]] => g[i] < g[j]

IsStable(s, b) == \E g : Stable(s, b, g)

LEMMA StableBegins ==
    ASSUME NEW b \in Seq(Elem), \A i, j \in 1 .. Len(b) : b[i] = b[j] => i = j
    PROVE  IsStable(b, b)
  <1> DEFINE g == [i \in 1 .. Len(b) |-> i]
  <1>1. Len(b) \in Nat
    OBVIOUS
  <1>2. g \in [1 .. Len(b) -> 1 .. Len(b)] /\ \A i \in 1 .. Len(b) : g[i] = i
    OBVIOUS
  <1> HIDE DEF g
  <1>3. \A i \in 1 .. Len(b) : b[i] = b[g[i]]
    BY <1>2
  <1>4. \A k \in 1 .. Len(b) : \E i \in 1 .. Len(b) : g[i] = k
    BY <1>2
  <1>5. \A i, j \in 1 .. Len(b) : i < j /\ key[b[i]] = key[b[j]] => g[i] < g[j]
    BY <1>2
  <1>6. Stable(b, b, g)
    BY <1>2, <1>3, <1>4, <1>5, Zenon DEF Stable
  <1> QED
    BY <1>6 DEF IsStable

\* What list_sort returns.
SortedAs(s, b) ==
    LET Old(e) == CHOOSE k \in 1 .. Len(b) : b[k] = e
    IN  /\ Members(s) = Members(b) /\ Len(s) = Len(b)
        /\ \A k \in 2 .. Len(s) : \/ less(s[k - 1], s[k])
                                  \/ key[s[k - 1]] = key[s[k]] /\ Old(s[k - 1]) < Old(s[k])

LEMMA StableEnds ==
    ASSUME NEW s, NEW b, IsStable(s, b), RunOf(s, 1, Len(s))
    PROVE  SortedAs(s, b)
  <1> DEFINE n == Len(b)
             Old(e) == CHOOSE k \in 1 .. n : b[k] = e
  <1>1. PICK g : Stable(s, b, g)
    BY DEF IsStable
  <1>2. /\ b \in Seq(Elem) /\ s \in Seq(Elem) /\ Len(s) = n /\ n \in Nat
        /\ g \in [1 .. n -> 1 .. n]
    BY <1>1 DEF Stable
  <1>3. \A i \in 1 .. n : s[i] = b[g[i]] /\ g[i] \in 1 .. n
    BY <1>1 DEF Stable
  <1>4. \A k \in 1 .. n : \E i \in 1 .. n : g[i] = k
    BY <1>1 DEF Stable
  <1>5. \A i, j \in 1 .. n : b[i] = b[j] => i = j
    BY <1>1 DEF Stable
  <1>6. \A i, j \in 1 .. n : i < j /\ key[s[i]] = key[s[j]] => g[i] < g[j]
    BY <1>1 DEF Stable
  <1>7. \A k \in 2 .. n : ~less(s[k], s[k - 1])
    BY <1>2 DEF RunOf
  <1> HIDE DEF n
  <1>8. ASSUME NEW i \in 1 .. n PROVE Old(s[i]) = g[i]
    <2>1. g[i] \in 1 .. n /\ b[g[i]] = s[i]
      BY <1>3
    <2>2. Old(s[i]) \in 1 .. n /\ b[Old(s[i])] = s[i]
      BY <2>1
    <2> HIDE DEF Old
    <2> QED
      BY <2>1, <2>2, <1>5
  <1>9. Members(s) = Members(b)
    <2>1. \A e : e \in Members(s) <=> \E i \in 1 .. n : s[i] = e
      BY <1>2 DEF Members
    <2>2. \A e : e \in Members(b) <=> \E i \in 1 .. n : b[i] = e
      BY <1>2 DEF Members, n
    <2>3. \A e : e \in Members(s) <=> e \in Members(b)
      <3>1. ASSUME NEW i \in 1 .. n PROVE \E j \in 1 .. n : b[j] = s[i]
        BY <1>3
      <3>2. ASSUME NEW i \in 1 .. n PROVE \E j \in 1 .. n : s[j] = b[i]
        <4>1. PICK j \in 1 .. n : g[j] = i
          BY <1>4, Zenon
        <4>2. s[j] = b[g[j]]
          BY <1>3, Zenon
        <4> QED
          BY <4>1, <4>2, Zenon
      <3> QED
        BY <2>1, <2>2, <3>1, <3>2, Zenon
    <2> QED
      BY <2>3, Zenon
  <1>10. ASSUME NEW k \in 2 .. n
         PROVE  less(s[k - 1], s[k]) \/ (key[s[k - 1]] = key[s[k]] /\ Old(s[k - 1]) < Old(s[k]))
    <2> DEFINE j == k - 1
    <2>1. j \in 1 .. n /\ k \in 1 .. n /\ j < k
      BY <1>2
    <2>2. ~less(s[k], s[j])
      BY <1>7
    <2> HIDE DEF j
    <2>3. s[j] \in Elem /\ s[k] \in Elem
      BY <2>1, <1>2
    <2>4. less(s[j], s[k]) \/ key[s[j]] = key[s[k]]
      BY <2>2, <2>3, KeyFacts DEF less
    <2>5. Old(s[j]) = g[j] /\ Old(s[k]) = g[k]
      BY <1>8, <2>1, Zenon
    <2>6. key[s[j]] = key[s[k]] => g[j] < g[k]
      BY <1>6, <2>1
    <2> HIDE DEF Old
    <2>7. less(s[j], s[k]) \/ (key[s[j]] = key[s[k]] /\ Old(s[j]) < Old(s[k]))
      BY <2>4, <2>5, <2>6
    <2> QED
      BY <2>7 DEF j
  <1> QED
    BY <1>2, <1>9, <1>10, Zenon DEF SortedAs, n
\* The element at place y goes to place x; those from x on make room.
From(x, y, h) == IF h = x THEN y ELSE IF x < h /\ h <= y THEN h - 1 ELSE h

Moved(s, s2, x, y) ==
    /\ s \in Seq(Elem) /\ s2 \in Seq(Elem) /\ Len(s2) = Len(s)
    /\ x \in 1 .. Len(s) /\ y \in x + 1 .. Len(s)
    /\ \A h \in 1 .. Len(s) : s2[h] = s[From(x, y, h)]

LEMMA FromFacts ==
    ASSUME NEW n \in Nat, NEW x \in 1 .. n, NEW y \in x + 1 .. n
    PROVE  /\ \A h \in 1 .. n : From(x, y, h) \in 1 .. n
           /\ \A h, i \in 1 .. n : h < i => From(x, y, h) < From(x, y, i) \/ (h = x /\ x < i /\ i <= y)
           /\ \A k \in 1 .. n : \E h \in 1 .. n : From(x, y, h) = k
  <1>1. \A h \in 1 .. n : From(x, y, h) \in 1 .. n
    BY DEF From
  <1>2. \A h, i \in 1 .. n : h < i => From(x, y, h) < From(x, y, i) \/ (h = x /\ x < i /\ i <= y)
    BY DEF From
  <1>3. ASSUME NEW k \in 1 .. n PROVE \E h \in 1 .. n : From(x, y, h) = k
    <2>1. CASE k = y
      <3>1. x \in 1 .. n /\ From(x, y, x) = k
        BY <2>1 DEF From
      <3> QED
        BY <3>1
    <2>2. CASE k >= x /\ k < y
      <3>1. k + 1 \in 1 .. n /\ From(x, y, k + 1) = k
        BY <2>2 DEF From
      <3> QED
        BY <3>1
    <2>3. CASE k < x \/ k > y
      <3>1. From(x, y, k) = k
        BY <2>3 DEF From
      <3> QED
        BY <3>1
    <2> QED
      BY <2>1, <2>2, <2>3
  <1> QED
    BY <1>1, <1>2, <1>3

LEMMA StableMoves ==
    ASSUME NEW s, NEW s2, NEW b, NEW x, NEW y, IsStable(s, b), Moved(s, s2, x, y),
           RunOf(s, x, y - 1), less(s[y], s[x])
    PROVE  IsStable(s2, b)
  <1> DEFINE n == Len(b)
             f(h) == From(x, y, h)
  <1>1. PICK g : Stable(s, b, g)
    BY DEF IsStable
  <1>2. /\ b \in Seq(Elem) /\ s \in Seq(Elem) /\ Len(s) = n /\ n \in Nat
        /\ g \in [1 .. n -> 1 .. n]
    BY <1>1 DEF Stable
  <1>3. \A i \in 1 .. n : s[i] = b[g[i]] /\ g[i] \in 1 .. n
    BY <1>1 DEF Stable
  <1>4. \A k \in 1 .. n : \E i \in 1 .. n : g[i] = k
    BY <1>1 DEF Stable
  <1>5. \A i, j \in 1 .. n : b[i] = b[j] => i = j
    BY <1>1 DEF Stable
  <1>6. \A i, j \in 1 .. n : i < j /\ key[s[i]] = key[s[j]] => g[i] < g[j]
    BY <1>1 DEF Stable
  <1>7. /\ s2 \in Seq(Elem) /\ Len(s2) = n /\ x \in 1 .. n /\ y \in x + 1 .. n
        /\ \A h \in 1 .. n : s2[h] = s[f(h)]
    BY <1>2 DEF Moved
  <1>8. \A h \in 1 .. n : f(h) \in 1 .. n
    BY <1>2, <1>7, FromFacts
  <1>9. \A h, i \in 1 .. n : h < i => f(h) < f(i) \/ (h = x /\ x < i /\ i <= y)
    BY <1>2, <1>7, FromFacts
  <1>10. \A k \in 1 .. n : \E h \in 1 .. n : f(h) = k
    BY <1>2, <1>7, FromFacts
  <1>11. \A i \in x + 1 .. y : key[s[y]] < key[s[f(i)]] /\ f(x) = y
    <2>1. x \in 1 .. Len(s) /\ y - 1 \in x .. Len(s) /\ y \in 1 .. Len(s)
      BY <1>2, <1>7
    <2>2. \A i \in x .. y - 1 : key[s[x]] <= key[s[i]]
      BY <2>1, <1>2, RunBound
    <2>3. \A i \in 1 .. Len(s) : s[i] \in Elem
      BY <1>2
    <2>4. key[s[y]] < key[s[x]] /\ key[s[x]] \in Nat /\ key[s[y]] \in Nat
      BY <2>1, <2>3, KeyFacts
    <2>5. ASSUME NEW i \in x + 1 .. y PROVE f(i) \in x .. y - 1 /\ f(i) \in 1 .. Len(s)
      BY <1>2, <1>7 DEF From
    <2>6. f(x) = y
      BY DEF From
    <2> HIDE DEF f
    <2>7. ASSUME NEW i \in x + 1 .. y PROVE key[s[y]] < key[s[f(i)]]
      BY <2>2, <2>3, <2>4, <2>5, KeyFacts
    <2> QED
      BY <2>6, <2>7
  <1> HIDE DEF n, f
  <1> DEFINE g2 == [h \in 1 .. n |-> g[f(h)]]
  <1>12. g2 \in [1 .. n -> 1 .. n] /\ \A h \in 1 .. n : g2[h] = g[f(h)]
    BY <1>2, <1>8
  <1> HIDE DEF g2
  <1>13. ASSUME NEW i \in 1 .. n PROVE s2[i] = b[g2[i]]
    <2>1. f(i) \in 1 .. n /\ g2[i] = g[f(i)] /\ s2[i] = s[f(i)]
      BY <1>7, <1>8, <1>12, Zenon
    <2>2. s[f(i)] = b[g[f(i)]]
      BY <2>1, <1>3, Zenon
    <2> QED
      BY <2>1, <2>2, Zenon
  <1>14. ASSUME NEW k \in 1 .. n PROVE \E i \in 1 .. n : g2[i] = k
    <2>1. PICK j \in 1 .. n : g[j] = k
      BY <1>4
    <2>2. PICK h \in 1 .. n : f(h) = j
      BY <1>10
    <2> QED
      BY <2>1, <2>2, <1>12
  <1>15. ASSUME NEW i \in 1 .. n, NEW j \in 1 .. n, i < j, key[s2[i]] = key[s2[j]]
         PROVE  g2[i] < g2[j]
    <2>1. s2[i] = s[f(i)] /\ s2[j] = s[f(j)] /\ g2[i] = g[f(i)] /\ g2[j] = g[f(j)]
      BY <1>7, <1>12
    <2>2. CASE f(i) < f(j)
      BY <2>1, <2>2, <1>6, <1>8, <1>15
    <2>3. CASE i = x /\ x < j /\ j <= y
      <3>1. j \in x + 1 .. y
        BY <2>3, <1>7, <1>2
      <3>2. key[s[y]] < key[s[f(j)]] /\ f(i) = y
        BY <3>1, <2>3, <1>11
      <3>3. s[y] \in Elem
        BY <1>2, <1>7
      <3>4. key[s[y]] = key[s[f(j)]] /\ key[s[y]] \in Nat
        BY <3>2, <3>3, <2>1, <1>15, KeyFacts
      <3> QED
        BY <3>2, <3>4
    <2> QED
      BY <2>2, <2>3, <1>9, <1>15
  <1>16. Stable(s2, b, g2)
    BY <1>2, <1>5, <1>7, <1>12, <1>13, <1>14, <1>15, Zenon DEF Stable, n
  <1> QED
    BY <1>16 DEF IsStable
\* The elements w .. x - 1 are merged; the runs x .. y - 1 and y .. z - 1 are left.
Merged(s, w, x, y, z) ==
    /\ RunOf(s, w, x - 1)
    /\ x > w => (x < y => ~less(s[x], s[x - 1])) /\ (y < z => ~less(s[y], s[x - 1]))

LEMMA MovedFacts ==
    ASSUME NEW s, NEW s2, NEW x, NEW y, Moved(s, s2, x, y)
    PROVE  /\ x \in Nat /\ y \in Nat /\ Len(s) \in Nat /\ 1 <= x /\ x < y /\ y <= Len(s)
           /\ \A h \in 1 .. x - 1 : s2[h] = s[h]
           /\ s2[x] = s[y]
           /\ \A h \in x + 1 .. y : s2[h] = s[h - 1]
           /\ \A h \in y + 1 .. Len(s) : s2[h] = s[h]
  <1>1. x \in Nat /\ y \in Nat /\ Len(s) \in Nat /\ 1 <= x /\ x < y /\ y <= Len(s)
    BY DEF Moved
  <1>2. \A h \in 1 .. Len(s) : s2[h] = s[From(x, y, h)]
    BY DEF Moved
  <1>3. ASSUME NEW h \in 1 .. x - 1 PROVE s2[h] = s[h]
    <2>1. h \in 1 .. Len(s) /\ From(x, y, h) = h
      BY <1>1 DEF From
    <2> QED
      BY <2>1, <1>2
  <1>4. s2[x] = s[y]
    <2>1. x \in 1 .. Len(s) /\ From(x, y, x) = y
      BY <1>1 DEF From
    <2> QED
      BY <2>1, <1>2
  <1>5. ASSUME NEW h \in x + 1 .. y PROVE s2[h] = s[h - 1]
    <2>1. h \in 1 .. Len(s) /\ From(x, y, h) = h - 1
      BY <1>1 DEF From
    <2> QED
      BY <2>1, <1>2
  <1>6. ASSUME NEW h \in y + 1 .. Len(s) PROVE s2[h] = s[h]
    <2>1. h \in 1 .. Len(s) /\ From(x, y, h) = h
      BY <1>1 DEF From
    <2> QED
      BY <2>1, <1>2
  <1> QED
    BY <1>1, <1>3, <1>4, <1>5, <1>6

\* A round of inplace_merge that moves an element of the second run.
LEMMA MergeMoves ==
    ASSUME NEW s, NEW s2, NEW x, NEW y, Moved(s, s2, x, y), NEW z \in y + 1 .. Len(s) + 1,
           NEW w \in 1 .. x,
           RunOf(s, x, y - 1), RunOf(s, y, z - 1), less(s[y], s[x])
    PROVE  /\ RunOf(s2, x + 1, y) /\ RunOf(s2, y + 1, z - 1)
           /\ Merged(s, w, x, y, z) => Merged(s2, w, x + 1, y + 1, z)
  <1>1. /\ x \in Nat /\ y \in Nat /\ Len(s) \in Nat /\ 1 <= x /\ x < y /\ y <= Len(s)
        /\ z \in Nat /\ y < z /\ z <= Len(s) + 1 /\ w \in Nat /\ 1 <= w /\ w <= x
    BY MovedFacts
  <1>2. \A h \in 1 .. x - 1 : s2[h] = s[h]
    BY MovedFacts
  <1>3. s2[x] = s[y]
    BY MovedFacts
  <1>4. \A h \in x + 1 .. y : s2[h] = s[h - 1]
    BY MovedFacts
  <1>5. \A h \in y + 1 .. Len(s) : s2[h] = s[h]
    BY MovedFacts
  <1>6. ASSUME NEW k \in (x + 1) + 1 .. y PROVE ~less(s2[k], s2[k - 1])
    <2> DEFINE j == k - 1
    <2>1. k \in x + 1 .. y /\ j \in x + 1 .. y /\ j \in x + 1 .. y - 1
      BY <1>1
    <2>2. s2[k] = s[j]
      BY <2>1, <1>4
    <2> HIDE DEF j
    <2>3. s2[j] = s[j - 1] /\ ~less(s[j], s[j - 1])
      BY <2>1, <1>4 DEF RunOf
    <2> QED
      BY <2>2, <2>3 DEF j
  <1>7. ASSUME NEW k \in (y + 1) + 1 .. z - 1 PROVE ~less(s2[k], s2[k - 1])
    <2> DEFINE j == k - 1
    <2>1. k \in y + 1 .. z - 1 /\ k \in y + 1 .. Len(s) /\ j \in y + 1 .. Len(s)
      BY <1>1
    <2>2. s2[k] = s[k] /\ s2[j] = s[j]
      BY <2>1, <1>5
    <2>3. ~less(s[k], s[k - 1])
      BY <2>1 DEF RunOf
    <2> QED
      BY <2>2, <2>3
  <1>8. ASSUME Merged(s, w, x, y, z) PROVE Merged(s2, w, x + 1, y + 1, z)
    <2>1. RunOf(s2, w, (x + 1) - 1)
      <3>1. ASSUME NEW k \in w + 1 .. (x + 1) - 1 PROVE ~less(s2[k], s2[k - 1])
        <4> DEFINE j == k - 1
        <4>1. j \in 1 .. x - 1 /\ k \in Nat /\ k <= x
          BY <1>1
        <4>2. s2[j] = s[j]
          BY <4>1, <1>2
        <4>3. CASE k = x
          <5>1. x > w /\ y < z
            BY <4>3, <1>1
          <5>2. ~less(s[y], s[x - 1])
            BY <5>1, <1>8 DEF Merged
          <5> QED
            BY <4>2, <4>3, <5>2, <1>3
        <4>4. CASE k # x
          <5>1. k \in 1 .. x - 1 /\ k \in w + 1 .. x - 1
            BY <4>1, <4>4, <1>1
          <5>2. s2[k] = s[k] /\ ~less(s[k], s[k - 1])
            BY <5>1, <1>2, <1>8 DEF Merged, RunOf
          <5> QED
            BY <4>2, <5>2
        <4> QED
          BY <4>3, <4>4
      <3> QED
        BY <3>1 DEF RunOf
    <2>2. ~less(s2[x + 1], s2[(x + 1) - 1])
      <3>1. x + 1 \in x + 1 .. y /\ (x + 1) - 1 = x
        BY <1>1
      <3>2. s2[x + 1] = s[x] /\ s2[(x + 1) - 1] = s[y]
        BY <3>1, <1>3, <1>4
      <3>3. s[x] \in Elem /\ s[y] \in Elem
        BY <1>1 DEF Moved
      <3>4. ~less(s[x], s[y])
        BY <3>3, KeyFacts
      <3> QED
        BY <3>2, <3>4
    <2>3. y + 1 < z => ~less(s2[y + 1], s2[(x + 1) - 1])
      <3>1. ASSUME y + 1 < z PROVE ~less(s2[y + 1], s2[(x + 1) - 1])
        <4>1. y + 1 \in y + 1 .. Len(s) /\ y + 1 \in y + 1 .. z - 1 /\ (x + 1) - 1 = x /\ (y + 1) - 1 = y
          BY <3>1, <1>1
        <4>2. s2[y + 1] = s[y + 1] /\ s2[(x + 1) - 1] = s[y]
          BY <4>1, <1>3, <1>5
        <4>3. ~less(s[y + 1], s[(y + 1) - 1])
          BY <4>1 DEF RunOf
        <4> QED
          BY <4>1, <4>2, <4>3
      <3> QED
        BY <3>1
    <2> QED
      BY <2>1, <2>2, <2>3 DEF Merged
  <1> QED
    BY <1>6, <1>7, <1>8 DEF RunOf

\* A round that leaves the first element of the first run where it is.
LEMMA MergePasses ==
    ASSUME NEW s \in Seq(Elem), NEW x \in 1 .. Len(s), NEW w \in 1 .. x,
           NEW y \in x + 1 .. Len(s), NEW z \in y + 1 .. Len(s) + 1,
           RunOf(s, x, y - 1), ~less(s[y], s[x])
    PROVE  /\ RunOf(s, x + 1, y - 1)
           /\ Merged(s, w, x, y, z) => Merged(s, w, x + 1, y, z)
  <1>1. x \in Nat /\ y \in Nat /\ z \in Nat /\ Len(s) \in Nat /\ 1 <= x /\ x < y /\ y < z
        /\ w \in Nat /\ 1 <= w /\ w <= x
    OBVIOUS
  <1>2. ASSUME NEW k \in (x + 1) + 1 .. y - 1 PROVE ~less(s[k], s[k - 1])
    <2>1. k \in x + 1 .. y - 1
      BY <1>1
    <2> QED
      BY <2>1 DEF RunOf
  <1>3. ASSUME Merged(s, w, x, y, z) PROVE Merged(s, w, x + 1, y, z)
    <2>0. (x + 1) - 1 = x
      BY <1>1
    <2>1. ASSUME NEW k \in w + 1 .. x PROVE ~less(s[k], s[k - 1])
      <3>1. CASE k = x
        <4>1. x > w
          BY <3>1, <1>1
        <4> QED
          BY <3>1, <4>1, <1>1, <1>3 DEF Merged
      <3>2. CASE k # x
        <4>1. k \in w + 1 .. x - 1
          BY <3>2, <1>1
        <4> QED
          BY <4>1, <1>3 DEF Merged, RunOf
      <3> QED
        BY <3>1, <3>2
    <2>2. ASSUME x + 1 < y PROVE ~less(s[x + 1], s[(x + 1) - 1])
      <3>1. x + 1 \in x + 1 .. y - 1
        BY <2>2, <1>1
      <3> QED
        BY <3>1 DEF RunOf
    <2>3. ~less(s[y], s[(x + 1) - 1])
      BY <2>0
    <2>4. RunOf(s, w, (x + 1) - 1)
      BY <2>0, <2>1 DEF RunOf
    <2> QED
      BY <2>2, <2>3, <2>4 DEF Merged
  <1> QED
    BY <1>2, <1>3 DEF RunOf

\* A run is used up, and the other one is at its place.
LEMMA MergeEnds ==
    ASSUME NEW s \in Seq(Elem), NEW x \in 1 .. Len(s) + 1, NEW w \in 1 .. x, NEW y \in x .. Len(s) + 1,
           NEW z \in y .. Len(s) + 1, RunOf(s, x, y - 1), RunOf(s, y, z - 1),
           Merged(s, w, x, y, z), x = y \/ y = z
    PROVE  RunOf(s, w, z - 1)
  <1>1. x \in Nat /\ y \in Nat /\ z \in Nat /\ Len(s) \in Nat /\ 1 <= x /\ x <= y /\ y <= z
        /\ w \in Nat /\ 1 <= w /\ w <= x
    OBVIOUS
  <1>2. \A k \in x + 1 .. z - 1 : ~less(s[k], s[k - 1])
    BY <1>1 DEF RunOf
  <1>3. \A k \in w + 1 .. x - 1 : ~less(s[k], s[k - 1])
    BY DEF Merged, RunOf
  <1>4. ASSUME x > w, x < z PROVE ~less(s[x], s[x - 1])
    BY <1>1, <1>4 DEF Merged
  <1>5. ASSUME NEW k \in w + 1 .. z - 1 PROVE ~less(s[k], s[k - 1])
    <2>1. k \in x + 1 .. z - 1 \/ k \in w + 1 .. x - 1 \/ (k = x /\ x > w /\ x < z)
      BY <1>1
    <2> QED
      BY <2>1, <1>2, <1>3, <1>4
  <1> QED
    BY <1>5 DEF RunOf
\* The places from i to j where a run begins, and their number.
Starts(s, i, j) == {k \in i .. j : k = i \/ less(s[k], s[k - 1])}
NumRuns(s, i, j) == Cardinality(Starts(s, i, j))

LEMMA StartsFinite ==
    ASSUME NEW s, NEW i \in Nat, NEW j \in Nat
    PROVE  IsFiniteSet(Starts(s, i, j)) /\ NumRuns(s, i, j) \in Nat
  <1>1. IsFiniteSet(i .. j)
    BY FS_Interval
  <1>2. Starts(s, i, j) \subseteq i .. j
    BY DEF Starts
  <1>3. IsFiniteSet(Starts(s, i, j))
    BY <1>1, <1>2, FS_Subset
  <1> QED
    BY <1>3, FS_CardinalityType DEF NumRuns

LEMMA OneRun ==
    ASSUME NEW s, NEW j \in Nat, NumRuns(s, 1, j) <= 1
    PROVE  RunOf(s, 1, j)
  <1> DEFINE K == Starts(s, 1, j)
  <1>1. IsFiniteSet(K)
    BY StartsFinite
  <1>2. ASSUME NEW k \in 1 + 1 .. j, less(s[k], s[k - 1]) PROVE FALSE
    <2>1. 1 \in K /\ k \in K /\ 1 # k
      BY <1>2 DEF Starts
    <2> HIDE DEF K
    <2>2. IsFiniteSet(K \ {k}) /\ Cardinality(K \ {k}) = Cardinality(K) - 1
      BY <1>1, <2>1, FS_RemoveElement
    <2>3. Cardinality(K) \in Nat /\ Cardinality(K \ {k}) \in Nat
      BY <1>1, <2>2, FS_CardinalityType
    <2>4. Cardinality(K) <= 1
      BY DEF NumRuns, K
    <2>5. Cardinality(K \ {k}) = 0
      BY <2>2, <2>3, <2>4
    <2>6. K \ {k} = {}
      BY <2>2, <2>5, FS_EmptySet
    <2> QED
      BY <2>1, <2>6
  <1> QED
    BY <1>2 DEF RunOf

\* The runs from x on are the one at x and those from its end on.
LEMMA NextRun ==
    ASSUME NEW s, NEW n \in Nat, NEW x \in 1 .. n, NEW y \in x + 1 .. n + 1, RunOf(s, x, y - 1),
           y # n + 1 => less(s[y], s[y - 1])
    PROVE  NumRuns(s, x, n) = 1 + NumRuns(s, y, n)
  <1> DEFINE K == Starts(s, x, n)
             L == Starts(s, y, n)
  <1>1. x \in Nat /\ y \in Nat /\ x < y
    OBVIOUS
  <1>2. IsFiniteSet(L) /\ NumRuns(s, y, n) \in Nat
    BY <1>1, StartsFinite
  <1>3. x \notin L
    BY <1>1 DEF Starts
  <1>4. ASSUME NEW k PROVE k \in K <=> k \in L \cup {x}
    <2>1. CASE k \in x + 1 .. y - 1
      <3>1. ~less(s[k], s[k - 1])
        BY <2>1 DEF RunOf
      <3>2. k # x /\ k \notin y .. n
        BY <2>1, <1>1
      <3> QED
        BY <3>1, <3>2 DEF Starts
    <2>2. CASE k = x
      BY <2>2 DEF Starts
    <2>3. CASE k = y
      <3>1. k \in y .. n => k \in x .. n /\ y # n + 1
        BY <2>3, <1>1
      <3>2. k \in x .. n => k \in y .. n
        BY <2>3, <1>1
      <3> QED
        BY <3>1, <3>2, <2>3, <1>1 DEF Starts
    <2>4. CASE k \in y + 1 .. n
      <3>1. k \in x .. n /\ k \in y .. n /\ k # x /\ k # y
        BY <2>4, <1>1
      <3> QED
        BY <3>1 DEF Starts
    <2>5. CASE k \notin x .. n
      <3>1. k \notin y .. n /\ k # x
        BY <2>5, <1>1
      <3> QED
        BY <3>1, <2>5 DEF Starts
    <2>6. k \in x .. n => k \in x + 1 .. y - 1 \/ k = x \/ k = y \/ k \in y + 1 .. n
      BY <1>1
    <2> QED
      BY <2>1, <2>2, <2>3, <2>4, <2>5, <2>6
  <1> HIDE DEF K, L
  <1>5. K = L \cup {x}
    BY <1>4, Zenon
  <1>6. Cardinality(L \cup {x}) = Cardinality(L) + 1
    BY <1>2, <1>3, FS_AddElement
  <1> QED
    BY <1>2, <1>5, <1>6 DEF NumRuns, K, L

\* A run from w on adds one to the runs before.
LEMMA AddRun ==
    ASSUME NEW s, NEW w \in Nat, NEW j \in Nat, 1 <= w, w - 1 <= j, RunOf(s, w, j)
    PROVE  NumRuns(s, 1, j) <= NumRuns(s, 1, w - 1) + 1
  <1> DEFINE K == Starts(s, 1, j)
             L == Starts(s, 1, w - 1)
  <1>1. IsFiniteSet(L) /\ NumRuns(s, 1, w - 1) \in Nat
    BY StartsFinite
  <1>2. IsFiniteSet(K) /\ NumRuns(s, 1, j) \in Nat
    BY StartsFinite
  <1>3. ASSUME NEW k \in K PROVE k \in L \cup {w}
    <2>1. k \in 1 .. j /\ (k = 1 \/ less(s[k], s[k - 1]))
      BY DEF Starts
    <2>2. CASE k \in w + 1 .. j
      <3>1. ~less(s[k], s[k - 1]) /\ k # 1
        BY <2>2 DEF RunOf
      <3> QED
        BY <3>1, <2>1
    <2>3. CASE k \in 1 .. w - 1
      BY <2>1, <2>3 DEF Starts
    <2>4. k \in w + 1 .. j \/ k \in 1 .. w - 1 \/ k = w
      BY <2>1
    <2> QED
      BY <2>2, <2>3, <2>4
  <1> HIDE DEF K, L
  <1>4. K \subseteq L \cup {w}
    BY <1>3
  <1>5. /\ IsFiniteSet(L \cup {w})
        /\ Cardinality(L \cup {w}) = Cardinality(L) \/ Cardinality(L \cup {w}) = Cardinality(L) + 1
    BY <1>1, FS_AddElement
  <1>6. Cardinality(K) <= Cardinality(L \cup {w})
    BY <1>4, <1>5, FS_Subset
  <1> QED
    BY <1>1, <1>2, <1>5, <1>6 DEF NumRuns, K, L

\* What a move leaves of the runs before and behind it.
LEMMA MovedRuns ==
    ASSUME NEW s, NEW s2, NEW x, NEW y, Moved(s, s2, x, y)
    PROVE  /\ \A w \in 1 .. x : NumRuns(s2, 1, w - 1) = NumRuns(s, 1, w - 1)
           /\ \A z \in y + 1 .. Len(s) + 1 : NumRuns(s2, z, Len(s)) = NumRuns(s, z, Len(s))
  <1>1. x \in Nat /\ y \in Nat /\ Len(s) \in Nat /\ 1 <= x /\ x < y /\ y <= Len(s)
    BY MovedFacts
  <1>2. \A h \in 1 .. x - 1 : s2[h] = s[h]
    BY MovedFacts
  <1>3. \A h \in y + 1 .. Len(s) : s2[h] = s[h]
    BY MovedFacts
  <1>4. ASSUME NEW w \in 1 .. x PROVE Starts(s2, 1, w - 1) = Starts(s, 1, w - 1)
    <2>1. ASSUME NEW k \in 1 .. w - 1, k # 1 PROVE s2[k] = s[k] /\ s2[k - 1] = s[k - 1]
      <3>1. k \in 1 .. x - 1 /\ k - 1 \in 1 .. x - 1
        BY <1>1, <2>1
      <3> QED
        BY <3>1, <1>2
    <2>2. \A k \in 1 .. w - 1 : k = 1 \/ (less(s2[k], s2[k - 1]) <=> less(s[k], s[k - 1]))
      BY <2>1
    <2> QED
      BY <2>2 DEF Starts
  <1>5. ASSUME NEW z \in y + 1 .. Len(s) + 1 PROVE Starts(s2, z, Len(s)) = Starts(s, z, Len(s))
    <2>1. ASSUME NEW k \in z .. Len(s), k # z PROVE s2[k] = s[k] /\ s2[k - 1] = s[k - 1]
      <3>1. k \in y + 1 .. Len(s) /\ k - 1 \in y + 1 .. Len(s)
        BY <1>1, <2>1
      <3> QED
        BY <3>1, <1>3
    <2>2. \A k \in z .. Len(s) : k = z \/ (less(s2[k], s2[k - 1]) <=> less(s[k], s[k - 1]))
      BY <2>1
    <2> QED
      BY <2>2 DEF Starts
  <1> QED
    BY <1>4, <1>5 DEF NumRuns

\* The loop over pairs of runs is at place x of s.  What it has put out makes at most
\* as many runs as it counted, and each pair that it merged was two of the r runs that
\* there were.
AtRuns(s, t, x, r) ==
    /\ x \in 1 .. Len(s) + 1
    /\ t = [pc |-> "runs", a0 |-> At("list", s, x), a1b0 |-> t.a1b0, b1 |-> t.b1,
            output_run_cnt |-> t.output_run_cnt]
    /\ t.a1b0 \in Node \cup {NULL} /\ t.b1 \in Node \cup {NULL}
    /\ t.output_run_cnt \in 0 .. x - 1
    /\ NumRuns(s, 1, x - 1) <= t.output_run_cnt
    /\ NumRuns(s, x, Len(s)) + 2 * t.output_run_cnt = r

\* inplace_merge puts out a run from w on and has the runs x .. y - 1 and y .. z - 1 left.
AtMerge(s, t, w, x, y, z, r) ==
    /\ x \in 1 .. Len(s) + 1 /\ w \in 1 .. x /\ y \in x .. Len(s) + 1 /\ z \in y .. Len(s) + 1
    /\ t = [pc |-> "merge", a0 |-> At("list", s, x), a1b0 |-> At("list", s, y), b1 |-> At("list", s, z),
            output_run_cnt |-> t.output_run_cnt]
    /\ t.output_run_cnt \in 1 .. z - 1
    /\ RunOf(s, x, y - 1) /\ RunOf(s, y, z - 1)
    /\ Merged(s, w, x, y, z)
    /\ NumRuns(s, 1, w - 1) <= t.output_run_cnt - 1
    /\ NumRuns(s, z, Len(s)) + 2 * t.output_run_cnt = r

InRuns(s, t, r) == \E x : AtRuns(s, t, x, r)
InMerge(s, t, r) == \E w, x, y, z : AtMerge(s, t, w, x, y, z, r)

SortInv(s, t, b, r) ==
    \/ t = Idle /\ b = << >> /\ r = 0
    \/ IsStable(s, b) /\ r \in 0 .. Cardinality(Elem) /\ (InRuns(s, t, r) \/ InMerge(s, t, r))

\* The inductive invariant: the links are those of the lists, and list_sort's
\* variables are places of the list it sorts.
IInv == Chains(links, lists, {}) /\ SortInv(lists["list"], sort, before, runs)

LEMMA SortPc ==
    ASSUME NEW s, NEW t, NEW b, NEW r, SortInv(s, t, b, r)
    PROVE  /\ t.pc = "idle" <=> t = Idle
           /\ t.pc = "idle" => b = << >> /\ r = 0
           /\ t.pc = "runs" => IsStable(s, b) /\ r \in 0 .. Cardinality(Elem) /\ InRuns(s, t, r)
           /\ t.pc = "merge" => IsStable(s, b) /\ r \in 0 .. Cardinality(Elem) /\ InMerge(s, t, r)
           /\ t.pc \in {"idle", "runs", "merge"}
  <1>1. Idle.pc = "idle"
    BY DEF Idle
  <1>2. InRuns(s, t, r) => t.pc = "runs"
    BY DEF InRuns, AtRuns
  <1>3. InMerge(s, t, r) => t.pc = "merge"
    BY DEF InMerge, AtMerge
  <1> QED
    BY <1>1, <1>2, <1>3 DEF SortInv

\* While no sort goes on, any list may become any other.
LEMMA IdleKeeps ==
    ASSUME IInv, NEW q, Becomes(q)
    PROVE  SortInv(lists["list"], sort, before, runs)'
  <1>1. sort = Idle /\ before = << >> /\ runs = 0
    BY SortPc DEF IInv, Becomes
  <1> QED
    BY <1>1 DEF SortInv, Becomes

LEMMA RunsFew ==
    ASSUME NEW S, IsLists(S), NEW l \in Lists
    PROVE  Runs(S[l]) \in 0 .. Cardinality(Elem)
  <1> DEFINE n == Len(S[l])
             K == {k \in 1 .. n : k = 1 \/ less(S[l][k], S[l][k - 1])}
  <1>1. n \in Nat /\ n <= Cardinality(Elem)
    BY ShortLists
  <1>2. IsFiniteSet(1 .. n) /\ Cardinality(1 .. n) = n
    BY <1>1, FS_Interval
  <1>3. K \subseteq 1 .. n
    OBVIOUS
  <1> HIDE DEF K
  <1>4. IsFiniteSet(K) /\ Cardinality(K) <= Cardinality(1 .. n)
    BY <1>2, <1>3, FS_Subset
  <1>5. Cardinality(K) \in Nat
    BY <1>4, FS_CardinalityType
  <1>6. Cardinality(Elem) \in Nat
    BY NodeCount
  <1>7. Runs(S[l]) = Cardinality(K)
    BY DEF Runs, K
  <1> QED
    BY <1>1, <1>2, <1>4, <1>5, <1>6, <1>7

\* A pass begins.
LEMMA PassBegins ==
    ASSUME Chains(links, lists, {}), StartPass
    PROVE  /\ InRuns(lists["list"], sort', runs') /\ runs' \in 0 .. Cardinality(Elem)
           /\ runs' = NumRuns(lists["list"], 1, Len(lists["list"]))
  <1> DEFINE s == lists["list"]
  <1>0. "list" \in Lists
    BY DEF Lists
  <1>1. IsLists(lists) /\ Len(s) \in Nat
    BY <1>0, AtFacts DEF Chains
  <1>2. 1 \in 1 .. Len(s) + 1 /\ 0 \in 0 .. Len(s) /\ 0 + 1 = 1 /\ 0 \in 0 .. 1 - 1
    BY <1>1
  <1>3. links.next[head("list")] = At("list", s, 1)
    <2>1. links.next[At("list", s, 0)] = At("list", s, 0 + 1)
      BY <1>0, <1>2, Neighbours
    <2>2. At("list", s, 0) = head("list")
      BY <1>0, <1>1, AtFacts
    <2> QED
      BY <2>1, <2>2, <1>2
  <1>4. runs' \in 0 .. Cardinality(Elem)
    BY <1>0, <1>1, RunsFew DEF StartPass
  <1>5. sort' = [pc |-> "runs", a0 |-> At("list", s, 1), a1b0 |-> NULL, b1 |-> NULL, output_run_cnt |-> 0]
    BY <1>3 DEF StartPass, Idle
  <1>6. runs' = NumRuns(s, 1, Len(s))
    BY DEF StartPass, Runs, NumRuns, Starts
  <1> HIDE DEF s
  <1>7. NumRuns(s, 1, 1 - 1) = 0
    <2>1. Starts(s, 1, 1 - 1) = {}
      BY DEF Starts
    <2> QED
      BY <2>1, FS_EmptySet DEF NumRuns
  <1>8. NumRuns(s, 1, Len(s)) \in Nat
    BY <1>1, StartsFinite
  <1>9. AtRuns(s, sort', 1, runs')
    BY <1>2, <1>5, <1>6, <1>7, <1>8 DEF AtRuns
  <1> QED
    BY <1>4, <1>6, <1>9 DEF InRuns, s

LEMMA SortCall ==
    ASSUME IInv, list_sort
    PROVE  IInv' /\ lists' = lists /\ sort'.pc # "idle"
  <1>0. "list" \in Lists
    BY DEF Lists
  <1>1. Chains(links, lists, {}) /\ IsLists(lists) /\ lists["list"] \in Seq(Elem)
    BY <1>0, AtFacts DEF IInv, Chains
  <1>2. StartPass /\ before' = lists["list"] /\ links' = links /\ lists' = lists
    BY DEF list_sort
  <1>3. InRuns(lists["list"], sort', runs') /\ runs' \in 0 .. Cardinality(Elem)
    BY <1>1, <1>2, PassBegins
  <1>4. \A i, j \in 1 .. Len(lists["list"]) : lists["list"][i] = lists["list"][j] => i = j
    BY <1>0, <1>1 DEF IsLists
  <1>5. IsStable(lists["list"], lists["list"])
    BY <1>1, <1>4, StableBegins
  <1>6. SortInv(lists["list"], sort, before, runs)'
    BY <1>2, <1>3, <1>5 DEF SortInv
  <1>7. sort'.pc # "idle"
    BY <1>2 DEF StartPass, Idle
  <1> QED
    BY <1>1, <1>2, <1>6, <1>7 DEF IInv

\* A pass ends.
LEMMA PassEnds ==
    ASSUME IInv, IsStable(lists["list"], before), runs \in Nat, NEW n \in Nat, EndPass(n),
           NumRuns(lists["list"], 1, Len(lists["list"])) <= n, 2 * n <= runs + 1, UNCHANGED <<links, lists>>
    PROVE  /\ IInv'
           /\ sort'.pc = "idle" => SortedAs(lists'["list"], before)
           /\ sort'.pc # "idle" => runs > 1 /\ 2 * runs' <= runs + 1
  <1> DEFINE s == lists["list"]
  <1>0. "list" \in Lists
    BY DEF Lists
  <1>1. Chains(links, lists, {}) /\ IsLists(lists) /\ Len(s) \in Nat
    BY <1>0, AtFacts DEF IInv, Chains
  <1>2. CASE n > 1
    <2>1. StartPass /\ before' = before
      BY <1>2 DEF EndPass
    <2>2. /\ InRuns(s, sort', runs') /\ runs' \in 0 .. Cardinality(Elem)
          /\ runs' = NumRuns(s, 1, Len(s))
      BY <1>1, <2>1, PassBegins
    <2>3. SortInv(lists["list"], sort, before, runs)'
      BY <2>1, <2>2 DEF SortInv
    <2>4. sort'.pc # "idle"
      BY <2>1 DEF StartPass, Idle
    <2>5. runs > 1 /\ 2 * runs' <= runs + 1
      <3>1. NumRuns(s, 1, Len(s)) \in Nat /\ NumRuns(s, 1, Len(s)) <= n
        BY <1>1, StartsFinite
      <3> HIDE DEF s
      <3> QED
        BY <3>1, <2>2, <1>2
    <2> QED
      BY <1>1, <2>3, <2>4, <2>5 DEF IInv
  <1>3. CASE ~(n > 1)
    <2>1. sort' = Idle /\ before' = << >> /\ runs' = 0
      BY <1>3 DEF EndPass
    <2>2. SortedAs(s, before)
      <3>1. NumRuns(s, 1, Len(s)) \in Nat /\ NumRuns(s, 1, Len(s)) <= n
        BY <1>1, StartsFinite
      <3>2. NumRuns(s, 1, Len(s)) <= 1
        <4> HIDE DEF s
        <4> QED
          BY <3>1, <1>3
      <3>3. RunOf(s, 1, Len(s))
        BY <3>2, <1>1, OneRun
      <3> QED
        BY <3>3, StableEnds
    <2>3. SortInv(lists["list"], sort, before, runs)'
      BY <2>1 DEF SortInv
    <2>4. sort'.pc = "idle"
      BY <2>1 DEF Idle
    <2> QED
      BY <1>1, <2>2, <2>3, <2>4 DEF IInv
  <1> QED
    BY <1>2, <1>3

\* What the end of a pass achieves: the list is sorted, or it has at most half as many
\* runs and the next pass begins.
PassGood == /\ sort'.pc = "idle" => SortedAs(lists'["list"], before)
            /\ sort'.pc = "runs" /\ sort'.output_run_cnt = 0 => runs > 1 /\ 2 * runs' <= runs + 1

\* The head of the loop over pairs of runs.
LEMMA FindStep ==
    ASSUME IInv, FindRuns
    PROVE  IInv' /\ lists' = lists /\ PassGood
  <1> DEFINE s == lists["list"]
             n == Len(s)
             end == tail("list")
             cnt == sort.output_run_cnt
             a1b0 == find_end_of_run(links, sort.a0, end)
  <1>0. "list" \in Lists
    BY DEF Lists
  <1>1. Chains(links, lists, {}) /\ IsLists(lists) /\ s \in Seq(Elem) /\ n \in Nat
    BY <1>0, AtFacts DEF IInv, Chains
  <1>2. sort.pc = "runs" /\ links' = links /\ lists' = lists
    BY DEF FindRuns
  <1>3. IsStable(s, before) /\ runs \in 0 .. Cardinality(Elem) /\ InRuns(s, sort, runs)
    BY <1>2, SortPc DEF IInv
  <1>4. PICK x : AtRuns(s, sort, x, runs)
    BY <1>3 DEF InRuns
  <1>5. /\ x \in 1 .. n + 1 /\ x \in Nat /\ sort.a0 = At("list", s, x)
        /\ cnt \in 0 .. x - 1 /\ cnt \in Nat
        /\ NumRuns(s, 1, x - 1) <= cnt
        /\ NumRuns(s, x, n) + 2 * cnt = runs
        /\ NumRuns(s, 1, x - 1) \in Nat /\ NumRuns(s, x, n) \in Nat /\ runs \in Nat
    <2>1. /\ x \in 1 .. n + 1 /\ cnt \in 0 .. x - 1
          /\ NumRuns(s, 1, x - 1) <= cnt
          /\ NumRuns(s, x, n) + 2 * cnt = runs
      BY <1>4 DEF AtRuns
    <2>3. x \in Nat /\ x - 1 \in Nat
      BY <2>1, <1>1
    <2>4. NumRuns(s, 1, x - 1) \in Nat /\ NumRuns(s, x, n) \in Nat
      BY <2>3, <1>1, StartsFinite
    <2>2. sort.a0 = At("list", s, x)
      BY <1>4 DEF AtRuns
    <2> QED
      BY <2>1, <2>2, <2>3, <2>4, <1>1, <1>3
  <1>6. At("list", s, n + 1) = end
    BY <1>0, <1>1, AtFacts
  <1>7. \A y \in 1 .. n + 1 : At("list", s, y) = end <=> y = n + 1
    <2>1. ASSUME NEW y \in 1 .. n + 1, At("list", s, y) = end PROVE y = n + 1
      <3>1. y \in 0 .. n + 1 /\ n + 1 \in 0 .. n + 1
        BY <1>1
      <3>2. At("list", s, y) = At("list", s, n + 1)
        BY <2>1, <1>6
      <3> QED
        BY <3>1, <3>2, <1>0, <1>1, AtDistinct
    <2> QED
      BY <2>1, <1>6
  <1>8. \/ sort.a0 = end /\ EndPass(cnt)
        \/ sort.a0 # end /\ a1b0 = end /\ EndPass(cnt + 1)
        \/ /\ sort.a0 # end /\ a1b0 # end
           /\ sort' = [pc |-> "merge", a0 |-> sort.a0, a1b0 |-> a1b0,
                       b1 |-> find_end_of_run(links, a1b0, end), output_run_cnt |-> cnt + 1]
           /\ UNCHANGED <<before, runs>>
    BY DEF FindRuns
  <1>9. CASE sort.a0 = end /\ EndPass(cnt)
    <2>1. x = n + 1
      BY <1>5, <1>7, <1>9
    <2>2. NumRuns(s, 1, n) <= cnt /\ 2 * cnt <= runs + 1
      <3>1. x - 1 = n
        BY <2>1, <1>1
      <3> HIDE DEF cnt, n, s
      <3> QED
        BY <3>1, <1>5
    <2>3. IInv' /\ PassGood
      <3> HIDE DEF cnt
      <3> QED
        BY <2>2, <1>2, <1>3, <1>5, <1>9, PassEnds DEF PassGood
    <2> QED
      BY <2>3, <1>2
  <1>10. ASSUME sort.a0 # end
         PROVE  /\ x \in 1 .. n
                /\ \E y \in x + 1 .. n + 1 : /\ a1b0 = At("list", s, y) /\ RunOf(s, x, y - 1)
                                             /\ NumRuns(s, x, n) = 1 + NumRuns(s, y, n)
    <2>1. x # n + 1
      BY <1>5, <1>7, <1>10
    <2>2. x \in 1 .. n
      BY <2>1, <1>1, <1>5
    <2>3. PICK y \in x + 1 .. n + 1 :
             /\ find_end_of_run(links, At("list", s, x), tail("list")) = At("list", s, y)
             /\ \A i \in x + 1 .. y - 1 : ~less(s[i], s[i - 1])
             /\ y # n + 1 => less(s[y], s[y - 1])
      BY <1>0, <1>1, <2>2, RunEndAt
    <2>4. a1b0 = At("list", s, y)
      BY <2>3, <1>5
    <2>5. RunOf(s, x, y - 1)
      BY <2>3 DEF RunOf
    <2>6. NumRuns(s, x, n) = 1 + NumRuns(s, y, n)
      <3> HIDE DEF s, n
      <3> QED
        BY <1>1, <2>2, <2>3, <2>5, NextRun
    <2> QED
      BY <2>2, <2>4, <2>5, <2>6
  <1>11. CASE sort.a0 # end /\ a1b0 = end /\ EndPass(cnt + 1)
    <2>1. x \in 1 .. n
      BY <1>10, <1>11
    <2>2. PICK y \in x + 1 .. n + 1 : /\ a1b0 = At("list", s, y) /\ RunOf(s, x, y - 1)
                                      /\ NumRuns(s, x, n) = 1 + NumRuns(s, y, n)
      BY <1>10, <1>11
    <2>3. y = n + 1 /\ y - 1 = n
      <3>1. y \in 1 .. n + 1
        BY <1>1, <2>1
      <3> QED
        BY <3>1, <2>2, <1>1, <1>7, <1>11
    <2>4. NumRuns(s, x, n) = 1
      <3>1. Starts(s, y, n) = {}
        BY <2>3, <1>1 DEF Starts
      <3>2. NumRuns(s, y, n) = 0
        BY <3>1, FS_EmptySet DEF NumRuns
      <3> QED
        BY <3>2, <2>2
    <2>5. NumRuns(s, 1, n) <= NumRuns(s, 1, x - 1) + 1
      <3>1. RunOf(s, x, n) /\ 1 <= x /\ x - 1 <= n
        BY <2>1, <2>2, <2>3, <1>1
      <3> HIDE DEF s, n
      <3> QED
        BY <3>1, <1>1, <1>5, AddRun
    <2>6. cnt + 1 \in Nat /\ NumRuns(s, 1, n) <= cnt + 1 /\ 2 * (cnt + 1) <= runs + 1
      <3>1. NumRuns(s, 1, n) \in Nat
        BY <1>1, StartsFinite
      <3> HIDE DEF cnt, s, n
      <3> QED
        BY <3>1, <2>4, <2>5, <1>5
    <2>7. IInv' /\ PassGood
      <3> HIDE DEF cnt
      <3> QED
        BY <2>6, <1>2, <1>3, <1>5, <1>11, PassEnds DEF PassGood
    <2> QED
      BY <2>7, <1>2
  <1>12. CASE /\ sort.a0 # end /\ a1b0 # end
              /\ sort' = [pc |-> "merge", a0 |-> sort.a0, a1b0 |-> a1b0,
                          b1 |-> find_end_of_run(links, a1b0, end), output_run_cnt |-> cnt + 1]
              /\ UNCHANGED <<before, runs>>
    <2>1. x \in 1 .. n
      BY <1>10, <1>12
    <2>2. PICK y \in x + 1 .. n + 1 : /\ a1b0 = At("list", s, y) /\ RunOf(s, x, y - 1)
                                      /\ NumRuns(s, x, n) = 1 + NumRuns(s, y, n)
      BY <1>10, <1>12
    <2>3. y \in 1 .. n + 1 /\ y # n + 1
      BY <1>1, <1>6, <1>12, <2>1, <2>2
    <2>4. y \in 1 .. n
      BY <2>3, <1>1
    <2>5. PICK z \in y + 1 .. n + 1 :
             /\ find_end_of_run(links, At("list", s, y), tail("list")) = At("list", s, z)
             /\ \A i \in y + 1 .. z - 1 : ~less(s[i], s[i - 1])
             /\ z # n + 1 => less(s[z], s[z - 1])
      BY <1>0, <1>1, <2>4, RunEndAt
    <2>6. RunOf(s, y, z - 1)
      BY <2>5 DEF RunOf
    <2>7. /\ x \in 1 .. n + 1 /\ y \in x .. n + 1 /\ z \in y .. n + 1
          /\ cnt + 1 \in 1 .. z - 1
      BY <2>1, <2>2, <2>4, <2>5, <1>1, <1>5
    <2>8. sort' = [pc |-> "merge", a0 |-> At("list", s, x), a1b0 |-> At("list", s, y),
                   b1 |-> At("list", s, z), output_run_cnt |-> cnt + 1]
      BY <1>5, <1>12, <2>2, <2>5
    <2>9. Merged(s, x, x, y, z)
      <3>1. \A k \in x + 1 .. x - 1 : FALSE
        BY <1>5
      <3>2. ~(x > x)
        BY <1>5
      <3> QED
        BY <3>1, <3>2 DEF Merged, RunOf
    <2>10. NumRuns(s, 1, x - 1) <= (cnt + 1) - 1 /\ NumRuns(s, z, n) + 2 * (cnt + 1) = runs
      <3>1. NumRuns(s, y, n) = 1 + NumRuns(s, z, n)
        <4> HIDE DEF s, n
        <4> QED
          BY <1>1, <2>4, <2>5, <2>6, NextRun
      <3>2. NumRuns(s, z, n) \in Nat
        <4>1. z \in Nat
          BY <2>7, <1>1, <1>5
        <4> QED
          BY <4>1, <1>1, StartsFinite
      <3> HIDE DEF s, n, cnt
      <3> QED
        BY <3>1, <3>2, <2>2, <1>5
    <2>13. AtMerge(s, sort', x, x, y, z, runs)
      <3> HIDE DEF cnt, s, n
      <3>1. sort'.output_run_cnt = cnt + 1 /\ x \in 1 .. x
        BY <2>8, <1>5
      <3> QED
        BY <2>2, <2>6, <2>7, <2>8, <2>9, <2>10, <3>1 DEF AtMerge, n
    <2>11. InMerge(s, sort', runs')
      BY <2>13, <1>12, Zenon DEF InMerge
    <2>12. SortInv(lists["list"], sort, before, runs)'
      BY <2>11, <1>2, <1>3, <1>12 DEF SortInv
    <2> QED
      BY <2>8, <2>12, <1>1, <1>2 DEF IInv, PassGood
  <1> QED
    BY <1>8, <1>9, <1>11, <1>12
\* What the splice of inplace_merge makes of the list.
LEMMA MoveOne ==
    ASSUME NEW s \in Seq(Elem), NEW x \in 1 .. Len(s), NEW y \in x + 1 .. Len(s)
    PROVE  /\ Len(Cut(s, y, y)) = Len(s) - 1 /\ x - 1 \in 0 .. Len(s) - 1
           /\ At("list", Cut(s, y, y), (x - 1) + 1) = At("list", s, x)
           /\ Moved(s, Paste(Cut(s, y, y), x - 1, Part(s, y, y)), x, y)
  <1> DEFINE n == Len(s)
             c == Cut(s, y, y)
             t == Part(s, y, y)
             k == x - 1
             u == Paste(c, k, t)
  <1>1. /\ n \in Nat /\ x \in Nat /\ y \in Nat /\ y \in 1 .. n /\ y \in y .. n /\ x < y /\ y <= n /\ 1 <= x
        /\ k \in 0 .. n - 1 /\ k + 1 = x /\ (y + 1) - y = 1 /\ x \in 0 .. n - 1 + 1
    OBVIOUS
  <1>2. /\ c \in Seq(Elem) /\ Len(c) = n - 1
        /\ \A h \in 1 .. n - 1 : c[h] = IF h < y THEN s[h] ELSE s[h + 1]
    <2>1. /\ c \in Seq(Elem) /\ Len(c) = Len(s) - (y + 1 - y)
          /\ \A h \in 1 .. Len(s) - (y + 1 - y) : c[h] = IF h < y THEN s[h] ELSE s[h + (y + 1 - y)]
      BY <1>1, CutSeq, Zenon
    <2> QED
      BY <2>1, <1>1
  <1>3. At("list", c, k + 1) = At("list", s, x)
    <2>1. x \in 0 .. Len(s) - (y + 1 - y) + 1
      BY <1>1
    <2>2. At("list", c, x) = IF x < y THEN At("list", s, x) ELSE At("list", s, x + (y + 1 - y))
      BY <1>1, <2>1, AtCut
    <2> HIDE DEF c, k
    <2> QED
      BY <2>2, <1>1
  <1>4. t \in Seq(Elem) /\ Len(t) = 1 /\ t[1] = s[y]
    <2>1. t = [h \in 1 .. 1 |-> s[h + y - 1]]
      BY <1>1 DEF Part
    <2>2. \A h \in 1 .. 1 : h + y - 1 = y
      BY <1>1
    <2>3. s[y] \in Elem
      BY <1>1
    <2> HIDE DEF t
    <2> QED
      BY <2>1, <2>2, <2>3
  <1> HIDE DEF c, t, k
  <1>5. /\ u \in Seq(Elem) /\ Len(u) = Len(c) + Len(t)
        /\ \A h \in 1 .. Len(c) + Len(t) :
              u[h] = IF h <= k THEN c[h] ELSE IF h <= k + Len(t) THEN t[h - k] ELSE c[h - Len(t)]
    <2>1. k \in 0 .. Len(c)
      BY <1>1, <1>2
    <2> QED
      BY <2>1, <1>2, <1>4, PasteSeq, Zenon
  <1> HIDE DEF u
  <1>6. Len(u) = n /\ \A h \in 1 .. n : u[h] = IF h <= k THEN c[h] ELSE IF h <= x THEN t[h - k] ELSE c[h - 1]
    BY <1>1, <1>2, <1>4, <1>5
  <1>7. ASSUME NEW h \in 1 .. n PROVE u[h] = s[From(x, y, h)]
    <2>1. CASE h < x
      <3>1. h <= k /\ h \in 1 .. n - 1 /\ h < y /\ From(x, y, h) = h
        BY <2>1, <1>1 DEF From
      <3> QED
        BY <3>1, <1>2, <1>6
    <2>2. CASE h = x
      <3>1. ~(h <= k) /\ h <= x /\ h - k = 1 /\ From(x, y, h) = y
        BY <2>2, <1>1 DEF From
      <3> QED
        BY <3>1, <1>4, <1>6
    <2>3. CASE x < h
      <3> DEFINE j == h - 1
      <3>1. ~(h <= k) /\ ~(h <= x) /\ j \in 1 .. n - 1
        BY <2>3, <1>1
      <3>2. u[h] = c[j]
        BY <3>1, <1>6
      <3>3. CASE h <= y
        <4>1. j < y /\ From(x, y, h) = j
          BY <2>3, <3>3, <1>1 DEF From
        <4> HIDE DEF j
        <4> QED
          BY <3>1, <3>2, <4>1, <1>2
      <3>4. CASE ~(h <= y)
        <4>1. ~(j < y) /\ From(x, y, h) = h /\ j + 1 = h
          BY <2>3, <3>4, <1>1 DEF From
        <4> HIDE DEF j
        <4> QED
          BY <3>1, <3>2, <4>1, <1>2
      <3> QED
        BY <3>3, <3>4
    <2> QED
      BY <1>1, <2>1, <2>2, <2>3
  <1>8. Moved(s, u, x, y)
    BY <1>1, <1>5, <1>6, <1>7 DEF Moved
  <1> QED
    BY <1>1, <1>2, <1>3, <1>8 DEF u, c, t, k

\* The nodes of a list in which an element was moved.
LEMMA AtMoved ==
    ASSUME NEW s, NEW s2, NEW x, NEW y, Moved(s, s2, x, y)
    PROVE  /\ At("list", s2, x + 1) = At("list", s, x)
           /\ \A h \in y + 1 .. Len(s) + 1 : At("list", s2, h) = At("list", s, h)
  <1>1. /\ x \in Nat /\ y \in Nat /\ Len(s) \in Nat /\ 1 <= x /\ x < y /\ y <= Len(s)
    BY MovedFacts
  <1>2. Len(s2) = Len(s)
    BY DEF Moved
  <1>3. At("list", s2, x + 1) = At("list", s, x)
    <2>1. x + 1 \in x + 1 .. y /\ (x + 1) - 1 = x
      BY <1>1
    <2>2. s2[x + 1] = s[x]
      BY <2>1, MovedFacts
    <2> QED
      BY <2>2, <1>1, <1>2 DEF At
  <1>4. ASSUME NEW h \in y + 1 .. Len(s) + 1 PROVE At("list", s2, h) = At("list", s, h)
    <2>1. CASE h = Len(s) + 1
      BY <2>1, <1>1, <1>2 DEF At
    <2>2. CASE h # Len(s) + 1
      <3>1. h \in y + 1 .. Len(s)
        BY <2>2, <1>1
      <3>2. s2[h] = s[h]
        BY <3>1, MovedFacts
      <3> QED
        BY <3>1, <3>2, <1>1, <1>2 DEF At
    <2> QED
      BY <2>1, <2>2
  <1> QED
    BY <1>3, <1>4
\* A round of inplace_merge.
LEMMA MergeRound ==
    ASSUME IInv, MergeStep
    PROVE  IInv' /\ (Abstract!Next \/ lists' = lists) /\ PassGood
  <1> DEFINE s == lists["list"]
             n == Len(s)
             cnt == sort.output_run_cnt
             a1 == links.next[sort.a1b0]
  <1>0. "list" \in Lists
    BY DEF Lists
  <1>1. Chains(links, lists, {}) /\ IsLists(lists) /\ s \in Seq(Elem) /\ n \in Nat
    BY <1>0, AtFacts DEF IInv, Chains
  <1>2. sort.pc = "merge" /\ before' = before /\ runs' = runs
    BY DEF MergeStep
  <1>3. IsStable(s, before) /\ runs \in 0 .. Cardinality(Elem) /\ InMerge(s, sort, runs)
    BY <1>2, SortPc DEF IInv
  <1>4. PICK w, x, y, z : AtMerge(s, sort, w, x, y, z, runs)
    BY <1>3, Zenon DEF InMerge
  <1>5. /\ x \in 1 .. n + 1 /\ y \in x .. n + 1 /\ z \in y .. n + 1
        /\ x \in Nat /\ y \in Nat /\ z \in Nat /\ 1 <= x /\ x <= y /\ y <= z /\ z <= n + 1
        /\ cnt \in 1 .. z - 1 /\ cnt \in Nat /\ w \in 1 .. x /\ w \in Nat /\ 1 <= w /\ w <= x
    <2>1. /\ x \in 1 .. n + 1 /\ y \in x .. n + 1 /\ z \in y .. n + 1 /\ cnt \in 1 .. z - 1
          /\ w \in 1 .. x
      BY <1>4 DEF AtMerge
    <2> QED
      BY <2>1, <1>1
  <1>6. sort = [pc |-> "merge", a0 |-> At("list", s, x), a1b0 |-> At("list", s, y), b1 |-> At("list", s, z),
                output_run_cnt |-> cnt]
    BY <1>4 DEF AtMerge
  <1>7. sort.a0 = At("list", s, x) /\ sort.a1b0 = At("list", s, y) /\ sort.b1 = At("list", s, z)
    BY <1>6
  <1>8. RunOf(s, x, y - 1) /\ RunOf(s, y, z - 1) /\ Merged(s, w, x, y, z)
    BY <1>4 DEF AtMerge
  <1>15. NumRuns(s, 1, w - 1) <= cnt - 1 /\ NumRuns(s, z, n) + 2 * cnt = runs
    BY <1>4 DEF AtMerge
  <1>9. \A h, i \in 1 .. n + 1 : At("list", s, h) = At("list", s, i) => h = i
    <2>1. ASSUME NEW h \in 1 .. n + 1, NEW i \in 1 .. n + 1, At("list", s, h) = At("list", s, i)
          PROVE  h = i
      <3>1. h \in 0 .. n + 1 /\ i \in 0 .. n + 1
        BY <1>1
      <3> QED
        BY <3>1, <2>1, <1>0, <1>1, AtDistinct
    <2> QED
      BY <2>1
  <1>10. \/ /\ sort.a0 # sort.a1b0 /\ sort.a1b0 # sort.b1
            /\ \/ /\ ~GoesFirst(sort.a1b0, sort.a0)
                  /\ sort' = [sort EXCEPT !.a0 = links.next[sort.a0]]
                  /\ UNCHANGED <<links, lists>>
               \/ /\ GoesFirst(sort.a1b0, sort.a0)
                  /\ sort' = [sort EXCEPT !.a1b0 = a1]
                  /\ Relinked(Splice(links, sort.a0, links.prev[a1], a1))
         \/ /\ sort.a0 = sort.a1b0 \/ sort.a1b0 = sort.b1
            /\ sort' = [sort EXCEPT !.pc = "runs", !.a0 = sort.b1]
            /\ UNCHANGED <<links, lists>>
    BY DEF MergeStep
  <1> HIDE DEF s, n, cnt, a1
  <1>11. CASE /\ sort.a0 = sort.a1b0 \/ sort.a1b0 = sort.b1
              /\ sort' = [sort EXCEPT !.pc = "runs", !.a0 = sort.b1]
              /\ UNCHANGED <<links, lists>>
    <2>1. x = y \/ y = z
      <3>1. x \in 1 .. n + 1 /\ y \in 1 .. n + 1 /\ z \in 1 .. n + 1
        BY <1>1, <1>5
      <3> QED
        BY <3>1, <1>7, <1>9, <1>11
    <2>2. NumRuns(s, 1, z - 1) <= cnt
      <3>1. RunOf(s, w, z - 1)
        BY <2>1, <1>1, <1>5, <1>8, MergeEnds DEF n
      <3>2. z - 1 \in Nat /\ w - 1 \in Nat /\ w - 1 <= z - 1
        BY <1>5
      <3>3. NumRuns(s, 1, z - 1) <= NumRuns(s, 1, w - 1) + 1
        BY <3>1, <3>2, <1>5, AddRun
      <3>4. NumRuns(s, 1, z - 1) \in Nat /\ NumRuns(s, 1, w - 1) \in Nat
        BY <3>2, StartsFinite
      <3> QED
        BY <3>3, <3>4, <1>5, <1>15
    <2>3. sort' = [pc |-> "runs", a0 |-> At("list", s, z), a1b0 |-> At("list", s, y), b1 |-> At("list", s, z),
                   output_run_cnt |-> cnt]
      BY <1>6, <1>11
    <2>4. At("list", s, y) \in Node /\ At("list", s, z) \in Node
      <3>1. y \in 0 .. n + 1 /\ z \in 0 .. n + 1
        BY <1>1, <1>5
      <3> QED
        BY <3>1, <1>0, <1>1, AtFacts DEF s, n
    <2>5. z \in 1 .. n + 1 /\ cnt \in 0 .. z - 1 /\ cnt # 0
      BY <1>1, <1>5
    <2>6. AtRuns(s, sort', z, runs)
      BY <2>2, <2>3, <2>4, <2>5, <1>15 DEF AtRuns, n
    <2>7. InRuns(s, sort', runs')
      BY <2>6, <1>2 DEF InRuns
    <2>8. links' = links /\ lists' = lists
      BY <1>11
    <2>9. SortInv(lists["list"], sort, before, runs)'
      BY <2>7, <2>8, <1>2, <1>3 DEF SortInv, s
    <2>10. PassGood
      BY <2>3, <2>5 DEF PassGood
    <2> QED
      BY <2>8, <2>9, <2>10, <1>1 DEF IInv
  <1>12. ASSUME sort.a0 # sort.a1b0, sort.a1b0 # sort.b1
         PROVE  /\ x \in 1 .. n /\ y \in x + 1 .. n /\ z \in y + 1 .. n + 1 /\ x \in 0 .. n /\ y \in 0 .. n
                /\ sort.a0 = s[x] /\ sort.a1b0 = s[y] /\ s[x] \in Elem /\ s[y] \in Elem
    <2>1. x # y /\ y # z
      BY <1>7, <1>12
    <2>2. x \in 1 .. n /\ y \in 1 .. n /\ y \in x + 1 .. n /\ z \in y + 1 .. n + 1 /\ x \in 0 .. n /\ y \in 0 .. n
      BY <2>1, <1>1, <1>5
    <2>3. /\ At("list", s, x) = s[x] /\ s[x] \in Elem
          /\ At("list", s, y) = s[y] /\ s[y] \in Elem
      BY <2>2, <1>0, <1>1, AtFacts DEF s, n
    <2> QED
      BY <2>2, <2>3, <1>7
  <1>13. CASE /\ sort.a0 # sort.a1b0 /\ sort.a1b0 # sort.b1
              /\ ~GoesFirst(sort.a1b0, sort.a0)
              /\ sort' = [sort EXCEPT !.a0 = links.next[sort.a0]]
              /\ UNCHANGED <<links, lists>>
    <2>1. /\ x \in 1 .. n /\ y \in x + 1 .. n /\ z \in y + 1 .. n + 1 /\ x \in 0 .. n
          /\ sort.a0 = s[x] /\ sort.a1b0 = s[y]
      BY <1>12, <1>13
    <2>2. links.next[sort.a0] = At("list", s, x + 1)
      <3>1. links.next[At("list", s, x)] = At("list", s, x + 1)
        BY <2>1, <1>0, <1>1, Neighbours DEF s, n
      <3> QED
        BY <3>1, <1>7
    <2>3. ~less(s[y], s[x])
      BY <2>1, <1>13 DEF GoesFirst
    <2>4. RunOf(s, x + 1, y - 1) /\ Merged(s, w, x + 1, y, z)
      BY <2>1, <2>3, <1>1, <1>5, <1>8, MergePasses DEF n
    <2>5. sort' = [pc |-> "merge", a0 |-> At("list", s, x + 1), a1b0 |-> At("list", s, y), b1 |-> At("list", s, z),
                   output_run_cnt |-> cnt]
      BY <2>2, <1>6, <1>13
    <2>6. x + 1 \in 1 .. n + 1 /\ w \in 1 .. x + 1 /\ y \in x + 1 .. n + 1 /\ z \in y .. n + 1
      BY <2>1, <1>1, <1>5
    <2>7. AtMerge(s, sort', w, x + 1, y, z, runs)
      BY <2>4, <2>5, <2>6, <1>5, <1>8, <1>15 DEF AtMerge, n
    <2>8. InMerge(s, sort', runs')
      BY <2>7, <1>2, Zenon DEF InMerge
    <2>9. links' = links /\ lists' = lists
      BY <1>13
    <2>10. SortInv(lists["list"], sort, before, runs)'
      BY <2>8, <2>9, <1>2, <1>3 DEF SortInv, s
    <2>11. PassGood
      BY <2>5 DEF PassGood
    <2> QED
      BY <2>9, <2>10, <2>11, <1>1 DEF IInv
  <1>14. CASE /\ sort.a0 # sort.a1b0 /\ sort.a1b0 # sort.b1
              /\ GoesFirst(sort.a1b0, sort.a0)
              /\ sort' = [sort EXCEPT !.a1b0 = a1]
              /\ Relinked(Splice(links, sort.a0, links.prev[a1], a1))
    <2>1. /\ x \in 1 .. n /\ y \in x + 1 .. n /\ z \in y + 1 .. n + 1 /\ y \in 0 .. n
          /\ sort.a0 = s[x] /\ sort.a1b0 = s[y]
      BY <1>12, <1>14
    <2>2. y \in 1 .. n /\ y \in y .. n /\ y + 1 \in 1 .. n + 1 /\ (y + 1) - 1 = y
      BY <2>1, <1>1, <1>5
    <2>3. a1 = At("list", s, y + 1) /\ a1 = links.next[s[y]]
      <3>1. links.next[At("list", s, y)] = At("list", s, y + 1)
        BY <2>1, <1>0, <1>1, Neighbours DEF s, n
      <3> QED
        BY <3>1, <2>1, <1>7 DEF a1
    <2>4. links.prev[a1] = s[y]
      <3>1. links.prev[At("list", s, y + 1)] = At("list", s, (y + 1) - 1)
        BY <2>2, <1>0, <1>1, Neighbours DEF s, n
      <3> QED
        BY <3>1, <2>1, <2>2, <2>3, <1>7
    <2> DEFINE T == CutLists(lists, "list", y, y)
               t == Part(s, y, y)
               k == x - 1
               s2 == Paste(Cut(s, y, y), k, t)
    <2>5. T["list"] = Cut(s, y, y) /\ IsLists(T)
      BY <2>2, <1>0, <1>1, CutListsFacts DEF s, n
    <2>6. /\ Len(Cut(s, y, y)) = n - 1 /\ k \in 0 .. n - 1
          /\ At("list", Cut(s, y, y), k + 1) = At("list", s, x)
          /\ Moved(s, s2, x, y)
      BY <2>1, <1>1, MoveOne DEF n
    <2> HIDE DEF k, T, t, s2
    <2>7. k \in 0 .. Len(T["list"]) /\ At("list", T["list"], k + 1) = sort.a0
      BY <2>5, <2>6, <1>7
    <2>8. Relinked(Splice(links, At("list", T["list"], k + 1), s[y], links.next[s[y]]))
      BY <2>3, <2>4, <2>7, <1>14
    <2>9. Implements /\ lists' = PasteLists(T, "list", k, t)
      <3>1. y \in 1 .. Len(lists["list"]) /\ y \in y .. Len(lists["list"])
        BY <2>2 DEF n, s
      <3>2. k \in 0 .. Len(CutLists(lists, "list", y, y)["list"])
        BY <2>7 DEF T
      <3>3. Relinked(Splice(links, At("list", CutLists(lists, "list", y, y)["list"], k + 1),
                            lists["list"][y], links.next[lists["list"][y]]))
        BY <2>8 DEF T, s
      <3> QED
        BY <3>1, <3>2, <3>3, <1>0, <1>1, SpliceStep, Zenon DEF T, t, s
    <2>10. lists'["list"] = s2
      <3>1. T = [l \in Lists |-> T[l]]
        BY <2>5 DEF IsLists
      <3> QED
        BY <3>1, <2>5, <2>9, <1>0 DEF PasteLists, s2
    <2>11. less(s[y], s[x])
      BY <2>1, <1>14 DEF GoesFirst
    <2>12. IsStable(s2, before)
      BY <2>6, <2>11, <1>3, <1>8, StableMoves
    <2>13. /\ RunOf(s2, x + 1, y) /\ RunOf(s2, y + 1, z - 1)
           /\ Merged(s2, w, x + 1, y + 1, z)
      BY <2>1, <2>6, <2>11, <1>5, <1>8, MergeMoves DEF n
    <2>14. /\ At("list", s2, x + 1) = At("list", s, x)
           /\ At("list", s2, y + 1) = At("list", s, y + 1)
           /\ At("list", s2, z) = At("list", s, z)
      <3>1. y + 1 \in y + 1 .. n + 1 /\ z \in y + 1 .. n + 1
        BY <2>1, <1>1, <1>5
      <3> QED
        BY <3>1, <2>6, AtMoved DEF n
    <2>15. sort' = [pc |-> "merge", a0 |-> At("list", s2, x + 1), a1b0 |-> At("list", s2, y + 1),
                    b1 |-> At("list", s2, z), output_run_cnt |-> cnt]
      BY <2>3, <2>14, <1>6, <1>14
    <2>16. /\ x + 1 \in 1 .. n + 1 /\ w \in 1 .. x + 1 /\ y + 1 \in x + 1 .. n + 1 /\ z \in y + 1 .. n + 1
           /\ (y + 1) - 1 = y
      BY <2>1, <1>1, <1>5
    <2>17. Len(s2) = n
      BY <2>6 DEF Moved, n
    <2>22. NumRuns(s2, 1, w - 1) <= cnt - 1 /\ NumRuns(s2, z, n) + 2 * cnt = runs
      <3>1. NumRuns(s2, 1, w - 1) = NumRuns(s, 1, w - 1) /\ NumRuns(s2, z, n) = NumRuns(s, z, n)
        BY <2>1, <2>6, <1>5, MovedRuns DEF n
      <3> QED
        BY <3>1, <1>15
    <2>18. AtMerge(s2, sort', w, x + 1, y + 1, z, runs)
      BY <2>13, <2>15, <2>16, <2>17, <2>22, <1>5 DEF AtMerge
    <2>19. InMerge(s2, sort', runs')
      BY <2>18, <1>2, Zenon DEF InMerge
    <2>20. SortInv(lists["list"], sort, before, runs)'
      BY <2>10, <2>12, <2>19, <1>2, <1>3 DEF SortInv
    <2>21. PassGood
      BY <2>15 DEF PassGood
    <2> QED
      BY <2>9, <2>20, <2>21 DEF IInv, Implements
  <1> QED
    BY <1>10, <1>11, <1>13, <1>14
-----------------------------------------------------------------------------
\* The specification.

LEMMA Begins ==
    ASSUME Init
    PROVE  IInv
  <1> DEFINE S == [l \in Lists |-> << >>]
             p == llist_init
  <1>1. links = p /\ lists = S /\ sort = Idle /\ before = << >> /\ runs = 0
    BY DEF Init
  <1>2. IsLists(S) /\ \A l \in Lists : S[l] = << >> /\ Len(S[l]) = 0
    BY DEF IsLists
  <1>3. \A l \in Lists : /\ p.next[head(l)] = tail(l) /\ p.prev[head(l)] = NULL
                         /\ p.prev[tail(l)] = head(l) /\ p.next[tail(l)] = NULL
    <2>1. ASSUME NEW l \in Lists
          PROVE  /\ p.next[head(l)] = tail(l) /\ p.prev[head(l)] = NULL
                 /\ p.prev[tail(l)] = head(l) /\ p.next[tail(l)] = NULL
      <3>1. head(l) \in Node /\ tail(l) \in Node
        BY EndFacts
      <3>2. /\ \E m \in Lists : head(l) = head(m)
            /\ ~\E m \in Lists : head(l) = tail(m)
            /\ \E m \in Lists : tail(l) = tail(m)
            /\ ~\E m \in Lists : tail(l) = head(m)
        BY EndFacts
      <3>3. head(l)[1] = l /\ tail(l)[1] = l
        BY DEF head, tail
      <3> QED
        BY <3>1, <3>2, <3>3 DEF llist_init
    <2> QED
      BY <2>1
  <1>4. \A e \in Elem : e \in Node /\ p.next[e] = NULL /\ p.prev[e] = NULL
    <2>1. ASSUME NEW e \in Elem PROVE e \in Node /\ p.next[e] = NULL /\ p.prev[e] = NULL
      <3>1. e \in Node /\ \A l \in Lists : e # head(l) /\ e # tail(l)
        BY EndFacts
      <3> QED
        BY <3>1 DEF llist_init
    <2> QED
      BY <2>1
  <1>5. IsLinks(p)
    <2>1. \A n \in Node : p.next[n] \in Node \cup {NULL} /\ p.prev[n] \in Node \cup {NULL}
      BY <1>3, <1>4, EndFacts
    <2>2. p.next = [n \in Node |-> p.next[n]] /\ p.prev = [n \in Node |-> p.prev[n]]
      BY DEF llist_init
    <2> HIDE DEF p
    <2> QED
      BY <2>1, <2>2 DEF IsLinks
  <1> HIDE DEF p, S
  <1>6. ASSUME NEW l \in Lists PROVE Chain(p, l, S[l])
    <2>1. /\ Len(S[l]) = 0 /\ At(l, S[l], 0) = head(l) /\ At(l, S[l], Len(S[l]) + 1) = tail(l)
      BY <1>2, AtFacts
    <2>2. \A k \in 0 .. Len(S[l]) : k = 0 /\ k + 1 = Len(S[l]) + 1
      BY <2>1
    <2>3. p.next[head(l)] = tail(l) /\ p.prev[tail(l)] = head(l)
      BY <1>3
    <2> QED
      BY <2>1, <2>2, <2>3 DEF Chain
  <1>7. Chains(p, S, {})
    BY <1>2, <1>3, <1>4, <1>5, <1>6, Zenon DEF Chains
  <1>8. SortInv(lists["list"], sort, before, runs)
    BY <1>1 DEF SortInv
  <1> QED
    BY <1>1, <1>7, <1>8 DEF IInv

\* A call other than list_sort.
LEMMA CallStep ==
    ASSUME IInv, NEW q, Becomes(q), Implements
    PROVE  IInv' /\ (Abstract!Next \/ lists' = lists) /\ sort' = sort
  <1>1. SortInv(lists["list"], sort, before, runs)'
    BY IdleKeeps
  <1> QED
    BY <1>1 DEF IInv, Implements, Becomes

\* What every step does: it keeps the invariant, it is a step of SequenceList, and in
\* list_sort a pass achieves something.
StepGood == /\ IInv' /\ (Abstract!Next \/ lists' = lists)
            /\ UNCHANGED vars \/ (sort.pc # "idle" => PassGood)

LEMMA Steps ==
    ASSUME IInv, [Next]_vars
    PROVE  StepGood
  <1>0. Chains(links, lists, {})
    BY DEF IInv
  <1>1. ASSUME NEW q, Becomes(q), Implements PROVE StepGood
    <2>1. IInv' /\ (Abstract!Next \/ lists' = lists) /\ sort' = sort
      BY <1>1, CallStep
    <2>2. sort.pc = "idle"
      BY <1>1 DEF Becomes
    <2> QED
      BY <2>1, <2>2 DEF StepGood
  <1>2. ASSUME NEW b \in Linked \cup {tail(l) : l \in Lists}, NEW e \in Elem, list_insert(b, e)
        PROVE  StepGood
    BY <1>0, <1>1, <1>2, InsertCall DEF list_insert
  <1>3. ASSUME NEW e \in Elem, list_remove(e) PROVE StepGood
    BY <1>0, <1>1, <1>3, RemoveCall DEF list_remove
  <1>4. ASSUME NEW l \in Lists, free_file_table(l) PROVE StepGood
    BY <1>0, <1>1, <1>4, FreeCall DEF free_file_table
  <1>5. ASSUME NEW l \in Lists, list_pop_back(l) PROVE StepGood
    BY <1>0, <1>1, <1>5, PopCall DEF list_pop_back
  <1>6. ASSUME NEW l \in Lists, list_reverse(l) PROVE StepGood
    BY <1>0, <1>1, <1>6, ReverseCall DEF list_reverse
  <1>7. ASSUME NEW l \in Lists, NEW e \in Elem, list_insert_ordered(l, e) PROVE StepGood
    BY <1>0, <1>1, <1>7, OrderedCall DEF list_insert_ordered
  <1>8. ASSUME NEW l \in Lists, NEW b \in Linked \cup {tail(m) : m \in Lists},
               NEW i \in 1 .. Len(lists[l]), NEW j \in i .. Len(lists[l]), list_splice(l, i, j, b)
        PROVE  StepGood
    BY <1>0, <1>1, <1>8, SpliceCall DEF list_splice
  <1>9. ASSUME NEW keep \in BOOLEAN, list_unique(keep) PROVE StepGood
    BY <1>0, <1>1, <1>9, UniqueCall DEF list_unique
  <1>10. CASE list_sort
    BY <1>10, SortCall DEF StepGood, list_sort
  <1>11. CASE FindRuns
    BY <1>11, FindStep DEF StepGood
  <1>12. CASE MergeStep
    BY <1>12, MergeRound DEF StepGood
  <1>13. CASE UNCHANGED vars
    BY <1>13 DEF vars, StepGood, IInv
  <1> QED
    BY <1>2, <1>3, <1>4, <1>5, <1>6, <1>7, <1>8, <1>9, <1>10, <1>11, <1>12, <1>13, Zenon DEF Next, SortStep

\* Every call of list.c, and every round of list_sort, keeps the invariant.
THEOREM Inductive == Spec => []IInv
  <1>1. Init => IInv
    BY Begins
  <1>2. IInv /\ [Next]_vars => IInv'
    BY Steps DEF StepGood
  <1> QED
    BY <1>1, <1>2, PTL DEF Spec

\* The places of list_sort are nodes.
LEMMA SortTypes ==
    ASSUME IInv
    PROVE  /\ sort.pc \in {"idle", "runs", "merge"}
           /\ {sort.a0, sort.a1b0, sort.b1} \subseteq Node \cup {NULL}
           /\ sort.output_run_cnt \in 0 .. Cardinality(Elem)
           /\ runs \in 0 .. Cardinality(Elem)
  <1> DEFINE s == lists["list"]
  <1>0. "list" \in Lists
    BY DEF Lists
  <1>1. IsLists(lists) /\ Len(s) \in Nat /\ Len(s) <= Cardinality(Elem) /\ Cardinality(Elem) \in Nat
    BY <1>0, ShortLists, NodeCount DEF IInv, Chains
  <1>2. \A k \in 0 .. Len(s) + 1 : At("list", s, k) \in Node
    BY <1>0, <1>1, AtFacts
  <1>3. sort.pc \in {"idle", "runs", "merge"}
    BY SortPc DEF IInv
  <1> HIDE DEF s
  <1>4. CASE sort.pc = "idle"
    <2>1. sort = Idle /\ runs = 0
      BY <1>4, SortPc DEF IInv
    <2> QED
      BY <2>1, <1>1 DEF Idle
  <1>5. CASE sort.pc = "runs"
    <2>1. runs \in 0 .. Cardinality(Elem) /\ InRuns(s, sort, runs)
      BY <1>5, SortPc DEF IInv, s
    <2>2. PICK x : AtRuns(s, sort, x, runs)
      BY <2>1 DEF InRuns
    <2>3. x \in 1 .. Len(s) + 1 /\ sort.output_run_cnt \in 0 .. x - 1
      BY <2>2 DEF AtRuns
    <2>4. sort.a0 = At("list", s, x) /\ sort.a1b0 \in Node \cup {NULL} /\ sort.b1 \in Node \cup {NULL}
      BY <2>2 DEF AtRuns
    <2>5. x \in 0 .. Len(s) + 1 /\ sort.output_run_cnt \in 0 .. Cardinality(Elem)
      BY <2>3, <1>1
    <2> QED
      BY <2>1, <2>4, <2>5, <1>2, <1>3
  <1>6. CASE sort.pc = "merge"
    <2>1. runs \in 0 .. Cardinality(Elem) /\ InMerge(s, sort, runs)
      BY <1>6, SortPc DEF IInv, s
    <2>2. PICK w, x, y, z : AtMerge(s, sort, w, x, y, z, runs)
      BY <2>1, Zenon DEF InMerge
    <2>3. /\ x \in 1 .. Len(s) + 1 /\ y \in x .. Len(s) + 1 /\ z \in y .. Len(s) + 1
          /\ sort.output_run_cnt \in 1 .. z - 1
      BY <2>2 DEF AtMerge
    <2>4. sort.a0 = At("list", s, x) /\ sort.a1b0 = At("list", s, y) /\ sort.b1 = At("list", s, z)
      BY <2>2 DEF AtMerge
    <2>5. /\ x \in 0 .. Len(s) + 1 /\ y \in 0 .. Len(s) + 1 /\ z \in 0 .. Len(s) + 1
          /\ sort.output_run_cnt \in 0 .. Cardinality(Elem)
      BY <2>3, <1>1
    <2> QED
      BY <2>1, <2>4, <2>5, <1>2, <1>3
  <1> QED
    BY <1>3, <1>4, <1>5, <1>6

\* The links are proper after every call and in the middle of list_sort, whatever the
\* calls were and however many elements there are.
THEOREM ListsWellLinked == Spec => []WellLinked
  <1>1. ASSUME IInv PROVE WellLinked
    <2>1. Proper(links)
      BY <1>1, ChainsProper DEF IInv
    <2>2. /\ sort.pc \in {"idle", "runs", "merge"}
          /\ {sort.a0, sort.a1b0, sort.b1} \subseteq Node \cup {NULL}
          /\ sort.output_run_cnt \in 0 .. Cardinality(Elem)
          /\ runs \in 0 .. Cardinality(Elem)
      BY <1>1, SortTypes
    <2> QED
      BY <2>1, <2>2, Zenon DEF WellLinked, TypeOK, Proper
  <1> QED
    BY <1>1, Inductive, PTL

\* A call inserts, removes, moves or reverses elements and does nothing else; the rounds
\* of list_sort only move elements.
THEOREM ImplementsSequences == Spec => ImplementsLists
  <1>1. Init => Abstract!Init
    BY DEF Init, Abstract!Init
  <1>2. IInv /\ [Next]_vars => [Abstract!Next]_lists
    BY Steps DEF StepGood
  <1> QED
    BY <1>1, <1>2, Inductive, PTL DEF Spec, ImplementsLists, Abstract!Spec

\* list_sort returns the elements it was given, in order, and equal ones in the order
\* they had.
THEOREM SortStable == Spec => SortsStably
  <1>1. IInv /\ [Next]_vars => [sort.pc # "idle" /\ sort'.pc = "idle" => SortedAs(lists'["list"], before)]_vars
    BY Steps DEF StepGood, PassGood
  <1>2. [sort.pc # "idle" /\ sort'.pc = "idle" => SortedAs(lists'["list"], before)]_vars
        <=> [sort.pc # "idle" /\ sort'.pc = "idle" =>
              LET s == lists'["list"]
                  Old(e) == CHOOSE k \in 1 .. Len(before) : before[k] = e
              IN  /\ Members(s) = Members(before) /\ Len(s) = Len(before)
                  /\ \A k \in 2 .. Len(s) : \/ less(s[k - 1], s[k])
                                            \/ key[s[k - 1]] = key[s[k]] /\ Old(s[k - 1]) < Old(s[k])]_vars
    BY Zenon DEF SortedAs
  <1> QED
    BY <1>1, <1>2, Inductive, PTL DEF Spec, SortsStably

\* A pass of list_sort leaves at most half as many runs as it found, rounded up, and no
\* pass follows one that found the list sorted.
THEOREM PassesHalve == Spec => PassHalves
  <1>1. IInv /\ [Next]_vars =>
           [sort.pc # "idle" /\ sort'.pc = "runs" /\ sort'.output_run_cnt = 0 =>
               runs > 1 /\ 2 * runs' <= runs + 1]_vars
    BY Steps DEF StepGood, PassGood
  <1> QED
    BY <1>1, Inductive, PTL DEF Spec, PassHalves

-----------------------------------------------------------------------------
\* The operations that compare elements.

\* Whether e replaces m as the best so far, in list_max if up and else in list_min.
Higher(up, e, m) == IF up THEN less(m, e) ELSE less(e, m)

LEMMA HigherFacts ==
    ASSUME NEW up \in BOOLEAN, NEW c \in Elem, NEW d \in Elem
    PROVE  /\ ~Higher(up, c, c)
           /\ Higher(up, c, d) => ~Higher(up, d, c)
           /\ Higher(up, c, d) => \A e \in Elem : Higher(up, c, e) \/ Higher(up, e, d)
  <1>1. \A e \in Elem : key[e] \in Nat
    BY KeyFacts
  <1>2. CASE up
    BY <1>1, <1>2 DEF Higher, less
  <1>3. CASE ~up
    BY <1>1, <1>3 DEF Higher, less
  <1> QED
    BY <1>2, <1>3

\* The first of the best of the first m elements is at place k.
FirstBest(up, s, m, k) ==
    /\ k \in 1 .. m
    /\ \A j \in 1 .. k - 1 : Higher(up, s[k], s[j])
    /\ \A j \in 1 .. m : ~Higher(up, s[j], s[k])

\* The elements that are the best so far.
IsBest(w, up, s, m) ==
    w = [j \in 1 .. m |-> IF j = 1 THEN s[1] ELSE IF Higher(up, s[j], w[j - 1]) THEN s[j] ELSE w[j - 1]]

LEMMA BestExists ==
    ASSUME NEW up, NEW s, NEW m \in Nat
    PROVE  \E w : IsBest(w, up, s, m)
  <1> DEFINE B == {j \in Nat : ~\E w : IsBest(w, up, s, j)}
             f(u, j) == IF j = 1 THEN s[1] ELSE IF Higher(up, s[j], u[j - 1]) THEN s[j] ELSE u[j - 1]
  <1> SUFFICES ASSUME B # {} PROVE FALSE
    OBVIOUS
  <1>1. B \in SUBSET Nat
    OBVIOUS
  <1>2. PICK k \in B : \A j \in B : k <= j
    <2> HIDE DEF B
    <2> QED
      BY <1>1, LeastNat
  <1>3. k \in Nat /\ ~\E w : IsBest(w, up, s, k)
    BY <1>2
  <1>4. CASE k = 0
    <2> DEFINE w == [j \in 1 .. 0 |-> s[1]]
    <2>1. \A j \in 1 .. 0 : j = 1
      OBVIOUS
    <2>2. w = [j \in 1 .. 0 |-> IF j = 1 THEN s[1] ELSE IF Higher(up, s[j], w[j - 1]) THEN s[j] ELSE w[j - 1]]
      BY <2>1, Zenon
    <2>3. IsBest(w, up, s, 0)
      BY <2>2 DEF IsBest
    <2> QED
      BY <2>3, <1>3, <1>4, Zenon
  <1>5. CASE k # 0
    <2>1. k - 1 \in Nat /\ ~(k <= k - 1)
      BY <1>3, <1>5
    <2>2. k - 1 \notin B
      BY <2>1, <1>2
    <2>3. PICK v : IsBest(v, up, s, k - 1)
      BY <2>1, <2>2
    <2> DEFINE w == [j \in 1 .. k |-> IF j = k THEN f(v, j) ELSE v[j]]
    <2>4. \A j \in 1 .. k - 1 : v[j] = f(v, j)
      <3>1. v = [j \in 1 .. k - 1 |-> f(v, j)]
        BY <2>3 DEF IsBest
      <3> HIDE DEF f
      <3>2. \A j \in 1 .. k - 1 : [i \in 1 .. k - 1 |-> f(v, i)][j] = f(v, j)
        BY Zenon
      <3> QED
        BY <3>1, <3>2, Zenon
    <2>5. ASSUME NEW j \in 1 .. k PROVE w[j] = f(w, j)
      <3>1. w[j] = f(v, j)
        <4> HIDE DEF f
        <4>1. CASE j = k
          BY <4>1
        <4>2. CASE j # k
          <5>1. j \in 1 .. k - 1 /\ w[j] = v[j]
            BY <4>2, <2>1
          <5> HIDE DEF w
          <5> QED
            BY <5>1, <2>4
        <4> QED
          BY <4>1, <4>2
      <3>2. ASSUME j # 1 PROVE w[j - 1] = v[j - 1]
        <4>1. j - 1 \in 1 .. k /\ j - 1 # k
          BY <3>2, <2>1
        <4> HIDE DEF f
        <4> QED
          BY <4>1
      <3>3. f(w, j) = f(v, j)
        <4> HIDE DEF w
        <4> QED
          BY <3>2
      <3> HIDE DEF w, f
      <3> QED
        BY <3>1, <3>3
    <2>6. w = [j \in 1 .. k |-> w[j]]
      BY Zenon
    <2>7. w = [j \in 1 .. k |-> f(w, j)]
      <3> HIDE DEF w, f
      <3>1. [j \in 1 .. k |-> w[j]] = [j \in 1 .. k |-> f(w, j)]
        BY <2>5, Zenon
      <3> QED
        BY <3>1, <2>6, Zenon
    <2> HIDE DEF w
    <2>8. IsBest(w, up, s, k)
      BY <2>7 DEF IsBest
    <2> QED
      BY <2>8, <1>3, Zenon
  <1> QED
    BY <1>4, <1>5

\* The next element is compared with the best so far.
LEMMA BestGoesOn ==
    ASSUME NEW up \in BOOLEAN, NEW s \in Seq(Elem), NEW m \in Nat, m >= 1, m < Len(s),
           NEW k, FirstBest(up, s, m, k)
    PROVE  IF Higher(up, s[m + 1], s[k]) THEN FirstBest(up, s, m + 1, m + 1)
           ELSE FirstBest(up, s, m + 1, k)
  <1>1. \A j \in 1 .. Len(s) : s[j] \in Elem
    OBVIOUS
  <1>2. /\ k \in 1 .. m /\ Len(s) \in Nat /\ m + 1 \in 1 .. Len(s) /\ k \in 1 .. Len(s)
        /\ \A j \in 1 .. k - 1 : Higher(up, s[k], s[j])
        /\ \A j \in 1 .. m : ~Higher(up, s[j], s[k]) /\ j \in 1 .. Len(s)
    BY DEF FirstBest
  <1>3. CASE Higher(up, s[m + 1], s[k])
    <2>1. ASSUME NEW j \in 1 .. m PROVE Higher(up, s[m + 1], s[j]) /\ ~Higher(up, s[j], s[m + 1])
      <3>1. s[j] \in Elem /\ s[k] \in Elem /\ s[m + 1] \in Elem /\ ~Higher(up, s[j], s[k])
        BY <1>1, <1>2
      <3>2. Higher(up, s[m + 1], s[j])
        BY <3>1, <1>3, HigherFacts
      <3>3. ~Higher(up, s[j], s[m + 1])
        BY <3>1, <3>2, HigherFacts
      <3> QED
        BY <3>2, <3>3
    <2>2. ~Higher(up, s[m + 1], s[m + 1])
      BY <1>1, <1>2, HigherFacts
    <2>3. \A j \in 1 .. m + 1 : j \in 1 .. m \/ j = m + 1
      OBVIOUS
    <2>4. \A j \in 1 .. (m + 1) - 1 : j \in 1 .. m
      OBVIOUS
    <2>5. FirstBest(up, s, m + 1, m + 1)
      BY <2>1, <2>2, <2>3, <2>4 DEF FirstBest
    <2> QED
      BY <1>3, <2>5
  <1>4. CASE ~Higher(up, s[m + 1], s[k])
    <2>1. \A j \in 1 .. m + 1 : j \in 1 .. m \/ j = m + 1
      OBVIOUS
    <2>2. k \in 1 .. m + 1
      BY <1>2
    <2>3. FirstBest(up, s, m + 1, k)
      BY <2>1, <2>2, <1>2, <1>4 DEF FirstBest
    <2> QED
      BY <1>4, <2>3
  <1> QED
    BY <1>3, <1>4

LEMMA BestIsFirst ==
    ASSUME NEW up \in BOOLEAN, NEW s \in Seq(Elem), Len(s) >= 1, NEW w, IsBest(w, up, s, Len(s))
    PROVE  \E k : FirstBest(up, s, Len(s), k) /\ w[Len(s)] = s[k]
  <1> DEFINE n == Len(s)
             G(m) == \E k : FirstBest(up, s, m, k) /\ w[m] = s[k]
             B == {m \in 1 .. n : ~G(m)}
             f(j) == IF j = 1 THEN s[1] ELSE IF Higher(up, s[j], w[j - 1]) THEN s[j] ELSE w[j - 1]
  <1>0. n \in Nat /\ n \in 1 .. n /\ 1 \in 1 .. n
    OBVIOUS
  <1>1. B \in SUBSET Nat
    BY <1>0
  <1>2. \A j \in 1 .. n : w[j] = f(j)
    <2>1. w = [j \in 1 .. n |-> f(j)]
      BY DEF IsBest
    <2> HIDE DEF f
    <2>2. \A j \in 1 .. n : [i \in 1 .. n |-> f(i)][j] = f(j)
      BY Zenon
    <2> QED
      BY <2>1, <2>2, Zenon
  <1>3. G(1)
    <2>1. w[1] = s[1]
      BY <1>0, <1>2
    <2>2. s[1] \in Elem
      BY <1>0
    <2>3. ~Higher(up, s[1], s[1])
      BY <2>2, HigherFacts
    <2>4. \A j \in 1 .. 1 : j = 1
      OBVIOUS
    <2>5. FirstBest(up, s, 1, 1)
      BY <2>3, <2>4 DEF FirstBest
    <2> QED
      BY <2>1, <2>5
  <1>4. B = {}
    <2> SUFFICES ASSUME B # {} PROVE FALSE
      OBVIOUS
    <2>1. PICK k \in B : \A j \in B : k <= j
      <3> HIDE DEF B
      <3> QED
        BY <1>1, LeastNat
    <2>2. k \in 1 .. n /\ ~G(k)
      BY <2>1
    <2>3. k # 1
      BY <2>2, <1>3
    <2> DEFINE m == k - 1
    <2>4. m \in 1 .. n /\ m \in Nat /\ m >= 1 /\ m < n /\ ~(k <= m) /\ k = m + 1
      BY <1>0, <2>2, <2>3
    <2> HIDE DEF m, n
    <2>5. m \notin B
      BY <2>1, <2>4
    <2>6. G(m)
      BY <2>4, <2>5
    <2>7. PICK i : FirstBest(up, s, m, i) /\ w[m] = s[i]
      BY <2>6
    <2>8. IF Higher(up, s[k], s[i]) THEN FirstBest(up, s, k, k) ELSE FirstBest(up, s, k, i)
      BY <2>4, <2>7, BestGoesOn DEF n
    <2>9. w[k] = IF Higher(up, s[k], s[i]) THEN s[k] ELSE s[i]
      <3>1. w[k] = IF Higher(up, s[k], w[k - 1]) THEN s[k] ELSE w[k - 1]
        BY <1>2, <2>2, <2>3
      <3>2. w[k - 1] = s[i]
        BY <2>7 DEF m
      <3> QED
        BY <3>1, <3>2
    <2>10. G(k)
      BY <2>8, <2>9
    <2> QED
      BY <2>2, <2>10
  <1> HIDE DEF n, G
  <1>5. G(n)
    BY <1>0, <1>4
  <1> QED
    BY <1>5 DEF G, n
\* What list_max and list_min return.
LEMMA MaxIsBest ==
    ASSUME NEW p, NEW l, Contents(p, l) \in Seq(Elem)
    PROVE  /\ Contents(p, l) = << >> => list_max(p, l) = tail(l)
           /\ Contents(p, l) # << >> => \E w : /\ IsBest(w, TRUE, Contents(p, l), Len(Contents(p, l)))
                                               /\ list_max(p, l) = w[Len(Contents(p, l))]
  <1> DEFINE s == Contents(p, l)
             n == Len(s)
             f(u, j) == IF j = 1 THEN s[1] ELSE LET m == u[j - 1] IN IF less(m, s[j]) THEN s[j] ELSE m
             g == CHOOSE u : u = [j \in 1 .. n |-> f(u, j)]
  <1>1. list_max(p, l) = IF s = << >> THEN tail(l) ELSE g[n]
    BY Zenon DEF list_max, Best
  <1> HIDE DEF s
  <1>2. n \in Nat
    BY DEF s
  <1> HIDE DEF n
  <1>3. \A u, j : f(u, j) = IF j = 1 THEN s[1] ELSE IF Higher(TRUE, s[j], u[j - 1]) THEN s[j] ELSE u[j - 1]
    BY Zenon DEF Higher
  <1> HIDE DEF f
  <1>4. \A u : IsBest(u, TRUE, s, n) <=> u = [j \in 1 .. n |-> f(u, j)]
    BY <1>3, Zenon DEF IsBest
  <1>5. \E u : u = [j \in 1 .. n |-> f(u, j)]
    BY <1>2, <1>4, BestExists
  <1>6. g = [j \in 1 .. n |-> f(g, j)]
    BY <1>5, Zenon
  <1> HIDE DEF g
  <1>7. IsBest(g, TRUE, s, n)
    BY <1>4, <1>6, Zenon
  <1> QED
    BY <1>1, <1>7, Zenon DEF s, n

LEMMA MinIsBest ==
    ASSUME NEW p, NEW l, Contents(p, l) \in Seq(Elem)
    PROVE  /\ Contents(p, l) = << >> => list_min(p, l) = tail(l)
           /\ Contents(p, l) # << >> => \E w : /\ IsBest(w, FALSE, Contents(p, l), Len(Contents(p, l)))
                                               /\ list_min(p, l) = w[Len(Contents(p, l))]
  <1> DEFINE s == Contents(p, l)
             n == Len(s)
             f(u, j) == IF j = 1 THEN s[1] ELSE LET m == u[j - 1] IN IF less(s[j], m) THEN s[j] ELSE m
             g == CHOOSE u : u = [j \in 1 .. n |-> f(u, j)]
  <1>1. list_min(p, l) = IF s = << >> THEN tail(l) ELSE g[n]
    BY Zenon DEF list_min, Best
  <1> HIDE DEF s
  <1>2. n \in Nat
    BY DEF s
  <1> HIDE DEF n
  <1>3. \A u, j : f(u, j) = IF j = 1 THEN s[1] ELSE IF Higher(FALSE, s[j], u[j - 1]) THEN s[j] ELSE u[j - 1]
    BY Zenon DEF Higher
  <1> HIDE DEF f
  <1>4. \A u : IsBest(u, FALSE, s, n) <=> u = [j \in 1 .. n |-> f(u, j)]
    BY <1>3, Zenon DEF IsBest
  <1>5. \E u : u = [j \in 1 .. n |-> f(u, j)]
    BY <1>2, <1>4, BestExists
  <1>6. g = [j \in 1 .. n |-> f(g, j)]
    BY <1>5, Zenon
  <1> HIDE DEF g
  <1>7. IsBest(g, FALSE, s, n)
    BY <1>4, <1>6, Zenon
  <1> QED
    BY <1>1, <1>7, Zenon DEF s, n

LEMMA Extremes ==
    ASSUME NEW p, NEW S, Chains(p, S, {}), NEW l \in Lists
    PROVE  FirstExtremes(p, l, S[l])
  <1> DEFINE s == S[l]
             n == Len(s)
             a == list_max(p, l)
             b == list_min(p, l)
  <1>1. Contents(p, l) = s
    BY ContentsOf
  <1>2. s \in Seq(Elem) /\ n \in Nat
    BY AtFacts DEF Chains
  <1>3. CASE s = << >>
    <2>1. a = tail(l) /\ b = tail(l)
      BY <1>1, <1>2, <1>3, MaxIsBest, MinIsBest, Zenon
    <2> QED
      BY <2>1, <1>3, Zenon DEF FirstExtremes
  <1>4. CASE s # << >>
    <2>0. n >= 1
      BY <1>2, <1>4
    <2>1. PICK w : IsBest(w, TRUE, s, n) /\ a = w[n]
      BY <1>1, <1>2, <1>4, MaxIsBest, Zenon
    <2>2. PICK v : IsBest(v, FALSE, s, n) /\ b = v[n]
      BY <1>1, <1>2, <1>4, MinIsBest, Zenon
    <2> HIDE DEF a, b, s
    <2>3. PICK i : FirstBest(TRUE, s, n, i) /\ a = s[i]
      BY <2>0, <2>1, <1>2, BestIsFirst
    <2>4. PICK k : FirstBest(FALSE, s, n, k) /\ b = s[k]
      BY <2>0, <2>2, <1>2, BestIsFirst
    <2>5. /\ i \in 1 .. n /\ s[i] = a
          /\ \A j \in 1 .. i - 1 : less(s[j], a)
          /\ \A j \in 1 .. n : ~less(a, s[j])
      BY <2>3 DEF FirstBest, Higher
    <2>6. /\ k \in 1 .. n /\ s[k] = b
          /\ \A j \in 1 .. k - 1 : less(b, s[j])
          /\ \A j \in 1 .. n : ~less(s[j], b)
      BY <2>4 DEF FirstBest, Higher
    <2> QED
      BY <2>5, <2>6, <1>4, Zenon DEF FirstExtremes, a, b, s
  <1> QED
    BY <1>3, <1>4

\* An element put behind all that are not larger keeps a list sorted.
LEMMA OrderedSorts ==
    ASSUME NEW s \in Seq(Elem), Sorted(s), NEW e \in Elem, NEW k \in 0 .. Len(s),
           \A i \in 1 .. k : ~less(e, s[i]), k # Len(s) => less(e, s[k + 1]),
           \A i \in 1 .. Len(s) : s[i] # e
    PROVE  LET u == Paste(s, k, <<e>>)
           IN  Sorted(u) /\ \A i, j \in 1 .. Len(u) : i < j /\ u[i] = e => less(e, u[j])
  <1> DEFINE n == Len(s)
             t == <<e>>
             u == Paste(s, k, t)
  <1>1. n \in Nat /\ k \in Nat /\ k <= n /\ t \in Seq(Elem) /\ Len(t) = 1 /\ t[1] = e
    OBVIOUS
  <1> HIDE DEF t
  <1>2. /\ u \in Seq(Elem) /\ Len(u) = Len(s) + Len(t)
        /\ \A h \in 1 .. Len(s) + Len(t) :
              u[h] = IF h <= k THEN s[h] ELSE IF h <= k + Len(t) THEN t[h - k] ELSE s[h - Len(t)]
    BY <1>1, PasteSeq, Zenon
  <1> HIDE DEF u
  <1>3. /\ u \in Seq(Elem) /\ Len(u) = n + 1
        /\ \A h \in 1 .. k : u[h] = s[h]
        /\ u[k + 1] = e
        /\ \A h \in k + 2 .. n + 1 : u[h] = s[h - 1]
    BY <1>1, <1>2
  <1>4. \A i \in 2 .. n : ~less(s[i], s[i - 1])
    BY DEF Sorted
  <1>5. \A i \in 1 .. k : ~less(e, s[i])
    OBVIOUS
  <1>6. \A i \in k + 1 .. n : less(e, s[i])
    <2>1. CASE k = n
      BY <2>1, <1>1
    <2>2. CASE k # n
      <3>1. k + 1 \in 1 .. n /\ n \in k + 1 .. n
        BY <2>2, <1>1
      <3>2. RunOf(s, k + 1, n)
        <4>1. \A i \in (k + 1) + 1 .. n : i \in 2 .. n
          BY <1>1
        <4> QED
          BY <4>1, <1>4 DEF RunOf
      <3>3. \A i \in k + 1 .. n : key[s[k + 1]] <= key[s[i]]
        BY <3>1, <3>2, RunBound
      <3>4. \A i \in 1 .. n : s[i] \in Elem
        OBVIOUS
      <3>5. key[e] < key[s[k + 1]] /\ key[e] \in Nat /\ key[s[k + 1]] \in Nat
        BY <2>2, <3>1, <3>4, KeyFacts
      <3>6. ASSUME NEW i \in k + 1 .. n PROVE less(e, s[i])
        <4>1. i \in 1 .. n
          BY <1>1
        <4>2. key[s[i]] \in Nat
          BY <4>1, <3>4, KeyFacts
        <4> QED
          BY <3>3, <3>5, <4>2 DEF less
      <3> QED
        BY <3>6
    <2> QED
      BY <2>1, <2>2
  <1> HIDE DEF n
  <1>7. ASSUME NEW h \in 2 .. n + 1 PROVE ~less(u[h], u[h - 1])
    <2> DEFINE j == h - 1
    <2>1. CASE h <= k
      <3>1. h \in 1 .. k /\ j \in 1 .. k /\ h \in 2 .. n
        BY <2>1, <1>1
      <3>2. u[h] = s[h] /\ u[j] = s[j]
        BY <3>1, <1>3
      <3> QED
        BY <3>1, <3>2, <1>4
    <2>2. CASE h = k + 1
      <3>1. j \in 1 .. k
        BY <2>2, <1>1
      <3>2. u[j] = s[j] /\ u[h] = e
        BY <3>1, <2>2, <1>3
      <3> QED
        BY <3>1, <3>2, <1>5
    <2>3. CASE h = k + 2
      <3>1. j = k + 1 /\ h \in k + 2 .. n + 1 /\ j \in k + 1 .. n /\ j \in 1 .. n
        BY <2>3, <1>1
      <3>2. u[h] = s[j] /\ u[j] = e
        BY <3>1, <1>3
      <3>3. less(e, s[j]) /\ s[j] \in Elem
        BY <3>1, <1>6 DEF n
      <3>4. ~less(s[j], e)
        BY <3>3, KeyFacts
      <3> QED
        BY <3>2, <3>4
    <2>4. CASE h > k + 2
      <3>1. h \in k + 2 .. n + 1 /\ j \in k + 2 .. n + 1 /\ j \in 2 .. n
        BY <2>4, <1>1
      <3>2. u[h] = s[h - 1] /\ u[j] = s[j - 1] /\ ~less(s[j], s[j - 1])
        BY <3>1, <1>3, <1>4
      <3> QED
        BY <3>2
    <2>5. h <= k \/ h = k + 1 \/ h = k + 2 \/ h > k + 2
      BY <1>1
    <2> QED
      BY <2>1, <2>2, <2>3, <2>4, <2>5
  <1>8. ASSUME NEW i \in 1 .. n + 1, NEW j \in 1 .. n + 1, i < j, u[i] = e PROVE less(e, u[j])
    <2>1. i = k + 1
      <3>1. ASSUME i <= k PROVE FALSE
        <4>1. i \in 1 .. k /\ i \in 1 .. n
          BY <3>1, <1>1
        <4> QED
          BY <4>1, <1>3, <1>8 DEF n
      <3>2. ASSUME i > k + 1 PROVE FALSE
        <4>1. i \in k + 2 .. n + 1 /\ i - 1 \in 1 .. n
          BY <3>2, <1>1
        <4> QED
          BY <4>1, <1>3, <1>8 DEF n
      <3> QED
        BY <3>1, <3>2, <1>1
    <2>2. j \in k + 2 .. n + 1 /\ j - 1 \in k + 1 .. n
      BY <2>1, <1>1, <1>8
    <2> QED
      BY <2>2, <1>3, <1>6
  <1>9. Sorted(u)
    BY <1>3, <1>7 DEF Sorted
  <1>10. \A i, j \in 1 .. Len(u) : i < j /\ u[i] = e => less(e, u[j])
    BY <1>3, <1>8
  <1> QED
    BY <1>9, <1>10 DEF u, t
LEMMA OrderedKeeps ==
    ASSUME IInv, NEW l \in Lists, NEW e \in Elem, list_insert_ordered(l, e)
    PROVE  LET s == lists'[l]
           IN  Sorted(s) /\ \A i, j \in 1 .. Len(s) : i < j /\ s[i] = e => less(e, s[j])
  <1> DEFINE s == lists[l]
  <1>1. Chains(links, lists, {}) /\ IsLists(lists) /\ s \in Seq(Elem) /\ Len(s) \in Nat
    BY AtFacts DEF IInv, Chains
  <1>2. PICK k \in 0 .. Len(s) :
          /\ OrderedPlace(links, l, e) = At(l, s, k + 1)
          /\ \A i \in 1 .. k : ~less(e, s[i])
          /\ k # Len(s) => less(e, s[k + 1])
    BY <1>1, OrderedPlaceAt
  <1>3. e \notin Linked /\ Sorted(s) /\ Relinked(Insert(links, OrderedPlace(links, l, e), e))
    BY DEF list_insert_ordered, Becomes
  <1>4. lists' = PasteLists(lists, l, k, <<e>>)
    BY <1>1, <1>2, <1>3, InsertStep
  <1>5. lists'[l] = Paste(s, k, <<e>>)
    <2>1. lists = [m \in Lists |-> lists[m]]
      BY <1>1 DEF IsLists
    <2> QED
      BY <1>4, <2>1 DEF PasteLists
  <1>6. \A i \in 1 .. Len(s) : s[i] # e
    <2>1. e \notin Of(lists)
      BY <1>1, <1>3, LinkedOf
    <2> QED
      BY <2>1 DEF Of
  <1> HIDE DEF s
  <1> DEFINE u == Paste(s, k, <<e>>)
  <1>7. Sorted(u) /\ \A i, j \in 1 .. Len(u) : i < j /\ u[i] = e => less(e, u[j])
    BY <1>1, <1>2, <1>3, <1>6, OrderedSorts
  <1> HIDE DEF u
  <1> QED
    BY <1>5, <1>7 DEF u

\* list_insert_ordered keeps a list sorted and puts an element behind its equals, and
\* list_max and list_min return the first of the extreme elements, for every list that
\* the calls can build.
THEOREM Compares == Spec => ComparesRight
  <1> DEFINE A == /\ sort.pc = "idle" => \A l \in Lists : FirstExtremes(links, l, lists[l])
                  /\ \A l \in Lists, e \in Elem : list_insert_ordered(l, e) =>
                        LET s == lists'[l]
                        IN  Sorted(s) /\ \A i, j \in 1 .. Len(s) : i < j /\ s[i] = e => less(e, s[j])
  <1>1. ASSUME IInv PROVE A
    <2>1. \A l \in Lists : FirstExtremes(links, l, lists[l])
      BY <1>1, Extremes DEF IInv
    <2> QED
      BY <1>1, <2>1, OrderedKeeps
  <1>2. IInv /\ [Next]_vars => [A]_vars
    BY <1>1
  <1> QED
    BY <1>2, Inductive, PTL DEF Spec, ComparesRight

=============================================================================
