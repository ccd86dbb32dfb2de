-------------------------- MODULE FileSystemProofs --------------------------
(***************************************************************************)
(* Proofs about FileSystem, for every size of the device, every number of  *)
(* direct blocks and of pointers in a block, and every set of names.       *)
(***************************************************************************)
EXTENDS FileSystem, NatLemmas, SequenceTheorems

-----------------------------------------------------------------------------
\* Paths.

Most == Direct + PerSector + PerSector * PerSector

\* What a path that the inode uses looks like.
Shape(p) == /\ p \in Seq(Nat) /\ Len(p) \in 1 .. 3
            /\ p[1] \in Pointers
            /\ \A i \in 2 .. Len(p) : p[i] \in Slots

LEMMA MostType == Most \in Nat /\ MaxLength \in Nat /\ MaxLength <= Most
  <1>1. PerSector * PerSector \in Nat
    BY BlockAssumption
  <1> QED
    BY <1>1, BlockAssumption, LengthAssumption DEF Most

\* The quotient and the remainder that select the slots of a doubly indirect
\* block are inside the blocks.
LEMMA DivBound ==
    ASSUME NEW b \in Nat \ {0}, NEW m \in Nat, m < b * b
    PROVE  m \div b \in 0 .. b - 1 /\ m % b \in 0 .. b - 1
  <1> DEFINE d == m \div b
  <1>1. d \in Nat /\ m % b \in 0 .. b - 1 /\ m = b * d + (m % b)
    OBVIOUS
  <1> HIDE DEF d
  <1>2. d < b
    <2> SUFFICES ASSUME d >= b PROVE FALSE
      BY <1>1
    <2>1. b * d >= b * b
      BY <1>1
    <2>2. b * d \in Nat /\ b * b \in Nat
      BY <1>1
    <2> QED
      BY <2>1, <2>2, <1>1
  <1> QED
    BY <1>1, <1>2 DEF d

LEMMA SectorPath ==
    ASSUME NEW k \in 1 .. Most
    PROVE  Shape(index_to_sector(k))
  <1>0. Direct \in Nat /\ PerSector \in Nat \ {0} /\ k \in Nat /\ PerSector * PerSector \in Nat
    BY BlockAssumption, MostType
  <1>1. CASE k <= Direct
    <2>1. index_to_sector(k) = <<k>>
      BY <1>0, <1>1 DEF index_to_sector
    <2> QED
      BY <2>1, <1>0, <1>1 DEF Shape, Pointers
  <1>2. CASE k \in Direct + 1 .. Direct + PerSector
    <2> DEFINE j == k - Direct
    <2>1. index_to_sector(k) = <<Direct + 1, j>> /\ j \in Slots /\ j \in Nat
      BY <1>0, <1>2 DEF index_to_sector, Slots
    <2>2. Direct + 1 \in Pointers /\ Direct + 1 \in Nat
      BY <1>0 DEF Pointers
    <2> HIDE DEF j
    <2> QED
      BY <2>1, <2>2 DEF Shape
  <1>3. CASE k > Direct + PerSector
    <2> DEFINE m == k - Direct - PerSector - 1
               i == (m \div PerSector) + 1
               j == (m % PerSector) + 1
    <2>1. m \in Nat /\ m < PerSector * PerSector
      BY <1>0, <1>3 DEF Most
    <2>2. m \div PerSector \in 0 .. PerSector - 1 /\ m % PerSector \in 0 .. PerSector - 1
      <3> HIDE DEF m
      <3> QED
        BY <2>1, <1>0, DivBound
    <2>3. i \in Slots /\ j \in Slots /\ i \in Nat /\ j \in Nat
      BY <2>2, <1>0 DEF Slots
    <2>4. index_to_sector(k) = <<Direct + 2, i, j>>
      BY <1>0, <1>3 DEF index_to_sector
    <2>5. Direct + 2 \in Pointers /\ Direct + 2 \in Nat
      BY <1>0 DEF Pointers
    <2> HIDE DEF i, j
    <2> QED
      BY <2>3, <2>4, <2>5 DEF Shape
  <1> QED
    BY <1>0, <1>1, <1>2, <1>3

\* A prefix of a path.
LEMMA PrefixFacts ==
    ASSUME NEW p, Shape(p), NEW l \in 1 .. Len(p)
    PROVE  /\ Shape(SubSeq(p, 1, l))
           /\ Len(SubSeq(p, 1, l)) = l
           /\ \A i \in 1 .. l : SubSeq(p, 1, l)[i] = p[i]
  <1>1. \A i \in 1 .. l : p[i] \in Nat
    BY DEF Shape
  <1>2. 1 \in Int /\ l \in Int /\ Len(p) \in 1 .. 3
    BY DEF Shape
  <1> DEFINE q == SubSeq(p, 1, l)
  <1>3. /\ q \in Seq(Nat) /\ Len(q) = IF 1 <= l THEN l - 1 + 1 ELSE 0
        /\ \A i \in 1 .. l - 1 + 1 : q[i] = p[1 + i - 1]
    BY <1>1, <1>2, SubSeqProperties
  <1> HIDE DEF q
  <1>4. Len(q) = l /\ \A i \in 1 .. l : q[i] = p[i]
    <2>1. \A i \in 1 .. l : i \in 1 .. l - 1 + 1 /\ 1 + i - 1 = i
      BY <1>2
    <2> QED
      BY <1>2, <1>3, <2>1
  <1>5. Shape(q)
    BY <1>2, <1>3, <1>4 DEF Shape
  <1> QED
    BY <1>4, <1>5 DEF q

LEMMA NeedShape ==
    ASSUME NEW n \in Int, n <= Most, NEW p \in Need(n)
    PROVE  Shape(p)
  <1>1. PICK k \in 1 .. n :
               p \in {SubSeq(index_to_sector(k), 1, l) : l \in 1 .. Len(index_to_sector(k))}
    BY DEF Need
  <1>2. PICK l \in 1 .. Len(index_to_sector(k)) : p = SubSeq(index_to_sector(k), 1, l)
    BY <1>1
  <1>3. Shape(index_to_sector(k))
    BY MostType, SectorPath
  <1> QED
    BY <1>2, <1>3, PrefixFacts

\* Two paths with the same elements are the same.
LEMMA SamePath ==
    ASSUME NEW p, NEW q, Shape(p), Shape(q), Len(p) = Len(q),
           \A i \in 1 .. Len(p) : p[i] = q[i]
    PROVE  p = q
  BY SeqEqual DEF Shape

\* The paths that n sectors need are closed under prefixes.
LEMMA NeedPrefix ==
    ASSUME NEW n \in Int, n <= Most, NEW p \in Need(n), NEW l \in 1 .. Len(p)
    PROVE  SubSeq(p, 1, l) \in Need(n)
  <1>1. PICK k \in 1 .. n :
               p \in {SubSeq(index_to_sector(k), 1, m) : m \in 1 .. Len(index_to_sector(k))}
    BY DEF Need
  <1> DEFINE t == index_to_sector(k)
  <1>2. PICK m \in 1 .. Len(t) : p = SubSeq(t, 1, m)
    BY <1>1
  <1>3. Shape(t) /\ Len(t) \in 1 .. 3
    BY MostType, SectorPath DEF Shape
  <1>4. SubSeq(t, 1, l) \in Need(n) /\ l \in 1 .. Len(t)
    <2>1. Len(p) = m
      BY <1>2, <1>3, PrefixFacts
    <2>2. l \in 1 .. Len(t)
      BY <2>1, <1>3
    <2>3. SubSeq(t, 1, l) \in {SubSeq(t, 1, h) : h \in 1 .. Len(t)}
      BY <2>2
    <2> QED
      BY <2>2, <2>3 DEF Need
  <1> HIDE DEF t
  <1>5. SubSeq(p, 1, l) = SubSeq(t, 1, l)
    <2>1. /\ Shape(p) /\ Len(p) = m
          /\ \A i \in 1 .. m : p[i] = t[i]
      BY <1>2, <1>3, PrefixFacts
    <2> DEFINE a == SubSeq(p, 1, l)
               b == SubSeq(t, 1, l)
    <2>2. Shape(a) /\ Len(a) = l /\ \A i \in 1 .. l : a[i] = p[i]
      BY <2>1, PrefixFacts
    <2>3. Shape(b) /\ Len(b) = l /\ \A i \in 1 .. l : b[i] = t[i]
      BY <1>3, <1>4, PrefixFacts
    <2> HIDE DEF a, b
    <2>4. \A i \in 1 .. l : a[i] = b[i]
      BY <2>1, <2>2, <2>3
    <2>5. a = b
      BY <2>2, <2>3, <2>4, SamePath
    <2> QED
      BY <2>5 DEF a, b
  <1> QED
    BY <1>4, <1>5

LEMMA NeedMonotone ==
    ASSUME NEW n \in Int, NEW m \in Int, n <= m
    PROVE  Need(n) \subseteq Need(m)
  <1>1. 1 .. n \subseteq 1 .. m
    OBVIOUS
  <1> QED
    BY <1>1 DEF Need

\* The path without its last element.
Up(p) == SubSeq(p, 1, Len(p) - 1)

LEMMA UpFacts ==
    ASSUME NEW p, Shape(p), Len(p) > 1
    PROVE  /\ Shape(Up(p)) /\ Len(Up(p)) = Len(p) - 1
           /\ \A i \in 1 .. Len(p) - 1 : Up(p)[i] = p[i]
           /\ p = Append(Up(p), p[Len(p)])
           /\ p[Len(p)] \in Slots
  <1> DEFINE u == Up(p)
  <1>1. Len(p) - 1 \in 1 .. Len(p) /\ Len(p) \in 1 .. 3 /\ p[Len(p)] \in Slots
    BY DEF Shape
  <1>2. Shape(u) /\ Len(u) = Len(p) - 1 /\ \A i \in 1 .. Len(p) - 1 : u[i] = p[i]
    <2> DEFINE l == Len(p) - 1
    <2>1. l \in 1 .. Len(p)
      BY <1>1
    <2> HIDE DEF l
    <2>2. Shape(SubSeq(p, 1, l)) /\ Len(SubSeq(p, 1, l)) = l
          /\ \A i \in 1 .. l : SubSeq(p, 1, l)[i] = p[i]
      BY <2>1, PrefixFacts
    <2> QED
      BY <2>2 DEF l, Up
  <1> HIDE DEF u
  <1> DEFINE a == Append(u, p[Len(p)])
  <1>3. /\ a \in Seq(Nat) /\ Len(a) = Len(u) + 1
        /\ \A i \in 1 .. Len(u) : a[i] = u[i]
        /\ a[Len(u) + 1] = p[Len(p)]
    <2>1. u \in Seq(Nat) /\ p[Len(p)] \in Nat
      BY <1>1, <1>2 DEF Shape
    <2> QED
      BY <2>1, AppendProperties
  <1> HIDE DEF a
  <1>4. p = a
    <2>1. p \in Seq(Nat)
      BY DEF Shape
    <2>2. Len(p) = Len(a) /\ \A i \in 1 .. Len(p) : p[i] = a[i]
      BY <1>1, <1>2, <1>3
    <2> QED
      BY <2>1, <2>2, <1>3, SeqEqual
  <1> QED
    BY <1>1, <1>2, <1>4 DEF a, u

\* The path one step below another.
LEMMA DownFacts ==
    ASSUME NEW u, Shape(u), NEW j \in Slots
    PROVE  /\ Append(u, j) \in Seq(Nat) /\ Len(Append(u, j)) = Len(u) + 1
           /\ \A i \in 1 .. Len(u) : Append(u, j)[i] = u[i]
           /\ Append(u, j)[Len(u) + 1] = j
           /\ SubSeq(Append(u, j), 1, Len(u)) = u
  <1> DEFINE a == Append(u, j)
  <1>1. u \in Seq(Nat) /\ j \in Nat /\ Len(u) \in 1 .. 3
    BY BlockAssumption DEF Shape, Slots
  <1>2. /\ a \in Seq(Nat) /\ Len(a) = Len(u) + 1
        /\ \A i \in 1 .. Len(u) : a[i] = u[i]
        /\ a[Len(u) + 1] = j
    BY <1>1, AppendProperties
  <1> HIDE DEF a
  <1> DEFINE b == SubSeq(a, 1, Len(u))
  <1>3. b = u
    <2>1. \A i \in 1 .. Len(u) : a[i] \in Nat
      BY <1>1, <1>2
    <2>2. 1 \in Int /\ Len(u) \in Int
      BY <1>1
    <2>3. /\ b \in Seq(Nat) /\ Len(b) = IF 1 <= Len(u) THEN Len(u) - 1 + 1 ELSE 0
          /\ \A i \in 1 .. Len(u) - 1 + 1 : b[i] = a[1 + i - 1]
      BY <2>1, <2>2, SubSeqProperties
    <2> HIDE DEF b
    <2>4. Len(b) = Len(u) /\ \A i \in 1 .. Len(b) : b[i] = u[i]
      <3>1. \A i \in 1 .. Len(u) : i \in 1 .. Len(u) - 1 + 1 /\ 1 + i - 1 = i
        BY <1>1
      <3> QED
        BY <1>1, <1>2, <2>3, <3>1
    <2> QED
      BY <1>1, <2>3, <2>4, SeqEqual
  <1> QED
    BY <1>2, <1>3 DEF a, b

LEMMA NeedUp ==
    ASSUME NEW n \in Int, n <= Most, NEW p \in Need(n), Len(p) > 1
    PROVE  Up(p) \in Need(n)
  <1>1. Len(p) \in 1 .. 3
    BY NeedShape DEF Shape
  <1> DEFINE l == Len(p) - 1
  <1>2. l \in 1 .. Len(p)
    BY <1>1
  <1> HIDE DEF l
  <1>3. SubSeq(p, 1, l) \in Need(n)
    BY <1>2, NeedPrefix
  <1> QED
    BY <1>3 DEF l, Up

\* A path whose child is needed is needed.
LEMMA NeedParent ==
    ASSUME NEW n \in Int, n <= Most, NEW u, Shape(u), NEW j \in Slots, Append(u, j) \in Need(n)
    PROVE  u \in Need(n)
  <1> DEFINE p == Append(u, j)
             l == Len(u)
  <1>1. l \in 1 .. Len(p) /\ SubSeq(p, 1, l) = u
    BY DownFacts DEF Shape
  <1>2. SubSeq(p, 1, l) \in Need(n)
    <2> HIDE DEF l
    <2> QED
      BY <1>1, NeedPrefix
  <1> QED
    BY <1>1, <1>2

LEMMA PathFacts ==
    ASSUME NEW p \in AllPaths
    PROVE  /\ Shape(p) /\ Len(p) \in {1, 2, 3}
           /\ Len(p) > 1 => Up(p) \in AllPaths
           /\ Len(p) = 2 => Up(p) \in AllPaths /\ Len(Up(p)) = 1
           /\ Len(p) = 3 => Up(p) \in AllPaths /\ Len(Up(p)) = 2
  <1>1. Most \in Int /\ Most <= Most /\ p \in Need(Most)
    BY MostType DEF AllPaths, Most
  <1>2. Shape(p)
    BY <1>1, NeedShape
  <1>3. Len(p) > 1 => Up(p) \in Need(Most)
    BY <1>1, NeedUp
  <1>4. Need(Most) = AllPaths
    BY DEF AllPaths, Most
  <1>5. Len(p) \in {1, 2, 3}
    BY <1>2 DEF Shape
  <1>6. Len(p) > 1 => Up(p) \in AllPaths /\ Len(Up(p)) = Len(p) - 1
    BY <1>2, <1>3, <1>4, UpFacts
  <1>7. CASE Len(p) = 1
    BY <1>2, <1>5, <1>7
  <1>8. CASE Len(p) = 2
    BY <1>2, <1>5, <1>6, <1>8
  <1>9. CASE Len(p) = 3
    BY <1>2, <1>5, <1>6, <1>9
  <1> QED
    BY <1>5, <1>7, <1>8, <1>9

LEMMA TopPath ==
    ASSUME NEW p \in AllPaths, Len(p) = 1
    PROVE  p = <<p[1]>> /\ p[1] \in Pointers
  <1>1. p \in Seq(Nat) /\ p[1] \in Pointers /\ p[1] \in Nat
    BY PathFacts DEF Shape
  <1> DEFINE q == <<p[1]>>
  <1>2. q \in Seq(Nat) /\ Len(q) = 1 /\ q[1] = p[1]
    BY <1>1
  <1> HIDE DEF q
  <1>3. p = q
    BY <1>1, <1>2, SeqEqual
  <1> QED
    BY <1>1, <1>3 DEF q

LEMMA NeedPaths ==
    ASSUME NEW n \in Int, n <= MaxLength
    PROVE  /\ Need(n) \subseteq AllPaths
           /\ \A p \in Need(n) : Len(p) > 1 => Up(p) \in Need(n)
  <1>1. n <= Most /\ Most \in Int
    BY MostType
  <1>2. Need(n) \subseteq Need(Most)
    BY <1>1, NeedMonotone
  <1>3. \A p \in Need(n) : Len(p) > 1 => Up(p) \in Need(n)
    BY <1>1, NeedUp
  <1> QED
    BY <1>2, <1>3 DEF AllPaths, Most

\* Only finitely many paths are needed.
LEMMA NeedFinite ==
    ASSUME NEW n \in Int, n <= Most
    PROVE  IsFiniteSet(Need(n))
  <1> DEFINE T == {x \in (1 .. n) \X (1 .. 3) : x[2] <= Len(index_to_sector(x[1]))}
             f == [x \in T |-> SubSeq(index_to_sector(x[1]), 1, x[2])]
  <1>1. IsFiniteSet((1 .. n) \X (1 .. 3))
    <2>1. 1 \in Int /\ 3 \in Int
      OBVIOUS
    <2>2. IsFiniteSet(1 .. n) /\ IsFiniteSet(1 .. 3)
      BY <2>1, FS_Interval
    <2> QED
      BY <2>2, FS_Product
  <1>2. IsFiniteSet(T)
    <2>1. T \in SUBSET ((1 .. n) \X (1 .. 3))
      OBVIOUS
    <2> HIDE DEF T
    <2> QED
      BY <2>1, <1>1, FS_Subset
  <1>3. \A k \in 1 .. n : Len(index_to_sector(k)) \in 1 .. 3
    BY MostType, SectorPath DEF Shape
  <1>4. f \in [T -> Need(n)]
    <2> SUFFICES ASSUME NEW x \in T PROVE SubSeq(index_to_sector(x[1]), 1, x[2]) \in Need(n)
      OBVIOUS
    <2> DEFINE k == x[1]
               l == x[2]
    <2>1. k \in 1 .. n /\ l \in 1 .. Len(index_to_sector(k))
      BY <1>3
    <2> HIDE DEF k, l
    <2>2. SubSeq(index_to_sector(k), 1, l)
             \in {SubSeq(index_to_sector(k), 1, h) : h \in 1 .. Len(index_to_sector(k))}
      BY <2>1
    <2>3. SubSeq(index_to_sector(k), 1, l) \in Need(n)
      BY <2>1, <2>2 DEF Need
    <2> QED
      BY <2>3 DEF k, l
  <1>5. \A p \in Need(n) : \E x \in T : f[x] = p
    <2> TAKE p \in Need(n)
    <2>1. PICK k \in 1 .. n :
                 p \in {SubSeq(index_to_sector(k), 1, l) : l \in 1 .. Len(index_to_sector(k))}
      BY DEF Need
    <2>2. PICK l \in 1 .. Len(index_to_sector(k)) : p = SubSeq(index_to_sector(k), 1, l)
      BY <2>1
    <2>3. <<k, l>> \in T
      BY <1>3, <2>2
    <2> QED
      BY <2>2, <2>3
  <1>6. f \in Surjection(T, Need(n))
    <2> HIDE DEF f, T
    <2> QED
      BY <1>4, <1>5 DEF Surjection
  <1> HIDE DEF f, T
  <1> QED
    BY <1>2, <1>6, FS_Surjection

-----------------------------------------------------------------------------
\* The order of allocation is a total order of paths: lexicographic, with what
\* is missing at the end of a path before everything else.

\* A path, the empty one included.
IsPath(p) == p \in Seq(Nat) /\ Len(p) \in 0 .. 3 /\ \A i \in 1 .. Len(p) : p[i] >= 1

Key(p, l) == IF l <= Len(p) THEN p[l] ELSE 0

LEMMA ShapePath ==
    ASSUME NEW p, Shape(p)
    PROVE  IsPath(p)
  BY BlockAssumption DEF Shape, IsPath, Pointers, Slots

LEMMA EmptyPath == IsPath(<< >>)
  BY DEF IsPath

LEMMA AboveFacts ==
    ASSUME NEW p, NEW q, IsPath(p), IsPath(q)
    PROVE  Above(p, q) <=> Len(p) < Len(q) /\ \A i \in 1 .. Len(p) : p[i] = q[i]
  <1> SUFFICES ASSUME Len(p) < Len(q)
               PROVE  SubSeq(q, 1, Len(p)) = p <=> \A i \in 1 .. Len(p) : p[i] = q[i]
    BY DEF Above
  <1> DEFINE b == SubSeq(q, 1, Len(p))
  <1>1. 1 \in Int /\ Len(p) \in Int /\ \A i \in 1 .. Len(p) : q[i] \in Nat
    BY DEF IsPath
  <1>2. /\ b \in Seq(Nat) /\ Len(b) = IF 1 <= Len(p) THEN Len(p) - 1 + 1 ELSE 0
        /\ \A i \in 1 .. Len(p) - 1 + 1 : b[i] = q[1 + i - 1]
    BY <1>1, SubSeqProperties
  <1> HIDE DEF b
  <1>3. Len(b) = Len(p) /\ \A i \in 1 .. Len(p) : b[i] = q[i]
    <2>1. \A i \in 1 .. Len(p) : i \in 1 .. Len(p) - 1 + 1 /\ 1 + i - 1 = i
      BY <1>1
    <2>2. Len(p) \in 0 .. 3
      BY DEF IsPath
    <2> QED
      BY <1>2, <2>1, <2>2
  <1>4. ASSUME \A i \in 1 .. Len(p) : p[i] = q[i] PROVE b = p
    <2>1. p \in Seq(Nat) /\ Len(b) = Len(p) /\ \A i \in 1 .. Len(b) : b[i] = p[i]
      BY <1>3, <1>4 DEF IsPath
    <2> QED
      BY <2>1, <1>2, SeqEqual
  <1>5. ASSUME b = p PROVE \A i \in 1 .. Len(p) : p[i] = q[i]
    BY <1>3, <1>5
  <1> QED
    BY <1>4, <1>5 DEF b

\* The keys of a path.
LEMMA KeyFacts ==
    ASSUME NEW p, IsPath(p)
    PROVE  /\ Key(p, 1) \in Nat /\ Key(p, 2) \in Nat /\ Key(p, 3) \in Nat
           /\ Len(p) \in 0 .. 3
           /\ Key(p, 1) = 0 <=> Len(p) = 0
           /\ Key(p, 2) = 0 <=> Len(p) <= 1
           /\ Key(p, 3) = 0 <=> Len(p) <= 2
           /\ \A i \in 1 .. Len(p) : p[i] = Key(p, i)
  BY DEF IsPath, Key

Lex(p, q) == \/ Key(p, 1) < Key(q, 1)
             \/ Key(p, 1) = Key(q, 1) /\ Key(p, 2) < Key(q, 2)
             \/ Key(p, 1) = Key(q, 1) /\ Key(p, 2) = Key(q, 2) /\ Key(p, 3) <= Key(q, 3)

LEMMA SameKeys ==
    ASSUME NEW p, NEW q, IsPath(p), IsPath(q),
           Key(p, 1) = Key(q, 1), Key(p, 2) = Key(q, 2), Key(p, 3) = Key(q, 3)
    PROVE  p = q
  <1>1. Len(p) = Len(q) /\ Len(p) \in 0 .. 3
    BY KeyFacts
  <1>2. \A i \in 1 .. Len(p) : p[i] = q[i]
    BY <1>1, KeyFacts
  <1> QED
    BY <1>1, <1>2, SeqEqual DEF IsPath

LEMMA BeforeLex ==
    ASSUME NEW p, NEW q, IsPath(p), IsPath(q)
    PROVE  Before(p, q) <=> Lex(p, q)
  <1>0. /\ Len(p) \in 0 .. 3 /\ Len(q) \in 0 .. 3
        /\ \A i \in 1 .. Len(p) : p[i] = Key(p, i)
        /\ \A i \in 1 .. Len(q) : q[i] = Key(q, i)
    BY KeyFacts
  <1>1. ASSUME Before(p, q) PROVE Lex(p, q)
    <2>1. CASE p = q
      BY <2>1, KeyFacts DEF Lex
    <2>2. CASE Above(p, q)
      <3>1. Len(p) < Len(q) /\ \A i \in 1 .. Len(p) : p[i] = q[i]
        BY <2>2, AboveFacts
      <3>2. \A i \in 1 .. Len(p) : Key(p, i) = Key(q, i)
        BY <3>1, <1>0
      <3> QED
        BY <3>1, <3>2, <1>0, KeyFacts DEF Lex
    <2>3. CASE \E l \in 1 .. Len(p) : /\ l <= Len(q)
                                      /\ p[l] < q[l]
                                      /\ \A h \in 1 .. l - 1 : p[h] = q[h]
      <3>1. PICK l \in 1 .. Len(p) : l <= Len(q) /\ p[l] < q[l] /\ \A h \in 1 .. l - 1 : p[h] = q[h]
        BY <2>3
      <3>2. Key(p, l) < Key(q, l) /\ \A h \in 1 .. l - 1 : Key(p, h) = Key(q, h)
        BY <3>1, <1>0
      <3> QED
        BY <3>1, <3>2, <1>0, KeyFacts DEF Lex
    <2> QED
      BY <1>1, <2>1, <2>2, <2>3 DEF Before
  <1>2. ASSUME Lex(p, q) PROVE Before(p, q)
    <2> DEFINE Differs(l) == /\ l <= Len(q)
                             /\ p[l] < q[l]
                             /\ \A h \in 1 .. l - 1 : p[h] = q[h]
    <2>1. CASE Key(p, 1) < Key(q, 1)
      <3>1. CASE Len(p) = 0
        <4>1. Above(p, q)
          BY <3>1, <2>1, KeyFacts, AboveFacts
        <4> QED
          BY <4>1 DEF Before
      <3>2. CASE Len(p) # 0
        <4>1. 1 \in 1 .. Len(p) /\ Differs(1)
          BY <3>2, <2>1, <1>0, KeyFacts
        <4> QED
          BY <4>1 DEF Before
      <3> QED
        BY <3>1, <3>2
    <2>2. CASE Key(p, 1) = Key(q, 1) /\ Key(p, 2) < Key(q, 2)
      <3>1. CASE Len(p) = 1
        <4>1. Above(p, q)
          BY <3>1, <2>2, <1>0, KeyFacts, AboveFacts
        <4> QED
          BY <4>1 DEF Before
      <3>2. CASE Len(p) > 1
        <4>1. 2 \in 1 .. Len(p) /\ Differs(2)
          BY <3>2, <2>2, <1>0, KeyFacts
        <4> QED
          BY <4>1 DEF Before
      <3>3. Len(p) # 0
        BY <2>2, KeyFacts
      <3> QED
        BY <3>1, <3>2, <3>3, <1>0
    <2>3. CASE Key(p, 1) = Key(q, 1) /\ Key(p, 2) = Key(q, 2) /\ Key(p, 3) < Key(q, 3)
      <3>1. CASE Len(p) = 2
        <4>1. Above(p, q)
          BY <3>1, <2>3, <1>0, KeyFacts, AboveFacts
        <4> QED
          BY <4>1 DEF Before
      <3>2. CASE Len(p) = 3
        <4>1. 3 \in 1 .. Len(p) /\ Differs(3)
          BY <3>2, <2>3, <1>0, KeyFacts
        <4> QED
          BY <4>1 DEF Before
      <3>3. Len(p) > 1
        BY <2>3, <1>0, KeyFacts
      <3> QED
        BY <3>1, <3>2, <3>3, <1>0
    <2>4. CASE Key(p, 1) = Key(q, 1) /\ Key(p, 2) = Key(q, 2) /\ Key(p, 3) = Key(q, 3)
      BY <2>4, SameKeys DEF Before
    <2> QED
      BY <1>2, <2>1, <2>2, <2>3, <2>4, KeyFacts DEF Lex
  <1> QED
    BY <1>1, <1>2

\* The four properties of a total order.
LEMMA BeforeOrder ==
    ASSUME NEW p, NEW q, IsPath(p), IsPath(q)
    PROVE  /\ Before(p, p)
           /\ Before(p, q) \/ Before(q, p)
           /\ Before(p, q) /\ Before(q, p) => p = q
  <1>1. Before(p, p)
    BY DEF Before
  <1>2. Lex(p, q) \/ Lex(q, p)
    BY KeyFacts DEF Lex
  <1>3. ASSUME Lex(p, q), Lex(q, p) PROVE p = q
    BY <1>3, KeyFacts, SameKeys DEF Lex
  <1> QED
    BY <1>1, <1>2, <1>3, BeforeLex

LEMMA BeforeTransitive ==
    ASSUME NEW p, NEW q, NEW t, IsPath(p), IsPath(q), IsPath(t), Before(p, q), Before(q, t)
    PROVE  Before(p, t)
  <1>1. Lex(p, q) /\ Lex(q, t)
    BY BeforeLex
  <1>2. Lex(p, t)
    BY <1>1, KeyFacts DEF Lex
  <1> QED
    BY <1>2, BeforeLex

-----------------------------------------------------------------------------
\* Allocation.

LEMMA SectorsType == Sectors = 0 .. MapSize - 1 /\ MapSize - 1 \in Nat /\ Nil \in Sectors /\ 1 \in Sectors
  BY MapAssumption DEF Sectors, Nil

LEMMA FreeFinite ==
    ASSUME NEW marked
    PROVE  IsFiniteSet(Free(marked)) /\ Cardinality(Free(marked)) \in Nat /\ Free(marked) \subseteq Sectors
  <1>1. Free(marked) \in SUBSET Sectors
    BY DEF Free
  <1>2. IsFiniteSet(Sectors)
    <2>1. 0 \in Int /\ MapSize - 1 \in Int
      BY SectorsType
    <2> QED
      BY <2>1, FS_Interval DEF Sectors
  <1> QED
    BY <1>1, <1>2, FS_Subset, FS_CardinalityType

\* The k-th allocation succeeds when there are k free sectors, and gives a
\* free sector that has k free sectors up to it.
LEMMA AllocateFacts ==
    ASSUME NEW marked, NEW k \in 1 .. Cardinality(Free(marked))
    PROVE  /\ free_map_allocate(marked, k) \in Free(marked)
           /\ Cardinality(UpTo(Free(marked), free_map_allocate(marked, k))) = k
  <1> DEFINE S == Free(marked)
  <1>1. \E s \in S : Cardinality(UpTo(S, s)) = k
    <2>1. S \in SUBSET (0 .. MapSize - 1) /\ MapSize - 1 \in Nat
      BY FreeFinite, SectorsType
    <2>2. k \in 1 .. Cardinality(S)
      OBVIOUS
    <2> HIDE DEF S
    <2> QED
      BY <2>1, <2>2, KthExists
  <1>2. free_map_allocate(marked, k) = CHOOSE s \in S : Cardinality(UpTo(S, s)) = k
    BY DEF free_map_allocate, UpTo
  <1> HIDE DEF S
  <1>3. /\ free_map_allocate(marked, k) \in S
        /\ Cardinality(UpTo(S, free_map_allocate(marked, k))) = k
    BY <1>1, <1>2
  <1> QED
    BY <1>3 DEF S

\* What allocations in a total order of requests give: free sectors, and no
\* sector to two requests.
LEMMA RankedAllocation ==
    ASSUME NEW marked, NEW M, IsFiniteSet(M), NEW R, TotalOrder(M, R), NEW p \in M,
           Cardinality(Preceding(M, R, p)) <= Cardinality(Free(marked))
    PROVE  free_map_allocate(marked, Cardinality(Preceding(M, R, p))) \in Free(marked)
  <1> DEFINE k == Cardinality(Preceding(M, R, p))
  <1>1. k \in 1 .. Cardinality(M) /\ Cardinality(M) \in Nat /\ Cardinality(Free(marked)) \in Nat
    BY RankType, FreeFinite, FS_CardinalityType
  <1> HIDE DEF k
  <1>2. k \in 1 .. Cardinality(Free(marked))
    BY <1>1 DEF k
  <1> QED
    BY <1>2, AllocateFacts DEF k

LEMMA DistinctAllocation ==
    ASSUME NEW marked, NEW M, IsFiniteSet(M), NEW R, TotalOrder(M, R),
           NEW p \in M, NEW q \in M, p # q,
           Cardinality(Preceding(M, R, p)) <= Cardinality(Free(marked)),
           Cardinality(Preceding(M, R, q)) <= Cardinality(Free(marked))
    PROVE  free_map_allocate(marked, Cardinality(Preceding(M, R, p)))
             # free_map_allocate(marked, Cardinality(Preceding(M, R, q)))
  <1> DEFINE k == Cardinality(Preceding(M, R, p))
             l == Cardinality(Preceding(M, R, q))
  <1>1. /\ k \in 1 .. Cardinality(M) /\ l \in 1 .. Cardinality(M)
        /\ Cardinality(M) \in Nat /\ Cardinality(Free(marked)) \in Nat
    BY RankType, FreeFinite, FS_CardinalityType
  <1>2. k # l
    BY RankDistinct
  <1>3. k <= Cardinality(Free(marked)) /\ l <= Cardinality(Free(marked))
    OBVIOUS
  <1> HIDE DEF k, l
  <1>4. k \in 1 .. Cardinality(Free(marked)) /\ l \in 1 .. Cardinality(Free(marked))
    BY <1>1, <1>3
  <1>5. free_map_allocate(marked, k) # free_map_allocate(marked, l)
    BY <1>2, <1>4, AllocateFacts
  <1> QED
    BY <1>5 DEF k, l

-----------------------------------------------------------------------------
\* The tree of blocks, with the blocks as a parameter.

FollowIn(B, s, j) == IF s = Nil THEN Nil ELSE B[s][j]

EntryIn(B, ptr, p) ==
    CASE Len(p) = 1 -> ptr[p[1]]
      [] Len(p) = 2 -> FollowIn(B, ptr[p[1]], p[2])
      [] OTHER      -> FollowIn(B, FollowIn(B, ptr[p[1]], p[2]), p[3])

Blocks == [Sectors -> [Slots -> Sectors]]

LEMMA EntryIs ==
    ASSUME NEW node, NEW p
    PROVE  Entry(node, p) = EntryIn(blocks, node.ptr, p)
  BY DEF Entry, EntryIn, Follow, FollowIn

LEMMA EntryTop ==
    ASSUME NEW B, NEW ptr, NEW p, Len(p) = 1
    PROVE  EntryIn(B, ptr, p) = ptr[p[1]]
  BY DEF EntryIn

LEMMA EntryUp ==
    ASSUME NEW B, NEW ptr, NEW p, Shape(p), Len(p) > 1
    PROVE  EntryIn(B, ptr, p) = FollowIn(B, EntryIn(B, ptr, Up(p)), p[Len(p)])
  <1>1. Len(p) \in {2, 3} /\ Len(Up(p)) = Len(p) - 1
    BY UpFacts DEF Shape
  <1>2. CASE Len(p) = 2
    <2>1. Up(p)[1] = p[1]
      BY <1>2, UpFacts
    <2> QED
      BY <1>1, <1>2, <2>1 DEF EntryIn
  <1>3. CASE Len(p) = 3
    <2>0. \A i \in 1 .. Len(p) - 1 : Up(p)[i] = p[i]
      BY UpFacts
    <2>1. Up(p)[1] = p[1] /\ Up(p)[2] = p[2]
      BY <1>3, <2>0
    <2> QED
      BY <1>1, <1>3, <2>1 DEF EntryIn
  <1> QED
    BY <1>1, <1>2, <1>3

LEMMA FollowType ==
    ASSUME NEW B \in Blocks, NEW s \in Sectors, NEW j \in Slots
    PROVE  FollowIn(B, s, j) \in Sectors
  BY SectorsType DEF FollowIn, Blocks

LEMMA EntryType ==
    ASSUME NEW B \in Blocks, NEW ptr \in [Pointers -> Sectors], NEW p, Shape(p)
    PROVE  EntryIn(B, ptr, p) \in Sectors
  <1>1. p[1] \in Pointers /\ Len(p) \in 1 .. 3 /\ \A i \in 2 .. Len(p) : p[i] \in Slots
    BY DEF Shape
  <1>2. ptr[p[1]] \in Sectors
    BY <1>1
  <1>3. CASE Len(p) = 1
    BY <1>2, <1>3 DEF EntryIn
  <1>4. CASE Len(p) = 2
    BY <1>1, <1>2, <1>4, FollowType DEF EntryIn
  <1>5. CASE Len(p) = 3
    <2>1. p[2] \in Slots /\ p[3] \in Slots
      BY <1>1, <1>5
    <2>2. FollowIn(B, ptr[p[1]], p[2]) \in Sectors
      BY <1>2, <2>1, FollowType
    <2>3. FollowIn(B, FollowIn(B, ptr[p[1]], p[2]), p[3]) \in Sectors
      BY <2>1, <2>2, FollowType
    <2> QED
      BY <2>3, <1>5 DEF EntryIn
  <1> QED
    BY <1>1, <1>3, <1>4, <1>5

\* Paths lead to the same sectors if the blocks on the way are the same.
LEMMA EntryKept ==
    ASSUME NEW B, NEW C, NEW ptr,
           \A u \in AllPaths : EntryIn(B, ptr, u) # Nil
                                  => C[EntryIn(B, ptr, u)] = B[EntryIn(B, ptr, u)]
    PROVE  \A p \in AllPaths : EntryIn(C, ptr, p) = EntryIn(B, ptr, p)
  <1>0. \A p \in AllPaths : /\ Len(p) \in {1, 2, 3}
                            /\ Len(p) > 1 => Up(p) \in AllPaths
                            /\ Len(p) = 2 => Up(p) \in AllPaths /\ Len(Up(p)) = 1
                            /\ Len(p) = 3 => Up(p) \in AllPaths /\ Len(Up(p)) = 2
    BY PathFacts
  <1>1. \A p \in AllPaths : Len(p) = 1 => EntryIn(C, ptr, p) = EntryIn(B, ptr, p)
    BY EntryTop
  <1>2. ASSUME NEW p \in AllPaths, Len(p) > 1, EntryIn(C, ptr, Up(p)) = EntryIn(B, ptr, Up(p))
        PROVE  EntryIn(C, ptr, p) = EntryIn(B, ptr, p)
    <2> DEFINE e == EntryIn(B, ptr, Up(p))
    <2>1. /\ EntryIn(C, ptr, p) = FollowIn(C, e, p[Len(p)])
          /\ EntryIn(B, ptr, p) = FollowIn(B, e, p[Len(p)])
      BY <1>2, PathFacts, EntryUp
    <2>2. e # Nil => C[e] = B[e]
      BY <1>0, <1>2
    <2> HIDE DEF e
    <2> QED
      BY <2>1, <2>2 DEF FollowIn
  <1>3. \A p \in AllPaths : Len(p) = 2 => EntryIn(C, ptr, p) = EntryIn(B, ptr, p)
    BY <1>0, <1>1, <1>2
  <1>4. \A p \in AllPaths : Len(p) = 3 => EntryIn(C, ptr, p) = EntryIn(B, ptr, p)
    <2> SUFFICES ASSUME NEW p \in AllPaths, Len(p) = 3
                 PROVE  EntryIn(C, ptr, p) = EntryIn(B, ptr, p)
      OBVIOUS
    <2>1. Up(p) \in AllPaths /\ Len(Up(p)) = 2
      BY <1>0
    <2>2. EntryIn(C, ptr, Up(p)) = EntryIn(B, ptr, Up(p))
      BY <2>1, <1>3
    <2> QED
      BY <2>2, <1>2
  <1> QED
    BY <1>0, <1>1, <1>3, <1>4

-----------------------------------------------------------------------------
\* inode_reserve, in two parts: which sector each path gets, and what the
\* blocks then look like.  The second part first.

\* An index block as inode_reserve fills it.
BlockOf(B, need, got, entry, p) ==
    [j \in Slots |-> IF Append(p, j) \in need THEN entry[Append(p, j)]
                     ELSE IF p \in got THEN Nil ELSE FollowIn(B, entry[p], j)]

\* Each path of got has a new sector of its own, the others of need keep theirs.
Assigned(B, ptr, need, got, entry, fresh) ==
    /\ got \subseteq need /\ need \subseteq AllPaths
    /\ entry \in [need -> Sectors]
    /\ fresh \subseteq Sectors /\ Nil \notin fresh
    /\ \A p \in got : EntryIn(B, ptr, p) = Nil /\ entry[p] \in fresh
    /\ \A p \in need \ got : entry[p] = EntryIn(B, ptr, p)
    /\ \A p, q \in got : entry[p] = entry[q] => p = q
    /\ \A p \in AllPaths : EntryIn(B, ptr, p) \notin fresh
    /\ \A p, q \in AllPaths :
          EntryIn(B, ptr, p) = EntryIn(B, ptr, q) /\ EntryIn(B, ptr, p) # Nil => p = q

\* The blocks C and the pointers ptr1 that come out of it, when the index
\* blocks at the paths of written are written.
Filled(B, ptr, need, got, entry, fresh, written, C, ptr1) ==
    /\ written \subseteq need
    /\ C = [s \in Sectors |-> C[s]]
    /\ ptr1 = [k \in Pointers |-> IF <<k>> \in need THEN entry[<<k>>] ELSE ptr[k]]
    /\ \A s \in Sectors :
          \/ \E p \in written : entry[p] = s /\ C[s] = BlockOf(B, need, got, entry, p)
          \/ /\ \A p \in written : entry[p] # s
             /\ C[s] = IF s \in fresh THEN Zeros ELSE B[s]

LEMMA EntryUnique ==
    ASSUME NEW B, NEW ptr, NEW need, NEW got, NEW entry, NEW fresh,
           Assigned(B, ptr, need, got, entry, fresh),
           NEW p \in need, NEW q \in need, entry[p] = entry[q], entry[p] # Nil
    PROVE  p = q
  <1>1. CASE p \in got /\ q \in got
    BY <1>1 DEF Assigned
  <1>2. CASE p \in got /\ q \notin got
    BY <1>2 DEF Assigned
  <1>3. CASE p \notin got /\ q \in got
    BY <1>3 DEF Assigned
  <1>4. CASE p \notin got /\ q \notin got
    BY <1>4 DEF Assigned
  <1> QED
    BY <1>1, <1>2, <1>3, <1>4

\* The block at the sector of a path: written, new and empty, or as it was.
LEMMA BlockAt ==
    ASSUME NEW B, NEW ptr, NEW need, NEW got, NEW entry, NEW fresh,
           NEW written, NEW C, NEW ptr1,
           Assigned(B, ptr, need, got, entry, fresh),
           Filled(B, ptr, need, got, entry, fresh, written, C, ptr1),
           NEW p \in need, entry[p] # Nil
    PROVE  C[entry[p]] = IF p \in written THEN BlockOf(B, need, got, entry, p)
                         ELSE IF p \in got THEN Zeros ELSE B[entry[p]]
  <1>1. entry[p] \in Sectors /\ (p \in got <=> entry[p] \in fresh)
    BY DEF Assigned
  <1>2. CASE \E q \in written : entry[q] = entry[p] /\ C[entry[p]] = BlockOf(B, need, got, entry, q)
    <2>1. PICK q \in written : entry[q] = entry[p] /\ C[entry[p]] = BlockOf(B, need, got, entry, q)
      BY <1>2
    <2>2. q \in need
      BY DEF Filled
    <2>3. q = p
      BY <2>1, <2>2, EntryUnique
    <2> QED
      BY <2>1, <2>3
  <1>3. CASE /\ \A q \in written : entry[q] # entry[p]
             /\ C[entry[p]] = IF entry[p] \in fresh THEN Zeros ELSE B[entry[p]]
    <2>1. p \notin written
      BY <1>3
    <2> QED
      BY <2>1, <1>1, <1>3
  <1> QED
    BY <1>1, <1>2, <1>3 DEF Filled

\* A sector that is neither new nor reached from the inode keeps its block.
LEMMA BlockKept ==
    ASSUME NEW B, NEW ptr, NEW need, NEW got, NEW entry, NEW fresh,
           NEW written, NEW C, NEW ptr1,
           Assigned(B, ptr, need, got, entry, fresh),
           Filled(B, ptr, need, got, entry, fresh, written, C, ptr1),
           NEW s \in Sectors, s # Nil, s \notin fresh,
           \A p \in AllPaths : EntryIn(B, ptr, p) = s => p \in need \ written
    PROVE  C[s] = B[s]
  <1>1. \A p \in written : entry[p] # s
    BY DEF Assigned, Filled
  <1> QED
    BY <1>1 DEF Filled

LEMMA FilledType ==
    ASSUME NEW B \in Blocks, NEW ptr \in [Pointers -> Sectors],
           NEW need, NEW got, NEW entry, NEW fresh, NEW written, NEW C, NEW ptr1,
           Assigned(B, ptr, need, got, entry, fresh),
           Filled(B, ptr, need, got, entry, fresh, written, C, ptr1)
    PROVE  C \in Blocks /\ ptr1 \in [Pointers -> Sectors]
  <1>1. ptr1 \in [Pointers -> Sectors]
    BY DEF Filled, Assigned
  <1>2. ASSUME NEW p \in need PROVE BlockOf(B, need, got, entry, p) \in [Slots -> Sectors]
    <2>1. \A j \in Slots : FollowIn(B, entry[p], j) \in Sectors
      BY FollowType DEF Assigned
    <2> QED
      BY <2>1, SectorsType DEF BlockOf, Assigned
  <1>3. Zeros \in [Slots -> Sectors]
    BY SectorsType DEF Zeros
  <1>4. \A s \in Sectors : C[s] \in [Slots -> Sectors]
    <2> TAKE s \in Sectors
    <2>1. CASE \E p \in written : entry[p] = s /\ C[s] = BlockOf(B, need, got, entry, p)
      BY <2>1, <1>2 DEF Filled
    <2>2. CASE C[s] = IF s \in fresh THEN Zeros ELSE B[s]
      BY <2>2, <1>3 DEF Blocks
    <2> QED
      BY <2>1, <2>2 DEF Filled
  <1>5. C = [s \in Sectors |-> C[s]]
    BY DEF Filled
  <1> QED
    BY <1>1, <1>4, <1>5 DEF Blocks

\* Where the paths lead afterwards: where they led before, or, if they led
\* nowhere, perhaps to the sector they were given.
LEMMA EntryAfter ==
    ASSUME NEW B \in Blocks, NEW ptr \in [Pointers -> Sectors], NEW need, NEW got, NEW entry, NEW fresh,
           NEW written, NEW C, NEW ptr1,
           Assigned(B, ptr, need, got, entry, fresh),
           Filled(B, ptr, need, got, entry, fresh, written, C, ptr1)
    PROVE  \A p \in AllPaths : \/ EntryIn(C, ptr1, p) = EntryIn(B, ptr, p)
                               \/ p \in got /\ EntryIn(C, ptr1, p) = entry[p]
  <1> DEFINE E0(p) == EntryIn(B, ptr, p)
             E1(p) == EntryIn(C, ptr1, p)
             Claim(p) == E1(p) = E0(p) \/ (p \in got /\ E1(p) = entry[p])
  <1>0. \A p \in AllPaths : /\ Len(p) \in {1, 2, 3}
                            /\ Len(p) = 2 => Up(p) \in AllPaths /\ Len(Up(p)) = 1
                            /\ Len(p) = 3 => Up(p) \in AllPaths /\ Len(Up(p)) = 2
    BY PathFacts
  <1>1. ASSUME NEW p \in AllPaths, Len(p) = 1 PROVE Claim(p)
    <2>1. p = <<p[1]>> /\ p[1] \in Pointers
      BY <1>1, TopPath
    <2>2. E0(p) = ptr[p[1]] /\ E1(p) = ptr1[p[1]]
      BY <1>1, EntryTop
    <2>3. E1(p) = IF p \in need THEN entry[p] ELSE ptr[p[1]]
      BY <2>1, <2>2 DEF Filled
    <2> HIDE DEF E1
    <2> QED
      BY <2>2, <2>3 DEF Assigned
  <1>2. ASSUME NEW p \in AllPaths, Len(p) > 1, Claim(Up(p)) PROVE Claim(p)
    <2> DEFINE u == Up(p)
               j == p[Len(p)]
    <2>1. u \in AllPaths /\ p = Append(u, j) /\ j \in Slots
      BY <1>2, PathFacts, UpFacts
    <2>2. E1(p) = FollowIn(C, E1(u), j) /\ E0(p) = FollowIn(B, E0(u), j)
      BY <1>2, PathFacts, EntryUp
    <2>3. E1(u) = E0(u) \/ (u \in got /\ E1(u) = entry[u])
      BY <1>2
    <2>4. /\ u \in got => u \in need /\ E0(u) = Nil /\ entry[u] # Nil
          /\ p \in got => p \in need
          /\ \A q \in need \ got : entry[q] = E0(q)
      BY DEF Assigned
    <2> HIDE DEF u, j, E0, E1
    <2>5. CASE u \in got /\ E1(u) = entry[u]
      <3>1. E0(p) = Nil /\ E1(p) = C[entry[u]][j]
        BY <2>2, <2>4, <2>5 DEF FollowIn
      <3>2. CASE u \in written
        <4>1. C[entry[u]] = BlockOf(B, need, got, entry, u)
          BY <2>4, <2>5, <3>2, BlockAt
        <4>2. E1(p) = IF p \in need THEN entry[p] ELSE Nil
          BY <4>1, <3>1, <2>1, <2>5 DEF BlockOf
        <4> QED
          BY <4>2, <3>1, <2>4
      <3>3. CASE u \notin written
        <4>1. C[entry[u]] = Zeros
          BY <2>4, <2>5, <3>3, BlockAt
        <4> QED
          BY <4>1, <3>1, <2>1 DEF Zeros
      <3> QED
        BY <3>2, <3>3
    <2>6. CASE E1(u) = E0(u) /\ E0(u) = Nil
      BY <2>2, <2>6 DEF FollowIn
    <2>7. CASE E1(u) = E0(u) /\ E0(u) # Nil
      <3>1. u \notin got /\ E1(p) = C[E0(u)][j] /\ E0(p) = B[E0(u)][j]
        BY <2>2, <2>4, <2>7 DEF FollowIn
      <3>2. CASE u \in need
        <4>1. entry[u] = E0(u)
          BY <3>1, <3>2, <2>4
        <4>2. CASE u \in written
          <5>1. C[entry[u]] = BlockOf(B, need, got, entry, u)
            BY <4>1, <4>2, <3>2, <2>7, BlockAt
          <5>2. E1(p) = IF p \in need THEN entry[p] ELSE FollowIn(B, entry[u], j)
            BY <5>1, <4>1, <3>1, <2>1 DEF BlockOf
          <5> QED
            BY <5>2, <4>1, <2>2, <2>4
        <4>3. CASE u \notin written
          <5>1. C[entry[u]] = B[entry[u]]
            BY <4>1, <4>3, <3>1, <3>2, <2>7, BlockAt
          <5> QED
            BY <5>1, <4>1, <3>1
        <4> QED
          BY <4>2, <4>3
      <3>3. CASE u \notin need
        <4>1. E0(u) \notin fresh /\ E0(u) \in Sectors
          BY <2>1, PathFacts, EntryType DEF Assigned, E0
        <4>2. \A q \in written : entry[q] # E0(u)
          BY <3>3, <2>1, <2>7 DEF Assigned, Filled, E0
        <4>3. C[E0(u)] = B[E0(u)]
          BY <4>1, <4>2 DEF Filled
        <4> QED
          BY <4>3, <3>1
      <3> QED
        BY <3>2, <3>3
    <2> QED
      BY <2>3, <2>5, <2>6, <2>7
  <1> HIDE DEF Claim
  <1>3. ASSUME NEW p \in AllPaths, Len(p) = 2 PROVE Claim(p)
    BY <1>0, <1>1, <1>2, <1>3
  <1>4. ASSUME NEW p \in AllPaths, Len(p) = 3 PROVE Claim(p)
    <2>1. Up(p) \in AllPaths /\ Len(Up(p)) = 2
      BY <1>0, <1>4
    <2>2. Claim(Up(p))
      BY <2>1, <1>3
    <2> QED
      BY <2>2, <1>2, <1>4
  <1> QED
    BY <1>0, <1>1, <1>3, <1>4 DEF Claim

\* If every path of need has a sector and all index blocks are written, the
\* paths of need lead to these sectors.
LEMMA EntryFull ==
    ASSUME NEW B \in Blocks, NEW ptr \in [Pointers -> Sectors], NEW need, NEW got, NEW entry, NEW fresh,
           NEW written, NEW C, NEW ptr1,
           Assigned(B, ptr, need, got, entry, fresh),
           Filled(B, ptr, need, got, entry, fresh, written, C, ptr1),
           \A p \in need : entry[p] # Nil,
           \A p \in need : Len(p) > 1 => Up(p) \in written
    PROVE  \A p \in need : EntryIn(C, ptr1, p) = entry[p]
  <1> DEFINE E1(p) == EntryIn(C, ptr1, p)
             Claim(p) == E1(p) = entry[p]
  <1>0. \A p \in need : /\ p \in AllPaths /\ Len(p) \in {1, 2, 3}
                        /\ Len(p) > 1 => Up(p) \in need /\ Up(p) \in written
                        /\ Len(p) = 2 => Len(Up(p)) = 1
                        /\ Len(p) = 3 => Len(Up(p)) = 2
    BY PathFacts DEF Assigned, Filled
  <1>1. ASSUME NEW p \in need, Len(p) = 1 PROVE Claim(p)
    <2>1. p = <<p[1]>> /\ p[1] \in Pointers
      BY <1>0, <1>1, TopPath
    <2>2. E1(p) = ptr1[p[1]]
      BY <1>1, EntryTop
    <2> QED
      BY <1>1, <2>1, <2>2 DEF Filled
  <1>2. ASSUME NEW p \in need, Len(p) > 1, Claim(Up(p)) PROVE Claim(p)
    <2> DEFINE u == Up(p)
               j == p[Len(p)]
    <2>1. p = Append(u, j) /\ j \in Slots /\ u \in need /\ u \in written
      BY <1>0, <1>2, PathFacts, UpFacts
    <2>2. E1(p) = FollowIn(C, E1(u), j) /\ E1(u) = entry[u]
      BY <1>0, <1>2, PathFacts, EntryUp
    <2> HIDE DEF u, j, E1
    <2>3. entry[u] # Nil
      BY <2>1
    <2>4. C[entry[u]] = BlockOf(B, need, got, entry, u)
      BY <2>1, <2>3, BlockAt
    <2> QED
      BY <1>2, <2>1, <2>2, <2>3, <2>4 DEF FollowIn, BlockOf
  <1> HIDE DEF Claim
  <1>3. ASSUME NEW p \in need, Len(p) = 2 PROVE Claim(p)
    BY <1>0, <1>1, <1>2, <1>3
  <1>4. ASSUME NEW p \in need, Len(p) = 3 PROVE Claim(p)
    <2>1. Up(p) \in need /\ Len(Up(p)) = 2
      BY <1>0, <1>4
    <2>2. Claim(Up(p))
      BY <2>1, <1>3
    <2> QED
      BY <2>2, <1>2, <1>4
  <1> QED
    BY <1>0, <1>1, <1>3, <1>4 DEF Claim

\* The order of allocation as a relation on a set of paths.
Order(M) == {x \in M \X M : Before(x[1], x[2])}

LEMMA PathOrder ==
    ASSUME NEW M, \A p \in M : IsPath(p)
    PROVE  /\ TotalOrder(M, Order(M))
           /\ \A p \in M : Preceding(M, Order(M), p) = {q \in M : Before(q, p)}
  <1>1. \A p, q \in M : <<p, q>> \in Order(M) <=> Before(p, q)
    BY DEF Order
  <1>2. \A p \in M : Preceding(M, Order(M), p) = {q \in M : Before(q, p)}
    BY <1>1, Zenon DEF Preceding
  <1>3. Reflexive(M, Order(M)) /\ Antisymmetric(M, Order(M)) /\ Total(M, Order(M))
    BY <1>1, BeforeOrder DEF Reflexive, Antisymmetric, Total
  <1>4. Transitive(M, Order(M))
    BY <1>1, BeforeTransitive DEF Transitive
  <1> QED
    BY <1>2, <1>3, <1>4 DEF TotalOrder

\* What a call of inode_reserve achieves: sectors that were free become marked
\* and are reached from the inode, each by one path that led nowhere; nothing
\* that was reached is lost; and unless the call fails all that is needed is
\* there and nothing more was taken.
Outcome(B, mo, ptr, marked, n, r, fresh) ==
    /\ fresh \subseteq Sectors /\ Nil \notin fresh /\ fresh \cap marked = {}
    /\ fresh # {} => mo
    /\ r.marked = marked \cup fresh
    /\ r.ptr \in [Pointers -> Sectors] /\ r.blocks \in Blocks
    /\ r.ok \in BOOLEAN /\ r.zeroed \in BOOLEAN
    /\ r.ok => n >= 0 /\ ~r.zeroed
    /\ \A k \in Pointers : ptr[k] # Nil => r.ptr[k] = ptr[k]
    /\ \A p \in AllPaths :
          \/ EntryIn(r.blocks, r.ptr, p) = EntryIn(B, ptr, p)
          \/ /\ EntryIn(B, ptr, p) = Nil /\ p \in Need(n)
             /\ EntryIn(r.blocks, r.ptr, p) \in fresh
    /\ \A p, q \in AllPaths :
          /\ EntryIn(r.blocks, r.ptr, p) = EntryIn(r.blocks, r.ptr, q)
          /\ EntryIn(r.blocks, r.ptr, p) \in fresh
          => p = q
    /\ \A s \in Sectors :
          s # Nil /\ s \notin fresh /\ (\A p \in AllPaths : EntryIn(B, ptr, p) # s)
             => r.blocks[s] = B[s]
    /\ r.ok => \A p \in Need(n) : EntryIn(r.blocks, r.ptr, p) # Nil
    /\ r.ok => \A s \in fresh : \E p \in Need(n) : EntryIn(r.blocks, r.ptr, p) = s

LEMMA Reserve ==
    ASSUME map_open \in BOOLEAN, blocks \in Blocks,
           NEW marked, NEW node, node.ptr \in [Pointers -> Sectors],
           NEW n \in Int, n <= MaxLength,
           map_open => Nil \in marked /\ \A p \in AllPaths : EntryIn(blocks, node.ptr, p) \in marked,
           \A p, q \in AllPaths :
              EntryIn(blocks, node.ptr, p) = EntryIn(blocks, node.ptr, q)
                 /\ EntryIn(blocks, node.ptr, p) # Nil => p = q,
           NEW r, r = inode_reserve(marked, node, n)
    PROVE  \E fresh : Outcome(blocks, map_open, node.ptr, marked, n, r, fresh)
  <1> DEFINE B       == blocks
             ptr     == node.ptr
             E0(p)   == EntryIn(B, ptr, p)
             need    == Need(n)
             missing == {p \in need : Entry(node, p) = Nil}
             rank(p) == Cardinality({q \in missing : Before(q, p)})
             room    == Cardinality(Free(marked))
             got     == {p \in missing : rank(p) <= room}
             entry   == [p \in need |-> IF p \in got THEN free_map_allocate(marked, rank(p))
                                        ELSE Entry(node, p)]
             index   == {p \in need : Children(p) \cap need # {}}
             written == {p \in index : \A q \in need : Above(p, q) => entry[q] # Nil}
             Block(p) == [j \in Slots |->
                            IF Append(p, j) \in need THEN entry[Append(p, j)]
                            ELSE IF p \in got THEN Nil ELSE Follow(entry[p], j)]
             fresh   == {entry[p] : p \in got}
             ptr1    == [k \in Pointers |-> IF <<k>> \in need THEN entry[<<k>>] ELSE node.ptr[k]]
             C       == [s \in Sectors |->
                            IF \E p \in written : entry[p] = s
                            THEN Block(CHOOSE p \in written : entry[p] = s)
                            ELSE IF s \in fresh THEN Zeros ELSE blocks[s]]
             zeroed  == \E p \in missing \cap index : rank(p) = room + 1
  <1>1. r = [ok |-> n >= 0 /\ got = missing, marked |-> marked \cup fresh,
             ptr |-> ptr1, blocks |-> C, zeroed |-> zeroed]
    BY Zenon DEF inode_reserve
  <1>2. /\ r.ok = (n >= 0 /\ got = missing) /\ r.marked = marked \cup fresh
        /\ r.ptr = ptr1 /\ r.blocks = C /\ r.zeroed = zeroed
    <2> HIDE DEF got, missing, fresh, ptr1, C, zeroed
    <2> QED
      BY <1>1
  <1>3. need \subseteq AllPaths /\ \A p \in need : Len(p) > 1 => Up(p) \in need
    BY NeedPaths
  <1>4. \A p \in AllPaths : Entry(node, p) = E0(p) /\ E0(p) \in Sectors
    BY EntryIs, EntryType, PathFacts
  <1>5. /\ missing \subseteq need
        /\ \A p \in need : p \in missing <=> E0(p) = Nil
    BY <1>3, <1>4
  <1>6. IsFiniteSet(missing) /\ \A p \in missing : IsPath(p)
    <2>1. n <= Most /\ IsFiniteSet(need)
      BY MostType, NeedFinite
    <2>2. IsFiniteSet(missing)
      BY <2>1, <1>5, FS_Subset
    <2>3. \A p \in missing : IsPath(p)
      BY <1>3, <1>5, PathFacts, ShapePath
    <2> QED
      BY <2>2, <2>3
  <1>7. room \in Nat /\ Free(marked) \subseteq Sectors \ marked /\ (Free(marked) # {} => map_open)
    BY FreeFinite DEF Free
  <1> DEFINE R == Order(missing)
             Rank(p) == Cardinality(Preceding(missing, R, p))
  <1>8. TotalOrder(missing, R) /\ \A p \in missing : rank(p) = Rank(p)
    <2> HIDE DEF missing
    <2> QED
      BY <1>6, PathOrder
  <1>9. \A p \in got : p \in missing /\ Rank(p) <= room /\ entry[p] = free_map_allocate(marked, Rank(p))
    BY <1>5, <1>8
  <1>10. /\ got \subseteq missing
         /\ \A p \in need \ got : entry[p] = Entry(node, p)
    OBVIOUS
  <1> HIDE DEF R, missing, rank
  <1>11. \A p \in got : entry[p] \in Free(marked)
    <2> TAKE p \in got
    <2>1. p \in missing /\ Rank(p) <= Cardinality(Free(marked)) /\ entry[p] = free_map_allocate(marked, Rank(p))
      BY <1>9
    <2> HIDE DEF got, entry
    <2> QED
      BY <2>1, <1>6, <1>8, RankedAllocation
  <1>12. \A p, q \in got : entry[p] = entry[q] => p = q
    <2> SUFFICES ASSUME NEW p \in got, NEW q \in got, p # q PROVE entry[p] # entry[q]
      OBVIOUS
    <2>1. /\ p \in missing /\ Rank(p) <= Cardinality(Free(marked)) /\ entry[p] = free_map_allocate(marked, Rank(p))
          /\ q \in missing /\ Rank(q) <= Cardinality(Free(marked)) /\ entry[q] = free_map_allocate(marked, Rank(q))
      BY <1>9
    <2> HIDE DEF got, entry
    <2> QED
      BY <2>1, <1>6, <1>8, DistinctAllocation
  <1>13. entry = [p \in need |-> entry[p]]
    OBVIOUS
  <1>14. \A p \in need : Len(p) > 1 /\ (\A q \in need : entry[q] # Nil) => Up(p) \in written
    <2> SUFFICES ASSUME NEW p \in need, Len(p) > 1, \A q \in need : entry[q] # Nil
                 PROVE  Up(p) \in written
      OBVIOUS
    <2>1. p = Append(Up(p), p[Len(p)]) /\ p[Len(p)] \in Slots /\ Up(p) \in need
      BY <1>3, PathFacts, UpFacts
    <2>2. p \in Children(Up(p))
      BY <2>1 DEF Children
    <2> HIDE DEF entry
    <2> QED
      BY <2>1, <2>2
  <1>15. /\ written \subseteq need
         /\ C = [s \in Sectors |-> C[s]]
         /\ \A s \in Sectors :
               \/ \E p \in written : entry[p] = s /\ C[s] = BlockOf(blocks, need, got, entry, p)
               \/ /\ \A p \in written : entry[p] # s
                  /\ C[s] = IF s \in fresh THEN Zeros ELSE B[s]
    <2>1. \A p : Block(p) = BlockOf(blocks, need, got, entry, p)
      BY DEF BlockOf, Follow, FollowIn
    <2>2. written \subseteq need
      OBVIOUS
    <2>3. C = [s \in Sectors |-> C[s]]
      OBVIOUS
    <2>4. \A s \in Sectors :
             \/ \E p \in written : entry[p] = s /\ C[s] = Block(p)
             \/ /\ \A p \in written : entry[p] # s
                /\ C[s] = IF s \in fresh THEN Zeros ELSE B[s]
      <3> HIDE DEF written, entry, Block, fresh
      <3> QED
        OBVIOUS
    <2> HIDE DEF written, C, Block
    <2> QED
      BY <2>1, <2>2, <2>3, <2>4
  <1>16. \A p \in got : entry[p] \in fresh
    OBVIOUS
  <1>17. \A s \in fresh : \E p \in got : entry[p] = s
    OBVIOUS
  <1>18. zeroed => got # missing
    <2> SUFFICES ASSUME zeroed PROVE got # missing
      OBVIOUS
    <2>1. PICK p \in missing : rank(p) = room + 1
      OBVIOUS
    <2>2. ~(rank(p) <= room)
      BY <2>1, <1>7
    <2> QED
      BY <2>1, <2>2
  <1>19. zeroed \in BOOLEAN
    OBVIOUS
  <1> HIDE DEF got, entry, written, C, zeroed, fresh, index
  <1>20. /\ fresh \subseteq Free(marked) /\ fresh \subseteq Sectors
         /\ fresh \cap marked = {} /\ (fresh # {} => map_open)
         /\ Nil \notin fresh /\ \A p \in AllPaths : E0(p) \notin fresh
    <2>1. fresh \subseteq Free(marked)
      BY <1>11, <1>17
    <2> HIDE DEF E0
    <2>2. fresh \subseteq Sectors /\ fresh \cap marked = {} /\ (fresh # {} => map_open)
      BY <2>1, <1>7
    <2>3. map_open => Nil \in marked /\ \A p \in AllPaths : E0(p) \in marked
      BY DEF E0
    <2> QED
      BY <2>1, <2>2, <2>3
  <1>21. \A p, q \in AllPaths : E0(p) = E0(q) /\ E0(p) # Nil => p = q
    OBVIOUS
  <1>22. \A p \in need : entry[p] \in Sectors
    <2> HIDE DEF E0, need
    <2> QED
      BY <1>3, <1>4, <1>10, <1>16, <1>20
  <1>23. Assigned(B, ptr, need, got, entry, fresh)
    <2>1. entry \in [need -> Sectors]
      BY <1>13, <1>22
    <2>2. \A p \in got : E0(p) = Nil
      BY <1>5, <1>10
    <2>3. \A p \in need \ got : entry[p] = E0(p)
      BY <1>3, <1>4, <1>10
    <2> HIDE DEF need, B, ptr
    <2> QED
      BY <2>1, <2>2, <2>3, <1>3, <1>5, <1>10, <1>12, <1>16, <1>20, <1>21 DEF Assigned
  <1>24. Filled(B, ptr, need, got, entry, fresh, written, C, ptr1)
    BY <1>15 DEF Filled
  <1> DEFINE E1(p) == EntryIn(C, ptr1, p)
  <1> HIDE DEF need, B, ptr, ptr1
  <1>25. C \in Blocks /\ ptr1 \in [Pointers -> Sectors]
    <2>1. B \in Blocks /\ ptr \in [Pointers -> Sectors]
      BY DEF B, ptr
    <2> QED
      BY <2>1, <1>23, <1>24, FilledType
  <1>26. \A p \in AllPaths : E1(p) = E0(p) \/ (p \in got /\ E1(p) = entry[p])
    <2>1. B \in Blocks /\ ptr \in [Pointers -> Sectors]
      BY DEF B, ptr
    <2> QED
      BY <2>1, <1>23, <1>24, EntryAfter
  <1>27. ASSUME got = missing
         PROVE  /\ \A p \in need : entry[p] # Nil
                /\ \A p \in need : E1(p) = entry[p]
    <2>1. \A p \in need : entry[p] # Nil
      <3> SUFFICES ASSUME NEW p \in need PROVE entry[p] # Nil
        OBVIOUS
      <3>1. CASE p \in got
        BY <3>1, <1>16, <1>20
      <3>2. CASE p \notin got
        BY <3>2, <1>3, <1>4, <1>5, <1>10, <1>27
      <3> QED
        BY <3>1, <3>2
    <2>2. \A p \in need : Len(p) > 1 => Up(p) \in written
      BY <2>1, <1>14
    <2>3. B \in Blocks /\ ptr \in [Pointers -> Sectors]
      BY DEF B, ptr
    <2>4. \A p \in need : EntryIn(C, ptr1, p) = entry[p]
      BY <2>1, <2>2, <2>3, <1>23, <1>24, EntryFull
    <2> QED
      BY <2>1, <2>4
  <1>28. \A k \in Pointers : ptr[k] # Nil => ptr1[k] = ptr[k]
    <2> SUFFICES ASSUME NEW k \in Pointers, ptr[k] # Nil PROVE ptr1[k] = ptr[k]
      OBVIOUS
    <2>1. ptr1[k] = IF <<k>> \in need THEN entry[<<k>>] ELSE ptr[k]
      BY DEF ptr1, ptr
    <2>2. CASE <<k>> \in need
      <3>1. E0(<<k>>) = ptr[k]
        BY DEF EntryIn
      <3>2. <<k>> \notin got
        BY <3>1, <2>2, <1>5, <1>10
      <3> HIDE DEF E0
      <3>3. entry[<<k>>] = E0(<<k>>)
        BY <3>2, <2>2, <1>3, <1>4, <1>10
      <3> QED
        BY <3>1, <3>3, <2>1, <2>2
    <2>3. CASE <<k>> \notin need
      BY <2>1, <2>3
    <2> QED
      BY <2>2, <2>3
  <1>29. ASSUME NEW s \in Sectors, s # Nil, s \notin fresh, \A p \in AllPaths : E0(p) # s
         PROVE  C[s] = B[s]
    BY <1>23, <1>24, <1>29, BlockKept
  <1> HIDE DEF E0, E1
  <1>30. \A p \in AllPaths : \/ E1(p) = E0(p)
                             \/ E0(p) = Nil /\ p \in need /\ E1(p) \in fresh
    BY <1>5, <1>10, <1>16, <1>26
  <1>31. \A p, q \in AllPaths : E1(p) = E1(q) /\ E1(p) \in fresh => p = q
    <2> SUFFICES ASSUME NEW p \in AllPaths, NEW q \in AllPaths, E1(p) = E1(q), E1(p) \in fresh
                 PROVE  p = q
      OBVIOUS
    <2>1. p \in got /\ E1(p) = entry[p] /\ q \in got /\ E1(q) = entry[q]
      BY <1>20, <1>26
    <2> QED
      BY <2>1, <1>12
  <1>32. got = missing => \A p \in need : E1(p) # Nil
    BY <1>27 DEF E1
  <1>33. got = missing => \A s \in fresh : \E p \in need : E1(p) = s
    <2>1. ASSUME got = missing, NEW s \in fresh PROVE \E p \in need : E1(p) = s
      <3>1. PICK p \in got : entry[p] = s
        BY <1>17
      <3>2. p \in need
        BY <1>5, <1>10
      <3>3. E1(p) = entry[p]
        BY <3>2, <2>1, <1>27 DEF E1
      <3> QED
        BY <3>1, <3>2, <3>3
    <2> QED
      BY <2>1
  <1>34. Outcome(B, map_open, ptr, marked, n, r, fresh)
    <2>1. r.ok \in BOOLEAN /\ r.zeroed \in BOOLEAN /\ (r.ok => n >= 0 /\ ~r.zeroed)
      BY <1>2, <1>18, <1>19
    <2>2. /\ \A p \in AllPaths :
               \/ EntryIn(r.blocks, r.ptr, p) = EntryIn(B, ptr, p)
               \/ /\ EntryIn(B, ptr, p) = Nil /\ p \in Need(n)
                  /\ EntryIn(r.blocks, r.ptr, p) \in fresh
          /\ \A p, q \in AllPaths :
               /\ EntryIn(r.blocks, r.ptr, p) = EntryIn(r.blocks, r.ptr, q)
               /\ EntryIn(r.blocks, r.ptr, p) \in fresh
               => p = q
      BY <1>2, <1>30, <1>31 DEF E0, E1, need
    <2>3. \A s \in Sectors :
            s # Nil /\ s \notin fresh /\ (\A p \in AllPaths : EntryIn(B, ptr, p) # s)
               => r.blocks[s] = B[s]
      BY <1>2, <1>29 DEF E0
    <2>4. /\ r.ok => \A p \in Need(n) : EntryIn(r.blocks, r.ptr, p) # Nil
          /\ r.ok => \A s \in fresh : \E p \in Need(n) : EntryIn(r.blocks, r.ptr, p) = s
      BY <1>2, <1>32, <1>33 DEF E1, need
    <2> QED
      BY <2>1, <2>2, <2>3, <2>4, <1>2, <1>20, <1>25, <1>28, Zenon DEF Outcome
  <1> QED
    BY <1>34 DEF B, ptr

-----------------------------------------------------------------------------
\* The inductive invariant.

\* What a file occupies: its inode, at the empty path, and its blocks.
Places == {<< >>} \cup AllPaths

\* Where each file's places are.
Map == [f \in Files |-> [p \in Places |->
           IF p = << >> THEN directory[f] ELSE EntryIn(blocks, filesys_open(f).ptr, p)]]

\* No two places are in the same sector.
Apart(F, A) == \A f, g \in F : \A p, q \in Places :
    A[f][p] = A[g][q] /\ A[f][p] # Nil => f = g /\ p = q

\* No place is in the sectors of the free map and the root directory.
Beyond(F, A) == \A f \in F : \A p \in Places :
    A[f][p] \in Sectors /\ (A[f][p] # Nil => A[f][p] >= Reserved)

\* All places are marked, and nothing else is.
AllMarked(F, A, fm) == do_format \subseteq fm /\ \A f \in F : \A p \in Places : A[f][p] \in fm
OnlyMarked(F, A, fm) == \A s \in fm : s \in do_format \/ \E f \in F : \E p \in Places : A[f][p] = s

Backed == \A f \in Files : \A p \in Need(inode_open(f).length) :
    EntryIn(blocks, inode_open(f).ptr, p) # Nil

\* No pointer beyond the length is in use.
Trimmed == \A f \in Files : \A p \in AllPaths :
    Map[f][p] # Nil => p \in Need(inode_open(f).length)

IInv == /\ TypeOK
        /\ CopiesAgree
        /\ Apart(Files, Map)
        /\ Beyond(Files, Map)
        /\ map_open => AllMarked(Files, Map, free_map)
        /\ map_inode => map_open
        /\ Backed
        /\ ~failed => map_inode /\ OnlyMarked(Files, Map, free_map) /\ Trimmed

-----------------------------------------------------------------------------
\* What the parts of the invariant say.

LEMMA EmptyNotPath == << >> \notin AllPaths
  <1> SUFFICES ASSUME << >> \in AllPaths PROVE FALSE
    OBVIOUS
  <1>1. Len(<< >>) \in {1, 2, 3}
    BY PathFacts
  <1> QED
    BY <1>1

LEMMA MapAt == \A f \in Files : /\ Map[f][<< >>] = directory[f]
                                /\ \A p \in AllPaths : Map[f][p] = EntryIn(blocks, filesys_open(f).ptr, p)
  BY EmptyNotPath DEF Map, Places

LEMMA MapAtNext == \A f \in Files' :
    /\ Map'[f][<< >>] = directory'[f]
    /\ \A p \in AllPaths : Map'[f][p] = EntryIn(blocks', filesys_open(f)'.ptr, p)
  BY EmptyNotPath DEF Map, Places

LEMMA InodeNotClosed ==
    ASSUME NEW node \in Inode
    PROVE  node # Closed /\ node.length \in 0 .. MaxLength /\ node.length \in Int
           /\ node.length <= MaxLength /\ node.ptr \in [Pointers -> Sectors]
  <1>1. node.length \in 0 .. MaxLength /\ node.ptr \in [Pointers -> Sectors]
    BY DEF Inode
  <1>2. node # Closed
    BY <1>1, MostType DEF Closed
  <1> QED
    BY <1>1, <1>2, MostType

LEMMA EmptyInodeType == EmptyInode \in Inode
  BY SectorsType, MostType DEF EmptyInode, Inode

\* The inodes of a file have the type, and a file that is not open has the one
\* of its sector.
LEMMA OpenType ==
    ASSUME TypeOK, NEW f \in Files
    PROVE  /\ f \in Names /\ directory[f] \in Sectors /\ directory[f] # Nil
           /\ inode_open(f) \in Inode /\ filesys_open(f) \in Inode
           /\ f \in Opened => filesys_open(f) = file_table[f] /\ file_table[f] # Closed
           /\ f \notin Opened => filesys_open(f) = inode_open(f) /\ file_table[f] = Closed
  <1>1. f \in Names /\ directory[f] \in Sectors /\ directory[f] # Nil
    BY DEF Files, TypeOK
  <1>2. inode_open(f) \in Inode
    BY <1>1 DEF inode_open, TypeOK
  <1> QED
    BY <1>1, <1>2 DEF filesys_open, Opened, TypeOK

\* Two inodes with the same pointer at the top of a path.
LEMMA SameTop ==
    ASSUME NEW B, NEW a, NEW b, NEW p, a[p[1]] = b[p[1]]
    PROVE  EntryIn(B, a, p) = EntryIn(B, b, p)
  BY DEF EntryIn

LEMMA NilTop ==
    ASSUME NEW B, NEW a, NEW p \in AllPaths, a[p[1]] = Nil
    PROVE  EntryIn(B, a, p) = Nil
  <1>1. Len(p) \in {1, 2, 3}
    BY PathFacts
  <1> QED
    BY <1>1 DEF EntryIn, FollowIn

\* a has some of the pointers of b.
Part(a, b) == \A k \in Pointers : a[k] \in {Nil, b[k]}

LEMMA PartEntry ==
    ASSUME NEW B, NEW a, NEW b, Part(a, b), NEW p \in AllPaths
    PROVE  EntryIn(B, a, p) \in {Nil, EntryIn(B, b, p)}
  <1>1. p[1] \in Pointers
    BY PathFacts DEF Shape
  <1>2. CASE a[p[1]] = Nil
    BY <1>2, NilTop
  <1>3. CASE a[p[1]] = b[p[1]]
    BY <1>3, SameTop
  <1> QED
    BY <1>1, <1>2, <1>3 DEF Part

\* What the part has, it keeps if the whole does.
LEMMA PartKept ==
    ASSUME NEW B, NEW C, NEW a, NEW b, NEW b1, Part(a, b),
           \A k \in Pointers : b[k] # Nil => b1[k] = b[k],
           NEW p \in AllPaths, EntryIn(B, a, p) # Nil,
           EntryIn(B, b, p) # Nil => EntryIn(C, b1, p) = EntryIn(B, b, p)
    PROVE  EntryIn(C, a, p) = EntryIn(B, a, p)
  <1>1. p[1] \in Pointers
    BY PathFacts DEF Shape
  <1>2. a[p[1]] # Nil
    BY NilTop
  <1>3. a[p[1]] = b[p[1]] /\ b1[p[1]] = a[p[1]]
    BY <1>1, <1>2 DEF Part
  <1>4. EntryIn(B, a, p) = EntryIn(B, b, p) /\ EntryIn(C, a, p) = EntryIn(C, b1, p)
    BY <1>3, SameTop
  <1> QED
    BY <1>4

\* The inode on disk has some of the pointers of the one in memory, all of them
\* if the file is not open.
LEMMA DiskPart ==
    ASSUME TypeOK, CopiesAgree, NEW f \in Files
    PROVE  /\ Part(inode_open(f).ptr, filesys_open(f).ptr)
           /\ inode_open(f).length = filesys_open(f).length
  <1>1. CASE f \in Opened
    BY <1>1, OpenType DEF CopiesAgree, Part, inode_open
  <1>2. CASE f \notin Opened
    BY <1>2, OpenType DEF Part
  <1> QED
    BY <1>1, <1>2

LEMMA DiskEntry ==
    ASSUME TypeOK, CopiesAgree, NEW f \in Files, NEW p \in AllPaths
    PROVE  EntryIn(blocks, inode_open(f).ptr, p) \in {Nil, Map[f][p]}
  BY DiskPart, PartEntry, MapAt

LEMMA LengthPaths ==
    ASSUME TypeOK, NEW f \in Files
    PROVE  Need(inode_open(f).length) \subseteq AllPaths
  BY OpenType, InodeNotClosed, NeedPaths

LEMMA FormatFacts == Nil \in do_format /\ \A s \in Sectors : s \in do_format <=> s < Reserved
  BY MapAssumption DEF do_format, Nil, Sectors

LEMMA EmptyEntries ==
    ASSUME NEW B, NEW p \in AllPaths
    PROVE  EntryIn(B, EmptyInode.ptr, p) = Nil
  <1>1. p[1] \in Pointers
    BY PathFacts DEF Shape
  <1> QED
    BY <1>1, NilTop DEF EmptyInode

-----------------------------------------------------------------------------
\* Steps on the map of places.

\* Places keep their sectors, lose them, or get some of fresh, one each.
MapStep(F, A, F1, A1, fresh) ==
    /\ \A f \in F1 : \A p \in Places :
          \/ f \in F /\ A1[f][p] = A[f][p]
          \/ A1[f][p] = Nil
          \/ A1[f][p] \in fresh
    /\ \A f, g \in F1 : \A p, q \in Places :
          A1[f][p] = A1[g][q] /\ A1[f][p] \in fresh => f = g /\ p = q

\* Sectors that no place is in.
Unused(F, A, fresh) ==
    /\ fresh \subseteq Sectors
    /\ \A s \in fresh : s >= Reserved
    /\ \A f \in F : \A p \in Places : A[f][p] \notin fresh

LEMMA ApartAt ==
    ASSUME NEW F, NEW A, Apart(F, A), NEW f \in F, NEW g \in F, NEW p \in Places, NEW q \in Places,
           A[f][p] = A[g][q], A[f][p] # Nil
    PROVE  f = g /\ p = q
  <1>1. \A h \in F : \A t \in Places : A[f][p] = A[h][t] /\ A[f][p] # Nil => f = h /\ p = t
    BY DEF Apart
  <1> QED
    BY <1>1

LEMMA StepKeeps ==
    ASSUME NEW F, NEW A, NEW F1, NEW A1, NEW fresh,
           Apart(F, A), Beyond(F, A), MapStep(F, A, F1, A1, fresh), Unused(F, A, fresh)
    PROVE  Apart(F1, A1) /\ Beyond(F1, A1)
  <1>1. Beyond(F1, A1)
    BY SectorsType DEF Beyond, MapStep, Unused
  <1>2. ASSUME NEW f \in F1, NEW g \in F1, NEW p \in Places, NEW q \in Places,
               A1[f][p] = A1[g][q], A1[f][p] # Nil
        PROVE  f = g /\ p = q
    <2>1. CASE A1[f][p] \in fresh
      BY <2>1, <1>2 DEF MapStep
    <2>2. CASE A1[f][p] \notin fresh
      <3>1. f \in F /\ A1[f][p] = A[f][p] /\ g \in F /\ A1[g][q] = A[g][q]
        BY <2>2, <1>2 DEF MapStep
      <3>2. A[f][p] = A[g][q] /\ A[f][p] # Nil
        BY <3>1, <1>2
      <3> QED
        BY <3>1, <3>2, ApartAt
    <2> QED
      BY <2>1, <2>2
  <1> QED
    BY <1>1, <1>2 DEF Apart

\* What is free is not used, once the map is open.
LEMMA FreshUnused ==
    ASSUME NEW F, NEW A, NEW fm, NEW fresh, NEW mo, mo => AllMarked(F, A, fm),
           fresh \subseteq Sectors, fresh \cap fm = {}, fresh # {} => mo
    PROVE  Unused(F, A, fresh)
  <1>1. CASE fresh = {}
    BY <1>1 DEF Unused
  <1>2. CASE fresh # {}
    <2>1. AllMarked(F, A, fm)
      BY <1>2
    <2>2. \A s \in fresh : s \in Sectors /\ s \notin do_format
      BY <2>1 DEF AllMarked
    <2>3. \A s \in Sectors : s \in Nat
      BY SectorsType
    <2>4. \A s \in fresh : s >= Reserved
      BY <2>2, <2>3, FormatFacts, MapAssumption
    <2> QED
      BY <2>1, <2>4 DEF AllMarked, Unused
  <1> QED
    BY <1>1, <1>2

-----------------------------------------------------------------------------
\* The initial state, and the steps that open and close files.

LEMMA InitInv == Init => IInv
  <1> SUFFICES ASSUME Init PROVE IInv
    OBVIOUS
  <1>1. Files = {} /\ Opened = {}
    BY DEF Init, Files, Opened
  <1>2. TypeOK
    <2>1. EmptyInode \in Inode /\ Nil \in Sectors /\ do_format \subseteq Sectors
      BY EmptyInodeType, SectorsType, MapAssumption DEF do_format, Sectors
    <2>2. Zeros \in [Slots -> Sectors]
      BY <2>1 DEF Zeros
    <2> QED
      BY <2>1, <2>2 DEF Init, TypeOK
  <1>3. AllMarked(Files, Map, free_map) /\ OnlyMarked(Files, Map, free_map)
    BY <1>1 DEF Init, AllMarked, OnlyMarked
  <1> QED
    BY <1>1, <1>2, <1>3 DEF Init, IInv, CopiesAgree, Apart, Beyond, Backed, Trimmed

\* Steps that change only which inodes are in memory, and perhaps read back the
\* free map.
LEMMA TableStep ==
    ASSUME IInv, TypeOK',
           UNCHANGED <<map_inode, directory, inodes, blocks, failed>>,
           map_open' => map_open /\ free_map' = free_map, map_inode => map_open',
           \A f \in Names : \/ file_table'[f] = Closed
                            \/ file_table'[f] = file_table[f]
                            \/ f \in Files /\ file_table'[f] = filesys_open(f)
    PROVE  IInv'
  <1>0. TypeOK /\ CopiesAgree
    BY DEF IInv
  <1>1. Files' = Files /\ \A f : inode_open(f)' = inode_open(f)
    BY DEF Files, inode_open
  <1>2. ASSUME NEW f \in Files
        PROVE  \/ filesys_open(f)' = inode_open(f)
               \/ filesys_open(f)' = filesys_open(f)
    <2>1. f \in Names /\ inode_open(f)' = inode_open(f)
      BY <1>1 DEF Files
    <2> QED
      BY <2>1 DEF filesys_open, Opened
  <1>3. ASSUME NEW f \in Opened'
        PROVE  f \in Files /\ filesys_open(f)' = file_table'[f]
               /\ file_table'[f] = filesys_open(f)
    <2>1. f \in Names /\ file_table'[f] # Closed
      BY <1>3 DEF Opened
    <2>2. CASE file_table'[f] = file_table[f]
      BY <2>1, <2>2, <1>0, <1>3 DEF Opened, CopiesAgree, filesys_open
    <2>3. CASE f \in Files /\ file_table'[f] = filesys_open(f)
      BY <2>1, <2>3, <1>3 DEF filesys_open
    <2> QED
      BY <2>1, <2>2, <2>3
  <1>4. CopiesAgree'
    <2> SUFFICES ASSUME NEW f \in Opened'
                 PROVE  /\ f \in Files'
                        /\ file_table'[f].length = inode_open(f)'.length
                        /\ \A k \in Pointers : inode_open(f)'.ptr[k] \in {Nil, file_table'[f].ptr[k]}
      BY DEF CopiesAgree, inode_open
    <2>1. f \in Files /\ file_table'[f] = filesys_open(f)
      BY <1>3
    <2>2. /\ Part(inode_open(f).ptr, filesys_open(f).ptr)
          /\ inode_open(f).length = filesys_open(f).length
      BY <2>1, <1>0, DiskPart
    <2> QED
      BY <2>1, <2>2, <1>1 DEF Part
  <1>5. ASSUME NEW f \in Files, NEW p \in Places
        PROVE  Map'[f][p] \in {Nil, Map[f][p]}
    <2>1. CASE p = << >>
      BY <2>1, <1>1, MapAt, MapAtNext
    <2>2. CASE p \in AllPaths
      <3>1. Map'[f][p] = EntryIn(blocks, filesys_open(f)'.ptr, p)
        BY <2>2, <1>1, MapAtNext
      <3>2. CASE filesys_open(f)' = filesys_open(f)
        BY <3>1, <3>2, <2>2, MapAt
      <3>3. CASE filesys_open(f)' = inode_open(f)
        BY <3>1, <3>3, <2>2, <1>0, DiskEntry
      <3> QED
        BY <3>2, <3>3, <1>2
    <2> QED
      BY <2>1, <2>2 DEF Places
  <1>6. Apart(Files', Map') /\ Beyond(Files', Map')
    <2>1. MapStep(Files, Map, Files', Map', {})
      BY <1>1, <1>5 DEF MapStep
    <2>2. Unused(Files, Map, {})
      BY DEF Unused
    <2>3. Apart(Files, Map) /\ Beyond(Files, Map)
      BY DEF IInv
    <2> QED
      BY <2>1, <2>2, <2>3, StepKeeps
  <1>7. map_open' => AllMarked(Files', Map', free_map')
    BY <1>1, <1>5, FormatFacts DEF IInv, AllMarked
  <1>8. Backed'
    BY <1>1 DEF IInv, Backed
  <1>9. ASSUME ~failed
        PROVE  \A f \in Files : \A p \in Places : Map'[f][p] = Map[f][p]
    <2> SUFFICES ASSUME NEW f \in Files, NEW p \in Places, Map'[f][p] # Map[f][p]
                 PROVE  FALSE
      OBVIOUS
    <2>1. Map'[f][p] = Nil /\ Map[f][p] # Nil
      BY <1>5
    <2>2. p \in AllPaths
      BY <2>1, <1>0, <1>1, MapAt, MapAtNext DEF Places
    <2>3. p \in Need(inode_open(f).length)
      BY <2>1, <2>2, <1>9 DEF IInv, Trimmed
    <2>4. EntryIn(blocks, inode_open(f).ptr, p) # Nil
      BY <2>3 DEF IInv, Backed
    <2>5. EntryIn(blocks, inode_open(f).ptr, p) = Map[f][p]
      BY <2>2, <2>4, <1>0, DiskEntry
    <2>6. Map'[f][p] = EntryIn(blocks, filesys_open(f)'.ptr, p)
      BY <2>2, <1>1, MapAtNext
    <2>7. Map[f][p] = EntryIn(blocks, filesys_open(f).ptr, p)
      BY <2>2, MapAt
    <2> QED
      BY <2>1, <2>4, <2>5, <2>6, <2>7, <1>2
  <1>10. ASSUME ~failed'
         PROVE  map_inode' /\ OnlyMarked(Files', Map', free_map') /\ Trimmed'
    <2>1. map_inode /\ OnlyMarked(Files, Map, free_map) /\ Trimmed /\ free_map' = free_map
      BY <1>10 DEF IInv
    <2>2. \A f \in Files : \A p \in Places : Map'[f][p] = Map[f][p]
      BY <1>9, <1>10
    <2>3. OnlyMarked(Files', Map', free_map')
      BY <2>1, <2>2, <1>1 DEF OnlyMarked
    <2>4. Trimmed'
      BY <2>1, <2>2, <1>1 DEF Trimmed, Places
    <2> QED
      BY <2>1, <2>3, <2>4
  <1>11. map_inode' => map_open'
    OBVIOUS
  <1> QED
    BY <1>4, <1>6, <1>7, <1>8, <1>10, <1>11 DEF IInv

LEMMA ReadStep ==
    ASSUME IInv, NEW f \in Names, fsutil_read(f)
    PROVE  IInv'
  <1>1. TypeOK /\ f \in Files /\ filesys_open(f) \in Inode
    BY OpenType DEF IInv, fsutil_read
  <1>2. file_table' = [file_table EXCEPT ![f] = filesys_open(f)]
    BY DEF fsutil_read, add_to_file_table
  <1>3. UNCHANGED <<free_map, map_inode, map_open, directory, inodes, blocks, failed>>
    BY DEF fsutil_read
  <1>4. TypeOK'
    BY <1>1, <1>2, <1>3 DEF TypeOK
  <1>5. \A g \in Names : file_table'[g] = file_table[g] \/ (g \in Files /\ file_table'[g] = filesys_open(g))
    BY <1>1, <1>2 DEF TypeOK
  <1> QED
    BY <1>3, <1>4, <1>5, TableStep DEF IInv

LEMMA CloseStep ==
    ASSUME IInv, NEW f \in Names, fsutil_close(f)
    PROVE  IInv'
  <1>1. file_table' = [file_table EXCEPT ![f] = Closed]
    BY DEF fsutil_close, remove_from_file_table
  <1>2. UNCHANGED <<free_map, map_inode, map_open, directory, inodes, blocks, failed>>
    BY DEF fsutil_close
  <1>3. TypeOK'
    BY <1>1, <1>2 DEF TypeOK, IInv
  <1>4. \A g \in Names : file_table'[g] = file_table[g] \/ file_table'[g] = Closed
    BY <1>1 DEF TypeOK, IInv
  <1> QED
    BY <1>2, <1>3, <1>4, TableStep DEF IInv

LEMMA RestartStep ==
    ASSUME IInv, Restart
    PROVE  IInv'
  <1>1. /\ file_table' = [f \in Names |-> Closed]
        /\ map_open' = map_inode /\ free_map' = IF map_inode THEN free_map ELSE {0, 1}
        /\ UNCHANGED <<map_inode, directory, inodes, blocks, failed>>
    BY DEF Restart, free_file_table, free_map_open, free_map_init
  <1>2. TypeOK'
    <2>1. {0, 1} \subseteq Sectors
      BY SectorsType DEF Nil
    <2> QED
      BY <1>1, <2>1 DEF TypeOK, IInv
  <1>3. \A g \in Names : file_table'[g] = Closed
    BY <1>1
  <1> QED
    BY <1>1, <1>2, <1>3, TableStep DEF IInv

-----------------------------------------------------------------------------
\* The steps that reserve sectors.

\* What inode_reserve does for one inode leaves the other files as they are.
LEMMA OtherKept ==
    ASSUME IInv, NEW ptr, NEW marked, NEW n, NEW r, NEW fresh,
           Outcome(blocks, map_open, ptr, marked, n, r, fresh), free_map \subseteq marked,
           NEW g \in Files,
           \A p, u \in AllPaths : Map[g][u] # Nil => EntryIn(blocks, ptr, p) # Map[g][u]
    PROVE  /\ \A p \in AllPaths : EntryIn(r.blocks, filesys_open(g).ptr, p) = Map[g][p]
           /\ \A p \in Need(inode_open(g).length) : EntryIn(r.blocks, inode_open(g).ptr, p) # Nil
  <1> DEFINE ptrg == filesys_open(g).ptr
             C == r.blocks
  <1>1. \A u \in AllPaths : Map[g][u] = EntryIn(blocks, ptrg, u)
    BY MapAt
  <1>2. \A u \in AllPaths : EntryIn(blocks, ptrg, u) # Nil
                               => C[EntryIn(blocks, ptrg, u)] = blocks[EntryIn(blocks, ptrg, u)]
    <2> SUFFICES ASSUME NEW u \in AllPaths, Map[g][u] # Nil
                 PROVE  C[Map[g][u]] = blocks[Map[g][u]]
      BY <1>1
    <2> DEFINE e == Map[g][u]
    <2>1. e \in Sectors
      BY DEF IInv, Beyond, Places
    <2>2. e \notin fresh
      <3>1. map_open => e \in free_map
        BY DEF IInv, AllMarked, Places
      <3> QED
        BY <3>1 DEF Outcome
    <2>3. e # Nil /\ \A p \in AllPaths : EntryIn(blocks, ptr, p) # e
      OBVIOUS
    <2> HIDE DEF e
    <2>4. C[e] = blocks[e]
      BY <2>1, <2>2, <2>3 DEF Outcome
    <2> QED
      BY <2>4 DEF e
  <1> HIDE DEF ptrg, C
  <1>3. \A p \in AllPaths : EntryIn(C, ptrg, p) = EntryIn(blocks, ptrg, p)
    BY <1>2, EntryKept
  <1>4. ASSUME NEW p \in Need(inode_open(g).length)
        PROVE  EntryIn(C, inode_open(g).ptr, p) # Nil
    <2> DEFINE a == inode_open(g).ptr
    <2>1. TypeOK /\ CopiesAgree /\ p \in AllPaths
      BY LengthPaths DEF IInv
    <2>2. Part(a, ptrg)
      BY <2>1, DiskPart DEF ptrg
    <2>3. EntryIn(blocks, a, p) # Nil
      BY DEF IInv, Backed
    <2> HIDE DEF a
    <2>4. EntryIn(C, a, p) = EntryIn(blocks, a, p)
      BY <2>1, <2>2, <2>3, <1>3, PartKept
    <2> QED
      BY <2>3, <2>4 DEF a
  <1> QED
    BY <1>1, <1>3, <1>4 DEF ptrg, C

LEMMA WriteStep ==
    ASSUME IInv, NEW f \in Names, NEW n \in 1 .. MaxLength, fsutil_write(f, n)
    PROVE  IInv'
  <1> DEFINE node == filesys_open(f)
             r == inode_reserve(free_map, node, n)
             new == Grown(node, r, n)
             ptr == node.ptr
  <1>0. /\ TypeOK /\ CopiesAgree /\ Apart(Files, Map) /\ Beyond(Files, Map)
        /\ map_open => AllMarked(Files, Map, free_map)
        /\ map_open \in BOOLEAN /\ blocks \in Blocks
        /\ n \in Int /\ n <= MaxLength /\ n >= 0
    BY MostType DEF IInv, TypeOK, Blocks
  <1>1. /\ f \in Files /\ n >= node.length
        /\ free_map' = r.marked /\ blocks' = r.blocks
        /\ map_inode' = (map_inode /\ ~r.zeroed)
        /\ file_table' = [file_table EXCEPT ![f] = new]
        /\ inodes' = IF r.ok THEN [inodes EXCEPT ![directory[f]] = new] ELSE inodes
        /\ failed' = (failed \/ ~r.ok)
        /\ map_open' = map_open /\ directory' = directory
    BY DEF fsutil_write, inode_write_at, add_to_file_table, Saved
  <1>2. /\ node \in Inode /\ directory[f] \in Sectors
        /\ node.length \in Int /\ node.length >= 0 /\ node.length <= MaxLength
        /\ ptr \in [Pointers -> Sectors]
    BY <1>0, <1>1, OpenType, InodeNotClosed
  <1>3. \A p \in AllPaths : Map[f][p] = EntryIn(blocks, ptr, p)
    BY <1>1, MapAt
  <1>4. PICK fresh : Outcome(blocks, map_open, ptr, free_map, n, r, fresh)
    <2>1. map_open => Nil \in free_map /\ \A p \in AllPaths : EntryIn(blocks, ptr, p) \in free_map
      BY <1>0, <1>1, <1>3, FormatFacts DEF AllMarked, Places
    <2>2. \A p, q \in AllPaths : EntryIn(blocks, ptr, p) = EntryIn(blocks, ptr, q)
                                    /\ EntryIn(blocks, ptr, p) # Nil => p = q
      <3> SUFFICES ASSUME NEW p \in AllPaths, NEW q \in AllPaths,
                          Map[f][p] = Map[f][q], Map[f][p] # Nil
                   PROVE  p = q
        BY <1>3
      <3>1. p \in Places /\ q \in Places
        BY DEF Places
      <3> QED
        BY <3>1, <1>0, <1>1, ApartAt
    <2> HIDE DEF r, node
    <2>3. r = inode_reserve(free_map, node, n)
      BY DEF r
    <2> QED
      BY <2>1, <2>2, <2>3, <1>0, <1>2, Reserve
  <1> HIDE DEF r, node, ptr
  <1>5. /\ new.length = IF r.ok THEN n ELSE node.length
        /\ new.ptr = r.ptr /\ r.ptr \in [Pointers -> Sectors]
        /\ r.ok \in BOOLEAN /\ r.zeroed \in BOOLEAN /\ (r.ok => ~r.zeroed)
        /\ r.blocks \in Blocks /\ r.marked \subseteq Sectors
        /\ r.marked = free_map \cup fresh
    BY <1>0, <1>4 DEF Grown, Outcome, TypeOK
  <1>6. new \in Inode
    <2>1. new.length \in 0 .. MaxLength
      BY <1>0, <1>2, <1>5, MostType
    <2>2. new = [length |-> new.length, ptr |-> new.ptr]
      BY DEF Grown
    <2> HIDE DEF new
    <2> QED
      BY <2>1, <2>2, <1>5 DEF Inode
  <1> HIDE DEF new
  <1>7. TypeOK'
    <2>1. inodes' \in [Sectors -> Inode] /\ file_table' \in [Names -> Inode \cup {Closed}]
      BY <1>0, <1>1, <1>6 DEF TypeOK
    <2>2. map_inode' \in BOOLEAN /\ failed' \in BOOLEAN
      BY <1>0, <1>1, <1>5 DEF TypeOK
    <2> QED
      BY <2>1, <2>2, <1>0, <1>1, <1>5 DEF TypeOK, Blocks
  <1>8. Files' = Files /\ new # Closed
    BY <1>1, <1>6, InodeNotClosed DEF Files
  <1>9. filesys_open(f)' = new /\ inode_open(f)' = IF r.ok THEN new ELSE inode_open(f)
    BY <1>0, <1>1, <1>2, <1>8 DEF filesys_open, inode_open, Opened, TypeOK
  <1>10. ASSUME NEW g \in Files, g # f
         PROVE  /\ filesys_open(g)' = filesys_open(g) /\ inode_open(g)' = inode_open(g)
                /\ file_table'[g] = file_table[g]
    <2>1. directory[g] # directory[f]
      <3>1. << >> \in Places /\ directory[g] # Nil
        BY <1>0, OpenType DEF Places
      <3> QED
        BY <3>1, <1>0, <1>1, <1>10, MapAt, ApartAt
    <2>2. inode_open(g)' = inode_open(g) /\ file_table'[g] = file_table[g]
      BY <2>1, <1>0, <1>1, <1>10 DEF inode_open, TypeOK, Files
    <2> QED
      BY <2>2 DEF filesys_open, Opened
  <1>11. ASSUME NEW g \in Files, g # f
         PROVE  /\ \A p \in AllPaths : EntryIn(blocks', filesys_open(g)'.ptr, p) = Map[g][p]
                /\ \A p \in Need(inode_open(g)'.length) : EntryIn(blocks', inode_open(g)'.ptr, p) # Nil
    <2>1. \A p, u \in AllPaths : Map[g][u] # Nil => EntryIn(blocks, ptr, p) # Map[g][u]
      <3> SUFFICES ASSUME NEW p \in AllPaths, NEW u \in AllPaths, Map[g][u] # Nil, Map[f][p] = Map[g][u]
                   PROVE  FALSE
        BY <1>3
      <3>1. p \in Places /\ u \in Places
        BY DEF Places
      <3> QED
        BY <3>1, <1>0, <1>1, <1>11, ApartAt
    <2>2. /\ \A p \in AllPaths : EntryIn(r.blocks, filesys_open(g).ptr, p) = Map[g][p]
          /\ \A p \in Need(inode_open(g).length) : EntryIn(r.blocks, inode_open(g).ptr, p) # Nil
      BY <2>1, <1>4, OtherKept
    <2> QED
      BY <2>2, <1>1, <1>10, <1>11
  <1>12. \A p \in AllPaths : Map'[f][p] = EntryIn(r.blocks, r.ptr, p)
    BY <1>1, <1>5, <1>8, <1>9, MapAtNext
  <1>13. \A p \in AllPaths : \/ Map'[f][p] = Map[f][p]
                             \/ Map[f][p] = Nil /\ p \in Need(n) /\ Map'[f][p] \in fresh
    BY <1>3, <1>4, <1>12 DEF Outcome
  <1>14. /\ \A g \in Files : Map'[g][<< >>] = Map[g][<< >>]
         /\ \A g \in Files : g # f => \A p \in AllPaths : Map'[g][p] = Map[g][p]
    BY <1>1, <1>8, <1>11, MapAt, MapAtNext
  <1>15. Unused(Files, Map, fresh)
    BY <1>0, <1>4, FreshUnused DEF Outcome
  <1>16. MapStep(Files, Map, Files', Map', fresh)
    <2>1. \A g \in Files : \A p \in Places :
             \/ Map'[g][p] = Map[g][p]
             \/ g = f /\ p \in AllPaths /\ Map'[g][p] \in fresh
      BY <1>13, <1>14 DEF Places
    <2>2. ASSUME NEW g \in Files, NEW h \in Files, NEW p \in Places, NEW q \in Places,
                 Map'[g][p] = Map'[h][q], Map'[g][p] \in fresh
          PROVE  g = h /\ p = q
      <3>1. Map[g][p] \notin fresh /\ Map[h][q] \notin fresh
        BY <1>15 DEF Unused
      <3>2. g = f /\ p \in AllPaths /\ h = f /\ q \in AllPaths
        BY <3>1, <2>1, <2>2
      <3> QED
        BY <3>2, <2>2, <1>4, <1>12 DEF Outcome
    <2> QED
      BY <2>1, <2>2, <1>8 DEF MapStep
  <1>17. Apart(Files', Map') /\ Beyond(Files', Map')
    BY <1>0, <1>15, <1>16, StepKeeps
  <1>18. map_open' => AllMarked(Files', Map', free_map')
    BY <1>0, <1>1, <1>5, <1>8, <1>13, <1>14 DEF AllMarked, Places
  <1>19. CopiesAgree'
    <2> SUFFICES ASSUME NEW g \in Opened'
                 PROVE  /\ g \in Files'
                        /\ file_table'[g].length = inode_open(g)'.length
                        /\ \A k \in Pointers : inode_open(g)'.ptr[k] \in {Nil, file_table'[g].ptr[k]}
      BY DEF CopiesAgree, inode_open
    <2>1. CASE g = f
      <3>1. file_table'[f] = new
        BY <1>0, <1>1 DEF TypeOK
      <3>2. CASE r.ok
        BY <2>1, <3>1, <3>2, <1>1, <1>8, <1>9
      <3>3. CASE ~r.ok
        <4>1. inode_open(f)' = inode_open(f) /\ new.length = node.length /\ new.ptr = r.ptr
          BY <3>3, <1>5, <1>9
        <4>2. Part(inode_open(f).ptr, ptr) /\ inode_open(f).length = node.length
          BY <1>0, <1>1, DiskPart DEF node, ptr
        <4>3. \A k \in Pointers : ptr[k] # Nil => r.ptr[k] = ptr[k]
          BY <1>4 DEF Outcome
        <4> QED
          BY <4>1, <4>2, <4>3, <3>1, <2>1, <1>1, <1>8 DEF Part
      <3> QED
        BY <3>2, <3>3, <1>5
    <2>2. CASE g # f
      <3>1. g \in Opened /\ g \in Files
        BY <2>2, <1>0, <1>1 DEF Opened, TypeOK, CopiesAgree
      <3>2. file_table'[g] = file_table[g] /\ inode_open(g)' = inode_open(g)
        BY <2>2, <3>1, <1>10
      <3> QED
        BY <3>1, <3>2, <1>0, <1>8 DEF CopiesAgree, inode_open
    <2> QED
      BY <2>1, <2>2
  <1>20. Backed'
    <2> SUFFICES ASSUME NEW g \in Files, NEW p \in Need(inode_open(g)'.length)
                 PROVE  EntryIn(blocks', inode_open(g)'.ptr, p) # Nil
      BY <1>8 DEF Backed
    <2>1. CASE g # f
      BY <2>1, <1>11
    <2>2. CASE g = f /\ r.ok
      BY <2>2, <1>1, <1>4, <1>5, <1>9 DEF Outcome
    <2>3. CASE g = f /\ ~r.ok
      <3> DEFINE a == inode_open(f).ptr
      <3>1. inode_open(f)' = inode_open(f) /\ p \in Need(inode_open(f).length)
        BY <2>3, <1>9
      <3>2. p \in AllPaths
        BY <3>1, <1>0, <1>1, LengthPaths
      <3>3. EntryIn(blocks, a, p) # Nil
        BY <3>1, <1>1 DEF IInv, Backed
      <3>4. Part(a, ptr)
        BY <1>0, <1>1, DiskPart DEF node, ptr
      <3>5. \A k \in Pointers : ptr[k] # Nil => r.ptr[k] = ptr[k]
        BY <1>4 DEF Outcome
      <3>6. EntryIn(blocks, ptr, p) # Nil => EntryIn(r.blocks, r.ptr, p) = EntryIn(blocks, ptr, p)
        BY <3>2, <1>4 DEF Outcome
      <3> HIDE DEF a
      <3> DEFINE C == r.blocks
                 b1 == r.ptr
      <3>7. EntryIn(C, a, p) = EntryIn(blocks, a, p)
        <4>1. /\ \A k \in Pointers : ptr[k] # Nil => b1[k] = ptr[k]
              /\ EntryIn(blocks, ptr, p) # Nil => EntryIn(C, b1, p) = EntryIn(blocks, ptr, p)
          BY <3>5, <3>6
        <4> HIDE DEF C, b1
        <4> QED
          BY <4>1, <3>2, <3>3, <3>4, PartKept
      <3> QED
        BY <3>1, <3>3, <3>7, <2>3, <1>1 DEF a
    <2> QED
      BY <2>1, <2>2, <2>3, <1>5
  <1>21. ASSUME ~failed'
         PROVE  map_inode' /\ OnlyMarked(Files', Map', free_map') /\ Trimmed'
    <2>1. ~failed /\ r.ok
      BY <1>1, <1>21
    <2>2. map_inode /\ OnlyMarked(Files, Map, free_map) /\ Trimmed
      BY <2>1 DEF IInv
    <2>3. map_inode'
      BY <2>1, <2>2, <1>1, <1>5
    <2>4. OnlyMarked(Files', Map', free_map')
      <3> SUFFICES ASSUME NEW s \in free_map', s \notin do_format
                   PROVE  \E g \in Files : \E p \in Places : Map'[g][p] = s
        BY <1>8 DEF OnlyMarked
      <3>1. CASE s \in fresh
        <4>1. PICK p \in Need(n) : EntryIn(r.blocks, r.ptr, p) = s
          BY <3>1, <2>1, <1>4 DEF Outcome
        <4>2. p \in AllPaths
          BY <1>0, NeedPaths
        <4>3. Map'[f][p] = s /\ p \in Places
          BY <4>1, <4>2, <1>12 DEF Places
        <4> QED
          BY <4>3, <1>1
      <3>2. CASE s \in free_map
        <4>1. PICK g \in Files : \E p \in Places : Map[g][p] = s
          BY <3>2, <2>2 DEF OnlyMarked
        <4>2. PICK p \in Places : Map[g][p] = s
          BY <4>1
        <4>3. s # Nil
          BY FormatFacts
        <4>4. Map'[g][p] = s
          BY <4>2, <4>3, <1>13, <1>14 DEF Places
        <4> QED
          BY <4>4
      <3> QED
        BY <3>1, <3>2, <1>1, <1>5
    <2>5. Trimmed'
      <3> SUFFICES ASSUME NEW g \in Files, NEW p \in AllPaths, Map'[g][p] # Nil
                   PROVE  p \in Need(inode_open(g)'.length)
        BY <1>8 DEF Trimmed
      <3>1. CASE g # f
        BY <3>1, <2>2, <1>10, <1>14 DEF Trimmed
      <3>2. CASE g = f
        <4>1. inode_open(f)'.length = n
          BY <2>1, <1>5, <1>9
        <4>2. inode_open(f).length = node.length
          BY <1>0, <1>1, DiskPart DEF node
        <4>3. Need(node.length) \subseteq Need(n)
          BY <1>0, <1>1, <1>2, NeedMonotone
        <4>4. Map[f][p] # Nil => p \in Need(node.length)
          BY <4>2, <2>2, <1>1 DEF Trimmed
        <4> QED
          BY <3>2, <4>1, <4>3, <4>4, <1>13
      <3> QED
        BY <3>1, <3>2
    <2> QED
      BY <2>3, <2>4, <2>5
  <1>22. map_inode' => map_open'
    BY <1>1 DEF IInv
  <1> QED
    BY <1>7, <1>17, <1>18, <1>19, <1>20, <1>21, <1>22 DEF IInv

\* A create, successful or not.
LEMMA CreateStep ==
    ASSUME IInv, NEW f \in Names, NEW n \in -1 .. MaxLength, filesys_create(f, n)
    PROVE  IInv'
  <1> DEFINE s == free_map_allocate(free_map, 1)
             marked == free_map \cup {s}
             r == inode_reserve(marked, EmptyInode, n)
             ptr == EmptyInode.ptr
             new == [length |-> n, ptr |-> r.ptr]
             done == r.ok /\ f \notin Files
  <1>0. /\ TypeOK /\ CopiesAgree /\ Apart(Files, Map) /\ Beyond(Files, Map)
        /\ map_open \in BOOLEAN /\ blocks \in Blocks
        /\ n \in Int /\ n <= MaxLength
    BY MostType DEF IInv, TypeOK, Blocks
  <1>1. /\ Free(free_map) # {}
        /\ map_inode' = (map_inode /\ ~r.zeroed) /\ blocks' = r.blocks
        /\ map_open' = map_open /\ file_table' = file_table
    BY DEF filesys_create
  <1>2. \/ /\ done
           /\ free_map' = r.marked
           /\ inodes' = [inodes EXCEPT ![s] = new]
           /\ directory' = [directory EXCEPT ![f] = s]
           /\ failed' = failed
        \/ /\ ~done
           /\ free_map' = r.marked \ {s}
           /\ failed' = TRUE
           /\ inodes' = inodes /\ directory' = directory
    <2>1. \/ /\ r.ok /\ f \notin Files
             /\ free_map' = r.marked
             /\ inodes' = inode_create(s, n, r)
             /\ dir_add(f, s)
             /\ UNCHANGED failed
          \/ /\ ~r.ok \/ f \in Files
             /\ free_map' = r.marked \ {s}
             /\ failed' = TRUE
             /\ UNCHANGED <<inodes, directory>>
      BY DEF filesys_create
    <2> HIDE DEF r, s
    <2> QED
      BY <2>1 DEF inode_create, dir_add
  <1>3. s \in Sectors /\ s \notin free_map /\ map_open /\ AllMarked(Files, Map, free_map)
    <2>1. Cardinality(Free(free_map)) \in Nat /\ Cardinality(Free(free_map)) # 0
      BY <1>1, FreeFinite, FS_EmptySet
    <2>2. 1 \in 1 .. Cardinality(Free(free_map))
      BY <2>1
    <2>3. s \in Free(free_map)
      BY <2>2, AllocateFacts
    <2> HIDE DEF s
    <2> QED
      BY <2>3, <1>1 DEF Free, IInv
  <1> HIDE DEF s
  <1>4. PICK fresh : Outcome(blocks, map_open, ptr, marked, n, r, fresh)
    <2>1. EmptyInode.ptr \in [Pointers -> Sectors]
      BY EmptyInodeType, InodeNotClosed
    <2>2. \A p \in AllPaths : EntryIn(blocks, EmptyInode.ptr, p) = Nil
      BY EmptyEntries
    <2>3. Nil \in marked
      BY <1>3, FormatFacts DEF AllMarked
    <2> HIDE DEF r, marked
    <2>4. r = inode_reserve(marked, EmptyInode, n)
      BY DEF r
    <2> QED
      BY <2>1, <2>2, <2>3, <2>4, <1>0, Reserve
  <1>5. \A p \in AllPaths : EntryIn(blocks, ptr, p) = Nil
    BY EmptyEntries
  <1> HIDE DEF r, ptr, new, marked
  <1>6. /\ free_map \subseteq marked /\ fresh \cap free_map = {} /\ s \notin fresh
        /\ fresh \subseteq Sectors
        /\ r.marked = free_map \cup {s} \cup fresh
        /\ r.ptr \in [Pointers -> Sectors] /\ r.blocks \in Blocks
        /\ r.ok \in BOOLEAN /\ r.zeroed \in BOOLEAN /\ (r.ok => ~r.zeroed /\ n >= 0)
    BY <1>4 DEF Outcome, marked
  <1>7. s # Nil /\ s >= Reserved /\ \A g \in Files : directory[g] # s
    <2>1. s \notin do_format
      BY <1>3 DEF AllMarked
    <2>2. \A g \in Files : Map[g][<< >>] \in free_map
      BY <1>3 DEF AllMarked, Places
    <2> QED
      BY <2>1, <2>2, <1>3, FormatFacts, SectorsType, MapAssumption, MapAt
  <1>8. ASSUME NEW g \in Files
        PROVE  /\ g \in Files' /\ directory'[g] = directory[g]
               /\ filesys_open(g)' = filesys_open(g) /\ inode_open(g)' = inode_open(g)
               /\ \A p \in AllPaths : EntryIn(blocks', filesys_open(g).ptr, p) = Map[g][p]
               /\ \A p \in Need(inode_open(g).length) : EntryIn(blocks', inode_open(g).ptr, p) # Nil
    <2>1. /\ g \in Names /\ directory[g] \in Sectors /\ directory[g] # Nil
      BY <1>0, OpenType
    <2>2. directory'[g] = directory[g] /\ inodes'[directory[g]] = inodes[directory[g]]
      <3>1. CASE done
        <4>1. g # f /\ directory[g] # s
          BY <3>1, <1>7
        <4> QED
          BY <4>1, <3>1, <2>1, <1>0, <1>2 DEF TypeOK
      <3>2. CASE ~done
        BY <3>2, <1>2
      <3> QED
        BY <3>1, <3>2
    <2>3. g \in Files' /\ inode_open(g)' = inode_open(g)
      BY <2>1, <2>2 DEF Files, inode_open
    <2>4. filesys_open(g)' = filesys_open(g)
      BY <2>3, <1>1 DEF filesys_open, Opened
    <2>5. \A p, u \in AllPaths : Map[g][u] # Nil => EntryIn(blocks, ptr, p) # Map[g][u]
      BY <1>5
    <2>6. /\ \A p \in AllPaths : EntryIn(r.blocks, filesys_open(g).ptr, p) = Map[g][p]
          /\ \A p \in Need(inode_open(g).length) : EntryIn(r.blocks, inode_open(g).ptr, p) # Nil
      BY <2>5, <1>4, <1>6, OtherKept
    <2> QED
      BY <2>2, <2>3, <2>4, <2>6, <1>1
  <1>9. \A g \in Files : \A p \in Places : Map'[g][p] = Map[g][p]
    BY <1>8, MapAt, MapAtNext DEF Places
  <1>10. ASSUME ~done PROVE Files' = Files
    BY <1>2, <1>10 DEF Files
  <1>11. ASSUME done
         PROVE  /\ Files' = Files \cup {f} /\ directory'[f] = s
                /\ inode_open(f)' = new /\ filesys_open(f)' = new
                /\ new \in Inode /\ new.length = n /\ new.ptr = r.ptr
    <2>1. directory'[f] = s /\ inodes'[s] = new
      BY <1>0, <1>2, <1>3, <1>11 DEF TypeOK
    <2>2. \A g \in Names : g # f => directory'[g] = directory[g]
      BY <1>0, <1>2, <1>11 DEF TypeOK
    <2>3. Files' = Files \cup {f}
      <3>1. \A g : g \in Files' <=> g \in Files \/ g = f
        BY <2>1, <2>2, <1>7 DEF Files
      <3> DEFINE G == Files \cup {f}
      <3>2. \A g : g \in Files' <=> g \in G
        BY <3>1
      <3> HIDE DEF G
      <3>3. Files' = G
        BY <3>2, Zenon
      <3> QED
        BY <3>3 DEF G
    <2>4. f \notin Opened /\ f \notin Opened'
      BY <1>0, <1>1, <1>11 DEF CopiesAgree, Opened
    <2>5. new \in Inode /\ new.length = n /\ new.ptr = r.ptr
      <3>1. n \in 0 .. MaxLength
        BY <1>0, <1>6, <1>11, MostType
      <3> QED
        BY <3>1, <1>6 DEF new, Inode
    <2> QED
      BY <2>1, <2>3, <2>4, <2>5 DEF inode_open, filesys_open
  <1>12. ASSUME done
         PROVE  /\ Map'[f][<< >>] = s
                /\ \A p \in AllPaths : Map'[f][p] = EntryIn(r.blocks, r.ptr, p)
                /\ \A p \in AllPaths : Map'[f][p] = Nil \/ (p \in Need(n) /\ Map'[f][p] \in fresh)
    <2>1. f \in Files' /\ directory'[f] = s /\ filesys_open(f)'.ptr = r.ptr /\ blocks' = r.blocks
      BY <1>1, <1>11, <1>12
    <2>2. Map'[f][<< >>] = s /\ \A p \in AllPaths : Map'[f][p] = EntryIn(r.blocks, r.ptr, p)
      BY <2>1, MapAtNext
    <2> QED
      BY <2>2, <1>4, <1>5 DEF Outcome
  <1>13. TypeOK'
    <2>1. free_map' \subseteq Sectors
      BY <1>0, <1>2, <1>3, <1>6 DEF TypeOK
    <2>2. inodes' \in [Sectors -> Inode]
      <3>1. CASE done
        BY <3>1, <1>0, <1>2, <1>3, <1>11 DEF TypeOK
      <3>2. CASE ~done
        BY <3>2, <1>0, <1>2 DEF TypeOK
      <3> QED
        BY <3>1, <3>2
    <2>3. directory' \in [Names -> Sectors] /\ failed' \in BOOLEAN
      <3>1. directory' = directory \/ directory' = [directory EXCEPT ![f] = s]
        BY <1>2
      <3>2. failed' = failed \/ failed' = TRUE
        BY <1>2
      <3>3. directory' \in [Names -> Sectors]
        BY <3>1, <1>0, <1>3 DEF TypeOK
      <3>4. failed' \in BOOLEAN
        BY <3>2, <1>0 DEF TypeOK
      <3> QED
        BY <3>3, <3>4
    <2>4. map_inode' \in BOOLEAN
      BY <1>0, <1>1, <1>6 DEF TypeOK
    <2> QED
      BY <2>1, <2>2, <2>3, <2>4, <1>0, <1>1, <1>6 DEF TypeOK, Blocks
  <1> DEFINE used == fresh \cup {s}
  <1>14. Unused(Files, Map, used)
    <2>1. used \subseteq Sectors /\ used \cap free_map = {}
      BY <1>3, <1>6
    <2> HIDE DEF used
    <2> QED
      BY <2>1, <1>3, FreshUnused
  <1>15. MapStep(Files, Map, Files', Map', used)
    <2>1. CASE ~done
      BY <2>1, <1>9, <1>10, <1>14 DEF MapStep, Unused
    <2>2. CASE done
      <3>1. \A g \in Files : \A p \in Places : Map'[g][p] = Map[g][p] /\ Map'[g][p] \notin used
        BY <1>9, <1>14 DEF Unused
      <3>2. \A p \in Places : Map'[f][p] = Nil \/ Map'[f][p] \in used
        BY <2>2, <1>12 DEF Places
      <3>3. ASSUME NEW p \in Places, NEW q \in Places, Map'[f][p] = Map'[f][q], Map'[f][p] \in used
            PROVE  p = q
        <4>1. CASE p = << >> \/ q = << >>
          BY <4>1, <3>3, <2>2, <1>6, <1>7, <1>12 DEF Places
        <4>2. CASE p \in AllPaths /\ q \in AllPaths
          <5>1. Map'[f][p] \in fresh
            BY <4>2, <3>3, <2>2, <1>7, <1>12, <1>3 DEF AllMarked
          <5> QED
            BY <5>1, <4>2, <3>3, <2>2, <1>4, <1>12 DEF Outcome
        <4> QED
          BY <4>1, <4>2 DEF Places
      <3>4. Files' = Files \cup {f}
        BY <2>2, <1>11
      <3> HIDE DEF used
      <3> QED
        BY <3>1, <3>2, <3>3, <3>4 DEF MapStep
    <2> QED
      BY <2>1, <2>2
  <1>16. Apart(Files', Map') /\ Beyond(Files', Map')
    <2> HIDE DEF used
    <2> QED
      BY <1>0, <1>14, <1>15, StepKeeps
  <1>17. AllMarked(Files', Map', free_map')
    <2>1. CASE ~done
      BY <2>1, <1>2, <1>3, <1>6, <1>9, <1>10 DEF AllMarked
    <2>2. CASE done
      <3>1. free_map' = free_map \cup {s} \cup fresh /\ Files' = Files \cup {f}
        BY <2>2, <1>2, <1>6, <1>11
      <3>2. \A p \in Places : Map'[f][p] \in free_map'
        BY <3>1, <2>2, <1>3, <1>12, FormatFacts DEF Places, AllMarked
      <3> QED
        BY <3>1, <3>2, <1>3, <1>9 DEF AllMarked
    <2> QED
      BY <2>1, <2>2
  <1>18. CopiesAgree'
    <2> SUFFICES ASSUME NEW g \in Opened'
                 PROVE  /\ g \in Files'
                        /\ file_table'[g].length = inode_open(g)'.length
                        /\ \A k \in Pointers : inode_open(g)'.ptr[k] \in {Nil, file_table'[g].ptr[k]}
      BY DEF CopiesAgree, inode_open
    <2>1. g \in Opened /\ g \in Files
      BY <1>0, <1>1 DEF Opened, CopiesAgree
    <2> QED
      BY <2>1, <1>0, <1>1, <1>8 DEF CopiesAgree, inode_open
  <1>19. Backed'
    <2> SUFFICES ASSUME NEW g \in Files', NEW p \in Need(inode_open(g)'.length)
                 PROVE  EntryIn(blocks', inode_open(g)'.ptr, p) # Nil
      BY DEF Backed
    <2>1. CASE g \in Files
      BY <2>1, <1>8
    <2>2. CASE g \notin Files
      <3>1. done /\ g = f
        BY <2>2, <1>10, <1>11
      <3> QED
        BY <3>1, <1>1, <1>4, <1>11 DEF Outcome
    <2> QED
      BY <2>1, <2>2
  <1>20. ASSUME ~failed'
         PROVE  map_inode' /\ OnlyMarked(Files', Map', free_map') /\ Trimmed'
    <2>1. ~failed /\ done
      BY <1>2, <1>20
    <2>2. map_inode /\ OnlyMarked(Files, Map, free_map) /\ Trimmed
      BY <2>1 DEF IInv
    <2>3. map_inode'
      BY <2>1, <2>2, <1>1, <1>6
    <2>4. Files' = Files \cup {f} /\ free_map' = free_map \cup {s} \cup fresh
      BY <2>1, <1>2, <1>6, <1>11
    <2>5. OnlyMarked(Files', Map', free_map')
      <3> SUFFICES ASSUME NEW t \in free_map', t \notin do_format
                   PROVE  \E g \in Files' : \E p \in Places : Map'[g][p] = t
        BY DEF OnlyMarked
      <3>1. CASE t = s
        BY <3>1, <2>1, <2>4, <1>12 DEF Places
      <3>2. CASE t \in fresh
        <4>1. PICK p \in Need(n) : EntryIn(r.blocks, r.ptr, p) = t
          BY <3>2, <2>1, <1>4 DEF Outcome
        <4>2. p \in AllPaths
          BY <1>0, NeedPaths
        <4>3. Map'[f][p] = t /\ p \in Places
          BY <4>1, <4>2, <2>1, <1>12 DEF Places
        <4> QED
          BY <4>3, <2>4
      <3>3. CASE t \in free_map
        <4>1. PICK g \in Files : \E p \in Places : Map[g][p] = t
          BY <3>3, <2>2 DEF OnlyMarked
        <4> QED
          BY <4>1, <2>4, <1>9
      <3> QED
        BY <3>1, <3>2, <3>3, <2>4
    <2>6. Trimmed'
      <3> SUFFICES ASSUME NEW g \in Files', NEW p \in AllPaths, Map'[g][p] # Nil
                   PROVE  p \in Need(inode_open(g)'.length)
        BY DEF Trimmed
      <3>1. CASE g \in Files
        BY <3>1, <2>2, <1>8, <1>9 DEF Trimmed, Places
      <3>2. CASE g \notin Files
        BY <3>2, <2>1, <2>4, <1>11, <1>12
      <3> QED
        BY <3>1, <3>2
    <2> QED
      BY <2>3, <2>5, <2>6
  <1>21. map_inode' => map_open'
    BY <1>1, <1>3
  <1> QED
    BY <1>13, <1>16, <1>17, <1>18, <1>19, <1>20, <1>21 DEF IInv

LEMMA NoSpaceStep ==
    ASSUME IInv, CreateNoSpace
    PROVE  IInv'
  <1>1. /\ UNCHANGED <<free_map, map_inode, map_open, directory, inodes, blocks, file_table>>
        /\ failed' = TRUE
    BY DEF CreateNoSpace
  <1>2. /\ Files' = Files /\ Opened' = Opened /\ \A f : inode_open(f)' = inode_open(f)
        /\ \A f : filesys_open(f)' = filesys_open(f)
    BY <1>1 DEF Files, Opened, inode_open, filesys_open
  <1>3. Map' = Map
    BY <1>1, <1>2 DEF Map
  <1>4. TypeOK' /\ CopiesAgree' /\ Backed'
    BY <1>1, <1>2 DEF IInv, TypeOK, CopiesAgree, Backed
  <1> QED
    BY <1>1, <1>2, <1>3, <1>4 DEF IInv

-----------------------------------------------------------------------------
\* Removal.

\* What the removal of a file releases is a part of the file's places.
LEMMA ReleasedPart ==
    ASSUME IInv, NEW f \in Files
    PROVE  \A s \in {directory[f]} \cup inode_deallocate(inode_open(f)) :
              s # Nil /\ \E p \in Places : Map[f][p] = s
  <1> SUFFICES ASSUME NEW s \in {directory[f]} \cup inode_deallocate(inode_open(f))
               PROVE  s # Nil /\ \E p \in Places : Map[f][p] = s
    OBVIOUS
  <1>0. TypeOK /\ CopiesAgree
    BY DEF IInv
  <1>1. CASE s = directory[f]
    BY <1>0, <1>1, OpenType, MapAt DEF Places
  <1>2. CASE s \in inode_deallocate(inode_open(f))
    <2>1. PICK p \in Need(inode_open(f).length) : s = EntryIn(blocks, inode_open(f).ptr, p)
      BY <1>2, EntryIs DEF inode_deallocate
    <2>2. p \in AllPaths
      BY <1>0, LengthPaths
    <2>3. s # Nil
      BY <2>1 DEF IInv, Backed
    <2>4. s = Map[f][p]
      BY <2>1, <2>2, <2>3, <1>0, DiskEntry
    <2> QED
      BY <2>2, <2>3, <2>4 DEF Places
  <1> QED
    BY <1>1, <1>2

\* As long as nothing failed, it is all of them.
LEMMA ReleasedAll ==
    ASSUME IInv, ~failed, NEW f \in Files, NEW p \in Places, Map[f][p] # Nil
    PROVE  Map[f][p] \in {directory[f]} \cup inode_deallocate(inode_open(f))
  <1>0. TypeOK /\ CopiesAgree
    BY DEF IInv
  <1>1. CASE p = << >>
    BY <1>1, MapAt
  <1>2. CASE p \in AllPaths
    <2>1. p \in Need(inode_open(f).length)
      BY <1>2 DEF IInv, Trimmed
    <2>2. EntryIn(blocks, inode_open(f).ptr, p) # Nil
      BY <2>1 DEF IInv, Backed
    <2>3. EntryIn(blocks, inode_open(f).ptr, p) = Map[f][p]
      BY <2>2, <1>0, <1>2, DiskEntry
    <2>4. Entry(inode_open(f), p) = Map[f][p]
      BY <2>3, EntryIs
    <2> QED
      BY <2>1, <2>4 DEF inode_deallocate
  <1> QED
    BY <1>1, <1>2 DEF Places

LEMMA RemoveStep ==
    ASSUME IInv, NEW f \in Names, fsutil_rm(f)
    PROVE  IInv'
  <1> DEFINE R == {directory[f]} \cup inode_deallocate(inode_open(f))
  <1>0. TypeOK /\ CopiesAgree /\ Apart(Files, Map) /\ Beyond(Files, Map)
    BY DEF IInv
  <1>1. /\ f \in Files
        /\ file_table' = [file_table EXCEPT ![f] = Closed]
        /\ free_map' = free_map \ R
        /\ inodes' = [s \in Sectors |-> IF s \in R THEN EmptyInode ELSE inodes[s]]
        /\ blocks' = [s \in Sectors |-> IF s \in R THEN Zeros ELSE blocks[s]]
        /\ directory' = [directory EXCEPT ![f] = Nil]
        /\ UNCHANGED <<map_inode, map_open, failed>>
    BY DEF fsutil_rm, remove_from_file_table, dir_remove, inode_close, free_map_release
  <1>2. \A s \in R : s # Nil /\ \E p \in Places : Map[f][p] = s
    BY <1>1, ReleasedPart
  <1>3. ~failed => \A p \in Places : Map[f][p] # Nil => Map[f][p] \in R
    BY <1>1, ReleasedAll
  <1> HIDE DEF R
  <1>4. TypeOK'
    <2>1. Zeros \in [Slots -> Sectors] /\ EmptyInode \in Inode /\ Nil \in Sectors
      BY EmptyInodeType, SectorsType DEF Zeros
    <2>2. inodes' \in [Sectors -> Inode]
      BY <2>1, <1>0, <1>1 DEF TypeOK
    <2>3. blocks' \in [Sectors -> [Slots -> Sectors]]
      BY <2>1, <1>0, <1>1 DEF TypeOK
    <2> QED
      BY <2>1, <2>2, <2>3, <1>0, <1>1 DEF TypeOK
  <1>5. Files' = Files \ {f}
    <2>1. \A g \in Names : directory'[g] = IF g = f THEN Nil ELSE directory[g]
      BY <1>0, <1>1 DEF TypeOK
    <2>2. \A g : g \in Files' <=> g \in Files /\ g # f
      BY <2>1 DEF Files
    <2> DEFINE G == Files \ {f}
    <2>3. \A g : g \in Files' <=> g \in G
      BY <2>2
    <2> HIDE DEF G
    <2>4. Files' = G
      BY <2>3, Zenon
    <2> QED
      BY <2>4 DEF G
  <1>6. ASSUME NEW g \in Files, g # f, NEW p \in Places PROVE Map[g][p] \notin R
    <2> SUFFICES ASSUME Map[g][p] \in R PROVE FALSE
      OBVIOUS
    <2>1. PICK q \in Places : Map[f][q] = Map[g][p]
      BY <1>2
    <2>2. Map[f][q] # Nil
      BY <2>1, <1>2
    <2> QED
      BY <2>1, <2>2, <1>0, <1>1, <1>6, ApartAt
  <1>7. ASSUME NEW g \in Files, g # f
        PROVE  /\ directory'[g] = directory[g] /\ file_table'[g] = file_table[g]
               /\ inode_open(g)' = inode_open(g) /\ filesys_open(g)' = filesys_open(g)
    <2>1. g \in Names /\ directory[g] \in Sectors /\ directory[g] \notin R
      BY <1>0, <1>6, <1>7, OpenType, MapAt DEF Places
    <2>2. directory'[g] = directory[g] /\ file_table'[g] = file_table[g]
      BY <2>1, <1>0, <1>1, <1>7 DEF TypeOK
    <2>3. inodes'[directory[g]] = inodes[directory[g]]
      BY <2>1, <1>1
    <2> QED
      BY <2>2, <2>3 DEF inode_open, filesys_open, Opened
  <1>8. ASSUME NEW g \in Files, g # f
        PROVE  /\ \A p \in AllPaths : EntryIn(blocks', filesys_open(g).ptr, p) = Map[g][p]
               /\ \A p \in Need(inode_open(g).length) : EntryIn(blocks', inode_open(g).ptr, p) # Nil
    <2> DEFINE ptr == filesys_open(g).ptr
               a == inode_open(g).ptr
    <2>1. \A p \in AllPaths : Map[g][p] = EntryIn(blocks, ptr, p)
      BY MapAt
    <2>2. \A u \in AllPaths : EntryIn(blocks, ptr, u) # Nil
                                 => blocks'[EntryIn(blocks, ptr, u)] = blocks[EntryIn(blocks, ptr, u)]
      <3> SUFFICES ASSUME NEW u \in AllPaths PROVE blocks'[Map[g][u]] = blocks[Map[g][u]]
        BY <2>1
      <3>1. Map[g][u] \in Sectors /\ Map[g][u] \notin R
        BY <1>0, <1>6, <1>8 DEF Beyond, Places
      <3> QED
        BY <3>1, <1>1
    <2> HIDE DEF ptr
    <2> DEFINE C == blocks'
    <2>3. \A p \in AllPaths : EntryIn(C, ptr, p) = EntryIn(blocks, ptr, p)
      <3>1. \A u \in AllPaths : EntryIn(blocks, ptr, u) # Nil
                                 => C[EntryIn(blocks, ptr, u)] = blocks[EntryIn(blocks, ptr, u)]
        BY <2>2
      <3> HIDE DEF C
      <3> QED
        BY <3>1, EntryKept
    <2>4. ASSUME NEW p \in Need(inode_open(g).length) PROVE EntryIn(C, a, p) # Nil
      <3>1. p \in AllPaths
        BY <1>0, LengthPaths
      <3>2. Part(a, ptr)
        BY <1>0, DiskPart DEF ptr
      <3>3. EntryIn(blocks, a, p) # Nil
        BY DEF IInv, Backed
      <3> HIDE DEF a, C
      <3>4. EntryIn(C, a, p) = EntryIn(blocks, a, p)
        BY <3>1, <3>2, <3>3, <2>3, PartKept
      <3> QED
        BY <3>3, <3>4
    <2> QED
      BY <2>1, <2>3, <2>4 DEF ptr
  <1>9. \A g \in Files' : g \in Files /\ g # f /\ \A p \in Places : Map'[g][p] = Map[g][p]
    BY <1>5, <1>7, <1>8, MapAt, MapAtNext DEF Places
  <1>10. Apart(Files', Map') /\ Beyond(Files', Map')
    <2>1. MapStep(Files, Map, Files', Map', {})
      BY <1>9 DEF MapStep
    <2>2. Unused(Files, Map, {})
      BY DEF Unused
    <2> QED
      BY <2>1, <2>2, <1>0, StepKeeps
  <1>11. do_format \cap R = {}
    <2> SUFFICES ASSUME NEW s \in R PROVE s \notin do_format
      OBVIOUS
    <2>1. s \in Sectors /\ s >= Reserved
      BY <1>0, <1>1, <1>2 DEF Beyond
    <2> QED
      BY <2>1, FormatFacts, SectorsType, MapAssumption
  <1>12. map_open' => AllMarked(Files', Map', free_map')
    BY <1>1, <1>6, <1>9, <1>11 DEF IInv, AllMarked
  <1>13. CopiesAgree'
    <2> SUFFICES ASSUME NEW g \in Opened'
                 PROVE  /\ g \in Files'
                        /\ file_table'[g].length = inode_open(g)'.length
                        /\ \A k \in Pointers : inode_open(g)'.ptr[k] \in {Nil, file_table'[g].ptr[k]}
      BY DEF CopiesAgree, inode_open
    <2>1. g # f /\ g \in Opened /\ g \in Files
      BY <1>0, <1>1 DEF Opened, TypeOK, CopiesAgree
    <2>2. /\ file_table[g].length = inode_open(g).length
          /\ \A k \in Pointers : inode_open(g).ptr[k] \in {Nil, file_table[g].ptr[k]}
      BY <2>1, <1>0 DEF CopiesAgree, inode_open
    <2> QED
      BY <2>1, <2>2, <1>5, <1>7
  <1>14. Backed'
    <2> SUFFICES ASSUME NEW g \in Files', NEW p \in Need(inode_open(g)'.length)
                 PROVE  EntryIn(blocks', inode_open(g)'.ptr, p) # Nil
      BY DEF Backed
    <2> QED
      BY <1>5, <1>7, <1>8
  <1>15. ASSUME ~failed'
         PROVE  map_inode' /\ OnlyMarked(Files', Map', free_map') /\ Trimmed'
    <2>1. ~failed /\ map_inode /\ OnlyMarked(Files, Map, free_map) /\ Trimmed
      BY <1>1, <1>15 DEF IInv
    <2>2. OnlyMarked(Files', Map', free_map')
      <3> SUFFICES ASSUME NEW s \in free_map', s \notin do_format
                   PROVE  \E g \in Files' : \E p \in Places : Map'[g][p] = s
        BY DEF OnlyMarked
      <3>1. s \in free_map /\ s \notin R /\ s # Nil
        BY <1>1, FormatFacts
      <3>2. PICK g \in Files : \E p \in Places : Map[g][p] = s
        BY <3>1, <2>1 DEF OnlyMarked
      <3>3. g # f
        BY <3>1, <3>2, <2>1, <1>3
      <3>4. g \in Files'
        BY <3>3, <1>5
      <3> QED
        BY <3>2, <3>4, <1>9
    <2>3. Trimmed'
      <3> SUFFICES ASSUME NEW g \in Files', NEW p \in AllPaths, Map'[g][p] # Nil
                   PROVE  p \in Need(inode_open(g)'.length)
        BY DEF Trimmed
      <3>1. g \in Files /\ g # f /\ Map'[g][p] = Map[g][p]
        BY <1>9 DEF Places
      <3> QED
        BY <3>1, <2>1, <1>7 DEF Trimmed
    <2> QED
      BY <2>1, <2>2, <2>3, <1>1
  <1>16. map_inode' => map_open'
    BY <1>1 DEF IInv
  <1> QED
    BY <1>4, <1>10, <1>12, <1>13, <1>14, <1>15, <1>16 DEF IInv

-----------------------------------------------------------------------------
\* defragment.

\* What a create of all files again needs: an inode and the blocks of its
\* length for each.
LEMMA ItemFacts ==
    ASSUME IInv
    PROVE  /\ \A i \in Items(Files) : /\ i = <<i[1], i[2]>> /\ i[1] \in Files
                                      /\ i[2] = << >> \/ i[2] \in Need(inode_open(i[1]).length)
                                      /\ i[2] \in Places
           /\ \A f \in Files : \A p : p = << >> \/ p \in Need(inode_open(f).length)
                                         => <<f, p>> \in Items(Files)
  <1>0. TypeOK
    BY DEF IInv
  <1>1. ASSUME NEW i \in Items(Files)
        PROVE  /\ i = <<i[1], i[2]>> /\ i[1] \in Files
               /\ i[2] = << >> \/ i[2] \in Need(inode_open(i[1]).length)
    <2>1. PICK f \in Files : i \in {<<f, p>> : p \in {<< >>} \cup Need(inode_open(f).length)}
      BY DEF Items
    <2>2. PICK p \in {<< >>} \cup Need(inode_open(f).length) : i = <<f, p>>
      BY <2>1
    <2> QED
      BY <2>2
  <1>2. ASSUME NEW f \in Files, NEW p, p = << >> \/ p \in Need(inode_open(f).length)
        PROVE  <<f, p>> \in Items(Files)
    <2>1. <<f, p>> \in {<<f, q>> : q \in {<< >>} \cup Need(inode_open(f).length)}
      BY <1>2
    <2> QED
      BY <2>1 DEF Items
  <1>3. \A i \in Items(Files) : i[2] \in Places
    BY <1>0, <1>1, LengthPaths DEF Places
  <1> QED
    BY <1>1, <1>2, <1>3

\* Each of these has its place now, which the removals release.
LEMMA ItemPlace ==
    ASSUME IInv, NEW i \in Items(Files)
    PROVE  Map[i[1]][i[2]] # Nil /\ Map[i[1]][i[2]] \in Released(Files)
  <1> DEFINE f == i[1]
             p == i[2]
  <1>0. TypeOK /\ CopiesAgree
    BY DEF IInv
  <1>1. f \in Files /\ (p = << >> \/ p \in Need(inode_open(f).length))
    BY ItemFacts
  <1> HIDE DEF f, p
  <1>2. Map[f][p] # Nil /\ Map[f][p] \in {directory[f]} \cup inode_deallocate(inode_open(f))
    <2>1. CASE p = << >>
      BY <2>1, <1>0, <1>1, MapAt, OpenType
    <2>2. CASE p \in Need(inode_open(f).length)
      <3>1. p \in AllPaths
        BY <2>2, <1>0, <1>1, LengthPaths
      <3>2. EntryIn(blocks, inode_open(f).ptr, p) # Nil
        BY <2>2, <1>1 DEF IInv, Backed
      <3>3. EntryIn(blocks, inode_open(f).ptr, p) = Map[f][p]
        BY <3>1, <3>2, <1>0, <1>1, DiskEntry
      <3>4. Entry(inode_open(f), p) = Map[f][p]
        BY <3>3, EntryIs
      <3> QED
        BY <2>2, <3>2, <3>3, <3>4 DEF inode_deallocate
    <2> QED
      BY <1>1, <2>1, <2>2
  <1>3. Map[f][p] \in Released(Files)
    BY <1>1, <1>2 DEF Released
  <1> QED
    BY <1>2, <1>3 DEF f, p

LEMMA ReleasedFacts ==
    ASSUME IInv
    PROVE  /\ Released(Files) \subseteq Sectors /\ Released(Files) \cap do_format = {}
           /\ \A s \in Released(Files) : s >= Reserved
  <1> SUFFICES ASSUME NEW s \in Released(Files)
               PROVE  s \in Sectors /\ s \notin do_format /\ s >= Reserved
    OBVIOUS
  <1>1. PICK f \in Files : s \in {directory[f]} \cup inode_deallocate(inode_open(f))
    BY DEF Released
  <1>2. s # Nil /\ \E p \in Places : Map[f][p] = s
    BY <1>1, ReleasedPart
  <1>3. s \in Sectors /\ s >= Reserved
    BY <1>2 DEF IInv, Beyond
  <1> QED
    BY <1>3, FormatFacts, SectorsType, MapAssumption

\* The items are as many as the sectors they are in now: finitely many, and
\* not more than are free once these have been released.
LEMMA ItemsFit ==
    ASSUME IInv
    PROVE  /\ IsFiniteSet(Items(Files)) /\ IsFiniteSet(Files)
           /\ map_open => Cardinality(Items(Files)) <= Cardinality(Free(free_map \ Released(Files)))
  <1> DEFINE I == Items(Files)
             O == Released(Files)
             h == [i \in I |-> Map[i[1]][i[2]]]
  <1>1. h \in [I -> O]
    BY ItemPlace
  <1>2. \A i, j \in I : h[i] = h[j] => i = j
    <2> SUFFICES ASSUME NEW i \in I, NEW j \in I, h[i] = h[j] PROVE i = j
      OBVIOUS
    <2>1. Map[i[1]][i[2]] = Map[j[1]][j[2]] /\ Map[i[1]][i[2]] # Nil
      BY ItemPlace
    <2>2. /\ i = <<i[1], i[2]>> /\ i[1] \in Files /\ i[2] \in Places
          /\ j = <<j[1], j[2]>> /\ j[1] \in Files /\ j[2] \in Places
      BY ItemFacts
    <2>3. Apart(Files, Map)
      BY DEF IInv
    <2>4. i[1] = j[1] /\ i[2] = j[2]
      BY <2>1, <2>2, <2>3, ApartAt
    <2> QED
      BY <2>2, <2>4
  <1>3. IsFiniteSet(Sectors)
    <2>1. 0 \in Int /\ MapSize - 1 \in Int
      BY SectorsType
    <2> QED
      BY <2>1, FS_Interval DEF Sectors
  <1>4. O \subseteq Sectors /\ IsFiniteSet(O)
    <2>1. O \subseteq Sectors
      BY ReleasedFacts
    <2> HIDE DEF O
    <2> QED
      BY <2>1, <1>3, FS_Subset
  <1>5. IsFiniteSet(I) /\ Cardinality(I) <= Cardinality(O)
    <2>1. DOMAIN h = I
      OBVIOUS
    <2> HIDE DEF h, I, O
    <2>2. h \in Injection(I, O)
      BY <2>1, <1>1, <1>2 DEF Injection, IsInjective
    <2> QED
      BY <2>2, <1>4, FS_Injection
  <1>6. map_open => O \subseteq Free(free_map \ O)
    BY <1>4 DEF Free
  <1>7. map_open => Cardinality(I) <= Cardinality(Free(free_map \ O))
    <2> HIDE DEF I, O, h
    <2> SUFFICES ASSUME map_open PROVE Cardinality(I) <= Cardinality(Free(free_map \ O))
      OBVIOUS
    <2>1. IsFiniteSet(Free(free_map \ O)) /\ Cardinality(Free(free_map \ O)) \in Nat
      BY FreeFinite
    <2>2. Cardinality(O) <= Cardinality(Free(free_map \ O))
      BY <2>1, <1>6, FS_Subset
    <2>3. Cardinality(I) \in Nat /\ Cardinality(O) \in Nat
      BY <1>4, <1>5, FS_CardinalityType
    <2> QED
      BY <2>1, <2>2, <2>3, <1>5
  <1>8. IsFiniteSet(Files)
    <2> DEFINE d == [f \in Files |-> directory[f]]
    <2>1. d \in [Files -> Sectors]
      BY OpenType DEF IInv
    <2>2. \A f, g \in Files : d[f] = d[g] => f = g
      <3> SUFFICES ASSUME NEW f \in Files, NEW g \in Files, directory[f] = directory[g] PROVE f = g
        OBVIOUS
      <3>1. Apart(Files, Map) /\ << >> \in Places /\ directory[f] # Nil
        BY OpenType DEF IInv, Places
      <3>2. Map[f][<< >>] = Map[g][<< >>] /\ Map[f][<< >>] # Nil
        BY <3>1, MapAt
      <3> QED
        BY <3>1, <3>2, ApartAt
    <2>3. DOMAIN d = Files
      OBVIOUS
    <2> HIDE DEF d
    <2>4. d \in Injection(Files, Sectors)
      BY <2>1, <2>2, <2>3 DEF Injection, IsInjective
    <2> QED
      BY <2>4, <1>3, FS_Injection
  <1> QED
    BY <1>5, <1>7, <1>8

\* The order in which the creates allocate: by file, then along the paths.
Sooner(order, i, f, p) == order[i[1]] < order[f] \/ (i[1] = f /\ Before(i[2], p))

ItemOrder(order) == {x \in Items(Files) \X Items(Files) : Sooner(order, x[1], x[2][1], x[2][2])}

LEMMA ItemPath ==
    ASSUME IInv, NEW i \in Items(Files)
    PROVE  IsPath(i[2])
  <1>1. i[2] = << >> \/ i[2] \in AllPaths
    BY ItemFacts DEF Places
  <1> QED
    BY <1>1, EmptyPath, PathFacts, ShapePath

LEMMA ItemsOrdered ==
    ASSUME IInv, NEW order \in [Files -> 1 .. Cardinality(Files)],
           \A f, g \in Files : f # g => order[f] # order[g]
    PROVE  /\ TotalOrder(Items(Files), ItemOrder(order))
           /\ \A j \in Items(Files) : Preceding(Items(Files), ItemOrder(order), j)
                                        = {i \in Items(Files) : Sooner(order, i, j[1], j[2])}
  <1> DEFINE I == Items(Files)
             R == ItemOrder(order)
  <1>1. \A f \in Files : order[f] \in Int
    <2>1. Cardinality(Files) \in Nat
      BY ItemsFit, FS_CardinalityType
    <2> QED
      BY <2>1
  <1>2. \A i, j \in I : <<i, j>> \in R <=> Sooner(order, i, j[1], j[2])
    BY DEF ItemOrder
  <1>3. \A i \in I : IsPath(i[2]) /\ i[1] \in Files /\ i = <<i[1], i[2]>>
    BY ItemPath, ItemFacts
  <1> HIDE DEF I, R
  <1>4. \A j \in I : Preceding(I, R, j) = {i \in I : Sooner(order, i, j[1], j[2])}
    BY <1>2, Zenon DEF Preceding
  <1>5. Reflexive(I, R)
    BY <1>2, <1>3, BeforeOrder DEF Reflexive, Sooner
  <1>6. Total(I, R)
    <2> SUFFICES ASSUME NEW i \in I, NEW j \in I
                 PROVE  Sooner(order, i, j[1], j[2]) \/ Sooner(order, j, i[1], i[2])
      BY <1>2 DEF Total
    <2>1. order[i[1]] \in Int /\ order[j[1]] \in Int /\ (i[1] # j[1] => order[i[1]] # order[j[1]])
      BY <1>1, <1>3
    <2>2. Before(i[2], j[2]) \/ Before(j[2], i[2])
      BY <1>3, BeforeOrder
    <2> QED
      BY <2>1, <2>2 DEF Sooner
  <1>7. Antisymmetric(I, R)
    <2> SUFFICES ASSUME NEW i \in I, NEW j \in I,
                        Sooner(order, i, j[1], j[2]), Sooner(order, j, i[1], i[2])
                 PROVE  i = j
      BY <1>2 DEF Antisymmetric
    <2>1. order[i[1]] \in Int /\ order[j[1]] \in Int
      BY <1>1, <1>3
    <2>2. i[1] = j[1] /\ Before(i[2], j[2]) /\ Before(j[2], i[2])
      BY <2>1 DEF Sooner
    <2>3. i[2] = j[2]
      BY <2>2, <1>3, BeforeOrder
    <2> QED
      BY <2>2, <2>3, <1>3
  <1>8. Transitive(I, R)
    <2> SUFFICES ASSUME NEW i \in I, NEW j \in I, NEW k \in I,
                        Sooner(order, i, j[1], j[2]), Sooner(order, j, k[1], k[2])
                 PROVE  Sooner(order, i, k[1], k[2])
      BY <1>2 DEF Transitive
    <2>1. order[i[1]] \in Int /\ order[j[1]] \in Int /\ order[k[1]] \in Int
      BY <1>1, <1>3
    <2>2. CASE i[1] = j[1] /\ j[1] = k[1] /\ Before(i[2], j[2]) /\ Before(j[2], k[2])
      <3>1. Before(i[2], k[2])
        BY <2>2, <1>3, BeforeTransitive
      <3> QED
        BY <3>1, <2>2 DEF Sooner
    <2>3. CASE ~(i[1] = j[1] /\ j[1] = k[1] /\ Before(i[2], j[2]) /\ Before(j[2], k[2]))
      BY <2>1, <2>3 DEF Sooner
    <2> QED
      BY <2>2, <2>3
  <1> QED
    BY <1>4, <1>5, <1>6, <1>7, <1>8 DEF TotalOrder, I, R

\* Each item gets a sector of its own among those that are free after the
\* removals: not one of the free map or the root directory.
LEMMA ItemsAllocated ==
    ASSUME IInv, map_open, NEW order \in [Files -> 1 .. Cardinality(Files)],
           \A f, g \in Files : f # g => order[f] # order[g],
           NEW at,
           at = [i \in Items(Files) |->
                    free_map_allocate(free_map \ Released(Files),
                       Cardinality({j \in Items(Files) : Sooner(order, j, i[1], i[2])}))]
    PROVE  /\ \A i \in Items(Files) : /\ at[i] \in Sectors /\ at[i] >= Reserved /\ at[i] # Nil
                                      /\ at[i] \notin free_map \ Released(Files)
           /\ \A i, j \in Items(Files) : at[i] = at[j] => i = j
  <1> DEFINE I == Items(Files)
             R == ItemOrder(order)
             marked == free_map \ Released(Files)
             Rank(i) == Cardinality(Preceding(I, R, i))
  <1>1. IsFiniteSet(I) /\ TotalOrder(I, R) /\ Cardinality(I) \in Nat
    BY ItemsOrdered, ItemsFit, FS_CardinalityType
  <1>2. \A i \in I : at[i] = free_map_allocate(marked, Rank(i))
    BY ItemsOrdered
  <1>3. Cardinality(I) <= Cardinality(Free(marked)) /\ Cardinality(Free(marked)) \in Nat
    BY ItemsFit, FreeFinite
  <1> HIDE DEF I, R
  <1>4. \A i \in I : Rank(i) <= Cardinality(Free(marked))
    <2> TAKE i \in I
    <2>1. Rank(i) \in 1 .. Cardinality(I)
      BY <1>1, RankType
    <2> QED
      BY <2>1, <1>1, <1>3
  <1> HIDE DEF marked
  <1>5. ASSUME NEW i \in I PROVE at[i] \in Free(marked)
    <2>1. free_map_allocate(marked, Rank(i)) \in Free(marked)
      BY <1>1, <1>4, RankedAllocation
    <2> QED
      BY <2>1, <1>2
  <1>6. ASSUME NEW i \in I, NEW j \in I, i # j PROVE at[i] # at[j]
    <2>1. free_map_allocate(marked, Rank(i)) # free_map_allocate(marked, Rank(j))
      BY <1>1, <1>4, <1>6, DistinctAllocation
    <2> QED
      BY <2>1, <1>2
  <1>7. ASSUME NEW i \in I
        PROVE  at[i] \in Sectors /\ at[i] \notin marked /\ at[i] >= Reserved /\ at[i] # Nil
    <2>1. at[i] \in Sectors /\ at[i] \notin marked
      <3>1. at[i] \in Free(marked)
        BY <1>5
      <3>2. Free(marked) \subseteq Sectors \ marked
        BY DEF Free
      <3> QED
        BY <3>1, <3>2
    <2>2. do_format \subseteq marked
      BY ReleasedFacts DEF IInv, AllMarked, marked
    <2> QED
      BY <2>1, <2>2, FormatFacts, SectorsType, MapAssumption
  <1> QED
    BY <1>6, <1>7 DEF I, marked

\* Paths lead where the creates put the blocks.
LEMMA CreatedEntries ==
    ASSUME NEW n \in Int, n <= MaxLength, NEW B, NEW ptr, NEW To,
           \A k \in Pointers : ptr[k] = To[<<k>>],
           \A p \in AllPaths : To[p] # Nil <=> p \in Need(n),
           \A u \in Need(n) : \A j \in Slots : Append(u, j) \in AllPaths => B[To[u]][j] = To[Append(u, j)]
    PROVE  \A p \in AllPaths : EntryIn(B, ptr, p) = To[p]
  <1> DEFINE E(p) == EntryIn(B, ptr, p)
             Claim(p) == E(p) = To[p]
  <1>0. \A p \in AllPaths : /\ Len(p) \in {1, 2, 3}
                            /\ Len(p) = 2 => Up(p) \in AllPaths /\ Len(Up(p)) = 1
                            /\ Len(p) = 3 => Up(p) \in AllPaths /\ Len(Up(p)) = 2
    BY PathFacts
  <1>1. ASSUME NEW p \in AllPaths, Len(p) = 1 PROVE Claim(p)
    <2>1. p = <<p[1]>> /\ p[1] \in Pointers
      BY <1>1, TopPath
    <2>2. E(p) = ptr[p[1]]
      BY <1>1, EntryTop
    <2> QED
      BY <2>1, <2>2
  <1>2. ASSUME NEW p \in AllPaths, Len(p) > 1, Claim(Up(p)) PROVE Claim(p)
    <2> DEFINE u == Up(p)
               j == p[Len(p)]
    <2>1. u \in AllPaths /\ p = Append(u, j) /\ j \in Slots
      BY <1>2, PathFacts, UpFacts
    <2>2. E(p) = FollowIn(B, To[u], j)
      BY <1>2, PathFacts, EntryUp
    <2>3. p \in Need(n) => u \in Need(n)
      BY <1>2, NeedPaths
    <2> HIDE DEF u, j, E
    <2>4. CASE u \in Need(n)
      BY <2>1, <2>2, <2>4 DEF FollowIn
    <2>5. CASE u \notin Need(n)
      BY <2>1, <2>2, <2>3, <2>5 DEF FollowIn
    <2> QED
      BY <2>4, <2>5
  <1> HIDE DEF Claim
  <1>3. ASSUME NEW p \in AllPaths, Len(p) = 2 PROVE Claim(p)
    BY <1>0, <1>1, <1>2, <1>3
  <1>4. ASSUME NEW p \in AllPaths, Len(p) = 3 PROVE Claim(p)
    <2>1. Up(p) \in AllPaths /\ Len(Up(p)) = 2
      BY <1>0, <1>4
    <2>2. Claim(Up(p))
      BY <2>1, <1>3
    <2> QED
      BY <2>2, <1>2, <1>4
  <1> QED
    BY <1>0, <1>1, <1>3, <1>4 DEF Claim

LEMMA PathLength == \A p \in AllPaths : Len(p) > 0
  <1> SUFFICES ASSUME NEW p \in AllPaths PROVE Len(p) > 0
    OBVIOUS
  <1>1. Len(p) \in {1, 2, 3}
    BY PathFacts
  <1> QED
    BY <1>1

\* Where everything is after defragment has created the files in this order.
Moved(order, at) ==
    /\ \A f, g \in Files : f # g => order[f] # order[g]
    /\ at = [i \in Items(Files) |->
                free_map_allocate(free_map \ Released(Files),
                   Cardinality({j \in Items(Files) : Sooner(order, j, i[1], i[2])}))]
    /\ free_map' = (free_map \ Released(Files)) \cup {at[i] : i \in Items(Files)}
    /\ Files' = Files /\ UNCHANGED <<map_inode, map_open, failed>>
    /\ TypeOK'
    /\ \A f \in Files :
          /\ file_table'[f] = inode_open(f)' /\ filesys_open(f)' = inode_open(f)'
          /\ inode_open(f)'.length = inode_open(f).length
          /\ directory'[f] = at[<<f, << >> >>]
          /\ \A p \in AllPaths :
                EntryIn(blocks', inode_open(f)'.ptr, p)
                   = IF p \in Need(inode_open(f).length) THEN at[<<f, p>>] ELSE Nil
    /\ Opened' \subseteq Files

LEMMA DefragOpen ==
    ASSUME IInv, defragment, map_open
    PROVE  \E order \in [Files -> 1 .. Cardinality(Files)] : \E at : Moved(order, at)
  <1> DEFINE F == Files
             old == Released(F)
             marked == free_map \ old
             items == Items(F)
  <1>1. PICK order \in [F -> 1 .. Cardinality(F)] :
         LET Earlier(i, f, p) == \/ order[i[1]] < order[f]
                                 \/ i[1] = f /\ Before(i[2], p)
             rank(f, p) == Cardinality({i \in items : Earlier(i, f, p)})
             at == [i \in items |-> free_map_allocate(marked, rank(i[1], i[2]))]
             To(f, p) == IF <<f, p>> \in items THEN at[<<f, p>>] ELSE Nil
             node == [f \in F |-> [length |-> inode_open(f).length,
                                   ptr |-> [k \in Pointers |-> To(f, <<k>>)]]]
             Fresh(s) == s \in old \/ \E i \in items : at[i] = s
         IN  /\ \A f, g \in F : f # g => order[f] # order[g]
             /\ map_open
             /\ free_map' = marked \cup {at[i] : i \in items}
             /\ directory' = [f \in Names |-> IF f \in F THEN To(f, << >>) ELSE directory[f]]
             /\ inodes' = [s \in Sectors |->
                   IF \E f \in F : To(f, << >>) = s
                   THEN node[CHOOSE f \in F : To(f, << >>) = s]
                   ELSE IF Fresh(s) THEN EmptyInode ELSE inodes[s]]
             /\ blocks' = [s \in Sectors |->
                   IF \E i \in items : at[i] = s /\ Len(i[2]) > 0
                   THEN LET i == CHOOSE i \in items : at[i] = s
                        IN  [j \in Slots |-> To(i[1], Append(i[2], j))]
                   ELSE IF Fresh(s) THEN Zeros ELSE blocks[s]]
             /\ file_table' = [f \in Names |-> IF f \in F THEN node[f] ELSE Closed]
             /\ UNCHANGED failed
    BY Zenon DEF defragment, RemoveAndCreate
  <1> DEFINE Earlier(i, f, p) == \/ order[i[1]] < order[f]
                                 \/ i[1] = f /\ Before(i[2], p)
             rank(f, p) == Cardinality({i \in items : Earlier(i, f, p)})
             at == [i \in items |-> free_map_allocate(marked, rank(i[1], i[2]))]
             To(f, p) == IF <<f, p>> \in items THEN at[<<f, p>>] ELSE Nil
             node == [f \in F |-> [length |-> inode_open(f).length,
                                   ptr |-> [k \in Pointers |-> To(f, <<k>>)]]]
             Fresh(s) == s \in old \/ \E i \in items : at[i] = s
  <1>2. /\ \A f, g \in F : f # g => order[f] # order[g]
        /\ free_map' = marked \cup {at[i] : i \in items}
        /\ directory' = [f \in Names |-> IF f \in F THEN To(f, << >>) ELSE directory[f]]
        /\ inodes' = [s \in Sectors |->
              IF \E f \in F : To(f, << >>) = s
              THEN node[CHOOSE f \in F : To(f, << >>) = s]
              ELSE IF Fresh(s) THEN EmptyInode ELSE inodes[s]]
        /\ blocks' = [s \in Sectors |->
              IF \E i \in items : at[i] = s /\ Len(i[2]) > 0
              THEN [j \in Slots |-> To((CHOOSE i \in items : at[i] = s)[1],
                                       Append((CHOOSE i \in items : at[i] = s)[2], j))]
              ELSE IF Fresh(s) THEN Zeros ELSE blocks[s]]
        /\ file_table' = [f \in Names |-> IF f \in F THEN node[f] ELSE Closed]
        /\ failed' = failed
    BY <1>1, Zenon
  <1>3. map_inode' = map_inode /\ map_open' = map_open
    BY DEF defragment, RemoveAndCreate
  <1>4. at = [i \in Items(Files) |->
                free_map_allocate(free_map \ Released(Files),
                   Cardinality({j \in Items(Files) : Sooner(order, j, i[1], i[2])}))]
    BY DEF Sooner
  <1> HIDE DEF at
  <1>5. /\ \A i \in items : at[i] \in Sectors /\ at[i] >= Reserved /\ at[i] # Nil
        /\ \A i, j \in items : at[i] = at[j] => i = j
    BY <1>2, <1>4, ItemsAllocated
  <1>6. /\ \A f \in F : \A p : p = << >> \/ p \in Need(inode_open(f).length) => <<f, p>> \in items
        /\ \A f, p : <<f, p>> \in items => f \in F /\ (p = << >> \/ p \in Need(inode_open(f).length))
        /\ \A i \in items : i = <<i[1], i[2]>>
    <2>1. \A i \in items : /\ i = <<i[1], i[2]>> /\ i[1] \in F
                           /\ i[2] = << >> \/ i[2] \in Need(inode_open(i[1]).length)
      BY ItemFacts
    <2>2. \A f \in F : \A p : p = << >> \/ p \in Need(inode_open(f).length) => <<f, p>> \in items
      BY ItemFacts
    <2> HIDE DEF items, F
    <2> QED
      BY <2>1, <2>2
  <1>7. TypeOK /\ \A f \in F : /\ f \in Names /\ inode_open(f) \in Inode /\ inode_open(f).length \in 0 .. MaxLength
                               /\ inode_open(f).length \in Int /\ inode_open(f).length <= MaxLength
    BY OpenType, InodeNotClosed DEF IInv
  <1> HIDE DEF items, marked
  <1>8. \A f, p : To(f, p) \in Sectors
    BY <1>5, SectorsType
  <1>9. /\ \A f \in F : To(f, << >>) = at[<<f, << >> >>] /\ To(f, << >>) # Nil
        /\ \A f \in F : \A p \in AllPaths :
              To(f, p) = IF p \in Need(inode_open(f).length) THEN at[<<f, p>>] ELSE Nil
        /\ \A f \in F : \A p \in AllPaths : To(f, p) # Nil <=> p \in Need(inode_open(f).length)
    BY <1>5, <1>6, EmptyNotPath
  <1>10. \A f \in F : /\ node[f].length = inode_open(f).length
                      /\ \A k \in Pointers : node[f].ptr[k] = To(f, <<k>>)
                      /\ node[f] \in Inode
    <2> TAKE f \in F
    <2> DEFINE q == [k \in Pointers |-> To(f, <<k>>)]
    <2>1. q \in [Pointers -> Sectors]
      BY <1>8
    <2>2. node[f] = [length |-> inode_open(f).length, ptr |-> q]
      OBVIOUS
    <2>3. \A k \in Pointers : q[k] = To(f, <<k>>)
      OBVIOUS
    <2> HIDE DEF node, q, To
    <2> QED
      BY <2>1, <2>2, <2>3, <1>7 DEF Inode
  <1>11. \A f \in F : To(f, << >>) \in Sectors /\ inodes'[To(f, << >>)] = node[f]
    <2> SUFFICES ASSUME NEW f \in F PROVE inodes'[To(f, << >>)] = node[f]
      BY <1>8
    <2>1. \A g \in F : To(g, << >>) = To(f, << >>) => g = f
      <3> SUFFICES ASSUME NEW g \in F, To(g, << >>) = To(f, << >>) PROVE g = f
        OBVIOUS
      <3>1. at[<<g, << >> >>] = at[<<f, << >> >>] /\ <<g, << >> >> \in items /\ <<f, << >> >> \in items
        BY <1>6, <1>9
      <3>2. <<g, << >> >> = <<f, << >> >>
        BY <3>1, <1>5
      <3> QED
        BY <3>2
    <2> HIDE DEF To, node, F, Fresh
    <2>2. (CHOOSE g \in F : To(g, << >>) = To(f, << >>)) = f
      BY <2>1
    <2>3. To(f, << >>) \in Sectors
      BY <1>8
    <2> QED
      BY <2>2, <2>3, <1>2
  <1>12. \A f \in F : \A u \in Need(inode_open(f).length) :
            at[<<f, u>>] \in Sectors /\ \A j \in Slots : blocks'[at[<<f, u>>]][j] = To(f, Append(u, j))
    <2> SUFFICES ASSUME NEW f \in F, NEW u \in Need(inode_open(f).length)
                 PROVE  at[<<f, u>>] \in Sectors /\ \A j \in Slots : blocks'[at[<<f, u>>]][j] = To(f, Append(u, j))
      OBVIOUS
    <2> DEFINE i0 == <<f, u>>
               s == at[i0]
    <2>1. i0 \in items /\ i0[1] = f /\ i0[2] = u
      BY <1>6
    <2>2. s \in Sectors
      BY <2>1, <1>5
    <2>3. Len(u) > 0
      <3>1. u \in AllPaths
        BY <1>7, NeedPaths
      <3> QED
        BY <3>1, PathLength
    <2> HIDE DEF i0, To, Fresh
    <2>4. (CHOOSE i \in items : at[i] = s) = i0
      BY <2>1, <1>5
    <2>5. \E i \in items : at[i] = s /\ Len(i[2]) > 0
      BY <2>1, <2>3
    <2> HIDE DEF s
    <2>6. blocks'[s] = [j \in Slots |-> To(i0[1], Append(i0[2], j))]
      BY <2>2, <2>4, <2>5, <1>2
    <2>7. s \in Sectors /\ \A j \in Slots : blocks'[s][j] = To(f, Append(u, j))
      BY <2>1, <2>2, <2>6
    <2> QED
      BY <2>7 DEF s, i0
  <1>13. \A f \in F : directory'[f] = To(f, << >>) /\ file_table'[f] = node[f]
    <2> HIDE DEF To, node
    <2> QED
      BY <1>2, <1>7
  <1>14. Files' = Files
    <2>1. \A f \in Names : f \in F => directory'[f] # Nil
      BY <1>9, <1>13
    <2>2. \A f \in Names : f \notin F => directory'[f] = directory[f] /\ directory[f] = Nil
      BY <1>2 DEF Files
    <2>3. \A f \in Names : directory'[f] # Nil <=> f \in Files
      BY <2>1, <2>2
    <2>4. Files' \subseteq Names /\ Files \subseteq Names
      BY DEF Files
    <2>5. \A f : f \in Files' <=> f \in Names /\ directory'[f] # Nil
      BY DEF Files
    <2>6. \A f : f \in Files' <=> f \in Files
      BY <2>3, <2>4, <2>5
    <2> QED
      BY <2>6, Zenon
  <1>15. TypeOK'
    <2>1. Zeros \in [Slots -> Sectors] /\ EmptyInode \in Inode
      BY EmptyInodeType, SectorsType DEF Zeros
    <2>2. free_map' \subseteq Sectors
      BY <1>2, <1>5, <1>7 DEF TypeOK, marked
    <2>3. directory' \in [Names -> Sectors]
      <3> HIDE DEF To
      <3> QED
        BY <1>2, <1>7, <1>8 DEF TypeOK
    <2>4. inodes' \in [Sectors -> Inode]
      <3>1. \A s \in Sectors : (\E f \in F : To(f, << >>) = s)
                                 => node[CHOOSE f \in F : To(f, << >>) = s] \in Inode
        <4> HIDE DEF To, node, F
        <4> QED
          BY <1>10
      <3> HIDE DEF To, node, F, Fresh
      <3> QED
        BY <3>1, <2>1, <1>2, <1>7 DEF TypeOK
    <2>5. blocks' \in [Sectors -> [Slots -> Sectors]]
      <3> HIDE DEF To, Fresh
      <3>1. \A s : [j \in Slots |-> To((CHOOSE i \in items : at[i] = s)[1],
                                       Append((CHOOSE i \in items : at[i] = s)[2], j))] \in [Slots -> Sectors]
        BY <1>8
      <3> DEFINE Blk(s) == [j \in Slots |-> To((CHOOSE i \in items : at[i] = s)[1],
                                       Append((CHOOSE i \in items : at[i] = s)[2], j))]
                 Has(s) == \E i \in items : at[i] = s /\ Len(i[2]) > 0
      <3>2. blocks' = [s \in Sectors |-> IF Has(s) THEN Blk(s) ELSE IF Fresh(s) THEN Zeros ELSE blocks[s]]
        BY <1>2
      <3>3. \A s : Blk(s) \in [Slots -> Sectors]
        BY <3>1
      <3> HIDE DEF Blk, Has
      <3> QED
        BY <3>2, <3>3, <2>1, <1>7 DEF TypeOK
    <2>6. file_table' \in [Names -> Inode \cup {Closed}]
      <3> HIDE DEF node
      <3> QED
        BY <1>2, <1>10
    <2> QED
      BY <2>2, <2>3, <2>4, <2>5, <2>6, <1>2, <1>3, <1>7 DEF TypeOK
  <1>16. Opened' \subseteq Files
    <2> HIDE DEF node
    <2> QED
      BY <1>2 DEF Opened
  <1>17. ASSUME NEW f \in F
         PROVE  /\ inode_open(f)' = node[f] /\ filesys_open(f)' = node[f]
                /\ \A p \in AllPaths : EntryIn(blocks', node[f].ptr, p) = To(f, p)
    <2>1. inode_open(f)' = node[f]
      BY <1>11, <1>13 DEF inode_open
    <2>2. filesys_open(f)' = node[f]
      BY <2>1, <1>13 DEF filesys_open
    <2> DEFINE n == inode_open(f).length
               ptr == node[f].ptr
               B == blocks'
               ToF == [p \in AllPaths \cup {<<k>> : k \in Pointers} |-> To(f, p)]
    <2>3. n \in Int /\ n <= MaxLength
      BY <1>7
    <2>4. \A k \in Pointers : ptr[k] = ToF[<<k>>]
      BY <1>10
    <2>5. \A p \in AllPaths : ToF[p] = To(f, p)
      OBVIOUS
    <2>6. \A p \in AllPaths : ToF[p] # Nil <=> p \in Need(n)
      BY <2>5, <1>9
    <2>7. \A u \in Need(n) : \A j \in Slots : Append(u, j) \in AllPaths => B[ToF[u]][j] = ToF[Append(u, j)]
      <3> SUFFICES ASSUME NEW u \in Need(n), NEW j \in Slots, Append(u, j) \in AllPaths
                   PROVE  B[ToF[u]][j] = ToF[Append(u, j)]
        OBVIOUS
      <3>1. u \in AllPaths
        BY <2>3, NeedPaths
      <3>2. ToF[u] = at[<<f, u>>] /\ ToF[Append(u, j)] = To(f, Append(u, j))
        BY <3>1, <2>5, <1>9
      <3> HIDE DEF ToF, To
      <3> QED
        BY <3>2, <1>12
    <2> HIDE DEF n, ptr, B, ToF
    <2>8. \A p \in AllPaths : EntryIn(B, ptr, p) = ToF[p]
      BY <2>3, <2>4, <2>6, <2>7, CreatedEntries
    <2> HIDE DEF node, To
    <2> QED
      BY <2>1, <2>2, <2>5, <2>8 DEF ptr, B
  <1>18. \A f \in Files :
            /\ file_table'[f] = inode_open(f)' /\ filesys_open(f)' = inode_open(f)'
            /\ inode_open(f)'.length = inode_open(f).length
            /\ directory'[f] = at[<<f, << >> >>]
            /\ \A p \in AllPaths :
                  EntryIn(blocks', inode_open(f)'.ptr, p)
                     = IF p \in Need(inode_open(f).length) THEN at[<<f, p>>] ELSE Nil
    <2> TAKE f \in Files
    <2>1. inode_open(f)' = node[f] /\ filesys_open(f)' = node[f] /\ file_table'[f] = node[f]
      BY <1>13, <1>17
    <2>2. node[f].length = inode_open(f).length
      BY <1>10
    <2>3. directory'[f] = at[<<f, << >> >>]
      BY <1>9, <1>13
    <2>4. \A p \in AllPaths : EntryIn(blocks', node[f].ptr, p)
                     = IF p \in Need(inode_open(f).length) THEN at[<<f, p>>] ELSE Nil
      <3>1. \A p \in AllPaths : EntryIn(blocks', node[f].ptr, p) = To(f, p)
        BY <1>17
      <3>2. \A p \in AllPaths : To(f, p) = IF p \in Need(inode_open(f).length) THEN at[<<f, p>>] ELSE Nil
        BY <1>9
      <3> HIDE DEF node, To
      <3> QED
        BY <3>1, <3>2
    <2> HIDE DEF node
    <2> QED
      BY <2>1, <2>2, <2>3, <2>4
  <1>19. free_map' = (free_map \ Released(Files)) \cup {at[i] : i \in Items(Files)}
    BY <1>2 DEF marked, items
  <1> HIDE DEF F
  <1>20. \A f, g \in Files : f # g => order[f] # order[g]
    BY <1>2 DEF F
  <1>21. order \in [Files -> 1 .. Cardinality(Files)]
    BY DEF F
  <1>22. UNCHANGED <<map_inode, map_open, failed>>
    BY <1>2, <1>3
  <1>23. Moved(order, at)
    BY <1>4, <1>14, <1>15, <1>16, <1>18, <1>19, <1>20, <1>22, Zenon DEF Moved
  <1> QED
    BY <1>21, <1>23, Zenon
LEMMA DefragOpenStep ==
    ASSUME IInv, defragment, map_open
    PROVE  IInv'
  <1>0. TypeOK /\ CopiesAgree
    BY DEF IInv
  <1>1. PICK order \in [Files -> 1 .. Cardinality(Files)] : \E at : Moved(order, at)
    BY DefragOpen, Zenon
  <1>2. PICK at : Moved(order, at)
    BY <1>1, Zenon
  <1> DEFINE I == Items(Files)
             kept == free_map \ Released(Files)
             fresh == {at[i] : i \in I}
  <1>3. /\ free_map' = kept \cup fresh
        /\ Files' = Files /\ map_inode' = map_inode /\ map_open' = map_open /\ failed' = failed
        /\ TypeOK' /\ Opened' \subseteq Files
    BY <1>2, Zenon DEF Moved
  <1>4. \A f \in Files :
          /\ file_table'[f] = inode_open(f)' /\ filesys_open(f)' = inode_open(f)'
          /\ inode_open(f)'.length = inode_open(f).length
          /\ directory'[f] = at[<<f, << >> >>]
          /\ \A p \in AllPaths :
                EntryIn(blocks', inode_open(f)'.ptr, p)
                   = IF p \in Need(inode_open(f).length) THEN at[<<f, p>>] ELSE Nil
    BY <1>2, Zenon DEF Moved
  <1>5. /\ \A i \in I : at[i] \in Sectors /\ at[i] >= Reserved /\ at[i] # Nil /\ at[i] \notin kept
        /\ \A i, j \in I : at[i] = at[j] => i = j
    <2>1. /\ \A f, g \in Files : f # g => order[f] # order[g]
          /\ at = [i \in Items(Files) |->
                      free_map_allocate(free_map \ Released(Files),
                         Cardinality({j \in Items(Files) : Sooner(order, j, i[1], i[2])}))]
      BY <1>2, Zenon DEF Moved
    <2> QED
      BY <2>1, ItemsAllocated
  <1>6. \A f \in Files : \A p : p = << >> \/ p \in Need(inode_open(f).length) => <<f, p>> \in I
    BY ItemFacts
  <1>7. \A i \in I : /\ i = <<i[1], i[2]>> /\ i[1] \in Files /\ i[2] \in Places
                     /\ i[2] = << >> \/ i[2] \in Need(inode_open(i[1]).length)
    BY ItemFacts
  <1> HIDE DEF I
  <1>8. ASSUME NEW f \in Files, NEW p \in Places
        PROVE  \/ Map'[f][p] = at[<<f, p>>] /\ <<f, p>> \in I
               \/ /\ Map'[f][p] = Nil /\ p \in AllPaths
                  /\ p \notin Need(inode_open(f).length)
    <2>1. CASE p = << >>
      <3>1. Map'[f][<< >>] = directory'[f]
        BY <1>3, MapAtNext
      <3> QED
        BY <2>1, <3>1, <1>4, <1>6
    <2>2. CASE p \in AllPaths
      <3>1. Map'[f][p] = EntryIn(blocks', filesys_open(f)'.ptr, p)
        BY <2>2, <1>3, MapAtNext
      <3>2. EntryIn(blocks', inode_open(f)'.ptr, p)
                   = IF p \in Need(inode_open(f).length) THEN at[<<f, p>>] ELSE Nil
        BY <2>2, <1>4
      <3>3. filesys_open(f)' = inode_open(f)'
        BY <1>4
      <3>4. Map'[f][p] = IF p \in Need(inode_open(f).length) THEN at[<<f, p>>] ELSE Nil
        BY <3>1, <3>2, <3>3
      <3> QED
        BY <2>2, <3>4, <1>6
    <2> QED
      BY <2>1, <2>2 DEF Places
  <1>9. \A i \in I : Map'[i[1]][i[2]] = at[i] /\ at[i] \in fresh
    <2> SUFFICES ASSUME NEW i \in I PROVE Map'[i[1]][i[2]] = at[i]
      OBVIOUS
    <2>1. i = <<i[1], i[2]>> /\ i[1] \in Files /\ i[2] \in Places
      BY <1>7
    <2>2. i[2] \in AllPaths => i[2] \in Need(inode_open(i[1]).length)
      BY <1>7, EmptyNotPath
    <2> QED
      BY <2>1, <2>2, <1>8
  <1>10. Apart(Files', Map') /\ Beyond(Files', Map')
    <2>1. Apart({}, Map) /\ Beyond({}, Map)
      BY DEF Apart, Beyond
    <2>2. Unused({}, Map, fresh)
      BY <1>5 DEF Unused
    <2>3. MapStep({}, Map, Files', Map', fresh)
      <3>1. \A f \in Files' : \A p \in Places : Map'[f][p] = Nil \/ Map'[f][p] \in fresh
        BY <1>3, <1>8
      <3>2. ASSUME NEW f \in Files', NEW g \in Files', NEW p \in Places, NEW q \in Places,
                   Map'[f][p] = Map'[g][q], Map'[f][p] \in fresh
            PROVE  f = g /\ p = q
        <4>1. Map'[f][p] # Nil
          BY <3>2, <1>5
        <4>2. /\ Map'[f][p] = at[<<f, p>>] /\ <<f, p>> \in I
              /\ Map'[g][q] = at[<<g, q>>] /\ <<g, q>> \in I
          BY <4>1, <3>2, <1>3, <1>8
        <4>3. <<f, p>> = <<g, q>>
          BY <4>2, <3>2, <1>5
        <4> QED
          BY <4>3
      <3> HIDE DEF fresh
      <3> QED
        BY <3>1, <3>2 DEF MapStep
    <2> HIDE DEF fresh
    <2> QED
      BY <2>1, <2>2, <2>3, StepKeeps
  <1>11. map_open' => AllMarked(Files', Map', free_map')
    <2>1. do_format \subseteq kept
      BY ReleasedFacts DEF IInv, AllMarked
    <2>2. Nil \in kept
      BY <2>1, FormatFacts
    <2>3. \A f \in Files : \A p \in Places : Map'[f][p] \in kept \cup fresh
      BY <2>2, <1>8
    <2> QED
      BY <2>1, <2>3, <1>3 DEF AllMarked
  <1>12. CopiesAgree'
    <2> SUFFICES ASSUME NEW g \in Opened'
                 PROVE  /\ g \in Files'
                        /\ file_table'[g].length = inode_open(g)'.length
                        /\ \A k \in Pointers : inode_open(g)'.ptr[k] \in {Nil, file_table'[g].ptr[k]}
      BY DEF CopiesAgree, inode_open
    <2>1. g \in Files /\ file_table'[g] = inode_open(g)'
      BY <1>3, <1>4
    <2> QED
      BY <2>1, <1>3
  <1>13. Backed'
    <2> SUFFICES ASSUME NEW g \in Files', NEW p \in Need(inode_open(g)'.length)
                 PROVE  EntryIn(blocks', inode_open(g)'.ptr, p) # Nil
      BY DEF Backed
    <2>1. g \in Files /\ p \in Need(inode_open(g).length)
      BY <1>3, <1>4
    <2>2. p \in AllPaths /\ <<g, p>> \in I
      BY <2>1, <1>0, <1>6, LengthPaths
    <2>3. EntryIn(blocks', inode_open(g)'.ptr, p) = at[<<g, p>>]
      BY <2>1, <2>2, <1>4
    <2> QED
      BY <2>2, <2>3, <1>5
  <1>14. ASSUME ~failed'
         PROVE  map_inode' /\ OnlyMarked(Files', Map', free_map') /\ Trimmed'
    <2>1. ~failed /\ map_inode /\ OnlyMarked(Files, Map, free_map)
      BY <1>3, <1>14 DEF IInv
    <2>2. OnlyMarked(Files', Map', free_map')
      <3> SUFFICES ASSUME NEW s \in free_map', s \notin do_format
                   PROVE  \E g \in Files' : \E p \in Places : Map'[g][p] = s
        BY DEF OnlyMarked
      <3>1. s \notin kept
        <4> SUFFICES ASSUME s \in kept PROVE FALSE
          OBVIOUS
        <4>1. s \in free_map /\ s \notin Released(Files) /\ s # Nil
          BY FormatFacts
        <4>2. PICK g \in Files : \E p \in Places : Map[g][p] = s
          BY <4>1, <2>1 DEF OnlyMarked
        <4>3. s \in {directory[g]} \cup inode_deallocate(inode_open(g))
          BY <4>1, <4>2, <2>1, ReleasedAll
        <4> QED
          BY <4>1, <4>3 DEF Released
      <3>2. PICK i \in I : at[i] = s
        BY <3>1, <1>3
      <3> QED
        BY <3>2, <1>3, <1>7, <1>9
    <2>3. Trimmed'
      <3> SUFFICES ASSUME NEW g \in Files', NEW p \in AllPaths, Map'[g][p] # Nil
                   PROVE  p \in Need(inode_open(g)'.length)
        BY DEF Trimmed
      <3>1. g \in Files /\ <<g, p>> \in I
        BY <1>3, <1>8 DEF Places
      <3>2. p \in Need(inode_open(g).length)
        BY <3>1, <1>7, EmptyNotPath
      <3> QED
        BY <3>1, <3>2, <1>4
    <2> QED
      BY <2>1, <2>2, <2>3, <1>3
  <1>15. map_inode' => map_open'
    BY <1>3 DEF IInv
  <1> QED
    BY <1>3, <1>10, <1>11, <1>12, <1>13, <1>14, <1>15 DEF IInv

\* When the free map was lost, nothing is left.
LEMMA DefragStep ==
    ASSUME IInv, defragment
    PROVE  IInv'
  <1>1. CASE map_open
    BY <1>1, DefragOpenStep
  <1>2. CASE ~map_open
    <2> DEFINE old == Released(Files)
    <2>1. /\ Opened = {} /\ map_inode' = map_inode /\ map_open' = map_open
          /\ free_map' = free_map \ old
          /\ directory' = [f \in Names |-> IF f \in Files THEN Nil ELSE directory[f]]
          /\ inodes' = [s \in Sectors |-> IF s \in old THEN EmptyInode ELSE inodes[s]]
          /\ blocks' = [s \in Sectors |-> IF s \in old THEN Zeros ELSE blocks[s]]
          /\ failed' = TRUE
          /\ file_table' = file_table
      BY <1>2 DEF defragment, RemoveAndCreate
    <2> HIDE DEF old
    <2>2. Files' = {} /\ Opened' = {}
      BY <2>1 DEF Files, Opened
    <2>3. TypeOK'
      <3>1. Zeros \in [Slots -> Sectors] /\ EmptyInode \in Inode /\ Nil \in Sectors
        BY EmptyInodeType, SectorsType DEF Zeros
      <3> QED
        BY <2>1, <3>1 DEF IInv, TypeOK
    <2>4. ~map_open' /\ ~map_inode' /\ failed'
      BY <2>1, <1>2 DEF IInv
    <2> QED
      BY <2>2, <2>3, <2>4 DEF IInv, CopiesAgree, Apart, Beyond, Backed
  <1> QED
    BY <1>1, <1>2

-----------------------------------------------------------------------------
LEMMA NextInv == IInv /\ [Next]_vars => IInv'
  <1> SUFFICES ASSUME IInv, [Next]_vars PROVE IInv'
    OBVIOUS
  <1>1. ASSUME NEW f \in Names, NEW n \in -1 .. MaxLength, filesys_create(f, n) PROVE IInv'
    BY <1>1, CreateStep
  <1>2. CASE CreateNoSpace
    BY <1>2, NoSpaceStep
  <1>3. ASSUME NEW f \in Names, fsutil_read(f) PROVE IInv'
    BY <1>3, ReadStep
  <1>4. ASSUME NEW f \in Names, NEW n \in 1 .. MaxLength, fsutil_write(f, n) PROVE IInv'
    BY <1>4, WriteStep
  <1>5. ASSUME NEW f \in Names, fsutil_close(f) PROVE IInv'
    BY <1>5, CloseStep
  <1>6. ASSUME NEW f \in Names, fsutil_rm(f) PROVE IInv'
    BY <1>6, RemoveStep
  <1>7. CASE defragment
    BY <1>7, DefragStep
  <1>8. CASE Restart
    BY <1>8, RestartStep
  <1>9. CASE UNCHANGED vars
    BY <1>9 DEF vars, IInv, TypeOK, CopiesAgree, Files, Opened, Map, Backed, Trimmed,
                filesys_open, inode_open
  <1> QED
    BY <1>1, <1>2, <1>3, <1>4, <1>5, <1>6, <1>7, <1>8, <1>9 DEF Next

\* The invariant holds in every state the commands of the shell lead to.
THEOREM Inductive == Spec => []IInv
  BY InitInv, NextInv, PTL DEF Spec

-----------------------------------------------------------------------------
\* What the invariant says of the sectors a file holds on to.

LEMMA HeldPlace ==
    ASSUME IInv, NEW f \in Files, NEW s \in Holds(f)
    PROVE  s # Nil /\ \E p \in AllPaths : Map[f][p] = s
  <1>0. TypeOK /\ CopiesAgree
    BY DEF IInv
  <1>1. CASE s \in Reaches(inode_open(f))
    <2>1. PICK p \in AllPaths : s = EntryIn(blocks, inode_open(f).ptr, p)
      BY <1>1, EntryIs DEF Reaches
    <2>2. s # Nil
      BY <1>1 DEF Reaches
    <2>3. s \in {Nil, Map[f][p]}
      BY <2>1, <1>0, DiskEntry
    <2> QED
      BY <2>2, <2>3
  <1>2. CASE f \in Opened /\ s \in Reaches(file_table[f])
    <2>1. file_table[f] = filesys_open(f)
      BY <1>2 DEF filesys_open
    <2>2. PICK p \in AllPaths : s = EntryIn(blocks, filesys_open(f).ptr, p)
      BY <1>2, <2>1, EntryIs DEF Reaches
    <2>3. s # Nil
      BY <1>2 DEF Reaches
    <2> QED
      BY <2>2, <2>3, MapAt
  <1> QED
    BY <1>1, <1>2 DEF Holds, inode_open

LEMMA PlaceHeld ==
    ASSUME IInv, NEW f \in Files, NEW p \in AllPaths, Map[f][p] # Nil
    PROVE  Map[f][p] \in Holds(f)
  <1>1. Map[f][p] = Entry(filesys_open(f), p)
    BY MapAt, EntryIs
  <1>2. Map[f][p] \in Reaches(filesys_open(f))
    BY <1>1 DEF Reaches
  <1> QED
    BY <1>2 DEF Holds, filesys_open, inode_open

\* Two paths of either copy of an inode lead to different sectors.
LEMMA CopiesInjective ==
    ASSUME IInv, NEW f \in Files
    PROVE  Injective(inode_open(f)) /\ (f \in Opened => Injective(file_table[f]))
  <1>0. TypeOK /\ CopiesAgree /\ Apart(Files, Map)
    BY DEF IInv
  <1>1. ASSUME NEW node, \A p \in AllPaths : Entry(node, p) \in {Nil, Map[f][p]}
        PROVE  Injective(node)
    <2> SUFFICES ASSUME NEW p \in AllPaths, NEW q \in AllPaths, Entry(node, p) # Nil,
                        Entry(node, p) = Entry(node, q)
                 PROVE  p = q
      BY DEF Injective
    <2>1. Map[f][p] = Map[f][q] /\ Map[f][p] # Nil
      BY <1>1
    <2>2. p \in Places /\ q \in Places
      BY DEF Places
    <2> QED
      BY <2>1, <2>2, <1>0, ApartAt
  <1>2. \A p \in AllPaths : Entry(inode_open(f), p) \in {Nil, Map[f][p]}
    BY <1>0, DiskEntry, EntryIs
  <1>3. f \in Opened => \A p \in AllPaths : Entry(file_table[f], p) = Map[f][p]
    BY MapAt, EntryIs DEF filesys_open
  <1> QED
    BY <1>1, <1>2, <1>3

LEMMA InvNoSharing == IInv => NoSharing
  <1> SUFFICES ASSUME IInv PROVE NoSharing
    OBVIOUS
  <1>0. Apart(Files, Map) /\ Beyond(Files, Map) /\ TypeOK
    BY DEF IInv
  <1>1. ASSUME NEW f \in Files, NEW g \in Files, NEW s \in Holds(f), s \in Holds(g) PROVE f = g
    <2>1. PICK p \in AllPaths : Map[f][p] = s
      BY HeldPlace
    <2>2. PICK q \in AllPaths : Map[g][q] = s
      BY <1>1, HeldPlace
    <2>3. p \in Places /\ q \in Places /\ s # Nil
      BY HeldPlace DEF Places
    <2> QED
      BY <2>1, <2>2, <2>3, <1>0, ApartAt
  <1>2. ASSUME NEW f \in Files, NEW g \in Files PROVE directory[g] \notin Holds(f)
    <2> SUFFICES ASSUME directory[g] \in Holds(f) PROVE FALSE
      OBVIOUS
    <2>1. PICK p \in AllPaths : Map[f][p] = directory[g]
      BY HeldPlace
    <2> DEFINE e == << >>
    <2>2. p \in Places /\ e \in Places /\ p # e /\ Map[g][e] = directory[g] /\ directory[g] # Nil
      BY <1>0, EmptyNotPath, MapAt, OpenType DEF Places
    <2> HIDE DEF e
    <2>3. p = e
      BY <2>1, <2>2, <1>0, ApartAt
    <2> QED
      BY <2>2, <2>3
  <1>3. ASSUME NEW f \in Files, NEW g \in Files, directory[f] = directory[g] PROVE f = g
    <2> DEFINE e == << >>
    <2>1. e \in Places /\ Map[f][e] = directory[f] /\ Map[g][e] = directory[g] /\ directory[f] # Nil
      BY <1>0, MapAt, OpenType DEF Places
    <2> HIDE DEF e
    <2> QED
      BY <2>1, <1>0, <1>3, ApartAt
  <1>4. ASSUME NEW f \in Files
        PROVE  directory[f] >= Reserved /\ \A s \in Holds(f) : s \notin 0 .. Reserved - 1
    <2>1. << >> \in Places /\ Map[f][<< >>] = directory[f] /\ directory[f] # Nil
      BY <1>0, MapAt, OpenType DEF Places
    <2>2. directory[f] >= Reserved
      BY <2>1, <1>0 DEF Beyond
    <2>3. ASSUME NEW s \in Holds(f) PROVE s \notin 0 .. Reserved - 1
      <3>1. PICK p \in AllPaths : Map[f][p] = s
        BY HeldPlace
      <3>2. s \in Sectors /\ s >= Reserved
        BY <3>1, <1>0, HeldPlace DEF Beyond, Places
      <3> QED
        BY <3>2, SectorsType, MapAssumption
    <2> QED
      BY <2>2, <2>3
  <1> QED
    BY <1>1, <1>2, <1>3, <1>4, CopiesInjective, Zenon DEF NoSharing, inode_open

LEMMA InvMarked == IInv => InUseMarked
  <1> SUFFICES ASSUME IInv, map_open, NEW s \in Owned PROVE s \in free_map
    BY DEF InUseMarked
  <1>0. AllMarked(Files, Map, free_map)
    BY DEF IInv
  <1>1. CASE s \in 0 .. Reserved - 1
    BY <1>0, <1>1 DEF AllMarked, do_format
  <1>2. CASE \E f \in Files : s = directory[f]
    BY <1>0, <1>2, MapAt DEF AllMarked, Places
  <1>3. CASE \E f \in Files : s \in Holds(f)
    <2>1. PICK f \in Files : s \in Holds(f)
      BY <1>3
    <2>2. PICK p \in AllPaths : Map[f][p] = s
      BY <2>1, HeldPlace
    <2> QED
      BY <2>2, <1>0 DEF AllMarked, Places
  <1> QED
    BY <1>1, <1>2, <1>3 DEF Owned

LEMMA InvLeaks == IInv => NothingLeaks
  <1> SUFFICES ASSUME IInv, ~failed PROVE free_map = Owned
    BY DEF NothingLeaks
  <1>1. map_open /\ OnlyMarked(Files, Map, free_map)
    BY DEF IInv
  <1>2. Owned \subseteq free_map
    BY <1>1, InvMarked DEF InUseMarked
  <1>3. ASSUME NEW s \in free_map PROVE s \in Owned
    <2>1. CASE s \in do_format
      BY <2>1 DEF do_format, Owned
    <2>2. CASE s \notin do_format
      <3>1. PICK f \in Files : \E p \in Places : Map[f][p] = s
        BY <2>2, <1>1 DEF OnlyMarked
      <3>2. PICK p \in Places : Map[f][p] = s
        BY <3>1
      <3>3. s # Nil
        BY <2>2, FormatFacts
      <3>4. CASE p = << >>
        BY <3>2, <3>4, MapAt DEF Owned
      <3>5. CASE p \in AllPaths
        <4>1. s \in Holds(f)
          BY <3>2, <3>3, <3>5, PlaceHeld
        <4> QED
          BY <4>1 DEF Owned
      <3> QED
        BY <3>4, <3>5 DEF Places
    <2> QED
      BY <2>1, <2>2
  <1> QED
    BY <1>2, <1>3

LEMMA InvBacked == IInv => LengthBacked
  <1> SUFFICES ASSUME IInv, NEW f \in Files
               PROVE  /\ Nil \notin inode_deallocate(inode_open(f))
                      /\ f \in Opened => Nil \notin inode_deallocate(file_table[f])
    BY DEF LengthBacked, inode_open
  <1>0. TypeOK /\ CopiesAgree
    BY DEF IInv
  <1>1. ASSUME NEW p \in Need(inode_open(f).length)
        PROVE  Entry(inode_open(f), p) # Nil /\ Entry(filesys_open(f), p) # Nil
    <2>1. p \in AllPaths
      BY <1>0, LengthPaths
    <2>2. EntryIn(blocks, inode_open(f).ptr, p) # Nil
      BY DEF IInv, Backed
    <2>3. Map[f][p] # Nil
      BY <2>1, <2>2, <1>0, DiskEntry
    <2> QED
      BY <2>1, <2>2, <2>3, MapAt, EntryIs
  <1>2. f \in Opened => file_table[f] = filesys_open(f)
    BY DEF filesys_open
  <1>3. inode_open(f).length = filesys_open(f).length
    BY <1>0, DiskPart
  <1> QED
    BY <1>1, <1>2, <1>3 DEF inode_deallocate

-----------------------------------------------------------------------------
\* The result of defragment.

LEMMA DivOrder ==
    ASSUME NEW b \in Nat \ {0}, NEW x \in Nat, NEW y \in Nat, x < y
    PROVE  \/ x \div b < y \div b
           \/ x \div b = y \div b /\ x % b < y % b
  <1> DEFINE d == x \div b
             e == y \div b
             r == x % b
             t == y % b
  <1>1. /\ d \in Nat /\ r \in 0 .. b - 1 /\ x = b * d + r
        /\ e \in Nat /\ t \in 0 .. b - 1 /\ y = b * e + t
    OBVIOUS
  <1> HIDE DEF d, e, r, t
  <1>2. d <= e
    <2> SUFFICES ASSUME d >= e + 1 PROVE FALSE
      BY <1>1
    <2>1. b * d >= b * (e + 1)
      BY <1>1
    <2>2. b * (e + 1) = b * e + b /\ b * d \in Nat /\ b * e \in Nat
      BY <1>1
    <2> QED
      BY <2>1, <2>2, <1>1
  <1>3. CASE d = e
    <2>1. b * d = b * e /\ b * d \in Nat
      BY <1>1, <1>3
    <2>2. r < t
      BY <2>1, <1>1
    <2> QED
      BY <2>2, <1>3 DEF d, e, r, t
  <1>4. CASE d # e
    BY <1>1, <1>2, <1>4 DEF d, e
  <1> QED
    BY <1>3, <1>4

\* The keys of the path to a data sector.
LEMMA SectorKeys ==
    ASSUME NEW k \in 1 .. Most
    PROVE  /\ IsPath(index_to_sector(k))
           /\ k <= Direct => /\ Key(index_to_sector(k), 1) = k
                             /\ Key(index_to_sector(k), 2) = 0
                             /\ Key(index_to_sector(k), 3) = 0
           /\ k > Direct /\ k <= Direct + PerSector =>
                 /\ Key(index_to_sector(k), 1) = Direct + 1
                 /\ Key(index_to_sector(k), 2) = k - Direct
                 /\ Key(index_to_sector(k), 3) = 0
           /\ k > Direct + PerSector =>
                 /\ Key(index_to_sector(k), 1) = Direct + 2
                 /\ Key(index_to_sector(k), 2) = ((k - Direct - PerSector - 1) \div PerSector) + 1
                 /\ Key(index_to_sector(k), 3) = ((k - Direct - PerSector - 1) % PerSector) + 1
  <1>0. Direct \in Nat /\ PerSector \in Nat \ {0} /\ k \in Nat
    BY BlockAssumption, MostType
  <1>1. IsPath(index_to_sector(k))
    BY SectorPath, ShapePath
  <1>2. CASE k <= Direct
    <2>1. index_to_sector(k) = <<k>>
      BY <1>0, <1>2 DEF index_to_sector
    <2> QED
      BY <2>1, <1>0, <1>1, <1>2 DEF Key
  <1>3. CASE k \in Direct + 1 .. Direct + PerSector
    <2> DEFINE j == k - Direct
    <2>1. index_to_sector(k) = <<Direct + 1, j>>
      BY <1>0, <1>3 DEF index_to_sector
    <2> HIDE DEF j
    <2>2. /\ Key(index_to_sector(k), 1) = Direct + 1
          /\ Key(index_to_sector(k), 2) = j
          /\ Key(index_to_sector(k), 3) = 0
      BY <2>1 DEF Key
    <2> QED
      BY <2>2, <1>0, <1>1, <1>3 DEF j
  <1>4. CASE k > Direct + PerSector
    <2> DEFINE m == k - Direct - PerSector - 1
               i == (m \div PerSector) + 1
               j == (m % PerSector) + 1
    <2>1. index_to_sector(k) = <<Direct + 2, i, j>>
      BY <1>0, <1>4 DEF index_to_sector
    <2> HIDE DEF i, j
    <2>2. /\ Key(index_to_sector(k), 1) = Direct + 2
          /\ Key(index_to_sector(k), 2) = i
          /\ Key(index_to_sector(k), 3) = j
      BY <2>1 DEF Key
    <2>3. ~(k <= Direct) /\ ~(k <= Direct + PerSector)
      BY <1>0, <1>4
    <2> QED
      BY <2>2, <2>3, <1>1 DEF i, j
  <1> QED
    BY <1>0, <1>2, <1>3, <1>4

\* Later data sectors have later paths.
LEMMA SectorOrder ==
    ASSUME NEW k \in 1 .. Most, NEW m \in 1 .. Most, k < m
    PROVE  /\ Before(index_to_sector(k), index_to_sector(m))
           /\ index_to_sector(k) # index_to_sector(m)
  <1> DEFINE p == index_to_sector(k)
             q == index_to_sector(m)
             x == k - Direct - PerSector - 1
             y == m - Direct - PerSector - 1
  <1>0. Direct \in Nat /\ PerSector \in Nat \ {0} /\ k \in Nat /\ m \in Nat
    BY BlockAssumption, MostType
  <1>1. IsPath(p) /\ IsPath(q)
    BY SectorKeys
  <1>2. \/ Key(p, 1) < Key(q, 1)
        \/ Key(p, 1) = Key(q, 1) /\ Key(p, 2) < Key(q, 2)
        \/ Key(p, 1) = Key(q, 1) /\ Key(p, 2) = Key(q, 2) /\ Key(p, 3) < Key(q, 3)
    <2>1. CASE m <= Direct
      <3>1. Key(p, 1) = k /\ Key(q, 1) = m
        BY <2>1, <1>0, SectorKeys
      <3> QED
        BY <3>1
    <2>2. CASE m > Direct /\ m <= Direct + PerSector
      <3>1. Key(q, 1) = Direct + 1 /\ Key(q, 2) = m - Direct
        BY <2>2, SectorKeys
      <3>2. \/ Key(p, 1) = k /\ k <= Direct
            \/ Key(p, 1) = Direct + 1 /\ Key(p, 2) = k - Direct
        BY <2>2, <1>0, SectorKeys
      <3> HIDE DEF p, q
      <3> QED
        BY <3>1, <3>2, <1>0
    <2>3. CASE m > Direct + PerSector /\ k <= Direct + PerSector
      <3>1. Key(q, 1) = Direct + 2
        BY <2>3, SectorKeys
      <3>2. Key(p, 1) <= Direct + 1
        BY <2>3, <1>0, SectorKeys
      <3>3. Key(p, 1) \in Nat
        BY <1>1, KeyFacts
      <3> HIDE DEF p, q
      <3> QED
        BY <3>1, <3>2, <3>3, <1>0
    <2>4. CASE m > Direct + PerSector /\ k > Direct + PerSector
      <3>1. /\ Key(p, 1) = Direct + 2 /\ Key(q, 1) = Direct + 2
            /\ Key(p, 2) = (x \div PerSector) + 1 /\ Key(p, 3) = (x % PerSector) + 1
            /\ Key(q, 2) = (y \div PerSector) + 1 /\ Key(q, 3) = (y % PerSector) + 1
        BY <2>4, SectorKeys
      <3>2. x \in Nat /\ y \in Nat /\ x < y
        BY <2>4, <1>0
      <3> HIDE DEF p, q, x, y
      <3>3. \/ x \div PerSector < y \div PerSector
            \/ x \div PerSector = y \div PerSector /\ x % PerSector < y % PerSector
        BY <3>2, <1>0, DivOrder
      <3>4. /\ x \div PerSector \in Int /\ y \div PerSector \in Int
            /\ x % PerSector \in Int /\ y % PerSector \in Int
        BY <3>2, <1>0
      <3> QED
        BY <3>1, <3>3, <3>4
    <2> QED
      BY <2>1, <2>2, <2>3, <2>4, <1>0
  <1>3. /\ Key(p, 1) \in Nat /\ Key(p, 2) \in Nat /\ Key(p, 3) \in Nat
        /\ Key(q, 1) \in Nat /\ Key(q, 2) \in Nat /\ Key(q, 3) \in Nat
    BY <1>1, KeyFacts
  <1> HIDE DEF p, q
  <1>4. Lex(p, q) /\ p # q
    BY <1>2, <1>3 DEF Lex
  <1>5. Before(p, q) /\ p # q
    BY <1>1, <1>4, BeforeLex
  <1> QED
    BY <1>5 DEF p, q

\* What is allocated after one data sector and not after the next is on the path
\* to the next.
LEMMA BetweenSectors ==
    ASSUME NEW n \in Int, n <= Most, NEW k \in 1 .. n - 1, NEW q \in Need(n),
           Before(q, index_to_sector(k + 1)), ~Before(q, index_to_sector(k))
    PROVE  \E l \in 1 .. 3 : q = SubSeq(index_to_sector(k + 1), 1, l)
  <1>0. Most \in Nat /\ k \in 1 .. Most /\ k + 1 \in 1 .. Most /\ k \in Nat
    BY MostType
  <1> DEFINE u == index_to_sector(k + 1)
             v == index_to_sector(k)
  <1>1. PICK m \in 1 .. n : q \in {SubSeq(index_to_sector(m), 1, l) : l \in 1 .. Len(index_to_sector(m))}
    BY DEF Need
  <1> DEFINE w == index_to_sector(m)
  <1>2. PICK l \in 1 .. Len(w) : q = SubSeq(w, 1, l)
    BY <1>1
  <1>3. Shape(w) /\ Shape(u) /\ m \in 1 .. Most /\ m \in Nat
    BY <1>0, SectorPath
  <1>4. IsPath(u) /\ IsPath(v) /\ IsPath(w)
    BY <1>0, <1>3, SectorKeys
  <1>5. Shape(q) /\ Len(q) = l /\ \A i \in 1 .. l : q[i] = w[i]
    BY <1>2, <1>3, PrefixFacts
  <1>6. IsPath(q) /\ l \in 1 .. 3 /\ l <= Len(w) /\ Len(w) \in 1 .. 3
    <2>1. IsPath(q)
      BY <1>5, ShapePath
    <2> HIDE DEF w
    <2>2. Len(w) \in 1 .. 3
      BY <1>3 DEF Shape
    <2>3. l \in 1 .. Len(w)
      BY <1>2
    <2>4. ASSUME NEW h, h \in 1 .. 3, l \in 1 .. h PROVE l \in 1 .. 3 /\ l <= h
      BY <2>4
    <2> QED
      BY <2>1, <2>2, <2>3, <2>4, Zenon
  <1>7. m <= k => m = k \/ Before(w, v)
    <2> SUFFICES ASSUME m < k PROVE Before(w, v)
      BY <1>0, <1>3
    <2> QED
      BY <1>0, <1>3, SectorOrder
  <1>8. m > k => m = k + 1 \/ Before(u, w)
    <2> SUFFICES ASSUME k + 1 < m PROVE Before(u, w)
      BY <1>0, <1>3
    <2> QED
      BY <1>0, <1>3, SectorOrder
  <1>9. m = k => w = v
    OBVIOUS
  <1>10. m = k + 1 => w = u
    OBVIOUS
  <1>11. Before(q, u) /\ ~Before(q, v)
    OBVIOUS
  <1> HIDE DEF u, v, w
  <1>12. /\ \A i \in 1 .. l : Key(q, i) = Key(w, i)
         /\ \A i \in 1 .. 3 : i > l => Key(q, i) = 0
    BY <1>5, <1>6 DEF Key
  <1>13. /\ Key(w, 1) \in Nat /\ Key(w, 2) \in Nat /\ Key(w, 3) \in Nat
         /\ Key(u, 1) \in Nat /\ Key(u, 2) \in Nat /\ Key(u, 3) \in Nat
    BY <1>4, KeyFacts
  <1>14. Before(q, w)
    <2>1. Lex(q, w)
      BY <1>6, <1>12, <1>13 DEF Lex
    <2> QED
      BY <2>1, <1>4, <1>6, BeforeLex
  <1>15. m > k
    <2> SUFFICES ASSUME m <= k PROVE FALSE
      BY <1>0, <1>3
    <2>1. CASE m = k
      BY <2>1, <1>9, <1>11, <1>14
    <2>2. CASE Before(w, v)
      <3>1. Before(q, v)
        BY <2>2, <1>14, <1>4, <1>6, BeforeTransitive
      <3> QED
        BY <3>1, <1>11
    <2> QED
      BY <2>1, <2>2, <1>7
  <1>16. Before(u, w)
    BY <1>8, <1>10, <1>15 DEF Before
  <1>17. Lex(q, u) /\ Lex(u, w)
    BY <1>4, <1>6, <1>11, <1>16, BeforeLex
  <1>18. \A i \in 1 .. l : Key(q, i) = Key(u, i)
    <2>1. CASE l = 1
      <3>1. Key(q, 1) = Key(w, 1)
        BY <2>1, <1>12
      <3>2. Key(q, 1) = Key(u, 1)
        BY <3>1, <1>13, <1>17 DEF Lex
      <3> QED
        BY <3>2, <2>1
    <2>2. CASE l = 2
      <3>1. Key(q, 1) = Key(w, 1) /\ Key(q, 2) = Key(w, 2)
        BY <2>2, <1>12
      <3>2. Key(q, 1) = Key(u, 1) /\ Key(q, 2) = Key(u, 2)
        BY <3>1, <1>13, <1>17 DEF Lex
      <3> QED
        BY <3>2, <2>2
    <2>3. CASE l = 3
      <3>1. Key(q, 1) = Key(w, 1) /\ Key(q, 2) = Key(w, 2) /\ Key(q, 3) = Key(w, 3)
        BY <2>3, <1>12
      <3>2. Key(q, 1) = Key(u, 1) /\ Key(q, 2) = Key(u, 2) /\ Key(q, 3) = Key(u, 3)
        BY <3>1, <1>13, <1>17 DEF Lex
      <3> QED
        BY <3>2, <2>3
    <2> QED
      BY <2>1, <2>2, <2>3, <1>6
  <1>19. l <= Len(u)
    <2>1. q[l] = Key(q, l) /\ q[l] >= 1
      <3>1. l \in 1 .. Len(q)
        BY <1>5, <1>6
      <3>2. \A i \in 1 .. Len(q) : q[i] = Key(q, i)
        BY <1>6, KeyFacts
      <3>3. \A i \in 1 .. Len(q) : q[i] >= 1
        BY <1>6 DEF IsPath
      <3> QED
        BY <3>1, <3>2, <3>3
    <2>2. Key(u, l) # 0
      BY <2>1, <1>6, <1>18
    <2> QED
      BY <2>2, <1>4, <1>6 DEF Key, IsPath
  <1>20. q = SubSeq(u, 1, l)
    <2> DEFINE s == SubSeq(u, 1, l)
    <2>1. Len(u) \in 1 .. 3 /\ l \in 1 .. Len(u)
      BY <1>3, <1>6, <1>19 DEF Shape
    <2>2. Shape(s) /\ Len(s) = l /\ \A i \in 1 .. l : s[i] = u[i]
      BY <2>1, <1>3, PrefixFacts
    <2>3. \A i \in 1 .. l : q[i] = u[i]
      <3>1. \A i \in 1 .. Len(q) : q[i] = Key(q, i)
        BY <1>6, KeyFacts
      <3>2. \A i \in 1 .. Len(u) : u[i] = Key(u, i)
        BY <1>4, KeyFacts
      <3>3. \A i \in 1 .. l : i \in 1 .. Len(u)
        BY <2>1
      <3> QED
        BY <3>1, <3>2, <3>3, <1>5, <1>18
    <2> HIDE DEF s
    <2>4. q = s
      BY <2>2, <2>3, <1>5, SamePath
    <2> QED
      BY <2>4 DEF s
  <1> QED
    BY <1>6, <1>20 DEF u

LEMMA SectorNeeded ==
    ASSUME NEW n \in Int, n <= Most, NEW k \in 1 .. n
    PROVE  index_to_sector(k) \in Need(n)
  <1> DEFINE t == index_to_sector(k)
  <1>1. Shape(t) /\ t \in Seq(Nat) /\ Len(t) \in 1 .. 3
    BY MostType, SectorPath DEF Shape
  <1>2. \A l \in 1 .. Len(t) : SubSeq(t, 1, l) \in Need(n)
    <2> SUFFICES ASSUME NEW l \in 1 .. Len(t) PROVE SubSeq(t, 1, l) \in Need(n)
      OBVIOUS
    <2>1. SubSeq(t, 1, l) \in {SubSeq(t, 1, h) : h \in 1 .. Len(t)}
      OBVIOUS
    <2> QED
      BY <2>1 DEF Need
  <1> HIDE DEF t
  <1>3. SubSeq(t, 1, Len(t)) = t
    <2> DEFINE l == Len(t)
               b == SubSeq(t, 1, l)
    <2>1. l \in 1 .. Len(t)
      BY <1>1
    <2>2. Shape(b) /\ Len(b) = l /\ \A i \in 1 .. l : b[i] = t[i]
      BY <2>1, <1>1, PrefixFacts
    <2> HIDE DEF b
    <2>3. b = t
      BY <2>2, <1>1, SamePath
    <2> QED
      BY <2>3 DEF b
  <1>4. t \in Need(n)
    <2>1. Len(t) \in 1 .. Len(t)
      BY <1>1
    <2>2. SubSeq(t, 1, Len(t)) \in Need(n)
      BY <2>1, <1>2
    <2> QED
      BY <2>2, <1>3
  <1> QED
    BY <1>4 DEF t

LEMMA OneMore ==
    ASSUME NEW S, IsFiniteSet(S), NEW x
    PROVE  IsFiniteSet(S \cup {x}) /\ Cardinality(S \cup {x}) <= Cardinality(S) + 1
  <1>1. IsFiniteSet({x}) /\ Cardinality({x}) = 1
    BY FS_Singleton
  <1> DEFINE T == {x}
             U == S \cup T
             V == S \cap T
  <1>2. IsFiniteSet(U) /\ Cardinality(U) = Cardinality(S) + Cardinality(T) - Cardinality(V)
    BY <1>1, FS_Union
  <1>3. IsFiniteSet(V)
    BY FS_Intersection
  <1> HIDE DEF T, U, V
  <1>4. Cardinality(V) \in Nat /\ Cardinality(S) \in Nat /\ Cardinality(T) = 1
    BY <1>1, <1>3, FS_CardinalityType DEF T
  <1>5. Cardinality(U) <= Cardinality(S) + 1
    BY <1>2, <1>4
  <1> QED
    BY <1>2, <1>5 DEF U, T

LEMMA ThreeAtMost ==
    ASSUME NEW a, NEW b, NEW c
    PROVE  IsFiniteSet({a} \cup {b} \cup {c}) /\ Cardinality({a} \cup {b} \cup {c}) <= 3
  <1> DEFINE S == {a}
             T == S \cup {b}
             U == T \cup {c}
  <1>1. IsFiniteSet(S) /\ Cardinality(S) = 1
    BY FS_Singleton
  <1>2. IsFiniteSet(T) /\ Cardinality(T) <= Cardinality(S) + 1
    BY <1>1, OneMore
  <1> HIDE DEF S, T
  <1>3. IsFiniteSet(U) /\ Cardinality(U) <= Cardinality(T) + 1
    BY <1>2, OneMore
  <1> HIDE DEF U
  <1>4. Cardinality(T) \in Nat /\ Cardinality(U) \in Nat
    BY <1>2, <1>3, FS_CardinalityType
  <1>5. Cardinality(U) <= 3
    BY <1>1, <1>2, <1>3, <1>4
  <1> QED
    BY <1>3, <1>5 DEF S, T, U

\* At most three items lie from one data sector, exclusive, to the next, inclusive.
LEMMA RankStep ==
    ASSUME IInv, NEW order \in [Files -> 1 .. Cardinality(Files)],
           \A f, g \in Files : f # g => order[f] # order[g],
           NEW f \in Files, NEW k \in 1 .. inode_open(f).length - 1,
           NEW i, i = <<f, index_to_sector(k)>>, NEW j, j = <<f, index_to_sector(k + 1)>>
    PROVE  /\ i \in Items(Files) /\ j \in Items(Files)
           /\ Cardinality(Preceding(Items(Files), ItemOrder(order), j))
                - Cardinality(Preceding(Items(Files), ItemOrder(order), i)) \in 1 .. 3
  <1> DEFINE I == Items(Files)
             R == ItemOrder(order)
             n == inode_open(f).length
             u == index_to_sector(k + 1)
             v == index_to_sector(k)
             A == Preceding(I, R, i)
             B == Preceding(I, R, j)
  <1>0. TypeOK
    BY DEF IInv
  <1>1. n \in Int /\ n <= Most /\ n <= MaxLength /\ k \in 1 .. n - 1
    BY <1>0, OpenType, InodeNotClosed, MostType
  <1>2. Most \in Nat /\ k \in 1 .. Most /\ k + 1 \in 1 .. Most /\ k \in Nat
        /\ k \in 1 .. n /\ k + 1 \in 1 .. n
    <2> HIDE DEF n
    <2> QED
      BY <1>1, MostType
  <1>3. v \in Need(n) /\ u \in Need(n)
    BY <1>1, <1>2, SectorNeeded
  <1>4. i \in I /\ j \in I
    BY <1>3, ItemFacts
  <1>5. i[1] = f /\ i[2] = v /\ j[1] = f /\ j[2] = u
    OBVIOUS
  <1>6. IsPath(u) /\ IsPath(v) /\ Before(v, u) /\ u # v
    BY <1>2, SectorKeys, SectorOrder
  <1>7. TotalOrder(I, R) /\ IsFiniteSet(I)
    BY ItemsOrdered, ItemsFit
  <1>8. /\ A = {t \in I : Sooner(order, t, f, v)}
        /\ B = {t \in I : Sooner(order, t, f, u)}
    <2>1. \A y \in I : Preceding(I, R, y) = {t \in I : Sooner(order, t, y[1], y[2])}
      BY ItemsOrdered
    <2> HIDE DEF I, R, u, v
    <2> QED
      BY <2>1, <1>4, <1>5
  <1>9. \A t \in I : IsPath(t[2]) /\ t = <<t[1], t[2]>> /\ t[1] \in Files
                       /\ (t[2] = << >> \/ t[2] \in Need(inode_open(t[1]).length))
    BY ItemPath, ItemFacts
  <1>10. A \in SUBSET B /\ A \in SUBSET I /\ B \in SUBSET I
    <2> HIDE DEF u, v, I, A, B
    <2>1. \A t \in I : Before(t[2], v) => Before(t[2], u)
      BY <1>6, <1>9, BeforeTransitive
    <2> QED
      BY <2>1, <1>8 DEF Sooner
  <1>11. ASSUME NEW t \in B \ A
         PROVE  t[1] = f /\ \E l \in 1 .. 3 : t = <<f, SubSeq(u, 1, l)>>
    <2>1. t \in I /\ Sooner(order, t, f, u) /\ ~Sooner(order, t, f, v)
      BY <1>8
    <2>2. t[1] = f /\ Before(t[2], u) /\ ~Before(t[2], v)
      BY <2>1 DEF Sooner
    <2>3. t = <<f, t[2]>> /\ (t[2] = << >> \/ t[2] \in Need(n))
      BY <2>1, <2>2, <1>9
    <2>4. t[2] # << >>
      <3> SUFFICES ASSUME t[2] = << >> PROVE FALSE
        OBVIOUS
      <3>1. IsPath(<< >>) /\ Before(<< >>, v)
        <4>1. Lex(<< >>, v)
          <5>1. Key(<< >>, 1) = 0 /\ Key(v, 1) # 0 /\ Key(v, 1) \in Nat
            <6>1. Shape(v)
              BY <1>2, SectorPath
            <6>2. Len(v) # 0
              BY <6>1 DEF Shape
            <6> QED
              BY <6>2, <1>6, KeyFacts DEF Key
          <5> HIDE DEF v
          <5> QED
            BY <5>1 DEF Lex
        <4> QED
          BY <4>1, <1>6, EmptyPath, BeforeLex
      <3> QED
        BY <3>1, <2>2
    <2>5. t[2] \in Need(n)
      BY <2>3, <2>4
    <2>6. \E l \in 1 .. 3 : t[2] = SubSeq(u, 1, l)
      BY <2>2, <2>5, <1>1, BetweenSectors
    <2> HIDE DEF u
    <2> QED
      BY <2>2, <2>3, <2>6
  <1>12. j \in B \ A
    <2>1. ~Before(u, v)
      BY <1>6, BeforeOrder
    <2>2. Before(u, u)
      BY DEF Before
    <2>3. order[f] \in Int
      <3>1. Cardinality(Files) \in Nat
        BY ItemsFit, FS_CardinalityType
      <3> QED
        BY <3>1
    <2> HIDE DEF u, v, I, A, B
    <2> QED
      BY <2>1, <2>2, <2>3, <1>4, <1>5, <1>8 DEF Sooner
  <1>13. IsFiniteSet(B \ A) /\ Cardinality(B \ A) \in 1 .. 3
    <2> DEFINE T == {<<f, SubSeq(u, 1, 1)>>} \cup {<<f, SubSeq(u, 1, 2)>>} \cup {<<f, SubSeq(u, 1, 3)>>}
    <2> HIDE DEF u, A, B
    <2>1. IsFiniteSet(T) /\ Cardinality(T) <= 3
      BY ThreeAtMost
    <2>2. \A t \in B \ A : t \in T
      <3> TAKE t \in B \ A
      <3>1. PICK l \in 1 .. 3 : t = <<f, SubSeq(u, 1, l)>>
        BY <1>11
      <3>2. l = 1 \/ l = 2 \/ l = 3
        OBVIOUS
      <3> QED
        BY <3>1, <3>2, Zenon
    <2> HIDE DEF T
    <2>3. (B \ A) \in SUBSET T
      BY <2>2
    <2>4. IsFiniteSet(B \ A) /\ Cardinality(B \ A) <= Cardinality(T)
      BY <2>1, <2>3, FS_Subset
    <2>5. Cardinality(B \ A) \in Nat /\ Cardinality(T) \in Nat /\ Cardinality(B \ A) # 0
      BY <2>1, <2>4, <1>12, FS_CardinalityType, FS_EmptySet
    <2> QED
      BY <2>1, <2>4, <2>5
  <1>14. Cardinality(B) - Cardinality(A) = Cardinality(B \ A)
    <2> HIDE DEF A, B, I, R
    <2>1. IsFiniteSet(B) /\ IsFiniteSet(A)
      BY <1>7, <1>10, FS_Subset
    <2>2. B \cap A = A
      BY <1>10
    <2>3. Cardinality(B \ A) = Cardinality(B) - Cardinality(B \cap A)
      BY <2>1, FS_Difference
    <2>4. Cardinality(B) \in Nat /\ Cardinality(A) \in Nat
      BY <2>1, FS_CardinalityType
    <2> QED
      BY <2>2, <2>3, <2>4
  <1> HIDE DEF A, B
  <1>15. Cardinality(B) - Cardinality(A) \in 1 .. 3
    BY <1>13, <1>14
  <1> QED
    BY <1>4, <1>15 DEF A, B

\* With nothing marked but what the format marked, the k-th allocation gives the
\* k-th sector after it.
LEMMA AllocateInOrder ==
    ASSUME map_open, NEW k \in 1 .. Cardinality(Free(do_format))
    PROVE  free_map_allocate(do_format, k) = Reserved + k - 1
  <1> DEFINE S == Free(do_format)
             s == free_map_allocate(do_format, k)
  <1>1. s \in S /\ Cardinality(UpTo(S, s)) = k
    BY AllocateFacts
  <1>2. S = Sectors \ do_format
    BY DEF Free
  <1> HIDE DEF S, s
  <1>3. s \in Int /\ s >= Reserved /\ s < MapSize /\ Reserved \in Nat
    BY <1>1, <1>2, FormatFacts, SectorsType, MapAssumption
  <1>4. UpTo(S, s) = Reserved .. s
    <2> DEFINE C == Reserved .. s
    <2>1. \A t : t \in UpTo(S, s) <=> t \in Reserved .. s
      BY <1>2, <1>3, MapAssumption DEF UpTo, Sectors, do_format
    <2> HIDE DEF C
    <2>2. \A t : t \in UpTo(S, s) <=> t \in C
      BY <2>1 DEF C
    <2>3. UpTo(S, s) = C
      BY <2>2, Zenon
    <2> QED
      BY <2>3 DEF C
  <1>5. Cardinality(Reserved .. s) = s - Reserved + 1
    BY <1>3, FS_Interval
  <1>6. s = Reserved + k - 1
    BY <1>1, <1>3, <1>4, <1>5
  <1> QED
    BY <1>6 DEF s

\* The sectors of every file come one after the other, at most two others between.
LEMMA DefragCompacts ==
    ASSUME IInv, defragment, ~failed
    PROVE  (\A f \in Files : ~fragmented_file(inode_open(f)))'
  <1>0. TypeOK /\ map_open /\ OnlyMarked(Files, Map, free_map) /\ AllMarked(Files, Map, free_map)
    BY DEF IInv
  <1>1. PICK order \in [Files -> 1 .. Cardinality(Files)] : \E at : Moved(order, at)
    BY <1>0, DefragOpen, Zenon
  <1>2. PICK at : Moved(order, at)
    BY <1>1, Zenon
  <1> DEFINE I == Items(Files)
             R == ItemOrder(order)
             kept == free_map \ Released(Files)
             rank(i) == Cardinality(Preceding(I, R, i))
  <1>3. kept = do_format
    <2>1. do_format \subseteq kept
      BY <1>0, ReleasedFacts DEF AllMarked
    <2>2. ASSUME NEW s \in kept, s \notin do_format PROVE FALSE
      <3>1. s \in free_map /\ s \notin Released(Files) /\ s # Nil
        BY <2>2, FormatFacts
      <3>2. PICK g \in Files : \E p \in Places : Map[g][p] = s
        BY <3>1, <2>2, <1>0 DEF OnlyMarked
      <3>3. s \in {directory[g]} \cup inode_deallocate(inode_open(g))
        BY <3>1, <3>2, ReleasedAll
      <3> QED
        BY <3>1, <3>3 DEF Released
    <2> QED
      BY <2>1, <2>2
  <1>4. \A f, g \in Files : f # g => order[f] # order[g]
    BY <1>2, Zenon DEF Moved
  <1>5. \A i \in I : at[i] = free_map_allocate(do_format, rank(i))
    <2>1. at = [i \in Items(Files) |->
                   free_map_allocate(free_map \ Released(Files),
                      Cardinality({j \in Items(Files) : Sooner(order, j, i[1], i[2])}))]
      BY <1>2, Zenon DEF Moved
    <2>2. \A j \in I : Preceding(I, R, j) = {i \in I : Sooner(order, i, j[1], j[2])}
      BY <1>4, ItemsOrdered
    <2> QED
      BY <2>1, <2>2, <1>3
  <1>6. \A i \in I : rank(i) \in 1 .. Cardinality(Free(do_format))
    <2>1. TotalOrder(I, R) /\ IsFiniteSet(I) /\ Cardinality(I) <= Cardinality(Free(kept))
      BY <1>0, <1>4, ItemsOrdered, ItemsFit
    <2>2. Cardinality(Free(do_format)) \in Nat /\ Cardinality(I) \in Nat
      BY <2>1, FreeFinite, FS_CardinalityType
    <2> HIDE DEF I, R, kept
    <2> TAKE i \in I
    <2>3. rank(i) \in 1 .. Cardinality(I)
      BY <2>1, RankType
    <2> QED
      BY <2>1, <2>2, <2>3, <1>3
  <1>7. \A i \in I : at[i] = Reserved + rank(i) - 1 /\ rank(i) \in Int
    <2> HIDE DEF I, R
    <2> TAKE i \in I
    <2>1. rank(i) \in 1 .. Cardinality(Free(do_format))
      BY <1>6
    <2> HIDE DEF rank
    <2>2. free_map_allocate(do_format, rank(i)) = Reserved + rank(i) - 1
      BY <2>1, <1>0, AllocateInOrder
    <2> QED
      BY <2>1, <2>2, <1>5
  <1>8. Files' = Files
    BY <1>2, Zenon DEF Moved
  <1>9. ASSUME NEW f \in Files
        PROVE  ~fragmented_file(inode_open(f))'
    <2> DEFINE n == inode_open(f).length
               node == inode_open(f)'
               E(k) == Entry(inode_open(f), index_to_sector(k))'
    <2>1. /\ node.length = n
          /\ \A p \in AllPaths : EntryIn(blocks', node.ptr, p)
                                   = IF p \in Need(n) THEN at[<<f, p>>] ELSE Nil
      BY <1>2, Zenon DEF Moved
    <2>2. n \in Int /\ n <= Most /\ n <= MaxLength
      BY <1>0, OpenType, InodeNotClosed, MostType
    <2>3. \A k \in 1 .. n : E(k) = at[<<f, index_to_sector(k)>>]
      <3> TAKE k \in 1 .. n
      <3> DEFINE p == index_to_sector(k)
      <3>1. p \in Need(n) /\ p \in AllPaths
        BY <2>2, SectorNeeded, NeedPaths
      <3>2. EntryIn(blocks', node.ptr, p) = at[<<f, p>>]
        BY <3>1, <2>1
      <3>3. E(k) = EntryIn(blocks', node.ptr, p)
        BY DEF Entry, EntryIn, Follow, FollowIn
      <3> QED
        BY <3>2, <3>3
    <2>4. fragmented_file(inode_open(f))' <=>
             \E k \in 1 .. node.length - 1 :
                 \/ [h \in 1 .. node.length |-> E(h)][k + 1] < [h \in 1 .. node.length |-> E(h)][k]
                 \/ [h \in 1 .. node.length |-> E(h)][k + 1] - [h \in 1 .. node.length |-> E(h)][k] > 3
      BY DEF fragmented_file, get_inode_data_sectors
    <2> HIDE DEF E, node, n
    <2>5. ASSUME NEW k \in 1 .. n - 1
          PROVE  ~(E(k + 1) < E(k)) /\ ~(E(k + 1) - E(k) > 3)
      <3> DEFINE i == <<f, index_to_sector(k)>>
                 j == <<f, index_to_sector(k + 1)>>
      <3>1. i \in I /\ j \in I /\ rank(j) - rank(i) \in 1 .. 3
        BY <1>4, RankStep DEF n
      <3>2. k \in 1 .. n /\ k + 1 \in 1 .. n
        BY <2>2
      <3>3. E(k) = at[i] /\ E(k + 1) = at[j]
        BY <3>2, <2>3
      <3> HIDE DEF i, j, rank, I
      <3>4. E(k) = Reserved + rank(i) - 1 /\ E(k + 1) = Reserved + rank(j) - 1
            /\ rank(i) \in Int /\ rank(j) \in Int
        BY <3>1, <3>3, <1>7
      <3> QED
        BY <3>1, <3>4, MapAssumption
    <2>6. ASSUME NEW k \in 1 .. n - 1
          PROVE  /\ [h \in 1 .. n |-> E(h)][k + 1] = E(k + 1)
                 /\ [h \in 1 .. n |-> E(h)][k] = E(k)
      BY <2>2
    <2> QED
      BY <2>1, <2>4, <2>5, <2>6
  <1> QED
    BY <1>8, <1>9

-----------------------------------------------------------------------------
\* free_map, inode, directory and file table: the variables have the types of
\* the C structures, and no sector number is outside the device.
THEOREM TypeCorrect == Spec => []TypeOK
  <1>1. IInv => TypeOK
    BY DEF IInv
  <1> QED
    BY <1>1, Inductive, PTL

\* The inode of an open file and the one in its sector agree on the length and
\* on every pointer that is on disk, whatever creates and writes failed.
THEOREM Copies == Spec => []CopiesAgree
  <1>1. IInv => CopiesAgree
    BY DEF IInv
  <1> QED
    BY <1>1, Inductive, PTL

\* inode_reserve, free_map_allocate and defragment never give one sector two
\* purposes, for every size of device, directory and block.
THEOREM SectorsApart == Spec => []NoSharing
  BY Inductive, InvNoSharing, PTL

\* As long as the free map is open, what is in use is marked in it.
THEOREM Marked == Spec => []InUseMarked
  BY Inductive, InvMarked, PTL

\* As long as no create or write failed, what is marked is in use.
THEOREM NoLeak == Spec => []NothingLeaks
  BY Inductive, InvLeaks, PTL

\* Within the length of a file, byte_to_sector finds a sector of the file.
THEOREM Lengths == Spec => []LengthBacked
  BY Inductive, InvBacked, PTL

\* What defragment removes makes room for all that it creates again.
THEOREM RoomToDefragment == Spec => []DefragFits
  <1>1. IInv => DefragFits
    BY ItemsFit DEF DefragFits
  <1> QED
    BY <1>1, Inductive, PTL

\* fsutil2.c: defragment leaves no fragmented file, as long as no create or write
\* failed before: for every number of direct blocks and of pointers in a block.
THEOREM Defragments == Spec => Defragmented
  <1>1. IInv /\ [Next]_vars
           => [defragment /\ ~failed => (\A f \in Files : ~fragmented_file(inode_open(f)))']_vars
    BY DefragCompacts
  <1> QED
    BY <1>1, Inductive, PTL DEF Spec, Defragmented
=============================================================================
