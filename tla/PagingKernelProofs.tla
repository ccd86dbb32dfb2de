------------------------- MODULE PagingKernelProofs -------------------------
(***************************************************************************)
(* Proofs about the paging kernel of a3, for every size of the two stores, *)
(* every set of scripts and every number of processes: the type of the     *)
(* state, that the LRU list holds what run_proc looks for in it, that      *)
(* free_PCB stays inside shellmemory, and that variables survive; and, for *)
(* scripts whose lines are all there and do not return 1, that scripts are *)
(* executed completely and in order, that frames are owned by the pages of *)
(* the LRU list and that no page is evicted that is needed again.          *)
(***************************************************************************)
EXTENDS PagingKernel, NatLemmas, FiniteSetTheorems, SequenceTheorems, TLAPS

-----------------------------------------------------------------------------
\* Page tables.

\* The pages of a script.
PagesOf(s) == 0 .. PAGE_table_size(count_lines(s)) - 1

Lines == 0 .. 2
Frames == [Lines -> Nat]

\* The PCB of a process that runs s.
PCBs(s) == [script : {s}, size : 0 .. count_lines(s), source_file : Nat,
            program_counter : [PagesOf(s) -> 0 .. 3],
            index : [PagesOf(s) -> Frames],
            valid_bit : [PagesOf(s) -> [Lines -> BOOLEAN]]]

\* The program counter of page i after d lines.
Counter(i, d) == IF d >= 3 * i + 3 THEN 3 ELSE IF d <= 3 * i THEN 0 ELSE d - 3 * i

\* Lines are executed page by page.
Progress(r) == \A i \in PagesOf(r.script) :
                  r.program_counter[i] = Counter(i, count_lines(r.script) - r.size)

NoFrames == [j \in Lines |-> Unloaded]
Zeroed == [j \in Lines |-> 0]
FrameAt(b) == [j \in Lines |-> b + j]

\* The page was loaded, and evicted since if its positions are zero.
Loaded(x) == x = Zeroed \/ \E b \in 0 .. FrameStore - 3 : x = FrameAt(b)

\* A page is loaded before its lines are valid, and they are valid before they
\* are executed.
LoadedFirst(r) == \A i \in PagesOf(r.script) :
    /\ r.index[i] = NoFrames \/ Loaded(r.index[i])
    /\ r.program_counter[i] > 0 => Loaded(r.index[i])
    /\ \A j \in Lines : r.valid_bit[i][j] => Loaded(r.index[i])

GoodRow(r) == /\ r.script \in Scripts
              /\ r \in PCBs(r.script)
              /\ Progress(r)
              /\ LoadedFirst(r)

Good(t) == \A p \in DOMAIN t : GoodRow(t[p])

LEMMA ScriptLength ==
    ASSUME NEW s \in Scripts
    PROVE  Len(s.lines) \in Nat
  BY ScriptAssumption

-----------------------------------------------------------------------------
\* Memory, the LRU list and the scheduler.

\* Variables and frames keep to their parts of shellmemory.
Cell(q, c) == /\ c = [var |-> c.var, value |-> c.value]
              /\ c.var \in IF q \in VarZone THEN VarNames \cup {None} ELSE 0 .. MaxPid

GoodMemory(m) == DOMAIN m = Memory /\ \A q \in Memory : Cell(q, m[q])

\* A variable has one position.
One(m) == \A q, r \in VarZone : q # r /\ m[q].var = m[r].var => m[q].var = None

Nodes == Nat \X Nat

IsPage(t, g) == /\ g[1] \in DOMAIN t
                /\ g[2] \in PagesOf(t[g[1]].script)

Has(l, g) == \E k \in 1 .. Len(l) : l[k] = g

\* The LRU list names pages, and every page with a valid line is in it.
Resident(t, l) ==
    /\ \A g \in Nodes : Has(l, g) => IsPage(t, g)
    /\ \A p \in DOMAIN t : \A i \in PagesOf(t[p].script) : \A j \in Lines :
          t[p].valid_bit[i][j] => Has(l, <<p, i>>)

\* The turn that is going on has lines left to run.
Turn(t, c) ==
    /\ c \in [pid : Nat, left : 0 .. 2, requeue : BOOLEAN]
    /\ c # Idle => /\ c.pid \in DOMAIN t
                   /\ c.left \in 1 .. t[c.pid].size
                   /\ ~c.requeue => c.left = 1 /\ t[c.pid].size = 1

\* Processes with lines left are queued or have their turn.
Scheduled(t, s, c) == \A p \in DOMAIN t :
    \/ t[p].size = 0
    \/ Has(s, p)
    \/ c # Idle /\ c.pid = p

IInv == /\ phase \in Phases
        /\ PID_counter \in 1 .. MaxPid + 1
        /\ DOMAIN pcb \subseteq 1 .. PID_counter - 1
        /\ DOMAIN ran = DOMAIN pcb
        /\ Good(pcb)
        /\ QUEUE \in Seq(DOMAIN pcb)
        /\ LRU_CACHE \in Seq(Nodes)
        /\ Resident(pcb, LRU_CACHE)
        /\ DOMAIN pcb # {} => Len(LRU_CACHE) > 0 /\ FrameStore >= 3
        /\ GoodMemory(shellmemory) /\ One(shellmemory)
        /\ Turn(pcb, cur)
        /\ Scheduled(pcb, QUEUE, cur)

-----------------------------------------------------------------------------
\* Scripts and their pages.

\* A script has at least one line to count, and its lines reach its last page.
LEMMA CountFacts ==
    ASSUME NEW s \in Scripts
    PROVE  /\ count_lines(s) \in Nat \ {0}
           /\ PAGE_table_size(count_lines(s)) \in Nat \ {0}
           /\ 3 * PAGE_table_size(count_lines(s)) >= count_lines(s)
           /\ 3 * PAGE_table_size(count_lines(s)) < count_lines(s) + 3
           /\ PagesOf(s) \subseteq Nat
  <1> DEFINE n == count_lines(s)
  <1>1. n \in Nat \ {0}
    <2> DEFINE L == {k \in 1 .. Len(s.lines) : /\ s.lines[k] # "blank"
                                               /\ k < Len(s.lines) \/ s.nl}
    <2>1. Len(s.lines) \in Int
      BY ScriptAssumption
    <2>2. IsFiniteSet(1 .. Len(s.lines))
      BY <2>1, FS_Interval
    <2>3. IsFiniteSet(L)
      BY <2>2, FS_Subset
    <2>4. Cardinality(L) \in Nat
      BY <2>3, FS_CardinalityType
    <2>5. n = 1 + Cardinality(L)
      BY DEF count_lines
    <2> HIDE DEF n, L
    <2> QED
      BY <2>4, <2>5
  <1> HIDE DEF n
  <1>2. /\ PAGE_table_size(n) \in Nat \ {0}
        /\ 3 * PAGE_table_size(n) >= n
        /\ 3 * PAGE_table_size(n) < n + 3
    BY <1>1 DEF PAGE_table_size
  <1> QED
    BY <1>1, <1>2 DEF n, PagesOf

\* frame_alloc finds a frame of the frame store if there is one.
LEMMA AllocFacts ==
    ASSUME NEW m, FreeFrames(m) # {}
    PROVE  /\ frame_alloc(m) \in 0 .. FrameStore - 3
           /\ frame_alloc(m) \in FreeFrames(m)
           /\ FrameStore >= 3
  <1>1. FreeFrames(m) \in SUBSET Nat
    BY DEF FreeFrames
  <1>2. \E b \in FreeFrames(m) : \A c \in FreeFrames(m) : b <= c
    BY <1>1, LeastNat
  <1>3. frame_alloc(m) \in FreeFrames(m)
    BY <1>2 DEF frame_alloc
  <1> QED
    BY <1>3, StoreAssumption DEF FreeFrames

\* t is t0 but for page i of process p.
SameBut(t0, t, p, i) ==
    /\ DOMAIN t = DOMAIN t0
    /\ \A q \in DOMAIN t0 : /\ t[q].script = t0[q].script
                            /\ t[q].size = t0[q].size
                            /\ \A h \in PagesOf(t0[q].script) :
                                  q # p \/ h # i => t[q].valid_bit[h] = t0[q].valid_bit[h]

\* What load_PAGE does to the table of PCBs.
LEMMA LoadTable ==
    ASSUME NEW s, Good(s.pcb), NEW p \in DOMAIN s.pcb, NEW i \in PagesOf(s.pcb[p].script),
           FreeFrames(s.mem) # {}, NEW t, t = load_PAGE(s, p, i).pcb
    PROVE  SameBut(s.pcb, t, p, i) /\ Good(t)
  <1> DEFINE r == s.pcb[p]
             b == frame_alloc(s.mem)
             pos == r.source_file
             read == {j \in 0 .. 2 : pos + j < Len(r.script.lines)}
             F == [j \in 0 .. 2 |-> b + j]
             V == [j \in 0 .. 2 |-> j \in read]
             c == pos + Cardinality(read)
             r2 == [r EXCEPT !.index = [r.index EXCEPT ![i] = F],
                             !.valid_bit = [r.valid_bit EXCEPT ![i] = V],
                             !.source_file = c]
  <1>1. t = [s.pcb EXCEPT ![p].index[i] = F, ![p].valid_bit[i] = V, ![p].source_file = c]
    BY DEF load_PAGE
  <1>2. r \in PCBs(r.script) /\ GoodRow(r) /\ r.script \in Scripts
    BY DEF Good, GoodRow
  <1>3. b \in 0 .. FrameStore - 3
    BY AllocFacts
  <1>4. c \in Nat
    <2>1. IsFiniteSet(0 .. 2)
      <3>1. 0 \in Int /\ 2 \in Int
        OBVIOUS
      <3> QED
        BY <3>1, FS_Interval
    <2>2. IsFiniteSet(read)
      BY <2>1, FS_Subset
    <2>3. Cardinality(read) \in Nat
      BY <2>2, FS_CardinalityType
    <2>4. pos \in Nat
      BY <1>2 DEF PCBs
    <2> HIDE DEF read
    <2> QED
      BY <2>3, <2>4
  <1>5. F = FrameAt(b) /\ F \in Frames /\ V \in [Lines -> BOOLEAN] /\ Loaded(F)
    BY <1>3, StoreAssumption DEF FrameAt, Frames, Lines, Loaded
  <1> HIDE DEF F, V, c, b, read, pos
  <1>6. /\ DOMAIN t = DOMAIN s.pcb
        /\ \A q \in DOMAIN t : q # p => t[q] = s.pcb[q]
        /\ t[p] = r2
    BY <1>1, <1>2 DEF PCBs
  <1> HIDE DEF r
  <1>7. /\ r2 \in PCBs(r.script)
        /\ r2.script = r.script /\ r2.size = r.size
        /\ r2.program_counter = r.program_counter
        /\ r2.index = [r.index EXCEPT ![i] = F]
        /\ r2.valid_bit = [r.valid_bit EXCEPT ![i] = V]
    BY <1>2, <1>4, <1>5 DEF PCBs, r
  <1> HIDE DEF r2
  <1>8. GoodRow(r2)
    BY <1>2, <1>5, <1>7 DEF GoodRow, Progress, LoadedFirst, PCBs
  <1>9. \A h \in PagesOf(r.script) : h # i => r2.valid_bit[h] = r.valid_bit[h]
    BY <1>2, <1>7 DEF PCBs
  <1> QED
    BY <1>6, <1>7, <1>8, <1>9 DEF Good, r, SameBut

\* What PAGE_evict does to it.
LEMMA EvictTable ==
    ASSUME NEW s, Good(s.pcb), NEW p \in DOMAIN s.pcb, NEW i \in PagesOf(s.pcb[p].script),
           NEW t, t = PAGE_evict(s, p, i).pcb
    PROVE  /\ SameBut(s.pcb, t, p, i)
           /\ \A j \in Lines : ~t[p].valid_bit[i][j]
           /\ Good(t)
  <1> DEFINE r == s.pcb[p]
             V == [j \in 0 .. 2 |-> FALSE]
             r2 == [r EXCEPT !.index = [r.index EXCEPT ![i] = Zeroed],
                             !.valid_bit = [r.valid_bit EXCEPT ![i] = V]]
  <1>1. t = [s.pcb EXCEPT ![p].index[i] = Zeroed, ![p].valid_bit[i] = V]
    BY DEF PAGE_evict, Zeroed, Lines
  <1>2. r \in PCBs(r.script) /\ GoodRow(r) /\ r.script \in Scripts
    BY DEF Good, GoodRow
  <1>3. /\ Zeroed \in Frames /\ V \in [Lines -> BOOLEAN] /\ Loaded(Zeroed)
        /\ \A j \in Lines : ~V[j]
    BY DEF Zeroed, Frames, Lines, Loaded
  <1> HIDE DEF V
  <1>6. /\ DOMAIN t = DOMAIN s.pcb
        /\ \A q \in DOMAIN t : q # p => t[q] = s.pcb[q]
        /\ t[p] = r2
    BY <1>1, <1>2 DEF PCBs
  <1> HIDE DEF r
  <1>7. /\ r2 \in PCBs(r.script)
        /\ r2.script = r.script /\ r2.size = r.size
        /\ r2.program_counter = r.program_counter
        /\ r2.index = [r.index EXCEPT ![i] = Zeroed]
        /\ r2.valid_bit = [r.valid_bit EXCEPT ![i] = V]
    BY <1>2, <1>3 DEF PCBs, r
  <1> HIDE DEF r2
  <1>8. GoodRow(r2)
    BY <1>2, <1>3, <1>7 DEF GoodRow, Progress, LoadedFirst, PCBs
  <1>9. /\ \A h \in PagesOf(r.script) : h # i => r2.valid_bit[h] = r.valid_bit[h]
        /\ \A j \in Lines : ~r2.valid_bit[i][j]
    BY <1>2, <1>3, <1>7 DEF PCBs, r
  <1> QED
    BY <1>6, <1>7, <1>8, <1>9 DEF Good, r, SameBut

\* The page of a process that has lines left is the one its next line lies in.
LEMMA PageNow ==
    ASSUME Good(pcb), NEW p \in DOMAIN pcb, pcb[p].size # 0,
           NEW i, i = CurrentPage(p),
           NEW d, d = count_lines(pcb[p].script) - pcb[p].size
    PROVE  /\ i \in PagesOf(pcb[p].script) /\ d \in Nat
           /\ 3 * i <= d /\ d < 3 * i + 3
           /\ pcb[p].program_counter[i] = d - 3 * i
  <1> DEFINE r == pcb[p]
             n == count_lines(r.script)
             N == PAGE_table_size(n)
  <1>1. r \in PCBs(r.script) /\ Progress(r) /\ r.script \in Scripts
    BY DEF Good, GoodRow
  <1>2. /\ n \in Nat \ {0} /\ N \in Nat \ {0} /\ 3 * N >= n
        /\ PagesOf(r.script) = 0 .. N - 1
    BY <1>1, CountFacts DEF PagesOf
  <1>3. r.size \in 1 .. n /\ Pages(p) = 0 .. N - 1
    BY <1>1, <1>2 DEF PCBs, Pages
  <1>4. \A h \in 0 .. N - 1 : r.program_counter[h] = Counter(h, d)
    BY <1>1, <1>2 DEF Progress
  <1> HIDE DEF n, N
  <1>5. d \in Nat /\ d < n
    BY <1>2, <1>3 DEF n
  <1> DEFINE Now(h) == /\ r.program_counter[h] # 3
                       /\ \A k \in Pages(p) : k < h => r.program_counter[k] = 3
  <1>6. \E h \in Pages(p) : Now(h)
    <2>1. /\ d \div 3 \in 0 .. N - 1
          /\ 3 * (d \div 3) <= d /\ d < 3 * (d \div 3) + 3
      BY <1>2, <1>5
    <2>2. Counter(d \div 3, d) # 3
      BY <2>1, <1>5 DEF Counter
    <2>3. \A k \in 0 .. N - 1 : k < d \div 3 => Counter(k, d) = 3
      BY <2>1, <1>5 DEF Counter
    <2> QED
      BY <2>1, <2>2, <2>3, <1>3, <1>4
  <1>7. i \in Pages(p) /\ Now(i)
    <2>1. i = CHOOSE h \in Pages(p) : Now(h)
      BY DEF CurrentPage
    <2> HIDE DEF Now
    <2> QED
      BY <2>1, <1>6
  <1>8. i \in 0 .. N - 1 /\ Counter(i, d) # 3
    BY <1>3, <1>4, <1>7
  <1>9. d < 3 * i + 3
    BY <1>8, <1>5 DEF Counter
  <1>10. 3 * i <= d
    <2>1. CASE i = 0
      BY <2>1, <1>5
    <2>2. CASE i # 0
      <3>1. i - 1 \in 0 .. N - 1 /\ i - 1 < i
        BY <2>2, <1>2, <1>8
      <3>2. Counter(i - 1, d) = 3
        BY <3>1, <1>3, <1>4, <1>7
      <3>3. d >= 3 * (i - 1) + 3
        BY <3>1, <3>2, <1>5, <1>8 DEF Counter
      <3> QED
        BY <3>3, <1>5, <1>8
    <2> QED
      BY <2>1, <2>2
  <1>11. r.program_counter[i] = d - 3 * i
    BY <1>4, <1>5, <1>8, <1>9, <1>10 DEF Counter
  <1> QED
    BY <1>2, <1>5, <1>8, <1>9, <1>10, <1>11

\* The table after a valid line was executed.
LEMMA RunTable ==
    ASSUME Good(pcb), NEW p \in DOMAIN pcb, pcb[p].size # 0,
           NEW i, i = CurrentPage(p), pcb[p].valid_bit[i][pcb[p].program_counter[i]],
           NEW t, t = [pcb EXCEPT ![p].program_counter[i] = @ + 1, ![p].size = @ - 1]
    PROVE  /\ DOMAIN t = DOMAIN pcb
           /\ \A q \in DOMAIN t : q # p => t[q] = pcb[q]
           /\ t[p].script = pcb[p].script /\ t[p].size = pcb[p].size - 1
           /\ t[p].valid_bit = pcb[p].valid_bit
           /\ t[p].index = pcb[p].index
           /\ Good(t)
  <1> DEFINE r == pcb[p]
             n == count_lines(r.script)
             d == n - r.size
             r2 == [r EXCEPT !.program_counter = [r.program_counter EXCEPT ![i] = r.program_counter[i] + 1],
                             !.size = r.size - 1]
  <1>1. r \in PCBs(r.script) /\ GoodRow(r) /\ r.script \in Scripts
    BY DEF Good, GoodRow
  <1>2. /\ i \in PagesOf(r.script) /\ d \in Nat
        /\ 3 * i <= d /\ d < 3 * i + 3
        /\ r.program_counter[i] = d - 3 * i
    BY PageNow
  <1>3. n \in Nat \ {0} /\ PagesOf(r.script) \subseteq Nat
    BY <1>1, CountFacts
  <1>4. /\ DOMAIN t = DOMAIN pcb
        /\ \A q \in DOMAIN t : q # p => t[q] = pcb[q]
        /\ t[p] = r2
    BY <1>1 DEF PCBs
  <1>5. r.size \in 1 .. n
    BY <1>1, <1>3 DEF PCBs
  <1>6. /\ r.program_counter[i] \in Lines
        /\ r.program_counter[i] + 1 \in 0 .. 3 /\ r.size - 1 \in 0 .. n
    <2>1. i \in Nat
      BY <1>2, <1>3
    <2>2. d - 3 * i \in 0 .. 2
      <3> HIDE DEF d
      <3> QED
        BY <2>1, <1>2
    <2>3. r.program_counter[i] \in 0 .. 2
      BY <2>2, <1>2
    <2> HIDE DEF r, n
    <2> QED
      BY <2>3, <1>3, <1>5 DEF Lines
  <1> HIDE DEF r
  <1>7. /\ r2 \in PCBs(r.script)
        /\ r2.script = r.script /\ r2.size = r.size - 1
        /\ r2.program_counter = [r.program_counter EXCEPT ![i] = r.program_counter[i] + 1]
        /\ r2.index = r.index
        /\ r2.valid_bit = r.valid_bit
    BY <1>1, <1>6 DEF PCBs
  <1> HIDE DEF r2
  <1>8. Progress(r2)
    <2> SUFFICES ASSUME NEW h \in PagesOf(r.script)
                 PROVE  r2.program_counter[h] = Counter(h, n - r2.size)
      BY <1>7 DEF Progress
    <2>1. n - r2.size = d + 1
      BY <1>3, <1>5, <1>7
    <2>2. r.program_counter[h] = Counter(h, d)
      BY <1>1 DEF GoodRow, Progress
    <2>3. h \in Nat /\ i \in Nat
      BY <1>2, <1>3
    <2> HIDE DEF d, n
    <2>4. CASE h = i
      <3>1. r2.program_counter[h] = d - 3 * i + 1
        BY <2>4, <1>1, <1>2, <1>7 DEF PCBs
      <3> QED
        BY <3>1, <2>1, <2>3, <2>4, <1>2 DEF Counter
    <2>5. CASE h # i
      <3>1. r2.program_counter[h] = Counter(h, d)
        BY <2>2, <2>5, <1>1, <1>7 DEF PCBs
      <3>2. h < i \/ h > i
        BY <2>3, <2>5
      <3> QED
        BY <3>1, <3>2, <2>1, <2>3, <1>2 DEF Counter
    <2> QED
      BY <2>4, <2>5
  <1>9. LoadedFirst(r2)
    <2> SUFFICES ASSUME NEW h \in PagesOf(r.script)
                 PROVE  /\ r.index[h] = NoFrames \/ Loaded(r.index[h])
                        /\ r2.program_counter[h] > 0 => Loaded(r.index[h])
                        /\ \A j \in Lines : r.valid_bit[h][j] => Loaded(r.index[h])
      BY <1>7 DEF LoadedFirst
    <2>1. /\ r.index[h] = NoFrames \/ Loaded(r.index[h])
          /\ r.program_counter[h] > 0 => Loaded(r.index[h])
          /\ \A j \in Lines : r.valid_bit[h][j] => Loaded(r.index[h])
      BY <1>1 DEF GoodRow, LoadedFirst
    <2>2. h # i => r2.program_counter[h] = r.program_counter[h]
      BY <1>1, <1>7 DEF PCBs
    <2>3. r.program_counter[i] \in Lines
      BY <1>6 DEF r
    <2>4. r.valid_bit[i][r.program_counter[i]]
      BY DEF r
    <2> QED
      BY <2>1, <2>2, <2>3, <2>4
  <1>10. GoodRow(r2)
    BY <1>1, <1>7, <1>8, <1>9 DEF GoodRow
  <1> QED
    BY <1>4, <1>7, <1>10 DEF Good, r

-----------------------------------------------------------------------------
\* Memory.

\* The variables of m are those of old, where they were.
SameVars(old, m) == \A q \in VarZone : m[q] = old[q]

\* The variables of old are still there; there may be new ones.
Kept(old, m) == \A q \in VarZone : old[q].var # None => m[q].var = old[q].var

\* A position of no page is no position of a variable.
SmallStore == FrameStore + VarStore <= Unloaded

\* Freeing positions.
LEMMA FreeMemory ==
    ASSUME NEW m, GoodMemory(m), NEW P
    PROVE  /\ GoodMemory(mem_free(m, P))
           /\ \A q \in Memory : q \notin P => mem_free(m, P)[q] = m[q]
           /\ \A q \in Memory : q \in P => mem_free(m, P)[q].var = None
           /\ One(m) => One(mem_free(m, P))
  <1> DEFINE f == [var |-> None, value |-> NoLine]
  <1>1. \A q : Cell(q, f)
    <2>1. f.var = None /\ f.value = NoLine
      OBVIOUS
    <2>2. f = [var |-> f.var, value |-> f.value]
      OBVIOUS
    <2>3. None \in 0 .. MaxPid
      BY PidAssumption DEF None
    <2> HIDE DEF f
    <2> QED
      BY <2>1, <2>2, <2>3 DEF Cell
  <1> DEFINE m2 == mem_free(m, P)
  <1>2. /\ DOMAIN m2 = Memory
        /\ \A q \in Memory : q \notin P => m2[q] = m[q]
        /\ \A q \in Memory : q \in P => m2[q] = f
    BY DEF mem_free
  <1>3. f.var = None
    OBVIOUS
  <1> HIDE DEF f, m2
  <1>4. GoodMemory(m2)
    BY <1>1, <1>2 DEF GoodMemory
  <1>5. VarZone \subseteq Memory
    BY StoreAssumption DEF VarZone, Memory
  <1>6. One(m) => One(m2)
    BY <1>2, <1>3, <1>5 DEF One
  <1> QED
    BY <1>2, <1>3, <1>4, <1>6 DEF m2

\* Loading a page writes to a frame.
LEMMA LoadMemory ==
    ASSUME NEW s, GoodMemory(s.mem), FreeFrames(s.mem) # {}, NEW p \in 0 .. MaxPid, NEW i,
           NEW m, m = load_PAGE(s, p, i).mem
    PROVE  GoodMemory(m) /\ SameVars(s.mem, m)
  <1> DEFINE b == frame_alloc(s.mem)
             pos == s.pcb[p].source_file
             read == {j \in 0 .. 2 : pos + j < Len(s.pcb[p].script.lines)}
             V(q) == IF q - b \in read THEN <<p, pos + (q - b) + 1>> ELSE s.mem[q].value
  <1>1. m = [q \in Memory |-> IF q - b \in 0 .. 2 THEN [var |-> p, value |-> V(q)] ELSE s.mem[q]]
    BY DEF load_PAGE
  <1>2. b \in 0 .. FrameStore - 3
    BY AllocFacts
  <1> HIDE DEF b, V
  <1>3. \A q \in VarZone : q \in Memory /\ q - b \notin 0 .. 2
    BY <1>2, StoreAssumption DEF VarZone, Memory
  <1>4. \A q \in Memory : q - b \in 0 .. 2 => m[q] = [var |-> p, value |-> V(q)]
    BY <1>1
  <1>5. DOMAIN m = Memory /\ \A q \in Memory : q - b \notin 0 .. 2 => m[q] = s.mem[q]
    BY <1>1
  <1>6. \A q \in Memory : Cell(q, m[q])
    <2> SUFFICES ASSUME NEW q \in Memory
                 PROVE  Cell(q, m[q])
      OBVIOUS
    <2>1. CASE q - b \in 0 .. 2
      <3>1. m[q] = [var |-> p, value |-> V(q)]
        BY <2>1, <1>4
      <3>2. q \notin VarZone
        BY <2>1, <1>3
      <3> QED
        BY <3>1, <3>2 DEF Cell
    <2>2. CASE q - b \notin 0 .. 2
      BY <2>2, <1>5 DEF GoodMemory
    <2> QED
      BY <2>1, <2>2
  <1> QED
    BY <1>3, <1>5, <1>6 DEF GoodMemory, SameVars

\* Setting a variable takes a free position of the variables at most.
LEMMA SetMemory ==
    ASSUME NEW m, GoodMemory(m), NEW v \in VarNames, NEW x, NEW m2, m2 = mem_set_value(m, v, x)
    PROVE  /\ GoodMemory(m2)
           /\ Kept(m, m2)
           /\ One(m) => One(m2)
  <1> DEFINE old == {q \in VarZone : m[q].var = v}
             free == {q \in VarZone : m[q].var = None}
             First(S) == CHOOSE q \in S : \A r \in S : q <= r
             c == [var |-> v, value |-> <<0, x>>]
  <1>0. VarZone \subseteq Memory /\ VarZone \subseteq Nat
    BY StoreAssumption DEF VarZone, Memory
  <1>1. ASSUME NEW S \in SUBSET VarZone, S # {}
        PROVE  First(S) \in S
    <2>1. \E q \in S : \A r \in S : q <= r
      BY <1>0, <1>1, LeastNat
    <2> QED
      BY <2>1
  <1>2. m2 = CASE old # {} -> [m EXCEPT ![First(old)].value = <<0, x>>]
               [] old = {} /\ free # {} -> [m EXCEPT ![First(free)] = c]
               [] OTHER -> m
    BY DEF mem_set_value
  <1>3. CASE old # {}
    <2>1. PICK o \in old : m2 = [m EXCEPT ![o].value = <<0, x>>]
      <3>1. First(old) \in old
        BY <1>1, <1>3
      <3> HIDE DEF First, old
      <3> QED
        BY <3>1, <1>2, <1>3
    <2>2. o \in VarZone /\ o \in Memory
      BY <1>0
    <2> DEFINE w == [m[o] EXCEPT !.value = <<0, x>>]
    <2>3. m[o] = [var |-> m[o].var, value |-> m[o].value] /\ Cell(o, m[o])
      BY <2>2 DEF GoodMemory, Cell
    <2>4. w = [var |-> m[o].var, value |-> <<0, x>>]
      BY <2>3
    <2>5. w.var = m[o].var /\ w = [var |-> w.var, value |-> w.value]
      BY <2>4
    <2>6. m2 = [m EXCEPT ![o] = w]
      BY <2>1
    <2> HIDE DEF w, old
    <2>7. /\ DOMAIN m2 = Memory
          /\ \A q \in Memory : q # o => m2[q] = m[q]
          /\ m2[o] = w
      BY <2>2, <2>6 DEF GoodMemory
    <2>8. Cell(o, w)
      BY <2>3, <2>5 DEF Cell
    <2>9. \A q \in VarZone : m2[q].var = m[q].var
      BY <2>5, <2>7, <1>0
    <2> QED
      BY <2>7, <2>8, <2>9 DEF GoodMemory, One, Kept
  <1>4. CASE old = {} /\ free # {}
    <2>1. PICK o \in free : m2 = [m EXCEPT ![o] = c]
      <3>1. First(free) \in free
        BY <1>1, <1>4
      <3> HIDE DEF First, old, free, c
      <3> QED
        BY <3>1, <1>2, <1>4
    <2>2. o \in VarZone /\ o \in Memory /\ m[o].var = None
      BY <1>0
    <2>3. c.var = v /\ c = [var |-> c.var, value |-> c.value]
      OBVIOUS
    <2>4. \A q \in VarZone : m[q].var # v
      BY <1>4
    <2> HIDE DEF c, old, free
    <2>5. /\ DOMAIN m2 = Memory
          /\ \A q \in Memory : q # o => m2[q] = m[q]
          /\ m2[o] = c
      BY <2>1, <2>2 DEF GoodMemory
    <2>6. Cell(o, c)
      BY <2>2, <2>3 DEF Cell
    <2>7. \A q \in VarZone : IF q = o THEN m2[q].var = v ELSE m2[q].var = m[q].var
      BY <2>3, <2>5, <1>0
    <2>8. One(m) => One(m2)
      BY <2>2, <2>4, <2>7 DEF One
    <2> QED
      BY <2>2, <2>5, <2>6, <2>7, <2>8 DEF GoodMemory, Kept
  <1>5. CASE old = {} /\ free = {}
    <2> HIDE DEF old, free, First
    <2> QED
      BY <1>2, <1>5 DEF Kept
  <1> QED
    BY <1>3, <1>4, <1>5

-----------------------------------------------------------------------------
\* Lists.

Put(x, s) == << x >> \o s

\* A list with x put in front.
LEMMA FrontFacts ==
    ASSUME NEW S, NEW s \in Seq(S), NEW x \in S, NEW l, l = Put(x, s)
    PROVE  /\ l \in Seq(S) /\ Len(l) = Len(s) + 1
           /\ Has(l, x)
           /\ \A y : Has(s, y) => Has(l, y)
           /\ \A y : Has(l, y) => y = x \/ Has(s, y)
  <1>1. << x >> \in Seq(S) /\ Len(<< x >>) = 1 /\ << x >>[1] = x
    OBVIOUS
  <1>2. /\ l \in Seq(S) /\ Len(l) = 1 + Len(s)
        /\ \A k \in 1 .. 1 + Len(s) : l[k] = IF k <= 1 THEN << x >>[k] ELSE s[k - 1]
    BY <1>1, ConcatProperties DEF Put
  <1>3. Len(s) \in Nat
    OBVIOUS
  <1>4. l[1] = x /\ \A k \in 2 .. Len(l) : l[k] = s[k - 1]
    BY <1>1, <1>2, <1>3
  <1>5. ASSUME NEW y, Has(s, y)
        PROVE  Has(l, y)
    <2>1. PICK k \in 1 .. Len(s) : s[k] = y
      BY <1>5 DEF Has
    <2>2. k + 1 \in 2 .. Len(l) /\ (k + 1) - 1 = k
      BY <1>2, <1>3
    <2>3. l[k + 1] = y
      BY <2>1, <2>2, <1>4
    <2>4. k + 1 \in 1 .. Len(l)
      BY <2>2
    <2> QED
      BY <2>3, <2>4 DEF Has
  <1>6. ASSUME NEW y, Has(l, y), y # x
        PROVE  Has(s, y)
    <2>1. PICK k \in 1 .. Len(l) : l[k] = y
      BY <1>6 DEF Has
    <2>2. k # 1
      BY <2>1, <1>4, <1>6
    <2>3. k \in 2 .. Len(l) /\ k - 1 \in 1 .. Len(s)
      BY <2>2, <1>2, <1>3
    <2>4. s[k - 1] = y
      BY <2>1, <2>3, <1>4
    <2> QED
      BY <2>3, <2>4 DEF Has
  <1>7. Has(l, x)
    BY <1>2, <1>3, <1>4 DEF Has
  <1> QED
    BY <1>2, <1>3, <1>5, <1>6, <1>7

\* The LRU list without one node.
LEMMA WithoutFacts ==
    ASSUME NEW S, LRU_CACHE \in Seq(S), NEW k \in 1 .. Len(LRU_CACHE), NEW w, w = Without(k)
    PROVE  /\ w \in Seq(S) /\ Len(w) = Len(LRU_CACHE) - 1
           /\ \A h \in 1 .. Len(w) : w[h] = IF h < k THEN LRU_CACHE[h] ELSE LRU_CACHE[h + 1]
           /\ \A y : Has(w, y) => Has(LRU_CACHE, y)
           /\ \A y : Has(LRU_CACHE, y) => y = LRU_CACHE[k] \/ Has(w, y)
  <1> DEFINE l == LRU_CACHE
             n == Len(l)
             a == SubSeq(l, 1, k - 1)
             b == SubSeq(l, k + 1, n)
  <1>1. n \in Nat /\ k \in Nat /\ \A h \in 1 .. n : l[h] \in S
    BY ElementOfSeq
  <1>2. (\A h \in 1 .. k - 1 : l[h] \in S) /\ \A h \in k + 1 .. n : l[h] \in S
    BY <1>1
  <1> HIDE DEF l, n
  <1>3. /\ a \in Seq(S) /\ Len(a) = IF 1 <= k - 1 THEN (k - 1) - 1 + 1 ELSE 0
        /\ \A h \in 1 .. (k - 1) - 1 + 1 : a[h] = l[1 + h - 1]
    <2>1. 1 \in Int /\ k - 1 \in Int
      BY <1>1
    <2> QED
      BY <2>1, <1>2, SubSeqProperties
  <1>4. /\ b \in Seq(S) /\ Len(b) = IF k + 1 <= n THEN n - (k + 1) + 1 ELSE 0
        /\ \A h \in 1 .. n - (k + 1) + 1 : b[h] = l[(k + 1) + h - 1]
    <2>1. k + 1 \in Int /\ n \in Int
      BY <1>1
    <2> QED
      BY <2>1, <1>2, SubSeqProperties
  <1> HIDE DEF a, b
  <1>5. /\ w \in Seq(S) /\ Len(w) = Len(a) + Len(b)
        /\ \A h \in 1 .. Len(a) + Len(b) : w[h] = IF h <= Len(a) THEN a[h] ELSE b[h - Len(a)]
    <2>1. w = a \o b
      BY DEF Without, a, b, l, n
    <2>2. a \in Seq(S) /\ b \in Seq(S)
      BY <1>3, <1>4
    <2>3. /\ a \o b \in Seq(S) /\ Len(a \o b) = Len(a) + Len(b)
          /\ \A h \in 1 .. Len(a) + Len(b) :
                (a \o b)[h] = IF h <= Len(a) THEN a[h] ELSE b[h - Len(a)]
      BY <2>2, ConcatProperties
    <2> QED
      BY <2>1, <2>3
  <1>6. k \in 1 .. n
    BY DEF n, l
  <1>7. Len(a) = k - 1 /\ Len(b) = n - k /\ Len(w) = n - 1
    BY <1>1, <1>3, <1>4, <1>5, <1>6
  <1>8. \A h \in 1 .. n - 1 : w[h] = IF h < k THEN l[h] ELSE l[h + 1]
    <2> SUFFICES ASSUME NEW h \in 1 .. n - 1
                 PROVE  w[h] = IF h < k THEN l[h] ELSE l[h + 1]
      OBVIOUS
    <2>1. w[h] = IF h <= k - 1 THEN a[h] ELSE b[h - (k - 1)]
      BY <1>1, <1>5, <1>6, <1>7
    <2>2. CASE h < k
      <3>1. h \in 1 .. (k - 1) - 1 + 1 /\ 1 + h - 1 = h /\ h <= k - 1
        BY <2>2, <1>1
      <3> QED
        BY <3>1, <2>1, <2>2, <1>3
    <2>3. CASE h >= k
      <3>1. /\ h - (k - 1) \in 1 .. n - (k + 1) + 1 /\ ~(h <= k - 1)
            /\ (k + 1) + (h - (k - 1)) - 1 = h + 1
        BY <2>3, <1>1
      <3>2. b[h - (k - 1)] = l[h + 1]
        BY <3>1, <1>4
      <3> QED
        BY <3>1, <3>2, <2>1, <2>3, <1>1
    <2> QED
      BY <2>2, <2>3, <1>1
  <1>9. ASSUME NEW y, Has(w, y)
        PROVE  Has(l, y)
    <2>1. PICK h \in 1 .. n - 1 : w[h] = y
      BY <1>7, <1>9 DEF Has
    <2>2. h \in 1 .. n /\ h + 1 \in 1 .. n
      BY <1>1
    <2>3. \E m \in 1 .. n : l[m] = y
      BY <2>1, <2>2, <1>8
    <2> QED
      BY <2>3 DEF Has, n
  <1>10. ASSUME NEW y, Has(l, y), y # l[k]
         PROVE  Has(w, y)
    <2>1. PICK m \in 1 .. n : l[m] = y
      BY <1>10 DEF Has, n
    <2>2. m # k
      BY <2>1, <1>10
    <2>3. CASE m < k
      <3>1. m \in 1 .. n - 1
        BY <2>3, <1>1, <1>6
      <3>2. w[m] = y
        BY <3>1, <2>1, <2>3, <1>8
      <3> QED
        BY <3>1, <3>2, <1>7 DEF Has
    <2>4. CASE m > k
      <3>1. m - 1 \in 1 .. n - 1 /\ ~(m - 1 < k) /\ (m - 1) + 1 = m
        BY <2>4, <1>1, <1>6
      <3>2. w[m - 1] = y
        BY <3>1, <2>1, <1>8
      <3> QED
        BY <3>1, <3>2, <1>7 DEF Has
    <2> QED
      BY <2>2, <2>3, <2>4, <1>1
  <1> QED
    BY <1>5, <1>7, <1>8, <1>9, <1>10 DEF l, n

Includes(s, l) == \A y : Has(s, y) => Has(l, y)

\* A list with x put at its end.
LEMMA AppendFacts ==
    ASSUME NEW S, NEW s \in Seq(S), NEW x \in S, NEW l, l = Append(s, x)
    PROVE  l \in Seq(S) /\ Has(l, x) /\ Includes(s, l)
  <1>1. /\ l \in Seq(S) /\ Len(l) = Len(s) + 1 /\ l[Len(s) + 1] = x
        /\ \A k \in 1 .. Len(s) : l[k] = s[k]
    BY AppendProperties
  <1>2. Len(s) \in Nat
    OBVIOUS
  <1>3. Has(l, x)
    BY <1>1, <1>2 DEF Has
  <1>4. \A k \in 1 .. Len(s) : k \in 1 .. Len(l)
    BY <1>1, <1>2
  <1>5. \A y : Has(s, y) => Has(l, y)
    BY <1>1, <1>4 DEF Has
  <1> QED
    BY <1>1, <1>3, <1>5 DEF Includes

\* A page that is put in front of the list may have valid lines.
LEMMA FrontResident ==
    ASSUME NEW t0, NEW t, NEW p \in Nat, p \in DOMAIN t0,
           NEW i \in Nat, i \in PagesOf(t0[p].script),
           SameBut(t0, t, p, i),
           NEW l \in Seq(Nodes), Resident(t0, l), NEW l2, l2 = Put(<<p, i>>, l)
    PROVE  Resident(t, l2) /\ l2 \in Seq(Nodes) /\ Len(l2) = Len(l) + 1
  <1> DEFINE x == <<p, i>>
  <1>1. x \in Nodes /\ l2 = Put(x, l)
    BY DEF Nodes
  <1>2. /\ l2 \in Seq(Nodes) /\ Len(l2) = Len(l) + 1
        /\ Has(l2, x)
        /\ \A y : Has(l, y) => Has(l2, y)
        /\ \A y : Has(l2, y) => y = x \/ Has(l, y)
    <2> HIDE DEF x
    <2> QED
      BY <1>1, FrontFacts
  <1>3. ASSUME NEW g \in Nodes, Has(l2, g)
        PROVE  IsPage(t, g)
    <2>1. g = <<p, i>> \/ Has(l, g)
      BY <1>2, <1>3
    <2>2. CASE g = <<p, i>>
      BY <2>2 DEF IsPage, SameBut
    <2>3. CASE Has(l, g)
      <3>1. IsPage(t0, g)
        BY <2>3 DEF Resident
      <3> QED
        BY <3>1 DEF IsPage, SameBut
    <2> QED
      BY <2>1, <2>2, <2>3
  <1>4. ASSUME NEW q \in DOMAIN t, NEW h \in PagesOf(t[q].script), NEW j \in Lines,
               t[q].valid_bit[h][j]
        PROVE  Has(l2, <<q, h>>)
    <2>1. CASE q = p /\ h = i
      BY <2>1, <1>2
    <2>2. CASE q # p \/ h # i
      <3>1. q \in DOMAIN t0 /\ h \in PagesOf(t0[q].script) /\ t0[q].valid_bit[h][j]
        BY <2>2, <1>4 DEF SameBut
      <3> QED
        BY <3>1, <1>2 DEF Resident
    <2> QED
      BY <2>1, <2>2
  <1> QED
    BY <1>2, <1>3, <1>4 DEF Resident

\* A page that is taken from the list must not have any.
LEMMA EvictResident ==
    ASSUME NEW t0, NEW t, NEW k \in 1 .. Len(LRU_CACHE),
           LRU_CACHE \in Seq(Nodes), Resident(t0, LRU_CACHE),
           NEW p, NEW i, LRU_CACHE[k] = <<p, i>>,
           SameBut(t0, t, p, i), \A j \in Lines : ~t[p].valid_bit[i][j],
           NEW l2, l2 = Without(k)
    PROVE  Resident(t, l2) /\ l2 \in Seq(Nodes) /\ Len(l2) = Len(LRU_CACHE) - 1
  <1>2. /\ l2 \in Seq(Nodes) /\ Len(l2) = Len(LRU_CACHE) - 1
        /\ \A y : Has(l2, y) => Has(LRU_CACHE, y)
        /\ \A y : Has(LRU_CACHE, y) => y = <<p, i>> \/ Has(l2, y)
    BY WithoutFacts
  <1>3. ASSUME NEW g \in Nodes, Has(l2, g)
        PROVE  IsPage(t, g)
    <2>1. IsPage(t0, g)
      BY <1>2, <1>3 DEF Resident
    <2> QED
      BY <2>1 DEF IsPage, SameBut
  <1>4. ASSUME NEW q \in DOMAIN t, NEW h \in PagesOf(t[q].script), NEW j \in Lines,
               t[q].valid_bit[h][j]
        PROVE  Has(l2, <<q, h>>)
    <2>1. q # p \/ h # i
      BY <1>4
    <2>2. q \in DOMAIN t0 /\ h \in PagesOf(t0[q].script) /\ t0[q].valid_bit[h][j]
      BY <2>1, <1>4 DEF SameBut
    <2>3. Has(LRU_CACHE, <<q, h>>)
      BY <2>2 DEF Resident
    <2>4. <<q, h>> # <<p, i>>
      BY <2>1
    <2> QED
      BY <2>3, <2>4, <1>2
  <1> QED
    BY <1>2, <1>3, <1>4 DEF Resident

\* The tables differ in lines executed at most.
SamePages(t0, t) ==
    /\ DOMAIN t = DOMAIN t0
    /\ \A q \in DOMAIN t0 : t[q].script = t0[q].script /\ t[q].valid_bit = t0[q].valid_bit

\* A node that is moved to the front.
LEMMA MoveResident ==
    ASSUME NEW t0, NEW t, NEW k \in 1 .. Len(LRU_CACHE),
           LRU_CACHE \in Seq(Nodes), Resident(t0, LRU_CACHE),
           SamePages(t0, t), NEW l2, l2 = << LRU_CACHE[k] >> \o Without(k)
    PROVE  Resident(t, l2) /\ l2 \in Seq(Nodes) /\ Len(l2) = Len(LRU_CACHE)
  <1> DEFINE x == LRU_CACHE[k]
             w == Without(k)
  <1>1. x \in Nodes /\ Len(LRU_CACHE) \in Nat
    BY ElementOfSeq
  <1>2. /\ w \in Seq(Nodes) /\ Len(w) = Len(LRU_CACHE) - 1
        /\ \A y : Has(w, y) => Has(LRU_CACHE, y)
        /\ \A y : Has(LRU_CACHE, y) => y = x \/ Has(w, y)
    BY WithoutFacts
  <1>3. Has(LRU_CACHE, x)
    BY DEF Has
  <1> HIDE DEF x, w
  <1>4. /\ l2 \in Seq(Nodes) /\ Len(l2) = Len(w) + 1
        /\ Has(l2, x)
        /\ \A y : Has(w, y) => Has(l2, y)
        /\ \A y : Has(l2, y) => y = x \/ Has(w, y)
    <2>1. l2 = Put(x, w)
      BY DEF x, w, Put
    <2>2. x \in Nodes /\ w \in Seq(Nodes)
      BY <1>1, <1>2
    <2> QED
      BY <2>1, <2>2, FrontFacts
  <1>5. \A y : Has(l2, y) <=> Has(LRU_CACHE, y)
    BY <1>2, <1>3, <1>4
  <1>6. Resident(t, l2)
    BY <1>5 DEF Resident, IsPage, SamePages
  <1>7. Len(w) = Len(LRU_CACHE) - 1 /\ Len(l2) = Len(w) + 1
    BY <1>2, <1>4
  <1>8. Len(l2) = Len(LRU_CACHE)
    BY <1>1, <1>7
  <1> QED
    BY <1>4, <1>6, <1>8

\* A list over a set is a list over a larger one.
LEMMA SeqMonotone ==
    ASSUME NEW S, NEW T, S \subseteq T, NEW s \in Seq(S)
    PROVE  s \in Seq(T)
  <1>1. Len(s) \in Nat /\ s \in [1 .. Len(s) -> S]
    BY LenProperties
  <1>2. s \in [1 .. Len(s) -> T]
    BY <1>1
  <1> QED
    BY <1>1, <1>2

-----------------------------------------------------------------------------
\* Admission.

\* A new PCB has no page yet.
LEMMA NewRow ==
    ASSUME NEW s \in Scripts
    PROVE  /\ GoodRow(NewPCB(s))
           /\ NewPCB(s).script = s
           /\ \A i \in PagesOf(s) : \A j \in Lines : ~NewPCB(s).valid_bit[i][j]
  <1> DEFINE P == 0 .. PAGE_table_size(count_lines(s)) - 1
             n == count_lines(s)
             r == NewPCB(s)
  <1>1. /\ r.script = s /\ r.size = n /\ r.source_file = 0
        /\ r.program_counter = [i \in P |-> 0]
        /\ r.index = [i \in P |-> [j \in 0 .. 2 |-> Unloaded]]
        /\ r.valid_bit = [i \in P |-> [j \in 0 .. 2 |-> FALSE]]
        /\ r = [script |-> r.script, size |-> r.size, source_file |-> r.source_file,
                program_counter |-> r.program_counter, index |-> r.index,
                valid_bit |-> r.valid_bit]
    BY DEF NewPCB
  <1>2. n \in Nat \ {0} /\ PagesOf(s) \subseteq Nat
    BY CountFacts
  <1> HIDE DEF n, r
  <1>3. P = PagesOf(s)
    BY DEF PagesOf
  <1> HIDE DEF P
  <1>4. NoFrames \in Frames /\ NoFrames = [j \in 0 .. 2 |-> Unloaded]
    BY DEF NoFrames, Frames, Lines, Unloaded
  <1>5. /\ r.program_counter \in [PagesOf(s) -> 0 .. 3]
        /\ r.index \in [PagesOf(s) -> Frames]
        /\ r.valid_bit \in [PagesOf(s) -> [Lines -> BOOLEAN]]
    BY <1>1, <1>3, <1>4 DEF Lines
  <1>6. r \in PCBs(s)
    <2>1. r.size \in 0 .. count_lines(s) /\ r.source_file \in Nat
      BY <1>1, <1>2 DEF n
    <2> QED
      BY <2>1, <1>1, <1>5 DEF PCBs
  <1>7. Progress(r)
    <2>1. \A i \in PagesOf(s) : Counter(i, 0) = 0
      BY <1>2 DEF Counter
    <2>2. count_lines(r.script) - r.size = 0
      BY <1>1, <1>2 DEF n
    <2> QED
      BY <2>1, <2>2, <1>1, <1>3 DEF Progress
  <1>8. LoadedFirst(r)
    BY <1>1, <1>3, <1>4 DEF LoadedFirst, Lines
  <1> QED
    BY <1>1, <1>3, <1>6, <1>7, <1>8 DEF GoodRow, r, Lines

\* new_proc with enough frames.
LEMMA InitFacts ==
    ASSUME IInv, NEW s \in Scripts, PID_counter <= MaxPid, PCB_init(s).fits,
           NEW t, t = PCB_init(s).st.pcb, NEW m, m = PCB_init(s).st.mem,
           NEW l, l = (IF PCB_init(s).two THEN << <<PID_counter, 1>> >> ELSE << >>)
                         \o << <<PID_counter, 0>> >> \o LRU_CACHE
    PROVE  /\ DOMAIN t = DOMAIN pcb \cup {PID_counter}
           /\ \A q \in DOMAIN pcb : t[q].size = pcb[q].size
           /\ Good(t) /\ GoodMemory(m)
           /\ SameVars(shellmemory, m)
           /\ l \in Seq(Nodes) /\ Resident(t, l) /\ Len(l) > 0 /\ FrameStore >= 3
  <1> DEFINE p == PID_counter
             t0 == [q \in DOMAIN pcb \cup {p} |-> IF q = p THEN NewPCB(s) ELSE pcb[q]]
             st0 == [mem |-> shellmemory, pcb |-> t0]
             two == PAGE_table_size(count_lines(s)) >= 2
             st1 == load_PAGE(st0, p, 0)
             st2 == IF two THEN load_PAGE(st1, p, 1) ELSE st1
             fits == FreeFrames(st0.mem) # {} /\ (two => FreeFrames(st1.mem) # {})
             l1 == Put(<<p, 0>>, LRU_CACHE)
  <1>1. p \in 1 .. MaxPid /\ p \notin DOMAIN pcb /\ LRU_CACHE \in Seq(Nodes) /\ p \in Nat
    BY DEF IInv
  <1>2. PCB_init(s) = [fits |-> fits, two |-> two, st |-> IF fits THEN st2 ELSE st0]
    BY DEF PCB_init
  <1>3. fits /\ t = st2.pcb /\ m = st2.mem /\ PCB_init(s).two = two
    <2> HIDE DEF fits, two, st2, st0
    <2>1. PCB_init(s).fits = fits /\ PCB_init(s).two = two
          /\ PCB_init(s).st = IF fits THEN st2 ELSE st0
      BY <1>2
    <2> QED
      BY <2>1
  <1>4. /\ DOMAIN t0 = DOMAIN pcb \cup {p}
        /\ t0[p] = NewPCB(s)
        /\ \A q \in DOMAIN pcb : t0[q] = pcb[q]
    BY <1>1
  <1>5. st0.mem = shellmemory /\ st0.pcb = t0
    OBVIOUS
  <1> HIDE DEF t0, st0
  <1>6. /\ GoodRow(NewPCB(s)) /\ NewPCB(s).script = s
        /\ \A i \in PagesOf(s) : \A j \in Lines : ~NewPCB(s).valid_bit[i][j]
    BY NewRow
  <1>7. Good(t0)
    BY <1>4, <1>6 DEF Good, IInv
  <1>8. Resident(t0, LRU_CACHE)
    BY <1>1, <1>4, <1>6 DEF IInv, Resident, IsPage
  <1>9. /\ PagesOf(s) \subseteq Nat /\ 0 \in PagesOf(s)
        /\ two => 1 \in PagesOf(s)
    BY CountFacts DEF PagesOf
  <1>10. FreeFrames(st0.mem) # {} /\ FrameStore >= 3
    BY <1>3, AllocFacts
  <1>11. /\ SameBut(t0, st1.pcb, p, 0) /\ Good(st1.pcb)
    <2>1. Good(st0.pcb) /\ p \in DOMAIN st0.pcb /\ 0 \in PagesOf(st0.pcb[p].script)
      BY <1>4, <1>5, <1>6, <1>7, <1>9
    <2>2. SameBut(st0.pcb, st1.pcb, p, 0) /\ Good(st1.pcb)
      BY <2>1, <1>10, LoadTable
    <2> QED
      BY <2>2, <1>5
  <1>12. GoodMemory(st1.mem) /\ SameVars(shellmemory, st1.mem)
    <2>1. GoodMemory(st0.mem) /\ p \in 0 .. MaxPid
      BY <1>1, <1>5 DEF IInv
    <2>2. GoodMemory(st1.mem) /\ SameVars(st0.mem, st1.mem)
      BY <2>1, <1>10, LoadMemory
    <2> QED
      BY <2>2, <1>5
  <1>13. Resident(st1.pcb, l1) /\ l1 \in Seq(Nodes) /\ Len(l1) = Len(LRU_CACHE) + 1
    <2>1. p \in DOMAIN t0 /\ 0 \in PagesOf(t0[p].script)
      BY <1>1, <1>4, <1>6, <1>9
    <2> DEFINE t1 == st1.pcb
               z == 0
    <2>2. /\ p \in Nat /\ p \in DOMAIN t0 /\ z \in Nat /\ z \in PagesOf(t0[p].script)
          /\ SameBut(t0, t1, p, z)
          /\ LRU_CACHE \in Seq(Nodes) /\ Resident(t0, LRU_CACHE)
          /\ l1 = Put(<<p, z>>, LRU_CACHE)
      BY <2>1, <1>1, <1>8, <1>11
    <2> HIDE DEF st1, t1, l1, p, two, fits, st2, z
    <2>3. Resident(t1, l1) /\ l1 \in Seq(Nodes) /\ Len(l1) = Len(LRU_CACHE) + 1
      BY <2>2, FrontResident
    <2> QED
      BY <2>3 DEF t1
  <1>14. Len(l1) > 0
    BY <1>1, <1>13
  <1> HIDE DEF st1, l1
  <1>15. CASE ~two
    <2>1. t = st1.pcb /\ m = st1.mem
      BY <1>3, <1>15
    <2>2. l = l1
      <3>1. << <<p, 0>> >> \in Seq(Nodes)
        BY <1>1 DEF Nodes
      <3>2. << >> \o << <<p, 0>> >> = << <<p, 0>> >>
        BY <3>1, ConcatEmptySeq
      <3> QED
        BY <3>2, <1>3, <1>15 DEF l1, Put
    <2> QED
      BY <2>1, <2>2, <1>4, <1>10, <1>11, <1>12, <1>13, <1>14 DEF SameBut
  <1>16. CASE two
    <2>1. t = load_PAGE(st1, p, 1).pcb /\ m = load_PAGE(st1, p, 1).mem
      BY <1>3, <1>16
    <2>2. FreeFrames(st1.mem) # {}
      BY <1>3, <1>16
    <2>3. p \in DOMAIN st1.pcb /\ 1 \in PagesOf(st1.pcb[p].script)
      BY <1>1, <1>4, <1>6, <1>9, <1>11, <1>16 DEF SameBut
    <2>4. SameBut(st1.pcb, t, p, 1) /\ Good(t)
      <3>1. Good(st1.pcb) /\ p \in DOMAIN st1.pcb /\ 1 \in PagesOf(st1.pcb[p].script)
        BY <2>3, <1>11
      <3> QED
        BY <3>1, <2>1, <2>2, LoadTable
    <2>5. GoodMemory(m) /\ SameVars(shellmemory, m)
      <3>1. GoodMemory(m) /\ SameVars(st1.mem, m)
        <4>1. p \in 0 .. MaxPid
          BY <1>1
        <4> QED
          BY <4>1, <2>1, <2>2, <1>12, LoadMemory
      <3> QED
        BY <3>1, <1>12 DEF SameVars
    <2>6. l = Put(<<p, 1>>, l1)
      <3>1. << <<p, 0>> >> \in Seq(Nodes) /\ << <<p, 1>> >> \in Seq(Nodes)
        BY <1>1 DEF Nodes
      <3>2. (<< <<p, 1>> >> \o << <<p, 0>> >>) \o LRU_CACHE
              = << <<p, 1>> >> \o (<< <<p, 0>> >> \o LRU_CACHE)
        BY <3>1, <1>1, ConcatAssociative
      <3> QED
        BY <3>2, <1>3, <1>16 DEF l1, Put
    <2>7. Resident(t, l) /\ l \in Seq(Nodes) /\ Len(l) = Len(l1) + 1
      <3> DEFINE l2 == Put(<<p, 1>>, l1)
      <3>1. p \in Nat /\ 1 \in Nat /\ l1 \in Seq(Nodes) /\ Resident(st1.pcb, l1)
        BY <1>1, <1>13
      <3>2. Resident(t, l2) /\ l2 \in Seq(Nodes) /\ Len(l2) = Len(l1) + 1
        BY <3>1, <2>3, <2>4, FrontResident
      <3> HIDE DEF l2
      <3> QED
        BY <3>2, <2>6 DEF l2
    <2>8. Len(l) > 0
      BY <2>7, <1>13
    <2>9. DOMAIN t = DOMAIN pcb \cup {p} /\ \A q \in DOMAIN pcb : t[q].size = pcb[q].size
      BY <2>4, <1>4, <1>11 DEF SameBut
    <2> QED
      BY <2>4, <2>5, <2>7, <2>8, <2>9, <1>10
  <1> QED
    BY <1>15, <1>16

-----------------------------------------------------------------------------
\* One line.

\* What run_proc is about to execute.
LEMMA TurnFacts ==
    ASSUME IInv, cur # Idle, NEW f, f = Fetch
    PROVE  /\ cur.pid \in DOMAIN pcb /\ cur.pid \in Nat
           /\ cur.left \in 1 .. 2 /\ cur.left <= pcb[cur.pid].size
           /\ pcb[cur.pid].size \in Nat \ {0}
           /\ f.page = CurrentPage(cur.pid)
           /\ f.page \in Nat /\ f.page \in PagesOf(pcb[cur.pid].script)
           /\ f.valid = pcb[cur.pid].valid_bit[f.page][pcb[cur.pid].program_counter[f.page]]
           /\ f.valid \in BOOLEAN
           /\ f.valid => Has(LRU_CACHE, <<cur.pid, f.page>>)
  <1> DEFINE p == cur.pid
             r == pcb[p]
             i == CurrentPage(p)
             c == r.program_counter[i]
             d == count_lines(r.script) - r.size
  <1>1. /\ p \in DOMAIN pcb /\ p \in Nat /\ cur.left \in 0 .. 2 /\ cur.left \in 1 .. r.size
        /\ Good(pcb) /\ Resident(pcb, LRU_CACHE)
    BY DEF IInv, Turn
  <1>2. GoodRow(r) /\ r \in PCBs(r.script) /\ r.script \in Scripts
    BY <1>1 DEF Good, GoodRow
  <1>3. r.size \in Nat /\ r.size # 0 /\ cur.left \in 1 .. 2 /\ cur.left <= r.size
    BY <1>1, <1>2, CountFacts DEF PCBs
  <1>4. i \in PagesOf(r.script) /\ d \in Nat /\ 3 * i <= d /\ d < 3 * i + 3 /\ c = d - 3 * i
    BY <1>1, <1>3, PageNow
  <1>5. i \in Nat
    BY <1>2, <1>4, CountFacts
  <1>6. c \in Lines
    <2> HIDE DEF d, i, c
    <2> QED
      BY <1>4, <1>5 DEF Lines
  <1>7. f.page = i /\ f.valid = r.valid_bit[i][c]
    <2> DEFINE v == r.valid_bit[i][c]
               ln == IF v THEN shellmemory[r.index[i][c]].value ELSE NoLine
    <2>1. f = [page |-> i, valid |-> v, line |-> ln]
      BY DEF Fetch
    <2> HIDE DEF i, v, ln
    <2>2. f.page = i /\ f.valid = v
      BY <2>1
    <2> QED
      BY <2>2 DEF v
  <1>8. r.valid_bit[i][c] \in BOOLEAN
    BY <1>2, <1>4, <1>6 DEF PCBs
  <1>9. r.valid_bit[i][c] => Has(LRU_CACHE, <<p, i>>)
    BY <1>1, <1>4, <1>6 DEF Resident
  <1> HIDE DEF i, c
  <1> QED
    BY <1>1, <1>3, <1>4, <1>5, <1>7, <1>8, <1>9 DEF i, c

\* The table after cpu_run.
LEMMA RunFacts ==
    ASSUME IInv, cur # Idle, NEW f, f = Fetch, NEW t, t = cpu_run(f)
    PROVE  /\ DOMAIN t = DOMAIN pcb
           /\ \A q \in DOMAIN pcb : /\ t[q].script = pcb[q].script
                                    /\ t[q].valid_bit = pcb[q].valid_bit
                                    /\ t[q].index = pcb[q].index
                                    /\ q # cur.pid => t[q].size = pcb[q].size
           /\ t[cur.pid].size = pcb[cur.pid].size - (IF f.valid THEN 1 ELSE 0)
           /\ Good(t)
  <1> DEFINE p == cur.pid
  <1>1. /\ p \in DOMAIN pcb /\ pcb[p].size \in Nat \ {0} /\ f.page = CurrentPage(p)
        /\ f.valid = pcb[p].valid_bit[f.page][pcb[p].program_counter[f.page]]
        /\ f.valid \in BOOLEAN
    BY TurnFacts
  <1>2. Good(pcb)
    BY DEF IInv
  <1>3. CASE f.valid
    <2>1. t = [pcb EXCEPT ![p].program_counter[f.page] = @ + 1, ![p].size = @ - 1]
      BY <1>3 DEF cpu_run
    <2>2. /\ DOMAIN t = DOMAIN pcb
          /\ \A q \in DOMAIN t : q # p => t[q] = pcb[q]
          /\ t[p].script = pcb[p].script /\ t[p].size = pcb[p].size - 1
          /\ t[p].valid_bit = pcb[p].valid_bit
          /\ t[p].index = pcb[p].index
          /\ Good(t)
      BY <2>1, <1>1, <1>2, <1>3, RunTable
    <2> QED
      BY <2>2, <1>3
  <1>4. CASE ~f.valid
    BY <1>1, <1>2, <1>4 DEF cpu_run
  <1> QED
    BY <1>1, <1>3, <1>4

\* The parts of the invariant that concern the table, the lists and the turn.
Tables(t, s, l, c) ==
    /\ Good(t)
    /\ s \in Seq(DOMAIN t)
    /\ l \in Seq(Nodes)
    /\ Resident(t, l)
    /\ DOMAIN t # {} => Len(l) > 0 /\ FrameStore >= 3
    /\ Turn(t, c)
    /\ Scheduled(t, s, c)

\* A line that was executed keeps the invariant.
LEMMA LineStep ==
    ASSUME IInv, cur # Idle, NEW f, f = Fetch, HandleLine(f)
    PROVE  /\ DOMAIN pcb' = DOMAIN pcb /\ DOMAIN ran' = DOMAIN pcb'
           /\ Tables(pcb', QUEUE', LRU_CACHE', cur')
           /\ GoodMemory(shellmemory') /\ One(shellmemory') /\ Kept(shellmemory, shellmemory')
           /\ phase' = phase
  <1> DEFINE p == cur.pid
             t == cpu_run(f)
  <1>1. /\ p \in DOMAIN pcb /\ p \in Nat /\ cur.left \in 1 .. 2 /\ cur.left <= pcb[p].size
        /\ pcb[p].size \in Nat \ {0}
    BY TurnFacts
  <1>2. /\ DOMAIN t = DOMAIN pcb
        /\ \A q \in DOMAIN pcb : /\ t[q].script = pcb[q].script
                                 /\ t[q].valid_bit = pcb[q].valid_bit
                                 /\ t[q].index = pcb[q].index
                                 /\ q # p => t[q].size = pcb[q].size
        /\ t[p].size = pcb[p].size - (IF f.valid THEN 1 ELSE 0)
        /\ Good(t)
    BY RunFacts
  <1>3. /\ f.valid /\ pcb' = t /\ phase' = phase
        /\ cur' = (IF cur.left = 2 THEN [cur EXCEPT !.left = 1] ELSE Idle)
        /\ QUEUE' = (IF cur.left = 1 /\ cur.requeue THEN Append(QUEUE, p) ELSE QUEUE)
        /\ ran' = Executed(f) /\ shellmemory' \in MemoryAfter(f)
    BY DEF HandleLine
  <1> HIDE DEF t
  <1>4. t[p].size = pcb[p].size - 1
    BY <1>2, <1>3
  <1>5. /\ LRU_CACHE \in Seq(Nodes) /\ Resident(pcb, LRU_CACHE) /\ QUEUE \in Seq(DOMAIN pcb)
        /\ cur \in [pid : Nat, left : 0 .. 2, requeue : BOOLEAN]
        /\ ~cur.requeue => cur.left = 1 /\ pcb[p].size = 1
        /\ Scheduled(pcb, QUEUE, cur)
        /\ DOMAIN pcb # {} => Len(LRU_CACHE) > 0 /\ FrameStore >= 3
        /\ DOMAIN ran = DOMAIN pcb
    BY DEF IInv, Turn
  <1>6. /\ Resident(t, LRU_CACHE') /\ LRU_CACHE' \in Seq(Nodes)
        /\ Len(LRU_CACHE') = Len(LRU_CACHE)
    <2>1. PICK k \in SameStart(p, f.page) : LRU_CACHE' = << LRU_CACHE[k] >> \o Without(k)
      BY DEF HandleLine
    <2>2. k \in 1 .. Len(LRU_CACHE)
      BY DEF SameStart
    <2>3. SamePages(pcb, t)
      BY <1>2 DEF SamePages
    <2> QED
      BY <2>1, <2>2, <2>3, <1>5, MoveResident
  <1>7. /\ QUEUE' \in Seq(DOMAIN t) /\ Includes(QUEUE, QUEUE')
        /\ cur.left = 1 /\ cur.requeue => Has(QUEUE', p)
    <2>1. CASE cur.left = 1 /\ cur.requeue
      <3>1. QUEUE' = Append(QUEUE, p)
        BY <2>1, <1>3
      <3>2. QUEUE' \in Seq(DOMAIN pcb) /\ Includes(QUEUE, QUEUE') /\ Has(QUEUE', p)
        BY <3>1, <1>1, <1>5, AppendFacts
      <3> QED
        BY <3>2, <1>2
    <2>2. CASE ~(cur.left = 1 /\ cur.requeue)
      BY <2>2, <1>2, <1>3, <1>5 DEF Includes
    <2> QED
      BY <2>1, <2>2
  <1>8. Turn(t, cur') /\ (cur.left = 2 => cur' # Idle /\ cur'.pid = p)
    <2>1. CASE cur.left = 2
      <3>1. cur' = [pid |-> p, left |-> 1, requeue |-> cur.requeue]
        BY <2>1, <1>3, <1>5
      <3>2. cur'.pid = p /\ cur'.left = 1 /\ cur'.requeue = cur.requeue
        BY <3>1
      <3>3. p # 0
        BY <1>1 DEF IInv
      <3>4. cur' # Idle
        BY <3>2, <3>3 DEF Idle
      <3>5. cur.requeue /\ 1 \in 1 .. t[p].size
        BY <2>1, <1>1, <1>4, <1>5
      <3>6. cur' \in [pid : Nat, left : 0 .. 2, requeue : BOOLEAN]
        BY <3>1, <1>1, <1>5
      <3> QED
        BY <3>2, <3>4, <3>5, <3>6, <1>1, <1>2 DEF Turn
    <2>2. CASE cur.left # 2
      BY <2>2, <1>3 DEF Turn, Idle
    <2> QED
      BY <2>1, <2>2
  <1>9. Scheduled(t, QUEUE', cur')
    <2> SUFFICES ASSUME NEW q \in DOMAIN t, t[q].size # 0
                 PROVE  Has(QUEUE', q) \/ (cur' # Idle /\ cur'.pid = q)
      BY DEF Scheduled
    <2>1. CASE q # p
      <3>1. pcb[q].size # 0 /\ q \in DOMAIN pcb
        BY <2>1, <1>2
      <3>2. Has(QUEUE, q)
        BY <3>1, <2>1, <1>5 DEF Scheduled
      <3> QED
        BY <3>2, <1>7 DEF Includes
    <2>2. CASE q = p
      <3>1. CASE cur.left = 2
        BY <3>1, <2>2, <1>8
      <3>2. CASE cur.left = 1 /\ cur.requeue
        BY <3>2, <2>2, <1>7
      <3>3. CASE ~cur.requeue
        BY <3>3, <2>2, <1>4, <1>5
      <3> QED
        BY <3>1, <3>2, <3>3, <1>1
    <2> QED
      BY <2>1, <2>2
  <1>10. /\ GoodMemory(shellmemory') /\ One(shellmemory') /\ Kept(shellmemory, shellmemory')
    <2>1. GoodMemory(shellmemory) /\ One(shellmemory)
      BY DEF IInv
    <2>2. CASE shellmemory' = shellmemory
      BY <2>1, <2>2 DEF Kept
    <2>3. CASE \E v \in VarNames, x \in VarValues : shellmemory' = mem_set_value(shellmemory, v, x)
      BY <2>1, <2>3, SetMemory
    <2> QED
      BY <2>2, <2>3, <1>3 DEF MemoryAfter
  <1>11. DOMAIN ran' = DOMAIN pcb
    BY <1>3, <1>5 DEF Executed
  <1> QED
    BY <1>2, <1>3, <1>5, <1>6, <1>7, <1>8, <1>9, <1>10, <1>11 DEF Tables

\* The same for what is taken for a page fault.
LEMMA FaultStep ==
    ASSUME IInv, cur # Idle, NEW f, f = Fetch, HandleFault(f)
    PROVE  /\ DOMAIN pcb' = DOMAIN pcb /\ DOMAIN ran' = DOMAIN pcb'
           /\ Tables(pcb', QUEUE', LRU_CACHE', cur')
           /\ GoodMemory(shellmemory') /\ One(shellmemory')
           /\ SmallStore => Kept(shellmemory, shellmemory')
           /\ phase' \in {phase, "undefined"}
  <1> DEFINE p == cur.pid
             i == f.page
             t == cpu_run(f)
             st1 == [mem |-> shellmemory, pcb |-> t]
             n == Len(LRU_CACHE)
             g == LRU_CACHE[n]
             ev == PAGE_evict(st1, g[1], g[2])
             st2 == IF NoFrame THEN ev ELSE st1
             st3 == IF FreeFrames(st2.mem) # {} THEN load_PAGE(st2, p, i) ELSE st2
             l2 == IF NoFrame THEN Without(n) ELSE LRU_CACHE
  <1>1. /\ p \in DOMAIN pcb /\ p \in Nat /\ i \in Nat /\ i \in PagesOf(pcb[p].script)
    BY TurnFacts
  <1>2. /\ DOMAIN t = DOMAIN pcb
        /\ \A q \in DOMAIN pcb : /\ t[q].script = pcb[q].script
                                 /\ t[q].valid_bit = pcb[q].valid_bit
                                 /\ t[q].index = pcb[q].index
                                 /\ q # p => t[q].size = pcb[q].size
        /\ Good(t)
    BY RunFacts
  <1>3. /\ shellmemory' = st3.mem /\ pcb' = st3.pcb
        /\ LRU_CACHE' = Put(<<p, i>>, l2)
        /\ QUEUE' = Append(QUEUE, p)
        /\ cur' = Idle /\ ran' = Executed(f)
        /\ phase' \in {phase, "undefined"}
        /\ NoFrame => LRU_CACHE # << >>
    BY DEF HandleFault, VictimAt, Put
  <1>4. /\ LRU_CACHE \in Seq(Nodes) /\ Resident(pcb, LRU_CACHE) /\ QUEUE \in Seq(DOMAIN pcb)
        /\ Scheduled(pcb, QUEUE, cur)
        /\ DOMAIN pcb # {} => Len(LRU_CACHE) > 0 /\ FrameStore >= 3
        /\ DOMAIN ran = DOMAIN pcb /\ DOMAIN pcb \subseteq 1 .. MaxPid
        /\ GoodMemory(shellmemory) /\ One(shellmemory) /\ Good(pcb)
    <2>1. 1 .. PID_counter - 1 \subseteq 1 .. MaxPid
      BY PidAssumption DEF IInv
    <2> QED
      BY <2>1 DEF IInv
  <1> HIDE DEF t
  <1>5. st1.mem = shellmemory /\ st1.pcb = t
    OBVIOUS
  <1> HIDE DEF st1
  <1>6. n \in Nat \ {0} /\ n \in 1 .. n /\ g \in Nodes
    <2>1. n \in Nat \ {0}
      BY <1>1, <1>4
    <2>2. n \in 1 .. n
      BY <2>1
    <2> QED
      BY <2>1, <2>2, <1>4, ElementOfSeq
  <1>7. Resident(t, LRU_CACHE)
    BY <1>2, <1>4 DEF Resident, IsPage
  <1>8. /\ g[1] \in DOMAIN t /\ g[2] \in PagesOf(t[g[1]].script) /\ g = <<g[1], g[2]>>
    <2>1. Has(LRU_CACHE, g)
      BY <1>6 DEF Has
    <2>2. IsPage(t, g)
      BY <2>1, <1>6, <1>7 DEF Resident
    <2>3. g = <<g[1], g[2]>>
      BY <1>6 DEF Nodes
    <2> QED
      BY <2>2, <2>3 DEF IsPage
  <1>9. /\ Good(st2.pcb) /\ DOMAIN st2.pcb = DOMAIN pcb
        /\ \A q \in DOMAIN pcb : /\ st2.pcb[q].script = pcb[q].script
                                 /\ q # p => st2.pcb[q].size = pcb[q].size
        /\ Resident(st2.pcb, l2) /\ l2 \in Seq(Nodes)
    <2>1. CASE NoFrame
      <3>1. st2 = ev /\ l2 = Without(n)
        BY <2>1
      <3>2. /\ SameBut(st1.pcb, ev.pcb, g[1], g[2]) /\ Good(ev.pcb)
            /\ \A j \in Lines : ~ev.pcb[g[1]].valid_bit[g[2]][j]
        BY <1>2, <1>5, <1>8, EvictTable, SMTT(20)
      <3>3. SameBut(t, ev.pcb, g[1], g[2])
        BY <3>2, <1>5
      <3> HIDE DEF ev, st2, l2
      <3>4. Resident(ev.pcb, l2) /\ l2 \in Seq(Nodes)
        BY <3>1, <3>2, <3>3, <1>4, <1>6, <1>7, <1>8, EvictResident
      <3> QED
        BY <3>1, <3>2, <3>3, <3>4, <1>2 DEF SameBut
    <2>2. CASE ~NoFrame
      BY <2>2, <1>2, <1>4, <1>5, <1>7
    <2> QED
      BY <2>1, <2>2
  <1>10. /\ GoodMemory(st2.mem) /\ One(st2.mem)
         /\ SmallStore => SameVars(shellmemory, st2.mem)
    <2>1. CASE NoFrame
      <3> DEFINE P == {st1.pcb[g[1]].index[g[2]][j] : j \in 0 .. 2}
      <3>1. st2.mem = mem_free(shellmemory, P)
        BY <2>1, <1>5 DEF PAGE_evict
      <3>2. SmallStore => \A q \in VarZone : q \notin P
        <4> SUFFICES ASSUME SmallStore, NEW j \in 0 .. 2
                     PROVE  t[g[1]].index[g[2]][j] \notin VarZone
          BY <1>5
        <4> DEFINE x == t[g[1]].index[g[2]]
        <4>0. SUFFICES x[j] \notin VarZone
          OBVIOUS
        <4>1. x = NoFrames \/ Loaded(x)
          BY <1>2, <1>8 DEF Good, GoodRow, LoadedFirst
        <4> HIDE DEF x
        <4>2. FrameStore >= 3
          BY <1>1, <1>4
        <4>3. CASE x = NoFrames
          BY <4>3, StoreAssumption DEF NoFrames, Lines, VarZone, SmallStore, Unloaded
        <4>4. CASE x = Zeroed
          BY <4>2, <4>4, StoreAssumption DEF Zeroed, Lines, VarZone
        <4>5. CASE \E b \in 0 .. FrameStore - 3 : x = FrameAt(b)
          BY <4>5, StoreAssumption DEF FrameAt, Lines, VarZone
        <4> QED
          BY <4>1, <4>3, <4>4, <4>5 DEF Loaded
      <3>3. VarZone \subseteq Memory
        BY StoreAssumption DEF VarZone, Memory
      <3> HIDE DEF P, st2
      <3>4. /\ GoodMemory(st2.mem) /\ One(st2.mem)
            /\ \A q \in Memory : q \notin P => st2.mem[q] = shellmemory[q]
        BY <3>1, <1>4, FreeMemory
      <3> QED
        BY <3>2, <3>3, <3>4 DEF SameVars
    <2>2. CASE ~NoFrame
      BY <2>2, <1>4, <1>5 DEF SameVars
    <2> QED
      BY <2>1, <2>2
  <1> HIDE DEF st2, l2
  <1>11. /\ SameBut(st2.pcb, st3.pcb, p, i) /\ Good(st3.pcb)
         /\ GoodMemory(st3.mem) /\ SameVars(st2.mem, st3.mem)
    <2>1. CASE FreeFrames(st2.mem) # {}
      <3> DEFINE ld == load_PAGE(st2, p, i)
      <3>0. st3 = ld
        BY <2>1
      <3>1. p \in DOMAIN st2.pcb /\ i \in PagesOf(st2.pcb[p].script) /\ p \in 0 .. MaxPid
        BY <1>1, <1>4, <1>9
      <3>2. SameBut(st2.pcb, ld.pcb, p, i) /\ Good(ld.pcb)
        BY <3>1, <2>1, <1>9, LoadTable
      <3>3. GoodMemory(ld.mem) /\ SameVars(st2.mem, ld.mem)
        BY <3>1, <2>1, <1>10, LoadMemory
      <3> QED
        BY <3>0, <3>2, <3>3
    <2>2. CASE FreeFrames(st2.mem) = {}
      BY <2>2, <1>9, <1>10 DEF SameBut, SameVars
    <2> QED
      BY <2>1, <2>2
  <1> HIDE DEF st3
  <1>12. /\ Resident(st3.pcb, LRU_CACHE') /\ LRU_CACHE' \in Seq(Nodes)
         /\ Len(LRU_CACHE') = Len(l2) + 1
    <2>1. p \in DOMAIN st2.pcb /\ i \in PagesOf(st2.pcb[p].script)
      BY <1>1, <1>9
    <2>2. /\ p \in Nat /\ i \in Nat /\ l2 \in Seq(Nodes) /\ Resident(st2.pcb, l2)
          /\ SameBut(st2.pcb, st3.pcb, p, i) /\ LRU_CACHE' = Put(<<p, i>>, l2)
      BY <1>1, <1>3, <1>9, <1>11
    <2> HIDE DEF p, i
    <2> DEFINE l3 == Put(<<p, i>>, l2)
    <2>3. Resident(st3.pcb, l3) /\ l3 \in Seq(Nodes) /\ Len(l3) = Len(l2) + 1
      BY <2>1, <2>2, FrontResident
    <2> HIDE DEF l3
    <2> QED
      BY <2>2, <2>3 DEF l3
  <1>13. Len(LRU_CACHE') > 0
    BY <1>9, <1>12
  <1>14. One(shellmemory') /\ (SmallStore => Kept(shellmemory, shellmemory'))
    BY <1>3, <1>10, <1>11 DEF One, SameVars, Kept
  <1>15. QUEUE' \in Seq(DOMAIN pcb) /\ Has(QUEUE', p) /\ Includes(QUEUE, QUEUE')
    BY <1>1, <1>3, <1>4, AppendFacts
  <1>16. Scheduled(pcb', QUEUE', cur')
    <2> SUFFICES ASSUME NEW q \in DOMAIN pcb', pcb'[q].size # 0
                 PROVE  Has(QUEUE', q)
      BY DEF Scheduled
    <2>1. CASE q = p
      BY <2>1, <1>15
    <2>2. CASE q # p
      <3>1. q \in DOMAIN pcb /\ pcb[q].size # 0
        BY <2>2, <1>3, <1>9, <1>11 DEF SameBut
      <3>2. Has(QUEUE, q)
        BY <3>1, <2>2, <1>4 DEF Scheduled
      <3> QED
        BY <3>2, <1>15 DEF Includes
    <2> QED
      BY <2>1, <2>2
  <1>17. DOMAIN pcb' = DOMAIN pcb /\ DOMAIN ran' = DOMAIN pcb
    BY <1>3, <1>4, <1>9, <1>11 DEF Executed, SameBut
  <1>18. Turn(pcb', cur')
    BY <1>3 DEF Turn, Idle
  <1> QED
    BY <1>3, <1>4, <1>11, <1>12, <1>13, <1>14, <1>15, <1>16, <1>17, <1>18 DEF Tables

-----------------------------------------------------------------------------
\* The invariant.

\* No turn, list or page without a process.
LEMMA EmptyTables == Tables(<< >>, << >>, << >>, Idle)
  <1>1. DOMAIN << >> = {}
    OBVIOUS
  <1>2. \A y : ~Has(<< >>, y)
    BY DEF Has
  <1>3. << >> \in Seq(Nodes) /\ << >> \in Seq(DOMAIN << >>)
    OBVIOUS
  <1>4. Turn(<< >>, Idle)
    BY DEF Turn, Idle
  <1> QED
    BY <1>1, <1>2, <1>3, <1>4 DEF Tables, Good, Resident, Scheduled

\* Of a list, its head and the rest.
LEMMA TailFacts ==
    ASSUME NEW S, NEW s \in Seq(S), s # << >>, NEW l, l = Tail(s)
    PROVE  /\ Head(s) \in S /\ l \in Seq(S)
           /\ \A y : Has(s, y) => y = Head(s) \/ Has(l, y)
  <1>1. /\ Head(s) \in S /\ l \in Seq(S) /\ Len(l) = Len(s) - 1
        /\ \A k \in 1 .. Len(l) : l[k] = s[k + 1]
    BY HeadTailProperties
  <1>2. Len(s) \in Nat /\ Head(s) = s[1]
    OBVIOUS
  <1>3. ASSUME NEW y, Has(s, y), y # Head(s)
        PROVE  Has(l, y)
    <2>1. PICK k \in 1 .. Len(s) : s[k] = y
      BY <1>3 DEF Has
    <2>2. k # 1
      BY <2>1, <1>2, <1>3
    <2>3. k - 1 \in 1 .. Len(l) /\ (k - 1) + 1 = k
      BY <2>2, <1>1, <1>2
    <2>4. l[k - 1] = y
      BY <2>1, <2>3, <1>1
    <2> QED
      BY <2>3, <2>4 DEF Has
  <1> QED
    BY <1>1, <1>3

\* A turn begins.
LEMMA TurnStep ==
    ASSUME IInv, TakeTurn
    PROVE  Tables(pcb, QUEUE', LRU_CACHE, cur')
  <1> DEFINE p == Head(QUEUE)
  <1>1. /\ QUEUE \in Seq(DOMAIN pcb) /\ Good(pcb) /\ Resident(pcb, LRU_CACHE)
        /\ LRU_CACHE \in Seq(Nodes) /\ Scheduled(pcb, QUEUE, cur)
        /\ DOMAIN pcb # {} => Len(LRU_CACHE) > 0 /\ FrameStore >= 3
        /\ DOMAIN pcb \subseteq 1 .. PID_counter - 1 /\ PID_counter \in 1 .. MaxPid + 1
    BY DEF IInv
  <1>2. QUEUE # << >> /\ cur = Idle /\ QUEUE' = Tail(QUEUE)
    BY DEF TakeTurn, queue_done
  <1>3. /\ p \in DOMAIN pcb /\ QUEUE' \in Seq(DOMAIN pcb)
        /\ \A y : Has(QUEUE, y) => y = p \/ Has(QUEUE', y)
    BY <1>1, <1>2, TailFacts
  <1>4. pcb[p].size \in Nat
    <2>1. pcb[p].script \in Scripts /\ pcb[p] \in PCBs(pcb[p].script)
      BY <1>1, <1>3 DEF Good, GoodRow
    <2> QED
      BY <2>1, CountFacts DEF PCBs
  <1>5. cur' = CASE pcb[p].size > 1 -> [pid |-> p, left |-> 2, requeue |-> TRUE]
                 [] pcb[p].size = 1 -> [pid |-> p, left |-> 1, requeue |-> FALSE]
                 [] OTHER           -> Idle
    BY DEF TakeTurn
  <1>6. p \in Nat /\ p # 0
    BY <1>1, <1>3
  <1> HIDE DEF p
  <1>7. Turn(pcb, cur') /\ (pcb[p].size = 0 \/ (cur' # Idle /\ cur'.pid = p))
    <2>1. CASE pcb[p].size > 1
      <3>1. cur' = [pid |-> p, left |-> 2, requeue |-> TRUE]
        BY <2>1, <1>4, <1>5
      <3> QED
        BY <3>1, <2>1, <1>3, <1>4, <1>6 DEF Turn, Idle
    <2>2. CASE pcb[p].size = 1
      <3>1. cur' = [pid |-> p, left |-> 1, requeue |-> FALSE]
        BY <2>2, <1>4, <1>5
      <3> QED
        BY <3>1, <2>2, <1>3, <1>4, <1>6 DEF Turn, Idle
    <2>3. CASE pcb[p].size = 0
      <3>1. cur' = Idle
        BY <2>3, <1>4, <1>5
      <3> QED
        BY <3>1, <2>3 DEF Turn, Idle
    <2> QED
      BY <2>1, <2>2, <2>3, <1>4
  <1>8. Scheduled(pcb, QUEUE', cur')
    BY <1>1, <1>2, <1>3, <1>7 DEF Scheduled
  <1> QED
    BY <1>1, <1>3, <1>7, <1>8 DEF Tables

\* A process is admitted.
LEMMA AdmitStep ==
    ASSUME IInv, NEW s \in Scripts, new_proc(s)
    PROVE  /\ PID_counter' = PID_counter + 1 /\ PID_counter <= MaxPid
           /\ phase' \in Phases
           /\ DOMAIN pcb' \subseteq DOMAIN pcb \cup {PID_counter}
           /\ DOMAIN ran' = DOMAIN pcb'
           /\ Tables(pcb', QUEUE', LRU_CACHE', cur')
           /\ GoodMemory(shellmemory') /\ SameVars(shellmemory, shellmemory')
  <1> DEFINE p == PID_counter
             new == PCB_init(s)
  <1>1. /\ QUEUE \in Seq(DOMAIN pcb) /\ Good(pcb) /\ Resident(pcb, LRU_CACHE)
        /\ LRU_CACHE \in Seq(Nodes) /\ Scheduled(pcb, QUEUE, cur) /\ Turn(pcb, cur)
        /\ DOMAIN pcb # {} => Len(LRU_CACHE) > 0 /\ FrameStore >= 3
        /\ DOMAIN ran = DOMAIN pcb /\ GoodMemory(shellmemory)
    BY DEF IInv
  <1>2. p' = p + 1 /\ p <= MaxPid
    BY DEF new_proc
  <1>3. CASE ~new.fits
    <2>1. /\ phase' = "exit"
          /\ UNCHANGED <<pcb, QUEUE, LRU_CACHE, shellmemory, cur, ran>>
      BY <1>3 DEF new_proc
    <2> QED
      BY <2>1, <1>1, <1>2 DEF Tables, Phases, SameVars
  <1>4. CASE new.fits
    <2>1. /\ phase' = "admit"
          /\ shellmemory' = new.st.mem
          /\ pcb' = new.st.pcb
          /\ QUEUE' = Append(QUEUE, p)
          /\ LRU_CACHE' = (IF new.two THEN << <<p, 1>> >> ELSE << >>)
                             \o << <<p, 0>> >> \o LRU_CACHE
          /\ ran' = [q \in DOMAIN new.st.pcb |-> IF q = p THEN << >> ELSE ran[q]]
          /\ cur' = cur
      BY <1>4 DEF new_proc
    <2>2. /\ DOMAIN pcb' = DOMAIN pcb \cup {p}
          /\ \A q \in DOMAIN pcb : pcb'[q].size = pcb[q].size
          /\ Good(pcb') /\ GoodMemory(shellmemory')
          /\ SameVars(shellmemory, shellmemory')
          /\ LRU_CACHE' \in Seq(Nodes) /\ Resident(pcb', LRU_CACHE')
          /\ Len(LRU_CACHE') > 0 /\ FrameStore >= 3
      BY <2>1, <1>2, <1>4, InitFacts
    <2>3. QUEUE' \in Seq(DOMAIN pcb') /\ Has(QUEUE', p) /\ Includes(QUEUE, QUEUE')
      <3>1. QUEUE \in Seq(DOMAIN pcb')
        BY <2>2, <1>1, SeqMonotone
      <3>2. p \in DOMAIN pcb'
        BY <2>2
      <3> QED
        BY <3>1, <3>2, <2>1, AppendFacts
    <2>4. Turn(pcb', cur')
      BY <2>1, <2>2, <1>1 DEF Turn
    <2>5. Scheduled(pcb', QUEUE', cur')
      BY <2>1, <2>2, <2>3, <1>1 DEF Scheduled, Includes
    <2>6. DOMAIN ran' = DOMAIN pcb'
      BY <2>1
    <2> QED
      BY <2>1, <2>2, <2>3, <2>4, <2>5, <2>6, <1>2 DEF Tables, Phases
  <1> QED
    BY <1>3, <1>4

LEMMA InvInit == Init => IInv
  <1> SUFFICES ASSUME Init
               PROVE  IInv
    OBVIOUS
  <1> DEFINE f == [var |-> None, value |-> NoLine]
  <1>1. Tables(pcb, QUEUE, LRU_CACHE, cur)
    BY EmptyTables DEF Init
  <1>2. GoodMemory(shellmemory) /\ One(shellmemory)
    <2>1. f.var = None /\ f = [var |-> f.var, value |-> f.value]
      OBVIOUS
    <2>2. shellmemory = [q \in Memory |-> f]
      BY DEF Init
    <2> HIDE DEF f
    <2>3. DOMAIN shellmemory = Memory /\ \A q \in Memory : shellmemory[q] = f
      BY <2>2
    <2>4. None \in 0 .. MaxPid
      BY PidAssumption DEF None
    <2>5. \A q : Cell(q, f)
      BY <2>1, <2>4 DEF Cell
    <2>6. VarZone \subseteq Memory
      BY StoreAssumption DEF VarZone, Memory
    <2> QED
      BY <2>1, <2>3, <2>5, <2>6 DEF GoodMemory, One
  <1>3. /\ phase \in Phases /\ PID_counter \in 1 .. MaxPid + 1
        /\ DOMAIN pcb \subseteq 1 .. PID_counter - 1 /\ DOMAIN ran = DOMAIN pcb
    BY PidAssumption DEF Init, Phases
  <1> QED
    BY <1>1, <1>2, <1>3 DEF IInv, Tables

\* The same without the parts that a step may leave as they were.
LEMMA Assemble ==
    ASSUME IInv, phase' \in Phases, PID_counter' \in 1 .. MaxPid + 1,
           DOMAIN pcb' \subseteq 1 .. PID_counter' - 1, DOMAIN ran' = DOMAIN pcb',
           Tables(pcb', QUEUE', LRU_CACHE', cur'),
           GoodMemory(shellmemory'), One(shellmemory')
    PROVE  IInv'
  BY DEF IInv, Tables

LEMMA InvNext == IInv /\ [Next]_vars => IInv'
  <1> SUFFICES ASSUME IInv, [Next]_vars
               PROVE  IInv'
    OBVIOUS
  <1>1. /\ Tables(pcb, QUEUE, LRU_CACHE, cur)
        /\ phase \in Phases /\ PID_counter \in 1 .. MaxPid + 1
        /\ DOMAIN pcb \subseteq 1 .. PID_counter - 1 /\ DOMAIN ran = DOMAIN pcb
        /\ GoodMemory(shellmemory) /\ One(shellmemory)
    BY DEF IInv, Tables
  <1>2. ASSUME NEW v \in VarNames, NEW x \in VarValues, set(v, x)
        PROVE  IInv'
    <2>1. shellmemory' = mem_set_value(shellmemory, v, x)
      BY <1>2 DEF set
    <2>2. GoodMemory(shellmemory') /\ One(shellmemory')
      BY <2>1, <1>1, SetMemory
    <2>3. UNCHANGED <<phase, PID_counter, pcb, QUEUE, LRU_CACHE, cur, ran>>
      BY <1>2 DEF set
    <2> QED
      BY <2>2, <2>3, <1>1, Assemble
  <1>3. CASE resetmem
    <2>1. shellmemory' = mem_free(shellmemory, VarZone)
      BY <1>3 DEF resetmem
    <2>2. GoodMemory(shellmemory') /\ One(shellmemory')
      BY <2>1, <1>1, FreeMemory
    <2>3. UNCHANGED <<phase, PID_counter, pcb, QUEUE, LRU_CACHE, cur, ran>>
      BY <1>3 DEF resetmem
    <2> QED
      BY <2>2, <2>3, <1>1, Assemble
  <1>4. ASSUME NEW s \in Scripts, new_proc(s)
        PROVE  IInv'
    <2>1. /\ PID_counter' = PID_counter + 1 /\ PID_counter <= MaxPid
          /\ phase' \in Phases
          /\ DOMAIN pcb' \subseteq DOMAIN pcb \cup {PID_counter}
          /\ DOMAIN ran' = DOMAIN pcb'
          /\ Tables(pcb', QUEUE', LRU_CACHE', cur')
          /\ GoodMemory(shellmemory') /\ SameVars(shellmemory, shellmemory')
      BY <1>4, AdmitStep
    <2>2. One(shellmemory')
      BY <2>1, <1>1 DEF One, SameVars
    <2>3. PID_counter' \in 1 .. MaxPid + 1
      BY <2>1, <1>1, PidAssumption
    <2>4. DOMAIN pcb' \subseteq 1 .. PID_counter' - 1
      BY <2>1, <1>1
    <2> QED
      BY <2>1, <2>2, <2>3, <2>4, Assemble
  <1>5. CASE FileNotFound
    <2>1. /\ phase' \in Phases
          /\ UNCHANGED <<PID_counter, pcb, QUEUE, LRU_CACHE, shellmemory, cur, ran>>
      BY <1>5 DEF FileNotFound, Phases
    <2> QED
      BY <2>1, <1>1, Assemble
  <1>6. CASE StartRR
    <2>1. /\ phase' \in Phases
          /\ UNCHANGED <<PID_counter, pcb, QUEUE, LRU_CACHE, shellmemory, cur, ran>>
      BY <1>6 DEF StartRR, Phases
    <2> QED
      BY <2>1, <1>1, Assemble
  <1>7. CASE TakeTurn
    <2>1. UNCHANGED <<phase, PID_counter, pcb, LRU_CACHE, shellmemory, ran>>
      BY <1>7 DEF TakeTurn
    <2>2. Tables(pcb, QUEUE', LRU_CACHE, cur')
      BY <1>7, TurnStep
    <2> QED
      BY <2>1, <2>2, <1>1, Assemble
  <1>8. CASE run_proc
    <2>1. cur # Idle /\ PID_counter' = PID_counter
      BY <1>8 DEF run_proc
    <2>2. HandleFault(Fetch) \/ HandleLine(Fetch)
      BY <1>8 DEF run_proc
    <2>3. /\ DOMAIN pcb' = DOMAIN pcb /\ DOMAIN ran' = DOMAIN pcb'
          /\ Tables(pcb', QUEUE', LRU_CACHE', cur')
          /\ GoodMemory(shellmemory') /\ One(shellmemory')
          /\ phase' \in {phase, "undefined"}
      BY <2>1, <2>2, FaultStep, LineStep
    <2>4. phase' \in Phases
      BY <2>3, <1>1 DEF Phases
    <2> QED
      BY <2>1, <2>3, <2>4, <1>1, Assemble
  <1>9. CASE FreeAll
    <2>1. /\ shellmemory' = mem_free(shellmemory, Cleared)
          /\ pcb' = << >> /\ QUEUE' = << >> /\ LRU_CACHE' = << >> /\ ran' = << >>
          /\ cur' = cur /\ PID_counter' = PID_counter /\ cur = Idle
          /\ phase' \in Phases
      BY <1>9 DEF FreeAll, Phases
    <2>2. GoodMemory(shellmemory') /\ One(shellmemory')
      BY <2>1, <1>1, FreeMemory
    <2>3. Tables(pcb', QUEUE', LRU_CACHE', cur')
      BY <2>1, EmptyTables
    <2>4. DOMAIN pcb' = {} /\ DOMAIN ran' = DOMAIN pcb'
      BY <2>1
    <2> QED
      BY <2>1, <2>2, <2>3, <2>4, <1>1, Assemble
  <1>10. CASE UNCHANGED vars
    BY <1>10, <1>1, Assemble DEF vars
  <1> QED
    BY <1>2, <1>3, <1>4, <1>5, <1>6, <1>7, <1>8, <1>9, <1>10 DEF Next

LEMMA Invariance == Spec => []IInv
  BY InvInit, InvNext, PTL DEF Spec

-----------------------------------------------------------------------------
\* The theorems.

LEMMA InvType == IInv => TypeOK
  <1> SUFFICES ASSUME IInv
               PROVE  TypeOK
    OBVIOUS
  <1>1. 1 .. PID_counter - 1 \subseteq 1 .. MaxPid
    BY PidAssumption DEF IInv
  <1>2. ASSUME NEW p \in DOMAIN pcb
        PROVE  /\ pcb[p].script \in Scripts /\ pcb[p].size \in Nat
               /\ Pages(p) = PagesOf(pcb[p].script)
               /\ \A i \in Pages(p) : pcb[p].program_counter[i] \in 0 .. 3
    <2>1. pcb[p].script \in Scripts /\ pcb[p] \in PCBs(pcb[p].script)
      BY DEF IInv, Good, GoodRow
    <2> QED
      BY <2>1, CountFacts DEF PCBs, Pages
  <1>3. ASSUME NEW k \in 1 .. Len(LRU_CACHE)
        PROVE  /\ LRU_CACHE[k][1] \in DOMAIN pcb
               /\ LRU_CACHE[k][2] \in Pages(LRU_CACHE[k][1])
    <2>1. LRU_CACHE[k] \in Nodes
      BY ElementOfSeq DEF IInv
    <2>2. Has(LRU_CACHE, LRU_CACHE[k])
      BY DEF Has
    <2>3. IsPage(pcb, LRU_CACHE[k])
      BY <2>1, <2>2 DEF IInv, Resident
    <2> QED
      BY <2>3, <1>2 DEF IsPage
  <1>4. \A q \in Memory :
           shellmemory[q].var \in IF q \in VarZone THEN VarNames \cup {None} ELSE 0 .. MaxPid
    BY DEF IInv, GoodMemory, Cell
  <1>5. cur = Idle \/ cur.pid \in DOMAIN pcb
    BY DEF IInv, Turn
  <1>6. /\ phase \in Phases /\ PID_counter \in 1 .. MaxPid + 1
        /\ DOMAIN pcb \subseteq 1 .. MaxPid /\ DOMAIN ran = DOMAIN pcb
        /\ QUEUE \in Seq(DOMAIN pcb)
    BY <1>1 DEF IInv
  <1> QED
    BY <1>2, <1>3, <1>4, <1>5, <1>6 DEF TypeOK

LEMMA InvLists == IInv => ListsServe
  <1> SUFFICES ASSUME IInv, cur # Idle
               PROVE  /\ LRU_CACHE # << >>
                      /\ Fetch.valid => SameStart(cur.pid, Fetch.page) # {}
    BY DEF ListsServe
  <1> DEFINE f == Fetch
  <1>1. /\ cur.pid \in DOMAIN pcb
        /\ f.valid => Has(LRU_CACHE, <<cur.pid, f.page>>)
    BY TurnFacts
  <1>2. LRU_CACHE # << >>
    BY <1>1 DEF IInv
  <1>3. ASSUME f.valid
        PROVE  SameStart(cur.pid, f.page) # {}
    <2> HIDE DEF f
    <2>1. PICK k \in 1 .. Len(LRU_CACHE) : LRU_CACHE[k] = <<cur.pid, f.page>>
      BY <1>1, <1>3 DEF Has
    <2>2. LRU_CACHE[k][1] = cur.pid /\ LRU_CACHE[k][2] = f.page
      BY <2>1
    <2>3. k \in SameStart(cur.pid, f.page)
      BY <2>2 DEF SameStart
    <2> QED
      BY <2>3
  <1> QED
    BY <1>2, <1>3

\* For every size of the stores and every set of scripts the state keeps its
\* type: in particular no program counter runs past its page, and the ready
\* queue and the LRU list never name a process that is gone.
THEOREM TypeCorrect == Spec => []TypeOK
  BY Invariance, InvType, PTL

\* The positions that free_PCB clears are at or behind those of a page.
LEMMA ClearedFacts ==
    ASSUME NEW q \in Cleared
    PROVE  \E p \in DOMAIN pcb : \E i \in Pages(p), j \in 0 .. 2, d \in 0 .. 2 :
              q = pcb[p].index[i][j] + d
  <1> DEFINE Of(p) == {pcb[p].index[i][j] : i \in Pages(p), j \in 0 .. 2}
             All == {Of(p) : p \in DOMAIN pcb}
  <1>1. Cleared = {n + d : n \in UNION All, d \in 0 .. 2}
    BY DEF Cleared
  <1> HIDE DEF All
  <1>2. PICK n \in UNION All, d \in 0 .. 2 : q = n + d
    BY <1>1
  <1>3. PICK S \in All : n \in S
    OBVIOUS
  <1> HIDE DEF Of
  <1>4. PICK p \in DOMAIN pcb : S = Of(p)
    BY DEF All
  <1>5. PICK i \in Pages(p), j \in 0 .. 2 : n = pcb[p].index[i][j]
    BY <1>3, <1>4 DEF Of
  <1>6. q = pcb[p].index[i][j] + d
    BY <1>2, <1>5
  <1> QED
    BY <1>6

\* Whatever the lines of the scripts return and however they are counted: run_proc
\* finds a victim in the LRU list when it needs one and finds the page it has just
\* used, until an eviction or a release goes outside shellmemory.
THEOREM ListsHold == Spec => [](TypeOK /\ ListsServe)
  <1>1. IInv => TypeOK /\ ListsServe
    BY InvType, InvLists
  <1> QED
    BY <1>1, Invariance, PTL

\* When run_proc_RR ends every page of every process was loaded, and clear_frame
\* reaches two positions past a frame at most.
LEMMA ReleaseStep ==
    ASSUME VarStore >= 2, IInv, FreeAll
    PROVE  phase' = "prompt"
  <1>1. cur = Idle /\ queue_done
    BY DEF FreeAll
  <1>2. ASSUME NEW p \in DOMAIN pcb, NEW i \in Pages(p), NEW j \in 0 .. 2, NEW d \in 0 .. 2
        PROVE  pcb[p].index[i][j] + d \in Memory
    <2> DEFINE r == pcb[p]
               n == count_lines(r.script)
               N == PAGE_table_size(n)
               x == r.index[i]
    <2>1. /\ r.script \in Scripts /\ r \in PCBs(r.script) /\ Progress(r) /\ LoadedFirst(r)
          /\ FrameStore >= 3
      BY DEF IInv, Good, GoodRow
    <2>2. i \in PagesOf(r.script)
      BY <2>1 DEF PCBs, Pages
    <2>3. r.program_counter[i] > 0
      <3>1. CASE Has(QUEUE, p)
        <4>1. PICK k \in 1 .. Len(QUEUE) : QUEUE[k] = p
          BY <3>1 DEF Has
        <4>2. PCB_done(p)
          BY <4>1, <1>1 DEF queue_done
        <4> QED
          BY <4>2 DEF PCB_done
      <3>2. CASE r.size = 0
        <4>1. n \in Nat \ {0} /\ N \in Nat \ {0} /\ 3 * N < n + 3 /\ i \in 0 .. N - 1
          BY <2>1, <2>2, CountFacts DEF PagesOf
        <4>2. r.program_counter[i] = Counter(i, n - r.size)
          BY <2>1, <2>2 DEF Progress
        <4> HIDE DEF n, N
        <4>3. n - r.size = n /\ n > 3 * i
          BY <4>1, <3>2
        <4> QED
          BY <4>1, <4>2, <4>3 DEF Counter
      <3> QED
        BY <3>1, <3>2, <1>1 DEF IInv, Scheduled
    <2>4. Loaded(x)
      BY <2>1, <2>2, <2>3 DEF LoadedFirst
    <2> HIDE DEF x
    <2>5. x[j] \in 0 .. FrameStore - 1
      <3>1. CASE x = Zeroed
        BY <3>1, <2>1, StoreAssumption DEF Zeroed, Lines
      <3>2. CASE \E b \in 0 .. FrameStore - 3 : x = FrameAt(b)
        BY <3>2, <2>1, StoreAssumption DEF FrameAt, Lines
      <3> QED
        BY <3>1, <3>2, <2>4 DEF Loaded
    <2>6. x[j] + d \in Memory
      BY <2>5, StoreAssumption DEF Memory
    <2> QED
      BY <2>6 DEF x
  <1>3. Cleared \subseteq Memory
    BY <1>2, ClearedFacts
  <1> QED
    BY <1>3 DEF FreeAll

\* free_PCB stays inside shellmemory.
THEOREM ReleaseInside ==
    ASSUME VarStore >= 2
    PROVE  Spec => [][FreeAll => phase' = "prompt"]_vars
  <1>1. IInv /\ [Next]_vars => [FreeAll => phase' = "prompt"]_vars
    BY ReleaseStep
  <1> QED
    BY <1>1, Invariance, PTL DEF Spec

\* Whatever scripts are run, a shell variable keeps its only position: no
\* loading or eviction touches it, and the release of processes only the first
\* two.  The hypothesis says that the number PAGE_init puts for no position, 1000,
\* lies beyond shellmemory: the two sizes given to make are not larger together.
THEOREM Variables ==
    ASSUME SmallStore
    PROVE  Spec => VariablesKept
  <1> DEFINE Keeps(q) == \/ shellmemory'[q].var = shellmemory[q].var
                         \/ resetmem
                         \/ q < FrameStore + 2 /\ phase = "rr" /\ phase' # "rr"
  <1>1. ASSUME IInv, Next, NEW q \in VarZone, shellmemory[q].var # None
        PROVE  Keeps(q)
    <2>0. GoodMemory(shellmemory)
      BY <1>1 DEF IInv
    <2>1. CASE \E v \in VarNames, x \in VarValues : set(v, x)
      <3>1. PICK v \in VarNames, x \in VarValues : shellmemory' = mem_set_value(shellmemory, v, x)
        BY <2>1 DEF set
      <3>2. Kept(shellmemory, shellmemory')
        BY <3>1, <2>0, SetMemory
      <3> QED
        BY <3>2, <1>1 DEF Kept
    <2>2. CASE resetmem
      BY <2>2
    <2>3. CASE \E s \in Scripts : new_proc(s)
      <3>1. SameVars(shellmemory, shellmemory')
        BY <2>3, <1>1, AdmitStep
      <3> QED
        BY <3>1 DEF SameVars
    <2>4. CASE FileNotFound \/ StartRR \/ TakeTurn
      BY <2>4 DEF FileNotFound, StartRR, TakeTurn
    <2>5. CASE run_proc
      <3>1. cur # Idle /\ (HandleFault(Fetch) \/ HandleLine(Fetch))
        BY <2>5 DEF run_proc
      <3>2. Kept(shellmemory, shellmemory')
        BY <3>1, <1>1, FaultStep, LineStep
      <3> QED
        BY <3>2, <1>1 DEF Kept
    <2>6. CASE FreeAll
      <3>1. /\ shellmemory' = mem_free(shellmemory, Cleared)
            /\ phase = "rr" /\ phase' # "rr"
        BY <2>6 DEF FreeAll
      <3>2. ASSUME q \in Cleared
            PROVE  q < FrameStore + 2
        <4>0. PICK p \in DOMAIN pcb :
                 \E i \in Pages(p), j \in 0 .. 2, d \in 0 .. 2 : q = pcb[p].index[i][j] + d
          BY <3>2, ClearedFacts
        <4>1. PICK i \in Pages(p), j \in 0 .. 2, d \in 0 .. 2 : q = pcb[p].index[i][j] + d
          BY <4>0
        <4> DEFINE x == pcb[p].index[i]
        <4>2. /\ pcb[p] \in PCBs(pcb[p].script) /\ LoadedFirst(pcb[p]) /\ FrameStore >= 3
          BY <1>1 DEF IInv, Good, GoodRow
        <4>3. i \in PagesOf(pcb[p].script)
          BY <4>2 DEF PCBs, Pages
        <4>4. (x = NoFrames \/ Loaded(x)) /\ q = x[j] + d
          BY <4>1, <4>2, <4>3 DEF LoadedFirst
        <4> HIDE DEF x
        <4>5. CASE x = NoFrames
          BY <4>4, <4>5, StoreAssumption DEF NoFrames, Lines, Unloaded, SmallStore, VarZone
        <4>6. CASE x = Zeroed
          BY <4>2, <4>4, <4>6, StoreAssumption DEF Zeroed, Lines
        <4>7. CASE \E b \in 0 .. FrameStore - 3 : x = FrameAt(b)
          BY <4>4, <4>7, StoreAssumption DEF FrameAt, Lines
        <4> QED
          BY <4>4, <4>5, <4>6, <4>7 DEF Loaded
      <3>3. q \in Memory
        BY StoreAssumption DEF VarZone, Memory
      <3>4. q \notin Cleared => shellmemory'[q] = shellmemory[q]
        BY <3>1, <3>3, <2>0, FreeMemory
      <3> QED
        BY <3>1, <3>2, <3>4
    <2> QED
      BY <2>1, <2>2, <2>3, <2>4, <2>5, <2>6, <1>1 DEF Next
  <1>2. ASSUME IInv, [Next]_vars
        PROVE  [/\ OnePosition'
                /\ \A q \in VarZone : shellmemory[q].var # None => Keeps(q)]_vars
    <2>1. CASE UNCHANGED vars
      BY <2>1
    <2>2. CASE Next
      <3>1. IInv'
        BY <1>2, InvNext
      <3>2. OnePosition'
        BY <3>1 DEF IInv, One, OnePosition
      <3>3. \A q \in VarZone : shellmemory[q].var # None => Keeps(q)
        BY <2>2, <1>1, <1>2
      <3> QED
        BY <3>2, <3>3
    <2> QED
      BY <2>1, <2>2, <1>2
  <1> QED
    BY <1>2, Invariance, PTL DEF Spec, VariablesKept

-----------------------------------------------------------------------------
\* Turns.  The processes take turns of two lines, so all of them are at the same
\* turn or the next one, and the LRU list is sorted by the turn in which a page
\* was last used.

\* No script has blank lines or a newline that make count_lines count too many, and
\* none has a line that returns 1.
AllRegular == \A s \in Scripts : Regular(s)

\* Every line of a script is counted.
AllCounted == \A s \in Scripts : count_lines(s) = Len(s.lines)

\* Both hold for scripts as those of the repository: no blank line, no line that
\* returns 1 and no newline at the end of the last line.
LEMMA PlainRegular ==
    ASSUME NEW s \in Scripts, Len(s.lines) > 0, ~s.nl,
           \A k \in 1 .. Len(s.lines) : s.lines[k] \in {"cmd", "set"}
    PROVE  Regular(s) /\ count_lines(s) = Len(s.lines)
  <1> DEFINE n == Len(s.lines)
             C == {k \in 1 .. n : s.lines[k] # "blank" /\ (k < n \/ s.nl)}
  <1>1. n \in Nat
    BY ScriptAssumption
  <1>2. C = 1 .. n - 1
    <2>1. \A k \in 1 .. n : s.lines[k] # "blank"
      OBVIOUS
    <2> HIDE DEF n
    <2> QED
      BY <2>1, <1>1
  <1>3. Cardinality(1 .. n - 1) = n - 1
    <2>1. 1 \in Int /\ n - 1 \in Int /\ 1 <= n
      BY <1>1
    <2>2. Cardinality(1 .. n - 1) = IF 1 > n - 1 THEN 0 ELSE (n - 1) - 1 + 1
      <3> HIDE DEF n
      <3> QED
        BY <2>1, FS_Interval
    <2> QED
      BY <2>1, <2>2, <1>1
  <1>4. count_lines(s) = n
    <2>1. count_lines(s) = 1 + Cardinality(C)
      BY DEF count_lines
    <2> HIDE DEF C
    <2>2. count_lines(s) = 1 + (n - 1)
      BY <2>1, <1>2, <1>3
    <2> QED
      BY <2>2, <1>1
  <1>5. \A k \in 1 .. n : s.lines[k] # "one"
    OBVIOUS
  <1> QED
    BY <1>1, <1>4, <1>5 DEF Regular

\* The lines a process has executed.
Done(r) == count_lines(r.script) - r.size

\* The turn in which page i was last used, or loaded, by a process that has
\* executed d lines.
Stamp(d, i) ==
    IF i = 0 THEN IF d = 0 THEN 0 ELSE IF d <= 2 THEN 1 ELSE 2
    ELSE IF i = 1 THEN IF d <= 3 THEN 0 ELSE IF d = 4 THEN 2 ELSE 3
    ELSE IF d <= 3 * i THEN 2 * i ELSE IF d < 3 * i + 3 THEN 2 * i + 1 ELSE 2 * i + 2

\* A turn begins when d lines are executed and f are read.
Begins(d, f) == \/ d \in {0, 2, 4, 6}
                \/ d > 6 /\ d % 3 = 2
                \/ d > 6 /\ d % 3 = 0 /\ f > d

\* Half of a turn is over.
Halfway(d, f) == \/ d \in {1, 3, 5}
                 \/ d > 6 /\ d % 3 = 1
                 \/ d > 6 /\ d % 3 = 0 /\ f <= d

\* The number of the turn that begins.
Due(d, f) == IF d < 6 THEN d \div 2 + 1
             ELSE IF d = 6 THEN IF f <= 6 THEN 4 ELSE 5
             ELSE IF d % 3 = 0 THEN 2 * (d \div 3) + 1 ELSE 2 * (d \div 3) + 2

\* The number of the turn of which half is over.
Going(d) == IF d < 6 THEN (d + 1) \div 2
            ELSE IF d % 3 = 0 THEN 2 * (d \div 3) ELSE 2 * (d \div 3) + 1

\* Line d + 1, of page i, is executed in the turn n, and f lines are read.
UsedIn(d, i, f, n) ==
    /\ n \in Nat
    /\ Stamp(d + 1, i) = n
    /\ \A h \in Nat : h < i \/ (h = 1 /\ i = 0) =>
          /\ Stamp(d + 1, h) = Stamp(d, h)
          /\ Stamp(d, h) < n \/ (Stamp(d, h) = n /\ h < i)
    /\ Begins(d, f) /\ n = Due(d, f) => Halfway(d + 1, f) /\ Going(d + 1) = n
    /\ Halfway(d, f) /\ n = Going(d) => Begins(d + 1, f) /\ Due(d + 1, f) = n + 1

\* Executing a line.
LEMMA LineTurn ==
    ASSUME NEW d \in Nat, NEW i \in Nat, 3 * i <= d, d < 3 * i + 3,
           NEW f \in Nat, f > d, f <= 6 \/ f <= 3 * i + 3,
           NEW n, (Begins(d, f) /\ n = Due(d, f)) \/ (Halfway(d, f) /\ n = Going(d))
    PROVE  UsedIn(d, i, f, n)
  <1>1. \/ d = 3 * i /\ d % 3 = 0 /\ d \div 3 = i
           /\ (d + 1) % 3 = 1 /\ (d + 1) \div 3 = i
        \/ d = 3 * i + 1 /\ d % 3 = 1 /\ d \div 3 = i
           /\ (d + 1) % 3 = 2 /\ (d + 1) \div 3 = i
        \/ d = 3 * i + 2 /\ d % 3 = 2 /\ d \div 3 = i
           /\ (d + 1) % 3 = 0 /\ (d + 1) \div 3 = i + 1
    OBVIOUS
  <1>2. CASE d > 6
    <2>1. i >= 2 /\ f <= 3 * i + 3
      BY <1>2
    <2>2. n \in Nat /\ n = 2 * i + 1 + (IF d = 3 * i + 2 THEN 1 ELSE 0)
      BY <1>1, <1>2, <2>1 DEF Begins, Halfway, Due, Going
    <2>3. Stamp(d + 1, i) = n
      BY <1>1, <1>2, <2>1, <2>2 DEF Stamp
    <2>4. \A h \in Nat : h < i => Stamp(d + 1, h) = Stamp(d, h) /\ Stamp(d, h) < n
      BY <1>1, <1>2, <2>1, <2>2 DEF Stamp
    <2>5. /\ Begins(d, f) /\ n = Due(d, f) => Halfway(d + 1, f) /\ Going(d + 1) = n
          /\ Halfway(d, f) /\ n = Going(d) => Begins(d + 1, f) /\ Due(d + 1, f) = n + 1
      BY <1>1, <1>2, <2>1, <2>2 DEF Begins, Halfway, Due, Going
    <2> QED
      BY <2>1, <2>2, <2>3, <2>4, <2>5 DEF UsedIn
  <1>3. CASE d <= 6
    <2>1. d \in {0, 1, 2, 3, 4, 5, 6}
      BY <1>3
    <2>2. CASE d = 0
      BY <2>2, <1>1 DEF Begins, Halfway, Due, Going, Stamp, UsedIn
    <2>3. CASE d = 1
      BY <2>3, <1>1 DEF Begins, Halfway, Due, Going, Stamp, UsedIn
    <2>4. CASE d = 2
      BY <2>4, <1>1 DEF Begins, Halfway, Due, Going, Stamp, UsedIn
    <2>5. CASE d = 3
      BY <2>5, <1>1 DEF Begins, Halfway, Due, Going, Stamp, UsedIn
    <2>6. CASE d = 4
      BY <2>6, <1>1 DEF Begins, Halfway, Due, Going, Stamp, UsedIn
    <2>7. CASE d = 5
      BY <2>7, <1>1 DEF Begins, Halfway, Due, Going, Stamp, UsedIn
    <2>8. CASE d = 6
      BY <2>8, <1>1 DEF Begins, Halfway, Due, Going, Stamp, UsedIn
    <2> QED
      BY <2>1, <2>2, <2>3, <2>4, <2>5, <2>6, <2>7, <2>8
  <1> QED
    BY <1>2, <1>3

\* The turn in which page i is found missing.
LEMMA FaultTurn ==
    ASSUME NEW i \in Nat, i >= 2, NEW d, d = 3 * i,
           NEW n, (Begins(d, d) /\ n = Due(d, d)) \/ (Halfway(d, d) /\ n = Going(d))
    PROVE  n = 2 * i
  <1>1. d \in Nat /\ d >= 6 /\ d % 3 = 0 /\ d \div 3 = i
    OBVIOUS
  <1> QED
    BY <1>1 DEF Begins, Halfway, Due, Going

\* Page i was loaded after d lines in the turn n, and f lines are read.
LoadedIn(d, i, f, n) == /\ n = 2 * i
                        /\ Stamp(d, i) = n
                        /\ \A h \in Nat : h < i => Stamp(d, h) <= n
                        /\ Begins(d, f) /\ Due(d, f) = n + 1

\* Loading page i, of which no line is read, in the turn n.
LEMMA LoadTurn ==
    ASSUME NEW i \in Nat, i >= 2, NEW d \in Nat, d = 3 * i, NEW f \in Nat, f > d,
           NEW n, (Begins(d, d) /\ n = Due(d, d)) \/ (Halfway(d, d) /\ n = Going(d))
    PROVE  LoadedIn(d, i, f, n)
  <1>1. d \in Nat /\ d >= 6 /\ d % 3 = 0 /\ d \div 3 = i
    OBVIOUS
  <1>2. n = 2 * i
    BY FaultTurn
  <1>3. Stamp(d, i) = n /\ \A h \in Nat : h < i => Stamp(d, h) <= n
    BY <1>1, <1>2 DEF Stamp
  <1>4. Begins(d, f) /\ Due(d, f) = n + 1
    BY <1>1, <1>2 DEF Begins, Due
  <1> QED
    BY <1>2, <1>3, <1>4 DEF LoadedIn

\* In the turns n = 2 * i and before, only pages i - 1 and i can have been used
\* so late.
LEMMA LatePages ==
    ASSUME NEW i \in Nat, i >= 2, NEW d \in Nat, NEW h \in Nat,
           Stamp(d, h) \in {2 * i - 1, 2 * i}
    PROVE  h \in {i - 1, i}
  BY DEF Stamp

\* A process that is to take its turn 2 * i or the next, and has a page j that it
\* has loaded but not finished, used it in the last turn or in this one.
LEMMA PendingPage ==
    ASSUME NEW i \in Nat, i >= 2, NEW d \in Nat, NEW j \in Nat, NEW f \in Nat,
           Begins(d, f), Due(d, f) \in {2 * i, 2 * i + 1},
           d < 3 * j + 3, f > 3 * j, j < 2 \/ d >= 3 * j
    PROVE  Stamp(d, j) >= 2 * i - 1
  <1>1. CASE d <= 6
    <2>1. d = 6 /\ i = 2
      BY <1>1 DEF Begins, Due
    <2>2. j = 2 /\ f > 6
      BY <2>1
    <2> QED
      BY <2>1, <2>2 DEF Stamp
  <1>2. CASE d > 6
    <2>1. j >= 2 /\ d >= 3 * j
      BY <1>2
    <2>2. \/ d = 3 * j /\ d % 3 = 0 /\ d \div 3 = j
          \/ d = 3 * j + 1 /\ d % 3 = 1 /\ d \div 3 = j
          \/ d = 3 * j + 2 /\ d % 3 = 2 /\ d \div 3 = j
      BY <2>1
    <2> QED
      BY <1>2, <2>1, <2>2 DEF Begins, Due, Stamp
  <1> QED
    BY <1>1, <1>2

-----------------------------------------------------------------------------
\* A page goes to the front of the LRU list, and its old place, or a victim's,
\* goes, or nothing if that is the place after the last.

Old(h, k) == IF h - 1 < k THEN h - 1 ELSE h

Fronted(l2, x, l, k) ==
    /\ Len(l2) = (IF k <= Len(l) THEN Len(l) ELSE Len(l) + 1)
    /\ l2[1] = x
    /\ \A h \in 2 .. Len(l2) : l2[h] = l[Old(h, k)]

LEMMA FrontPlaces ==
    ASSUME NEW S, NEW s \in Seq(S), NEW x \in S
    PROVE  /\ Len(Put(x, s)) = Len(s) + 1
           /\ Put(x, s)[1] = x
           /\ \A k \in 2 .. Len(s) + 1 : Put(x, s)[k] = s[k - 1]
  <1>1. << x >> \in Seq(S) /\ Len(<< x >>) = 1 /\ << x >>[1] = x
    OBVIOUS
  <1>2. /\ Len(Put(x, s)) = 1 + Len(s)
        /\ \A k \in 1 .. 1 + Len(s) : Put(x, s)[k] = IF k <= 1 THEN << x >>[k] ELSE s[k - 1]
    BY <1>1, ConcatProperties DEF Put
  <1>3. Len(s) \in Nat
    OBVIOUS
  <1> QED
    BY <1>1, <1>2, <1>3

LEMMA FrontedPut ==
    ASSUME NEW S, NEW l \in Seq(S), NEW x \in S, NEW l2, l2 = Put(x, l)
    PROVE  Fronted(l2, x, l, Len(l) + 1)
  <1>1. /\ Len(l2) = Len(l) + 1 /\ l2[1] = x /\ \A h \in 2 .. Len(l) + 1 : l2[h] = l[h - 1]
    BY FrontPlaces
  <1>2. Len(l) \in Nat
    OBVIOUS
  <1>3. \A h \in 2 .. Len(l2) : Old(h, Len(l) + 1) = h - 1
    BY <1>1, <1>2 DEF Old
  <1> QED
    BY <1>1, <1>2, <1>3 DEF Fronted

LEMMA FrontedMove ==
    ASSUME NEW S, LRU_CACHE \in Seq(S), NEW k \in 1 .. Len(LRU_CACHE), NEW x \in S,
           NEW l2, l2 = Put(x, Without(k))
    PROVE  Fronted(l2, x, LRU_CACHE, k)
  <1> DEFINE l == LRU_CACHE
             w == Without(k)
  <1>1. /\ w \in Seq(S) /\ Len(w) = Len(l) - 1
        /\ \A h \in 1 .. Len(w) : w[h] = IF h < k THEN l[h] ELSE l[h + 1]
    BY WithoutFacts
  <1> HIDE DEF w
  <1>2. /\ Len(l2) = Len(w) + 1 /\ l2[1] = x /\ \A h \in 2 .. Len(w) + 1 : l2[h] = w[h - 1]
    BY <1>1, FrontPlaces DEF w
  <1>3. Len(l) \in Nat /\ k <= Len(l)
    OBVIOUS
  <1>4. ASSUME NEW h \in 2 .. Len(l2)
        PROVE  l2[h] = l[Old(h, k)]
    <2>1. h - 1 \in 1 .. Len(w) /\ h \in Nat /\ (h - 1) + 1 = h
      BY <1>1, <1>2, <1>3
    <2>2. l2[h] = IF h - 1 < k THEN l[h - 1] ELSE l[(h - 1) + 1]
      BY <2>1, <1>1, <1>2
    <2> QED
      BY <2>1, <2>2 DEF Old
  <1> QED
    BY <1>1, <1>2, <1>3, <1>4 DEF Fronted

\* What is in the list then, and in which order.
LEMMA FrontedFacts ==
    ASSUME NEW l, Len(l) \in Nat, NEW k \in 1 .. Len(l) + 1, NEW x, NEW l2, Fronted(l2, x, l, k)
    PROVE  /\ Len(l2) \in Nat \ {0} /\ Len(l2) >= Len(l)
           /\ \A h \in 2 .. Len(l2) : Old(h, k) \in 1 .. Len(l) /\ Old(h, k) # k
           /\ \A g, h \in 2 .. Len(l2) : g < h => Old(g, k) < Old(h, k)
           /\ \A a \in 1 .. Len(l) : a # k => \E h \in 2 .. Len(l2) : Old(h, k) = a
  <1>1. /\ Len(l2) = (IF k <= Len(l) THEN Len(l) ELSE Len(l) + 1) /\ k \in Nat
    BY DEF Fronted
  <1>2. Len(l2) \in Nat \ {0} /\ Len(l2) >= Len(l)
    BY <1>1
  <1>3. /\ \A h \in 2 .. Len(l2) : Old(h, k) \in 1 .. Len(l) /\ Old(h, k) # k
        /\ \A g, h \in 2 .. Len(l2) : g < h => Old(g, k) < Old(h, k)
    BY <1>1, <1>2 DEF Old
  <1>4. ASSUME NEW a \in 1 .. Len(l), a # k
        PROVE  \E h \in 2 .. Len(l2) : Old(h, k) = a
    <2> DEFINE h == IF a < k THEN a + 1 ELSE a
    <2>1. h \in 2 .. Len(l2) /\ Old(h, k) = a
      BY <1>1, <1>2, <1>4 DEF Old
    <2> HIDE DEF h
    <2> QED
      BY <2>1
  <1> QED
    BY <1>2, <1>3, <1>4

-----------------------------------------------------------------------------
\* Where the pages are.

\* The pages read so far: source_file has gone over them.
ReadPages(r) == PAGE_table_size(r.source_file)

Reads(r) == LET n == Len(r.script.lines)
                k == ReadPages(r)
            IN  /\ k <= PAGE_table_size(count_lines(r.script))
                /\ r.source_file = IF 3 * k <= n THEN 3 * k ELSE n

Ended(r, i) == Done(r) >= 3 * i + 3 \/ r.size = 0

\* Page i of p is in the frame at b, with the lines of the script that belong there.
InFrame(r, m, p, i, b) ==
    /\ r.index[i] = FrameAt(b)
    /\ \A j \in Lines : /\ m[b + j].var = p
                        /\ r.valid_bit[i][j] = (3 * i + j < Len(r.script.lines))
                        /\ 3 * i + j < Len(r.script.lines) => m[b + j].value = <<p, 3 * i + j + 1>>

\* A page in the LRU list is in a frame; one that is not has not been read or is
\* not needed any more.
PageState(r, l, m, p, i) ==
    IF Has(l, <<p, i>>) THEN i < ReadPages(r) /\ \E b \in 0 .. FrameStore - 3 : InFrame(r, m, p, i, b)
    ELSE i >= ReadPages(r) \/ Ended(r, i)

StartOf(t, g) == t[g[1]].index[g[2]][0]

\* Frames are apart, and what is occupied is a frame of the list.
Apart(t, l) == \A a, b \in 1 .. Len(l) :
    a # b => StartOf(t, l[a]) + 3 <= StartOf(t, l[b]) \/ StartOf(t, l[b]) + 3 <= StartOf(t, l[a])

Covered(t, l, m) == \A q \in 0 .. FrameStore - 1 : m[q].var # None =>
    \E a \in 1 .. Len(l) : q - StartOf(t, l[a]) \in Lines

Placed(t, l, m) ==
    /\ \A p \in DOMAIN t : /\ Reads(t[p])
                           /\ \A i \in PagesOf(t[p].script) : PageState(t[p], l, m, p, i)
    /\ Apart(t, l)
    /\ Covered(t, l, m)

\* What the rest needs to know of the list and the table.
Listed(t, l) == /\ Good(t) /\ DOMAIN t \subseteq Nat \ {0}
                /\ l \in Seq(Nodes) /\ Resident(t, l)

LEMMA FrameAtFacts ==
    ASSUME NEW b \in Nat
    PROVE  FrameAt(b)[0] = b /\ \A j \in Lines : FrameAt(b)[j] = b + j
  BY DEF FrameAt, Lines

\* A node of the list is a page in a frame.
LEMMA NodeFrame ==
    ASSUME NEW t, NEW l, NEW m, Listed(t, l), Placed(t, l, m),
           NEW a \in 1 .. Len(l), NEW g, g = l[a]
    PROVE  /\ g \in Nodes /\ g = <<g[1], g[2]>> /\ g[1] \in Nat \ {0} /\ g[2] \in Nat
           /\ g[1] \in DOMAIN t /\ g[2] \in PagesOf(t[g[1]].script)
           /\ g[2] < ReadPages(t[g[1]])
           /\ StartOf(t, g) \in 0 .. FrameStore - 3
           /\ InFrame(t[g[1]], m, g[1], g[2], StartOf(t, g))
  <1>1. g \in Nodes /\ Has(l, g)
    BY ElementOfSeq DEF Listed, Has
  <1>2. g = <<g[1], g[2]>> /\ g[2] \in Nat
    BY <1>1 DEF Nodes
  <1>3. g[1] \in DOMAIN t /\ g[2] \in PagesOf(t[g[1]].script)
    BY <1>1 DEF Listed, Resident, IsPage
  <1>4. PageState(t[g[1]], l, m, g[1], g[2])
    BY <1>3 DEF Placed
  <1>5. /\ g[2] < ReadPages(t[g[1]])
        /\ \E b \in 0 .. FrameStore - 3 : InFrame(t[g[1]], m, g[1], g[2], b)
    BY <1>1, <1>2, <1>4 DEF PageState
  <1>6. PICK b \in 0 .. FrameStore - 3 : InFrame(t[g[1]], m, g[1], g[2], b)
    BY <1>5
  <1>7. b \in Nat
    BY StoreAssumption
  <1>8. StartOf(t, g) = b
    BY <1>6, <1>7, FrameAtFacts DEF InFrame, StartOf
  <1>9. g[1] \in Nat \ {0}
    BY <1>3 DEF Listed
  <1> QED
    BY <1>1, <1>2, <1>3, <1>5, <1>6, <1>8, <1>9

\* Page i of p was loaded into the frame at b.
Filled(t0, m0, t, m, p, i, b) ==
    /\ b \in 0 .. FrameStore - 3
    /\ \A j \in Lines : m0[b + j].var = None
    /\ DOMAIN t = DOMAIN t0
    /\ \A q \in DOMAIN t0 : q # p => t[q] = t0[q]
    /\ t[p].script = t0[p].script /\ t[p].size = t0[p].size
    /\ t[p].source_file = IF 3 * i + 3 <= Len(t0[p].script.lines) THEN 3 * i + 3
                          ELSE Len(t0[p].script.lines)
    /\ \A h \in PagesOf(t0[p].script) : h # i => /\ t[p].index[h] = t0[p].index[h]
                                                 /\ t[p].valid_bit[h] = t0[p].valid_bit[h]
    /\ InFrame(t[p], m, p, i, b)
    /\ \A q \in Memory : q - b \notin Lines => m[q] = m0[q]

LEMMA ReadsFacts ==
    ASSUME AllRegular, NEW r, GoodRow(r), Reads(r), NEW i \in PagesOf(r.script)
    PROVE  /\ Len(r.script.lines) \in Nat /\ i \in Nat /\ 3 * i < Len(r.script.lines)
           /\ count_lines(r.script) <= Len(r.script.lines)
           /\ ReadPages(r) \in Nat
           /\ i = ReadPages(r) => r.source_file = 3 * i
           /\ r.source_file > 3 * i <=> i < ReadPages(r)
           /\ r.source_file <= 3 * ReadPages(r)
  <1>1. r.script \in Scripts /\ r \in PCBs(r.script)
    BY DEF GoodRow
  <1>2. r.source_file \in Nat
    BY <1>1 DEF PCBs
  <1> DEFINE n == Len(r.script.lines)
             c == count_lines(r.script)
             N == PAGE_table_size(c)
             f == r.source_file
             k == ReadPages(r)
  <1>3. /\ c \in Nat \ {0} /\ N \in Nat /\ 3 * N < c + 3 /\ i \in 0 .. N - 1
    BY <1>1, CountFacts DEF PagesOf
  <1>4. n \in Nat /\ c <= n
    BY <1>1, ScriptAssumption DEF AllRegular, Regular
  <1>5. k \in Nat /\ f = (IF 3 * k <= n THEN 3 * k ELSE n) /\ k = (f + 2) \div 3 /\ k <= N
    <2>1. f = (IF 3 * k <= n THEN 3 * k ELSE n) /\ k <= N
      BY DEF Reads
    <2>2. k = (f + 2) \div 3
      BY DEF ReadPages, PAGE_table_size
    <2> HIDE DEF n, k, f
    <2> QED
      BY <2>1, <2>2, <1>2 DEF f
  <1> HIDE DEF n, c, N, f, k
  <1>6. /\ i \in Nat /\ 3 * i < n
        /\ i = k => f = 3 * i
        /\ f > 3 * i <=> i < k
        /\ f <= 3 * k
    BY <1>3, <1>4, <1>5
  <1> QED
    BY <1>4, <1>5, <1>6 DEF n, c, f, k

\* What load_PAGE does when it reads the page that is next in the file.
LEMMA LoadFills ==
    ASSUME AllRegular, NEW s, Good(s.pcb), NEW p \in DOMAIN s.pcb, Reads(s.pcb[p]),
           NEW i \in PagesOf(s.pcb[p].script), i = ReadPages(s.pcb[p]),
           FreeFrames(s.mem) # {}, NEW t, t = load_PAGE(s, p, i).pcb,
           NEW m, m = load_PAGE(s, p, i).mem
    PROVE  \E b \in 0 .. FrameStore - 3 : Filled(s.pcb, s.mem, t, m, p, i, b)
  <1> DEFINE r == s.pcb[p]
             b == frame_alloc(s.mem)
             pos == r.source_file
             n == Len(r.script.lines)
             read == {j \in 0 .. 2 : pos + j < n}
             F == [j \in 0 .. 2 |-> b + j]
             V == [j \in 0 .. 2 |-> j \in read]
             c == pos + Cardinality(read)
             r2 == [r EXCEPT !.index = [r.index EXCEPT ![i] = F],
                             !.valid_bit = [r.valid_bit EXCEPT ![i] = V],
                             !.source_file = c]
  <1>1. t = [s.pcb EXCEPT ![p].index[i] = F, ![p].valid_bit[i] = V, ![p].source_file = c]
    BY DEF load_PAGE
  <1>2. r \in PCBs(r.script) /\ GoodRow(r) /\ r.script \in Scripts
    BY DEF Good, GoodRow
  <1>3. b \in 0 .. FrameStore - 3 /\ b \in Nat /\ \A j \in Lines : s.mem[b + j].var = None
    BY AllocFacts, StoreAssumption DEF FreeFrames, Lines
  <1>4. n \in Nat /\ i \in Nat /\ 3 * i < n /\ pos = 3 * i
    BY <1>2, ReadsFacts
  <1>5. c = IF 3 * i + 3 <= n THEN 3 * i + 3 ELSE n
    <2> DEFINE x == IF 3 * i + 3 <= n THEN 3 ELSE n - 3 * i
    <2> HIDE DEF n, pos
    <2>1. x \in 1 .. 3 /\ \A j \in 0 .. 2 : pos + j < n <=> j <= x - 1
      BY <1>4
    <2>2. read = 0 .. x - 1
      <3> HIDE DEF x
      <3> QED
        BY <2>1
    <2>3. 0 \in Int /\ x - 1 \in Int
      BY <2>1
    <2>4. Cardinality(0 .. x - 1) = IF 0 > x - 1 THEN 0 ELSE x - 1 - 0 + 1
      <3> HIDE DEF x
      <3> QED
        BY <2>3, FS_Interval
    <2>5. Cardinality(read) = x
      <3> HIDE DEF x, read
      <3> QED
        BY <2>1, <2>2, <2>4
    <2> HIDE DEF read
    <2> QED
      BY <2>5, <1>4
  <1>6. /\ F = FrameAt(b)
        /\ \A j \in Lines : V[j] = (3 * i + j < n)
    BY <1>4 DEF FrameAt, Lines
  <1>7. /\ \A q \in Memory : q - b \notin Lines => m[q] = s.mem[q]
        /\ \A j \in Lines : /\ m[b + j].var = p
                            /\ 3 * i + j < n => m[b + j].value = <<p, 3 * i + j + 1>>
    <2> DEFINE W(q) == IF q - b \in read THEN <<p, pos + (q - b) + 1>> ELSE s.mem[q].value
    <2>1. m = [q \in Memory |-> IF q - b \in 0 .. 2 THEN [var |-> p, value |-> W(q)] ELSE s.mem[q]]
      BY DEF load_PAGE
    <2>2. ASSUME NEW j \in Lines
          PROVE  /\ m[b + j].var = p
                 /\ 3 * i + j < n => m[b + j].value = <<p, 3 * i + j + 1>>
      <3>1. b + j \in Memory /\ (b + j) - b = j /\ j \in 0 .. 2
        BY <1>3, StoreAssumption DEF Lines, Memory
      <3> HIDE DEF W, b
      <3>2. m[b + j] = [var |-> p, value |-> W(b + j)]
        BY <3>1, <2>1
      <3>3. m[b + j].var = p /\ m[b + j].value = W(b + j)
        BY <3>2
      <3>4. j \in read <=> 3 * i + j < n
        BY <3>1, <1>4
      <3>5. 3 * i + j < n => W(b + j) = <<p, 3 * i + j + 1>>
        <4> HIDE DEF read, n, pos
        <4> QED
          BY <3>1, <3>4, <1>4 DEF W
      <3> QED
        BY <3>3, <3>5
    <2> HIDE DEF W, b
    <2>3. \A q \in Memory : q - b \notin Lines => m[q] = s.mem[q]
      BY <2>1 DEF Lines
    <2> QED
      BY <2>2, <2>3
  <1> HIDE DEF F, V, c, b, read, pos
  <1>8. /\ DOMAIN t = DOMAIN s.pcb
        /\ \A q \in DOMAIN t : q # p => t[q] = s.pcb[q]
        /\ t[p] = r2
    BY <1>1, <1>2 DEF PCBs
  <1> HIDE DEF r
  <1>9. /\ r2.script = r.script /\ r2.size = r.size /\ r2.source_file = c
        /\ r2.index = [r.index EXCEPT ![i] = F]
        /\ r2.valid_bit = [r.valid_bit EXCEPT ![i] = V]
    BY <1>2 DEF PCBs
  <1>10. /\ r2.index[i] = F /\ r2.valid_bit[i] = V
         /\ \A h \in PagesOf(r.script) : h # i => /\ r2.index[h] = r.index[h]
                                                  /\ r2.valid_bit[h] = r.valid_bit[h]
    <2>1. r.index \in [PagesOf(r.script) -> Frames] /\ i \in PagesOf(r.script)
          /\ r.valid_bit \in [PagesOf(r.script) -> [Lines -> BOOLEAN]]
      BY <1>2 DEF PCBs, r
    <2> HIDE DEF r2
    <2> QED
      BY <2>1, <1>9
  <1> HIDE DEF r2
  <1>11. InFrame(t[p], m, p, i, b)
    <2>1. /\ t[p].index[i] = F /\ t[p].valid_bit[i] = V
          /\ Len(t[p].script.lines) = n
      BY <1>8, <1>9, <1>10 DEF n, r
    <2> HIDE DEF n
    <2> QED
      BY <2>1, <1>6, <1>7 DEF InFrame
  <1>12. Filled(s.pcb, s.mem, t, m, p, i, b)
    BY <1>3, <1>5, <1>7, <1>8, <1>9, <1>10, <1>11 DEF Filled, n, r
  <1> QED
    BY <1>3, <1>12

\* Two frames that have no position in common.
LEMMA FramesApart ==
    ASSUME NEW x \in Int, NEW y \in Int, \A j, h \in Lines : x + j # y + h
    PROVE  x + 3 <= y \/ y + 3 <= x
  <1>1. x # y /\ x + 1 # y /\ x + 2 # y /\ y + 1 # x /\ y + 2 # x
    <2>1. x + 0 # y + 0 /\ x + 1 # y + 0 /\ x + 2 # y + 0 /\ y + 1 # x + 0 /\ y + 2 # x + 0
      BY DEF Lines
    <2> QED
      BY <2>1
  <1> QED
    BY <1>1

\* Loading a page into free positions.
LEMMA LoadKeeps ==
    ASSUME AllRegular, NEW t0, NEW m0, NEW l, Listed(t0, l), Placed(t0, l, m0),
           NEW p \in DOMAIN t0, NEW i \in PagesOf(t0[p].script), i = ReadPages(t0[p]),
           NEW t, NEW m, NEW b, Filled(t0, m0, t, m, p, i, b),
           NEW l2, l2 = Put(<<p, i>>, l)
    PROVE  /\ Placed(t, l2, m)
           /\ ReadPages(t[p]) = i + 1 /\ t[p].source_file > 3 * i
           /\ \A a \in 1 .. Len(l) : l[a] # <<p, i>>
  <1>1. /\ b \in 0 .. FrameStore - 3 /\ b \in Nat
        /\ \A j \in Lines : m0[b + j].var = None
        /\ DOMAIN t = DOMAIN t0
        /\ \A q \in DOMAIN t0 : q # p => t[q] = t0[q]
        /\ t[p].script = t0[p].script /\ t[p].size = t0[p].size
        /\ \A h \in PagesOf(t0[p].script) : h # i => /\ t[p].index[h] = t0[p].index[h]
                                                     /\ t[p].valid_bit[h] = t0[p].valid_bit[h]
        /\ InFrame(t[p], m, p, i, b)
        /\ \A q \in Memory : q - b \notin Lines => m[q] = m0[q]
    BY StoreAssumption DEF Filled
  <1>2. /\ GoodRow(t0[p]) /\ p \in Nat \ {0} /\ Reads(t0[p]) /\ l \in Seq(Nodes) /\ Len(l) \in Nat
    BY DEF Listed, Good, Placed
  <1> DEFINE n == Len(t0[p].script.lines)
             f == t[p].source_file
             x == <<p, i>>
  <1>3. n \in Nat /\ i \in Nat /\ 3 * i < n
    BY <1>2, ReadsFacts
  <1>4. f = IF 3 * i + 3 <= n THEN 3 * i + 3 ELSE n
    BY DEF Filled
  <1>5. ReadPages(t[p]) = i + 1 /\ f > 3 * i
    <2>1. (f + 2) \div 3 = i + 1 /\ f > 3 * i
      <3> HIDE DEF f, n
      <3> QED
        BY <1>3, <1>4
    <2> QED
      BY <2>1 DEF ReadPages, PAGE_table_size
  <1>6. Reads(t[p])
    <2>1. i + 1 <= PAGE_table_size(count_lines(t0[p].script))
      <3>1. t0[p].script \in Scripts
        BY <1>2 DEF GoodRow
      <3>2. PAGE_table_size(count_lines(t0[p].script)) \in Nat
        BY <3>1, CountFacts
      <3> QED
        BY <3>2, <1>3 DEF PagesOf
    <2>2. 3 * (i + 1) = 3 * i + 3
      BY <1>3
    <2> QED
      BY <2>1, <2>2, <1>1, <1>4, <1>5 DEF Reads
  <1> HIDE DEF n, f
  <1>7. ~Has(l, x)
    <2>1. PageState(t0[p], l, m0, p, i)
      BY DEF Placed
    <2> QED
      BY <2>1, <1>3 DEF PageState
  <1>8. \A a \in 1 .. Len(l) : l[a] # x
    BY <1>7 DEF Has
  <1>9. x \in Nodes
    BY <1>2, <1>3 DEF Nodes
  <1>10. /\ \A y : Has(l, y) => Has(l2, y)
         /\ \A y : Has(l2, y) => y = x \/ Has(l, y)
         /\ Has(l2, x)
    <2>1. l2 = Put(x, l)
      OBVIOUS
    <2> HIDE DEF x
    <2> QED
      BY <2>1, <1>2, <1>9, FrontFacts
  <1>11. /\ Len(l2) = Len(l) + 1 /\ l2[1] = x
         /\ \A h \in 2 .. Len(l) + 1 : l2[h] = l[h - 1]
    <2>1. l2 = Put(x, l)
      OBVIOUS
    <2> HIDE DEF x
    <2>2. l \in Seq(Nodes) /\ x \in Nodes
      BY <1>2, <1>9
    <2>3. /\ Len(Put(x, l)) = Len(l) + 1 /\ Put(x, l)[1] = x
          /\ \A h \in 2 .. Len(l) + 1 : Put(x, l)[h] = l[h - 1]
      BY <2>2, FrontPlaces
    <2> QED
      BY <2>1, <2>3
  <1>12. StartOf(t, x) = b
    <2>1. x[1] = p /\ x[2] = i
      OBVIOUS
    <2> QED
      BY <2>1, <1>1, FrameAtFacts DEF StartOf, InFrame
  <1>13. ASSUME NEW a \in 1 .. Len(l), NEW g, g = l[a]
         PROVE  /\ StartOf(t, g) = StartOf(t0, g) /\ StartOf(t, g) \in 0 .. FrameStore - 3
                /\ InFrame(t[g[1]], m, g[1], g[2], StartOf(t, g))
                /\ StartOf(t, g) + 3 <= b \/ b + 3 <= StartOf(t, g)
    <2> DEFINE y == StartOf(t0, g)
    <2>1. /\ g \in Nodes /\ g = <<g[1], g[2]>> /\ g[1] \in Nat \ {0} /\ g[2] \in Nat
          /\ g[1] \in DOMAIN t0 /\ g[2] \in PagesOf(t0[g[1]].script)
          /\ y \in 0 .. FrameStore - 3
          /\ InFrame(t0[g[1]], m0, g[1], g[2], y)
      BY <1>13, NodeFrame
    <2>2. g[1] # p \/ g[2] # i
      BY <2>1, <1>8, <1>13
    <2>3. /\ t[g[1]].script = t0[g[1]].script
          /\ t[g[1]].index[g[2]] = t0[g[1]].index[g[2]]
          /\ t[g[1]].valid_bit[g[2]] = t0[g[1]].valid_bit[g[2]]
      BY <2>1, <2>2, <1>1
    <2>4. StartOf(t, g) = y
      BY <2>3 DEF StartOf
    <2>5. \A j \in Lines : m0[y + j].var = g[1]
      BY <2>1 DEF InFrame
    <2> HIDE DEF y
    <2>6. \A j, h \in Lines : y + j # b + h
      BY <2>1, <2>5, <1>1 DEF None
    <2>7. y \in Int /\ b \in Int
      BY <2>1, <1>1
    <2>8. y + 3 <= b \/ b + 3 <= y
      BY <2>6, <2>7, FramesApart
    <2>9. \A j \in Lines : y + j \in Memory /\ (y + j) - b \notin Lines
      <3>1. \A j \in Lines : j \in Int /\ 0 <= j /\ j <= 2
        BY DEF Lines
      <3>2. \A j \in Lines : y + j \in Memory
        BY <3>1, <2>1, StoreAssumption DEF Memory
      <3>3. \A j \in Lines : (y + j) - b < 0 \/ (y + j) - b > 2
        BY <3>1, <2>7, <2>8
      <3> QED
        BY <3>2, <3>3 DEF Lines
    <2>10. \A j \in Lines : m[y + j] = m0[y + j]
      BY <2>9, <1>1
    <2>11. InFrame(t[g[1]], m, g[1], g[2], y)
      BY <2>1, <2>3, <2>10 DEF InFrame
    <2> QED
      BY <2>1, <2>4, <2>8, <2>11 DEF y
  <1>14. Apart(t, l2)
    <2> SUFFICES ASSUME NEW a \in 1 .. Len(l2), NEW c \in 1 .. Len(l2), a # c
                 PROVE  \/ StartOf(t, l2[a]) + 3 <= StartOf(t, l2[c])
                        \/ StartOf(t, l2[c]) + 3 <= StartOf(t, l2[a])
      BY DEF Apart
    <2>1. CASE a = 1
      <3>1. c \in 2 .. Len(l) + 1 /\ c - 1 \in 1 .. Len(l)
        BY <2>1, <1>2, <1>11
      <3>2. l2[c] = l[c - 1]
        BY <3>1, <1>11
      <3> QED
        BY <3>1, <3>2, <2>1, <1>11, <1>12, <1>13
    <2>2. CASE c = 1
      <3>1. a \in 2 .. Len(l) + 1 /\ a - 1 \in 1 .. Len(l)
        BY <2>2, <1>2, <1>11
      <3>2. l2[a] = l[a - 1]
        BY <3>1, <1>11
      <3> QED
        BY <3>1, <3>2, <2>2, <1>11, <1>12, <1>13
    <2>3. CASE a # 1 /\ c # 1
      <3>1. /\ a \in 2 .. Len(l) + 1 /\ a - 1 \in 1 .. Len(l)
            /\ c \in 2 .. Len(l) + 1 /\ c - 1 \in 1 .. Len(l) /\ a - 1 # c - 1
        BY <2>3, <1>2, <1>11
      <3>2. l2[a] = l[a - 1] /\ l2[c] = l[c - 1]
        BY <3>1, <1>11
      <3>3. Apart(t0, l)
        BY DEF Placed
      <3>4. \/ StartOf(t0, l[a - 1]) + 3 <= StartOf(t0, l[c - 1])
            \/ StartOf(t0, l[c - 1]) + 3 <= StartOf(t0, l[a - 1])
        BY <3>1, <3>3 DEF Apart
      <3>5. /\ StartOf(t, l[a - 1]) = StartOf(t0, l[a - 1])
            /\ StartOf(t, l[c - 1]) = StartOf(t0, l[c - 1])
        BY <3>1, <1>13
      <3> QED
        BY <3>2, <3>4, <3>5
    <2> QED
      BY <2>1, <2>2, <2>3
  <1>15. Covered(t, l2, m)
    <2> SUFFICES ASSUME NEW q \in 0 .. FrameStore - 1, m[q].var # None
                 PROVE  \E a \in 1 .. Len(l2) : q - StartOf(t, l2[a]) \in Lines
      BY DEF Covered
    <2>1. CASE q - b \in Lines
      <3>1. 1 \in 1 .. Len(l2)
        BY <1>2, <1>11
      <3> QED
        BY <3>1, <2>1, <1>11, <1>12
    <2>2. CASE q - b \notin Lines
      <3>1. q \in Memory
        BY StoreAssumption DEF Memory
      <3>2. m0[q].var # None
        BY <3>1, <2>2, <1>1
      <3>3. PICK a \in 1 .. Len(l) : q - StartOf(t0, l[a]) \in Lines
        BY <3>2 DEF Placed, Covered
      <3>4. a + 1 \in 2 .. Len(l) + 1 /\ (a + 1) - 1 = a /\ a + 1 \in 1 .. Len(l2)
        BY <1>2, <1>11
      <3>5. l2[a + 1] = l[a]
        BY <3>4, <1>11
      <3>6. StartOf(t, l[a]) = StartOf(t0, l[a])
        BY <1>13
      <3> QED
        BY <3>3, <3>4, <3>5, <3>6
    <2> QED
      BY <2>1, <2>2
  <1>16. ASSUME NEW q \in DOMAIN t, NEW h \in PagesOf(t[q].script)
         PROVE  PageState(t[q], l2, m, q, h)
    <2>1. q \in DOMAIN t0 /\ h \in PagesOf(t0[q].script) /\ t[q].script = t0[q].script
          /\ Done(t[q]) = Done(t0[q]) /\ t[q].size = t0[q].size
      BY <1>1, <1>16 DEF Done
    <2>2. PageState(t0[q], l, m0, q, h)
      BY <2>1 DEF Placed
    <2>3. CASE <<q, h>> = x
      <3>1. q = p /\ h = i
        BY <2>3
      <3>2. i < ReadPages(t[p])
        BY <1>3, <1>5
      <3>3. Has(l2, <<q, h>>)
        BY <2>3, <1>10
      <3> QED
        BY <3>1, <3>2, <3>3, <1>1 DEF PageState
    <2>4. CASE <<q, h>> # x /\ Has(l, <<q, h>>)
      <3>1. Has(l2, <<q, h>>)
        BY <2>4, <1>10
      <3>2. PICK a \in 1 .. Len(l) : l[a] = <<q, h>>
        BY <2>4 DEF Has
      <3>3. /\ StartOf(t, <<q, h>>) \in 0 .. FrameStore - 3
            /\ InFrame(t[q], m, q, h, StartOf(t, <<q, h>>))
        BY <3>2, <1>13
      <3>4. h < ReadPages(t0[q])
        BY <2>2, <2>4 DEF PageState
      <3>5. h < ReadPages(t[q])
        <4>1. CASE q = p
          <5>1. h < i /\ h \in Nat
            BY <4>1, <3>4, <2>1, <1>2, ReadsFacts
          <5> QED
            BY <5>1, <4>1, <1>3, <1>5
        <4>2. CASE q # p
          BY <4>2, <3>4, <2>1, <1>1
        <4> QED
          BY <4>1, <4>2
      <3> QED
        BY <3>1, <3>3, <3>5 DEF PageState
    <2>5. CASE <<q, h>> # x /\ ~Has(l, <<q, h>>)
      <3>1. ~Has(l2, <<q, h>>)
        BY <2>5, <1>10
      <3>2. h >= ReadPages(t0[q]) \/ Ended(t0[q], h)
        BY <2>2, <2>5 DEF PageState
      <3>3. h >= ReadPages(t[q]) \/ Ended(t[q], h)
        <4>1. CASE q = p
          <5>1. h # i /\ h \in Nat
            BY <2>1, <2>5, <4>1, <1>2, ReadsFacts
          <5> QED
            BY <5>1, <4>1, <3>2, <2>1, <1>3, <1>5 DEF Ended
        <4>2. CASE q # p
          BY <4>2, <3>2, <2>1, <1>1
        <4> QED
          BY <4>1, <4>2
      <3> QED
        BY <3>1, <3>3 DEF PageState
    <2> QED
      BY <2>3, <2>4, <2>5
  <1>17. \A q \in DOMAIN t : Reads(t[q])
    BY <1>1, <1>6 DEF Placed
  <1> QED
    BY <1>5, <1>8, <1>14, <1>15, <1>16, <1>17 DEF Placed, f

\* The rows of the table are the same but for frames.
SameRows(t0, t) ==
    /\ DOMAIN t = DOMAIN t0
    /\ \A q \in DOMAIN t0 : /\ t[q].script = t0[q].script /\ t[q].size = t0[q].size
                            /\ t[q].source_file = t0[q].source_file

\* There is room for a page, and nothing else has changed.
Room(t0, t, l, m) == Placed(t, l, m) /\ FreeFrames(m) # {} /\ SameRows(t0, t)

\* PAGE_evict frees the frame of a page of the list.
LEMMA EvictKeeps ==
    ASSUME NEW s, NEW m0, m0 = s.mem, NEW t0, t0 = s.pcb,
           Listed(t0, LRU_CACHE), Placed(t0, LRU_CACHE, m0),
           NEW k \in 1 .. Len(LRU_CACHE), NEW g, g = LRU_CACHE[k], Ended(t0[g[1]], g[2]),
           \A a \in 1 .. Len(LRU_CACHE) : a # k => LRU_CACHE[a] # g,
           NEW t, t = PAGE_evict(s, g[1], g[2]).pcb, NEW m, m = PAGE_evict(s, g[1], g[2]).mem,
           NEW l2, l2 = Without(k)
    PROVE  Room(t0, t, l2, m)
  <1> DEFINE l == LRU_CACHE
             p == g[1]
             i == g[2]
             b == StartOf(t0, g)
             r == t0[p]
             V == [j \in 0 .. 2 |-> FALSE]
             r2 == [r EXCEPT !.index = [r.index EXCEPT ![i] = Zeroed],
                             !.valid_bit = [r.valid_bit EXCEPT ![i] = V]]
  <1>1. /\ g \in Nodes /\ g = <<p, i>> /\ p \in Nat \ {0} /\ i \in Nat
        /\ p \in DOMAIN t0 /\ i \in PagesOf(r.script)
        /\ b \in 0 .. FrameStore - 3
        /\ InFrame(r, m0, p, i, b)
    BY NodeFrame
  <1>2. /\ l \in Seq(Nodes) /\ Len(l) \in Nat /\ GoodRow(r) /\ r \in PCBs(r.script)
    BY <1>1 DEF Listed, Good, GoodRow
  <1>3. t = [t0 EXCEPT ![p].index[i] = Zeroed, ![p].valid_bit[i] = V]
    BY DEF PAGE_evict, Zeroed, Lines
  <1> HIDE DEF V
  <1>4. /\ DOMAIN t = DOMAIN t0
        /\ \A q \in DOMAIN t : q # p => t[q] = t0[q]
        /\ t[p] = r2
    BY <1>1, <1>2, <1>3 DEF PCBs
  <1>5. /\ r2.script = r.script /\ r2.size = r.size /\ r2.source_file = r.source_file
        /\ \A h \in PagesOf(r.script) : h # i => /\ r2.index[h] = r.index[h]
                                                 /\ r2.valid_bit[h] = r.valid_bit[h]
    <2>1. /\ r2.script = r.script /\ r2.size = r.size /\ r2.source_file = r.source_file
          /\ r2.index = [r.index EXCEPT ![i] = Zeroed]
          /\ r2.valid_bit = [r.valid_bit EXCEPT ![i] = V]
      BY <1>2 DEF PCBs
    <2>2. r.index \in [PagesOf(r.script) -> Frames]
          /\ r.valid_bit \in [PagesOf(r.script) -> [Lines -> BOOLEAN]]
      BY <1>2 DEF PCBs
    <2> HIDE DEF r2, r
    <2> QED
      BY <2>1, <2>2
  <1> HIDE DEF r2
  <1>6. /\ DOMAIN t = DOMAIN t0
        /\ \A q \in DOMAIN t0 : /\ t[q].script = t0[q].script /\ t[q].size = t0[q].size
                                /\ t[q].source_file = t0[q].source_file
    BY <1>4, <1>5, SMTT(20)
  <1>7. /\ \A q \in Memory : q - b \notin Lines => m[q] = m0[q]
        /\ \A j \in Lines : m[b + j].var = None
    <2> DEFINE P == {t0[p].index[i][j] : j \in 0 .. 2}
    <2>1. m = mem_free(m0, P)
      BY DEF PAGE_evict
    <2>2. r.index[i] = FrameAt(b) /\ b \in Nat
      <3>1. r.index[i] = FrameAt(b) /\ b \in 0 .. FrameStore - 3
        BY <1>1 DEF InFrame
      <3> QED
        BY <3>1, StoreAssumption
    <2>3. \A j \in 0 .. 2 : t0[p].index[i][j] = b + j
      BY <2>2, FrameAtFacts, ZenonT(30) DEF Lines
    <2>4. P = {b + j : j \in 0 .. 2}
      BY <2>3
    <2> HIDE DEF P, b
    <2>5. \A q \in Memory : q \in P <=> q - b \in Lines
      <3>1. \A q \in Memory : q \in Int
        BY StoreAssumption DEF Memory
      <3>2. \A q \in Memory : q - b \in Lines => b + (q - b) = q
        BY <3>1, <2>2
      <3>3. \A q \in Memory : q - b \in Lines => q \in P
        BY <3>2, <2>4 DEF Lines
      <3>4. \A q \in P : q - b \in Lines
        BY <2>2, <2>4 DEF Lines
      <3> QED
        BY <3>3, <3>4
    <2>6. \A q \in Memory : m[q] = IF q \in P THEN [var |-> None, value |-> NoLine] ELSE m0[q]
      BY <2>1 DEF mem_free
    <2>7. \A q \in Memory : q \in P => m[q].var = None
      BY <2>6
    <2>8. \A j \in Lines : b + j \in Memory /\ (b + j) - b \in Lines
      BY <1>1, <2>2, StoreAssumption DEF b, Lines, Memory
    <2> QED
      BY <2>5, <2>6, <2>7, <2>8
  <1>8. FreeFrames(m) # {}
    BY <1>1, <1>7 DEF FreeFrames, Lines
  <1>9. /\ Len(l2) = Len(l) - 1
        /\ \A h \in 1 .. Len(l2) : l2[h] = IF h < k THEN l[h] ELSE l[h + 1]
        /\ \A y : Has(l2, y) => Has(l, y)
        /\ \A y : Has(l, y) => y = g \/ Has(l2, y)
    BY <1>2, WithoutFacts
  <1> DEFINE At(h) == IF h < k THEN h ELSE h + 1
  <1>10. /\ \A h \in 1 .. Len(l2) : l2[h] = l[At(h)] /\ At(h) \in 1 .. Len(l) /\ At(h) # k
         /\ \A h, c \in 1 .. Len(l2) : h # c => At(h) # At(c)
         /\ \A a \in 1 .. Len(l) : a # k => \E h \in 1 .. Len(l2) : At(h) = a
    <2>1. k \in 1 .. Len(l) /\ Len(l) \in Nat
      BY <1>2
    <2>2. ASSUME NEW h \in 1 .. Len(l2)
          PROVE  l2[h] = l[At(h)] /\ At(h) \in 1 .. Len(l) /\ At(h) # k
      <3>1. l2[h] = l[At(h)]
        BY <1>9
      <3> QED
        BY <3>1, <2>1, <1>9
    <2>3. \A h, c \in 1 .. Len(l2) : h # c => At(h) # At(c)
      BY <2>1, <1>9
    <2>4. ASSUME NEW a \in 1 .. Len(l), a # k
          PROVE  \E h \in 1 .. Len(l2) : At(h) = a
      <3> DEFINE h == IF a < k THEN a ELSE a - 1
      <3>1. h \in 1 .. Len(l2) /\ At(h) = a
        BY <2>1, <2>4, <1>9
      <3> HIDE DEF h
      <3> QED
        BY <3>1
    <2> QED
      BY <2>2, <2>3, <2>4
  <1> HIDE DEF At
  <1>11. ~Has(l2, g)
    BY <1>10 DEF Has
  <1>12. ASSUME NEW a \in 1 .. Len(l), a # k, NEW y, y = l[a]
         PROVE  /\ StartOf(t, y) = StartOf(t0, y) /\ StartOf(t, y) \in 0 .. FrameStore - 3
                /\ InFrame(t[y[1]], m, y[1], y[2], StartOf(t, y))
    <2> DEFINE z == StartOf(t0, y)
    <2>1. /\ y \in Nodes /\ y = <<y[1], y[2]>>
          /\ y[1] \in DOMAIN t0 /\ y[2] \in PagesOf(t0[y[1]].script)
          /\ z \in 0 .. FrameStore - 3
          /\ InFrame(t0[y[1]], m0, y[1], y[2], z)
      BY <1>12, NodeFrame
    <2>2. y[1] # p \/ y[2] # i
      BY <2>1, <1>1, <1>12
    <2>3. /\ t[y[1]].script = t0[y[1]].script
          /\ t[y[1]].index[y[2]] = t0[y[1]].index[y[2]]
          /\ t[y[1]].valid_bit[y[2]] = t0[y[1]].valid_bit[y[2]]
      <3>1. CASE y[1] # p
        BY <3>1, <2>1, <1>4
      <3>2. CASE y[1] = p
        <4>1. y[2] # i /\ y[2] \in PagesOf(r.script) /\ t[y[1]] = r2 /\ t0[y[1]] = r
          BY <3>2, <2>1, <2>2, <1>4
        <4> HIDE DEF r
        <4> QED
          BY <4>1, <1>5
      <3> QED
        BY <3>1, <3>2
    <2>4. StartOf(t, y) = z
      BY <2>3 DEF StartOf
    <2>5. z + 3 <= b \/ b + 3 <= z
      <3>1. Apart(t0, l)
        BY DEF Placed
      <3> QED
        BY <3>1, <1>12 DEF Apart
    <2> HIDE DEF z, b
    <2>6. ASSUME NEW j \in Lines
          PROVE  m[z + j] = m0[z + j]
      <3>1. j \in 0 .. 2 /\ z \in Nat /\ z + 3 <= FrameStore /\ b \in Int
        BY <2>1, <1>1, StoreAssumption DEF Lines
      <3>2. z + j \in Memory
        BY <3>1, StoreAssumption DEF Memory
      <3>3. (z + j) - b \notin Lines
        BY <3>1, <2>5 DEF Lines
      <3> QED
        BY <3>2, <3>3, <1>7
    <2>7. \A j \in Lines : m[z + j] = m0[z + j]
      BY <2>6
    <2>8. InFrame(t[y[1]], m, y[1], y[2], z)
      BY <2>1, <2>3, <2>7 DEF InFrame
    <2> QED
      BY <2>1, <2>4, <2>8 DEF z
  <1>13. Apart(t, l2)
    <2> SUFFICES ASSUME NEW a \in 1 .. Len(l2), NEW c \in 1 .. Len(l2), a # c
                 PROVE  \/ StartOf(t, l2[a]) + 3 <= StartOf(t, l2[c])
                        \/ StartOf(t, l2[c]) + 3 <= StartOf(t, l2[a])
      BY DEF Apart
    <2>1. /\ At(a) \in 1 .. Len(l) /\ At(c) \in 1 .. Len(l) /\ At(a) # At(c)
          /\ At(a) # k /\ At(c) # k /\ l2[a] = l[At(a)] /\ l2[c] = l[At(c)]
      BY <1>10
    <2>2. Apart(t0, l)
      BY DEF Placed
    <2>3. \/ StartOf(t0, l[At(a)]) + 3 <= StartOf(t0, l[At(c)])
          \/ StartOf(t0, l[At(c)]) + 3 <= StartOf(t0, l[At(a)])
      BY <2>1, <2>2 DEF Apart
    <2>4. /\ StartOf(t, l[At(a)]) = StartOf(t0, l[At(a)])
          /\ StartOf(t, l[At(c)]) = StartOf(t0, l[At(c)])
      BY <2>1, <1>12
    <2> QED
      BY <2>1, <2>3, <2>4
  <1>14. Covered(t, l2, m)
    <2> SUFFICES ASSUME NEW q \in 0 .. FrameStore - 1, m[q].var # None
                 PROVE  \E a \in 1 .. Len(l2) : q - StartOf(t, l2[a]) \in Lines
      BY DEF Covered
    <2>1. q - b \notin Lines
      <3>1. q - b \in Lines => b + (q - b) = q
        BY <1>1
      <3> QED
        BY <3>1, <1>7
    <2>2. q \in Memory
      BY StoreAssumption DEF Memory
    <2>3. m0[q].var # None
      BY <2>1, <2>2, <1>7
    <2>4. PICK a \in 1 .. Len(l) : q - StartOf(t0, l[a]) \in Lines
      BY <2>3 DEF Placed, Covered
    <2>5. a # k
      BY <2>1, <2>4
    <2>6. PICK h \in 1 .. Len(l2) : At(h) = a
      BY <2>5, <1>10
    <2>7. l2[h] = l[a] /\ StartOf(t, l[a]) = StartOf(t0, l[a])
      BY <2>5, <2>6, <1>10, <1>12
    <2> QED
      BY <2>4, <2>7
  <1>15. ASSUME NEW q \in DOMAIN t, NEW h \in PagesOf(t[q].script)
         PROVE  PageState(t[q], l2, m, q, h)
    <2>1. /\ q \in DOMAIN t0 /\ h \in PagesOf(t0[q].script)
          /\ ReadPages(t[q]) = ReadPages(t0[q])
          /\ Ended(t0[q], h) => Ended(t[q], h)
      BY <1>6, <1>15 DEF ReadPages, Ended, Done
    <2>2. PageState(t0[q], l, m0, q, h)
      BY <2>1 DEF Placed
    <2>3. CASE <<q, h>> = g
      <3>1. q = p /\ h = i
        BY <2>3, <1>1
      <3>2. Ended(t[q], h)
        BY <3>1, <2>1
      <3>3. ~Has(l2, <<q, h>>)
        BY <2>3, <1>11
      <3> QED
        BY <3>2, <3>3 DEF PageState
    <2>4. CASE <<q, h>> # g /\ Has(l, <<q, h>>)
      <3>1. Has(l2, <<q, h>>)
        BY <2>4, <1>9
      <3>2. PICK a \in 1 .. Len(l) : l[a] = <<q, h>>
        BY <2>4 DEF Has
      <3>3. a # k
        BY <3>2, <2>4
      <3>4. /\ StartOf(t, <<q, h>>) \in 0 .. FrameStore - 3
            /\ InFrame(t[q], m, q, h, StartOf(t, <<q, h>>))
        BY <3>2, <3>3, <1>12
      <3>5. h < ReadPages(t[q])
        BY <2>1, <2>2, <2>4 DEF PageState
      <3> QED
        BY <3>1, <3>4, <3>5 DEF PageState
    <2>5. CASE <<q, h>> # g /\ ~Has(l, <<q, h>>)
      <3>1. ~Has(l2, <<q, h>>)
        BY <2>5, <1>9
      <3>2. h >= ReadPages(t0[q]) \/ Ended(t0[q], h)
        BY <2>2, <2>5 DEF PageState
      <3> QED
        BY <3>1, <3>2, <2>1 DEF PageState
    <2> QED
      BY <2>3, <2>4, <2>5
  <1>16. \A q \in DOMAIN t : Reads(t[q])
    BY <1>6 DEF Placed, Reads, ReadPages
  <1> QED
    BY <1>6, <1>8, <1>13, <1>14, <1>15, <1>16 DEF Placed, Room, SameRows

-----------------------------------------------------------------------------
\* When pages were used, and whose turn it is.

StampOf(t, g) == Stamp(Done(t[g[1]]), g[2])

DueOf(r) == Due(Done(r), r.source_file)

\* Turn n of p is before turn m of q.
Earlier(n, p, m, q) == n < m \/ (n = m /\ p < q)

\* g was used after h.
Above(t, g, h) ==
    \/ Earlier(StampOf(t, h), h[1], StampOf(t, g), g[1])
    \/ StampOf(t, h) = StampOf(t, g) /\ h[1] = g[1] /\ h[2] < g[2]

Sorted(t, l) == \A a, b \in 1 .. Len(l) : a < b => Above(t, l[a], l[b])

\* The queue is in the order of the turns, and nobody is more than one ahead.
InStep(t, s) ==
    /\ \A a \in 1 .. Len(s) : Begins(Done(t[s[a]]), t[s[a]].source_file)
    /\ \A a, b \in 1 .. Len(s) : a < b =>
          /\ Earlier(DueOf(t[s[a]]), s[a], DueOf(t[s[b]]), s[b])
          /\ Earlier(DueOf(t[s[b]]), s[b], DueOf(t[s[a]]) + 1, s[a])

\* No page was used later than in turn n of p.
Upto(t, l, p, n) == \A k \in 1 .. Len(l) : Earlier(StampOf(t, l[k]), l[k][1], n, p + 1)

\* The turns of the queue come after turn n of p, and before its next one.
Follows(t, s, p, n) == \A a \in 1 .. Len(s) :
    /\ Earlier(n, p, DueOf(t[s[a]]), s[a])
    /\ Earlier(DueOf(t[s[a]]), s[a], n + 1, p)

UsedBefore(t, l, s) == \A k \in 1 .. Len(l) : \A a \in 1 .. Len(s) :
    Earlier(StampOf(t, l[k]), l[k][1], DueOf(t[s[a]]), s[a])

LEMMA TimeTypes ==
    ASSUME NEW d \in Nat, NEW i \in Nat, NEW f \in Nat
    PROVE  Stamp(d, i) \in Nat /\ Due(d, f) \in Nat /\ Going(d) \in Nat
  <1>1. d \div 2 \in Nat /\ d \div 3 \in Nat /\ (d + 1) \div 2 \in Nat
    OBVIOUS
  <1> QED
    BY <1>1 DEF Stamp, Due, Going

LEMMA RowTypes ==
    ASSUME NEW r, GoodRow(r)
    PROVE  /\ r.script \in Scripts /\ r.size \in Nat /\ Done(r) \in Nat /\ r.source_file \in Nat
           /\ Done(r) + r.size = count_lines(r.script) /\ count_lines(r.script) \in Nat \ {0}
           /\ DueOf(r) \in Nat /\ Going(Done(r)) \in Nat
           /\ \A i \in Nat : Stamp(Done(r), i) \in Nat
           /\ PagesOf(r.script) \subseteq Nat
  <1> DEFINE c == count_lines(r.script)
  <1>1. /\ c \in Nat \ {0} /\ PagesOf(r.script) \subseteq Nat /\ r.size \in 0 .. c
        /\ r.source_file \in Nat /\ r.script \in Scripts
    BY CountFacts DEF GoodRow, PCBs
  <1> HIDE DEF c
  <1>2. r.size \in Nat /\ Done(r) \in Nat /\ Done(r) + r.size = c
    BY <1>1 DEF Done, c
  <1>3. DueOf(r) \in Nat /\ Going(Done(r)) \in Nat /\ \A i \in Nat : Stamp(Done(r), i) \in Nat
    BY <1>1, <1>2, TimeTypes DEF DueOf
  <1> QED
    BY <1>1, <1>2, <1>3 DEF c

\* The nodes of the list.
LEMMA ListTypes ==
    ASSUME NEW t, NEW l, Listed(t, l), NEW a \in 1 .. Len(l)
    PROVE  /\ l[a] \in Nodes /\ l[a] = <<l[a][1], l[a][2]>>
           /\ l[a][1] \in Nat \ {0} /\ l[a][2] \in Nat
           /\ l[a][1] \in DOMAIN t /\ l[a][2] \in PagesOf(t[l[a][1]].script)
           /\ GoodRow(t[l[a][1]]) /\ StampOf(t, l[a]) \in Nat
  <1>1. l[a] \in Nodes /\ Has(l, l[a])
    BY ElementOfSeq DEF Listed, Has
  <1>2. l[a] = <<l[a][1], l[a][2]>> /\ l[a][2] \in Nat
    BY <1>1 DEF Nodes
  <1>3. l[a][1] \in DOMAIN t /\ l[a][2] \in PagesOf(t[l[a][1]].script)
    BY <1>1 DEF Listed, Resident, IsPage
  <1>4. l[a][1] \in Nat \ {0} /\ GoodRow(t[l[a][1]])
    BY <1>3 DEF Listed, Good
  <1>5. StampOf(t, l[a]) \in Nat
    BY <1>2, <1>4, RowTypes DEF StampOf
  <1> QED
    BY <1>1, <1>2, <1>3, <1>4, <1>5

\* All but the k-th page keep their places in the order when x is used in turn n.
OrderKept(t0, t, l, k, x, n) == \A a \in 1 .. Len(l) :
    /\ l[a][1] \in Nat /\ l[a][2] \in Nat /\ StampOf(t0, l[a]) \in Nat
    /\ a # k => /\ StampOf(t, l[a]) = StampOf(t0, l[a])
                /\ l[a][1] = x[1] /\ StampOf(t, l[a]) = n => l[a][2] < x[2]

\* The page used last is put in front.
LEMMA Moved ==
    ASSUME NEW l, Len(l) \in Nat, NEW k \in 1 .. Len(l) + 1, NEW x, NEW l2, Fronted(l2, x, l, k),
           NEW t0, NEW t, NEW p \in Nat, x[1] = p, x[2] \in Nat, NEW n \in Nat,
           OrderKept(t0, t, l, k, x, n),
           StampOf(t, x) = n, Sorted(t0, l), Upto(t0, l, p, n)
    PROVE  Sorted(t, l2) /\ Upto(t, l2, p, n)
  <1>1. /\ Len(l2) \in Nat \ {0}
        /\ \A h \in 2 .. Len(l2) : Old(h, k) \in 1 .. Len(l) /\ Old(h, k) # k
        /\ \A g, h \in 2 .. Len(l2) : g < h => Old(g, k) < Old(h, k)
    BY FrontedFacts
  <1>2. l2[1] = x /\ x[1] = p /\ \A h \in 2 .. Len(l2) : l2[h] = l[Old(h, k)]
    BY DEF Fronted
  <1>3. ASSUME NEW h \in 2 .. Len(l2)
        PROVE  /\ StampOf(t, l2[h]) = StampOf(t0, l2[h]) /\ StampOf(t, l2[h]) \in Nat
               /\ l2[h][1] \in Nat /\ l2[h][2] \in Nat
               /\ Earlier(StampOf(t, l2[h]), l2[h][1], n, p + 1)
               /\ Above(t, x, l2[h])
    <2> DEFINE a == Old(h, k)
               y == l[a]
    <2>1. a \in 1 .. Len(l) /\ a # k /\ l2[h] = y
      BY <1>1, <1>2
    <2>2. /\ StampOf(t, y) = StampOf(t0, y) /\ StampOf(t, y) \in Nat
          /\ y[1] \in Nat /\ y[2] \in Nat
          /\ y[1] = p /\ StampOf(t, y) = n => y[2] < x[2]
          /\ Earlier(StampOf(t, y), y[1], n, p + 1)
      BY <2>1 DEF Upto, OrderKept
    <2> HIDE DEF a, y
    <2>3. Above(t, x, y)
      BY <2>2, <1>2 DEF Above, Earlier
    <2> QED
      BY <2>1, <2>2, <2>3
  <1>4. Sorted(t, l2)
    <2> SUFFICES ASSUME NEW a \in 1 .. Len(l2), NEW b \in 1 .. Len(l2), a < b
                 PROVE  Above(t, l2[a], l2[b])
      BY DEF Sorted
    <2>1. b \in 2 .. Len(l2)
      BY <1>1
    <2>2. CASE a = 1
      BY <2>1, <2>2, <1>2, <1>3
    <2>3. CASE a # 1
      <3>1. a \in 2 .. Len(l2)
        BY <2>3, <1>1
      <3>2. Above(t0, l2[a], l2[b])
        BY <3>1, <2>1, <1>1, <1>2 DEF Sorted
      <3> QED
        BY <3>1, <3>2, <2>1, <1>3 DEF Above
    <2> QED
      BY <2>2, <2>3
  <1>5. Upto(t, l2, p, n)
    <2> SUFFICES ASSUME NEW h \in 1 .. Len(l2)
                 PROVE  Earlier(StampOf(t, l2[h]), l2[h][1], n, p + 1)
      BY DEF Upto
    <2>1. CASE h = 1
      BY <2>1, <1>2 DEF Earlier
    <2>2. CASE h # 1
      BY <2>2, <1>1, <1>3
    <2> QED
      BY <2>1, <2>2
  <1> QED
    BY <1>4, <1>5

\* What was used up to a turn was used before the turns that follow, the next of
\* the same process included.
LEMMA UsedThen ==
    ASSUME NEW t, NEW l, NEW s, NEW p \in Nat, NEW n \in Nat,
           \A a \in 1 .. Len(l) : l[a][1] \in Nat /\ StampOf(t, l[a]) \in Nat,
           \A a \in 1 .. Len(s) : s[a] \in Nat /\ DueOf(t[s[a]]) \in Nat,
           Upto(t, l, p, n), Follows(t, s, p, n)
    PROVE  /\ UsedBefore(t, l, s)
           /\ \A k \in 1 .. Len(l) : Earlier(StampOf(t, l[k]), l[k][1], n + 1, p)
  <1>1. ASSUME NEW k \in 1 .. Len(l)
        PROVE  /\ Earlier(StampOf(t, l[k]), l[k][1], n + 1, p)
               /\ \A a \in 1 .. Len(s) : Earlier(StampOf(t, l[k]), l[k][1], DueOf(t[s[a]]), s[a])
    <2> DEFINE v == StampOf(t, l[k])
               q == l[k][1]
    <2>1. v \in Nat /\ q \in Nat /\ Earlier(v, q, n, p + 1)
      BY DEF Upto
    <2> HIDE DEF v, q
    <2>2. Earlier(v, q, n + 1, p)
      BY <2>1 DEF Earlier
    <2>3. ASSUME NEW a \in 1 .. Len(s)
          PROVE  Earlier(v, q, DueOf(t[s[a]]), s[a])
      <3> DEFINE w == DueOf(t[s[a]])
                 z == s[a]
      <3>1. w \in Nat /\ z \in Nat /\ Earlier(n, p, w, z)
        BY DEF Follows
      <3> HIDE DEF w, z
      <3>2. Earlier(v, q, w, z)
        BY <3>1, <2>1 DEF Earlier
      <3> QED
        BY <3>2 DEF w, z
    <2> QED
      BY <2>2, <2>3 DEF v, q
  <1> QED
    BY <1>1 DEF UsedBefore

\* The process goes to the end of the queue.
LEMMA Queued ==
    ASSUME NEW D \in SUBSET Nat, NEW t, NEW l, NEW s \in Seq(D), NEW p \in D, NEW n \in Nat,
           \A a \in 1 .. Len(s) : DueOf(t[s[a]]) \in Nat,
           InStep(t, s), UsedBefore(t, l, s), Follows(t, s, p, n),
           Begins(Done(t[p]), t[p].source_file), DueOf(t[p]) = n + 1,
           \A k \in 1 .. Len(l) : Earlier(StampOf(t, l[k]), l[k][1], n + 1, p),
           NEW s2, s2 = Append(s, p)
    PROVE  InStep(t, s2) /\ UsedBefore(t, l, s2)
  <1>1. /\ Len(s2) = Len(s) + 1 /\ s2[Len(s) + 1] = p
        /\ \A a \in 1 .. Len(s) : s2[a] = s[a]
    BY AppendProperties
  <1>2. Len(s) \in Nat /\ p \in Nat /\ \A a \in 1 .. Len(s) : s[a] \in Nat
    <2>1. \A a \in 1 .. Len(s) : s[a] \in D
      BY ElementOfSeq
    <2>2. \A a \in 1 .. Len(s) : s[a] \in Nat
      BY <2>1
    <2>3. Len(s) \in Nat
      BY LenProperties
    <2> QED
      BY <2>2, <2>3
  <1>3. \A a \in 1 .. Len(s2) : a \in 1 .. Len(s) \/ a = Len(s) + 1
    BY <1>1, <1>2
  <1>4. UsedBefore(t, l, s2)
    BY <1>1, <1>3 DEF UsedBefore
  <1>5. \A a \in 1 .. Len(s2) : Begins(Done(t[s2[a]]), t[s2[a]].source_file)
    BY <1>1, <1>3 DEF InStep
  <1>6. ASSUME NEW a \in 1 .. Len(s2), NEW b \in 1 .. Len(s2), a < b
        PROVE  /\ Earlier(DueOf(t[s2[a]]), s2[a], DueOf(t[s2[b]]), s2[b])
               /\ Earlier(DueOf(t[s2[b]]), s2[b], DueOf(t[s2[a]]) + 1, s2[a])
    <2>1. a \in 1 .. Len(s)
      BY <1>1, <1>2, <1>6
    <2>2. CASE b \in 1 .. Len(s)
      BY <2>1, <2>2, <1>1, <1>6 DEF InStep
    <2>3. CASE b = Len(s) + 1
      <3>1. s2[a] = s[a] /\ s2[b] = p /\ s[a] \in Nat /\ DueOf(t[s[a]]) \in Nat
        BY <2>1, <2>3, <1>1, <1>2
      <3>2. /\ Earlier(n, p, DueOf(t[s[a]]), s[a])
            /\ Earlier(DueOf(t[s[a]]), s[a], n + 1, p)
        BY <2>1 DEF Follows
      <3>3. Earlier(n + 1, p, DueOf(t[s[a]]) + 1, s[a])
        BY <3>1, <3>2 DEF Earlier
      <3> QED
        BY <3>1, <3>2, <3>3
    <2> QED
      BY <2>2, <2>3, <1>3
  <1> QED
    BY <1>4, <1>5, <1>6 DEF InStep

\* The first of the queue takes its turn.
LEMMA Dequeued ==
    ASSUME NEW D \in SUBSET Nat, NEW t, NEW l, NEW s \in Seq(D), s # << >>,
           \A a \in 1 .. Len(l) : l[a][1] \in Nat /\ StampOf(t, l[a]) \in Nat,
           \A a \in 1 .. Len(s) : DueOf(t[s[a]]) \in Nat,
           InStep(t, s), UsedBefore(t, l, s),
           NEW p, p = Head(s), NEW s2, s2 = Tail(s)
    PROVE  /\ InStep(t, s2) /\ UsedBefore(t, l, s2)
           /\ Begins(Done(t[p]), t[p].source_file)
           /\ Follows(t, s2, p, DueOf(t[p])) /\ Upto(t, l, p, DueOf(t[p]))
  <1>1. /\ Len(s2) = Len(s) - 1 /\ \A a \in 1 .. Len(s2) : s2[a] = s[a + 1]
    BY HeadTailProperties
  <1>2. Len(s) \in Nat \ {0} /\ p = s[1] /\ \A a \in 1 .. Len(s) : s[a] \in Nat
    <2>1. Len(s) \in Nat /\ p = s[1]
      OBVIOUS
    <2>2. Len(s) # 0
      BY EmptySeq
    <2> QED
      BY <2>1, <2>2, ElementOfSeq
  <1>3. /\ 1 \in 1 .. Len(s)
        /\ \A a \in 1 .. Len(s2) : a + 1 \in 1 .. Len(s) /\ 1 < a + 1
        /\ \A a, b \in 1 .. Len(s2) : a < b => a + 1 < b + 1
    BY <1>1, <1>2
  <1>4. InStep(t, s2)
    BY <1>1, <1>3 DEF InStep
  <1>5. UsedBefore(t, l, s2)
    BY <1>1, <1>3 DEF UsedBefore
  <1>6. Begins(Done(t[p]), t[p].source_file)
    BY <1>2, <1>3 DEF InStep
  <1>7. Follows(t, s2, p, DueOf(t[p]))
    BY <1>1, <1>2, <1>3 DEF Follows, InStep
  <1>8. Upto(t, l, p, DueOf(t[p]))
    <2>1. \A k \in 1 .. Len(l) : Earlier(StampOf(t, l[k]), l[k][1], DueOf(t[p]), p)
      BY <1>2, <1>3 DEF UsedBefore
    <2>2. DueOf(t[p]) \in Nat /\ p \in Nat
      BY <1>2, <1>3
    <2> QED
      BY <2>1, <2>2 DEF Upto, Earlier
  <1> QED
    BY <1>4, <1>5, <1>6, <1>7, <1>8

\* Of the pages of a script the first two are read when it is admitted, and each
\* of the others when all before it were executed.
Paced(r) == LET k == ReadPages(r)
            IN  /\ k >= 1
                /\ PAGE_table_size(count_lines(r.script)) >= 2 => k >= 2
                /\ Done(r) <= 3 * k
                /\ k > 2 => Done(r) >= 3 * k - 3

\* The pages that are loaded at admission.
Early(t) == {g \in (DOMAIN t) \X {0, 1} : g[2] \in PagesOf(t[g[1]].script)}

Fresh(c) == c.left = 2 \/ ~c.requeue

\* The turn that goes on is the n-th of the process.
AtTurn(r, c, n) == IF Fresh(c) THEN Begins(Done(r), r.source_file) /\ n = DueOf(r)
                   ELSE Halfway(Done(r), r.source_file) /\ n = Going(Done(r))

OnTurn(t, l, s, c) == c # Idle => \E n \in Nat : /\ AtTurn(t[c.pid], c, n)
                                                 /\ Follows(t, s, c.pid, n)
                                                 /\ Upto(t, l, c.pid, n)

Timed(t, l, s, c) == /\ \A p \in DOMAIN t : Paced(t[p])
                     /\ Sorted(t, l)
                     /\ InStep(t, s)
                     /\ UsedBefore(t, l, s)
                     /\ Cardinality(Early(t)) <= Len(l)
                     /\ OnTurn(t, l, s, c)

\* What was executed is what lies before the program counters.
Told(t, o) == \A p \in DOMAIN t : /\ o[p] \in Seq(Nodes)
                                  /\ Len(o[p]) = Done(t[p])
                                  /\ \A k \in 1 .. Len(o[p]) : o[p][k] = <<p, k>>

RInv == /\ Placed(pcb, LRU_CACHE, shellmemory)
        /\ Timed(pcb, LRU_CACHE, QUEUE, cur)
        /\ Told(pcb, ran)
        /\ phase \in {"prompt", "admit"} =>
              cur = Idle /\ \A p \in DOMAIN pcb : Done(pcb[p]) = 0
        /\ phase = "prompt" => pcb = << >> /\ QUEUE = << >> /\ LRU_CACHE = << >>

LEMMA InvListed == IInv => Listed(pcb, LRU_CACHE)
  BY DEF IInv, Listed

\* Page i is there, and the next line, after d, is one of it.
Present(r, i, d) == /\ i < ReadPages(r)
                    /\ r.source_file > d
                    /\ r.source_file <= 6 \/ r.source_file <= 3 * i + 3
                    /\ \A h \in Nat : h < ReadPages(r) /\ h # i => h < i \/ (h = 1 /\ i = 0)

\* Page i is the next one to be read, and its first line the next to be executed.
Missing(r, i, d) == i = ReadPages(r) /\ i >= 2 /\ d = 3 * i /\ r.source_file = d

\* The line to execute lies in a page that is there, or in the next one to read.
LEMMA FetchPage ==
    ASSUME AllRegular, IInv, RInv, cur # Idle, NEW f, f = Fetch, NEW p, p = cur.pid,
           NEW r, r = pcb[p], NEW i, i = f.page, NEW d, d = Done(r)
    PROVE  /\ p \in DOMAIN pcb /\ p \in Nat \ {0} /\ GoodRow(r)
           /\ i \in Nat /\ i \in PagesOf(r.script) /\ d \in Nat
           /\ 3 * i <= d /\ d < 3 * i + 3 /\ r.program_counter[i] = d - 3 * i
           /\ d + 1 <= count_lines(r.script) /\ d + 1 <= Len(r.script.lines)
           /\ f.valid => Has(LRU_CACHE, <<p, i>>) /\ Present(r, i, d)
           /\ ~f.valid => Missing(r, i, d)
  <1> DEFINE c == r.program_counter[i]
             k == ReadPages(r)
             n == Len(r.script.lines)
             sf == r.source_file
             N == PAGE_table_size(count_lines(r.script))
  <1>1. /\ p \in DOMAIN pcb /\ p \in Nat \ {0} /\ r.size \in Nat \ {0} /\ i \in Nat
        /\ i \in PagesOf(r.script) /\ i = CurrentPage(p)
        /\ f.valid = r.valid_bit[i][c] /\ f.valid \in BOOLEAN
        /\ f.valid => Has(LRU_CACHE, <<p, i>>)
    <2>1. p \in DOMAIN pcb
      BY TurnFacts
    <2>2. DOMAIN pcb \subseteq Nat \ {0}
      BY DEF IInv
    <2> QED
      BY <2>1, <2>2, TurnFacts
  <1>2. Good(pcb) /\ GoodRow(r) /\ r.script \in Scripts
    BY <1>1 DEF IInv, Good, GoodRow
  <1>3. d \in Nat /\ 3 * i <= d /\ d < 3 * i + 3 /\ c = d - 3 * i
    BY <1>1, <1>2, PageNow DEF Done
  <1>4. /\ d + r.size = count_lines(r.script) /\ count_lines(r.script) \in Nat \ {0} /\ sf \in Nat
    BY <1>2, RowTypes
  <1>5. Reads(r) /\ Paced(r) /\ PageState(r, LRU_CACHE, shellmemory, p, i)
    BY <1>1 DEF RInv, Placed, Timed
  <1>6. /\ n \in Nat /\ 3 * i < n /\ count_lines(r.script) <= n /\ k \in Nat
        /\ i = k => sf = 3 * i
        /\ sf > 3 * i <=> i < k
        /\ sf <= 3 * k
    BY <1>1, <1>2, <1>5, ReadsFacts
  <1>7. sf = IF 3 * k <= n THEN 3 * k ELSE n
    BY <1>5 DEF Reads
  <1>8. /\ k >= 1 /\ (N >= 2 => k >= 2) /\ d <= 3 * k /\ (k > 2 => d >= 3 * k - 3)
    BY <1>5 DEF Paced
  <1>9. N \in Nat /\ i <= N - 1
    BY <1>1, <1>2, CountFacts DEF PagesOf
  <1>10. d + 1 <= count_lines(r.script) /\ d + 1 <= n
    <2> HIDE DEF n
    <2> QED
      BY <1>1, <1>3, <1>4, <1>6
  <1>11. c \in Lines
    <2> HIDE DEF c
    <2> QED
      BY <1>1, <1>3 DEF Lines
  <1> HIDE DEF c, k, n, sf, N
  <1>12. CASE i < k
    <2>1. Has(LRU_CACHE, <<p, i>>)
      <3>1. ~Ended(r, i)
        BY <1>1, <1>3 DEF Ended
      <3> QED
        BY <3>1, <1>1, <1>5, <1>6, <1>12 DEF PageState, k
    <2>2. PICK b \in 0 .. FrameStore - 3 : InFrame(r, shellmemory, p, i, b)
      BY <2>1, <1>5 DEF PageState
    <2>3. f.valid = (3 * i + c < n)
      BY <2>2, <1>1, <1>11 DEF InFrame, n
    <2>4. 3 * i + c = d
      BY <1>1, <1>3
    <2>5. f.valid
      <3>1. 3 * i + c < n
        BY <2>4, <1>3, <1>6, <1>10 DEF n
      <3> QED
        BY <3>1, <2>3
    <2>6. sf > d
      BY <1>1, <1>3, <1>6, <1>7, <1>10, <1>12
    <2>7. sf <= 6 \/ sf <= 3 * i + 3
      BY <1>1, <1>3, <1>4, <1>6, <1>8, <1>12 DEF sf
    <2>8. \A h \in Nat : h < k /\ h # i => h < i \/ (h = 1 /\ i = 0)
      BY <1>1, <1>3, <1>6, <1>8, <1>12
    <2> QED
      BY <2>1, <2>5, <2>6, <2>7, <2>8, <1>1, <1>2, <1>3, <1>10, <1>12 DEF Present, k, n, sf, c
  <1>13. CASE ~(i < k)
    <2>1. ~f.valid
      BY <1>1, <1>5, <1>13 DEF PageState, k
    <2>2. i = k /\ d = 3 * i
      BY <1>1, <1>3, <1>6, <1>8, <1>13
    <2>3. i >= 2
      BY <2>2, <1>1, <1>6, <1>8, <1>9
    <2>4. sf = d
      BY <2>2, <1>6
    <2> QED
      BY <2>1, <2>2, <2>3, <2>4, <1>1, <1>2, <1>3, <1>10 DEF Missing, k, n, sf, c
  <1> QED
    BY <1>12, <1>13

\* The line that is fetched is the next one of the script, and it does not return 1.
LEMMA FetchLine ==
    ASSUME AllRegular, IInv, RInv, cur # Idle, NEW f, f = Fetch, f.valid, NEW p, p = cur.pid,
           NEW d, d = Done(pcb[p])
    PROVE  f.line = <<p, d + 1>> /\ ~ReturnsOne(f.line)
  <1> DEFINE r == pcb[p]
             i == f.page
             c == r.program_counter[i]
  <1>1. /\ p \in DOMAIN pcb /\ p \in Nat \ {0} /\ GoodRow(r)
        /\ i \in Nat /\ i \in PagesOf(r.script) /\ d \in Nat
        /\ 3 * i <= d /\ d < 3 * i + 3 /\ c = d - 3 * i
        /\ d + 1 <= count_lines(r.script) /\ d + 1 <= Len(r.script.lines)
        /\ Has(LRU_CACHE, <<p, i>>)
    BY FetchPage
  <1>2. PageState(r, LRU_CACHE, shellmemory, p, i)
    BY <1>1 DEF RInv, Placed
  <1>3. PICK b \in 0 .. FrameStore - 3 : InFrame(r, shellmemory, p, i, b)
    BY <1>1, <1>2 DEF PageState
  <1>4. c \in Lines /\ 3 * i + c = d
    <2> HIDE DEF c, i
    <2> QED
      BY <1>1 DEF Lines
  <1>5. i = CurrentPage(p) /\ f.valid = r.valid_bit[i][c]
    BY TurnFacts
  <1>6. f.line = shellmemory[r.index[i][c]].value
    <2> DEFINE j == CurrentPage(p)
               e == r.program_counter[j]
               v == r.valid_bit[j][e]
               ln == IF v THEN shellmemory[r.index[j][e]].value ELSE NoLine
    <2>1. f = [page |-> j, valid |-> v, line |-> ln]
      BY DEF Fetch
    <2> HIDE DEF j, v, ln, e
    <2>2. f.line = ln /\ f.valid = v /\ f.page = j
      BY <2>1
    <2>3. ln = shellmemory[r.index[j][e]].value
      BY <2>2 DEF ln
    <2>4. r.index[j][e] = r.index[i][c]
      BY <2>2 DEF e
    <2> QED
      BY <2>2, <2>3, <2>4
  <1>7. r.index[i][c] = b + c
    BY <1>3, <1>4, StoreAssumption, FrameAtFacts DEF InFrame
  <1>8. 3 * i + c < Len(r.script.lines)
    <2>0. r.script \in Scripts
      BY <1>1 DEF GoodRow
    <2>1. Len(r.script.lines) \in Nat
      BY <2>0, ScriptLength
    <2> HIDE DEF c, i, r
    <2> QED
      BY <2>1, <1>1, <1>4, SMTT(20)
  <1>9. f.line = <<p, 3 * i + c + 1>>
    <2>1. \A j \in Lines : 3 * i + j < Len(r.script.lines) =>
             shellmemory[b + j].value = <<p, 3 * i + j + 1>>
      BY <1>3 DEF InFrame
    <2>2. shellmemory[b + c].value = <<p, 3 * i + c + 1>>
      BY <2>1, <1>4, <1>8
    <2> QED
      BY <2>2, <1>6, <1>7
  <1>10. f.line = <<p, d + 1>>
    BY <1>4, <1>9
  <1>11. r.script.lines[d + 1] # "one"
    <2>0. r.script \in Scripts
      BY <1>1 DEF GoodRow
    <2>1. r.script \in Scripts /\ Len(r.script.lines) \in Nat
      BY <2>0, ScriptLength
    <2>2. d + 1 \in 1 .. Len(r.script.lines)
      BY <2>1, <1>1
    <2> QED
      BY <2>1, <2>2 DEF AllRegular, Regular
  <1>12. f.line[1] = p /\ f.line[2] = d + 1
    BY <1>10
  <1> QED
    BY <1>10, <1>11, <1>12 DEF ReturnsOne

LEMMA EarlyFinite ==
    ASSUME NEW t, NEW n \in Nat, DOMAIN t \subseteq 1 .. n
    PROVE  IsFiniteSet(Early(t)) /\ Cardinality(Early(t)) \in Nat
  <1>1. IsFiniteSet(1 .. n)
    <2>1. 1 \in Int /\ n \in Int
      OBVIOUS
    <2> QED
      BY <2>1, FS_Interval
  <1>2. IsFiniteSet(DOMAIN t)
    BY <1>1, FS_Subset
  <1>3. IsFiniteSet({0, 1})
    <2>1. IsFiniteSet({1})
      BY FS_Singleton
    <2>2. IsFiniteSet({1} \cup {0})
      BY <2>1, FS_AddElement
    <2>3. {1} \cup {0} = {0, 1}
      OBVIOUS
    <2> QED
      BY <2>2, <2>3
  <1>4. IsFiniteSet((DOMAIN t) \X {0, 1})
    BY <1>2, <1>3, FS_Product
  <1>5. Early(t) \in SUBSET ((DOMAIN t) \X {0, 1})
    BY DEF Early
  <1>6. IsFiniteSet(Early(t))
    BY <1>4, <1>5, FS_Subset
  <1> QED
    BY <1>6, FS_CardinalityType

\* A list cannot hold pages i - 1 and i only, each once and one of them not at all,
\* if it is as long as there are early pages.
LEMMA TooMany ==
    ASSUME NEW t, NEW N \in Nat, DOMAIN t \subseteq 1 .. N, Good(t),
           NEW l, Len(l) \in Nat, Cardinality(Early(t)) <= Len(l),
           NEW i \in Nat, i >= 2, NEW p \in DOMAIN t, i \in PagesOf(t[p].script),
           \A a \in 1 .. Len(l) : /\ l[a] = <<l[a][1], l[a][2]>>
                                  /\ l[a][1] \in DOMAIN t
                                  /\ l[a][2] \in PagesOf(t[l[a][1]].script)
                                  /\ l[a][2] \in {i - 1, i}
                                  /\ l[a] # <<p, i>>,
           \A a, b \in 1 .. Len(l) : a # b => l[a] # l[b]
    PROVE  FALSE
  <1> DEFINE E == Early(t)
             T == E \ {<<p, 1>>}
             S == 1 .. Len(l)
             F == [a \in S |-> <<l[a][1], l[a][2] - (i - 1)>>]
  <1>1. IsFiniteSet(E) /\ Cardinality(E) \in Nat
    BY EarlyFinite
  <1>2. ASSUME NEW q \in DOMAIN t, NEW h \in PagesOf(t[q].script), NEW j \in 0 .. h
        PROVE  j \in PagesOf(t[q].script)
    <2>1. t[q].script \in Scripts
      BY DEF Good, GoodRow
    <2>2. PAGE_table_size(count_lines(t[q].script)) \in Nat
      BY <2>1, CountFacts
    <2> QED
      BY <2>2 DEF PagesOf
  <1>3. ASSUME NEW q \in DOMAIN t, NEW h \in PagesOf(t[q].script), NEW j \in {0, 1}, j <= h, h \in Nat
        PROVE  <<q, j>> \in E
    <2>1. j \in 0 .. h
      BY <1>3
    <2>2. j \in PagesOf(t[q].script)
      BY <2>1, <1>2
    <2>3. <<q, j>> \in (DOMAIN t) \X {0, 1} /\ <<q, j>>[1] = q /\ <<q, j>>[2] = j
      BY <1>3
    <2> QED
      BY <2>2, <2>3 DEF Early
  <1>4. <<p, 1>> \in E
    <2>1. 1 \in {0, 1} /\ 1 <= i
      OBVIOUS
    <2> HIDE DEF E
    <2> QED
      BY <2>1, <1>3
  <1>5. IsFiniteSet(T) /\ Cardinality(T) = Cardinality(E) - 1
    <2> HIDE DEF E
    <2> QED
      BY <1>1, <1>4, FS_RemoveElement
  <1>6. IsFiniteSet(S) /\ Cardinality(S) = Len(l)
    <2>1. 1 \in Int /\ Len(l) \in Int
      OBVIOUS
    <2>2. IsFiniteSet(S) /\ Cardinality(S) = IF 1 > Len(l) THEN 0 ELSE Len(l) - 1 + 1
      BY <2>1, FS_Interval
    <2> QED
      BY <2>2
  <1>7. Cardinality(T) < Cardinality(S)
    BY <1>1, <1>5, <1>6
  <1>8. ASSUME NEW a \in S
        PROVE  F[a] \in T
    <2> DEFINE q == l[a][1]
               h == l[a][2]
               j == h - (i - 1)
    <2>1. q \in DOMAIN t /\ h \in PagesOf(t[q].script) /\ h \in {i - 1, i} /\ <<q, h>> # <<p, i>>
      BY <1>8
    <2> HIDE DEF q, h
    <2>2. h \in Nat /\ j \in {0, 1} /\ j <= h /\ (j = 1 => h = i)
      BY <2>1
    <2>3. <<q, j>> \in E
      BY <2>1, <2>2, <1>3
    <2>4. <<q, j>> # <<p, 1>>
      BY <2>1, <2>2
    <2>5. <<q, j>> \in T
      BY <2>3, <2>4
    <2> QED
      BY <2>5 DEF q, h
  <1> HIDE DEF E, T
  <1>9. F \in [S -> T]
    BY <1>8
  <1>10. PICK a, b \in S : a # b /\ F[a] = F[b]
    <2> HIDE DEF F, S
    <2> QED
      BY <1>5, <1>6, <1>7, <1>9, FS_PigeonHole
  <1>11. l[a][1] = l[b][1] /\ l[a][2] = l[b][2]
    <2> DEFINE A == l[a][2] - (i - 1)
               B == l[b][2] - (i - 1)
    <2>1. <<l[a][1], A>> = <<l[b][1], B>>
      BY <1>10
    <2>2. l[a][1] = l[b][1] /\ A = B
      <3> HIDE DEF A, B
      <3> QED
        BY <2>1
    <2>3. l[a][2] \in {i - 1, i} /\ l[b][2] \in {i - 1, i}
      OBVIOUS
    <2> QED
      BY <2>2, <2>3
  <1> QED
    BY <1>10, <1>11, ZenonT(30)

\* Nodes of a sorted list are different.
LEMMA SortedApart ==
    ASSUME NEW t, NEW l, Len(l) \in Nat, Sorted(t, l),
           \A a \in 1 .. Len(l) : StampOf(t, l[a]) \in Nat /\ l[a][1] \in Nat /\ l[a][2] \in Nat
    PROVE  \A a, b \in 1 .. Len(l) : a # b => l[a] # l[b]
  <1>1. ASSUME NEW a \in 1 .. Len(l), NEW b \in 1 .. Len(l), a < b, l[a] = l[b]
        PROVE  FALSE
    <2>1. Above(t, l[a], l[a])
      BY <1>1 DEF Sorted
    <2> QED
      BY <2>1 DEF Above, Earlier
  <1> QED
    BY <1>1

\* At a page fault the least recently used page is not needed any more.
LEMMA VictimEnded ==
    ASSUME AllRegular, IInv, RInv, cur # Idle, NEW f, f = Fetch, ~f.valid, NEW p, p = cur.pid,
           NEW d, d = Done(pcb[p]), NEW g, g = LRU_CACHE[Len(LRU_CACHE)]
    PROVE  Len(LRU_CACHE) \in Nat \ {0} /\ Ended(pcb[g[1]], g[2])
  <1> DEFINE r == pcb[p]
             i == f.page
             l == LRU_CACHE
             L == Len(l)
  <1>1. /\ p \in DOMAIN pcb /\ p \in Nat \ {0} /\ i \in Nat /\ i \in PagesOf(r.script)
        /\ i = ReadPages(r) /\ i >= 2 /\ Done(r) = 3 * i /\ r.source_file = Done(r)
    <2>1. /\ p \in DOMAIN pcb /\ p \in Nat \ {0} /\ i \in Nat /\ i \in PagesOf(r.script)
          /\ Missing(r, i, d)
      BY FetchPage
    <2> QED
      BY <2>1 DEF Missing
  <1>2. Listed(pcb, l) /\ Placed(pcb, l, shellmemory) /\ Timed(pcb, l, QUEUE, cur) /\ Good(pcb)
    BY InvListed DEF RInv, IInv
  <1>3. L \in Nat \ {0} /\ L \in 1 .. L
    <2>1. l \in Seq(Nodes) /\ L > 0
      BY <1>1 DEF IInv
    <2>2. L \in Nat
      BY <2>1, LenProperties
    <2> QED
      BY <2>1, <2>2
  <1>4. \A a \in 1 .. L : /\ l[a] = <<l[a][1], l[a][2]>>
                          /\ l[a][1] \in Nat \ {0} /\ l[a][2] \in Nat
                          /\ l[a][1] \in DOMAIN pcb /\ l[a][2] \in PagesOf(pcb[l[a][1]].script)
                          /\ GoodRow(pcb[l[a][1]]) /\ StampOf(pcb, l[a]) \in Nat
                          /\ l[a][2] < ReadPages(pcb[l[a][1]])
    BY <1>2, ListTypes, NodeFrame
  <1>5. PICK n \in Nat : /\ AtTurn(r, cur, n)
                         /\ Follows(pcb, QUEUE, p, n)
                         /\ Upto(pcb, l, p, n)
    BY <1>2 DEF Timed, OnTurn
  <1>6. n = 2 * i
    <2>1. i \in Nat /\ i >= 2 /\ d = 3 * i
      BY <1>1
    <2>2. (Begins(d, d) /\ n = Due(d, d)) \/ (Halfway(d, d) /\ n = Going(d))
      BY <1>1, <1>5 DEF AtTurn, DueOf
    <2> QED
      BY <2>1, <2>2, FaultTurn
  <1> DEFINE q == g[1]
             h == g[2]
             R == pcb[q]
             e == Done(R)
  <1>7. /\ g = <<q, h>> /\ q \in Nat \ {0} /\ h \in Nat /\ q \in DOMAIN pcb
        /\ h \in PagesOf(R.script) /\ h < ReadPages(R) /\ GoodRow(R) /\ StampOf(pcb, g) \in Nat
    BY <1>3, <1>4
  <1> HIDE DEF i, L
  <1>8. ASSUME ~Ended(R, h)
        PROVE  FALSE
    <2>1. e < 3 * h + 3 /\ R.size # 0 /\ e \in Nat /\ R.source_file \in Nat
      <3>1. e \in Nat /\ R.source_file \in Nat
        BY <1>7, RowTypes
      <3>2. ~(e >= 3 * h + 3) /\ R.size # 0
        BY <1>8 DEF Ended
      <3> HIDE DEF e, h, R
      <3> QED
        BY <3>1, <3>2, <1>7
    <2>2. q # p
      BY <2>1, <1>1, <1>7
    <2>3. Has(QUEUE, q)
      <3>1. Scheduled(pcb, QUEUE, cur)
        BY DEF IInv
      <3> QED
        BY <3>1, <2>1, <2>2, <1>7 DEF Scheduled
    <2>4. PICK a \in 1 .. Len(QUEUE) : QUEUE[a] = q
      BY <2>3 DEF Has
    <2>5. Begins(e, R.source_file) /\ Earlier(n, p, DueOf(R), q) /\ Earlier(DueOf(R), q, n + 1, p)
      BY <2>4, <1>2, <1>5 DEF Timed, InStep, Follows
    <2>6. DueOf(R) \in Nat
      BY <1>7, RowTypes
    <2>7. Due(e, R.source_file) \in {2 * i, 2 * i + 1}
      <3>1. DueOf(R) \in {n, n + 1}
        BY <2>5, <2>6 DEF Earlier
      <3> QED
        BY <3>1, <1>6 DEF DueOf
    <2>8. Reads(R) /\ Paced(R)
      BY <1>2, <1>7 DEF Placed, Timed
    <2>9. R.source_file > 3 * h /\ ReadPages(R) \in Nat
      BY <2>8, <1>7, ReadsFacts
    <2>10. h < 2 \/ e >= 3 * h
      BY <2>1, <2>8, <2>9, <1>7 DEF Paced
    <2>11. Stamp(e, h) >= 2 * i - 1
      <3> HIDE DEF e, h, R
      <3> QED
        BY <2>1, <2>5, <2>7, <2>9, <2>10, <1>1, <1>7, PendingPage DEF i
    <2>12. StampOf(pcb, g) >= 2 * i - 1
      BY <2>11 DEF StampOf
    <2>13. ASSUME NEW b \in 1 .. L
           PROVE  l[b][2] \in {i - 1, i}
      <3> DEFINE x == StampOf(pcb, l[b])
      <3>1. x \in Nat /\ l[b][1] \in Nat /\ l[b][2] \in Nat /\ GoodRow(pcb[l[b][1]])
        BY <1>4
      <3>2. x <= n
        <4>1. Earlier(x, l[b][1], n, p + 1)
          BY <1>5 DEF Upto, L
        <4> HIDE DEF x
        <4> QED
          BY <4>1, <3>1 DEF Earlier
      <3>3. x >= StampOf(pcb, g)
        <4>1. CASE b = L
          BY <4>1, <3>1 DEF L
        <4>2. CASE b # L
          <5>1. b < L
            BY <4>2, <1>3
          <5>2. Above(pcb, l[b], g)
            BY <5>1, <1>2, <1>3 DEF Timed, Sorted, L
          <5> HIDE DEF x
          <5> QED
            BY <5>2, <3>1, <1>7 DEF Above, Earlier, x
        <4> QED
          BY <4>1, <4>2
      <3>4. x \in {2 * i - 1, 2 * i}
        <4> DEFINE y == StampOf(pcb, g)
        <4>1. i \in Nat /\ y \in Nat /\ y >= 2 * i - 1
          BY <2>12, <1>1, <1>7 DEF i
        <4>2. x \in Nat /\ x <= 2 * i /\ x >= y
          BY <3>1, <3>2, <3>3, <1>6
        <4> HIDE DEF x, y
        <4> QED
          BY <4>1, <4>2
      <3>5. Done(pcb[l[b][1]]) \in Nat
        BY <3>1, RowTypes
      <3>6. Stamp(Done(pcb[l[b][1]]), l[b][2]) \in {2 * i - 1, 2 * i}
        BY <3>4 DEF StampOf
      <3>7. i \in Nat /\ i >= 2
        BY <1>1 DEF i
      <3> QED
        BY <3>1, <3>5, <3>6, <3>7, LatePages
    <2>14. \A b \in 1 .. L : l[b] # <<p, i>>
      <3> SUFFICES ASSUME NEW b \in 1 .. L, l[b] = <<p, i>>
                   PROVE  FALSE
        OBVIOUS
      <3>1. l[b][1] = p /\ l[b][2] = i
        OBVIOUS
      <3>2. i < ReadPages(r)
        BY <3>1, <1>4
      <3> QED
        BY <3>2, <1>1 DEF i
    <2>15. \A a1, b \in 1 .. L : a1 # b => l[a1] # l[b]
      <3>1. /\ L \in Nat /\ Sorted(pcb, l)
            /\ \A b \in 1 .. L : StampOf(pcb, l[b]) \in Nat /\ l[b][1] \in Nat /\ l[b][2] \in Nat
        BY <1>2, <1>3, <1>4 DEF Timed
      <3> QED
        BY <3>1, SortedApart DEF L
    <2>16. Cardinality(Early(pcb)) <= L
      BY <1>2 DEF Timed, L
    <2>17. PID_counter - 1 \in Nat /\ DOMAIN pcb \subseteq 1 .. PID_counter - 1
      BY DEF IInv
    <2>18. /\ i \in Nat /\ i >= 2 /\ p \in DOMAIN pcb /\ i \in PagesOf(pcb[p].script) /\ L \in Nat
           /\ \A b \in 1 .. L : /\ l[b] = <<l[b][1], l[b][2]>>
                                /\ l[b][1] \in DOMAIN pcb
                                /\ l[b][2] \in PagesOf(pcb[l[b][1]].script)
                                /\ l[b][2] \in {i - 1, i}
                                /\ l[b] # <<p, i>>
      BY <2>13, <2>14, <1>1, <1>3, <1>4 DEF i
    <2> QED
      BY <2>15, <2>16, <2>17, <2>18, <1>2, TooMany, SMTT(20) DEF L
  <1> QED
    BY <1>3, <1>8 DEF L

-----------------------------------------------------------------------------
\* A page fault.

Opened(s2, l) == /\ SameRows(pcb, s2.pcb)
                 /\ Listed(s2.pcb, l) /\ Placed(s2.pcb, l, s2.mem) /\ FreeFrames(s2.mem) # {}

\* x is put in front of l, and the last node g of the LRU list is gone only if it
\* is not needed any more.
PutFor(x, l, g) == \E k \in {Len(LRU_CACHE), Len(LRU_CACHE) + 1} :
    /\ Fronted(Put(x, l), x, LRU_CACHE, k)
    /\ k = Len(LRU_CACHE) => Ended(pcb[g[1]], g[2])

\* A frame is free once the page at the end of the list is gone, if it had to go.
LEMMA FaultRoom ==
    ASSUME AllRegular, IInv, RInv, cur # Idle, NEW f, f = Fetch, ~f.valid,
           NEW n, n = Len(LRU_CACHE), NEW g, g = LRU_CACHE[n],
           NEW s1, s1.mem = shellmemory, s1.pcb = pcb,
           NEW s2, s2 = (IF NoFrame THEN PAGE_evict(s1, g[1], g[2]) ELSE s1),
           NEW l, l = (IF NoFrame THEN Without(n) ELSE LRU_CACHE),
           NEW x \in Nodes
    PROVE  n \in Nat \ {0} /\ Opened(s2, l) /\ PutFor(x, l, g)
  <1>1. /\ Listed(pcb, LRU_CACHE) /\ Placed(pcb, LRU_CACHE, shellmemory) /\ Good(pcb)
        /\ Timed(pcb, LRU_CACHE, QUEUE, cur) /\ LRU_CACHE \in Seq(Nodes) /\ Resident(pcb, LRU_CACHE)
    BY InvListed DEF RInv, IInv
  <1>2. n \in Nat \ {0} /\ Ended(pcb[g[1]], g[2])
    BY VictimEnded
  <1>3. n \in 1 .. n
    BY <1>2
  <1>4. CASE ~NoFrame
    <2>1. s2 = s1 /\ l = LRU_CACHE
      BY <1>4
    <2>2. SameRows(pcb, s2.pcb)
      BY <2>1 DEF SameRows
    <2>3. Listed(s2.pcb, l) /\ Placed(s2.pcb, l, s2.mem) /\ FreeFrames(s2.mem) # {}
      BY <2>1, <1>1, <1>4 DEF NoFrame
    <2>4. Fronted(Put(x, l), x, LRU_CACHE, n + 1)
      BY <2>1, <1>1, FrontedPut
    <2>5. n + 1 # n
      BY <1>2
    <2> QED
      BY <2>2, <2>3, <2>4, <2>5, <1>2 DEF Opened, PutFor
  <1>5. CASE NoFrame
    <2>1. s2 = PAGE_evict(s1, g[1], g[2]) /\ l = Without(n)
      BY <1>5
    <2>2. \A a, b \in 1 .. Len(LRU_CACHE) : a # b => LRU_CACHE[a] # LRU_CACHE[b]
      <3>1. \A a \in 1 .. Len(LRU_CACHE) : /\ StampOf(pcb, LRU_CACHE[a]) \in Nat
                                           /\ LRU_CACHE[a][1] \in Nat /\ LRU_CACHE[a][2] \in Nat
        BY <1>1, ListTypes
      <3>2. Sorted(pcb, LRU_CACHE) /\ Len(LRU_CACHE) \in Nat
        BY <1>1, <1>2 DEF Timed
      <3> QED
        BY <3>1, <3>2, SortedApart
    <2>3. \A a \in 1 .. Len(LRU_CACHE) : a # n => LRU_CACHE[a] # g
      BY <2>2, <1>3
    <2>4. /\ Placed(s2.pcb, l, s2.mem) /\ FreeFrames(s2.mem) # {}
          /\ SameRows(pcb, s2.pcb)
      <3> DEFINE t == PAGE_evict(s1, g[1], g[2]).pcb
                 m == PAGE_evict(s1, g[1], g[2]).mem
      <3>1. t = s2.pcb /\ m = s2.mem
        BY <2>1
      <3>2. shellmemory = s1.mem /\ pcb = s1.pcb
        OBVIOUS
      <3>3. Room(pcb, t, l, m)
        <4>1. n \in 1 .. Len(LRU_CACHE) /\ l = Without(n)
          BY <2>1, <1>3
        <4> QED
          BY <4>1, <3>2, <2>3, <1>1, <1>2, EvictKeeps
      <3> QED
        BY <3>1, <3>3 DEF Room
    <2>5. /\ g[1] \in DOMAIN pcb /\ g[2] \in PagesOf(pcb[g[1]].script) /\ g = <<g[1], g[2]>>
      BY <1>1, <1>3, ListTypes
    <2>6. /\ SameBut(pcb, s2.pcb, g[1], g[2]) /\ Good(s2.pcb)
          /\ \A j \in Lines : ~s2.pcb[g[1]].valid_bit[g[2]][j]
      BY <2>1, <2>5, <1>1, EvictTable
    <2>7. Resident(s2.pcb, l) /\ l \in Seq(Nodes)
      BY <2>1, <2>5, <2>6, <1>1, <1>3, EvictResident
    <2>8. Listed(s2.pcb, l)
      BY <2>6, <2>7, <1>1 DEF Listed, SameBut
    <2>9. Fronted(Put(x, l), x, LRU_CACHE, n)
      BY <2>1, <1>1, <1>3, FrontedMove
    <2> QED
      BY <2>4, <2>8, <2>9, <1>2 DEF Opened, PutFor
  <1> QED
    BY <1>4, <1>5

\* The rows of the others have not changed in what is executed and read.
OthersSame(t0, t, p) ==
    /\ DOMAIN t = DOMAIN t0
    /\ \A q \in DOMAIN t0 : /\ t[q].script = t0[q].script
                            /\ q # p => /\ Done(t[q]) = Done(t0[q])
                                        /\ t[q].source_file = t0[q].source_file

\* Process p is in its turn n.
During(t, l, s, p, n) ==
    /\ Sorted(t, l) /\ InStep(t, s) /\ UsedBefore(t, l, s)
    /\ Upto(t, l, p, n) /\ Follows(t, s, p, n)
    /\ Cardinality(Early(t)) <= Len(l)

\* The page h of p keeps its place in the order when page i is used in turn n.
StampKept(r0, r, h, i, n) ==
    /\ Stamp(Done(r), h) = Stamp(Done(r0), h)
    /\ Stamp(Done(r), h) = n => h < i

LEMMA NotQueued ==
    ASSUME NEW t, NEW s, NEW p \in Nat, NEW n \in Nat, Follows(t, s, p, n),
           \A a \in 1 .. Len(s) : DueOf(t[s[a]]) \in Nat
    PROVE  \A a \in 1 .. Len(s) : s[a] # p
  BY DEF Follows, Earlier

\* A page is used by the process whose turn it is.
LEMMA UsePage ==
    ASSUME NEW t0, NEW t, NEW l, NEW l2, NEW s \in Seq(DOMAIN t0), NEW p \in DOMAIN t0,
           NEW i \in Nat, NEW n \in Nat, NEW k \in 1 .. Len(l) + 1,
           Listed(t0, l), Listed(t, l2), Fronted(l2, <<p, i>>, l, k),
           OthersSame(t0, t, p), During(t0, l, s, p, n), Stamp(Done(t[p]), i) = n,
           Cardinality(Early(t0)) \in Nat,
           \A a \in 1 .. Len(l) : a # k /\ l[a][1] = p => StampKept(t0[p], t[p], l[a][2], i, n)
    PROVE  During(t, l2, s, p, n)
  <1> DEFINE x == <<p, i>>
             D == DOMAIN t0
  <1>1. /\ D \subseteq Nat /\ D \in SUBSET Nat /\ p \in Nat /\ DOMAIN t = D
        /\ Good(t0) /\ Good(t) /\ l \in Seq(Nodes) /\ l2 \in Seq(Nodes)
    BY DEF Listed, OthersSame
  <1>2. Len(l) \in Nat /\ Len(l2) \in Nat /\ Len(s) \in Nat
    BY <1>1, LenProperties
  <1>3. \A a \in 1 .. Len(s) : s[a] \in D
    BY ElementOfSeq
  <1>4. \A q \in D : DueOf(t0[q]) \in Nat /\ DueOf(t[q]) \in Nat
    BY <1>1, RowTypes DEF Good
  <1>5. \A a \in 1 .. Len(s) : s[a] \in Nat /\ DueOf(t0[s[a]]) \in Nat /\ DueOf(t[s[a]]) \in Nat
    BY <1>1, <1>3, <1>4
  <1>6. \A a \in 1 .. Len(s) : s[a] # p
    <2>1. Follows(t0, s, p, n) /\ \A a \in 1 .. Len(s) : DueOf(t0[s[a]]) \in Nat
      BY <1>5 DEF During
    <2> QED
      BY <2>1, <1>1, NotQueued
  <1>7. \A a \in 1 .. Len(s) : /\ Done(t[s[a]]) = Done(t0[s[a]])
                               /\ t[s[a]].source_file = t0[s[a]].source_file
                               /\ DueOf(t[s[a]]) = DueOf(t0[s[a]])
    BY <1>3, <1>6 DEF OthersSame, DueOf
  <1>8. \A a \in 1 .. Len(l) : /\ l[a][1] \in Nat /\ l[a][2] \in Nat /\ StampOf(t0, l[a]) \in Nat
                               /\ l[a][1] \in D
    BY ListTypes
  <1>9. ASSUME NEW a \in 1 .. Len(l), a # k
        PROVE  /\ StampOf(t, l[a]) = StampOf(t0, l[a])
               /\ l[a][1] = p /\ StampOf(t, l[a]) = n => l[a][2] < i
    <2>1. CASE l[a][1] = p
      BY <2>1, <1>9 DEF StampKept, StampOf
    <2>2. CASE l[a][1] # p
      BY <2>2, <1>8 DEF OthersSame, StampOf
    <2> QED
      BY <2>1, <2>2
  <1>10. Sorted(t, l2) /\ Upto(t, l2, p, n)
    <2>1. x[1] = p /\ x[2] = i
      OBVIOUS
    <2>2. StampOf(t, x) = n
      BY <2>1 DEF StampOf
    <2>3. Fronted(l2, x, l, k) /\ Sorted(t0, l) /\ Upto(t0, l, p, n) /\ x[2] \in Nat
      BY <2>1 DEF During
    <2> HIDE DEF x
    <2>4. OrderKept(t0, t, l, k, x, n)
      BY <2>1, <1>8, <1>9 DEF OrderKept
    <2> QED
      BY <2>1, <2>2, <2>3, <2>4, <1>1, <1>2, Moved
  <1>11. Follows(t, s, p, n)
    BY <1>7 DEF During, Follows
  <1>12. InStep(t, s)
    BY <1>7 DEF During, InStep
  <1>13. UsedBefore(t, l2, s)
    <2>1. \A a \in 1 .. Len(l2) : l2[a][1] \in Nat /\ StampOf(t, l2[a]) \in Nat
      BY ListTypes
    <2> QED
      BY <2>1, <1>1, <1>5, <1>10, <1>11, UsedThen
  <1>14. Cardinality(Early(t)) <= Len(l2)
    <2>1. Early(t) = Early(t0)
      BY DEF Early, OthersSame
    <2>2. Len(l2) >= Len(l)
      BY <1>2, FrontedFacts
    <2>3. Cardinality(Early(t0)) <= Len(l)
      BY DEF During
    <2>4. Len(l2) = Len(l) \/ Len(l2) = Len(l) + 1
      BY DEF Fronted
    <2>5. CASE Len(l2) = Len(l)
      BY <2>1, <2>3, <2>5
    <2>6. CASE Len(l2) = Len(l) + 1
      <3>1. Cardinality(Early(t0)) <= Len(l) + 1
        BY <2>3, <1>2
      <3> QED
        BY <3>1, <2>1, <2>6
    <2> QED
      BY <2>4, <2>5, <2>6
  <1> QED
    BY <1>10, <1>11, <1>12, <1>13, <1>14 DEF During

\* Then it goes to the end of the queue.
LEMMA TurnEnds ==
    ASSUME NEW t, NEW l, Listed(t, l), NEW s \in Seq(DOMAIN t), NEW p \in DOMAIN t, NEW n \in Nat,
           During(t, l, s, p, n), Begins(Done(t[p]), t[p].source_file), DueOf(t[p]) = n + 1,
           NEW s2, s2 = Append(s, p)
    PROVE  InStep(t, s2) /\ UsedBefore(t, l, s2)
  <1> DEFINE D == DOMAIN t
  <1>1. D \in SUBSET Nat /\ p \in Nat /\ Good(t)
    BY DEF Listed
  <1>2. \A a \in 1 .. Len(s) : s[a] \in D
    BY ElementOfSeq
  <1>3. \A a \in 1 .. Len(s) : s[a] \in Nat /\ DueOf(t[s[a]]) \in Nat
    BY <1>1, <1>2, RowTypes DEF Good
  <1>4. /\ Upto(t, l, p, n) /\ Follows(t, s, p, n) /\ InStep(t, s) /\ UsedBefore(t, l, s)
    BY DEF During
  <1>5. \A a \in 1 .. Len(l) : l[a][1] \in Nat /\ StampOf(t, l[a]) \in Nat
    BY ListTypes
  <1>6. \A k \in 1 .. Len(l) : Earlier(StampOf(t, l[k]), l[k][1], n + 1, p)
    BY <1>1, <1>3, <1>4, <1>5, UsedThen
  <1> HIDE DEF D
  <1>7. s \in Seq(D) /\ p \in D
    BY DEF D
  <1> QED
    BY <1>1, <1>3, <1>4, <1>6, <1>7, Queued

\* Nodes leave the list only when they are not needed any more.
LeavesEnded(t, l, l2) == \A a \in 1 .. Len(l) : Has(l2, l[a]) \/ Ended(t[l[a][1]], l[a][2])

\* Whatever is put in front, the rest of the list stays but for the k-th node.
LEMMA FrontedHas ==
    ASSUME NEW l, Len(l) \in Nat, NEW k \in 1 .. Len(l) + 1, NEW x, NEW l2, Fronted(l2, x, l, k)
    PROVE  \A a \in 1 .. Len(l) : a # k => Has(l2, l[a])
  <1> SUFFICES ASSUME NEW a \in 1 .. Len(l), a # k
               PROVE  Has(l2, l[a])
    OBVIOUS
  <1>1. PICK h \in 2 .. Len(l2) : Old(h, k) = a
    BY FrontedFacts
  <1>2. l2[h] = l[a] /\ h \in 1 .. Len(l2)
    BY <1>1 DEF Fronted
  <1> QED
    BY <1>2 DEF Has

\* What HandleFault does when the line is not there: it loads the page, after an
\* eviction if it must.
LEMMA FaultSteps ==
    ASSUME AllRegular, IInv, RInv, cur # Idle, NEW f, f = Fetch, HandleFault(f),
           NEW p, p = cur.pid, NEW n, n = Len(LRU_CACHE), NEW g, g = LRU_CACHE[n],
           NEW s1, s1 = [mem |-> shellmemory, pcb |-> pcb],
           NEW s2, s2 = (IF NoFrame THEN PAGE_evict(s1, g[1], g[2]) ELSE s1),
           NEW l, l = (IF NoFrame THEN Without(n) ELSE LRU_CACHE)
    PROVE  /\ ~f.valid
           /\ FreeFrames(s2.mem) # {} => /\ shellmemory' = load_PAGE(s2, p, f.page).mem
                                         /\ pcb' = load_PAGE(s2, p, f.page).pcb
           /\ LRU_CACHE' = Put(<<p, f.page>>, l)
           /\ QUEUE' = Append(QUEUE, p) /\ cur' = Idle /\ ran' = ran
           /\ NoFrame /\ FrameOf(g) \subseteq Memory => phase' = phase
           /\ ~NoFrame => phase' = phase
  <1>1. ~f.valid
    BY FetchLine DEF HandleFault
  <1>2. cpu_run(f) = pcb /\ Executed(f) = ran
    BY <1>1 DEF cpu_run, Executed
  <1> DEFINE s3 == IF FreeFrames(s2.mem) # {} THEN load_PAGE(s2, p, f.page) ELSE s2
  <1>3. shellmemory' = s3.mem /\ pcb' = s3.pcb
    BY <1>2 DEF HandleFault, VictimAt
  <1>4. /\ LRU_CACHE' = Put(<<p, f.page>>, l)
        /\ QUEUE' = Append(QUEUE, p) /\ cur' = Idle /\ ran' = ran
        /\ phase' = IF NoFrame /\ ~(FrameOf(g) \subseteq Memory) THEN "undefined" ELSE phase
    BY <1>2 DEF HandleFault, VictimAt, Put
  <1> QED
    BY <1>1, <1>3, <1>4

LEMMA FaultKeeps ==
    ASSUME AllRegular, IInv, RInv, IInv', cur # Idle, NEW f, f = Fetch, HandleFault(f)
    PROVE  /\ Placed(pcb', LRU_CACHE', shellmemory')
           /\ Timed(pcb', LRU_CACHE', QUEUE', cur')
           /\ Told(pcb', ran') /\ phase' = phase
           /\ LeavesEnded(pcb, LRU_CACHE, LRU_CACHE')
  <1> DEFINE p == cur.pid
             r == pcb[p]
             d == Done(r)
             i == f.page
             n == Len(LRU_CACHE)
             g == LRU_CACHE[n]
             s1 == [mem |-> shellmemory, pcb |-> pcb]
             s2 == IF NoFrame THEN PAGE_evict(s1, g[1], g[2]) ELSE s1
             l == IF NoFrame THEN Without(n) ELSE LRU_CACHE
             x == <<p, i>>
             t == pcb'
             l2 == LRU_CACHE'
  <1>1. /\ ~f.valid
        /\ FreeFrames(s2.mem) # {} => /\ shellmemory' = load_PAGE(s2, p, i).mem
                                      /\ t = load_PAGE(s2, p, i).pcb
        /\ l2 = Put(x, l)
        /\ QUEUE' = Append(QUEUE, p) /\ cur' = Idle /\ ran' = ran
        /\ NoFrame /\ FrameOf(g) \subseteq Memory => phase' = phase
        /\ ~NoFrame => phase' = phase
    BY FaultSteps, ZenonT(30)
  <1>2. /\ p \in DOMAIN pcb /\ p \in Nat \ {0} /\ GoodRow(r)
        /\ i \in Nat /\ i \in PagesOf(r.script) /\ d \in Nat
        /\ ~f.valid => Missing(r, i, d)
    BY FetchPage
  <1>3. i = ReadPages(r) /\ i >= 2 /\ d = 3 * i /\ r.source_file = d
    BY <1>1, <1>2 DEF Missing
  <1>4. s1.mem = shellmemory /\ s1.pcb = pcb /\ x \in Nodes
    BY <1>2 DEF Nodes
  <1> HIDE DEF s1, x
  <1>5. /\ n \in Nat \ {0} /\ SameRows(pcb, s2.pcb)
        /\ Listed(s2.pcb, l) /\ Placed(s2.pcb, l, s2.mem) /\ FreeFrames(s2.mem) # {}
        /\ \E k \in {n, n + 1} : /\ Fronted(Put(x, l), x, LRU_CACHE, k)
                                 /\ k = n => Ended(pcb[g[1]], g[2])
    <2>1. /\ n = Len(LRU_CACHE) /\ g = LRU_CACHE[n] /\ ~f.valid
          /\ s2 = (IF NoFrame THEN PAGE_evict(s1, g[1], g[2]) ELSE s1)
          /\ l = (IF NoFrame THEN Without(n) ELSE LRU_CACHE)
      BY <1>1
    <2> HIDE DEF s2, l, n, g
    <2>2. n \in Nat \ {0} /\ Opened(s2, l) /\ PutFor(x, l, g)
      BY <2>1, <1>4, FaultRoom
    <2> QED
      BY <2>1, <2>2 DEF Opened, PutFor
  <1> HIDE DEF s2, l
  <1>6. PICK k \in {n, n + 1} : Fronted(l2, x, LRU_CACHE, k) /\ (k = n => Ended(pcb[g[1]], g[2]))
    BY <1>1, <1>5
  <1>7. k \in 1 .. n + 1
    BY <1>5
  <1>8. /\ p \in DOMAIN s2.pcb /\ i \in PagesOf(s2.pcb[p].script) /\ Reads(s2.pcb[p])
        /\ Good(s2.pcb) /\ i = ReadPages(s2.pcb[p])
    BY <1>2, <1>3, <1>5 DEF SameRows, Placed, Listed, ReadPages
  <1>9. PICK b \in 0 .. FrameStore - 3 : Filled(s2.pcb, s2.mem, t, shellmemory', p, i, b)
    BY <1>1, <1>5, <1>8, LoadFills
  <1>10. Placed(t, l2, shellmemory') /\ ReadPages(t[p]) = i + 1 /\ t[p].source_file > 3 * i
    BY <1>1, <1>5, <1>8, <1>9, LoadKeeps DEF x
  <1>11. /\ DOMAIN t = DOMAIN pcb
         /\ \A q \in DOMAIN pcb : /\ t[q].script = pcb[q].script /\ t[q].size = pcb[q].size
                                  /\ q # p => t[q].source_file = pcb[q].source_file
                                  /\ Done(t[q]) = Done(pcb[q])
    BY <1>5, <1>9 DEF Filled, SameRows, Done
  <1>12. OthersSame(pcb, t, p)
    BY <1>11 DEF OthersSame
  <1>13. Listed(t, l2) /\ Listed(pcb, LRU_CACHE) /\ Good(t)
    BY DEF IInv, Listed
  <1>14. Timed(pcb, LRU_CACHE, QUEUE, cur)
    BY DEF RInv
  <1>15. PICK m \in Nat : /\ AtTurn(r, cur, m)
                          /\ Follows(pcb, QUEUE, p, m)
                          /\ Upto(pcb, LRU_CACHE, p, m)
    BY <1>14 DEF Timed, OnTurn
  <1>16. During(pcb, LRU_CACHE, QUEUE, p, m)
    BY <1>14, <1>15 DEF During, Timed
  <1>17. /\ m = 2 * i /\ Stamp(d, i) = m
         /\ \A h \in Nat : h < i => Stamp(d, h) <= m
         /\ Begins(d, t[p].source_file) /\ Due(d, t[p].source_file) = m + 1
    <2> DEFINE sf == t[p].source_file
    <2>1. (Begins(d, d) /\ m = Due(d, d)) \/ (Halfway(d, d) /\ m = Going(d))
      BY <1>3, <1>15 DEF AtTurn, DueOf
    <2>2. sf \in Nat
      BY <1>2, <1>11, <1>13, RowTypes DEF Good
    <2>3. sf > d /\ i \in Nat /\ i >= 2 /\ d \in Nat /\ d = 3 * i
      BY <1>2, <1>3, <1>10
    <2> HIDE DEF sf, i, d
    <2>4. LoadedIn(d, i, sf, m)
      BY <2>1, <2>2, <2>3, LoadTurn
    <2> QED
      BY <2>4 DEF LoadedIn, sf, i, d
  <1>18. Done(t[p]) = d /\ t[p].script = r.script
    BY <1>2, <1>11
  <1>19. ASSUME NEW a \in 1 .. n, LRU_CACHE[a][1] = p
         PROVE  StampKept(pcb[p], t[p], LRU_CACHE[a][2], i, m)
    <2>1. LRU_CACHE[a][2] \in Nat /\ LRU_CACHE[a][2] < i
      <3>1. Placed(pcb, LRU_CACHE, shellmemory)
        BY DEF RInv
      <3> QED
        BY <3>1, <1>3, <1>13, <1>19, NodeFrame
    <2> QED
      BY <2>1, <1>18 DEF StampKept
  <1>20. Cardinality(Early(pcb)) \in Nat /\ QUEUE \in Seq(DOMAIN pcb)
    <2>1. PID_counter - 1 \in Nat /\ DOMAIN pcb \subseteq 1 .. PID_counter - 1
      BY DEF IInv
    <2> QED
      BY <2>1, EarlyFinite DEF IInv
  <1>21. During(t, l2, QUEUE, p, m)
    <2>1. Stamp(Done(t[p]), i) = m /\ Fronted(l2, <<p, i>>, LRU_CACHE, k)
      BY <1>6, <1>17, <1>18 DEF x
    <2> HIDE DEF p, i, t, l2, n
    <2> QED
      BY <2>1, <1>2, <1>7, <1>12, <1>13, <1>16, <1>19, <1>20, UsePage DEF n
  <1>22. InStep(t, QUEUE') /\ UsedBefore(t, l2, QUEUE')
    <2>1. Begins(Done(t[p]), t[p].source_file) /\ DueOf(t[p]) = m + 1
      BY <1>17, <1>18 DEF DueOf
    <2>2. QUEUE \in Seq(DOMAIN t) /\ p \in DOMAIN t
      BY <1>2, <1>11, <1>20
    <2> HIDE DEF p, t, l2
    <2> QED
      BY <2>1, <2>2, <1>1, <1>13, <1>21, TurnEnds DEF x
  <1>23. \A q \in DOMAIN t : Paced(t[q])
    <2> SUFFICES ASSUME NEW q \in DOMAIN t
                 PROVE  Paced(t[q])
      OBVIOUS
    <2>1. q \in DOMAIN pcb /\ Paced(pcb[q])
      BY <1>11, <1>14 DEF Timed
    <2>2. CASE q # p
      BY <2>1, <2>2, <1>11 DEF Paced, ReadPages
    <2>3. CASE q = p
      <3>1. i + 1 >= 2 /\ d <= 3 * (i + 1) /\ d >= 3 * (i + 1) - 3
        BY <1>2, <1>3
      <3> QED
        BY <3>1, <2>3, <1>2, <1>10, <1>18 DEF Paced
    <2> QED
      BY <2>2, <2>3
  <1>24. Timed(t, l2, QUEUE', cur')
    BY <1>1, <1>21, <1>22, <1>23 DEF Timed, During, OnTurn
  <1>25. Told(t, ran')
    BY <1>1, <1>11 DEF RInv, Told
  <1>26. phase' = phase
    <2>1. FrameOf(g) \subseteq Memory
      <3>1. Placed(pcb, LRU_CACHE, shellmemory) /\ n \in 1 .. n
        BY <1>5 DEF RInv
      <3>2. /\ StartOf(pcb, g) \in 0 .. FrameStore - 3
            /\ InFrame(pcb[g[1]], shellmemory, g[1], g[2], StartOf(pcb, g))
        BY <3>1, <1>13, NodeFrame
      <3> DEFINE b0 == StartOf(pcb, g)
      <3>3. b0 \in Nat /\ b0 + 2 < FrameStore /\ pcb[g[1]].index[g[2]] = FrameAt(b0)
        BY <3>2, StoreAssumption DEF InFrame
      <3> HIDE DEF b0
      <3>4. \A j \in 0 .. 2 : pcb[g[1]].index[g[2]][j] = b0 + j
        BY <3>3, FrameAtFacts DEF Lines
      <3>5. \A j \in 0 .. 2 : b0 + j \in Memory
        BY <3>3, StoreAssumption DEF Memory
      <3> QED
        BY <3>4, <3>5 DEF FrameOf
    <2> QED
      BY <2>1, <1>1
  <1>27. LeavesEnded(pcb, LRU_CACHE, l2)
    <2> SUFFICES ASSUME NEW a \in 1 .. n
                 PROVE  Has(l2, LRU_CACHE[a]) \/ Ended(pcb[LRU_CACHE[a][1]], LRU_CACHE[a][2])
      BY DEF LeavesEnded
    <2>1. CASE a = k
      <3>1. k = n
        BY <2>1, <1>5
      <3> QED
        BY <3>1, <2>1, <1>6
    <2>2. CASE a # k
      <3> HIDE DEF l2
      <3> QED
        BY <2>2, <1>5, <1>6, <1>7, FrontedHas
    <2> QED
      BY <2>1, <2>2
  <1> QED
    BY <1>10, <1>24, <1>25, <1>26, <1>27

-----------------------------------------------------------------------------
\* A line.

\* The frames of the tables are the same, and no page is less finished than before.
SameFrames(t0, t) ==
    /\ DOMAIN t = DOMAIN t0
    /\ \A q \in DOMAIN t0 : /\ t[q].script = t0[q].script /\ t[q].index = t0[q].index
                            /\ t[q].valid_bit = t0[q].valid_bit
                            /\ t[q].source_file = t0[q].source_file
                            /\ \A h \in Nat : Ended(t0[q], h) => Ended(t[q], h)

\* The places of the nodes of l in l2, when the k-th is moved to the front.
Shifted(l2, l, k) ==
    /\ \A h \in 2 .. Len(l2) : Old(h, k) \in 1 .. Len(l) /\ Old(h, k) # k
    /\ \A g, h \in 2 .. Len(l2) : g < h => Old(g, k) < Old(h, k)
    /\ \A a \in 1 .. Len(l) : a # k => \E h \in 2 .. Len(l2) : Old(h, k) = a

LEMMA FrontedShifts ==
    ASSUME NEW l, Len(l) \in Nat, NEW k \in 1 .. Len(l) + 1, NEW x, NEW l2, Fronted(l2, x, l, k)
    PROVE  Shifted(l2, l, k)
  BY FrontedFacts DEF Shifted

\* A page of the list is moved to its front.
LEMMA MoveKeeps ==
    ASSUME NEW t0, NEW m0, NEW l, Listed(t0, l), Placed(t0, l, m0),
           NEW k \in 1 .. Len(l), NEW l2, Fronted(l2, l[k], l, k),
           NEW t, SameFrames(t0, t), NEW m, \A q \in 0 .. FrameStore - 1 : m[q] = m0[q]
    PROVE  Placed(t, l2, m)
  <1> DEFINE At(h) == IF h = 1 THEN k ELSE Old(h, k)
  <1>1. l \in Seq(Nodes) /\ Len(l) \in Nat /\ k \in 1 .. Len(l) + 1
    <2>1. l \in Seq(Nodes)
      BY DEF Listed
    <2>2. Len(l) \in Nat
      BY <2>1, LenProperties
    <2> QED
      BY <2>1, <2>2
  <1>2. Len(l2) = Len(l)
    BY <1>1 DEF Fronted
  <1>3. /\ \A h \in 1 .. Len(l) : At(h) \in 1 .. Len(l) /\ l2[h] = l[At(h)]
        /\ \A a, b \in 1 .. Len(l) : a # b => At(a) # At(b)
        /\ \A a \in 1 .. Len(l) : \E h \in 1 .. Len(l) : At(h) = a
    <2>1. /\ \A h \in 2 .. Len(l) : Old(h, k) \in 1 .. Len(l) /\ Old(h, k) # k
          /\ \A a, b \in 2 .. Len(l) : a < b => Old(a, k) < Old(b, k)
          /\ \A a \in 1 .. Len(l) : a # k => \E h \in 2 .. Len(l) : Old(h, k) = a
      <3>1. /\ \A h \in 2 .. Len(l2) : Old(h, k) \in 1 .. Len(l) /\ Old(h, k) # k
            /\ \A a, b \in 2 .. Len(l2) : a < b => Old(a, k) < Old(b, k)
            /\ \A a \in 1 .. Len(l) : a # k => \E h \in 2 .. Len(l2) : Old(h, k) = a
        <4>1. Shifted(l2, l, k)
          BY <1>1, FrontedShifts
        <4> QED
          BY <4>1 DEF Shifted
      <3> QED
        BY <3>1, <1>2
    <2>2. \A h \in 1 .. Len(l) : h = 1 \/ h \in 2 .. Len(l)
      BY <1>1
    <2>3. l2[1] = l[k] /\ \A h \in 2 .. Len(l) : l2[h] = l[Old(h, k)]
      BY <1>2 DEF Fronted
    <2>4. \A h \in 1 .. Len(l) : At(h) \in 1 .. Len(l) /\ l2[h] = l[At(h)]
      BY <2>1, <2>2, <2>3
    <2>5. \A a, b \in 2 .. Len(l) : a # b => Old(a, k) # Old(b, k)
      <3> SUFFICES ASSUME NEW a \in 2 .. Len(l), NEW b \in 2 .. Len(l), a # b
                   PROVE  Old(a, k) # Old(b, k)
        OBVIOUS
      <3>1. a < b \/ b < a
        OBVIOUS
      <3>2. Old(a, k) \in Int /\ Old(b, k) \in Int
        BY <2>1
      <3>3. Old(a, k) < Old(b, k) \/ Old(b, k) < Old(a, k)
        BY <3>1, <2>1
      <3> QED
        BY <3>2, <3>3
    <2>6. \A a, b \in 1 .. Len(l) : a # b => At(a) # At(b)
      BY <2>1, <2>2, <2>5
    <2>7. ASSUME NEW a \in 1 .. Len(l)
          PROVE  \E h \in 1 .. Len(l) : At(h) = a
      <3>1. CASE a = k
        <4>1. 1 \in 1 .. Len(l) /\ At(1) = k
          BY <1>1
        <4> QED
          BY <4>1, <3>1
      <3>2. CASE a # k
        <4>1. PICK h \in 2 .. Len(l) : Old(h, k) = a
          BY <3>2, <2>1
        <4>2. h \in 1 .. Len(l) /\ At(h) = a
          BY <4>1
        <4> QED
          BY <4>2
      <3> QED
        BY <3>1, <3>2
    <2> QED
      BY <2>4, <2>6, <2>7
  <1> HIDE DEF At
  <1>4. \A y : Has(l2, y) <=> Has(l, y)
    <2>1. ASSUME NEW y, Has(l2, y)
          PROVE  Has(l, y)
      <3>1. PICK h \in 1 .. Len(l) : l2[h] = y
        BY <2>1, <1>2 DEF Has
      <3> QED
        BY <3>1, <1>3 DEF Has
    <2>2. ASSUME NEW y, Has(l, y)
          PROVE  Has(l2, y)
      <3>1. PICK a \in 1 .. Len(l) : l[a] = y
        BY <2>2 DEF Has
      <3>2. PICK h \in 1 .. Len(l) : At(h) = a
        BY <1>3
      <3>3. l2[h] = y
        BY <3>1, <3>2, <1>3
      <3> QED
        BY <3>3, <1>2 DEF Has
    <2> QED
      BY <2>1, <2>2
  <1>5. ASSUME NEW a \in 1 .. Len(l)
        PROVE  /\ StartOf(t, l[a]) = StartOf(t0, l[a])
               /\ InFrame(t[l[a][1]], m, l[a][1], l[a][2], StartOf(t, l[a]))
               /\ StartOf(t, l[a]) \in 0 .. FrameStore - 3
    <2> DEFINE g == l[a]
               z == StartOf(t0, g)
    <2>1. /\ g[1] \in DOMAIN t0 /\ z \in 0 .. FrameStore - 3
          /\ InFrame(t0[g[1]], m0, g[1], g[2], z)
      BY NodeFrame
    <2>2. /\ t[g[1]].script = t0[g[1]].script /\ t[g[1]].index = t0[g[1]].index
          /\ t[g[1]].valid_bit = t0[g[1]].valid_bit
      BY <2>1 DEF SameFrames
    <2>3. StartOf(t, g) = z
      BY <2>2 DEF StartOf
    <2> HIDE DEF z, g
    <2>4. \A j \in Lines : z + j \in 0 .. FrameStore - 1
      BY <2>1, StoreAssumption DEF Lines
    <2>5. \A j \in Lines : m[z + j] = m0[z + j]
      BY <2>4
    <2>6. InFrame(t[g[1]], m, g[1], g[2], z)
      BY <2>1, <2>2, <2>5 DEF InFrame
    <2> QED
      BY <2>1, <2>3, <2>6 DEF z, g
  <1>6. Apart(t, l2)
    <2> SUFFICES ASSUME NEW a \in 1 .. Len(l2), NEW b \in 1 .. Len(l2), a # b
                 PROVE  \/ StartOf(t, l2[a]) + 3 <= StartOf(t, l2[b])
                        \/ StartOf(t, l2[b]) + 3 <= StartOf(t, l2[a])
      BY DEF Apart
    <2>1. /\ At(a) \in 1 .. Len(l) /\ At(b) \in 1 .. Len(l) /\ At(a) # At(b)
          /\ l2[a] = l[At(a)] /\ l2[b] = l[At(b)]
      BY <1>2, <1>3
    <2>2. \/ StartOf(t0, l[At(a)]) + 3 <= StartOf(t0, l[At(b)])
          \/ StartOf(t0, l[At(b)]) + 3 <= StartOf(t0, l[At(a)])
      BY <2>1 DEF Placed, Apart
    <2>3. /\ StartOf(t, l[At(a)]) = StartOf(t0, l[At(a)])
          /\ StartOf(t, l[At(b)]) = StartOf(t0, l[At(b)])
      BY <2>1, <1>5
    <2> QED
      BY <2>1, <2>2, <2>3
  <1>7. Covered(t, l2, m)
    <2> SUFFICES ASSUME NEW q \in 0 .. FrameStore - 1, m[q].var # None
                 PROVE  \E a \in 1 .. Len(l2) : q - StartOf(t, l2[a]) \in Lines
      BY DEF Covered
    <2>1. PICK a \in 1 .. Len(l) : q - StartOf(t0, l[a]) \in Lines
      BY DEF Placed, Covered
    <2>2. PICK h \in 1 .. Len(l) : At(h) = a
      BY <1>3
    <2>3. l2[h] = l[a] /\ StartOf(t, l[a]) = StartOf(t0, l[a])
      BY <2>2, <1>3, <1>5
    <2> QED
      BY <2>1, <2>3, <1>2
  <1>8. ASSUME NEW q \in DOMAIN t, NEW h \in PagesOf(t[q].script)
        PROVE  PageState(t[q], l2, m, q, h)
    <2>1. /\ q \in DOMAIN t0 /\ h \in PagesOf(t0[q].script) /\ ReadPages(t[q]) = ReadPages(t0[q])
          /\ Ended(t0[q], h) => Ended(t[q], h)
      <3>1. q \in DOMAIN t0 /\ h \in PagesOf(t0[q].script)
        BY <1>8 DEF SameFrames
      <3>2. h \in Nat
        BY <3>1, RowTypes DEF Listed, Good
      <3> QED
        BY <3>1, <3>2 DEF SameFrames, ReadPages
    <2>2. PageState(t0[q], l, m0, q, h)
      BY <2>1 DEF Placed
    <2>3. CASE Has(l, <<q, h>>)
      <3>1. PICK a \in 1 .. Len(l) : l[a] = <<q, h>>
        BY <2>3 DEF Has
      <3>2. l[a][1] = q /\ l[a][2] = h
        BY <3>1
      <3>3. \E b \in 0 .. FrameStore - 3 : InFrame(t[q], m, q, h, b)
        BY <3>2, <1>5
      <3> QED
        BY <3>3, <2>1, <2>2, <2>3, <1>4 DEF PageState
    <2>4. CASE ~Has(l, <<q, h>>)
      BY <2>1, <2>2, <2>4, <1>4 DEF PageState
    <2> QED
      BY <2>3, <2>4
  <1>9. \A q \in DOMAIN t : Reads(t[q])
    BY DEF Placed, Reads, ReadPages, SameFrames
  <1> QED
    BY <1>6, <1>7, <1>8, <1>9 DEF Placed

\* remove_elem finds the page itself: no other has the same frame.
LEMMA OwnStart ==
    ASSUME Listed(pcb, LRU_CACHE), Placed(pcb, LRU_CACHE, shellmemory),
           NEW p, NEW i, Has(LRU_CACHE, <<p, i>>), NEW k \in SameStart(p, i)
    PROVE  k \in 1 .. Len(LRU_CACHE) /\ LRU_CACHE[k] = <<p, i>>
  <1> DEFINE l == LRU_CACHE
  <1>1. PICK a \in 1 .. Len(l) : l[a] = <<p, i>>
    BY DEF Has
  <1>2. k \in 1 .. Len(l) /\ StartOf(pcb, l[k]) = pcb[p].index[i][0]
    BY DEF SameStart, StartOf
  <1>3. l[a][1] = p /\ l[a][2] = i
    BY <1>1
  <1>4. StartOf(pcb, l[a]) = StartOf(pcb, l[k])
    BY <1>2, <1>3 DEF StartOf
  <1>5. StartOf(pcb, l[a]) \in 0 .. FrameStore - 3
    BY NodeFrame
  <1>6. ASSUME k # a
        PROVE  FALSE
    <2> DEFINE x == StartOf(pcb, l[a])
    <2>1. x + 3 <= x
      BY <1>2, <1>4, <1>6 DEF Placed, Apart
    <2> HIDE DEF x
    <2>2. x \in Int
      BY <1>5 DEF x
    <2> QED
      BY <2>1, <2>2
  <1> QED
    BY <1>1, <1>2, <1>6

\* Setting a variable leaves the frames alone.
LEMMA SetFrames ==
    ASSUME NEW m0, GoodMemory(m0), NEW v, NEW x, NEW m, m = mem_set_value(m0, v, x)
    PROVE  \A q \in 0 .. FrameStore - 1 : m[q] = m0[q]
  <1> DEFINE old == {q \in VarZone : m0[q].var = v}
             free == {q \in VarZone : m0[q].var = None}
             First(S) == CHOOSE q \in S : \A r \in S : q <= r
  <1>1. \A q \in 0 .. FrameStore - 1 : q \notin VarZone /\ q \in Memory
    BY StoreAssumption DEF VarZone, Memory
  <1>2. ASSUME NEW S, S \subseteq VarZone, S # {}
        PROVE  First(S) \in VarZone
    <2>1. S \in SUBSET Nat
      BY <1>2, StoreAssumption DEF VarZone
    <2>2. \E q \in S : \A r \in S : q <= r
      BY <2>1, <1>2, LeastNat
    <2> QED
      BY <2>2, <1>2
  <1>3. DOMAIN m0 = Memory
    BY DEF GoodMemory
  <1>4. CASE old # {}
    <2>1. m = [m0 EXCEPT ![First(old)].value = <<0, x>>]
      BY <1>4 DEF mem_set_value
    <2>2. First(old) \in VarZone
      BY <1>2, <1>4
    <2> HIDE DEF First, old
    <2> QED
      BY <2>1, <2>2, <1>1, <1>3
  <1>5. CASE old = {} /\ free # {}
    <2>1. m = [m0 EXCEPT ![First(free)] = [var |-> v, value |-> <<0, x>>]]
      BY <1>5 DEF mem_set_value
    <2>2. First(free) \in VarZone
      BY <1>2, <1>5
    <2> HIDE DEF First, free
    <2> QED
      BY <2>1, <2>2, <1>1, <1>3
  <1>6. CASE old = {} /\ free = {}
    BY <1>6 DEF mem_set_value
  <1> QED
    BY <1>4, <1>5, <1>6

\* The row of the process after a line, and those of the others.
OneMore(t0, t, p) ==
    /\ SameFrames(t0, t) /\ OthersSame(t0, t, p)
    /\ Done(t[p]) = Done(t0[p]) + 1

LEMMA RunMore ==
    ASSUME IInv, cur # Idle, NEW f, f = Fetch, f.valid, NEW t, t = cpu_run(f)
    PROVE  OneMore(pcb, t, cur.pid)
  <1> DEFINE p == cur.pid
  <1>1. /\ DOMAIN t = DOMAIN pcb
        /\ \A q \in DOMAIN pcb : /\ t[q].script = pcb[q].script
                                 /\ t[q].valid_bit = pcb[q].valid_bit
                                 /\ t[q].index = pcb[q].index
                                 /\ q # p => t[q].size = pcb[q].size
        /\ t[p].size = pcb[p].size - (IF f.valid THEN 1 ELSE 0)
    BY RunFacts
  <1>2. p \in DOMAIN pcb /\ pcb[p].size \in Nat \ {0}
    BY TurnFacts
  <1>3. ASSUME NEW q \in DOMAIN pcb
        PROVE  t[q].source_file = pcb[q].source_file
    <2>1. t = [pcb EXCEPT ![p].program_counter[f.page] = @ + 1, ![p].size = @ - 1]
      BY DEF cpu_run
    <2>2. CASE q # p
      BY <2>1, <2>2
    <2>3. CASE q = p
      <3> DEFINE pc2 == [pcb[p].program_counter EXCEPT ![f.page] = @ + 1]
      <3>1. pcb[p] \in PCBs(pcb[p].script)
        BY <1>2 DEF IInv, Good, GoodRow
      <3>2. t[p] = [pcb[p] EXCEPT !.program_counter = pc2, !.size = @ - 1]
        BY <2>1, <1>2
      <3> HIDE DEF pc2
      <3>3. t[p].source_file = pcb[p].source_file
        BY <3>1, <3>2 DEF PCBs
      <3> QED
        BY <3>3, <2>3
    <2> QED
      BY <2>2, <2>3
  <1>4. \A q \in DOMAIN pcb : GoodRow(pcb[q])
    BY DEF IInv, Good
  <1>5. Done(t[p]) = Done(pcb[p]) + 1
    <2>1. count_lines(pcb[p].script) \in Nat
      BY <1>2, <1>4, RowTypes
    <2> QED
      BY <2>1, <1>1, <1>2 DEF Done
  <1>6. \A q \in DOMAIN pcb : q # p => Done(t[q]) = Done(pcb[q])
    BY <1>1 DEF Done
  <1>7. ASSUME NEW q \in DOMAIN pcb, NEW h \in Nat, Ended(pcb[q], h)
        PROVE  Ended(t[q], h)
    <2>1. Done(pcb[q]) \in Nat
      BY <1>4, RowTypes
    <2>2. CASE q # p
      BY <2>2, <1>1, <1>6, <1>7 DEF Ended
    <2>3. CASE q = p
      BY <2>1, <2>3, <1>2, <1>5, <1>7 DEF Ended
    <2> QED
      BY <2>2, <2>3
  <1>8. SameFrames(pcb, t)
    BY <1>1, <1>3, <1>7 DEF SameFrames
  <1>9. OthersSame(pcb, t, p)
    BY <1>1, <1>3, <1>6 DEF OthersSame
  <1> QED
    BY <1>5, <1>8, <1>9 DEF OneMore

\* The page of the line goes to the front of the list.
MovedFront(x) == \E k \in 1 .. Len(LRU_CACHE) :
    LRU_CACHE[k] = x /\ LRU_CACHE' = Put(x, Without(k))

\* What HandleLine does.
LEMMA LineSteps ==
    ASSUME AllRegular, IInv, RInv, cur # Idle, NEW f, f = Fetch, HandleLine(f), NEW p, p = cur.pid
    PROVE  /\ f.valid /\ phase' = phase
           /\ MovedFront(<<p, f.page>>)
           /\ OneMore(pcb, pcb', p)
           /\ \A q \in 0 .. FrameStore - 1 : shellmemory'[q] = shellmemory[q]
           /\ ran' = [ran EXCEPT ![p] = Append(ran[p], <<p, Done(pcb[p]) + 1>>)]
           /\ cur' = (IF cur.left = 2 THEN [cur EXCEPT !.left = 1] ELSE Idle)
           /\ QUEUE' = (IF cur.left = 1 /\ cur.requeue THEN Append(QUEUE, p) ELSE QUEUE)
  <1>1. /\ f.valid /\ phase' = phase /\ pcb' = cpu_run(f) /\ shellmemory' \in MemoryAfter(f)
        /\ ran' = Executed(f)
        /\ cur' = (IF cur.left = 2 THEN [cur EXCEPT !.left = 1] ELSE Idle)
        /\ QUEUE' = (IF cur.left = 1 /\ cur.requeue THEN Append(QUEUE, p) ELSE QUEUE)
    BY DEF HandleLine
  <1>2. OneMore(pcb, pcb', p)
    BY <1>1, RunMore
  <1>3. f.line = <<p, Done(pcb[p]) + 1>>
    BY <1>1, FetchLine
  <1>4. ran' = [ran EXCEPT ![p] = Append(ran[p], <<p, Done(pcb[p]) + 1>>)]
    BY <1>1, <1>3 DEF Executed
  <1>5. MovedFront(<<p, f.page>>)
    <2>1. PICK k \in SameStart(p, f.page) : LRU_CACHE' = << LRU_CACHE[k] >> \o Without(k)
      BY DEF HandleLine
    <2>2. Has(LRU_CACHE, <<p, f.page>>)
      BY <1>1, TurnFacts
    <2>3. Listed(pcb, LRU_CACHE) /\ Placed(pcb, LRU_CACHE, shellmemory)
      BY InvListed DEF RInv
    <2>4. k \in 1 .. Len(LRU_CACHE) /\ LRU_CACHE[k] = <<p, f.page>>
      BY <2>2, <2>3, OwnStart
    <2> QED
      BY <2>1, <2>4 DEF MovedFront, Put
  <1>6. \A q \in 0 .. FrameStore - 1 : shellmemory'[q] = shellmemory[q]
    <2>1. GoodMemory(shellmemory)
      BY DEF IInv
    <2>2. shellmemory' = shellmemory
            \/ \E v \in VarNames, x \in VarValues : shellmemory' = mem_set_value(shellmemory, v, x)
      BY <1>1 DEF MemoryAfter
    <2>3. CASE shellmemory' = shellmemory
      BY <2>3
    <2>4. CASE \E v \in VarNames, x \in VarValues : shellmemory' = mem_set_value(shellmemory, v, x)
      BY <2>1, <2>4, SetFrames
    <2> QED
      BY <2>2, <2>3, <2>4
  <1> QED
    BY <1>1, <1>2, <1>4, <1>5, <1>6

LEMMA HalfTurn ==
    ASSUME NEW c \in [pid : Nat, left : 0 .. 2, requeue : BOOLEAN], NEW c2, c2 = [c EXCEPT !.left = 1]
    PROVE  c2.pid = c.pid /\ c2.left = 1 /\ c2.requeue = c.requeue
  OBVIOUS

\* A line keeps the pages where they are and the order of the turns.
LEMMA LineKeeps ==
    ASSUME AllRegular, IInv, RInv, IInv', cur # Idle, NEW f, f = Fetch, HandleLine(f)
    PROVE  /\ Placed(pcb', LRU_CACHE', shellmemory')
           /\ Timed(pcb', LRU_CACHE', QUEUE', cur')
           /\ Told(pcb', ran') /\ phase' = phase
           /\ LeavesEnded(pcb, LRU_CACHE, LRU_CACHE')
  <1> DEFINE p == cur.pid
             r == pcb[p]
             d == Done(r)
             i == f.page
             x == <<p, i>>
             t == pcb'
             l2 == LRU_CACHE'
             sf == r.source_file
  <1>1. /\ f.valid /\ phase' = phase
        /\ MovedFront(x)
        /\ OneMore(pcb, t, p)
        /\ \A q \in 0 .. FrameStore - 1 : shellmemory'[q] = shellmemory[q]
        /\ ran' = [ran EXCEPT ![p] = Append(ran[p], <<p, d + 1>>)]
        /\ cur' = (IF cur.left = 2 THEN [cur EXCEPT !.left = 1] ELSE Idle)
        /\ QUEUE' = (IF cur.left = 1 /\ cur.requeue THEN Append(QUEUE, p) ELSE QUEUE)
    BY LineSteps
  <1>2. /\ p \in DOMAIN pcb /\ p \in Nat \ {0} /\ GoodRow(r)
        /\ i \in Nat /\ i \in PagesOf(r.script) /\ d \in Nat
        /\ 3 * i <= d /\ d < 3 * i + 3 /\ d + 1 <= Len(r.script.lines)
        /\ f.valid => Has(LRU_CACHE, <<p, i>>) /\ Present(r, i, d)
    BY FetchPage
  <1>3. /\ i < ReadPages(r) /\ sf > d /\ sf \in Nat
        /\ sf <= 6 \/ sf <= 3 * i + 3
        /\ \A h \in Nat : h < ReadPages(r) /\ h # i => h < i \/ (h = 1 /\ i = 0)
    BY <1>1, <1>2, RowTypes DEF Present
  <1>4. PICK k \in 1 .. Len(LRU_CACHE) : LRU_CACHE[k] = x /\ l2 = Put(x, Without(k))
    BY <1>1 DEF MovedFront
  <1>5. /\ LRU_CACHE \in Seq(Nodes) /\ Len(LRU_CACHE) \in Nat /\ x \in Nodes
        /\ QUEUE \in Seq(DOMAIN pcb)
    <2>1. LRU_CACHE \in Seq(Nodes) /\ QUEUE \in Seq(DOMAIN pcb)
      BY DEF IInv
    <2>2. Len(LRU_CACHE) \in Nat
      BY <2>1, LenProperties
    <2>3. x \in Nodes
      BY <1>2 DEF Nodes
    <2> QED
      BY <2>1, <2>2, <2>3
  <1>6. Fronted(l2, x, LRU_CACHE, k) /\ Fronted(l2, LRU_CACHE[k], LRU_CACHE, k)
    BY <1>4, <1>5, FrontedMove
  <1>7. Listed(t, l2) /\ Listed(pcb, LRU_CACHE) /\ Good(t)
    BY DEF IInv, Listed
  <1>8. /\ SameFrames(pcb, t) /\ OthersSame(pcb, t, p) /\ Done(t[p]) = d + 1
    BY <1>1 DEF OneMore
  <1>9. Placed(t, l2, shellmemory')
    <2>1. Placed(pcb, LRU_CACHE, shellmemory)
      BY DEF RInv
    <2> HIDE DEF t, l2
    <2> QED
      BY <2>1, <1>1, <1>6, <1>7, <1>8, MoveKeeps
  <1>10. Timed(pcb, LRU_CACHE, QUEUE, cur)
    BY DEF RInv
  <1>11. PICK m \in Nat : /\ AtTurn(r, cur, m)
                          /\ Follows(pcb, QUEUE, p, m)
                          /\ Upto(pcb, LRU_CACHE, p, m)
    BY <1>10 DEF Timed, OnTurn
  <1>12. During(pcb, LRU_CACHE, QUEUE, p, m)
    BY <1>10, <1>11 DEF During, Timed
  <1>13. /\ Stamp(d + 1, i) = m
         /\ \A h \in Nat : h < i \/ (h = 1 /\ i = 0) =>
               /\ Stamp(d + 1, h) = Stamp(d, h)
               /\ Stamp(d, h) < m \/ (Stamp(d, h) = m /\ h < i)
         /\ Fresh(cur) => Halfway(d + 1, sf) /\ Going(d + 1) = m
         /\ ~Fresh(cur) => Begins(d + 1, sf) /\ Due(d + 1, sf) = m + 1
    <2>1. IF Fresh(cur) THEN Begins(d, sf) /\ m = Due(d, sf) ELSE Halfway(d, sf) /\ m = Going(d)
      BY <1>11 DEF AtTurn, DueOf
    <2>2. (Begins(d, sf) /\ m = Due(d, sf)) \/ (Halfway(d, sf) /\ m = Going(d))
      BY <2>1
    <2> HIDE DEF d, sf, i
    <2>3. /\ d \in Nat /\ i \in Nat /\ 3 * i <= d /\ d < 3 * i + 3 /\ sf \in Nat /\ sf > d
          /\ sf <= 6 \/ sf <= 3 * i + 3
      BY <1>2, <1>3
    <2>4. UsedIn(d, i, sf, m)
      BY <2>2, <2>3, LineTurn
    <2> QED
      BY <2>1, <2>4 DEF UsedIn
  <1>14. t[p].script = r.script /\ t[p].source_file = sf /\ DOMAIN t = DOMAIN pcb
    BY <1>2, <1>8 DEF SameFrames
  <1>15. ASSUME NEW a \in 1 .. Len(LRU_CACHE), a # k, LRU_CACHE[a][1] = p
         PROVE  StampKept(pcb[p], t[p], LRU_CACHE[a][2], i, m)
    <2> DEFINE h == LRU_CACHE[a][2]
    <2>1. /\ LRU_CACHE[a] = <<p, h>> /\ h \in Nat /\ h < ReadPages(r)
      <3>1. Placed(pcb, LRU_CACHE, shellmemory)
        BY DEF RInv
      <3> QED
        BY <3>1, <1>7, <1>15, NodeFrame
    <2>2. h # i
      <3>1. \A g \in 1 .. Len(LRU_CACHE) : /\ StampOf(pcb, LRU_CACHE[g]) \in Nat
                                           /\ LRU_CACHE[g][1] \in Nat /\ LRU_CACHE[g][2] \in Nat
        BY <1>7, ListTypes
      <3>2. LRU_CACHE[a] # LRU_CACHE[k]
        BY <3>1, <1>5, <1>10, <1>15, SortedApart DEF Timed
      <3> QED
        BY <3>2, <2>1, <1>4
    <2>3. h < i \/ (h = 1 /\ i = 0)
      BY <2>1, <2>2, <1>3
    <2>4. Stamp(d + 1, h) = Stamp(d, h) /\ (Stamp(d, h) < m \/ (Stamp(d, h) = m /\ h < i))
      BY <2>1, <2>3, <1>13
    <2>5. Stamp(d, h) \in Nat
      BY <2>1, <1>2, TimeTypes
    <2> QED
      BY <2>4, <2>5, <1>8 DEF StampKept
  <1>16. Cardinality(Early(pcb)) \in Nat
    <2>1. PID_counter - 1 \in Nat /\ DOMAIN pcb \subseteq 1 .. PID_counter - 1
      BY DEF IInv
    <2> QED
      BY <2>1, EarlyFinite
  <1>17. During(t, l2, QUEUE, p, m)
    <2>1. Stamp(Done(t[p]), i) = m /\ Fronted(l2, <<p, i>>, LRU_CACHE, k) /\ k \in 1 .. Len(LRU_CACHE) + 1
      BY <1>5, <1>6, <1>8, <1>13
    <2> HIDE DEF p, i, t, l2
    <2> QED
      BY <2>1, <1>2, <1>5, <1>7, <1>8, <1>12, <1>15, <1>16, UsePage
  <1>18. /\ cur.left \in 1 .. 2 /\ cur.requeue \in BOOLEAN /\ (~cur.requeue => cur.left = 1)
         /\ cur \in [pid : Nat, left : 0 .. 2, requeue : BOOLEAN]
    <2>1. Turn(pcb, cur) /\ cur.left \in 1 .. 2
      BY TurnFacts DEF IInv
    <2> QED
      BY <2>1 DEF Turn
  <1>19. \A q \in DOMAIN t : Paced(t[q])
    <2> SUFFICES ASSUME NEW q \in DOMAIN t
                 PROVE  Paced(t[q])
      OBVIOUS
    <2>1. q \in DOMAIN pcb /\ Paced(pcb[q])
      BY <1>10, <1>14 DEF Timed
    <2>2. t[q].script = pcb[q].script /\ ReadPages(t[q]) = ReadPages(pcb[q])
      BY <2>1, <1>8 DEF SameFrames, ReadPages
    <2>3. CASE q # p
      BY <2>1, <2>2, <2>3, <1>8 DEF Paced, OthersSame
    <2>4. CASE q = p
      <3> DEFINE c == ReadPages(r)
      <3>1. c \in Nat /\ i < c
        <4>1. Reads(r)
          BY <1>2 DEF RInv, Placed
        <4> QED
          BY <4>1, <1>2, <1>3, ReadsFacts
      <3>2. /\ c >= 1 /\ (PAGE_table_size(count_lines(r.script)) >= 2 => c >= 2)
            /\ d <= 3 * c /\ (c > 2 => d >= 3 * c - 3)
        BY <2>1, <2>4 DEF Paced
      <3>3. ReadPages(t[p]) = c /\ t[p].script = r.script /\ Done(t[p]) = d + 1
        BY <2>2, <2>4, <1>8
      <3> HIDE DEF c, d, r, i
      <3>4. d + 1 <= 3 * c /\ (c > 2 => d + 1 >= 3 * c - 3)
        BY <3>1, <3>2, <1>2
      <3>5. Paced(t[p])
        BY <3>2, <3>3, <3>4 DEF Paced
      <3> QED
        BY <3>5, <2>4
    <2> QED
      BY <2>3, <2>4
  <1>20. InStep(t, QUEUE') /\ UsedBefore(t, l2, QUEUE') /\ OnTurn(t, l2, QUEUE', cur')
    <2>1. CASE cur.left = 2
      <3>1. cur' = [cur EXCEPT !.left = 1] /\ QUEUE' = QUEUE /\ Fresh(cur) /\ cur.requeue
        BY <2>1, <1>1, <1>18 DEF Fresh
      <3>2. ~Fresh(cur') /\ cur'.pid = p
        BY <3>1, <1>18, HalfTurn DEF Fresh
      <3>3. AtTurn(t[p], cur', m)
        BY <3>1, <3>2, <1>8, <1>13, <1>14 DEF AtTurn
      <3> QED
        BY <3>1, <3>2, <3>3, <1>17 DEF During, OnTurn
    <2>2. CASE cur.left = 1 /\ cur.requeue
      <3>1. cur' = Idle /\ QUEUE' = Append(QUEUE, p) /\ ~Fresh(cur)
        BY <2>2, <1>1 DEF Fresh
      <3>2. Begins(Done(t[p]), t[p].source_file) /\ DueOf(t[p]) = m + 1
        BY <3>1, <1>8, <1>13, <1>14 DEF DueOf
      <3>3. QUEUE \in Seq(DOMAIN t) /\ p \in DOMAIN t
        BY <1>2, <1>5, <1>14
      <3>4. OnTurn(t, l2, QUEUE', cur')
        BY <3>1 DEF OnTurn
      <3> HIDE DEF p, t, l2
      <3> QED
        BY <3>1, <3>2, <3>3, <3>4, <1>7, <1>17, TurnEnds
    <2>3. CASE cur.left = 1 /\ ~cur.requeue
      <3>1. cur' = Idle /\ QUEUE' = QUEUE
        BY <2>3, <1>1
      <3> QED
        BY <3>1, <1>17 DEF During, OnTurn
    <2> QED
      BY <2>1, <2>2, <2>3, <1>18
  <1>21. Timed(t, l2, QUEUE', cur')
    BY <1>17, <1>19, <1>20 DEF Timed, During
  <1>22. Told(t, ran')
    <2>1. DOMAIN ran = DOMAIN pcb /\ Told(pcb, ran)
      BY DEF IInv, RInv
    <2> SUFFICES ASSUME NEW q \in DOMAIN t
                 PROVE  /\ ran'[q] \in Seq(Nodes) /\ Len(ran'[q]) = Done(t[q])
                        /\ \A h \in 1 .. Len(ran'[q]) : ran'[q][h] = <<q, h>>
      BY DEF Told
    <2>2. q \in DOMAIN pcb
      BY <1>14
    <2>3. /\ ran[q] \in Seq(Nodes) /\ Len(ran[q]) = Done(pcb[q])
          /\ \A h \in 1 .. Len(ran[q]) : ran[q][h] = <<q, h>>
      BY <2>1, <2>2 DEF Told
    <2>4. CASE q # p
      <3>1. ran'[q] = ran[q] /\ Done(t[q]) = Done(pcb[q])
        BY <2>2, <2>4, <1>1, <1>8 DEF OthersSame
      <3> QED
        BY <3>1, <2>3
    <2>5. CASE q = p
      <3> DEFINE o == ran[p]
                 y == <<p, d + 1>>
      <3>1. ran'[p] = Append(o, y)
        BY <2>1, <1>1, <1>2
      <3>2. y \in Nodes /\ o \in Seq(Nodes) /\ Len(o) = d
        BY <2>3, <2>5, <1>2 DEF Nodes
      <3>3. /\ Append(o, y) \in Seq(Nodes) /\ Len(Append(o, y)) = d + 1
            /\ \A h \in 1 .. d : Append(o, y)[h] = o[h]
            /\ Append(o, y)[d + 1] = y
        <4> HIDE DEF o, y, d
        <4> QED
          BY <3>2, <1>2, AppendProperties
      <3>4. \A h \in 1 .. d + 1 : h \in 1 .. d \/ h = d + 1
        BY <1>2
      <3>5. \A h \in 1 .. d + 1 : Append(o, y)[h] = <<p, h>>
        BY <3>2, <3>3, <3>4, <2>3, <2>5
      <3> QED
        BY <3>1, <3>3, <3>5, <2>5, <1>8
    <2> QED
      BY <2>4, <2>5
  <1>23. LeavesEnded(pcb, LRU_CACHE, l2)
    <2> SUFFICES ASSUME NEW a \in 1 .. Len(LRU_CACHE)
                 PROVE  Has(l2, LRU_CACHE[a])
      BY DEF LeavesEnded
    <2>1. CASE a = k
      <3>1. l2[1] = LRU_CACHE[a] /\ 1 \in 1 .. Len(l2)
        BY <2>1, <1>5, <1>6 DEF Fronted
      <3> QED
        BY <3>1 DEF Has
    <2>2. CASE a # k
      <3> HIDE DEF l2
      <3>1. k \in 1 .. Len(LRU_CACHE) + 1
        BY <1>5
      <3> QED
        BY <2>2, <3>1, <1>5, <1>6, FrontedHas
    <2> QED
      BY <2>1, <2>2
  <1> QED
    BY <1>1, <1>9, <1>21, <1>22, <1>23

-----------------------------------------------------------------------------
\* The other steps.

\* The first process of the queue begins its turn.
LEMMA TurnKeeps ==
    ASSUME IInv, RInv, TakeTurn
    PROVE  Timed(pcb, LRU_CACHE, QUEUE', cur')
  <1> DEFINE p == Head(QUEUE)
             D == DOMAIN pcb
             n == DueOf(pcb[p])
  <1>1. /\ ~queue_done /\ QUEUE' = Tail(QUEUE)
        /\ cur' = CASE pcb[p].size > 1 -> [pid |-> p, left |-> 2, requeue |-> TRUE]
                    [] pcb[p].size = 1 -> [pid |-> p, left |-> 1, requeue |-> FALSE]
                    [] OTHER           -> Idle
    BY DEF TakeTurn
  <1>2. QUEUE \in Seq(D) /\ Good(pcb) /\ D \subseteq 1 .. PID_counter - 1 /\ PID_counter \in Nat
    BY DEF IInv
  <1>3. D \in SUBSET Nat
    BY <1>2
  <1>4. QUEUE # << >>
    <2>1. Len(<< >>) = 0
      OBVIOUS
    <2> QED
      BY <2>1, <1>1 DEF queue_done
  <1>5. Listed(pcb, LRU_CACHE) /\ Timed(pcb, LRU_CACHE, QUEUE, cur)
    BY InvListed DEF RInv
  <1>6. \A a \in 1 .. Len(LRU_CACHE) : LRU_CACHE[a][1] \in Nat /\ StampOf(pcb, LRU_CACHE[a]) \in Nat
    BY <1>5, ListTypes
  <1>7. \A a \in 1 .. Len(QUEUE) : DueOf(pcb[QUEUE[a]]) \in Nat
    <2> SUFFICES ASSUME NEW a \in 1 .. Len(QUEUE)
                 PROVE  DueOf(pcb[QUEUE[a]]) \in Nat
      OBVIOUS
    <2>1. QUEUE[a] \in DOMAIN pcb
      BY <1>2, ElementOfSeq
    <2> QED
      BY <2>1, <1>2, RowTypes DEF Good
  <1>8. /\ InStep(pcb, QUEUE') /\ UsedBefore(pcb, LRU_CACHE, QUEUE')
        /\ Begins(Done(pcb[p]), pcb[p].source_file)
        /\ Follows(pcb, QUEUE', p, n) /\ Upto(pcb, LRU_CACHE, p, n)
    <2>1. InStep(pcb, QUEUE) /\ UsedBefore(pcb, LRU_CACHE, QUEUE)
      BY <1>5 DEF Timed
    <2> HIDE DEF D
    <2> QED
      BY <2>1, <1>1, <1>2, <1>3, <1>4, <1>6, <1>7, Dequeued
  <1>9. OnTurn(pcb, LRU_CACHE, QUEUE', cur')
    <2>1. p \in DOMAIN pcb
      BY <1>2, <1>4
    <2>2. n \in Nat /\ pcb[p].size \in Nat
      BY <2>1, <1>2, RowTypes DEF Good
    <2>3. cur' = Idle \/ (cur'.pid = p /\ Fresh(cur'))
      BY <2>2, <1>1 DEF Fresh
    <2>4. Fresh(cur') => AtTurn(pcb[p], cur', n)
      BY <1>8 DEF AtTurn
    <2> HIDE DEF n, p
    <2> QED
      BY <2>2, <2>3, <2>4, <1>8 DEF OnTurn
  <1> QED
    BY <1>5, <1>8, <1>9 DEF Timed

\* No process, no page: nothing to tell.
LEMMA NothingTimed ==
    /\ Timed(<< >>, << >>, << >>, Idle) /\ Told(<< >>, << >>)
    /\ \A m : (\A q \in 0 .. FrameStore - 1 : m[q].var = None) => Placed(<< >>, << >>, m)
  <1>1. DOMAIN << >> = {} /\ Len(<< >>) = 0 /\ 1 .. 0 = {}
    OBVIOUS
  <1>2. Early(<< >>) = {}
    BY <1>1 DEF Early
  <1>3. Cardinality(Early(<< >>)) = 0
    BY <1>2, FS_EmptySet
  <1>4. Timed(<< >>, << >>, << >>, Idle)
    BY <1>1, <1>3 DEF Timed, Sorted, InStep, UsedBefore, OnTurn
  <1>5. Told(<< >>, << >>)
    BY <1>1 DEF Told
  <1>6. \A m : (\A q \in 0 .. FrameStore - 1 : m[q].var = None) => Placed(<< >>, << >>, m)
    BY <1>1 DEF Placed, Apart, Covered
  <1> QED
    BY <1>4, <1>5, <1>6

LEMMA RInvInit == Init => RInv
  <1> SUFFICES ASSUME Init
               PROVE  RInv
    OBVIOUS
  <1>1. /\ phase = "prompt" /\ pcb = << >> /\ QUEUE = << >> /\ LRU_CACHE = << >>
        /\ cur = Idle /\ ran = << >>
        /\ shellmemory = [q \in Memory |-> [var |-> None, value |-> NoLine]]
    BY DEF Init
  <1>2. \A q \in 0 .. FrameStore - 1 : shellmemory[q].var = None
    <2>1. \A q \in 0 .. FrameStore - 1 : q \in Memory
      BY StoreAssumption DEF Memory
    <2> QED
      BY <2>1, <1>1
  <1>3. Placed(<< >>, << >>, shellmemory)
    BY <1>2, NothingTimed
  <1>4. DOMAIN << >> = {}
    OBVIOUS
  <1> QED
    BY <1>1, <1>3, <1>4, NothingTimed DEF RInv

\* The end of a command leaves no frame behind: every occupied position is one of
\* a page of the list, which free_PCB clears.
LEMMA FreeKeeps ==
    ASSUME IInv, RInv, FreeAll
    PROVE  RInv'
  <1>1. /\ phase' \in {"prompt", "undefined"} /\ pcb' = << >> /\ QUEUE' = << >> /\ LRU_CACHE' = << >>
        /\ cur = Idle /\ cur' = cur /\ ran' = << >> /\ shellmemory' = mem_free(shellmemory, Cleared)
    BY DEF FreeAll
  <1>2. Listed(pcb, LRU_CACHE) /\ Placed(pcb, LRU_CACHE, shellmemory) /\ GoodMemory(shellmemory)
    BY InvListed DEF RInv, IInv
  <1>3. ASSUME NEW q \in 0 .. FrameStore - 1
        PROVE  shellmemory'[q].var = None
    <2>1. q \in Memory
      BY StoreAssumption DEF Memory
    <2>2. CASE q \in Cleared
      BY <2>1, <2>2, <1>1, <1>2, FreeMemory
    <2>3. CASE q \notin Cleared
      <3>1. shellmemory'[q] = shellmemory[q]
        BY <2>1, <2>3, <1>1, <1>2, FreeMemory
      <3>2. ASSUME shellmemory[q].var # None
            PROVE  FALSE
        <4>1. PICK a \in 1 .. Len(LRU_CACHE) : q - StartOf(pcb, LRU_CACHE[a]) \in Lines
          BY <3>2, <1>2 DEF Placed, Covered
        <4> DEFINE g == LRU_CACHE[a]
                   b == StartOf(pcb, g)
        <4>2. /\ g[1] \in DOMAIN pcb /\ g[2] \in PagesOf(pcb[g[1]].script)
              /\ b \in 0 .. FrameStore - 3 /\ InFrame(pcb[g[1]], shellmemory, g[1], g[2], b)
          BY <1>2, NodeFrame
        <4>3. g[2] \in Pages(g[1])
          <5>1. pcb[g[1]] \in PCBs(pcb[g[1]].script)
            BY <4>2 DEF IInv, Good, GoodRow
          <5> QED
            BY <5>1, <4>2 DEF PCBs, Pages
        <4>4. pcb[g[1]].index[g[2]][0] = b
          BY DEF StartOf
        <4> DEFINE U == UNION {{pcb[p].index[i][j] : i \in Pages(p), j \in 0 .. 2} : p \in DOMAIN pcb}
        <4>5. b \in U /\ Cleared = {n + d : n \in U, d \in 0 .. 2}
          BY <4>2, <4>3, <4>4 DEF Cleared
        <4>6. q - b \in 0 .. 2 /\ q = b + (q - b)
          BY <4>1, <4>2, StoreAssumption DEF Lines
        <4> DEFINE e == q - b
        <4>7. e \in 0 .. 2 /\ q = b + e
          BY <4>6
        <4> HIDE DEF b, U, e
        <4>8. q \in Cleared
          BY <4>5, <4>7
        <4> QED
          BY <4>8, <2>3
      <3> QED
        BY <3>1, <3>2
    <2> QED
      BY <2>2, <2>3
  <1>4. Placed(<< >>, << >>, shellmemory')
    BY <1>3, NothingTimed
  <1>5. DOMAIN << >> = {}
    OBVIOUS
  <1> QED
    BY <1>1, <1>4, <1>5, NothingTimed DEF RInv

\* Placed only asks what is in the frames.
LEMMA SameFrameMemory ==
    ASSUME NEW t, NEW l, NEW m0, NEW m, Listed(t, l), Placed(t, l, m0),
           \A q \in 0 .. FrameStore - 1 : m[q] = m0[q]
    PROVE  Placed(t, l, m)
  <1>1. \A b \in 0 .. FrameStore - 3 : \A j \in Lines : m[b + j] = m0[b + j]
    BY StoreAssumption DEF Lines
  <1>2. ASSUME NEW p \in DOMAIN t, NEW i \in PagesOf(t[p].script)
        PROVE  PageState(t[p], l, m, p, i)
    <2>1. PageState(t[p], l, m0, p, i)
      BY DEF Placed
    <2>2. CASE ~Has(l, <<p, i>>)
      BY <2>1, <2>2 DEF PageState
    <2>3. CASE Has(l, <<p, i>>)
      <3>1. PICK b \in 0 .. FrameStore - 3 : InFrame(t[p], m0, p, i, b)
        BY <2>1, <2>3 DEF PageState
      <3>2. InFrame(t[p], m, p, i, b)
        BY <3>1, <1>1 DEF InFrame
      <3> QED
        BY <3>2, <2>1, <2>3 DEF PageState
    <2> QED
      BY <2>2, <2>3
  <1>3. Covered(t, l, m)
    BY DEF Placed, Covered
  <1> QED
    BY <1>2, <1>3 DEF Placed

-----------------------------------------------------------------------------
\* Admission.

\* The list and the queue while no line has been executed.
Descending(l) == \A a, b \in 1 .. Len(l) : a < b =>
    l[b][1] < l[a][1] \/ (l[b][1] = l[a][1] /\ l[b][2] < l[a][2])

Ascending(s) == \A a, b \in 1 .. Len(s) : a < b => s[a] < s[b]

Unstarted(t) == \A q \in DOMAIN t : Paced(t[q]) /\ Done(t[q]) = 0

\* Before the first turn nothing was used, and the first turn is due.
LEMMA FirstTurn ==
    ASSUME AllRegular, NEW t, NEW l, NEW m, Listed(t, l), Placed(t, l, m), Unstarted(t)
    PROVE  /\ \A a \in 1 .. Len(l) : StampOf(t, l[a]) = 0
           /\ \A q \in DOMAIN t : Begins(Done(t[q]), t[q].source_file) /\ DueOf(t[q]) = 1
  <1>1. ASSUME NEW q \in DOMAIN t
        PROVE  Begins(Done(t[q]), t[q].source_file) /\ DueOf(t[q]) = 1
    <2>1. Done(t[q]) = 0
      BY DEF Unstarted
    <2>2. 0 \div 2 = 0
      OBVIOUS
    <2> QED
      BY <2>1, <2>2 DEF Begins, DueOf, Due
  <1>2. ASSUME NEW a \in 1 .. Len(l)
        PROVE  StampOf(t, l[a]) = 0
    <2> DEFINE q == l[a][1]
               h == l[a][2]
               k == ReadPages(t[q])
    <2>1. q \in DOMAIN t /\ h \in PagesOf(t[q].script) /\ h < k /\ h \in Nat
      BY NodeFrame
    <2>2. k \in Nat
      <3>1. GoodRow(t[q]) /\ Reads(t[q])
        BY <2>1 DEF Listed, Good, Placed
      <3> QED
        BY <2>1, <3>1, ReadsFacts
    <2>3. Done(t[q]) = 0 /\ (k > 2 => Done(t[q]) >= 3 * k - 3)
      BY <2>1 DEF Unstarted, Paced
    <2> HIDE DEF k
    <2>4. h \in {0, 1}
      BY <2>1, <2>2, <2>3
    <2>5. Stamp(0, h) = 0
      BY <2>4 DEF Stamp
    <2> QED
      BY <2>3, <2>5 DEF StampOf
  <1> QED
    BY <1>1, <1>2

\* The order of the turns is then that of the pids.
LEMMA FirstOrder ==
    ASSUME NEW t, NEW l, NEW s,
           \A a \in 1 .. Len(l) : StampOf(t, l[a]) = 0,
           \A a \in 1 .. Len(s) : Begins(Done(t[s[a]]), t[s[a]].source_file) /\ DueOf(t[s[a]]) = 1
    PROVE  /\ Sorted(t, l) <=> Descending(l)
           /\ InStep(t, s) <=> Ascending(s)
           /\ UsedBefore(t, l, s)
  <1>1. \A a, b \in 1 .. Len(l) :
           Above(t, l[a], l[b]) <=> l[b][1] < l[a][1] \/ (l[b][1] = l[a][1] /\ l[b][2] < l[a][2])
    BY DEF Above, Earlier
  <1>2. Sorted(t, l) <=> Descending(l)
    BY <1>1 DEF Sorted, Descending
  <1>3. \A a, b \in 1 .. Len(s) :
           /\ Earlier(DueOf(t[s[a]]), s[a], DueOf(t[s[b]]), s[b]) <=> s[a] < s[b]
           /\ Earlier(DueOf(t[s[b]]), s[b], DueOf(t[s[a]]) + 1, s[a])
    BY DEF Earlier
  <1>4. InStep(t, s) <=> Ascending(s)
    BY <1>3 DEF InStep, Ascending
  <1>5. UsedBefore(t, l, s)
    BY DEF UsedBefore, Earlier
  <1> QED
    BY <1>2, <1>4, <1>5

\* A larger page in front, a larger pid behind.
LEMMA DescendingPut ==
    ASSUME NEW l \in Seq(Nodes), Descending(l), NEW p \in Nat, NEW i \in Nat,
           \A a \in 1 .. Len(l) : l[a][1] < p \/ (l[a][1] = p /\ l[a][2] < i),
           NEW l2, l2 = Put(<<p, i>>, l)
    PROVE  Descending(l2)
  <1> DEFINE x == <<p, i>>
             n == Len(l)
  <1>1. x \in Nodes /\ n \in Nat
    <2>1. n \in Nat
      BY LenProperties
    <2> QED
      BY <2>1 DEF Nodes
  <1>2. Len(l2) = n + 1 /\ l2[1] = x /\ \A k \in 2 .. n + 1 : l2[k] = l[k - 1]
    <2>1. l2 = Put(x, l)
      OBVIOUS
    <2> HIDE DEF x
    <2>2. /\ Len(Put(x, l)) = Len(l) + 1 /\ Put(x, l)[1] = x
          /\ \A k \in 2 .. Len(l) + 1 : Put(x, l)[k] = l[k - 1]
      BY <1>1, FrontPlaces, Zenon
    <2> QED
      BY <2>1, <2>2, Zenon
  <1>3. \A a \in 1 .. n : l[a][1] < x[1] \/ (l[a][1] = x[1] /\ l[a][2] < x[2])
    OBVIOUS
  <1>4. \A a, b \in 1 .. n : a < b =>
           l[b][1] < l[a][1] \/ (l[b][1] = l[a][1] /\ l[b][2] < l[a][2])
    BY DEF Descending
  <1> HIDE DEF x, n
  <1> SUFFICES ASSUME NEW a \in 1 .. n + 1, NEW b \in 1 .. n + 1, a < b
               PROVE  l2[b][1] < l2[a][1] \/ (l2[b][1] = l2[a][1] /\ l2[b][2] < l2[a][2])
    BY <1>2 DEF Descending
  <1>5. b \in 2 .. n + 1 /\ b - 1 \in 1 .. n
    BY <1>1
  <1>6. l2[b] = l[b - 1]
    BY <1>2, <1>5
  <1>7. CASE a = 1
    BY <1>2, <1>3, <1>5, <1>6, <1>7
  <1>8. CASE a # 1
    <2>1. a - 1 \in 1 .. n /\ a - 1 < b - 1 /\ a \in 2 .. n + 1
      BY <1>1, <1>8
    <2>2. l2[a] = l[a - 1]
      BY <2>1, <1>2
    <2> QED
      BY <2>1, <2>2, <1>4, <1>5, <1>6
  <1> QED
    BY <1>7, <1>8

LEMMA AscendingAppend ==
    ASSUME NEW s \in Seq(Nat), Ascending(s), NEW p \in Nat, \A a \in 1 .. Len(s) : s[a] < p,
           NEW s2, s2 = Append(s, p)
    PROVE  Ascending(s2)
  <1>1. Len(s2) = Len(s) + 1 /\ s2[Len(s) + 1] = p /\ Len(s) \in Nat
        /\ \A k \in 1 .. Len(s) : s2[k] = s[k]
    BY AppendProperties
  <1> SUFFICES ASSUME NEW a \in 1 .. Len(s2), NEW b \in 1 .. Len(s2), a < b
               PROVE  s2[a] < s2[b]
    BY DEF Ascending
  <1>2. a \in 1 .. Len(s) /\ s2[a] = s[a]
    BY <1>1
  <1>3. CASE b = Len(s) + 1
    BY <1>1, <1>2, <1>3
  <1>4. CASE b # Len(s) + 1
    <2>1. b \in 1 .. Len(s) /\ s2[b] = s[b]
      BY <1>1, <1>4, SMTT(20)
    <2> QED
      BY <2>1, <1>2 DEF Ascending
  <1> QED
    BY <1>3, <1>4

\* The table with the row of a process that has no page yet.
WithNew(s) == [q \in DOMAIN pcb \cup {PID_counter} |-> IF q = PID_counter THEN NewPCB(s) ELSE pcb[q]]

\* t is the table of PCBs with a row for s, of which k pages are read.
Joined(t, s, k) ==
    /\ DOMAIN t = DOMAIN pcb \cup {PID_counter}
    /\ \A q \in DOMAIN pcb : t[q] = pcb[q]
    /\ t[PID_counter].script = s /\ t[PID_counter].size = count_lines(s)
    /\ ReadPages(t[PID_counter]) = k

LEMMA NewPlaced ==
    ASSUME AllRegular, IInv, RInv, NEW s \in Scripts, NEW t, t = WithNew(s)
    PROVE  /\ Joined(t, s, 0)
           /\ Listed(t, LRU_CACHE) /\ Placed(t, LRU_CACHE, shellmemory)
  <1> DEFINE p == PID_counter
             l == LRU_CACHE
  <1>1. p \in Nat \ {0} /\ p \notin DOMAIN pcb
    BY DEF IInv
  <1>2. /\ DOMAIN t = DOMAIN pcb \cup {p}
        /\ t[p] = NewPCB(s)
        /\ \A q \in DOMAIN pcb : t[q] = pcb[q]
    BY <1>1 DEF WithNew
  <1>3. /\ GoodRow(NewPCB(s)) /\ NewPCB(s).script = s
        /\ \A i \in PagesOf(s) : \A j \in Lines : ~NewPCB(s).valid_bit[i][j]
    BY NewRow
  <1>4. NewPCB(s).size = count_lines(s) /\ NewPCB(s).source_file = 0
    BY DEF NewPCB
  <1>5. ReadPages(t[p]) = 0
    <2>1. (0 + 2) \div 3 = 0
      OBVIOUS
    <2> QED
      BY <2>1, <1>2, <1>4 DEF ReadPages, PAGE_table_size
  <1>6. Listed(pcb, l) /\ Placed(pcb, l, shellmemory)
    BY InvListed DEF RInv
  <1>7. Listed(t, l)
    <2>1. Good(t) /\ DOMAIN t \subseteq Nat \ {0}
      BY <1>1, <1>2, <1>3, <1>6 DEF Good, Listed
    <2>2. l \in Seq(Nodes) /\ Resident(pcb, l)
      BY <1>6 DEF Listed
    <2>3. Resident(t, l)
      BY <2>2, <1>1, <1>2, <1>3 DEF Resident, IsPage
    <2> QED
      BY <2>1, <2>2, <2>3 DEF Listed
  <1>8. \A a \in 1 .. Len(l) : StartOf(t, l[a]) = StartOf(pcb, l[a])
    <2> SUFFICES ASSUME NEW a \in 1 .. Len(l)
                 PROVE  StartOf(t, l[a]) = StartOf(pcb, l[a])
      OBVIOUS
    <2>1. l[a][1] \in DOMAIN pcb
      BY <1>6, NodeFrame
    <2> QED
      BY <2>1, <1>2 DEF StartOf
  <1>9. Apart(t, l) /\ Covered(t, l, shellmemory)
    BY <1>6, <1>8 DEF Placed, Apart, Covered
  <1>10. ASSUME NEW q \in DOMAIN t
         PROVE  /\ Reads(t[q])
                /\ \A i \in PagesOf(t[q].script) : PageState(t[q], l, shellmemory, q, i)
    <2>1. CASE q \in DOMAIN pcb
      BY <2>1, <1>2, <1>6 DEF Placed
    <2>2. CASE q = p
      <3>1. Reads(t[p])
        <4>1. Len(s.lines) \in Nat
          BY ScriptAssumption
        <4>2. PAGE_table_size(count_lines(s)) \in Nat
          BY CountFacts
        <4> QED
          BY <4>1, <4>2, <1>2, <1>3, <1>4, <1>5 DEF Reads
      <3>2. ASSUME NEW i \in PagesOf(t[p].script)
            PROVE  PageState(t[p], l, shellmemory, p, i)
        <4>1. i \in Nat
          BY <3>2, <1>2, <1>3, CountFacts
        <4>2. ~Has(l, <<p, i>>)
          <5> SUFFICES ASSUME NEW a \in 1 .. Len(l), l[a] = <<p, i>>
                       PROVE  FALSE
            BY DEF Has
          <5>1. l[a][1] \in DOMAIN pcb
            BY <1>6, NodeFrame
          <5>2. l[a][1] = p
            OBVIOUS
          <5> QED
            BY <5>1, <5>2, <1>1
        <4> QED
          BY <4>1, <4>2, <1>5 DEF PageState
      <3> QED
        BY <3>1, <3>2, <2>2
    <2> QED
      BY <2>1, <2>2, <1>2
  <1> QED
    BY <1>2, <1>3, <1>4, <1>5, <1>7, <1>9, <1>10 DEF Placed, Joined

\* Page i of the new process is loaded.
LEMMA JoinPage ==
    ASSUME AllRegular, IInv, NEW s \in Scripts, NEW u, NEW l, NEW i \in PagesOf(s),
           Joined(u.pcb, s, i), Listed(u.pcb, l), Placed(u.pcb, l, u.mem), FreeFrames(u.mem) # {},
           NEW t, t = load_PAGE(u, PID_counter, i).pcb,
           NEW m, m = load_PAGE(u, PID_counter, i).mem,
           NEW l2, l2 = Put(<<PID_counter, i>>, l)
    PROVE  Joined(t, s, i + 1) /\ Listed(t, l2) /\ Placed(t, l2, m)
  <1> DEFINE p == PID_counter
             t0 == u.pcb
  <1>1. p \in Nat \ {0} /\ p \notin DOMAIN pcb /\ i \in Nat
    BY CountFacts DEF IInv
  <1>2. /\ DOMAIN t0 = DOMAIN pcb \cup {p}
        /\ \A q \in DOMAIN pcb : t0[q] = pcb[q]
        /\ t0[p].script = s /\ t0[p].size = count_lines(s)
        /\ ReadPages(t0[p]) = i
    BY DEF Joined
  <1>3. /\ p \in DOMAIN t0 /\ Good(t0) /\ Reads(t0[p]) /\ i \in PagesOf(t0[p].script)
        /\ i = ReadPages(t0[p])
    BY <1>2 DEF Listed, Placed
  <1>4. PICK b \in 0 .. FrameStore - 3 : Filled(t0, u.mem, t, m, p, i, b)
    BY <1>3, LoadFills
  <1>5. Placed(t, l2, m) /\ ReadPages(t[p]) = i + 1
    <2> HIDE DEF t0, p
    <2> QED
      BY <1>3, <1>4, LoadKeeps DEF t0, p
  <1>6. /\ DOMAIN t = DOMAIN t0 /\ \A q \in DOMAIN t0 : q # p => t[q] = t0[q]
        /\ t[p].script = t0[p].script /\ t[p].size = t0[p].size
    BY <1>4 DEF Filled
  <1>7. Joined(t, s, i + 1)
    BY <1>1, <1>2, <1>5, <1>6 DEF Joined
  <1>8. SameBut(t0, t, p, i) /\ Good(t)
    BY <1>3, LoadTable
  <1>9. Resident(t, l2) /\ l2 \in Seq(Nodes)
    <2>1. l \in Seq(Nodes) /\ Resident(t0, l)
      BY DEF Listed
    <2> HIDE DEF t0, p
    <2> QED
      BY <2>1, <1>1, <1>3, <1>8, FrontResident DEF p
  <1>10. DOMAIN t \subseteq Nat \ {0}
    BY <1>6 DEF Listed
  <1> QED
    BY <1>5, <1>7, <1>8, <1>9, <1>10 DEF Listed

\* The pages of s that are loaded at admission.
EarlyPages(s) == IF PAGE_table_size(count_lines(s)) >= 2 THEN 2 ELSE 1

\* The list with those pages in front.
WithEarly(s) ==
    IF EarlyPages(s) = 2 THEN Put(<<PID_counter, 1>>, Put(<<PID_counter, 0>>, LRU_CACHE))
    ELSE Put(<<PID_counter, 0>>, LRU_CACHE)

Entered(t, l, m, s) == /\ Joined(t, s, EarlyPages(s))
                       /\ l = WithEarly(s)
                       /\ Listed(t, l) /\ Placed(t, l, m)

LEMMA AdmitPages ==
    ASSUME AllRegular, IInv, RInv, NEW s \in Scripts, PCB_init(s).fits,
           NEW t, t = PCB_init(s).st.pcb, NEW m, m = PCB_init(s).st.mem,
           NEW l, l = (IF PCB_init(s).two THEN << <<PID_counter, 1>> >> ELSE << >>)
                         \o << <<PID_counter, 0>> >> \o LRU_CACHE
    PROVE  Entered(t, l, m, s)
  <1> DEFINE p == PID_counter
             t0 == WithNew(s)
             st0 == [mem |-> shellmemory, pcb |-> t0]
             two == PAGE_table_size(count_lines(s)) >= 2
             st1 == load_PAGE(st0, p, 0)
             st2 == IF two THEN load_PAGE(st1, p, 1) ELSE st1
             fits == FreeFrames(st0.mem) # {} /\ (two => FreeFrames(st1.mem) # {})
             l1 == Put(<<p, 0>>, LRU_CACHE)
             l2 == Put(<<p, 1>>, l1)
  <1>1. p \in Nat /\ LRU_CACHE \in Seq(Nodes)
    BY DEF IInv
  <1>2. PCB_init(s) = [fits |-> fits, two |-> two, st |-> IF fits THEN st2 ELSE st0]
    BY DEF PCB_init, WithNew
  <1>3. fits /\ t = st2.pcb /\ m = st2.mem /\ PCB_init(s).two = two
    <2> HIDE DEF fits, two, st2, st0
    <2>1. PCB_init(s).fits = fits /\ PCB_init(s).two = two
          /\ PCB_init(s).st = IF fits THEN st2 ELSE st0
      BY <1>2
    <2> QED
      BY <2>1
  <1>4. st0.mem = shellmemory /\ st0.pcb = t0
    OBVIOUS
  <1> HIDE DEF st0
  <1>5. /\ Joined(t0, s, 0) /\ Listed(t0, LRU_CACHE) /\ Placed(t0, LRU_CACHE, shellmemory)
    BY NewPlaced
  <1> HIDE DEF t0
  <1>6. /\ 0 \in PagesOf(s) /\ (two => 1 \in PagesOf(s))
    BY CountFacts DEF PagesOf
  <1>7. Joined(st1.pcb, s, 1) /\ Listed(st1.pcb, l1) /\ Placed(st1.pcb, l1, st1.mem)
    <2>1. /\ Joined(st0.pcb, s, 0) /\ Listed(st0.pcb, LRU_CACHE)
          /\ Placed(st0.pcb, LRU_CACHE, st0.mem) /\ FreeFrames(st0.mem) # {}
      BY <1>3, <1>4, <1>5
    <2>2. Joined(st1.pcb, s, 0 + 1) /\ Listed(st1.pcb, l1) /\ Placed(st1.pcb, l1, st1.mem)
      BY <2>1, <1>6, JoinPage
    <2> QED
      BY <2>2
  <1> HIDE DEF st1
  <1>8. CASE ~two
    <2>1. t = st1.pcb /\ m = st1.mem /\ EarlyPages(s) = 1
      BY <1>3, <1>8 DEF EarlyPages
    <2>2. l = l1
      <3>1. << <<p, 0>> >> \in Seq(Nodes)
        BY <1>1 DEF Nodes
      <3>2. << >> \o << <<p, 0>> >> = << <<p, 0>> >>
        BY <3>1, ConcatEmptySeq
      <3> QED
        BY <3>2, <1>3, <1>8 DEF Put
    <2>3. WithEarly(s) = l1
      BY <2>1 DEF WithEarly
    <2> HIDE DEF l1
    <2> QED
      BY <2>1, <2>2, <2>3, <1>7 DEF Entered
  <1>9. CASE two
    <2>1. t = load_PAGE(st1, p, 1).pcb /\ m = load_PAGE(st1, p, 1).mem /\ EarlyPages(s) = 2
      BY <1>3, <1>9 DEF EarlyPages
    <2>2. FreeFrames(st1.mem) # {}
      BY <1>3, <1>9
    <2>3. l = l2
      <3>1. << <<p, 0>> >> \in Seq(Nodes) /\ << <<p, 1>> >> \in Seq(Nodes)
        BY <1>1 DEF Nodes
      <3>2. (<< <<p, 1>> >> \o << <<p, 0>> >>) \o LRU_CACHE
              = << <<p, 1>> >> \o (<< <<p, 0>> >> \o LRU_CACHE)
        BY <3>1, <1>1, ConcatAssociative
      <3> QED
        BY <3>2, <1>3, <1>9 DEF Put
    <2>4. WithEarly(s) = l2
      BY <2>1 DEF WithEarly
    <2>5. Joined(t, s, 1 + 1) /\ Listed(t, l2) /\ Placed(t, l2, m)
      <3> HIDE DEF l1
      <3> QED
        BY <2>1, <2>2, <1>6, <1>7, <1>9, JoinPage
    <2>6. Joined(t, s, 2)
      BY <2>5
    <2> HIDE DEF l2
    <2> QED
      BY <2>1, <2>3, <2>4, <2>5, <2>6 DEF Entered
  <1> QED
    BY <1>8, <1>9

\* One more process, one or two more early pages.
LEMMA EarlyMore ==
    ASSUME IInv, NEW s \in Scripts, NEW t, NEW k, Joined(t, s, k)
    PROVE  Cardinality(Early(t)) = Cardinality(Early(pcb)) + EarlyPages(s)
  <1> DEFINE p == PID_counter
             N == PAGE_table_size(count_lines(s))
             E == Early(pcb)
             g == <<p, 0>>
             h == <<p, 1>>
  <1>1. /\ DOMAIN t = DOMAIN pcb \cup {p}
        /\ \A q \in DOMAIN pcb : t[q] = pcb[q]
        /\ t[p].script = s
    BY DEF Joined
  <1>2. p \in Nat /\ p \notin DOMAIN pcb /\ p - 1 \in Nat /\ DOMAIN pcb \subseteq 1 .. p - 1
    BY DEF IInv
  <1>3. IsFiniteSet(E) /\ Cardinality(E) \in Nat
    BY <1>2, EarlyFinite
  <1>4. N \in Nat \ {0} /\ PagesOf(s) = 0 .. N - 1
    BY CountFacts DEF PagesOf
  <1>5. g \notin E /\ h \notin E /\ g # h
    BY <1>2 DEF Early
  <1>6. 0 \in PagesOf(s) /\ (1 \in PagesOf(s) <=> EarlyPages(s) = 2) /\ EarlyPages(s) \in {1, 2}
    BY <1>4 DEF EarlyPages
  <1>7. Early(t) = E \cup {g} \cup (IF EarlyPages(s) = 2 THEN {h} ELSE {})
    <2>1. ASSUME NEW y \in Early(t)
          PROVE  y \in E \cup {g} \cup (IF EarlyPages(s) = 2 THEN {h} ELSE {})
      <3>1. y \in (DOMAIN t) \X {0, 1} /\ y[2] \in PagesOf(t[y[1]].script)
        BY DEF Early
      <3>2. CASE y[1] \in DOMAIN pcb
        <4>1. y \in (DOMAIN pcb) \X {0, 1} /\ y[2] \in PagesOf(pcb[y[1]].script)
          BY <3>1, <3>2, <1>1
        <4> QED
          BY <4>1 DEF Early
      <3>3. CASE y[1] = p
        <4>1. y = g \/ y = h
          BY <3>1, <3>3
        <4>2. y = h => EarlyPages(s) = 2
          BY <3>1, <1>1, <1>6
        <4> QED
          BY <4>1, <4>2
      <3> QED
        BY <3>1, <3>2, <3>3, <1>1
    <2>2. ASSUME NEW y \in E
          PROVE  y \in Early(t)
      <3>1. y \in (DOMAIN pcb) \X {0, 1} /\ y[2] \in PagesOf(pcb[y[1]].script)
        BY DEF Early
      <3>2. y \in (DOMAIN t) \X {0, 1} /\ y[2] \in PagesOf(t[y[1]].script)
        BY <3>1, <1>1
      <3> QED
        BY <3>2 DEF Early
    <2>3. g \in Early(t)
      BY <1>1, <1>6 DEF Early
    <2>4. EarlyPages(s) = 2 => h \in Early(t)
      BY <1>1, <1>6 DEF Early
    <2> QED
      BY <2>1, <2>2, <2>3, <2>4
  <1> HIDE DEF E, g, h
  <1>8. IsFiniteSet(E \cup {g}) /\ Cardinality(E \cup {g}) = Cardinality(E) + 1
    BY <1>3, <1>5, FS_AddElement
  <1>9. CASE EarlyPages(s) = 1
    <2>1. Early(t) = E \cup {g}
      BY <1>7, <1>9
    <2> QED
      BY <2>1, <1>8, <1>9 DEF E
  <1>10. CASE EarlyPages(s) = 2
    <2>1. Early(t) = (E \cup {g}) \cup {h} /\ h \notin E \cup {g}
      BY <1>5, <1>7, <1>10
    <2>2. Cardinality(Early(t)) = Cardinality(E \cup {g}) + 1
      BY <2>1, <1>8, FS_AddElement
    <2>3. Cardinality(Early(t)) = Cardinality(E) + 2
      BY <2>2, <1>3, <1>8
    <2> QED
      BY <2>3, <1>10 DEF E
  <1> QED
    BY <1>6, <1>9, <1>10

\* The list of the pages that are loaded at admission, newest process first.
LEMMA EarlyList ==
    ASSUME IInv, NEW s, Descending(LRU_CACHE), NEW l, l = WithEarly(s)
    PROVE  Descending(l) /\ Len(l) = Len(LRU_CACHE) + EarlyPages(s)
  <1> DEFINE p == PID_counter
             L == LRU_CACHE
             l1 == Put(<<p, 0>>, L)
             l2 == Put(<<p, 1>>, l1)
  <1>1. p \in Nat /\ L \in Seq(Nodes) /\ Listed(pcb, L) /\ DOMAIN pcb \subseteq 1 .. p - 1
    BY InvListed DEF IInv
  <1>2. Len(L) \in Nat
    BY <1>1, LenProperties
  <1>3. \A a \in 1 .. Len(L) : L[a][1] < p /\ L[a][1] \in Nat
    <2> SUFFICES ASSUME NEW a \in 1 .. Len(L)
                 PROVE  L[a][1] < p /\ L[a][1] \in Nat
      OBVIOUS
    <2>1. L[a][1] \in DOMAIN pcb
      BY <1>1, ListTypes
    <2> QED
      BY <2>1, <1>1
  <1>4. Descending(l1)
    BY <1>1, <1>3, DescendingPut
  <1>5. <<p, 0>> \in Nodes /\ <<p, 1>> \in Nodes
    BY <1>1 DEF Nodes
  <1>6. /\ l1 \in Seq(Nodes) /\ Len(l1) = Len(L) + 1 /\ l1[1] = <<p, 0>>
        /\ \A k \in 2 .. Len(L) + 1 : l1[k] = L[k - 1]
    <2>1. l1 \in Seq(Nodes)
      BY <1>1, <1>5, FrontFacts
    <2> DEFINE x == <<p, 0>>
    <2>2. x \in Nodes /\ L \in Seq(Nodes) /\ l1 = Put(x, L)
      BY <1>1, <1>5
    <2> HIDE DEF x, L, l1
    <2>3. /\ Len(l1) = Len(L) + 1 /\ l1[1] = x
          /\ \A k \in 2 .. Len(L) + 1 : l1[k] = L[k - 1]
      BY <2>2, FrontPlaces
    <2> QED
      BY <2>1, <2>3 DEF x
  <1> HIDE DEF l1
  <1>7. ASSUME NEW a \in 1 .. Len(l1)
        PROVE  l1[a][1] < p \/ (l1[a][1] = p /\ l1[a][2] < 1)
    <2>1. CASE a = 1
      <3>1. l1[a] = <<p, 0>>
        BY <2>1, <1>6
      <3>2. l1[a][1] = p /\ l1[a][2] = 0
        BY <3>1
      <3> QED
        BY <3>2
    <2>2. CASE a # 1
      <3>1. a \in 2 .. Len(L) + 1 /\ a - 1 \in 1 .. Len(L)
        BY <2>2, <1>2, <1>6
      <3>2. l1[a] = L[a - 1]
        BY <3>1, <1>6
      <3> QED
        BY <3>1, <3>2, <1>3
    <2> QED
      BY <2>1, <2>2
  <1>8. Descending(l2)
    BY <1>1, <1>4, <1>6, <1>7, DescendingPut
  <1>9. Len(l2) = Len(L) + 2
    <2>1. Len(l2) = Len(l1) + 1
      BY <1>5, <1>6, FrontFacts
    <2> QED
      BY <2>1, <1>2, <1>6
  <1>10. EarlyPages(s) \in {1, 2}
    BY DEF EarlyPages
  <1>11. CASE EarlyPages(s) = 2
    <2>1. l = l2
      BY <1>11 DEF WithEarly, l1
    <2> HIDE DEF l2
    <2> QED
      BY <2>1, <1>8, <1>9, <1>11
  <1>12. CASE EarlyPages(s) = 1
    <2>1. l = l1
      BY <1>12 DEF WithEarly, l1
    <2> QED
      BY <2>1, <1>4, <1>6, <1>12
  <1> QED
    BY <1>10, <1>11, <1>12

\* A process is admitted.
LEMMA AdmitKeeps ==
    ASSUME AllRegular, IInv, RInv, NEW s \in Scripts, new_proc(s)
    PROVE  RInv'
  <1> DEFINE p == PID_counter
             t == pcb'
             l == LRU_CACHE'
             L == LRU_CACHE
  <1>1. /\ phase \in {"prompt", "admit"} /\ cur = Idle
        /\ \A q \in DOMAIN pcb : Done(pcb[q]) = 0
    BY DEF new_proc, RInv
  <1>2. CASE ~PCB_init(s).fits
    <2>1. phase' = "exit" /\ UNCHANGED <<pcb, QUEUE, LRU_CACHE, shellmemory, cur, ran>>
      BY <1>2 DEF new_proc
    <2> QED
      BY <2>1 DEF RInv
  <1>3. CASE PCB_init(s).fits
    <2>1. /\ phase' = "admit" /\ shellmemory' = PCB_init(s).st.mem /\ t = PCB_init(s).st.pcb
          /\ QUEUE' = Append(QUEUE, p)
          /\ l = (IF PCB_init(s).two THEN << <<p, 1>> >> ELSE << >>) \o << <<p, 0>> >> \o LRU_CACHE
          /\ ran' = [q \in DOMAIN t |-> IF q = p THEN << >> ELSE ran[q]]
          /\ cur' = cur
      BY <1>3 DEF new_proc
    <2>2. Entered(t, l, shellmemory', s)
      BY <2>1, <1>3, AdmitPages
    <2>3. /\ Joined(t, s, EarlyPages(s)) /\ l = WithEarly(s)
          /\ Listed(t, l) /\ Placed(t, l, shellmemory')
      BY <2>2 DEF Entered
    <2>4. /\ DOMAIN t = DOMAIN pcb \cup {p}
          /\ \A q \in DOMAIN pcb : t[q] = pcb[q]
          /\ t[p].script = s /\ t[p].size = count_lines(s)
          /\ ReadPages(t[p]) = EarlyPages(s)
      BY <2>3 DEF Joined
    <2>5. p \in Nat /\ p \notin DOMAIN pcb /\ DOMAIN pcb \subseteq 1 .. p - 1
      BY DEF IInv
    <2>6. \A q \in DOMAIN t : Done(t[q]) = 0
      <3>1. count_lines(s) \in Nat
        BY CountFacts
      <3>2. Done(t[p]) = 0
        BY <3>1, <2>4 DEF Done
      <3> QED
        BY <3>2, <2>4, <1>1
    <2>7. \A q \in DOMAIN t : Paced(t[q])
      <3>1. \A q \in DOMAIN pcb : Paced(pcb[q])
        BY DEF RInv, Timed
      <3>2. Paced(t[p])
        <4>1. EarlyPages(s) \in {1, 2} /\ (PAGE_table_size(count_lines(s)) >= 2 => EarlyPages(s) = 2)
          BY DEF EarlyPages
        <4>2. Done(t[p]) = 0
          BY <2>4, <2>6
        <4> QED
          BY <4>1, <4>2, <2>4 DEF Paced
      <3> QED
        BY <3>1, <3>2, <2>4
    <2>8. Unstarted(t) /\ Unstarted(pcb)
      BY <2>6, <2>7, <1>1 DEF Unstarted, RInv, Timed
    <2>9. /\ \A a \in 1 .. Len(l) : StampOf(t, l[a]) = 0
          /\ \A q \in DOMAIN t : Begins(Done(t[q]), t[q].source_file) /\ DueOf(t[q]) = 1
      BY <2>3, <2>8, FirstTurn
    <2>10. /\ \A a \in 1 .. Len(L) : StampOf(pcb, L[a]) = 0
           /\ \A q \in DOMAIN pcb : Begins(Done(pcb[q]), pcb[q].source_file) /\ DueOf(pcb[q]) = 1
      <3>1. Listed(pcb, L) /\ Placed(pcb, L, shellmemory)
        BY InvListed DEF RInv
      <3> QED
        BY <3>1, <2>8, FirstTurn
    <2>11. /\ QUEUE \in Seq(DOMAIN pcb) /\ QUEUE' \in Seq(DOMAIN t)
      <3>1. QUEUE \in Seq(DOMAIN pcb)
        BY DEF IInv
      <3>2. QUEUE \in Seq(DOMAIN t)
        BY <3>1, <2>4, SeqMonotone
      <3>3. p \in DOMAIN t
        BY <2>4
      <3> QED
        BY <3>1, <3>2, <3>3, <2>1, AppendFacts
    <2>12. Descending(L) /\ Ascending(QUEUE)
      <3>1. \A a \in 1 .. Len(QUEUE) :
               Begins(Done(pcb[QUEUE[a]]), pcb[QUEUE[a]].source_file) /\ DueOf(pcb[QUEUE[a]]) = 1
        <4>1. \A a \in 1 .. Len(QUEUE) : QUEUE[a] \in DOMAIN pcb
          BY <2>11, ElementOfSeq
        <4> QED
          BY <4>1, <2>10
      <3>2. Sorted(pcb, L) /\ InStep(pcb, QUEUE)
        BY DEF RInv, Timed
      <3> QED
        BY <3>1, <3>2, <2>10, FirstOrder
    <2>13. Descending(l) /\ Len(l) = Len(L) + EarlyPages(s)
      BY <2>3, <2>12, EarlyList
    <2>14. Ascending(QUEUE')
      <3>1. \A a \in 1 .. Len(QUEUE) : QUEUE[a] < p
        <4> SUFFICES ASSUME NEW a \in 1 .. Len(QUEUE)
                     PROVE  QUEUE[a] < p
          OBVIOUS
        <4>1. QUEUE[a] \in DOMAIN pcb
          BY <2>11, ElementOfSeq
        <4> QED
          BY <4>1, <2>5
      <3>2. QUEUE \in Seq(Nat)
        <4>1. DOMAIN pcb \subseteq Nat
          BY <2>5
        <4> QED
          BY <4>1, <2>11, SeqMonotone
      <3> QED
        BY <3>1, <3>2, <2>1, <2>5, <2>12, AscendingAppend
    <2>15. Sorted(t, l) /\ InStep(t, QUEUE') /\ UsedBefore(t, l, QUEUE')
      <3> DEFINE s2 == QUEUE'
      <3>1. \A a \in 1 .. Len(s2) :
               Begins(Done(t[s2[a]]), t[s2[a]].source_file) /\ DueOf(t[s2[a]]) = 1
        <4>1. \A a \in 1 .. Len(s2) : s2[a] \in DOMAIN t
          <5> HIDE DEF s2
          <5> QED
            BY <2>11, ElementOfSeq DEF s2
        <4> QED
          BY <4>1, <2>9
      <3>2. Descending(l) /\ Ascending(s2)
        BY <2>13, <2>14
      <3> HIDE DEF s2, l, t
      <3>3. Sorted(t, l) /\ InStep(t, s2) /\ UsedBefore(t, l, s2)
        BY <3>1, <3>2, <2>9, FirstOrder
      <3> QED
        BY <3>3 DEF s2
    <2>16. Cardinality(Early(t)) <= Len(l)
      <3>1. Cardinality(Early(t)) = Cardinality(Early(pcb)) + EarlyPages(s)
        BY <2>3, EarlyMore
      <3>2. Cardinality(Early(pcb)) <= Len(L)
        BY DEF RInv, Timed
      <3>3. Cardinality(Early(pcb)) \in Nat
        <4>1. p - 1 \in Nat
          BY DEF IInv
        <4> QED
          BY <4>1, <2>5, EarlyFinite
      <3>4. Len(L) \in Nat
        <4>1. L \in Seq(Nodes)
          BY DEF IInv
        <4> QED
          BY <4>1, LenProperties
      <3>5. EarlyPages(s) \in {1, 2}
        BY DEF EarlyPages
      <3> QED
        BY <3>1, <3>2, <3>3, <3>4, <3>5, <2>13
    <2>17. Timed(t, l, QUEUE', cur')
      BY <2>1, <2>7, <2>15, <2>16, <1>1 DEF Timed, OnTurn
    <2>18. Told(t, ran')
      <3>1. Told(pcb, ran)
        BY DEF RInv
      <3>2. << >> \in Seq(Nodes) /\ Len(<< >>) = 0 /\ 1 .. 0 = {}
        OBVIOUS
      <3>3. ran'[p] = << >> /\ \A q \in DOMAIN pcb : ran'[q] = ran[q]
        BY <2>1, <2>4, <2>5
      <3> QED
        BY <3>1, <3>2, <3>3, <2>4, <2>6 DEF Told
    <2> QED
      BY <2>1, <2>3, <2>6, <2>17, <2>18, <1>1 DEF RInv
  <1> QED
    BY <1>2, <1>3

-----------------------------------------------------------------------------
\* The invariant of regular scripts.

LEMMA RunKeeps ==
    ASSUME AllRegular, IInv, RInv, IInv', run_proc
    PROVE  /\ RInv' /\ phase' = phase
           /\ LeavesEnded(pcb, LRU_CACHE, LRU_CACHE')
  <1>1. PICK f \in {Fetch} : HandleFault(f) \/ HandleLine(f)
    BY DEF run_proc
  <1>2. cur # Idle /\ phase = "rr" /\ f = Fetch
    BY DEF run_proc
  <1>3. /\ Placed(pcb', LRU_CACHE', shellmemory')
        /\ Timed(pcb', LRU_CACHE', QUEUE', cur')
        /\ Told(pcb', ran') /\ phase' = phase
        /\ LeavesEnded(pcb, LRU_CACHE, LRU_CACHE')
    BY <1>1, <1>2, FaultKeeps, LineKeeps
  <1> QED
    BY <1>2, <1>3 DEF RInv

LEMMA RInvNext == AllRegular /\ IInv /\ RInv /\ [Next]_vars => RInv'
  <1> SUFFICES ASSUME AllRegular, IInv, RInv, [Next]_vars
               PROVE  RInv'
    OBVIOUS
  <1>1. IInv'
    BY InvNext
  <1>2. Listed(pcb, LRU_CACHE) /\ Placed(pcb, LRU_CACHE, shellmemory) /\ GoodMemory(shellmemory)
    BY InvListed DEF RInv, IInv
  <1>3. ASSUME NEW v \in VarNames, NEW x \in VarValues, set(v, x)
        PROVE  RInv'
    <2>1. /\ shellmemory' = mem_set_value(shellmemory, v, x)
          /\ UNCHANGED <<phase, PID_counter, pcb, QUEUE, LRU_CACHE, cur, ran>>
      BY <1>3 DEF set
    <2>2. \A q \in 0 .. FrameStore - 1 : shellmemory'[q] = shellmemory[q]
      BY <2>1, <1>2, SetFrames
    <2>3. Placed(pcb, LRU_CACHE, shellmemory')
      BY <2>2, <1>2, SameFrameMemory
    <2> QED
      BY <2>1, <2>3 DEF RInv
  <1>4. CASE resetmem
    <2>1. /\ shellmemory' = mem_free(shellmemory, VarZone)
          /\ UNCHANGED <<phase, PID_counter, pcb, QUEUE, LRU_CACHE, cur, ran>>
      BY <1>4 DEF resetmem
    <2>2. \A q \in 0 .. FrameStore - 1 : shellmemory'[q] = shellmemory[q]
      <3>1. \A q \in 0 .. FrameStore - 1 : q \in Memory /\ q \notin VarZone
        BY StoreAssumption DEF Memory, VarZone
      <3> QED
        BY <3>1, <2>1, <1>2, FreeMemory
    <2>3. Placed(pcb, LRU_CACHE, shellmemory')
      BY <2>2, <1>2, SameFrameMemory
    <2> QED
      BY <2>1, <2>3 DEF RInv
  <1>5. ASSUME NEW s \in Scripts, new_proc(s)
        PROVE  RInv'
    BY <1>5, AdmitKeeps
  <1>6. CASE FileNotFound
    BY <1>6 DEF FileNotFound, RInv
  <1>7. CASE StartRR
    BY <1>7 DEF StartRR, RInv
  <1>8. CASE TakeTurn
    <2>1. Timed(pcb, LRU_CACHE, QUEUE', cur')
      BY <1>8, TurnKeeps
    <2> QED
      BY <2>1, <1>8 DEF TakeTurn, RInv
  <1>9. CASE run_proc
    BY <1>1, <1>9, RunKeeps
  <1>10. CASE FreeAll
    BY <1>10, FreeKeeps
  <1>11. CASE UNCHANGED vars
    BY <1>11 DEF vars, RInv
  <1> QED
    BY <1>3, <1>4, <1>5, <1>6, <1>7, <1>8, <1>9, <1>10, <1>11 DEF Next

LEMMA RInvariance ==
    ASSUME AllRegular
    PROVE  Spec => [](IInv /\ RInv)
  <1>1. Init => IInv /\ RInv
    BY InvInit, RInvInit
  <1>2. IInv /\ RInv /\ [Next]_vars => IInv' /\ RInv'
    BY InvNext, RInvNext
  <1> QED
    BY <1>1, <1>2, PTL DEF Spec

-----------------------------------------------------------------------------
\* Theorems about regular scripts.

Positions(b) == {b + j : j \in Lines}

\* The positions of a page of the list are its frame.
LEMMA FrameOfNode ==
    ASSUME IInv, RInv, NEW a \in 1 .. Len(LRU_CACHE), NEW g, g = LRU_CACHE[a],
           NEW b, b = StartOf(pcb, g)
    PROVE  /\ b \in 0 .. FrameStore - 3 /\ FrameOf(g) = Positions(b)
           /\ \A j \in Lines : shellmemory[b + j].var = g[1]
  <1>1. Listed(pcb, LRU_CACHE) /\ Placed(pcb, LRU_CACHE, shellmemory)
    BY InvListed DEF RInv
  <1>2. b \in 0 .. FrameStore - 3 /\ InFrame(pcb[g[1]], shellmemory, g[1], g[2], b)
    BY <1>1, NodeFrame
  <1>3. b \in Nat /\ pcb[g[1]].index[g[2]] = FrameAt(b)
    BY <1>2, StoreAssumption DEF InFrame
  <1>4. \A j \in 0 .. 2 : pcb[g[1]].index[g[2]][j] = b + j
    BY <1>3, FrameAtFacts DEF Lines
  <1>5. FrameOf(g) = Positions(b)
    BY <1>4 DEF FrameOf, Lines, Positions
  <1> QED
    BY <1>2, <1>5 DEF InFrame

LEMMA RInvOwned == IInv /\ RInv => FrameOwnership
  <1> SUFFICES ASSUME IInv, RInv
               PROVE  FrameOwnership
    OBVIOUS
  <1> DEFINE l == LRU_CACHE
  <1>1. Apart(pcb, l) /\ Covered(pcb, l, shellmemory)
    BY DEF RInv, Placed
  <1>2. ASSUME NEW a \in 1 .. Len(l), NEW b \in 1 .. Len(l), a # b
        PROVE  FrameOf(l[a]) \cap FrameOf(l[b]) = {}
    <2> DEFINE x == StartOf(pcb, l[a])
               y == StartOf(pcb, l[b])
    <2>1. /\ x \in 0 .. FrameStore - 3 /\ FrameOf(l[a]) = Positions(x)
          /\ y \in 0 .. FrameStore - 3 /\ FrameOf(l[b]) = Positions(y)
      BY FrameOfNode
    <2>2. x + 3 <= y \/ y + 3 <= x
      BY <1>1, <1>2 DEF Apart
    <2> HIDE DEF x, y
    <2>3. x \in Int /\ y \in Int
      BY <2>1
    <2> QED
      BY <2>1, <2>2, <2>3 DEF Lines, Positions
  <1>3. ASSUME NEW a \in 1 .. Len(l), NEW q \in FrameOf(l[a])
        PROVE  shellmemory[q].var = l[a][1]
    <2> DEFINE x == StartOf(pcb, l[a])
    <2>1. FrameOf(l[a]) = Positions(x) /\ \A j \in Lines : shellmemory[x + j].var = l[a][1]
      BY FrameOfNode
    <2> HIDE DEF x
    <2> QED
      BY <2>1, <1>3 DEF Positions
  <1>4. ASSUME NEW q \in 0 .. FrameStore - 1, shellmemory[q].var # None
        PROVE  \E a \in 1 .. Len(l) : q \in FrameOf(l[a])
    <2>1. PICK a \in 1 .. Len(l) : q - StartOf(pcb, l[a]) \in Lines
      BY <1>1, <1>4 DEF Covered
    <2> DEFINE x == StartOf(pcb, l[a])
               j == q - x
    <2>2. x \in 0 .. FrameStore - 3 /\ FrameOf(l[a]) = Positions(x)
      BY FrameOfNode
    <2>3. q = x + j
      <3> HIDE DEF x
      <3> QED
        BY <2>2, StoreAssumption
    <2>4. j \in Lines
      BY <2>1
    <2> HIDE DEF j, x
    <2> QED
      BY <2>2, <2>3, <2>4 DEF Positions
  <1> QED
    BY <1>2, <1>3, <1>4 DEF FrameOwnership

\* With scripts whose lines are all there and do not return 1, the LRU list and
\* the frame store agree at every moment, whatever is evicted: pages in the list
\* have frames of their own, and every occupied frame is that of a page of the
\* list.
THEOREM FramesOwned ==
    ASSUME AllRegular
    PROVE  Spec => []FrameOwnership
  BY RInvOwned, RInvariance, PTL

\* A process that is done has executed all the lines that were counted.
LEMMA DoneAll ==
    ASSUME IInv, NEW p \in DOMAIN pcb, pcb[p].size = 0 \/ PCB_done(p)
    PROVE  Done(pcb[p]) = count_lines(pcb[p].script)
  <1> DEFINE r == pcb[p]
             n == count_lines(r.script)
             N == PAGE_table_size(n)
  <1>1. r.script \in Scripts /\ r \in PCBs(r.script) /\ Progress(r) /\ GoodRow(r)
    BY DEF IInv, Good, GoodRow
  <1>2. n \in Nat \ {0} /\ N \in Nat \ {0} /\ 3 * N >= n
    BY <1>1, CountFacts
  <1>3. Done(r) \in Nat /\ r.size \in Nat /\ Done(r) + r.size = n
    BY <1>1, RowTypes
  <1>4. CASE r.size = 0
    BY <1>3, <1>4
  <1>5. CASE PCB_done(p)
    <2>1. N - 1 \in PagesOf(r.script) /\ N - 1 \in Nat
      BY <1>2 DEF PagesOf
    <2>2. r.program_counter[N - 1] = Counter(N - 1, Done(r))
      BY <2>1, <1>1 DEF Progress, Done
    <2>3. N - 1 \in Pages(p)
      BY <2>1, <1>1 DEF PCBs, Pages
    <2>4. Counter(N - 1, Done(r)) = 3
      BY <2>2, <2>3, <1>5 DEF PCB_done
    <2> HIDE DEF N, n
    <2>5. Done(r) >= 3 * (N - 1) + 3
      BY <2>4, <1>2, <1>3 DEF Counter
    <2> QED
      BY <2>5, <1>2, <1>3 DEF n
  <1> QED
    BY <1>4, <1>5

LEMMA RInvRuns ==
    ASSUME AllCounted, IInv, RInv
    PROVE  RunsScripts
  <1>1. Told(pcb, ran) /\ DOMAIN ran = DOMAIN pcb
    BY DEF IInv, RInv
  <1>2. OwnLinesInOrder
    BY <1>1 DEF OwnLinesInOrder, Told
  <1>3. ASSUME cur = Idle, queue_done, NEW p \in DOMAIN pcb
        PROVE  Len(ran[p]) = Len(pcb[p].script.lines)
    <2>1. pcb[p].size = 0 \/ Has(QUEUE, p)
      BY <1>3 DEF IInv, Scheduled
    <2>2. pcb[p].size = 0 \/ PCB_done(p)
      BY <2>1, <1>3 DEF Has, queue_done
    <2>3. Done(pcb[p]) = count_lines(pcb[p].script)
      BY <2>2, DoneAll
    <2>4. pcb[p].script \in Scripts
      BY DEF IInv, Good, GoodRow
    <2> QED
      BY <2>3, <2>4, <1>1 DEF AllCounted, Told
  <1>4. AllLinesRun
    BY <1>3 DEF AllLinesRun
  <1> QED
    BY <1>2, <1>4 DEF RunsScripts

\* Every script is executed from its first line to its last, in order, whatever
\* the number of frames and of processes and the lengths of the scripts, if its
\* lines are all counted and do not return 1: the page that is evicted is never
\* needed again, although load_PAGE could not bring it back.
THEOREM ScriptsRun ==
    ASSUME AllRegular, AllCounted
    PROVE  Spec => []RunsScripts
  BY RInvRuns, RInvariance, PTL

\* A page that is not needed any more has no line left.
LEMMA EndedCounter ==
    ASSUME NEW r, GoodRow(r), NEW i \in PagesOf(r.script), Ended(r, i)
    PROVE  r.program_counter[i] = 3 \/ r.size = 0
  <1>1. r.program_counter[i] = Counter(i, Done(r))
    BY DEF GoodRow, Progress, Done
  <1> QED
    BY <1>1 DEF Ended, Counter

\* The page run_proc evicts is one whose lines have all been executed, or one of
\* a process that has ended: with regular scripts the list is sorted by the
\* turns in which the pages were used, and no unfinished page can be at its end
\* when another is needed.
THEOREM EvictsFinished ==
    ASSUME AllRegular
    PROVE  Spec => EvictsOnlyFinished
  <1> DEFINE Fine(a) == LET p == LRU_CACHE[a][1]
                            i == LRU_CACHE[a][2]
                        IN  /\ p \in DOMAIN pcb'
                            /\ \A b \in 1 .. Len(LRU_CACHE') : LRU_CACHE'[b] # LRU_CACHE[a]
                            => pcb[p].program_counter[i] = 3 \/ pcb[p].size = 0
  <1>1. ASSUME IInv, RInv, [Next]_vars, NEW a \in 1 .. Len(LRU_CACHE)
        PROVE  Fine(a)
    <2>1. IInv'
      BY <1>1, InvNext
    <2>2. ASSUME Has(LRU_CACHE', LRU_CACHE[a])
          PROVE  Fine(a)
      BY <2>2 DEF Has
    <2>3. CASE LRU_CACHE' = LRU_CACHE
      BY <2>2, <2>3 DEF Has
    <2>4. ASSUME NEW s \in Scripts, new_proc(s)
          PROVE  Fine(a)
      <3>1. CASE ~PCB_init(s).fits
        BY <3>1, <2>3, <2>4 DEF new_proc
      <3>2. CASE PCB_init(s).fits
        <4>1. Entered(pcb', LRU_CACHE', shellmemory', s)
          BY <3>2, <2>4, <1>1, AdmitPages DEF new_proc
        <4>2. LRU_CACHE' = WithEarly(s)
          BY <4>1 DEF Entered
        <4>3. /\ LRU_CACHE \in Seq(Nodes) /\ <<PID_counter, 0>> \in Nodes
              /\ <<PID_counter, 1>> \in Nodes /\ Has(LRU_CACHE, LRU_CACHE[a])
          BY <1>1 DEF IInv, Nodes, Has
        <4> DEFINE l1 == Put(<<PID_counter, 0>>, LRU_CACHE)
                   l2 == Put(<<PID_counter, 1>>, l1)
        <4>4. l1 \in Seq(Nodes) /\ Has(l1, LRU_CACHE[a])
          BY <4>3, FrontFacts
        <4> HIDE DEF l1
        <4>5. Has(l2, LRU_CACHE[a])
          BY <4>3, <4>4, FrontFacts
        <4> QED
          BY <4>2, <4>4, <4>5, <2>2 DEF WithEarly, l1
      <3> QED
        BY <3>1, <3>2
    <2>5. CASE run_proc
      <3>1. LeavesEnded(pcb, LRU_CACHE, LRU_CACHE')
        BY <2>1, <2>5, <1>1, RunKeeps
      <3>2. CASE Has(LRU_CACHE', LRU_CACHE[a])
        BY <3>2, <2>2
      <3>3. CASE Ended(pcb[LRU_CACHE[a][1]], LRU_CACHE[a][2])
        <4>1. /\ GoodRow(pcb[LRU_CACHE[a][1]])
              /\ LRU_CACHE[a][2] \in PagesOf(pcb[LRU_CACHE[a][1]].script)
          BY <1>1, InvListed, ListTypes
        <4> QED
          BY <4>1, <3>3, EndedCounter
      <3> QED
        BY <3>1, <3>2, <3>3 DEF LeavesEnded
    <2>6. CASE FreeAll
      <3>1. pcb' = << >> /\ DOMAIN << >> = {}
        BY <2>6 DEF FreeAll
      <3> QED
        BY <3>1
    <2> QED
      BY <2>3, <2>4, <2>5, <2>6, <1>1
         DEF Next, vars, set, resetmem, FileNotFound, StartRR, TakeTurn
  <1>2. IInv /\ RInv /\ [Next]_vars => [\A a \in 1 .. Len(LRU_CACHE) : Fine(a)]_vars
    BY <1>1
  <1> QED
    BY <1>2, RInvariance, PTL DEF Spec, EvictsOnlyFinished

\* Nothing is read or written outside shellmemory, and the lists always hold what
\* run_proc takes from them, whatever the number of frames, if the scripts are
\* regular; the release of the processes needs the two positions behind the last
\* frame.
THEOREM Defined ==
    ASSUME AllRegular, VarStore >= 2
    PROVE  Spec => [](phase # "undefined") /\ StaysDefined
  <1>1. ASSUME IInv, RInv, [Next]_vars, phase # "undefined"
        PROVE  phase' # "undefined"
    <2>1. IInv'
      BY <1>1, InvNext
    <2>2. CASE run_proc
      BY <2>1, <2>2, <1>1, RunKeeps
    <2>3. CASE UNCHANGED vars
      BY <2>3, <1>1 DEF vars
    <2>4. CASE FreeAll
      BY <2>4, <1>1, ReleaseStep
    <2>5. CASE \E s \in Scripts : new_proc(s)
      BY <2>5 DEF new_proc
    <2> QED
      BY <2>2, <2>3, <2>4, <2>5, <1>1 DEF Next, set, resetmem, FileNotFound, StartRR, TakeTurn
  <1> DEFINE Safe == phase # "undefined"
  <1>2. Init => Safe
    BY DEF Init
  <1>3. IInv /\ RInv /\ [Next]_vars /\ Safe => Safe'
    BY <1>1
  <1>4. [](IInv /\ Safe) => [][TypeOK' /\ ListsServe' /\ Safe']_vars
    <2>1. IInv /\ Safe => TypeOK /\ ListsServe /\ Safe
      BY InvType, InvLists
    <2> HIDE DEF Safe
    <2> QED
      BY <2>1, PTL
  <1>5. [][TypeOK' /\ ListsServe' /\ Safe']_vars => StaysDefined
    <2>1. [TypeOK' /\ ListsServe' /\ Safe']_vars
             => [/\ TypeOK' /\ ListsServe'
                 /\ phase # "undefined" /\ phase' = "undefined"
                       => \E p \in DOMAIN pcb : ~Regular(pcb[p].script)]_vars
      OBVIOUS
    <2> QED
      BY <2>1, PTL DEF StaysDefined
  <1>6. Spec => []IInv /\ []Safe
    <2> HIDE DEF Safe
    <2> QED
      BY <1>2, <1>3, RInvariance, PTL DEF Spec
  <1> QED
    BY <1>4, <1>5, <1>6, PTL DEF Safe
=============================================================================
