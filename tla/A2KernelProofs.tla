--------------------------- MODULE A2KernelProofs ---------------------------
(***************************************************************************)
(* Proofs about the a2 process kernel, for every size of the frame store   *)
(* and every set of scripts.  The operators that load, evict and execute   *)
(* work on a record of the kernel's state, so the inductive invariant is a *)
(* predicate on that record, kept by every one of them.  The last part is  *)
(* about round robin: no page is taken that its process still needs.       *)
(***************************************************************************)
EXTENDS A2Kernel, NatLemmas, SequenceTheorems

Cell == [line : Nat \X Nat, accessed : Nat, age : Nat]

Scripts == {Programs[n] : n \in DOMAIN Programs}

PCB == [prog : Scripts, PC : 0 .. FrameStore,
        currentPage : Nat, currentLine : 0 .. 2, pageCounter : Nat]

\* What load_file and execute_process agree on: the page of a process is loaded, up
\* to its end and with the pages counted after it, or it is the next one to load
\* and stands at its first line.
InPage(c) ==
    /\ c.currentPage <= c.pageCounter + 1
    /\ c.currentPage > c.pageCounter => c.currentLine = 0
    /\ c.currentPage <= c.pageCounter =>
          c.PC - c.currentLine + 3 * (c.pageCounter - c.currentPage + 1) <= FrameStore

\* A line in memory is a line of a script that has a PCB.
LineOf(st, q) ==
    st.mem[q].line = NoLine
    \/ /\ st.mem[q].line[1] \in DOMAIN st.pcb
       /\ st.mem[q].line[2] \in 1 .. Len(st.pcb[st.mem[q].line[1]].prog.lines)

\* The memory of the record and its clock.
MemInv(st) ==
    /\ st.time \in Nat
    /\ st.mem \in [0 .. FrameStore - 1 -> Cell]
    /\ \A q \in 0 .. FrameStore - 1 : /\ st.mem[q].age <= st.mem[q].accessed
                                      /\ st.mem[q].accessed <= st.time
                                      /\ LineOf(st, q)

\* The processes of the record, of which those in done have ended.
PcbInv(st, done) ==
    /\ st.pid \in Nat \ {0}
    /\ DOMAIN st.pcb \subseteq 1 .. st.pid - 1
    /\ st.pcb \in [DOMAIN st.pcb -> PCB]
    /\ DOMAIN st.ran = DOMAIN st.pcb
    /\ st.ran = [p \in DOMAIN st.ran |-> st.ran[p]]
    /\ \A p \in DOMAIN st.pcb \ done : InPage(st.pcb[p])

\* Each process is in the ready queue at most once.
ReadyInv(st, done) ==
    /\ st.ready \in Seq(DOMAIN st.pcb \ done)
    /\ \A i, j \in 1 .. Len(st.ready) : st.ready[i] = st.ready[j] => i = j

IsState(st) == st = [mem |-> st.mem, time |-> st.time, pcb |-> st.pcb,
                     ready |-> st.ready, pid |-> st.pid, ran |-> st.ran]

StInv(st, done) == IsState(st) /\ MemInv(st) /\ PcbInv(st, done) /\ ReadyInv(st, done)

NotReady(p, st) == \A i \in 1 .. Len(st.ready) : st.ready[i] # p

\* The inductive invariant.
IInv ==
    /\ StInv(State, ended)
    /\ phase \in Phases
    /\ admitted \in 0 .. 3
    /\ ended \subseteq DOMAIN pcb
    /\ cur \in [pid : Nat, left : Int]
    /\ cur # Idle => cur.pid \in DOMAIN pcb \ ended /\ NotReady(cur.pid, State)

-----------------------------------------------------------------------------
\* What the searches return.

\* The least element of a set of natural numbers.
LEMMA LeastFacts ==
    ASSUME NEW S \in SUBSET Nat, S # {}
    PROVE  Least(S) \in S /\ \A m \in S : Least(S) <= m
  BY LeastNat DEF Least

\* A frame starts at a multiple of three and ends in the frame store.
LEMMA FrameFacts ==
    ASSUME NEW b \in Frames
    PROVE  b \in Nat /\ b % 3 = 0 /\ b + 3 <= FrameStore
  <1>1. PICK k \in 0 .. FrameStore \div 3 - 1 : b = 3 * k
    BY DEF Frames
  <1> QED
    BY <1>1, FrameAssumption

\* The first free frame is a free frame, and no free frame is before it.
LEMMA SlotFacts ==
    ASSUME NEW mem, FreeSlots(mem) # {}
    PROVE  /\ find_available_slot(mem) \in FreeSlots(mem)
           /\ find_available_slot(mem) \in Frames
           /\ \A c \in FreeSlots(mem) : find_available_slot(mem) <= c
  <1>1. FreeSlots(mem) \in SUBSET Nat
    BY FrameFacts DEF FreeSlots
  <1>2. find_available_slot(mem) \in FreeSlots(mem)
    BY <1>1, LeastFacts DEF find_available_slot
  <1> QED
    BY <1>1, <1>2, LeastFacts DEF find_available_slot, FreeSlots

\* The victim is -1 or a frame.
LEMMA VictimFacts ==
    ASSUME NEW mem
    PROVE  find_replacement_slot(mem) \in Frames \cup {-1}
  <1> DEFINE L == {b \in Frames : /\ mem[b].accessed < HighValue
                                  /\ \A c \in Frames : mem[b].accessed <= mem[c].accessed}
             F == {b \in Frames : /\ mem[b].age < HighValue
                                  /\ \A c \in Frames : mem[b].age <= mem[c].age}
  <1>1. L \in SUBSET Nat /\ F \in SUBSET Nat
    BY FrameFacts
  <1>2. L # {} => Least(L) \in L
    BY <1>1, LeastFacts
  <1>3. F # {} => Least(F) \in F
    BY <1>1, LeastFacts
  <1>4. find_lru_slot(mem) = IF L = {} THEN -1 ELSE Least(L)
    BY DEF find_lru_slot
  <1>5. find_fifo_slot(mem) = IF F = {} THEN -1 ELSE Least(F)
    BY DEF find_fifo_slot
  <1>6. L \subseteq Frames /\ F \subseteq Frames
    OBVIOUS
  <1> HIDE DEF L, F
  <1> QED
    BY <1>2, <1>3, <1>4, <1>5, <1>6 DEF find_replacement_slot

\* The number of lines load_file reads.
LEMMA LoadedFacts ==
    ASSUME NEW n \in DOMAIN Programs, NEW b \in Frames
    PROVE  /\ Len(Programs[n].lines) \in Nat
           /\ LinesLoaded(Programs[n], b) \in Nat
           /\ LinesLoaded(Programs[n], b) <= Len(Programs[n].lines)
           /\ LinesLoaded(Programs[n], b) <= FrameStore - b
           /\ LinesLoaded(Programs[n], b) \in {6, Len(Programs[n].lines), FrameStore - b}
           /\ PagesCounted(Programs[n], LinesLoaded(Programs[n], b)) \in Nat
           /\ b + 3 * PagesCounted(Programs[n], LinesLoaded(Programs[n], b)) <= FrameStore
  <1> DEFINE m == LinesLoaded(Programs[n], b)
             len == Len(Programs[n].lines)
  <1>1. len \in Nat
    BY ProgramAssumption
  <1>2. b \in Nat /\ b % 3 = 0 /\ b + 3 <= FrameStore
    BY FrameFacts
  <1>3. {6, len, FrameStore - b} \in SUBSET Nat
    BY <1>1, <1>2, FrameAssumption
  <1>4. m \in {6, len, FrameStore - b} /\ m <= len /\ m <= FrameStore - b
    <2>1. m = Least({6, len, FrameStore - b})
      BY DEF LinesLoaded
    <2> HIDE DEF m, len
    <2> QED
      BY <2>1, <1>3, LeastFacts
  <1>5. m \in Nat
    BY <1>3, <1>4
  <1>6. PagesCounted(Programs[n], m) \in Nat /\ 3 * PagesCounted(Programs[n], m) <= m + 2
        /\ (3 * PagesCounted(Programs[n], m)) % 3 = 0
    <2> HIDE DEF m
    <2> QED
      BY <1>5 DEF PagesCounted
  <1>7. b + 3 * PagesCounted(Programs[n], m) <= FrameStore
    <2> DEFINE w == PagesCounted(Programs[n], m)
    <2> HIDE DEF w, m
    <2>1. w \in Nat /\ 3 * w <= m + 2 /\ m <= FrameStore - b /\ m \in Nat
      BY <1>4, <1>5, <1>6 DEF w
    <2>2. b + 3 * w <= FrameStore + 2
      BY <2>1, <1>2, FrameAssumption
    <2>3. (b + 3 * w) % 3 = 0
      BY <2>1, <1>2
    <2> QED
      BY <2>1, <2>2, <2>3, <1>2, FrameAssumption DEF w
  <1> QED
    BY <1>1, <1>4, <1>5, <1>6, <1>7

-----------------------------------------------------------------------------
\* What the operators on the state record keep.

\* Len of a script in memory.
LEMMA ScriptLen ==
    ASSUME NEW c \in PCB
    PROVE  /\ c.prog.lines \in Seq(DOMAIN Programs \cup {Plain})
           /\ Len(c.prog.lines) \in Nat
           /\ c.prog.nl \in BOOLEAN
           /\ \E n \in DOMAIN Programs : c.prog = Programs[n]
  <1>1. PICK n \in DOMAIN Programs : c.prog = Programs[n]
    BY DEF PCB, Scripts
  <1> QED
    BY <1>1, ProgramAssumption

\* Storing lines of a script that has a PCB keeps the memory well formed.
LEMMA StoredKeeps ==
    ASSUME NEW st, MemInv(st), NEW st1,
           NEW p \in DOMAIN st1.pcb, p \in Nat,
           NEW b \in Nat, NEW k \in Nat, NEW n \in Nat,
           st1.mem = Stored(st.mem, st.time, p, b, k, n),
           st1.time = st.time + n,
           DOMAIN st.pcb \subseteq DOMAIN st1.pcb,
           \A r \in DOMAIN st.pcb : st1.pcb[r].prog = st.pcb[r].prog,
           Len(st1.pcb[p].prog.lines) \in Nat,
           k + n <= Len(st1.pcb[p].prog.lines)
    PROVE  MemInv(st1)
  <1> DEFINE Q == 0 .. FrameStore - 1
  <1>0. Q \subseteq Int
    BY FrameAssumption
  <1>1. /\ st.time \in Nat
        /\ st.mem \in [Q -> Cell]
        /\ DOMAIN st.mem = Q
    BY DEF MemInv
  <1>2. \A q \in Q : /\ st.mem[q] \in Cell
                     /\ st.mem[q].age <= st.mem[q].accessed
                     /\ st.mem[q].accessed <= st.time
                     /\ st.mem[q].accessed \in Nat
                     /\ LineOf(st, q)
    BY <1>1 DEF MemInv, Cell
  <1>3. ASSUME NEW q \in Q, q - b \in 0 .. n - 1
        PROVE  st1.mem[q] = [line |-> <<p, k + (q - b) + 1>>, accessed |-> st.time + (q - b) + 1,
                             age |-> st.time + (q - b) + 1]
    BY <1>1, <1>3 DEF Stored
  <1>4. ASSUME NEW q \in Q, ~(q - b \in 0 .. n - 1)
        PROVE  st1.mem[q] = st.mem[q]
    BY <1>1, <1>4 DEF Stored
  <1>5. st1.time \in Nat
    BY <1>1
  <1>6. ASSUME NEW q \in Q
        PROVE  /\ st1.mem[q] \in Cell
               /\ st1.mem[q].age <= st1.mem[q].accessed
               /\ st1.mem[q].accessed <= st1.time
               /\ LineOf(st1, q)
    <2>1. CASE q - b \in 0 .. n - 1
      <3> DEFINE d == q - b
      <3>1. d \in Nat /\ d + 1 <= n
        BY <2>1, <1>0
      <3> HIDE DEF d
      <3>2. st1.mem[q] = [line |-> <<p, k + d + 1>>, accessed |-> st.time + d + 1,
                          age |-> st.time + d + 1]
        BY <2>1, <1>3 DEF d
      <3>3. LineOf(st1, q)
        BY <3>1, <3>2 DEF LineOf
      <3> QED
        BY <3>1, <3>2, <3>3, <1>1 DEF Cell
    <2>2. CASE ~(q - b \in 0 .. n - 1)
      <3>1. st1.mem[q] = st.mem[q]
        BY <2>2, <1>4
      <3>2. LineOf(st1, q)
        BY <3>1, <1>2 DEF LineOf
      <3> QED
        BY <3>1, <3>2, <1>1, <1>2
    <2> QED
      BY <2>1, <2>2
  <1>7. st1.mem \in [Q -> Cell]
    BY <1>1, <1>6 DEF Stored
  <1> QED
    BY <1>5, <1>6, <1>7 DEF MemInv

\* Admitting a script keeps the state well formed, and the process that is
\* executing stays out of the ready queue.
LEMMA InitializeKeeps ==
    ASSUME NEW st, NEW done, StInv(st, done), done \subseteq DOMAIN st.pcb,
           NEW name \in DOMAIN Programs
    PROVE  LET st1 == process_initialize(st, name)
           IN  /\ StInv(st1, done)
               /\ DOMAIN st.pcb \subseteq DOMAIN st1.pcb
               /\ \A p \in DOMAIN st.pcb : /\ st1.pcb[p] = st.pcb[p]
                                           /\ NotReady(p, st) => NotReady(p, st1)
  <1> DEFINE st1 == process_initialize(st, name)
             p == st.pid
             prog == Programs[name]
             b == find_available_slot(st.mem)
             n == LinesLoaded(prog, b)
             c == [prog |-> prog, PC |-> b, currentPage |-> 1,
                   currentLine |-> 0, pageCounter |-> PagesCounted(prog, n)]
  <1>0. IsState(st) /\ MemInv(st) /\ PcbInv(st, done) /\ ReadyInv(st, done)
    BY DEF StInv
  <1>1. CASE ~Loads(st)
    <2>1. st1 = [st EXCEPT !.pid = @ + 1]
      BY <1>1 DEF process_initialize, copyScript
    <2>2. /\ IsState(st1) /\ st1.mem = st.mem /\ st1.time = st.time /\ st1.pcb = st.pcb
          /\ st1.ready = st.ready /\ st1.pid = st.pid + 1 /\ st1.ran = st.ran
      BY <2>1, <1>0 DEF IsState
    <2> HIDE DEF st1
    <2>3. MemInv(st1)
      BY <2>2, <1>0 DEF MemInv, LineOf
    <2>4. PcbInv(st1, done)
      BY <2>2, <1>0 DEF PcbInv
    <2>5. ReadyInv(st1, done)
      BY <2>2, <1>0 DEF ReadyInv
    <2>6. DOMAIN st.pcb \subseteq DOMAIN st1.pcb
          /\ \A r \in DOMAIN st.pcb : /\ st1.pcb[r] = st.pcb[r]
                                      /\ NotReady(r, st) => NotReady(r, st1)
      BY <2>2 DEF NotReady
    <2> QED
      BY <2>2, <2>3, <2>4, <2>5, <2>6 DEF StInv, st1
  <1>2. CASE Loads(st)
    <2>1. st1 = load_file([st EXCEPT !.pid = @ + 1], p, prog)
      BY <1>2 DEF process_initialize, copyScript
    <2>2. /\ IsState(st1) /\ st1.mem = Stored(st.mem, st.time, p, b, 0, n)
          /\ st1.time = st.time + n /\ st1.pcb = Put(st.pcb, p, c)
          /\ st1.ready = Append(st.ready, p) /\ st1.pid = st.pid + 1
          /\ st1.ran = Put(st.ran, p, << >>)
      BY <2>1, <1>0 DEF IsState, load_file
    <2>3. b \in Frames
      BY <1>2, SlotFacts DEF Loads
    <2>4. b \in Nat /\ b + 3 <= FrameStore
      BY <2>3, FrameFacts
    <2> HIDE DEF st1, b
    <2>5. /\ Len(prog.lines) \in Nat /\ n \in Nat /\ n <= Len(prog.lines)
          /\ PagesCounted(prog, n) \in Nat
          /\ b + 3 * PagesCounted(prog, n) <= FrameStore
      BY <2>3, LoadedFacts
    <2>6. p \in Nat /\ p # 0 /\ p \notin DOMAIN st.pcb
      BY <1>0 DEF PcbInv
    <2> HIDE DEF p, n
    <2>7. c \in PCB
      BY <2>4, <2>5, FrameAssumption DEF PCB, Scripts
    <2>8. InPage(c)
      <3> DEFINE pc == PagesCounted(prog, n)
      <3>1. /\ c.currentPage = 1 /\ c.currentLine = 0 /\ c.PC = b /\ c.pageCounter = pc
        OBVIOUS
      <3> HIDE DEF pc
      <3>2. pc \in Nat /\ b + 3 * pc <= FrameStore
        BY <2>5 DEF pc
      <3> HIDE DEF c
      <3> QED
        BY <3>1, <3>2, <2>4, FrameAssumption DEF InPage
    <2>9. c.prog = prog
      OBVIOUS
    <2> HIDE DEF c, prog
    <2>10. /\ DOMAIN st1.pcb = DOMAIN st.pcb \cup {p}
           /\ st1.pcb[p] = c
           /\ \A r \in DOMAIN st.pcb : st1.pcb[r] = st.pcb[r]
      BY <2>2, <2>6 DEF Put
    <2>11. MemInv(st1)
      <3>1. 0 + n <= Len(st1.pcb[p].prog.lines)
        BY <2>5, <2>9, <2>10
      <3>2. p \in DOMAIN st1.pcb /\ DOMAIN st.pcb \subseteq DOMAIN st1.pcb
        BY <2>10
      <3>3. Len(st1.pcb[p].prog.lines) \in Nat
        BY <2>5, <2>9, <2>10
      <3>4. \A r \in DOMAIN st.pcb : st1.pcb[r].prog = st.pcb[r].prog
        BY <2>10
      <3> QED
        BY <3>1, <3>2, <3>3, <3>4, <1>0, <2>2, <2>4, <2>5, <2>6, StoredKeeps
    <2>12. PcbInv(st1, done)
      <3>1. st1.pcb \in [DOMAIN st1.pcb -> PCB]
        BY <2>2, <2>7, <1>0 DEF Put, PcbInv
      <3>2. st1.pid \in Nat \ {0} /\ DOMAIN st1.pcb \subseteq 1 .. st1.pid - 1
        <4>1. st1.pid = p + 1
          BY <2>2 DEF p
        <4>2. DOMAIN st.pcb \subseteq 1 .. p - 1
          BY <1>0 DEF PcbInv, p
        <4> QED
          BY <4>1, <4>2, <2>6, <2>10
      <3>3. DOMAIN st1.ran = DOMAIN st1.pcb /\ st1.ran = [r \in DOMAIN st1.ran |-> st1.ran[r]]
        BY <2>2, <2>10, <1>0 DEF Put, PcbInv
      <3>4. \A r \in DOMAIN st1.pcb \ done : InPage(st1.pcb[r])
        BY <2>8, <2>10, <1>0 DEF PcbInv
      <3> QED
        BY <3>1, <3>2, <3>3, <3>4 DEF PcbInv
    <2>13. /\ Len(st.ready) \in Nat /\ Len(st1.ready) = Len(st.ready) + 1
           /\ st1.ready[Len(st.ready) + 1] = p
           /\ \A i \in 1 .. Len(st.ready) : /\ st1.ready[i] = st.ready[i]
                                            /\ st.ready[i] \in DOMAIN st.pcb \ done
           /\ st1.ready \in Seq(DOMAIN st1.pcb \ done)
      <3>1. st.ready \in Seq(DOMAIN st.pcb \ done) /\ p \notin done
        BY <1>0, <2>6 DEF ReadyInv
      <3>2. st.ready \in Seq(DOMAIN st1.pcb \ done)
        BY <3>1, <2>10
      <3> QED
        BY <2>2, <3>1, <3>2, <2>10
    <2>14. ReadyInv(st1, done)
      <3>1. SUFFICES ASSUME NEW i \in 1 .. Len(st1.ready), NEW j \in 1 .. Len(st1.ready),
                            st1.ready[i] = st1.ready[j]
                     PROVE  i = j
        BY <2>13 DEF ReadyInv
      <3>2. \A m \in 1 .. Len(st.ready) : st1.ready[m] # p
        BY <2>6, <2>13
      <3>3. \A m \in 1 .. Len(st1.ready) : m \in 1 .. Len(st.ready) \/ m = Len(st.ready) + 1
        BY <2>13
      <3> QED
        BY <3>1, <3>2, <3>3, <2>13, <1>0 DEF ReadyInv
    <2>15. ASSUME NEW r \in DOMAIN st.pcb, NotReady(r, st)
           PROVE  NotReady(r, st1)
      <3>1. \A m \in 1 .. Len(st1.ready) : m \in 1 .. Len(st.ready) \/ m = Len(st.ready) + 1
        BY <2>13
      <3> QED
        BY <3>1, <2>6, <2>13, <2>15 DEF NotReady
    <2> QED
      BY <2>2, <2>10, <2>11, <2>12, <2>14, <2>15 DEF StInv, st1
  <1> QED
    BY <1>1, <1>2

\* Loading the next page of a process keeps the state well formed.
LEMMA LoadFrameKeeps ==
    ASSUME NEW st, NEW done, StInv(st, done), NEW p \in DOMAIN st.pcb \ done,
           FreeSlots(st.mem) # {},
           st.pcb[p].currentPage > st.pcb[p].pageCounter,
           ~NoMoreLines(st.pcb[p])
    PROVE  LET st1 == load_frame(st, p)
           IN  /\ StInv(st1, done)
               /\ DOMAIN st1.pcb = DOMAIN st.pcb
               /\ st1.ready = st.ready
  <1> DEFINE st1 == load_frame(st, p)
             c == st.pcb[p]
             len == Len(c.prog.lines)
             skip == 3 * c.pageCounter
             b == find_available_slot(st.mem)
             n == Least({3, len - skip})
             c1 == [c EXCEPT !.PC = b, !.pageCounter = @ + 1]
  <1>0. IsState(st) /\ MemInv(st) /\ PcbInv(st, done) /\ ReadyInv(st, done)
    BY DEF StInv
  <1>1. c \in PCB /\ InPage(c) /\ p \in Nat
    BY <1>0 DEF PcbInv
  <1>2. b \in Frames
    BY SlotFacts
  <1>3. b \in Nat /\ b + 3 <= FrameStore
    BY <1>2, FrameFacts
  <1>4. len \in Nat /\ skip \in Nat /\ c.pageCounter \in Nat
    BY <1>1, ScriptLen DEF PCB
  <1>5. skip <= len
    BY <1>4 DEF NoMoreLines
  <1>6. n \in Nat /\ skip + n <= len
    <2> HIDE DEF len, skip
    <2>1. {3, len - skip} \in SUBSET Nat
      BY <1>4, <1>5
    <2>2. n \in {3, len - skip} /\ n <= len - skip
      BY <2>1, LeastFacts
    <2> HIDE DEF n
    <2> QED
      BY <2>1, <2>2, <1>4
  <1>7. /\ IsState(st1) /\ st1.mem = Stored(st.mem, st.time, p, b, skip, n)
        /\ st1.time = st.time + n
        /\ st1.pcb = [st.pcb EXCEPT ![p] = c1]
        /\ st1.ready = st.ready /\ st1.pid = st.pid /\ st1.ran = st.ran
    <2> DEFINE X == Stored(st.mem, st.time, p, b, skip, n)
               Y == [st.pcb EXCEPT ![p] = c1]
    <2>1. st1 = [st EXCEPT !.mem = X, !.time = @ + n, !.pcb[p] = c1]
      BY DEF load_frame
    <2> HIDE DEF st1, b, n, skip, X
    <2>2. st1 = [st EXCEPT !.mem = X, !.time = @ + n, !.pcb = Y]
      BY <2>1, <1>0 DEF IsState
    <2> HIDE DEF Y
    <2>3. /\ IsState(st1) /\ st1.mem = X /\ st1.time = st.time + n /\ st1.pcb = Y
          /\ st1.ready = st.ready /\ st1.pid = st.pid /\ st1.ran = st.ran
      BY <2>2, <1>0 DEF IsState
    <2> QED
      BY <2>3 DEF X, Y
  <1>8. /\ c1 \in PCB /\ c1.prog = c.prog /\ c1.PC = b /\ c1.pageCounter = c.pageCounter + 1
        /\ c1.currentPage = c.currentPage /\ c1.currentLine = c.currentLine
    <2> DEFINE k == c.pageCounter + 1
    <2>1. b \in 0 .. FrameStore /\ k \in Nat
      BY <1>3, <1>4, FrameAssumption
    <2>2. c1 = [c EXCEPT !.PC = b, !.pageCounter = k]
      OBVIOUS
    <2> HIDE DEF b, c, k, c1
    <2>3. /\ c1 \in PCB /\ c1.prog = c.prog /\ c1.PC = b /\ c1.pageCounter = k
          /\ c1.currentPage = c.currentPage /\ c1.currentLine = c.currentLine
      BY <2>1, <2>2, <1>1 DEF PCB
    <2> QED
      BY <2>3 DEF k
  <1> HIDE DEF st1, b, n, skip, c1
  <1>9. InPage(c1)
    <2>1. c.currentPage \in Nat /\ c.currentLine = 0 /\ c.currentPage = c.pageCounter + 1
      BY <1>1, <1>4 DEF InPage, PCB
    <2> DEFINE k == c.pageCounter
    <2>2. /\ k \in Nat /\ c1.PC = b /\ c1.pageCounter = k + 1
          /\ c1.currentPage = k + 1 /\ c1.currentLine = 0
      BY <2>1, <1>4, <1>8
    <2> HIDE DEF k
    <2> QED
      BY <2>2, <1>3, FrameAssumption DEF InPage
  <1>10. /\ DOMAIN st1.pcb = DOMAIN st.pcb /\ st1.pcb[p] = c1
         /\ \A r \in DOMAIN st.pcb : r # p => st1.pcb[r] = st.pcb[r]
         /\ \A r \in DOMAIN st.pcb : st1.pcb[r].prog = st.pcb[r].prog
         /\ st1.pcb \in [DOMAIN st1.pcb -> PCB]
    <2>1. st.pcb \in [DOMAIN st.pcb -> PCB]
      BY <1>0 DEF PcbInv
    <2> QED
      BY <2>1, <1>7, <1>8
  <1>11. MemInv(st1)
    <2>1. p \in DOMAIN st1.pcb /\ DOMAIN st.pcb \subseteq DOMAIN st1.pcb
      BY <1>10
    <2>2. Len(st1.pcb[p].prog.lines) \in Nat /\ skip + n <= Len(st1.pcb[p].prog.lines)
      BY <1>4, <1>6, <1>8, <1>10
    <2> QED
      BY <2>1, <2>2, <1>0, <1>1, <1>3, <1>4, <1>6, <1>7, <1>10, StoredKeeps
  <1>12. PcbInv(st1, done)
    BY <1>0, <1>7, <1>9, <1>10 DEF PcbInv
  <1>13. ReadyInv(st1, done)
    BY <1>0, <1>7, <1>10 DEF ReadyInv
  <1> QED
    BY <1>7, <1>10, <1>11, <1>12, <1>13 DEF StInv, st1

\* remove_frame keeps the state well formed and leaves a free frame.
LEMMA RemoveFrameKeeps ==
    ASSUME NEW st, NEW done, StInv(st, done), NEW v \in Frames
    PROVE  LET st1 == remove_frame(st, v)
           IN  /\ StInv(st1, done)
               /\ st1.pcb = st.pcb /\ st1.ready = st.ready
               /\ v \in FreeSlots(st1.mem)
  <1> DEFINE st1 == remove_frame(st, v)
             Q == 0 .. FrameStore - 1
  <1>0. IsState(st) /\ MemInv(st) /\ PcbInv(st, done) /\ ReadyInv(st, done)
    BY DEF StInv
  <1>1. /\ IsState(st1) /\ st1.mem = mem_free_lines_between(st.mem, st.time, v)
        /\ st1.time = st.time + 3 /\ st1.pcb = st.pcb
        /\ st1.ready = st.ready /\ st1.pid = st.pid /\ st1.ran = st.ran
    <2> DEFINE X == mem_free_lines_between(st.mem, st.time, v)
    <2>1. st1 = [st EXCEPT !.mem = X, !.time = @ + 3]
      BY DEF remove_frame
    <2> HIDE DEF st1, X
    <2>2. /\ IsState(st1) /\ st1.mem = X /\ st1.time = st.time + 3 /\ st1.pcb = st.pcb
          /\ st1.ready = st.ready /\ st1.pid = st.pid /\ st1.ran = st.ran
      BY <2>1, <1>0 DEF IsState
    <2> QED
      BY <2>2 DEF X
  <1>2. v \in Nat /\ v + 3 <= FrameStore
    BY FrameFacts
  <1>3. st.time \in Nat /\ st.mem \in [Q -> Cell] /\ DOMAIN st.mem = Q
    BY <1>0 DEF MemInv
  <1> HIDE DEF st1
  <1>4. ASSUME NEW q \in Q
        PROVE  \/ /\ q - v \in 0 .. 2
                  /\ st1.mem[q] = [line |-> NoLine, accessed |-> st.time + (q - v) + 1,
                                   age |-> st.time + (q - v) + 1]
               \/ q - v \notin 0 .. 2 /\ st1.mem[q] = st.mem[q]
    BY <1>1, <1>3 DEF mem_free_lines_between
  <1>5. ASSUME NEW q \in Q
        PROVE  /\ st1.mem[q] \in Cell
               /\ st1.mem[q].age <= st1.mem[q].accessed
               /\ st1.mem[q].accessed <= st1.time
               /\ LineOf(st1, q)
    <2>1. CASE q - v \in 0 .. 2
      <3> DEFINE d == q - v
      <3>1. d \in Nat /\ d + 1 <= 3
        BY <2>1
      <3>2. st1.mem[q] = [line |-> NoLine, accessed |-> st.time + d + 1, age |-> st.time + d + 1]
        BY <2>1, <1>4
      <3> HIDE DEF d
      <3>3. st1.mem[q] \in Cell
        BY <3>1, <3>2, <1>3 DEF Cell, NoLine
      <3>4. LineOf(st1, q)
        BY <3>2 DEF LineOf
      <3> QED
        BY <3>1, <3>2, <3>3, <3>4, <1>1, <1>3
    <2>2. CASE q - v \notin 0 .. 2
      <3>1. st1.mem[q] = st.mem[q]
        BY <2>2, <1>4
      <3>2. LineOf(st1, q)
        BY <3>1, <1>0, <1>1 DEF LineOf, MemInv
      <3>3. st.mem[q].accessed \in Nat /\ st.mem[q].accessed <= st.time
        BY <1>0, <1>3 DEF MemInv, Cell
      <3>4. /\ st1.mem[q] \in Cell /\ st.mem[q].age <= st.mem[q].accessed
            /\ st1.mem[q].accessed <= st1.time
        <4>1. st.mem[q] \in Cell /\ st.mem[q].age <= st.mem[q].accessed
          BY <1>0, <1>3 DEF MemInv
        <4>2. st1.time = st.time + 3
          BY <1>1
        <4> QED
          BY <4>1, <4>2, <3>1, <3>3, <1>3
      <3> QED
        BY <3>1, <3>2, <3>4
    <2> QED
      BY <2>1, <2>2
  <1>6. st1.mem \in [Q -> Cell]
    BY <1>1, <1>3, <1>5 DEF mem_free_lines_between
  <1>7. MemInv(st1)
    BY <1>1, <1>3, <1>5, <1>6 DEF MemInv
  <1>8. PcbInv(st1, done) /\ ReadyInv(st1, done)
    BY <1>0, <1>1 DEF PcbInv, ReadyInv
  <1>9. v \in FreeSlots(st1.mem)
    <2>1. ASSUME NEW j \in 0 .. 2 PROVE st1.mem[v + j].line = NoLine
      <3> DEFINE q == v + j
      <3>1. q \in Q /\ q - v \in 0 .. 2
        BY <1>2, FrameAssumption
      <3> HIDE DEF q
      <3>2. st1.mem[q] = [line |-> NoLine, accessed |-> st.time + (q - v) + 1,
                          age |-> st.time + (q - v) + 1]
        BY <3>1, <1>4, Zenon
      <3>3. st1.mem[q].line = NoLine
        BY <3>2
      <3> QED
        BY <3>3 DEF q
    <2> QED
      BY <2>1 DEF FreeSlots
  <1> QED
    BY <1>1, <1>7, <1>8, <1>9 DEF StInv, st1

\* A process that is not queued can be queued.
LEMMA AppendKeeps ==
    ASSUME NEW st, NEW done, StInv(st, done), NEW p \in DOMAIN st.pcb \ done, NotReady(p, st)
    PROVE  LET st1 == [st EXCEPT !.ready = Append(@, p)]
           IN  StInv(st1, done) /\ st1.pcb = st.pcb /\ st1.mem = st.mem
  <1> DEFINE st1 == [st EXCEPT !.ready = Append(@, p)]
  <1>0. IsState(st) /\ MemInv(st) /\ PcbInv(st, done) /\ ReadyInv(st, done)
    BY DEF StInv
  <1>1. /\ IsState(st1) /\ st1.mem = st.mem /\ st1.time = st.time /\ st1.pcb = st.pcb
        /\ st1.ready = Append(st.ready, p) /\ st1.pid = st.pid /\ st1.ran = st.ran
    BY <1>0 DEF IsState
  <1> HIDE DEF st1
  <1>2. MemInv(st1) /\ PcbInv(st1, done)
    BY <1>0, <1>1 DEF MemInv, LineOf, PcbInv
  <1>3. /\ Len(st.ready) \in Nat /\ Len(st1.ready) = Len(st.ready) + 1
        /\ st1.ready[Len(st.ready) + 1] = p
        /\ \A i \in 1 .. Len(st.ready) : st1.ready[i] = st.ready[i]
        /\ st1.ready \in Seq(DOMAIN st1.pcb \ done)
    BY <1>0, <1>1 DEF ReadyInv
  <1>4. \A m \in 1 .. Len(st1.ready) : m \in 1 .. Len(st.ready) \/ m = Len(st.ready) + 1
    BY <1>3
  <1>5. \A i, j \in 1 .. Len(st1.ready) : st1.ready[i] = st1.ready[j] => i = j
    BY <1>0, <1>3, <1>4 DEF NotReady, ReadyInv
  <1>6. ReadyInv(st1, done)
    BY <1>3, <1>5 DEF ReadyInv
  <1> QED
    BY <1>1, <1>2, <1>6 DEF StInv, st1

\* Assigning a well-formed record leaves a well-formed state.
LEMMA SetStateKeeps ==
    ASSUME NEW st, IsState(st), SetState(st)
    PROVE  /\ State' = st
           /\ pcb' = st.pcb /\ ready' = st.ready /\ shellmemory' = st.mem
  BY DEF SetState, State, IsState

-----------------------------------------------------------------------------
\* One pass of execute_process over a loaded page.

\* A process whose page is loaded stands in the frame store.
LEMMA InFrameStore ==
    ASSUME NEW c \in PCB, InPage(c), ~(c.currentPage > c.pageCounter)
    PROVE  c.PC \in 0 .. FrameStore - 1 /\ c.PC + 1 - c.currentLine
              + 3 * (c.pageCounter - c.currentPage + 1) <= FrameStore + 1
  <1>1. /\ c.PC \in Nat /\ c.currentLine \in 0 .. 2
        /\ c.pageCounter \in Nat /\ c.currentPage \in Nat
    BY FrameAssumption DEF PCB
  <1> QED
    BY <1>1, FrameAssumption DEF InPage

\* The state after a line was read, with l appended to the lines executed.
LEMMA TouchKeeps ==
    ASSUME IInv, cur # Idle, ~PageFault
    PROVE  /\ StInv(Touch, ended \cup {cur.pid})
           /\ Touch.pcb = [pcb EXCEPT ![cur.pid] = [pcb[cur.pid] EXCEPT !.PC = pcb[cur.pid].PC + 1]]
           /\ Touch.ready = ready
           /\ Touch.ran = ran
  <1> DEFINE p == cur.pid
             c == pcb[p]
             cell == shellmemory[c.PC]
             cell1 == [cell EXCEPT !.accessed = global_access_time + 1]
             c1 == [c EXCEPT !.PC = c.PC + 1]
             Q == 0 .. FrameStore - 1
  <1>0. StInv(State, ended) /\ p \in DOMAIN pcb \ ended /\ NotReady(p, State)
    BY DEF IInv
  <1>1. /\ State.mem = shellmemory /\ State.time = global_access_time /\ State.pcb = pcb
        /\ State.ready = ready /\ State.pid = pid_counter /\ State.ran = ran
    BY DEF State
  <1>2. MemInv(State) /\ PcbInv(State, ended) /\ ReadyInv(State, ended)
    BY <1>0 DEF StInv
  <1>3. c \in PCB /\ InPage(c) /\ pcb \in [DOMAIN pcb -> PCB]
    BY <1>0, <1>1, <1>2 DEF PcbInv
  <1>4. c.PC \in Q
    BY <1>3, InFrameStore DEF PageFault, Me
  <1>5. /\ cell \in Cell /\ global_access_time \in Nat /\ cell.age <= cell.accessed
        /\ cell.accessed <= global_access_time
        /\ shellmemory \in [Q -> Cell]
    BY <1>1, <1>2, <1>4 DEF MemInv
  <1>6. /\ cell1 \in Cell /\ cell1.line = cell.line /\ cell1.age = cell.age
        /\ cell1.accessed = global_access_time + 1
    <2> HIDE DEF cell
    <2> QED
      BY <1>5 DEF Cell
  <1>7. /\ c1 \in PCB /\ c1.prog = c.prog
    <2>1. c.PC + 1 \in 0 .. FrameStore
      BY <1>4, FrameAssumption
    <2> HIDE DEF c
    <2> QED
      BY <1>3, <2>1 DEF PCB
  <1>8. /\ IsState(Touch)
        /\ Touch.mem = [shellmemory EXCEPT ![c.PC] = cell1]
        /\ Touch.time = global_access_time + 1
        /\ Touch.pcb = [pcb EXCEPT ![p] = c1]
        /\ Touch.ready = ready /\ Touch.pid = pid_counter /\ Touch.ran = ran
    <2> DEFINE X == [shellmemory EXCEPT ![c.PC] = cell1]
               Y == [pcb EXCEPT ![p] = c1]
    <2>1. Touch = [State EXCEPT !.mem = X, !.time = global_access_time + 1, !.pcb = Y]
      BY <1>1 DEF Touch, Me, State
    <2> HIDE DEF X, Y
    <2>2. /\ IsState(Touch)
          /\ Touch.mem = X /\ Touch.time = global_access_time + 1 /\ Touch.pcb = Y
          /\ Touch.ready = ready /\ Touch.pid = pid_counter /\ Touch.ran = ran
      BY <2>1 DEF State, IsState
    <2> QED
      BY <2>2 DEF X, Y
  <1> HIDE DEF c1, cell1
  <1>9. /\ DOMAIN Touch.pcb = DOMAIN pcb /\ Touch.pcb \in [DOMAIN pcb -> PCB]
        /\ \A r \in DOMAIN pcb : Touch.pcb[r].prog = pcb[r].prog
        /\ \A r \in DOMAIN pcb : r # p => Touch.pcb[r] = pcb[r]
    BY <1>3, <1>7, <1>8
  <1>10. MemInv(Touch)
    <2>1. Touch.mem \in [Q -> Cell]
      BY <1>5, <1>6, <1>8
    <2>2. ASSUME NEW q \in Q
          PROVE  /\ Touch.mem[q].age <= Touch.mem[q].accessed
                 /\ Touch.mem[q].accessed <= Touch.time
                 /\ LineOf(Touch, q)
      <3>1. /\ shellmemory[q].age <= shellmemory[q].accessed
            /\ shellmemory[q].accessed <= global_access_time
            /\ shellmemory[q].accessed \in Nat /\ shellmemory[q].age \in Nat
            /\ LineOf(State, q)
        BY <1>1, <1>2, <1>5 DEF MemInv, Cell
      <3>2. Touch.mem[q].line = shellmemory[q].line
        BY <1>5, <1>6, <1>8
      <3>3. LineOf(Touch, q)
        BY <3>1, <3>2, <1>1, <1>9 DEF LineOf
      <3>4. CASE q = c.PC
        <4>1. Touch.mem[q] = cell1 /\ cell1.age = shellmemory[q].age
          BY <3>4, <1>5, <1>6, <1>8
        <4> QED
          BY <4>1, <3>1, <3>3, <1>5, <1>6, <1>8
      <3>5. CASE q # c.PC
        <4>1. Touch.mem[q] = shellmemory[q]
          BY <3>5, <1>5, <1>8
        <4> QED
          BY <4>1, <3>1, <3>3, <1>5, <1>8
      <3> QED
        BY <3>4, <3>5
    <2> QED
      BY <2>1, <2>2, <1>5, <1>8 DEF MemInv
  <1>11. PcbInv(Touch, ended \cup {p})
    BY <1>1, <1>2, <1>8, <1>9 DEF PcbInv
  <1>12. ReadyInv(Touch, ended \cup {p})
    <2>1. ready \in Seq(DOMAIN pcb \ ended) /\ \A i \in 1 .. Len(ready) : ready[i] # p
      BY <1>0, <1>1, <1>2 DEF ReadyInv, NotReady
    <2>2. ready \in Seq(DOMAIN pcb \ (ended \cup {p}))
      BY <2>1
    <2> QED
      BY <2>2, <1>1, <1>2, <1>8, <1>9 DEF ReadyInv
  <1> QED
    BY <1>8, <1>10, <1>11, <1>12 DEF StInv, c1

\* A word of a script is a plain command or the name of a script.
LEMMA WordFacts ==
    ASSUME NEW c \in PCB, NEW k \in 1 .. Len(c.prog.lines)
    PROVE  c.prog.lines[k] = Plain \/ c.prog.lines[k] \in DOMAIN Programs
  BY ScriptLen

\* Moving on to the next line of a page that was read at its program counter.
LEMMA NextLineKeeps ==
    ASSUME NEW c \in PCB, InPage(c), ~(c.currentPage > c.pageCounter),
           NEW c1, c1 = [c EXCEPT !.PC = c.PC + 1]
    PROVE  NextLine(c1) \in PCB /\ InPage(NextLine(c1)) /\ NextLine(c1).prog = c.prog
  <1> DEFINE c2 == NextLine(c1)
  <1>1. /\ c.PC \in Nat /\ c.currentLine \in 0 .. 2
        /\ c.pageCounter \in Nat /\ c.currentPage \in Nat
    BY FrameAssumption DEF PCB
  <1>2. c.PC + 1 \in 0 .. FrameStore
    BY InFrameStore, FrameAssumption
  <1>3. /\ c1 \in PCB /\ c1.prog = c.prog /\ c1.PC = c.PC + 1
        /\ c1.currentPage = c.currentPage /\ c1.currentLine = c.currentLine
        /\ c1.pageCounter = c.pageCounter
    BY <1>2 DEF PCB
  <1>4. CASE c.currentLine = 2
    <2>1. c2 = [c1 EXCEPT !.currentPage = c1.currentPage + 1, !.currentLine = 0]
      BY <1>3, <1>4 DEF NextLine
    <2> HIDE DEF c2
    <2> DEFINE k == c1.currentPage + 1
    <2>2. k \in Nat /\ 0 \in 0 .. 2 /\ c2 = [c1 EXCEPT !.currentPage = k, !.currentLine = 0]
      BY <2>1, <1>1, <1>3
    <2> HIDE DEF k
    <2>3. /\ c2 \in PCB /\ c2.prog = c1.prog /\ c2.PC = c1.PC
          /\ c2.currentPage = k /\ c2.currentLine = 0
          /\ c2.pageCounter = c1.pageCounter
      BY <2>2, <1>3 DEF PCB
    <2>4. /\ c2 \in PCB /\ c2.prog = c.prog /\ c2.PC = c.PC + 1
          /\ c2.currentPage = c1.currentPage + 1 /\ c2.currentLine = 0
          /\ c2.pageCounter = c.pageCounter
      BY <2>3, <1>3 DEF k
    <2>5. InPage(c2)
      BY <2>4, <1>1, <1>3, <1>4, FrameAssumption DEF InPage
    <2> QED
      BY <2>4, <2>5 DEF c2
  <1>5. CASE c.currentLine # 2
    <2>1. c2 = [c1 EXCEPT !.currentLine = c1.currentLine + 1]
      BY <1>3, <1>5 DEF NextLine
    <2> HIDE DEF c2
    <2>2. c1.currentLine + 1 \in 0 .. 2
      BY <1>1, <1>3, <1>5
    <2>3. /\ c2 \in PCB /\ c2.prog = c.prog /\ c2.PC = c.PC + 1
          /\ c2.currentPage = c.currentPage /\ c2.currentLine = c1.currentLine + 1
          /\ c2.pageCounter = c.pageCounter
      BY <2>1, <2>2, <1>3 DEF PCB
    <2>4. InPage(c2)
      BY <2>3, <1>1, <1>3, <1>5, FrameAssumption DEF InPage
    <2> QED
      BY <2>3, <2>4 DEF c2
  <1> QED
    BY <1>4, <1>5

\* The state in which the command of the line starts.
Started == [Touch EXCEPT !.ran[cur.pid] = Append(@, Line)]

\* The word at the program counter, and the state after its command.
Word == Started.pcb[Line[1]].prog.lines[Line[2]]

Parsed == parseInput(Started, Line)

\* The state after the line was executed.
Executed == [Parsed EXCEPT !.pcb[cur.pid] = NextLine(@)]

\* Executing a line, the admission of another script included, keeps the state well
\* formed; the process stays out of the queue.
LEMMA ExecutedKeeps ==
    ASSUME IInv, cur # Idle, ~PageFault, Line # NoLine
    PROVE  /\ StInv(Executed, ended)
           /\ cur.pid \in DOMAIN Executed.pcb \ ended
           /\ ended \subseteq DOMAIN Executed.pcb
           /\ NotReady(cur.pid, Executed)
           /\ StInv(Started, ended \cup {cur.pid})
           /\ Started.mem = Touch.mem /\ Started.pcb = Touch.pcb
           /\ Word = Plain \/ Word \in DOMAIN Programs
           /\ Executed.mem = Parsed.mem /\ DOMAIN Executed.pcb = DOMAIN Parsed.pcb
           /\ \A r \in DOMAIN Parsed.pcb : Executed.pcb[r].prog = Parsed.pcb[r].prog
  <1> DEFINE p == cur.pid
             done == ended \cup {p}
             c == pcb[p]
             c1 == [c EXCEPT !.PC = c.PC + 1]
  <1>0. StInv(State, ended) /\ p \in DOMAIN pcb \ ended /\ NotReady(p, State) /\ ended \subseteq DOMAIN pcb
    BY DEF IInv
  <1>1. /\ State.mem = shellmemory /\ State.pcb = pcb /\ State.ready = ready /\ State.ran = ran
    BY DEF State
  <1>2. MemInv(State) /\ PcbInv(State, ended) /\ ReadyInv(State, ended)
    BY <1>0 DEF StInv
  <1>3. c \in PCB /\ InPage(c) /\ pcb \in [DOMAIN pcb -> PCB] /\ c.PC \in 0 .. FrameStore - 1
        /\ ~(c.currentPage > c.pageCounter)
    BY <1>0, <1>1, <1>2, InFrameStore DEF PcbInv, PageFault, Me
  <1>4. /\ StInv(Touch, done) /\ Touch.pcb = [pcb EXCEPT ![p] = c1]
        /\ Touch.ready = ready /\ Touch.ran = ran
    BY TouchKeeps
  <1>5. NextLine(c1) \in PCB /\ InPage(NextLine(c1)) /\ NextLine(c1).prog = c.prog
    <2> HIDE DEF c
    <2> QED
      BY <1>3, NextLineKeeps
  <1>6. c1.prog = c.prog
    <2> HIDE DEF c
    <2> QED
      BY <1>3 DEF PCB
  <1> HIDE DEF c1
  <1>7. /\ DOMAIN Touch.pcb = DOMAIN pcb /\ Touch.pcb[p] = c1
        /\ \A r \in DOMAIN pcb : Touch.pcb[r].prog = pcb[r].prog
    BY <1>0, <1>3, <1>4, <1>6
  <1>8. /\ StInv(Started, done) /\ Started.pcb = Touch.pcb /\ Started.mem = Touch.mem
        /\ Started.ready = ready
    <2> DEFINE X == [Touch.ran EXCEPT ![p] = Append(Touch.ran[p], Line)]
    <2>1. /\ IsState(Touch) /\ MemInv(Touch) /\ PcbInv(Touch, done) /\ ReadyInv(Touch, done)
      BY <1>4 DEF StInv
    <2>2. Started = [Touch EXCEPT !.ran = X]
      BY <2>1 DEF Started, IsState
    <2>3. DOMAIN X = DOMAIN Touch.ran /\ X = [r \in DOMAIN X |-> X[r]]
      BY <2>1 DEF PcbInv
    <2> HIDE DEF X
    <2>4. /\ IsState(Started) /\ Started.mem = Touch.mem /\ Started.time = Touch.time
          /\ Started.pcb = Touch.pcb /\ Started.ready = Touch.ready
          /\ Started.pid = Touch.pid /\ Started.ran = X
      BY <2>1, <2>2 DEF IsState
    <2>5. MemInv(Started)
      BY <2>1, <2>4 DEF MemInv, LineOf
    <2>6. PcbInv(Started, done)
      BY <2>1, <2>3, <2>4 DEF PcbInv
    <2>7. ReadyInv(Started, done)
      BY <2>1, <2>4 DEF ReadyInv
    <2> QED
      BY <2>4, <2>5, <2>6, <2>7, <1>4 DEF StInv
  <1>9. Word = Plain \/ Word \in DOMAIN Programs
    <2>1. LineOf(State, c.PC) /\ Line = shellmemory[c.PC].line
      BY <1>2, <1>3 DEF MemInv, Line, Me
    <2>2. Line[1] \in DOMAIN pcb /\ Line[2] \in 1 .. Len(pcb[Line[1]].prog.lines)
      BY <2>1, <1>1 DEF LineOf
    <2>3. Word = pcb[Line[1]].prog.lines[Line[2]]
      BY <2>2, <1>7, <1>8 DEF Word
    <2>4. pcb[Line[1]] \in PCB
      BY <2>2, <1>3
    <2> QED
      BY <2>2, <2>3, <2>4, WordFacts
  <1>10. /\ StInv(Parsed, done) /\ p \in DOMAIN Parsed.pcb /\ Parsed.pcb[p] = c1 /\ NotReady(p, Parsed)
         /\ ended \subseteq DOMAIN Parsed.pcb
    <2>1. p \in DOMAIN Started.pcb /\ Started.pcb[p] = c1 /\ NotReady(p, Started)
          /\ done \subseteq DOMAIN Started.pcb
      BY <1>0, <1>1, <1>7, <1>8 DEF NotReady
    <2>2. CASE Word = Plain
      <3>1. Parsed = Started
        BY <2>2 DEF parseInput, Parsed, Word
      <3> QED
        BY <3>1, <2>1, <1>8
    <2>3. CASE Word # Plain
      <3>1. Parsed = process_initialize(Started, Word) /\ Word \in DOMAIN Programs
        BY <2>3, <1>9 DEF parseInput, Parsed, Word
      <3> HIDE DEF done
      <3>2. /\ StInv(Parsed, done) /\ DOMAIN Started.pcb \subseteq DOMAIN Parsed.pcb
            /\ \A r \in DOMAIN Started.pcb : /\ Parsed.pcb[r] = Started.pcb[r]
                                             /\ NotReady(r, Started) => NotReady(r, Parsed)
        BY <3>1, <2>1, <1>8, InitializeKeeps
      <3> QED
        BY <3>2, <2>1 DEF done
    <2> QED
      BY <2>2, <2>3
  <1>11. Executed = [Parsed EXCEPT !.pcb[p] = NextLine(c1)]
    BY <1>10 DEF Executed
  <1> DEFINE X == [Parsed.pcb EXCEPT ![p] = NextLine(c1)]
  <1>12. IsState(Parsed) /\ MemInv(Parsed) /\ PcbInv(Parsed, done) /\ ReadyInv(Parsed, done)
    BY <1>10 DEF StInv
  <1>13. DOMAIN X = DOMAIN Parsed.pcb /\ X \in [DOMAIN X -> PCB] /\ X[p] = NextLine(c1)
         /\ (\A r \in DOMAIN Parsed.pcb : X[r].prog = Parsed.pcb[r].prog)
         /\ (\A r \in DOMAIN Parsed.pcb : r # p => X[r] = Parsed.pcb[r])
    <2>1. Parsed.pcb \in [DOMAIN Parsed.pcb -> PCB]
      BY <1>12 DEF PcbInv
    <2>2. NextLine(c1).prog = Parsed.pcb[p].prog
      BY <1>5, <1>6, <1>10
    <2> QED
      BY <2>1, <2>2, <1>5, <1>10
  <1>14. /\ IsState(Executed) /\ Executed.mem = Parsed.mem /\ Executed.time = Parsed.time
         /\ Executed.pcb = X /\ Executed.ready = Parsed.ready
         /\ Executed.pid = Parsed.pid /\ Executed.ran = Parsed.ran
    <2>1. Executed = [Parsed EXCEPT !.pcb = X]
      BY <1>11, <1>12 DEF IsState
    <2> HIDE DEF X
    <2> QED
      BY <2>1, <1>12 DEF IsState
  <1> HIDE DEF X
  <1>15. MemInv(Executed)
    BY <1>12, <1>13, <1>14 DEF MemInv, LineOf
  <1>16. PcbInv(Executed, ended)
    BY <1>5, <1>12, <1>13, <1>14 DEF PcbInv
  <1>17. ReadyInv(Executed, ended)
    <2>1. Parsed.ready \in Seq(DOMAIN Parsed.pcb \ done)
      BY <1>12 DEF ReadyInv
    <2>2. Parsed.ready \in Seq(DOMAIN Parsed.pcb \ ended)
      BY <2>1
    <2> QED
      BY <2>2, <1>12, <1>13, <1>14 DEF ReadyInv
  <1>18. NotReady(p, Executed)
    BY <1>10, <1>14 DEF NotReady
  <1> QED
    BY <1>0, <1>8, <1>9, <1>10, <1>13, <1>14, <1>15, <1>16, <1>17, <1>18 DEF StInv

-----------------------------------------------------------------------------
\* The inductive invariant holds initially, and every step keeps it.

\* Nothing is in memory and no process exists.
LEMMA InitInv == Init => IInv
  <1> SUFFICES ASSUME Init PROVE IInv
    OBVIOUS
  <1>1. /\ State.mem = mem_init /\ State.time = 0 /\ State.pcb = << >> /\ State.ready = << >>
        /\ State.pid = 1 /\ State.ran = << >> /\ IsState(State)
    BY DEF State, Init, IsState
  <1>2. MemInv(State)
    <2>1. mem_init \in [0 .. FrameStore - 1 -> Cell]
      BY DEF mem_init, Cell, NoLine
    <2> QED
      BY <2>1, <1>1 DEF MemInv, LineOf, mem_init
  <1>3. PcbInv(State, ended)
    BY <1>1 DEF PcbInv
  <1>4. ReadyInv(State, ended)
    BY <1>1 DEF ReadyInv
  <1> QED
    BY <1>1, <1>2, <1>3, <1>4 DEF IInv, StInv, Init, Phases, Idle

\* The parts of the invariant that concern the record depend on the record alone.
LEMMA SameState ==
    ASSUME IInv, shellmemory' = shellmemory, global_access_time' = global_access_time,
           pcb' = pcb, ready' = ready, pid_counter' = pid_counter, ran' = ran, ended' = ended
    PROVE  StInv(State, ended)' /\ (cur' = cur => (cur # Idle => NotReady(cur.pid, State))')
  <1>1. State' = State
    BY DEF State
  <1> QED
    BY <1>1 DEF IInv, StInv, IsState, MemInv, LineOf, PcbInv, InPage, ReadyInv, NotReady

\* A turn that ends by queueing the process again.
LEMMA RequeueKeeps ==
    ASSUME IInv, NEW st, StInv(st, ended), ended \subseteq DOMAIN st.pcb,
           cur.pid \in DOMAIN st.pcb \ ended, NotReady(cur.pid, st),
           Requeue(st), UNCHANGED <<phase, admitted>>
    PROVE  IInv'
  <1> DEFINE st1 == [st EXCEPT !.ready = Append(@, cur.pid)]
  <1>1. StInv(st1, ended) /\ st1.pcb = st.pcb
    BY AppendKeeps
  <1> HIDE DEF st1
  <1>2. SetState(st1) /\ cur' = Idle /\ ended' = ended
    BY DEF Requeue, st1
  <1>3. State' = st1 /\ pcb' = st1.pcb
    BY <1>1, <1>2, SetStateKeeps DEF StInv
  <1>4. StInv(State', ended')
    BY <1>1, <1>2, <1>3
  <1>5. phase' \in Phases /\ admitted' \in 0 .. 3
    BY DEF IInv
  <1> QED
    BY <1>1, <1>2, <1>3, <1>4, <1>5 DEF IInv, Idle

\* Every step keeps the inductive invariant.
LEMMA Inductive == IInv /\ [Next]_vars => IInv'
  <1> SUFFICES ASSUME IInv, [Next]_vars PROVE IInv'
    OBVIOUS
  <1>0. /\ State.mem = shellmemory /\ State.time = global_access_time /\ State.pcb = pcb
        /\ State.ready = ready /\ State.pid = pid_counter /\ State.ran = ran
    BY DEF State
  <1>1. /\ StInv(State, ended) /\ phase \in Phases /\ admitted \in 0 .. 3
        /\ ended \subseteq DOMAIN pcb /\ cur \in [pid : Nat, left : Int]
        /\ (cur # Idle => cur.pid \in DOMAIN pcb \ ended /\ NotReady(cur.pid, State))
    BY DEF IInv
  <1>2. ASSUME NEW n \in Openers, SetState(process_initialize(State, n)), ended' = ended, cur' = cur,
               phase' \in Phases, admitted' \in 0 .. 3
        PROVE  IInv'
    <2> DEFINE st1 == process_initialize(State, n)
    <2>1. /\ StInv(st1, ended) /\ DOMAIN pcb \subseteq DOMAIN st1.pcb
          /\ \A p \in DOMAIN pcb : NotReady(p, State) => NotReady(p, st1)
      BY <1>0, <1>1, InitializeKeeps, ProgramAssumption
    <2> HIDE DEF st1
    <2>2. State' = st1 /\ pcb' = st1.pcb
      BY <1>2, <2>1, SetStateKeeps DEF StInv, st1
    <2> QED
      BY <1>1, <1>2, <2>1, <2>2 DEF IInv
  <1>3. ASSUME NEW n \in Openers, exec(n) PROVE IInv'
    <2>1. admitted' \in 0 .. 3
      BY <1>1, <1>3 DEF exec
    <2>2. SetState(process_initialize(State, n)) /\ ended' = ended /\ cur' = cur /\ phase' \in Phases
      BY <1>1, <1>3 DEF exec
    <2> QED
      BY <1>2, <2>1, <2>2
  <1>4. ASSUME NEW n \in Openers, run(n) PROVE IInv'
    <2>1. SetState(process_initialize(State, n)) /\ ended' = ended /\ cur' = cur
          /\ phase' \in Phases /\ admitted' \in 0 .. 3
      BY <1>1, <1>4 DEF run, Phases
    <2> QED
      BY <1>2, <2>1
  <1>5. ASSUME UNCHANGED <<pid_counter, pcb, ready, shellmemory, global_access_time, cur, ran, ended>>,
               phase' \in Phases, admitted' \in 0 .. 3
        PROVE  IInv'
    <2>1. StInv(State, ended)' /\ (cur # Idle => NotReady(cur.pid, State))'
      BY <1>5, SameState
    <2> QED
      BY <1>1, <1>5, <2>1 DEF IInv
  <1>6. CASE ExecMissing \/ ExecSchedule \/ RunMissing
             \/ \E policy \in {"LRU", "FIFO"} : set_page_policy(policy)
    <2>1. UNCHANGED <<pid_counter, pcb, ready, shellmemory, global_access_time, cur, ran, ended>>
          /\ phase' \in Phases /\ admitted' \in 0 .. 3
      BY <1>1, <1>6 DEF ExecMissing, ExecSchedule, RunMissing, set_page_policy, Phases
    <2> QED
      BY <1>5, <2>1
  <1>7. ASSUME NEW quanta \in Nat, Scheduler(quanta), phase \in {"RR", "FCFS"}
        PROVE  IInv'
    <2>1. CASE ready = << >>
      <3>1. UNCHANGED <<pid_counter, pcb, ready, shellmemory, global_access_time, cur, ran, ended>>
            /\ phase' \in Phases /\ admitted' \in 0 .. 3
        BY <1>1, <1>7, <2>1 DEF Scheduler, Phases
      <3> QED
        BY <1>5, <3>1
    <2>2. CASE ready # << >>
      <3>1. /\ cur' = [pid |-> Head(ready), left |-> quanta] /\ ready' = Tail(ready)
            /\ UNCHANGED <<phase, admitted, pid_counter, pcb, shellmemory, global_access_time, ran, ended>>
        BY <1>7, <2>2 DEF Scheduler
      <3>2. /\ State'.mem = shellmemory /\ State'.time = global_access_time /\ State'.pcb = pcb
            /\ State'.ready = Tail(ready) /\ State'.pid = pid_counter /\ State'.ran = ran
            /\ IsState(State')
        BY <3>1 DEF State, IsState
      <3>3. MemInv(State) /\ PcbInv(State, ended) /\ ReadyInv(State, ended)
        BY <1>1 DEF StInv
      <3>4. MemInv(State')
        BY <1>0, <3>2, <3>3 DEF MemInv, LineOf
      <3>5. PcbInv(State', ended)
        BY <1>0, <3>2, <3>3 DEF PcbInv
      <3>6. /\ ready \in Seq(DOMAIN pcb \ ended)
            /\ \A i, j \in 1 .. Len(ready) : ready[i] = ready[j] => i = j
        BY <1>0, <3>3 DEF ReadyInv
      <3>7. /\ Len(ready) \in Nat \ {0} /\ Len(Tail(ready)) = Len(ready) - 1
            /\ \A i \in 1 .. Len(ready) - 1 : Tail(ready)[i] = ready[i + 1]
            /\ Tail(ready) \in Seq(DOMAIN pcb \ ended)
            /\ Head(ready) = ready[1] /\ ready[1] \in DOMAIN pcb \ ended
        BY <3>6, <2>2
      <3>8. ReadyInv(State', ended)
        <4>1. ASSUME NEW i \in 1 .. Len(Tail(ready)), NEW j \in 1 .. Len(Tail(ready)),
                     Tail(ready)[i] = Tail(ready)[j]
              PROVE  i = j
          <5>1. i + 1 \in 1 .. Len(ready) /\ j + 1 \in 1 .. Len(ready)
                /\ ready[i + 1] = ready[j + 1]
            BY <4>1, <3>7
          <5>2. i + 1 = j + 1
            BY <5>1, <3>6
          <5> QED
            BY <5>2, <3>7
        <4> QED
          BY <4>1, <3>2, <3>7 DEF ReadyInv
      <3>9. NotReady(Head(ready), State')
        <4>1. ASSUME NEW i \in 1 .. Len(Tail(ready)), Tail(ready)[i] = ready[1]
              PROVE  FALSE
          <5>1. i + 1 \in 1 .. Len(ready) /\ 1 \in 1 .. Len(ready) /\ ready[i + 1] = ready[1]
            BY <4>1, <3>7
          <5>2. i + 1 = 1
            BY <5>1, <3>6
          <5> QED
            BY <5>2, <3>7
        <4> QED
          BY <4>1, <3>2, <3>7 DEF NotReady
      <3>10. Head(ready) \in Nat
        BY <1>0, <3>3, <3>7 DEF PcbInv
      <3>11. cur' \in [pid : Nat, left : Int] /\ cur'.pid = Head(ready)
        BY <3>1, <3>10, <1>7
      <3> QED
        BY <1>1, <3>1, <3>2, <3>4, <3>5, <3>7, <3>8, <3>9, <3>11 DEF IInv, StInv
    <2> QED
      BY <2>1, <2>2
  <1>8. CASE scheduler_RR \/ scheduler_FCFS
    BY <1>7, <1>8 DEF scheduler_RR, scheduler_FCFS, Forever
  <1>9. CASE quit
    <2>1. /\ shellmemory' = [q \in DOMAIN shellmemory |-> [shellmemory[q] EXCEPT !.line = NoLine]]
          /\ ready' = << >> /\ phase' = "exit"
          /\ UNCHANGED <<admitted, pid_counter, pcb, global_access_time, cur, ran, ended>>
      BY <1>9 DEF quit, free_shell_memory
    <2>2. /\ State'.mem = shellmemory' /\ State'.time = global_access_time /\ State'.pcb = pcb
          /\ State'.ready = << >> /\ State'.pid = pid_counter /\ State'.ran = ran
          /\ IsState(State')
      BY <2>1 DEF State, IsState
    <2>3. MemInv(State) /\ PcbInv(State, ended) /\ ReadyInv(State, ended)
      BY <1>1 DEF StInv
    <2>4. MemInv(State')
      <3> DEFINE Q == 0 .. FrameStore - 1
      <3>1. shellmemory \in [Q -> Cell] /\ global_access_time \in Nat
        BY <1>0, <2>3 DEF MemInv
      <3>2. ASSUME NEW q \in Q
            PROVE  /\ shellmemory'[q] \in Cell /\ shellmemory'[q].line = NoLine
                   /\ shellmemory'[q].age = shellmemory[q].age
                   /\ shellmemory'[q].accessed = shellmemory[q].accessed
        <4>1. shellmemory'[q] = [shellmemory[q] EXCEPT !.line = NoLine] /\ shellmemory[q] \in Cell
          BY <2>1, <3>1
        <4> QED
          BY <4>1 DEF Cell, NoLine
      <3>3. shellmemory' \in [Q -> Cell]
        BY <2>1, <3>1, <3>2
      <3>4. \A q \in Q : /\ shellmemory[q].age <= shellmemory[q].accessed
                         /\ shellmemory[q].accessed <= global_access_time
        BY <1>0, <2>3 DEF MemInv
      <3>5. \A q \in Q : LineOf(State', q)
        BY <2>2, <3>2 DEF LineOf
      <3> QED
        BY <2>2, <3>1, <3>2, <3>3, <3>4, <3>5 DEF MemInv
    <2>5. PcbInv(State', ended)
      BY <1>0, <2>2, <2>3 DEF PcbInv
    <2>6. ReadyInv(State', ended) /\ \A p : NotReady(p, State')
      BY <2>2 DEF ReadyInv, NotReady
    <2> QED
      BY <1>1, <2>1, <2>2, <2>4, <2>5, <2>6 DEF IInv, StInv, Phases
  <1>10. CASE FaultAtEnd
    <2>1. /\ ended' = ended \cup {cur.pid} /\ cur' = Idle /\ cur # Idle
          /\ UNCHANGED <<phase, admitted, pid_counter, pcb, ready, shellmemory, global_access_time, ran>>
      BY <1>10 DEF FaultAtEnd, terminate_process
    <2>2. State' = State
      BY <2>1 DEF State
    <2>3. IsState(State) /\ MemInv(State) /\ PcbInv(State, ended) /\ ReadyInv(State, ended)
      BY <1>1 DEF StInv
    <2>4. PcbInv(State, ended \cup {cur.pid})
      BY <2>3 DEF PcbInv
    <2>5. ReadyInv(State, ended \cup {cur.pid})
      <3>1. ready \in Seq(DOMAIN pcb \ ended) /\ \A i \in 1 .. Len(ready) : ready[i] # cur.pid
        BY <1>0, <1>1, <2>1, <2>3 DEF ReadyInv, NotReady
      <3>2. ready \in Seq(DOMAIN pcb \ (ended \cup {cur.pid}))
        BY <3>1
      <3> QED
        BY <3>2, <1>0, <2>3 DEF ReadyInv
    <2>6. StInv(State', ended')
      BY <2>1, <2>2, <2>3, <2>4, <2>5 DEF StInv
    <2> QED
      BY <1>1, <2>1, <2>6 DEF IInv, Idle
  <1>11. CASE FaultFree
    <2>1. /\ cur # Idle /\ PageFault /\ ~NoMoreLines(Me) /\ FreeSlots(shellmemory) # {}
          /\ Requeue(load_frame(State, cur.pid)) /\ UNCHANGED <<phase, admitted>>
      BY <1>11 DEF FaultFree
    <2> DEFINE st1 == load_frame(State, cur.pid)
    <2>2. StInv(st1, ended) /\ DOMAIN st1.pcb = DOMAIN pcb /\ st1.ready = ready
      BY <1>0, <1>1, <2>1, LoadFrameKeeps DEF PageFault, Me
    <2>3. NotReady(cur.pid, st1)
      BY <1>0, <1>1, <2>1, <2>2 DEF NotReady
    <2> HIDE DEF st1
    <2>4. Requeue(st1)
      BY <2>1 DEF st1
    <2> QED
      BY <1>1, <2>1, <2>2, <2>3, <2>4, RequeueKeeps
  <1>12. CASE FaultEvict
    <2> DEFINE v == find_replacement_slot(shellmemory)
    <2>1. CASE Removable(shellmemory, v)
      <3>1. /\ cur # Idle /\ PageFault /\ ~NoMoreLines(Me)
            /\ Requeue(load_frame(remove_frame(State, v), cur.pid)) /\ UNCHANGED <<phase, admitted>>
        BY <1>12, <2>1 DEF FaultEvict
      <3>2. v \in Frames
        BY <2>1, VictimFacts DEF Removable
      <3> HIDE DEF v
      <3> DEFINE st0 == remove_frame(State, v)
                 st1 == load_frame(st0, cur.pid)
      <3>3. StInv(st0, ended) /\ st0.pcb = pcb /\ st0.ready = ready /\ FreeSlots(st0.mem) # {}
        BY <1>0, <1>1, <3>2, RemoveFrameKeeps
      <3> HIDE DEF st0
      <3>4. StInv(st1, ended) /\ DOMAIN st1.pcb = DOMAIN pcb /\ st1.ready = ready
        BY <1>1, <3>1, <3>3, LoadFrameKeeps DEF PageFault, Me
      <3>5. NotReady(cur.pid, st1)
        BY <1>0, <1>1, <3>1, <3>4 DEF NotReady
      <3> HIDE DEF st1
      <3>6. Requeue(st1)
        BY <3>1 DEF st0, st1
      <3> QED
        BY <1>1, <3>1, <3>4, <3>5, <3>6, RequeueKeeps
    <2>2. CASE ~Removable(shellmemory, v)
      <3>1. /\ phase' = "abort" /\ cur' = Idle
            /\ UNCHANGED <<admitted, pid_counter, pcb, ready, shellmemory, global_access_time, ran, ended>>
        BY <1>12, <2>2 DEF FaultEvict
      <3>2. StInv(State, ended)'
        BY <3>1, SameState
      <3> QED
        BY <1>1, <3>1, <3>2 DEF IInv, Idle, Phases
    <2> QED
      BY <2>1, <2>2
  <1>13. CASE ReadNone
    <2>1. /\ cur # Idle /\ ~PageFault /\ SetState(Touch)
          /\ ended' = ended \cup {cur.pid} /\ cur' = Idle /\ UNCHANGED <<phase, admitted>>
      BY <1>13 DEF ReadNone, terminate_process
    <2>2. StInv(Touch, ended') /\ DOMAIN Touch.pcb = DOMAIN pcb
      BY <2>1, TouchKeeps
    <2>3. State' = Touch /\ pcb' = Touch.pcb
      BY <2>1, <2>2, SetStateKeeps DEF StInv
    <2> QED
      BY <1>1, <2>1, <2>2, <2>3 DEF IInv, Idle
  <1>14. CASE ReadLine
    <2>1. /\ cur # Idle /\ ~PageFault /\ Line # NoLine /\ UNCHANGED <<phase, admitted>>
          /\ IF cur.left = 1 THEN Requeue(Executed)
             ELSE SetState(Executed) /\ cur' = [cur EXCEPT !.left = @ - 1] /\ UNCHANGED ended
      BY <1>14 DEF ReadLine, Executed, Parsed, Started
    <2>2. /\ StInv(Executed, ended) /\ cur.pid \in DOMAIN Executed.pcb \ ended
          /\ ended \subseteq DOMAIN Executed.pcb /\ NotReady(cur.pid, Executed)
      BY <2>1, ExecutedKeeps
    <2>3. CASE cur.left = 1
      BY <2>1, <2>2, <2>3, RequeueKeeps
    <2>4. CASE cur.left # 1
      <3>1. State' = Executed /\ pcb' = Executed.pcb
        BY <2>1, <2>2, <2>4, SetStateKeeps DEF StInv
      <3>2. cur' \in [pid : Nat, left : Int] /\ cur'.pid = cur.pid /\ ended' = ended
        BY <1>1, <2>1, <2>4
      <3> QED
        BY <1>1, <2>1, <2>2, <3>1, <3>2 DEF IInv
    <2> QED
      BY <2>3, <2>4
  <1>15. CASE UNCHANGED vars
    BY <1>1, <1>5, <1>15 DEF vars
  <1> QED
    BY <1>3, <1>4, <1>6, <1>8, <1>9, <1>10, <1>11, <1>12, <1>13, <1>14, <1>15
       DEF Next, execute_process

\* The inductive invariant implies the type invariant.
LEMMA InvImpliesType == IInv => TypeOK
  <1> SUFFICES ASSUME IInv PROVE TypeOK
    OBVIOUS
  <1>0. /\ State.mem = shellmemory /\ State.time = global_access_time /\ State.pcb = pcb
        /\ State.ready = ready /\ State.pid = pid_counter /\ State.ran = ran
    BY DEF State
  <1>1. MemInv(State) /\ PcbInv(State, ended) /\ ReadyInv(State, ended)
    BY DEF IInv, StInv
  <1>2. \A p \in DOMAIN pcb : pcb[p] \in PCB
    BY <1>0, <1>1 DEF PcbInv
  <1>3. \A p \in DOMAIN pcb : /\ pcb[p].PC \in 0 .. FrameStore
                              /\ pcb[p].currentLine \in 0 .. 2
                              /\ pcb[p].pageCounter \in Nat
    BY <1>2 DEF PCB
  <1>4. ASSUME NEW q \in DOMAIN shellmemory
        PROVE  /\ shellmemory[q].accessed \in 0 .. global_access_time
               /\ shellmemory[q].age \in 0 .. shellmemory[q].accessed
    BY <1>0, <1>1 DEF MemInv, Cell
  <1>5. cur # Idle /\ ~PageFault => Me.PC < FrameStore
    <2> SUFFICES ASSUME cur # Idle, ~PageFault PROVE Me.PC < FrameStore
      OBVIOUS
    <2>1. Me \in PCB /\ InPage(Me) /\ ~(Me.currentPage > Me.pageCounter)
      BY <1>0, <1>1, <1>2 DEF PcbInv, PageFault, Me, IInv
    <2> QED
      BY <2>1, InFrameStore, FrameAssumption
  <1>6. pid_counter \in Nat /\ DOMAIN pcb = DOMAIN ran /\ ready \in Seq(DOMAIN pcb \ ended)
    BY <1>0, <1>1 DEF PcbInv, ReadyInv
  <1> QED
    BY <1>3, <1>4, <1>5, <1>6 DEF IInv, TypeOK

\* For every frame store and every set of scripts, times stay behind the clock, the
\* queue holds processes that have not ended, and a process about to read a line
\* reads the frame store and never the variables behind it: execute_process adds one
\* to the program counter without a test, only the page fault stops it in time.
THEOREM TypeCorrect == Spec => []TypeOK
  <1>1. Spec => []IInv
    BY InitInv, Inductive, PTL DEF Spec
  <1> QED
    BY <1>1, InvImpliesType, PTL

-----------------------------------------------------------------------------
\* The shape of the frame store.

\* No script is empty, and the last line of each has no newline, as in the
\* repository's scripts: load_frame then loads at least one line whenever it is
\* called, and an evicted frame never stays free.
Filled == \A n \in DOMAIN Programs : Len(Programs[n].lines) > 0 /\ ~Programs[n].nl

\* Behind a free frame everything is free.
Together(mem) ==
    \A c \in FreeSlots(mem) : \A q \in c .. FrameStore - 1 : mem[q].line = NoLine

\* No frame is used in part.
WholeMem(mem) ==
    \A c \in Frames : \/ \A j \in 0 .. 2 : mem[c + j].line = NoLine
                      \/ \A j \in 0 .. 2 : mem[c + j].line # NoLine

FullPages(st) == \A p \in DOMAIN st.pcb : Len(st.pcb[p].prog.lines) % 3 = 0

Shape(st) == /\ Filled => Together(st.mem)
             /\ FullPages(st) => WholeMem(st.mem)

\* m1 is mem with n lines stored from b on.
LinesStored(m1, mem, b, n) ==
    \A q \in 0 .. FrameStore - 1 :
       /\ q - b \in 0 .. n - 1 => m1[q].line # NoLine
       /\ q - b \notin 0 .. n - 1 => m1[q].line = mem[q].line

\* What storing n lines from b on does to the lines of memory.
LEMMA StoredLine ==
    ASSUME NEW mem \in [0 .. FrameStore - 1 -> Cell], NEW time, NEW p \in Nat \ {0},
           NEW b \in Nat, NEW k \in Nat, NEW n \in Nat
    PROVE  LinesStored(Stored(mem, time, p, b, k, n), mem, b, n)
  <1> DEFINE m1 == Stored(mem, time, p, b, k, n)
  <1> SUFFICES ASSUME NEW q \in 0 .. FrameStore - 1
               PROVE  /\ q - b \in 0 .. n - 1 => m1[q].line # NoLine
                      /\ q - b \notin 0 .. n - 1 => m1[q].line = mem[q].line
    BY DEF LinesStored
  <1>1. CASE q - b \in 0 .. n - 1
    <2>1. m1[q].line = <<p, k + (q - b) + 1>>
      BY <1>1 DEF Stored
    <2> QED
      BY <1>1, <2>1 DEF NoLine
  <1>2. CASE q - b \notin 0 .. n - 1
    BY <1>2 DEF Stored
  <1> QED
    BY <1>1, <1>2

\* Storing at least one line in the first free frame, when everything behind the
\* other free frames is free.
LEMMA StoredTogether ==
    ASSUME NEW mem \in [0 .. FrameStore - 1 -> Cell], NEW time, NEW p \in Nat \ {0},
           NEW b \in Frames, NEW k \in Nat, NEW n \in Nat \ {0},
           \A c \in FreeSlots(mem) : c # b => /\ b < c
                                              /\ \A q \in c .. FrameStore - 1 : mem[q].line = NoLine
    PROVE  Together(Stored(mem, time, p, b, k, n))
  <1> DEFINE m1 == Stored(mem, time, p, b, k, n)
  <1>1. SUFFICES ASSUME NEW c \in FreeSlots(m1), NEW q \in c .. FrameStore - 1
                 PROVE  m1[q].line = NoLine
    BY DEF Together
  <1>2. b \in Nat /\ c \in Frames /\ c \in Nat /\ c + 3 <= FrameStore /\ c % 3 = 0 /\ b % 3 = 0
    BY FrameFacts DEF FreeSlots
  <1>3. \A x \in 0 .. FrameStore - 1 :
           /\ x - b \in 0 .. n - 1 => m1[x].line # NoLine
           /\ x - b \notin 0 .. n - 1 => m1[x].line = mem[x].line
    <2>1. LinesStored(m1, mem, b, n)
      BY <1>2, StoredLine
    <2> HIDE DEF m1
    <2> QED
      BY <2>1 DEF LinesStored
  <1> HIDE DEF m1
  <1>4. \A j \in 0 .. 2 : m1[c + j].line = NoLine
    BY DEF FreeSlots
  <1>5. \A j \in 0 .. 2 : c + j \in 0 .. FrameStore - 1
    BY <1>2, FrameAssumption
  <1>6. \A j \in 0 .. 2 : (c + j) - b \notin 0 .. n - 1 /\ mem[c + j].line = NoLine
    BY <1>3, <1>4, <1>5
  <1>7. c \in FreeSlots(mem)
    BY <1>2, <1>6 DEF FreeSlots
  <1>8. c - b \notin 0 .. n - 1
    <2>1. c + 0 = c /\ c \in 0 .. FrameStore - 1
      BY <1>2, FrameAssumption
    <2>2. m1[c].line = NoLine
      BY <2>1, <1>4
    <2> QED
      BY <2>1, <2>2, <1>3
  <1>9. c # b
    BY <1>2, <1>8
  <1>10. b < c /\ mem[q].line = NoLine
    BY <1>7, <1>9
  <1>11. q \in 0 .. FrameStore - 1 /\ q - b \notin 0 .. n - 1
    BY <1>2, <1>8, <1>10, FrameAssumption
  <1> QED
    BY <1>3, <1>10, <1>11

\* Storing whole pages.
LEMMA StoredWhole ==
    ASSUME NEW mem \in [0 .. FrameStore - 1 -> Cell], NEW time, NEW p \in Nat \ {0},
           NEW b \in Frames, NEW k \in Nat, NEW n \in Nat, n % 3 = 0, WholeMem(mem)
    PROVE  WholeMem(Stored(mem, time, p, b, k, n))
  <1> DEFINE m1 == Stored(mem, time, p, b, k, n)
  <1>1. SUFFICES ASSUME NEW c \in Frames
                 PROVE  \/ \A j \in 0 .. 2 : m1[c + j].line = NoLine
                        \/ \A j \in 0 .. 2 : m1[c + j].line # NoLine
    BY DEF WholeMem
  <1>2. b \in Nat /\ c \in Nat /\ c + 3 <= FrameStore /\ c % 3 = 0 /\ b % 3 = 0
    BY FrameFacts
  <1>3. \A x \in 0 .. FrameStore - 1 :
           /\ x - b \in 0 .. n - 1 => m1[x].line # NoLine
           /\ x - b \notin 0 .. n - 1 => m1[x].line = mem[x].line
    <2>1. LinesStored(m1, mem, b, n)
      BY <1>2, StoredLine
    <2> HIDE DEF m1
    <2> QED
      BY <2>1 DEF LinesStored
  <1> HIDE DEF m1
  <1>4. \A j \in 0 .. 2 : c + j \in 0 .. FrameStore - 1
    BY <1>2, FrameAssumption
  <1>5. \/ \A j \in 0 .. 2 : (c + j) - b \in 0 .. n - 1
        \/ \A j \in 0 .. 2 : (c + j) - b \notin 0 .. n - 1
    <2>1. PICK x \in Int : c = 3 * x
      BY <1>2
    <2>2. PICK y \in Int : b = 3 * y
      BY <1>2
    <2>3. PICK z \in Int : n = 3 * z
      OBVIOUS
    <2>4. CASE 0 <= x - y /\ x - y < z
      BY <2>1, <2>2, <2>3, <2>4
    <2>5. CASE x - y < 0
      BY <2>1, <2>2, <2>3, <2>5
    <2>6. CASE x - y >= z
      BY <2>1, <2>2, <2>3, <2>6
    <2> QED
      BY <2>4, <2>5, <2>6
  <1>6. CASE \A j \in 0 .. 2 : (c + j) - b \in 0 .. n - 1
    BY <1>3, <1>4, <1>6
  <1>7. CASE \A j \in 0 .. 2 : (c + j) - b \notin 0 .. n - 1
    <2>1. \A j \in 0 .. 2 : m1[c + j].line = mem[c + j].line
      BY <1>3, <1>4, <1>7
    <2> QED
      BY <2>1 DEF WholeMem
  <1> QED
    BY <1>5, <1>6, <1>7

\* Admitting a script.
LEMMA InitializeShape ==
    ASSUME NEW st, NEW done, StInv(st, done), Shape(st), NEW name \in DOMAIN Programs
    PROVE  Shape(process_initialize(st, name))
  <1> DEFINE st1 == process_initialize(st, name)
             p == st.pid
             prog == Programs[name]
             b == find_available_slot(st.mem)
             n == LinesLoaded(prog, b)
             c == [prog |-> prog, PC |-> b, currentPage |-> 1,
                   currentLine |-> 0, pageCounter |-> PagesCounted(prog, n)]
  <1>0. IsState(st) /\ MemInv(st) /\ PcbInv(st, done) /\ ReadyInv(st, done)
    BY DEF StInv
  <1>1. CASE ~Loads(st)
    <2>1. st1.mem = st.mem /\ st1.pcb = st.pcb
      BY <1>0, <1>1 DEF process_initialize, copyScript, IsState
    <2> HIDE DEF st1
    <2>2. Shape(st1)
      BY <2>1 DEF Shape, FullPages
    <2> QED
      BY <2>2 DEF st1
  <1>2. CASE Loads(st)
    <2>1. st1 = load_file([st EXCEPT !.pid = @ + 1], p, prog)
      BY <1>2 DEF process_initialize, copyScript
    <2>2. st1.mem = Stored(st.mem, st.time, p, b, 0, n) /\ st1.pcb = Put(st.pcb, p, c)
      BY <2>1, <1>0 DEF IsState, load_file
    <2>3. b \in Frames /\ b \in FreeSlots(st.mem) /\ \A d \in FreeSlots(st.mem) : b <= d
      BY <1>2, SlotFacts DEF Loads
    <2>4. b \in Nat /\ b + 3 <= FrameStore /\ b % 3 = 0
      BY <2>3, FrameFacts
    <2> HIDE DEF st1, b
    <2>5. Len(prog.lines) \in Nat /\ n \in Nat /\ n \in {6, Len(prog.lines), FrameStore - b}
      BY <2>3, LoadedFacts
    <2>6. p \in Nat \ {0} /\ p \notin DOMAIN st.pcb /\ st.mem \in [0 .. FrameStore - 1 -> Cell]
      BY <1>0 DEF PcbInv, MemInv
    <2>7. c.prog = prog
      OBVIOUS
    <2> HIDE DEF p, n, c
    <2>8. /\ DOMAIN st1.pcb = DOMAIN st.pcb \cup {p}
          /\ st1.pcb[p] = c
          /\ \A r \in DOMAIN st.pcb : st1.pcb[r] = st.pcb[r]
      BY <2>2, <2>6 DEF Put
    <2>9. ASSUME Filled PROVE Together(st1.mem)
      <3>1. n # 0
        BY <2>4, <2>5, <2>9, FrameAssumption DEF Filled
      <3>2. Together(st.mem)
        BY <2>9 DEF Shape
      <3>3. \A d \in FreeSlots(st.mem) : d \in Nat
        BY FrameFacts DEF FreeSlots
      <3>4. \A d \in FreeSlots(st.mem) :
               d # b => b < d /\ \A q \in d .. FrameStore - 1 : st.mem[q].line = NoLine
        BY <3>2, <3>3, <2>3, <2>4 DEF Together
      <3> QED
        BY <3>1, <3>4, <2>2, <2>3, <2>5, <2>6, StoredTogether
    <2>10. ASSUME FullPages(st1) PROVE WholeMem(st1.mem)
      <3>1. FullPages(st) /\ Len(prog.lines) % 3 = 0
        BY <2>7, <2>8, <2>10 DEF FullPages
      <3>2. n % 3 = 0
        <4>1. CASE n = Len(prog.lines)
          BY <4>1, <3>1
        <4>2. CASE n = FrameStore - b
          BY <4>2, <2>4, FrameAssumption
        <4> QED
          BY <4>1, <4>2, <2>5
      <3>3. WholeMem(st.mem)
        BY <3>1 DEF Shape
      <3> QED
        BY <3>2, <3>3, <2>2, <2>3, <2>5, <2>6, StoredWhole
    <2>11. Shape(st1)
      BY <2>9, <2>10 DEF Shape
    <2> QED
      BY <2>11 DEF st1
  <1> QED
    BY <1>1, <1>2

\* Loading a page: into the first free frame, or into the only one, which was just
\* taken from another page.
LEMMA LoadFrameShape ==
    ASSUME NEW st, NEW done, StInv(st, done), NEW p \in DOMAIN st.pcb \ done,
           FreeSlots(st.mem) # {}, ~NoMoreLines(st.pcb[p]),
           Filled => Together(st.mem) \/ \E v : FreeSlots(st.mem) = {v},
           FullPages(st) => WholeMem(st.mem)
    PROVE  Shape(load_frame(st, p))
  <1> DEFINE st1 == load_frame(st, p)
             c == st.pcb[p]
             len == Len(c.prog.lines)
             skip == 3 * c.pageCounter
             b == find_available_slot(st.mem)
             n == Least({3, len - skip})
             c1 == [c EXCEPT !.PC = b, !.pageCounter = @ + 1]
  <1>0. IsState(st) /\ MemInv(st) /\ PcbInv(st, done)
    BY DEF StInv
  <1>1. c \in PCB /\ p \in Nat \ {0} /\ st.mem \in [0 .. FrameStore - 1 -> Cell]
        /\ st.pcb \in [DOMAIN st.pcb -> PCB]
    BY <1>0 DEF PcbInv, MemInv
  <1>2. b \in Frames /\ b \in FreeSlots(st.mem) /\ \A d \in FreeSlots(st.mem) : b <= d
    BY SlotFacts
  <1>3. len \in Nat /\ skip \in Nat /\ c.pageCounter \in Nat
    BY <1>1, ScriptLen DEF PCB
  <1>4. skip <= len /\ (skip = len => len = 0 \/ c.prog.nl)
    BY <1>3 DEF NoMoreLines
  <1>5. n \in Nat /\ n \in {3, len - skip}
    <2> HIDE DEF len, skip
    <2>1. {3, len - skip} \in SUBSET Nat
      BY <1>3, <1>4
    <2>2. n \in {3, len - skip}
      BY <2>1, LeastFacts
    <2> HIDE DEF n
    <2> QED
      BY <2>1, <2>2
  <1>6. st1.mem = Stored(st.mem, st.time, p, b, skip, n) /\ st1.pcb = [st.pcb EXCEPT ![p] = c1]
    <2> DEFINE X == Stored(st.mem, st.time, p, b, skip, n)
               Y == [st.pcb EXCEPT ![p] = c1]
    <2>1. st1 = [st EXCEPT !.mem = X, !.time = @ + n, !.pcb[p] = c1]
      BY DEF load_frame
    <2> HIDE DEF st1, b, n, skip, X
    <2>2. st1 = [st EXCEPT !.mem = X, !.time = @ + n, !.pcb = Y]
      BY <2>1, <1>0 DEF IsState
    <2> HIDE DEF Y
    <2>3. st1.mem = X /\ st1.pcb = Y
      BY <2>2, <1>0 DEF IsState
    <2> QED
      BY <2>3 DEF X, Y
  <1>7. c1.prog = c.prog
    <2> HIDE DEF b, c
    <2> QED
      BY <1>1 DEF PCB
  <1> HIDE DEF st1, b, n, skip, c1
  <1>8. DOMAIN st1.pcb = DOMAIN st.pcb /\ \A r \in DOMAIN st.pcb : st1.pcb[r].prog = st.pcb[r].prog
    BY <1>1, <1>6, <1>7
  <1>9. ASSUME Filled PROVE Together(st1.mem)
    <2>1. n # 0
      <3>1. len > 0 /\ ~c.prog.nl
        BY <1>1, <1>9, ScriptLen DEF Filled
      <3> QED
        BY <3>1, <1>3, <1>4, <1>5
    <2>2. \A d \in FreeSlots(st.mem) : d \in Nat
      BY FrameFacts DEF FreeSlots
    <2>3. b \in Nat
      BY <1>2, FrameFacts
    <2>4. \A d \in FreeSlots(st.mem) :
             d # b => b < d /\ \A q \in d .. FrameStore - 1 : st.mem[q].line = NoLine
      <3>1. CASE Together(st.mem)
        BY <3>1, <2>2, <2>3, <1>2 DEF Together
      <3>2. CASE \E v : FreeSlots(st.mem) = {v}
        BY <3>2, <1>2
      <3> QED
        BY <3>1, <3>2, <1>9
    <2> QED
      BY <2>1, <2>4, <1>1, <1>2, <1>3, <1>5, <1>6, StoredTogether
  <1>10. ASSUME FullPages(st1) PROVE WholeMem(st1.mem)
    <2>1. FullPages(st) /\ len % 3 = 0
      BY <1>8, <1>10 DEF FullPages
    <2>2. n % 3 = 0
      <3>1. skip % 3 = 0
        BY <1>3 DEF skip
      <3>2. (len - skip) % 3 = 0
        <4> HIDE DEF len
        <4> QED
          BY <3>1, <2>1, <1>3
      <3> QED
        BY <3>2, <1>5
    <2> QED
      BY <2>1, <2>2, <1>1, <1>2, <1>3, <1>5, <1>6, StoredWhole
  <1>11. Shape(st1)
    BY <1>9, <1>10 DEF Shape
  <1> QED
    BY <1>11 DEF st1

\* Evicting the victim when no frame is free, and loading the page into its frame.
LEMMA EvictShape ==
    ASSUME NEW st, NEW done, StInv(st, done), Shape(st), NEW p \in DOMAIN st.pcb \ done,
           FreeSlots(st.mem) = {}, NEW v \in Frames, ~NoMoreLines(st.pcb[p])
    PROVE  Shape(load_frame(remove_frame(st, v), p))
  <1> DEFINE st0 == remove_frame(st, v)
             Q == 0 .. FrameStore - 1
  <1>1. StInv(st0, done) /\ st0.pcb = st.pcb /\ v \in FreeSlots(st0.mem)
    BY RemoveFrameKeeps
  <1>2. st0.mem = mem_free_lines_between(st.mem, st.time, v)
    BY DEF StInv, IsState, remove_frame
  <1>3. st.mem \in [Q -> Cell]
    BY DEF StInv, MemInv
  <1>4. v \in Nat /\ v % 3 = 0 /\ v + 3 <= FrameStore
    BY FrameFacts
  <1> HIDE DEF st0
  <1>5. ASSUME NEW c \in Frames, c # v
        PROVE  \A j \in 0 .. 2 : st0.mem[c + j].line = st.mem[c + j].line
    <2> TAKE j \in 0 .. 2
    <2>1. c \in Nat /\ c % 3 = 0 /\ c + 3 <= FrameStore
      BY FrameFacts
    <2> DEFINE q == c + j
    <2>2. q \in Q /\ q - v \notin 0 .. 2
      BY <2>1, <1>4, <1>5, FrameAssumption
    <2> HIDE DEF q
    <2>3. st0.mem[q] = st.mem[q]
      BY <2>2, <1>2, <1>3 DEF mem_free_lines_between
    <2> QED
      BY <2>3 DEF q
  <1>6. FreeSlots(st0.mem) = {v}
    <2>1. ASSUME NEW c \in FreeSlots(st0.mem), c # v PROVE FALSE
      <3>1. c \in Frames /\ \A j \in 0 .. 2 : st0.mem[c + j].line = NoLine
        BY DEF FreeSlots
      <3>2. c \in FreeSlots(st.mem)
        BY <3>1, <2>1, <1>5 DEF FreeSlots
      <3> QED
        BY <3>2
    <2> QED
      BY <2>1, <1>1
  <1>7. ASSUME FullPages(st0) PROVE WholeMem(st0.mem)
    <2>1. FullPages(st)
      BY <1>1, <1>7 DEF FullPages
    <2>2. WholeMem(st.mem)
      BY <2>1 DEF Shape
    <2> SUFFICES ASSUME NEW c \in Frames
                 PROVE  \/ \A j \in 0 .. 2 : st0.mem[c + j].line = NoLine
                        \/ \A j \in 0 .. 2 : st0.mem[c + j].line # NoLine
      BY DEF WholeMem
    <2>3. CASE c = v
      BY <2>3, <1>1 DEF FreeSlots
    <2>4. CASE c # v
      BY <2>2, <2>4, <1>5 DEF WholeMem
    <2> QED
      BY <2>3, <2>4
  <1>8. Shape(load_frame(st0, p))
    BY <1>1, <1>6, <1>7, LoadFrameShape
  <1> QED
    BY <1>8 DEF st0

\* Reading a line changes no line of memory and no script.
LEMMA TouchShape ==
    ASSUME IInv, cur # Idle, ~PageFault, Shape(State)
    PROVE  Shape(Touch)
  <1> DEFINE p == cur.pid
             c == pcb[p]
             cell == shellmemory[c.PC]
             cell1 == [cell EXCEPT !.accessed = global_access_time + 1]
             c1 == [c EXCEPT !.PC = c.PC + 1]
             Q == 0 .. FrameStore - 1
             X == [shellmemory EXCEPT ![c.PC] = cell1]
             Y == [pcb EXCEPT ![p] = c1]
  <1>1. MemInv(State) /\ PcbInv(State, ended) /\ p \in DOMAIN pcb \ ended
    BY DEF IInv, StInv
  <1>2. /\ pcb \in [DOMAIN pcb -> PCB] /\ c \in PCB /\ InPage(c)
        /\ shellmemory \in [Q -> Cell]
    BY <1>1 DEF PcbInv, MemInv, State
  <1>3. c.PC \in Q
    BY <1>2, InFrameStore DEF PageFault, Me
  <1>4. Touch = [State EXCEPT !.mem = X, !.time = global_access_time + 1, !.pcb = Y]
    BY DEF Touch, Me, State
  <1>5. cell1.line = cell.line
    <2>1. cell \in Cell
      BY <1>2, <1>3
    <2> HIDE DEF cell
    <2> QED
      BY <2>1 DEF Cell
  <1>6. c1.prog = c.prog
    <2> HIDE DEF c
    <2> QED
      BY <1>2 DEF PCB
  <1> HIDE DEF cell1, c1
  <1>7. \A q \in Q : X[q].line = shellmemory[q].line
    BY <1>2, <1>5
  <1>8. DOMAIN Y = DOMAIN pcb /\ \A r \in DOMAIN pcb : Y[r].prog = pcb[r].prog
    BY <1>2, <1>6
  <1> HIDE DEF X, Y
  <1>9. Touch.mem = X /\ Touch.pcb = Y
    BY <1>4 DEF State
  <1>10. State.mem = shellmemory /\ State.pcb = pcb
    BY DEF State
  <1>11. \A b \in Frames : \A j \in 0 .. 2 : X[b + j].line = shellmemory[b + j].line
    <2> TAKE b \in Frames
    <2> TAKE j \in 0 .. 2
    <2>1. b \in Nat /\ b + 3 <= FrameStore
      BY FrameFacts
    <2>2. b + j \in Q
      BY <2>1, FrameAssumption
    <2> QED
      BY <2>2, <1>7
  <1>12. FreeSlots(X) = FreeSlots(shellmemory)
    BY <1>11 DEF FreeSlots
  <1>13. Together(shellmemory) => Together(X)
    <2> SUFFICES ASSUME Together(shellmemory), NEW b \in FreeSlots(X), NEW q \in b .. FrameStore - 1
                 PROVE  X[q].line = NoLine
      BY DEF Together
    <2>1. b \in Frames
      BY DEF FreeSlots
    <2>2. q \in Q
      BY <2>1, FrameFacts, FrameAssumption
    <2> QED
      BY <2>2, <1>7, <1>12 DEF Together
  <1>14. WholeMem(shellmemory) => WholeMem(X)
    BY <1>11 DEF WholeMem
  <1>15. FullPages(Touch) => FullPages(State)
    BY <1>8, <1>9, <1>10 DEF FullPages
  <1> QED
    BY <1>9, <1>10, <1>13, <1>14, <1>15 DEF Shape

\* Executing a line.
LEMMA ExecutedShape ==
    ASSUME IInv, cur # Idle, ~PageFault, Line # NoLine, Shape(State)
    PROVE  Shape(Executed)
  <1> DEFINE done == ended \cup {cur.pid}
  <1>1. Shape(Touch)
    BY TouchShape
  <1>2. /\ StInv(Started, done)
        /\ Started.mem = Touch.mem /\ Started.pcb = Touch.pcb
        /\ Word = Plain \/ Word \in DOMAIN Programs
        /\ Executed.mem = Parsed.mem /\ DOMAIN Executed.pcb = DOMAIN Parsed.pcb
        /\ \A r \in DOMAIN Parsed.pcb : Executed.pcb[r].prog = Parsed.pcb[r].prog
    BY ExecutedKeeps
  <1>3. Shape(Started)
    BY <1>1, <1>2 DEF Shape, FullPages
  <1>4. Shape(Parsed)
    <2>1. CASE Word = Plain
      BY <2>1, <1>3 DEF Parsed, parseInput, Word
    <2>2. CASE Word # Plain
      <3>1. Parsed = process_initialize(Started, Word)
        BY <2>2 DEF Parsed, parseInput, Word
      <3> QED
        BY <3>1, <2>2, <1>2, <1>3, InitializeShape
    <2> QED
      BY <2>1, <2>2
  <1> QED
    BY <1>2, <1>4 DEF Shape, FullPages

-----------------------------------------------------------------------------
\* Where the searches for a victim can fail.

\* If a search returns -1, every frame was touched since the clock passed HighValue.
LEMMA NoVictim ==
    ASSUME MemInv(State), find_replacement_slot(shellmemory) = -1
    PROVE  \A b \in Frames : shellmemory[b].accessed >= HighValue
  <1> DEFINE mem == shellmemory
             Q == 0 .. FrameStore - 1
             L == {b \in Frames : /\ mem[b].accessed < HighValue
                                  /\ \A c \in Frames : mem[b].accessed <= mem[c].accessed}
             F == {b \in Frames : /\ mem[b].age < HighValue
                                  /\ \A c \in Frames : mem[b].age <= mem[c].age}
  <1>1. \A b \in Frames : b \in Nat /\ b \in Q
    <2> TAKE b \in Frames
    <2>1. b \in Nat /\ b + 3 <= FrameStore
      BY FrameFacts
    <2> QED
      BY <2>1, FrameAssumption
  <1>2. \A b \in Frames : /\ mem[b].accessed \in Nat /\ mem[b].age \in Nat
                          /\ mem[b].age <= mem[b].accessed
    BY <1>1 DEF MemInv, State, Cell
  <1>3. L \in SUBSET Nat /\ F \in SUBSET Nat
    BY <1>1
  <1>4. L # {} => find_lru_slot(mem) \in Nat
    <2>1. L # {} => Least(L) \in L
      <3> HIDE DEF L
      <3> QED
        BY <1>3, LeastFacts
    <2>2. find_lru_slot(mem) = IF L = {} THEN -1 ELSE Least(L)
      BY DEF find_lru_slot
    <2> HIDE DEF L
    <2> QED
      BY <2>1, <2>2, <1>3
  <1>5. F # {} => find_fifo_slot(mem) \in Nat
    <2>1. F # {} => Least(F) \in F
      <3> HIDE DEF F
      <3> QED
        BY <1>3, LeastFacts
    <2>2. find_fifo_slot(mem) = IF F = {} THEN -1 ELSE Least(F)
      BY DEF find_fifo_slot
    <2> HIDE DEF F
    <2> QED
      BY <2>1, <2>2, <1>3
  <1>6. L = {} \/ F = {}
    <2>1. find_lru_slot(mem) = -1 \/ find_fifo_slot(mem) = -1
      BY DEF find_replacement_slot
    <2> QED
      BY <2>1, <1>4, <1>5
  <1> SUFFICES ASSUME NEW b \in Frames, mem[b].accessed < HighValue
               PROVE  FALSE
    BY <1>2, HighAssumption
  <1>7. L # {}
    <2> DEFINE T == {mem[c].accessed : c \in Frames}
    <2>1. T \in SUBSET Nat /\ T # {}
      BY <1>2
    <2>2. PICK t \in T : \A u \in T : t <= u
      <3> HIDE DEF T
      <3> QED
        BY <2>1, LeastNat
    <2>3. PICK c \in Frames : t = mem[c].accessed
      OBVIOUS
    <2>4. \A d \in Frames : mem[c].accessed <= mem[d].accessed
      BY <2>2, <2>3
    <2>5. mem[c].accessed < HighValue
      BY <2>4, <1>2, HighAssumption
    <2> QED
      BY <2>4, <2>5
  <1>8. F # {}
    <2> DEFINE T == {mem[c].age : c \in Frames}
    <2>1. T \in SUBSET Nat /\ T # {}
      BY <1>2
    <2>2. PICK t \in T : \A u \in T : t <= u
      <3> HIDE DEF T
      <3> QED
        BY <2>1, LeastNat
    <2>3. PICK c \in Frames : t = mem[c].age
      OBVIOUS
    <2>4. \A d \in Frames : mem[c].age <= mem[d].age
      BY <2>2, <2>3
    <2>5. mem[c].age < HighValue
      BY <2>4, <1>2, HighAssumption
    <2> QED
      BY <2>4, <2>5
  <1> QED
    BY <1>6, <1>7, <1>8

\* The inductive invariant with the shape of the frame store.  After an abort nothing
\* is executed any more.
ShapeInv == /\ IInv
            /\ Shape(State)
            /\ phase = "abort" => cur = Idle /\ AbortsOnly

\* The frame store starts free.
LEMMA InitShape == Init => ShapeInv
  <1> SUFFICES ASSUME Init PROVE ShapeInv
    OBVIOUS
  <1>1. \A q \in 0 .. FrameStore - 1 : State.mem[q].line = NoLine
    BY DEF Init, State, mem_init
  <1>2. \A b \in Frames : b \in Nat /\ b + 3 <= FrameStore
    BY FrameFacts
  <1>3. Together(State.mem)
    BY <1>1, <1>2, FrameAssumption DEF Together, FreeSlots
  <1>4. WholeMem(State.mem)
    <2> SUFFICES ASSUME NEW b \in Frames, NEW j \in 0 .. 2 PROVE State.mem[b + j].line = NoLine
      BY DEF WholeMem
    <2>1. b + j \in 0 .. FrameStore - 1
      BY <1>2, FrameAssumption
    <2> QED
      BY <2>1, <1>1
  <1>5. phase # "abort"
    BY DEF Init
  <1> QED
    BY <1>3, <1>4, <1>5, InitInv DEF ShapeInv, Shape

\* Every step keeps the shape of the frame store.
LEMMA ShapeKept ==
    ASSUME ShapeInv, [Next]_vars
    PROVE  Shape(State)'
  <1>0. /\ State.mem = shellmemory /\ State.time = global_access_time /\ State.pcb = pcb
        /\ State.ready = ready /\ State.pid = pid_counter /\ State.ran = ran
    BY DEF State
  <1>1. /\ IInv /\ Shape(State) /\ StInv(State, ended) /\ ended \subseteq DOMAIN pcb
        /\ (cur # Idle => cur.pid \in DOMAIN pcb \ ended)
    BY DEF IInv, ShapeInv
  <1>2. ASSUME NEW st, IsState(st), Shape(st), SetState(st) PROVE Shape(State)'
    <2>1. State' = st
      BY <1>2, SetStateKeeps
    <2> QED
      BY <1>2, <2>1 DEF Shape, Together, WholeMem, FullPages, FreeSlots
  <1>3. ASSUME NEW st, IsState(st), Shape(st), Requeue(st) PROVE Shape(State)'
    <2> DEFINE st1 == [st EXCEPT !.ready = Append(@, cur.pid)]
    <2>1. IsState(st1) /\ st1.mem = st.mem /\ st1.pcb = st.pcb
      BY <1>3 DEF IsState
    <2> HIDE DEF st1
    <2>2. SetState(st1)
      BY <1>3 DEF Requeue, st1
    <2>3. Shape(st1)
      BY <1>3, <2>1 DEF Shape, FullPages
    <2> QED
      BY <1>2, <2>1, <2>2, <2>3
  <1>4. ASSUME NEW n \in Openers, exec(n) \/ run(n) PROVE Shape(State)'
    <2> DEFINE st1 == process_initialize(State, n)
    <2>1. SetState(st1)
      BY <1>4 DEF exec, run
    <2>2. StInv(st1, ended) /\ Shape(st1)
      BY <1>0, <1>1, InitializeKeeps, InitializeShape, ProgramAssumption
    <2> HIDE DEF st1
    <2> QED
      BY <1>2, <2>1, <2>2 DEF StInv
  <1>5. ASSUME UNCHANGED <<pcb, shellmemory>> PROVE Shape(State)'
    <2>1. State'.mem = State.mem /\ State'.pcb = State.pcb
      BY <1>5 DEF State
    <2>2. Shape(State')
      BY <1>1, <2>1 DEF Shape, FullPages
    <2> QED
      BY <2>2
  <1>6. CASE ExecMissing \/ ExecSchedule \/ RunMissing
             \/ \E policy \in {"LRU", "FIFO"} : set_page_policy(policy)
    BY <1>5, <1>6 DEF ExecMissing, ExecSchedule, RunMissing, set_page_policy
  <1>7. CASE scheduler_RR \/ scheduler_FCFS
    BY <1>5, <1>7 DEF scheduler_RR, scheduler_FCFS, Scheduler
  <1>8. CASE quit
    <2>1. MemInv(State)
      BY <1>1 DEF StInv
    <2>2. shellmemory \in [0 .. FrameStore - 1 -> Cell]
      BY <1>0, <2>1 DEF MemInv
    <2>3. ASSUME NEW q \in 0 .. FrameStore - 1 PROVE State'.mem[q].line = NoLine
      <3>1. shellmemory'[q] = [shellmemory[q] EXCEPT !.line = NoLine] /\ shellmemory[q] \in Cell
        BY <1>8, <2>2 DEF quit, free_shell_memory
      <3>2. shellmemory'[q].line = NoLine
        BY <3>1 DEF Cell
      <3> QED
        BY <3>2 DEF State
    <2>4. \A b \in Frames : b \in Nat /\ b + 3 <= FrameStore
      BY FrameFacts
    <2> DEFINE m == State'.mem
    <2>5. \A q \in 0 .. FrameStore - 1 : m[q].line = NoLine
      BY <2>3
    <2>6. Together(m)
      BY <2>4, <2>5, FrameAssumption DEF Together, FreeSlots
    <2>7. WholeMem(m)
      <3> SUFFICES ASSUME NEW b \in Frames, NEW j \in 0 .. 2 PROVE m[b + j].line = NoLine
        BY DEF WholeMem
      <3>1. b + j \in 0 .. FrameStore - 1
        BY <2>4, FrameAssumption
      <3> QED
        BY <3>1, <2>5
    <2>8. Shape(State')
      BY <2>6, <2>7 DEF Shape
    <2> QED
      BY <2>8
  <1>9. CASE FaultAtEnd
    BY <1>5, <1>9 DEF FaultAtEnd
  <1>10. CASE FaultFree
    <2>1. /\ cur # Idle /\ PageFault /\ ~NoMoreLines(Me) /\ FreeSlots(shellmemory) # {}
          /\ Requeue(load_frame(State, cur.pid))
      BY <1>10 DEF FaultFree
    <2> DEFINE st1 == load_frame(State, cur.pid)
    <2>2. StInv(st1, ended)
      BY <1>0, <1>1, <2>1, LoadFrameKeeps DEF PageFault, Me
    <2>3. (Filled => Together(State.mem)) /\ (FullPages(State) => WholeMem(State.mem))
      BY <1>1 DEF Shape
    <2>4. Shape(st1)
      BY <1>0, <1>1, <2>1, <2>3, LoadFrameShape DEF Me
    <2> HIDE DEF st1
    <2>5. Requeue(st1)
      BY <2>1 DEF st1
    <2> QED
      BY <1>3, <2>2, <2>4, <2>5 DEF StInv
  <1>11. CASE FaultEvict
    <2> DEFINE v == find_replacement_slot(shellmemory)
    <2>1. CASE Removable(shellmemory, v)
      <3>1. /\ cur # Idle /\ PageFault /\ ~NoMoreLines(Me) /\ FreeSlots(shellmemory) = {}
            /\ Requeue(load_frame(remove_frame(State, v), cur.pid))
        BY <1>11, <2>1 DEF FaultEvict
      <3>2. v \in Frames
        BY <2>1, VictimFacts DEF Removable
      <3> HIDE DEF v
      <3> DEFINE st0 == remove_frame(State, v)
                 st1 == load_frame(st0, cur.pid)
      <3>3. StInv(st0, ended) /\ st0.pcb = pcb /\ FreeSlots(st0.mem) # {}
        BY <1>0, <1>1, <3>2, RemoveFrameKeeps
      <3>4. Shape(st1)
        BY <1>0, <1>1, <3>1, <3>2, EvictShape DEF Me
      <3> HIDE DEF st0
      <3>5. StInv(st1, ended)
        BY <1>1, <3>1, <3>3, LoadFrameKeeps DEF PageFault, Me
      <3> HIDE DEF st1
      <3>6. Requeue(st1)
        BY <3>1 DEF st0, st1
      <3> QED
        BY <1>3, <3>4, <3>5, <3>6 DEF StInv
    <2>2. CASE ~Removable(shellmemory, v)
      BY <1>5, <1>11, <2>2 DEF FaultEvict
    <2> QED
      BY <2>1, <2>2
  <1>12. CASE ReadNone
    <2>1. cur # Idle /\ ~PageFault /\ SetState(Touch)
      BY <1>12 DEF ReadNone
    <2> QED
      BY <1>1, <1>2, <2>1, TouchKeeps, TouchShape DEF StInv
  <1>13. CASE ReadLine
    <2>1. /\ cur # Idle /\ ~PageFault /\ Line # NoLine
          /\ SetState(Executed) \/ Requeue(Executed)
      BY <1>13 DEF ReadLine, Executed, Parsed, Started
    <2>2. StInv(Executed, ended)
      BY <1>1, <2>1, ExecutedKeeps
    <2>3. Shape(Executed)
      BY <1>1, <2>1, ExecutedShape
    <2> QED
      BY <1>2, <1>3, <2>1, <2>2, <2>3 DEF StInv
  <1>14. CASE UNCHANGED vars
    BY <1>5, <1>14 DEF vars
  <1> QED
    BY <1>4, <1>6, <1>7, <1>8, <1>9, <1>10, <1>11, <1>12, <1>13, <1>14 DEF Next, execute_process

\* Only an eviction that finds no victim it can free aborts the shell.
LEMMA AbortKept ==
    ASSUME ShapeInv, [Next]_vars, phase' = "abort"
    PROVE  (cur = Idle /\ AbortsOnly)'
  <1>1. CASE phase = "abort"
    <2>1. cur = Idle /\ AbortsOnly
      BY <1>1 DEF ShapeInv
    <2>2. UNCHANGED vars
      BY <1>1, <2>1 DEF Next, exec, run, ExecMissing, ExecSchedule, RunMissing, set_page_policy,
         scheduler_RR, scheduler_FCFS, quit, execute_process, FaultAtEnd, FaultFree, FaultEvict,
         ReadNone, ReadLine
    <2> QED
      BY <2>1, <2>2 DEF vars, AbortsOnly
  <1>2. CASE phase # "abort"
    <2>1. FaultEvict /\ ~Removable(shellmemory, find_replacement_slot(shellmemory))
      <3>1. ~UNCHANGED vars
        BY <1>2 DEF vars
      <3>2. ~\E n \in Openers : exec(n) \/ run(n)
        BY <1>2 DEF exec, run
      <3>3. ~(ExecMissing \/ ExecSchedule \/ RunMissing \/ quit)
        BY <1>2 DEF ExecMissing, ExecSchedule, RunMissing, quit
      <3>4. ~\E policy \in {"LRU", "FIFO"} : set_page_policy(policy)
        BY <1>2 DEF set_page_policy
      <3>5. ~(scheduler_RR \/ scheduler_FCFS)
        BY <1>2 DEF scheduler_RR, scheduler_FCFS, Scheduler
      <3>6. ~(FaultAtEnd \/ FaultFree \/ ReadNone \/ ReadLine)
        BY <1>2 DEF FaultAtEnd, FaultFree, ReadNone, ReadLine
      <3>7. FaultEvict
        BY <3>1, <3>2, <3>3, <3>4, <3>5, <3>6 DEF Next, execute_process
      <3> QED
        BY <3>7, <1>2 DEF FaultEvict
    <2> DEFINE v == find_replacement_slot(shellmemory)
    <2>2. cur' = Idle /\ pcb' = pcb /\ shellmemory' = shellmemory /\ FreeSlots(shellmemory) = {}
      BY <2>1 DEF FaultEvict
    <2>3. MemInv(State) /\ State.mem = shellmemory /\ State.pcb = pcb /\ Shape(State)
      BY DEF ShapeInv, IInv, StInv, State
    <2>4. CASE v = -1
      <3>1. \A b \in Frames : shellmemory[b].accessed >= HighValue
        BY <2>3, <2>4, NoVictim
      <3> QED
        BY <3>1, <2>2 DEF AbortsOnly
    <2>5. CASE v # -1
      <3>1. v \in Frames
        BY <2>5, VictimFacts
      <3>2. PICK j \in 0 .. 2 : shellmemory[v + j].line = NoLine
        BY <2>1, <2>5 DEF Removable
      <3> HIDE DEF v
      <3>3. ~WholeMem(shellmemory)
        BY <3>1, <3>2, <2>2 DEF WholeMem, FreeSlots
      <3>4. \E p \in DOMAIN pcb : Len(pcb[p].prog.lines) % 3 # 0
        BY <3>3, <2>3 DEF Shape, FullPages
      <3> QED
        BY <3>4, <2>2 DEF AbortsOnly
    <2> QED
      BY <2>4, <2>5
  <1> QED
    BY <1>1, <1>2

\* Every reachable state has the shape.
LEMMA ShapeHolds == Spec => []ShapeInv
  <1>1. ShapeInv /\ [Next]_vars => ShapeInv'
    <2> SUFFICES ASSUME ShapeInv, [Next]_vars PROVE ShapeInv'
      OBVIOUS
    <2>1. IInv'
      BY Inductive DEF ShapeInv
    <2>2. Shape(State)'
      BY ShapeKept
    <2>3. phase' = "abort" => (cur = Idle /\ AbortsOnly)'
      BY AbortKept
    <2> QED
      BY <2>1, <2>2, <2>3 DEF ShapeInv
  <1> QED
    BY <1>1, InitShape, PTL DEF Spec

\* For every frame store and every set of scripts, none of them empty or ending in a
\* newline, the free frames stay together at the end of the frame store, through
\* admissions, page faults, evictions and scripts that start scripts: load_file,
\* which looks at the first free frame only and writes two pages, overwrites nothing.
\* Without the hypothesis load_frame may load no line into the frame it took.
THEOREM FreeFramesTogether ==
    ASSUME Filled
    PROVE  Spec => []FreeTogether
  <1>1. ShapeInv => FreeTogether
    <2> SUFFICES ASSUME ShapeInv, FreeSlots(shellmemory) # {},
                        NEW q \in find_available_slot(shellmemory) .. FrameStore - 1
                 PROVE  shellmemory[q].line = NoLine
      BY DEF FreeTogether
    <2>1. Together(shellmemory)
      BY DEF ShapeInv, Shape, State
    <2> QED
      BY <2>1, SlotFacts DEF Together
  <1> QED
    BY <1>1, ShapeHolds, PTL

\* For every frame store, clock limit and set of scripts, remove_frame meets a victim
\* it cannot free only when a script with an incomplete last page was loaded, or when
\* every frame was touched after the clock passed the value the searches start from.
THEOREM AbortsOnlyThen == Spec => []AbortsOnly
  <1>1. ShapeInv => AbortsOnly
    BY DEF ShapeInv, AbortsOnly
  <1> QED
    BY <1>1, ShapeHolds, PTL

-----------------------------------------------------------------------------
\* Round robin.  The predicates below are about a record of the kernel's state and
\* the process c being executed, whose pid is 0 if there is none.

\* Lines of the script, and lines executed.
Size(x) == Len(x.prog.lines)
Done(x) == 3 * (x.currentPage - 1) + x.currentLine

\* The processes that have not ended.
Live(st, c) == ({st.ready[i] : i \in 1 .. Len(st.ready)} \cup {c.pid}) \ {0}

\* Lines left in the turn of q.
Left(c, q) == IF c.pid = q THEN c.left ELSE 2

\* Pages, from 0 on, that are loaded and not finished, and where they are.
Pending(x) == {h \in Nat : x.currentPage <= h + 1 /\ h < x.pageCounter}
Base(x, h) == x.PC - x.currentLine + 3 * (h + 1 - x.currentPage)

\* The frames in use.
Used(mem) == Frames \ FreeSlots(mem)

\* What the searches for a victim compare, and the frames they prefer to b.
Key(pol, cell) == IF pol = "LRU" THEN cell.accessed ELSE cell.age
Older(pol, mem, b) == {a \in Used(mem) : Key(pol, mem[a]) < Key(pol, mem[b])}

\* A process loads two pages when it is admitted and later ones one at a time.
Shaped(x, left) ==
    /\ x.pageCounter >= 1 /\ x.currentPage >= 1
    /\ 3 * (x.pageCounter - 1) < Size(x)
    /\ Done(x) <= Size(x)
    /\ x.currentPage < x.pageCounter =>
         /\ x.pageCounter = 2 /\ x.currentPage = 1
         /\ <<x.currentLine, left>> \in {<<0, 2>>, <<1, 1>>, <<2, 0>>, <<2, 2>>}

\* The current page and those loaded after it are where the program counter says.
Located(mem, p, x) ==
    LET b == x.PC - x.currentLine
        d == 3 * (x.currentPage - 1)
    IN  x.currentPage <= x.pageCounter =>
          /\ b \in Frames
          /\ \A i \in d .. 3 * x.pageCounter - 1 :
                mem[b + i - d].line = IF i < Size(x) THEN <<p, i + 1>> ELSE NoLine

\* No other line in memory is one the process has still to execute.
NoStray(mem, p, x) ==
    \A q \in 0 .. FrameStore - 1 :
       mem[q].line[1] = p /\ mem[q].line[2] > Done(x) =>
          /\ mem[q].line[2] <= 3 * x.pageCounter
          /\ q = x.PC + mem[q].line[2] - Done(x) - 1

\* All of this, for one process.  It has two pages as long as frames are left.
Process(st, c, p) ==
    LET x == st.pcb[p]
    IN  /\ Shaped(x, Left(c, p))
        /\ Located(st.mem, p, x)
        /\ NoStray(st.mem, p, x)
        /\ st.ran[p] = [k \in 1 .. Done(x) |-> <<p, k>>]
        /\ FreeSlots(st.mem) # {} /\ Size(x) > 3 => x.pageCounter >= 2

\* The pages that are loaded at admission if there is room.
Early(st, c) == {e \in Live(st, c) \X {0, 1} : 3 * e[2] < Size(st.pcb[e[1]])}

\* The processes, and that each has had a frame.
Rounds(st, c) ==
    /\ \A p \in Live(st, c) : Process(st, c, p)
    /\ Cardinality(Live(st, c)) <= Cardinality(Used(st.mem))
    /\ FreeSlots(st.mem) # {} => Cardinality(Early(st, c)) <= Cardinality(Used(st.mem))

\* The state inside a turn.
Ready(st, c, done) ==
    /\ StInv(st, done) /\ Together(st.mem)
    /\ c \in [pid : Nat, left : Int]
    /\ c.pid # 0 => c.pid \in DOMAIN st.pcb \ done /\ NotReady(c.pid, st) /\ c.left \in 0 .. 2
    /\ Rounds(st, c)

\* The line with which the process touches the frame of its page h again, or
\* finishes it, and the turns until then, the one that goes on included.
Target(pol, x, h) == IF pol = "LRU" /\ Done(x) <= 3 * h THEN 3 * h + 1 ELSE 3 * h + 3
Half(m) == m \div 2
Turns(pol, x, left, h) == Half((Target(pol, x, h) - Done(x) + 3) - left)

\* q has its next turn before r.
Ahead(st, c, q, r) ==
    \/ q = c.pid
    \/ \E a, b \in 1 .. Len(st.ready) : a < b /\ st.ready[a] = q /\ st.ready[b] = r

\* The turns q has while r has n.
TurnsOf(st, c, q, r, n) == IF Ahead(st, c, q, r) THEN n ELSE n - 1

\* The lines a process has executed or faulted at after n turns are at most these:
\* a fault ends a turn.
Reach(x, left, n) ==
    IF x.currentPage > x.pageCounter THEN Done(x) + 2 * (IF left = 0 THEN n - 1 ELSE n) - 1
    ELSE Done(x) + 2 * n - 2 + left

\* How far q gets before r has reached the target for its page h.
ReachOf(pol, st, c, q, r, h) ==
    LET n == Turns(pol, st.pcb[r], Left(c, r), h)
    IN  Reach(st.pcb[q], Left(c, q), TurnsOf(st, c, q, r, n))

\* By then page i of q may be loaded, or touched if its frame is older.
Renews(pol, st, c, q, i, r, h) ==
    LET x == st.pcb[q]
    IN  /\ Done(x) <= 3 * i /\ 3 * i < Size(x)
        /\ 3 * i < ReachOf(pol, st, c, q, r, h)
        /\ i < x.pageCounter =>
              /\ pol = "LRU"
              /\ Key(pol, st.mem[Base(x, i)]) < Key(pol, st.mem[Base(st.pcb[r], h)])

\* The pages that may be renewed by others, and by r itself its first page if the
\* second is meant.  With FIFO the first page only stands for the page that one
\* more process may load if no frame is left for it at its admission.
Events(pol, st, c, r, h) ==
    {e \in (Live(st, c) \ {r}) \X Nat : Renews(pol, st, c, e[1], e[2], r, h)}
    \cup {e \in {r} \X {0} : /\ h = 1
                             /\ IF pol = "LRU" THEN Done(st.pcb[r]) = 0
                                ELSE FreeSlots(st.mem) # {}}

\* For every page that is needed there are as many older frames as pages that may
\* be renewed before.
Affords(pol, st, c, r, h) ==
    /\ IsFiniteSet(Events(pol, st, c, r, h))
    /\ Cardinality(Events(pol, st, c, r, h)) <= Cardinality(Older(pol, st.mem, Base(st.pcb[r], h)))

Budget(pol, st, c) ==
    \A r \in Live(st, c) : \A h \in Pending(st.pcb[r]) : Affords(pol, st, c, r, h)

\* The policies.
Policies == {"LRU", "FIFO"}

\* The frames after a frame, as far as the frame store goes.
LEMMA FramesHas ==
    ASSUME NEW b \in Frames, NEW m \in Nat, b + 3 * m + 3 <= FrameStore
    PROVE  b + 3 * m \in Frames
  <1>1. PICK k \in 0 .. FrameStore \div 3 - 1 : b = 3 * k
    BY DEF Frames
  <1>2. k + m \in 0 .. FrameStore \div 3 - 1 /\ b + 3 * m = 3 * (k + m)
    BY <1>1, FrameAssumption
  <1> QED
    BY <1>2 DEF Frames

\* Sets of frames are finite.
LEMMA FramesFinite ==
    ASSUME NEW S \in SUBSET Frames
    PROVE  IsFiniteSet(S) /\ Cardinality(S) \in Nat
  <1>1. IsFiniteSet(0 .. FrameStore)
    <2>1. 0 \in Int /\ FrameStore \in Int
      BY FrameAssumption
    <2> QED
      BY <2>1, FS_Interval
  <1>2. Frames \in SUBSET (0 .. FrameStore)
    <2> SUFFICES ASSUME NEW b \in Frames PROVE b \in 0 .. FrameStore
      OBVIOUS
    <2> QED
      BY FrameFacts, FrameAssumption
  <1>3. S \in SUBSET (0 .. FrameStore)
    BY <1>2
  <1>4. IsFiniteSet(S)
    BY <1>1, <1>3, FS_Subset
  <1> QED
    BY <1>4, FS_CardinalityType

\* Frames do not overlap.
LEMMA FrameCells ==
    ASSUME NEW a \in Frames, NEW b \in Frames, a # b, NEW i \in 0 .. 2, NEW j \in 0 .. 2
    PROVE  a + i # b + j
  <1>1. PICK k \in 0 .. FrameStore \div 3 - 1 : a = 3 * k
    BY DEF Frames
  <1>2. PICK l \in 0 .. FrameStore \div 3 - 1 : b = 3 * l
    BY DEF Frames
  <1>3. k \in Int /\ l \in Int /\ k # l
    BY <1>1, <1>2
  <1> QED
    BY <1>1, <1>2, <1>3

\* The type of what is computed from a PCB.
LEMMA PcbTypes ==
    ASSUME NEW x \in PCB
    PROVE  /\ x.PC \in 0 .. FrameStore /\ x.PC \in Nat
           /\ x.currentPage \in Nat /\ x.currentLine \in 0 .. 2 /\ x.pageCounter \in Nat
           /\ Size(x) \in Nat /\ Done(x) \in Int
           /\ x.currentPage >= 1 => Done(x) \in Nat
           /\ Filled => Size(x) > 0 /\ ~x.prog.nl
  <1>1. /\ x.PC \in 0 .. FrameStore /\ x.currentPage \in Nat
        /\ x.currentLine \in 0 .. 2 /\ x.pageCounter \in Nat
    BY DEF PCB
  <1>2. PICK n \in DOMAIN Programs : x.prog = Programs[n]
    BY ScriptLen
  <1>3. Size(x) \in Nat
    BY ScriptLen DEF Size
  <1>4. Filled => Size(x) > 0 /\ ~x.prog.nl
    BY <1>2 DEF Filled, Size
  <1> QED
    BY <1>1, <1>3, <1>4, FrameAssumption DEF Done

\* The type of a process, and how far it is.
Regular(x, left) ==
    /\ x.PC \in 0 .. FrameStore /\ x.PC \in Nat /\ x.currentLine \in 0 .. 2
    /\ x.currentPage \in Nat \ {0} /\ x.pageCounter \in Nat \ {0}
    /\ x.currentPage <= x.pageCounter + 1
    /\ x.currentPage > x.pageCounter => x.currentLine = 0
    /\ Size(x) \in Nat /\ Done(x) \in Nat /\ left \in 0 .. 2

\* What the predicates above say of one process.
LEMMA LiveFacts ==
    ASSUME NEW st, NEW c, NEW done, Ready(st, c, done), NEW p \in Live(st, c)
    PROVE  /\ p \in DOMAIN st.pcb \ done /\ p \in Nat \ {0}
           /\ st.pcb[p] \in PCB /\ InPage(st.pcb[p])
           /\ Process(st, c, p) /\ Regular(st.pcb[p], Left(c, p))
           /\ Shaped(st.pcb[p], Left(c, p))
           /\ Located(st.mem, p, st.pcb[p]) /\ NoStray(st.mem, p, st.pcb[p])
  <1> DEFINE x == st.pcb[p]
  <1>1. StInv(st, done) /\ PcbInv(st, done) /\ ReadyInv(st, done)
    BY DEF Ready, StInv
  <1>2. p \in DOMAIN st.pcb \ done
    <2>1. \A i \in 1 .. Len(st.ready) : st.ready[i] \in DOMAIN st.pcb \ done
      BY <1>1 DEF ReadyInv
    <2> QED
      BY <2>1 DEF Live, Ready
  <1>3. p \in Nat \ {0} /\ x \in PCB /\ InPage(x)
    BY <1>1, <1>2 DEF PcbInv
  <1>4. Process(st, c, p)
    BY DEF Ready, Rounds
  <1>5. Shaped(x, Left(c, p)) /\ Located(st.mem, p, x) /\ NoStray(st.mem, p, x)
    BY <1>4 DEF Process
  <1>6. x.currentPage >= 1 /\ x.pageCounter >= 1
    BY <1>5 DEF Shaped
  <1>7. x.currentPage <= x.pageCounter + 1 /\ (x.currentPage > x.pageCounter => x.currentLine = 0)
    BY <1>3 DEF InPage
  <1>8. Left(c, p) \in 0 .. 2
    BY <1>3 DEF Left, Ready
  <1> HIDE DEF x
  <1>9. /\ x.PC \in 0 .. FrameStore /\ x.PC \in Nat /\ x.currentLine \in 0 .. 2
        /\ x.currentPage \in Nat /\ x.pageCounter \in Nat
        /\ Done(x) \in Nat /\ Size(x) \in Nat
    BY <1>3, <1>6, PcbTypes
  <1>10. Regular(x, Left(c, p))
    BY <1>6, <1>7, <1>8, <1>9 DEF Regular
  <1> QED
    BY <1>2, <1>3, <1>4, <1>5, <1>10 DEF x

\* A pending page is in a frame whose first line is the first of the page.
PageAt(mem, p, x, h) ==
    /\ h \in Nat /\ x.currentPage <= h + 1 /\ h < x.pageCounter
    /\ Base(x, h) \in Frames /\ Base(x, h) \in Used(mem)
    /\ mem[Base(x, h)].line = <<p, 3 * h + 1>>
    /\ 3 * h < Size(x) /\ Done(x) < 3 * h + 3

\* A pending page is where Base says.
LEMMA PageFacts ==
    ASSUME NEW st, NEW c, NEW done, Ready(st, c, done), NEW p \in Live(st, c),
           NEW h \in Pending(st.pcb[p])
    PROVE  PageAt(st.mem, p, st.pcb[p], h)
  <1> DEFINE x == st.pcb[p]
  <1>1. /\ x \in PCB /\ InPage(x) /\ Shaped(x, Left(c, p)) /\ Located(st.mem, p, x)
        /\ Regular(x, Left(c, p)) /\ p \in Nat \ {0}
    BY LiveFacts
  <1>2. /\ x.PC \in Nat /\ x.currentPage \in Nat \ {0} /\ x.currentLine \in 0 .. 2
        /\ x.pageCounter \in Nat /\ Size(x) \in Nat
    BY <1>1 DEF Regular
  <1>3. h \in Nat /\ x.currentPage <= h + 1 /\ h < x.pageCounter
    BY DEF Pending
  <1> HIDE DEF x
  <1> DEFINE b == x.PC - x.currentLine
             m == h + 1 - x.currentPage
             d == 3 * (x.currentPage - 1)
  <1>4. b \in Frames /\ \A i \in d .. 3 * x.pageCounter - 1 :
           st.mem[b + i - d].line = IF i < Size(x) THEN <<p, i + 1>> ELSE NoLine
    BY <1>1, <1>2, <1>3 DEF Located
  <1>5. m \in Nat /\ b + 3 * m + 3 <= FrameStore /\ b \in Int
    <2>1. b + 3 * (x.pageCounter - x.currentPage + 1) <= FrameStore
      BY <1>1, <1>2, <1>3 DEF InPage
    <2> QED
      BY <2>1, <1>2, <1>3, FrameAssumption
  <1>6. b + 3 * m \in Frames
    <2> HIDE DEF b, m
    <2> QED
      BY <1>4, <1>5, FramesHas
  <1>7. 3 * h < Size(x) /\ Done(x) < 3 * h + 3
    BY <1>1, <1>2, <1>3 DEF Shaped, Done
  <1>8. 3 * h \in d .. 3 * x.pageCounter - 1 /\ b + 3 * h - d = b + 3 * m
    BY <1>2, <1>3, <1>1
  <1>9. st.mem[b + 3 * m].line = <<p, 3 * h + 1>>
    BY <1>4, <1>7, <1>8
  <1>10. Base(x, h) = b + 3 * m
    BY DEF Base
  <1> HIDE DEF b, m, d
  <1>11. b + 3 * m \notin FreeSlots(st.mem)
    <2> DEFINE f == b + 3 * m
    <2>1. f + 0 = f /\ st.mem[f].line = <<p, 3 * h + 1>>
      BY <1>5, <1>9
    <2> HIDE DEF f
    <2>2. st.mem[f + 0].line # NoLine
      BY <2>1, <1>1, <1>3 DEF NoLine
    <2>3. 0 \in 0 .. 2
      OBVIOUS
    <2>4. f \notin FreeSlots(st.mem)
      BY <2>2, <2>3 DEF FreeSlots
    <2> QED
      BY <2>4 DEF f
  <1> QED
    BY <1>3, <1>6, <1>7, <1>9, <1>10, <1>11 DEF Used, PageAt, x

\* Two pending pages are in two frames.
LEMMA PagesApart ==
    ASSUME NEW st, NEW c, NEW done, Ready(st, c, done),
           NEW p \in Live(st, c), NEW q \in Live(st, c),
           NEW h \in Pending(st.pcb[p]), NEW i \in Pending(st.pcb[q]),
           Base(st.pcb[p], h) = Base(st.pcb[q], i)
    PROVE  p = q /\ h = i
  <1>1. st.mem[Base(st.pcb[p], h)].line = <<p, 3 * h + 1>> /\ h \in Nat
    BY PageFacts DEF PageAt
  <1>2. st.mem[Base(st.pcb[q], i)].line = <<q, 3 * i + 1>> /\ i \in Nat
    BY PageFacts DEF PageAt
  <1>3. <<p, 3 * h + 1>> = <<q, 3 * i + 1>>
    BY <1>1, <1>2
  <1>4. p = q /\ 3 * h + 1 = 3 * i + 1
    BY <1>3
  <1> QED
    BY <1>1, <1>2, <1>4

\* Fewer events, or as many older frames; or one event less for one frame less.
LEMMA StillAfforded ==
    ASSUME NEW E, NEW O, NEW E2, NEW O2, IsFiniteSet(E), IsFiniteSet(O), IsFiniteSet(O2),
           Cardinality(E) <= Cardinality(O),
           \/ E2 \subseteq E /\ O \subseteq O2
           \/ \E e \in E : \E b : E2 \subseteq E \ {e} /\ O \ {b} \subseteq O2
    PROVE  IsFiniteSet(E2) /\ Cardinality(E2) <= Cardinality(O2)
  <1>1. Cardinality(E) \in Nat /\ Cardinality(O) \in Nat /\ Cardinality(O2) \in Nat
    BY FS_CardinalityType
  <1>2. CASE E2 \subseteq E /\ O \subseteq O2
    <2>1. IsFiniteSet(E2) /\ Cardinality(E2) <= Cardinality(E) /\ Cardinality(O) <= Cardinality(O2)
      BY <1>2, FS_Subset
    <2>2. Cardinality(E2) \in Nat
      BY <2>1, FS_CardinalityType
    <2> QED
      BY <2>1, <2>2, <1>1
  <1>3. CASE \E e \in E : \E b : E2 \subseteq E \ {e} /\ O \ {b} \subseteq O2
    <2>0. PICK e \in E : \E b : E2 \subseteq E \ {e} /\ O \ {b} \subseteq O2
      BY <1>3
    <2>1. PICK b : E2 \subseteq E \ {e} /\ O \ {b} \subseteq O2
      BY <2>0
    <2>2. IsFiniteSet(E \ {e}) /\ Cardinality(E \ {e}) = Cardinality(E) - 1
      BY <2>1, FS_RemoveElement
    <2>3. IsFiniteSet(O \ {b}) /\ Cardinality(O) - 1 <= Cardinality(O \ {b})
          /\ Cardinality(O \ {b}) \in Nat
      <3>1. IsFiniteSet(O \ {b})
            /\ Cardinality(O \ {b}) = IF b \in O THEN Cardinality(O) - 1 ELSE Cardinality(O)
        BY FS_RemoveElement
      <3>2. Cardinality(O \ {b}) \in Nat
        BY <3>1, FS_CardinalityType
      <3> QED
        BY <3>1, <3>2, <1>1
    <2>4. IsFiniteSet(E2) /\ Cardinality(E2) <= Cardinality(E \ {e})
      BY <2>1, <2>2, FS_Subset
    <2>5. Cardinality(O \ {b}) <= Cardinality(O2)
      BY <2>1, FS_Subset
    <2>6. Cardinality(E2) \in Nat
      BY <2>4, FS_CardinalityType
    <2> QED
      BY <2>2, <2>3, <2>4, <2>5, <2>6, <1>1
  <1> QED
    BY <1>2, <1>3

\* Halves are rounded down, below zero too.
LEMMA HalfFacts ==
    ASSUME NEW m \in Int
    PROVE  /\ Half(m) \in Int /\ 2 * Half(m) <= m /\ m <= 2 * Half(m) + 1
           /\ Half(m - 2) = Half(m) - 1
  BY DEF Half

\* Where the target of a pending page is, and how many turns away.
LEMMA TurnsFacts ==
    ASSUME NEW pol \in Policies, NEW x, NEW left, Regular(x, left), Shaped(x, left), NEW h \in Pending(x)
    PROVE  /\ Turns(pol, x, left, h) \in 1 .. 3
           /\ pol = "LRU" => Turns(pol, x, left, h) <= 2
           /\ Turns(pol, x, left, h) = 3 => \/ h = 1 /\ x.pageCounter = 2 /\ x.currentPage = 1
                                            \/ left = 0 /\ Done(x) = 3 * h
  <1> DEFINE t == Target(pol, x, h) - Done(x)
             l == x.currentLine
  <1>1. /\ h \in Nat /\ x.currentPage <= h + 1 /\ h < x.pageCounter /\ left \in 0 .. 2
        /\ x.currentPage \in Nat \ {0} /\ x.pageCounter \in Nat \ {0} /\ l \in 0 .. 2
        /\ Done(x) = 3 * (x.currentPage - 1) + l
    BY DEF Pending, Regular, Done
  <1>2. CASE h + 1 = x.currentPage
    <2>1. Done(x) = 3 * h + l
      BY <1>1, <1>2
    <2>2. t = IF pol = "LRU" /\ l = 0 THEN 1 ELSE 3 - l
      BY <2>1, <1>1 DEF Target
    <2> HIDE DEF t
    <2>3. t \in Int /\ (t + 3) - left \in 2 .. 6 /\ (pol = "LRU" => (t + 3) - left <= 5)
          /\ ((t + 3) - left = 6 => l = 0 /\ left = 0)
      BY <2>2, <1>1
    <2>4. Turns(pol, x, left, h) = Half((t + 3) - left)
      BY DEF Turns, t
    <2> QED
      BY <2>1, <2>3, <2>4, <1>1 DEF Half
  <1>3. CASE h + 1 # x.currentPage
    <2>1. x.currentPage < x.pageCounter
      BY <1>1, <1>3
    <2>2. /\ x.pageCounter = 2 /\ x.currentPage = 1 /\ h = 1
          /\ <<l, left>> \in {<<0, 2>>, <<1, 1>>, <<2, 0>>, <<2, 2>>}
      BY <2>1, <1>1, <1>3 DEF Shaped
    <2>3. Done(x) = l
      BY <2>2, <1>1
    <2>4. t = IF pol = "LRU" THEN 4 - l ELSE 6 - l
      BY <2>2, <2>3, <1>1 DEF Target
    <2> HIDE DEF t
    <2>5. \/ l = 0 /\ left = 2
          \/ l = 1 /\ left = 1
          \/ l = 2 /\ left = 0
          \/ l = 2 /\ left = 2
      BY <2>2
    <2>6. t \in Int /\ (t + 3) - left \in 3 .. 7 /\ (pol = "LRU" => (t + 3) - left <= 5)
      BY <2>4, <2>5
    <2>7. Turns(pol, x, left, h) = Half((t + 3) - left)
      BY DEF Turns, t
    <2> QED
      BY <2>2, <2>6, <2>7 DEF Half
  <1> QED
    BY <1>2, <1>3

\* Nobody is ahead of the process that is executing, and it is ahead of everybody.
LEMMA AheadFacts ==
    ASSUME NEW st, NEW c, NEW done, Ready(st, c, done), NEW q, NEW r
    PROVE  /\ Ahead(st, c, c.pid, r)
           /\ r = c.pid /\ q # r /\ r # 0 => ~Ahead(st, c, q, r)
  BY DEF Ahead, Ready, NotReady

\* The turns of q.
LEMMA TurnsOfFacts ==
    ASSUME NEW st, NEW c, NEW q, NEW r, NEW n \in 1 .. 3
    PROVE  TurnsOf(st, c, q, r, n) \in 0 .. 3 /\ TurnsOf(st, c, q, r, n) <= n
           /\ TurnsOf(st, c, q, r, n) \in {n - 1, n}
  BY DEF TurnsOf

\* A process executes at most six lines before a pending page is reached.
LEMMA ReachType ==
    ASSUME NEW pol \in Policies, NEW st, NEW c, NEW done, Ready(st, c, done),
           NEW q \in Live(st, c), NEW r \in Live(st, c), NEW h \in Pending(st.pcb[r])
    PROVE  /\ ReachOf(pol, st, c, q, r, h) \in Int
           /\ ReachOf(pol, st, c, q, r, h) <= Done(st.pcb[q]) + 6
  <1> DEFINE x == st.pcb[q]
             n == Turns(pol, st.pcb[r], Left(c, r), h)
             m == TurnsOf(st, c, q, r, n)
  <1>1. Regular(x, Left(c, q)) /\ Regular(st.pcb[r], Left(c, r)) /\ Shaped(st.pcb[r], Left(c, r))
    BY LiveFacts
  <1>2. n \in 1 .. 3
    BY <1>1, TurnsFacts
  <1> HIDE DEF n
  <1>3. m \in 0 .. 3
    BY <1>2, TurnsOfFacts
  <1>4. ReachOf(pol, st, c, q, r, h) = Reach(x, Left(c, q), m)
    BY DEF ReachOf, n
  <1> HIDE DEF m, x
  <1>5. Done(x) \in Nat /\ Left(c, q) \in 0 .. 2
    BY <1>1 DEF Regular
  <1>6. Reach(x, Left(c, q), m) \in Int /\ Reach(x, Left(c, q), m) <= Done(x) + 6
    BY <1>3, <1>5 DEF Reach
  <1> QED
    BY <1>4, <1>6 DEF x

\* The same lines, and the same keys of frames.
SameLines(mem, mem2) == \A q \in 0 .. FrameStore - 1 : mem2[q].line = mem[q].line

\* The same to the searches for a victim as well.
SameMemory(mem, mem2) ==
    /\ SameLines(mem, mem2)
    /\ \A b \in Frames : /\ mem2[b].accessed = mem[b].accessed
                         /\ mem2[b].age = mem[b].age

\* The same lines leave the same frames free.
LEMMA SameSlots ==
    ASSUME NEW mem, NEW mem2, SameLines(mem, mem2)
    PROVE  FreeSlots(mem2) = FreeSlots(mem) /\ Used(mem2) = Used(mem)
  <1>1. ASSUME NEW b \in Frames, NEW j \in 0 .. 2 PROVE mem2[b + j].line = mem[b + j].line
    <2>1. b \in Nat /\ b + 3 <= FrameStore
      BY FrameFacts
    <2>2. b + j \in 0 .. FrameStore - 1
      BY <2>1, FrameAssumption
    <2> QED
      BY <2>2 DEF SameLines
  <1>2. FreeSlots(mem2) = FreeSlots(mem)
    BY <1>1 DEF FreeSlots
  <1> QED
    BY <1>2 DEF Used

\* A process that is not touched keeps what is said about it.
LEMMA ProcessSame ==
    ASSUME NEW st, NEW c, NEW done, Ready(st, c, done), NEW st2, NEW c2,
           NEW p \in Live(st, c), st2.pcb[p] = st.pcb[p], st2.ran[p] = st.ran[p],
           SameLines(st.mem, st2.mem), Shaped(st.pcb[p], Left(c2, p))
    PROVE  Process(st2, c2, p)
  <1> DEFINE x == st.pcb[p]
             k == 3 * x.pageCounter
             d == 3 * (x.currentPage - 1)
             b == x.PC - x.currentLine
  <1>1. /\ Process(st, c, p) /\ Regular(x, Left(c, p)) /\ InPage(x)
        /\ Located(st.mem, p, x) /\ NoStray(st.mem, p, x)
    BY LiveFacts
  <1>2. FreeSlots(st2.mem) = FreeSlots(st.mem)
    BY SameSlots
  <1>3. NoStray(st2.mem, p, x)
    BY <1>1 DEF NoStray, SameLines
  <1>4. Located(st2.mem, p, x)
    <2> HIDE DEF x
    <2> SUFFICES ASSUME x.currentPage <= x.pageCounter
                 PROVE  /\ b \in Frames
                        /\ \A i \in d .. k - 1 :
                             st2.mem[b + i - d].line = IF i < Size(x) THEN <<p, i + 1>> ELSE NoLine
      BY DEF Located
    <2>1. /\ b \in Frames
          /\ \A i \in d .. k - 1 :
                st.mem[b + i - d].line = IF i < Size(x) THEN <<p, i + 1>> ELSE NoLine
      BY <1>1 DEF Located
    <2>2. ASSUME NEW i \in d .. k - 1 PROVE b + i - d \in 0 .. FrameStore - 1
      <3>1. /\ x.PC \in Nat /\ x.currentLine \in 0 .. 2 /\ x.currentPage \in Nat
            /\ x.pageCounter \in Nat
        BY <1>1 DEF Regular
      <3>2. b + 3 * (x.pageCounter - x.currentPage + 1) <= FrameStore
        BY <1>1, <3>1 DEF InPage
      <3>3. b \in Nat
        BY <2>1, FrameFacts
      <3>4. i \in Int /\ i - d >= 0 /\ i - d < 3 * (x.pageCounter - x.currentPage + 1)
        BY <3>1
      <3>5. b + i - d = b + (i - d) /\ d \in Int
        BY <3>1, <3>3, <3>4
      <3> HIDE DEF b, d, k
      <3> QED
        BY <3>1, <3>2, <3>3, <3>4, <3>5, FrameAssumption
    <2>3. \A i \in d .. k - 1 : st2.mem[b + i - d].line = st.mem[b + i - d].line
      BY <2>2 DEF SameLines
    <2> HIDE DEF b, d, k
    <2> QED
      BY <2>1, <2>3
  <1> QED
    BY <1>1, <1>2, <1>3, <1>4 DEF Process

\* There are finitely many processes.
LEMMA LiveFinite ==
    ASSUME NEW st, NEW c, NEW done, Ready(st, c, done)
    PROVE  /\ IsFiniteSet(Live(st, c)) /\ Cardinality(Live(st, c)) \in Nat
           /\ IsFiniteSet(Early(st, c)) /\ Cardinality(Early(st, c)) \in Nat
  <1>1. PcbInv(st, done)
    BY DEF Ready, StInv
  <1>2. st.pid - 1 \in Int /\ 1 \in Int /\ DOMAIN st.pcb \subseteq 1 .. st.pid - 1
    BY <1>1 DEF PcbInv
  <1>3. IsFiniteSet(1 .. st.pid - 1)
    BY <1>2, FS_Interval
  <1>4. Live(st, c) \in SUBSET (1 .. st.pid - 1)
    BY <1>2, LiveFacts
  <1>5. IsFiniteSet(Live(st, c))
    BY <1>3, <1>4, FS_Subset
  <1>6. IsFiniteSet({0, 1})
    <2>1. 0 \in Int /\ 1 \in Int /\ 0 .. 1 = {0, 1}
      OBVIOUS
    <2>2. IsFiniteSet(0 .. 1)
      BY <2>1, FS_Interval
    <2> QED
      BY <2>1, <2>2
  <1>7. IsFiniteSet(Live(st, c) \X {0, 1})
    BY <1>5, <1>6, FS_Product
  <1>8. Early(st, c) \in SUBSET (Live(st, c) \X {0, 1})
    BY DEF Early
  <1>9. IsFiniteSet(Early(st, c))
    BY <1>7, <1>8, FS_Subset
  <1> QED
    BY <1>5, <1>9, FS_CardinalityType

\* Nobody is added or changed.
Untouched(st, c, st2, c2) ==
    /\ Live(st2, c2) \subseteq Live(st, c)
    /\ \A p \in Live(st2, c2) : /\ st2.pcb[p] = st.pcb[p] /\ st2.ran[p] = st.ran[p]
                                 /\ Shaped(st.pcb[p], Left(c2, p))

\* Nobody gets farther than before.
NotFarther(st, c, st2, c2) ==
    \A pol \in Policies : \A q, r \in Live(st2, c2) : \A h \in Pending(st.pcb[r]) :
       q # r => /\ ReachOf(pol, st2, c2, q, r, h) <= ReachOf(pol, st, c, q, r, h)
                /\ ReachOf(pol, st2, c2, q, r, h) \in Int

\* The step keeps the invariant of round robin, under either policy.
Kept(st, c, st2, c2) ==
    /\ Rounds(st2, c2)
    /\ \A pol \in Policies : Budget(pol, st, c) => Budget(pol, st2, c2)

\* Steps of the queue.
LEMMA QueueStep ==
    ASSUME NEW st, NEW c, NEW done, Ready(st, c, done), NEW st2, NEW c2,
           SameMemory(st.mem, st2.mem), Untouched(st, c, st2, c2), NotFarther(st, c, st2, c2)
    PROVE  Kept(st, c, st2, c2)
  <1>0. /\ Live(st2, c2) \subseteq Live(st, c)
        /\ \A p \in Live(st2, c2) : /\ st2.pcb[p] = st.pcb[p] /\ st2.ran[p] = st.ran[p]
                                     /\ Shaped(st.pcb[p], Left(c2, p))
    BY DEF Untouched
  <1>1. \A p \in Live(st2, c2) : Process(st2, c2, p)
    BY <1>0, ProcessSame DEF SameMemory
  <1>2. FreeSlots(st2.mem) = FreeSlots(st.mem) /\ Used(st2.mem) = Used(st.mem)
    BY SameSlots DEF SameMemory
  <1>3. /\ IsFiniteSet(Live(st, c)) /\ Cardinality(Live(st, c)) \in Nat
        /\ IsFiniteSet(Early(st, c)) /\ Cardinality(Early(st, c)) \in Nat
    BY LiveFinite
  <1>4. Used(st.mem) \in SUBSET Frames
    BY DEF Used
  <1>5. IsFiniteSet(Used(st.mem)) /\ Cardinality(Used(st.mem)) \in Nat
    BY <1>4, FramesFinite
  <1>6. Rounds(st2, c2)
    <2>1. IsFiniteSet(Live(st2, c2)) /\ Cardinality(Live(st2, c2)) <= Cardinality(Live(st, c))
      BY <1>0, <1>3, FS_Subset
    <2>2. Cardinality(Live(st2, c2)) \in Nat
      BY <2>1, FS_CardinalityType
    <2>3. Early(st2, c2) \subseteq Early(st, c)
      <3> SUFFICES ASSUME NEW e \in Early(st2, c2) PROVE e \in Early(st, c)
        OBVIOUS
      <3>1. e \in Live(st2, c2) \X {0, 1} /\ 3 * e[2] < Size(st2.pcb[e[1]])
        BY DEF Early
      <3>2. e[1] \in Live(st2, c2) /\ e \in Live(st, c) \X {0, 1}
        BY <3>1, <1>0
      <3>3. st2.pcb[e[1]] = st.pcb[e[1]]
        BY <3>2, <1>0
      <3> QED
        BY <3>1, <3>2, <3>3 DEF Early
    <2>4. IsFiniteSet(Early(st2, c2)) /\ Cardinality(Early(st2, c2)) <= Cardinality(Early(st, c))
      BY <2>3, <1>3, FS_Subset
    <2>5. Cardinality(Early(st2, c2)) \in Nat
      BY <2>4, FS_CardinalityType
    <2>6. /\ Cardinality(Live(st, c)) <= Cardinality(Used(st.mem))
          /\ FreeSlots(st.mem) # {} => Cardinality(Early(st, c)) <= Cardinality(Used(st.mem))
      BY DEF Ready, Rounds
    <2> QED
      BY <1>1, <1>2, <1>3, <1>5, <2>1, <2>2, <2>4, <2>5, <2>6 DEF Rounds
  <1>7. ASSUME NEW pol \in Policies, Budget(pol, st, c), NEW r \in Live(st2, c2),
               NEW h \in Pending(st2.pcb[r])
        PROVE  Affords(pol, st2, c2, r, h)
    <2> DEFINE E == Events(pol, st, c, r, h)
               E2 == Events(pol, st2, c2, r, h)
               b == Base(st.pcb[r], h)
               O == Older(pol, st.mem, b)
               O2 == Older(pol, st2.mem, b)
    <2>1. st2.pcb[r] = st.pcb[r] /\ h \in Pending(st.pcb[r]) /\ r \in Live(st, c)
      BY <1>7, <1>0
    <2>2. IsFiniteSet(E) /\ Cardinality(E) <= Cardinality(O)
      BY <1>7, <2>1 DEF Budget, Affords
    <2>3. b \in Frames
      BY <2>1, PageFacts DEF PageAt
    <2>4. O2 = O
      BY <1>2, <2>3 DEF Older, Key, SameMemory, Used
    <2>5. IsFiniteSet(O)
      <3>1. O \in SUBSET Frames
        BY DEF Older, Used
      <3> QED
        BY <3>1, FramesFinite
    <2>6. ASSUME NEW q \in Live(st2, c2) \ {r}, NEW i \in Nat, Renews(pol, st2, c2, q, i, r, h)
          PROVE  Renews(pol, st, c, q, i, r, h)
      <3> DEFINE x == st.pcb[q]
      <3>1. q \in Live(st, c) /\ st2.pcb[q] = x /\ q # r
        BY <2>6, <1>0
      <3>2. /\ ReachOf(pol, st2, c2, q, r, h) <= ReachOf(pol, st, c, q, r, h)
            /\ ReachOf(pol, st2, c2, q, r, h) \in Int /\ ReachOf(pol, st, c, q, r, h) \in Int
        <4>1. /\ ReachOf(pol, st2, c2, q, r, h) <= ReachOf(pol, st, c, q, r, h)
              /\ ReachOf(pol, st2, c2, q, r, h) \in Int
          BY <2>1, <2>6, <3>1 DEF NotFarther
        <4> QED
          BY <4>1, <2>1, <3>1, ReachType
      <3>3. /\ Done(x) <= 3 * i /\ 3 * i < Size(x)
            /\ 3 * i < ReachOf(pol, st2, c2, q, r, h)
            /\ i < x.pageCounter =>
                 /\ pol = "LRU"
                 /\ Key(pol, st2.mem[Base(x, i)]) < Key(pol, st2.mem[b])
        BY <2>1, <2>6, <3>1 DEF Renews
      <3>4. 3 * i < ReachOf(pol, st, c, q, r, h)
        BY <3>2, <3>3
      <3>5. i < x.pageCounter => Base(x, i) \in Frames
        <4> SUFFICES ASSUME i < x.pageCounter PROVE Base(x, i) \in Frames
          OBVIOUS
        <4>1. Regular(x, Left(c, q))
          BY <3>1, LiveFacts
        <4>2. x.currentPage <= i + 1
          BY <3>3, <4>1 DEF Regular, Done
        <4>3. i \in Pending(x)
          BY <4>2 DEF Pending
        <4> QED
          BY <4>3, <3>1, PageFacts DEF PageAt
      <3>6. i < x.pageCounter => Key(pol, st.mem[Base(x, i)]) < Key(pol, st.mem[b])
        BY <3>3, <3>5, <2>3 DEF Key, SameMemory
      <3> QED
        BY <3>3, <3>4, <3>6, <3>1 DEF Renews
    <2>7. E2 \subseteq E
      <3> SUFFICES ASSUME NEW e \in E2 PROVE e \in E
        OBVIOUS
      <3>1. CASE e \in {r} \X {0}
        BY <3>1, <2>1, <1>2 DEF Events
      <3>2. CASE e \notin {r} \X {0}
        <4>1. /\ e \in (Live(st2, c2) \ {r}) \X Nat
              /\ Renews(pol, st2, c2, e[1], e[2], r, h)
          BY <3>2 DEF Events
        <4>2. e[1] \in Live(st2, c2) \ {r} /\ e[2] \in Nat /\ e \in (Live(st, c) \ {r}) \X Nat
          BY <4>1, <1>0
        <4>3. Renews(pol, st, c, e[1], e[2], r, h)
          BY <4>1, <4>2, <2>6
        <4> QED
          BY <4>2, <4>3 DEF Events
      <3> QED
        BY <3>1, <3>2
    <2> HIDE DEF E, E2, O, O2, b
    <2>8. IsFiniteSet(E2) /\ Cardinality(E2) <= Cardinality(O2)
      BY <2>2, <2>4, <2>5, <2>7, StillAfforded
    <2> QED
      BY <2>1, <2>8 DEF Affords, E2, O2, b
  <1> QED
    BY <1>6, <1>7 DEF Budget, Kept

\* A turn that is over: the process goes to the end of the queue.
LEMMA RequeueRounds ==
    ASSUME NEW st, NEW c, NEW done, Ready(st, c, done), c.pid # 0, c.left = 0,
           NEW st2, st2 = [st EXCEPT !.ready = Append(@, c.pid)]
    PROVE  /\ Ready(st2, Idle, done) /\ Live(st2, Idle) = Live(st, c)
           /\ \A pol \in Policies : Budget(pol, st, c) => Budget(pol, st2, Idle)
  <1> DEFINE p == c.pid
             n == Len(st.ready)
  <1>1. /\ StInv(st, done) /\ ReadyInv(st, done) /\ IsState(st) /\ p \in DOMAIN st.pcb \ done
        /\ NotReady(p, st)
    BY DEF Ready, StInv
  <1>2. StInv(st2, done) /\ st2.pcb = st.pcb /\ st2.mem = st.mem
    BY <1>1, AppendKeeps
  <1>3. st2.ran = st.ran /\ st2.ready = Append(st.ready, p)
    BY <1>1 DEF IsState
  <1>4. /\ n \in Nat /\ Len(st2.ready) = n + 1 /\ st2.ready[n + 1] = p
        /\ \A i \in 1 .. n : st2.ready[i] = st.ready[i]
    BY <1>1, <1>3 DEF ReadyInv
  <1>5. p \in Nat \ {0}
    BY <1>1 DEF StInv, PcbInv
  <1>6. \A i \in 1 .. n + 1 : i \in 1 .. n \/ i = n + 1
    BY <1>4
  <1>7. 1 .. n \subseteq 1 .. n + 1 /\ n + 1 \in 1 .. n + 1
    BY <1>4
  <1> HIDE DEF n
  <1>8. Idle.pid = 0 /\ Idle \in [pid : Nat, left : Int]
    BY DEF Idle
  <1>9. Live(st2, Idle) = Live(st, c)
    BY <1>4, <1>5, <1>6, <1>7, <1>8 DEF Live, n
  <1>10. \A q \in Live(st, c) : Left(Idle, q) = 2 /\ (q # p => Left(c, q) = 2)
    BY <1>8 DEF Left, Live
  <1>11. Left(c, p) = 0 /\ p \in Live(st, c)
    BY <1>5 DEF Left, Live
  <1>12. ASSUME NEW q \in Live(st, c), NEW r \in Live(st, c), q # r
         PROVE  /\ q = p => ~Ahead(st2, Idle, q, r) /\ Ahead(st, c, q, r)
                /\ r = p => Ahead(st2, Idle, q, r) /\ ~Ahead(st, c, q, r)
                /\ q # p /\ r # p => (Ahead(st2, Idle, q, r) <=> Ahead(st, c, q, r))
    <2> DEFINE B == \E a, b \in 1 .. n : a < b /\ st.ready[a] = q /\ st.ready[b] = r
               B2 == \E a, b \in 1 .. n + 1 : a < b /\ st2.ready[a] = q /\ st2.ready[b] = r
    <2>1. q # 0 /\ r # 0
      BY DEF Live
    <2>2. (Ahead(st2, Idle, q, r) <=> B2) /\ (Ahead(st, c, q, r) <=> q = p \/ B)
      BY <2>1, <1>4, <1>8 DEF Ahead, n
    <2>3. \A a \in 1 .. n : st.ready[a] # p
      BY <1>1 DEF NotReady, n
    <2>4. B => B2
      BY <1>4, <1>7
    <2>5. B2 => B \/ r = p
      BY <1>4, <1>6
    <2>6. q = p => ~B2 /\ ~B
      <3> SUFFICES ASSUME q = p, NEW a \in 1 .. n + 1, NEW b \in 1 .. n + 1, a < b, st2.ready[a] = p
                   PROVE  FALSE
        BY <2>3, <2>4
      <3>1. a \in 1 .. n
        BY <1>4
      <3> QED
        BY <3>1, <2>3, <1>4
    <2>7. r = p => ~B
      BY <2>3
    <2>8. r = p => B2
      <3> SUFFICES ASSUME r = p PROVE B2
        OBVIOUS
      <3>1. PICK a \in 1 .. n : st.ready[a] = q
        BY <1>12 DEF Live, n
      <3>2. a \in 1 .. n + 1 /\ a < n + 1 /\ st2.ready[a] = q
        BY <3>1, <1>4, <1>7
      <3> QED
        BY <3>2, <1>4, <1>7
    <2> HIDE DEF B, B2
    <2> QED
      BY <2>2, <2>4, <2>5, <2>6, <2>7, <2>8
  <1>13. \A q \in Live(st, c) : Shaped(st.pcb[q], Left(Idle, q))
    <2> TAKE q \in Live(st, c)
    <2>1. Shaped(st.pcb[q], Left(c, q))
      BY LiveFacts
    <2>2. CASE q # p
      BY <2>1, <2>2, <1>10
    <2>3. CASE q = p
      <3> DEFINE l == st.pcb[p].currentLine
      <3>1. <<l, 0>> \in {<<0, 2>>, <<1, 1>>, <<2, 0>>, <<2, 2>>} => l = 2
        OBVIOUS
      <3>2. l = 2 => <<l, 2>> \in {<<0, 2>>, <<1, 1>>, <<2, 0>>, <<2, 2>>}
        OBVIOUS
      <3>3. Shaped(st.pcb[p], 0)
        BY <2>1, <2>3, <1>11
      <3>4. Shaped(st.pcb[p], 2)
        BY <3>1, <3>2, <3>3 DEF Shaped
      <3> QED
        BY <2>3, <3>4, <1>10
    <2> QED
      BY <2>2, <2>3
  <1>14. ASSUME NEW pol \in Policies, NEW q \in Live(st, c), NEW r \in Live(st, c), q # r,
                NEW h \in Pending(st.pcb[r])
         PROVE  /\ ReachOf(pol, st2, Idle, q, r, h) <= ReachOf(pol, st, c, q, r, h)
                /\ ReachOf(pol, st2, Idle, q, r, h) \in Int
    <2> DEFINE x == st.pcb[q]
               y == st.pcb[r]
               m == Turns(pol, y, Left(c, r), h)
               m2 == Turns(pol, y, Left(Idle, r), h)
               t == TurnsOf(st, c, q, r, m)
               t2 == TurnsOf(st2, Idle, q, r, m2)
    <2>1. Regular(x, Left(c, q)) /\ Regular(y, Left(c, r)) /\ Shaped(y, Left(c, r))
      BY LiveFacts
    <2>2. m \in 1 .. 3
      BY <2>1, TurnsFacts
    <2>3. m2 = IF r = p THEN m - 1 ELSE m
      <3>1. CASE r # p
        BY <3>1, <1>10
      <3>2. CASE r = p
        <4> DEFINE s == Target(pol, y, h) - Done(y) + 3
        <4>1. s \in Int
          <5>1. h \in Nat /\ Done(y) \in Nat
            BY <2>1 DEF Regular, Pending
          <5> QED
            BY <5>1 DEF Target
        <4>2. m = Half(s) /\ m2 = Half(s - 2)
          <5>1. Left(c, r) = 0 /\ Left(Idle, r) = 2
            BY <3>2, <1>10, <1>11, <1>14
          <5>2. \A n1 : Turns(pol, y, n1, h) = Half(s - n1)
            BY DEF Turns
          <5>3. s - 0 = s
            BY <4>1
          <5> HIDE DEF s
          <5> QED
            BY <5>1, <5>2, <5>3
        <4> HIDE DEF s, m, m2
        <4> QED
          BY <3>2, <4>1, <4>2, HalfFacts
      <3> QED
        BY <3>1, <3>2
    <2>4. /\ ReachOf(pol, st2, Idle, q, r, h) = Reach(x, 2, t2)
          /\ ReachOf(pol, st, c, q, r, h) = Reach(x, Left(c, q), t)
      BY <1>2, <1>10 DEF ReachOf
    <2>5. t2 = IF q = p THEN t - 1 ELSE t
      <3> HIDE DEF m, m2
      <3> QED
        BY <2>2, <2>3, <1>12, <1>14 DEF TurnsOf
    <2>6. t \in 0 .. 3
      <3> HIDE DEF m
      <3> QED
        BY <2>2, TurnsOfFacts
    <2>7. Done(x) \in Nat
      BY <2>1 DEF Regular
    <2>8. Left(c, q) = IF q = p THEN 0 ELSE 2
      BY <1>10, <1>11
    <2> HIDE DEF t, t2, x
    <2>9. Reach(x, 2, t2) <= Reach(x, Left(c, q), t) /\ Reach(x, 2, t2) \in Int
      BY <2>5, <2>6, <2>7, <2>8 DEF Reach
    <2> QED
      BY <2>4, <2>9
  <1>15. SameMemory(st.mem, st2.mem)
    BY <1>2 DEF SameMemory, SameLines
  <1>16. /\ Rounds(st2, Idle)
         /\ \A pol \in Policies : Budget(pol, st, c) => Budget(pol, st2, Idle)
    <2>1. Untouched(st, c, st2, Idle)
      BY <1>2, <1>3, <1>9, <1>13 DEF Untouched
    <2>2. NotFarther(st, c, st2, Idle)
      BY <1>9, <1>14 DEF NotFarther
    <2>3. Kept(st, c, st2, Idle)
      BY <2>1, <2>2, <1>15, QueueStep
    <2> QED
      BY <2>3 DEF Kept
  <1>17. Ready(st2, Idle, done)
    BY <1>2, <1>8, <1>16 DEF Ready
  <1> QED
    BY <1>9, <1>16, <1>17

\* What is equal for both needs no comparison.
LEMMA SameReach ==
    ASSUME NEW st, NEW c, NEW done, Ready(st, c, done), NEW st2, NEW c2,
           Live(st2, c2) \subseteq Live(st, c),
           \A q \in Live(st2, c2) : st2.pcb[q] = st.pcb[q] /\ Left(c2, q) = Left(c, q),
           \A q, r \in Live(st2, c2) : q # r => (Ahead(st2, c2, q, r) <=> Ahead(st, c, q, r))
    PROVE  NotFarther(st, c, st2, c2)
  <1> SUFFICES ASSUME NEW pol \in Policies, NEW q \in Live(st2, c2), NEW r \in Live(st2, c2),
                      NEW h \in Pending(st.pcb[r]), q # r
               PROVE  /\ ReachOf(pol, st2, c2, q, r, h) <= ReachOf(pol, st, c, q, r, h)
                      /\ ReachOf(pol, st2, c2, q, r, h) \in Int
    BY DEF NotFarther
  <1>1. \A n : TurnsOf(st2, c2, q, r, n) = TurnsOf(st, c, q, r, n)
    BY DEF TurnsOf
  <1>2. ReachOf(pol, st2, c2, q, r, h) = ReachOf(pol, st, c, q, r, h)
    BY <1>1 DEF ReachOf
  <1>3. q \in Live(st, c) /\ r \in Live(st, c)
    OBVIOUS
  <1>4. ReachOf(pol, st, c, q, r, h) \in Int
    BY <1>3, ReachType
  <1> QED
    BY <1>2, <1>4

\* The head of the queue has its turn.
LEMMA PopRounds ==
    ASSUME NEW st, NEW done, Ready(st, Idle, done), st.ready # << >>,
           NEW st2, st2.mem = st.mem, st2.pcb = st.pcb, st2.ran = st.ran, st2.ready = Tail(st.ready),
           NEW c2, c2 = [pid |-> Head(st.ready), left |-> 2]
    PROVE  Kept(st, Idle, st2, c2) /\ Live(st2, c2) = Live(st, Idle)
  <1> DEFINE n == Len(st.ready)
             p == Head(st.ready)
  <1>1. ReadyInv(st, done) /\ PcbInv(st, done)
    BY DEF Ready, StInv
  <1>2. st.ready \in Seq(DOMAIN st.pcb \ done) /\ 0 \notin DOMAIN st.pcb
    BY <1>1 DEF ReadyInv, PcbInv
  <1>3. /\ n \in Nat \ {0} /\ Len(st2.ready) = n - 1 /\ p = st.ready[1]
        /\ \A i \in 1 .. n - 1 : st2.ready[i] = st.ready[i + 1]
    BY <1>2
  <1>4. c2.pid = p /\ c2.left = 2 /\ Idle.pid = 0
    BY DEF Idle
  <1>5. \A i, j \in 1 .. n : st.ready[i] = st.ready[j] => i = j
    BY <1>1 DEF ReadyInv
  <1>6. \A i \in 1 .. n : i = 1 \/ i - 1 \in 1 .. n - 1
    BY <1>3
  <1>7. \A i \in 1 .. n - 1 : i + 1 \in 1 .. n /\ i + 1 # 1 /\ (i + 1) - 1 = i
    BY <1>3
  <1>8. 1 \in 1 .. n /\ \A i \in 1 .. n : (i - 1) + 1 = i
    BY <1>3
  <1>9. \A i \in 1 .. n : st.ready[i] # 0
    BY <1>2
  <1> DEFINE R == {st.ready[i] : i \in 1 .. n}
             R2 == {st2.ready[i] : i \in 1 .. n - 1}
  <1>10. R = R2 \cup {p}
    <2>1. ASSUME NEW x \in R PROVE x \in R2 \cup {p}
      <3>1. PICK i \in 1 .. n : x = st.ready[i]
        BY <2>1
      <3>2. CASE i = 1
        BY <3>1, <3>2, <1>3
      <3>3. CASE i # 1
        <4>1. i - 1 \in 1 .. n - 1 /\ st2.ready[i - 1] = st.ready[(i - 1) + 1]
          BY <3>3, <1>3, <1>6
        <4> QED
          BY <4>1, <3>1, <1>8
      <3> QED
        BY <3>2, <3>3
    <2>2. R2 \cup {p} \subseteq R
      BY <1>3, <1>7, <1>8
    <2> HIDE DEF R, R2, p
    <2> QED
      BY <2>1, <2>2
  <1>11. Live(st2, c2) = Live(st, Idle)
    BY <1>3, <1>4, <1>10 DEF Live
  <1>12. \A q \in Live(st, Idle) : q # 0 /\ Left(c2, q) = 2 /\ Left(Idle, q) = 2
    BY <1>4 DEF Left, Live
  <1>13. ASSUME NEW q \in Live(st, Idle), NEW r \in Live(st, Idle), q # r
         PROVE  Ahead(st2, c2, q, r) <=> Ahead(st, Idle, q, r)
    <2> DEFINE B == \E a, b \in 1 .. n : a < b /\ st.ready[a] = q /\ st.ready[b] = r
               B2 == \E a, b \in 1 .. n - 1 : a < b /\ st2.ready[a] = q /\ st2.ready[b] = r
    <2>1. (Ahead(st, Idle, q, r) <=> B) /\ (Ahead(st2, c2, q, r) <=> q = p \/ B2)
      BY <1>3, <1>4, <1>12, <1>13 DEF Ahead
    <2>2. ASSUME B2 PROVE B
      <3>1. PICK a, b \in 1 .. n - 1 : a < b /\ st2.ready[a] = q /\ st2.ready[b] = r
        BY <2>2
      <3>2. /\ a + 1 \in 1 .. n /\ b + 1 \in 1 .. n /\ a + 1 < b + 1
            /\ st.ready[a + 1] = q /\ st.ready[b + 1] = r
        BY <3>1, <1>3, <1>7
      <3> QED
        BY <3>2
    <2>3. ASSUME q = p PROVE B
      <3>1. PICK b \in 1 .. n : st.ready[b] = r
        BY <1>4, <1>12, <1>13 DEF Live
      <3>2. b # 1 /\ 1 < b
        BY <3>1, <2>3, <1>3, <1>13
      <3> QED
        BY <3>1, <3>2, <2>3, <1>3, <1>8
    <2>4. ASSUME B PROVE q = p \/ B2
      <3>1. PICK a, b \in 1 .. n : a < b /\ st.ready[a] = q /\ st.ready[b] = r
        BY <2>4
      <3>2. CASE a = 1
        BY <3>1, <3>2, <1>3
      <3>3. CASE a # 1
        <4>1. /\ a - 1 \in 1 .. n - 1 /\ b - 1 \in 1 .. n - 1 /\ a - 1 < b - 1
              /\ (a - 1) + 1 = a /\ (b - 1) + 1 = b
          BY <3>1, <3>3, <1>3
        <4>2. st2.ready[a - 1] = q /\ st2.ready[b - 1] = r
          BY <4>1, <3>1, <1>3
        <4> QED
          BY <4>1, <4>2
      <3> QED
        BY <3>2, <3>3
    <2> HIDE DEF B, B2
    <2> QED
      BY <2>1, <2>2, <2>3, <2>4
  <1>14. NotFarther(st, Idle, st2, c2)
    BY <1>11, <1>12, <1>13, SameReach
  <1>15. Untouched(st, Idle, st2, c2)
    <2>1. \A q \in Live(st, Idle) : Shaped(st.pcb[q], Left(Idle, q))
      BY LiveFacts
    <2> QED
      BY <2>1, <1>11, <1>12 DEF Untouched
  <1>16. SameMemory(st.mem, st2.mem)
    BY DEF SameMemory, SameLines
  <1> QED
    BY <1>11, <1>14, <1>15, <1>16, QueueStep

\* A process that ends.
LEMMA EndRounds ==
    ASSUME NEW st, NEW c, NEW done, Ready(st, c, done), c.pid # 0,
           NEW st2, SameMemory(st.mem, st2.mem), st2.ready = st.ready,
           \A q \in DOMAIN st.pcb : q # c.pid => st2.pcb[q] = st.pcb[q] /\ st2.ran[q] = st.ran[q]
    PROVE  Kept(st, c, st2, Idle) /\ Live(st2, Idle) = Live(st, c) \ {c.pid}
  <1>1. Idle.pid = 0
    BY DEF Idle
  <1>2. NotReady(c.pid, st)
    BY DEF Ready
  <1>3. Live(st2, Idle) = Live(st, c) \ {c.pid}
    BY <1>1, <1>2 DEF Live, NotReady
  <1>4. \A q \in Live(st2, Idle) : /\ q # 0 /\ q # c.pid /\ q \in DOMAIN st.pcb
                                   /\ Left(Idle, q) = 2 /\ Left(c, q) = 2
    BY <1>1, <1>3, LiveFacts DEF Left
  <1>5. ASSUME NEW q \in Live(st2, Idle), NEW r \in Live(st2, Idle), q # r
        PROVE  Ahead(st2, Idle, q, r) <=> Ahead(st, c, q, r)
    BY <1>1, <1>4 DEF Ahead
  <1>6. NotFarther(st, c, st2, Idle)
    BY <1>3, <1>4, <1>5, SameReach
  <1>7. Untouched(st, c, st2, Idle)
    <2>1. \A q \in Live(st, c) : Shaped(st.pcb[q], Left(c, q))
      BY LiveFacts
    <2> QED
      BY <2>1, <1>3, <1>4 DEF Untouched
  <1> QED
    BY <1>3, <1>6, <1>7, QueueStep

\* Before the process being executed has finished or touched a page, every other
\* process renews at most one.
LEMMA OneEvent ==
    ASSUME NEW pol \in Policies, NEW st, NEW c, NEW done, Ready(st, c, done), c.pid # 0,
           NEW q \in Live(st, c) \ {c.pid}, NEW h \in Pending(st.pcb[c.pid]),
           NEW i \in Nat, NEW j \in Nat,
           Renews(pol, st, c, q, i, c.pid, h), Renews(pol, st, c, q, j, c.pid, h)
    PROVE  i = j
  <1> DEFINE r == c.pid
             x == st.pcb[q]
             y == st.pcb[r]
             n == Turns(pol, y, Left(c, r), h)
             t == TurnsOf(st, c, q, r, n)
  <1>1. r \in Live(st, c) /\ q # r
    BY DEF Live, Ready
  <1>2. /\ Regular(x, Left(c, q)) /\ Regular(y, Left(c, r)) /\ Shaped(y, Left(c, r))
    BY <1>1, LiveFacts
  <1>3. n \in 1 .. 3 /\ (pol = "LRU" => n <= 2)
    BY <1>2, TurnsFacts
  <1>4. ~Ahead(st, c, q, r)
    BY <1>1, AheadFacts
  <1>5. ReachOf(pol, st, c, q, r, h) = Reach(x, Left(c, q), t)
    BY DEF ReachOf
  <1> HIDE DEF n
  <1>6. t = n - 1
    BY <1>4 DEF TurnsOf
  <1>7. ASSUME NEW k \in Nat, Renews(pol, st, c, q, k, r, h)
        PROVE  /\ Done(x) <= 3 * k /\ 3 * k < Reach(x, Left(c, q), t)
               /\ pol # "LRU" => k >= x.pageCounter
    <2>1. x.pageCounter \in Nat
      BY <1>2 DEF Regular
    <2> QED
      BY <1>5, <1>7, <2>1 DEF Renews
  <1>8. /\ Done(x) <= 3 * i /\ 3 * i < Reach(x, Left(c, q), t)
        /\ Done(x) <= 3 * j /\ 3 * j < Reach(x, Left(c, q), t)
        /\ pol # "LRU" => i >= x.pageCounter /\ j >= x.pageCounter
    BY <1>7
  <1>9. /\ Left(c, q) = 2 /\ Done(x) = 3 * (x.currentPage - 1) + x.currentLine
        /\ x.currentPage \in Nat \ {0} /\ x.currentLine \in 0 .. 2 /\ x.pageCounter \in Nat
    BY <1>1, <1>2 DEF Left, Regular, Done
  <1> HIDE DEF t, x, y, r
  <1>10. CASE pol = "LRU"
    <2>1. Reach(x, 2, t) <= Done(x) + 2
      BY <1>3, <1>6, <1>9, <1>10 DEF Reach
    <2>2. Reach(x, 2, t) \in Int /\ Done(x) \in Int
      BY <1>3, <1>6, <1>9 DEF Reach
    <2>3. /\ Done(x) <= 3 * i /\ 3 * i < Reach(x, 2, t)
          /\ Done(x) <= 3 * j /\ 3 * j < Reach(x, 2, t)
      BY <1>8, <1>9
    <2> DEFINE u == Done(x)
               w == Reach(x, 2, t)
    <2>4. u \in Int /\ w \in Int /\ w <= u + 2 /\ u <= 3 * i /\ 3 * i < w /\ u <= 3 * j /\ 3 * j < w
      BY <2>1, <2>2, <2>3
    <2> HIDE DEF u, w
    <2>5. 3 * i < 3 * j + 3 /\ 3 * j < 3 * i + 3
      BY <2>4
    <2> QED
      BY <2>5
  <1>11. CASE pol # "LRU"
    <2>1. CASE x.currentPage > x.pageCounter
      <3>1. Reach(x, 2, t) <= Done(x) + 3 /\ Reach(x, 2, t) \in Int /\ Done(x) \in Int
        BY <1>3, <1>6, <1>9, <2>1 DEF Reach
      <3> QED
        BY <3>1, <1>8, <1>9
    <2>2. CASE ~(x.currentPage > x.pageCounter)
      <3>1. Reach(x, 2, t) <= Done(x) + 4 /\ Reach(x, 2, t) \in Int /\ Done(x) \in Int
        BY <1>3, <1>6, <1>9, <2>2 DEF Reach
      <3>2. 3 * i > Done(x) /\ 3 * j > Done(x)
        BY <1>8, <1>9, <1>11, <2>2
      <3> QED
        BY <3>1, <3>2, <1>8, <1>9
    <2> QED
      BY <2>1, <2>2
  <1> QED
    BY <1>10, <1>11

\* A page that was just loaded or touched can wait for one page of every other
\* process: there are as many frames as processes.
LEMMA FreshAfforded ==
    ASSUME NEW pol \in Policies, NEW st, NEW c, NEW done, Ready(st, c, done), c.pid # 0,
           NEW h \in Pending(st.pcb[c.pid]),
           h # 1 \/ (IF pol = "LRU" THEN Done(st.pcb[c.pid]) # 0 ELSE FreeSlots(st.mem) = {}),
           NEW b, b = Base(st.pcb[c.pid], h),
           \A a \in Used(st.mem) : a # b => Key(pol, st.mem[a]) < Key(pol, st.mem[b])
    PROVE  Affords(pol, st, c, c.pid, h)
  <1> DEFINE r == c.pid
             E == Events(pol, st, c, r, h)
             O == Older(pol, st.mem, b)
             L == Live(st, c) \ {r}
             f == [e \in E |-> e[1]]
  <1>1. r \in Live(st, c)
    BY DEF Live, Ready
  <1>2. IsFiniteSet(Live(st, c)) /\ Cardinality(Live(st, c)) \in Nat
    BY LiveFinite
  <1>3. IsFiniteSet(L) /\ Cardinality(L) = Cardinality(Live(st, c)) - 1
    BY <1>1, <1>2, FS_RemoveElement
  <1>4. \A e \in E : e \in L \X Nat /\ Renews(pol, st, c, e[1], e[2], r, h)
    BY DEF Events
  <1>5. f \in Injection(E, L)
    <2>1. f \in [E -> L]
      BY <1>4
    <2>2. ASSUME NEW e \in E, NEW g \in E, f[e] = f[g] PROVE e = g
      <3>1. e \in L \X Nat /\ g \in L \X Nat /\ e[1] = g[1]
        BY <2>2, <1>4
      <3>2. e[1] \in L /\ e[2] \in Nat /\ g[2] \in Nat /\ e = <<e[1], e[2]>> /\ g = <<g[1], g[2]>>
        BY <3>1
      <3>3. Renews(pol, st, c, e[1], e[2], r, h) /\ Renews(pol, st, c, e[1], g[2], r, h)
        BY <3>1, <1>4
      <3> HIDE DEF E, f
      <3>4. e[2] = g[2]
        BY <3>2, <3>3, OneEvent
      <3> QED
        BY <3>1, <3>2, <3>4
    <2>3. \A e, g \in DOMAIN f : f[e] = f[g] => e = g
      BY <2>2
    <2> HIDE DEF f
    <2> QED
      BY <2>1, <2>3 DEF Injection, IsInjective
  <1> HIDE DEF E, f
  <1>6. IsFiniteSet(E) /\ Cardinality(E) <= Cardinality(L)
    BY <1>3, <1>5, FS_Injection
  <1>7. b \in Used(st.mem)
    BY <1>1, PageFacts DEF PageAt
  <1>8. O = Used(st.mem) \ {b}
    <2>1. ~(Key(pol, st.mem[b]) < Key(pol, st.mem[b]))
      <3>1. MemInv(st)
        BY DEF Ready, StInv
      <3>2. b \in Nat /\ b + 3 <= FrameStore
        BY <1>7, FrameFacts DEF Used
      <3>3. st.mem[b] \in Cell
        BY <3>1, <3>2, FrameAssumption DEF MemInv
      <3> QED
        BY <3>3 DEF Key, Cell
    <2> QED
      BY <2>1 DEF Older
  <1>9. Used(st.mem) \in SUBSET Frames
    BY DEF Used
  <1>10. IsFiniteSet(Used(st.mem)) /\ Cardinality(Used(st.mem)) \in Nat
    BY <1>9, FramesFinite
  <1>11. Cardinality(O) = Cardinality(Used(st.mem)) - 1
    <2>1. Cardinality(Used(st.mem) \ {b}) = IF b \in Used(st.mem) THEN Cardinality(Used(st.mem)) - 1
                                             ELSE Cardinality(Used(st.mem))
      BY <1>10, FS_RemoveElement
    <2> HIDE DEF O
    <2> QED
      BY <1>7, <1>8, <2>1
  <1>12. Cardinality(Live(st, c)) <= Cardinality(Used(st.mem))
    BY DEF Ready, Rounds
  <1>13. Cardinality(E) \in Nat
    BY <1>6, FS_CardinalityType
  <1> QED
    BY <1>2, <1>3, <1>6, <1>10, <1>11, <1>12, <1>13 DEF Affords, E

\* What the searches compare is a natural number.
LEMMA KeyType ==
    ASSUME NEW pol, NEW st, MemInv(st), NEW a \in Frames
    PROVE  Key(pol, st.mem[a]) \in Nat /\ a \in 0 .. FrameStore - 1
  <1>1. a \in Nat /\ a + 3 <= FrameStore
    BY FrameFacts
  <1>2. a \in 0 .. FrameStore - 1
    BY <1>1, FrameAssumption
  <1>3. st.mem[a] \in Cell
    BY <1>2 DEF MemInv
  <1> QED
    BY <1>2, <1>3 DEF Key, Cell

\* One page of p is loaded into the frame b and becomes the newest.
Loading(st, p, b, st2) ==
    LET x == st.pcb[p]
        y == st2.pcb[p]
        d == 3 * x.pageCounter
    IN  /\ st2.ready = st.ready /\ st2.ran = st.ran /\ b \in Frames
        /\ \A q \in DOMAIN st.pcb \ {p} : st2.pcb[q] = st.pcb[q]
        /\ y.prog = x.prog /\ y.PC = b /\ y.currentPage = x.currentPage
        /\ y.currentLine = x.currentLine /\ y.pageCounter = x.pageCounter + 1
        /\ \A q \in 0 .. FrameStore - 1 : ~(q - b \in 0 .. 2) => st2.mem[q] = st.mem[q]
        /\ \A j \in 0 .. 2 :
              st2.mem[b + j].line = IF d + j < Size(x) THEN <<p, d + j + 1>> ELSE NoLine
        /\ \A a \in Frames \ {b} : /\ st2.mem[a].accessed < st2.mem[b].accessed
                                   /\ st2.mem[a].age < st2.mem[b].age

\* The process being executed loads its next page into a free frame or into the
\* one the policy chooses.
FaultStep(pol, st, c, done, b, st2) ==
    /\ Ready(st, c, done) /\ c.pid # 0 /\ c.left # 0
    /\ st.pcb[c.pid].currentPage > st.pcb[c.pid].pageCounter
    /\ 3 * st.pcb[c.pid].pageCounter < Size(st.pcb[c.pid])
    /\ StInv(st2, done) /\ Together(st2.mem)
    /\ Loading(st, c.pid, b, st2)
    /\ pol \in Policies /\ Budget(pol, st, c)
    /\ b \in FreeSlots(st.mem) \/ \A a \in Frames : Key(pol, st.mem[b]) <= Key(pol, st.mem[a])

\* The turn after a fault has no lines left.
After(c) == [pid |-> c.pid, left |-> 0]

\* The process that faults has no page.
FaultOf(st, c, x) ==
    /\ x = st.pcb[c.pid] /\ c.pid \in Live(st, c) /\ Regular(x, Left(c, c.pid))
    /\ x.currentLine = 0 /\ x.pageCounter \in Nat \ {0} /\ x.currentPage = x.pageCounter + 1
    /\ Done(x) = 3 * x.pageCounter /\ Pending(x) = {} /\ 3 * x.pageCounter < Size(x)
    /\ Size(x) \in Nat

\* A process that faults has executed all its pages.
LEMMA FaultFacts ==
    ASSUME NEW pol, NEW st, NEW c, NEW done, NEW b, NEW st2, FaultStep(pol, st, c, done, b, st2)
    PROVE  FaultOf(st, c, st.pcb[c.pid])
  <1> DEFINE x == st.pcb[c.pid]
  <1>1. c.pid \in Live(st, c)
    BY DEF Live, FaultStep, Ready
  <1>2. Regular(x, Left(c, c.pid))
    BY <1>1, LiveFacts DEF FaultStep
  <1>3. x.currentPage > x.pageCounter /\ 3 * x.pageCounter < Size(x)
    BY DEF FaultStep
  <1> HIDE DEF x
  <1>4. /\ x.currentLine = 0 /\ x.pageCounter \in Nat \ {0} /\ x.currentPage = x.pageCounter + 1
        /\ Size(x) \in Nat
    BY <1>2, <1>3 DEF Regular
  <1>5. Done(x) = 3 * x.pageCounter
    BY <1>4 DEF Done
  <1>6. Pending(x) = {}
    BY <1>4 DEF Pending
  <1> QED
    BY <1>1, <1>2, <1>3, <1>4, <1>5, <1>6 DEF FaultOf, x

\* The faulting process is about to load a page, for which every pending page can
\* afford a frame.
LEMMA FaultEvent ==
    ASSUME NEW pol, NEW st, NEW c, NEW done, NEW b, NEW st2, FaultStep(pol, st, c, done, b, st2),
           NEW r \in Live(st, c), NEW h \in Pending(st.pcb[r])
    PROVE  r # c.pid /\ <<c.pid, st.pcb[c.pid].pageCounter>> \in Events(pol, st, c, r, h)
  <1> DEFINE x == st.pcb[c.pid]
             n == Turns(pol, st.pcb[r], Left(c, r), h)
             i == x.pageCounter
  <1>0. Ready(st, c, done) /\ pol \in Policies
    BY DEF FaultStep
  <1>1. /\ c.pid \in Live(st, c)
        /\ x.currentLine = 0 /\ i \in Nat \ {0} /\ x.currentPage = i + 1
        /\ Done(x) = 3 * i /\ Pending(x) = {} /\ 3 * i < Size(x)
    BY FaultFacts DEF FaultOf
  <1>2. r # c.pid
    BY <1>1
  <1>3. n \in 1 .. 3
    BY <1>0, LiveFacts, TurnsFacts
  <1>4. ReachOf(pol, st, c, c.pid, r, h) = Reach(x, Left(c, c.pid), n)
    <2>1. Ahead(st, c, c.pid, r)
      BY <1>0, AheadFacts
    <2> QED
      BY <2>1 DEF ReachOf, TurnsOf
  <1> HIDE DEF n
  <1>5. 3 * i < Reach(x, Left(c, c.pid), n)
    <2>1. Left(c, c.pid) # 0
      BY DEF Left, FaultStep
    <2> QED
      BY <2>1, <1>1, <1>3 DEF Reach
  <1>6. Renews(pol, st, c, c.pid, i, r, h)
    BY <1>1, <1>4, <1>5 DEF Renews
  <1>7. <<c.pid, i>> \in (Live(st, c) \ {r}) \X Nat
    BY <1>1, <1>2
  <1> QED
    BY <1>2, <1>6, <1>7 DEF Events

\* The frame that is taken holds no page that is pending.
LEMMA VictimSpent ==
    ASSUME NEW pol, NEW st, NEW c, NEW done, NEW b, NEW st2, FaultStep(pol, st, c, done, b, st2),
           NEW r \in Live(st, c), NEW h \in Pending(st.pcb[r])
    PROVE  Base(st.pcb[r], h) # b
  <1> SUFFICES ASSUME Base(st.pcb[r], h) = b PROVE FALSE
    OBVIOUS
  <1>0. Ready(st, c, done) /\ MemInv(st)
    BY DEF FaultStep, Ready, StInv
  <1>1. b \in Used(st.mem) /\ b \in Frames
    BY <1>0, PageFacts DEF PageAt
  <1>2. \A a \in Frames : Key(pol, st.mem[b]) <= Key(pol, st.mem[a])
    BY <1>1 DEF FaultStep, Used
  <1>3. Older(pol, st.mem, b) = {}
    <2>1. ASSUME NEW a \in Frames PROVE ~(Key(pol, st.mem[a]) < Key(pol, st.mem[b]))
      <3>1. Key(pol, st.mem[a]) \in Nat /\ Key(pol, st.mem[b]) \in Nat
        BY <1>0, <1>1, KeyType
      <3> QED
        BY <3>1, <1>2
    <2> QED
      BY <2>1 DEF Older, Used
  <1> DEFINE E == Events(pol, st, c, r, h)
  <1>4. IsFiniteSet(E) /\ Cardinality(E) <= Cardinality(Older(pol, st.mem, b))
    BY DEF FaultStep, Budget, Affords
  <1>5. <<c.pid, st.pcb[c.pid].pageCounter>> \in E
    BY FaultEvent
  <1> HIDE DEF E
  <1>6. Cardinality(E) = 0
    <2>1. Cardinality(E) \in Nat
      BY <1>4, FS_CardinalityType
    <2>2. Cardinality(Older(pol, st.mem, b)) = 0
      BY <1>3, FS_EmptySet
    <2> QED
      BY <2>1, <2>2, <1>4
  <1>7. E = {}
    BY <1>4, <1>6, FS_EmptySet
  <1> QED
    BY <1>5, <1>7

\* The frame a is left alone.
SameFrame(mem, mem2, a) == mem2[a] = mem[a] /\ \A j \in 0 .. 2 : mem2[a + j] = mem[a + j]

\* A frame other than the one that is loaded.
LEMMA LoadingApart ==
    ASSUME NEW st, NEW p, NEW b, NEW st2, Loading(st, p, b, st2), NEW a \in Frames, a # b
    PROVE  SameFrame(st.mem, st2.mem, a)
  <1>1. b \in Frames /\ \A q \in 0 .. FrameStore - 1 : ~(q - b \in 0 .. 2) => st2.mem[q] = st.mem[q]
    BY DEF Loading
  <1>2. ASSUME NEW k \in 0 .. 2 PROVE st2.mem[a + k] = st.mem[a + k]
    <2>1. a \in Nat /\ a + 3 <= FrameStore /\ b \in Nat
      BY <1>1, FrameFacts
    <2>2. a + k \in 0 .. FrameStore - 1
      BY <2>1, FrameAssumption
    <2>3. ~((a + k) - b \in 0 .. 2)
      <3> SUFFICES ASSUME (a + k) - b \in 0 .. 2 PROVE FALSE
        OBVIOUS
      <3>1. PICK l \in 0 .. 2 : l = (a + k) - b
        OBVIOUS
      <3>2. a + k = b + l
        BY <2>1, <3>1
      <3> QED
        BY <3>2, <1>1, FrameCells
    <2> QED
      BY <2>2, <2>3, <1>1
  <1>3. a + 0 = a /\ 0 \in 0 .. 2
    BY FrameFacts
  <1> QED
    BY <1>2, <1>3 DEF SameFrame

\* The frame that is loaded is used from then on, the others as before.
LEMMA LoadingSlots ==
    ASSUME NEW pol, NEW st, NEW c, NEW done, NEW b, NEW st2, FaultStep(pol, st, c, done, b, st2)
    PROVE  /\ FreeSlots(st2.mem) = FreeSlots(st.mem) \ {b}
           /\ Used(st2.mem) = Used(st.mem) \cup {b}
  <1> DEFINE p == c.pid
             x == st.pcb[p]
             d == 3 * x.pageCounter
  <1>1. Loading(st, p, b, st2) /\ b \in Frames
    BY DEF FaultStep, Loading
  <1>2. d \in Nat /\ d < Size(x) /\ Size(x) \in Nat
    BY FaultFacts DEF FaultOf
  <1>3. p # 0
    BY DEF FaultStep
  <1>4. b \notin FreeSlots(st2.mem)
    <2>1. 0 \in 0 .. 2 /\ d + 0 < Size(x)
      BY <1>2
    <2>2. st2.mem[b + 0].line = <<p, d + 0 + 1>>
      BY <1>1, <2>1 DEF Loading
    <2>3. st2.mem[b + 0].line # NoLine
      BY <2>2, <1>3 DEF NoLine
    <2> QED
      BY <2>1, <2>3 DEF FreeSlots
  <1>5. ASSUME NEW a \in Frames, a # b
        PROVE  a \in FreeSlots(st2.mem) <=> a \in FreeSlots(st.mem)
    <2>1. SameFrame(st.mem, st2.mem, a)
      BY <1>1, <1>5, LoadingApart
    <2> QED
      BY <2>1 DEF FreeSlots, SameFrame
  <1>6. FreeSlots(st2.mem) \subseteq Frames /\ FreeSlots(st.mem) \subseteq Frames
    BY DEF FreeSlots
  <1>7. FreeSlots(st2.mem) = FreeSlots(st.mem) \ {b}
    BY <1>4, <1>5, <1>6
  <1> QED
    BY <1>1, <1>7 DEF Used

\* Every process is as live as before.
LEMMA LoadingLive ==
    ASSUME NEW pol, NEW st, NEW c, NEW done, NEW b, NEW st2, FaultStep(pol, st, c, done, b, st2)
    PROVE  /\ Live(st2, After(c)) = Live(st, c)
           /\ \A q \in Live(st, c) \ {c.pid} : /\ st2.pcb[q] = st.pcb[q]
                                                /\ Left(After(c), q) = 2 /\ Left(c, q) = 2
           /\ \A q, r : Ahead(st2, After(c), q, r) <=> Ahead(st, c, q, r)
           /\ st2.ran = st.ran
  <1>1. st2.ready = st.ready /\ st2.ran = st.ran /\ After(c).pid = c.pid
        /\ \A q \in DOMAIN st.pcb \ {c.pid} : st2.pcb[q] = st.pcb[q]
    BY DEF FaultStep, Loading, After
  <1>2. Ready(st, c, done)
    BY DEF FaultStep
  <1>3. \A q \in Live(st, c) : q \in DOMAIN st.pcb
    BY <1>2, LiveFacts
  <1>4. Live(st2, After(c)) = Live(st, c)
    BY <1>1 DEF Live
  <1>5. \A q \in Live(st, c) \ {c.pid} : Left(After(c), q) = 2 /\ Left(c, q) = 2
    BY <1>1 DEF Left
  <1>6. \A q, r : Ahead(st2, After(c), q, r) <=> Ahead(st, c, q, r)
    BY <1>1 DEF Ahead
  <1> QED
    BY <1>1, <1>3, <1>4, <1>5, <1>6

\* The cells of the pages a process has still to execute.
LEMMA CellOfPage ==
    ASSUME NEW st, NEW c, NEW done, Ready(st, c, done), NEW q \in Live(st, c),
           NEW x, x = st.pcb[q], x.currentPage <= x.pageCounter,
           NEW d, d = 3 * (x.currentPage - 1), NEW i \in d .. 3 * x.pageCounter - 1
    PROVE  \E h \in Pending(x), j \in 0 .. 2 : x.PC - x.currentLine + i - d = Base(x, h) + j
  <1>1. Regular(x, Left(c, q))
    BY LiveFacts
  <1>2. /\ x.PC \in Nat /\ x.currentLine \in 0 .. 2 /\ x.currentPage \in Nat \ {0}
        /\ x.pageCounter \in Nat
    BY <1>1 DEF Regular
  <1> DEFINE h == i \div 3
             j == i % 3
  <1>3. i \in Nat /\ d \in Nat /\ d <= i /\ i < 3 * x.pageCounter
    BY <1>2
  <1>4. h \in Nat /\ j \in 0 .. 2 /\ i = 3 * h + j
    BY <1>3
  <1> HIDE DEF h, j
  <1>5. x.currentPage <= h + 1 /\ h < x.pageCounter
    BY <1>2, <1>3, <1>4
  <1>6. h \in Pending(x)
    BY <1>4, <1>5 DEF Pending
  <1>7. x.PC - x.currentLine + i - d = Base(x, h) + j
    <2>1. i - d = 3 * (h + 1 - x.currentPage) + j
      BY <1>2, <1>3, <1>4
    <2> DEFINE f == x.PC - x.currentLine
               m == 3 * (h + 1 - x.currentPage)
    <2>2. f \in Int /\ m \in Int /\ x.PC - x.currentLine + i - d = f + (i - d)
      BY <1>2, <1>3, <1>4
    <2>3. Base(x, h) = f + m
      BY DEF Base
    <2> HIDE DEF f, m
    <2> QED
      BY <2>1, <2>2, <2>3, <1>4 DEF m
  <1> QED
    BY <1>4, <1>6, <1>7

\* The other processes.
LEMMA LoadingOthers ==
    ASSUME NEW pol, NEW st, NEW c, NEW done, NEW b, NEW st2, FaultStep(pol, st, c, done, b, st2),
           NEW q \in Live(st, c), q # c.pid
    PROVE  Process(st2, After(c), q)
  <1> DEFINE p == c.pid
             x == st.pcb[q]
             k == 3 * x.pageCounter
             d == 3 * (x.currentPage - 1)
             f == x.PC - x.currentLine
  <1>0. Ready(st, c, done) /\ Loading(st, p, b, st2)
    BY DEF FaultStep
  <1>1. /\ Process(st, c, q) /\ Located(st.mem, q, x) /\ NoStray(st.mem, q, x)
        /\ Shaped(x, Left(c, q)) /\ q \in Nat \ {0}
    BY <1>0, LiveFacts
  <1>2. st2.pcb[q] = x /\ Left(After(c), q) = Left(c, q) /\ st2.ran[q] = st.ran[q]
    BY LoadingLive
  <1>3. FreeSlots(st2.mem) # {} => FreeSlots(st.mem) # {}
    BY LoadingSlots
  <1>4. Located(st2.mem, q, x)
    <2> SUFFICES ASSUME x.currentPage <= x.pageCounter
                 PROVE  /\ f \in Frames
                        /\ \A i \in d .. k - 1 :
                             st2.mem[f + i - d].line = IF i < Size(x) THEN <<q, i + 1>> ELSE NoLine
      BY DEF Located
    <2>1. /\ f \in Frames
          /\ \A i \in d .. k - 1 :
                st.mem[f + i - d].line = IF i < Size(x) THEN <<q, i + 1>> ELSE NoLine
      BY <1>1 DEF Located
    <2>2. ASSUME NEW i \in d .. k - 1 PROVE st2.mem[f + i - d] = st.mem[f + i - d]
      <3>1. PICK h \in Pending(x), j \in 0 .. 2 : f + i - d = Base(x, h) + j
        BY <1>0, CellOfPage
      <3>2. Base(x, h) # b
        BY VictimSpent
      <3>3. Base(x, h) \in Frames
        BY <1>0, PageFacts DEF PageAt
      <3> DEFINE g == Base(x, h)
      <3> HIDE DEF g, p
      <3>4. SameFrame(st.mem, st2.mem, g)
        BY <1>0, <3>2, <3>3, LoadingApart DEF g
      <3>5. st2.mem[g + j] = st.mem[g + j]
        BY <3>4 DEF SameFrame
      <3> QED
        BY <3>1, <3>5 DEF g
    <2> HIDE DEF x, d, k, f
    <2> QED
      BY <2>1, <2>2
  <1>5. NoStray(st2.mem, q, x)
    <2> SUFFICES ASSUME NEW s \in 0 .. FrameStore - 1, st2.mem[s].line[1] = q,
                        st2.mem[s].line[2] > Done(x)
                 PROVE  /\ st2.mem[s].line[2] <= k
                        /\ s = x.PC + st2.mem[s].line[2] - Done(x) - 1
      BY DEF NoStray
    <2>1. CASE ~(s - b \in 0 .. 2)
      <3>1. st2.mem[s] = st.mem[s]
        BY <1>0, <2>1 DEF Loading
      <3> QED
        BY <3>1, <1>1 DEF NoStray
    <2>2. CASE s - b \in 0 .. 2
      <3>1. b \in Nat /\ s \in Int
        BY <1>0, FrameFacts, FrameAssumption DEF Loading
      <3>2. s = b + (s - b)
        BY <3>1
      <3>3. st2.mem[s].line \in {NoLine} \cup {<<p, n>> : n \in {3 * st.pcb[p].pageCounter + (s - b) + 1}}
        BY <1>0, <2>2, <3>2 DEF Loading
      <3>4. st2.mem[s].line[1] \in {0, p}
        BY <3>3 DEF NoLine
      <3> QED
        BY <3>4, <1>1
    <2> QED
      BY <2>1, <2>2
  <1> QED
    BY <1>1, <1>2, <1>3, <1>4, <1>5 DEF Process

\* The process itself.
LEMMA LoadingSelf ==
    ASSUME NEW pol, NEW st, NEW c, NEW done, NEW b, NEW st2, FaultStep(pol, st, c, done, b, st2)
    PROVE  /\ Process(st2, After(c), c.pid)
           /\ Pending(st2.pcb[c.pid]) = {st.pcb[c.pid].pageCounter}
           /\ Base(st2.pcb[c.pid], st.pcb[c.pid].pageCounter) = b
           /\ Done(st2.pcb[c.pid]) = Done(st.pcb[c.pid]) /\ Size(st2.pcb[c.pid]) = Size(st.pcb[c.pid])
  <1> DEFINE p == c.pid
             x == st.pcb[p]
             y == st2.pcb[p]
             m == x.pageCounter
  <1>0. Ready(st, c, done) /\ Loading(st, p, b, st2)
    BY DEF FaultStep
  <1>1. /\ p \in Live(st, c) /\ x.currentLine = 0 /\ m \in Nat \ {0} /\ x.currentPage = m + 1
        /\ Done(x) = 3 * m /\ 3 * m < Size(x) /\ Size(x) \in Nat
    BY FaultFacts DEF FaultOf
  <1>2. /\ Process(st, c, p) /\ NoStray(st.mem, p, x) /\ p \in Nat \ {0}
    BY <1>0, <1>1, LiveFacts
  <1>3. /\ y.prog = x.prog /\ y.PC = b /\ y.currentPage = m + 1 /\ y.currentLine = 0
        /\ y.pageCounter = m + 1 /\ b \in Frames
        /\ \A q \in 0 .. FrameStore - 1 : ~(q - b \in 0 .. 2) => st2.mem[q] = st.mem[q]
        /\ \A j \in 0 .. 2 :
              st2.mem[b + j].line = IF 3 * m + j < Size(x) THEN <<p, 3 * m + j + 1>> ELSE NoLine
    BY <1>0, <1>1 DEF Loading
  <1>4. b \in Nat /\ b + 3 <= FrameStore
    BY <1>3, FrameFacts
  <1>5. st2.ran[p] = st.ran[p] /\ Left(After(c), p) = 0 /\ st.ran[p] = [k \in 1 .. Done(x) |-> <<p, k>>]
    BY <1>0, <1>2 DEF Loading, Left, After, Process
  <1> HIDE DEF x, y, m
  <1>6. Size(y) = Size(x) /\ Done(y) = 3 * m
    BY <1>1, <1>3 DEF Size, Done
  <1>7. Shaped(y, 0)
    BY <1>1, <1>3, <1>6 DEF Shaped
  <1>8. Located(st2.mem, p, y)
    <2> DEFINE f == y.PC - y.currentLine
               d == 3 * (y.currentPage - 1)
    <2>1. f = b /\ d = 3 * m /\ 3 * y.pageCounter - 1 = 3 * m + 2
      BY <1>1, <1>3, <1>4
    <2>2. ASSUME NEW i \in d .. 3 * y.pageCounter - 1
          PROVE  st2.mem[f + i - d].line = IF i < Size(y) THEN <<p, i + 1>> ELSE NoLine
      <3>1. i \in 3 * m .. 3 * m + 2
        BY <2>1
      <3>2. i - 3 * m \in 0 .. 2 /\ i = 3 * m + (i - 3 * m) /\ b + i - 3 * m = b + (i - 3 * m)
        BY <3>1, <1>1, <1>4
      <3> DEFINE j == i - 3 * m
      <3>3. j \in 0 .. 2 /\ i = 3 * m + j /\ f + i - d = b + j
        BY <3>2, <2>1
      <3> HIDE DEF j, f, d
      <3>4. st2.mem[b + j].line = IF 3 * m + j < Size(x) THEN <<p, 3 * m + j + 1>> ELSE NoLine
        BY <3>3, <1>3
      <3> QED
        BY <3>3, <3>4, <1>6
    <2> HIDE DEF f, d
    <2>3. f \in Frames
      BY <2>1, <1>3
    <2> QED
      BY <2>2, <2>3 DEF Located, f, d
  <1>9. NoStray(st2.mem, p, y)
    <2> SUFFICES ASSUME NEW s \in 0 .. FrameStore - 1, st2.mem[s].line[1] = p,
                        st2.mem[s].line[2] > Done(y)
                 PROVE  /\ st2.mem[s].line[2] <= 3 * y.pageCounter
                        /\ s = y.PC + st2.mem[s].line[2] - Done(y) - 1
      BY DEF NoStray
    <2>1. CASE ~(s - b \in 0 .. 2)
      <3>1. st2.mem[s] = st.mem[s]
        BY <1>3, <2>1
      <3>2. st.mem[s].line[2] <= 3 * m /\ st.mem[s].line[2] > 3 * m
        BY <3>1, <1>1, <1>2, <1>6 DEF NoStray, m
      <3>3. st.mem[s].line[2] \in Nat
        <4>1. MemInv(st)
          BY <1>0 DEF Ready, StInv
        <4>2. st.mem[s] \in Cell
          BY <4>1 DEF MemInv
        <4> QED
          BY <4>2 DEF Cell
      <3> QED
        BY <3>2, <3>3, <1>1
    <2>2. CASE s - b \in 0 .. 2
      <3> DEFINE j == s - b
      <3>1. j \in 0 .. 2 /\ s = b + j
        BY <2>2, <1>4, FrameAssumption
      <3> HIDE DEF j
      <3>2. st2.mem[s].line = <<p, 3 * m + j + 1>>
        BY <3>1, <1>2, <1>3 DEF NoLine
      <3> QED
        BY <3>1, <3>2, <1>1, <1>3, <1>4, <1>6
    <2> QED
      BY <2>1, <2>2
  <1>10. FreeSlots(st2.mem) # {} /\ Size(y) > 3 => y.pageCounter >= 2
    BY <1>1, <1>3
  <1>11. Process(st2, After(c), p)
    BY <1>1, <1>5, <1>6, <1>7, <1>8, <1>9, <1>10 DEF Process, y
  <1>12. Pending(y) = {m} /\ Base(y, m) = b
    BY <1>1, <1>3, <1>4 DEF Pending, Base
  <1> QED
    BY <1>1, <1>6, <1>11, <1>12 DEF x, y, m

\* The other pages lose at most one older frame, and the page that was loaded is
\* not ahead of them any more.
LEMMA LoadingAffords ==
    ASSUME NEW pol, NEW st, NEW c, NEW done, NEW b, NEW st2, FaultStep(pol, st, c, done, b, st2),
           NEW r \in Live(st, c), NEW h \in Pending(st.pcb[r])
    PROVE  Affords(pol, st2, After(c), r, h)
  <1> DEFINE p == c.pid
             c2 == After(c)
             x == st.pcb[p]
             m == x.pageCounter
             g == Base(st.pcb[r], h)
             E == Events(pol, st, c, r, h)
             E2 == Events(pol, st2, c2, r, h)
             O == Older(pol, st.mem, g)
             O2 == Older(pol, st2.mem, g)
             n == Turns(pol, st.pcb[r], Left(c, r), h)
  <1>0. Ready(st, c, done) /\ Loading(st, p, b, st2) /\ pol \in Policies /\ Budget(pol, st, c)
    BY DEF FaultStep
  <1>1. /\ p \in Live(st, c) /\ x.currentLine = 0 /\ m \in Nat \ {0} /\ x.currentPage = m + 1
        /\ Done(x) = 3 * m /\ 3 * m < Size(x) /\ Size(x) \in Nat
    BY FaultFacts DEF FaultOf
  <1>2. r # p /\ <<p, m>> \in E
    BY FaultEvent
  <1>3. g \in Frames /\ g # b
    BY <1>0, PageFacts, VictimSpent DEF PageAt
  <1>4. /\ Live(st2, c2) = Live(st, c) /\ st2.pcb[r] = st.pcb[r] /\ Left(c2, r) = Left(c, r)
    BY <1>2, LoadingLive
  <1>5. SameFrame(st.mem, st2.mem, g)
    BY <1>0, <1>3, LoadingApart
  <1>6. b \in Frames /\ \A a \in Frames \ {b} : ~(Key(pol, st2.mem[b]) < Key(pol, st2.mem[a]))
    <2>1. MemInv(st2)
      BY DEF FaultStep, StInv
    <2>2. b \in Frames /\ \A a \in Frames \ {b} : Key(pol, st2.mem[a]) < Key(pol, st2.mem[b])
      BY <1>0 DEF Loading, Key
    <2>3. \A a \in Frames : Key(pol, st2.mem[a]) \in Nat
      BY <2>1, KeyType
    <2> QED
      BY <2>2, <2>3
  <1>7. O \ {b} \subseteq O2
    <2> SUFFICES ASSUME NEW a \in O, a # b PROVE a \in O2
      OBVIOUS
    <2>1. a \in Used(st.mem) /\ a \in Frames /\ Key(pol, st.mem[a]) < Key(pol, st.mem[g])
      BY DEF Older, Used
    <2>2. SameFrame(st.mem, st2.mem, a)
      BY <1>0, <2>1, LoadingApart
    <2>3. a \in Used(st2.mem)
      BY <2>1, LoadingSlots
    <2> QED
      BY <2>1, <2>2, <2>3, <1>5 DEF Older, SameFrame
  <1>8. n \in 1 .. 3
    BY <1>0, LiveFacts, TurnsFacts
  <1>9. ASSUME NEW q, NEW i \in Nat
        PROVE  /\ ReachOf(pol, st2, c2, q, r, h) = Reach(st2.pcb[q], Left(c2, q), TurnsOf(st, c, q, r, n))
               /\ ReachOf(pol, st, c, q, r, h) = Reach(st.pcb[q], Left(c, q), TurnsOf(st, c, q, r, n))
    <2>1. \A k : TurnsOf(st2, c2, q, r, k) = TurnsOf(st, c, q, r, k)
      BY LoadingLive DEF TurnsOf
    <2> QED
      BY <2>1, <1>4 DEF ReachOf
  <1> HIDE DEF n
  <1>10. ASSUME NEW i \in Nat, Renews(pol, st2, c2, p, i, r, h)
         PROVE  i # m /\ Renews(pol, st, c, p, i, r, h)
    <2> DEFINE y == st2.pcb[p]
    <2>1. /\ Done(y) = 3 * m /\ Size(y) = Size(x) /\ Base(y, m) = b
      BY <1>1, LoadingSelf
    <2>2. y.pageCounter = m + 1 /\ y.currentPage = m + 1
      BY <1>0, <1>1 DEF Loading
    <2>3. /\ Done(y) <= 3 * i /\ 3 * i < Size(y) /\ 3 * i < ReachOf(pol, st2, c2, p, r, h)
          /\ i < y.pageCounter => Key(pol, st2.mem[Base(y, i)]) < Key(pol, st2.mem[g])
      BY <1>10, <1>4 DEF Renews
    <2>4. i # m
      BY <2>1, <2>2, <2>3, <1>1, <1>3, <1>6
    <2>5. i > m
      BY <2>1, <2>3, <2>4, <1>1
    <2>6. /\ ReachOf(pol, st2, c2, p, r, h) = 3 * m + 2 * n - 2
          /\ ReachOf(pol, st, c, p, r, h) = 3 * m + 2 * n - 1
      <3>1. TurnsOf(st, c, p, r, n) = n
        BY <1>0, AheadFacts DEF TurnsOf
      <3>2. Left(c2, p) = 0
        BY DEF Left, After
      <3>3. Reach(y, 0, n) = 3 * m + 2 * n - 2
        <4> HIDE DEF y, m
        <4> QED
          BY <2>1, <2>2, <1>1, <1>8 DEF Reach
      <3>4. Reach(x, Left(c, p), n) = 3 * m + 2 * n - 1
        <4>1. Left(c, p) # 0
          BY DEF Left, FaultStep
        <4> HIDE DEF x, m
        <4> QED
          BY <4>1, <1>1, <1>8 DEF Reach, m
      <3> QED
        BY <3>1, <3>2, <3>3, <3>4, <1>9
    <2>7. 3 * i < ReachOf(pol, st, c, p, r, h)
      <3> HIDE DEF m
      <3> QED
        BY <2>3, <2>6, <1>1, <1>8
    <2> QED
      BY <2>1, <2>3, <2>4, <2>5, <2>7, <1>1 DEF Renews
  <1>11. ASSUME NEW q \in Live(st, c) \ {r}, q # p, NEW i \in Nat, Renews(pol, st2, c2, q, i, r, h)
         PROVE  Renews(pol, st, c, q, i, r, h)
    <2> DEFINE z == st.pcb[q]
    <2>1. st2.pcb[q] = z /\ Left(c2, q) = 2 /\ Left(c, q) = 2
      BY <1>11, LoadingLive
    <2>2. ReachOf(pol, st2, c2, q, r, h) = ReachOf(pol, st, c, q, r, h)
      BY <2>1, <1>9
    <2>3. /\ Done(z) <= 3 * i /\ 3 * i < Size(z) /\ 3 * i < ReachOf(pol, st2, c2, q, r, h)
          /\ i < z.pageCounter => /\ pol = "LRU"
                                  /\ Key(pol, st2.mem[Base(z, i)]) < Key(pol, st2.mem[g])
      BY <1>11, <1>4, <2>1 DEF Renews
    <2>4. i < z.pageCounter => Key(pol, st.mem[Base(z, i)]) < Key(pol, st.mem[g])
      <3> SUFFICES ASSUME i < z.pageCounter
                   PROVE  Key(pol, st.mem[Base(z, i)]) < Key(pol, st.mem[g])
        OBVIOUS
      <3>1. Regular(z, Left(c, q))
        BY <1>0, LiveFacts
      <3>2. x.currentPage \in Nat /\ z.currentPage <= i + 1
        BY <2>3, <3>1, <1>1 DEF Regular, Done
      <3>3. i \in Pending(z)
        BY <3>2 DEF Pending
      <3>4. Base(z, i) \in Frames /\ Base(z, i) # b
        BY <1>0, <3>3, PageFacts, VictimSpent DEF PageAt
      <3>5. SameFrame(st.mem, st2.mem, Base(z, i))
        BY <3>4, <1>0, LoadingApart
      <3> QED
        BY <2>3, <3>5, <1>5 DEF SameFrame
    <2> QED
      BY <2>2, <2>3, <2>4 DEF Renews
  <1>12. E2 \subseteq E \ {<<p, m>>}
    <2> SUFFICES ASSUME NEW e \in E2 PROVE e \in E \ {<<p, m>>}
      OBVIOUS
    <2>1. CASE e \in {r} \X {0}
      <3>1. /\ h = 1
            /\ IF pol = "LRU" THEN Done(st.pcb[r]) = 0 ELSE FreeSlots(st2.mem) # {}
        BY <2>1, <1>4 DEF Events
      <3>2. IF pol = "LRU" THEN Done(st.pcb[r]) = 0 ELSE FreeSlots(st.mem) # {}
        BY <3>1, LoadingSlots
      <3>3. e \in E
        BY <2>1, <3>1, <3>2 DEF Events
      <3>4. e = <<r, 0>>
        BY <2>1
      <3>5. e # <<p, m>>
        BY <3>4, <1>2
      <3> QED
        BY <3>3, <3>5
    <2>2. CASE e \notin {r} \X {0}
      <3>1. /\ e \in (Live(st, c) \ {r}) \X Nat
            /\ Renews(pol, st2, c2, e[1], e[2], r, h)
        BY <2>2, <1>4 DEF Events
      <3>2. e[1] \in Live(st, c) \ {r} /\ e[2] \in Nat /\ e = <<e[1], e[2]>>
        BY <3>1
      <3>3. e # <<p, m>> /\ Renews(pol, st, c, e[1], e[2], r, h)
        <4> HIDE DEF m, p, c2
        <4>1. CASE e[1] = p
          <5>1. e[2] # m /\ Renews(pol, st, c, p, e[2], r, h)
            BY <4>1, <3>1, <3>2, <1>10
          <5> QED
            BY <5>1, <4>1, <3>2
        <4>2. CASE e[1] # p
          BY <4>2, <3>1, <3>2, <1>11
        <4> QED
          BY <4>1, <4>2
      <3> QED
        BY <3>1, <3>3 DEF Events
    <2> QED
      BY <2>1, <2>2
  <1>13. IsFiniteSet(E) /\ Cardinality(E) <= Cardinality(O)
    BY <1>0 DEF Budget, Affords
  <1>14. IsFiniteSet(O) /\ IsFiniteSet(O2)
    <2>1. O \in SUBSET Frames /\ O2 \in SUBSET Frames
      BY DEF Older, Used
    <2> HIDE DEF O, O2
    <2> QED
      BY <2>1, FramesFinite
  <1> HIDE DEF E, E2, O, O2, g, m
  <1>15. IsFiniteSet(E2) /\ Cardinality(E2) <= Cardinality(O2)
    BY <1>2, <1>7, <1>12, <1>13, <1>14, StillAfforded
  <1> QED
    BY <1>4, <1>15 DEF Affords, E2, O2, g

\* A page fault that loads a page.
LEMMA LoadRounds ==
    ASSUME NEW pol, NEW st, NEW c, NEW done, NEW b, NEW st2, FaultStep(pol, st, c, done, b, st2)
    PROVE  /\ Ready(st2, After(c), done) /\ Live(st2, After(c)) = Live(st, c)
           /\ Budget(pol, st2, After(c))
  <1> DEFINE p == c.pid
             c2 == After(c)
             x == st.pcb[p]
             m == x.pageCounter
  <1>0. Ready(st, c, done) /\ Loading(st, p, b, st2) /\ pol \in Policies /\ p # 0
    BY DEF FaultStep
  <1>1. Live(st2, c2) = Live(st, c)
    BY LoadingLive
  <1>2. p \in Live(st, c) /\ m \in Nat \ {0} /\ Done(x) = 3 * m /\ 3 * m < Size(x) /\ Size(x) \in Nat
    BY FaultFacts DEF FaultOf
  <1>3. \A q \in Live(st, c) : Process(st2, c2, q)
    BY LoadingSelf, LoadingOthers
  <1>4. Used(st2.mem) = Used(st.mem) \cup {b} /\ FreeSlots(st2.mem) = FreeSlots(st.mem) \ {b}
    BY LoadingSlots
  <1>5. \A q \in Live(st, c) : Size(st2.pcb[q]) = Size(st.pcb[q])
    BY LoadingLive, LoadingSelf
  <1>6. Early(st2, c2) = Early(st, c)
    BY <1>1, <1>5 DEF Early
  <1>7. /\ Cardinality(Used(st.mem)) <= Cardinality(Used(st2.mem))
        /\ Cardinality(Used(st.mem)) \in Nat /\ Cardinality(Used(st2.mem)) \in Nat
    <2>1. Used(st.mem) \in SUBSET Frames /\ Used(st2.mem) \in SUBSET Frames
      BY DEF Used
    <2>2. IsFiniteSet(Used(st2.mem))
      BY <2>1, FramesFinite
    <2>3. Used(st.mem) \in SUBSET Used(st2.mem)
      BY <1>4
    <2> QED
      BY <2>1, <2>2, <2>3, FramesFinite, FS_Subset
  <1>8. Cardinality(Live(st, c)) \in Nat /\ Cardinality(Early(st, c)) \in Nat
    BY <1>0, LiveFinite
  <1>9. Rounds(st2, c2)
    <2>1. /\ Cardinality(Live(st, c)) <= Cardinality(Used(st.mem))
          /\ FreeSlots(st.mem) # {} => Cardinality(Early(st, c)) <= Cardinality(Used(st.mem))
      BY <1>0 DEF Ready, Rounds
    <2>2. Cardinality(Live(st, c)) <= Cardinality(Used(st2.mem))
      BY <2>1, <1>7, <1>8
    <2>3. FreeSlots(st2.mem) # {} => Cardinality(Early(st, c)) <= Cardinality(Used(st2.mem))
      BY <2>1, <1>4, <1>7, <1>8
    <2> QED
      BY <1>1, <1>3, <1>6, <2>2, <2>3 DEF Rounds
  <1>10. Ready(st2, c2, done)
    <2>1. c2 \in [pid : Nat, left : Int] /\ c2.pid = p /\ c2.left = 0
      BY <1>0 DEF After, Ready
    <2>2. NotReady(p, st2) /\ p \notin done
      BY <1>0 DEF Loading, NotReady, Ready
    <2>3. p \in DOMAIN st2.pcb
      <3>1. p \in DOMAIN st.pcb /\ PcbInv(st, done) /\ PcbInv(st2, done)
        BY <1>0 DEF FaultStep, Ready, StInv
      <3> QED
        BY <3>1, <1>0 DEF PcbInv, Loading
    <2> QED
      BY <2>1, <2>2, <2>3, <1>9 DEF Ready, FaultStep
  <1>11. Affords(pol, st2, c2, p, m)
    <2> DEFINE y == st2.pcb[p]
    <2>1. Pending(y) = {m} /\ Base(y, m) = b /\ Done(y) = Done(x)
      BY LoadingSelf
    <2>2. m = 1 => FreeSlots(st.mem) = {}
      <3>1. Process(st, c, p)
        BY <1>0, <1>2, LiveFacts
      <3>2. FreeSlots(st.mem) # {} /\ Size(x) > 3 => m >= 2
        BY <3>1 DEF Process
      <3> QED
        BY <3>2, <1>2
    <2>3. m # 1 \/ (IF pol = "LRU" THEN Done(y) # 0 ELSE FreeSlots(st2.mem) = {})
      BY <2>1, <2>2, <1>2, <1>4
    <2>4. \A a \in Used(st2.mem) : a # b => Key(pol, st2.mem[a]) < Key(pol, st2.mem[b])
      BY <1>0 DEF Loading, Key, Used
    <2>5. c2.pid = p /\ m \in Pending(y)
      BY <2>1 DEF After
    <2> HIDE DEF c2, p, m
    <2> QED
      BY <1>0, <1>10, <2>1, <2>3, <2>4, <2>5, FreshAfforded
  <1>12. Budget(pol, st2, c2)
    <2> SUFFICES ASSUME NEW r \in Live(st, c), NEW h \in Pending(st2.pcb[r])
                 PROVE  Affords(pol, st2, c2, r, h)
      BY <1>1 DEF Budget
    <2>1. CASE r = p
      BY <2>1, <1>11, LoadingSelf
    <2>2. CASE r # p
      BY <2>2, LoadingLive, LoadingAffords
    <2> QED
      BY <2>1, <2>2
  <1> QED
    BY <1>1, <1>10, <1>12

\* One line of p is read and executed: its cell becomes the newest.
Reading(st, p, st2) ==
    LET x == st.pcb[p]
        y == st2.pcb[p]
    IN  /\ st2.ready = st.ready
        /\ \A q \in DOMAIN st.pcb \ {p} : st2.pcb[q] = st.pcb[q] /\ st2.ran[q] = st.ran[q]
        /\ y.prog = x.prog /\ y.PC = x.PC + 1 /\ y.pageCounter = x.pageCounter
        /\ y.currentPage = IF x.currentLine = 2 THEN x.currentPage + 1 ELSE x.currentPage
        /\ y.currentLine = IF x.currentLine = 2 THEN 0 ELSE x.currentLine + 1
        /\ st2.ran[p] = Append(st.ran[p], <<p, Done(x) + 1>>)
        /\ \A q \in 0 .. FrameStore - 1 :
              /\ st2.mem[q].line = st.mem[q].line /\ st2.mem[q].age = st.mem[q].age
              /\ q # x.PC => /\ st2.mem[q].accessed = st.mem[q].accessed
                             /\ st2.mem[q].accessed < st2.mem[x.PC].accessed

\* One line of the turn is spent.
Spend(c) == [pid |-> c.pid, left |-> c.left - 1]

\* The process being executed reads a line of its script.
ReadStep(st, c, done, st2) ==
    /\ Ready(st, c, done) /\ c.pid # 0 /\ c.left # 0
    /\ st.pcb[c.pid].currentPage <= st.pcb[c.pid].pageCounter
    /\ Done(st.pcb[c.pid]) < Size(st.pcb[c.pid])
    /\ StInv(st2, done) /\ DOMAIN st2.pcb = DOMAIN st.pcb
    /\ Reading(st, c.pid, st2)

\* Before and after.
ReadOf(st, c, x, st2, y) ==
    /\ x = st.pcb[c.pid] /\ y = st2.pcb[c.pid] /\ c.pid \in Live(st, c) /\ c.pid \in Nat \ {0}
    /\ Regular(x, Left(c, c.pid)) /\ Shaped(x, Left(c, c.pid)) /\ c.left \in 1 .. 2
    /\ x.PC \in 0 .. FrameStore - 1 /\ x.PC \in Nat /\ x.currentLine \in 0 .. 2
    /\ x.currentPage \in Nat \ {0} /\ x.pageCounter \in Nat /\ x.currentPage <= x.pageCounter
    /\ Done(x) \in Nat /\ Size(x) \in Nat /\ Done(x) < Size(x)
    /\ Done(x) = 3 * (x.currentPage - 1) + x.currentLine
    /\ Done(y) = Done(x) + 1 /\ Size(y) = Size(x)
    /\ y.PC = x.PC + 1 /\ y.pageCounter = x.pageCounter
    /\ y.currentPage = IF x.currentLine = 2 THEN x.currentPage + 1 ELSE x.currentPage
    /\ y.currentLine = IF x.currentLine = 2 THEN 0 ELSE x.currentLine + 1

\* What reading a line does to the PCB.
LEMMA ReadFacts ==
    ASSUME NEW st, NEW c, NEW done, NEW st2, ReadStep(st, c, done, st2)
    PROVE  ReadOf(st, c, st.pcb[c.pid], st2, st2.pcb[c.pid])
  <1> DEFINE p == c.pid
             x == st.pcb[p]
             y == st2.pcb[p]
  <1>0. Ready(st, c, done) /\ Reading(st, p, st2)
    BY DEF ReadStep
  <1>1. p \in Live(st, c) /\ c.left \in 1 .. 2
    BY DEF Live, ReadStep, Ready
  <1>2. /\ Regular(x, Left(c, p)) /\ Shaped(x, Left(c, p)) /\ p \in Nat \ {0}
        /\ x \in PCB /\ InPage(x)
    BY <1>0, <1>1, LiveFacts
  <1>3. x.currentPage <= x.pageCounter /\ Done(x) < Size(x)
    BY DEF ReadStep
  <1>4. /\ y.prog = x.prog /\ y.PC = x.PC + 1 /\ y.pageCounter = x.pageCounter
        /\ y.currentPage = IF x.currentLine = 2 THEN x.currentPage + 1 ELSE x.currentPage
        /\ y.currentLine = IF x.currentLine = 2 THEN 0 ELSE x.currentLine + 1
    BY <1>0 DEF Reading
  <1> HIDE DEF x, y
  <1>5. /\ x.PC \in Nat /\ x.currentLine \in 0 .. 2 /\ x.currentPage \in Nat \ {0}
        /\ x.pageCounter \in Nat /\ Done(x) \in Nat /\ Size(x) \in Nat
    BY <1>2 DEF Regular
  <1>6. x.PC \in 0 .. FrameStore - 1
    <2>1. ~(x.currentPage > x.pageCounter)
      BY <1>3, <1>5
    <2> QED
      BY <2>1, <1>2, InFrameStore
  <1>7. Size(y) = Size(x)
    BY <1>4 DEF Size
  <1>8. Done(x) = 3 * (x.currentPage - 1) + x.currentLine
    BY DEF Done
  <1>9. Done(y) = Done(x) + 1
    BY <1>4, <1>5, <1>8 DEF Done
  <1> QED
    BY <1>1, <1>2, <1>3, <1>4, <1>5, <1>6, <1>7, <1>8, <1>9 DEF ReadOf, x, y

\* Everybody is as live as before; nothing moves.
LEMMA ReadLive ==
    ASSUME NEW st, NEW c, NEW done, NEW st2, ReadStep(st, c, done, st2)
    PROVE  /\ Live(st2, Spend(c)) = Live(st, c)
           /\ \A q \in Live(st, c) \ {c.pid} : /\ st2.pcb[q] = st.pcb[q] /\ st2.ran[q] = st.ran[q]
                                                /\ Left(Spend(c), q) = 2 /\ Left(c, q) = 2
           /\ Left(Spend(c), c.pid) = c.left - 1 /\ Left(c, c.pid) = c.left
           /\ \A q, r : Ahead(st2, Spend(c), q, r) <=> Ahead(st, c, q, r)
           /\ SameLines(st.mem, st2.mem)
  <1>1. st2.ready = st.ready /\ Spend(c).pid = c.pid /\ Spend(c).left = c.left - 1
        /\ \A q \in DOMAIN st.pcb \ {c.pid} : st2.pcb[q] = st.pcb[q] /\ st2.ran[q] = st.ran[q]
    BY DEF ReadStep, Reading, Spend
  <1>2. Ready(st, c, done)
    BY DEF ReadStep
  <1>3. \A q \in Live(st, c) : q \in DOMAIN st.pcb
    BY <1>2, LiveFacts
  <1>4. Live(st2, Spend(c)) = Live(st, c)
    BY <1>1 DEF Live
  <1>5. /\ \A q \in Live(st, c) \ {c.pid} : Left(Spend(c), q) = 2 /\ Left(c, q) = 2
        /\ Left(Spend(c), c.pid) = c.left - 1 /\ Left(c, c.pid) = c.left
    BY <1>1 DEF Left
  <1>6. \A q, r : Ahead(st2, Spend(c), q, r) <=> Ahead(st, c, q, r)
    BY <1>1 DEF Ahead
  <1>7. SameLines(st.mem, st2.mem)
    BY DEF ReadStep, Reading, SameLines
  <1> QED
    BY <1>1, <1>3, <1>4, <1>5, <1>6, <1>7

\* The lines executed, one more.
LEMMA OneMore ==
    ASSUME NEW p, NEW n \in Nat, NEW s, s = [k \in 1 .. n |-> <<p, k>>]
    PROVE  Append(s, <<p, n + 1>>) = [k \in 1 .. n + 1 |-> <<p, k>>]
  <1> DEFINE T == {<<p, k>> : k \in Nat}
  <1>1. s \in Seq(T) /\ Len(s) = n
    <2>1. s \in [1 .. n -> T]
      OBVIOUS
    <2> HIDE DEF T
    <2> QED
      BY <2>1, SeqDef
  <1>2. <<p, n + 1>> \in T
    OBVIOUS
  <1> DEFINE a == Append(s, <<p, n + 1>>)
  <1>3. a \in Seq(T) /\ Len(a) = n + 1 /\ a[n + 1] = <<p, n + 1>> /\ \A k \in 1 .. n : a[k] = s[k]
    <2> HIDE DEF T
    <2> QED
      BY <1>1, <1>2, AppendProperties
  <1>4. a = [k \in 1 .. n + 1 |-> a[k]]
    <2> HIDE DEF a, T
    <2> QED
      BY <1>3
  <1>5. \A k \in 1 .. n + 1 : a[k] = <<p, k>>
    <2>1. \A k \in 1 .. n + 1 : k \in 1 .. n \/ k = n + 1
      OBVIOUS
    <2> HIDE DEF a
    <2> QED
      BY <2>1, <1>3
  <1> HIDE DEF a
  <1>6. a = [k \in 1 .. n + 1 |-> <<p, k>>]
    BY <1>4, <1>5
  <1> QED
    BY <1>6 DEF a

\* The process itself.
LEMMA ReadSelf ==
    ASSUME NEW st, NEW c, NEW done, NEW st2, ReadStep(st, c, done, st2)
    PROVE  Process(st2, Spend(c), c.pid)
  <1> DEFINE p == c.pid
             x == st.pcb[p]
             y == st2.pcb[p]
  <1>0. Ready(st, c, done) /\ Reading(st, p, st2)
    BY DEF ReadStep
  <1>1. ReadOf(st, c, x, st2, y)
    BY ReadFacts
  <1>2. p \in Live(st, c) /\ Shaped(x, Left(c, p))
    BY <1>1 DEF ReadOf
  <1>3. Process(st, c, p) /\ Located(st.mem, p, x) /\ NoStray(st.mem, p, x) /\ InPage(x)
    BY <1>0, <1>2, LiveFacts
  <1>4. SameLines(st.mem, st2.mem) /\ Left(Spend(c), p) = c.left - 1 /\ Left(c, p) = c.left
    BY ReadLive
  <1>5. FreeSlots(st2.mem) = FreeSlots(st.mem)
    BY <1>4, SameSlots
  <1>6. st2.ran[p] = [k \in 1 .. Done(y) |-> <<p, k>>]
    <2>1. st2.ran[p] = Append(st.ran[p], <<p, Done(x) + 1>>)
      BY <1>0 DEF Reading
    <2>2. st.ran[p] = [k \in 1 .. Done(x) |-> <<p, k>>]
      BY <1>3 DEF Process
    <2>3. Done(x) \in Nat /\ Done(y) = Done(x) + 1
      BY <1>1 DEF ReadOf
    <2> HIDE DEF x, y
    <2> QED
      BY <2>1, <2>2, <2>3, OneMore
  <1>7. FreeSlots(st2.mem) # {} /\ Size(y) > 3 => y.pageCounter >= 2
    BY <1>1, <1>3, <1>5 DEF Process, ReadOf
  <1>8. Shaped(y, c.left - 1)
    <2>1. /\ x.currentLine \in 0 .. 2 /\ c.left \in 1 .. 2 /\ x.currentPage \in Nat \ {0}
          /\ x.pageCounter \in Nat
          /\ Done(x) \in Nat /\ Size(x) \in Nat /\ Done(x) < Size(x)
          /\ Done(y) = Done(x) + 1 /\ Size(y) = Size(x) /\ y.pageCounter = x.pageCounter
          /\ y.currentPage = IF x.currentLine = 2 THEN x.currentPage + 1 ELSE x.currentPage
          /\ y.currentLine = IF x.currentLine = 2 THEN 0 ELSE x.currentLine + 1
      BY <1>1 DEF ReadOf
    <2>2. Shaped(x, c.left)
      BY <1>2, <1>4
    <2> DEFINE a == x.currentLine
               l == c.left
    <2> HIDE DEF x, y
    <2>3. /\ y.pageCounter >= 1 /\ y.currentPage >= 1 /\ 3 * (y.pageCounter - 1) < Size(y)
          /\ Done(y) <= Size(y)
      BY <2>1, <2>2 DEF Shaped
    <2>4. ASSUME y.currentPage < y.pageCounter
          PROVE  /\ y.pageCounter = 2 /\ y.currentPage = 1
                 /\ <<y.currentLine, l - 1>> \in {<<0, 2>>, <<1, 1>>, <<2, 0>>, <<2, 2>>}
      <3>1. x.currentPage < x.pageCounter
        BY <2>1, <2>4
      <3>2. x.pageCounter = 2 /\ x.currentPage = 1
            /\ <<a, l>> \in {<<0, 2>>, <<1, 1>>, <<2, 0>>, <<2, 2>>}
        BY <3>1, <2>2 DEF Shaped
      <3>3. a # 2
        BY <3>2, <2>1, <2>4
      <3>4. (a = 0 /\ l = 2) \/ (a = 1 /\ l = 1)
        BY <3>2, <3>3
      <3>5. (y.currentLine = 1 /\ l - 1 = 1) \/ (y.currentLine = 2 /\ l - 1 = 0)
        BY <3>4, <2>1
      <3> QED
        BY <3>2, <3>3, <3>5, <2>1
    <2> QED
      BY <2>3, <2>4 DEF Shaped
  <1>9. NoStray(st2.mem, p, y)
    <2> SUFFICES ASSUME NEW s \in 0 .. FrameStore - 1, st2.mem[s].line[1] = p,
                        st2.mem[s].line[2] > Done(y)
                 PROVE  /\ st2.mem[s].line[2] <= 3 * y.pageCounter
                        /\ s = y.PC + st2.mem[s].line[2] - Done(y) - 1
      BY DEF NoStray
    <2> DEFINE k == st.mem[s].line[2]
    <2>1. st2.mem[s].line = st.mem[s].line
      BY <1>4 DEF SameLines
    <2>2. k \in Nat
      <3>1. MemInv(st)
        BY <1>0 DEF Ready, StInv
      <3>2. st.mem[s] \in Cell
        BY <3>1 DEF MemInv
      <3> QED
        BY <3>2 DEF Cell
    <2>3. Done(x) \in Nat /\ Done(y) = Done(x) + 1 /\ y.PC = x.PC + 1 /\ x.PC \in Nat
          /\ y.pageCounter = x.pageCounter
      BY <1>1 DEF ReadOf
    <2>4. k > Done(x)
      BY <2>1, <2>2, <2>3
    <2>5. k <= 3 * x.pageCounter /\ s = x.PC + k - Done(x) - 1
      BY <2>1, <2>4, <1>3 DEF NoStray
    <2> HIDE DEF x, y, k
    <2>6. k <= 3 * y.pageCounter /\ s = y.PC + k - Done(y) - 1
      BY <2>2, <2>3, <2>5
    <2> QED
      BY <2>1, <2>6 DEF k
  <1>10. Located(st2.mem, p, y)
    <2> DEFINE f == x.PC - x.currentLine
               d == 3 * (x.currentPage - 1)
               g == y.PC - y.currentLine
               e == 3 * (y.currentPage - 1)
               k == 3 * x.pageCounter
    <2>1. /\ x.currentLine \in 0 .. 2 /\ x.currentPage \in Nat \ {0} /\ x.PC \in Nat
          /\ x.pageCounter \in Nat /\ x.currentPage <= x.pageCounter
          /\ Size(y) = Size(x) /\ y.pageCounter = x.pageCounter /\ y.PC = x.PC + 1
          /\ y.currentPage = IF x.currentLine = 2 THEN x.currentPage + 1 ELSE x.currentPage
          /\ y.currentLine = IF x.currentLine = 2 THEN 0 ELSE x.currentLine + 1
      BY <1>1 DEF ReadOf
    <2> SUFFICES ASSUME y.currentPage <= y.pageCounter
                 PROVE  /\ g \in Frames
                        /\ \A i \in e .. k - 1 :
                             st2.mem[g + i - e].line = IF i < Size(x) THEN <<p, i + 1>> ELSE NoLine
      BY <2>1 DEF Located
    <2>2. /\ f \in Frames
          /\ \A i \in d .. k - 1 :
                st.mem[f + i - d].line = IF i < Size(x) THEN <<p, i + 1>> ELSE NoLine
      BY <2>1, <1>3 DEF Located
    <2>3. f + 3 * (x.pageCounter - x.currentPage + 1) <= FrameStore
      BY <2>1, <1>3 DEF InPage
    <2>4. (g = f /\ e = d) \/ (g = f + 3 * 1 /\ e = d + 3 /\ f + 3 * 1 + 3 <= FrameStore)
      <3> HIDE DEF x, y
      <3> QED
        BY <2>1, <2>3, FrameAssumption
    <2>5. g \in Frames
      <3> HIDE DEF f, g, e, d
      <3> QED
        BY <2>2, <2>4, FramesHas
    <2>6. f \in Nat /\ d \in Nat /\ k \in Nat
      <3>1. f \in Nat
        BY <2>2, FrameFacts
      <3> HIDE DEF f
      <3> QED
        BY <2>1, <3>1
    <2>7. ASSUME NEW i \in e .. k - 1
          PROVE  st2.mem[g + i - e].line = IF i < Size(x) THEN <<p, i + 1>> ELSE NoLine
      <3>1. k = 3 * x.pageCounter
        OBVIOUS
      <3> HIDE DEF f, g, e, d, k, x
      <3>2. i \in d .. k - 1 /\ g + i - e = f + i - d
        BY <2>4, <2>6, <2>7
      <3>3. st.mem[f + i - d].line = IF i < Size(x) THEN <<p, i + 1>> ELSE NoLine
        BY <2>2, <3>2
      <3>4. f + i - d \in 0 .. FrameStore - 1
        <4>1. i - d >= 0 /\ i - d < 3 * (x.pageCounter - x.currentPage + 1)
          BY <3>1, <3>2, <2>1, <2>6 DEF d
        <4>2. f + i - d = f + (i - d)
          BY <2>6, <3>2
        <4> QED
          BY <4>1, <4>2, <2>1, <2>3, <2>6, <3>2, FrameAssumption
      <3> QED
        BY <3>2, <3>3, <3>4, <1>4 DEF SameLines
    <2> HIDE DEF f, g, e, d, k
    <2> QED
      BY <2>5, <2>7
  <1> QED
    BY <1>4, <1>6, <1>7, <1>8, <1>9, <1>10 DEF Process

\* The page whose first line is read is touched now.
Touched(pol, st, c, r, h) ==
    /\ pol = "LRU" /\ r = c.pid
    /\ st.pcb[r].currentLine = 0 /\ h + 1 = st.pcb[r].currentPage

\* Nobody gets farther than before.
LEMMA ReadReach ==
    ASSUME NEW st, NEW c, NEW done, NEW st2, ReadStep(st, c, done, st2), NEW pol \in Policies,
           NEW q \in Live(st, c), NEW r \in Live(st, c), q # r, NEW h \in Pending(st2.pcb[r]),
           ~Touched(pol, st, c, r, h)
    PROVE  /\ h \in Pending(st.pcb[r]) /\ Base(st2.pcb[r], h) = Base(st.pcb[r], h)
           /\ ReachOf(pol, st2, Spend(c), q, r, h) <= ReachOf(pol, st, c, q, r, h)
           /\ ReachOf(pol, st2, Spend(c), q, r, h) \in Int /\ ReachOf(pol, st, c, q, r, h) \in Int
  <1> DEFINE p == c.pid
             x == st.pcb[p]
             y == st2.pcb[p]
             c2 == Spend(c)
             n == Turns(pol, st.pcb[r], Left(c, r), h)
             t == TurnsOf(st, c, q, r, n)
  <1>0. Ready(st, c, done)
    BY DEF ReadStep
  <1>1. ReadOf(st, c, x, st2, y)
    BY ReadFacts
  <1>2. /\ x.PC \in Nat /\ x.currentLine \in 0 .. 2 /\ c.left \in 1 .. 2
        /\ x.currentPage \in Nat \ {0} /\ x.pageCounter \in Nat /\ x.currentPage <= x.pageCounter
        /\ Done(x) \in Nat /\ Done(x) = 3 * (x.currentPage - 1) + x.currentLine
        /\ Done(y) = Done(x) + 1 /\ y.PC = x.PC + 1 /\ y.pageCounter = x.pageCounter
        /\ y.currentPage = IF x.currentLine = 2 THEN x.currentPage + 1 ELSE x.currentPage
        /\ y.currentLine = IF x.currentLine = 2 THEN 0 ELSE x.currentLine + 1
    BY <1>1 DEF ReadOf
  <1>3. /\ \A s \in Live(st, c) \ {p} : st2.pcb[s] = st.pcb[s] /\ Left(c2, s) = 2 /\ Left(c, s) = 2
        /\ Left(c2, p) = c.left - 1 /\ Left(c, p) = c.left
        /\ \A k : TurnsOf(st2, c2, q, r, k) = TurnsOf(st, c, q, r, k)
    BY ReadLive DEF TurnsOf
  <1>4. h \in Nat
    BY DEF Pending
  <1> HIDE DEF p, c2
  <1>5. /\ h \in Pending(st.pcb[r]) /\ Base(st2.pcb[r], h) = Base(st.pcb[r], h)
        /\ Turns(pol, st2.pcb[r], Left(c2, r), h) = n
    <2>1. CASE r # p
      BY <2>1, <1>3
    <2>2. CASE r = p
      <3>0. h \in Pending(y) /\ ~(pol = "LRU" /\ x.currentLine = 0 /\ h + 1 = x.currentPage)
        BY <2>2 DEF Touched, p
      <3> HIDE DEF x, y
      <3>1. h \in Pending(x)
        BY <3>0, <1>2 DEF Pending
      <3>2. Base(y, h) = Base(x, h)
        BY <1>2, <1>4 DEF Base
      <3>3. Target(pol, y, h) = Target(pol, x, h)
        <4>1. pol = "LRU" => Done(x) # 3 * h
          BY <3>0, <1>2, <1>4
        <4> QED
          BY <4>1, <1>2, <1>4 DEF Target
      <3>4. Target(pol, x, h) \in Int
        BY <1>4 DEF Target
      <3>5. (Target(pol, y, h) - Done(y) + 3) - (c.left - 1) = (Target(pol, x, h) - Done(x) + 3) - c.left
        BY <3>3, <3>4, <1>2
      <3>6. Turns(pol, y, c.left - 1, h) = Turns(pol, x, c.left, h)
        BY <3>5 DEF Turns
      <3> QED
        BY <2>2, <3>1, <3>2, <3>6, <1>3 DEF x, y
    <2> QED
      BY <2>1, <2>2
  <1>6. n \in 1 .. 3
    BY <1>0, <1>5, LiveFacts, TurnsFacts
  <1>7. /\ ReachOf(pol, st2, c2, q, r, h) = Reach(st2.pcb[q], Left(c2, q), t)
        /\ ReachOf(pol, st, c, q, r, h) = Reach(st.pcb[q], Left(c, q), t)
    BY <1>3, <1>5 DEF ReachOf
  <1> HIDE DEF n
  <1>8. t \in 0 .. 3
    BY <1>6, TurnsOfFacts
  <1> HIDE DEF t
  <1>9. ReachOf(pol, st, c, q, r, h) \in Int
    BY <1>0, <1>5, ReachType
  <1>10. CASE q # p
    <2>1. ReachOf(pol, st2, c2, q, r, h) = ReachOf(pol, st, c, q, r, h)
      BY <1>3, <1>7, <1>10
    <2> QED
      BY <2>1, <1>5, <1>9 DEF c2
  <1>11. CASE q = p
    <2> HIDE DEF x, y
    <2>1. Reach(y, c.left - 1, t) <= Reach(x, c.left, t) /\ Reach(y, c.left - 1, t) \in Int
      <3>1. CASE y.currentPage > y.pageCounter
        BY <3>1, <1>2, <1>8 DEF Reach
      <3>2. CASE ~(y.currentPage > y.pageCounter)
        BY <3>2, <1>2, <1>8 DEF Reach
      <3> QED
        BY <3>1, <3>2
    <2> QED
      BY <2>1, <1>3, <1>5, <1>7, <1>9, <1>11 DEF x, y, c2
  <1> QED
    BY <1>5, <1>9, <1>10, <1>11 DEF c2

\* The frames and their keys.
LEMMA ReadKeys ==
    ASSUME NEW st, NEW c, NEW done, NEW st2, ReadStep(st, c, done, st2), NEW pol \in Policies,
           NEW a \in Frames
    PROVE  /\ a # st.pcb[c.pid].PC \/ pol # "LRU" => Key(pol, st2.mem[a]) = Key(pol, st.mem[a])
           /\ st.pcb[c.pid].PC \in Frames /\ a # st.pcb[c.pid].PC /\ pol = "LRU" =>
                 /\ Key(pol, st2.mem[a]) < Key(pol, st2.mem[st.pcb[c.pid].PC])
                 /\ ~(Key(pol, st2.mem[st.pcb[c.pid].PC]) < Key(pol, st2.mem[a]))
  <1> DEFINE f == st.pcb[c.pid].PC
  <1>1. MemInv(st2)
    BY DEF ReadStep, StInv
  <1>2. a \in 0 .. FrameStore - 1 /\ Key(pol, st2.mem[a]) \in Nat
    BY <1>1, KeyType
  <1>3. /\ st2.mem[a].age = st.mem[a].age
        /\ a # f => /\ st2.mem[a].accessed = st.mem[a].accessed
                    /\ st2.mem[a].accessed < st2.mem[f].accessed
    BY <1>2 DEF ReadStep, Reading
  <1>4. f \in Frames => Key(pol, st2.mem[f]) \in Nat
    BY <1>1, KeyType
  <1> HIDE DEF f
  <1>5. a # f \/ pol # "LRU" => Key(pol, st2.mem[a]) = Key(pol, st.mem[a])
    BY <1>3 DEF Key
  <1>6. f \in Frames /\ a # f /\ pol = "LRU" => Key(pol, st2.mem[a]) < Key(pol, st2.mem[f])
    BY <1>3 DEF Key
  <1>7. f \in Frames /\ a # f /\ pol = "LRU" => ~(Key(pol, st2.mem[f]) < Key(pol, st2.mem[a]))
    BY <1>2, <1>4, <1>6
  <1> QED
    BY <1>5, <1>6, <1>7 DEF f

\* Where the process reads is the first line of its page, or not the first line of
\* a frame.
LEMMA ReadPlace ==
    ASSUME NEW st, NEW c, NEW done, NEW st2, ReadStep(st, c, done, st2), NEW x, x = st.pcb[c.pid]
    PROVE  /\ x.currentPage - 1 \in Pending(x)
           /\ x.currentLine = 0 => x.PC = Base(x, x.currentPage - 1) /\ x.PC \in Frames
           /\ x.currentLine # 0 => x.PC \notin Frames
  <1>0. Ready(st, c, done)
    BY DEF ReadStep
  <1>1. ReadOf(st, c, x, st2, st2.pcb[c.pid])
    BY ReadFacts
  <1>2. /\ x.PC \in Nat /\ x.currentLine \in 0 .. 2 /\ c.pid \in Live(st, c)
        /\ x.currentPage \in Nat \ {0} /\ x.pageCounter \in Nat /\ x.currentPage <= x.pageCounter
    BY <1>1 DEF ReadOf
  <1> DEFINE h == x.currentPage - 1
  <1>3. h \in Pending(x)
    BY <1>2 DEF Pending
  <1>4. Base(x, h) = x.PC - x.currentLine
    BY <1>2 DEF Base
  <1>5. Base(x, h) \in Frames
    BY <1>0, <1>2, <1>3, PageFacts DEF PageAt
  <1>6. x.currentLine = 0 => x.PC = Base(x, h)
    BY <1>2, <1>4
  <1>7. ASSUME x.currentLine # 0, x.PC \in Frames PROVE FALSE
    <2>1. Base(x, h) + x.currentLine = x.PC + 0
      BY <1>2, <1>4
    <2>2. Base(x, h) # x.PC
      BY <1>2, <1>4, <1>7
    <2> QED
      BY <2>1, <2>2, <1>2, <1>5, <1>7, FrameCells
  <1> QED
    BY <1>3, <1>5, <1>6, <1>7

\* A page touched before or loaded before can afford what may still happen.
LEMMA ReadAffords ==
    ASSUME NEW st, NEW c, NEW done, NEW st2, ReadStep(st, c, done, st2), NEW pol \in Policies,
           Budget(pol, st, c), NEW r \in Live(st, c), NEW h \in Pending(st2.pcb[r]),
           ~Touched(pol, st, c, r, h)
    PROVE  Affords(pol, st2, Spend(c), r, h)
  <1> DEFINE p == c.pid
             c2 == Spend(c)
             x == st.pcb[p]
             y == st2.pcb[p]
             m == x.currentPage - 1
             f == x.PC
             g == Base(st.pcb[r], h)
             E == Events(pol, st, c, r, h)
             E2 == Events(pol, st2, c2, r, h)
             O == Older(pol, st.mem, g)
             O2 == Older(pol, st2.mem, g)
  <1>0. Ready(st, c, done)
    BY DEF ReadStep
  <1>1. ReadOf(st, c, x, st2, y)
    BY ReadFacts
  <1>2. /\ p \in Live(st, c) /\ x.PC \in Nat /\ x.currentLine \in 0 .. 2 /\ c.left \in 1 .. 2
        /\ x.currentPage \in Nat \ {0} /\ x.pageCounter \in Nat /\ x.currentPage <= x.pageCounter
        /\ Done(x) \in Nat /\ Done(x) = 3 * (x.currentPage - 1) + x.currentLine
        /\ Done(y) = Done(x) + 1 /\ y.PC = x.PC + 1 /\ y.pageCounter = x.pageCounter
        /\ y.currentPage = IF x.currentLine = 2 THEN x.currentPage + 1 ELSE x.currentPage
        /\ y.currentLine = IF x.currentLine = 2 THEN 0 ELSE x.currentLine + 1
        /\ Size(y) = Size(x) /\ Size(x) \in Nat /\ Done(x) < Size(x)
    BY <1>1 DEF ReadOf
  <1>3. /\ Live(st2, c2) = Live(st, c) /\ Left(c, p) = c.left
        /\ \A s \in Live(st, c) \ {p} : st2.pcb[s] = st.pcb[s]
        /\ SameLines(st.mem, st2.mem)
    BY ReadLive
  <1>4. FreeSlots(st2.mem) = FreeSlots(st.mem) /\ Used(st2.mem) = Used(st.mem)
    BY <1>3, SameSlots
  <1>5. /\ h \in Pending(st.pcb[r]) /\ Base(st2.pcb[r], h) = g
    <2>1. CASE r # p
      BY <2>1, <1>3
    <2>2. CASE r = p
      <3> HIDE DEF x, y
      <3>1. h \in Pending(y) /\ h \in Nat
        BY <2>2 DEF y, Pending
      <3>2. h \in Pending(x) /\ Base(y, h) = Base(x, h)
        BY <3>1, <1>2 DEF Pending, Base
      <3> QED
        BY <2>2, <3>2 DEF x, y
    <2> QED
      BY <2>1, <2>2
  <1>6. g \in Frames
    BY <1>0, <1>5, PageFacts DEF PageAt
  <1>7. /\ m \in Pending(x)
        /\ x.currentLine = 0 => f = Base(x, m) /\ f \in Frames
        /\ x.currentLine # 0 => f \notin Frames
    BY ReadPlace
  <1>8. ASSUME pol = "LRU" PROVE g # f
    <2> SUFFICES ASSUME g = f PROVE FALSE
      OBVIOUS
    <2>1. x.currentLine = 0 /\ g = Base(x, m)
      BY <1>6, <1>7
    <2> HIDE DEF m
    <2>2. r = p /\ h = m
      <3>1. /\ p \in Live(st, c) /\ m \in Pending(st.pcb[p]) /\ h \in Pending(st.pcb[r])
            /\ Base(st.pcb[r], h) = Base(st.pcb[p], m)
        BY <2>1, <1>2, <1>5, <1>7
      <3> HIDE DEF p
      <3> QED
        BY <3>1, <1>0, PagesApart
    <2> QED
      BY <2>1, <2>2, <1>2, <1>8 DEF Touched, m
  <1>9. \A a \in Frames : a # f \/ pol # "LRU" => Key(pol, st2.mem[a]) = Key(pol, st.mem[a])
    BY ReadKeys
  <1>10. Key(pol, st2.mem[g]) = Key(pol, st.mem[g])
    BY <1>6, <1>8, <1>9
  <1>11. O \ {f} \subseteq O2 /\ (pol # "LRU" \/ f \notin O => O \subseteq O2)
    <2>1. ASSUME NEW a \in O, a # f \/ pol # "LRU" PROVE a \in O2
      <3>1. a \in Frames /\ a \in Used(st.mem) /\ Key(pol, st.mem[a]) < Key(pol, st.mem[g])
        BY DEF Older, Used
      <3>2. Key(pol, st2.mem[a]) = Key(pol, st.mem[a])
        BY <3>1, <2>1, <1>9
      <3> QED
        BY <3>1, <3>2, <1>4, <1>10 DEF Older
    <2> HIDE DEF O, O2, f
    <2> QED
      BY <2>1
  <1>12. ASSUME NEW q \in Live(st, c) \ {r}
         PROVE  /\ ReachOf(pol, st2, c2, q, r, h) <= ReachOf(pol, st, c, q, r, h)
                /\ ReachOf(pol, st2, c2, q, r, h) \in Int /\ ReachOf(pol, st, c, q, r, h) \in Int
    BY <1>12, ReadReach
  <1>13. ASSUME NEW q \in Live(st, c) \ {r}, NEW i \in Nat, Renews(pol, st2, c2, q, i, r, h)
         PROVE  Renews(pol, st, c, q, i, r, h) /\ (q = p => 3 * i > Done(x))
    <2> DEFINE z == st.pcb[q]
               w == st2.pcb[q]
    <2>1. /\ Done(w) <= 3 * i /\ 3 * i < Size(w) /\ 3 * i < ReachOf(pol, st2, c2, q, r, h)
          /\ i < w.pageCounter => /\ pol = "LRU"
                                  /\ Key(pol, st2.mem[Base(w, i)]) < Key(pol, st2.mem[g])
      BY <1>13, <1>5 DEF Renews
    <2>2. 3 * i < ReachOf(pol, st, c, q, r, h)
      BY <2>1, <1>12
    <2>3. Regular(z, Left(c, q))
      BY <1>0, LiveFacts
    <2>4. /\ Done(z) <= 3 * i /\ Size(w) = Size(z) /\ w.pageCounter = z.pageCounter
          /\ Base(w, i) = Base(z, i) /\ (q = p => 3 * i > Done(x))
      <3>1. CASE q # p
        BY <3>1, <2>1, <1>3
      <3>2. CASE q = p
        <4>1. z = x /\ w = y
          BY <3>2
        <4> HIDE DEF x, y, z, w
        <4>2. Done(x) <= 3 * i /\ 3 * i > Done(x)
          BY <4>1, <2>1, <1>2
        <4>3. Base(y, i) = Base(x, i)
          BY <1>2 DEF Base
        <4> QED
          BY <4>1, <4>2, <4>3, <1>2
      <3> QED
        BY <3>1, <3>2
    <2>5. ASSUME i < z.pageCounter PROVE Key(pol, st.mem[Base(z, i)]) < Key(pol, st.mem[g])
      <3>1. z.currentPage <= i + 1
        BY <2>3, <2>4 DEF Regular, Done
      <3>2. i \in Pending(z)
        BY <3>1, <2>5 DEF Pending
      <3>3. Base(z, i) \in Frames
        BY <1>0, <3>2, PageFacts DEF PageAt
      <3>4. Base(z, i) # f
        <4> SUFFICES ASSUME Base(z, i) = f PROVE FALSE
          OBVIOUS
        <4>1. x.currentLine = 0 /\ Base(z, i) = Base(x, m)
          BY <3>3, <1>7
        <4> HIDE DEF m
        <4>2. q = p /\ i = m
          <5>1. /\ p \in Live(st, c) /\ m \in Pending(st.pcb[p]) /\ i \in Pending(st.pcb[q])
                /\ Base(st.pcb[q], i) = Base(st.pcb[p], m) /\ q \in Live(st, c)
            BY <4>1, <3>2, <1>2, <1>7
          <5> HIDE DEF p
          <5> QED
            BY <5>1, <1>0, PagesApart
        <4>3. Done(x) = 3 * i
          BY <4>1, <4>2, <1>2 DEF m
        <4> QED
          BY <4>2, <4>3, <2>4, <1>2
      <3>5. Key(pol, st2.mem[Base(z, i)]) = Key(pol, st.mem[Base(z, i)])
        BY <3>3, <3>4, <1>9
      <3> QED
        BY <2>1, <2>4, <2>5, <3>5, <1>10
    <2> HIDE DEF w
    <2>6. Renews(pol, st, c, q, i, r, h)
      BY <2>1, <2>2, <2>4, <2>5 DEF Renews
    <2> QED
      BY <2>4, <2>6
  <1>14. E2 \subseteq E
    <2> SUFFICES ASSUME NEW e \in E2 PROVE e \in E
      OBVIOUS
    <2>1. CASE e \in {r} \X {0}
      <3>1. /\ h = 1
            /\ IF pol = "LRU" THEN Done(st2.pcb[r]) = 0 ELSE FreeSlots(st2.mem) # {}
        BY <2>1 DEF Events
      <3>2. pol = "LRU" => Done(st.pcb[r]) = 0
        BY <3>1, <1>2, <1>3
      <3> QED
        BY <2>1, <3>1, <3>2, <1>4 DEF Events
    <2>2. CASE e \notin {r} \X {0}
      <3>1. /\ e \in (Live(st, c) \ {r}) \X Nat
            /\ Renews(pol, st2, c2, e[1], e[2], r, h)
        BY <2>2, <1>3 DEF Events
      <3>2. e[1] \in Live(st, c) \ {r} /\ e[2] \in Nat
        BY <3>1
      <3>3. Renews(pol, st, c, e[1], e[2], r, h)
        BY <3>1, <3>2, <1>13
      <3> QED
        BY <3>1, <3>3 DEF Events
    <2> QED
      BY <2>1, <2>2
  <1>15. ASSUME pol = "LRU", f \in O PROVE \E e \in E : e \notin E2
    <2>1. f \in Frames /\ Key(pol, st.mem[f]) < Key(pol, st.mem[g])
      BY <1>15 DEF Older, Used
    <2>2. x.currentLine = 0 /\ f = Base(x, m) /\ m \in Nat /\ Done(x) = 3 * m
      BY <2>1, <1>2, <1>7
    <2>3. CASE r # p
      <3> DEFINE n == Turns(pol, st.pcb[r], Left(c, r), h)
      <3>1. n \in 1 .. 3
        BY <1>0, <1>5, LiveFacts, TurnsFacts
      <3>2. ReachOf(pol, st, c, p, r, h) = Reach(x, c.left, n)
        <4>1. Ahead(st, c, p, r)
          BY <1>0, AheadFacts
        <4> QED
          BY <4>1, <1>3 DEF ReachOf, TurnsOf
      <3> HIDE DEF n
      <3>3. 3 * m < Reach(x, c.left, n)
        <4> HIDE DEF x, m
        <4> QED
          BY <3>1, <2>2, <1>2 DEF Reach
      <3>4. Renews(pol, st, c, p, m, r, h)
        BY <3>2, <3>3, <2>1, <2>2, <1>2, <1>15 DEF Renews
      <3>5. <<p, m>> \in E
        BY <2>2, <2>3, <3>4, <1>2 DEF Events
      <3>6. <<p, m>> \notin E2
        <4> SUFFICES ASSUME <<p, m>> \in E2 PROVE FALSE
          OBVIOUS
        <4> HIDE DEF m, p
        <4>1. Renews(pol, st2, c2, p, m, r, h)
          BY <2>3 DEF Events
        <4>2. 3 * m > Done(x)
          BY <4>1, <2>2, <2>3, <1>2, <1>13
        <4> QED
          BY <4>2, <2>2, <1>2
      <3> QED
        BY <3>5, <3>6
    <2>4. CASE r = p
      <3>1. h # m /\ h \in Nat /\ x.currentPage <= h + 1 /\ h < x.pageCounter
        BY <2>2, <2>4, <1>2, <1>5, <1>15 DEF Touched, Pending
      <3>2. x.currentPage < x.pageCounter
        BY <3>1, <1>2
      <3>3. x.pageCounter = 2 /\ x.currentPage = 1
        BY <3>2, <1>1 DEF ReadOf, Shaped
      <3>4. h = 1 /\ Done(x) = 0 /\ Done(y) # 0
        BY <3>1, <3>3, <2>2, <1>2
      <3>5. <<p, 0>> \in E
        BY <3>4, <2>4, <1>15 DEF Events
      <3>6. <<p, 0>> \notin E2
        BY <3>4, <2>4, <1>15 DEF Events
      <3> QED
        BY <3>5, <3>6
    <2> QED
      BY <2>3, <2>4
  <1>16. IsFiniteSet(E) /\ Cardinality(E) <= Cardinality(O)
    BY <1>5 DEF Budget, Affords
  <1>17. IsFiniteSet(O) /\ IsFiniteSet(O2)
    <2>1. O \in SUBSET Frames /\ O2 \in SUBSET Frames
      BY DEF Older, Used
    <2> HIDE DEF O, O2
    <2> QED
      BY <2>1, FramesFinite
  <1> HIDE DEF E, E2, O, O2, g, f
  <1>18. IsFiniteSet(E2) /\ Cardinality(E2) <= Cardinality(O2)
    <2>1. CASE pol = "LRU" /\ f \in O
      <3>1. PICK e \in E : e \notin E2
        BY <2>1, <1>15
      <3>2. E2 \subseteq E \ {e}
        BY <3>1, <1>14
      <3> QED
        BY <3>2, <1>11, <1>16, <1>17, StillAfforded
    <2>2. CASE ~(pol = "LRU" /\ f \in O)
      BY <2>2, <1>11, <1>14, <1>16, <1>17, StillAfforded
    <2> QED
      BY <2>1, <2>2
  <1> QED
    BY <1>5, <1>18 DEF Affords, E2, O2

\* A line that is executed.
LEMMA ReadRounds ==
    ASSUME NEW st, NEW c, NEW done, NEW st2, ReadStep(st, c, done, st2)
    PROVE  /\ Ready(st2, Spend(c), done) /\ Live(st2, Spend(c)) = Live(st, c)
           /\ \A pol \in Policies : Budget(pol, st, c) => Budget(pol, st2, Spend(c))
  <1> DEFINE p == c.pid
             c2 == Spend(c)
             x == st.pcb[p]
             y == st2.pcb[p]
  <1>0. Ready(st, c, done) /\ p # 0
    BY DEF ReadStep
  <1>1. ReadOf(st, c, x, st2, y)
    BY ReadFacts
  <1>2. /\ Live(st2, c2) = Live(st, c)
        /\ \A q \in Live(st, c) \ {p} : /\ st2.pcb[q] = st.pcb[q] /\ st2.ran[q] = st.ran[q]
                                         /\ Left(c2, q) = 2 /\ Left(c, q) = 2
        /\ SameLines(st.mem, st2.mem)
    BY ReadLive
  <1>3. FreeSlots(st2.mem) = FreeSlots(st.mem) /\ Used(st2.mem) = Used(st.mem)
    BY <1>2, SameSlots
  <1>4. ASSUME NEW q \in Live(st, c) PROVE Process(st2, c2, q)
    <2>1. CASE q = p
      BY <2>1, ReadSelf
    <2>2. CASE q # p
      <3>1. Shaped(st.pcb[q], Left(c2, q))
        BY <2>2, <1>0, <1>2, LiveFacts
      <3> QED
        BY <2>2, <3>1, <1>0, <1>2, ProcessSame
    <2> QED
      BY <2>1, <2>2
  <1>5. Early(st2, c2) = Early(st, c)
    <2>1. \A q \in Live(st, c) : Size(st2.pcb[q]) = Size(st.pcb[q])
      BY <1>1, <1>2 DEF ReadOf
    <2> QED
      BY <2>1, <1>2 DEF Early
  <1>6. Rounds(st2, c2)
    BY <1>0, <1>2, <1>3, <1>4, <1>5 DEF Ready, Rounds
  <1>7. Ready(st2, c2, done)
    <2>1. c.left \in 1 .. 2 /\ c \in [pid : Nat, left : Int]
      BY <1>0, <1>1 DEF ReadOf, Ready
    <2>2. c2 \in [pid : Nat, left : Int] /\ c2.pid = p /\ c2.left \in 0 .. 2
      BY <2>1 DEF Spend
    <2>3. NotReady(p, st2) /\ p \in DOMAIN st2.pcb \ done
      BY <1>0 DEF ReadStep, Reading, NotReady, Ready
    <2>4. Together(st2.mem)
      <3>1. Together(st.mem)
        BY <1>0 DEF Ready
      <3>2. ASSUME NEW b \in FreeSlots(st2.mem), NEW q \in b .. FrameStore - 1
            PROVE  st2.mem[q].line = NoLine
        <4>1. b \in Nat
          BY FrameFacts DEF FreeSlots
        <4>2. q \in 0 .. FrameStore - 1
          BY <4>1, FrameAssumption
        <4> QED
          BY <3>1, <4>2, <1>2, <1>3 DEF Together, SameLines
      <3> QED
        BY <3>2 DEF Together
    <2> QED
      BY <2>2, <2>3, <2>4, <1>6 DEF Ready, ReadStep
  <1>8. ASSUME NEW pol \in Policies, Budget(pol, st, c), NEW r \in Live(st, c),
               NEW h \in Pending(st2.pcb[r])
        PROVE  Affords(pol, st2, c2, r, h)
    <2>1. CASE ~Touched(pol, st, c, r, h)
      BY <2>1, <1>8, ReadAffords
    <2>2. CASE Touched(pol, st, c, r, h)
      <3>1. pol = "LRU" /\ r = p /\ x.currentLine = 0 /\ h + 1 = x.currentPage /\ h \in Nat
        BY <2>2 DEF Touched, Pending
      <3>2. /\ y.currentPage = x.currentPage /\ y.currentLine = 1 /\ y.PC = x.PC + 1
            /\ x.PC \in Nat /\ Done(y) = Done(x) + 1 /\ Done(x) \in Nat
            /\ x.currentPage \in Nat
        BY <3>1, <1>1 DEF ReadOf
      <3>3. x.PC \in Frames
        BY <3>1, ReadPlace
      <3>4. Base(y, h) = x.PC
        <4> HIDE DEF x, y
        <4> QED
          BY <3>1, <3>2 DEF Base
      <3>5. \A a \in Used(st2.mem) : a # x.PC => Key(pol, st2.mem[a]) < Key(pol, st2.mem[x.PC])
        BY <3>1, <3>3, ReadKeys DEF Used
      <3>6. Done(y) # 0
        BY <3>2
      <3>7. c2.pid = p
        BY DEF Spend
      <3> HIDE DEF c2, p
      <3>8. h \in Pending(st2.pcb[c2.pid])
        BY <3>1, <3>7
      <3>9. Affords(pol, st2, c2, c2.pid, h)
        BY <1>0, <1>7, <1>8, <3>1, <3>4, <3>5, <3>6, <3>7, <3>8, FreshAfforded
      <3> QED
        BY <3>1, <3>7, <3>9
    <2> QED
      BY <2>1, <2>2
  <1> QED
    BY <1>2, <1>7, <1>8 DEF Budget

\* A script is admitted: k pages are loaded from the first free frame b on.
Admitting(st, b, k, st2) ==
    LET s == st.pid
        y == st2.pcb[s]
    IN  /\ b \in FreeSlots(st.mem) /\ \A a \in FreeSlots(st.mem) : b <= a
        /\ s \in Nat \ {0} /\ s \notin DOMAIN st.pcb /\ DOMAIN st2.pcb = DOMAIN st.pcb \cup {s}
        /\ st2.ready = Append(st.ready, s) /\ st2.ran[s] = << >>
        /\ \A q \in DOMAIN st.pcb : st2.pcb[q] = st.pcb[q] /\ st2.ran[q] = st.ran[q]
        /\ y.PC = b /\ y.currentPage = 1 /\ y.currentLine = 0 /\ y.pageCounter = k
        /\ k \in 1 .. 2 /\ b + 3 * k <= FrameStore
        /\ Size(y) \in Nat /\ 3 * (k - 1) < Size(y) /\ (k = 1 /\ Size(y) > 3 => b + 3 = FrameStore)
        /\ \A q \in 0 .. FrameStore - 1 : ~(q - b \in 0 .. 3 * k - 1) => st2.mem[q] = st.mem[q]
        /\ \A j \in 0 .. 3 * k - 1 :
              st2.mem[b + j].line = IF j < Size(y) THEN <<s, j + 1>> ELSE NoLine
        /\ \A a \in Frames : ~(a - b \in 0 .. 3 * k - 1) =>
              /\ st2.mem[a].accessed < st2.mem[b].accessed
              /\ st2.mem[a].age < st2.mem[b].age
        /\ k = 2 => /\ st2.mem[b].accessed < st2.mem[b + 3].accessed
                    /\ st2.mem[b].age < st2.mem[b + 3].age

\* The process being executed has not just ended its turn in front of a loaded page.
NotAtPage(st, c) ==
    c.pid # 0 => \A h \in Pending(st.pcb[c.pid]) : ~(c.left = 0 /\ Done(st.pcb[c.pid]) = 3 * h)

\* A script is admitted, at the prompt or by a line.
AdmitStep(st, c, done, b, k, st2) ==
    /\ Ready(st, c, done) /\ NotAtPage(st, c)
    /\ StInv(st2, done) /\ Together(st2.mem)
    /\ Admitting(st, b, k, st2)

\* The frames that are loaded.
Taken(b, k) == IF k = 2 THEN {b, b + 3} ELSE {b}

\* The frames that are loaded were free, and no other frame is touched.
LEMMA TakenFacts ==
    ASSUME NEW st, NEW c, NEW done, NEW b, NEW k, NEW st2, AdmitStep(st, c, done, b, k, st2)
    PROVE  /\ k \in 1 .. 2 /\ b \in Nat /\ b \in Taken(b, k)
           /\ Taken(b, k) \subseteq FreeSlots(st.mem) /\ Taken(b, k) \subseteq Frames
           /\ Taken(b, k) \cap Used(st.mem) = {}
           /\ \A a \in Frames : a \notin Taken(b, k) => ~(a - b \in 0 .. 3 * k - 1)
           /\ \A a \in Frames \ Taken(b, k) : SameFrame(st.mem, st2.mem, a)
  <1>1. /\ b \in FreeSlots(st.mem) /\ k \in 1 .. 2 /\ b + 3 * k <= FrameStore
        /\ \A q \in 0 .. FrameStore - 1 : ~(q - b \in 0 .. 3 * k - 1) => st2.mem[q] = st.mem[q]
    BY DEF AdmitStep, Admitting
  <1>2. b \in Frames /\ b \in Nat
    BY <1>1, FrameFacts DEF FreeSlots
  <1>3. Together(st.mem)
    BY DEF AdmitStep, Ready
  <1>4. k = 2 => b + 3 \in Frames /\ b + 3 \in FreeSlots(st.mem)
    <2> SUFFICES ASSUME k = 2 PROVE b + 3 \in Frames /\ b + 3 \in FreeSlots(st.mem)
      OBVIOUS
    <2>1. 1 \in Nat /\ b + 3 * 1 + 3 <= FrameStore /\ b + 3 * 1 = b + 3
      BY <1>1, <1>2
    <2>2. b + 3 \in Frames
      BY <2>1, <1>2, FramesHas
    <2>3. ASSUME NEW j \in 0 .. 2 PROVE st.mem[b + 3 + j].line = NoLine
      <3>1. b + 3 + j \in b .. FrameStore - 1
        BY <2>1, <1>2, FrameAssumption
      <3> QED
        BY <3>1, <1>1, <1>3 DEF Together
    <2> QED
      BY <2>2, <2>3 DEF FreeSlots
  <1>5. Taken(b, k) \subseteq FreeSlots(st.mem) /\ Taken(b, k) \subseteq Frames /\ b \in Taken(b, k)
    BY <1>1, <1>2, <1>4 DEF Taken
  <1>6. Taken(b, k) \cap Used(st.mem) = {}
    BY <1>5 DEF Used
  <1>7. ASSUME NEW a \in Frames, a \notin Taken(b, k), NEW j \in 0 .. 2
        PROVE  ~((a + j) - b \in 0 .. 3 * k - 1)
    <2> SUFFICES ASSUME (a + j) - b \in 0 .. 3 * k - 1 PROVE FALSE
      OBVIOUS
    <2>1. a \in Nat
      BY FrameFacts
    <2> DEFINE d == (a + j) - b
    <2>2. d \in 0 .. 5 /\ a + j = b + d /\ (d > 2 => k = 2)
      BY <1>1, <1>2, <2>1
    <2> HIDE DEF d
    <2>3. CASE d \in 0 .. 2
      <3>1. a # b
        BY <1>5, <1>7
      <3> QED
        BY <2>2, <2>3, <3>1, <1>2, FrameCells
    <2>4. CASE d \in 3 .. 5
      <3>1. k = 2 /\ a # b + 3
        BY <2>2, <2>4, <1>7 DEF Taken
      <3>2. d - 3 \in 0 .. 2 /\ a + j = (b + 3) + (d - 3)
        BY <2>1, <2>2, <2>4, <1>2
      <3> QED
        BY <3>1, <3>2, <1>4, FrameCells
    <2> QED
      BY <2>2, <2>3, <2>4
  <1>8. ASSUME NEW a \in Frames, a \notin Taken(b, k) PROVE ~(a - b \in 0 .. 3 * k - 1)
    <2>1. a + 0 = a /\ 0 \in 0 .. 2
      BY FrameFacts
    <2> QED
      BY <2>1, <1>7, <1>8
  <1>9. ASSUME NEW a \in Frames \ Taken(b, k) PROVE SameFrame(st.mem, st2.mem, a)
    <2>1. a \in Nat /\ a + 3 <= FrameStore
      BY FrameFacts
    <2>2. ASSUME NEW j \in 0 .. 2 PROVE st2.mem[a + j] = st.mem[a + j]
      <3>1. a + j \in 0 .. FrameStore - 1
        BY <2>1, FrameAssumption
      <3>2. ~((a + j) - b \in 0 .. 3 * k - 1)
        BY <1>7
      <3> QED
        BY <3>1, <3>2, <1>1
    <2>3. a + 0 = a /\ 0 \in 0 .. 2
      BY <2>1
    <2> QED
      BY <2>2, <2>3 DEF SameFrame
  <1> QED
    BY <1>1, <1>2, <1>5, <1>6, <1>8, <1>9

\* They are free no more.
LEMMA AdmitSlots ==
    ASSUME NEW st, NEW c, NEW done, NEW b, NEW k, NEW st2, AdmitStep(st, c, done, b, k, st2)
    PROVE  /\ FreeSlots(st2.mem) = FreeSlots(st.mem) \ Taken(b, k)
           /\ Used(st2.mem) = Used(st.mem) \cup Taken(b, k)
  <1> DEFINE s == st.pid
             y == st2.pcb[s]
  <1>1. /\ k \in 1 .. 2 /\ s \in Nat \ {0} /\ Size(y) \in Nat /\ 3 * (k - 1) < Size(y)
        /\ \A j \in 0 .. 3 * k - 1 :
              st2.mem[b + j].line = IF j < Size(y) THEN <<s, j + 1>> ELSE NoLine
    BY DEF AdmitStep, Admitting
  <1>2. b \in Nat /\ Taken(b, k) \subseteq Frames
    BY TakenFacts
  <1>3. ASSUME NEW a \in Taken(b, k) PROVE a \notin FreeSlots(st2.mem)
    <2>1. PICK j \in {0, 3} : a = b + j /\ j \in 0 .. 3 * k - 1 /\ j < Size(y)
      <3>1. CASE a = b
        BY <3>1, <1>1, <1>2
      <3>2. CASE a # b
        BY <3>2, <1>1, <1>2 DEF Taken
      <3> QED
        BY <3>1, <3>2
    <2>2. st2.mem[a].line = <<s, j + 1>> /\ a + 0 = a /\ 0 \in 0 .. 2
      <3> HIDE DEF s, y
      <3>1. st2.mem[b + j].line = IF j < Size(y) THEN <<s, j + 1>> ELSE NoLine
        BY <2>1, <1>1
      <3>2. a \in Nat
        BY <1>2, <1>3, FrameFacts
      <3> QED
        BY <2>1, <3>1, <3>2
    <2>3. st2.mem[a + 0].line # NoLine
      BY <2>2, <1>1 DEF NoLine
    <2> QED
      BY <2>2, <2>3 DEF FreeSlots
  <1>4. ASSUME NEW a \in Frames, a \notin Taken(b, k)
        PROVE  a \in FreeSlots(st2.mem) <=> a \in FreeSlots(st.mem)
    <2>1. SameFrame(st.mem, st2.mem, a)
      BY <1>4, TakenFacts
    <2> QED
      BY <2>1 DEF FreeSlots, SameFrame
  <1>5. FreeSlots(st2.mem) \subseteq Frames /\ FreeSlots(st.mem) \subseteq Frames
    BY DEF FreeSlots
  <1>6. FreeSlots(st2.mem) = FreeSlots(st.mem) \ Taken(b, k)
    BY <1>3, <1>4, <1>5
  <1> QED
    BY <1>2, <1>6 DEF Used

\* The new process is the last of the queue.
LEMMA AdmitLive ==
    ASSUME NEW st, NEW c, NEW done, NEW b, NEW k, NEW st2, AdmitStep(st, c, done, b, k, st2)
    PROVE  /\ Live(st2, c) = Live(st, c) \cup {st.pid} /\ st.pid \notin Live(st, c)
           /\ \A q \in Live(st, c) : /\ st2.pcb[q] = st.pcb[q] /\ st2.ran[q] = st.ran[q]
                                      /\ q # st.pid
           /\ \A q, r \in Live(st, c) : Ahead(st2, c, q, r) <=> Ahead(st, c, q, r)
           /\ \A r \in Live(st, c) : ~Ahead(st2, c, st.pid, r)
           /\ Left(c, st.pid) = 2 /\ c.pid # st.pid
  <1> DEFINE s == st.pid
             n == Len(st.ready)
  <1>0. Ready(st, c, done) /\ ReadyInv(st, done)
    BY DEF AdmitStep, Ready, StInv
  <1>1. /\ s \in Nat \ {0} /\ s \notin DOMAIN st.pcb /\ st2.ready = Append(st.ready, s)
        /\ \A q \in DOMAIN st.pcb : st2.pcb[q] = st.pcb[q] /\ st2.ran[q] = st.ran[q]
    BY DEF AdmitStep, Admitting
  <1>2. \A q \in Live(st, c) : q \in DOMAIN st.pcb
    BY <1>0, LiveFacts
  <1>3. /\ n \in Nat /\ Len(st2.ready) = n + 1 /\ st2.ready[n + 1] = s
        /\ \A i \in 1 .. n : st2.ready[i] = st.ready[i]
    BY <1>0, <1>1 DEF ReadyInv
  <1>4. c.pid # s
    BY <1>0, <1>1 DEF Ready
  <1>5. \A i \in 1 .. n + 1 : i \in 1 .. n \/ i = n + 1
    BY <1>3
  <1>6. 1 .. n \subseteq 1 .. n + 1 /\ n + 1 \in 1 .. n + 1
    BY <1>3
  <1> HIDE DEF s, n
  <1>7. Live(st2, c) = Live(st, c) \cup {s}
    BY <1>1, <1>3, <1>5, <1>6 DEF Live, n
  <1>8. s \notin Live(st, c)
    BY <1>1, <1>2
  <1>9. ASSUME NEW q, NEW r \in Live(st, c)
        PROVE  Ahead(st2, c, q, r) <=> Ahead(st, c, q, r)
    <2> DEFINE B == \E a, d \in 1 .. n : a < d /\ st.ready[a] = q /\ st.ready[d] = r
               B2 == \E a, d \in 1 .. n + 1 : a < d /\ st2.ready[a] = q /\ st2.ready[d] = r
    <2>1. (Ahead(st2, c, q, r) <=> q = c.pid \/ B2) /\ (Ahead(st, c, q, r) <=> q = c.pid \/ B)
      BY <1>3 DEF Ahead, n
    <2>2. B => B2
      BY <1>3, <1>6
    <2>3. ASSUME B2 PROVE B
      <3>1. PICK a \in 1 .. n + 1, d \in 1 .. n + 1 : a < d /\ st2.ready[a] = q /\ st2.ready[d] = r
        BY <2>3
      <3>2. d # n + 1
        BY <3>1, <1>3, <1>8, <1>9
      <3>3. a \in 1 .. n /\ d \in 1 .. n
        BY <3>1, <3>2, <1>3
      <3> QED
        BY <3>1, <3>3, <1>3
    <2> HIDE DEF B, B2
    <2> QED
      BY <2>1, <2>2, <2>3
  <1>10. ASSUME NEW r \in Live(st, c) PROVE ~Ahead(st2, c, s, r)
    <2>1. ~Ahead(st, c, s, r)
      <3> SUFFICES ASSUME NEW a \in 1 .. n, st.ready[a] = s PROVE FALSE
        BY <1>4 DEF Ahead, n
      <3>1. s \in Live(st, c)
        BY <1>1 DEF Live, n
      <3> QED
        BY <3>1, <1>8
    <2> QED
      BY <2>1, <1>9, <1>10
  <1>11. Left(c, s) = 2
    BY <1>4 DEF Left
  <1> QED
    BY <1>1, <1>2, <1>4, <1>7, <1>8, <1>9, <1>10, <1>11 DEF s

\* The pages of the others are in frames that were used.
LEMMA AdmitApart ==
    ASSUME NEW st, NEW c, NEW done, NEW b, NEW k, NEW st2, AdmitStep(st, c, done, b, k, st2),
           NEW q \in Live(st, c), NEW h \in Pending(st.pcb[q])
    PROVE  /\ Base(st.pcb[q], h) \in Used(st.mem) /\ Base(st.pcb[q], h) \in Frames
           /\ Base(st.pcb[q], h) \notin Taken(b, k)
           /\ SameFrame(st.mem, st2.mem, Base(st.pcb[q], h))
  <1> DEFINE g == Base(st.pcb[q], h)
  <1>1. Ready(st, c, done)
    BY DEF AdmitStep
  <1>2. g \in Used(st.mem) /\ g \in Frames
    BY <1>1, PageFacts DEF PageAt
  <1>3. g \notin Taken(b, k)
    BY <1>2, TakenFacts
  <1> HIDE DEF g
  <1>4. SameFrame(st.mem, st2.mem, g)
    BY <1>2, <1>3, TakenFacts
  <1> QED
    BY <1>2, <1>3, <1>4 DEF g

\* The other processes keep what is said about them.
LEMMA AdmitOthers ==
    ASSUME NEW st, NEW c, NEW done, NEW b, NEW k, NEW st2, AdmitStep(st, c, done, b, k, st2),
           NEW q \in Live(st, c)
    PROVE  Process(st2, c, q)
  <1> DEFINE s == st.pid
             x == st.pcb[q]
             m == 3 * x.pageCounter
             d == 3 * (x.currentPage - 1)
             f == x.PC - x.currentLine
  <1>0. Ready(st, c, done)
    BY DEF AdmitStep
  <1>1. /\ Process(st, c, q) /\ Located(st.mem, q, x) /\ NoStray(st.mem, q, x)
        /\ Shaped(x, Left(c, q)) /\ q \in Nat \ {0}
    BY <1>0, LiveFacts
  <1>2. st2.pcb[q] = x /\ st2.ran[q] = st.ran[q] /\ q # s
    BY AdmitLive
  <1>3. FreeSlots(st2.mem) # {} => FreeSlots(st.mem) # {}
    BY AdmitSlots
  <1>4. Located(st2.mem, q, x)
    <2> SUFFICES ASSUME x.currentPage <= x.pageCounter
                 PROVE  /\ f \in Frames
                        /\ \A i \in d .. m - 1 :
                             st2.mem[f + i - d].line = IF i < Size(x) THEN <<q, i + 1>> ELSE NoLine
      BY DEF Located
    <2>1. /\ f \in Frames
          /\ \A i \in d .. m - 1 :
                st.mem[f + i - d].line = IF i < Size(x) THEN <<q, i + 1>> ELSE NoLine
      BY <1>1 DEF Located
    <2>2. ASSUME NEW i \in d .. m - 1 PROVE st2.mem[f + i - d] = st.mem[f + i - d]
      <3>1. PICK h \in Pending(x), j \in 0 .. 2 : f + i - d = Base(x, h) + j
        BY <1>0, CellOfPage
      <3> DEFINE g == Base(x, h)
      <3>2. SameFrame(st.mem, st2.mem, g)
        BY AdmitApart
      <3> HIDE DEF g
      <3>3. st2.mem[g + j] = st.mem[g + j]
        BY <3>2 DEF SameFrame
      <3> QED
        BY <3>1, <3>3 DEF g
    <2> HIDE DEF x, d, m, f
    <2> QED
      BY <2>1, <2>2
  <1>5. NoStray(st2.mem, q, x)
    <2> SUFFICES ASSUME NEW t \in 0 .. FrameStore - 1, st2.mem[t].line[1] = q,
                        st2.mem[t].line[2] > Done(x)
                 PROVE  /\ st2.mem[t].line[2] <= m
                        /\ t = x.PC + st2.mem[t].line[2] - Done(x) - 1
      BY DEF NoStray
    <2>1. CASE ~(t - b \in 0 .. 3 * k - 1)
      <3>1. st2.mem[t] = st.mem[t]
        BY <2>1 DEF AdmitStep, Admitting
      <3> QED
        BY <3>1, <1>1 DEF NoStray
    <2>2. CASE t - b \in 0 .. 3 * k - 1
      <3> DEFINE j == t - b
      <3>1. b \in Nat /\ t \in Int
        BY TakenFacts, FrameAssumption
      <3>2. t = b + j
        BY <3>1
      <3> HIDE DEF j
      <3>3. st2.mem[t].line \in {NoLine, <<s, j + 1>>}
        <4> DEFINE w == Size(st2.pcb[s])
        <4>1. \A i \in 0 .. 3 * k - 1 : st2.mem[b + i].line = IF i < w THEN <<s, i + 1>> ELSE NoLine
          BY DEF AdmitStep, Admitting
        <4>2. j \in 0 .. 3 * k - 1
          BY <2>2 DEF j
        <4> HIDE DEF w, s
        <4>3. st2.mem[b + j].line = IF j < w THEN <<s, j + 1>> ELSE NoLine
          BY <4>1, <4>2
        <4> QED
          BY <4>3, <3>2
      <3>4. st2.mem[t].line[1] \in {0, s}
        BY <3>3 DEF NoLine
      <3> QED
        BY <3>4, <1>1, <1>2
    <2> QED
      BY <2>1, <2>2
  <1> QED
    BY <1>1, <1>2, <1>3, <1>4, <1>5 DEF Process

\* The new process.
LEMMA AdmitSelf ==
    ASSUME NEW st, NEW c, NEW done, NEW b, NEW k, NEW st2, AdmitStep(st, c, done, b, k, st2)
    PROVE  Process(st2, c, st.pid)
  <1> DEFINE s == st.pid
             y == st2.pcb[s]
  <1>0. Ready(st, c, done) /\ MemInv(st)
    BY DEF AdmitStep, Ready, StInv
  <1>1. /\ b \in FreeSlots(st.mem) /\ \A a \in FreeSlots(st.mem) : b <= a
        /\ s \in Nat \ {0} /\ s \notin DOMAIN st.pcb /\ st2.ran[s] = << >>
        /\ y.PC = b /\ y.currentPage = 1 /\ y.currentLine = 0 /\ y.pageCounter = k
        /\ k \in 1 .. 2 /\ b + 3 * k <= FrameStore
        /\ Size(y) \in Nat /\ 3 * (k - 1) < Size(y) /\ (k = 1 /\ Size(y) > 3 => b + 3 = FrameStore)
        /\ \A q \in 0 .. FrameStore - 1 : ~(q - b \in 0 .. 3 * k - 1) => st2.mem[q] = st.mem[q]
        /\ \A j \in 0 .. 3 * k - 1 :
              st2.mem[b + j].line = IF j < Size(y) THEN <<s, j + 1>> ELSE NoLine
    BY DEF AdmitStep, Admitting
  <1>2. Left(c, s) = 2
    BY AdmitLive
  <1>3. b \in Nat /\ b \in Frames /\ b \in Taken(b, k)
    BY TakenFacts
  <1>4. FreeSlots(st2.mem) # {} /\ Size(y) > 3 => k >= 2
    <2> SUFFICES ASSUME k = 1, Size(y) > 3, NEW a \in FreeSlots(st2.mem) PROVE FALSE
      BY <1>1
    <2>1. a \in FreeSlots(st.mem) /\ a # b
      BY <1>3, AdmitSlots
    <2>2. b <= a /\ a \in Nat /\ a + 3 <= FrameStore
      BY <2>1, <1>1, FrameFacts DEF FreeSlots
    <2>3. b + 3 = FrameStore
      BY <1>1
    <2> QED
      BY <2>1, <2>2, <2>3, <1>3
  <1> HIDE DEF s, y
  <1>5. Done(y) = 0
    BY <1>1 DEF Done
  <1>6. Shaped(y, 2)
    <2>1. <<y.currentLine, 2>> \in {<<0, 2>>, <<1, 1>>, <<2, 0>>, <<2, 2>>}
      BY <1>1
    <2> QED
      BY <2>1, <1>1, <1>5 DEF Shaped
  <1>7. Located(st2.mem, s, y)
    <2> DEFINE f == y.PC - y.currentLine
               d == 3 * (y.currentPage - 1)
    <2>1. f = b /\ d = 0 /\ 3 * y.pageCounter - 1 = 3 * k - 1
      BY <1>1, <1>3
    <2>2. ASSUME NEW i \in d .. 3 * y.pageCounter - 1
          PROVE  st2.mem[f + i - d].line = IF i < Size(y) THEN <<s, i + 1>> ELSE NoLine
      <3>1. i \in 0 .. 3 * k - 1 /\ f + i - d = b + i
        BY <2>1, <1>1, <1>3
      <3> HIDE DEF f, d
      <3> QED
        BY <3>1, <1>1
    <2> HIDE DEF f, d
    <2>3. f \in Frames
      BY <2>1, <1>3
    <2> QED
      BY <2>2, <2>3 DEF Located, f, d
  <1>8. NoStray(st2.mem, s, y)
    <2> SUFFICES ASSUME NEW t \in 0 .. FrameStore - 1, st2.mem[t].line[1] = s
                 PROVE  /\ st2.mem[t].line[2] <= 3 * y.pageCounter
                        /\ t = y.PC + st2.mem[t].line[2] - Done(y) - 1
      BY DEF NoStray
    <2>1. CASE ~(t - b \in 0 .. 3 * k - 1)
      <3>1. st2.mem[t] = st.mem[t]
        BY <2>1, <1>1
      <3>2. LineOf(st, t)
        BY <1>0 DEF MemInv
      <3>3. st.mem[t].line[1] \in DOMAIN st.pcb \cup {0}
        BY <3>2 DEF LineOf, NoLine
      <3> QED
        BY <3>1, <3>3, <1>1
    <2>2. CASE t - b \in 0 .. 3 * k - 1
      <3> DEFINE j == t - b
      <3>1. j \in 0 .. 3 * k - 1 /\ t = b + j
        BY <2>2, <1>3, FrameAssumption
      <3> HIDE DEF j
      <3>2. st2.mem[t].line = <<s, j + 1>>
        <4>1. st2.mem[b + j].line = IF j < Size(y) THEN <<s, j + 1>> ELSE NoLine
          BY <3>1, <1>1
        <4>2. st2.mem[t].line # NoLine
          BY <1>1 DEF NoLine
        <4> QED
          BY <4>1, <4>2, <3>1
      <3>3. j + 1 <= 3 * k /\ t = (b + (j + 1)) - 0 - 1 /\ j \in Nat
        BY <3>1, <1>1, <1>3
      <3>4. st2.mem[t].line[2] = j + 1
        BY <3>2
      <3> QED
        BY <3>3, <3>4, <1>1, <1>3, <1>5
    <2> QED
      BY <2>1, <2>2
  <1>9. st2.ran[s] = [i \in 1 .. Done(y) |-> <<s, i>>]
    <2>1. 1 .. 0 = {}
      OBVIOUS
    <2>2. << >> = [i \in 1 .. 0 |-> <<s, i>>]
      BY <2>1
    <2> QED
      BY <2>2, <1>1, <1>5
  <1> QED
    BY <1>1, <1>2, <1>4, <1>6, <1>7, <1>8, <1>9 DEF Process, y, s

\* At most one element more.
LEMMA OneElementMore ==
    ASSUME NEW S, NEW T, NEW e, IsFiniteSet(S), T \subseteq S \cup {e}
    PROVE  IsFiniteSet(T) /\ Cardinality(T) <= Cardinality(S) + 1 /\ Cardinality(T) \in Nat
           /\ Cardinality(S) \in Nat
  <1>1. IsFiniteSet(S \cup {e})
        /\ Cardinality(S \cup {e}) = IF e \in S THEN Cardinality(S) ELSE Cardinality(S) + 1
    BY FS_AddElement
  <1>2. IsFiniteSet(T) /\ Cardinality(T) <= Cardinality(S \cup {e})
    BY <1>1, FS_Subset
  <1>3. Cardinality(S) \in Nat /\ Cardinality(T) \in Nat
    BY <1>2, FS_CardinalityType
  <1> QED
    BY <1>1, <1>2, <1>3

\* As many frames are used as pages are loaded.
LEMMA AdmitCount ==
    ASSUME NEW st, NEW c, NEW done, NEW b, NEW k, NEW st2, AdmitStep(st, c, done, b, k, st2)
    PROVE  /\ Cardinality(Used(st2.mem)) = Cardinality(Used(st.mem)) + k
           /\ Cardinality(Used(st.mem)) \in Nat /\ IsFiniteSet(Used(st.mem))
  <1> DEFINE U == Used(st.mem)
  <1>1. Used(st2.mem) = U \cup Taken(b, k)
    BY AdmitSlots
  <1>2. Taken(b, k) \cap U = {} /\ b \in Nat /\ k \in 1 .. 2 /\ b \in Taken(b, k)
    BY TakenFacts
  <1>3. U \in SUBSET Frames
    BY DEF Used
  <1>4. IsFiniteSet(U) /\ Cardinality(U) \in Nat
    BY <1>3, FramesFinite
  <1> HIDE DEF U
  <1>5. IsFiniteSet(U \cup {b}) /\ Cardinality(U \cup {b}) = Cardinality(U) + 1
    <2>1. b \notin U
      BY <1>2
    <2> QED
      BY <2>1, <1>4, FS_AddElement
  <1>6. CASE k = 1
    <2>1. U \cup Taken(b, k) = U \cup {b}
      BY <1>6 DEF Taken
    <2> QED
      BY <2>1, <1>1, <1>4, <1>5, <1>6 DEF U
  <1>7. CASE k = 2
    <2>1. U \cup Taken(b, k) = (U \cup {b}) \cup {b + 3} /\ b + 3 \in Taken(b, k)
      BY <1>7 DEF Taken
    <2>2. b + 3 \notin U \cup {b}
      BY <2>1, <1>2
    <2>3. Cardinality((U \cup {b}) \cup {b + 3}) = Cardinality(U \cup {b}) + 1
      BY <2>2, <1>5, FS_AddElement
    <2>4. Cardinality(Used(st2.mem)) = (Cardinality(U) + 1) + 1
      BY <2>1, <2>3, <1>1, <1>5
    <2> QED
      BY <2>4, <1>4, <1>7 DEF U
  <1> QED
    BY <1>2, <1>6, <1>7

\* The new process finds its frames.
LEMMA AdmitReady ==
    ASSUME NEW st, NEW c, NEW done, NEW b, NEW k, NEW st2, AdmitStep(st, c, done, b, k, st2)
    PROVE  Ready(st2, c, done)
  <1> DEFINE s == st.pid
             y == st2.pcb[s]
             L == Live(st, c)
             E == Early(st, c)
             E2 == Early(st2, c)
             u == Cardinality(Used(st.mem))
  <1>0. Ready(st, c, done)
    BY DEF AdmitStep
  <1>1. /\ Live(st2, c) = L \cup {s} /\ s \notin L
        /\ \A q \in L : st2.pcb[q] = st.pcb[q] /\ q # s
        /\ c.pid # s
    BY AdmitLive
  <1>2. \A q \in Live(st2, c) : Process(st2, c, q)
    BY <1>1, AdmitOthers, AdmitSelf
  <1>3. Cardinality(Used(st2.mem)) = u + k /\ u \in Nat
    BY AdmitCount
  <1>4. IsFiniteSet(L) /\ IsFiniteSet(E) /\ Cardinality(L) \in Nat /\ Cardinality(E) \in Nat
    BY <1>0, LiveFinite
  <1>5. /\ Cardinality(L) <= u /\ (FreeSlots(st.mem) # {} => Cardinality(E) <= u)
    BY <1>0 DEF Ready, Rounds
  <1>6. k \in 1 .. 2 /\ FreeSlots(st.mem) # {} /\ Size(y) \in Nat
    BY DEF AdmitStep, Admitting
  <1>7. FreeSlots(st2.mem) # {} /\ Size(y) > 3 => k = 2
    <2>1. FreeSlots(st2.mem) # {} /\ Size(y) > 3 => y.pageCounter >= 2
      BY AdmitSelf DEF Process
    <2>2. y.pageCounter = k
      BY DEF AdmitStep, Admitting
    <2> QED
      BY <2>1, <2>2, <1>6
  <1>8. ASSUME NEW e \in E2 PROVE \/ e \in E
                                  \/ e = <<s, 0>>
                                  \/ e = <<s, 1>> /\ Size(y) > 3
    <2>1. e \in Live(st2, c) \X {0, 1} /\ 3 * e[2] < Size(st2.pcb[e[1]])
      BY <1>8 DEF Early
    <2>2. e = <<e[1], e[2]>> /\ e[1] \in L \cup {s} /\ e[2] \in {0, 1}
      BY <2>1, <1>1
    <2>3. CASE e[1] = s
      BY <2>1, <2>2, <2>3
    <2>4. CASE e[1] # s
      <3>1. e[1] \in L /\ st2.pcb[e[1]] = st.pcb[e[1]] /\ e \in L \X {0, 1}
        BY <2>2, <2>4, <1>1
      <3> QED
        BY <2>1, <3>1 DEF Early
    <2> QED
      BY <2>3, <2>4
  <1> HIDE DEF s, y, L, E, E2, u
  <1>9. Cardinality(Live(st2, c)) <= u + k
    <2>1. Cardinality(Live(st2, c)) <= Cardinality(L) + 1 /\ Cardinality(Live(st2, c)) \in Nat
      BY <1>1, <1>4, OneElementMore
    <2> QED
      BY <2>1, <1>3, <1>4, <1>5, <1>6
  <1>10. FreeSlots(st2.mem) # {} => Cardinality(E2) <= u + k
    <2> SUFFICES ASSUME FreeSlots(st2.mem) # {} PROVE Cardinality(E2) <= u + k
      OBVIOUS
    <2> DEFINE D == E \cup {<<s, 0>>}
    <2>1. IsFiniteSet(D) /\ Cardinality(D) <= Cardinality(E) + 1 /\ Cardinality(D) \in Nat
      BY <1>4, OneElementMore
    <2>2. CASE Size(y) > 3
      <3>1. E2 \subseteq D \cup {<<s, 1>>}
        BY <1>8
      <3> HIDE DEF D
      <3>2. Cardinality(E2) <= Cardinality(D) + 1 /\ Cardinality(E2) \in Nat
        BY <3>1, <2>1, OneElementMore
      <3>3. k = 2
        BY <1>7, <2>2
      <3> QED
        BY <3>2, <3>3, <2>1, <1>3, <1>4, <1>5, <1>6
    <2>3. CASE ~(Size(y) > 3)
      <3>1. E2 \subseteq E \cup {<<s, 0>>}
        BY <1>8, <2>3
      <3>2. Cardinality(E2) <= Cardinality(E) + 1 /\ Cardinality(E2) \in Nat
        BY <3>1, <1>4, OneElementMore
      <3> QED
        BY <3>2, <1>3, <1>4, <1>5, <1>6
    <2> QED
      BY <2>2, <2>3
  <1>11. Rounds(st2, c)
    BY <1>2, <1>3, <1>9, <1>10 DEF Rounds, E2
  <1>12. c.pid # 0 => c.pid \in DOMAIN st2.pcb \ done /\ NotReady(c.pid, st2)
    <2> SUFFICES ASSUME c.pid # 0 PROVE c.pid \in DOMAIN st2.pcb \ done /\ NotReady(c.pid, st2)
      OBVIOUS
    <2>1. c.pid \in DOMAIN st.pcb \ done /\ NotReady(c.pid, st) /\ ReadyInv(st, done)
      BY <1>0 DEF Ready, StInv
    <2>2. DOMAIN st2.pcb = DOMAIN st.pcb \cup {s} /\ st2.ready = Append(st.ready, s)
      BY DEF AdmitStep, Admitting, s
    <2>3. /\ Len(st.ready) \in Nat /\ Len(st2.ready) = Len(st.ready) + 1
          /\ st2.ready[Len(st.ready) + 1] = s
          /\ \A i \in 1 .. Len(st.ready) : st2.ready[i] = st.ready[i]
      BY <2>1, <2>2 DEF ReadyInv
    <2>4. \A i \in 1 .. Len(st2.ready) : i \in 1 .. Len(st.ready) \/ i = Len(st.ready) + 1
      BY <2>3
    <2>5. NotReady(c.pid, st2)
      BY <2>1, <2>3, <2>4, <1>1 DEF NotReady
    <2> QED
      BY <2>1, <2>2, <2>5
  <1> QED
    BY <1>0, <1>11, <1>12 DEF Ready, AdmitStep

\* The pages of the others: what the new process may load or touch before is the
\* second page for which there was no frame, and then no script can be admitted any more.
LEMMA AdmitAffords ==
    ASSUME NEW st, NEW c, NEW done, NEW b, NEW k, NEW st2, AdmitStep(st, c, done, b, k, st2),
           NEW pol \in Policies, Budget(pol, st, c), NEW r \in Live(st, c), NEW h \in Pending(st.pcb[r])
    PROVE  Affords(pol, st2, c, r, h)
  <1> DEFINE s == st.pid
             y == st2.pcb[s]
             g == Base(st.pcb[r], h)
             E == Events(pol, st, c, r, h)
             E2 == Events(pol, st2, c, r, h)
             O == Older(pol, st.mem, g)
             O2 == Older(pol, st2.mem, g)
             n == Turns(pol, st.pcb[r], Left(c, r), h)
  <1>0. Ready(st, c, done)
    BY DEF AdmitStep
  <1>1. /\ Live(st2, c) = Live(st, c) \cup {s} /\ s \notin Live(st, c)
        /\ \A q \in Live(st, c) : st2.pcb[q] = st.pcb[q] /\ q # s
        /\ \A q, t \in Live(st, c) : Ahead(st2, c, q, t) <=> Ahead(st, c, q, t)
        /\ ~Ahead(st2, c, s, r) /\ Left(c, s) = 2
    BY AdmitLive
  <1>2. g \in Used(st.mem) /\ g \in Frames /\ g \notin Taken(b, k) /\ SameFrame(st.mem, st2.mem, g)
    BY AdmitApart
  <1>3. O \subseteq O2
    <2> SUFFICES ASSUME NEW a \in O PROVE a \in O2
      OBVIOUS
    <2>1. a \in Used(st.mem) /\ a \in Frames /\ Key(pol, st.mem[a]) < Key(pol, st.mem[g])
      BY DEF Older, Used
    <2>2. a \notin Taken(b, k)
      BY <2>1, TakenFacts
    <2>3. SameFrame(st.mem, st2.mem, a)
      BY <2>1, <2>2, TakenFacts
    <2>4. a \in Used(st2.mem)
      BY <2>1, AdmitSlots
    <2> QED
      BY <2>1, <2>3, <2>4, <1>2 DEF Older, SameFrame
  <1>4. /\ n \in 1 .. 3 /\ (pol = "LRU" => n <= 2)
        /\ n = 3 => h = 1
    <2>1. Regular(st.pcb[r], Left(c, r)) /\ Shaped(st.pcb[r], Left(c, r)) /\ r # 0
      BY <1>0, LiveFacts
    <2>2. ~(Left(c, r) = 0 /\ Done(st.pcb[r]) = 3 * h)
      BY <2>1 DEF Left, NotAtPage, AdmitStep
    <2> QED
      BY <2>1, <2>2, TurnsFacts
  <1>5. ASSUME NEW q \in Live(st, c)
        PROVE  ReachOf(pol, st2, c, q, r, h) = ReachOf(pol, st, c, q, r, h)
    <2>1. \A m : TurnsOf(st2, c, q, r, m) = TurnsOf(st, c, q, r, m)
      BY <1>1, <1>5 DEF TurnsOf
    <2> QED
      BY <2>1, <1>1, <1>5 DEF ReachOf
  <1>6. ReachOf(pol, st2, c, s, r, h) = 2 * (n - 1)
    <2>1. ReachOf(pol, st2, c, s, r, h) = Reach(y, 2, n - 1)
      BY <1>1 DEF ReachOf, TurnsOf
    <2>2. y.currentPage = 1 /\ y.currentLine = 0 /\ y.pageCounter = k /\ k \in 1 .. 2
      BY DEF AdmitStep, Admitting
    <2> HIDE DEF n, y
    <2>3. Reach(y, 2, n - 1) = 2 * (n - 1)
      BY <2>2, <1>4 DEF Reach, Done
    <2> QED
      BY <2>1, <2>3
  <1> HIDE DEF n
  <1>7. ASSUME NEW q \in Live(st, c) \ {r}, NEW i \in Nat, Renews(pol, st2, c, q, i, r, h)
        PROVE  Renews(pol, st, c, q, i, r, h)
    <2> DEFINE z == st.pcb[q]
    <2>1. st2.pcb[q] = z /\ st2.pcb[r] = st.pcb[r]
      BY <1>1, <1>7
    <2>2. /\ Done(z) <= 3 * i /\ 3 * i < Size(z) /\ 3 * i < ReachOf(pol, st2, c, q, r, h)
          /\ i < z.pageCounter => /\ pol = "LRU"
                                  /\ Key(pol, st2.mem[Base(z, i)]) < Key(pol, st2.mem[g])
      BY <1>7, <2>1 DEF Renews
    <2>3. ASSUME i < z.pageCounter PROVE Key(pol, st.mem[Base(z, i)]) < Key(pol, st.mem[g])
      <3>1. Regular(z, Left(c, q))
        BY <1>0, <1>7, LiveFacts
      <3>2. z.currentPage <= i + 1
        BY <2>2, <3>1 DEF Regular, Done
      <3>3. i \in Pending(z)
        BY <3>2, <2>3 DEF Pending
      <3>4. SameFrame(st.mem, st2.mem, Base(z, i))
        BY <3>3, <1>7, AdmitApart
      <3> QED
        BY <2>2, <2>3, <3>4, <1>2 DEF SameFrame
    <2> QED
      BY <2>2, <2>3, <1>5, <1>7 DEF Renews
  <1>8. ASSUME NEW i \in Nat, Renews(pol, st2, c, s, i, r, h)
        PROVE  /\ i = 1 /\ pol # "LRU" /\ h = 1 /\ FreeSlots(st2.mem) = {}
    <2>1. st2.pcb[r] = st.pcb[r]
      BY <1>1
    <2>2. /\ 3 * i < Size(y) /\ 3 * i < 2 * (n - 1)
          /\ i < y.pageCounter => /\ pol = "LRU"
                                  /\ Key(pol, st2.mem[Base(y, i)]) < Key(pol, st2.mem[g])
      BY <1>6, <1>8, <2>1 DEF Renews
    <2>3. /\ y.PC = b /\ y.currentPage = 1 /\ y.currentLine = 0 /\ y.pageCounter = k /\ k \in 1 .. 2
          /\ Size(y) \in Nat
      BY DEF AdmitStep, Admitting
    <2> HIDE DEF y
    <2>4. i \in {0, 1} /\ (i = 1 => n = 3)
      BY <2>2, <1>4
    <2>5. ASSUME i < k PROVE FALSE
      <3>1. pol = "LRU" /\ Key(pol, st2.mem[Base(y, i)]) < Key(pol, st2.mem[g])
        BY <2>2, <2>3, <2>5
      <3>2. i = 0
        BY <3>1, <2>4, <1>4
      <3>3. b \in Nat
        BY TakenFacts
      <3>4. Base(y, i) = b
        BY <3>2, <3>3, <2>3 DEF Base
      <3>5. ~(g - b \in 0 .. 3 * k - 1)
        BY <1>2, TakenFacts
      <3>6. Key(pol, st2.mem[g]) < Key(pol, st2.mem[b])
        BY <3>1, <3>5, <1>2 DEF AdmitStep, Admitting, Key
      <3>7. MemInv(st2) /\ b \in Frames
        BY TakenFacts DEF AdmitStep, StInv
      <3>8. Key(pol, st2.mem[g]) \in Nat /\ Key(pol, st2.mem[b]) \in Nat
        BY <3>7, <1>2, KeyType
      <3> QED
        BY <3>1, <3>4, <3>6, <3>8
    <2>6. i = 1 /\ k = 1 /\ n = 3
      BY <2>3, <2>4, <2>5
    <2>7. pol # "LRU" /\ h = 1
      BY <2>6, <1>4
    <2>8. FreeSlots(st2.mem) = {}
      <3>1. FreeSlots(st2.mem) # {} /\ Size(y) > 3 => y.pageCounter >= 2
        BY AdmitSelf DEF Process, y
      <3> QED
        BY <3>1, <2>2, <2>3, <2>6
    <2> QED
      BY <2>6, <2>7, <2>8
  <1>9. FreeSlots(st2.mem) # {} => FreeSlots(st.mem) # {}
    BY AdmitSlots
  <1>10. ASSUME NEW e \in E2, e # <<s, 1>> PROVE e \in E
    <2>1. CASE e \in {r} \X {0}
      <3>1. /\ h = 1
            /\ IF pol = "LRU" THEN Done(st.pcb[r]) = 0 ELSE FreeSlots(st2.mem) # {}
        BY <2>1, <1>1, <1>10 DEF Events
      <3> QED
        BY <2>1, <3>1, <1>9 DEF Events
    <2>2. CASE e \notin {r} \X {0}
      <3>1. /\ e \in ((Live(st, c) \cup {s}) \ {r}) \X Nat
            /\ Renews(pol, st2, c, e[1], e[2], r, h)
        BY <2>2, <1>1, <1>10 DEF Events
      <3>2. e[1] \in (Live(st, c) \cup {s}) \ {r} /\ e[2] \in Nat /\ e = <<e[1], e[2]>>
        BY <3>1
      <3> HIDE DEF s
      <3>3. e[1] # s
        BY <3>1, <3>2, <1>8, <1>10
      <3>4. e[1] \in Live(st, c) \ {r}
        BY <3>2, <3>3
      <3>5. Renews(pol, st, c, e[1], e[2], r, h)
        BY <3>1, <3>2, <3>4, <1>7
      <3>6. e \in (Live(st, c) \ {r}) \X Nat
        BY <3>2, <3>4
      <3> QED
        BY <3>5, <3>6 DEF Events
    <2> QED
      BY <2>1, <2>2
  <1>11. ASSUME <<s, 1>> \in E2 PROVE <<r, 0>> \in E /\ <<r, 0>> \notin E2
    <2>1. s # r
      BY <1>1
    <2> HIDE DEF s
    <2>2. Renews(pol, st2, c, s, 1, r, h)
      BY <2>1, <1>11 DEF Events
    <2>3. pol # "LRU" /\ h = 1 /\ FreeSlots(st2.mem) = {}
      BY <2>2, <1>8
    <2>4. FreeSlots(st.mem) # {}
      BY DEF AdmitStep, Admitting
    <2>5. <<r, 0>> \in E
      BY <2>3, <2>4 DEF Events
    <2>6. <<r, 0>> \notin E2
      BY <2>3 DEF Events
    <2> QED
      BY <2>5, <2>6
  <1>12. IsFiniteSet(E) /\ Cardinality(E) <= Cardinality(O)
    BY DEF Budget, Affords
  <1>13. IsFiniteSet(O) /\ IsFiniteSet(O2)
    <2>1. O \in SUBSET Frames /\ O2 \in SUBSET Frames
      BY DEF Older, Used
    <2> HIDE DEF O, O2
    <2> QED
      BY <2>1, FramesFinite
  <1>14. st2.pcb[r] = st.pcb[r]
    BY <1>1
  <1> HIDE DEF E, E2, O, O2, g, s
  <1>15. IsFiniteSet(E2) /\ Cardinality(E2) <= Cardinality(O2)
    <2>1. CASE <<s, 1>> \notin E2
      <3>1. E2 \subseteq E
        BY <2>1, <1>10
      <3> QED
        BY <3>1, <1>3, <1>12, <1>13, StillAfforded
    <2>2. CASE <<s, 1>> \in E2
      <3> DEFINE D == E \ {<<r, 0>>}
      <3>1. E2 \subseteq D \cup {<<s, 1>>}
        BY <2>2, <1>10, <1>11
      <3>2. IsFiniteSet(D) /\ Cardinality(D) = Cardinality(E) - 1
        BY <2>2, <1>11, <1>12, FS_RemoveElement
      <3> HIDE DEF D
      <3>3. IsFiniteSet(E2) /\ Cardinality(E2) <= Cardinality(D) + 1 /\ Cardinality(E2) \in Nat
            /\ Cardinality(D) \in Nat
        BY <3>1, <3>2, OneElementMore
      <3>4. Cardinality(O) <= Cardinality(O2) /\ Cardinality(O) \in Nat /\ Cardinality(O2) \in Nat
        BY <1>3, <1>13, FS_Subset, FS_CardinalityType
      <3>5. Cardinality(E) \in Nat
        BY <1>12, FS_CardinalityType
      <3> QED
        BY <3>2, <3>3, <3>4, <3>5, <1>12
    <2> QED
      BY <2>1, <2>2
  <1> QED
    BY <1>14, <1>15 DEF Affords, E2, O2, g

\* How many pages a process may begin in t turns.
LEMMA PageSpan ==
    ASSUME NEW x, NEW left, Regular(x, left), NEW t \in 0 .. 3, NEW i \in Nat, NEW j \in Nat,
           Done(x) <= 3 * i, 3 * i < Reach(x, left, t), Done(x) <= 3 * j, 3 * j < Reach(x, left, t)
    PROVE  /\ t <= 1 => i = j
           /\ t <= 2 /\ i >= x.pageCounter /\ j >= x.pageCounter => i = j
           /\ i % 2 = j % 2 => i = j
  <1> DEFINE d == Done(x)
             w == Reach(x, left, t)
  <1>1. /\ x.currentPage \in Nat \ {0} /\ x.currentLine \in 0 .. 2 /\ x.pageCounter \in Nat
        /\ d \in Nat /\ left \in 0 .. 2 /\ d = 3 * (x.currentPage - 1) + x.currentLine
    BY DEF Regular, Done
  <1>2. w \in Int /\ w <= d + 2 * t /\ (x.currentPage > x.pageCounter => w <= d + 2 * t - 1)
    BY <1>1 DEF Reach
  <1>3. d <= 3 * i /\ 3 * i < w /\ d <= 3 * j /\ 3 * j < w
    OBVIOUS
  <1>4. ASSUME ~(x.currentPage > x.pageCounter), i >= x.pageCounter, j >= x.pageCounter
        PROVE  d < 3 * i /\ d < 3 * j
    BY <1>1, <1>4
  <1> HIDE DEF d, w
  <1>5. t <= 1 => 3 * i < 3 * j + 3 /\ 3 * j < 3 * i + 3
    BY <1>1, <1>2, <1>3
  <1>6. t <= 2 /\ i >= x.pageCounter /\ j >= x.pageCounter => 3 * i < 3 * j + 3 /\ 3 * j < 3 * i + 3
    BY <1>1, <1>2, <1>3, <1>4
  <1>7. 3 * i < 3 * j + 6 /\ 3 * j < 3 * i + 6
    BY <1>1, <1>2, <1>3
  <1>8. i < j + 2 /\ j < i + 2
    BY <1>7
  <1>9. i % 2 = j % 2 => i = j
    BY <1>8
  <1> QED
    BY <1>5, <1>6, <1>9

\* What the others may renew before the new process has needed its page h.
NewOf(pol, st, c, s, y, h, n, e) ==
    /\ e \in Live(st, c) \X Nat /\ e = <<e[1], e[2]>> /\ e[1] \in Live(st, c) /\ e[2] \in Nat
    /\ Done(st.pcb[e[1]]) <= 3 * e[2] /\ 3 * e[2] < Size(st.pcb[e[1]])
    /\ \E t \in 0 .. n : 3 * e[2] < Reach(st.pcb[e[1]], Left(c, e[1]), t)
    /\ pol # "LRU" => e[2] >= st.pcb[e[1]].pageCounter

\* What may be renewed before the new process has needed one of its pages.
LEMMA NewEvents ==
    ASSUME NEW st, NEW c, NEW done, NEW b, NEW k, NEW st2, AdmitStep(st, c, done, b, k, st2),
           NEW pol \in Policies, NEW s, s = st.pid, NEW y, y = st2.pcb[s], NEW h \in Pending(y)
    PROVE  /\ Turns(pol, y, 2, h) \in 1 .. 3 /\ h < k
           /\ h = 0 => Turns(pol, y, 2, h) = IF pol = "LRU" THEN 1 ELSE 2
           /\ \A e \in Events(pol, st2, c, s, h) :
                 \/ e = <<s, 0>> /\ h = 1
                 \/ NewOf(pol, st, c, s, y, h, Turns(pol, y, 2, h), e)
  <1> DEFINE n == Turns(pol, y, 2, h)
  <1>1. /\ Live(st2, c) = Live(st, c) \cup {s} /\ s \notin Live(st, c) /\ Left(c, s) = 2
        /\ \A q \in Live(st, c) : st2.pcb[q] = st.pcb[q] /\ q # s
    BY AdmitLive
  <1>2. Ready(st2, c, done)
    BY AdmitReady
  <1>3. y.currentPage = 1 /\ y.currentLine = 0 /\ y.pageCounter = k /\ k \in 1 .. 2
    BY DEF AdmitStep, Admitting
  <1>4. n \in 1 .. 3
    BY <1>1, <1>2, LiveFacts, TurnsFacts
  <1>5. h \in Nat /\ h < k
    BY <1>3 DEF Pending
  <1>6. h = 0 => n = IF pol = "LRU" THEN 1 ELSE 2
    <2> SUFFICES ASSUME h = 0 PROVE n = IF pol = "LRU" THEN 1 ELSE 2
      OBVIOUS
    <2>1. Done(y) = 0
      BY <1>3 DEF Done
    <2>2. Target(pol, y, h) = IF pol = "LRU" THEN 1 ELSE 3
      BY <2>1 DEF Target
    <2>3. (Target(pol, y, h) - Done(y) + 3) - 2 = IF pol = "LRU" THEN 2 ELSE 4
      BY <2>1, <2>2
    <2>4. Half(2) = 1 /\ Half(4) = 2
      BY DEF Half
    <2> QED
      BY <2>3, <2>4 DEF Turns
  <1>7. ASSUME NEW e \in Events(pol, st2, c, s, h), ~(e = <<s, 0>> /\ h = 1)
        PROVE  NewOf(pol, st, c, s, y, h, n, e)
    <2>1. /\ e \in (Live(st2, c) \ {s}) \X Nat
          /\ Renews(pol, st2, c, e[1], e[2], s, h)
      BY <1>7 DEF Events
    <2>2. e \in Live(st, c) \X Nat /\ e = <<e[1], e[2]>> /\ e[1] \in Live(st, c) /\ e[2] \in Nat
      BY <2>1, <1>1
    <2> DEFINE x == st.pcb[e[1]]
    <2>3. st2.pcb[e[1]] = x
      BY <2>2, <1>1
    <2>4. /\ Done(x) <= 3 * e[2] /\ 3 * e[2] < Size(x) /\ 3 * e[2] < ReachOf(pol, st2, c, e[1], s, h)
          /\ e[2] < x.pageCounter => pol = "LRU"
      BY <2>1, <2>3 DEF Renews
    <2> DEFINE t == TurnsOf(st2, c, e[1], s, n)
    <2>5. ReachOf(pol, st2, c, e[1], s, h) = Reach(x, Left(c, e[1]), t)
      BY <2>3, <1>1 DEF ReachOf
    <2>6. t \in 0 .. n
      <3> HIDE DEF n
      <3> QED
        BY <1>4, TurnsOfFacts
    <2>7. pol # "LRU" => e[2] >= x.pageCounter
      <3>1. x.pageCounter \in Nat
        <4>1. Regular(x, Left(c, e[1]))
          BY <2>2, LiveFacts DEF AdmitStep
        <4> QED
          BY <4>1 DEF Regular
      <3> QED
        BY <3>1, <2>2, <2>4
    <2> HIDE DEF t, n
    <2> QED
      BY <2>2, <2>4, <2>5, <2>6, <2>7 DEF NewOf
  <1> QED
    BY <1>4, <1>5, <1>6, <1>7

\* The frame of the new page is newer than every frame that was used before.
LEMMA NewOlder ==
    ASSUME NEW st, NEW c, NEW done, NEW b, NEW k, NEW st2, AdmitStep(st, c, done, b, k, st2),
           NEW pol \in Policies
    PROVE  /\ Used(st.mem) \subseteq Older(pol, st2.mem, b)
           /\ k = 2 => Used(st.mem) \cup {b} \subseteq Older(pol, st2.mem, b + 3)
           /\ b \notin Used(st.mem)
  <1>1. /\ k \in 1 .. 2 /\ b \in Nat /\ b \in Taken(b, k) /\ Taken(b, k) \subseteq Frames
        /\ Taken(b, k) \cap Used(st.mem) = {}
        /\ \A a \in Frames : a \notin Taken(b, k) => ~(a - b \in 0 .. 3 * k - 1)
    BY TakenFacts
  <1>2. Used(st2.mem) = Used(st.mem) \cup Taken(b, k)
    BY AdmitSlots
  <1>3. ASSUME NEW a \in Used(st.mem) PROVE Key(pol, st2.mem[a]) < Key(pol, st2.mem[b])
    <2>1. a \in Frames /\ ~(a - b \in 0 .. 3 * k - 1)
      BY <1>1 DEF Used
    <2> QED
      BY <2>1 DEF AdmitStep, Admitting, Key
  <1>4. k = 2 => Key(pol, st2.mem[b]) < Key(pol, st2.mem[b + 3]) /\ b + 3 \in Taken(b, k)
    BY DEF AdmitStep, Admitting, Key, Taken
  <1>5. \A a \in Used(st2.mem) : a \in Frames /\ Key(pol, st2.mem[a]) \in Nat
    <2>1. MemInv(st2)
      BY DEF AdmitStep, StInv
    <2>2. Used(st2.mem) \subseteq Frames
      BY DEF Used
    <2> QED
      BY <2>1, <2>2, KeyType
  <1>6. Used(st.mem) \subseteq Older(pol, st2.mem, b)
    BY <1>2, <1>3 DEF Older
  <1>7. ASSUME k = 2, NEW a \in Used(st.mem) \cup {b} PROVE a \in Older(pol, st2.mem, b + 3)
    <2>1. Key(pol, st2.mem[b]) < Key(pol, st2.mem[b + 3]) /\ b + 3 \in Used(st2.mem)
          /\ b \in Used(st2.mem)
      BY <1>1, <1>2, <1>4, <1>7
    <2>2. a \in Used(st2.mem)
      BY <1>1, <1>2
    <2>3. Key(pol, st2.mem[a]) < Key(pol, st2.mem[b + 3])
      <3>1. CASE a = b
        BY <3>1, <2>1
      <3>2. CASE a # b
        <4>1. Key(pol, st2.mem[a]) < Key(pol, st2.mem[b])
          BY <3>2, <1>3
        <4>2. /\ Key(pol, st2.mem[a]) \in Nat /\ Key(pol, st2.mem[b]) \in Nat
              /\ Key(pol, st2.mem[b + 3]) \in Nat
          BY <2>1, <2>2, <1>5
        <4> QED
          BY <2>1, <4>1, <4>2
      <3> QED
        BY <3>1, <3>2
    <2> QED
      BY <2>2, <2>3 DEF Older
  <1> QED
    BY <1>1, <1>6, <1>7

\* The pages of the new process.
LEMMA NewAffords ==
    ASSUME NEW st, NEW c, NEW done, NEW b, NEW k, NEW st2, AdmitStep(st, c, done, b, k, st2),
           NEW pol \in Policies, NEW s, s = st.pid, NEW y, y = st2.pcb[s], NEW h \in Pending(y)
    PROVE  Affords(pol, st2, c, s, h)
  <1> DEFINE E2 == Events(pol, st2, c, s, h)
             O2 == Older(pol, st2.mem, Base(y, h))
             n == Turns(pol, y, 2, h)
             L == Live(st, c)
             u == Cardinality(Used(st.mem))
  <1>0. Ready(st, c, done) /\ FreeSlots(st.mem) # {}
    BY DEF AdmitStep, Admitting
  <1>1. /\ n \in 1 .. 3 /\ h < k /\ (h = 0 => n = IF pol = "LRU" THEN 1 ELSE 2)
        /\ \A e \in E2 : (e = <<s, 0>> /\ h = 1) \/ NewOf(pol, st, c, s, y, h, n, e)
    BY NewEvents
  <1>2. y.PC = b /\ y.currentPage = 1 /\ y.currentLine = 0 /\ k \in 1 .. 2 /\ h \in Nat
    BY DEF AdmitStep, Admitting, Pending
  <1>3. /\ IsFiniteSet(L) /\ IsFiniteSet(Early(st, c))
        /\ Cardinality(L) \in Nat /\ Cardinality(Early(st, c)) \in Nat
    BY <1>0, LiveFinite
  <1>4. Cardinality(L) <= u /\ Cardinality(Early(st, c)) <= u
    BY <1>0 DEF Ready, Rounds
  <1>5. u \in Nat /\ IsFiniteSet(Used(st.mem))
    BY AdmitCount
  <1>6. IsFiniteSet(O2)
    <2>1. O2 \in SUBSET Frames
      BY DEF Older, Used
    <2> HIDE DEF O2
    <2> QED
      BY <2>1, FramesFinite
  <1>7. \A q \in L : Regular(st.pcb[q], Left(c, q))
    BY <1>0, LiveFacts
  <1>8. b \in Nat
    BY TakenFacts
  <1> HIDE DEF E2, n
  <1>9. CASE h = 0
    <2> DEFINE f == [e \in E2 |-> e[1]]
    <2>1. ASSUME NEW e \in E2 PROVE NewOf(pol, st, c, s, y, h, n, e)
      BY <1>1, <1>9
    <2>2. ASSUME NEW e \in E2, NEW g \in E2, e[1] = g[1] PROVE e = g
      <3>1. NewOf(pol, st, c, s, y, h, n, e) /\ NewOf(pol, st, c, s, y, h, n, g)
        BY <2>1, <2>2
      <3> DEFINE x == st.pcb[e[1]]
                 l == Left(c, e[1])
      <3>2. /\ e[1] \in L /\ e[2] \in Nat /\ g[2] \in Nat /\ e = <<e[1], e[2]>> /\ g = <<e[1], g[2]>>
            /\ Done(x) <= 3 * e[2] /\ Done(x) <= 3 * g[2]
            /\ pol # "LRU" => e[2] >= x.pageCounter /\ g[2] >= x.pageCounter
        BY <3>1, <2>2 DEF NewOf
      <3>3. PICK t1 \in 0 .. n : 3 * e[2] < Reach(x, l, t1)
        BY <3>1 DEF NewOf
      <3>4. PICK t2 \in 0 .. n : 3 * g[2] < Reach(x, l, t2)
        BY <3>1, <2>2 DEF NewOf
      <3>5. Regular(x, l)
        BY <3>2, <1>7
      <3> HIDE DEF x, l
      <3>6. 3 * e[2] < Reach(x, l, n) /\ 3 * g[2] < Reach(x, l, n)
        <4>1. ASSUME NEW t \in 0 .. n PROVE /\ Reach(x, l, t) <= Reach(x, l, n)
                                            /\ Reach(x, l, t) \in Int /\ Reach(x, l, n) \in Int
          <5>1. Done(x) \in Nat /\ l \in 0 .. 2
            BY <3>5 DEF Regular
          <5> QED
            BY <5>1, <1>1, <4>1 DEF Reach
        <4>2. /\ Reach(x, l, t1) <= Reach(x, l, n) /\ Reach(x, l, t2) <= Reach(x, l, n)
              /\ Reach(x, l, t1) \in Int /\ Reach(x, l, t2) \in Int /\ Reach(x, l, n) \in Int
          BY <4>1
        <4> QED
          BY <4>2, <3>2, <3>3, <3>4
      <3>7. n \in 0 .. 3 /\ n <= 2 /\ (pol = "LRU" => n <= 1)
        BY <1>1, <1>9
      <3>8. e[2] = g[2]
        <4> DEFINE i == e[2]
                   j == g[2]
        <4>1. /\ i \in Nat /\ j \in Nat /\ Done(x) <= 3 * i /\ 3 * i < Reach(x, l, n)
              /\ Done(x) <= 3 * j /\ 3 * j < Reach(x, l, n)
              /\ pol # "LRU" => i >= x.pageCounter /\ j >= x.pageCounter
          BY <3>2, <3>6
        <4> HIDE DEF i, j
        <4>2. (n <= 1 => i = j) /\ (n <= 2 /\ i >= x.pageCounter /\ j >= x.pageCounter => i = j)
          BY <4>1, <3>5, <3>7, PageSpan
        <4>3. i = j
          BY <4>1, <4>2, <3>7
        <4> QED
          BY <4>3 DEF i, j
      <3> QED
        BY <3>2, <3>8
    <2>3. f \in Injection(E2, L)
      <3>1. f \in [E2 -> L]
        BY <2>1 DEF NewOf
      <3>2. \A e, g \in DOMAIN f : f[e] = f[g] => e = g
        BY <2>2
      <3> HIDE DEF f
      <3> QED
        BY <3>1, <3>2 DEF Injection, IsInjective
    <2> HIDE DEF f
    <2>4. IsFiniteSet(E2) /\ Cardinality(E2) <= Cardinality(L)
      BY <2>3, <1>3, FS_Injection
    <2>5. Base(y, h) = b
      BY <1>2, <1>8, <1>9 DEF Base
    <2>6. u <= Cardinality(O2) /\ Cardinality(O2) \in Nat
      <3>1. Used(st.mem) \subseteq O2
        BY <2>5, NewOlder
      <3> HIDE DEF O2
      <3> QED
        BY <3>1, <1>6, FS_Subset, FS_CardinalityType
    <2>7. Cardinality(E2) \in Nat
      BY <2>4, FS_CardinalityType
    <2> HIDE DEF O2, u, L
    <2>8. IsFiniteSet(E2) /\ Cardinality(E2) <= Cardinality(O2)
      BY <2>4, <2>6, <2>7, <1>3, <1>4, <1>5
    <2> QED
      BY <2>8 DEF Affords, E2, O2
  <1>10. CASE h # 0
    <2>0. h = 1 /\ k = 2
      BY <1>1, <1>2, <1>10
    <2> DEFINE F == E2 \ {<<s, 0>>}
               f == [e \in F |-> <<e[1], e[2] % 2>>]
    <2>1. ASSUME NEW e \in F PROVE NewOf(pol, st, c, s, y, h, n, e)
      BY <1>1
    <2>2. ASSUME NEW e \in F PROVE <<e[1], e[2] % 2>> \in Early(st, c)
      <3>1. NewOf(pol, st, c, s, y, h, n, e)
        BY <2>1
      <3>2. e[1] \in L /\ e[2] \in Nat /\ 3 * e[2] < Size(st.pcb[e[1]])
        BY <3>1 DEF NewOf
      <3> DEFINE i == e[2]
                 w == Size(st.pcb[e[1]])
      <3>3. w \in Nat
        BY <3>2, <1>7 DEF Regular
      <3>4. i \in Nat /\ 3 * i < w
        BY <3>2
      <3> HIDE DEF i, w
      <3>5. i % 2 \in {0, 1} /\ 3 * (i % 2) < w
        BY <3>3, <3>4
      <3> QED
        BY <3>2, <3>5 DEF Early, i, w
    <2>3. ASSUME NEW e \in F, NEW g \in F, e[1] = g[1], e[2] % 2 = g[2] % 2 PROVE e = g
      <3>1. NewOf(pol, st, c, s, y, h, n, e) /\ NewOf(pol, st, c, s, y, h, n, g)
        BY <2>1, <2>3
      <3> DEFINE x == st.pcb[e[1]]
                 l == Left(c, e[1])
                 i == e[2]
                 j == g[2]
      <3>2. /\ e[1] \in L /\ i \in Nat /\ j \in Nat /\ e = <<e[1], i>> /\ g = <<e[1], j>>
            /\ Done(x) <= 3 * i /\ Done(x) <= 3 * j /\ i % 2 = j % 2
        BY <3>1, <2>3 DEF NewOf
      <3>3. PICK t1 \in 0 .. n : 3 * i < Reach(x, l, t1)
        BY <3>1 DEF NewOf
      <3>4. PICK t2 \in 0 .. n : 3 * j < Reach(x, l, t2)
        BY <3>1, <2>3 DEF NewOf
      <3>5. Regular(x, l)
        BY <3>2, <1>7
      <3> HIDE DEF x, l, i, j
      <3>6. 3 * i < Reach(x, l, n) /\ 3 * j < Reach(x, l, n)
        <4>1. ASSUME NEW t \in 0 .. n PROVE /\ Reach(x, l, t) <= Reach(x, l, n)
                                            /\ Reach(x, l, t) \in Int /\ Reach(x, l, n) \in Int
          <5>1. Done(x) \in Nat /\ l \in 0 .. 2
            BY <3>5 DEF Regular
          <5> QED
            BY <5>1, <1>1, <4>1 DEF Reach
        <4>2. /\ Reach(x, l, t1) <= Reach(x, l, n) /\ Reach(x, l, t2) <= Reach(x, l, n)
              /\ Reach(x, l, t1) \in Int /\ Reach(x, l, t2) \in Int /\ Reach(x, l, n) \in Int
          BY <4>1
        <4> QED
          BY <4>2, <3>2, <3>3, <3>4
      <3>7. i = j
        BY <3>2, <3>5, <3>6, <1>1, PageSpan
      <3> QED
        BY <3>2, <3>7
    <2>4. f \in Injection(F, Early(st, c))
      <3>1. f \in [F -> Early(st, c)]
        BY <2>2
      <3>2. \A e, g \in DOMAIN f : f[e] = f[g] => e = g
        <4> SUFFICES ASSUME NEW e \in F, NEW g \in F, f[e] = f[g] PROVE e = g
          OBVIOUS
        <4>1. <<e[1], e[2] % 2>> = <<g[1], g[2] % 2>>
          OBVIOUS
        <4>2. e[1] = g[1] /\ e[2] % 2 = g[2] % 2
          BY <4>1
        <4> QED
          BY <4>2, <2>3
      <3> HIDE DEF f, F
      <3> QED
        BY <3>1, <3>2 DEF Injection, IsInjective
    <2>5. E2 \subseteq F \cup {<<s, 0>>}
      OBVIOUS
    <2> HIDE DEF f, F
    <2>6. IsFiniteSet(F) /\ Cardinality(F) <= Cardinality(Early(st, c))
      BY <2>4, <1>3, FS_Injection
    <2>7. /\ IsFiniteSet(E2) /\ Cardinality(E2) <= Cardinality(F) + 1 /\ Cardinality(E2) \in Nat
          /\ Cardinality(F) \in Nat
      BY <2>5, <2>6, OneElementMore
    <2>8. Base(y, h) = b + 3
      BY <2>0, <1>2, <1>8 DEF Base
    <2>9. u + 1 <= Cardinality(O2) /\ Cardinality(O2) \in Nat
      <3>1. Used(st.mem) \cup {b} \subseteq O2 /\ b \notin Used(st.mem)
        BY <2>0, <2>8, NewOlder
      <3> HIDE DEF O2
      <3>2. Cardinality(Used(st.mem) \cup {b}) = u + 1
        BY <3>1, <1>5, FS_AddElement
      <3> QED
        BY <3>1, <3>2, <1>6, FS_Subset, FS_CardinalityType
    <2> HIDE DEF O2, u
    <2>10. IsFiniteSet(E2) /\ Cardinality(E2) <= Cardinality(O2)
      BY <2>6, <2>7, <2>9, <1>3, <1>4, <1>5
    <2> QED
      BY <2>10 DEF Affords, E2, O2
  <1> QED
    BY <1>9, <1>10

\* The admission of a script.
LEMMA AdmitRounds ==
    ASSUME NEW st, NEW c, NEW done, NEW b, NEW k, NEW st2, AdmitStep(st, c, done, b, k, st2)
    PROVE  /\ Ready(st2, c, done) /\ Live(st2, c) = Live(st, c) \cup {st.pid}
           /\ \A pol \in Policies : Budget(pol, st, c) => Budget(pol, st2, c)
  <1>1. /\ Live(st2, c) = Live(st, c) \cup {st.pid}
        /\ \A q \in Live(st, c) : st2.pcb[q] = st.pcb[q]
    BY AdmitLive
  <1>2. ASSUME NEW pol \in Policies, Budget(pol, st, c), NEW r \in Live(st2, c),
               NEW h \in Pending(st2.pcb[r])
        PROVE  Affords(pol, st2, c, r, h)
    <2>1. CASE r = st.pid
      BY <2>1, <1>2, NewAffords
    <2>2. CASE r # st.pid
      BY <2>2, <1>1, <1>2, AdmitAffords
    <2> QED
      BY <2>1, <2>2
  <1> QED
    BY <1>1, <1>2, AdmitReady DEF Budget
-----------------------------------------------------------------------------
\* What the operators of the model do in these terms.

\* The cells after lines k + 1 .. k + n of p were stored from b on.
StoredAt(st, p, b, k, n, mem2) ==
    \A q \in 0 .. FrameStore - 1 :
       /\ ~(q - b \in 0 .. n - 1) => mem2[q] = st.mem[q]
       /\ q - b \in 0 .. n - 1 => /\ mem2[q].line = <<p, k + (q - b) + 1>>
                                  /\ mem2[q].accessed = st.time + (q - b) + 1
                                  /\ mem2[q].age = st.time + (q - b) + 1
       /\ st.mem[q].accessed \in Nat /\ st.mem[q].age \in Nat
       /\ st.mem[q].accessed <= st.time /\ st.mem[q].age <= st.time

\* What Stored does to each cell.
LEMMA StoredCells ==
    ASSUME NEW st, MemInv(st), NEW p, NEW b, NEW k, NEW n
    PROVE  StoredAt(st, p, b, k, n, Stored(st.mem, st.time, p, b, k, n))
  <1> SUFFICES ASSUME NEW q \in 0 .. FrameStore - 1, NEW m, m = Stored(st.mem, st.time, p, b, k, n)
               PROVE  /\ ~(q - b \in 0 .. n - 1) => m[q] = st.mem[q]
                      /\ q - b \in 0 .. n - 1 => /\ m[q].line = <<p, k + (q - b) + 1>>
                                                 /\ m[q].accessed = st.time + (q - b) + 1
                                                 /\ m[q].age = st.time + (q - b) + 1
                      /\ st.mem[q].accessed \in Nat /\ st.mem[q].age \in Nat
                      /\ st.mem[q].accessed <= st.time /\ st.mem[q].age <= st.time
    BY DEF StoredAt
  <1>1. q \in DOMAIN st.mem /\ st.mem[q] \in Cell /\ st.time \in Nat
    BY DEF MemInv
  <1>2. st.mem[q].age <= st.mem[q].accessed /\ st.mem[q].accessed <= st.time
    BY DEF MemInv
  <1>3. st.mem[q].accessed \in Nat /\ st.mem[q].age \in Nat
    BY <1>1 DEF Cell
  <1>4. m[q] = IF q - b \in 0 .. n - 1
               THEN [line |-> <<p, k + (q - b) + 1>>, accessed |-> st.time + (q - b) + 1,
                     age |-> st.time + (q - b) + 1]
               ELSE st.mem[q]
    BY <1>1 DEF Stored
  <1>5. st.mem[q].age <= st.time
    BY <1>1, <1>2, <1>3
  <1> DEFINE s == q - b
  <1> HIDE DEF s
  <1>6. CASE q - b \in 0 .. n - 1
    <2>1. m[q] = [line |-> <<p, k + (q - b) + 1>>, accessed |-> st.time + (q - b) + 1,
                     age |-> st.time + (q - b) + 1]
      BY <1>4, <1>6
    <2>2. /\ m[q].line = <<p, k + (q - b) + 1>> /\ m[q].accessed = st.time + (q - b) + 1
          /\ m[q].age = st.time + (q - b) + 1
      BY <2>1
    <2> QED
      BY <1>2, <1>3, <1>5, <1>6, <2>2
  <1>7. CASE ~(q - b \in 0 .. n - 1)
    BY <1>2, <1>3, <1>4, <1>5, <1>7
  <1> QED
    BY <1>6, <1>7

\* A script that can be loaded on has lines left.
LEMMA LinesLeft ==
    ASSUME Filled, NEW x \in PCB
    PROVE  NoMoreLines(x) <=> ~(3 * x.pageCounter < Size(x))
  <1>1. Size(x) \in Nat /\ Size(x) > 0 /\ ~x.prog.nl /\ x.pageCounter \in Nat
    BY PcbTypes
  <1> QED
    BY <1>1 DEF NoMoreLines, Size

\* A page that is loaded into a frame.
LEMMA LoadsFrame ==
    ASSUME NEW st, NEW done, StInv(st, done), NEW p \in DOMAIN st.pcb \ done,
           FreeSlots(st.mem) # {}, 3 * st.pcb[p].pageCounter < Size(st.pcb[p])
    PROVE  Loading(st, p, find_available_slot(st.mem), load_frame(st, p))
  <1> DEFINE st1 == load_frame(st, p)
             c == st.pcb[p]
             len == Len(c.prog.lines)
             skip == 3 * c.pageCounter
             b == find_available_slot(st.mem)
             n == Least({3, len - skip})
             c1 == [c EXCEPT !.PC = b, !.pageCounter = @ + 1]
  <1>0. IsState(st) /\ MemInv(st) /\ PcbInv(st, done)
    BY DEF StInv
  <1>1. c \in PCB /\ p \in Nat
    BY <1>0 DEF PcbInv
  <1>2. b \in Frames /\ b \in FreeSlots(st.mem)
    BY SlotFacts
  <1>3. b \in Nat /\ b + 3 <= FrameStore
    BY <1>2, FrameFacts
  <1>4. len \in Nat /\ skip \in Nat /\ c.pageCounter \in Nat /\ skip < len /\ len = Size(c)
    BY <1>1, ScriptLen DEF PCB, Size
  <1>5. /\ IsState(st1) /\ st1.mem = Stored(st.mem, st.time, p, b, skip, n)
        /\ st1.pcb = [st.pcb EXCEPT ![p] = c1]
        /\ st1.ready = st.ready /\ st1.ran = st.ran
    <2> DEFINE X == Stored(st.mem, st.time, p, b, skip, n)
               Y == [st.pcb EXCEPT ![p] = c1]
    <2>1. st1 = [st EXCEPT !.mem = X, !.time = @ + n, !.pcb[p] = c1]
      BY DEF load_frame
    <2> HIDE DEF st1, b, n, skip, X
    <2>2. st1 = [st EXCEPT !.mem = X, !.time = @ + n, !.pcb = Y]
      BY <2>1, <1>0 DEF IsState
    <2> HIDE DEF Y
    <2>3. IsState(st1) /\ st1.mem = X /\ st1.pcb = Y /\ st1.ready = st.ready /\ st1.ran = st.ran
      BY <2>2, <1>0 DEF IsState
    <2> QED
      BY <2>3 DEF X, Y
  <1>6. /\ c1.prog = c.prog /\ c1.PC = b /\ c1.pageCounter = c.pageCounter + 1
        /\ c1.currentPage = c.currentPage /\ c1.currentLine = c.currentLine
    <2> HIDE DEF b, c
    <2> QED
      BY <1>1 DEF PCB
  <1>7. n \in 1 .. 3 /\ \A j \in 0 .. 2 : j < n <=> skip + j < len
    <2> HIDE DEF len, skip
    <2>1. {3, len - skip} \in SUBSET Nat
      BY <1>4
    <2>2. n \in {3, len - skip} /\ n <= len - skip /\ n <= 3
      BY <2>1, LeastFacts
    <2> HIDE DEF n
    <2> QED
      BY <2>1, <2>2, <1>4
  <1> HIDE DEF st1, b, n, skip, c1, len
  <1>8. st1.pcb[p] = c1 /\ \A r \in DOMAIN st.pcb \ {p} : st1.pcb[r] = st.pcb[r]
    BY <1>5
  <1>9. StoredAt(st, p, b, skip, n, st1.mem)
    BY <1>0, <1>5, StoredCells
  <1>10. ASSUME NEW q \in 0 .. FrameStore - 1, ~(q - b \in 0 .. 2) PROVE st1.mem[q] = st.mem[q]
    <2>1. ~(q - b \in 0 .. n - 1)
      BY <1>10, <1>7, <1>3
    <2> QED
      BY <2>1, <1>9 DEF StoredAt
  <1>11. ASSUME NEW j \in 0 .. 2
         PROVE  st1.mem[b + j].line = IF skip + j < len THEN <<p, skip + j + 1>> ELSE NoLine
    <2> DEFINE q == b + j
    <2>1. q \in 0 .. FrameStore - 1 /\ q - b = j /\ j \in Int
      BY <1>3, FrameAssumption
    <2>2. st.mem[q].line = NoLine
      BY <1>2 DEF FreeSlots
    <2>3. j \in 0 .. n - 1 <=> skip + j < len
      BY <1>7, <2>1
    <2> HIDE DEF q
    <2>4. /\ ~(j \in 0 .. n - 1) => st1.mem[q] = st.mem[q]
          /\ j \in 0 .. n - 1 => st1.mem[q].line = <<p, skip + j + 1>>
      BY <2>1, <1>9 DEF StoredAt
    <2>5. st1.mem[q].line = IF skip + j < len THEN <<p, skip + j + 1>> ELSE NoLine
      BY <2>2, <2>3, <2>4
    <2> QED
      BY <2>5 DEF q
  <1>12. ASSUME NEW a \in Frames \ {b}
         PROVE  /\ st1.mem[a].accessed < st1.mem[b].accessed
                /\ st1.mem[a].age < st1.mem[b].age
    <2>1. a \in Nat /\ a % 3 = 0 /\ a + 3 <= FrameStore /\ b % 3 = 0
      BY <1>2, FrameFacts
    <2>2. a \in 0 .. FrameStore - 1 /\ b \in 0 .. FrameStore - 1 /\ ~(a - b \in 0 .. 2)
      BY <2>1, <1>3, <1>12, FrameAssumption
    <2>3. b - b = 0 /\ 0 \in 0 .. n - 1 /\ st.time \in Nat
      BY <1>0, <1>3, <1>7 DEF MemInv
    <2>4. st1.mem[b].accessed = st.time + 0 + 1 /\ st1.mem[b].age = st.time + 0 + 1
      BY <2>2, <2>3, <1>9 DEF StoredAt
    <2>5. st1.mem[a] = st.mem[a]
      BY <2>2, <1>10
    <2>6. /\ st.mem[a].accessed \in Nat /\ st.mem[a].age \in Nat
          /\ st.mem[a].accessed <= st.time /\ st.mem[a].age <= st.time
      BY <2>2, <1>9 DEF StoredAt
    <2> QED
      BY <2>3, <2>4, <2>5, <2>6
  <1>13. \A j \in 0 .. 2 : st1.mem[b + j].line = IF skip + j < Size(c) THEN <<p, skip + j + 1>> ELSE NoLine
    BY <1>4, <1>11
  <1> HIDE DEF c
  <1>14. /\ st1.pcb[p].prog = c.prog /\ st1.pcb[p].PC = b /\ st1.pcb[p].pageCounter = c.pageCounter + 1
         /\ st1.pcb[p].currentPage = c.currentPage /\ st1.pcb[p].currentLine = c.currentLine
    BY <1>6, <1>8
  <1>15. Loading(st, p, b, st1)
    BY <1>2, <1>5, <1>8, <1>10, <1>12, <1>13, <1>14 DEF Loading, c, skip
  <1> QED
    BY <1>15 DEF b, st1

\* A page that is loaded into the frame of a victim.
LEMMA EvictLoads ==
    ASSUME NEW st, NEW done, StInv(st, done), NEW p \in DOMAIN st.pcb \ done,
           FreeSlots(st.mem) = {}, NEW v \in Frames, 3 * st.pcb[p].pageCounter < Size(st.pcb[p])
    PROVE  Loading(st, p, v, load_frame(remove_frame(st, v), p))
  <1> DEFINE st0 == remove_frame(st, v)
             st1 == load_frame(st0, p)
             Q == 0 .. FrameStore - 1
  <1>1. StInv(st0, done) /\ st0.pcb = st.pcb /\ st0.ready = st.ready /\ v \in FreeSlots(st0.mem)
    BY RemoveFrameKeeps
  <1>2. st0.mem = mem_free_lines_between(st.mem, st.time, v) /\ st0.ran = st.ran
    BY DEF StInv, IsState, remove_frame
  <1>3. st.mem \in [Q -> Cell]
    BY DEF StInv, MemInv
  <1>4. v \in Nat /\ v % 3 = 0 /\ v + 3 <= FrameStore
    BY FrameFacts
  <1> HIDE DEF st0
  <1>5. ASSUME NEW q \in Q, ~(q - v \in 0 .. 2) PROVE st0.mem[q] = st.mem[q]
    BY <1>2, <1>3, <1>5 DEF mem_free_lines_between
  <1>6. FreeSlots(st0.mem) = {v}
    <2>1. ASSUME NEW c \in FreeSlots(st0.mem), c # v PROVE FALSE
      <3>1. c \in Frames /\ \A j \in 0 .. 2 : st0.mem[c + j].line = NoLine
        BY DEF FreeSlots
      <3>2. c \in Nat /\ c % 3 = 0 /\ c + 3 <= FrameStore
        BY <3>1, FrameFacts
      <3>3. ASSUME NEW j \in 0 .. 2 PROVE st.mem[c + j].line = NoLine
        <4> DEFINE q == c + j
        <4>1. q \in Q /\ ~(q - v \in 0 .. 2)
          BY <2>1, <3>2, <1>4, FrameAssumption
        <4>2. st0.mem[q].line = NoLine
          BY <3>1
        <4> HIDE DEF q
        <4>3. st.mem[q].line = NoLine
          BY <4>1, <4>2, <1>5
        <4> QED
          BY <4>3 DEF q
      <3>4. c \in FreeSlots(st.mem)
        BY <3>1, <3>3 DEF FreeSlots
      <3> QED
        BY <3>4
    <2> QED
      BY <2>1, <1>1
  <1>7. find_available_slot(st0.mem) = v
    BY <1>6, SlotFacts
  <1>8. Loading(st0, p, v, st1)
    BY <1>1, <1>6, <1>7, LoadsFrame
  <1> HIDE DEF st1
  <1>9. \A q \in Q : ~(q - v \in 0 .. 2) => st1.mem[q] = st.mem[q]
    BY <1>5, <1>8 DEF Loading
  <1>10. Loading(st, p, v, st1)
    BY <1>1, <1>2, <1>8, <1>9 DEF Loading
  <1> QED
    BY <1>10 DEF st0, st1

\* A script that is admitted.
LEMMA InitializeAdmits ==
    ASSUME Filled, NEW st, NEW done, StInv(st, done), Together(st.mem), FreeSlots(st.mem) # {},
           NEW name \in DOMAIN Programs, NEW st1, st1 = process_initialize(st, name)
    PROVE  \E b, k : Admitting(st, b, k, st1)
  <1> DEFINE s == st.pid
             prog == Programs[name]
             len == Len(prog.lines)
             b == find_available_slot(st.mem)
             n == LinesLoaded(prog, b)
             k == PagesCounted(prog, n)
             y == [prog |-> prog, PC |-> b, currentPage |-> 1, currentLine |-> 0, pageCounter |-> k]
  <1>0. IsState(st) /\ MemInv(st) /\ PcbInv(st, done)
    BY DEF StInv
  <1>1. st1 = load_file([st EXCEPT !.pid = @ + 1], s, prog)
    BY DEF process_initialize, copyScript, Loads
  <1>2. /\ st1.mem = Stored(st.mem, st.time, s, b, 0, n) /\ st1.pcb = Put(st.pcb, s, y)
        /\ st1.ready = Append(st.ready, s) /\ st1.ran = Put(st.ran, s, << >>)
    BY <1>1, <1>0 DEF IsState, load_file
  <1>3. b \in Frames /\ b \in FreeSlots(st.mem) /\ \A a \in FreeSlots(st.mem) : b <= a
    BY SlotFacts
  <1>4. b \in Nat /\ b % 3 = 0 /\ b + 3 <= FrameStore
    BY <1>3, FrameFacts
  <1>5. len \in Nat \ {0} /\ ~prog.nl
    BY ProgramAssumption DEF Filled
  <1>6. /\ n \in Nat \ {0} /\ n <= 6 /\ n <= len /\ n <= FrameStore - b
        /\ n = 6 \/ n = len \/ n = FrameStore - b
    <2> DEFINE S == {6, len, FrameStore - b}
    <2>1. n = Least(S)
      BY DEF LinesLoaded
    <2>2. S \in SUBSET (Nat \ {0})
      BY <1>4, <1>5, FrameAssumption
    <2> HIDE DEF n
    <2>3. n \in S /\ \A m \in S : n <= m
      BY <2>1, <2>2, LeastFacts
    <2>4. 6 \in S /\ len \in S /\ FrameStore - b \in S
      OBVIOUS
    <2> QED
      BY <2>2, <2>3, <2>4
  <1>7. k = n \div 3 + (IF n % 3 # 0 THEN 1 ELSE 0)
    BY <1>5 DEF PagesCounted
  <1> HIDE DEF b, n, len, k
  <1>8. /\ k \in 1 .. 2 /\ 3 * (k - 1) < n /\ n <= 3 * k
    BY <1>6, <1>7
  <1>9. /\ 3 * (k - 1) < len /\ b + 3 * k <= FrameStore /\ (k = 1 /\ len > 3 => b + 3 = FrameStore)
        /\ n = len \/ n = 3 * k
    BY <1>4, <1>5, <1>6, <1>8, FrameAssumption
  <1>10. /\ s \in Nat \ {0} /\ s \notin DOMAIN st.pcb /\ DOMAIN st.ran = DOMAIN st.pcb
    BY <1>0 DEF PcbInv
  <1>11. /\ DOMAIN st1.pcb = DOMAIN st.pcb \cup {s} /\ st1.pcb[s] = y /\ st1.ran[s] = << >>
         /\ \A q \in DOMAIN st.pcb : st1.pcb[q] = st.pcb[q] /\ st1.ran[q] = st.ran[q]
    <2> HIDE DEF y, s
    <2> QED
      BY <1>2, <1>10 DEF Put
  <1>12. /\ st1.pcb[s].PC = b /\ st1.pcb[s].currentPage = 1 /\ st1.pcb[s].currentLine = 0
         /\ st1.pcb[s].pageCounter = k /\ Size(st1.pcb[s]) = len
    BY <1>11 DEF Size, len
  <1>13. StoredAt(st, s, b, 0, n, st1.mem)
    BY <1>0, <1>2, StoredCells
  <1> HIDE DEF y, s, prog
  <1>14. ASSUME NEW q \in 0 .. FrameStore - 1, ~(q - b \in 0 .. 3 * k - 1) PROVE st1.mem[q] = st.mem[q]
    <2>1. ~(q - b \in 0 .. n - 1)
      BY <1>14, <1>8, <1>6, <1>4
    <2> QED
      BY <2>1, <1>13 DEF StoredAt
  <1>15. ASSUME NEW j \in 0 .. 3 * k - 1
         PROVE  st1.mem[b + j].line = IF j < len THEN <<s, j + 1>> ELSE NoLine
    <2> DEFINE q == b + j
    <2>1. q \in 0 .. FrameStore - 1 /\ q - b = j /\ j \in Int /\ q \in b .. FrameStore - 1 /\ j >= 0
      BY <1>4, <1>8, <1>9, FrameAssumption
    <2>2. st.mem[q].line = NoLine
      BY <2>1, <1>3 DEF Together
    <2>3. j \in 0 .. n - 1 <=> j < len
      BY <2>1, <1>5, <1>6, <1>8, <1>9
    <2>4. 0 + j + 1 = j + 1
      BY <2>1
    <2> HIDE DEF q
    <2>5. /\ ~(j \in 0 .. n - 1) => st1.mem[q] = st.mem[q]
          /\ j \in 0 .. n - 1 => st1.mem[q].line = <<s, 0 + j + 1>>
      BY <2>1, <1>13 DEF StoredAt
    <2>6. st1.mem[q].line = IF j < len THEN <<s, j + 1>> ELSE NoLine
      BY <2>2, <2>3, <2>4, <2>5
    <2> QED
      BY <2>6 DEF q
  <1>16. /\ st.time \in Nat /\ st1.mem[b].accessed = st.time + 1 /\ st1.mem[b].age = st.time + 1
    <2>1. b \in 0 .. FrameStore - 1 /\ b - b = 0 /\ 0 \in 0 .. n - 1 /\ st.time \in Nat
      BY <1>0, <1>4, <1>6, FrameAssumption DEF MemInv
    <2>2. st1.mem[b].accessed = st.time + 0 + 1 /\ st1.mem[b].age = st.time + 0 + 1
      BY <2>1, <1>13 DEF StoredAt
    <2> QED
      BY <2>1, <2>2
  <1>17. ASSUME NEW a \in Frames, ~(a - b \in 0 .. 3 * k - 1)
         PROVE  /\ st1.mem[a].accessed < st1.mem[b].accessed
                /\ st1.mem[a].age < st1.mem[b].age
    <2>1. a \in Nat /\ a + 3 <= FrameStore
      BY FrameFacts
    <2>2. a \in 0 .. FrameStore - 1
      BY <2>1, FrameAssumption
    <2>3. st1.mem[a] = st.mem[a]
      BY <2>2, <1>14, <1>17
    <2>4. /\ st.mem[a].accessed \in Nat /\ st.mem[a].age \in Nat
          /\ st.mem[a].accessed <= st.time /\ st.mem[a].age <= st.time
      BY <2>2, <1>13 DEF StoredAt
    <2> QED
      BY <2>3, <2>4, <1>16
  <1>18. ASSUME k = 2
         PROVE  /\ st1.mem[b].accessed < st1.mem[b + 3].accessed
                /\ st1.mem[b].age < st1.mem[b + 3].age
    <2> DEFINE q == b + 3
    <2>1. q \in 0 .. FrameStore - 1 /\ q - b = 3 /\ 3 \in 0 .. n - 1
      BY <1>4, <1>6, <1>8, <1>9, <1>18, FrameAssumption
    <2> HIDE DEF q
    <2>2. st1.mem[q].accessed = st.time + 3 + 1 /\ st1.mem[q].age = st.time + 3 + 1
      BY <2>1, <1>13 DEF StoredAt
    <2>3. st1.mem[b].accessed < st1.mem[q].accessed /\ st1.mem[b].age < st1.mem[q].age
      BY <2>2, <1>16
    <2> QED
      BY <2>3 DEF q
  <1>19. Admitting(st, b, k, st1)
    <2>1. \A j \in 0 .. 3 * k - 1 :
             st1.mem[b + j].line = IF j < Size(st1.pcb[s]) THEN <<s, j + 1>> ELSE NoLine
      BY <1>12, <1>15
    <2>2. /\ Size(st1.pcb[s]) \in Nat /\ 3 * (k - 1) < Size(st1.pcb[s])
          /\ (k = 1 /\ Size(st1.pcb[s]) > 3 => b + 3 = FrameStore)
      BY <1>5, <1>9, <1>12
    <2> QED
      BY <2>1, <2>2, <1>2, <1>3, <1>8, <1>9, <1>10, <1>11, <1>12, <1>14, <1>17, <1>18 DEF Admitting, s
  <1> QED
    BY <1>19

\* No process and no line in memory is changed.
OnlyAdds(st, st2) ==
    /\ \A p \in DOMAIN st.pcb : p \in DOMAIN st2.pcb /\ st2.ran[p] = st.ran[p]
    /\ \A q \in 0 .. FrameStore - 1 :
          st.mem[q].line # NoLine => st2.mem[q].line = st.mem[q].line

\* Admitting a script keeps every budget, and adds the process to the live ones.
LEMMA InitializeRounds ==
    ASSUME Filled, NEW st, NEW c, NEW done, Ready(st, c, done), NotAtPage(st, c),
           done \subseteq DOMAIN st.pcb, NEW name \in DOMAIN Programs,
           NEW st2, st2 = process_initialize(st, name), Together(st2.mem)
    PROVE  /\ Ready(st2, c, done) /\ OnlyAdds(st, st2)
           /\ Live(st2, c) = Live(st, c) \cup (DOMAIN st2.pcb \ DOMAIN st.pcb)
           /\ \A pol \in Policies : Budget(pol, st, c) => Budget(pol, st2, c)
  <1>1. StInv(st, done) /\ Together(st.mem) /\ IsState(st) /\ c \in [pid : Nat, left : Int]
    BY DEF Ready, StInv
  <1>2. StInv(st2, done)
    BY <1>1, InitializeKeeps
  <1>3. CASE FreeSlots(st.mem) # {}
    <2>1. PICK b, k : Admitting(st, b, k, st2)
      BY <1>1, <1>3, InitializeAdmits
    <2>2. AdmitStep(st, c, done, b, k, st2)
      BY <1>2, <2>1 DEF AdmitStep
    <2>3. /\ Ready(st2, c, done) /\ Live(st2, c) = Live(st, c) \cup {st.pid}
          /\ \A pol \in Policies : Budget(pol, st, c) => Budget(pol, st2, c)
      BY <2>2, AdmitRounds
    <2>4. /\ DOMAIN st2.pcb = DOMAIN st.pcb \cup {st.pid} /\ st.pid \notin DOMAIN st.pcb
          /\ \A p \in DOMAIN st.pcb : st2.ran[p] = st.ran[p]
          /\ b \in FreeSlots(st.mem)
          /\ \A q \in 0 .. FrameStore - 1 : ~(q - b \in 0 .. 3 * k - 1) => st2.mem[q] = st.mem[q]
      BY <2>1 DEF Admitting
    <2>5. b \in Nat /\ k \in 1 .. 2
      BY <2>2, TakenFacts
    <2>6. ASSUME NEW q \in 0 .. FrameStore - 1, st.mem[q].line # NoLine
          PROVE  st2.mem[q].line = st.mem[q].line
      <3>1. ~(q \in b .. FrameStore - 1)
        BY <2>4, <2>6, <1>1 DEF Together
      <3>2. ~(q - b \in 0 .. 3 * k - 1)
        BY <3>1, <2>5
      <3> QED
        BY <3>2, <2>4
    <2>7. OnlyAdds(st, st2)
      BY <2>4, <2>6 DEF OnlyAdds
    <2>8. DOMAIN st2.pcb \ DOMAIN st.pcb = {st.pid}
      BY <2>4
    <2> QED
      BY <2>3, <2>7, <2>8
  <1>4. CASE FreeSlots(st.mem) = {}
    <2>1. st2 = [st EXCEPT !.pid = @ + 1]
      BY <1>4 DEF process_initialize, copyScript, Loads
    <2>2. st2.mem = st.mem /\ st2.pcb = st.pcb /\ st2.ready = st.ready /\ st2.ran = st.ran
      BY <2>1, <1>1 DEF IsState
    <2>3. Live(st2, c) = Live(st, c)
      BY <2>2 DEF Live
    <2>4. \A q, r \in Live(st2, c) : Ahead(st2, c, q, r) <=> Ahead(st, c, q, r)
      BY <2>2 DEF Ahead
    <2>5. NotFarther(st, c, st2, c)
      BY <2>2, <2>3, <2>4, SameReach
    <2>6. Untouched(st, c, st2, c)
      BY <2>2, <2>3, LiveFacts DEF Untouched
    <2>7. SameMemory(st.mem, st2.mem)
      BY <2>2 DEF SameMemory, SameLines
    <2>8. Kept(st, c, st2, c)
      BY <2>5, <2>6, <2>7, QueueStep
    <2>9. Ready(st2, c, done)
      <3>1. c.pid # 0 => c.pid \in DOMAIN st2.pcb \ done /\ NotReady(c.pid, st2) /\ c.left \in 0 .. 2
        BY <2>2 DEF Ready, NotReady
      <3> QED
        BY <3>1, <2>8, <1>1, <1>2 DEF Ready, Kept
    <2>10. OnlyAdds(st, st2)
      BY <2>2 DEF OnlyAdds
    <2>11. DOMAIN st2.pcb \ DOMAIN st.pcb = {}
      BY <2>2
    <2> QED
      BY <2>3, <2>8, <2>9, <2>10, <2>11 DEF Kept
  <1> QED
    BY <1>3, <1>4

\* A process of which a line is executed is not at a page it has just turned to.
LEMMA AfterLine ==
    ASSUME NEW st, NEW c, NEW done, NEW st2, ReadStep(st, c, done, st2)
    PROVE  NotAtPage(st2, Spend(c))
  <1> DEFINE p == c.pid
             x == st.pcb[p]
             y == st2.pcb[p]
  <1>1. Ready(st, c, done) /\ p # 0 /\ c.left # 0 /\ x.currentPage <= x.pageCounter
    BY DEF ReadStep
  <1>2. p \in Live(st, c) /\ Left(c, p) = c.left
    BY <1>1 DEF Live, Left
  <1>3. Regular(x, c.left) /\ Shaped(x, c.left)
    BY <1>1, <1>2, LiveFacts
  <1>4. /\ y.pageCounter = x.pageCounter
        /\ y.currentPage = IF x.currentLine = 2 THEN x.currentPage + 1 ELSE x.currentPage
        /\ y.currentLine = IF x.currentLine = 2 THEN 0 ELSE x.currentLine + 1
    BY DEF ReadStep, Reading
  <1>5. /\ x.currentLine \in 0 .. 2 /\ x.currentPage \in Nat \ {0} /\ x.pageCounter \in Nat \ {0}
        /\ c.left \in 0 .. 2
    BY <1>3 DEF Regular
  <1>6. x.currentPage < x.pageCounter =>
          <<x.currentLine, c.left>> \in {<<0, 2>>, <<1, 1>>, <<2, 0>>, <<2, 2>>}
    BY <1>3 DEF Shaped
  <1>7. x.currentPage < x.pageCounter /\ c.left = 1 => x.currentLine = 1
    BY <1>6
  <1> HIDE DEF x, y, p
  <1>8. ASSUME NEW h \in Pending(y), c.left - 1 = 0, Done(y) = 3 * h PROVE FALSE
    <2>1. h \in Nat /\ y.currentPage <= h + 1 /\ h < y.pageCounter
      BY <1>8 DEF Pending
    <2>2. c.left = 1
      BY <1>5, <1>8
    <2>3. x.currentLine = 2
      BY <1>4, <1>5, <1>8, <2>1 DEF Done
    <2>4. x.currentPage < x.pageCounter
      BY <1>4, <1>5, <2>1, <2>3
    <2> QED
      BY <1>7, <2>2, <2>3, <2>4
  <1>9. Spend(c).pid = p /\ Spend(c).left = c.left - 1
    BY DEF Spend, p
  <1> QED
    BY <1>8, <1>9 DEF NotAtPage, y

\* The cells after the line at position pc was read.
TouchedAt(mem, pc, mem2) ==
    \A q \in 0 .. FrameStore - 1 :
       /\ mem2[q].line = mem[q].line /\ mem2[q].age = mem[q].age
       /\ q # pc => /\ mem2[q].accessed = mem[q].accessed
                    /\ mem2[q].accessed < mem2[pc].accessed

\* What reading a line does to each cell.
LEMMA TouchCells ==
    ASSUME IInv, cur # Idle, ~PageFault
    PROVE  TouchedAt(shellmemory, Me.PC, Touch.mem) /\ Me.PC \in 0 .. FrameStore - 1
  <1> DEFINE p == cur.pid
             c == pcb[p]
             cell == shellmemory[c.PC]
             t == global_access_time
             cell1 == [cell EXCEPT !.accessed = t + 1]
             c1 == [c EXCEPT !.PC = c.PC + 1]
             Q == 0 .. FrameStore - 1
             X == [shellmemory EXCEPT ![c.PC] = cell1]
             Y == [pcb EXCEPT ![p] = c1]
  <1>1. MemInv(State) /\ PcbInv(State, ended) /\ p \in DOMAIN pcb \ ended
    BY DEF IInv, StInv
  <1>2. /\ c \in PCB /\ InPage(c) /\ shellmemory \in [Q -> Cell] /\ t \in Nat
        /\ \A q \in Q : shellmemory[q].accessed <= t
    BY <1>1 DEF PcbInv, MemInv, State
  <1>3. c.PC \in Q
    BY <1>2, InFrameStore DEF PageFault, Me
  <1>4. Touch = [State EXCEPT !.mem = X, !.time = t + 1, !.pcb = Y]
    BY DEF Touch, Me, State
  <1>5. cell1.line = cell.line /\ cell1.age = cell.age /\ cell1.accessed = t + 1
    <2>1. cell \in Cell
      BY <1>2, <1>3
    <2> HIDE DEF cell
    <2> QED
      BY <2>1 DEF Cell
  <1> HIDE DEF cell1, c1
  <1>6. \A q \in Q : X[q] = IF q = c.PC THEN cell1 ELSE shellmemory[q]
    BY <1>2
  <1>7. \A q \in Q : shellmemory[q].accessed \in Nat
    BY <1>2 DEF Cell
  <1> HIDE DEF X, Y
  <1>8. Touch.mem = X
    BY <1>4 DEF State
  <1>9. X[c.PC] = cell1
    BY <1>3, <1>6
  <1>10. ASSUME NEW q \in Q
         PROVE  /\ X[q].line = shellmemory[q].line /\ X[q].age = shellmemory[q].age
                /\ q # c.PC => /\ X[q].accessed = shellmemory[q].accessed
                               /\ X[q].accessed < X[c.PC].accessed
    <2>1. CASE q = c.PC
      BY <2>1, <1>5, <1>9
    <2>2. CASE q # c.PC
      <3>1. X[q] = shellmemory[q]
        BY <2>2, <1>6
      <3>2. X[q].accessed < X[c.PC].accessed
        BY <3>1, <1>2, <1>5, <1>7, <1>9
      <3> QED
        BY <3>1, <3>2
    <2> QED
      BY <2>1, <2>2
  <1> QED
    BY <1>3, <1>8, <1>10 DEF TouchedAt, Me

\* The fields of the PCB after a line was read.
LEMMA NextLineFields ==
    ASSUME NEW c \in PCB, NEW y, y = NextLine([c EXCEPT !.PC = c.PC + 1])
    PROVE  /\ y.prog = c.prog /\ y.PC = c.PC + 1 /\ y.pageCounter = c.pageCounter
           /\ y.currentPage = IF c.currentLine = 2 THEN c.currentPage + 1 ELSE c.currentPage
           /\ y.currentLine = IF c.currentLine = 2 THEN 0 ELSE c.currentLine + 1
  <1> DEFINE k == c.PC + 1
             c1 == [c EXCEPT !.PC = k]
  <1> HIDE DEF k
  <1>1. c = [prog |-> c.prog, PC |-> c.PC, currentPage |-> c.currentPage,
             currentLine |-> c.currentLine, pageCounter |-> c.pageCounter]
    BY DEF PCB
  <1>2. c1 = [prog |-> c.prog, PC |-> k, currentPage |-> c.currentPage,
             currentLine |-> c.currentLine, pageCounter |-> c.pageCounter]
    BY <1>1
  <1> HIDE DEF c1
  <1>3. y = NextLine(c1)
    BY DEF c1, k
  <1>4. CASE c.currentLine = 2
    <2> DEFINE m == c.currentPage + 1
    <2>1. y = [c1 EXCEPT !.currentPage = m, !.currentLine = 0]
      BY <1>2, <1>3, <1>4 DEF NextLine
    <2> HIDE DEF m
    <2>2. /\ y.prog = c.prog /\ y.PC = k /\ y.pageCounter = c.pageCounter
          /\ y.currentPage = m /\ y.currentLine = 0
      BY <2>1, <1>2
    <2> QED
      BY <2>2, <1>4 DEF m, k
  <1>5. CASE c.currentLine # 2
    <2> DEFINE m == c.currentLine + 1
    <2>1. y = [c1 EXCEPT !.currentLine = m]
      BY <1>2, <1>3, <1>5 DEF NextLine
    <2> HIDE DEF m
    <2>2. /\ y.prog = c.prog /\ y.PC = k /\ y.pageCounter = c.pageCounter
          /\ y.currentPage = c.currentPage /\ y.currentLine = m
      BY <2>1, <1>2
    <2> QED
      BY <2>2, <1>5 DEF m, k
  <1> QED
    BY <1>4, <1>5

\* The PCB of p replaced.
Moved(st, p, y) == [st EXCEPT !.pcb[p] = y]

\* Nothing else is changed.
OnlyPcb(st, p, y, st1) ==
    /\ DOMAIN st1.pcb = DOMAIN st.pcb /\ st1.pcb[p] = y
    /\ st1.mem = st.mem /\ st1.ready = st.ready /\ st1.ran = st.ran
    /\ \A r \in DOMAIN st.pcb \ {p} : st1.pcb[r] = st.pcb[r]

\* Moving a process on, which is queued again or goes on afterwards.
LEMMA PcbKeeps ==
    ASSUME NEW st, NEW done, NEW all, NEW p, StInv(st, all), all = done \cup {p}, p \in DOMAIN st.pcb,
           NEW y \in PCB, InPage(y), y.prog = st.pcb[p].prog,
           NEW st1, st1 = Moved(st, p, y)
    PROVE  StInv(st1, done) /\ OnlyPcb(st, p, y, st1)
  <1> DEFINE X == [st.pcb EXCEPT ![p] = y]
  <1>1. IsState(st) /\ MemInv(st) /\ PcbInv(st, all) /\ ReadyInv(st, all)
    BY DEF StInv
  <1>2. st.pcb \in [DOMAIN st.pcb -> PCB]
    BY <1>1 DEF PcbInv
  <1>3. /\ DOMAIN X = DOMAIN st.pcb /\ X \in [DOMAIN X -> PCB] /\ X[p] = y
        /\ \A r \in DOMAIN st.pcb : X[r].prog = st.pcb[r].prog
        /\ \A r \in DOMAIN st.pcb : r # p => X[r] = st.pcb[r]
    BY <1>2
  <1>4. st1 = [st EXCEPT !.pcb = X]
    BY <1>1 DEF IsState, Moved
  <1> HIDE DEF X
  <1>5. /\ IsState(st1) /\ st1.mem = st.mem /\ st1.time = st.time /\ st1.pcb = X
        /\ st1.ready = st.ready /\ st1.pid = st.pid /\ st1.ran = st.ran
    BY <1>1, <1>4 DEF IsState
  <1>6. MemInv(st1)
    BY <1>1, <1>3, <1>5 DEF MemInv, LineOf
  <1>7. PcbInv(st1, done)
    BY <1>1, <1>3, <1>5 DEF PcbInv
  <1>8. ReadyInv(st1, done)
    <2>1. st.ready \in Seq(DOMAIN st.pcb \ all)
      BY <1>1 DEF ReadyInv
    <2>2. st.ready \in Seq(DOMAIN st.pcb \ done)
      BY <2>1
    <2> QED
      BY <2>2, <1>1, <1>3, <1>5 DEF ReadyInv
  <1> QED
    BY <1>3, <1>5, <1>6, <1>7, <1>8 DEF StInv, OnlyPcb

\* It makes no difference whether the process moves on before the script is admitted.
LEMMA InitializeCommutes ==
    ASSUME NEW st, IsState(st), NEW p \in DOMAIN st.pcb, st.pid \notin DOMAIN st.pcb,
           NEW y, NEW name
    PROVE  Moved(process_initialize(st, name), p, y) = process_initialize(Moved(st, p, y), name)
  <1> DEFINE X == [st.pcb EXCEPT ![p] = y]
             s == Moved(st, p, y)
  <1>1. /\ s = [mem |-> st.mem, time |-> st.time, pcb |-> X, ready |-> st.ready,
                pid |-> st.pid, ran |-> st.ran]
    BY DEF IsState, Moved
  <1>2. DOMAIN X = DOMAIN st.pcb
    OBVIOUS
  <1>3. CASE ~Loads(st)
    <2> DEFINE t == process_initialize(st, name)
               t2 == process_initialize(s, name)
    <2>1. t = [mem |-> st.mem, time |-> st.time, pcb |-> st.pcb, ready |-> st.ready,
               pid |-> st.pid + 1, ran |-> st.ran]
      BY <1>3 DEF process_initialize, copyScript, IsState
    <2> HIDE DEF s, X
    <2>2. ~Loads(s)
      BY <1>1, <1>3 DEF Loads
    <2>3. t2 = [mem |-> st.mem, time |-> st.time, pcb |-> X, ready |-> st.ready,
               pid |-> st.pid + 1, ran |-> st.ran]
      BY <1>1, <2>2 DEF process_initialize, copyScript
    <2> HIDE DEF t, t2, s, Moved
    <2>4. [t EXCEPT !.pcb[p] = y] = t2
      BY <2>1, <2>3 DEF X
    <2> QED
      BY <2>4 DEF t, t2, s, Moved
  <1>4. CASE Loads(st)
    <2> DEFINE t == process_initialize(st, name)
               t2 == process_initialize(s, name)
               b == find_available_slot(st.mem)
               n == LinesLoaded(Programs[name], b)
               z == [prog |-> Programs[name], PC |-> b, currentPage |-> 1,
                     currentLine |-> 0, pageCounter |-> PagesCounted(Programs[name], n)]
               m == Stored(st.mem, st.time, st.pid, b, 0, n)
               P == Put(st.pcb, st.pid, z)
               P2 == Put(X, st.pid, z)
               R == Put(st.ran, st.pid, << >>)
    <2>1. t = [mem |-> m, time |-> st.time + n, pcb |-> P,
               ready |-> Append(st.ready, st.pid), pid |-> st.pid + 1, ran |-> R]
      BY <1>4 DEF process_initialize, copyScript, IsState, load_file
    <2> HIDE DEF s, X
    <2>2. Loads(s)
      BY <1>1, <1>4 DEF Loads
    <2>3. t2 = [mem |-> m, time |-> st.time + n, pcb |-> P2,
                ready |-> Append(st.ready, st.pid), pid |-> st.pid + 1, ran |-> R]
      BY <1>1, <2>2 DEF process_initialize, copyScript, load_file
    <2> HIDE DEF t, t2, m, R, n, z, b
    <2>4. [P EXCEPT ![p] = y] = P2
      <3>1. DOMAIN P = DOMAIN st.pcb \cup {st.pid} /\ DOMAIN P2 = DOMAIN st.pcb \cup {st.pid}
        BY <1>2 DEF Put
      <3>2. ASSUME NEW r \in DOMAIN st.pcb \cup {st.pid} PROVE [P EXCEPT ![p] = y][r] = P2[r]
        BY <1>2, <3>2 DEF Put, X
      <3>3. P2 = [r \in DOMAIN P2 |-> P2[r]]
        BY DEF Put
      <3> HIDE DEF P, P2
      <3> QED
        BY <3>1, <3>2, <3>3
    <2> HIDE DEF P, P2
    <2> DEFINE a == st.time + n
               d == st.pid + 1
               w == Append(st.ready, st.pid)
               Y == [P EXCEPT ![p] = y]
    <2> HIDE DEF a, d, w
    <2>5. t = [mem |-> m, time |-> a, pcb |-> P, ready |-> w, pid |-> d, ran |-> R]
      BY <2>1 DEF a, d, w
    <2>6. [t EXCEPT !.pcb[p] = y] = [t EXCEPT !.pcb = Y]
      BY <2>5
    <2>7. Y = P2
      BY <2>4
    <2> HIDE DEF Y
    <2>8. [t EXCEPT !.pcb = Y] = [mem |-> m, time |-> a, pcb |-> P2, ready |-> w, pid |-> d, ran |-> R]
      BY <2>5, <2>7
    <2>9. t2 = [mem |-> m, time |-> a, pcb |-> P2, ready |-> w, pid |-> d, ran |-> R]
      BY <2>3 DEF a, d, w
    <2>10. [t EXCEPT !.pcb[p] = y] = t2
      BY <2>6, <2>8, <2>9
    <2> QED
      BY <2>10 DEF t, t2, s, Moved
  <1> QED
    BY <1>3, <1>4

\* The state after a line was read, before its command is executed.
Reached == [Started EXCEPT !.pcb[cur.pid] = NextLine(@)]

\* Executing a line is reading it and then, if it names a script, admitting that one.
LEMMA ReachedFacts ==
    ASSUME IInv, cur # Idle, ~PageFault, Line # NoLine
    PROVE  /\ StInv(Reached, ended) /\ DOMAIN Reached.pcb = DOMAIN pcb /\ cur.pid \in DOMAIN pcb \ ended
           /\ Reached.ready = ready /\ Reached.mem = Touch.mem
           /\ Reached.pcb[cur.pid] = NextLine([Me EXCEPT !.PC = Me.PC + 1])
           /\ \A r \in DOMAIN pcb \ {cur.pid} : /\ Reached.pcb[r] = pcb[r]
                                                /\ Reached.ran[r] = ran[r]
           /\ Reached.ran[cur.pid] = Append(ran[cur.pid], Line)
           /\ Executed = IF Word = Plain THEN Reached ELSE process_initialize(Reached, Word)
           /\ Word = Plain \/ Word \in DOMAIN Programs
  <1> DEFINE p == cur.pid
             done == ended \cup {p}
             c == pcb[p]
             c1 == [c EXCEPT !.PC = c.PC + 1]
             y == NextLine(c1)
  <1>0. StInv(State, ended) /\ p \in DOMAIN pcb \ ended /\ ended \subseteq DOMAIN pcb
    BY DEF IInv
  <1>1. State.pcb = pcb /\ State.ran = ran /\ PcbInv(State, ended)
    BY <1>0 DEF State, StInv
  <1>2. c \in PCB /\ InPage(c) /\ pcb \in [DOMAIN pcb -> PCB] /\ ~(c.currentPage > c.pageCounter)
        /\ DOMAIN ran = DOMAIN pcb
    BY <1>0, <1>1 DEF PcbInv, PageFault, Me
  <1>3. /\ StInv(Touch, done) /\ Touch.pcb = [pcb EXCEPT ![p] = c1]
        /\ Touch.ready = ready /\ Touch.ran = ran
    BY TouchKeeps
  <1>4. y \in PCB /\ InPage(y) /\ y.prog = c.prog
    <2> HIDE DEF c
    <2> QED
      BY <1>2, NextLineKeeps
  <1>5. c1.prog = c.prog
    <2> HIDE DEF c
    <2> QED
      BY <1>2 DEF PCB
  <1>6. /\ StInv(Started, done) /\ Started.mem = Touch.mem /\ Started.pcb = Touch.pcb
        /\ Word = Plain \/ Word \in DOMAIN Programs
    BY ExecutedKeeps
  <1>7. Started.ready = ready /\ Started.ran = [ran EXCEPT ![p] = Append(ran[p], Line)]
    <2> DEFINE X == [Touch.ran EXCEPT ![p] = Append(Touch.ran[p], Line)]
    <2>1. IsState(Touch)
      BY <1>3 DEF StInv
    <2>2. Started = [Touch EXCEPT !.ran = X]
      BY <2>1 DEF Started, IsState
    <2> HIDE DEF X
    <2>3. Started.ready = Touch.ready /\ Started.ran = X
      BY <2>1, <2>2 DEF IsState
    <2> QED
      BY <2>3, <1>3 DEF X
  <1> HIDE DEF c1, y
  <1>8. DOMAIN Started.pcb = DOMAIN pcb /\ Started.pcb[p] = c1
        /\ \A r \in DOMAIN pcb \ {p} : Started.pcb[r] = pcb[r]
    BY <1>0, <1>2, <1>3, <1>6
  <1>9. Reached = Moved(Started, p, y)
    BY <1>8 DEF Reached, y, Moved
  <1>10. y.prog = Started.pcb[p].prog /\ p \in DOMAIN Started.pcb
    BY <1>0, <1>4, <1>5, <1>8
  <1>11. /\ StInv(Reached, ended) /\ DOMAIN Reached.pcb = DOMAIN Started.pcb /\ Reached.pcb[p] = y
         /\ Reached.mem = Started.mem /\ Reached.ready = Started.ready /\ Reached.ran = Started.ran
         /\ \A r \in DOMAIN Started.pcb \ {p} : Reached.pcb[r] = Started.pcb[r]
    <2>1. done = ended \cup {p}
      OBVIOUS
    <2> HIDE DEF p, done, c
    <2>2. p \in DOMAIN Started.pcb /\ y \in PCB /\ InPage(y) /\ y.prog = Started.pcb[p].prog
      BY <1>4, <1>10
    <2>3. StInv(Started, done) /\ Reached = Moved(Started, p, y)
      BY <1>6, <1>9
    <2>4. StInv(Reached, ended) /\ OnlyPcb(Started, p, y, Reached)
      BY <2>1, <2>2, <2>3, PcbKeeps
    <2> QED
      BY <2>4 DEF OnlyPcb
  <1>12. Executed = IF Word = Plain THEN Reached ELSE process_initialize(Reached, Word)
    <2>1. CASE Word = Plain
      <3>1. Parsed = Started
        BY <2>1 DEF parseInput, Parsed, Word
      <3> QED
        BY <2>1, <3>1 DEF Executed, Reached
    <2>2. CASE Word # Plain
      <3>1. Parsed = process_initialize(Started, Word) /\ Word \in DOMAIN Programs
        BY <2>2, <1>6 DEF parseInput, Parsed, Word
      <3>2. done \subseteq DOMAIN Started.pcb /\ IsState(Started) /\ Started.pid \notin DOMAIN Started.pcb
        BY <1>0, <1>6, <1>8 DEF StInv, PcbInv
      <3> HIDE DEF done
      <3>3. Parsed.pcb[p] = c1
        BY <3>1, <3>2, <1>6, <1>8, <1>10, InitializeKeeps
      <3>4. Executed = Moved(process_initialize(Started, Word), p, y)
        BY <3>1, <3>3 DEF Executed, y, Moved
      <3> HIDE DEF p
      <3>5. Executed = process_initialize(Reached, Word)
        BY <3>2, <3>4, <1>9, <1>10, InitializeCommutes
      <3> QED
        BY <2>2, <3>5
    <2> QED
      BY <2>1, <2>2
  <1>13. /\ \A r \in DOMAIN pcb \ {p} : Reached.pcb[r] = pcb[r] /\ Reached.ran[r] = ran[r]
         /\ Reached.ran[p] = Append(ran[p], Line)
    BY <1>0, <1>2, <1>7, <1>8, <1>11
  <1> QED
    BY <1>0, <1>6, <1>7, <1>8, <1>11, <1>12, <1>13 DEF y, c1, Me

\* The line at the program counter of a process that is well placed.
LEMMA LineAt ==
    ASSUME Ready(State, cur, ended), cur.pid # 0, ~PageFault
    PROVE  /\ Line = IF Done(Me) < Size(Me) THEN <<cur.pid, Done(Me) + 1>> ELSE NoLine
           /\ cur.pid \in Live(State, cur)
           /\ Regular(Me, cur.left) /\ Me.currentPage <= Me.pageCounter
  <1> DEFINE x == pcb[cur.pid]
             b == x.PC - x.currentLine
             d == 3 * (x.currentPage - 1)
  <1>0. State.pcb = pcb /\ State.mem = shellmemory
    BY DEF State
  <1>1. cur.pid \in Live(State, cur) /\ Left(cur, cur.pid) = cur.left
    BY DEF Live, Left
  <1>2. Regular(x, cur.left) /\ Located(shellmemory, cur.pid, x)
    BY <1>0, <1>1, LiveFacts
  <1>3. /\ x.PC \in Nat /\ x.currentLine \in 0 .. 2 /\ x.currentPage \in Nat \ {0}
        /\ x.pageCounter \in Nat /\ Size(x) \in Nat /\ x.currentPage <= x.pageCounter
    <2>1. ~(x.currentPage > x.pageCounter)
      BY DEF PageFault, Me
    <2> HIDE DEF x
    <2> QED
      BY <1>2, <2>1 DEF Regular
  <1>4. \A i \in d .. 3 * x.pageCounter - 1 :
          shellmemory[b + i - d].line = IF i < Size(x) THEN <<cur.pid, i + 1>> ELSE NoLine
    BY <1>2, <1>3 DEF Located
  <1> HIDE DEF x
  <1>5. Done(x) \in d .. 3 * x.pageCounter - 1 /\ b + Done(x) - d = x.PC
    BY <1>3 DEF Done
  <1> HIDE DEF b, d
  <1>6. shellmemory[x.PC].line = IF Done(x) < Size(x) THEN <<cur.pid, Done(x) + 1>> ELSE NoLine
    BY <1>4, <1>5
  <1> QED
    BY <1>1, <1>2, <1>3, <1>6 DEF Line, Me, x

\* Executing a line.
LEMMA LineRounds ==
    ASSUME Filled, IInv, Shape(State), Ready(State, cur, ended), cur # Idle, cur.left # 0,
           ~PageFault, Line # NoLine
    PROVE  /\ Ready(Executed, Spend(cur), ended)
           /\ Live(Executed, Spend(cur)) = Live(State, cur) \cup (DOMAIN Executed.pcb \ DOMAIN pcb)
           /\ \A pol \in Policies : Budget(pol, State, cur) => Budget(pol, Executed, Spend(cur))
           /\ \A q \in 0 .. FrameStore - 1 :
                shellmemory[q].line # NoLine => Executed.mem[q].line = shellmemory[q].line
  <1> DEFINE p == cur.pid
             st == Reached
             e == Spend(cur)
  <1>1. /\ StInv(st, ended) /\ DOMAIN st.pcb = DOMAIN pcb /\ p \in DOMAIN pcb \ ended
        /\ st.ready = ready /\ st.mem = Touch.mem
        /\ st.pcb[p] = NextLine([Me EXCEPT !.PC = Me.PC + 1])
        /\ \A r \in DOMAIN pcb \ {p} : st.pcb[r] = pcb[r] /\ st.ran[r] = ran[r]
        /\ st.ran[p] = Append(ran[p], Line)
        /\ Executed = IF Word = Plain THEN st ELSE process_initialize(st, Word)
        /\ Word = Plain \/ Word \in DOMAIN Programs
    BY ReachedFacts
  <1>2. State.pcb = pcb /\ State.mem = shellmemory /\ State.ready = ready /\ State.ran = ran
    BY DEF State
  <1>3. Me \in PCB /\ p # 0 /\ ended \subseteq DOMAIN pcb
    BY <1>1, <1>2 DEF IInv, StInv, PcbInv, Me
  <1>4. TouchedAt(shellmemory, Me.PC, Touch.mem)
    BY TouchCells
  <1>5. /\ Line = <<p, Done(Me) + 1>> /\ Done(Me) < Size(Me) /\ Me.currentPage <= Me.pageCounter
    BY <1>3, LineAt
  <1> HIDE DEF st, p
  <1>6. Reading(State, p, st)
    <2> DEFINE y == st.pcb[p]
               x == Me
    <2>1. x = State.pcb[p]
      BY <1>2 DEF Me, p
    <2>2. /\ y.prog = x.prog /\ y.PC = x.PC + 1 /\ y.pageCounter = x.pageCounter
          /\ y.currentPage = IF x.currentLine = 2 THEN x.currentPage + 1 ELSE x.currentPage
          /\ y.currentLine = IF x.currentLine = 2 THEN 0 ELSE x.currentLine + 1
      BY <1>1, <1>3, NextLineFields
    <2>3. \A q \in 0 .. FrameStore - 1 :
              /\ st.mem[q].line = shellmemory[q].line /\ st.mem[q].age = shellmemory[q].age
              /\ q # x.PC => /\ st.mem[q].accessed = shellmemory[q].accessed
                             /\ st.mem[q].accessed < st.mem[x.PC].accessed
      BY <1>1, <1>4 DEF TouchedAt
    <2>4. st.ran[p] = Append(ran[p], <<p, Done(x) + 1>>)
      BY <1>1, <1>5
    <2> HIDE DEF y, x
    <2> QED
      BY <2>1, <2>2, <2>3, <2>4, <1>1, <1>2 DEF Reading, y
  <1>7. ReadStep(State, cur, ended, st)
    BY <1>1, <1>2, <1>3, <1>5, <1>6 DEF ReadStep, Me, p
  <1>8. /\ Ready(st, e, ended) /\ Live(st, e) = Live(State, cur)
        /\ \A pol \in Policies : Budget(pol, State, cur) => Budget(pol, st, e)
    BY <1>7, ReadRounds
  <1>9. NotAtPage(st, e)
    BY <1>7, AfterLine
  <1>10. Together(Executed.mem)
    BY ExecutedShape DEF Shape
  <1>11. \A q \in 0 .. FrameStore - 1 : st.mem[q].line = shellmemory[q].line
    BY <1>1, <1>4 DEF TouchedAt
  <1> HIDE DEF e
  <1>12. CASE Word = Plain
    <2>1. Executed = st
      BY <1>1, <1>12
    <2> QED
      BY <2>1, <1>1, <1>8, <1>11 DEF e
  <1>13. CASE Word # Plain
    <2>1. Executed = process_initialize(st, Word) /\ Word \in DOMAIN Programs /\ ended \subseteq DOMAIN st.pcb
      BY <1>1, <1>3, <1>13
    <2> DEFINE st2 == Executed
    <2> HIDE DEF st2
    <2>2. st2 = process_initialize(st, Word) /\ Together(st2.mem)
      BY <2>1, <1>10 DEF st2
    <2>3. /\ Ready(st2, e, ended) /\ OnlyAdds(st, st2)
          /\ Live(st2, e) = Live(st, e) \cup (DOMAIN st2.pcb \ DOMAIN st.pcb)
          /\ \A pol \in Policies : Budget(pol, st, e) => Budget(pol, st2, e)
      BY <2>1, <2>2, <1>8, <1>9, InitializeRounds
    <2>4. \A q \in 0 .. FrameStore - 1 : shellmemory[q].line # NoLine => st2.mem[q].line = shellmemory[q].line
      BY <2>3, <1>11 DEF OnlyAdds
    <2> QED
      BY <2>3, <2>4, <1>1, <1>8 DEF st2, e
  <1> QED
    BY <1>12, <1>13
-----------------------------------------------------------------------------
\* Nobody is lost: a process that has not ended is queued or is being executed.

\* The elements of a queue one longer.
LEMMA AppendLive ==
    ASSUME NEW S, NEW q \in Seq(S), NEW e
    PROVE  {Append(q, e)[i] : i \in 1 .. Len(Append(q, e))} = {q[i] : i \in 1 .. Len(q)} \cup {e}
  <1> DEFINE n == Len(q)
             a == Append(q, e)
  <1>1. n \in Nat /\ Len(a) = n + 1 /\ a[n + 1] = e /\ \A i \in 1 .. n : a[i] = q[i]
    OBVIOUS
  <1>2. \A i \in 1 .. n + 1 : i \in 1 .. n \/ i = n + 1
    BY <1>1
  <1>3. 1 .. n \subseteq 1 .. n + 1 /\ n + 1 \in 1 .. n + 1
    BY <1>1
  <1> HIDE DEF n, a
  <1>4. {a[i] : i \in 1 .. n + 1} = {q[i] : i \in 1 .. n} \cup {e}
    BY <1>1, <1>2, <1>3
  <1> QED
    BY <1>1, <1>4 DEF a, n

\* Queueing a process.
LEMMA QueuedLive ==
    ASSUME NEW st, NEW done, StInv(st, done), NEW st2, NEW c, NEW s \in Nat \ {0},
           st2.ready = Append(st.ready, s)
    PROVE  Live(st2, c) = Live(st, c) \cup {s}
  <1>1. st.ready \in Seq(DOMAIN st.pcb \ done)
    BY DEF StInv, ReadyInv
  <1>2. {st2.ready[i] : i \in 1 .. Len(st2.ready)} = {st.ready[i] : i \in 1 .. Len(st.ready)} \cup {s}
    BY <1>1, AppendLive
  <1> QED
    BY <1>2 DEF Live

\* The head of the queue stays live.
LEMMA PopLive ==
    ASSUME NEW st, NEW done, StInv(st, done), st.ready # << >>, NEW st2, st2.ready = Tail(st.ready),
           NEW c2, c2.pid = Head(st.ready)
    PROVE  Live(st2, c2) = Live(st, Idle)
  <1> DEFINE n == Len(st.ready)
             p == Head(st.ready)
             R == {st.ready[i] : i \in 1 .. n}
             R2 == {st2.ready[i] : i \in 1 .. n - 1}
  <1>1. st.ready \in Seq(DOMAIN st.pcb \ done)
    BY DEF StInv, ReadyInv
  <1>2. /\ n \in Nat \ {0} /\ Len(st2.ready) = n - 1 /\ p = st.ready[1]
        /\ \A i \in 1 .. n - 1 : st2.ready[i] = st.ready[i + 1]
    BY <1>1
  <1>3. ASSUME NEW x \in R PROVE x \in R2 \cup {p}
    <2>1. PICK i \in 1 .. n : x = st.ready[i]
      BY <1>3
    <2>2. CASE i = 1
      BY <2>1, <2>2, <1>2
    <2>3. CASE i # 1
      <3>1. i - 1 \in 1 .. n - 1 /\ (i - 1) + 1 = i
        BY <2>3, <1>2
      <3>2. st2.ready[i - 1] = x
        BY <3>1, <2>1, <1>2
      <3> QED
        BY <3>1, <3>2
    <2> QED
      BY <2>2, <2>3
  <1>4. R2 \cup {p} \subseteq R
    <2>1. 1 \in 1 .. n /\ \A i \in 1 .. n - 1 : i + 1 \in 1 .. n
      BY <1>2
    <2> QED
      BY <2>1, <1>2
  <1>5. R = R2 \cup {p}
    <2> HIDE DEF R, R2, p
    <2> QED
      BY <1>3, <1>4
  <1> QED
    BY <1>2, <1>5 DEF Live, Idle

\* A process that stops being executed without being queued.
LEMMA EndLive ==
    ASSUME NEW st, NEW c, NotReady(c.pid, st), NEW st2, st2.ready = st.ready
    PROVE  Live(st2, Idle) = Live(st, c) \ {c.pid}
  BY DEF Live, Idle, NotReady

\* Admitting a script.
LEMMA InitializeLive ==
    ASSUME NEW st, NEW done, StInv(st, done), NEW c, NEW name, NEW st2, st2 = process_initialize(st, name)
    PROVE  /\ Live(st2, c) = Live(st, c) \cup (DOMAIN st2.pcb \ DOMAIN st.pcb)
           /\ DOMAIN st.pcb \subseteq DOMAIN st2.pcb
  <1>1. IsState(st) /\ PcbInv(st, done)
    BY DEF StInv
  <1>2. st.pid \in Nat \ {0} /\ st.pid \notin DOMAIN st.pcb
    BY <1>1 DEF PcbInv
  <1>3. CASE Loads(st)
    <2>1. st2 = load_file([st EXCEPT !.pid = @ + 1], st.pid, Programs[name])
      BY <1>3 DEF process_initialize, copyScript
    <2>2. st2.ready = Append(st.ready, st.pid) /\ DOMAIN st2.pcb = DOMAIN st.pcb \cup {st.pid}
      BY <2>1, <1>1 DEF IsState, load_file, Put
    <2>3. Live(st2, c) = Live(st, c) \cup {st.pid}
      BY <2>2, <1>2, QueuedLive
    <2> QED
      BY <2>2, <2>3, <1>2
  <1>4. CASE ~Loads(st)
    <2>1. st2 = [st EXCEPT !.pid = @ + 1]
      BY <1>4 DEF process_initialize, copyScript
    <2>2. st2.ready = st.ready /\ st2.pcb = st.pcb
      BY <2>1, <1>1 DEF IsState
    <2> QED
      BY <2>2 DEF Live
  <1> QED
    BY <1>3, <1>4

\* At the prompt no process is being executed.
AllLive(ph, st, c, done) ==
    /\ ph \in {"shell", "RR", "FCFS"} => Live(st, c) = DOMAIN st.pcb \ done
    /\ ph = "shell" => c = Idle

\* The same after an assignment of the whole state.
LEMMA SetAllLive ==
    ASSUME NEW st, IsState(st), SetState(st), AllLive(phase', st, cur', ended')
    PROVE  AllLive(phase, State, cur, ended)'
  <1>1. State' = st
    BY SetStateKeeps
  <1>2. AllLive(phase', State', cur', ended')
    BY <1>1
  <1> QED
    BY <1>2

\* The same after a turn.
LEMMA RequeueAllLive ==
    ASSUME NEW st, StInv(st, ended), Requeue(st), UNCHANGED phase, phase # "shell",
           cur.pid \in Nat \ {0}, NEW c, c.pid = cur.pid, AllLive(phase, st, c, ended)
    PROVE  AllLive(phase, State, cur, ended)'
  <1> DEFINE st1 == [st EXCEPT !.ready = Append(@, cur.pid)]
  <1>1. IsState(st) /\ cur' = Idle /\ ended' = ended
    BY DEF Requeue, StInv
  <1>2. IsState(st1) /\ st1.pcb = st.pcb /\ st1.ready = Append(st.ready, cur.pid)
    BY <1>1 DEF IsState
  <1>3. SetState(st1)
    BY DEF Requeue
  <1> HIDE DEF st1
  <1>4. Live(st1, Idle) = Live(st, Idle) \cup {cur.pid}
    BY <1>2, QueuedLive
  <1>5. Live(st, Idle) \cup {cur.pid} = Live(st, c)
    BY DEF Live, Idle
  <1>6. AllLive(phase', st1, cur', ended')
    BY <1>1, <1>2, <1>4, <1>5 DEF AllLive
  <1> QED
    BY <1>2, <1>3, <1>6, SetAllLive

\* Every step keeps this.
LEMMA AllLiveKept ==
    ASSUME IInv, AllLive(phase, State, cur, ended), [Next]_vars
    PROVE  AllLive(phase, State, cur, ended)'
  <1>0. /\ State.pcb = pcb /\ State.ready = ready /\ State.mem = shellmemory
    BY DEF State
  <1>1. /\ StInv(State, ended) /\ ended \subseteq DOMAIN pcb /\ PcbInv(State, ended) /\ phase \in Phases
        /\ (cur # Idle => cur.pid \in DOMAIN pcb \ ended /\ NotReady(cur.pid, State))
    BY DEF IInv, StInv
  <1>2. cur # Idle => cur.pid \in Nat \ {0} /\ phase # "shell"
    BY <1>0, <1>1 DEF PcbInv, AllLive
  <1>3. ASSUME UNCHANGED <<pcb, ready, cur, ended>>,
               phase' = phase \/ (phase = "shell" /\ phase' # "shell")
        PROVE  AllLive(phase, State, cur, ended)'
    <2>1. State'.pcb = pcb /\ State'.ready = ready
      BY <1>3 DEF State
    <2>2. Live(State', cur') = Live(State, cur)
      BY <2>1, <1>0, <1>3 DEF Live
    <2>3. AllLive(phase', State', cur', ended')
      BY <2>1, <2>2, <1>0, <1>3 DEF AllLive
    <2> QED
      BY <2>3
  <1>4. ASSUME NEW n \in Openers, exec(n) \/ run(n) PROVE AllLive(phase, State, cur, ended)'
    <2> DEFINE st1 == process_initialize(State, n)
    <2>1. SetState(st1) /\ phase = "shell" /\ UNCHANGED <<cur, ended>> /\ phase' \in {"shell", "FCFS"}
      BY <1>4 DEF exec, run
    <2>2. StInv(st1, ended)
      BY <1>0, <1>1, InitializeKeeps, ProgramAssumption
    <2>3. /\ Live(st1, cur) = Live(State, cur) \cup (DOMAIN st1.pcb \ DOMAIN pcb)
          /\ DOMAIN pcb \subseteq DOMAIN st1.pcb
      BY <1>0, <1>1, InitializeLive
    <2> HIDE DEF st1
    <2>4. AllLive(phase', st1, cur', ended')
      BY <2>1, <2>3, <1>0, <1>1 DEF AllLive
    <2> QED
      BY <2>1, <2>2, <2>4, SetAllLive DEF StInv
  <1>5. CASE ExecMissing \/ ExecSchedule \/ RunMissing
             \/ \E policy \in {"LRU", "FIFO"} : set_page_policy(policy)
    BY <1>3, <1>5 DEF ExecMissing, ExecSchedule, RunMissing, set_page_policy
  <1>6. CASE scheduler_RR \/ scheduler_FCFS
    <2>1. cur = Idle /\ UNCHANGED <<pcb, ended>> /\ phase \in {"RR", "FCFS"}
      BY <1>6 DEF scheduler_RR, scheduler_FCFS, Scheduler
    <2>2. CASE ready = << >>
      <3>1. UNCHANGED <<ready, cur>>
        BY <1>6, <2>2 DEF scheduler_RR, scheduler_FCFS, Scheduler
      <3>2. State'.pcb = pcb /\ State'.ready = ready
        BY <2>1, <3>1 DEF State
      <3>3. Live(State', cur') = Live(State, cur)
        BY <3>1, <3>2, <1>0 DEF Live
      <3>4. AllLive(phase', State', cur', ended')
        BY <3>1, <3>2, <3>3, <2>1, <1>0 DEF AllLive
      <3> QED
        BY <3>4
    <2>3. CASE ready # << >>
      <3>1. cur'.pid = Head(ready) /\ ready' = Tail(ready) /\ phase' = phase
        BY <1>6, <2>3 DEF scheduler_RR, scheduler_FCFS, Scheduler
      <3>2. State'.pcb = pcb /\ State'.ready = Tail(State.ready) /\ State.ready # << >>
        BY <2>1, <2>3, <3>1, <1>0 DEF State
      <3> DEFINE s == State'
                 d == cur'
      <3>3. s.ready = Tail(State.ready) /\ d.pid = Head(State.ready)
        BY <3>1, <3>2, <1>0
      <3> HIDE DEF s, d
      <3>4. Live(s, d) = Live(State, Idle)
        BY <1>1, <3>2, <3>3, PopLive
      <3>5. AllLive(phase', State', cur', ended')
        BY <3>1, <3>2, <3>4, <2>1, <1>0 DEF AllLive, s, d
      <3> QED
        BY <3>5
    <2> QED
      BY <2>2, <2>3
  <1>7. CASE quit
    <2>1. phase' = "exit"
      BY <1>7 DEF quit
    <2>2. AllLive(phase', State', cur', ended')
      BY <2>1 DEF AllLive
    <2> QED
      BY <2>2
  <1>8. ASSUME cur # Idle, NEW st, st.ready = ready, DOMAIN st.pcb = DOMAIN pcb, State' = st,
               terminate_process, UNCHANGED phase
        PROVE  AllLive(phase, State, cur, ended)'
    <2>1. cur' = Idle /\ ended' = ended \cup {cur.pid}
      BY <1>8 DEF terminate_process
    <2>2. Live(st, Idle) = Live(State, cur) \ {cur.pid}
      BY <1>0, <1>1, <1>8, EndLive
    <2>3. AllLive(phase', State', cur', ended')
      BY <1>0, <1>8, <2>1, <2>2 DEF AllLive
    <2> QED
      BY <2>3
  <1>9. CASE FaultAtEnd
    <2>1. cur # Idle /\ terminate_process /\ UNCHANGED <<phase, pcb, ready>>
      BY <1>9 DEF FaultAtEnd
    <2>2. State'.ready = ready /\ State'.pcb = pcb
      BY <2>1 DEF State
    <2> DEFINE s == State'
    <2>3. s.ready = ready /\ s.pcb = pcb /\ State' = s
      BY <2>2
    <2> HIDE DEF s
    <2> QED
      BY <1>8, <2>1, <2>3
  <1>10. ASSUME cur # Idle, NEW st, StInv(st, ended), st.ready = ready, DOMAIN st.pcb = DOMAIN pcb,
                Requeue(st), UNCHANGED phase
         PROVE  AllLive(phase, State, cur, ended)'
    <2>1. Live(st, cur) = Live(State, cur)
      BY <1>0, <1>10 DEF Live
    <2>2. AllLive(phase, st, cur, ended)
      BY <2>1, <1>0, <1>10 DEF AllLive
    <2> QED
      BY <1>2, <1>10, <2>2, RequeueAllLive
  <1>11. CASE FaultFree
    <2>1. /\ cur # Idle /\ PageFault /\ ~NoMoreLines(Me) /\ FreeSlots(shellmemory) # {}
          /\ Requeue(load_frame(State, cur.pid)) /\ UNCHANGED phase
      BY <1>11 DEF FaultFree
    <2> DEFINE st1 == load_frame(State, cur.pid)
    <2>2. StInv(st1, ended) /\ st1.ready = ready /\ DOMAIN st1.pcb = DOMAIN pcb
      BY <1>0, <1>1, <2>1, LoadFrameKeeps DEF PageFault, Me
    <2> HIDE DEF st1
    <2>3. Requeue(st1)
      BY <2>1 DEF st1
    <2> QED
      BY <1>10, <2>1, <2>2, <2>3
  <1>12. CASE FaultEvict
    <2> DEFINE v == find_replacement_slot(shellmemory)
    <2>1. CASE Removable(shellmemory, v)
      <3>1. /\ cur # Idle /\ PageFault /\ ~NoMoreLines(Me) /\ FreeSlots(shellmemory) = {}
            /\ Requeue(load_frame(remove_frame(State, v), cur.pid)) /\ UNCHANGED phase
        BY <1>12, <2>1 DEF FaultEvict
      <3>2. v \in Frames
        BY <2>1, VictimFacts DEF Removable
      <3> HIDE DEF v
      <3> DEFINE st0 == remove_frame(State, v)
                 st1 == load_frame(st0, cur.pid)
      <3>3. StInv(st0, ended) /\ st0.pcb = pcb /\ st0.ready = ready /\ FreeSlots(st0.mem) # {}
        BY <1>0, <1>1, <3>2, RemoveFrameKeeps
      <3> HIDE DEF st0
      <3>4. StInv(st1, ended) /\ st1.ready = ready /\ DOMAIN st1.pcb = DOMAIN pcb
        BY <1>1, <3>1, <3>3, LoadFrameKeeps DEF PageFault, Me
      <3> HIDE DEF st1
      <3>5. Requeue(st1)
        BY <3>1 DEF st0, st1
      <3> QED
        BY <1>10, <3>1, <3>4, <3>5
    <2>2. CASE ~Removable(shellmemory, v)
      <3>1. phase' = "abort"
        BY <1>12, <2>2 DEF FaultEvict
      <3>2. AllLive(phase', State', cur', ended')
        BY <3>1 DEF AllLive
      <3> QED
        BY <3>2
    <2> QED
      BY <2>1, <2>2
  <1>13. CASE ReadNone
    <2>1. cur # Idle /\ ~PageFault /\ SetState(Touch) /\ terminate_process /\ UNCHANGED phase
      BY <1>13 DEF ReadNone
    <2>2. StInv(Touch, ended \cup {cur.pid}) /\ Touch.ready = ready /\ DOMAIN Touch.pcb = DOMAIN pcb
      BY <2>1, TouchKeeps
    <2>3. State' = Touch
      BY <2>1, <2>2, SetStateKeeps DEF StInv
    <2> QED
      BY <1>8, <2>1, <2>2, <2>3
  <1>14. CASE ReadLine
    <2> DEFINE st == Executed
               e == [cur EXCEPT !.left = @ - 1]
    <2>1. /\ cur # Idle /\ ~PageFault /\ Line # NoLine /\ UNCHANGED phase
          /\ IF cur.left = 1 THEN Requeue(st) ELSE SetState(st) /\ cur' = e /\ UNCHANGED ended
      BY <1>14 DEF ReadLine, Executed, Parsed, Started
    <2>2. StInv(st, ended)
      BY <2>1, ExecutedKeeps
    <2>3. /\ StInv(Reached, ended) /\ DOMAIN Reached.pcb = DOMAIN pcb /\ Reached.ready = ready
          /\ st = IF Word = Plain THEN Reached ELSE process_initialize(Reached, Word)
      BY <2>1, ReachedFacts
    <2>4. e.pid = cur.pid
      BY DEF IInv
    <2> HIDE DEF st, e
    <2>5. Live(Reached, e) = Live(State, cur)
      BY <2>3, <2>4, <1>0 DEF Live
    <2>6. /\ Live(st, e) = Live(State, cur) \cup (DOMAIN st.pcb \ DOMAIN pcb)
          /\ DOMAIN pcb \subseteq DOMAIN st.pcb
      <3>1. CASE Word = Plain
        BY <3>1, <2>3, <2>5
      <3>2. CASE Word # Plain
        BY <3>2, <2>3, <2>5, InitializeLive
      <3> QED
        BY <3>1, <3>2
    <2>7. AllLive(phase, st, e, ended)
      BY <2>1, <2>6, <1>0, <1>1, <1>2 DEF AllLive
    <2>8. CASE cur.left = 1
      BY <2>1, <2>2, <2>4, <2>7, <2>8, <1>2, RequeueAllLive
    <2>9. CASE cur.left # 1
      <3>1. AllLive(phase', st, cur', ended') /\ SetState(st)
        BY <2>1, <2>7, <2>9
      <3> QED
        BY <3>1, <2>2, SetAllLive DEF StInv
    <2> QED
      BY <2>8, <2>9
  <1>15. CASE UNCHANGED vars
    BY <1>3, <1>15 DEF vars
  <1> QED
    BY <1>4, <1>5, <1>6, <1>7, <1>9, <1>11, <1>12, <1>13, <1>14, <1>15 DEF Next, execute_process
-----------------------------------------------------------------------------
\* The invariant of round robin.  At the prompt the policy may be changed, so that
\* the budget is kept for both.

RoundsInv(ph, policy, st, c) ==
    /\ policy \in Policies
    /\ ph \in {"shell", "RR"} =>
         /\ Rounds(st, c)
         /\ c # Idle => c.left \in 1 .. 2
         /\ \A pol \in Policies : ph = "shell" \/ pol = policy => Budget(pol, st, c)

\* The invariant in the form the lemmas about a turn use.
LEMMA MakeReady ==
    ASSUME Filled, IInv, Shape(State), RoundsInv(phase, current_policy, State, cur),
           phase \in {"shell", "RR"}
    PROVE  /\ Ready(State, cur, ended)
           /\ cur # Idle <=> cur.pid # 0
           /\ cur # Idle => cur.left \in 1 .. 2 /\ cur.left # 0
           /\ current_policy \in Policies /\ Budget(current_policy, State, cur)
           /\ phase = "shell" => \A pol \in Policies : Budget(pol, State, cur)
  <1>1. /\ StInv(State, ended) /\ Together(State.mem) /\ cur \in [pid : Nat, left : Int]
        /\ (cur # Idle => cur.pid \in DOMAIN pcb \ ended /\ NotReady(cur.pid, State))
    BY DEF IInv, Shape
  <1>2. State.pcb = pcb /\ PcbInv(State, ended)
    BY <1>1 DEF State, StInv
  <1>3. cur # Idle <=> cur.pid # 0
    BY <1>1, <1>2 DEF PcbInv, Idle
  <1>4. /\ Rounds(State, cur) /\ (cur # Idle => cur.left \in 1 .. 2) /\ current_policy \in Policies
        /\ \A pol \in Policies : phase = "shell" \/ pol = current_policy => Budget(pol, State, cur)
    BY DEF RoundsInv
  <1>5. Ready(State, cur, ended)
    BY <1>1, <1>2, <1>3, <1>4 DEF Ready
  <1> QED
    BY <1>3, <1>4, <1>5

\* Nothing is asked of no process.
LEMMA NoneLive ==
    ASSUME NEW st, NEW c, Live(st, c) = {}
    PROVE  Rounds(st, c) /\ \A pol \in Policies : Budget(pol, st, c)
  <1>1. Cardinality(Used(st.mem)) \in Nat
    <2>1. Used(st.mem) \in SUBSET Frames
      BY DEF Used
    <2> QED
      BY <2>1, FramesFinite
  <1>2. Early(st, c) = {}
    BY DEF Early
  <1>3. Cardinality({}) = 0
    BY FS_EmptySet
  <1> QED
    BY <1>1, <1>2, <1>3 DEF Rounds, Budget

\* The victim is the frame the policy prefers.
LEMMA VictimKey ==
    ASSUME NEW mem, NEW v, v = find_replacement_slot(mem), v # -1, current_policy \in Policies
    PROVE  v \in Frames /\ \A a \in Frames : Key(current_policy, mem[v]) <= Key(current_policy, mem[a])
  <1> DEFINE L == {b \in Frames : /\ mem[b].accessed < HighValue
                                  /\ \A c \in Frames : mem[b].accessed <= mem[c].accessed}
             F == {b \in Frames : /\ mem[b].age < HighValue
                                  /\ \A c \in Frames : mem[b].age <= mem[c].age}
  <1>1. L \in SUBSET Nat /\ F \in SUBSET Nat
    BY FrameFacts
  <1>2. L # {} => Least(L) \in L
    BY <1>1, LeastFacts
  <1>3. F # {} => Least(F) \in F
    BY <1>1, LeastFacts
  <1>4. find_lru_slot(mem) = IF L = {} THEN -1 ELSE Least(L)
    BY DEF find_lru_slot
  <1>5. find_fifo_slot(mem) = IF F = {} THEN -1 ELSE Least(F)
    BY DEF find_fifo_slot
  <1>6. \A b \in L : b \in Frames /\ \A a \in Frames : mem[b].accessed <= mem[a].accessed
    OBVIOUS
  <1>7. \A b \in F : b \in Frames /\ \A a \in Frames : mem[b].age <= mem[a].age
    OBVIOUS
  <1> HIDE DEF L, F
  <1>8. CASE current_policy = "LRU"
    <2>1. v \in L
      BY <1>2, <1>4, <1>8 DEF find_replacement_slot
    <2> QED
      BY <2>1, <1>6, <1>8 DEF Key
  <1>9. CASE current_policy # "LRU"
    <2>1. v \in F
      BY <1>3, <1>5, <1>9 DEF find_replacement_slot
    <2> QED
      BY <2>1, <1>7, <1>9 DEF Key
  <1> QED
    BY <1>8, <1>9

\* Loading a page changes no line that its process has still to execute.
LEMMA LoadSpares ==
    ASSUME NEW pol, NEW st, NEW c, NEW done, NEW b, NEW st2, FaultStep(pol, st, c, done, b, st2),
           NEW p \in Live(st, c), NEW q \in 0 .. FrameStore - 1,
           st.mem[q].line[1] = p, st.mem[q].line[2] > Done(st.pcb[p])
    PROVE  st2.mem[q].line = st.mem[q].line
  <1> DEFINE x == st.pcb[p]
             n == st.mem[q].line[2]
             h == (n - 1) \div 3
  <1>1. Ready(st, c, done) /\ Loading(st, c.pid, b, st2)
    BY DEF FaultStep
  <1>2. Regular(x, Left(c, p)) /\ NoStray(st.mem, p, x)
    BY <1>1, LiveFacts
  <1>3. /\ x.PC \in Nat /\ x.currentLine \in 0 .. 2 /\ x.currentPage \in Nat \ {0}
        /\ x.pageCounter \in Nat \ {0} /\ Done(x) \in Nat
        /\ x.currentPage <= x.pageCounter + 1
    BY <1>2 DEF Regular
  <1>4. n <= 3 * x.pageCounter /\ q = x.PC + n - Done(x) - 1
    BY <1>2 DEF NoStray
  <1>5. n \in Nat /\ n > Done(x)
    <2>1. st.mem[q] \in Cell
      BY <1>1 DEF Ready, StInv, MemInv
    <2> QED
      BY <2>1 DEF Cell
  <1> HIDE DEF n, x
  <1>6. /\ h \in Nat /\ 3 * h <= n - 1 /\ n - 1 <= 3 * h + 2 /\ n - 1 - 3 * h \in 0 .. 2
    BY <1>3, <1>5
  <1> HIDE DEF h
  <1>7. h \in Pending(x)
    <2>1. h < x.pageCounter
      BY <1>3, <1>4, <1>5, <1>6
    <2>2. x.currentPage <= h + 1
      BY <1>3, <1>5, <1>6 DEF Done
    <2> QED
      BY <1>6, <2>1, <2>2 DEF Pending
  <1> DEFINE a == Base(x, h)
             j == n - 1 - 3 * h
  <1>8. a \in Frames /\ a # b
    <2>1. PageAt(st.mem, p, x, h)
      BY <1>1, <1>7, PageFacts DEF x
    <2>2. a # b
      BY <1>7, VictimSpent DEF x
    <2> QED
      BY <2>1, <2>2 DEF PageAt
  <1>9. q = a + j
    BY <1>3, <1>4, <1>5, <1>6 DEF Base, Done
  <1>10. a \in Nat /\ b \in Frames /\ b \in Nat /\ j \in 0 .. 2
    BY <1>1, <1>6, <1>8, FrameFacts DEF Loading
  <1> HIDE DEF a, j
  <1>11. ~(q - b \in 0 .. 2)
    <2> SUFFICES ASSUME q - b \in 0 .. 2 PROVE FALSE
      OBVIOUS
    <2> DEFINE i == q - b
    <2>1. i \in 0 .. 2 /\ b + i = a + j
      BY <1>9, <1>10
    <2> HIDE DEF i
    <2> QED
      BY <2>1, <1>8, <1>10, FrameCells
  <1> QED
    BY <1>1, <1>11 DEF Loading

\* A page fault, with a free frame or with a victim.
LEMMA FreeFault ==
    ASSUME Filled, IInv, Shape(State), Ready(State, cur, ended), cur # Idle, cur.pid # 0, cur.left # 0,
           current_policy \in Policies, Budget(current_policy, State, cur),
           PageFault, ~NoMoreLines(Me), FreeSlots(shellmemory) # {},
           NEW st1, st1 = load_frame(State, cur.pid)
    PROVE  /\ \E b : FaultStep(current_policy, State, cur, ended, b, st1)
           /\ StInv(st1, ended)
  <1>0. State.pcb = pcb /\ State.mem = shellmemory
    BY DEF State
  <1>1. StInv(State, ended) /\ cur.pid \in DOMAIN pcb \ ended /\ PcbInv(State, ended)
    BY DEF IInv, StInv
  <1>2. Me \in PCB /\ Me = State.pcb[cur.pid] /\ Me.currentPage > Me.pageCounter
    BY <1>0, <1>1 DEF PcbInv, Me, PageFault
  <1>3. 3 * Me.pageCounter < Size(Me)
    BY <1>2, LinesLeft
  <1>4. StInv(st1, ended)
    BY <1>0, <1>1, <1>2, LoadFrameKeeps
  <1>5. Shape(st1)
    <2>1. (Filled => Together(State.mem)) /\ (FullPages(State) => WholeMem(State.mem))
      BY DEF Shape
    <2> QED
      BY <1>0, <1>1, <1>2, <2>1, LoadFrameShape
  <1>6. Together(st1.mem)
    BY <1>5 DEF Shape
  <1> DEFINE b == find_available_slot(State.mem)
  <1>7. Loading(State, cur.pid, b, st1)
    BY <1>0, <1>1, <1>2, <1>3, LoadsFrame
  <1>8. b \in FreeSlots(State.mem)
    BY <1>0, SlotFacts
  <1> HIDE DEF b
  <1>9. FaultStep(current_policy, State, cur, ended, b, st1)
    BY <1>2, <1>3, <1>4, <1>6, <1>7, <1>8 DEF FaultStep
  <1> QED
    BY <1>4, <1>9

\* With a victim.
LEMMA EvictFault ==
    ASSUME Filled, IInv, Shape(State), Ready(State, cur, ended), cur # Idle, cur.pid # 0, cur.left # 0,
           current_policy \in Policies, Budget(current_policy, State, cur),
           PageFault, ~NoMoreLines(Me), FreeSlots(shellmemory) = {},
           NEW v, v = find_replacement_slot(shellmemory), Removable(shellmemory, v),
           NEW st1, st1 = load_frame(remove_frame(State, v), cur.pid)
    PROVE  /\ \E b : FaultStep(current_policy, State, cur, ended, b, st1)
           /\ StInv(st1, ended)
  <1>0. State.pcb = pcb /\ State.mem = shellmemory
    BY DEF State
  <1>1. StInv(State, ended) /\ cur.pid \in DOMAIN pcb \ ended /\ PcbInv(State, ended)
    BY DEF IInv, StInv
  <1>2. Me \in PCB /\ Me = State.pcb[cur.pid] /\ Me.currentPage > Me.pageCounter
    BY <1>0, <1>1 DEF PcbInv, Me, PageFault
  <1>3. 3 * Me.pageCounter < Size(Me)
    BY <1>2, LinesLeft
  <1>4. v # -1
    BY DEF Removable
  <1>5. v \in Frames /\ \A a \in Frames :
           Key(current_policy, State.mem[v]) <= Key(current_policy, State.mem[a])
    BY <1>0, <1>4, VictimKey
  <1>6. StInv(st1, ended)
    <2> DEFINE st0 == remove_frame(State, v)
    <2>1. StInv(st0, ended) /\ st0.pcb = pcb /\ FreeSlots(st0.mem) # {}
      BY <1>0, <1>1, <1>5, RemoveFrameKeeps
    <2>2. st1 = load_frame(st0, cur.pid)
      OBVIOUS
    <2> HIDE DEF st0
    <2> QED
      BY <1>0, <1>1, <1>2, <2>1, <2>2, LoadFrameKeeps
  <1>7. Shape(st1)
    BY <1>0, <1>1, <1>2, <1>5, EvictShape
  <1>8. Together(st1.mem)
    BY <1>7 DEF Shape
  <1>9. Loading(State, cur.pid, v, st1)
    BY <1>0, <1>1, <1>2, <1>3, <1>5, EvictLoads
  <1>10. FaultStep(current_policy, State, cur, ended, v, st1)
    BY <1>2, <1>3, <1>5, <1>6, <1>8, <1>9 DEF FaultStep
  <1> QED
    BY <1>6, <1>10

\* What a step of round robin leaves, in the form of the invariant.
LEMMA SetRounds ==
    ASSUME NEW st, IsState(st), SetState(st), RoundsInv(phase', current_policy', st, cur')
    PROVE  RoundsInv(phase, current_policy, State, cur)'
  <1>1. State' = st
    BY SetStateKeeps
  <1>2. RoundsInv(phase', current_policy', State', cur')
    BY <1>1
  <1> QED
    BY <1>2

\* A turn that ends.
LEMMA TurnRounds ==
    ASSUME NEW st, NEW c, Ready(st, c, ended), c.pid = cur.pid, cur.pid # 0, c.left = 0,
           current_policy \in Policies, Budget(current_policy, st, c),
           Requeue(st), phase = "RR", UNCHANGED <<phase, current_policy>>
    PROVE  RoundsInv(phase, current_policy, State, cur)'
  <1> DEFINE st1 == [st EXCEPT !.ready = Append(@, c.pid)]
  <1>1. SetState(st1) /\ cur' = Idle
    BY DEF Requeue
  <1>2. Ready(st1, Idle, ended) /\ Budget(current_policy, st1, Idle)
    BY RequeueRounds
  <1> HIDE DEF st1
  <1>3. IsState(st1) /\ Rounds(st1, Idle)
    BY <1>2 DEF Ready, StInv
  <1>4. RoundsInv(phase', current_policy', st1, cur')
    BY <1>1, <1>2, <1>3 DEF RoundsInv
  <1> QED
    BY <1>1, <1>3, <1>4, SetRounds

\* "none" is met at the end of the script only, and never in the first line of a frame.
LEMMA NoneAtEnd ==
    ASSUME Ready(State, cur, ended), cur.pid # 0, ~PageFault, Line = NoLine
    PROVE  Done(Me) = Size(Me) /\ Me.PC \notin Frames /\ cur.pid \in Live(State, cur)
  <1>0. State.pcb = pcb /\ State.mem = shellmemory
    BY DEF State
  <1>1. /\ Line = IF Done(Me) < Size(Me) THEN <<cur.pid, Done(Me) + 1>> ELSE NoLine
        /\ cur.pid \in Live(State, cur)
        /\ Regular(Me, cur.left) /\ Me.currentPage <= Me.pageCounter
    BY LineAt
  <1>2. Left(cur, cur.pid) = cur.left
    BY DEF Left
  <1>3. Shaped(Me, cur.left) /\ Located(shellmemory, cur.pid, Me)
    BY <1>0, <1>1, <1>2, LiveFacts DEF Me
  <1> DEFINE x == Me
  <1> HIDE DEF x
  <1>4. /\ x.PC \in Nat /\ x.currentLine \in 0 .. 2 /\ x.currentPage \in Nat \ {0}
        /\ x.pageCounter \in Nat \ {0} /\ Size(x) \in Nat /\ Done(x) \in Nat
    BY <1>1 DEF Regular, x
  <1>5. x.currentPage <= x.pageCounter /\ x.PC - x.currentLine \in Frames
    BY <1>1, <1>3 DEF Located, x
  <1>6. Done(x) <= Size(x) /\ 3 * (x.pageCounter - 1) < Size(x)
    BY <1>3 DEF Shaped, x
  <1>7. ~(Done(x) < Size(x))
    <2>1. NoLine # <<cur.pid, Done(x) + 1>>
      BY <1>4 DEF NoLine
    <2> QED
      BY <1>1, <2>1 DEF x
  <1>8. ASSUME x.PC \in Frames PROVE FALSE
    <2>1. x.PC % 3 = 0 /\ (x.PC - x.currentLine) % 3 = 0 /\ x.PC - x.currentLine \in Nat
      BY <1>5, <1>8, FrameFacts
    <2>2. x.currentLine = 0
      BY <2>1, <1>4
    <2> QED
      BY <2>2, <1>4, <1>5, <1>6, <1>7 DEF Done
  <1> QED
    BY <1>1, <1>4, <1>6, <1>7, <1>8 DEF x

\* A process that ends has executed all lines.
LEMMA EndedComplete ==
    ASSUME Filled, IInv, Ready(State, cur, ended), cur # Idle, cur.pid # 0,
           \/ PageFault /\ NoMoreLines(Me)
           \/ ~PageFault /\ Line = NoLine
    PROVE  ran[cur.pid] = [k \in 1 .. Len(pcb[cur.pid].prog.lines) |-> <<cur.pid, k>>]
  <1>0. State.pcb = pcb /\ State.ran = ran
    BY DEF State
  <1>1. cur.pid \in Live(State, cur)
    BY DEF Live
  <1>2. /\ Process(State, cur, cur.pid) /\ Shaped(Me, Left(cur, cur.pid))
        /\ Regular(Me, Left(cur, cur.pid)) /\ Me \in PCB
    BY <1>0, <1>1, LiveFacts DEF Me
  <1>3. ran[cur.pid] = [k \in 1 .. Done(Me) |-> <<cur.pid, k>>]
    BY <1>0, <1>2 DEF Process, Me
  <1>4. Done(Me) = Size(Me)
    <2>1. CASE PageFault /\ NoMoreLines(Me)
      <3>1. ~(3 * Me.pageCounter < Size(Me))
        BY <2>1, <1>2, LinesLeft
      <3> DEFINE x == Me
      <3>2. x.currentPage > x.pageCounter
        BY <2>1 DEF PageFault
      <3> HIDE DEF x
      <3>3. /\ x.currentPage \in Nat \ {0} /\ x.pageCounter \in Nat \ {0} /\ Size(x) \in Nat
            /\ x.currentPage <= x.pageCounter + 1 /\ x.currentLine = 0 /\ Done(x) \in Nat
        BY <3>2, <1>2 DEF Regular, x
      <3>4. Done(x) <= Size(x)
        BY <1>2 DEF Shaped, x
      <3>5. Done(x) = Size(x)
        BY <3>1, <3>2, <3>3, <3>4 DEF Done, x
      <3> QED
        BY <3>5 DEF x
    <2>2. CASE ~PageFault /\ Line = NoLine
      BY <2>2, NoneAtEnd
    <2> QED
      BY <2>1, <2>2
  <1> QED
    BY <1>3, <1>4 DEF Size, Me

\* A process that ends in a state st, its memory the same for the searches.
LEMMA EndKeepsRounds ==
    ASSUME Ready(State, cur, ended), cur.pid # 0, current_policy \in Policies,
           Budget(current_policy, State, cur), phase = "RR", UNCHANGED <<phase, current_policy>>,
           NEW st, State' = st, SameMemory(shellmemory, st.mem), st.ready = ready,
           \A q \in DOMAIN pcb : q # cur.pid => st.pcb[q] = pcb[q] /\ st.ran[q] = ran[q],
           terminate_process
    PROVE  RoundsInv(phase, current_policy, State, cur)'
  <1>0. State.pcb = pcb /\ State.ran = ran /\ State.ready = ready /\ State.mem = shellmemory
    BY DEF State
  <1>1. Kept(State, cur, st, Idle)
    BY <1>0, EndRounds
  <1>2. Rounds(st, Idle) /\ Budget(current_policy, st, Idle)
    BY <1>1 DEF Kept
  <1>3. RoundsInv(phase', current_policy', State', cur')
    BY <1>2 DEF RoundsInv, terminate_process
  <1> QED
    BY <1>3

\* Every step keeps the invariant of round robin.
LEMMA RoundsKept ==
    ASSUME Filled, ShapeInv, AllLive(phase, State, cur, ended),
           RoundsInv(phase, current_policy, State, cur), [Next]_vars
    PROVE  RoundsInv(phase, current_policy, State, cur)'
  <1>0. /\ State.pcb = pcb /\ State.ready = ready /\ State.mem = shellmemory /\ State.ran = ran
    BY DEF State
  <1>1. IInv /\ Shape(State)
    BY DEF ShapeInv
  <1>2. /\ StInv(State, ended) /\ ended \subseteq DOMAIN pcb /\ PcbInv(State, ended) /\ phase \in Phases
        /\ (cur # Idle => cur.pid \in DOMAIN pcb \ ended /\ NotReady(cur.pid, State))
    BY <1>1 DEF IInv, StInv
  <1>3. phase = "shell" => cur = Idle
    BY DEF AllLive
  <1>4. ASSUME phase \in {"shell", "RR"}
        PROVE  /\ Ready(State, cur, ended)
               /\ cur # Idle <=> cur.pid # 0
               /\ cur # Idle => cur.left \in 1 .. 2 /\ cur.left # 0
               /\ current_policy \in Policies /\ Budget(current_policy, State, cur)
               /\ phase = "shell" => \A pol \in Policies : Budget(pol, State, cur)
    BY <1>1, <1>4, MakeReady
  <1>5. current_policy \in Policies
    BY DEF RoundsInv
  <1>6. ASSUME phase' \notin {"shell", "RR"}, current_policy' = current_policy
        PROVE  RoundsInv(phase, current_policy, State, cur)'
    <2>1. RoundsInv(phase', current_policy', State', cur')
      BY <1>5, <1>6 DEF RoundsInv
    <2> QED
      BY <2>1
  <1>7. ASSUME State' = State, cur' = cur, current_policy' = current_policy \/ phase = "shell",
               current_policy' \in Policies, phase' = phase \/ phase = "shell"
        PROVE  RoundsInv(phase, current_policy, State, cur)'
    <2>1. RoundsInv(phase', current_policy', State', cur')
      BY <1>5, <1>7 DEF RoundsInv
    <2> QED
      BY <2>1
  <1>8. ASSUME NEW n \in Openers, exec(n) PROVE RoundsInv(phase, current_policy, State, cur)'
    <2> DEFINE st1 == process_initialize(State, n)
    <2>1. SetState(st1) /\ phase = "shell" /\ UNCHANGED <<cur, current_policy, phase>>
      BY <1>8 DEF exec
    <2>2. n \in DOMAIN Programs /\ StInv(st1, ended) /\ Shape(st1)
      BY <1>0, <1>1, <1>2, InitializeKeeps, InitializeShape, ProgramAssumption
    <2> HIDE DEF st1
    <2>3. Together(st1.mem) /\ st1 = process_initialize(State, n)
      BY <2>2 DEF Shape, st1
    <2>4. NotAtPage(State, cur)
      BY <1>4, <1>3, <2>1 DEF NotAtPage
    <2>5. Ready(st1, cur, ended) /\ \A pol \in Policies : Budget(pol, State, cur) => Budget(pol, st1, cur)
      BY <1>0, <1>2, <1>4, <2>1, <2>2, <2>3, <2>4, InitializeRounds
    <2>6. RoundsInv(phase', current_policy', st1, cur')
      BY <2>1, <2>5, <1>3, <1>4 DEF RoundsInv, Ready
    <2> QED
      BY <2>1, <2>2, <2>6, SetRounds DEF StInv
  <1>9. ASSUME NEW n \in Openers, run(n) PROVE RoundsInv(phase, current_policy, State, cur)'
    <2>1. phase' = "FCFS" /\ current_policy' = current_policy
      BY <1>9 DEF run
    <2> QED
      BY <2>1, <1>6
  <1>10. CASE ExecMissing \/ ExecSchedule \/ RunMissing
    <2>1. /\ State' = State /\ cur' = cur /\ current_policy' = current_policy /\ phase = "shell"
      BY <1>10 DEF ExecMissing, ExecSchedule, RunMissing, State
    <2> QED
      BY <2>1, <1>5, <1>7
  <1>11. CASE \E policy \in {"LRU", "FIFO"} : set_page_policy(policy)
    <2>1. State' = State /\ cur' = cur /\ current_policy' \in Policies /\ phase = "shell"
      BY <1>11 DEF set_page_policy, State, Policies
    <2> QED
      BY <2>1, <1>7
  <1>12. CASE (scheduler_RR \/ scheduler_FCFS) /\ ready = << >>
    <2>1. State' = State /\ cur = Idle /\ cur' = Idle /\ current_policy' = current_policy
      BY <1>12 DEF scheduler_RR, scheduler_FCFS, Scheduler, State
    <2>2. Live(State, Idle) = {}
      BY <1>0, <1>12 DEF Live, Idle
    <2>3. RoundsInv(phase', current_policy', State', cur')
      BY <2>1, <2>2, <1>5, NoneLive DEF RoundsInv
    <2> QED
      BY <2>3
  <1>13. CASE scheduler_RR /\ ready # << >>
    <2>1. /\ phase = "RR" /\ cur = Idle /\ cur' = [pid |-> Head(ready), left |-> 2]
          /\ ready' = Tail(ready)
          /\ UNCHANGED <<phase, current_policy, pcb, shellmemory, ran>>
      BY <1>13 DEF scheduler_RR, Scheduler
    <2> DEFINE s == State'
               d == cur'
    <2>2. s.mem = State.mem /\ s.pcb = State.pcb /\ s.ran = State.ran /\ s.ready = Tail(State.ready)
      BY <2>1 DEF State
    <2>3. d = [pid |-> Head(State.ready), left |-> 2] /\ Ready(State, Idle, ended) /\ State.ready # << >>
      BY <2>1, <1>0, <1>4, <1>13
    <2> HIDE DEF s, d
    <2>4. Kept(State, Idle, s, d)
      BY <2>2, <2>3, PopRounds
    <2>5. Rounds(s, d) /\ Budget(current_policy, s, d)
      BY <2>1, <2>4, <1>4 DEF Kept
    <2>6. d.left \in 1 .. 2
      BY <2>3
    <2>7. RoundsInv(phase', current_policy', State', cur')
      BY <2>1, <2>5, <2>6, <1>5 DEF RoundsInv, s, d
    <2> QED
      BY <2>7
  <1>14. CASE scheduler_FCFS /\ ready # << >>
    <2>1. phase' = "FCFS" /\ current_policy' = current_policy
      BY <1>14 DEF scheduler_FCFS, Scheduler
    <2> QED
      BY <2>1, <1>6
  <1>15. CASE quit
    <2>1. phase' = "exit" /\ current_policy' = current_policy
      BY <1>15 DEF quit
    <2> QED
      BY <2>1, <1>6
  <1>16. CASE execute_process /\ phase # "RR"
    <2>1. cur # Idle /\ current_policy' = current_policy /\ phase' \in {phase, "abort"}
      BY <1>16 DEF execute_process, FaultAtEnd, FaultFree, FaultEvict, ReadNone, ReadLine
    <2>2. phase' \notin {"shell", "RR"}
      BY <1>3, <1>16, <2>1
    <2> QED
      BY <2>1, <2>2, <1>6
  <1>17. CASE FaultAtEnd /\ phase = "RR"
    <2>1. /\ cur # Idle /\ terminate_process /\ State' = State /\ UNCHANGED <<phase, current_policy>>
      BY <1>17 DEF FaultAtEnd, State
    <2>2. SameMemory(shellmemory, State.mem)
      BY <1>0 DEF SameMemory, SameLines
    <2>3. Ready(State, cur, ended) /\ cur.pid # 0 /\ Budget(current_policy, State, cur)
      BY <1>4, <1>17, <2>1
    <2> QED
      BY <2>1, <2>2, <2>3, <1>0, <1>5, <1>17, EndKeepsRounds
  <1>18. CASE FaultFree /\ phase = "RR"
    <2>1. /\ cur # Idle /\ PageFault /\ ~NoMoreLines(Me) /\ FreeSlots(shellmemory) # {}
          /\ Requeue(load_frame(State, cur.pid)) /\ UNCHANGED <<phase, current_policy>>
      BY <1>18 DEF FaultFree
    <2> DEFINE st1 == load_frame(State, cur.pid)
    <2>2. PICK b : FaultStep(current_policy, State, cur, ended, b, st1)
      BY <1>1, <1>4, <1>18, <2>1, FreeFault
    <2> HIDE DEF st1
    <2>3. Ready(st1, After(cur), ended) /\ Budget(current_policy, st1, After(cur)) /\ Requeue(st1)
      BY <2>1, <2>2, LoadRounds DEF st1
    <2>4. After(cur).pid = cur.pid /\ After(cur).left = 0 /\ cur.pid # 0
      BY <1>4, <1>18, <2>1 DEF After
    <2> QED
      BY <2>1, <2>3, <2>4, <1>5, <1>18, TurnRounds
  <1>19. CASE FaultEvict /\ phase = "RR"
    <2> DEFINE v == find_replacement_slot(shellmemory)
    <2>1. CASE Removable(shellmemory, v)
      <3>1. /\ cur # Idle /\ PageFault /\ ~NoMoreLines(Me) /\ FreeSlots(shellmemory) = {}
            /\ Requeue(load_frame(remove_frame(State, v), cur.pid)) /\ UNCHANGED <<phase, current_policy>>
        BY <1>19, <2>1 DEF FaultEvict
      <3> DEFINE st1 == load_frame(remove_frame(State, v), cur.pid)
      <3>2. PICK b : FaultStep(current_policy, State, cur, ended, b, st1)
        BY <1>1, <1>4, <1>19, <2>1, <3>1, EvictFault
      <3> HIDE DEF v, st1
      <3>3. Ready(st1, After(cur), ended) /\ Budget(current_policy, st1, After(cur)) /\ Requeue(st1)
        BY <3>1, <3>2, LoadRounds DEF st1
      <3>4. After(cur).pid = cur.pid /\ After(cur).left = 0 /\ cur.pid # 0
        BY <1>4, <1>19, <3>1 DEF After
      <3> QED
        BY <3>1, <3>3, <3>4, <1>5, <1>19, TurnRounds
    <2>2. CASE ~Removable(shellmemory, v)
      <3>1. phase' = "abort" /\ current_policy' = current_policy
        BY <1>19, <2>2 DEF FaultEvict
      <3> QED
        BY <3>1, <1>6
    <2> QED
      BY <2>1, <2>2
  <1>20. CASE ReadNone /\ phase = "RR"
    <2>1. /\ cur # Idle /\ ~PageFault /\ Line = NoLine /\ SetState(Touch) /\ terminate_process
          /\ UNCHANGED <<phase, current_policy>>
      BY <1>20 DEF ReadNone
    <2>2. /\ StInv(Touch, ended \cup {cur.pid}) /\ Touch.ready = ready /\ Touch.ran = ran
          /\ Touch.pcb = [pcb EXCEPT ![cur.pid] = [pcb[cur.pid] EXCEPT !.PC = pcb[cur.pid].PC + 1]]
      BY <1>1, <2>1, TouchKeeps
    <2>3. State' = Touch
      BY <2>1, <2>2, SetStateKeeps DEF StInv
    <2>4. Ready(State, cur, ended) /\ cur.pid # 0 /\ Budget(current_policy, State, cur)
      BY <1>4, <1>20, <2>1
    <2>5. TouchedAt(shellmemory, Me.PC, Touch.mem) /\ Me.PC \notin Frames
      BY <1>1, <2>1, <2>4, TouchCells, NoneAtEnd
    <2>6. SameMemory(shellmemory, Touch.mem)
      <3>1. \A b \in Frames : b \in 0 .. FrameStore - 1 /\ b # Me.PC
        BY <2>5, FrameFacts, FrameAssumption
      <3> QED
        BY <3>1, <2>5 DEF TouchedAt, SameMemory, SameLines
    <2>7. \A q \in DOMAIN pcb : q # cur.pid => Touch.pcb[q] = pcb[q] /\ Touch.ran[q] = ran[q]
      BY <2>2
    <2> QED
      BY <2>1, <2>2, <2>3, <2>4, <2>6, <2>7, <1>5, <1>20, EndKeepsRounds
  <1>21. CASE ReadLine /\ phase = "RR"
    <2> DEFINE st == Executed
               e == Spend(cur)
    <2>0. cur = [pid |-> cur.pid, left |-> cur.left] /\ cur.left \in Int
      BY <1>1 DEF IInv
    <2>1. /\ cur # Idle /\ ~PageFault /\ Line # NoLine /\ UNCHANGED <<phase, current_policy>>
          /\ IF cur.left = 1 THEN Requeue(st) ELSE SetState(st) /\ cur' = [cur EXCEPT !.left = @ - 1]
      BY <1>21 DEF ReadLine, Executed, Parsed, Started
    <2>2. [cur EXCEPT !.left = @ - 1] = e /\ e.pid = cur.pid /\ e.left = cur.left - 1
      BY <2>0 DEF Spend
    <2>3. Ready(State, cur, ended) /\ cur.pid # 0 /\ cur.left \in 1 .. 2 /\ cur.left # 0
          /\ Budget(current_policy, State, cur)
      BY <1>4, <1>21, <2>1
    <2>4. Ready(st, e, ended) /\ Budget(current_policy, st, e)
      BY <1>1, <1>5, <2>1, <2>3, LineRounds
    <2> HIDE DEF st, e
    <2>5. CASE cur.left = 1
      <3>1. e.left = 0 /\ Requeue(st)
        BY <2>1, <2>2, <2>5
      <3> QED
        BY <3>1, <2>1, <2>2, <2>3, <2>4, <1>5, <1>21, TurnRounds
    <2>6. CASE cur.left # 1
      <3>1. SetState(st) /\ cur' = e /\ e.left \in 1 .. 2
        BY <2>1, <2>2, <2>3, <2>6
      <3>2. IsState(st) /\ Rounds(st, e)
        BY <2>4 DEF Ready, StInv
      <3>3. RoundsInv(phase', current_policy', st, cur')
        BY <3>1, <3>2, <2>1, <2>4, <1>5, <1>21 DEF RoundsInv
      <3> QED
        BY <3>1, <3>2, <3>3, SetRounds
    <2> QED
      BY <2>5, <2>6
  <1>22. CASE UNCHANGED vars
    <2>1. State' = State /\ UNCHANGED <<cur, current_policy, phase>>
      BY <1>22 DEF vars, State
    <2> QED
      BY <2>1, <1>5, <1>7
  <1> QED
    BY <1>8, <1>9, <1>10, <1>11, <1>12, <1>13, <1>14, <1>15, <1>16, <1>17, <1>18, <1>19, <1>20, <1>21, <1>22
       DEF Next, execute_process

\* The invariant of round robin, of the variables.
RInv == /\ AllLive(phase, State, cur, ended)
        /\ RoundsInv(phase, current_policy, State, cur)

\* No process is live at the start.
LEMMA InitRounds == Init => RInv
  <1> SUFFICES ASSUME Init PROVE RInv
    OBVIOUS
  <1>1. /\ State.ready = << >> /\ State.pcb = << >> /\ cur = Idle /\ ended = {}
        /\ phase = "shell" /\ current_policy = "LRU"
    BY DEF Init, State
  <1>2. Live(State, cur) = {}
    BY <1>1 DEF Live, Idle
  <1>3. Rounds(State, cur) /\ \A pol \in Policies : Budget(pol, State, cur)
    BY <1>2, NoneLive
  <1>4. DOMAIN State.pcb \ ended = {}
    BY <1>1
  <1> QED
    BY <1>1, <1>2, <1>3, <1>4 DEF RInv, AllLive, RoundsInv, Policies

\* In every reachable state every page that is needed has as many older frames as
\* pages may be renewed before it is touched again.
LEMMA RoundsHold ==
    ASSUME Filled
    PROVE  Spec => [](ShapeInv /\ RInv)
  <1>1. RInv /\ ShapeInv /\ [Next]_vars => RInv'
    <2> SUFFICES ASSUME RInv, ShapeInv, [Next]_vars PROVE RInv'
      OBVIOUS
    <2>1. AllLive(phase, State, cur, ended)'
      BY AllLiveKept DEF RInv, ShapeInv
    <2>2. RoundsInv(phase, current_policy, State, cur)'
      BY RoundsKept DEF RInv
    <2> QED
      BY <2>1, <2>2 DEF RInv
  <1> QED
    BY <1>1, ShapeHolds, InitRounds, PTL DEF Spec

\* For every frame store and every set of scripts, none of them empty or ending in a
\* newline: under round robin terminate_process is called for a process only after
\* all lines of its script were executed, its own and in order, under either policy,
\* with any number of processes and with scripts that start scripts.
THEOREM RunsToTheEnd ==
    ASSUME Filled
    PROVE  Spec => EndsComplete
  <1> DEFINE Whole == \A p \in ended' \ ended :
                         ran[p] = [k \in 1 .. Len(pcb[p].prog.lines) |-> <<p, k>>]
  <1>1. ASSUME ShapeInv, RInv, [Next]_vars, phase = "RR" PROVE Whole
    <2>1. IInv /\ Shape(State) /\ RoundsInv(phase, current_policy, State, cur)
      BY <1>1 DEF ShapeInv, RInv
    <2>2. Ready(State, cur, ended) /\ (cur # Idle <=> cur.pid # 0)
      BY <1>1, <2>1, MakeReady
    <2>3. CASE FaultAtEnd
      <3>1. cur # Idle /\ PageFault /\ NoMoreLines(Me) /\ ended' = ended \cup {cur.pid}
        BY <2>3 DEF FaultAtEnd, terminate_process
      <3>2. ran[cur.pid] = [k \in 1 .. Len(pcb[cur.pid].prog.lines) |-> <<cur.pid, k>>]
        BY <3>1, <2>1, <2>2, EndedComplete
      <3> QED
        BY <3>1, <3>2
    <2>4. CASE ReadNone
      <3>1. cur # Idle /\ ~PageFault /\ Line = NoLine /\ ended' = ended \cup {cur.pid}
        BY <2>4 DEF ReadNone, terminate_process
      <3>2. ran[cur.pid] = [k \in 1 .. Len(pcb[cur.pid].prog.lines) |-> <<cur.pid, k>>]
        BY <3>1, <2>1, <2>2, EndedComplete
      <3> QED
        BY <3>1, <3>2
    <2>5. CASE ~FaultAtEnd /\ ~ReadNone
      <3>1. ended' = ended
        BY <1>1, <2>5 DEF Next, exec, run, ExecMissing, ExecSchedule, RunMissing, set_page_policy,
           scheduler_RR, scheduler_FCFS, Scheduler, quit, execute_process, FaultFree, FaultEvict,
           ReadLine, Requeue, vars
      <3> QED
        BY <3>1
    <2> QED
      BY <2>3, <2>4, <2>5
  <1>2. ShapeInv /\ RInv /\ [Next]_vars => [phase = "RR" => Whole]_vars
    BY <1>1
  <1> QED
    BY <1>2, RoundsHold, PTL DEF Spec, EndsComplete

\* For every frame store and every set of scripts, none of them empty or ending in a
\* newline: under round robin no admission, no page loaded into a free frame and no
\* eviction overwrites or frees a line that its process has still to execute, although
\* remove_frame never asks whom a frame belongs to.
THEOREM SparesPending ==
    ASSUME Filled
    PROVE  Spec => EvictsNothingPending
  <1> DEFINE Spared == \A q \in DOMAIN shellmemory : \A p \in DOMAIN pcb \ ended' :
                         /\ shellmemory[q].line[1] = p
                         /\ shellmemory[q].line[2] > Len(ran'[p])
                         => shellmemory'[q].line = shellmemory[q].line
  <1>1. ASSUME ShapeInv, RInv, [Next]_vars, phase = "RR" PROVE Spared
    <2>0. /\ State.pcb = pcb /\ State.mem = shellmemory /\ State.ran = ran
      BY DEF State
    <2>1. /\ IInv /\ Shape(State) /\ RoundsInv(phase, current_policy, State, cur)
          /\ AllLive(phase, State, cur, ended)
      BY <1>1 DEF ShapeInv, RInv
    <2>2. /\ Ready(State, cur, ended) /\ (cur # Idle <=> cur.pid # 0)
          /\ cur # Idle => cur.left \in 1 .. 2 /\ cur.left # 0
          /\ current_policy \in Policies /\ Budget(current_policy, State, cur)
      BY <1>1, <2>1, MakeReady
    <2>3. Live(State, cur) = DOMAIN pcb \ ended
      BY <1>1, <2>0, <2>1 DEF AllLive
    <2>4. /\ DOMAIN shellmemory = 0 .. FrameStore - 1
          /\ shellmemory \in [0 .. FrameStore - 1 -> Cell] /\ 0 \notin DOMAIN pcb
      BY <2>0, <2>1 DEF IInv, StInv, MemInv, PcbInv
    <2>5. ASSUME shellmemory' = shellmemory PROVE Spared
      BY <2>5
    <2>6. ASSUME NEW b, NEW st1, FaultStep(current_policy, State, cur, ended, b, st1),
                 StInv(st1, ended), Requeue(st1)
          PROVE  Spared
      <3> DEFINE st2 == [st1 EXCEPT !.ready = Append(@, cur.pid)]
      <3>1. SetState(st2) /\ ended' = ended
        BY <2>6 DEF Requeue
      <3>2. IsState(st2) /\ st2.mem = st1.mem /\ st2.ran = st1.ran
        BY <2>6 DEF StInv, IsState
      <3> HIDE DEF st2
      <3>3. shellmemory' = st1.mem /\ ran' = st1.ran
        BY <3>1, <3>2 DEF SetState
      <3>4. st1.ran = ran
        BY <2>0, <2>6 DEF FaultStep, Loading
      <3> SUFFICES ASSUME NEW q \in DOMAIN shellmemory, NEW p \in DOMAIN pcb \ ended',
                          shellmemory[q].line[1] = p, shellmemory[q].line[2] > Len(ran'[p])
                   PROVE  shellmemory'[q].line = shellmemory[q].line
        OBVIOUS
      <3>5. p \in Live(State, cur)
        BY <2>3, <3>1
      <3>6. Len(ran[p]) = Done(pcb[p])
        <4>1. Process(State, cur, p) /\ Regular(State.pcb[p], Left(cur, p))
          BY <2>2, <3>5, LiveFacts
        <4>2. ran[p] = [k \in 1 .. Done(pcb[p]) |-> <<p, k>>] /\ Done(pcb[p]) \in Nat
          BY <4>1, <2>0 DEF Process, Regular
        <4> QED
          BY <4>2
      <3>7. st1.mem[q].line = State.mem[q].line
        <4>1. shellmemory[q].line[2] > Done(pcb[p])
          BY <3>3, <3>4, <3>6
        <4>2. /\ q \in 0 .. FrameStore - 1 /\ State.mem[q].line[1] = p
              /\ State.mem[q].line[2] > Done(State.pcb[p])
          BY <4>1, <2>0, <2>4
        <4> HIDE DEF Spared
        <4> QED
          BY <4>2, <2>6, <3>5, LoadSpares
      <3> QED
        BY <3>7, <3>3, <2>0
    <2>7. CASE FaultFree
      <3>1. /\ cur # Idle /\ PageFault /\ ~NoMoreLines(Me) /\ FreeSlots(shellmemory) # {}
            /\ Requeue(load_frame(State, cur.pid))
        BY <2>7 DEF FaultFree
      <3> DEFINE st1 == load_frame(State, cur.pid)
      <3>2. (\E b : FaultStep(current_policy, State, cur, ended, b, st1)) /\ StInv(st1, ended)
        BY <1>1, <2>1, <2>2, <3>1, FreeFault
      <3>3. Requeue(st1)
        BY <3>1
      <3> HIDE DEF st1, Spared
      <3> QED
        BY <3>2, <3>3, <2>6
    <2>8. CASE FaultEvict
      <3> DEFINE v == find_replacement_slot(shellmemory)
      <3>1. CASE Removable(shellmemory, v)
        <4>1. /\ cur # Idle /\ PageFault /\ ~NoMoreLines(Me) /\ FreeSlots(shellmemory) = {}
              /\ Requeue(load_frame(remove_frame(State, v), cur.pid))
          BY <2>8, <3>1 DEF FaultEvict
        <4> DEFINE st1 == load_frame(remove_frame(State, v), cur.pid)
        <4>2. (\E b : FaultStep(current_policy, State, cur, ended, b, st1)) /\ StInv(st1, ended)
          BY <1>1, <2>1, <2>2, <3>1, <4>1, EvictFault
        <4>3. Requeue(st1)
          BY <4>1
        <4> HIDE DEF st1, Spared
        <4> QED
          BY <4>2, <4>3, <2>6
      <3>2. CASE ~Removable(shellmemory, v)
        BY <2>5, <2>8, <3>2 DEF FaultEvict
      <3> QED
        BY <3>1, <3>2
    <2>9. CASE ReadNone
      <3>1. cur # Idle /\ ~PageFault /\ SetState(Touch)
        BY <2>9 DEF ReadNone
      <3>2. TouchedAt(shellmemory, Me.PC, Touch.mem) /\ shellmemory' = Touch.mem
        BY <2>1, <3>1, TouchCells DEF SetState
      <3> QED
        BY <3>2, <2>4 DEF TouchedAt
    <2>10. CASE ReadLine
      <3>1. /\ cur # Idle /\ ~PageFault /\ Line # NoLine
            /\ SetState(Executed) \/ Requeue(Executed)
        BY <2>10 DEF ReadLine, Executed, Parsed, Started
      <3>2. StInv(Executed, ended)
        BY <2>1, <3>1, ExecutedKeeps
      <3>3. shellmemory' = Executed.mem
        <4>1. CASE SetState(Executed)
          BY <4>1 DEF SetState
        <4>2. CASE Requeue(Executed)
          <5> DEFINE st == Executed
                     st2 == [st EXCEPT !.ready = Append(@, cur.pid)]
          <5> HIDE DEF st
          <5>1. SetState(st2)
            BY <4>2 DEF Requeue, st
          <5>2. st2.mem = st.mem
            BY <3>2 DEF StInv, IsState, st
          <5> HIDE DEF st2
          <5> QED
            BY <5>1, <5>2 DEF SetState, st
        <4> QED
          BY <3>1, <4>1, <4>2
      <3>4. \A q \in 0 .. FrameStore - 1 :
              shellmemory[q].line # NoLine => Executed.mem[q].line = shellmemory[q].line
        BY <1>1, <2>1, <2>2, <3>1, LineRounds
      <3>5. NoLine[1] = 0
        BY DEF NoLine
      <3> QED
        BY <2>4, <3>3, <3>4, <3>5
    <2>11. CASE ~(FaultFree \/ FaultEvict \/ ReadNone \/ ReadLine)
      <3>1. shellmemory' = shellmemory
        BY <1>1, <2>11 DEF Next, exec, run, ExecMissing, ExecSchedule, RunMissing, set_page_policy,
           scheduler_RR, scheduler_FCFS, Scheduler, quit, execute_process, FaultAtEnd, vars
      <3> QED
        BY <3>1, <2>5
    <2> HIDE DEF Spared
    <2> QED
      BY <2>7, <2>8, <2>9, <2>10, <2>11
  <1>2. ShapeInv /\ RInv /\ [Next]_vars => [phase = "RR" => Spared]_vars
    BY <1>1
  <1> QED
    BY <1>2, RoundsHold, PTL DEF Spec, EvictsNothingPending
=============================================================================
