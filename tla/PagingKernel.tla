---------------------------- MODULE PagingKernel ----------------------------
(***************************************************************************)
(* The process kernel of the a3 shell: demand paging of scripts into the   *)
(* frame store and round-robin scheduling (src/a3/kernel.c, pcb.c, cpu.c,  *)
(* shellmemory.c, linked_list.c, and run/exec of interpreter.c).           *)
(*                                                                         *)
(* The shell is one thread.  A run or exec command admits one to three     *)
(* scripts (new_proc), then run_proc_RR serves the ready queue, two lines  *)
(* a turn, until it is done.  One action is one admission, one pop of the  *)
(* ready queue, one call of run_proc, or the release of all processes.     *)
(*                                                                         *)
(* A script is the kinds of its lines and whether the last one ends in a   *)
(* newline; executing a line has no effect on the kernel but its return    *)
(* code, which is 1 for lines of kind "one" (rm that succeeds, read of the *)
(* full size, errors numbered FILE_DOES_NOT_EXIST), and that a line of     *)
(* kind "set" sets a variable.  Scripts that contain run, exec or quit are *)
(* outside this model.                                                     *)
(***************************************************************************)
EXTENDS Integers, Sequences, FiniteSets

CONSTANTS FrameStore,   \* FRAME_STORE_SIZE, in lines
          VarStore,     \* VAR_STORE_SIZE
          VarNames,     \* names of shell variables, negative numbers
          VarValues,    \* their values
          Scripts,      \* the scripts a command may name
          MaxPid        \* bound on PID_counter

ASSUME StoreAssumption == FrameStore \in Nat /\ VarStore \in Nat
ASSUME PidAssumption == MaxPid \in Nat
ASSUME VarAssumption == VarNames \subseteq {-3, -2, -1} /\ VarValues \subseteq Nat \ {0}
ASSUME ScriptAssumption ==
    \A s \in Scripts : /\ s.lines \in Seq({"cmd", "one", "blank", "set"})
                       /\ s.nl \in BOOLEAN

VARIABLES phase,        \* what the shell is doing, see Phases
          PID_counter,
          pcb,          \* the PCBs of ALL_PCB, by pid
          QUEUE,        \* ready queue of pids
          LRU_CACHE,    \* resident pages <<pid, page>>, most recent first
          shellmemory,  \* var (owner) and value of each position
          cur,          \* the process taken from the queue and its turn
          ran           \* for each pid, the lines it has executed, in order

vars == <<phase, PID_counter, pcb, QUEUE, LRU_CACHE, shellmemory, cur, ran>>

\* "undefined" is where the C code reads or writes outside its structures.
Phases == {"prompt", "admit", "rr", "exit", "undefined"}

Memory == 0 .. FrameStore + VarStore - 1
VarZone == FrameStore .. FrameStore + VarStore - 1
None == 0                    \* the var of a free position
NoLine == <<0, 0>>           \* the value of a position with no line; <<0, x>>: of a variable
Idle == [pid |-> 0, left |-> 0, requeue |-> FALSE]
Unloaded == 1000             \* index of a page that was never loaded
MaxScripts == 3              \* exec takes at most three scripts

-----------------------------------------------------------------------------
\* Scripts and page tables.

\* Mutant: counts the unterminated last line twice.
MutCountExtra(s) ==
    2 + Cardinality({k \in 1 .. Len(s.lines) : /\ s.lines[k] # "blank"
                                               /\ k < Len(s.lines) \/ s.nl})

\* Newline characters that follow a non-blank line, plus one.
count_lines(s) ==
    1 + Cardinality({k \in 1 .. Len(s.lines) : /\ s.lines[k] # "blank"
                                               /\ k < Len(s.lines) \/ s.nl})

\* Mutant: forgets that lines may fill the last page.
MutExtraPage(n) == n \div 3 + 1

PAGE_table_size(n) == (n + 2) \div 3

\* A script whose lines are there for all that count_lines counts, and return no 1.
Regular(s) == /\ count_lines(s) <= Len(s.lines)
              /\ \A k \in 1 .. Len(s.lines) : s.lines[k] # "one"

Pages(p) == DOMAIN pcb[p].program_counter

\* The page the program counters point into.
CurrentPage(p) ==
    CHOOSE i \in Pages(p) : /\ pcb[p].program_counter[i] # 3
                            /\ \A h \in Pages(p) : h < i => pcb[p].program_counter[h] = 3

PCB_done(p) == \A i \in Pages(p) : pcb[p].program_counter[i] = 3

queue_done == \A k \in 1 .. Len(QUEUE) : PCB_done(QUEUE[k])

-----------------------------------------------------------------------------
\* Memory and pages.  The operators below take and return the pair of memory
\* and PCBs, because run_proc updates it several times.

\* First positions of three free lines in a row inside the frame store.
FreeFrames(m) == {b \in 0 .. FrameStore - 3 : \A j \in 0 .. 2 : m[b + j].var = None}

\* frame_alloc takes the lowest of them.
frame_alloc(m) == CHOOSE b \in FreeFrames(m) : \A c \in FreeFrames(m) : b <= c

mem_free(m, P) == [q \in Memory |-> IF q \in P THEN [var |-> None, value |-> NoLine] ELSE m[q]]

\* The position of v, else the first free one, else nothing happens.
mem_set_value(m, v, x) ==
    LET old == {q \in VarZone : m[q].var = v}
        free == {q \in VarZone : m[q].var = None}
        First(S) == CHOOSE q \in S : \A r \in S : q <= r
    IN  CASE old # {} -> [m EXCEPT ![First(old)].value = <<0, x>>]
          [] old = {} /\ free # {} -> [m EXCEPT ![First(free)] = [var |-> v, value |-> <<0, x>>]]
          [] OTHER -> m

\* load_PAGE: a frame is allocated and the NEXT lines of the file, if any, are
\* read into it; the file is never repositioned.
load_PAGE(st, p, i) ==
    LET b == frame_alloc(st.mem)
        pos == st.pcb[p].source_file
        read == {j \in 0 .. 2 : pos + j < Len(st.pcb[p].script.lines)}
    IN  [mem |-> [q \in Memory |->
                    IF q - b \in 0 .. 2
                    THEN [var |-> p, value |-> IF q - b \in read THEN <<p, pos + (q - b) + 1>>
                                               ELSE st.mem[q].value]
                    ELSE st.mem[q]],
         pcb |-> [st.pcb EXCEPT ![p].index[i] = [j \in 0 .. 2 |-> b + j],
                                ![p].valid_bit[i] = [j \in 0 .. 2 |-> j \in read],
                                ![p].source_file = pos + Cardinality(read)]]

PAGE_evict(st, q, i) ==
    [mem |-> mem_free(st.mem, {st.pcb[q].index[i][j] : j \in 0 .. 2}),
     pcb |-> [st.pcb EXCEPT ![q].index[i] = [j \in 0 .. 2 |-> 0],
                            ![q].valid_bit[i] = [j \in 0 .. 2 |-> FALSE]]]

-----------------------------------------------------------------------------
Init == /\ phase = "prompt"
        /\ PID_counter = 1
        /\ pcb = << >>
        /\ QUEUE = << >>
        /\ LRU_CACHE = << >>
        /\ shellmemory = [q \in Memory |-> [var |-> None, value |-> NoLine]]
        /\ cur = Idle
        /\ ran = << >>

\* set and resetmem at the prompt.
set(v, x) == /\ phase = "prompt"
             /\ shellmemory' = mem_set_value(shellmemory, v, x)
             /\ UNCHANGED <<phase, PID_counter, pcb, QUEUE, LRU_CACHE, cur, ran>>

resetmem == /\ phase = "prompt"
            /\ shellmemory' = mem_free(shellmemory, VarZone)
            /\ UNCHANGED <<phase, PID_counter, pcb, QUEUE, LRU_CACHE, cur, ran>>

\* The PCB before any page is loaded.
NewPCB(s) ==
    LET P == 0 .. PAGE_table_size(count_lines(s)) - 1
    IN  [script |-> s, size |-> count_lines(s), source_file |-> 0,
         program_counter |-> [i \in P |-> 0],
         index |-> [i \in P |-> [j \in 0 .. 2 |-> Unloaded]],
         valid_bit |-> [i \in P |-> [j \in 0 .. 2 |-> FALSE]]]

\* The first one or two pages are loaded at once, if there are frames for them.
PCB_init(s) ==
    LET p == PID_counter
        st0 == [mem |-> shellmemory, pcb |-> [q \in DOMAIN pcb \cup {p} |->
                                                IF q = p THEN NewPCB(s) ELSE pcb[q]]]
        two == PAGE_table_size(count_lines(s)) >= 2
        st1 == load_PAGE(st0, p, 0)
        fits == FreeFrames(st0.mem) # {} /\ (two => FreeFrames(st1.mem) # {})
        st2 == IF two THEN load_PAGE(st1, p, 1) ELSE st1
    IN  [fits |-> fits, two |-> two, st |-> IF fits THEN st2 ELSE st0]

\* The shell exits when the new process does not fit.
new_proc(s) ==
    LET p == PID_counter
        new == PCB_init(s)
    IN  /\ phase \in {"prompt", "admit"}
        /\ Cardinality(DOMAIN pcb) < MaxScripts
        /\ PID_counter <= MaxPid
        /\ PID_counter' = PID_counter + 1
        /\ \/ /\ new.fits
              /\ phase' = "admit"
              /\ shellmemory' = new.st.mem
              /\ pcb' = new.st.pcb
              /\ QUEUE' = Append(QUEUE, p)
              /\ LRU_CACHE' = (IF new.two THEN << <<p, 1>> >> ELSE << >>)
                                 \o << <<p, 0>> >> \o LRU_CACHE
              /\ ran' = [q \in DOMAIN new.st.pcb |-> IF q = p THEN << >> ELSE ran[q]]
              /\ UNCHANGED cur
           \/ /\ ~new.fits
              /\ phase' = "exit"
              /\ UNCHANGED <<pcb, QUEUE, LRU_CACHE, shellmemory, cur, ran>>

\* A script that cannot be opened ends the shell.
FileNotFound == /\ phase \in {"prompt", "admit"}
                /\ Cardinality(DOMAIN pcb) < MaxScripts
                /\ phase' = "exit"
                /\ UNCHANGED <<PID_counter, pcb, QUEUE, LRU_CACHE, shellmemory, cur, ran>>

\* run and exec go on to run_proc_RR.
StartRR == /\ phase = "admit"
           /\ phase' = "rr"
           /\ UNCHANGED <<PID_counter, pcb, QUEUE, LRU_CACHE, shellmemory, cur, ran>>

-----------------------------------------------------------------------------
\* Mutant: a process with one line left is taken for finished.
MutDropLast ==
    /\ phase = "rr" /\ cur = Idle /\ ~queue_done
    /\ cur' = IF pcb[Head(QUEUE)].size > 1
              THEN [pid |-> Head(QUEUE), left |-> 2, requeue |-> TRUE] ELSE Idle
    /\ QUEUE' = Tail(QUEUE)
    /\ UNCHANGED <<phase, PID_counter, pcb, LRU_CACHE, shellmemory, ran>>

\* One turn of the scheduler: two lines, then the tail of the queue; or the
\* last line; or, with no line left, out of the queue.
TakeTurn ==
    /\ phase = "rr" /\ cur = Idle /\ ~queue_done
    /\ LET p == Head(QUEUE)
       IN  cur' = CASE pcb[p].size > 1 -> [pid |-> p, left |-> 2, requeue |-> TRUE]
                    [] pcb[p].size = 1 -> [pid |-> p, left |-> 1, requeue |-> FALSE]
                    [] OTHER           -> Idle
    /\ QUEUE' = Tail(QUEUE)
    /\ UNCHANGED <<phase, PID_counter, pcb, LRU_CACHE, shellmemory, ran>>

\* Where cpu_run looks for the next line of the current process.
Fetch == LET p == cur.pid
             i == CurrentPage(p)
             c == pcb[p].program_counter[i]
         IN  [page |-> i, valid |-> pcb[p].valid_bit[i][c],
              line |-> IF pcb[p].valid_bit[i][c]
                       THEN shellmemory[pcb[p].index[i][c]].value ELSE NoLine]

\* The code parseInput returns, as far as run_proc tells codes apart.
ReturnsOne(line) == line # NoLine /\ pcb[line[1]].script.lines[line[2]] = "one"

\* cpu_run: a valid line is executed, whatever it returns.
cpu_run(f) == IF f.valid
              THEN [pcb EXCEPT ![cur.pid].program_counter[f.page] = @ + 1,
                               ![cur.pid].size = @ - 1]
              ELSE pcb

Executed(f) == IF f.valid THEN [ran EXCEPT ![cur.pid] = Append(@, f.line)] ELSE ran

\* Memory after the line: a line of kind "set" sets some variable.
MemoryAfter(f) ==
    IF f.line # NoLine /\ pcb[f.line[1]].script.lines[f.line[2]] = "set"
    THEN {mem_set_value(shellmemory, v, x) : v \in VarNames, x \in VarValues} ELSE {shellmemory}

\* Mutant: the wrong end of the list, behind the page just used.
MutWrongEnd == 2

\* The place in the LRU list of the page that is evicted when no frame is free.
VictimAt == Len(LRU_CACHE)

\* The LRU list without its k-th node.
Without(k) == SubSeq(LRU_CACHE, 1, k - 1) \o SubSeq(LRU_CACHE, k + 1, Len(LRU_CACHE))

NoFrame == FreeFrames(shellmemory) = {}

\* The positions of a page: its frame, zeros once it was evicted, and a number
\* beyond shellmemory before it is loaded.
FrameOf(g) == {pcb[g[1]].index[g[2]][j] : j \in 0 .. 2}

\* run_proc when cpu_run returned 1, taken for a page fault: the page is
\* loaded, in place of the least recently used one if no frame is free, and the
\* process goes to the tail of the ready queue.  The second attempt to load is
\* not looked at: when the victim was an older node of a page evicted already,
\* no frame is free and a page that has none enters the LRU list.  If that page
\* was never loaded, its own eviction reads and frees outside shellmemory.
HandleFault(f) ==
    LET st1 == [mem |-> shellmemory, pcb |-> cpu_run(f)]
    IN  /\ ~f.valid \/ ReturnsOne(f.line)
        /\ NoFrame => LRU_CACHE # << >>
        /\ \E st2 \in {IF NoFrame THEN PAGE_evict(st1, LRU_CACHE[VictimAt][1], LRU_CACHE[VictimAt][2])
                        ELSE st1} :
           \E st3 \in {IF FreeFrames(st2.mem) # {} THEN load_PAGE(st2, cur.pid, f.page) ELSE st2} :
              shellmemory' = st3.mem /\ pcb' = st3.pcb
        /\ LRU_CACHE' = << <<cur.pid, f.page>> >>
                           \o (IF NoFrame THEN Without(VictimAt) ELSE LRU_CACHE)
        /\ QUEUE' = Append(QUEUE, cur.pid)
        /\ cur' = Idle
        /\ ran' = Executed(f)
        /\ phase' = IF NoFrame /\ ~(FrameOf(LRU_CACHE[VictimAt]) \subseteq Memory)
                    THEN "undefined" ELSE phase

\* The node remove_elem finds: the first with the same start of frame.
SameStart(p, i) == {k \in 1 .. Len(LRU_CACHE) :
                      LET g == LRU_CACHE[k] IN pcb[g[1]].index[g[2]][0] = pcb[p].index[i][0]}

\* run_proc when the line returned anything but 1: its page becomes the most
\* recently used one, and the turn goes on or ends.
HandleLine(f) ==
    /\ f.valid /\ ~ReturnsOne(f.line)
    /\ \E k \in SameStart(cur.pid, f.page) :
          /\ \A h \in SameStart(cur.pid, f.page) : k <= h
          /\ LRU_CACHE' = << LRU_CACHE[k] >> \o Without(k)
    /\ pcb' = cpu_run(f)
    /\ cur' = IF cur.left = 2 THEN [cur EXCEPT !.left = 1] ELSE Idle
    /\ QUEUE' = IF cur.left = 1 /\ cur.requeue THEN Append(QUEUE, cur.pid) ELSE QUEUE
    /\ ran' = Executed(f)
    /\ shellmemory' \in MemoryAfter(f)
    /\ UNCHANGED phase

run_proc == /\ phase = "rr" /\ cur # Idle
            /\ \E f \in {Fetch} : HandleFault(f) \/ HandleLine(f)
            /\ UNCHANGED PID_counter

\* Mutant: free_PCB forgets the frames.
MutNoClear == {}

\* Mutant: clear_frame goes one position further.
MutClearFour == {n + d : n \in UNION {{pcb[p].index[i][j] : i \in Pages(p), j \in 0 .. 2}
                                       : p \in DOMAIN pcb},
                         d \in 0 .. 3}

\* Positions free_PCB clears: clear_frame frees three lines from EACH line of
\* a page's frame, not only from the first.
Cleared == {n + d : n \in UNION {{pcb[p].index[i][j] : i \in Pages(p), j \in 0 .. 2}
                                  : p \in DOMAIN pcb},
                    d \in 0 .. 2}

\* The end of run_proc_RR.
FreeAll ==
    /\ phase = "rr" /\ cur = Idle /\ queue_done
    /\ phase' = IF Cleared \subseteq Memory THEN "prompt" ELSE "undefined"
    /\ shellmemory' = mem_free(shellmemory, Cleared)
    /\ pcb' = << >>
    /\ QUEUE' = << >>
    /\ LRU_CACHE' = << >>
    /\ ran' = << >>
    /\ UNCHANGED <<PID_counter, cur>>

Next == \/ \E v \in VarNames, x \in VarValues : set(v, x)
        \/ resetmem
        \/ \E s \in Scripts : new_proc(s)
        \/ FileNotFound
        \/ StartRR
        \/ TakeTurn
        \/ run_proc
        \/ FreeAll

\* The scheduler is a loop of one thread that waits for nothing.
Spec == Init /\ [][Next]_vars /\ WF_vars(StartRR \/ TakeTurn \/ run_proc \/ FreeAll)

-----------------------------------------------------------------------------
\* The type of the kernel's state: queue and LRU list name live processes, and
\* a program counter never runs past the three lines of a page.
TypeOK ==
    /\ phase \in Phases
    /\ PID_counter \in 1 .. MaxPid + 1
    /\ DOMAIN pcb \subseteq 1 .. MaxPid /\ DOMAIN ran = DOMAIN pcb
    /\ \A p \in DOMAIN pcb :
          /\ pcb[p].script \in Scripts
          /\ pcb[p].size \in Nat
          /\ \A i \in Pages(p) : pcb[p].program_counter[i] \in 0 .. 3
    /\ QUEUE \in Seq(DOMAIN pcb)
    /\ \A k \in 1 .. Len(LRU_CACHE) :
          LRU_CACHE[k][1] \in DOMAIN pcb /\ LRU_CACHE[k][2] \in Pages(LRU_CACHE[k][1])
    /\ \A q \in Memory : shellmemory[q].var \in IF q \in VarZone THEN VarNames \cup {None} ELSE 0 .. MaxPid
    /\ cur = Idle \/ cur.pid \in DOMAIN pcb

\* Each process executes its own lines, in the order of its script, whatever
\* was evicted and reloaded in between: load_PAGE reads the file on from where
\* it stopped, so a page that is evicted too early comes back with other lines.
OwnLinesInOrder ==
    \A p \in DOMAIN ran : \A k \in 1 .. Len(ran[p]) : ran[p][k] = <<p, k>>

\* When run_proc_RR returns, every line of every script was executed.
AllLinesRun ==
    phase = "rr" /\ cur = Idle /\ queue_done
        => \A p \in DOMAIN pcb : Len(ran[p]) = Len(pcb[p].script.lines)

\* Each script is executed line by line and, when the command returns, completely.
RunsScripts == OwnLinesInOrder /\ AllLinesRun

\* The LRU list and the frame store agree: resident pages have frames of their
\* own, marked with their pid; and every occupied frame is that of a resident
\* page, so that it can be evicted or freed.
FrameOwnership ==
    /\ \A a, b \in 1 .. Len(LRU_CACHE) :
          a # b => FrameOf(LRU_CACHE[a]) \cap FrameOf(LRU_CACHE[b]) = {}
    /\ \A a \in 1 .. Len(LRU_CACHE) : \A q \in FrameOf(LRU_CACHE[a]) :
          shellmemory[q].var = LRU_CACHE[a][1]
    /\ \A q \in 0 .. FrameStore - 1 :
          shellmemory[q].var # None => \E a \in 1 .. Len(LRU_CACHE) : q \in FrameOf(LRU_CACHE[a])

\* run_proc never pops a victim from an empty LRU list (pop_tail would exit) nor
\* moves a page that is not in it (remove_elem would walk past its end).
ListsServe ==
    phase = "rr" /\ cur # Idle =>
        /\ NoFrame => LRU_CACHE # << >>
        /\ Fetch.valid => SameStart(cur.pid, Fetch.page) # {}

\* The lists hold what run_proc takes from them, and PAGE_evict and free_PCB go
\* outside shellmemory only in a command with a script that is not regular.  Such
\* a command may: two scripts of eight lines, three of which return 1, and four
\* frames are enough for a page that was never loaded to get into the LRU list
\* and to be evicted.
StaysDefined ==
    [][/\ TypeOK' /\ ListsServe'
       /\ phase # "undefined" /\ phase' = "undefined" => \E p \in DOMAIN pcb : ~Regular(pcb[p].script)]_vars

\* The victim, the least recently used page, is one whose lines have all been
\* executed: nothing is evicted that will be needed again.
EvictsOnlyFinished ==
    [][\A a \in 1 .. Len(LRU_CACHE) :
          LET p == LRU_CACHE[a][1]
              i == LRU_CACHE[a][2]
          IN  /\ p \in DOMAIN pcb'
              /\ \A b \in 1 .. Len(LRU_CACHE') : LRU_CACHE'[b] # LRU_CACHE[a]
              => pcb[p].program_counter[i] = 3 \/ pcb[p].size = 0]_vars

\* exec and run return to the prompt.
Terminates == phase = "rr" ~> phase = "prompt"

\* A variable has one position, also after positions before it were cleared.
OnePosition == \A q, r \in VarZone :
    q # r /\ shellmemory[q].var = shellmemory[r].var => shellmemory[q].var = None

\* A variable has one position, keeps it and is forgotten only by resetmem, except that
\* the end of a run or exec may clear the first two positions, which lie behind
\* the last frame and are reached by clear_frame.
VariablesKept ==
    [][/\ OnePosition'
       /\ \A q \in VarZone : shellmemory[q].var # None =>
             \/ shellmemory'[q].var = shellmemory[q].var
             \/ resetmem
             \/ q < FrameStore + 2 /\ phase = "rr" /\ phase' # "rr"]_vars
=============================================================================
