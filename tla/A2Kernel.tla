------------------------------ MODULE A2Kernel ------------------------------
(***************************************************************************)
(* The process kernel of the a2 shell: scripts are copied to the backing   *)
(* store, their first two pages are loaded into the frame store, later     *)
(* pages on demand in place of the least recently used or the oldest frame *)
(* (src/a2/kernel.c, shellmemory.c, ready_queue.c, pcb.c, and run, exec    *)
(* and pagepolicy of interpreter.c).                                       *)
(*                                                                         *)
(* The shell is one thread.  One action is the admission of one script,    *)
(* one pop of the ready queue, or one pass of the loop of execute_process. *)
(* Nothing gives frames back when a process ends.                          *)
(*                                                                         *)
(* A line of a script is a plain command or names a script, which stands   *)
(* for the command "exec" of that script: while a process runs,            *)
(* in_background makes it an admission without a scheduler of its own.     *)
(* Scripts do not exec several scripts in one line, change the policy or   *)
(* the directory, or quit.                                                 *)
(* Lines are shorter than the 100 characters fgets takes.  The fields of a *)
(* PCB that nothing reads (pagetable, start, end, priority) are left out.  *)
(***************************************************************************)
EXTENDS Integers, Sequences, FiniteSets

CONSTANTS FrameStore,   \* FRAME_STORE_SIZE, in lines
          HighValue,    \* 9999, from which the searches for a victim start
          Programs,     \* the scripts, by name
          Openers,      \* the names a command at the prompt uses
          Commands,     \* the commands the user types: "exec", "run", "pagepolicy"
          MaxPid        \* bound on pid_counter for commands at the prompt

Plain == "cmd"

ASSUME FrameAssumption == FrameStore \in Nat /\ FrameStore % 3 = 0
ASSUME HighAssumption == HighValue \in Nat
ASSUME PidAssumption == MaxPid \in Nat
ASSUME ProgramAssumption ==
    /\ Openers \subseteq DOMAIN Programs
    /\ \A n \in DOMAIN Programs : /\ Programs[n].lines \in Seq(DOMAIN Programs \cup {Plain})
                                  /\ Programs[n].nl \in BOOLEAN

VARIABLES phase,              \* what the shell is doing, see Phases
          admitted,           \* scripts the current exec has admitted
          current_policy,     \* "LRU" or "FIFO"
          pid_counter,
          pcb,                \* every PCB made, by pid
          ready,              \* ready queue of pids
          shellmemory,        \* the frame store
          global_access_time,
          cur,                \* the process being executed and its quanta
          ran,                \* for each pid, the lines it has executed, in order
          ended               \* processes terminate_process was called for

vars == <<phase, admitted, current_policy, pid_counter, pcb, ready,
          shellmemory, global_access_time, cur, ran, ended>>

\* "abort" is where free is called on a string literal, or memory is written
\* at index -1.
Phases == {"shell", "RR", "FCFS", "exit", "abort"}

Frames == {3 * k : k \in 0 .. FrameStore \div 3 - 1}
NoLine == <<0, 0>>                 \* "none"
Idle == [pid |-> 0, left |-> 0]
Forever == 1000                    \* MAX_INT, more than any script has lines

Least(S) == CHOOSE n \in S : \A m \in S : n <= m

-----------------------------------------------------------------------------
\* The frame store.

\* First positions of the frames with three free lines.
FreeSlots(mem) == {b \in Frames : \A j \in 0 .. 2 : mem[b + j].line = NoLine}

\* Mutant: the last free frame instead of the first.
MutLastSlot(mem) == CHOOSE b \in FreeSlots(mem) : \A c \in FreeSlots(mem) : b >= c

find_available_slot(mem) == Least(FreeSlots(mem))

\* Mutant: the most recently used frame.
MutMostRecent(mem) ==
    LET S == {b \in Frames : \A c \in Frames : mem[b].accessed >= mem[c].accessed}
    IN  Least(S)

\* The frame whose first line was touched the longest time ago.
find_lru_slot(mem) ==
    LET S == {b \in Frames : /\ mem[b].accessed < HighValue
                             /\ \A c \in Frames : mem[b].accessed <= mem[c].accessed}
    IN  IF S = {} THEN -1 ELSE Least(S)

\* The frame whose first line was loaded the longest time ago.
find_fifo_slot(mem) ==
    LET S == {b \in Frames : /\ mem[b].age < HighValue
                             /\ \A c \in Frames : mem[b].age <= mem[c].age}
    IN  IF S = {} THEN -1 ELSE Least(S)

find_replacement_slot(mem) ==
    IF current_policy = "LRU" THEN find_lru_slot(mem) ELSE find_fifo_slot(mem)

\* Lines k + 1 .. k + n of p's script stored from position b on.
Stored(mem, time, p, b, k, n) ==
    [q \in DOMAIN mem |->
       IF q - b \in 0 .. n - 1
       THEN [line |-> <<p, k + (q - b) + 1>>, accessed |-> time + (q - b) + 1,
             age |-> time + (q - b) + 1]
       ELSE mem[q]]

mem_free_lines_between(mem, time, b) ==
    [q \in DOMAIN mem |->
       IF q - b \in 0 .. 2
       THEN [line |-> NoLine, accessed |-> time + (q - b) + 1, age |-> time + (q - b) + 1]
       ELSE mem[q]]

-----------------------------------------------------------------------------
\* Processes.  process_initialize may be called while a line is executed, so it
\* takes and returns the state it works on as a record.

State == [mem |-> shellmemory, time |-> global_access_time, pcb |-> pcb,
          ready |-> ready, pid |-> pid_counter, ran |-> ran]

SetState(new) == \E st \in {new} : /\ shellmemory' = st.mem
                                   /\ global_access_time' = st.time
                                   /\ pcb' = st.pcb
                                   /\ ready' = st.ready
                                   /\ pid_counter' = st.pid
                                   /\ ran' = st.ran

\* f with x mapped to v, whether or not x is in its domain.
Put(f, x, v) == [y \in DOMAIN f \cup {x} |-> IF y = x THEN v ELSE f[y]]

\* Pages load_file counts after n lines: one for every third line and one for
\* a line that leaves the file at its end, which only an unterminated one does.
PagesCounted(prog, n) == n \div 3 + (IF n % 3 # 0 /\ ~prog.nl THEN 1 ELSE 0)

\* Mutant: does not stop at the end of the frame store.
MutPastStore(prog, b) == Least({6, Len(prog.lines)})

\* Mutant: stops one line before the end of the second page.
MutFiveLines(prog, b) == Least({5, Len(prog.lines), FrameStore - b})

\* Lines load_file reads: two pages, or what the file or the frame store has left.
LinesLoaded(prog, b) == Least({6, Len(prog.lines), FrameStore - b})

\* load_file: from the first free frame on, whatever the frame after it holds.
load_file(st, p, prog) ==
    LET b == find_available_slot(st.mem)
        n == LinesLoaded(prog, b)
    IN  [st EXCEPT !.mem = Stored(st.mem, st.time, p, b, 0, n),
                   !.time = @ + n,
                   !.pcb = Put(@, p, [prog |-> prog, PC |-> b, currentPage |-> 1,
                                      currentLine |-> 0, pageCounter |-> PagesCounted(prog, n)]),
                   !.ran = Put(@, p, << >>),
                   !.ready = Append(@, p)]

Loads(st) == FreeSlots(st.mem) # {}

\* The copy in the backing store is named by the number of copies there are,
\* and makePCB numbers processes alike: one number per call, by which the lines
\* of the script are known in memory.
copyScript(st) == [st EXCEPT !.pid = @ + 1]

\* The copy and the pid are spent even if no frame is free.
process_initialize(st, name) ==
    LET st1 == copyScript(st)
    IN  IF Loads(st) THEN load_file(st1, st.pid, Programs[name]) ELSE st1

\* Mutant: one page too many is skipped.
MutSkipPage(c) == 3 * (c.pageCounter + 1) > Len(c.prog.lines)

\* The file is at its end after the lines of the loaded pages were skipped:
\* a line that ends in a newline leaves it one read before the end.
NoMoreLines(c) ==
    LET skip == 3 * c.pageCounter
    IN  skip > Len(c.prog.lines) \/ (skip = Len(c.prog.lines) /\ skip > 0 /\ ~c.prog.nl)

\* load_frame into the first free frame, which exists.
load_frame(st, p) ==
    LET c == st.pcb[p]
        skip == 3 * c.pageCounter
        b == find_available_slot(st.mem)
        n == Least({3, Len(c.prog.lines) - skip})
        c1 == [c EXCEPT !.PC = b, !.pageCounter = @ + 1]
    IN  [st EXCEPT !.mem = Stored(st.mem, st.time, p, b, skip, n),
                   !.time = @ + n,
                   !.pcb[p] = c1]

\* remove_frame frees the victim, whoever owns it.
remove_frame(st, v) == [st EXCEPT !.mem = mem_free_lines_between(@, st.time, v),
                                  !.time = @ + 3]

\* The victim is a frame, and its three lines were allocated, so that they can be freed.
Removable(mem, v) == v # -1 /\ \A j \in 0 .. 2 : mem[v + j].line # NoLine

-----------------------------------------------------------------------------
mem_init == [q \in 0 .. FrameStore - 1 |-> [line |-> NoLine, accessed |-> 0, age |-> 0]]

\* main: an empty backing store, empty memory, no process.
Init == /\ phase = "shell"
        /\ admitted = 0
        /\ current_policy = "LRU"
        /\ pid_counter = 1
        /\ pcb = << >>
        /\ ready = << >>
        /\ shellmemory = mem_init
        /\ global_access_time = 0
        /\ cur = Idle
        /\ ran = << >>
        /\ ended = {}

\* exec admits its scripts one by one; the first that cannot be loaded ends the
\* command, and the scripts before it stay in the ready queue.
exec(name) ==
    /\ phase = "shell" /\ admitted < 3 /\ pid_counter <= MaxPid /\ "exec" \in Commands
    /\ SetState(process_initialize(State, name))
    /\ admitted' = IF Loads(State) THEN admitted + 1 ELSE 0
    /\ UNCHANGED <<phase, current_policy, cur, ended>>

\* The same for a file that does not exist.
ExecMissing == /\ phase = "shell" /\ admitted \in 1 .. 2
               /\ admitted' = 0
               /\ UNCHANGED <<phase, current_policy, pid_counter, pcb, ready, shellmemory,
                              global_access_time, cur, ran, ended>>

\* schedule_by_policy("RR") at the end of exec.
ExecSchedule == /\ phase = "shell" /\ admitted > 0
                /\ phase' = "RR"
                /\ admitted' = 0
                /\ UNCHANGED <<current_policy, pid_counter, pcb, ready, shellmemory,
                               global_access_time, cur, ran, ended>>

\* run schedules whether or not its script could be loaded: it compares the
\* error with 11, which process_initialize never returns.
run(name) ==
    /\ phase = "shell" /\ admitted = 0 /\ pid_counter <= MaxPid /\ "run" \in Commands
    /\ SetState(process_initialize(State, name))
    /\ phase' = "FCFS"
    /\ UNCHANGED <<admitted, current_policy, cur, ended>>

RunMissing == /\ phase = "shell" /\ admitted = 0 /\ "run" \in Commands
              /\ phase' = "FCFS"
              /\ UNCHANGED <<admitted, current_policy, pid_counter, pcb, ready, shellmemory,
                             global_access_time, cur, ran, ended>>

set_page_policy(policy) ==
    /\ phase = "shell" /\ admitted = 0 /\ "pagepolicy" \in Commands
    /\ current_policy' = policy
    /\ UNCHANGED <<phase, admitted, pid_counter, pcb, ready, shellmemory,
                   global_access_time, cur, ran, ended>>

\* The loop of a scheduler: pop the head, or return when the queue is empty.
Scheduler(quanta) ==
    /\ cur = Idle
    /\ IF ready = << >>
       THEN phase' = "shell" /\ UNCHANGED <<ready, cur>>
       ELSE /\ cur' = [pid |-> Head(ready), left |-> quanta]
            /\ ready' = Tail(ready)
            /\ UNCHANGED phase
    /\ UNCHANGED <<admitted, current_policy, pid_counter, pcb, shellmemory,
                   global_access_time, ran, ended>>

scheduler_RR == phase = "RR" /\ Scheduler(2)

scheduler_FCFS == phase = "FCFS" /\ Scheduler(Forever)

\* free_shell_memory leaves the times as they are.
free_shell_memory == shellmemory' = [q \in DOMAIN shellmemory |->
                                       [shellmemory[q] EXCEPT !.line = NoLine]]

\* quit at the prompt; the backing store is removed.
quit == /\ phase = "shell" /\ admitted = 0
        /\ free_shell_memory
        /\ ready' = << >>
        /\ phase' = "exit"
        /\ UNCHANGED <<admitted, current_policy, pid_counter, pcb, global_access_time,
                       cur, ran, ended>>

-----------------------------------------------------------------------------
\* One pass of the loop of execute_process.

Me == pcb[cur.pid]

PageFault == Me.currentPage > Me.pageCounter

\* terminate_process frees the queue node and nothing else.
terminate_process == /\ ended' = ended \cup {cur.pid}
                     /\ cur' = Idle

\* A fault ends the turn.
Requeue(st) == /\ SetState([st EXCEPT !.ready = Append(@, cur.pid)])
               /\ cur' = Idle
               /\ UNCHANGED ended

\* Mutant: the process is queued again.
MutRequeueAtEnd == /\ cur # Idle /\ PageFault /\ NoMoreLines(Me)
                   /\ Requeue(State)
                   /\ UNCHANGED <<phase, admitted, current_policy>>

\* A fault behind the last page ends the process.
FaultAtEnd == /\ cur # Idle /\ PageFault /\ NoMoreLines(Me)
              /\ terminate_process
              /\ UNCHANGED <<phase, admitted, current_policy, pid_counter, pcb, ready,
                             shellmemory, global_access_time, ran>>

FaultFree == /\ cur # Idle /\ PageFault /\ ~NoMoreLines(Me)
             /\ FreeSlots(shellmemory) # {}
             /\ Requeue(load_frame(State, cur.pid))
             /\ UNCHANGED <<phase, admitted, current_policy>>

FaultEvict ==
    LET v == find_replacement_slot(shellmemory)
    IN  /\ cur # Idle /\ PageFault /\ ~NoMoreLines(Me)
        /\ FreeSlots(shellmemory) = {}
        /\ IF Removable(shellmemory, v)
           THEN /\ Requeue(load_frame(remove_frame(State, v), cur.pid))
                /\ UNCHANGED <<phase, admitted, current_policy>>
           ELSE /\ phase' = "abort"
                /\ cur' = Idle
                /\ UNCHANGED <<admitted, current_policy, pid_counter, pcb, ready, shellmemory,
                               global_access_time, ran, ended>>

\* The line at the program counter; reading it is an access.
Line == shellmemory[Me.PC].line

Touch == [State EXCEPT !.mem[Me.PC].accessed = global_access_time + 1,
                       !.time = @ + 1,
                       !.pcb[cur.pid].PC = @ + 1]

\* "none" is taken for the end of the script.
ReadNone == /\ cur # Idle /\ ~PageFault /\ Line = NoLine
            /\ SetState(Touch)
            /\ terminate_process
            /\ UNCHANGED <<phase, admitted, current_policy>>

\* After the third line of a page comes the next page.
NextLine(c) == IF c.currentLine = 2
               THEN [c EXCEPT !.currentPage = @ + 1, !.currentLine = 0]
               ELSE [c EXCEPT !.currentLine = @ + 1]

\* What the line of the script does, plain or an exec of another script.
parseInput(st, line) ==
    LET word == st.pcb[line[1]].prog.lines[line[2]]
    IN  IF word = Plain THEN st ELSE process_initialize(st, word)

ReadLine ==
    /\ cur # Idle /\ ~PageFault /\ Line # NoLine
    /\ LET st == parseInput([Touch EXCEPT !.ran[cur.pid] = Append(@, Line)], Line)
           st1 == [st EXCEPT !.pcb[cur.pid] = NextLine(@)]
       IN  IF cur.left = 1 THEN Requeue(st1)
           ELSE /\ SetState(st1)
                /\ cur' = [cur EXCEPT !.left = @ - 1]
                /\ UNCHANGED ended
    /\ UNCHANGED <<phase, admitted, current_policy>>

execute_process == FaultAtEnd \/ FaultFree \/ FaultEvict \/ ReadNone \/ ReadLine

Next == \/ \E n \in Openers : exec(n) \/ run(n)
        \/ ExecMissing \/ ExecSchedule \/ RunMissing
        \/ \E policy \in {"LRU", "FIFO"} : set_page_policy(policy)
        \/ scheduler_RR \/ scheduler_FCFS
        \/ execute_process
        \/ quit

\* The scheduler is a loop of one thread that waits for nothing.
Spec == Init /\ [][Next]_vars /\ WF_vars(scheduler_RR \/ scheduler_FCFS \/ execute_process)

-----------------------------------------------------------------------------
\* The type of the kernel's state: times stay behind the clock, a program counter
\* stays in the frame store or just behind it, and a process about to read a line
\* reads the frame store, never the variables behind it.
TypeOK ==
    /\ phase \in Phases
    /\ admitted \in 0 .. 3
    /\ pid_counter \in Nat
    /\ DOMAIN pcb = DOMAIN ran
    /\ \A p \in DOMAIN pcb : /\ pcb[p].PC \in 0 .. FrameStore
                             /\ pcb[p].currentLine \in 0 .. 2
                             /\ pcb[p].pageCounter \in Nat
    /\ ready \in Seq(DOMAIN pcb \ ended)
    /\ ended \subseteq DOMAIN pcb
    /\ \A q \in DOMAIN shellmemory :
          /\ shellmemory[q].accessed \in 0 .. global_access_time
          /\ shellmemory[q].age \in 0 .. shellmemory[q].accessed
    /\ cur = Idle \/ cur.pid \in DOMAIN pcb \ ended
    /\ cur # Idle /\ ~PageFault => Me.PC < FrameStore

\* Each process executes its own lines, in the order of its script, although
\* remove_frame takes frames without looking at their owner and the program
\* counter is a position of the frame store.
OwnLinesInOrder ==
    \A p \in DOMAIN ran : \A k \in 1 .. Len(ran[p]) : ran[p][k] = <<p, k>>

\* Under round robin a process that ends has executed all lines of its script,
\* its own and in order: with turns of two lines the victim is always a page that
\* was executed, and neither the "none" behind the last line nor the end of the
\* file is met early.
EndsComplete ==
    [][phase = "RR" => \A p \in ended' \ ended :
          ran[p] = [k \in 1 .. Len(pcb[p].prog.lines) |-> <<p, k>>]]_vars

\* Under round robin no step overwrites or frees a line that its process still
\* has to execute: not the load of two pages from one free frame, not the
\* choice of a victim.
EvictsNothingPending ==
    [][phase = "RR" =>
          \A q \in DOMAIN shellmemory : \A p \in DOMAIN pcb \ ended' :
             /\ shellmemory[q].line[1] = p
             /\ shellmemory[q].line[2] > Len(ran'[p])
             => shellmemory'[q].line = shellmemory[q].line]_vars

\* Behind the first free frame all frames are free, so that load_file may write
\* two pages from there on without looking.
FreeTogether ==
    FreeSlots(shellmemory) # {} =>
        \A q \in find_available_slot(shellmemory) .. FrameStore - 1 : shellmemory[q].line = NoLine

\* remove_frame finds a victim it can free, as long as some frame was not touched
\* since the clock passed the value from which the searches start and every script
\* fills its last page: full pages stay whole through evictions, reloads and loads
\* of two pages.
AbortsOnly ==
    phase = "abort" => \/ \A b \in Frames : shellmemory[b].accessed >= HighValue
                       \/ \E p \in DOMAIN pcb : Len(pcb[p].prog.lines) % 3 # 0

\* The scheduler returns to the prompt, or the shell aborts.
Terminates == phase \in {"RR", "FCFS"} ~> phase \in {"shell", "abort"}
=============================================================================
