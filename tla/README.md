# TLA+ models of the COMP310 shell

The repository holds three programs, one per directory. Each is a C shell that
grows out of the one before:

- `src/a1`: a command interpreter with variables and scripts;
- `src/a2`: the same with processes: scripts are loaded in pages into a frame
  store and scheduled, with demand paging from a backing store;
- `src/a3`: another implementation of processes and demand paging, and a
  Pintos-style file system on a disk image, behind a write-back buffer cache.

This directory models the parts that carry the logic: the buffer cache, the file
system, its commands and tools and its linked lists in a3, the two process
kernels, and the shell of a1. TLC checks the models on small instances. TLAPS
proves, for every value of the constants, most of the safety properties that TLC
checks: section 4 says which, from which assumptions, and what is left.

## 1. Inventory

### a3: buffer cache and block layer (`fs/cache.c`, `fs/block.c`, `fs/ide.c`, `fs/debug.c`)

State: 64 slots (occupied, sector, buffer, dirty, access), the clock hand, and
the disk image. Operations: `buffer_cache_read`, `buffer_cache_write`,
`buffer_cache_close`, and inside them lookup, eviction and flush. The inode,
directory and free-map code reads and writes sectors only through it.
Hard: dirty entries evicted between two calls; a process that dies with dirty
entries; accesses past the end of the device, which `check_sector` reports but
does not stop, because `debug_panic` only prints.
Correct if: a read returns the last write; a sector is in one slot at most; a
clean entry equals the disk; a close makes everything durable; referenced
entries get their second chance.

### a3: free map, inodes, root directory, file commands (`fs/free-map.c`, `fs/bitmap.c`, `fs/inode.c`, `fs/directory.c`, `fs/filesys.c`, `fs/file.c`, `fs/fsutil.c`)

State: the bitmap (in memory, and as the data of the file whose inode is sector
0), the inode sectors with 123 direct pointers, one indirect and one doubly
indirect block, the root directory, the list of open inodes and the file table
of the shell. Operations: create, write, read, size, seek, close, rm, quit and
start-up. A command goes from the file table through the inode in memory to the
bitmap and the sectors.
Hard: running out of space in the middle of an allocation; the copy of an inode
in memory and the one on disk; the free map being a file of the file system it
describes.
Correct if: no sector has two owners; what is in use is marked; what is marked
is in use; each sector inside a file's length exists; the map survives a
restart.

### a3: file handles, file commands and file tools (`fs/file.c`, `fs/directory.c`, `fs/fsutil.c`, `fs/fsutil2.c`)

State: the file table (name, position, inode), the list of open inodes, the
shared handle `cwd` of the root directory, the list `file_list_head` of
defragment, and the bytes of the files. Operations: create, write, read, size,
seek, cat, rm, ls, copy_in, copy_out, find_file, fragmentation_degree,
defragment, recover.
Hard: an inode is shared by its handles and freed by the first close;
`dir_close` forgets `cwd` whoever uses it; a write ends in two NULs and moves the
position by two less than it wrote; tools call commands while they hold handles
of their own.
Correct if: no command uses freed memory; the table, the open inodes and the
directory agree; texts survive what does not write them; a text ends in NUL; ls
lists what is there; defragment changes no file, always finds the space it gave
up, and leaves no file fragmented.

### a3: intrusive list (`fs/list.c`)

State: the links of the elements. Operations: insert, remove, pop, splice,
reverse, insert_ordered, unique, max, min, and a natural merge sort in place. The
open inodes and the file table are such lists.
Hard: pointers to the ends of runs held while elements move; an element removed
twice (`free_file_table`).
Correct if: both directions of the links always mirror each other; the sort is
stable, ends, and each pass halves the number of runs.

### a3: process kernel (`kernel.c`, `pcb.c`, `cpu.c`, `linked_list.c`, `shellmemory.c`, `interpreter.c`, `shell.c`)

State: PCBs with a page table (frame positions, valid bits, program counters),
the ready queue, the LRU list, and shell memory, whose first part is the frame
store and whose second part holds the variables. Operations: run and exec admit
scripts; `run_proc_RR` gives turns of two lines; a fault loads the next page in
place of the least recently used one; at the end all PCBs are freed.
Hard: the page of one process evicted while another faults; a file that is
never repositioned; the end of the script; return codes shared with the
page-fault code.
Variables are set at the prompt and by lines of scripts, and live behind the
frames.
Correct if: each process executes its own lines once and in order, all of them;
the LRU list and the frames agree; exec returns; a variable has one position and
keeps it.

### a2: process kernel (`kernel.c`, `shellmemory.c`, `ready_queue.c`, `pcb.c`, `interpreter.c`, `shell.c`)

State: PCBs (program counter as a position of the frame store, current page and
line, pages loaded so far), the ready queue, the frame store with an access and
a load time per line, the clock, the replacement policy. Operations: run (first
come, first served), exec (round robin, two lines), pagepolicy, quit. A script may
itself say exec: `in_background` turns that into an admission only.
Hard: frames are taken without regard to their owner, and nothing tells the
owner; two pages are written from one free frame on; frames are not given back;
an exec that fails half-way leaves processes queued.
Correct if: as for a3.

### a1: shell (`shell.c`, `interpreter.c`, `shellmemory.c`)

State: the table of variables, the scripts that are open, files and directories
of the host. Operations: one per command; `run` executes the lines of a script,
which may run others or itself.
Hard: the end of a script; return codes that pass through several scripts (-1
ends the shell); a full table; a variable called none; descriptors that run out.
Correct if: the table is a map of limited size; every typed line comes back to
the prompt; the shell ends with 99 only when a call of the host failed.

### Other parts

`fs/partition.c`, `hex_dump` of `fs/debug.c` and the text handling of the shells
have no state worth a model of their own. `PROJECT.json` lists every part with
its status, and the hazards by line.

## 2. Modules

| Module | Role |
| --- | --- |
| `SectorStore` | abstract: a store of sectors with a durable copy that lags behind |
| `BufferCache` | the cache over the disk image; implements `SectorStore` |
| `BufferCacheProofs` | theorems about `BufferCache` |
| `FileSystem` | free map, inodes, root directory and file table over sectors, and defragment on them |
| `FileCommands` | file commands and tools: handles, positions and bytes |
| `SequenceList` | abstract: two lists of elements |
| `IntrusiveList` | the lists link by link, with the rounds of the sort; implements `SequenceList` |
| `PagingKernel` | the a3 process kernel and the a3 variables |
| `A2Kernel` | the a2 process kernel |
| `VariableMap` | abstract: a map with a limited number of names |
| `A1Shell` | the a1 shell; its table implements `VariableMap` |
| `MC...` | instances for TLC: scripts, symmetry, sectors |
| `NatLemmas` | least elements, the k-th element of a set, ranks in a total order |
| `FileSystemProofs`, `FileCommandsProofs`, `IntrusiveListProofs`, `PagingKernelProofs`, `A2KernelProofs`, `A1ShellProofs` | theorems about the module each is named after |

All programs are single-threaded, so the unit of interleaving is the call, the
command or the turn, never the instruction. What interleaves is processes of
the simulated kernel, commands of the user, and the death of the program.
Definitions have the names of the C functions they model where there is one.
Operators named `Mut...` are deliberately wrong variants of the definition that
follows them, used to show that a property can fail.

**BufferCache.** `cache`, `clock`, `disk` are the statics of `cache.c` and the
host file; `length` and `size` are the length of that file and the size the
block layer took from it at start-up; `panicked` says a PANIC line was printed;
`ret` is the last call. A call is one action. `buffer_cache_evict(n)` is a
sweep that passes n slots and stops at the next; a flush is part of it. An access past
the end reads nothing (the buffer keeps its old contents) or extends the file.
`Restart` is the death of the process after any prefix of the flushes of a
close, and the start of a new one.

**FileSystem.** Sectors are what the cache shows. A path is a pointer of an
inode and the slots below it; `inode_reserve` allocates the missing paths in
the order of the code's loops, and on a full disk stops where the code stops:
pointers in the open inode are kept, a partly filled indirect block is not
written, and an indirect block that could not be allocated is sector 0, which is
then zeroed (`zeroed`). `defragment` removes all files and creates them again one
after the other; the order of the directory is left open. `map_inode` says whether sector 0 is still an inode;
`map_open` whether the free map file could be read at start-up. Lengths count
sectors; contents other than pointers are left out.

**FileCommands.** One action is one command. The commands are written with
operators that take the state of the handles as a record and return the next
one (`inode_close`, `dir_open_root`, `file_write`, ...), as the C functions call
each other. Which sectors a file has is the subject of `FileSystem`, so a create or a
write that needs space may fail at any time; that defragment does find its space
is `DefragFits` there. Of a removed file the model keeps the bytes (`deleted`) as
long as recover 0 can find its inode, and whether another file has had some of its
data sectors (`marked`); a create that fails leaves an inode of this kind too
(`CreateFails`). `map` is what recover 0 does to the free map: "sound" at first,
"unsaved" when the bits of a recovered file are set in memory only, until an
allocation or a release writes the map, and "unsound" when a sector in use may be
unmarked: after a quit with an unsaved map, after flips of data that another file
has by now, and after flips of whatever lies behind the array of sector numbers,
which has one for each sector of the file where recover 0 reads 123. With an
unsound map any command that writes may overwrite another file. That and the
flips behind the array are faults like the use of freed memory. A recovered file whose data
was reused has any bytes of `Foreign`. Free sectors without an inode are read by
recover 0 and nothing else; that no file's data looks like an inode is assumed. Of several
removed files recover 0 finds one. A use of freed memory sets the field `fault`: "lucky" for
a double free, a read of freed bytes, or a flip that may hit anything, which the build may survive, so both
outcomes are allowed; "wild" for a read or write through a freed pointer or
before a buffer, after which nothing is known (phase "undefined"). `tooled`,
`written`, `recovered` and `origin` are history variables for the properties.
Commands on names that do not exist change no handle and are left out, except rm.
Files are named by plain names. `filesys_open` drops the directory of a path while
the file table has the path as it was given, so that /a is a second name of a with
the same inode: `cat_path` is a cat through it, which closes the inode under the
entry of a. The other commands through a path are left out; they would add a second
entry for one file. A read of fewer than -1 bytes ends the shell (phase "killed").

**IntrusiveList.** `links` are the two pointers of every node, with the head and
tail of two lists. One action is one call; `list_sort` is taken apart into the
rounds of its three loops, with its local variables in `sort`. `lists` is what a
walk yields and is the refinement mapping to `SequenceList`. An element that is
taken out is freed by its owner at once; `free_file_table` removes it twice
before.

**A1Shell.** A line is a record of the command and what it tells apart; wrong
numbers of words are the line `Unknown`. `stack` holds the lines the open
scripts have left; one step executes one line, `if` included, whose branch is
executed in the same step. A failed read of the end of a script yields an empty
line, and an empty script an uninitialised one. Directories are a chain: each
has at most one below it.

**PagingKernel.** Memory, PCBs, ready queue and LRU list are as in C; a line is
its number in its script plus a kind: plain, blank, one that returns 1, or a set.
`ran` records what was executed. One action is one admission, one pop, one call
of `run_proc`, or the release of all PCBs. The phase "undefined" stands for an
index outside an array: a release that reaches past shell memory, or an eviction
whose victim was never loaded, so that its positions are still the 1000 of
`PAGE_init`. The LRU list can name such a page only when a line that returns 1 was
taken for a fault.

**A2Kernel.** A line in memory is the pid of its owner and its number. The
contents of a free line, "none", is `NoLine`. One action is one admission, one
pop of the queue, or one pass of the loop of `execute_process`. The phase
"abort" is where `free` is called on a string literal (a victim page with fewer
than three lines) or the search for a victim yields -1. Lines may be "exec" of
another script. `pagetable` is left out because nothing reads it; SJF, AGING and
RR30 because no command reaches them.

## 3. Runs

| Run | What it shows |
| --- | --- |
| `BufferCache` | two slots, three sectors and one number past the end, crashes at any point: coherence, second chance, and refinement of `SectorStore` |
| `FileSystem` | two files, six sectors: sectors are never shared, always marked, and the two copies of an inode agree, also after failures; defragment leaves no file fragmented unless something failed before |
| `FileTree` | one file through all three levels of blocks: nothing leaks until something fails, all sectors inside the length exist, and what defragment removes always fits again |
| `FileCommands` | all file commands and tools in any order: which sequences end in freed memory or in sectors of another file, and that texts, positions and handles are right in all others; cwd stays open only after recover 0 |
| `IntrusiveList` | five elements, two pairs of them equal, in two lists: links are always proper, the lists are those of `SequenceList`, and the sort is stable, ends, and halves the runs |
| `PagingRR` | up to three scripts of one to five pages in six frames: own lines, in order, all of them; only finished pages are evicted; exec returns |
| `PagingOdd` | scripts with blank lines, final newlines, lines that return 1 and lines that set variables, beside regular ones: shell memory is left only in a command with a script that is not regular, which happens in the run, the lists serve the kernel until then, and no variable is lost but the two behind the last frame |
| `A2Kernel` | four frames, seven scripts, exec, run and pagepolicy in any order, one script that starts two others: under round robin no page that is still needed is taken, every process ends with its own lines run in order, every schedule ends, and the shell aborts for two reasons only |
| `A1Shell` | two entries for three variables and one called none, scripts that run each other and themselves: shell memory is a map, every line comes back, only a failed mkdir or ls ends the shell with 99 |
| `MapLost` | violated: a full disk zeroes the inode of the free map |
| `RemoveLeaks` | violated: rm releases less than the file had |
| `ForeignLines` | violated: an a2 process executes a line of another one |

Each run's type invariant is part of the list, alone (`BufferCache`, `FileSystem`,
`A2Kernel`, `A1Shell`) or as a conjunct of the invariant that needs it
(`HandlesAgree`, `WellLinked`, `StaysDefined`).

The violated runs state what a comment of the code says; the comments are
quoted under `findings` in `PROJECT.json`.

### Bounds

- `BufferCache`: two slots are the least for which a sweep passes one slot and
  takes another; four sector numbers make every slot contended. The state space
  is complete: nothing is cut off.
- `FileSystem`: with one direct pointer and one pointer per block a file of three
  sectors needs all three levels: three index blocks, and its inode, so seven
  sectors, one more than there are. A write to that length fails at the very
  last allocation, and two files fail at every earlier one. `FileTree` has two
  pointers per block, which the arithmetic of the doubly indirect level needs,
  and room for files that use this level and for ones that fail inside it. Both
  state spaces are complete.
- `FileCommands`: one name for the commands and the one recover 0 uses, so that
  there are two files; a text of one letter and files of at most four
  bytes, so that a second write fits exactly and a third does not; a file of three
  letters for what a recovered file may hold; offsets before a file and at or
  behind its end. The session is not bounded; handles that recover 0 leaks are, by
  `MaxLeaks`, one. More names would add no kind of sharing:
  entries of different files share nothing but `cwd`.
- `IntrusiveList`: five elements with the keys 1, 1, 2, 3, 3 give up to five
  runs, so three passes, an odd run without partner, and equal elements on both
  sides of a merge. The state space is complete.
- `A1Shell`: two entries, so that the table is full with one name to spare; three
  descriptors, so that the script that runs itself fails to open at the third
  level; a chain of two directories.
- `PagingRR`: lengths 1, 3, 4, 7, 8, 11 and 13 are below, at and above multiples
  of the page size; three processes of more than two pages exceed six frames.
  `PagingOdd` has four frames directly before three variables, all scripts of at most
  one line, two of four and six lines with and without a final newline, and three of
  eight lines, of which none, one or two return 1: two of these last make the LRU
  list name a page that was never loaded. `MaxPid` bounds the number of processes of a session.
- `A2Kernel`: lengths 2, 3, 6, 7, 9 and 10 and a parent of 7 lines; four frames, so
  that two processes already fill the store. `MaxPid` bounds the admissions at
  the prompt; those from inside scripts are bounded by the scripts. `HighValue`,
  9999 in the code, is 18, so that the case in which every frame was touched after
  it occurs. The price is that under LRU a session of the run aborts after about
  two evictions; what is said of longer ones rests on the theorems, which hold for
  every `HighValue`.

Deadlock is checked for the cache, the file system and the lists. The other runs
turn it off: the shells may be quit or exit on errors, the bounded pid stops
the sessions of the kernels, and undefined behaviour ends those of `FileCommands`.

### Fairness

`PagingKernel` and `A2Kernel` assume weak fairness of the scheduler's own steps
(`StartRR`, `TakeTurn`, `run_proc`, `FreeAll`; `scheduler_RR`,
`scheduler_FCFS`, `execute_process`).
These are consecutive iterations of one loop in one thread that waits for
nothing. Commands of the user have no fairness. Scripts contain no command that
blocks. `IntrusiveList` has weak fairness of `SortStep`, the rounds of the loops
inside one call, and `A1Shell` of `Continue`, the next line of a script; both are
loops of the same thread that wait for nothing. The commands a1 hands to the
host (ls, cat, wc) are taken to return. The other modules have no liveness
properties.

## 4. Proofs

Every theorem is about the specification that TLC runs, for all values of its
constants. Each proof module has an inductive invariant, shows that the initial
state has it and that each action keeps it, one lemma per action, and derives the
properties from it.

### BufferCache

For every `CacheSize` >= 1, every device size, every
set of sector numbers that contains 0 and every set of contents that contains
the zero sector:

- `TypeCorrect`, `Unique`, `CleanEntries`: the three invariants;
- `Refinement`: `BufferCache` implements `SectorStore`;
- `SecondChanceHolds`: the action property.

The inductive invariant is `Inv == TypeOK /\ UniqueEntry /\ CleanMatchesDisk /\
LengthCovers`. `UniqueEntry` is needed for `CleanMatchesDisk`: if a sector had
two entries, flushing one would make the other stale. `LengthCovers` (the host
file is at least as long as the device, and zero behind its end) is needed
because `block_read` transfers nothing behind the end of the file, so that
without it a freshly read, clean entry could hold the previous buffer. A miss in
read and a miss in write differ only in what is put into the slot; `MissKeepsInv`
and `MissView` treat both at once.

The refinement maps `store` to `View` (the entry of a sector, or the disk) and
`durable` to the disk restricted to the device. A hit changes at most the view of
its sector; a miss destages at most one sector, the victim's, whose view does not
change, because its entry goes and the disk takes its value; a close destages
all; a restart in the middle of a close destages the set of sectors flushed so
far. The lemma `ViewFacts` says that the view of a sector is determined by
`UniqueEntry`, which makes the CHOOSE in its definition harmless.

### FileSystem

For every set of names, every device of at least the two reserved sectors, every
number of direct pointers and every number of pointers in a block greater than
zero, and lengths up to what the three levels hold:

- `TypeCorrect`, `Copies`, `SectorsApart`, `Marked`, `NoLeak`, `Lengths`,
  `RoomToDefragment`: all seven invariants of the runs;
- `Defragments`: the action property `Defragmented`.

The invariant `IInv` is about `Map`, which gives for each file the sector of each
of its places: the inode, at the empty path, and every path of the tree, through
the inode in memory if there is one. No two places share a sector (`Apart`), none
is in the reserved sectors (`Beyond`), all are marked while the map is open, and
the inode on disk has a part of the pointers of the one in memory
(`CopiesAgree`), so that what is reachable on disk is among the places. The last
conjunct, for sessions in which nothing failed, says that all that is marked has
a place and that no place is beyond the length (`Trimmed`), without which a
removal could leave sectors behind.

Four groups of lemmas carry the steps. Paths: what `Need` contains is closed
under prefixes. Order: `Before` is a total order, because it is the lexicographic
order of three numbers. Allocation: the k-th of several requests gets the k-th
free sector, so that requests with different ranks get different sectors. The
tree: `inode_reserve` keeps every entry that was there and fills only needed ones,
from free sectors, each with its own (`Reserve`); this includes the partly
failed case with its unwritten index block.

`RoomToDefragment` counts: each item that the creates need has its place in a
sector that the removals release, no two in the same one. `Defragments` follows
because all allocations then come in one run, and because between two
neighbouring data sectors only the index blocks on the path to the second are
allocated (`BetweenSectors`), at most two.

### FileCommands

For every set of names, texts without NUL (`TextAssumption`), sizes and offsets:
`Handles`, `Defined`, `NulEnded`, `WritesContinue`, `CopiesIntact`, the five
invariants of the run. The operators of the module work on a record of the state,
so the main part of the invariant, `Good`, is a predicate on the record that every
operator keeps; what is left is where an undefined state may come from (`Cause`,
`Tidy`), and the history of positions and texts. `NameAssumption` says that the
root directory has no file's name, `ForeignAssumption` that what a recovered file may
hold fits into a file. `NulEnded` and `CopiesIntact` are for a free map that is not
"unsound": behind that state a create may take the sectors of any file. For the step
the invariant has `DiskGood`: an unsound map stays so, and with any other one
all files, and the removed one, end in NUL.

### IntrusiveList

For every finite set of elements that does not contain a list's ends, with any
keys (`ElemAssumption`; NULL is not a node):

- `ListsWellLinked`: `WellLinked`, the invariant of the run;
- `ImplementsSequences`: the links implement `SequenceList`, every call of the
  module included;
- `SortStable`: `SortsStably`; `PassesHalve`: `PassHalves`, on which the
  "O(n lg n)" of `src/a3/fs/list.c:343` rests;
- `Compares`: `ComparesRight`, what list_max, list_min and list_insert_ordered find.

`Chains(p, S, X)` says that the links `p` are those of the sequences `S`: the
k-th node of a list, counted from its head to its tail (`At`), points to its
neighbours. Everything is said of `S` once a lemma for each change of the links
has shown which sequences it leads to: cutting a part out and pasting it in
(`CutOut`, `PasteIn`), and from these `RemoveAt`, `InsertAt`, `SpliceAt`, and
`ReverseAt` and `UniqueEnds` for the calls that loop. `ContentsOf` says that a
walk from head to tail gives the sequence. The prover has no induction, so walks,
rounds of list_unique and the other recursive functions are treated by a least
counterexample (`LeastNat`).

list_sort takes a step per round of its merge, so its invariant, `SortInv`, has
four parts. `AtRuns` and `AtMerge` say where in the list a0, a1b0 and b1 are.
`Merged` says that the output of the merge is sorted and not above the first
elements left of both runs. `IsStable` has a permutation from the list at the call
to the list now that keeps elements with equal keys in order. And the runs are
counted: those before the place are at most `output_run_cnt`, those behind it plus
twice `output_run_cnt` are those at the start of the pass. So a pass ends with a sorted list or with half the runs.

### PagingKernel

For every size of the stores and every set of scripts, blank lines, final
newlines and lines that return 1 included:

- `TypeCorrect`: the type of the state;
- `ListsHold`: the lists serve the kernel (`ListsServe`): until the phase is
  "undefined", `run_proc` finds a victim and the page it has used;
- `ReleaseInside`: if there is room for two variables, `free_PCB` stays inside
  shell memory;
- `Variables`: `VariablesKept`, if the stores are not larger together than the
  1000 that `PAGE_init` puts for no position (`SmallStore`).

The invariant says that lines are executed page by page (`Progress`), that a page
is loaded before its lines are valid and these before they are executed
(`LoadedFirst`), that every page with a valid line is in the LRU list, and that a
process with lines left is queued or has its turn. The last part makes
`ReleaseInside` true: when the queue is empty every page has been executed, so it
was loaded.

Four more theorems are about regular scripts (`AllRegular`): as many lines as are
counted, or more, and none that returns 1. `PlainRegular` shows that scripts as
those of the repository are: not empty, no blank line, no newline at the end.

- `FramesOwned`: `FrameOwnership`;
- `EvictsFinished`: `EvictsOnlyFinished`;
- `ScriptsRun`: `RunsScripts`, if moreover every line is counted (`AllCounted`);
- `Defined`: the phase is never "undefined", and `StaysDefined`, if there is room for
  two variables.

All four hold for every number of frames, of processes and of lines. They rest on
`RInv`:

- `Placed`: every page of the LRU list has a frame of its own, which holds its
  lines of the script, and there is no other occupied frame;
- `Paced`: the first two pages are read at admission, each later one when all
  before it were executed;
- `InStep`: turns of two lines are taken in the order of the queue, and nobody is
  more than one turn ahead;
- `Sorted`: the LRU list is in the order of the turns in which its pages were last
  used (`Stamp`), within a turn in that of the processes;
- the list is at least as long as there are pages loaded at admission (`Early`);
- `Told`: what was executed is exactly the lines before the program counters.

Suppose page i of a process faults while the page at the end of the list is still
needed. Everybody is in step, so the last page was used so recently that, the list
being sorted, it holds pages i - 1 and i only, each process at most one of either,
and page i of the faulting process is not among them. Those are fewer than the
pages loaded at admission (`TooMany`), but the list never gets shorter. So the
victim is a page that is finished (`VictimEnded`), and the rest of `RInv` is kept.

Without regularity the phase does become "undefined": with four frames, two scripts
of eight lines, some of which return 1, make the LRU list hold a page twice and one
that was never loaded, whose eviction clears position 1000. `PagingOdd` has these
scripts, and checks that it happens with scripts of this kind only.

### A2Kernel

For every frame store of whole frames, every clock limit and every set of
scripts:

- `TypeCorrect`: program counters, frames, queue and clock keep their type;
- `FreeFramesTogether`: `FreeTogether`, for scripts that are not empty and do not
  end in a newline, as in the repository. Without this hypothesis `load_frame` may
  load nothing into a frame it took, which leaves a hole;
- `AbortsOnlyThen`: `AbortsOnly`.

What the invariant adds to the types is `InPage`: the current page is loaded, with
room in the store for the pages counted after it, or is the next to be loaded. It
keeps the program counter inside the store although frames change hands. For the
next two theorems `Shape` is added: behind a free frame everything is free, and
if all scripts have whole pages no frame is used in part.

Two more theorems are about round robin, for the same scripts (`Filled`: not empty,
no newline at the end), every store, any number of processes, both policies and
scripts that start scripts:

- `RunsToTheEnd`: `EndsComplete`;
- `SparesPending`: `EvictsNothingPending`.

The search for a victim looks at `accessed` (LRU) or `age` (FIFO) of the frames and
never at the process a frame belongs to; that it takes no page that is needed
follows from the order of turns. `RInv` says:

- `AllLive`: the processes that have not ended are those in the queue and the one
  that has its turn;
- `Process`, for each of them: its pages that are loaded and not finished are where
  the program counter says (`Located`), no other line in memory is one it has still
  to execute (`NoStray`), what it executed is exactly the lines before (`ran`), and
  only in its first turn and a half are two pages pending (`Shaped`);
- `Rounds`: at least as many frames are used as there are processes, and while one is free
  at least as many as there are first and second pages (`Early`);
- `Budget`: for every page h of a process r that is pending, the frames that a
  search prefers to it (`Older`) are at least as many as the pages that may be
  loaded or touched by others before r touches page h again or finishes it
  (`Events`).

`Events` is counted with turns: `Turns` is the number of turns r needs, `Reach` is
how many lines another process can get on meanwhile, two to a turn, one turn fewer
if it stands behind r in the queue (`Ahead`). At a fault the page to be loaded is
itself such an event for every pending page of the others (`FaultEvent`), so every
pending page has an older frame and is not the victim (`VictimSpent`). The load then
takes one event and at most one older frame from each budget (`LoadRounds`), and a
line that is read does likewise (`ReadRounds`). Passing the turn on lets nobody get
farther than before (`RequeueRounds`, `PopRounds`). A new process stands behind all
others; the one page it may load before they are served is its second, if no frame
was left for it at its admission (`AdmitRounds`).

At the prompt the budget is kept for both policies, since `pagepolicy` may follow.
First-come-first-served is not covered: there a script that another one started
waits until that one has ended, and its pages may be taken meanwhile, which is why
both properties speak of round robin.

### A1Shell

For every size of the table, every set of names, values, scripts and every number
of descriptors; `LineAssumption` says that scripts consist of lines the shell
knows or reports as unknown:

- `TypeCorrect`, `Status99`: the two invariants;
- `Refinement`: the table implements `VariableMap`.

`TypeInv` has the packed table: no name twice, and no entry behind a free one,
which is why the search for a name may stop at the first free entry. `Failed` and
`Hidden` say where the result -1 can be while scripts are open; they make `Ends99`
inductive.

### Only model-checked

- Everything about liveness, which the prover does not handle.
- That a command of a3 with regular scripts stays inside shell memory even if a
  command before it had others (`StaysDefined`); the theorem is for sessions in which all
  scripts are regular.
- The properties of the violated runs, which are false.

## 5. Observed, without a run

What the code does where it is surprising, and where a model has it. None of these
is stated otherwise by the repository in a form a run could refute, or they are
the code's own limits.

Block layer and file system (a3):

- `check_sector` "Panics if not" (`src/a3/fs/block.c:27`), and a panic "Halts the
  OS" (`src/a3/fs/debug.h:16`), but `debug_panic` returns; `BufferCache` makes
  the access. For the same reason a seek to -1 is accepted (`fsutil_seek`).
- `inode_close` says it frees memory with the last reference
  (`src/a3/fs/inode.c:168-170`); `inode_reopen` counts nothing, so the first
  close frees. fragmentation_degree, recover 2 and defragment leave entries of
  the file table that dangle (`OpenAndClose`).
- defragment goes on reading the root directory through the inode that its
  first rm freed, and a second defragment walks the freed list of the first.
  "reduces number of fragmented files to zero" (`src/a3/fs/fsutil2.c:264`) holds
  as long as no operation failed before (`Defragmented`).
- recover 0 never closes the directory it opens: afterwards a second ls or
  find_file lists nothing and a defragment removes nothing, until an rm resets
  the handle. It reads 123 entries of an array that may have fewer, flips bits instead
  of setting them, and does not save the map: the recovered file is in use and
  unmarked after the next start, unless something was allocated before (`recover0`).
- A write continues a text (`AtTextEnd`), but a write after copy_in overwrites
  its last character, because copy_in adds one NUL, not two. A file that copy_in
  finds no space for has no bytes, and its position becomes -2.
- copy_in sets one sector in 123 aside for index blocks, which is too few where a
  file just needs another one (with 255 free sectors it asks for 252, which take
  256): the create fails instead of cutting the file.

Process kernel (a3):

- `src/a3/kernel.c:30-32` says that a process that faults goes to the head of the
  queue; line 61 puts it at the tail, and so does `HandleFault`.
- `count_lines` does not count blank lines, while `load_PAGE` loads them: a script
  with blank lines ends before its last lines. It counts one line too many for a
  script that ends in a newline (`src/a3/pcb.c:130`); if that line starts a page
  of its own, the page is never there and run does not return. `PagingRR` has
  scripts without a final newline, `PagingOdd` all kinds, without liveness.
- A command that returns 1 is taken for a page fault (`src/a3/kernel.c:45`). The
  page that is then loaded may be in the LRU list already; enough of these, and
  the list names a page that was never loaded, whose eviction clears position
  1000 (phase "undefined").
- Freeing a process whose last frame is the last of the store clears the first
  two variables (`src/a3/pcb.c:142`, `VariablesKept`).
- run or exec inside a script frees the PCB that is being executed.

Process kernel (a2):

- A victim page with fewer than three lines makes `mem_free_lines_between` free
  string literals. Any session with a short script and enough pressure on memory
  meets it (`FaultEvict`, phase "abort").
- Frames are never given back after a process ends: once the store is full, every
  later script fails to load.
- A script with a final newline whose length is not a multiple of three has its
  last page loaded twice, and one whose length is a multiple of three asks for an
  empty page; either may take a page that is needed, and then, under round robin
  too, a process may execute a line of another one. The runs use scripts without
  a final newline, like the ones in `src/a2`.
- `pagetable` has ten entries (`src/a2/shellmemory.c:365`), `load_frame` never
  closes its file (line 320), and the buffer for the name in the backing store is
  sized by the name of the script (`src/a2/kernel.c:47`).

Shell (a1):

- my_mkdir of a directory that exists returns -1, and so does my_ls when no child can
  be made, with which main ends the shell with status 99; inside a script the empty line read after a final newline hides
  it (`Ends99`).
- An empty script executes an uninitialised buffer (`Garbage`); my_touch without a
  descriptor closes a null pointer (phase "crashed"); a script that runs itself
  ends because no descriptor is left (`PromptReturns`).

## 6. Not modelled, and why

- Death of the a3 shell above the cache, between the sector writes of a command.
  `SectorStore` says which mixtures of old and new sectors it leaves; above it
  nothing orders the writes of inode, map and directory and nothing repairs them
  at the next start, so no property is promised.
- The words of the bitmap, which is a set here; `inode_deny_write`, which is
  never called; subdirectories, which no command creates.
- recover 1, which reads sectors and writes files of the host, and which bits of the
  map recover 0 flips (`FileCommands` has whether sectors in use end up unmarked;
  `FileSystem` has no recover 0). Paths, but for cat: see `FileCommands`. The arrays of
  `filesys_create` and `filesys_remove` for the name, which have no room for its
  terminating NUL. `fs/partition.c`, which at start-up looks for
  a partition table in sector 0, where the inode of the free map is.
- `run_proc_FIFO` (a3), SJF, AGING, RR30 (a2): not reachable from a command.
- Scripts of a3 that contain run, exec or quit: see the hazard with a note. Scripts of
  a2 that exec several scripts in one line, change the policy or the directory (after
  which the backing store is not found), or quit.
- The variables of a2, which are a table like that of a1; a read of one advances
  the clock of the frames by one.
- Parsing and output. A few of their edges (echo without an argument, a short
  `if`, more words than the array has room for) read uninitialised words.

## 7. Plan

Done: all modules of the table in section 2, and the proofs of section 4.

Every safety invariant and every action property of the passing runs is stated by
a theorem; liveness stays with TLC.
