---------------------------- MODULE FileCommands ----------------------------
(***************************************************************************)
(* The file commands and file tools of the a3 shell and the handles they   *)
(* share: the table of open files with their positions, the list of open   *)
(* inodes, and the handle cwd of the root directory (src/a3/fs/fsutil.c,   *)
(* fsutil2.c, file.c, directory.c, filesys.c, and the open and close of    *)
(* inode.c).                                                               *)
(*                                                                         *)
(* The shell is one thread and one action is one command.  A file is the   *)
(* sequence of its bytes; which sectors hold them is the subject of module *)
(* FileSystem, so a create or a write that needs space may fail here at    *)
(* any time.  An inode is freed by its FIRST close, because inode_reopen   *)
(* counts nothing; whoever else held it then has a pointer to freed        *)
(* memory.  Using such a pointer is undefined: a mere close of it usually  *)
(* goes unnoticed ("lucky"), a read or write through it does anything      *)
(* ("wild").                                                               *)
(*                                                                         *)
(* Of the free map the model keeps whether every sector in use is marked:  *)
(* recover 0 flips bits, and only in memory.  Where the map is unsound, a  *)
(* sector that is written may belong to another file; from the moment it   *)
(* does the model says no more, as after a use of freed memory.            *)
(*                                                                         *)
(* Files are named by plain names.  A path such as /a opens the file a,    *)
(* because filesys_open drops the directory, under a second name in the    *)
(* file table; cat of a path is an action (cat_path), the commands that    *)
(* leave an entry under the second name are not modelled.                  *)
(***************************************************************************)
EXTENDS Integers, Sequences, FiniteSets

CONSTANTS Names,      \* names a command may give a file
          Recovered,  \* the name recover 0 gives a file
          Texts,      \* texts to write, and contents of host files
          Foreign,    \* bytes of other files that a recovered file may have
          Sizes,      \* sizes for create
          Offsets,    \* offsets for seek, numbers of bytes for read
          MaxLength,  \* bound on the length of a file
          MaxLeaks    \* bound on the handles that recover 0 leaves open

NUL == 0

ASSUME TextAssumption == Texts \subseteq Seq(Nat \ {NUL}) \ {<< >>}
ASSUME SizeAssumption == /\ MaxLength \in Nat /\ Sizes \subseteq 0 .. MaxLength
                         /\ Offsets \subseteq Int /\ MaxLeaks \in Nat

VARIABLES content,     \* the bytes of each file, Absent if there is no such file
          file_table,  \* position and inode of each open file
          open_inodes, \* what has an inode in the list of open inodes
          cwd,         \* the shared handle of the root directory
          file_list,   \* file_list_head: "null" or a pointer to freed nodes
          deleted,     \* content of a removed file that recover 0 would find
          marked,      \* another file has, or has had, sectors of its data
          map,         \* "sound": sectors in use are marked; "unsaved": on disk they
                       \* are not; "unsound": some may not be marked at all
          phase,       \* "run", "undefined" or "killed"
          tooled,      \* a tool that closes inodes of others has run
          written,     \* files whose position was set last by a write to their text
          recovered,   \* recover 0 has added a file since the last rm
          origin       \* text a file was copied in from and still has

vars == <<content, file_table, open_inodes, cwd, file_list, deleted, marked, map, phase,
          tooled, written, recovered, origin>>
disk == <<deleted, marked, map>>
history == <<tooled, written, recovered, origin>>

AllNames == Names \cup {Recovered}
Root == "root"              \* stands for the inode of the root directory, which is no file
ASSUME NameAssumption == Root \notin AllNames

Absent == <<-1>>
Closed == [pos |-> 0, inode |-> "none"]   \* inode: "none", "live" or "freed"
NoDir == [open_cnt |-> 0, pos |-> "start"]
NoText == <<-1>>

Bytes == {NUL} \cup UNION {{t[k] : k \in 1 .. Len(t)} : t \in Texts}
Contents == (UNION {[1 .. n -> Bytes] : n \in 0 .. MaxLength}) \cup {Absent}
ASSUME ForeignAssumption == Foreign \subseteq Contents \ {Absent}

Least(m, n) == IF m <= n THEN m ELSE n
Zeros(n) == [k \in 1 .. n |-> NUL]

\* The text of a file: its bytes up to the first NUL.
Text(c) == SubSeq(c, 1, Cardinality({k \in 1 .. Len(c) : \A j \in 1 .. k : c[j] # NUL}))

-----------------------------------------------------------------------------
\* Commands are built from the operators below, which take the state of the
\* handles and return the next one.  The field fault is "none", "lucky" or
\* "wild": the worst use so far of memory, or of a sector, that is not the
\* command's own.

State == [content |-> content, table |-> file_table, open |-> open_inodes, cwd |-> cwd,
          list |-> file_list, fault |-> "none"]

Files(s) == {f \in AllNames : s.content[f] # Absent}

Lucky(s) == [s EXCEPT !.fault = IF @ = "none" THEN "lucky" ELSE @]
Wild(s) == [s EXCEPT !.fault = "wild"]

\* inode_close of the inodes of X, each of which is in the list of open inodes:
\* they are freed, and entries of the file table that share them dangle.
inode_close(s, X) ==
    [s EXCEPT !.open = @ \ X,
              !.table = [f \in AllNames |-> IF f \in X /\ @[f].inode = "live"
                                            THEN [@[f] EXCEPT !.inode = "freed"] ELSE @[f]]]

\* filesys_open and add_to_file_table, for a file that is not in the table.
add_to_file_table(s, f) == [s EXCEPT !.open = @ \cup {f},
                                     !.table[f] = [pos |-> 0, inode |-> "live"]]

\* What read, write, size and seek start with.
get_file_by_fname(s, f) == IF s.table[f].inode = "none" THEN add_to_file_table(s, f) ELSE s

\* Mutant: the file is closed and its entry stays.
MutEntryKept(s, f) == [s EXCEPT !.open = @ \ {f}]

\* file_close through the table: closing a freed inode is undefined.
remove_from_file_table(s, f) ==
    LET t == [s EXCEPT !.table[f] = Closed]
    IN  CASE s.table[f].inode = "none"  -> s
          [] s.table[f].inode = "live"  -> [t EXCEPT !.open = @ \ {f}]
          [] s.table[f].inode = "freed" -> Lucky(t)

\* How many of n bytes inode_read_at delivers from position p, p >= 0.
inode_read_at(c, p, n) == IF p >= Len(c) THEN 0 ELSE Least(n, Len(c) - p)

\* file_read, through the table.  Positions before the file are not checked:
\* they index memory before a buffer.
file_read(s, f, n) ==
    LET p == s.table[f].pos
    IN  IF n <= 0 THEN s
        ELSE IF s.table[f].inode = "freed" \/ p < 0 THEN Wild(s)
        ELSE [s EXCEPT !.table[f].pos = p + inode_read_at(s.content[f], p, n)]

\* Mutant: written one byte further on.
MutWriteAfter(c, p, d) ==
    [k \in 1 .. (IF Len(c) >= p + Len(d) THEN Len(c) ELSE p + Len(d)) |->
        CASE k \in p + 2 .. p + Len(d) -> d[k - p - 1]
          [] k <= p + 1 /\ k > Len(c)  -> NUL
          [] OTHER                     -> IF k <= Len(c) THEN c[k] ELSE NUL]

\* The bytes of c after d was written at position p; a gap is filled with NUL.
inode_write_at(c, p, d) ==
    [k \in 1 .. (IF Len(c) >= p + Len(d) THEN Len(c) ELSE p + Len(d)) |->
        CASE k \in p + 1 .. p + Len(d) -> d[k - p]
          [] k <= p /\ k > Len(c)      -> NUL
          [] OTHER                     -> c[k]]

\* Mutant: the terminating NUL is left to the caller.
MutNoTerminator(d) == d

\* file_write puts a NUL over the last byte of the buffer, or before the buffer
\* when there is none.
Terminated(d) == IF d = << >> THEN d ELSE [d EXCEPT ![Len(d)] = NUL]

\* Mutant: steps back over one NUL only.
MutStepBack(n) == n - 1

\* How far file_write moves the position after n bytes were written.
Advance(n) == n - 2

\* file_write through the table; a write that needs space may not get it.
file_write(s, f, d, ok) ==
    LET p == s.table[f].pos
    IN  IF s.table[f].inode = "freed" \/ p < 0 THEN Wild(s)
        ELSE IF ok
        THEN [(IF d = << >> THEN Lucky(s) ELSE s)
                 EXCEPT !.content[f] = inode_write_at(@, p, Terminated(d)),
                        !.table[f].pos = p + Advance(Len(d))]
        ELSE [s EXCEPT !.table[f].pos = p + Advance(0)]

-----------------------------------------------------------------------------
\* The root directory.

dir_open_root(s) ==
    IF s.cwd = NoDir THEN [s EXCEPT !.cwd = [open_cnt |-> 1, pos |-> "start"],
                                    !.open = @ \cup {Root}]
    ELSE [s EXCEPT !.cwd.open_cnt = @ + 1]

dir_close(s) ==
    IF s.cwd.open_cnt = 1 THEN inode_close([s EXCEPT !.cwd = NoDir], {Root})
    ELSE [s EXCEPT !.cwd.open_cnt = @ - 1]

\* What a loop over dir_readdir yields: everything, or nothing if the shared
\* handle has been read to the end before.
dir_readdir(s) == IF s.cwd.pos = "start" THEN Files(s) ELSE {}

AtEnd(s) == [s EXCEPT !.cwd.pos = "end"]

\* Mutant: cwd survives the close of the other handle.
MutCwdKept(s, f) == inode_close([s EXCEPT !.content[f] = Absent], {Root, f})

\* filesys_remove: the directory handle it closes is cwd, or a second one on the
\* same inode; in both cases the root's inode is freed and cwd is forgotten.
filesys_remove(s, f) ==
    inode_close([s EXCEPT !.content[f] = Absent, !.cwd = NoDir], {Root, f})

-----------------------------------------------------------------------------
Init == /\ content = [f \in AllNames |-> Absent]
        /\ file_table = [f \in AllNames |-> Closed]
        /\ open_inodes = {}
        /\ cwd = NoDir
        /\ file_list = "null"
        /\ deleted = Absent /\ marked = FALSE /\ map = "sound"
        /\ phase = "run"
        /\ tooled = FALSE /\ written = {} /\ recovered = FALSE
        /\ origin = [f \in AllNames |-> NoText]

\* A command ends in the state s; having used freed memory it may have ended
\* the definedness of everything, of which the model only keeps the fact.
Becomes(new) ==
    /\ phase = "run"
    /\ \E s \in {new} :
          /\ content' = s.content /\ file_table' = s.table /\ open_inodes' = s.open
          /\ cwd' = s.cwd /\ file_list' = s.list
          /\ \/ s.fault # "wild" /\ UNCHANGED phase
             \/ s.fault # "none" /\ phase' = "undefined"

\* Commands for a file that does not exist leave all as it is and have no action.

\* A command that writes to sectors of files.
Writes(s) == IF map = "unsound" THEN Lucky(s) ELSE s

\* The map once free_map_allocate or free_map_release has written it to the disk.
Saved == IF map = "unsaved" THEN "sound" ELSE map

\* Sectors are allocated: those of the removed file's inode and data may be among
\* them.  With an unsound map another file may have them in any case.
Reuse == /\ deleted' \in {deleted, Absent}
         /\ marked' \in IF deleted' \in {Absent, << >>} THEN {FALSE}
                       ELSE {marked \/ map = "unsound", TRUE}

\* The position of f was not set by a write.
Moved(f) == written' = written \ {f}

\* create f n, for a name that is free.
fsutil_create(f, n) ==
    /\ f \notin Files(State)
    /\ Becomes(Writes([State EXCEPT !.content[f] = Zeros(n)]))
    /\ Reuse /\ map' = Saved
    /\ UNCHANGED history

\* A create or copy_in for which there is no space, or no room for the name because
\* it is taken or the directory is full: filesys_create gives the sector of the
\* inode back but not those of the n bytes of data, and recover 0 finds the inode.
CreateFails(n) ==
    /\ Becomes(Writes(State))
    /\ \/ Reuse
       \/ deleted' = Zeros(n) /\ marked' = (n > 0)
    /\ map' \in {map, Saved}
    /\ UNCHANGED history

\* What the interpreter makes of the words of write f t: the text and two NULs.
WriteBuffer(t) == t \o Zeros(2)

\* write f t.
fsutil_write(f, t) ==
    LET s == get_file_by_fname(State, f)
        end == s.table[f].pos + Len(WriteBuffer(t))
        grows == end > Len(content[f])
    IN  /\ f \in Files(State)
        /\ end <= MaxLength
        /\ \E ok \in IF grows THEN BOOLEAN ELSE {TRUE} :
              /\ Becomes(Writes(file_write(s, f, WriteBuffer(t), ok)))
              /\ written' = IF ok /\ s.table[f].pos \in 0 .. Len(Text(content[f]))
                            THEN written \cup {f} ELSE written \ {f}
        /\ origin' = [origin EXCEPT ![f] = NoText]
        /\ IF grows THEN Reuse /\ map' \in {map, Saved} ELSE UNCHANGED disk
        /\ UNCHANGED <<tooled, recovered>>

\* read f n; for -1 the buffer is empty and nothing is read.
fsutil_read(f, n) ==
    /\ n >= -1
    /\ f \in Files(State)
    /\ Becomes(file_read(get_file_by_fname(State, f), f, n))
    /\ Moved(f)
    /\ UNCHANGED <<disk, tooled, recovered, origin>>

\* The handles and positions of a new process, or of one that is gone.
NoHandles == /\ file_table' = [f \in AllNames |-> Closed]
             /\ open_inodes' = {} /\ cwd' = NoDir /\ file_list' = "null"
             /\ tooled' = FALSE /\ written' = {} /\ recovered' = FALSE

\* read of any name with n below -1: malloc of so large a buffer fails, and the memset
\* of it kills the shell before the file is looked up.
NegativeRead(n) ==
    /\ phase = "run" /\ n < -1
    /\ phase' = "killed"
    /\ NoHandles
    /\ UNCHANGED <<content, disk, origin>>

\* size f: an inode is dereferenced and the position kept.
fsutil_size(f) ==
    LET s == get_file_by_fname(State, f)
    IN  /\ f \in Files(State)
        /\ Becomes(IF s.table[f].inode = "freed" THEN Wild(s) ELSE s)
        /\ UNCHANGED <<disk, history>>

\* seek f n: only the position changes, and any is accepted.
fsutil_seek(f, n) ==
    /\ f \in Files(State)
    /\ Becomes([get_file_by_fname(State, f) EXCEPT !.table[f].pos = n])
    /\ Moved(f)
    /\ UNCHANGED <<disk, tooled, recovered, origin>>

\* cat f: reads from the start and puts the position back; closes what it opened.
fsutil_cat(f) ==
    /\ f \in Files(State)
    /\ Becomes(CASE file_table[f].inode = "none"  -> remove_from_file_table(add_to_file_table(State, f), f)
                 [] file_table[f].inode = "live"  -> State
                 [] file_table[f].inode = "freed" -> Wild(State))
    /\ UNCHANGED <<disk, history>>

\* cat of a path to f: another name in the table and the same inode, which cat closes,
\* so that an entry of f dangles.
cat_path(f) ==
    /\ f \in Files(State)
    /\ Becomes(inode_close(State, {f}))
    /\ tooled' = (tooled \/ file_table[f].inode = "live")
    /\ UNCHANGED <<disk, written, recovered, origin>>

\* rm f, also of a name that does not exist.  Of two removed files recover 0 may find
\* the older one, whose data the other file has had.
fsutil_rm(f) ==
    /\ Becomes(filesys_remove(remove_from_file_table(State, f), f))
    /\ IF f \in Files(State)
       THEN /\ \/ deleted' = content[f] /\ marked' = FALSE
               \/ marked /\ UNCHANGED <<deleted, marked>>
            /\ map' = Saved
       ELSE UNCHANGED disk
    /\ Moved(f)
    /\ origin' = [origin EXCEPT ![f] = NoText]
    /\ recovered' = FALSE
    /\ UNCHANGED tooled

\* ls.
fsutil_ls == LET s == dir_open_root(State)
             IN  /\ Becomes(dir_close(AtEnd(s)))
                 /\ UNCHANGED <<disk, history>>

-----------------------------------------------------------------------------
\* The tools.

\* copy_in of a host file with text t: a file of n bytes is created and written,
\* n - 1 of them from the host file.  With one free sector n is 0.
copy_in(f, t) ==
    /\ f \notin Files(State)
    /\ Len(t) + 1 <= MaxLength
    /\ \E n \in 0 .. Len(t) + 1 :
          /\ Becomes(Writes(file_write(add_to_file_table([State EXCEPT !.content[f] = Zeros(n)], f),
                                       f, SubSeq(t \o Zeros(1), 1, n), TRUE)))
          /\ origin' = [origin EXCEPT ![f] = IF n = Len(t) + 1 THEN t ELSE NoText]
    /\ Moved(f)
    /\ Reuse /\ map' = Saved
    /\ UNCHANGED <<tooled, recovered>>

\* copy_out f: the inode is shared with the entry of the table, which is then
\* closed; the file that was opened directly is never closed.
copy_out(f) ==
    LET s == get_file_by_fname([State EXCEPT !.open = @ \cup {f}], f)
    IN  /\ f \in Files(State)
        /\ Becomes(remove_from_file_table([s EXCEPT !.table[f].pos = 0], f))
        /\ Moved(f)
        /\ UNCHANGED <<disk, tooled, recovered, origin>>

\* find_file: found_in_file opens each file and reads it from its position; whether
\* it holds the pattern is only printed.  An empty file makes strstr look into a
\* buffer of no bytes.
find_file ==
    LET s0 == dir_open_root(State)
        L == dir_readdir(s0)
        Opened(f) == get_file_by_fname(s0, f)
        Read(f) == file_read(Opened(f), f, Len(content[f]))
        faults == {Read(f).fault : f \in L}
        s1 == [s0 EXCEPT !.table = [f \in AllNames |-> IF f \in L THEN Read(f).table[f] ELSE @[f]],
                         !.open = @ \cup {f \in L : file_table[f].inode = "none"},
                         !.fault = CASE "wild" \in faults -> "wild"
                                     [] \E f \in L : content[f] = << >> -> "lucky"
                                     [] OTHER -> "none"]
    IN  /\ Becomes(dir_close(AtEnd(s1)))
        /\ written' = written \ L
        /\ UNCHANGED <<disk, tooled, recovered, origin>>

\* Every file of the directory is opened and closed again, which frees the
\* inodes of those in the file table.
OpenAndClose(s) == LET L == dir_readdir(s) IN inode_close(AtEnd(s), L)

fragmentation_degree ==
    /\ Becomes(dir_close(OpenAndClose(dir_open_root(State))))
    /\ tooled' = TRUE
    /\ UNCHANGED <<disk, written, recovered, origin>>

\* recover 2 looks behind the end of each file and writes what it finds to the
\* host; its handles are those of fragmentation_degree.
recover2 == fragmentation_degree

\* defragment: all files are read, removed and written again.  The loop of
\* removals goes on reading the directory through an inode that the first
\* fsutil_rm freed; the list of files is never emptied, so a second defragment
\* walks freed nodes.
RemoveAll(s, R) ==
    IF R = {} THEN dir_close(AtEnd(s))
    ELSE Lucky(inode_close([s EXCEPT !.content = [f \in AllNames |-> IF f \in R THEN Absent ELSE @[f]],
                                     !.table = [f \in AllNames |-> IF f \in R THEN Closed ELSE @[f]],
                                     !.cwd = NoDir],
                           {Root}))

\* fsutil_create and fsutil_write for the files L.  Their space was released, so
\* it is there; a file that was not removed is written over, through the table.
WriteAll(s, L) ==
    [s EXCEPT !.content = [f \in AllNames |-> IF f \in L THEN Terminated(content[f]) ELSE @[f]],
              !.table = [f \in AllNames |-> IF f \in L
                           THEN [pos |-> Advance(Len(content[f])), inode |-> "live"] ELSE @[f]],
              !.open = @ \cup L,
              !.fault = IF \E f \in L : s.table[f].inode = "freed" THEN "wild" ELSE @]

\* What recover 0 would find of the files L, of which R were removed before all were
\* created again: the old inode of a removed file, or the inode of a create that
\* failed because its name was still taken.
Recreated(L, R) ==
    \/ Reuse
    \/ \E f \in R : deleted' = content[f] /\ marked' \in {FALSE, content[f] # << >>}
    \/ R = {} /\ \E f \in L : /\ deleted' = Zeros(Len(content[f]))
                             /\ marked' = (content[f] # << >>)

defragment ==
    LET s0 == dir_open_root(State)
        L == dir_readdir(s0)
        s1 == dir_open_root(dir_close(OpenAndClose(s0)))
        s2 == RemoveAll(s1, dir_readdir(s1))
        s3 == WriteAll(s2, L)
        s4 == IF L = {} THEN s3 ELSE Writes(s3)
    IN  /\ Becomes(IF file_list # "null" THEN Wild(s4)
                   ELSE [s4 EXCEPT !.list = IF L = {} THEN "null" ELSE "freed"])
        /\ tooled' = (tooled \/ L # {})
        /\ written' = {}
        /\ recovered' = (recovered /\ dir_readdir(s1) = {})
        /\ IF L = {} THEN UNCHANGED disk ELSE Recreated(L, dir_readdir(s1)) /\ map' = Saved
        /\ UNCHANGED origin

\* recover 0, when it finds one removed inode: it flips the bits of the inode and of
\* its data, in memory only, and adds a name through a handle that is never closed.
\* It takes 123 sector numbers from an array that has one for each sector of the
\* file, so it reads, and flips bits, behind the arrays.  Bits of data that another
\* file has by now are cleared, and the file recovered has the other's bytes.
\* With an unsound map the inode found may be that of a file in use.
\* Free sectors without an inode are only read, and change nothing: also where
\* get_inode_data_sectors takes them for one, it stays inside its array.
recover0 ==
    \/ /\ deleted # Absent
       /\ cwd.open_cnt < MaxLeaks
       /\ \E c \in {deleted} \cup Foreign, m \in {"unsaved", "unsound"} :
             /\ Len(c) = Len(deleted)
             /\ IF marked \/ map = "unsound" THEN m = "unsound" ELSE c = deleted
             /\ Becomes(Lucky([dir_open_root(State) EXCEPT
                                  !.content[Recovered] = IF @ = Absent THEN c ELSE @]))
             /\ map' = m
       /\ deleted' = Absent /\ marked' = FALSE
       /\ recovered' = TRUE
       /\ UNCHANGED <<tooled, written, origin>>
    \/ /\ map = "unsound"
       /\ Becomes(Wild(State))
       /\ UNCHANGED <<disk, history>>

\* quit and a new start.  The cache is flushed before the table is freed, so it
\* does not matter what the closing of freed inodes does.  The map is not written.
Restart ==
    /\ phase = "run"
    /\ NoHandles
    /\ map' = IF map = "unsaved" THEN "unsound" ELSE map
    /\ UNCHANGED <<content, deleted, marked, phase, origin>>

Next == \/ \E f \in Names, n \in Sizes : fsutil_create(f, n)
        \/ \E n \in Sizes : CreateFails(n)
        \/ \E f \in Names, t \in Texts : fsutil_write(f, t)
        \/ \E f \in AllNames, n \in Offsets : fsutil_read(f, n)
        \/ \E n \in Offsets : NegativeRead(n)
        \/ \E f \in AllNames : fsutil_size(f)
        \/ \E f \in Names, n \in Offsets : fsutil_seek(f, n)
        \/ \E f \in AllNames : fsutil_cat(f)
        \/ \E f \in AllNames : cat_path(f)
        \/ \E f \in AllNames : fsutil_rm(f)
        \/ fsutil_ls
        \/ \E f \in Names, t \in Texts : copy_in(f, t)
        \/ \E f \in AllNames : copy_out(f)
        \/ find_file
        \/ fragmentation_degree
        \/ defragment
        \/ recover0
        \/ recover2
        \/ Restart

Spec == Init /\ [][Next]_vars
-----------------------------------------------------------------------------
\* The type of the state.
TypeOK == /\ \A f \in AllNames : content[f] \in Contents
          /\ \A f \in AllNames : /\ file_table[f].pos \in (-2 .. MaxLength) \cup Offsets
                                 /\ file_table[f].inode \in {"none", "live", "freed"}
          /\ open_inodes \subseteq AllNames \cup {Root}
          /\ cwd.open_cnt \in 0 .. MaxLeaks /\ cwd.pos \in {"start", "end"}
          /\ file_list \in {"null", "freed"}
          /\ deleted \in Contents /\ marked \in BOOLEAN
          /\ map \in {"sound", "unsaved", "unsound"}
          /\ written \subseteq AllNames
          /\ phase \in {"run", "undefined", "killed"}

\* The state has its type, and the file table, the list of open inodes and the
\* directory agree: entries are for files that exist, the root's inode is open
\* exactly while cwd is set, which between two commands it is only if recover 0
\* left it so (then the next ls may list nothing; otherwise it lists all), and until
\* one of the tools, or a cat through a path, has closed inodes it shares, every
\* entry has a live inode and every open inode has an entry: nothing dangles and
\* nothing leaks, whatever copy_out, find_file, cat and rm opened and closed in
\* between.
HandlesAgree ==
    /\ TypeOK
    /\ phase = "run" /\ cwd # NoDir => recovered
    /\ \A f \in AllNames : file_table[f].inode # "none" => content[f] # Absent
    /\ Root \in open_inodes <=> cwd # NoDir
    /\ \A f \in AllNames : file_table[f].inode = "live" => f \in open_inodes
    /\ ~tooled => \A f \in AllNames :
          /\ file_table[f].inode # "freed"
          /\ f \in open_inodes => file_table[f].inode = "live"

\* Freed memory, memory outside an array or a sector of another file is used only
\* after a tool, or a cat through a path, closed the inodes of others, after recover 0
\* changed the map, after a position was set before the start of a file, or with an
\* empty file at hand.
DefinedOtherwise ==
    phase = "undefined" =>
        tooled \/ map # "sound" \/ \E f \in AllNames : content[f] = << >> \/ file_table[f].pos < 0

\* Unless recover 0 has left sectors in use unmarked, the last byte of a file is a
\* NUL, as strstr in found_in_file and the tests of copy_out need: whatever was
\* written where, copied in, recovered or moved by defragment.
EndsInNul == map # "unsound" => \A f \in AllNames :
    content[f] \notin {Absent, << >>} => content[f][Len(content[f])] = NUL

\* After a write the position is at the end of the text, on the first of the two
\* NULs, so that the next write continues the text.
AtTextEnd == phase = "run" => \A f \in written : file_table[f].pos = Len(Text(content[f]))

\* Unless recover 0 has left sectors in use unmarked, a host file that was copied in
\* completely is what copy_out would write, until the file is written to or removed;
\* searching, listing, defragmenting, creating and recovering other files and
\* restarting make no difference.
CopyIntact == phase = "run" /\ map # "unsound" =>
    \A f \in AllNames : origin[f] # NoText => Text(content[f]) = origin[f]

=============================================================================
