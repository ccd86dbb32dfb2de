----------------------------- MODULE FileSystem -----------------------------
(***************************************************************************)
(* Allocation of sectors in the file system of a3: the free map, the       *)
(* inodes with their direct, indirect and doubly indirect blocks, the root *)
(* directory and the table of open files (src/a3/fs/free-map.c, bitmap.c,  *)
(* inode.c, directory.c, filesys.c, file.c, fsutil.c).                     *)
(*                                                                         *)
(* The shell is one thread: one action is one command.  Sectors are what   *)
(* the buffer cache shows (module SectorStore); of their contents only the *)
(* pointers are kept, and lengths count sectors.  An open file has its own *)
(* copy of the inode in memory; what a failed call changed in that copy is *)
(* not written to the inode's sector.                                      *)
(*                                                                         *)
(* Left out: directories other than the root, a root directory that grows, *)
(* and the negative position that a failed write leaves behind (file.c).   *)
(***************************************************************************)
EXTENDS Integers, Sequences, FiniteSets

CONSTANTS Names,       \* file names
          MapSize,     \* bits of the free map: the sectors of the device, less one
          Reserved,    \* sectors in use after formatting: 0 .. Reserved - 1
          Direct,      \* DIRECT_BLOCKS_COUNT
          PerSector,   \* INDIRECT_BLOCKS_PER_SECTOR
          MaxLength    \* bound on the length of a file, in sectors

ASSUME MapAssumption == /\ Reserved \in Nat /\ Reserved >= 2
                        /\ MapSize \in Nat /\ MapSize >= Reserved
ASSUME BlockAssumption == Direct \in Nat /\ PerSector \in Nat \ {0}
ASSUME LengthAssumption ==
    MaxLength \in 1 .. Direct + PerSector + PerSector * PerSector

VARIABLES free_map,    \* the sectors marked in the bitmap
          map_inode,   \* sector 0 still holds the inode of the free map
          map_open,    \* free_map_file has a length, as read at start-up
          directory,   \* sector of each name's inode, 0 for no entry
          inodes,      \* sectors as inodes
          blocks,      \* sectors as blocks of pointers
          file_table,  \* the inode in memory of each open file
          failed       \* a create or a write has failed since the format

vars == <<free_map, map_inode, map_open, directory, inodes, blocks, file_table, failed>>

Sectors == 0 .. MapSize - 1
Nil == 0                     \* a pointer to no sector
Pointers == 1 .. Direct + 2  \* direct blocks, indirect block, doubly indirect block
Slots == 1 .. PerSector

Inode == [length : 0 .. MaxLength, ptr : [Pointers -> Sectors]]
EmptyInode == [length |-> 0, ptr |-> [k \in Pointers |-> Nil]]
Zeros == [j \in Slots |-> Nil]
Closed == [length |-> -1]    \* the file is not in the file table

Files == {f \in Names : directory[f] # Nil}
Opened == {f \in Names : file_table[f] # Closed}

-----------------------------------------------------------------------------
\* The tree of blocks under an inode.  A path is a pointer of the inode, then
\* slots of the blocks below it; path order is the order of allocation.

\* The path to the k-th data sector, k >= 1.
index_to_sector(k) ==
    CASE k <= Direct             -> <<k>>
      [] k \in Direct + 1 .. Direct + PerSector -> <<Direct + 1, k - Direct>>
      [] OTHER -> LET m == k - Direct - PerSector - 1
                  IN  <<Direct + 2, (m \div PerSector) + 1, (m % PerSector) + 1>>

\* The paths that n sectors of data need, index blocks included.
Need(n) == UNION {{SubSeq(index_to_sector(k), 1, l) : l \in 1 .. Len(index_to_sector(k))}
                     : k \in 1 .. n}

Children(p) == {Append(p, j) : j \in Slots}
Above(p, q) == Len(p) < Len(q) /\ SubSeq(q, 1, Len(p)) = p

\* p comes before q in the loops of inode_reserve, or is q.
Before(p, q) ==
    \/ p = q
    \/ Above(p, q)
    \/ \E l \in 1 .. Len(p) : /\ l <= Len(q)
                              /\ p[l] < q[l]
                              /\ \A h \in 1 .. l - 1 : p[h] = q[h]

Follow(s, j) == IF s = Nil THEN Nil ELSE blocks[s][j]

\* The sector a path of the inode leads to.
Entry(node, p) ==
    CASE Len(p) = 1 -> node.ptr[p[1]]
      [] Len(p) = 2 -> Follow(node.ptr[p[1]], p[2])
      [] OTHER      -> Follow(Follow(node.ptr[p[1]], p[2]), p[3])

-----------------------------------------------------------------------------
\* Mutant: the scan runs one bit too far.
MutScanPast(marked) == IF map_open THEN (0 .. MapSize) \ marked ELSE {}

\* The sectors free_map_allocate can hand out.  When the free map file has no
\* length, bitmap_write tries to extend it, which allocates again, and so on
\* until the map is full; then every one of these allocations is taken back.
Free(marked) == IF map_open THEN Sectors \ marked ELSE {}

\* Mutant: the bit is not flipped before the next scan.
MutNoFlip(marked, k) == CHOOSE s \in Free(marked) : \A t \in Free(marked) : s <= t

\* The k-th allocation takes the k-th lowest free sector.
free_map_allocate(marked, k) ==
    CHOOSE s \in Free(marked) : Cardinality({t \in Free(marked) : t <= s}) = k

\* inode_reserve: the missing entries are allocated in order.  The indirect
\* blocks read and filled on the way are written only when all that was needed
\* below them is there; an indirect block that cannot be allocated is not
\* noticed until its first entry fails, and sector 0 is zeroed in its place.
inode_reserve(marked, node, n) ==
    LET need    == Need(n)
        missing == {p \in need : Entry(node, p) = Nil}
        rank(p) == Cardinality({q \in missing : Before(q, p)})
        room    == Cardinality(Free(marked))
        got     == {p \in missing : rank(p) <= room}
        entry   == [p \in need |-> IF p \in got THEN free_map_allocate(marked, rank(p))
                                   ELSE Entry(node, p)]
        index   == {p \in need : Children(p) \cap need # {}}
        written == {p \in index : \A q \in need : Above(p, q) => entry[q] # Nil}
        Block(p) == [j \in Slots |->
                       IF Append(p, j) \in need THEN entry[Append(p, j)]
                       ELSE IF p \in got THEN Nil ELSE Follow(entry[p], j)]
        taken   == {entry[p] : p \in got}
    IN  [ok     |-> n >= 0 /\ got = missing,
         marked |-> marked \cup taken,
         ptr    |-> [k \in Pointers |-> IF <<k>> \in need THEN entry[<<k>>] ELSE node.ptr[k]],
         blocks |-> [s \in Sectors |->
                       IF \E p \in written : entry[p] = s
                       THEN Block(CHOOSE p \in written : entry[p] = s)
                       ELSE IF s \in taken THEN Zeros ELSE blocks[s]],
         zeroed |-> \E p \in missing \cap index : rank(p) = room + 1]

\* Mutant: the index blocks are not released.
MutKeepIndex(node) == {Entry(node, index_to_sector(k)) : k \in 1 .. node.length}

\* The sectors inode_deallocate releases: those the length accounts for.
inode_deallocate(node) == {Entry(node, p) : p \in Need(node.length)}

-----------------------------------------------------------------------------
\* do_format: the inodes and data of the free map and the root directory.
do_format == 0 .. Reserved - 1

\* filesys_init with -f on a new device.
Init == /\ free_map = do_format
        /\ map_inode = TRUE
        /\ map_open = TRUE
        /\ directory = [f \in Names |-> Nil]
        /\ inodes = [s \in Sectors |-> EmptyInode]
        /\ blocks = [s \in Sectors |-> Zeros]
        /\ file_table = [f \in Names |-> Closed]
        /\ failed = FALSE

\* What inode_create writes to sector s once its blocks are reserved.
inode_create(s, n, r) == [inodes EXCEPT ![s] = [length |-> n, ptr |-> r.ptr]]

dir_add(f, s) == directory' = [directory EXCEPT ![f] = s]

\* create f n, when an inode sector can be had: on failure, of the blocks or
\* because the name exists, this sector alone is released.
filesys_create(f, n) ==
    /\ Free(free_map) # {}
    /\ LET s == free_map_allocate(free_map, 1)
           r == inode_reserve(free_map \cup {s}, EmptyInode, n)
       IN  /\ map_inode' = (map_inode /\ ~r.zeroed)
           /\ blocks' = r.blocks
           /\ \/ /\ r.ok /\ f \notin Files
                 /\ free_map' = r.marked
                 /\ inodes' = inode_create(s, n, r)
                 /\ dir_add(f, s)
                 /\ UNCHANGED failed
              \/ /\ ~r.ok \/ f \in Files
                 /\ free_map' = r.marked \ {s}
                 /\ failed' = TRUE
                 /\ UNCHANGED <<inodes, directory>>
    /\ UNCHANGED <<map_open, file_table>>

\* The same when no sector is free: nothing changes but the answer.
CreateNoSpace == /\ Free(free_map) = {}
                 /\ failed' = TRUE
                 /\ UNCHANGED <<free_map, map_inode, map_open, directory, inodes, blocks, file_table>>

-----------------------------------------------------------------------------
\* A file that is not open yet gets a copy of the inode in its sector.
inode_open(f) == inodes[directory[f]]

\* The inode that read, size, seek and write work on.
filesys_open(f) == IF f \in Opened THEN file_table[f] ELSE inode_open(f)

add_to_file_table(f, node) == file_table' = [file_table EXCEPT ![f] = node]

remove_from_file_table(f) == file_table' = [file_table EXCEPT ![f] = Closed]

\* read, size or seek of f; a write inside f does the same.
fsutil_read(f) ==
    /\ f \in Files
    /\ add_to_file_table(f, filesys_open(f))
    /\ UNCHANGED <<free_map, map_inode, map_open, directory, inodes, blocks, failed>>

\* Mutant: the length is set although the blocks could not be reserved.
MutLengthFirst(node, r, n) == [length |-> n, ptr |-> r.ptr]

\* The inode in memory after inode_reserve.
Grown(node, r, n) == [length |-> IF r.ok THEN n ELSE node.length, ptr |-> r.ptr]

\* Mutant: the inode is never written back.
MutNotSaved(f, node, ok) == inodes

\* The inode sectors after a write: saved only if all went well.
Saved(f, node, ok) == IF ok THEN [inodes EXCEPT ![directory[f]] = node] ELSE inodes

\* A write past the end, so that the file needs n sectors (the same number if
\* it grows within the last one).
inode_write_at(f, node, n) ==
    LET r == inode_reserve(free_map, node, n)
    IN  /\ n >= node.length
        /\ free_map' = r.marked
        /\ blocks' = r.blocks
        /\ map_inode' = (map_inode /\ ~r.zeroed)
        /\ add_to_file_table(f, Grown(node, r, n))
        /\ inodes' = Saved(f, Grown(node, r, n), r.ok)
        /\ failed' = (failed \/ ~r.ok)

fsutil_write(f, n) == /\ f \in Files
                      /\ inode_write_at(f, filesys_open(f), n)
                      /\ UNCHANGED <<map_open, directory>>

fsutil_close(f) ==
    /\ f \in Opened
    /\ remove_from_file_table(f)
    /\ UNCHANGED <<free_map, map_inode, map_open, directory, inodes, blocks, failed>>

free_map_release(R) == free_map' = free_map \ R

\* What inode_close releases for a removed file, whose inode was read again
\* from its sector.  Contents of released sectors are forgotten: whoever is
\* given one of them writes it before it is read again.
inode_close(f) ==
    LET R == {directory[f]} \cup inode_deallocate(inode_open(f))
    IN  /\ free_map_release(R)
        /\ inodes' = [s \in Sectors |-> IF s \in R THEN EmptyInode ELSE inodes[s]]
        /\ blocks' = [s \in Sectors |-> IF s \in R THEN Zeros ELSE blocks[s]]

\* Mutant: the directory entry stays.
MutKeepEntry(f) == inode_close(f) /\ UNCHANGED directory

dir_remove(f) == inode_close(f) /\ directory' = [directory EXCEPT ![f] = Nil]

fsutil_rm(f) == /\ f \in Files
                /\ remove_from_file_table(f)
                /\ dir_remove(f)
                /\ UNCHANGED <<map_inode, map_open, failed>>

-----------------------------------------------------------------------------
\* The tools fragmentation_degree and defragment, for files that are not open
\* (module FileCommands has what they do to files that are).

get_inode_data_sectors(node) == [k \in 1 .. node.length |-> Entry(node, index_to_sector(k))]

\* Sector numbers are unsigned: a step back is a large difference.
fragmented_file(node) ==
    LET sectors == get_inode_data_sectors(node)
    IN  \E k \in 1 .. node.length - 1 : \/ sectors[k + 1] < sectors[k]
                                        \/ sectors[k + 1] - sectors[k] > 3

\* What the removals of defragment release.
Released(F) == UNION {{directory[f]} \cup inode_deallocate(inode_open(f)) : f \in F}

\* What its creates allocate: for each file an inode, the empty path, and then
\* its blocks.
Items(F) == UNION {{<<f, p>> : p \in {<< >>} \cup Need(inode_open(f).length)} : f \in F}

\* The files of F are removed and then created again, in the order of the
\* directory.  When the free map was lost all creates fail.
RemoveAndCreate(F) ==
    /\ Opened = {} /\ F # {}
    /\ \E order \in [F -> 1 .. Cardinality(F)] :
       LET old == Released(F)
           marked == free_map \ old
           items == Items(F)
           Earlier(i, f, p) == \/ order[i[1]] < order[f]
                               \/ i[1] = f /\ Before(i[2], p)
           rank(f, p) == Cardinality({i \in items : Earlier(i, f, p)})
           at == [i \in items |-> free_map_allocate(marked, rank(i[1], i[2]))]
           To(f, p) == IF <<f, p>> \in items THEN at[<<f, p>>] ELSE Nil
           node == [f \in F |-> [length |-> inode_open(f).length,
                                 ptr |-> [k \in Pointers |-> To(f, <<k>>)]]]
           Fresh(s) == s \in old \/ \E i \in items : at[i] = s
       IN  /\ \A f, g \in F : f # g => order[f] # order[g]
           /\ \/ /\ map_open
                 /\ Cardinality(items) <= Cardinality(Free(marked))
                 /\ free_map' = marked \cup {at[i] : i \in items}
                 /\ directory' = [f \in Names |-> IF f \in F THEN To(f, << >>) ELSE directory[f]]
                 /\ inodes' = [s \in Sectors |->
                       IF \E f \in F : To(f, << >>) = s
                       THEN node[CHOOSE f \in F : To(f, << >>) = s]
                       ELSE IF Fresh(s) THEN EmptyInode ELSE inodes[s]]
                 /\ blocks' = [s \in Sectors |->
                       IF \E i \in items : at[i] = s /\ Len(i[2]) > 0
                       THEN LET i == CHOOSE i \in items : at[i] = s
                            IN  [j \in Slots |-> To(i[1], Append(i[2], j))]
                       ELSE IF Fresh(s) THEN Zeros ELSE blocks[s]]
                 /\ file_table' = [f \in Names |-> IF f \in F THEN node[f] ELSE Closed]
                 /\ UNCHANGED failed
              \/ /\ ~map_open
                 /\ free_map' = marked
                 /\ directory' = [f \in Names |-> IF f \in F THEN Nil ELSE directory[f]]
                 /\ inodes' = [s \in Sectors |-> IF s \in old THEN EmptyInode ELSE inodes[s]]
                 /\ blocks' = [s \in Sectors |-> IF s \in old THEN Zeros ELSE blocks[s]]
                 /\ failed' = TRUE
                 /\ UNCHANGED file_table
    /\ UNCHANGED <<map_inode, map_open>>

\* Mutant: one file at a time is moved.
MutOneFile == \E f \in Files : RemoveAndCreate({f})

defragment == RemoveAndCreate(Files)

-----------------------------------------------------------------------------
free_file_table == file_table' = [f \in Names |-> Closed]

\* The bits marked before the map is read: its own inode and the root directory's.
free_map_init == {0, 1}

\* The bitmap is read back if its inode is still there; if not, a message is
\* printed and the bits of free_map_init are all there is.
free_map_open == /\ map_open' = map_inode
                 /\ free_map' = IF map_inode THEN free_map ELSE free_map_init

\* quit (filesys_done), and the shell is started again on the same disk.
Restart == /\ free_file_table
           /\ free_map_open
           /\ UNCHANGED <<map_inode, directory, inodes, blocks, failed>>

Next == \/ \E f \in Names, n \in -1 .. MaxLength : filesys_create(f, n)
        \/ CreateNoSpace
        \/ \E f \in Names : fsutil_read(f)
        \/ \E f \in Names, n \in 1 .. MaxLength : fsutil_write(f, n)
        \/ \E f \in Names : fsutil_close(f)
        \/ \E f \in Names : fsutil_rm(f)
        \/ defragment
        \/ Restart

Spec == Init /\ [][Next]_vars

-----------------------------------------------------------------------------
\* The type of the state.
TypeOK == /\ free_map \subseteq Sectors
          /\ map_inode \in BOOLEAN /\ map_open \in BOOLEAN /\ failed \in BOOLEAN
          /\ directory \in [Names -> Sectors]
          /\ inodes \in [Sectors -> Inode]
          /\ blocks \in [Sectors -> [Slots -> Sectors]]
          /\ file_table \in [Names -> Inode \cup {Closed}]

AllPaths == Need(Direct + PerSector + PerSector * PerSector)

\* Every sector an inode points to, used or beyond its length.
Reaches(node) == {Entry(node, p) : p \in AllPaths} \ {Nil}

\* Everything a file holds on to, on disk and in its open inode.
Holds(f) == Reaches(inodes[directory[f]])
               \cup (IF f \in Opened THEN Reaches(file_table[f]) ELSE {})

Owned == (0 .. Reserved - 1) \cup {directory[f] : f \in Files} \cup UNION {Holds(f) : f \in Files}

\* Two paths of an inode never lead to the same sector.
Injective(node) == \A p, q \in AllPaths :
    p # q /\ Entry(node, p) # Nil => Entry(node, p) # Entry(node, q)

\* No sector serves two purposes, whatever failed half-way before: two paths
\* of a file, two files, an inode and a block, or a block and the free map or
\* the root directory.  It holds even after the free map was lost.
NoSharing ==
    /\ \A f \in Files :
          /\ Injective(inodes[directory[f]])
          /\ f \in Opened => Injective(file_table[f])
          /\ Holds(f) \cap (0 .. Reserved - 1) = {}
          /\ directory[f] >= Reserved
          /\ \A g \in Files : directory[g] \notin Holds(f)
    /\ \A f, g \in Files :
          f # g => Holds(f) \cap Holds(g) = {} /\ directory[f] # directory[g]

\* What is in use is marked, so it is not allocated again.
InUseMarked == map_open => Owned \subseteq free_map

\* Until a create or a write fails, no sector is lost either.
NothingLeaks == ~failed => free_map = Owned

\* Every sector within the length of a file is there, on disk and in the open
\* inode: byte_to_sector never yields sector 0, the inode of the free map.
LengthBacked == \A f \in Files :
    /\ Nil \notin inode_deallocate(inodes[directory[f]])
    /\ f \in Opened => Nil \notin inode_deallocate(file_table[f])

\* The inode in memory and the one on disk have the same length, and where the
\* one on disk has a pointer the one in memory has the same.
CopiesAgree == \A f \in Opened :
    /\ f \in Files
    /\ file_table[f].length = inodes[directory[f]].length
    /\ \A k \in Pointers : inodes[directory[f]].ptr[k] \in {Nil, file_table[f].ptr[k]}

\* There is always room for what defragment has removed: whatever failed before,
\* the removals release at least what the creates need.
DefragFits == map_open => Cardinality(Items(Files)) <= Cardinality(Free(free_map \ Released(Files)))

\* fsutil2.c: "defragments; reduces number of fragmented files to zero".  It does
\* as long as no create or write has failed and left sectors behind, although
\* index blocks lie between the data: never more than two, which is what the
\* difference of 3 allows.
Defragmented ==
    [][defragment /\ ~failed => (\A f \in Files : ~fragmented_file(inode_open(f)))']_vars

\* inode_close: "If INODE was also a removed inode, frees its blocks."
RemoveFreesBlocks ==
    [][\A f \in Files :
          directory'[f] = Nil => free_map' \cap Reaches(inodes[directory[f]]) = {}]_vars

\* filesys_done: "Shuts down the file system module, writing any unwritten data
\* to disk", and free_map_open "reads it from disk": what was marked when the
\* shell quits is marked when it starts again.
MapSurvives == [][Restart => free_map' = free_map]_vars
=============================================================================
