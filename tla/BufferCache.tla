---------------------------- MODULE BufferCache ----------------------------
(***************************************************************************)
(* The write-back buffer cache of the file system (src/a3/fs/cache.c) over *)
(* the block layer and the host file that backs it (block.c, ide.c).       *)
(*                                                                         *)
(* The cache is CacheSize slots replaced by the clock algorithm.  The      *)
(* process may die between any two calls, or part-way through              *)
(* buffer_cache_close; a new process starts with zeroed statics.           *)
(*                                                                         *)
(* check_sector only prints when a sector lies past the end of the device: *)
(* the access is then made on the host file, where a read beyond its end   *)
(* transfers nothing and a write extends it.                               *)
(***************************************************************************)
EXTENDS Integers

CONSTANTS CacheSize,   \* BUFFER_CACHE_SIZE
          DeviceSize,  \* sectors of the device when it was created
          Sectors,     \* the sector numbers callers pass
          Data,        \* contents of a sector
          Zero         \* the all-zero sector

ASSUME CacheSizeAssumption == CacheSize \in Nat \ {0}
ASSUME DeviceAssumption == /\ DeviceSize \in Nat
                           /\ Sectors \subseteq Nat
                           /\ 0 \in Sectors
ASSUME DataAssumption == Zero \in Data

VARIABLES cache,     \* the slots
          clock,     \* the clock hand, static in buffer_cache_evict
          disk,      \* contents of the host file; zero beyond its end
          length,    \* its length in sectors
          size,      \* block->size, taken from the length at start-up
          panicked,  \* a PANIC line was printed by this process
          ret        \* the last call and what it returned

vars == <<cache, clock, disk, length, size, panicked, ret>>

Slot == 0 .. CacheSize - 1
Device == {s \in Sectors : s < DeviceSize}
PastEnd == Sectors \ Device

Entry == [occupied : BOOLEAN, disk_sector : Sectors, buffer : Data,
          dirty : BOOLEAN, access : BOOLEAN]

Call == [op : {"start", "read", "write", "close"}, sector : Sectors, data : Data]

\* The type of the state: the hand in particular stays inside the cache.
TypeOK == /\ cache \in [Slot -> Entry]
          /\ clock \in Slot
          /\ disk \in [Sectors -> Data]
          /\ length \in Nat
          /\ size \in Nat
          /\ panicked \in BOOLEAN
          /\ ret \in Call

-----------------------------------------------------------------------------
\* The statics of a new process.
ZeroedEntry == [occupied |-> FALSE, disk_sector |-> 0, buffer |-> Zero,
                dirty |-> FALSE, access |-> FALSE]

Started == [op |-> "start", sector |-> 0, data |-> Zero]

Init == /\ cache = [i \in Slot |-> ZeroedEntry]
        /\ clock = 0
        /\ disk \in [Sectors -> Data]
        /\ \A s \in PastEnd : disk[s] = Zero
        /\ length = DeviceSize
        /\ size = DeviceSize
        /\ panicked = FALSE
        /\ ret = Started

-----------------------------------------------------------------------------
\* The host file after a set W of slots was written to it by ide_write.
WrittenBack(W) ==
    [s \in Sectors |-> IF \E i \in W : cache[i].disk_sector = s
                       THEN CHOOSE d \in Data : \E i \in W : /\ cache[i].disk_sector = s
                                                            /\ cache[i].buffer = d
                       ELSE disk[s]]

\* Its length afterwards, as a condition: a write past the end extends it.
LengthAfter(W, n) ==
    /\ n \in {length} \cup {cache[i].disk_sector + 1 : i \in W}
    /\ n >= length
    /\ \A i \in W : n > cache[i].disk_sector

\* Mutant: the loop of the lookup stops one slot short.
MutLookupShort(s) == {i \in Slot : /\ i # CacheSize - 1
                                   /\ cache[i].occupied /\ cache[i].disk_sector = s}

Hits(s) == {i \in Slot : cache[i].occupied /\ cache[i].disk_sector = s}

buffer_cache_lookup(s, i) == i \in Hits(s) /\ \A j \in Hits(s) : i <= j

-----------------------------------------------------------------------------
\* The slot the hand reaches after n steps, for n up to a full turn.
Hand(n) == IF clock + n < CacheSize THEN clock + n ELSE clock + n - CacheSize

\* Mutant: the reference bit is not consulted.
MutNoSecondChance(n) == n \in 0 .. CacheSize

\* The sweep ends at the n-th slot: it is free, has had its second chance, or
\* the hand is back where it began, having taken away every reference bit.
Stops(n) == \/ ~cache[Hand(n)].occupied
            \/ ~cache[Hand(n)].access
            \/ n = CacheSize

\* The entries once the hand has moved n steps.
Swept(n) == [i \in Slot |->
                IF \E k \in 0 .. n - 1 : i = Hand(k)
                THEN [cache[i] EXCEPT !.access = FALSE] ELSE cache[i]]

\* Mutant: a dirty entry is dropped without a flush.
MutNoFlush(v) == {}

\* What buffer_cache_evict writes back before it gives up slot v.
Flushed(v) == IF cache[v].occupied /\ cache[v].dirty THEN {v} ELSE {}

\* Mutant: after a flush the hand advances without wrapping.
MutHandRunsOff(n) ==
    /\ n \in 0 .. CacheSize
    /\ Stops(n)
    /\ \A k \in 0 .. n - 1 : ~Stops(k)
    /\ clock' = IF Flushed(Hand(n)) = {} THEN Hand(n) ELSE Hand(n) + 1
    /\ disk' = WrittenBack(Flushed(Hand(n)))
    /\ LengthAfter(Flushed(Hand(n)), length')

buffer_cache_evict(n) ==
    /\ n \in 0 .. CacheSize
    /\ Stops(n)
    /\ \A k \in 0 .. n - 1 : ~Stops(k)
    /\ clock' = Hand(n)
    /\ disk' = WrittenBack(Flushed(Hand(n)))
    /\ LengthAfter(Flushed(Hand(n)), length')

\* block_read into a slot that held old: nothing is transferred past the end.
block_read(s, old) == IF s < length' THEN disk'[s] ELSE old

\* check_sector only prints, and the call goes on.
check_sector(S) == panicked' = (panicked \/ \E s \in S : s >= size)

\* Mutant: a write leaves the dirty bit as the load set it.
MutNeverDirty(s, b, written) == [occupied |-> TRUE, disk_sector |-> s, buffer |-> b,
                                 dirty |-> FALSE, access |-> TRUE]

Loaded(s, b, written) == [occupied |-> TRUE, disk_sector |-> s, buffer |-> b,
                          dirty |-> written, access |-> TRUE]

\* The sectors block_read and block_write are called with when s replaces slot v.
Missed(s, v) == {s} \cup {cache[i].disk_sector : i \in Flushed(v)}

-----------------------------------------------------------------------------
ReadHit(s) ==
    \E i \in Slot :
        /\ buffer_cache_lookup(s, i)
        /\ cache' = [cache EXCEPT ![i].access = TRUE]
        /\ ret' = [op |-> "read", sector |-> s, data |-> cache[i].buffer]
        /\ UNCHANGED <<clock, disk, length, size, panicked>>

ReadMiss(s) ==
    /\ Hits(s) = {}
    /\ \E n \in 0 .. CacheSize :
        /\ buffer_cache_evict(n)
        /\ LET b == block_read(s, cache[clock'].buffer)
           IN  /\ cache' = [Swept(n) EXCEPT ![clock'] = Loaded(s, b, FALSE)]
               /\ ret' = [op |-> "read", sector |-> s, data |-> b]
        /\ check_sector(Missed(s, Hand(n)))
    /\ UNCHANGED size

buffer_cache_read(s) == ReadHit(s) \/ ReadMiss(s)

WriteHit(s, source) ==
    \E i \in Slot :
        /\ buffer_cache_lookup(s, i)
        /\ cache' = [cache EXCEPT ![i] = Loaded(s, source, TRUE)]
        /\ UNCHANGED <<clock, disk, length, size, panicked>>

WriteMiss(s, source) ==
    /\ Hits(s) = {}
    /\ \E n \in 0 .. CacheSize :
        /\ buffer_cache_evict(n)
        /\ cache' = [Swept(n) EXCEPT ![clock'] = Loaded(s, source, TRUE)]
        /\ check_sector(Missed(s, Hand(n)))
    /\ UNCHANGED size

buffer_cache_write(s, source) ==
    /\ WriteHit(s, source) \/ WriteMiss(s, source)
    /\ ret' = [op |-> "write", sector |-> s, data |-> source]

\* The slots buffer_cache_close writes among the first k.
ToFlush(k) == {i \in 0 .. k - 1 : cache[i].occupied /\ cache[i].dirty}

buffer_cache_close ==
    /\ disk' = WrittenBack(ToFlush(CacheSize))
    /\ LengthAfter(ToFlush(CacheSize), length')
    /\ cache' = [i \in Slot |-> IF i \in ToFlush(CacheSize)
                                THEN [cache[i] EXCEPT !.dirty = FALSE] ELSE cache[i]]
    /\ check_sector({cache[i].disk_sector : i \in ToFlush(CacheSize)})
    /\ ret' = [op |-> "close", sector |-> 0, data |-> Zero]
    /\ UNCHANGED <<clock, size>>

\* The process ends when buffer_cache_close has passed k slots (k = 0: outside
\* it, as with the exit(99) of pcb.c), and the shell is started again.
Restart ==
    \E k \in 0 .. CacheSize :
        /\ disk' = WrittenBack(ToFlush(k))
        /\ LengthAfter(ToFlush(k), length')
        /\ cache' = [i \in Slot |-> ZeroedEntry]
        /\ clock' = 0
        /\ size' = length'
        /\ panicked' = FALSE
        /\ ret' = Started

Next == \/ \E s \in Sectors : buffer_cache_read(s)
        \/ \E s \in Sectors, source \in Data : buffer_cache_write(s, source)
        \/ buffer_cache_close
        \/ Restart

Spec == Init /\ [][Next]_vars

-----------------------------------------------------------------------------
\* No sector is in two slots: otherwise buffer_cache_lookup, which returns the
\* first, and the flushes, which write both, would disagree.
UniqueEntry == \A i, j \in Slot :
    /\ cache[i].occupied /\ cache[j].occupied
    /\ cache[i].disk_sector = cache[j].disk_sector
    => i = j

\* An entry whose dirty bit is clear may be dropped without a write: it equals
\* the sector in the host file (past the end of which a read fills nothing).
CleanMatchesDisk == \A i \in Slot :
    /\ cache[i].occupied /\ ~cache[i].dirty
    /\ cache[i].disk_sector < DeviceSize
    => cache[i].buffer = disk[cache[i].disk_sector]

\* Second chance: an entry whose reference bit is set is replaced only when
\* every slot is occupied and has its reference bit set.
SecondChance ==
    [][\A i \in Slot :
          /\ cache[i].occupied /\ cache[i].access
          /\ cache'[i].disk_sector # cache[i].disk_sector
          /\ ret'.op # "start"
          => \A j \in Slot : cache[j].occupied /\ cache[j].access]_vars

\* What a caller sees: the buffered contents if the sector is cached.
View == [s \in Device |-> IF Hits(s) = {} THEN disk[s]
                          ELSE CHOOSE d \in Data : \E i \in Hits(s) : cache[i].buffer = d]

Store == INSTANCE SectorStore
             WITH store <- View, durable <- [s \in Device |-> disk[s]]

\* The cache implements the store of sectors: reads return the last write, a
\* close makes everything durable, a crash loses only what was not destaged.
ImplementsStore == Store!Spec
=============================================================================
