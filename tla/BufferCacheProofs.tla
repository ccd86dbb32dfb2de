------------------------- MODULE BufferCacheProofs -------------------------
(***************************************************************************)
(* Proofs about the buffer cache, for every size of the cache and of the   *)
(* device: the invariants of BufferCache, and that it implements           *)
(* SectorStore.                                                            *)
(***************************************************************************)
EXTENDS BufferCache, TLAPS

\* The host file never shrinks below the device, and holds nothing past its end.
LengthCovers == /\ length >= DeviceSize
                /\ \A s \in Sectors : s >= length => disk[s] = Zero

\* The inductive invariant.  A clean entry read from the device equals it only
\* because the host file is never shorter than the device (LengthCovers).
Inv == TypeOK /\ UniqueEntry /\ CleanMatchesDisk /\ LengthCovers

\* The clock hand never leaves the cache.
LEMMA HandInSlot ==
    ASSUME clock \in Slot, NEW n \in 0 .. CacheSize
    PROVE  Hand(n) \in Slot
  BY CacheSizeAssumption DEF Hand, Slot

\* The host file after write-backs of some slots is a host file.
LEMMA WrittenBackType ==
    ASSUME TypeOK, NEW W \in SUBSET Slot
    PROVE  WrittenBack(W) \in [Sectors -> Data]
  <1> SUFFICES ASSUME NEW s \in Sectors
               PROVE  WrittenBack(W)[s] \in Data
    BY DEF WrittenBack
  <1>1. CASE \E i \in W : cache[i].disk_sector = s
    <2>1. PICK i \in W : cache[i].disk_sector = s
      BY <1>1
    <2>2. cache[i].buffer \in Data
      BY DEF TypeOK, Entry
    <2> DEFINE P(d) == \E j \in W : cache[j].disk_sector = s /\ cache[j].buffer = d
    <2>3. (CHOOSE d \in Data : P(d)) \in Data
      BY <2>1, <2>2
    <2> QED
      BY <1>1, <2>3 DEF WrittenBack
  <1>2. CASE ~ \E i \in W : cache[i].disk_sector = s
    BY <1>2 DEF WrittenBack, TypeOK
  <1> QED
    BY <1>1, <1>2

\* Sectors that are not written keep their contents.
LEMMA WrittenBackOther ==
    ASSUME NEW W \in SUBSET Slot, NEW s \in Sectors,
           \A i \in W : cache[i].disk_sector # s
    PROVE  WrittenBack(W)[s] = disk[s]
  BY DEF WrittenBack

\* A slot that is written back ends up in the host file: no other slot
\* competes for its sector.
LEMMA WrittenBackOne ==
    ASSUME TypeOK, UniqueEntry, NEW W \in SUBSET Slot,
           \A i \in W : cache[i].occupied, NEW i \in W
    PROVE  WrittenBack(W)[cache[i].disk_sector] = cache[i].buffer
  <1> DEFINE s == cache[i].disk_sector
             P(d) == \E j \in W : cache[j].disk_sector = s /\ cache[j].buffer = d
  <1>1. s \in Sectors /\ cache[i].buffer \in Data
    BY DEF TypeOK, Entry
  <1>2. WrittenBack(W)[s] = CHOOSE d \in Data : P(d)
    BY <1>1 DEF WrittenBack
  <1>3. P(cache[i].buffer)
    OBVIOUS
  <1>4. \A d \in Data : P(d) => d = cache[i].buffer
    BY DEF UniqueEntry
  <1> HIDE DEF P
  <1> QED
    BY <1>1, <1>2, <1>3, <1>4

\* The sweep of the hand only takes reference bits away.
LEMMA SweptFacts ==
    ASSUME TypeOK, NEW n \in 0 .. CacheSize
    PROVE  /\ Swept(n) \in [Slot -> Entry]
           /\ \A i \in Slot : /\ Swept(n)[i].occupied = cache[i].occupied
                              /\ Swept(n)[i].disk_sector = cache[i].disk_sector
                              /\ Swept(n)[i].buffer = cache[i].buffer
                              /\ Swept(n)[i].dirty = cache[i].dirty
  <1> SUFFICES ASSUME NEW i \in Slot
               PROVE  /\ Swept(n)[i] \in Entry
                      /\ Swept(n)[i].occupied = cache[i].occupied
                      /\ Swept(n)[i].disk_sector = cache[i].disk_sector
                      /\ Swept(n)[i].buffer = cache[i].buffer
                      /\ Swept(n)[i].dirty = cache[i].dirty
    BY DEF Swept
  <1>1. cache[i] \in Entry
    BY DEF TypeOK
  <1>2. Swept(n)[i] = [cache[i] EXCEPT !.access = FALSE] \/ Swept(n)[i] = cache[i]
    BY DEF Swept
  <1> QED
    BY <1>1, <1>2 DEF Entry

\* The length of the host file after write-backs.
LEMMA LengthFacts ==
    ASSUME TypeOK, NEW W \in SUBSET Slot, NEW n, LengthAfter(W, n)
    PROVE  n \in Nat /\ n >= length /\ \A i \in W : cache[i].disk_sector < n
  <1>1. \A i \in W : cache[i].disk_sector \in Nat
    BY DeviceAssumption DEF TypeOK, Entry
  <1> QED
    BY <1>1 DEF LengthAfter, TypeOK

\* Write-backs keep the file covering the device and empty past its end.
LEMMA LengthCoversKept ==
    ASSUME TypeOK, LengthCovers, NEW W \in SUBSET Slot,
           disk' = WrittenBack(W), LengthAfter(W, length')
    PROVE  LengthCovers' /\ length' \in Nat
  <1>1. length' \in Nat /\ length' >= length /\ \A i \in W : cache[i].disk_sector < length'
    BY LengthFacts
  <1>2. length' >= DeviceSize
    BY <1>1, DeviceAssumption DEF LengthCovers, TypeOK
  <1>3. ASSUME NEW s \in Sectors, s >= length'
        PROVE  disk'[s] = Zero
    <2>1. s \in Nat /\ s >= length
      BY <1>1, <1>3, DeviceAssumption DEF TypeOK
    <2>2. \A i \in W : cache[i].disk_sector # s
      <3>1. SUFFICES ASSUME NEW i \in W, cache[i].disk_sector = s PROVE FALSE
        OBVIOUS
      <3> QED
        BY <1>1, <1>3, <2>1, <3>1
    <2> QED
      BY <2>1, <2>2, WrittenBackOther DEF LengthCovers
  <1> QED
    BY <1>1, <1>2, <1>3 DEF LengthCovers

\* A miss: whatever slot the hand stops at, the entry loaded there is the only
\* one of its sector, and no unwritten data is dropped with the old one.
LEMMA MissKeepsInv ==
    ASSUME Inv, NEW s \in Sectors, NEW n \in 0 .. CacheSize, NEW b \in Data,
           NEW w \in BOOLEAN,
           Hits(s) = {}, buffer_cache_evict(n),
           cache' = [Swept(n) EXCEPT ![clock'] = Loaded(s, b, w)],
           (s < DeviceSize /\ ~w) => b = disk'[s]
    PROVE  /\ cache' \in [Slot -> Entry]
           /\ clock' \in Slot
           /\ disk' \in [Sectors -> Data]
           /\ length' \in Nat
           /\ UniqueEntry' /\ CleanMatchesDisk' /\ LengthCovers'
  <1> DEFINE v == Hand(n)
             W == Flushed(v)
  <1>1. TypeOK /\ UniqueEntry /\ CleanMatchesDisk /\ LengthCovers
    BY DEF Inv
  <1>2. v \in Slot /\ W \in SUBSET Slot /\ clock' = v
    BY <1>1, HandInSlot DEF TypeOK, buffer_cache_evict, Flushed
  <1>3. disk' = WrittenBack(W) /\ LengthAfter(W, length')
    BY DEF buffer_cache_evict
  <1>4. disk' \in [Sectors -> Data]
    BY <1>1, <1>2, <1>3, WrittenBackType
  <1>5. LengthCovers' /\ length' \in Nat
    BY <1>1, <1>2, <1>3, LengthCoversKept
  <1>6. Loaded(s, b, w) \in Entry
    BY DEF Loaded, Entry
  <1>7. Swept(n) \in [Slot -> Entry]
    BY <1>1, SweptFacts
  <1>8. cache' \in [Slot -> Entry]
    BY <1>2, <1>6, <1>7
  <1>9. /\ cache'[v] = Loaded(s, b, w)
        /\ \A i \in Slot \ {v} : /\ cache'[i].occupied = cache[i].occupied
                                 /\ cache'[i].disk_sector = cache[i].disk_sector
                                 /\ cache'[i].buffer = cache[i].buffer
                                 /\ cache'[i].dirty = cache[i].dirty
    BY <1>1, <1>2, <1>7, SweptFacts
  <1>10. \A i \in Slot \ {v} : cache[i].occupied => cache[i].disk_sector # s
    BY DEF Hits
  <1>11. /\ cache'[v].occupied /\ cache'[v].disk_sector = s
         /\ cache'[v].buffer = b /\ cache'[v].dirty = w
    BY <1>9 DEF Loaded
  <1>12. UniqueEntry'
    BY <1>1, <1>9, <1>10, <1>11 DEF UniqueEntry, Slot
  <1>13. ASSUME NEW i \in Slot, cache'[i].occupied, ~cache'[i].dirty,
                cache'[i].disk_sector < DeviceSize
         PROVE  cache'[i].buffer = disk'[cache'[i].disk_sector]
    <2>1. CASE i = v
      BY <1>11, <1>13, <2>1
    <2>2. CASE i # v
      <3>1. /\ cache[i].occupied /\ ~cache[i].dirty
            /\ cache[i].buffer = disk[cache[i].disk_sector]
        BY <1>1, <1>9, <1>13, <2>2 DEF CleanMatchesDisk
      <3>2. \A j \in W : cache[j].disk_sector # cache[i].disk_sector
        BY <1>1, <1>2, <2>2, <3>1 DEF Flushed, UniqueEntry
      <3>3. cache[i].disk_sector \in Sectors
        BY <1>1 DEF TypeOK, Entry
      <3>4. disk'[cache[i].disk_sector] = disk[cache[i].disk_sector]
        BY <1>2, <1>3, <3>2, <3>3, WrittenBackOther
      <3> QED
        BY <1>9, <2>2, <3>1, <3>4
    <2> QED
      BY <2>1, <2>2
  <1>14. CleanMatchesDisk'
    BY <1>13 DEF CleanMatchesDisk, Slot
  <1> QED
    BY <1>2, <1>4, <1>5, <1>8, <1>12, <1>14

\* What a miss reads from the device: the sector itself, if it lies inside.
LEMMA BlockReadFacts ==
    ASSUME Inv, NEW s \in Sectors, NEW old \in Data, length' \in Nat, LengthCovers',
           disk' \in [Sectors -> Data]
    PROVE  /\ block_read(s, old) \in Data
           /\ s < DeviceSize => block_read(s, old) = disk'[s]
  BY DeviceAssumption DEF block_read, LengthCovers

\* The first state satisfies the invariant.
LEMMA InitInv == Init => Inv
  <1> SUFFICES ASSUME Init PROVE Inv
    OBVIOUS
  <1>1. ZeroedEntry \in Entry /\ Started \in Call
    BY DeviceAssumption, DataAssumption DEF ZeroedEntry, Entry, Started, Call
  <1>2. TypeOK
    <2>1. cache \in [Slot -> Entry]
      BY <1>1 DEF Init
    <2>2. clock \in Slot
      BY CacheSizeAssumption DEF Init, Slot
    <2> QED
      BY <1>1, <2>1, <2>2, DeviceAssumption DEF Init, TypeOK
  <1>3. UniqueEntry /\ CleanMatchesDisk
    BY DEF Init, UniqueEntry, CleanMatchesDisk, ZeroedEntry
  <1>4. LengthCovers
    BY DeviceAssumption DEF Init, LengthCovers, PastEnd, Device
  <1> QED
    BY <1>2, <1>3, <1>4 DEF Inv

\* Reads keep the invariant.
LEMMA ReadInv ==
    ASSUME Inv, NEW s \in Sectors, buffer_cache_read(s)
    PROVE  Inv'
  <1>1. CASE ReadHit(s)
    <2>1. PICK i \in Slot : /\ cache' = [cache EXCEPT ![i].access = TRUE]
                            /\ ret' = [op |-> "read", sector |-> s, data |-> cache[i].buffer]
      BY <1>1 DEF ReadHit
    <2>2. UNCHANGED <<clock, disk, length, size, panicked>>
      BY <1>1 DEF ReadHit
    <2>3. cache[i] \in Entry
      BY DEF Inv, TypeOK
    <2>4. /\ cache' \in [Slot -> Entry]
          /\ \A j \in Slot : /\ cache'[j].occupied = cache[j].occupied
                             /\ cache'[j].disk_sector = cache[j].disk_sector
                             /\ cache'[j].buffer = cache[j].buffer
                             /\ cache'[j].dirty = cache[j].dirty
      BY <2>1, <2>3 DEF Inv, TypeOK, Entry
    <2>5. ret' \in Call
      BY <2>1, <2>3 DEF Call, Entry
    <2>6. TypeOK'
      BY <2>2, <2>4, <2>5 DEF Inv, TypeOK, Slot
    <2>7. UniqueEntry' /\ CleanMatchesDisk' /\ LengthCovers'
      BY <2>2, <2>4 DEF Inv, UniqueEntry, CleanMatchesDisk, LengthCovers, Slot
    <2> QED
      BY <2>6, <2>7 DEF Inv
  <1>2. CASE ReadMiss(s)
    <2>1. PICK n \in 0 .. CacheSize :
             /\ buffer_cache_evict(n)
             /\ cache' = [Swept(n) EXCEPT
                            ![clock'] = Loaded(s, block_read(s, cache[clock'].buffer), FALSE)]
             /\ ret' = [op |-> "read", sector |-> s,
                        data |-> block_read(s, cache[clock'].buffer)]
      BY <1>2 DEF ReadMiss
    <2> DEFINE b == block_read(s, cache[clock'].buffer)
    <2>2. Hits(s) = {} /\ UNCHANGED size /\ panicked' \in BOOLEAN
      BY <1>2 DEF ReadMiss, check_sector
    <2>3. Hand(n) \in Slot /\ clock' = Hand(n) /\ Flushed(Hand(n)) \in SUBSET Slot
      BY <2>1, HandInSlot DEF Inv, TypeOK, buffer_cache_evict, Flushed
    <2>4. disk' \in [Sectors -> Data]
      BY <2>1, <2>3, WrittenBackType DEF Inv, buffer_cache_evict
    <2>5. length' \in Nat /\ LengthCovers'
      BY <2>1, <2>3, LengthCoversKept DEF Inv, buffer_cache_evict
    <2>6. cache[clock'].buffer \in Data
      BY <2>3 DEF Inv, TypeOK, Entry
    <2>7. b \in Data /\ (s < DeviceSize => b = disk'[s])
      BY <2>4, <2>5, <2>6, BlockReadFacts
    <2> HIDE DEF b
    <2>8. /\ cache' \in [Slot -> Entry] /\ clock' \in Slot
          /\ UniqueEntry' /\ CleanMatchesDisk'
      BY <2>1, <2>2, <2>7, MissKeepsInv DEF b
    <2>9. ret' \in Call
      BY <2>1, <2>7 DEF Call, b
    <2>10. TypeOK'
      BY <2>2, <2>4, <2>5, <2>8, <2>9 DEF TypeOK, Inv, Slot
    <2> QED
      BY <2>5, <2>8, <2>10 DEF Inv
  <1> QED
    BY <1>1, <1>2 DEF buffer_cache_read

\* Writes keep the invariant.
LEMMA WriteInv ==
    ASSUME Inv, NEW s \in Sectors, NEW source \in Data, buffer_cache_write(s, source)
    PROVE  Inv'
  <1>0. ret' \in Call
    BY DEF buffer_cache_write, Call
  <1>1. CASE WriteHit(s, source)
    <2>1. PICK i \in Slot : /\ i \in Hits(s)
                            /\ cache' = [cache EXCEPT ![i] = Loaded(s, source, TRUE)]
      BY <1>1 DEF WriteHit, buffer_cache_lookup
    <2>2. UNCHANGED <<clock, disk, length, size, panicked>>
      BY <1>1 DEF WriteHit
    <2>3. Loaded(s, source, TRUE) \in Entry
      BY DEF Loaded, Entry
    <2>4. TypeOK'
      BY <1>0, <2>1, <2>2, <2>3 DEF Inv, TypeOK, Slot
    <2>5. \A j \in Slot : /\ cache'[j].occupied = cache[j].occupied
                          /\ cache'[j].disk_sector = cache[j].disk_sector
                          /\ ~cache'[j].dirty => ~cache[j].dirty /\ cache'[j].buffer = cache[j].buffer
      BY <2>1 DEF Inv, TypeOK, Loaded, Hits
    <2>6. UniqueEntry' /\ CleanMatchesDisk' /\ LengthCovers'
      BY <2>2, <2>5 DEF Inv, UniqueEntry, CleanMatchesDisk, LengthCovers, Slot
    <2> QED
      BY <2>4, <2>6 DEF Inv
  <1>2. CASE WriteMiss(s, source)
    <2>1. PICK n \in 0 .. CacheSize :
             /\ buffer_cache_evict(n)
             /\ cache' = [Swept(n) EXCEPT ![clock'] = Loaded(s, source, TRUE)]
      BY <1>2 DEF WriteMiss
    <2>2. Hits(s) = {} /\ UNCHANGED size /\ panicked' \in BOOLEAN
      BY <1>2 DEF WriteMiss, check_sector
    <2>3. /\ cache' \in [Slot -> Entry] /\ clock' \in Slot
          /\ disk' \in [Sectors -> Data] /\ length' \in Nat
          /\ UniqueEntry' /\ CleanMatchesDisk' /\ LengthCovers'
      BY <2>1, <2>2, MissKeepsInv
    <2>4. TypeOK'
      BY <1>0, <2>2, <2>3 DEF TypeOK, Inv, Slot
    <2> QED
      BY <2>3, <2>4 DEF Inv
  <1> QED
    BY <1>1, <1>2 DEF buffer_cache_write

\* Write-backs of part of the cache, as buffer_cache_close makes them.
LEMMA ToFlushFacts ==
    ASSUME NEW k \in 0 .. CacheSize
    PROVE  ToFlush(k) \in SUBSET Slot /\ \A i \in ToFlush(k) : cache[i].occupied
  BY CacheSizeAssumption DEF ToFlush, Slot

\* Closing keeps the invariant.
LEMMA CloseInv == Inv /\ buffer_cache_close => Inv'
  <1> SUFFICES ASSUME Inv, buffer_cache_close PROVE Inv'
    OBVIOUS
  <1> DEFINE W == ToFlush(CacheSize)
  <1>1. W \in SUBSET Slot /\ \A i \in W : cache[i].occupied
    BY ToFlushFacts, CacheSizeAssumption
  <1>2. disk' \in [Sectors -> Data]
    BY <1>1, WrittenBackType DEF buffer_cache_close, Inv
  <1>3. LengthCovers' /\ length' \in Nat
    BY <1>1, LengthCoversKept DEF buffer_cache_close, Inv
  <1>4. \A i \in Slot : cache[i] \in Entry
    BY DEF Inv, TypeOK
  <1>5. \A i \in Slot : cache'[i] = IF i \in W THEN [cache[i] EXCEPT !.dirty = FALSE] ELSE cache[i]
    BY DEF buffer_cache_close
  <1>6. \A i \in Slot : /\ cache'[i] \in Entry
                        /\ cache'[i].occupied = cache[i].occupied
                        /\ cache'[i].disk_sector = cache[i].disk_sector
                        /\ cache'[i].buffer = cache[i].buffer
    BY <1>4, <1>5 DEF Entry
  <1>7. cache' \in [Slot -> Entry]
    BY <1>6 DEF buffer_cache_close
  <1>8. ret' \in Call /\ panicked' \in BOOLEAN
    BY DeviceAssumption, DataAssumption DEF buffer_cache_close, check_sector, Call
  <1>9. TypeOK'
    BY <1>2, <1>3, <1>7, <1>8 DEF TypeOK, buffer_cache_close, Inv, Slot
  <1>10. UniqueEntry'
    BY <1>6 DEF UniqueEntry, Inv, Slot
  <1>11. ASSUME NEW i \in Slot, cache'[i].occupied, ~cache'[i].dirty,
                cache'[i].disk_sector < DeviceSize
         PROVE  cache'[i].buffer = disk'[cache'[i].disk_sector]
    <2>1. cache[i].disk_sector \in Sectors
      BY <1>4 DEF Entry
    <2>2. CASE i \in W
      BY <1>1, <1>6, <2>2, WrittenBackOne DEF Inv, buffer_cache_close
    <2>3. CASE i \notin W
      <3>1. ~cache[i].dirty /\ cache[i].occupied
        BY <1>5, <1>11, <2>3
      <3>2. \A j \in W : cache[j].disk_sector # cache[i].disk_sector
        BY <1>1, <2>3, <3>1 DEF Inv, UniqueEntry
      <3>3. disk'[cache[i].disk_sector] = disk[cache[i].disk_sector]
        BY <1>1, <2>1, <3>2, WrittenBackOther DEF buffer_cache_close
      <3> QED
        BY <1>6, <1>11, <3>1, <3>3 DEF Inv, CleanMatchesDisk
    <2> QED
      BY <2>2, <2>3
  <1>12. CleanMatchesDisk'
    BY <1>11 DEF CleanMatchesDisk, Slot
  <1> QED
    BY <1>3, <1>9, <1>10, <1>12 DEF Inv

\* A new process starts from the invariant.
LEMMA RestartInv == Inv /\ Restart => Inv'
  <1> SUFFICES ASSUME Inv, Restart PROVE Inv'
    OBVIOUS
  <1>1. PICK k \in 0 .. CacheSize : disk' = WrittenBack(ToFlush(k)) /\ LengthAfter(ToFlush(k), length')
    BY DEF Restart
  <1>2. disk' \in [Sectors -> Data]
    BY <1>1, ToFlushFacts, WrittenBackType DEF Inv
  <1>3. LengthCovers' /\ length' \in Nat
    BY <1>1, ToFlushFacts, LengthCoversKept DEF Inv
  <1>4. ZeroedEntry \in Entry /\ Started \in Call
    BY DeviceAssumption, DataAssumption DEF ZeroedEntry, Entry, Started, Call
  <1>5. clock' \in Slot
    BY CacheSizeAssumption DEF Restart, Slot
  <1>6. cache' \in [Slot -> Entry]
    BY <1>4 DEF Restart
  <1>7. TypeOK'
    BY <1>2, <1>3, <1>4, <1>5, <1>6 DEF Restart, TypeOK, Slot
  <1>8. UniqueEntry' /\ CleanMatchesDisk'
    BY DEF Restart, UniqueEntry, CleanMatchesDisk, ZeroedEntry, Slot
  <1> QED
    BY <1>3, <1>7, <1>8 DEF Inv

\* Every call of the cache keeps the invariant.
LEMMA NextInv == Inv /\ [Next]_vars => Inv'
  <1> SUFFICES ASSUME Inv, [Next]_vars PROVE Inv'
    OBVIOUS
  <1>1. ASSUME NEW s \in Sectors, buffer_cache_read(s) PROVE Inv'
    BY <1>1, ReadInv
  <1>2. ASSUME NEW s \in Sectors, NEW source \in Data, buffer_cache_write(s, source) PROVE Inv'
    BY <1>2, WriteInv
  <1>3. CASE buffer_cache_close
    BY <1>3, CloseInv
  <1>4. CASE Restart
    BY <1>4, RestartInv
  <1>5. CASE UNCHANGED vars
    BY <1>5 DEF vars, Inv, TypeOK, UniqueEntry, CleanMatchesDisk, LengthCovers, Slot
  <1> QED
    BY <1>1, <1>2, <1>3, <1>4, <1>5 DEF Next

\* The inductive invariant holds in every state of the cache.
THEOREM Invariance == Spec => []Inv
  BY InitInv, NextInv, PTL DEF Spec

\* The clock hand stays inside the cache and every field keeps its type.
THEOREM TypeCorrect == Spec => []TypeOK
  BY Invariance, PTL DEF Inv

\* buffer_cache_lookup is unambiguous: no sector is ever in two slots.
THEOREM Unique == Spec => []UniqueEntry
  BY Invariance, PTL DEF Inv

\* Dropping an entry whose dirty bit is clear loses nothing.
THEOREM CleanEntries == Spec => []CleanMatchesDisk
  BY Invariance, PTL DEF Inv

-----------------------------------------------------------------------------
\* What a caller sees of a sector: its entry, or the host file.
Seen(s, d) == \/ \E i \in Slot : /\ cache[i].occupied /\ cache[i].disk_sector = s
                                 /\ cache[i].buffer = d
              \/ /\ \A i \in Slot : ~(cache[i].occupied /\ cache[i].disk_sector = s)
                 /\ disk[s] = d

ViewOK == /\ View \in [Device -> Data]
          /\ \A s \in Device : \A d \in Data : Seen(s, d) => View[s] = d
          /\ \A s \in Device : Seen(s, View[s])

\* Because entries are unique, View holds exactly what is seen.
LEMMA ViewFacts == Inv => ViewOK
  <1> SUFFICES ASSUME Inv, NEW s \in Device
               PROVE  /\ View[s] \in Data
                      /\ \A d \in Data : Seen(s, d) => View[s] = d
                      /\ Seen(s, View[s])
    BY DEF View, ViewOK
  <1> DEFINE P(d) == \E i \in Hits(s) : cache[i].buffer = d
  <1>1. s \in Sectors
    BY DEF Device
  <1>2. CASE Hits(s) = {}
    <2>1. View[s] = disk[s] /\ disk[s] \in Data
      BY <1>1, <1>2 DEF View, Inv, TypeOK
    <2>2. \A i \in Slot : ~(cache[i].occupied /\ cache[i].disk_sector = s)
      BY <1>2 DEF Hits
    <2> QED
      BY <2>1, <2>2 DEF Seen
  <1>3. CASE Hits(s) # {}
    <2>1. PICK i \in Slot : cache[i].occupied /\ cache[i].disk_sector = s
      BY <1>3 DEF Hits
    <2>2. cache[i].buffer \in Data
      BY DEF Inv, TypeOK, Entry
    <2>3. \A j \in Hits(s) : j = i
      BY <2>1 DEF Hits, Inv, UniqueEntry
    <2>4. P(cache[i].buffer) /\ \A d \in Data : P(d) => d = cache[i].buffer
      BY <2>1, <2>3 DEF Hits
    <2>5. View[s] = CHOOSE d \in Data : P(d)
      BY <1>3 DEF View
    <2> HIDE DEF P
    <2>6. View[s] = cache[i].buffer
      BY <2>2, <2>4, <2>5
    <2>7. \A d \in Data : Seen(s, d) => d = cache[i].buffer
      BY <2>1, <2>3 DEF Seen, Hits
    <2> QED
      BY <2>1, <2>2, <2>6, <2>7 DEF Seen
  <1> QED
    BY <1>2, <1>3

\* The same in the next state.
LEMMA ViewFactsNext ==
    Inv' => /\ View' \in [Device -> Data]
            /\ \A s \in Device : \A d \in Data : Seen(s, d)' => View'[s] = d
  <1>1. (Inv => ViewOK)'
    BY ViewFacts, PTL
  <1> QED
    BY <1>1 DEF ViewOK, Device

\* A miss on s changes what is seen of s alone, and destages at most one sector.
LEMMA MissView ==
    ASSUME Inv, Inv', NEW s \in Sectors, NEW n \in 0 .. CacheSize, NEW b \in Data,
           NEW w \in BOOLEAN, Hits(s) = {}, buffer_cache_evict(n),
           cache' = [Swept(n) EXCEPT ![clock'] = Loaded(s, b, w)]
    PROVE  /\ \A t \in Device : View'[t] = IF t = s THEN b ELSE View[t]
           /\ \/ \A t \in Device : disk'[t] = disk[t]
              \/ \E u \in Device : \A t \in Device :
                    disk'[t] = IF t = u THEN View[t] ELSE disk[t]
           /\ s \in Device => View[s] = disk'[s]
  <1> DEFINE v == Hand(n)
             W == Flushed(v)
  <1>1. TypeOK /\ UniqueEntry /\ CleanMatchesDisk /\ LengthCovers
    BY DEF Inv
  <1>2. v \in Slot /\ W \in SUBSET Slot /\ clock' = v
    BY <1>1, HandInSlot DEF TypeOK, buffer_cache_evict, Flushed
  <1>3. disk' = WrittenBack(W) /\ \A i \in W : i = v /\ cache[i].occupied
    BY DEF buffer_cache_evict, Flushed
  <1>4. /\ cache'[v] = Loaded(s, b, w)
        /\ \A i \in Slot \ {v} : /\ cache'[i].occupied = cache[i].occupied
                                 /\ cache'[i].disk_sector = cache[i].disk_sector
                                 /\ cache'[i].buffer = cache[i].buffer
    BY <1>1, <1>2, SweptFacts
  <1>5. /\ cache'[v].occupied /\ cache'[v].disk_sector = s /\ cache'[v].buffer = b
    BY <1>4 DEF Loaded
  <1>6. \A t \in Sectors : (\A i \in W : cache[i].disk_sector # t) => disk'[t] = disk[t]
    BY <1>2, <1>3, WrittenBackOther
  <1>7. \A i \in W : disk'[cache[i].disk_sector] = cache[i].buffer
    BY <1>1, <1>2, <1>3, WrittenBackOne
  <1>8. \A t \in Device : t \in Sectors /\ View[t] \in Data /\ Seen(t, View[t])
    BY ViewFacts DEF Device, ViewOK
  <1>9. ASSUME NEW t \in Device PROVE View'[t] = IF t = s THEN b ELSE View[t]
    <2>1. CASE t = s
      <3>1. Seen(t, b)'
        BY <1>2, <1>5, <2>1 DEF Seen, Slot
      <3> QED
        BY <2>1, <3>1, ViewFactsNext
    <2>2. CASE t # s
      <3>0. PICK d \in Data : d = View[t]
        BY <1>8
      <3>1. CASE \E i \in Slot \ {v} : cache[i].occupied /\ cache[i].disk_sector = t
        <4>1. PICK i \in Slot \ {v} : cache[i].occupied /\ cache[i].disk_sector = t
          BY <3>1
        <4>2. View[t] = cache[i].buffer
          BY <1>8, <4>1 DEF Seen, Inv, UniqueEntry
        <4>3. Seen(t, d)'
          BY <1>4, <3>0, <4>1, <4>2 DEF Seen, Slot
        <4> QED
          BY <2>2, <3>0, <4>3, ViewFactsNext
      <3>2. CASE \A i \in Slot \ {v} : ~(cache[i].occupied /\ cache[i].disk_sector = t)
        <4>1. \A i \in Slot : ~(cache'[i].occupied /\ cache'[i].disk_sector = t)
          BY <1>2, <1>4, <1>5, <2>2, <3>2
        <4>2. disk'[t] = View[t]
          <5>1. CASE cache[v].occupied /\ cache[v].disk_sector = t /\ cache[v].dirty
            <6>1. W = {v} /\ disk'[t] = cache[v].buffer
              BY <1>7, <5>1 DEF Flushed
            <6>2. View[t] = cache[v].buffer
              BY <1>8, <3>2, <5>1, <1>2 DEF Seen
            <6> QED
              BY <6>1, <6>2
          <5>2. CASE cache[v].occupied /\ cache[v].disk_sector = t /\ ~cache[v].dirty
            <6>1. disk'[t] = disk[t]
              BY <1>6, <1>8, <5>2 DEF Flushed
            <6>2. View[t] = cache[v].buffer
              BY <1>8, <3>2, <5>2, <1>2 DEF Seen
            <6>3. cache[v].buffer = disk[t]
              BY <1>1, <1>2, <5>2 DEF CleanMatchesDisk, Device
            <6> QED
              BY <6>1, <6>2, <6>3
          <5>3. CASE ~(cache[v].occupied /\ cache[v].disk_sector = t)
            <6>1. disk'[t] = disk[t]
              BY <1>3, <1>6, <1>8, <5>3
            <6>2. View[t] = disk[t]
              BY <1>8, <3>2, <5>3 DEF Seen
            <6> QED
              BY <6>1, <6>2
          <5> QED
            BY <5>1, <5>2, <5>3
        <4>3. Seen(t, d)'
          BY <3>0, <4>1, <4>2 DEF Seen, Slot
        <4> QED
          BY <2>2, <3>0, <4>3, ViewFactsNext
      <3> QED
        BY <3>1, <3>2
    <2> QED
      BY <2>1, <2>2
  <1>10. \/ \A t \in Device : disk'[t] = disk[t]
         \/ \E u \in Device : \A t \in Device :
                disk'[t] = IF t = u THEN View[t] ELSE disk[t]
    <2>1. CASE W = {} \/ cache[v].disk_sector \notin Device
      BY <1>3, <1>6, <1>8, <2>1
    <2>2. CASE W # {} /\ cache[v].disk_sector \in Device
      <3>1. v \in W /\ cache[v].occupied /\ disk'[cache[v].disk_sector] = cache[v].buffer
        BY <1>3, <1>7, <2>2
      <3>2. Seen(cache[v].disk_sector, cache[v].buffer) /\ cache[v].buffer \in Data
        BY <1>1, <1>2, <3>1 DEF Seen, TypeOK, Entry
      <3>3. View[cache[v].disk_sector] = cache[v].buffer
        BY <2>2, <3>2, ViewFacts DEF ViewOK
      <3>4. \A t \in Device : t # cache[v].disk_sector => disk'[t] = disk[t]
        BY <1>3, <1>6, <1>8
      <3> QED
        BY <2>2, <3>1, <3>3, <3>4
    <2> QED
      BY <2>1, <2>2
  <1>11. s \in Device => View[s] = disk'[s]
    <2> SUFFICES ASSUME s \in Device PROVE View[s] = disk'[s]
      OBVIOUS
    <2>1. \A i \in Slot : ~(cache[i].occupied /\ cache[i].disk_sector = s)
      BY DEF Hits
    <2>2. View[s] = disk[s]
      BY <1>8, <2>1 DEF Seen
    <2>3. \A i \in W : cache[i].disk_sector # s
      BY <1>2, <1>3, <2>1
    <2> QED
      BY <1>6, <2>2, <2>3
  <1> QED
    BY <1>9, <1>10, <1>11

Durable == [s \in Device |-> disk[s]]

\* DestageOne of the store, in terms of the cache.
LEMMA Destages ==
    ASSUME \/ \A t \in Device : disk'[t] = disk[t]
           \/ \E u \in Device : \A t \in Device :
                 disk'[t] = IF t = u THEN View[t] ELSE disk[t]
    PROVE  \/ Durable' = Durable
           \/ \E u \in Device : Durable' = [Durable EXCEPT ![u] = View[u]]
  BY DEF Durable, Device

\* The initial states of the cache are initial states of the store.
LEMMA InitRefines == Init => Store!Init
  <1> SUFFICES ASSUME Init PROVE Store!Init
    OBVIOUS
  <1>1. Inv
    BY InitInv
  <1>2. View \in [Device -> Data]
    BY <1>1, ViewFacts DEF ViewOK
  <1>3. \A s \in Device : View[s] = disk[s]
    BY DEF View, Hits, Init, ZeroedEntry
  <1>4. [s \in Device |-> disk[s]] = View
    BY <1>2, <1>3
  <1>5. ret \in [op : {"start", "read", "write", "close"},
                 sector : Device \cup PastEnd, data : Data]
    BY DeviceAssumption, DataAssumption DEF Init, Started, PastEnd, Device
  <1>6. ret.op = "start"
    BY DEF Init, Started
  <1> QED
    BY <1>2, <1>4, <1>5, <1>6 DEF Store!Init, Store!Call

\* A read of the cache is a read of the store.
LEMMA ReadRefines ==
    ASSUME Inv, Inv', NEW s \in Sectors, buffer_cache_read(s)
    PROVE  Store!Read(s)
  <1>1. \A t \in Device : t \in Sectors /\ View[t] \in Data /\ Seen(t, View[t])
    BY ViewFacts DEF Device, ViewOK
  <1>2. View \in [Device -> Data] /\ View' \in [Device -> Data]
    BY ViewFacts, ViewFactsNext DEF ViewOK
  <1>3. ret' \in [op : {"start", "read", "write", "close"},
                  sector : Device \cup PastEnd, data : Data]
    BY DEF Inv, TypeOK, Call, PastEnd
  <1>4. CASE ReadHit(s)
    <2>1. PICK i \in Slot : /\ i \in Hits(s)
                            /\ cache' = [cache EXCEPT ![i].access = TRUE]
                            /\ ret' = [op |-> "read", sector |-> s, data |-> cache[i].buffer]
      BY <1>4 DEF ReadHit, buffer_cache_lookup
    <2>2. disk' = disk
      BY <1>4 DEF ReadHit
    <2>3. \A j \in Slot : /\ cache'[j].occupied = cache[j].occupied
                          /\ cache'[j].disk_sector = cache[j].disk_sector
                          /\ cache'[j].buffer = cache[j].buffer
      BY <2>1 DEF Inv, TypeOK, Entry
    <2>4. \A t \in Device : View'[t] = View[t]
      <3> SUFFICES ASSUME NEW t \in Device PROVE View'[t] = View[t]
        OBVIOUS
      <3>1. PICK d \in Data : d = View[t]
        BY <1>1
      <3>2. Seen(t, d)
        BY <1>1, <3>1
      <3>3. Seen(t, d)'
        BY <2>2, <2>3, <3>2 DEF Seen, Slot
      <3> QED
        BY <3>1, <3>3, ViewFactsNext
    <2>5. View' = View
      BY <1>2, <2>4
    <2>6. Durable' = Durable
      BY <2>2 DEF Durable, Device
    <2>7. s \in Device => ret'.data = View[s]
      BY <1>1, <2>1 DEF Seen, Hits, Inv, UniqueEntry
    <2> QED
      BY <1>3, <2>1, <2>5, <2>6, <2>7 DEF Store!Read, Store!DestageOne, Store!Call, Durable
  <1>5. CASE ReadMiss(s)
    <2>1. PICK n \in 0 .. CacheSize :
             /\ buffer_cache_evict(n)
             /\ cache' = [Swept(n) EXCEPT
                            ![clock'] = Loaded(s, block_read(s, cache[clock'].buffer), FALSE)]
             /\ ret' = [op |-> "read", sector |-> s,
                        data |-> block_read(s, cache[clock'].buffer)]
      BY <1>5 DEF ReadMiss
    <2>2. Hits(s) = {}
      BY <1>5 DEF ReadMiss
    <2>3. PICK b : b = block_read(s, cache[clock'].buffer)
      OBVIOUS
    <2>4. b \in Data
      BY <1>3, <2>1, <2>3
    <2>5. /\ \A t \in Device : View'[t] = IF t = s THEN b ELSE View[t]
          /\ \/ \A t \in Device : disk'[t] = disk[t]
             \/ \E u \in Device : \A t \in Device :
                   disk'[t] = IF t = u THEN View[t] ELSE disk[t]
          /\ s \in Device => View[s] = disk'[s]
      BY <2>1, <2>2, <2>3, <2>4, MissView
    <2>6. s \in Device => b = View[s]
      <3>1. s \in Device => s < length'
        BY DeviceAssumption DEF Device, Inv, TypeOK, LengthCovers
      <3> QED
        BY <2>3, <2>5, <3>1 DEF block_read
    <2>7. View' = View
      BY <1>2, <2>5, <2>6
    <2> QED
      BY <1>3, <2>1, <2>3, <2>5, <2>6, <2>7, Destages
      DEF Store!Read, Store!DestageOne, Store!Call, Durable
  <1> QED
    BY <1>4, <1>5 DEF buffer_cache_read

\* A write of the cache is a write of the store.
LEMMA WriteRefines ==
    ASSUME Inv, Inv', NEW s \in Sectors, NEW source \in Data, buffer_cache_write(s, source)
    PROVE  Store!Write(s, source)
  <1>1. \A t \in Device : t \in Sectors /\ View[t] \in Data /\ Seen(t, View[t])
    BY ViewFacts DEF Device, ViewOK
  <1>2. View \in [Device -> Data] /\ View' \in [Device -> Data]
    BY ViewFacts, ViewFactsNext DEF ViewOK
  <1>3. ret' = [op |-> "write", sector |-> s, data |-> source]
    BY DEF buffer_cache_write
  <1>4. /\ \A t \in Device : View'[t] = IF t = s THEN source ELSE View[t]
        /\ \/ \A t \in Device : disk'[t] = disk[t]
           \/ \E u \in Device : \A t \in Device :
                 disk'[t] = IF t = u THEN View[t] ELSE disk[t]
    <2>1. CASE WriteHit(s, source)
      <3>1. PICK i \in Slot : /\ i \in Hits(s)
                              /\ cache' = [cache EXCEPT ![i] = Loaded(s, source, TRUE)]
        BY <2>1 DEF WriteHit, buffer_cache_lookup
      <3>2. disk' = disk
        BY <2>1 DEF WriteHit
      <3>3. /\ cache'[i].occupied /\ cache'[i].disk_sector = s /\ cache'[i].buffer = source
            /\ \A j \in Slot \ {i} : cache'[j] = cache[j]
        BY <3>1 DEF Inv, TypeOK, Loaded
      <3>4. ASSUME NEW t \in Device PROVE View'[t] = IF t = s THEN source ELSE View[t]
        <4>1. PICK d \in Data : d = IF t = s THEN source ELSE View[t]
          BY <1>1
        <4>2. CASE t = s
          <5>1. Seen(t, d)'
            BY <3>3, <4>1, <4>2 DEF Seen, Slot
          <5> QED
            BY <4>1, <5>1, ViewFactsNext
        <4>3. CASE t # s
          <5>1. Seen(t, d)
            BY <1>1, <4>1, <4>3
          <5>2. cache[i].disk_sector # t
            BY <3>1, <4>3 DEF Hits
          <5>3. Seen(t, d)'
            BY <3>2, <3>3, <4>3, <5>1, <5>2 DEF Seen, Slot
          <5> QED
            BY <4>1, <5>3, ViewFactsNext
        <4> QED
          BY <4>2, <4>3
      <3> QED
        BY <3>2, <3>4
    <2>2. CASE WriteMiss(s, source)
      <3>1. PICK n \in 0 .. CacheSize :
               /\ buffer_cache_evict(n)
               /\ cache' = [Swept(n) EXCEPT ![clock'] = Loaded(s, source, TRUE)]
        BY <2>2 DEF WriteMiss
      <3>2. Hits(s) = {}
        BY <2>2 DEF WriteMiss
      <3> QED
        BY <3>1, <3>2, MissView
    <2> QED
      BY <2>1, <2>2 DEF buffer_cache_write
  <1>5. View' = IF s \in Device THEN [View EXCEPT ![s] = source] ELSE View
    BY <1>2, <1>4
  <1> QED
    BY <1>3, <1>4, <1>5, Destages DEF Store!Write, Store!DestageOne, Durable

\* Write-backs of the first k slots make part of what is seen durable.
LEMMA FlushSome ==
    ASSUME Inv, NEW k \in 0 .. CacheSize, disk' = WrittenBack(ToFlush(k))
    PROVE  \A t \in Device : disk'[t] = disk[t] \/ disk'[t] = View[t]
  <1> SUFFICES ASSUME NEW t \in Device, disk'[t] # disk[t]
               PROVE  disk'[t] = View[t]
    OBVIOUS
  <1>1. PICK i \in ToFlush(k) : cache[i].disk_sector = t
    BY ToFlushFacts, WrittenBackOther DEF Device
  <1>2. disk'[t] = cache[i].buffer
    BY <1>1, ToFlushFacts, WrittenBackOne DEF Inv
  <1>3. i \in Slot /\ cache[i].occupied /\ cache[i].buffer \in Data
    BY ToFlushFacts DEF Inv, TypeOK, Entry
  <1>4. Seen(t, cache[i].buffer)
    BY <1>1, <1>3 DEF Seen
  <1> QED
    BY <1>2, <1>3, <1>4, ViewFacts DEF ViewOK

\* Closing the cache makes everything durable.
LEMMA CloseRefines == Inv /\ Inv' /\ buffer_cache_close => Store!Close
  <1> SUFFICES ASSUME Inv, Inv', buffer_cache_close PROVE Store!Close
    OBVIOUS
  <1> DEFINE W == ToFlush(CacheSize)
  <1>1. \A t \in Device : t \in Sectors /\ View[t] \in Data /\ Seen(t, View[t])
    BY ViewFacts DEF Device, ViewOK
  <1>2. View \in [Device -> Data] /\ View' \in [Device -> Data]
    BY ViewFacts, ViewFactsNext DEF ViewOK
  <1>3. disk' = WrittenBack(W) /\ CacheSize \in 0 .. CacheSize
    BY CacheSizeAssumption DEF buffer_cache_close
  <1>4. \A i \in Slot : cache'[i] = IF i \in W THEN [cache[i] EXCEPT !.dirty = FALSE] ELSE cache[i]
    BY DEF buffer_cache_close
  <1>5. \A i \in Slot : /\ cache'[i].occupied = cache[i].occupied
                        /\ cache'[i].disk_sector = cache[i].disk_sector
                        /\ cache'[i].buffer = cache[i].buffer
                        /\ cache'[i].occupied => ~cache'[i].dirty
    <2> SUFFICES ASSUME NEW i \in Slot
                 PROVE  /\ cache'[i].occupied = cache[i].occupied
                        /\ cache'[i].disk_sector = cache[i].disk_sector
                        /\ cache'[i].buffer = cache[i].buffer
                        /\ cache'[i].occupied => ~cache'[i].dirty
      OBVIOUS
    <2>1. cache[i] \in Entry
      BY DEF Inv, TypeOK
    <2>2. i \in W <=> cache[i].occupied /\ cache[i].dirty
      BY CacheSizeAssumption DEF ToFlush, Slot
    <2> QED
      BY <1>4, <2>1, <2>2 DEF Entry
  <1>6. ASSUME NEW t \in Device PROVE disk'[t] = View[t] /\ View'[t] = View[t]
    <2>0. PICK d \in Data : d = View[t]
      BY <1>1
    <2>1. CASE \E i \in Slot : cache[i].occupied /\ cache[i].disk_sector = t
      <3>1. PICK i \in Slot : cache[i].occupied /\ cache[i].disk_sector = t
        BY <2>1
      <3>2. cache[i].buffer = d
        BY <1>1, <2>0, <3>1 DEF Seen, Inv, UniqueEntry
      <3>3. Seen(t, d)'
        BY <1>5, <3>1, <3>2 DEF Seen, Slot
      <3>4. disk'[t] = cache'[i].buffer
        BY <1>5, <3>1 DEF Inv, CleanMatchesDisk, Device, Slot
      <3> QED
        BY <1>5, <2>0, <3>2, <3>3, <3>4, ViewFactsNext
    <2>2. CASE \A i \in Slot : ~(cache[i].occupied /\ cache[i].disk_sector = t)
      <3>1. View[t] = disk[t]
        BY <1>1, <2>2 DEF Seen
      <3>2. disk'[t] = disk[t]
        BY <1>3, <2>2, <1>1, ToFlushFacts, WrittenBackOther
      <3>3. Seen(t, d)'
        BY <1>5, <2>0, <2>2, <3>1, <3>2 DEF Seen, Slot
      <3> QED
        BY <2>0, <3>1, <3>2, <3>3, ViewFactsNext
    <2> QED
      BY <2>1, <2>2
  <1>7. View' = View
    BY <1>2, <1>6
  <1>8. Durable' = View
    BY <1>2, <1>6 DEF Durable, Device
  <1>9. ret' \in [op : {"start", "read", "write", "close"},
                  sector : Device \cup PastEnd, data : Data]
    BY DEF Inv, TypeOK, Call, PastEnd
  <1>10. ret'.op = "close"
    BY DEF buffer_cache_close
  <1> QED
    BY <1>7, <1>8, <1>9, <1>10 DEF Store!Close, Store!Call, Durable

\* The death of the process loses exactly what was not written back.
LEMMA RestartRefines == Inv /\ Inv' /\ Restart => Store!Restart
  <1> SUFFICES ASSUME Inv, Inv', Restart PROVE Store!Restart
    OBVIOUS
  <1>1. PICK k \in 0 .. CacheSize : disk' = WrittenBack(ToFlush(k))
    BY DEF Restart
  <1>2. \A t \in Device : disk'[t] = disk[t] \/ disk'[t] = View[t]
    BY <1>1, FlushSome
  <1> DEFINE D == {t \in Device : disk'[t] = View[t]}
  <1>3. Durable' = [t \in Device |-> IF t \in D THEN View[t] ELSE Durable[t]]
    BY <1>2 DEF Durable, Device
  <1>4. \A t \in Device : View'[t] = disk'[t]
    BY DEF View, Hits, Restart, ZeroedEntry, Device, Slot
  <1>5. View' \in [Device -> Data]
    BY ViewFactsNext
  <1>6. View' = Durable'
    BY <1>4, <1>5 DEF Durable, Device
  <1>7. ret' \in [op : {"start", "read", "write", "close"},
                  sector : Device \cup PastEnd, data : Data]
    BY DEF Inv, TypeOK, Call, PastEnd
  <1>8. ret'.op = "start"
    BY DEF Restart, Started
  <1>9. D \in SUBSET Device
    OBVIOUS
  <1> QED
    BY <1>3, <1>6, <1>7, <1>8, <1>9 DEF Store!Restart, Store!Call, Durable

\* Every step of the cache is a step of the store.
LEMMA NextRefines == Inv /\ Inv' /\ [Next]_vars => [Store!Next]_(Store!vars)
  <1> SUFFICES ASSUME Inv, Inv', [Next]_vars PROVE [Store!Next]_(Store!vars)
    OBVIOUS
  <1>0. Sectors = Device \cup PastEnd
    BY DEF Device, PastEnd
  <1>1. ASSUME NEW s \in Sectors, buffer_cache_read(s) PROVE Store!Next
    BY <1>0, <1>1, ReadRefines DEF Store!Next
  <1>2. ASSUME NEW s \in Sectors, NEW source \in Data, buffer_cache_write(s, source)
        PROVE  Store!Next
    BY <1>0, <1>2, WriteRefines DEF Store!Next
  <1>3. CASE buffer_cache_close
    BY <1>3, CloseRefines DEF Store!Next
  <1>4. CASE Restart
    BY <1>4, RestartRefines DEF Store!Next
  <1>5. CASE UNCHANGED vars
    BY <1>5 DEF vars, Store!vars, View, Hits, Device, Slot
  <1> QED
    BY <1>1, <1>2, <1>3, <1>4, <1>5 DEF Next

\* The buffer cache implements the store of sectors: reads return the last
\* write, a close makes all of it durable, and a crash loses no more than what
\* had not been destaged.
THEOREM Refinement == Spec => ImplementsStore
  <1>1. Spec => []Inv
    BY Invariance
  <1> QED
    BY <1>1, InitRefines, NextRefines, PTL DEF Spec, ImplementsStore, Store!Spec

-----------------------------------------------------------------------------
\* A full turn of the hand visits every slot.
LEMMA FullTurn ==
    ASSUME clock \in Slot, NEW j \in Slot
    PROVE  \E k \in 0 .. CacheSize - 1 : Hand(k) = j
  <1> DEFINE k == IF j >= clock THEN j - clock ELSE j - clock + CacheSize
  <1>1. k \in 0 .. CacheSize - 1
    BY CacheSizeAssumption DEF Slot
  <1>2. Hand(k) = j
    BY CacheSizeAssumption DEF Slot, Hand
  <1> QED
    BY <1>1, <1>2

\* The hand takes a referenced entry only after a full turn over referenced ones.
LEMMA EvictSecondChance ==
    ASSUME TypeOK, NEW n \in 0 .. CacheSize, buffer_cache_evict(n),
           cache[Hand(n)].occupied, cache[Hand(n)].access
    PROVE  \A j \in Slot : cache[j].occupied /\ cache[j].access
  <1> SUFFICES ASSUME NEW j \in Slot PROVE cache[j].occupied /\ cache[j].access
    OBVIOUS
  <1>1. n = CacheSize
    BY DEF buffer_cache_evict, Stops
  <1>2. PICK k \in 0 .. CacheSize - 1 : Hand(k) = j
    BY FullTurn DEF TypeOK
  <1>3. ~Stops(k)
    BY <1>1, <1>2 DEF buffer_cache_evict
  <1> QED
    BY <1>2, <1>3 DEF Stops

\* The clock algorithm gives every referenced entry its second chance.
THEOREM SecondChanceHolds == Spec => SecondChance
  <1> DEFINE A == \A i \in Slot :
                    /\ cache[i].occupied /\ cache[i].access
                    /\ cache'[i].disk_sector # cache[i].disk_sector
                    /\ ret'.op # "start"
                    => \A j \in Slot : cache[j].occupied /\ cache[j].access
  <1>1. ASSUME TypeOK, [Next]_vars PROVE [A]_vars
    <2> SUFFICES ASSUME NEW i \in Slot, cache[i].occupied, cache[i].access,
                        cache'[i].disk_sector # cache[i].disk_sector,
                        ret'.op # "start"
                 PROVE  \A j \in Slot : cache[j].occupied /\ cache[j].access
      OBVIOUS
    <2>0. cache[i] \in Entry /\ cache \in [Slot -> Entry]
      BY <1>1 DEF TypeOK
    <2>1. ASSUME NEW n \in 0 .. CacheSize, NEW e, buffer_cache_evict(n),
                 cache' = [Swept(n) EXCEPT ![clock'] = e]
          PROVE  \A j \in Slot : cache[j].occupied /\ cache[j].access
      <3>1. clock' = Hand(n) /\ Hand(n) \in Slot
        BY <1>1, <2>1, HandInSlot DEF buffer_cache_evict, TypeOK
      <3>2. i # Hand(n) => cache'[i].disk_sector = cache[i].disk_sector
        BY <1>1, <2>1, <3>1, SweptFacts
      <3> QED
        BY <1>1, <2>1, <3>2, EvictSecondChance
    <2>2. ASSUME NEW s \in Sectors, buffer_cache_read(s)
          PROVE  \A j \in Slot : cache[j].occupied /\ cache[j].access
      <3>1. CASE ReadHit(s)
        <4>1. cache'[i].disk_sector = cache[i].disk_sector
          BY <2>0, <3>1 DEF ReadHit, Entry
        <4> QED
          BY <4>1
      <3>2. CASE ReadMiss(s)
        BY <2>1, <3>2 DEF ReadMiss
      <3> QED
        BY <2>2, <3>1, <3>2 DEF buffer_cache_read
    <2>3. ASSUME NEW s \in Sectors, NEW source \in Data, buffer_cache_write(s, source)
          PROVE  \A j \in Slot : cache[j].occupied /\ cache[j].access
      <3>1. CASE WriteHit(s, source)
        <4>1. cache'[i].disk_sector = cache[i].disk_sector
          BY <2>0, <3>1 DEF WriteHit, Loaded, buffer_cache_lookup, Hits
        <4> QED
          BY <4>1
      <3>2. CASE WriteMiss(s, source)
        BY <2>1, <3>2 DEF WriteMiss
      <3> QED
        BY <2>3, <3>1, <3>2 DEF buffer_cache_write
    <2>4. CASE buffer_cache_close
      <3>1. cache'[i].disk_sector = cache[i].disk_sector
        BY <2>0, <2>4 DEF buffer_cache_close, Entry
      <3> QED
        BY <3>1
    <2>5. CASE Restart
      BY <2>5 DEF Restart, Started
    <2>6. CASE UNCHANGED vars
      BY <2>6 DEF vars
    <2> QED
      BY <1>1, <2>2, <2>3, <2>4, <2>5, <2>6 DEF Next
  <1> QED
    BY <1>1, TypeCorrect, PTL DEF Spec, SecondChance
=============================================================================
