---------------------------- MODULE SectorStore ----------------------------
(***************************************************************************)
(* What the buffer cache promises its callers (inode.c, directory.c,       *)
(* free-map.c): a store of sectors in which a read returns the last write, *)
(* and behind it a durable copy that lags behind.  A call may destage one  *)
(* sector, buffer_cache_close destages all of them, and the death of the   *)
(* process loses exactly what was not destaged.                            *)
(***************************************************************************)

CONSTANTS Device,    \* the sectors of the device
          PastEnd,   \* sector numbers beyond its end
          Data,      \* contents of a sector
          Zero       \* the all-zero sector

VARIABLES store,     \* what a read of each sector returns
          durable,   \* what is in the file that backs the device
          ret        \* the last call and what it returned

vars == <<store, durable, ret>>

Call == [op : {"start", "read", "write", "close"},
         sector : Device \cup PastEnd, data : Data]

\* Any one sector, or none, reaches the device in the course of a call.
DestageOne == \/ durable' = durable
              \/ \E t \in Device : durable' = [durable EXCEPT ![t] = store[t]]

Init == /\ store \in [Device -> Data]
        /\ durable = store
        /\ ret \in Call
        /\ ret.op = "start"

Read(s) == /\ DestageOne
           /\ UNCHANGED store
           /\ ret' \in Call
           /\ ret'.op = "read" /\ ret'.sector = s
           /\ s \in Device => ret'.data = store[s]

Write(s, d) == /\ DestageOne
               /\ store' = IF s \in Device THEN [store EXCEPT ![s] = d] ELSE store
               /\ ret' = [op |-> "write", sector |-> s, data |-> d]

Close == /\ durable' = store
         /\ UNCHANGED store
         /\ ret' \in Call
         /\ ret'.op = "close"

\* The process dies, possibly in the middle of a close, and starts again.
Restart == /\ \E D \in SUBSET Device :
                durable' = [s \in Device |-> IF s \in D THEN store[s] ELSE durable[s]]
           /\ store' = durable'
           /\ ret' \in Call
           /\ ret'.op = "start"

Next == \/ \E s \in Device \cup PastEnd : Read(s)
        \/ \E s \in Device \cup PastEnd, d \in Data : Write(s, d)
        \/ Close
        \/ Restart

Spec == Init /\ [][Next]_vars
=============================================================================
