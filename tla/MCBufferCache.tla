--------------------------- MODULE MCBufferCache ---------------------------
(***************************************************************************)
(* Instances of BufferCache for TLC.                                       *)
(***************************************************************************)
EXTENDS BufferCache

CONSTANTS LastSector   \* the largest sector number callers pass

MCSectors == 0 .. LastSector
=============================================================================
