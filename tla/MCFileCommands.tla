--------------------------- MODULE MCFileCommands ---------------------------
(***************************************************************************)
(* Instances of FileCommands for TLC.                                      *)
(***************************************************************************)
EXTENDS FileCommands

\* One letter; written at the end of itself it fills a file of MaxLength bytes.
ShortTexts == {<<1>>}

\* Nothing but letters.
Letters == {<<1, 1, 1>>}

\* Too small for a read, which also is before the file, and at or behind the end.
SomeOffsets == {-2, 4}
=============================================================================
