---------------------------- MODULE MCFileSystem ----------------------------
(***************************************************************************)
(* Instances of FileSystem for TLC.                                        *)
(***************************************************************************)
EXTENDS FileSystem, TLC

\* File names are interchangeable.
Symmetry == Permutations(Names)
=============================================================================
