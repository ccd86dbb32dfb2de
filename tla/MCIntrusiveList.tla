--------------------------- MODULE MCIntrusiveList ---------------------------
(***************************************************************************)
(* Instances of IntrusiveList for TLC.                                     *)
(***************************************************************************)
EXTENDS IntrusiveList

CONSTANTS e1, e2, e3, e4, e5

FiveElems == {e1, e2, e3, e4, e5}

\* Two pairs of elements are equal to each other.
FiveKeys == [e \in FiveElems |-> CASE e \in {e1, e2} -> 1 [] e = e3 -> 2 [] e \in {e4, e5} -> 3]
=============================================================================
