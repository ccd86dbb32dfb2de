--------------------------- MODULE MCPagingKernel ---------------------------
(***************************************************************************)
(* Instances of PagingKernel for TLC: the scripts.                         *)
(***************************************************************************)
EXTENDS PagingKernel

Plain(n) == [lines |-> [k \in 1 .. n |-> "cmd"], nl |-> FALSE]

\* Scripts whose last line has no newline, of one to five pages.
PlainScripts == {Plain(n) : n \in {1, 3, 4, 7, 8, 11, 13}}

\* Names of variables.
ThreeNames == {-1, -2, -3}

\* Eight lines, of which those in R return 1.
Eight(R) == [lines |-> [k \in 1 .. 8 |-> IF k \in R THEN "one" ELSE "cmd"], nl |-> FALSE]

\* Scripts of every shape: blank lines, lines that return 1, final newlines, one that
\* sets variables, a regular one, and two whose pages are loaded over.
OddScripts ==
    {s \in [lines : UNION {[1 .. n -> {"cmd", "one", "blank"}] : n \in 0 .. 1}, nl : BOOLEAN] :
        s.lines = << >> => ~s.nl}
    \cup [lines : {<<"one", "cmd", "blank", "one">>, <<"set", "set", "cmd", "cmd", "cmd", "set">>},
          nl : BOOLEAN]
    \cup {Eight({}), Eight({6}), Eight({3, 8})}
=============================================================================
