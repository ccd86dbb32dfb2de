------------------------------ MODULE MCA1Shell ------------------------------
(***************************************************************************)
(* Instances of A1Shell for TLC.                                           *)
(***************************************************************************)
EXTENDS A1Shell

Set(v, x) == [op |-> "set", var |-> v, value |-> x]
Run(f) == [op |-> "run", file |-> f]
Touch(f) == [op |-> "my_touch", file |-> f]
Variable(v) == [var |-> TRUE, name |-> v]
Word(x) == [var |-> FALSE, name |-> x]
Mkdir == [op |-> "my_mkdir"]
If(a, b, eq, c, d) == [op |-> "if", left |-> a, right |-> b, equal |-> eq, then |-> c, else |-> d]

\* outer runs inner, whose last line has no newline; loop runs itself once or
\* twice, or opens a file when all descriptors are taken.
SomeFiles == {"outer", "inner", "loop", "new"}
SomeScripts == [f \in SomeFiles |->
    CASE f = "outer" -> [lines |-> <<Set("x", "p"), Run("inner")>>, newline |-> TRUE]
      [] f = "inner" -> [lines |-> <<Set("y", "q"), If(Variable("x"), Word("p"), FALSE, Run("outer"), Mkdir)>>,
                         newline |-> FALSE]
      [] f = "loop"  -> [lines |-> <<Run("loop"), If(Variable("x"), Word("q"), TRUE, Touch("new"), Run("loop"))>>,
                         newline |-> TRUE]
      [] f = "new"   -> Absent]

SomeTyped == {Set(v, x) : v \in {"x", "y", "z", none}, x \in {"p", "q"}}
             \cup {Run(f) : f \in SomeFiles}
             \cup {Touch("inner"), Mkdir, [op |-> "quit"], Unknown}
             \cup {[op |-> o] : o \in {"my_ls", "print", "my_cd"}}
             \cup {[op |-> o, file |-> "new"] : o \in {"my_cat", "my_wc"}}
             \cup {If(Variable("z"), Word("p"), TRUE, Mkdir, Set("z", "p"))}
=============================================================================
