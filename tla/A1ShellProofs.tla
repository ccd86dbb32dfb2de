---------------------------- MODULE A1ShellProofs ----------------------------
(***************************************************************************)
(* Proofs about the a1 shell, for every set of names, values, files and    *)
(* scripts, every size of shell memory and every limit of open scripts:    *)
(* the type invariant, what status 99 means, and that shell memory         *)
(* implements a map with room for a fixed number of names.                 *)
(***************************************************************************)
EXTENDS A1Shell, NatLemmas, FiniteSetTheorems, SequenceTheorems

Contents == [lines : Seq(Lines), newline : BOOLEAN]
BadIf == [op |-> "badif"]
Entry == [var : Names \cup {none}, value : Values \cup {none}]

\* The entries of a table are typed and packed.
Packed(m) ==
    /\ m \in [1 .. Slots -> Entry]
    /\ \A j, k \in 1 .. Slots : j # k /\ m[j].var = m[k].var => m[j].var = none
    /\ \A j, k \in 1 .. Slots : j < k /\ m[j].var = none => m[k].var = none

TypeInv ==
    /\ Packed(shellmemory)
    /\ stack \in Seq(Seq(Lines)) /\ Len(stack) <= MaxFiles
    /\ files \in [Dirs -> [Files -> Contents]]
    /\ below \in [Dirs -> BOOLEAN] /\ cwd \in Dirs
    /\ ret \in -1 .. 7
    /\ phase \in {"prompt", "run", "exit0", "exit99", "crashed"}
    /\ phase = "prompt" => stack = << >>

EndsUnknown(s) == s # << >> /\ s[Len(s)] = Unknown

\* The result -1 stands while a script runs only if a mkdir or ls has just failed, or
\* if a script that has a line to execute was opened after it.
Failed == phase = "run" /\ ret = -1 =>
             \/ last.op \in {"my_mkdir", "my_ls"}
             \/ stack # << >> /\ stack[Len(stack)] # << >>

\* A script typed whose last line has a newline executes the empty line after it
\* last, and nothing fails behind that.
Hidden == phase = "run" /\ typed # Absent /\ typed.newline =>
             \/ stack # << >> /\ EndsUnknown(stack[1])
             \/ ret # -1 /\ (stack = << >> \/ (Len(stack) = 1 /\ stack[1] = << >>))

\* The inductive invariant.
IInv == TypeInv /\ Failed /\ Hidden /\ Ends99

-----------------------------------------------------------------------------
\* Lines.

\* What is executed for a line.
LEMMA BranchFacts ==
    ASSUME NEW line \in Lines
    PROVE  Branch(line) \in Commands \cup {BadIf} /\ (line = Unknown => Branch(line) = Unknown)
  <1>1. CASE line \in Commands
    <2>1. line.op # "if"
      BY <1>1 DEF Commands
    <2> QED
      BY <1>1, <2>1 DEF Branch
  <1>2. CASE line \in [op : {"if"}, left : Words, right : Words, equal : BOOLEAN,
                       then : Commands, else : Commands]
    <2>1. line.op = "if" /\ line.then \in Commands /\ line.else \in Commands
      BY <1>2
    <2>2. Branch(line) \in {BadIf, line.then, line.else}
      BY <2>1 DEF Branch, BadIf
    <2>3. line # Unknown
      BY <2>1 DEF Unknown
    <2> QED
      BY <2>1, <2>2, <2>3
  <1> QED
    BY <1>1, <1>2 DEF Lines

\* What a command has.
LEMMA CommandFacts ==
    ASSUME NEW c \in Commands \cup {BadIf}
    PROVE  /\ c.op = "set" => c.var \in Names \cup {none} /\ c.value \in Values
           /\ c.op \in {"run", "my_touch", "my_cat", "my_wc"} => c.file \in Files
  BY DEF Commands, BadIf

\* What run passes to parseInput: lines, at least one, the empty one last if the file
\* ends in a newline.
LEMMA ScriptFacts ==
    ASSUME NEW f \in Contents, f # Absent,
           NEW g \in (IF f = Empty THEN Garbage ELSE {Unknown})
    PROVE  /\ ScriptLines(f, g) \in Seq(Lines)
           /\ ScriptLines(f, g) # << >>
           /\ f.newline => EndsUnknown(ScriptLines(f, g))
  <1>1. Unknown \in Lines
    BY DEF Unknown, Lines, Commands
  <1>2. Garbage \subseteq Lines
    <2>1. ASSUME NEW n \in Files, NEW k \in 1 .. Len(Script[n].lines)
          PROVE  Script[n].lines[k] \in Lines
      BY LineAssumption
    <2> QED
      BY <1>1, <2>1 DEF Garbage
  <1>3. g \in Lines
    BY <1>1, <1>2
  <1>4. f.lines \in Seq(Lines) /\ f.newline \in BOOLEAN
        /\ f = [lines |-> f.lines, newline |-> f.newline]
    BY DEF Contents
  <1>5. CASE f = Empty
    <2>1. ScriptLines(f, g) = <<g>> /\ ~f.newline
      BY <1>5 DEF ScriptLines, Empty
    <2> QED
      BY <1>3, <2>1
  <1>6. CASE f # Empty /\ f.newline
    <2>1. ScriptLines(f, g) = Append(f.lines, Unknown)
      BY <1>6 DEF ScriptLines
    <2> QED
      BY <1>1, <1>4, <2>1 DEF EndsUnknown
  <1>7. CASE f # Empty /\ ~f.newline
    <2>1. ScriptLines(f, g) = f.lines
      BY <1>7 DEF ScriptLines
    <2>2. f.newline = FALSE
      BY <1>4, <1>7
    <2>3. f.lines # << >>
      BY <1>4, <1>7, <2>2 DEF Empty
    <2> QED
      BY <1>4, <1>7, <2>1, <2>3
  <1> QED
    BY <1>5, <1>6, <1>7

-----------------------------------------------------------------------------
\* Shell memory.

\* The first entry of a name.
LEMMA FirstFacts ==
    ASSUME NEW m, NEW v
    PROVE  /\ FirstEntry(m, v) = 0 => \A k \in 1 .. Slots : m[k].var # v
           /\ FirstEntry(m, v) # 0 =>
                 /\ FirstEntry(m, v) \in 1 .. Slots
                 /\ m[FirstEntry(m, v)].var = v
                 /\ \A k \in 1 .. Slots : m[k].var = v => FirstEntry(m, v) <= k
  <1> DEFINE S == {k \in 1 .. Slots : m[k].var = v}
  <1>1. FirstEntry(m, v) = IF S = {} THEN 0 ELSE CHOOSE k \in S : \A j \in S : k <= j
    BY DEF FirstEntry
  <1>2. S \in SUBSET Nat
    BY ShellAssumption
  <1>3. S # {} => FirstEntry(m, v) \in S /\ \A j \in S : FirstEntry(m, v) <= j
    <2> HIDE DEF S
    <2> QED
      BY <1>1, <1>2, LeastNat
  <1>4. S = {} => FirstEntry(m, v) = 0
    BY <1>1
  <1>5. S # {} => FirstEntry(m, v) # 0
    BY <1>3
  <1> QED
    BY <1>3, <1>4, <1>5

\* The two loops of mem_set_value keep the table packed.
LEMMA SetKeepsPacked ==
    ASSUME NEW m, Packed(m), NEW v \in Names \cup {none}, NEW x \in Values
    PROVE  Packed(mem_set_value(m, v, x))
  <1> DEFINE k == FirstEntry(m, v)
             f == FreeEntry(m)
             m1 == mem_set_value(m, v, x)
             Q == 1 .. Slots
  <1>0. m \in [Q -> Entry]
    BY DEF Packed
  <1>1. CASE k # 0
    <2>1. m1 = [m EXCEPT ![k].value = x] /\ k \in Q
      BY <1>1, FirstFacts DEF mem_set_value
    <2>2. \A j \in Q : m[j] \in Entry
      BY <1>0
    <2> HIDE DEF m1, k
    <2>3. \A j \in Q : m1[j] \in Entry /\ m1[j].var = m[j].var
      BY <1>0, <2>1, <2>2 DEF Entry
    <2>4. m1 \in [Q -> Entry]
      BY <1>0, <2>1, <2>3
    <2>5. Packed(m1)
      BY <2>3, <2>4 DEF Packed
    <2> QED
      BY <2>5 DEF m1
  <1>2. CASE k = 0 /\ f # 0
    <2>1. m1 = [m EXCEPT ![f] = [var |-> v, value |-> x]]
      BY <1>2 DEF mem_set_value
    <2>2. f \in Q /\ m[f].var = none /\ \A j \in Q : m[j].var = none => f <= j
      BY <1>2, FirstFacts DEF FreeEntry
    <2>3. \A j \in Q : m[j].var # v
      BY <1>2, FirstFacts
    <2> HIDE DEF m1, k, f
    <2>4. v # none
      BY <2>2, <2>3
    <2>5. m1 \in [Q -> Entry]
      BY <1>0, <2>1 DEF Entry
    <2>6. m1[f].var = v /\ \A j \in Q : j # f => m1[j] = m[j]
      BY <1>0, <2>1, <2>2
    <2>7. \A i, j \in Q : i # j /\ m1[i].var = m1[j].var => m1[i].var = none
      BY <2>3, <2>6 DEF Packed
    <2>8. ASSUME NEW i \in Q, NEW j \in Q, i < j, m1[i].var = none PROVE m1[j].var = none
      <3>1. i # f /\ m[i].var = none
        BY <2>4, <2>6, <2>8
      <3>2. j # f
        BY <3>1, <2>2, <2>8, ShellAssumption
      <3> QED
        BY <3>1, <3>2, <2>6, <2>8 DEF Packed
    <2>9. Packed(m1)
      BY <2>5, <2>7, <2>8 DEF Packed
    <2> QED
      BY <2>9 DEF m1
  <1>3. CASE k = 0 /\ f = 0
    BY <1>3 DEF mem_set_value
  <1> QED
    BY <1>1, <1>2, <1>3

-----------------------------------------------------------------------------
\* One line.

\* The parts of the state a command leaves typed.
Typed1 ==
    /\ Packed(shellmemory)
    /\ stack \in Seq(Seq(Lines)) /\ Len(stack) <= MaxFiles
    /\ files \in [Dirs -> [Files -> Contents]]
    /\ below \in [Dirs -> BOOLEAN] /\ cwd \in Dirs
    /\ ret \in -1 .. 7

\* How a command that does not end the shell leaves the scripts: it returns, or it
\* opens another one.
Goes(c, rest) ==
    phase' = "run" =>
       \/ stack' = rest /\ (ret' = -1 => c.op \in {"my_mkdir", "my_ls"})
       \/ \E s \in Seq(Lines) : s # << >> /\ c.op = "run" /\ stack' = Append(rest, s)

\* What executing a line does.
LEMMA InterpreterFacts ==
    ASSUME TypeInv, NEW line \in Lines, NEW rest \in Seq(Seq(Lines)), Len(rest) <= Len(stack),
           interpreter(line, rest)
    PROVE  /\ Typed1'
           /\ phase' \in {"run", "exit0", "crashed"}
           /\ last' = Branch(line)
           /\ Goes(Branch(line), rest)
           /\ line = Unknown => stack' = rest /\ ret' = 1
  <1> DEFINE c == Branch(line)
  <1>1. c \in Commands \cup {BadIf} /\ (line = Unknown => c = Unknown)
    BY BranchFacts
  <1>2. /\ c.op = "set" => c.var \in Names \cup {none} /\ c.value \in Values
        /\ c.op \in {"run", "my_touch", "my_cat", "my_wc"} => c.file \in Files
    BY <1>1, CommandFacts
  <1>3. /\ last' = c
        /\ \/ set(c, rest) \/ print(c, rest) \/ run(c, rest) \/ quit(c, rest)
           \/ my_ls(c, rest) \/ my_mkdir(c, rest) \/ my_touch(c, rest) \/ my_cd(c, rest) \/ my_cat(c, rest)
    BY DEF interpreter
  <1>4. /\ Packed(shellmemory) /\ Len(rest) <= MaxFiles /\ Len(rest) \in Nat
        /\ files \in [Dirs -> [Files -> Contents]]
        /\ below \in [Dirs -> BOOLEAN] /\ cwd \in Dirs /\ ret \in -1 .. 7
        /\ Len(stack) \in Nat /\ MaxFiles \in Nat /\ Dirs \subseteq Nat
    BY ShellAssumption DEF TypeInv, Dirs
  <1>5. line = Unknown => c.op = "unknown"
    BY <1>1 DEF Unknown
  <1> HIDE DEF c
  <1>6. ASSUME Packed(shellmemory'), NEW n \in -1 .. 7, Returns(n, rest),
               files' \in [Dirs -> [Files -> Contents]],
               below' \in [Dirs -> BOOLEAN], cwd' \in Dirs
        PROVE  /\ Typed1' /\ phase' = "run" /\ ret' = n /\ stack' = rest
    BY <1>4, <1>6 DEF Returns, Typed1, Packed
  <1>7. ASSUME Packed(shellmemory'), Returns(0, rest) \/ Returns(3, rest) \/ Returns(5, rest),
               files' \in [Dirs -> [Files -> Contents]],
               below' \in [Dirs -> BOOLEAN], cwd' \in Dirs
        PROVE  Typed1' /\ phase' = "run" /\ ret' \in {0, 3, 5} /\ stack' = rest
    BY <1>4, <1>7 DEF Returns, Typed1, Packed
  <1>8. CASE set(c, rest)
    <2>1. /\ Returns(0, rest) /\ UNCHANGED <<files, below, cwd>> /\ c.op = "set"
          /\ shellmemory' = mem_set_value(shellmemory, c.var, c.value)
      BY <1>8 DEF set, host
    <2>2. Packed(shellmemory')
      BY <1>2, <1>4, <2>1, SetKeepsPacked
    <2>3. Typed1' /\ phase' = "run" /\ ret' \in {0, 3, 5} /\ stack' = rest
      BY <1>4, <1>7, <2>1, <2>2
    <2> QED
      BY <1>3, <1>5, <2>1, <2>3 DEF Goes, c
  <1>9. CASE print(c, rest)
    <2> DEFINE n == CASE c.op = "unknown" -> 1 [] c.op = "badif" -> 6 [] OTHER -> 0
    <2>1. /\ Returns(n, rest) /\ UNCHANGED <<shellmemory, files, below, cwd>>
      BY <1>9 DEF print, host
    <2>2. n \in -1 .. 7 /\ n # -1 /\ (c.op = "unknown" => n = 1)
      OBVIOUS
    <2> HIDE DEF n
    <2>3. Typed1' /\ phase' = "run" /\ ret' = n /\ stack' = rest
      BY <1>4, <1>6, <2>1, <2>2
    <2> QED
      BY <1>3, <1>5, <2>2, <2>3 DEF Goes, c
  <1>10. CASE run(c, rest)
    <2> DEFINE f == files[cwd][c.file]
    <2>1. /\ c.op = "run" /\ UNCHANGED <<shellmemory, files, below, cwd>>
          /\ \/ /\ f # Absent /\ CanOpen
                /\ \E g \in (IF f = Empty THEN Garbage ELSE {Unknown}) :
                      stack' = Append(rest, ScriptLines(f, g))
                /\ phase' = "run" /\ ret' = ret
             \/ Returns(3, rest)
      BY <1>10 DEF run, host
    <2>2. f \in Contents
      BY <1>2, <1>4, <2>1
    <2> HIDE DEF f
    <2>3. CASE Returns(3, rest)
      <3>1. Typed1' /\ phase' = "run" /\ ret' \in {0, 3, 5} /\ stack' = rest
        BY <1>4, <1>7, <2>1, <2>3
      <3> QED
        BY <1>3, <1>5, <2>1, <3>1 DEF Goes, c
    <2>4. CASE ~Returns(3, rest)
      <3>1. PICK g \in (IF f = Empty THEN Garbage ELSE {Unknown}) :
                   stack' = Append(rest, ScriptLines(f, g))
        BY <2>1, <2>4
      <3>2. f # Absent /\ Len(stack) < MaxFiles /\ phase' = "run" /\ ret' = ret
        BY <2>1, <2>4 DEF CanOpen
      <3> DEFINE s == ScriptLines(f, g)
      <3>3. s \in Seq(Lines) /\ s # << >>
        BY <2>2, <3>2, ScriptFacts
      <3> HIDE DEF s
      <3>4. stack' = Append(rest, s)
        BY <3>1 DEF s
      <3>5. stack' \in Seq(Seq(Lines)) /\ Len(stack') <= MaxFiles
        BY <1>4, <3>2, <3>3, <3>4
      <3>6. Typed1'
        BY <1>4, <2>1, <3>2, <3>5 DEF Typed1, Packed
      <3>7. Goes(c, rest)
        BY <2>1, <3>3, <3>4 DEF Goes
      <3> QED
        BY <1>3, <1>5, <2>1, <3>2, <3>6, <3>7 DEF c
    <2> QED
      BY <2>3, <2>4
  <1>11. CASE quit(c, rest)
    <2>1. /\ UNCHANGED <<shellmemory, ret, files, below, cwd>> /\ stack' = << >> /\ phase' = "exit0"
          /\ c.op = "quit"
      BY <1>11 DEF quit, host
    <2>2. Typed1'
      BY <1>4, <2>1 DEF Typed1, Packed
    <2> QED
      BY <1>3, <1>5, <2>1, <2>2 DEF Goes, c
  <1>12. CASE my_mkdir(c, rest)
    <2>1. /\ c.op = "my_mkdir" /\ UNCHANGED <<shellmemory, files, cwd>>
          /\ \/ Returns(0, rest) /\ below' = [below EXCEPT ![cwd] = TRUE]
             \/ Returns(-1, rest) /\ below' = below
      BY <1>12 DEF my_mkdir
    <2>2. below' \in [Dirs -> BOOLEAN]
      BY <1>4, <2>1
    <2>3. Packed(shellmemory') /\ files' \in [Dirs -> [Files -> Contents]] /\ cwd' \in Dirs
          /\ 0 \in -1 .. 7 /\ -1 \in -1 .. 7
      BY <1>4, <2>1
    <2>4. CASE Returns(0, rest)
      BY <1>3, <1>5, <1>6, <2>1, <2>2, <2>3, <2>4 DEF Goes, c
    <2>5. CASE Returns(-1, rest)
      BY <1>3, <1>5, <1>6, <2>1, <2>2, <2>3, <2>5 DEF Goes, c
    <2> QED
      BY <2>1, <2>4, <2>5
  <1>16. CASE my_ls(c, rest)
    <2>1. /\ c.op = "my_ls" /\ UNCHANGED <<shellmemory, files, below, cwd>>
          /\ Returns(0, rest) \/ Returns(-1, rest)
      BY <1>16 DEF my_ls, host
    <2>2. Packed(shellmemory') /\ files' \in [Dirs -> [Files -> Contents]] /\ cwd' \in Dirs
          /\ below' \in [Dirs -> BOOLEAN] /\ 0 \in -1 .. 7 /\ -1 \in -1 .. 7
      BY <1>4, <2>1
    <2>3. CASE Returns(0, rest)
      BY <1>3, <1>5, <1>6, <2>1, <2>2, <2>3 DEF Goes, c
    <2>4. CASE Returns(-1, rest)
      BY <1>3, <1>5, <1>6, <2>1, <2>2, <2>4 DEF Goes, c
    <2> QED
      BY <2>1, <2>3, <2>4
  <1>13. CASE my_touch(c, rest)
    <2>1. CASE CanOpen
      <3>1. /\ c.op = "my_touch" /\ Returns(0, rest) /\ UNCHANGED <<shellmemory, below, cwd>>
            /\ files' = [files EXCEPT ![cwd][c.file] = Empty]
        BY <1>13, <2>1 DEF my_touch
      <3>2. Empty \in Contents
        BY DEF Empty, Contents
      <3>3. files' \in [Dirs -> [Files -> Contents]]
        BY <1>4, <3>1, <3>2
      <3>4. Typed1' /\ phase' = "run" /\ ret' \in {0, 3, 5} /\ stack' = rest
        BY <1>4, <1>7, <3>1, <3>3
      <3> QED
        BY <1>3, <1>5, <3>1, <3>4 DEF Goes, c
    <2>2. CASE ~CanOpen
      <3>1. /\ c.op = "my_touch" /\ phase' = "crashed" /\ stack' = << >>
            /\ UNCHANGED <<shellmemory, below, cwd, ret, files>>
        BY <1>13, <2>2 DEF my_touch
      <3>2. Typed1'
        BY <1>4, <3>1 DEF Typed1, Packed
      <3> QED
        BY <1>3, <1>5, <3>1, <3>2 DEF Goes, c
    <2> QED
      BY <2>1, <2>2
  <1>14. CASE my_cd(c, rest)
    <2>1. /\ c.op = "my_cd" /\ UNCHANGED <<shellmemory, files, below>>
          /\ \/ cwd' = cwd + 1 /\ Returns(0, rest) /\ cwd < MaxDepth
             \/ cwd' = cwd /\ Returns(5, rest)
      BY <1>14 DEF my_cd
    <2>2. cwd' \in Dirs
      BY <1>4, <2>1, ShellAssumption DEF Dirs
    <2>3. Typed1' /\ phase' = "run" /\ ret' \in {0, 3, 5} /\ stack' = rest
      BY <1>4, <1>7, <2>1, <2>2
    <2> QED
      BY <1>3, <1>5, <2>1, <2>3 DEF Goes, c
  <1>15. CASE my_cat(c, rest)
    <2> DEFINE n == CASE files[cwd][c.file] # Absent /\ CanOpen -> 0
                      [] c.op = "my_cat" -> 6
                      [] OTHER -> 7
    <2>1. /\ c.op \in {"my_cat", "my_wc"} /\ Returns(n, rest)
          /\ UNCHANGED <<shellmemory, files, below, cwd>>
      BY <1>15 DEF my_cat, host
    <2>2. n \in -1 .. 7 /\ n # -1
      OBVIOUS
    <2> HIDE DEF n
    <2>3. Typed1' /\ phase' = "run" /\ ret' = n /\ stack' = rest
      BY <1>4, <1>6, <2>1, <2>2
    <2> QED
      BY <1>3, <1>5, <2>1, <2>2, <2>3 DEF Goes, c
  <1> QED
    BY <1>3, <1>8, <1>9, <1>10, <1>11, <1>12, <1>13, <1>14, <1>15, <1>16

-----------------------------------------------------------------------------
\* The inductive invariant.

\* Nothing is open and memory is empty.
LEMMA InitInv == Init => IInv
  <1> SUFFICES ASSUME Init PROVE IInv
    OBVIOUS
  <1>1. Packed(shellmemory)
    BY DEF Init, mem_init, Packed, Entry
  <1>2. stack = << >> /\ Len(stack) = 0 /\ stack \in Seq(Seq(Lines))
    BY DEF Init
  <1>3. files \in [Dirs -> [Files -> Contents]]
    <2>1. Absent \in Contents
      BY DEF Absent, Contents
    <2>2. \A f \in Files : Script[f] \in Contents
      BY LineAssumption DEF Contents
    <2> QED
      BY <2>1, <2>2 DEF Init
  <1>4. below \in [Dirs -> BOOLEAN] /\ cwd \in Dirs /\ ret \in -1 .. 7 /\ phase = "prompt"
    BY ShellAssumption DEF Init, Dirs
  <1>5. TypeInv
    BY <1>1, <1>2, <1>3, <1>4, ShellAssumption DEF TypeInv
  <1> QED
    BY <1>4, <1>5 DEF IInv, Failed, Hidden, Ends99

\* A line typed at the prompt.
LEMMA TypeKeeps ==
    ASSUME IInv, Type
    PROVE  IInv'
  <1>1. PICK line \in Typed :
           /\ typed' = IF Branch(line).op = "run" THEN files[cwd][Branch(line).file] ELSE Absent
           /\ interpreter(line, << >>)
    BY DEF Type
  <1> DEFINE c == Branch(line)
  <1>2. /\ line \in Lines /\ phase = "prompt" /\ stack = << >> /\ TypeInv
        /\ << >> \in Seq(Seq(Lines)) /\ Len(<< >>) <= Len(stack)
    BY LineAssumption DEF Type, IInv, TypeInv
  <1>3. Typed1' /\ phase' \in {"run", "exit0", "crashed"} /\ last' = c /\ Goes(c, << >>)
    BY <1>1, <1>2, InterpreterFacts
  <1>4. TypeInv'
    BY <1>3 DEF TypeInv, Typed1
  <1>5. c \in Commands \cup {BadIf}
    BY <1>2, BranchFacts
  <1>6. c.op = "run" => c.file \in Files
    BY <1>5, CommandFacts
  <1> HIDE DEF c
  <1>7. Failed'
    <2> SUFFICES ASSUME phase' = "run", ret' = -1
                 PROVE  \/ last'.op \in {"my_mkdir", "my_ls"}
                        \/ stack' # << >> /\ stack'[Len(stack')] # << >>
      BY DEF Failed
    <2>1. CASE \E s \in Seq(Lines) : s # << >> /\ c.op = "run" /\ stack' = Append(<< >>, s)
      BY <2>1
    <2> QED
      BY <1>3, <2>1 DEF Goes
  <1>8. Hidden'
    <2> SUFFICES ASSUME phase' = "run", typed' # Absent, typed'.newline
                 PROVE  stack' # << >> /\ EndsUnknown(stack'[1])
      BY DEF Hidden
    <2> DEFINE f == files[cwd][c.file]
    <2>1. c.op = "run" /\ typed' = f
      BY <1>1 DEF c
    <2>2. f \in Contents
      BY <1>2, <1>6, <2>1 DEF TypeInv
    <2>3. run(c, << >>)
      BY <1>1, <2>1 DEF interpreter, c, set, print, quit, my_ls, my_mkdir, my_touch, my_cd, my_cat
    <2>4. CanOpen
      BY <1>2, ShellAssumption DEF CanOpen
    <2>5. PICK g \in (IF f = Empty THEN Garbage ELSE {Unknown}) :
                 stack' = Append(<< >>, ScriptLines(f, g))
      BY <2>1, <2>3, <2>4 DEF run
    <2> HIDE DEF f
    <2>6. EndsUnknown(ScriptLines(f, g)) /\ ScriptLines(f, g) \in Seq(Lines)
      BY <2>1, <2>2, ScriptFacts
    <2>7. stack' # << >> /\ stack'[1] = ScriptLines(f, g)
      BY <2>5, <2>6
    <2> QED
      BY <2>6, <2>7
  <1>9. Ends99'
    BY <1>3 DEF Ends99
  <1> QED
    BY <1>4, <1>7, <1>8, <1>9 DEF IInv

\* What is left of a sequence behind its first element.
LEMMA TailFacts ==
    ASSUME NEW S, NEW s \in Seq(S), s # << >>
    PROVE  /\ Len(s) \in Nat \ {0}
           /\ Len(s) = 1 => Tail(s) = << >>
           /\ Len(s) # 1 => Tail(s) # << >> /\ Tail(s)[Len(Tail(s))] = s[Len(s)]
  <1>1. Len(s) \in Nat \ {0}
    BY EmptySeq
  <1>2. Tail(s) \in Seq(S) /\ Len(Tail(s)) = Len(s) - 1
        /\ \A i \in 1 .. Len(Tail(s)) : Tail(s)[i] = s[i + 1]
    BY HeadTailProperties
  <1>3. Len(s) = 1 => Tail(s) = << >>
    <2>1. Tail(s) # << >> => Len(Tail(s)) \in Nat \ {0}
      BY <1>2, EmptySeq
    <2> QED
      BY <1>2, <2>1
  <1>4. ASSUME Len(s) # 1 PROVE Tail(s) # << >> /\ Tail(s)[Len(Tail(s))] = s[Len(s)]
    <2>1. Len(Tail(s)) \in 1 .. Len(Tail(s)) /\ Len(Tail(s)) + 1 = Len(s) /\ Len(Tail(s)) # 0
      BY <1>1, <1>2, <1>4
    <2>2. Tail(s)[Len(Tail(s))] = s[Len(s)]
      BY <1>2, <2>1
    <2> QED
      BY <2>1, <2>2, EmptySeq
  <1> QED
    BY <1>1, <1>3, <1>4

\* A line of a script.
LEMMA RunLineKeeps ==
    ASSUME IInv, RunLine
    PROVE  IInv'
  <1> DEFINE n == Len(stack)
             lines == stack[n]
             rest == [stack EXCEPT ![n] = Tail(lines)]
             line == Head(lines)
             c == Branch(line)
  <1>1. /\ phase = "run" /\ stack # << >> /\ lines # << >> /\ interpreter(line, rest)
        /\ typed' = typed
    BY DEF RunLine, NextLines
  <1>2. TypeInv /\ stack \in Seq(Seq(Lines)) /\ n \in Nat /\ n >= 1 /\ n <= MaxFiles
    BY <1>1 DEF IInv, TypeInv
  <1>3. lines \in Seq(Lines) /\ line \in Lines /\ Tail(lines) \in Seq(Lines)
    BY <1>1, <1>2
  <1>4. rest \in Seq(Seq(Lines)) /\ Len(rest) = n /\ rest[n] = Tail(lines)
        /\ \A i \in 1 .. n : i # n => rest[i] = stack[i]
    BY <1>2, <1>3
  <1> HIDE DEF rest
  <1>5. Typed1' /\ phase' \in {"run", "exit0", "crashed"} /\ last' = c /\ Goes(c, rest)
        /\ (line = Unknown => stack' = rest /\ ret' = 1)
    BY <1>1, <1>2, <1>3, <1>4, InterpreterFacts
  <1>6. TypeInv'
    BY <1>5 DEF TypeInv, Typed1
  <1> HIDE DEF c
  <1>7. Failed'
    <2> SUFFICES ASSUME phase' = "run", ret' = -1
                 PROVE  \/ last'.op \in {"my_mkdir", "my_ls"}
                        \/ stack' # << >> /\ stack'[Len(stack')] # << >>
      BY DEF Failed
    <2>1. CASE \E s \in Seq(Lines) : s # << >> /\ c.op = "run" /\ stack' = Append(rest, s)
      BY <1>4, <2>1
    <2> QED
      BY <1>5, <2>1 DEF Goes
  <1>8. Hidden'
    <2> SUFFICES ASSUME phase' = "run", typed # Absent, typed.newline
                 PROVE  \/ stack' # << >> /\ EndsUnknown(stack'[1])
                        \/ ret' # -1 /\ (stack' = << >> \/ (Len(stack') = 1 /\ stack'[1] = << >>))
      BY <1>1 DEF Hidden
    <2>1. EndsUnknown(stack[1])
      BY <1>1, <1>2 DEF IInv, Hidden
    <2>2. stack' # << >> /\ stack'[1] = rest[1]
      <3>1. CASE stack' = rest
        BY <1>2, <1>4, <3>1
      <3>2. CASE \E s \in Seq(Lines) : s # << >> /\ c.op = "run" /\ stack' = Append(rest, s)
        <4>1. PICK s \in Seq(Lines) : stack' = Append(rest, s)
          BY <3>2
        <4>2. 1 \in 1 .. Len(rest)
          BY <1>2, <1>4
        <4> QED
          BY <1>4, <4>1, <4>2
      <3> QED
        BY <1>5, <3>1, <3>2 DEF Goes
    <2>3. CASE n > 1
      BY <1>2, <1>4, <2>1, <2>2, <2>3
    <2>4. CASE n = 1 /\ Len(lines) = 1
      <3>1. line = Unknown
        BY <1>3, <2>1, <2>4 DEF EndsUnknown
      <3>2. stack' = rest /\ ret' = 1
        BY <1>5, <3>1
      <3>3. Tail(lines) = << >>
        BY <1>1, <1>3, <2>4, TailFacts
      <3>4. Len(rest) = 1 /\ rest[1] = << >>
        BY <1>4, <2>4, <3>3
      <3> QED
        BY <3>2, <3>4
    <2>5. CASE n = 1 /\ Len(lines) # 1
      <3>1. lines \in Seq(Lines) /\ lines # << >> /\ EndsUnknown(lines) /\ Len(lines) # 1
        BY <1>1, <1>3, <2>1, <2>5
      <3>2. EndsUnknown(Tail(lines))
        BY <3>1, TailFacts DEF EndsUnknown
      <3> QED
        BY <1>4, <2>2, <2>5, <3>2
    <2>6. n > 1 \/ n = 1
      <3> HIDE DEF n
      <3> QED
        BY <1>2
    <2> QED
      BY <2>3, <2>4, <2>5, <2>6, Zenon
  <1>9. Ends99'
    BY <1>5 DEF Ends99
  <1> QED
    BY <1>6, <1>7, <1>8, <1>9 DEF IInv

\* A script at its end.
LEMMA RunReturnsKeeps ==
    ASSUME IInv, RunReturns
    PROVE  IInv'
  <1> DEFINE n == Len(stack)
  <1>1. /\ phase = "run" /\ stack # << >> /\ stack[n] = << >>
        /\ UNCHANGED <<shellmemory, files, below, cwd, ret, phase, typed, last>>
    BY DEF RunReturns, host
  <1>2. stack \in Seq(Seq(Lines)) /\ n \in Nat /\ n >= 1 /\ n <= MaxFiles
    BY <1>1 DEF IInv, TypeInv
  <1>3. stack' \in Seq(Seq(Lines)) /\ Len(stack') = n - 1 /\ \A i \in 1 .. n - 1 : stack'[i] = stack[i]
    <2>1. stack' = SubSeq(stack, 1, n - 1)
      BY DEF RunReturns
    <2>2. \A i \in 1 .. n - 1 : stack[i] \in Seq(Lines)
      BY <1>2
    <2>3. n - 1 \in Int /\ 1 \in Int
      BY <1>2
    <2> DEFINE k == n - 1
               t == SubSeq(stack, 1, k)
    <2> HIDE DEF k
    <2>4. t \in Seq(Seq(Lines)) /\ Len(t) = (IF 1 <= k THEN k - 1 + 1 ELSE 0)
          /\ \A i \in 1 .. k - 1 + 1 : t[i] = stack[1 + i - 1]
      BY <2>2, <2>3, SubSeqProperties DEF k
    <2>5. stack' = t
      BY <2>1 DEF k
    <2> HIDE DEF t
    <2> QED
      BY <1>2, <2>3, <2>4, <2>5 DEF k
  <1>4. TypeInv'
    BY <1>1, <1>2, <1>3, ShellAssumption DEF IInv, TypeInv, Packed
  <1>5. Failed'
    BY <1>1 DEF IInv, Failed
  <1>6. Hidden'
    <2> SUFFICES ASSUME typed # Absent, typed.newline
                 PROVE  \/ stack' # << >> /\ EndsUnknown(stack'[1])
                        \/ ret' # -1 /\ (stack' = << >> \/ (Len(stack') = 1 /\ stack'[1] = << >>))
      BY <1>1 DEF Hidden
    <2>1. CASE n = 1
      <3>1. ~EndsUnknown(stack[1])
        BY <1>1, <2>1 DEF EndsUnknown
      <3>2. ret # -1
        BY <1>1, <3>1 DEF IInv, Hidden
      <3>3. stack' = << >>
        BY <1>3, <2>1
      <3> QED
        BY <1>1, <3>2, <3>3
    <2>2. CASE n > 1
      <3>1. EndsUnknown(stack[1])
        BY <1>1, <2>2 DEF IInv, Hidden
      <3>2. 1 \in 1 .. n - 1 /\ n - 1 # 0
        <4> HIDE DEF n
        <4> QED
          BY <1>2, <2>2
      <3>3. stack'[1] = stack[1]
        BY <1>3, <3>2
      <3>4. stack' # << >>
        BY <1>3, <3>2
      <3> QED
        BY <3>1, <3>3, <3>4, Zenon
    <2>3. n > 1 \/ n = 1
      <3> HIDE DEF n
      <3> QED
        BY <1>2
    <2> QED
      BY <2>1, <2>2, <2>3, Zenon
  <1>7. Ends99'
    BY <1>1 DEF Ends99
  <1> QED
    BY <1>4, <1>5, <1>6, <1>7 DEF IInv

\* The result looked at.
LEMMA MainChecksKeeps ==
    ASSUME IInv, MainChecks
    PROVE  IInv'
  <1>1. /\ phase = "run" /\ stack = << >> /\ phase' = IF ret = -1 THEN "exit99" ELSE "prompt"
        /\ UNCHANGED <<shellmemory, stack, files, below, cwd, ret, typed, last>>
    BY DEF MainChecks, host
  <1>2. TypeInv'
    BY <1>1 DEF IInv, TypeInv, Packed
  <1>3. Failed' /\ Hidden'
    BY <1>1 DEF Failed, Hidden
  <1>4. Ends99'
    BY <1>1 DEF IInv, Failed, Hidden, Ends99
  <1> QED
    BY <1>2, <1>3, <1>4 DEF IInv

\* Every step keeps the inductive invariant.
LEMMA Inductive == IInv /\ [Next]_vars => IInv'
  <1> SUFFICES ASSUME IInv, [Next]_vars PROVE IInv'
    OBVIOUS
  <1>1. CASE Next
    BY <1>1, TypeKeeps, RunLineKeeps, RunReturnsKeeps, MainChecksKeeps DEF Next, Continue
  <1>2. CASE UNCHANGED vars
    BY <1>2 DEF IInv, TypeInv, Packed, Failed, Hidden, Ends99, vars
  <1> QED
    BY <1>1, <1>2

\* The inductive invariant holds.
LEMMA Holds == Spec => []IInv
  BY InitInv, Inductive, PTL DEF Spec

\* For every table size and every set of scripts, typed lines and open-file limits, the
\* entries of shell memory stay packed and no name has two, and results, directories
\* and the number of open scripts stay in their ranges.
THEOREM TypeCorrect == Spec => []TypeOK
  <1>1. IInv => TypeOK
    BY DEF IInv, TypeInv, TypeOK, Packed, EntriesPacked, Entry
  <1> QED
    BY <1>1, Holds, PTL

\* For every set of scripts, however they run each other: the shell ends with status 99
\* only after a mkdir or an ls that failed as the last line of what was typed, and a
\* newline at the end of the typed script hides every failure.
THEOREM Status99 == Spec => []Ends99
  <1>1. IInv => Ends99
    BY DEF IInv
  <1> QED
    BY <1>1, Holds, PTL

-----------------------------------------------------------------------------
\* Shell memory as a map.

Env(m) == [v \in Names |-> mem_get_value(m, v)]
Known(m) == {v \in Names : Env(m)[v] # Undefined}

\* The first entry of a name depends on the names of the entries only.
LEMMA FirstSame ==
    ASSUME NEW m, NEW m1, NEW v,
           \A k \in 1 .. Slots : (m1[k].var = v) <=> (m[k].var = v)
    PROVE  FirstEntry(m1, v) = FirstEntry(m, v)
  <1>1. FirstEntry(m, v) = 0 <=> FirstEntry(m1, v) = 0
    BY FirstFacts, ShellAssumption
  <1>2. CASE FirstEntry(m, v) # 0
    BY <1>1, <1>2, FirstFacts, ShellAssumption
  <1> QED
    BY <1>1, <1>2

\* A name has a value exactly if it has an entry.
LEMMA KnownFacts ==
    ASSUME NEW m, Packed(m), NEW v \in Names
    PROVE  /\ FirstEntry(m, v) = 0 => Env(m)[v] = Undefined /\ v \notin Known(m)
           /\ FirstEntry(m, v) # 0 => /\ Env(m)[v] = m[FirstEntry(m, v)].value
                                      /\ v \in Known(m)
  <1>1. Env(m)[v] = mem_get_value(m, v)
    BY DEF Env
  <1>2. CASE FirstEntry(m, v) = 0
    BY <1>1, <1>2 DEF mem_get_value, Known
  <1>3. CASE FirstEntry(m, v) # 0
    <2> DEFINE k == FirstEntry(m, v)
    <2>1. k \in 1 .. Slots
      BY <1>3, FirstFacts
    <2>2. Env(m)[v] = m[k].value
      BY <1>1, <1>3 DEF mem_get_value
    <2> HIDE DEF k
    <2>3. m[k].value \in Values \cup {none}
      BY <2>1 DEF Packed, Entry
    <2>4. Undefined \notin Values \cup {none}
      BY ShellAssumption DEF Undefined, none
    <2> QED
      BY <1>3, <2>2, <2>3, <2>4 DEF Known, k
  <1> QED
    BY <1>2, <1>3

\* There is a free entry exactly if fewer names have a value than there are entries.
LEMMA RoomFacts ==
    ASSUME NEW m, Packed(m)
    PROVE  FreeEntry(m) # 0 <=> Cardinality(Known(m)) < Slots
  <1> DEFINE Q == 1 .. Slots
             Used == {k \in Q : m[k].var # none}
             f == [k \in Used |-> m[k].var]
  <1>1. Slots \in Nat /\ Slots # 0 /\ IsFiniteSet(Q) /\ Cardinality(Q) = Slots
    <2>1. Slots \in Nat /\ Slots # 0
      BY ShellAssumption
    <2>2. IsFiniteSet(1 .. Slots) /\ Cardinality(1 .. Slots) = IF 1 > Slots THEN 0 ELSE Slots - 1 + 1
      BY <2>1, FS_Interval
    <2> QED
      BY <2>1, <2>2
  <1>2. \A k \in Q : m[k].var \in Names \cup {none}
    BY DEF Packed, Entry
  <1>3. none \notin Names
    BY ShellAssumption
  <1>4. \A v \in Names : v \in Known(m) <=> \E k \in Q : m[k].var = v
    <2> TAKE v \in Names
    <2>1. FirstEntry(m, v) = 0 => \A k \in Q : m[k].var # v
      BY FirstFacts
    <2>2. FirstEntry(m, v) # 0 => \E k \in Q : m[k].var = v
      BY FirstFacts
    <2> QED
      BY <2>1, <2>2, KnownFacts
  <1>5. f \in Bijection(Used, Known(m))
    <2>1. f \in [Used -> Known(m)]
      BY <1>2, <1>4
    <2>2. \A a, b \in Used : f[a] = f[b] => a = b
      BY DEF Packed
    <2>3. \A v \in Known(m) : \E k \in Used : f[k] = v
      BY <1>3, <1>4 DEF Known
    <2> HIDE DEF f, Used
    <2> QED
      BY <2>1, <2>2, <2>3 DEF Bijection, Injection, Surjection, IsInjective
  <1>6. Used \in SUBSET Q
    OBVIOUS
  <1>7. FreeEntry(m) # 0 <=> Used # Q
    <2>1. FreeEntry(m) = 0 => \A k \in Q : m[k].var # none
      BY FirstFacts DEF FreeEntry
    <2>2. FreeEntry(m) # 0 => \E k \in Q : m[k].var = none
      BY FirstFacts DEF FreeEntry
    <2> QED
      BY <2>1, <2>2
  <1> HIDE DEF f, Used, Q
  <1>8. IsFiniteSet(Used) /\ Cardinality(Used) <= Slots /\ (Cardinality(Used) = Slots => Used = Q)
    BY <1>1, <1>6, FS_Subset
  <1>9. Cardinality(Known(m)) = Cardinality(Used)
    BY <1>5, <1>8, FS_Bijection DEF ExistsBijection
  <1>10. Cardinality(Used) \in Nat
    BY <1>8, FS_CardinalityType
  <1> QED
    BY <1>1, <1>7, <1>8, <1>9, <1>10

\* What a set does to the map.
LEMMA SetFacts ==
    ASSUME NEW m, Packed(m), NEW v \in Names, NEW x \in Values
    PROVE  Env(mem_set_value(m, v, x)) =
              IF v \in Known(m) \/ Cardinality(Known(m)) < Slots
              THEN [Env(m) EXCEPT ![v] = x]
              ELSE Env(m)
  <1> DEFINE k == FirstEntry(m, v)
             f == FreeEntry(m)
             m1 == mem_set_value(m, v, x)
             Q == 1 .. Slots
  <1>0. /\ m \in [Q -> Entry] /\ none \notin Names /\ 0 \notin Q
        /\ \A i, j \in Q : i # j /\ m[i].var = m[j].var => m[i].var = none
    BY ShellAssumption DEF Packed
  <1>1. v \in Known(m) <=> k # 0
    BY KnownFacts
  <1>2. Cardinality(Known(m)) < Slots <=> f # 0
    BY RoomFacts
  <1>3. Packed(m1)
    BY SetKeepsPacked
  <1>4. CASE k # 0
    <2>1. m1 = [m EXCEPT ![k].value = x] /\ k \in Q /\ m[k].var = v
      BY <1>4, FirstFacts DEF mem_set_value
    <2> HIDE DEF m1
    <2>2. \A j \in Q : m[j] \in Entry
      BY <1>0
    <2>3. \A j \in Q : m1[j].var = m[j].var
      BY <1>0, <2>1, <2>2 DEF Entry
    <2>4. m1[k].value = x /\ \A j \in Q : j # k => m1[j] = m[j]
      BY <1>0, <2>1, <2>2 DEF Entry
    <2>5. \A w \in Names : FirstEntry(m1, w) = FirstEntry(m, w)
      BY <2>3, FirstSame
    <2>6. ASSUME NEW w \in Names PROVE Env(m1)[w] = IF w = v THEN x ELSE Env(m)[w]
      <3>1. CASE w = v
        <4>1. Env(m1)[v] = m1[k].value
          BY <1>3, <1>4, <2>5, KnownFacts
        <4> QED
          BY <3>1, <4>1, <2>4
      <3>2. CASE w # v
        <4>1. FirstEntry(m, w) # k
          <5>1. FirstEntry(m, w) # 0 => m[FirstEntry(m, w)].var = w
            BY FirstFacts
          <5> QED
            BY <5>1, <1>4, <2>1, <3>2
        <4>2. CASE FirstEntry(m, w) = 0
          BY <4>2, <3>2, <1>3, <2>5, KnownFacts
        <4>3. CASE FirstEntry(m, w) # 0
          <5>1. FirstEntry(m, w) \in Q
            BY <4>3, FirstFacts
          <5>2. Env(m1)[w] = m1[FirstEntry(m, w)].value /\ Env(m)[w] = m[FirstEntry(m, w)].value
            BY <4>3, <1>3, <2>5, KnownFacts
          <5> QED
            BY <5>1, <5>2, <4>1, <2>4, <3>2
        <4> QED
          BY <4>2, <4>3
      <3> QED
        BY <3>1, <3>2
    <2>7. Env(m1) = [Env(m) EXCEPT ![v] = x]
      <3>1. DOMAIN Env(m) = Names /\ Env(m1) = [w \in Names |-> Env(m1)[w]]
        BY DEF Env
      <3> QED
        BY <3>1, <2>6
    <2> QED
      BY <1>1, <1>4, <2>7 DEF m1
  <1>5. CASE k = 0 /\ f # 0
    <2>1. m1 = [m EXCEPT ![f] = [var |-> v, value |-> x]]
      BY <1>5 DEF mem_set_value
    <2>2. f \in Q /\ m[f].var = none
      BY <1>5, FirstFacts DEF FreeEntry
    <2>3. \A j \in Q : m[j].var # v
      BY <1>5, FirstFacts
    <2> HIDE DEF m1
    <2>4. m1[f].var = v /\ m1[f].value = x /\ \A j \in Q : j # f => m1[j] = m[j]
      BY <1>0, <2>1, <2>2
    <2>5. FirstEntry(m1, v) = f
      <3>1. FirstEntry(m1, v) # 0
        BY <2>2, <2>4, FirstFacts
      <3>2. FirstEntry(m1, v) \in Q /\ m1[FirstEntry(m1, v)].var = v
        BY <3>1, FirstFacts
      <3> QED
        BY <3>2, <2>3, <2>4
    <2>6. \A w \in Names : w # v => FirstEntry(m1, w) = FirstEntry(m, w)
      <3> SUFFICES ASSUME NEW w \in Names, w # v PROVE FirstEntry(m1, w) = FirstEntry(m, w)
        OBVIOUS
      <3>1. \A j \in Q : (m1[j].var = w) <=> (m[j].var = w)
        BY <1>0, <2>2, <2>4
      <3> QED
        BY <3>1, FirstSame
    <2>7. ASSUME NEW w \in Names PROVE Env(m1)[w] = IF w = v THEN x ELSE Env(m)[w]
      <3>1. CASE w = v
        <4>1. f # 0
          BY <1>5
        <4>2. Env(m1)[v] = m1[f].value
          BY <4>1, <1>3, <2>5, KnownFacts
        <4> QED
          BY <3>1, <4>2, <2>4
      <3>2. CASE w # v
        <4>1. CASE FirstEntry(m, w) = 0
          BY <4>1, <3>2, <1>3, <2>6, KnownFacts
        <4>2. CASE FirstEntry(m, w) # 0
          <5>1. FirstEntry(m, w) \in Q /\ m[FirstEntry(m, w)].var = w
            BY <4>2, FirstFacts
          <5>2. Env(m1)[w] = m1[FirstEntry(m, w)].value /\ Env(m)[w] = m[FirstEntry(m, w)].value
            BY <4>2, <3>2, <1>3, <2>6, KnownFacts
          <5>3. FirstEntry(m, w) # f
            BY <5>1, <2>2, <1>0
          <5> QED
            BY <5>1, <5>2, <5>3, <2>4, <3>2
        <4> QED
          BY <4>1, <4>2
      <3> QED
        BY <3>1, <3>2
    <2>8. Env(m1) = [Env(m) EXCEPT ![v] = x]
      <3>1. DOMAIN Env(m) = Names /\ Env(m1) = [w \in Names |-> Env(m1)[w]]
        BY DEF Env
      <3> QED
        BY <3>1, <2>7
    <2> QED
      BY <1>2, <1>5, <2>8 DEF m1
  <1>6. CASE k = 0 /\ f = 0
    <2>1. m1 = m
      BY <1>6 DEF mem_set_value
    <2> QED
      BY <1>1, <1>2, <1>6, <2>1
  <1> QED
    BY <1>4, <1>5, <1>6

\* A variable called none is kept in a free entry, and no other sees it.
LEMMA SetNoneFacts ==
    ASSUME NEW m, Packed(m), NEW x \in Values
    PROVE  Env(mem_set_value(m, none, x)) = Env(m)
  <1> DEFINE k == FirstEntry(m, none)
             m1 == mem_set_value(m, none, x)
             Q == 1 .. Slots
  <1>0. m \in [Q -> Entry] /\ none \notin Names
    BY ShellAssumption DEF Packed
  <1>1. CASE k = 0
    <2>1. m1 = m
      BY <1>1 DEF mem_set_value, FreeEntry
    <2> QED
      BY <2>1
  <1>2. CASE k # 0
    <2>1. m1 = [m EXCEPT ![k].value = x] /\ k \in Q /\ m[k].var = none
      BY <1>2, FirstFacts DEF mem_set_value
    <2> HIDE DEF m1
    <2>2. \A j \in Q : m[j] \in Entry
      BY <1>0
    <2>3. \A j \in Q : m1[j].var = m[j].var /\ (j # k => m1[j] = m[j])
      BY <1>0, <2>1, <2>2 DEF Entry
    <2>4. ASSUME NEW w \in Names PROVE mem_get_value(m1, w) = mem_get_value(m, w)
      <3>1. FirstEntry(m1, w) = FirstEntry(m, w)
        BY <2>3, FirstSame
      <3>2. CASE FirstEntry(m, w) = 0
        BY <3>1, <3>2 DEF mem_get_value
      <3>3. CASE FirstEntry(m, w) # 0
        <4>1. FirstEntry(m, w) \in Q /\ m[FirstEntry(m, w)].var = w
          BY <3>3, FirstFacts
        <4>2. FirstEntry(m, w) # k
          BY <4>1, <2>1, <1>0
        <4> QED
          BY <3>1, <3>3, <4>1, <4>2, <2>3 DEF mem_get_value
      <3> QED
        BY <3>2, <3>3
    <2>5. Env(m1) = Env(m)
      BY <2>4 DEF Env
    <2> QED
      BY <2>5 DEF m1
  <1> QED
    BY <1>1, <1>2

\* The shell's memory, with everything the shell does around it, implements the map with
\* room for Slots names: for every number of entries a set takes effect exactly if the
\* name is known or there is room, and no script, branch of if or other command, and
\* no variable called none, changes what another name is bound to.
THEOREM Refinement == Spec => ImplementsMap
  <1> DEFINE A == IF last.op = "set" THEN <<last.var, last.value>> ELSE << >>
  <1>1. Init => Map!Init
    <2> SUFFICES ASSUME Init PROVE Map!Init
      OBVIOUS
    <2>1. \A v \in Names : FirstEntry(shellmemory, v) = 0
      <3> TAKE v \in Names
      <3>1. \A k \in 1 .. Slots : shellmemory[k].var # v
        BY ShellAssumption DEF Init, mem_init
      <3> QED
        BY <3>1, FirstFacts
    <2>2. \A v \in Names : mem_get_value(shellmemory, v) = Undefined
      BY <2>1 DEF mem_get_value
    <2>3. last.op # "set"
      BY DEF Init, Unknown
    <2> QED
      BY <2>2, <2>3 DEF Map!Init
  <1>2. IInv /\ [Next]_vars => [Map!Next]_<<Env(shellmemory), A>>
    <2> SUFFICES ASSUME IInv, [Next]_vars
                 PROVE  [Map!Next]_<<Env(shellmemory), A>>
      OBVIOUS
    <2>1. Packed(shellmemory) /\ stack \in Seq(Seq(Lines))
      BY DEF IInv, TypeInv
    <2>2. ASSUME NEW line \in Lines, NEW rest, interpreter(line, rest)
          PROVE  Map!Next
      <3> DEFINE c == Branch(line)
      <3>1. c \in Commands \cup {BadIf}
        BY BranchFacts
      <3>2. c.op = "set" => c.var \in Names \cup {none} /\ c.value \in Values
        BY <3>1, CommandFacts
      <3>3. /\ last' = c
            /\ \/ set(c, rest) \/ print(c, rest) \/ run(c, rest) \/ quit(c, rest)
               \/ my_ls(c, rest) \/ my_mkdir(c, rest) \/ my_touch(c, rest) \/ my_cd(c, rest) \/ my_cat(c, rest)
        BY <2>2 DEF interpreter
      <3> HIDE DEF c
      <3>4. CASE c.op = "set"
        <4>1. shellmemory' = mem_set_value(shellmemory, c.var, c.value)
          BY <3>3, <3>4 DEF set, print, run, quit, my_ls, my_mkdir, my_touch, my_cd, my_cat
        <4>2. A' = <<c.var, c.value>>
          BY <3>3, <3>4
        <4>3. CASE c.var = none
          <5>1. Env(shellmemory)' = Env(shellmemory)
            BY <2>1, <3>2, <3>4, <4>1, <4>3, SetNoneFacts DEF Env
          <5>2. A' \notin Names \X Values
            BY <4>2, <4>3, ShellAssumption
          <5> QED
            BY <5>1, <5>2 DEF Map!Next, Map!Other, Env
        <4>4. CASE c.var # none
          <5>1. c.var \in Names /\ c.value \in Values
            BY <3>2, <3>4, <4>4
          <5>2. Env(shellmemory') = IF c.var \in Known(shellmemory) \/ Cardinality(Known(shellmemory)) < Slots
                                    THEN [Env(shellmemory) EXCEPT ![c.var] = c.value]
                                    ELSE Env(shellmemory)
            BY <2>1, <4>1, <5>1, SetFacts
          <5>3. Map!Defined = Known(shellmemory)
            BY DEF Map!Defined, Known, Env
          <5>4. Map!HasRoom(c.var) <=> (\/ c.var \in Known(shellmemory)
                                        \/ Cardinality(Known(shellmemory)) < Slots)
            <6>1. Map!Cardinality(Known(shellmemory)) = Cardinality(Known(shellmemory))
              BY Zenon DEF Map!Cardinality, Cardinality
            <6> QED
              BY <5>3, <6>1, Zenon DEF Map!HasRoom
          <5>5. [v \in Names |-> mem_get_value(shellmemory, v)]'
                    = IF Map!HasRoom(c.var)
                      THEN [[v \in Names |-> mem_get_value(shellmemory, v)] EXCEPT ![c.var] = c.value]
                      ELSE [v \in Names |-> mem_get_value(shellmemory, v)]
            BY <5>2, <5>4, Zenon DEF Env
          <5>6. Map!Set(c.var, c.value)
            BY <4>2, <5>5, Zenon DEF Map!Set
          <5> QED
            BY <5>1, <5>6 DEF Map!Next
        <4> QED
          BY <4>3, <4>4
      <3>5. CASE c.op # "set"
        <4>1. shellmemory' = shellmemory
          BY <3>3, <3>5 DEF set, print, run, quit, my_ls, my_mkdir, my_touch, my_cd, my_cat
        <4>2. A' = << >>
          BY <3>3, <3>5
        <4>3. << >> \notin Names \X Values
          OBVIOUS
        <4> QED
          BY <4>1, <4>2, <4>3 DEF Map!Next, Map!Other
      <3> QED
        BY <3>4, <3>5
    <2>3. CASE Type
      BY <2>2, <2>3, LineAssumption DEF Type
    <2>4. CASE RunLine
      <3> DEFINE lines == stack[Len(stack)]
      <3>1. stack # << >> /\ lines # << >>
            /\ interpreter(Head(lines), [stack EXCEPT ![Len(stack)] = NextLines(lines)])
        BY <2>4 DEF RunLine
      <3>2. lines \in Seq(Lines)
        BY <2>1, <3>1
      <3>3. Head(lines) \in Lines
        BY <3>1, <3>2
      <3> QED
        BY <2>2, <3>1, <3>3
    <2>5. CASE RunReturns \/ MainChecks \/ UNCHANGED vars
      <3>1. UNCHANGED <<shellmemory, last>>
        BY <2>5 DEF RunReturns, MainChecks, vars
      <3> QED
        BY <3>1 DEF Env, mem_get_value, FirstEntry
    <2> QED
      BY <2>3, <2>4, <2>5 DEF Next, Continue
  <1>3. [Map!Next]_<<Env(shellmemory), A>> => [Map!Next]_<<[v \in Names |-> mem_get_value(shellmemory, v)], A>>
    BY DEF Env
  <1> QED
    BY <1>1, <1>2, <1>3, Holds, PTL DEF Spec, ImplementsMap, Map!Spec
=============================================================================
