------------------------------- MODULE A1Shell -------------------------------
(***************************************************************************)
(* The shell of src/a1: its variables (shellmemory.c), the commands of its *)
(* interpreter (interpreter.c) and scripts that run scripts (run, and main *)
(* in shell.c).                                                            *)
(*                                                                         *)
(* A line is a record with the field op: the words are abstracted to what  *)
(* the commands tell apart, and wrong numbers of words to the line         *)
(* Unknown.  A step executes one line; the branches of an if are other     *)
(* commands.  Each directory of the host has at most one directory below   *)
(* it.                                                                     *)
(***************************************************************************)
EXTENDS Integers, Sequences, FiniteSets

CONSTANTS Names,      \* names of variables other than none
          Values,     \* values of variables other than none
          Slots,      \* number of entries of shell memory, 1000 in the code
          Files,      \* names of files
          Script,     \* what is in the files at first
          Typed,      \* lines the user may type
          MaxFiles,   \* how many scripts can be open at once
          MaxDepth    \* bound on the depth of directories

none == "none"
Absent == [lines |-> << >>, newline |-> TRUE]
Empty == [lines |-> << >>, newline |-> FALSE]
Unknown == [op |-> "unknown"]
Undefined == "NULL"   \* what mem_get_value returns for a name it does not find

ASSUME ShellAssumption == /\ Slots \in Nat \ {0} /\ MaxFiles \in Nat \ {0} /\ MaxDepth \in Nat
                          /\ {none, Undefined} \cap (Names \cup Values) = {}
                          /\ \A f \in Files : Script[f] # Empty

\* The lines there are.
Commands == [op : {"set"}, var : Names \cup {none}, value : Values]
            \cup [op : {"print", "my_ls", "unknown", "quit", "my_mkdir", "my_cd"}]
            \cup [op : {"run", "my_touch", "my_cat", "my_wc"}, file : Files]
Words == [var : BOOLEAN, name : Names \cup Values \cup {none}]
Lines == Commands \cup [op : {"if"}, left : Words, right : Words, equal : BOOLEAN,
                        then : Commands, else : Commands]

ASSUME LineAssumption == /\ Typed \subseteq Lines
                         /\ \A f \in Files : Script[f] \in [lines : Seq(Lines), newline : BOOLEAN]

Dirs == 0 .. MaxDepth   \* directories by their depth

VARIABLES shellmemory, \* the entries, each a name and a value
          stack,       \* the lines that each open script still has to execute
          files,       \* the files of each directory
          below,       \* whether each directory has one below it
          cwd,         \* the current directory
          ret,         \* what the last command returned
          phase,       \* "prompt", "run", "exit0", "exit99" or "crashed"
          typed,       \* the script that was typed last, Absent if it was something else
          last         \* the line executed last

vars == <<shellmemory, stack, files, below, cwd, ret, phase, typed, last>>

-----------------------------------------------------------------------------
\* Shell memory.

mem_init == [k \in 1 .. Slots |-> [var |-> none, value |-> none]]

\* The first entry of m with the name v, 0 if there is none.
FirstEntry(m, v) == LET S == {k \in 1 .. Slots : m[k].var = v}
                    IN  IF S = {} THEN 0 ELSE CHOOSE k \in S : \A j \in S : k <= j

\* Mutant: the search does not stop at the first free entry.
MutLastFree(m) == LET S == {k \in 1 .. Slots : m[k].var = none}
                  IN  IF S = {} THEN 0 ELSE CHOOSE k \in S : \A j \in S : k >= j

\* The free entry for a new name.
FreeEntry(m) == FirstEntry(m, none)

\* Mutant: a full table loses its first entry.
MutOverwrite(m, v, x) ==
    LET k == FirstEntry(m, v)
        free == IF FreeEntry(m) # 0 THEN FreeEntry(m) ELSE 1
    IN  IF k # 0 THEN [m EXCEPT ![k].value = x] ELSE [m EXCEPT ![free] = [var |-> v, value |-> x]]

\* The entry of v, else a free one, else nothing.  The name none matches a free
\* entry, which stays free.
mem_set_value(m, v, x) ==
    LET k == FirstEntry(m, v)
    IN  IF k # 0 THEN [m EXCEPT ![k].value = x]
        ELSE IF FreeEntry(m) # 0 THEN [m EXCEPT ![FreeEntry(m)] = [var |-> v, value |-> x]]
        ELSE m

mem_get_value(m, v) == IF FirstEntry(m, v) = 0 THEN Undefined ELSE m[FirstEntry(m, v)].value

-----------------------------------------------------------------------------
\* Scripts.

\* Mutant: the loop ends with the last line.
MutNoBlank(f, g) == IF f = Empty THEN <<g>> ELSE f.lines

\* The lines that run passes to parseInput for a file f.  After a last line that
\* ends in a newline there is one more round with an empty line, because feof
\* only holds once a read has failed.  The buffer of an empty file is
\* uninitialised and may hold any line, g.
ScriptLines(f, g) == CASE f = Empty -> <<g>>
                       [] f.newline -> Append(f.lines, Unknown)
                       [] OTHER     -> f.lines

\* What the uninitialised buffer may hold: nothing, or what an earlier call left.
Garbage == {Unknown} \cup UNION {{f.lines[k] : k \in 1 .. Len(f.lines)} : f \in {Script[n] : n \in Files}}

\* fopen of another script finds a descriptor.
CanOpen == Len(stack) < MaxFiles

\* The value of an identifier of if: a variable or the word itself.
Identifier(w) == IF w.var THEN mem_get_value(shellmemory, w.name) ELSE w.name

\* The line that is executed for c: itself, or a branch of if.
Branch(c) ==
    IF c.op # "if" THEN c
    ELSE LET a == Identifier(c.left)
             b == Identifier(c.right)
         IN  IF Undefined \in {a, b} THEN [op |-> "badif"]
             ELSE IF (a = b) = c.equal THEN c.then ELSE c.else

-----------------------------------------------------------------------------
\* The commands.  rest is what the open scripts have left after this line.

\* The command returns n and the scripts go on.
Returns(n, rest) == ret' = n /\ stack' = rest /\ phase' = "run"

host == <<files, below, cwd>>

set(c, rest) == /\ c.op = "set"
                /\ shellmemory' = mem_set_value(shellmemory, c.var, c.value)
                /\ Returns(0, rest)
                /\ UNCHANGED host

\* Commands that print: print and echo, and what is not understood.
print(c, rest) == /\ c.op \in {"print", "unknown", "badif"}
                  /\ Returns(CASE c.op = "unknown" -> 1 [] c.op = "badif" -> 6 [] OTHER -> 0, rest)
                  /\ UNCHANGED <<shellmemory, host>>

run(c, rest) ==
    LET f == files[cwd][c.file]
    IN  /\ c.op = "run"
        /\ \/ /\ f # Absent /\ CanOpen
              /\ \E g \in (IF f = Empty THEN Garbage ELSE {Unknown}) :
                    stack' = Append(rest, ScriptLines(f, g))
              /\ phase' = "run"
              /\ UNCHANGED ret
           \/ (f = Absent \/ ~CanOpen) /\ Returns(3, rest)
        /\ UNCHANGED <<shellmemory, host>>

quit(c, rest) == /\ c.op = "quit"
                 /\ phase' = "exit0"
                 /\ stack' = << >>
                 /\ UNCHANGED <<shellmemory, ret, host>>

\* my_ls returns the result of system: -1 when no child can be made or waited for,
\* else the status of ls, of which 0 stands for all.
my_ls(c, rest) == /\ c.op = "my_ls"
                  /\ Returns(0, rest) \/ Returns(-1, rest)
                  /\ UNCHANGED <<shellmemory, host>>

\* mkdir returns -1 when the directory exists, and may return it for lack of
\* space or of permission.
my_mkdir(c, rest) == /\ c.op = "my_mkdir"
                     /\ \/ ~below[cwd] /\ Returns(0, rest) /\ below' = [below EXCEPT ![cwd] = TRUE]
                        \/ Returns(-1, rest) /\ UNCHANGED below
                     /\ UNCHANGED <<shellmemory, files, cwd>>

\* Creates or empties a file.  Without a descriptor the null pointer is closed.
my_touch(c, rest) ==
    /\ c.op = "my_touch"
    /\ IF CanOpen THEN Returns(0, rest) /\ files' = [files EXCEPT ![cwd][c.file] = Empty]
       ELSE phase' = "crashed" /\ stack' = << >> /\ UNCHANGED <<ret, files>>
    /\ UNCHANGED <<shellmemory, below, cwd>>

\* Into the directory below, if it exists.
my_cd(c, rest) == /\ c.op = "my_cd"
                  /\ below[cwd] => cwd < MaxDepth
                  /\ IF below[cwd] THEN cwd' = cwd + 1 /\ Returns(0, rest)
                     ELSE UNCHANGED cwd /\ Returns(5, rest)
                  /\ UNCHANGED <<shellmemory, files, below>>

\* my_cat and my_wc.
my_cat(c, rest) ==
    /\ c.op \in {"my_cat", "my_wc"}
    /\ Returns(CASE files[cwd][c.file] # Absent /\ CanOpen -> 0
                 [] c.op = "my_cat" -> 6
                 [] OTHER -> 7, rest)
    /\ UNCHANGED <<shellmemory, host>>

\* The function interpreter falls off its end after the branch of an if; the
\* build returns what the branch returned.
interpreter(line, rest) ==
    \E c \in {Branch(line)} :
        /\ last' = c
        /\ \/ set(c, rest) \/ print(c, rest) \/ run(c, rest) \/ quit(c, rest)
           \/ my_ls(c, rest) \/ my_mkdir(c, rest) \/ my_touch(c, rest) \/ my_cd(c, rest) \/ my_cat(c, rest)

-----------------------------------------------------------------------------
Init == /\ shellmemory = mem_init
        /\ stack = << >>
        /\ files = [d \in Dirs |-> [f \in Files |-> IF d = 0 THEN Script[f] ELSE Absent]]
        /\ below = [d \in Dirs |-> FALSE] /\ cwd = 0
        /\ ret = 0 /\ phase = "prompt" /\ typed = Absent /\ last = Unknown

\* main reads a line.
Type == /\ phase = "prompt"
        /\ \E line \in Typed :
              /\ typed' = IF Branch(line).op = "run" THEN files[cwd][Branch(line).file] ELSE Absent
              /\ interpreter(line, << >>)

\* Mutant: the next line is not read.
MutNotRead(lines) == lines

\* The lines left after the first has been executed.
NextLines(lines) == Tail(lines)

\* The innermost script executes a line.
RunLine == LET lines == stack[Len(stack)]
           IN  /\ phase = "run" /\ stack # << >> /\ lines # << >>
               /\ interpreter(Head(lines), [stack EXCEPT ![Len(stack)] = NextLines(@)])
               /\ UNCHANGED typed

\* The innermost script is at its end: run returns what its last line returned.
RunReturns == /\ phase = "run" /\ stack # << >> /\ stack[Len(stack)] = << >>
              /\ stack' = SubSeq(stack, 1, Len(stack) - 1)
              /\ UNCHANGED <<shellmemory, host, ret, phase, typed, last>>

\* main looks at the result of what was typed.
MainChecks == /\ phase = "run" /\ stack = << >>
              /\ phase' = IF ret = -1 THEN "exit99" ELSE "prompt"
              /\ UNCHANGED <<shellmemory, stack, host, ret, typed, last>>

Continue == RunLine \/ RunReturns \/ MainChecks

Next == Type \/ Continue

\* The shell's thread keeps executing.
Spec == Init /\ [][Next]_vars /\ WF_vars(Continue)
-----------------------------------------------------------------------------
\* Entries are used from the front and no name has two: what the two loops of
\* mem_set_value and the one of mem_get_value rely on, also with variables that
\* are themselves called none.
EntriesPacked ==
    /\ \A j, k \in 1 .. Slots : j # k /\ shellmemory[j].var = shellmemory[k].var => shellmemory[j].var = none
    /\ \A j, k \in 1 .. Slots : j < k /\ shellmemory[j].var = none => shellmemory[k].var = none

\* The type of the state; the entries are packed.
TypeOK == /\ EntriesPacked
          /\ shellmemory \in [1 .. Slots -> [var : Names \cup {none}, value : Values \cup {none}]]
          /\ Len(stack) <= MaxFiles
          /\ below \in [Dirs -> BOOLEAN] /\ cwd \in Dirs
          /\ ret \in -1 .. 7
          /\ phase \in {"prompt", "run", "exit0", "exit99", "crashed"}

\* The shell ends with status 99 only because of a mkdir or an ls that failed,
\* typed or as the very last line that the typed script executed, in whichever
\* script or branch of if that line was; a newline at the end of the typed script
\* hides every failure.
Ends99 ==
    phase = "exit99" => /\ last.op \in {"my_mkdir", "my_ls"}
                        /\ typed = Absent \/ ~typed.newline

\* Every line typed comes back to the prompt or ends the shell, however scripts
\* run each other or themselves: the descriptors run out.
PromptReturns == phase = "run" ~> phase # "run"

\* For all names but none, the table is a map with a limited number of names: a
\* set of a name that it has, or has room for, takes effect, any other is ignored,
\* and no other command, script or branch of if changes it.
Map == INSTANCE VariableMap WITH
          env <- [v \in Names |-> mem_get_value(shellmemory, v)],
          asked <- IF last.op = "set" THEN <<last.var, last.value>> ELSE << >>,
          Capacity <- Slots
ImplementsMap == Map!Spec
=============================================================================
