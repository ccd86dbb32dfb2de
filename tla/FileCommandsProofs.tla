------------------------- MODULE FileCommandsProofs -------------------------
(***************************************************************************)
(* Proofs about the file commands of the a3 shell, for every set of names, *)
(* texts, sizes and offsets: the handles agree, where undefined behaviour  *)
(* can come from, and what a file's bytes are after any sequence of        *)
(* commands.                                                               *)
(***************************************************************************)
EXTENDS FileCommands, NatLemmas, FiniteSetTheorems, SequenceTheorems

-----------------------------------------------------------------------------
\* Bytes and contents.

Strings == {c \in Seq(Bytes) : Len(c) <= MaxLength}

LEMMA BytesFacts == /\ NUL \in Bytes /\ Bytes \subseteq Nat
                    /\ \A t \in Texts : t \in Seq(Bytes)
  <1>1. Bytes \subseteq Nat
    BY TextAssumption DEF Bytes, NUL
  <1>2. ASSUME NEW t \in Texts PROVE t \in Seq(Bytes)
    <2>1. t \in Seq(Nat)
      BY TextAssumption
    <2>2. \A k \in 1 .. Len(t) : t[k] \in Bytes
      BY <1>2 DEF Bytes
    <2> QED
      BY <2>1, <2>2
  <1> QED
    BY <1>1, <1>2 DEF Bytes

LEMMA ContentsFacts == Contents = Strings \cup {Absent} /\ Absent \notin Strings
  <1>1. Absent \notin Strings
    <2>1. SUFFICES ASSUME Absent \in Seq(Bytes) PROVE FALSE
      BY DEF Strings
    <2>2. Absent[1] \in Bytes
      BY <2>1 DEF Absent
    <2> QED
      BY <2>2, BytesFacts DEF Absent
  <1>2. ASSUME NEW c \in Strings PROVE c \in Contents
    <2>1. c \in [1 .. Len(c) -> Bytes] /\ Len(c) \in 0 .. MaxLength
      BY SizeAssumption DEF Strings
    <2> QED
      BY <2>1 DEF Contents
  <1>3. ASSUME NEW n \in 0 .. MaxLength, NEW c \in [1 .. n -> Bytes] PROVE c \in Strings
    <2>1. c \in Seq(Bytes) /\ Len(c) = n
      BY SizeAssumption
    <2> QED
      BY <2>1, SizeAssumption DEF Strings
  <1> QED
    BY <1>1, <1>2, <1>3 DEF Contents

\* Contents whose last byte, if there is one, is a NUL.
Ended == {c \in Contents : c \notin {Absent, << >>} => c[Len(c)] = NUL}

LEMMA ZerosFacts ==
    ASSUME NEW n \in Nat
    PROVE  Zeros(n) \in Seq(Bytes) /\ Len(Zeros(n)) = n /\ \A k \in 1 .. n : Zeros(n)[k] = NUL
  <1>1. Zeros(n) \in [1 .. n -> Bytes]
    BY BytesFacts DEF Zeros
  <1> QED
    BY <1>1 DEF Zeros

LEMMA TerminatedFacts ==
    ASSUME NEW d \in Seq(Bytes)
    PROVE  /\ Terminated(d) \in Seq(Bytes) /\ Len(Terminated(d)) = Len(d)
           /\ \A k \in 1 .. Len(d) : Terminated(d)[k] = IF k = Len(d) THEN NUL ELSE d[k]
  BY BytesFacts DEF Terminated

\* w is c with d written at position p, a gap filled with NUL.
WrittenAt(w, c, p, d) ==
    /\ Len(w) = IF Len(c) >= p + Len(d) THEN Len(c) ELSE p + Len(d)
    /\ \A k \in 1 .. Len(w) : w[k] = IF k \in p + 1 .. p + Len(d) THEN d[k - p]
                                     ELSE IF k > Len(c) THEN NUL ELSE c[k]

LEMMA WriteFacts ==
    ASSUME NEW c \in Seq(Bytes), NEW p \in Nat, NEW d \in Seq(Bytes), NEW w,
           w = inode_write_at(c, p, d)
    PROVE  w \in Seq(Bytes) /\ WrittenAt(w, c, p, d)
  <1> DEFINE n == IF Len(c) >= p + Len(d) THEN Len(c) ELSE p + Len(d)
  <1>1. n \in Nat
    OBVIOUS
  <1>2. w = [k \in 1 .. n |-> CASE k \in p + 1 .. p + Len(d) -> d[k - p]
                                [] k <= p /\ k > Len(c)      -> NUL
                                [] OTHER                     -> c[k]]
    BY DEF inode_write_at
  <1>3. \A k \in 1 .. n : w[k] = IF k \in p + 1 .. p + Len(d) THEN d[k - p]
                                 ELSE IF k > Len(c) THEN NUL ELSE c[k]
    <2> TAKE k \in 1 .. n
    <2>1. w[k] = CASE k \in p + 1 .. p + Len(d) -> d[k - p]
                   [] k <= p /\ k > Len(c)      -> NUL
                   [] OTHER                     -> c[k]
      BY <1>2
    <2>2. ~(k \in p + 1 .. p + Len(d)) /\ k > Len(c) => k <= p
      OBVIOUS
    <2> HIDE DEF n
    <2> QED
      BY <2>1, <2>2
  <1>4. \A k \in 1 .. n : w[k] \in Bytes
    <2> HIDE DEF n
    <2> TAKE k \in 1 .. n
    <2>1. k \in p + 1 .. p + Len(d) => d[k - p] \in Bytes
      OBVIOUS
    <2>2. ~(k > Len(c)) => c[k] \in Bytes
      OBVIOUS
    <2> QED
      BY <1>3, <2>1, <2>2, BytesFacts
  <1>5. w \in [1 .. n -> Bytes]
    BY <1>2, <1>4
  <1>6. w \in Seq(Bytes) /\ Len(w) = n
    <2> HIDE DEF n
    <2> QED
      BY <1>1, <1>5
  <1> QED
    BY <1>3, <1>6 DEF WrittenAt

-----------------------------------------------------------------------------
\* States of the handles.

Positions == (-2 .. MaxLength) \cup Offsets
Entries == [pos : Positions, inode : {"none", "live", "freed"}]
Dirs == [open_cnt : 0 .. MaxLeaks + 1, pos : {"start", "end"}]
States == [content : [AllNames -> Contents], table : [AllNames -> Entries],
           open : SUBSET (AllNames \cup {Root}), cwd : Dirs,
           list : {"null", "freed"}, fault : {"none", "lucky", "wild"}]

\* Entries are for files that exist and, with a live inode, in the list of open
\* inodes; the root is in it while cwd is set.
Agree(s) ==
    /\ \A f \in AllNames : s.table[f].inode # "none" => s.content[f] # Absent
    /\ \A f \in AllNames : s.table[f].inode = "live" => f \in s.open
    /\ (Root \in s.open) <=> (s.cwd # NoDir)
    /\ s.cwd.open_cnt = 0 => s.cwd = NoDir

Good(s) == s \in States /\ Agree(s)

\* Nothing dangles and nothing leaks.
Tidy(s) == \A f \in AllNames : /\ s.table[f].inode # "freed"
                               /\ f \in s.open => s.table[f].inode = "live"

\* Every file ends in a NUL.
Nuls(s) == \A f \in AllNames : s.content[f] \in Ended

\* t and s differ in nothing but fault.
Same(s, t) == /\ t.content = s.content /\ t.table = s.table /\ t.open = s.open
              /\ t.cwd = s.cwd /\ t.list = s.list

\* What operations on other files, and on the directory, leave alone.
Entries0(s, t, f) == \A g \in AllNames \ {f} : t.table[g] = s.table[g] /\ t.content[g] = s.content[g]

LEMMA SameGood ==
    ASSUME NEW s, NEW t \in States, Good(s), Same(s, t)
    PROVE  Good(t) /\ (Tidy(s) => Tidy(t))
  BY DEF Good, Same, Agree, Tidy

LEMMA FaultFacts ==
    ASSUME NEW s \in States
    PROVE  /\ Lucky(s) \in States /\ Same(s, Lucky(s))
           /\ Lucky(s).fault = IF s.fault = "none" THEN "lucky" ELSE s.fault
           /\ Wild(s) \in States /\ Same(s, Wild(s)) /\ Wild(s).fault = "wild"
  BY DEF Lucky, Wild, Same, States

LEMMA LiteralFacts == /\ Closed \in Entries /\ [pos |-> 0, inode |-> "live"] \in Entries
                      /\ NoDir \in Dirs /\ Absent \in Ended /\ Absent \in Contents
  BY SizeAssumption DEF Closed, Entries, Positions, NoDir, Dirs, Contents, Ended

\* inode_close frees the inodes of X and changes nothing else.
LEMMA CloseFacts ==
    ASSUME NEW s \in States, NEW X
    PROVE  /\ inode_close(s, X) \in States
           /\ inode_close(s, X).content = s.content
           /\ inode_close(s, X).open = s.open \ X
           /\ inode_close(s, X).cwd = s.cwd
           /\ inode_close(s, X).list = s.list
           /\ inode_close(s, X).fault = s.fault
           /\ \A f \in AllNames :
                 /\ inode_close(s, X).table[f].pos = s.table[f].pos
                 /\ inode_close(s, X).table[f].inode
                       = IF f \in X /\ s.table[f].inode = "live" THEN "freed" ELSE s.table[f].inode
                 /\ f \notin X => inode_close(s, X).table[f] = s.table[f]
  <1> DEFINE T == [f \in AllNames |-> IF f \in X /\ s.table[f].inode = "live"
                                      THEN [s.table[f] EXCEPT !.inode = "freed"] ELSE s.table[f]]
  <1>1. inode_close(s, X) = [s EXCEPT !.open = s.open \ X, !.table = T]
    BY DEF inode_close, States
  <1>2. \A f \in AllNames : s.table[f] \in Entries
    BY DEF States
  <1>3. \A f \in AllNames : [s.table[f] EXCEPT !.inode = "freed"] \in Entries
    BY <1>2 DEF Entries
  <1>4. T \in [AllNames -> Entries]
    BY <1>2, <1>3
  <1>5. \A f \in AllNames :
           /\ T[f].pos = s.table[f].pos
           /\ T[f].inode = IF f \in X /\ s.table[f].inode = "live" THEN "freed" ELSE s.table[f].inode
           /\ f \notin X => T[f] = s.table[f]
    BY <1>2 DEF Entries
  <1> HIDE DEF T
  <1> QED
    BY <1>1, <1>4, <1>5 DEF States

\* get_file_by_fname opens the file unless it has an entry.
LEMMA AddFacts ==
    ASSUME NEW s \in States, NEW f \in AllNames
    PROVE  /\ add_to_file_table(s, f) \in States
           /\ add_to_file_table(s, f).content = s.content
           /\ add_to_file_table(s, f).table = [s.table EXCEPT ![f] = [pos |-> 0, inode |-> "live"]]
           /\ add_to_file_table(s, f).open = s.open \cup {f}
           /\ add_to_file_table(s, f).cwd = s.cwd
           /\ add_to_file_table(s, f).list = s.list
           /\ add_to_file_table(s, f).fault = s.fault
  <1> DEFINE T == [s.table EXCEPT ![f] = [pos |-> 0, inode |-> "live"]]
             O == s.open \cup {f}
  <1>1. add_to_file_table(s, f) = [s EXCEPT !.open = O, !.table = T]
    BY DEF add_to_file_table, States
  <1>2. T \in [AllNames -> Entries]
    BY LiteralFacts DEF States
  <1>3. T = [s.table EXCEPT ![f] = [pos |-> 0, inode |-> "live"]]
    OBVIOUS
  <1>4. O \in SUBSET (AllNames \cup {Root}) /\ O = s.open \cup {f}
    BY DEF States
  <1> HIDE DEF T, O
  <1>5. /\ add_to_file_table(s, f) \in States
        /\ add_to_file_table(s, f).content = s.content
        /\ add_to_file_table(s, f).table = T
        /\ add_to_file_table(s, f).open = O
        /\ add_to_file_table(s, f).cwd = s.cwd
        /\ add_to_file_table(s, f).list = s.list
        /\ add_to_file_table(s, f).fault = s.fault
    BY <1>1, <1>2, <1>4 DEF States
  <1> QED
    BY <1>3, <1>4, <1>5

LEMMA GetFacts ==
    ASSUME NEW s, Good(s), NEW f \in AllNames, s.content[f] # Absent
    PROVE  /\ Good(get_file_by_fname(s, f)) /\ (Tidy(s) => Tidy(get_file_by_fname(s, f)))
           /\ get_file_by_fname(s, f).content = s.content
           /\ get_file_by_fname(s, f).cwd = s.cwd
           /\ get_file_by_fname(s, f).list = s.list
           /\ get_file_by_fname(s, f).fault = s.fault
           /\ get_file_by_fname(s, f).table[f].inode # "none"
           /\ s.table[f].inode = "none" => /\ get_file_by_fname(s, f).table[f].pos = 0
                                           /\ get_file_by_fname(s, f).table[f].inode = "live"
           /\ s.table[f].inode # "none" => get_file_by_fname(s, f) = s
           /\ Entries0(s, get_file_by_fname(s, f), f)
  <1>1. s \in States /\ Agree(s)
    BY DEF Good
  <1>2. CASE s.table[f].inode # "none"
    BY <1>1, <1>2 DEF get_file_by_fname, Entries0, Good
  <1>3. CASE s.table[f].inode = "none"
    <2> DEFINE t == add_to_file_table(s, f)
    <2>1. get_file_by_fname(s, f) = t
      BY <1>3 DEF get_file_by_fname
    <2>2. /\ t \in States /\ t.content = s.content
          /\ t.table = [s.table EXCEPT ![f] = [pos |-> 0, inode |-> "live"]]
          /\ t.open = s.open \cup {f} /\ t.cwd = s.cwd /\ t.list = s.list /\ t.fault = s.fault
      BY <1>1, AddFacts
    <2> HIDE DEF t
    <2>3. /\ t.table[f].inode = "live" /\ t.table[f].pos = 0
          /\ \A g \in AllNames \ {f} : t.table[g] = s.table[g]
      BY <1>1, <2>2 DEF States
    <2>4. Agree(t)
      BY <1>1, <2>2, <2>3, NameAssumption DEF Agree
    <2>5. Tidy(s) => Tidy(t)
      BY <2>2, <2>3 DEF Tidy
    <2> QED
      BY <1>1, <1>3, <2>1, <2>2, <2>3, <2>4, <2>5 DEF Good, Entries0
  <1> QED
    BY <1>2, <1>3

\* An entry is overwritten by one that exists and is as live as the list of open
\* inodes says.
SetEntry(s, f, e) == [s EXCEPT !.table = [s.table EXCEPT ![f] = e]]

LEMMA EntryFacts ==
    ASSUME NEW s, Good(s), NEW f \in AllNames, NEW e \in Entries, NEW t,
           t = SetEntry(s, f, e)
    PROVE  /\ t \in States /\ t.content = s.content /\ t.open = s.open /\ t.cwd = s.cwd
           /\ t.list = s.list /\ t.fault = s.fault /\ t.table[f] = e /\ Entries0(s, t, f)
           /\ e.inode = s.table[f].inode => Good(t) /\ (Tidy(s) => Tidy(t))
           /\ e.inode = "none" /\ s.table[f].inode = "freed" => Good(t)
  <1> DEFINE T == [s.table EXCEPT ![f] = e]
  <1>1. s \in States /\ Agree(s)
    BY DEF Good
  <1>2. T \in [AllNames -> Entries] /\ T[f] = e /\ \A g \in AllNames \ {f} : T[g] = s.table[g]
    BY <1>1 DEF States
  <1> HIDE DEF T
  <1>3. t \in States /\ t.content = s.content /\ t.open = s.open /\ t.cwd = s.cwd
        /\ t.list = s.list /\ t.fault = s.fault /\ t.table = T
    <2>1. t = [s EXCEPT !.table = T]
      BY DEF T, SetEntry
    <2> QED
      BY <1>1, <1>2, <2>1 DEF States
  <1>4. e.inode = s.table[f].inode => Agree(t) /\ (Tidy(s) => Tidy(t))
    BY <1>1, <1>2, <1>3 DEF Agree, Tidy
  <1>5. e.inode = "none" /\ s.table[f].inode = "freed" => Agree(t)
    BY <1>1, <1>2, <1>3 DEF Agree
  <1> QED
    BY <1>2, <1>3, <1>4, <1>5 DEF Good, Entries0

SetPos(s, f, p) == [s EXCEPT !.table[f].pos = p]

LEMMA PosFacts ==
    ASSUME NEW s, Good(s), NEW f \in AllNames, NEW p \in Positions, NEW t,
           t = SetPos(s, f, p)
    PROVE  /\ Good(t) /\ (Tidy(s) => Tidy(t)) /\ t.content = s.content /\ t.cwd = s.cwd
           /\ t.open = s.open
           /\ t.list = s.list /\ t.fault = s.fault /\ Entries0(s, t, f)
           /\ t.table[f].pos = p /\ t.table[f].inode = s.table[f].inode
  <1> DEFINE e == [s.table[f] EXCEPT !.pos = p]
  <1>1. s.table[f] \in Entries
    BY DEF Good, States
  <1>2. e \in Entries /\ e.pos = p /\ e.inode = s.table[f].inode
    BY <1>1 DEF Entries
  <1>3. t = SetEntry(s, f, e)
    BY DEF Good, States, SetEntry, SetPos
  <1> HIDE DEF e
  <1>4. /\ t.content = s.content /\ t.open = s.open /\ t.cwd = s.cwd
        /\ t.list = s.list /\ t.fault = s.fault /\ t.table[f] = e /\ Entries0(s, t, f)
    BY <1>2, <1>3, EntryFacts
  <1>5. Good(t) /\ (Tidy(s) => Tidy(t))
    BY <1>2, <1>3, EntryFacts
  <1> QED
    BY <1>2, <1>4, <1>5

LEMMA RemoveFacts ==
    ASSUME NEW s, Good(s), NEW f \in AllNames, NEW t, t = remove_from_file_table(s, f)
    PROVE  /\ Good(t) /\ (Tidy(s) => Tidy(t)) /\ t.content = s.content /\ t.cwd = s.cwd
           /\ t.list = s.list /\ Entries0(s, t, f) /\ t.table[f].inode = "none"
           /\ t.fault = IF s.table[f].inode = "freed" /\ s.fault = "none" THEN "lucky" ELSE s.fault
  <1>1. s \in States /\ Agree(s) /\ s.table[f].inode \in {"none", "live", "freed"}
    BY DEF Good, States, Entries
  <1>2. CASE s.table[f].inode = "none"
    BY <1>1, <1>2 DEF remove_from_file_table, Entries0
  <1>3. CASE s.table[f].inode # "none"
    <2> DEFINE u == SetEntry(s, f, Closed)
    <2>1. Closed \in Entries /\ Closed.inode = "none"
      BY LiteralFacts DEF Closed
    <2>2. /\ u \in States /\ u.content = s.content /\ u.open = s.open /\ u.cwd = s.cwd
          /\ u.list = s.list /\ u.fault = s.fault /\ u.table[f] = Closed /\ Entries0(s, u, f)
      BY <2>1, EntryFacts
    <2>3. s.table[f].inode = "freed" => Good(u)
      BY <2>1, EntryFacts
    <2>4. t = IF s.table[f].inode = "live" THEN [u EXCEPT !.open = u.open \ {f}] ELSE Lucky(u)
      BY <1>1, <1>3, <2>2 DEF remove_from_file_table, States, SetEntry
    <2> HIDE DEF u
    <2>5. CASE s.table[f].inode = "live"
      <3> DEFINE O == u.open \ {f}
      <3>1. O \in SUBSET (AllNames \cup {Root}) /\ O = s.open \ {f}
        BY <2>2 DEF States
      <3>2. t = [u EXCEPT !.open = O]
        BY <2>4, <2>5
      <3> HIDE DEF O
      <3>3. t \in States /\ t.content = s.content /\ t.cwd = s.cwd /\ t.list = s.list
            /\ t.fault = s.fault /\ t.table = u.table /\ t.open = O
        BY <2>2, <3>1, <3>2 DEF States
      <3>4. t.table[f].inode = "none" /\ Entries0(s, t, f)
        BY <2>1, <2>2, <3>3 DEF Entries0
      <3>5. Agree(t)
        BY <1>1, <3>1, <3>3, <3>4, NameAssumption DEF Agree, Entries0
      <3>6. Tidy(s) => Tidy(t)
        BY <3>1, <3>3, <3>4 DEF Tidy, Entries0
      <3> QED
        BY <2>5, <3>3, <3>4, <3>5, <3>6 DEF Good
    <2>6. CASE s.table[f].inode = "freed"
      <3>1. t = Lucky(u) /\ Good(u)
        BY <2>3, <2>4, <2>6
      <3>2. t \in States /\ Same(u, t) /\ t.fault = IF u.fault = "none" THEN "lucky" ELSE u.fault
        BY <2>2, <3>1, FaultFacts
      <3>3. Good(t)
        BY <3>1, <3>2, SameGood
      <3>4. ~Tidy(s)
        BY <2>6 DEF Tidy
      <3>5. t.table[f].inode = "none" /\ Entries0(s, t, f)
        BY <2>1, <2>2, <3>2 DEF Entries0, Same
      <3> QED
        BY <2>2, <2>6, <3>2, <3>3, <3>4, <3>5 DEF Same
    <2> QED
      BY <1>1, <1>3, <2>5, <2>6
  <1> QED
    BY <1>2, <1>3

LEMMA ReadFacts ==
    ASSUME NEW s, Good(s), NEW f \in AllNames, NEW n \in Int, s.content[f] # Absent,
           NEW t, t = file_read(s, f, n)
    PROVE  /\ Good(t) /\ (Tidy(s) => Tidy(t)) /\ t.content = s.content /\ t.cwd = s.cwd
           /\ t.open = s.open
           /\ t.list = s.list /\ Entries0(s, t, f) /\ t.table[f].inode = s.table[f].inode
           /\ \/ t.fault = s.fault
              \/ /\ t.fault = "wild" /\ t.table = s.table
                 /\ s.table[f].inode = "freed" \/ s.table[f].pos < 0
  <1> DEFINE p == s.table[f].pos
             c == s.content[f]
  <1>1. s \in States /\ p \in Positions /\ c \in Strings
    BY ContentsFacts DEF Good, States, Entries, Ended
  <1>2. CASE n <= 0
    BY <1>1, <1>2 DEF file_read, Entries0
  <1>3. CASE ~(n <= 0) /\ (s.table[f].inode = "freed" \/ p < 0)
    <2>1. t = Wild(s)
      BY <1>3 DEF file_read
    <2>2. t \in States /\ Same(s, t) /\ t.fault = "wild"
      BY <1>1, <2>1, FaultFacts
    <2> QED
      BY <1>3, <2>2, SameGood DEF Same, Entries0
  <1>4. CASE ~(n <= 0) /\ ~(s.table[f].inode = "freed" \/ p < 0)
    <2> DEFINE q == p + inode_read_at(c, p, n)
    <2>1. t = SetPos(s, f, q)
      BY <1>4 DEF file_read, SetPos
    <2>2. q \in Positions
      <3> HIDE DEF p, c
      <3>1. Len(c) \in Nat /\ Len(c) <= MaxLength /\ MaxLength \in Nat /\ p \in Int
        BY <1>1, SizeAssumption DEF Strings, Positions
      <3>2. CASE p >= Len(c)
        BY <1>1, <3>1, <3>2 DEF inode_read_at
      <3>3. CASE ~(p >= Len(c))
        <4>1. q \in 0 .. MaxLength
          BY <1>4, <3>1, <3>3 DEF inode_read_at, Least, p
        <4> QED
          BY <4>1, <3>1 DEF Positions
      <3> QED
        BY <3>2, <3>3
    <2> HIDE DEF q
    <2> QED
      BY <2>1, <2>2, PosFacts
  <1> QED
    BY <1>2, <1>3, <1>4

SetContent(s, f, c) == [s EXCEPT !.content = [s.content EXCEPT ![f] = c]]

LEMMA ContentFacts ==
    ASSUME NEW s, Good(s), NEW f \in AllNames, NEW c \in Contents,
           c # Absent \/ s.table[f].inode = "none", NEW t, t = SetContent(s, f, c)
    PROVE  /\ Good(t) /\ (Tidy(s) => Tidy(t)) /\ t.table = s.table /\ t.open = s.open
           /\ t.cwd = s.cwd /\ t.list = s.list /\ t.fault = s.fault
           /\ t.content[f] = c /\ Entries0(s, t, f)
  <1> DEFINE C == [s.content EXCEPT ![f] = c]
  <1>1. s \in States /\ Agree(s)
    BY DEF Good
  <1>2. C \in [AllNames -> Contents] /\ C[f] = c /\ \A g \in AllNames \ {f} : C[g] = s.content[g]
    BY <1>1 DEF States
  <1>3. t = [s EXCEPT !.content = C]
    BY DEF SetContent
  <1> HIDE DEF C
  <1>4. /\ t \in States /\ t.table = s.table /\ t.open = s.open /\ t.cwd = s.cwd
        /\ t.list = s.list /\ t.fault = s.fault /\ t.content = C
    BY <1>1, <1>2, <1>3 DEF States
  <1>5. Agree(t) /\ (Tidy(s) => Tidy(t))
    BY <1>1, <1>2, <1>4 DEF Agree, Tidy
  <1> QED
    BY <1>2, <1>4, <1>5 DEF Good, Entries0

\* Writing n bytes needs the file to end inside the bound.
LEMMA WriteAtFacts ==
    ASSUME NEW c \in Contents, c # Absent, NEW p \in Nat, NEW d \in Seq(Bytes),
           p + Len(d) <= MaxLength
    PROVE  /\ inode_write_at(c, p, Terminated(d)) \in Contents
           /\ inode_write_at(c, p, Terminated(d)) # Absent
           /\ c \in Ended => inode_write_at(c, p, Terminated(d)) \in Ended
  <1> DEFINE e == Terminated(d)
  <1>1. e \in Seq(Bytes) /\ Len(e) = Len(d)
    BY TerminatedFacts
  <1>2. c \in Seq(Bytes) /\ Len(c) <= MaxLength
    BY ContentsFacts DEF Strings
  <1>3. Len(d) # 0 => e[Len(d)] = NUL
    BY <1>1, TerminatedFacts
  <1> HIDE DEF e
  <1> DEFINE w == inode_write_at(c, p, e)
  <1>4. w \in Seq(Bytes) /\ WrittenAt(w, c, p, e)
    BY <1>1, <1>2, WriteFacts
  <1> HIDE DEF w
  <1>5. Len(w) = (IF Len(c) >= p + Len(e) THEN Len(c) ELSE p + Len(e)) /\ Len(w) \in Nat
    BY <1>4 DEF WrittenAt
  <1>6. Len(w) <= MaxLength
    BY <1>1, <1>2, <1>5, SizeAssumption
  <1>7. c \in Ended /\ w # << >> => w[Len(w)] = NUL
    <2> SUFFICES ASSUME c \in Ended, Len(w) # 0 PROVE w[Len(w)] = NUL
      BY <1>4
    <2>0. c # << >> => c[Len(c)] = NUL
      BY DEF Ended
    <2>1. w[Len(w)] = IF Len(w) \in p + 1 .. p + Len(e) THEN e[Len(w) - p]
                      ELSE IF Len(w) > Len(c) THEN NUL ELSE c[Len(w)]
      BY <1>4, <1>5 DEF WrittenAt
    <2>2. CASE Len(w) \in p + 1 .. p + Len(e)
      <3>1. Len(w) - p = Len(d) /\ Len(d) # 0
        BY <1>1, <1>2, <1>5, <2>2
      <3> QED
        BY <1>3, <2>1, <2>2, <3>1
    <2>3. CASE Len(w) \notin p + 1 .. p + Len(e) /\ ~(Len(w) > Len(c))
      <3>1. Len(w) = Len(c) /\ c # << >>
        BY <1>1, <1>2, <1>5, <2>3
      <3> QED
        BY <2>0, <2>1, <2>3, <3>1
    <2> QED
      BY <2>1, <2>2, <2>3
  <1>8. w \in Strings
    BY <1>4, <1>6 DEF Strings
  <1>9. w \in Contents /\ w # Absent /\ (c \in Ended => w \in Ended)
    BY <1>7, <1>8, ContentsFacts DEF Ended
  <1> QED
    BY <1>9 DEF w, e

LEMMA FileWriteFacts ==
    ASSUME NEW s, Good(s), NEW f \in AllNames, NEW d \in Seq(Bytes), NEW ok \in BOOLEAN,
           s.content[f] # Absent, s.table[f].pos + Len(d) <= MaxLength,
           NEW t, t = file_write(s, f, d, ok)
    PROVE  /\ Good(t) /\ (Tidy(s) => Tidy(t)) /\ t.cwd = s.cwd /\ t.open = s.open
           /\ t.list = s.list /\ Entries0(s, t, f) /\ t.table[f].inode = s.table[f].inode
           /\ t.content[f] # Absent /\ (Nuls(s) => Nuls(t))
           /\ \/ /\ t.fault = "wild" /\ t.table = s.table /\ t.content = s.content
                 /\ s.table[f].inode = "freed" \/ s.table[f].pos < 0
              \/ /\ ok /\ s.table[f].pos >= 0
                 /\ t.fault = IF d = << >> /\ s.fault = "none" THEN "lucky" ELSE s.fault
                 /\ t.content[f] = inode_write_at(s.content[f], s.table[f].pos, Terminated(d))
                 /\ t.table[f].pos = s.table[f].pos + Advance(Len(d))
              \/ /\ ~ok /\ t.fault = s.fault /\ t.content = s.content
  <1> DEFINE p == s.table[f].pos
             c == s.content[f]
             Bad == s.table[f].inode = "freed" \/ p < 0
  <1>1. s \in States /\ p \in Positions /\ p \in Int /\ c \in Strings
    <2>1. s \in States /\ p \in Positions /\ c \in Strings
      BY ContentsFacts DEF Good, States, Entries, Ended
    <2> HIDE DEF p
    <2> QED
      BY <2>1, SizeAssumption DEF Positions
  <1>2. Len(d) \in Nat
    OBVIOUS
  <1>3. CASE Bad
    <2>1. t = Wild(s)
      BY <1>3 DEF file_write
    <2>2. t \in States /\ Same(s, t) /\ t.fault = "wild"
      BY <1>1, <2>1, FaultFacts
    <2> QED
      BY <1>3, <2>2, SameGood DEF Same, Entries0, Nuls
  <1>4. CASE ~Bad /\ ok
    <2> DEFINE s0 == IF d = << >> THEN Lucky(s) ELSE s
               w == inode_write_at(c, p, Terminated(d))
               s1 == SetContent(s0, f, w)
               q == p + Advance(Len(d))
    <2>0. /\ s0 \in States /\ Same(s, s0)
          /\ s0.fault = IF d = << >> /\ s.fault = "none" THEN "lucky" ELSE s.fault
      BY <1>1, FaultFacts DEF Same
    <2>1. Good(s0) /\ (Tidy(s) => Tidy(s0))
      BY <2>0, SameGood
    <2>2. t = SetPos(s1, f, q)
      <3>1. t = [s0 EXCEPT !.content[f] = inode_write_at(@, p, Terminated(d)), !.table[f].pos = q]
        BY <1>4 DEF file_write
      <3>2. s0.content[f] = c
        BY <2>0 DEF Same
      <3> HIDE DEF s0, c, p, q
      <3> QED
        BY <2>0, <3>1, <3>2 DEF SetPos, SetContent, States
    <2>3. p \in Nat
      BY <1>1, <1>4
    <2>4. w \in Contents /\ w # Absent /\ (c \in Ended => w \in Ended)
      <3>1. c \in Contents
        BY <1>1 DEF States
      <3> QED
        BY <1>1, <2>3, <3>1, WriteAtFacts
    <2>5. q \in Positions
      BY <1>1, <2>3, SizeAssumption DEF Positions, Advance
    <2> HIDE DEF s0, w, q, c, p
    <2>6. /\ Good(s1) /\ (Tidy(s0) => Tidy(s1)) /\ s1.table = s0.table /\ s1.open = s0.open
          /\ s1.cwd = s0.cwd /\ s1.list = s0.list /\ s1.fault = s0.fault
          /\ s1.content[f] = w /\ Entries0(s0, s1, f)
      BY <2>1, <2>4, ContentFacts
    <2> HIDE DEF s1
    <2>7. /\ Good(t) /\ (Tidy(s1) => Tidy(t)) /\ t.content = s1.content /\ t.cwd = s1.cwd
          /\ t.open = s1.open /\ t.list = s1.list /\ t.fault = s1.fault /\ Entries0(s1, t, f)
          /\ t.table[f].pos = q /\ t.table[f].inode = s1.table[f].inode
      BY <2>2, <2>5, <2>6, PosFacts
    <2>8. /\ t.content[f] = inode_write_at(s.content[f], s.table[f].pos, Terminated(d))
          /\ t.table[f].pos = s.table[f].pos + Advance(Len(d))
      BY <2>6, <2>7 DEF w, q, c, p
    <2>9. Entries0(s, t, f) /\ t.table[f].inode = s.table[f].inode
      BY <2>0, <2>6, <2>7 DEF Entries0, Same
    <2>10. s.table[f].pos >= 0
      BY <2>3 DEF p
    <2>11. t.cwd = s.cwd /\ t.open = s.open /\ t.list = s.list /\ t.content[f] # Absent
      BY <2>0, <2>4, <2>6, <2>7 DEF Same
    <2>12. Nuls(s) => Nuls(t)
      <3>1. s.content[f] \in Ended => t.content[f] \in Ended
        BY <2>4, <2>6, <2>7 DEF c
      <3> QED
        BY <2>9, <3>1 DEF Nuls, Entries0
    <2> QED
      BY <1>4, <2>0, <2>1, <2>6, <2>7, <2>8, <2>9, <2>10, <2>11, <2>12, Zenon
  <1>5. CASE ~Bad /\ ~ok
    <2> DEFINE q == p + Advance(0)
    <2>1. t = SetPos(s, f, q)
      BY <1>5 DEF file_write, SetPos
    <2>2. q \in Positions
      <3>1. p \in Nat /\ p <= MaxLength
        BY <1>1, <1>2, <1>5, SizeAssumption
      <3>2. q = p - 2
        BY <3>1 DEF Advance
      <3> HIDE DEF p, q
      <3> QED
        BY <3>1, <3>2, SizeAssumption DEF Positions
    <2> HIDE DEF q
    <2>3. /\ Good(t) /\ (Tidy(s) => Tidy(t)) /\ t.content = s.content /\ t.cwd = s.cwd
          /\ t.open = s.open /\ t.list = s.list /\ t.fault = s.fault /\ Entries0(s, t, f)
          /\ t.table[f].inode = s.table[f].inode
      BY <2>1, <2>2, PosFacts
    <2> QED
      BY <1>5, <2>3 DEF Nuls
  <1> QED
    BY <1>3, <1>4, <1>5

-----------------------------------------------------------------------------
\* The directory.

\* t is s with another directory handle.
SameFiles(s, t) == /\ t.content = s.content /\ t.table = s.table
                   /\ t.list = s.list /\ t.fault = s.fault
                   /\ t.open \cap AllNames = s.open \cap AllNames

LEMMA DirFacts ==
    ASSUME NEW s, Good(s), NEW t \in States, SameFiles(s, t),
           (Root \in t.open) <=> (t.cwd # NoDir), t.cwd.open_cnt = 0 => t.cwd = NoDir
    PROVE  Good(t) /\ (Tidy(s) => Tidy(t))
  BY DEF Good, Agree, Tidy, SameFiles

LEMMA DirOpenFacts ==
    ASSUME NEW s, Good(s), s.cwd.open_cnt <= MaxLeaks, NEW t, t = dir_open_root(s)
    PROVE  /\ Good(t) /\ (Tidy(s) => Tidy(t)) /\ SameFiles(s, t)
           /\ s.cwd = NoDir => t.cwd = [open_cnt |-> 1, pos |-> "start"]
           /\ s.cwd # NoDir => /\ t.cwd.open_cnt = s.cwd.open_cnt + 1 /\ t.cwd.open_cnt >= 2
                               /\ t.cwd.pos = s.cwd.pos
           /\ t.cwd # NoDir /\ t.cwd.open_cnt \in 1 .. MaxLeaks + 1
  <1>1. s \in States /\ Agree(s) /\ s.cwd \in Dirs
    BY DEF Good, States
  <1>2. CASE s.cwd = NoDir
    <2> DEFINE d == [open_cnt |-> 1, pos |-> "start"]
               O == s.open \cup {Root}
    <2>1. t = [s EXCEPT !.cwd = d, !.open = O]
      BY <1>1, <1>2 DEF dir_open_root, States
    <2>2. d \in Dirs /\ d.open_cnt = 1 /\ d # NoDir /\ d = [open_cnt |-> 1, pos |-> "start"]
      BY SizeAssumption DEF Dirs, NoDir
    <2>3. O \in SUBSET (AllNames \cup {Root}) /\ O \cap AllNames = s.open \cap AllNames /\ Root \in O
      BY <1>1, NameAssumption DEF States
    <2> HIDE DEF d, O
    <2>4. /\ t \in States /\ t.content = s.content /\ t.table = s.table /\ t.open = O
          /\ t.cwd = d /\ t.list = s.list /\ t.fault = s.fault
      BY <1>1, <2>1, <2>2, <2>3 DEF States
    <2>5. SameFiles(s, t)
      BY <2>3, <2>4 DEF SameFiles
    <2> QED
      BY <1>2, <2>2, <2>3, <2>4, <2>5, DirFacts, SizeAssumption
  <1>3. CASE s.cwd # NoDir
    <2> DEFINE d == [s.cwd EXCEPT !.open_cnt = s.cwd.open_cnt + 1]
    <2>1. t = [s EXCEPT !.cwd = d]
      BY <1>1, <1>3 DEF dir_open_root, States, Dirs
    <2>2. s.cwd.open_cnt \in 1 .. MaxLeaks /\ MaxLeaks \in Nat
      BY <1>1, <1>3, SizeAssumption DEF Agree, Dirs
    <2>3. d \in Dirs /\ d.open_cnt = s.cwd.open_cnt + 1 /\ d.pos = s.cwd.pos
      BY <1>1, <2>2 DEF Dirs
    <2>4. d # NoDir
      BY <2>2, <2>3 DEF NoDir
    <2> HIDE DEF d
    <2>5. /\ t \in States /\ t.content = s.content /\ t.table = s.table /\ t.open = s.open
          /\ t.cwd = d /\ t.list = s.list /\ t.fault = s.fault
      BY <1>1, <2>1, <2>3 DEF States
    <2>6. SameFiles(s, t)
      BY <2>5 DEF SameFiles
    <2>7. Root \in s.open
      BY <1>1, <1>3 DEF Agree
    <2>8. Good(t) /\ (Tidy(s) => Tidy(t))
      BY <2>2, <2>3, <2>4, <2>5, <2>6, <2>7, DirFacts
    <2> QED
      BY <1>3, <2>2, <2>3, <2>4, <2>5, <2>6, <2>8
  <1> QED
    BY <1>2, <1>3

LEMMA DirCloseFacts ==
    ASSUME NEW s, Good(s), s.cwd # NoDir, NEW t, t = dir_close(s)
    PROVE  /\ Good(t) /\ (Tidy(s) => Tidy(t)) /\ SameFiles(s, t)
           /\ s.cwd.open_cnt = 1 => t.cwd = NoDir
           /\ s.cwd.open_cnt # 1 => /\ t.cwd.open_cnt = s.cwd.open_cnt - 1 /\ t.cwd # NoDir
                                    /\ t.cwd.pos = s.cwd.pos
           /\ t.cwd.open_cnt <= MaxLeaks
  <1>1. s \in States /\ Agree(s) /\ s.cwd \in Dirs /\ Root \in s.open
    BY DEF Good, States, Agree
  <1>2. s.cwd.open_cnt \in 1 .. MaxLeaks + 1 /\ MaxLeaks \in Nat
    BY <1>1, SizeAssumption DEF Agree, Dirs
  <1>3. CASE s.cwd.open_cnt = 1
    <2> DEFINE u == [s EXCEPT !.cwd = NoDir]
    <2>1. t = inode_close(u, {Root})
      BY <1>3 DEF dir_close
    <2>2. /\ u \in States /\ u.content = s.content /\ u.table = s.table /\ u.open = s.open
          /\ u.cwd = NoDir /\ u.list = s.list /\ u.fault = s.fault
      BY <1>1, LiteralFacts DEF States
    <2> HIDE DEF u
    <2>3. /\ t \in States /\ t.content = s.content /\ t.open = s.open \ {Root}
          /\ t.cwd = NoDir /\ t.list = s.list /\ t.fault = s.fault
          /\ \A f \in AllNames : t.table[f] = s.table[f]
      BY <2>1, <2>2, CloseFacts, NameAssumption
    <2>4. t.table = s.table
      BY <1>1, <2>3 DEF States
    <2>5. SameFiles(s, t)
      BY <2>3, <2>4, NameAssumption DEF SameFiles
    <2>6. t.cwd.open_cnt = 0
      BY <2>3 DEF NoDir
    <2> QED
      BY <1>2, <1>3, <2>3, <2>5, <2>6, DirFacts
  <1>4. CASE s.cwd.open_cnt # 1
    <2> DEFINE d == [s.cwd EXCEPT !.open_cnt = s.cwd.open_cnt - 1]
    <2>1. t = [s EXCEPT !.cwd = d]
      BY <1>1, <1>4 DEF dir_close, States, Dirs
    <2>3. d \in Dirs /\ d.open_cnt = s.cwd.open_cnt - 1 /\ d.pos = s.cwd.pos
      BY <1>1, <1>2, <1>4 DEF Dirs
    <2>4. d # NoDir
      BY <1>2, <1>4, <2>3 DEF NoDir
    <2> HIDE DEF d
    <2>5. /\ t \in States /\ t.content = s.content /\ t.table = s.table /\ t.open = s.open
          /\ t.cwd = d /\ t.list = s.list /\ t.fault = s.fault
      BY <1>1, <2>1, <2>3 DEF States
    <2>6. SameFiles(s, t)
      BY <2>5 DEF SameFiles
    <2>8. Good(t) /\ (Tidy(s) => Tidy(t))
      BY <1>1, <1>2, <1>4, <2>3, <2>4, <2>5, <2>6, DirFacts
    <2> QED
      BY <1>2, <1>4, <2>3, <2>4, <2>5, <2>6, <2>8
  <1> QED
    BY <1>3, <1>4

LEMMA AtEndFacts ==
    ASSUME NEW s, Good(s), s.cwd # NoDir, NEW t, t = AtEnd(s)
    PROVE  /\ Good(t) /\ (Tidy(s) => Tidy(t)) /\ SameFiles(s, t)
           /\ t.cwd.open_cnt = s.cwd.open_cnt /\ t.cwd.pos = "end" /\ t.cwd # NoDir
  <1> DEFINE d == [s.cwd EXCEPT !.pos = "end"]
  <1>1. s \in States /\ Agree(s) /\ s.cwd \in Dirs /\ Root \in s.open
    BY DEF Good, States, Agree
  <1>2. t = [s EXCEPT !.cwd = d]
    BY <1>1 DEF AtEnd, States, Dirs
  <1>3. d \in Dirs /\ d.open_cnt = s.cwd.open_cnt /\ d.pos = "end"
    BY <1>1 DEF Dirs
  <1>4. d # NoDir
    BY <1>3 DEF NoDir
  <1>5. d.open_cnt # 0
    BY <1>1, <1>3 DEF Agree
  <1> HIDE DEF d
  <1>6. /\ t \in States /\ t.content = s.content /\ t.table = s.table /\ t.open = s.open
        /\ t.cwd = d /\ t.list = s.list /\ t.fault = s.fault
    BY <1>1, <1>2, <1>3 DEF States
  <1>7. SameFiles(s, t)
    BY <1>6 DEF SameFiles
  <1>8. Good(t) /\ (Tidy(s) => Tidy(t))
    BY <1>1, <1>4, <1>5, <1>6, <1>7, DirFacts
  <1> QED
    BY <1>3, <1>4, <1>6, <1>7, <1>8

-----------------------------------------------------------------------------
\* The inductive invariant.

\* The position of each file of W is the end of its text.
AtEnds(s, W) == \A f \in W : /\ s.table[f].inode # "none"
                             /\ s.table[f].pos = Len(Text(s.content[f]))

\* Each file with an origin has the text it was copied in from.
Copies(s, o) == \A f \in AllNames :
                   o[f] # NoText => s.content[f] # Absent /\ Text(s.content[f]) = o[f]

\* Where undefined behaviour may come from.
Cause(s) == \E f \in AllNames : s.content[f] = << >> \/ s.table[f].pos < 0

Maps == {"sound", "unsaved", "unsound"}

IInv ==
    /\ Good(State) /\ cwd.open_cnt <= MaxLeaks
    /\ deleted \in Contents /\ marked \in BOOLEAN /\ map \in Maps
    /\ written \subseteq AllNames /\ phase \in {"run", "undefined", "killed"}
    /\ origin \in [AllNames -> Texts \cup {NoText}]
    /\ ~tooled => Tidy(State)
    /\ file_list # "null" => tooled
    /\ phase = "run" /\ cwd # NoDir => recovered
    /\ phase = "undefined" => tooled \/ map # "sound" \/ Cause(State)
    /\ map # "unsound" => Nuls(State) /\ deleted \in Ended
    /\ phase = "run" => AtEnds(State, written)
    /\ phase = "run" /\ map # "unsound" => Copies(State, origin)

\* The fields of State, and what the invariant says of a session that is defined.
LEMMA StateFacts ==
    /\ State.content = content /\ State.table = file_table /\ State.open = open_inodes
    /\ State.cwd = cwd /\ State.list = file_list /\ State.fault = "none"
  BY DEF State

LEMMA TextsKept ==
    ASSUME NEW s, NEW t, NEW W, NEW o, AtEnds(s, W), W \subseteq AllNames,
           \A f \in AllNames : t.content[f] = s.content[f]
    PROVE  /\ Copies(s, o) => Copies(t, o)
           /\ (\A f \in W : t.table[f].pos = s.table[f].pos /\ t.table[f].inode # "none")
                 => AtEnds(t, W)
  <1>1. Copies(s, o) => Copies(t, o)
    BY DEF Copies
  <1>2. (\A f \in W : t.table[f].pos = s.table[f].pos /\ t.table[f].inode # "none") => AtEnds(t, W)
    BY DEF AtEnds
  <1> QED
    BY <1>1, <1>2

\* What a command that ends in the state s leaves on the disk.
DiskGood(s) == /\ deleted' \in Contents /\ marked' \in BOOLEAN /\ map' \in Maps
               /\ map = "unsound" => map' = "unsound"
               /\ map' # "unsound" => Nuls(s) /\ deleted' \in Ended

LEMMA DiskKept ==
    ASSUME IInv, UNCHANGED <<deleted, marked, map>>, NEW s,
           \A f \in AllNames : s.content[f] = State.content[f]
    PROVE  DiskGood(s)
  BY DEF IInv, DiskGood, Nuls

LEMMA ReuseFacts ==
    ASSUME IInv, Reuse, map' \in {map, Saved}, NEW s, map # "unsound" => Nuls(s)
    PROVE  DiskGood(s)
  <1>1. deleted' \in {deleted, Absent} /\ marked' \in BOOLEAN
    BY DEF Reuse, IInv
  <1>2. map' \in Maps /\ (map = "unsound" <=> map' = "unsound")
    BY DEF Saved, IInv, Maps
  <1> QED
    BY <1>1, <1>2, LiteralFacts DEF DiskGood, IInv

\* A command that ends in a good state keeps the invariant.
LEMMA Step ==
    ASSUME IInv, NEW s, Becomes(s), Good(s), s.cwd.open_cnt <= MaxLeaks,
           DiskGood(s), written' \subseteq AllNames,
           origin' \in [AllNames -> Texts \cup {NoText}],
           ~tooled' => Tidy(s), s.list # "null" => tooled', s.cwd # NoDir => recovered',
           s.fault # "none" => tooled' \/ map' # "sound" \/ Cause(s),
           s.fault # "wild" => AtEnds(s, written'),
           s.fault # "wild" /\ map # "unsound" => Copies(s, origin')
    PROVE  IInv'
  <1>1. /\ phase = "run" /\ content' = s.content /\ file_table' = s.table
        /\ open_inodes' = s.open /\ cwd' = s.cwd /\ file_list' = s.list
        /\ \/ s.fault # "wild" /\ phase' = "run"
           \/ s.fault # "none" /\ phase' = "undefined"
    BY DEF Becomes
  <1> DEFINE t == State'
  <1>2. /\ t.content = s.content /\ t.table = s.table /\ t.open = s.open
        /\ t.cwd = s.cwd /\ t.list = s.list /\ t.fault = "none"
    BY <1>1 DEF State
  <1>3. t \in States
    <2>1. t = [content |-> s.content, table |-> s.table, open |-> s.open, cwd |-> s.cwd,
               list |-> s.list, fault |-> "none"]
      BY <1>1 DEF State
    <2> QED
      BY <2>1 DEF Good, States
  <1> HIDE DEF t
  <1>4. Same(s, t)
    BY <1>2 DEF Same
  <1>5. Good(t) /\ (Tidy(s) => Tidy(t))
    BY <1>3, <1>4, SameGood
  <1>6. (Cause(s) => Cause(t)) /\ (Nuls(s) => Nuls(t))
    BY <1>2 DEF Cause, Nuls
  <1>7. AtEnds(s, written') => AtEnds(t, written')
    BY <1>2 DEF AtEnds
  <1>8. Copies(s, origin') => Copies(t, origin')
    BY <1>2 DEF Copies
  <1>9. /\ deleted' \in Contents /\ marked' \in BOOLEAN /\ map' \in Maps
        /\ map' # "unsound" => Nuls(t) /\ deleted' \in Ended
        /\ map' # "unsound" => map # "unsound"
    BY <1>6 DEF DiskGood
  <1>10. /\ Good(t) /\ cwd'.open_cnt <= MaxLeaks
         /\ written' \subseteq AllNames /\ phase' \in {"run", "undefined", "killed"}
         /\ origin' \in [AllNames -> Texts \cup {NoText}]
         /\ ~tooled' => Tidy(t)
         /\ file_list' # "null" => tooled'
         /\ phase' = "run" /\ cwd' # NoDir => recovered'
         /\ phase' = "undefined" => tooled' \/ map' # "sound" \/ Cause(t)
         /\ phase' = "run" => AtEnds(t, written')
         /\ phase' = "run" /\ map' # "unsound" => Copies(t, origin')
    BY <1>1, <1>5, <1>6, <1>7, <1>8, <1>9
  <1> QED
    BY <1>9, <1>10 DEF IInv, t

\* The same for a command that writes to sectors of files.
LEMMA WritesStep ==
    ASSUME IInv, NEW s, Becomes(Writes(s)), Good(s), s.cwd.open_cnt <= MaxLeaks,
           DiskGood(s), written' \subseteq AllNames,
           origin' \in [AllNames -> Texts \cup {NoText}],
           ~tooled' => Tidy(s), s.list # "null" => tooled', s.cwd # NoDir => recovered',
           s.fault # "none" => tooled' \/ map' # "sound" \/ Cause(s),
           s.fault # "wild" => AtEnds(s, written'),
           s.fault # "wild" /\ map # "unsound" => Copies(s, origin')
    PROVE  IInv'
  <1> DEFINE t == Writes(s)
  <1>1. s \in States
    BY DEF Good
  <1>2. /\ t \in States /\ Same(s, t)
        /\ t.fault # "none" => s.fault # "none" \/ map = "unsound"
        /\ t.fault # "wild" => s.fault # "wild"
    BY <1>1, FaultFacts DEF Writes, Same
  <1>3. Becomes(t)
    OBVIOUS
  <1> HIDE DEF t
  <1>4. Good(t) /\ (Tidy(s) => Tidy(t))
    BY <1>2, SameGood
  <1>5. /\ t.cwd = s.cwd /\ t.list = s.list /\ (Cause(s) => Cause(t)) /\ DiskGood(t)
        /\ AtEnds(s, written') => AtEnds(t, written')
        /\ Copies(s, origin') => Copies(t, origin')
    BY <1>2 DEF Same, Cause, DiskGood, Nuls, AtEnds, Copies
  <1>6. map = "unsound" => map' # "sound"
    BY DEF DiskGood
  <1> QED
    BY <1>2, <1>3, <1>4, <1>5, <1>6, Step

\* A command on the file f leaves the texts of the others alone.
LEMMA TextsOther ==
    ASSUME NEW s, NEW t, NEW f, NEW W, W \subseteq AllNames, NEW o, NEW o1,
           AtEnds(s, W), Entries0(s, t, f),
           \A g \in AllNames \ {f} : o1[g] = o[g],
           o1[f] # NoText => o1[f] = o[f] /\ t.content[f] = s.content[f]
    PROVE  AtEnds(t, W \ {f}) /\ (Copies(s, o) => Copies(t, o1))
  <1>1. AtEnds(t, W \ {f})
    BY DEF AtEnds, Entries0
  <1>2. ASSUME Copies(s, o) PROVE Copies(t, o1)
    <2> SUFFICES ASSUME NEW g \in AllNames, o1[g] # NoText
                 PROVE  t.content[g] # Absent /\ Text(t.content[g]) = o1[g]
      BY DEF Copies
    <2>1. t.content[g] = s.content[g] /\ o1[g] = o[g]
      BY DEF Entries0
    <2> QED
      BY <1>2, <2>1 DEF Copies
  <1> QED
    BY <1>1, <1>2

\* What the invariant says in a session that is defined.
RunInv == /\ Good(State) /\ State.cwd.open_cnt <= MaxLeaks /\ written \subseteq AllNames
          /\ AtEnds(State, written)
          /\ map # "unsound" => Copies(State, origin)
          /\ map # "unsound" => Nuls(State) /\ deleted \in Ended
          /\ ~tooled => Tidy(State)
          /\ State.cwd # NoDir => recovered
          /\ State.list # "null" => tooled

LEMMA Running ==
    ASSUME IInv, NEW s, Becomes(s)
    PROVE  RunInv
  BY StateFacts DEF IInv, Becomes, RunInv

\* Names without a content have no entry, position or origin.
LEMMA AbsentFacts ==
    ASSUME Good(State), AtEnds(State, written),
           NEW f \in AllNames, State.content[f] = Absent
    PROVE  /\ State.table[f].inode = "none" /\ f \notin written
           /\ Copies(State, origin) => origin[f] = NoText
  BY DEF Good, Agree, AtEnds, Copies

LEMMA FilesFacts ==
    ASSUME NEW f \in AllNames
    PROVE  f \in Files(State) <=> State.content[f] # Absent
  BY DEF Files

LEMMA ZerosEnd ==
    ASSUME NEW n \in 0 .. MaxLength
    PROVE  Zeros(n) \in Ended /\ Zeros(n) # Absent
  <1>1. n \in Nat /\ n <= MaxLength
    BY SizeAssumption
  <1>2. Zeros(n) \in Seq(Bytes) /\ Len(Zeros(n)) = n /\ \A k \in 1 .. n : Zeros(n)[k] = NUL
    BY <1>1, ZerosFacts
  <1>3. Zeros(n) \in Contents /\ Zeros(n) # Absent
    BY <1>1, <1>2, ContentsFacts DEF Strings
  <1>4. Zeros(n) # << >> => Zeros(n)[n] = NUL
    <2>1. Zeros(n) # << >> => n # 0
      BY <1>2
    <2> QED
      BY <1>1, <1>2, <2>1
  <1> QED
    BY <1>2, <1>3, <1>4 DEF Ended

LEMMA CreateStep ==
    ASSUME IInv, NEW f \in Names, NEW n \in Sizes, fsutil_create(f, n)
    PROVE  IInv'
  <1> DEFINE s == SetContent(State, f, Zeros(n))
  <1>1. Becomes(Writes(s))
    BY DEF fsutil_create, SetContent
  <1>2. /\ f \in AllNames /\ State.content[f] = Absent
        /\ Reuse /\ map' \in {map, Saved} /\ UNCHANGED <<tooled, written, recovered, origin>>
    BY FilesFacts DEF fsutil_create, history, AllNames
  <1>3. RunInv
    BY <1>1, Running
  <1> USE DEF RunInv
  <1>4. /\ State.table[f].inode = "none" /\ f \notin written
        /\ Copies(State, origin) => origin[f] = NoText
    BY <1>2, <1>3, AbsentFacts
  <1>5. Zeros(n) \in Ended /\ Zeros(n) # Absent
    BY ZerosEnd, SizeAssumption
  <1>6. /\ Good(s) /\ (Tidy(State) => Tidy(s)) /\ s.cwd = State.cwd /\ s.list = State.list
        /\ s.fault = State.fault /\ Entries0(State, s, f) /\ s.content[f] = Zeros(n)
    BY <1>2, <1>3, <1>4, <1>5, ContentFacts DEF Ended
  <1> HIDE DEF s
  <1>7. AtEnds(s, written) /\ (Copies(State, origin) => Copies(s, origin))
    <2>1. AtEnds(s, written)
      BY <1>3, <1>4, <1>6 DEF AtEnds, Entries0
    <2>2. ASSUME Copies(State, origin) PROVE Copies(s, origin)
      <3>1. origin[f] = NoText
        BY <1>4, <2>2
      <3> QED
        BY <1>6, <2>2, <3>1 DEF Copies, Entries0
    <2> QED
      BY <2>1, <2>2
  <1>8. DiskGood(s)
    <2>1. Nuls(State) => Nuls(s)
      BY <1>5, <1>6 DEF Nuls, Entries0
    <2> QED
      BY <1>2, <1>3, <2>1, ReuseFacts
  <1>9. written' \subseteq AllNames /\ origin' \in [AllNames -> Texts \cup {NoText}]
    BY <1>2 DEF IInv
  <1> QED
    BY <1>1, <1>2, <1>3, <1>6, <1>7, <1>8, <1>9, WritesStep, StateFacts

LEMMA CreateFailsStep ==
    ASSUME IInv, NEW n \in Sizes, CreateFails(n)
    PROVE  IInv'
  <1>1. /\ Becomes(Writes(State)) /\ map' \in {map, Saved}
        /\ Reuse \/ (deleted' = Zeros(n) /\ marked' = (n > 0))
        /\ UNCHANGED <<tooled, written, recovered, origin>>
    BY DEF CreateFails, history
  <1>2. RunInv
    BY <1>1, Running
  <1> USE DEF RunInv
  <1>3. DiskGood(State)
    <2>1. CASE Reuse
      BY <1>1, <1>2, <2>1, ReuseFacts
    <2>2. CASE deleted' = Zeros(n) /\ marked' = (n > 0)
      <3>1. map' \in Maps /\ (map = "unsound" <=> map' = "unsound")
        BY <1>1 DEF Saved, IInv, Maps
      <3>2. deleted' \in Ended
        BY <2>2, ZerosEnd, SizeAssumption
      <3> QED
        BY <1>2, <2>2, <3>1, <3>2 DEF DiskGood, Ended
    <2> QED
      BY <1>1, <2>1, <2>2
  <1>4. written' \subseteq AllNames /\ origin' \in [AllNames -> Texts \cup {NoText}]
    BY <1>1 DEF IInv
  <1> QED
    BY <1>1, <1>2, <1>3, <1>4, WritesStep, StateFacts

LEMMA ReadStep ==
    ASSUME IInv, NEW f \in AllNames, NEW n \in Offsets, fsutil_read(f, n)
    PROVE  IInv'
  <1> DEFINE s == get_file_by_fname(State, f)
             t == file_read(s, f, n)
  <1>1. Becomes(t)
    BY DEF fsutil_read
  <1>2. /\ State.content[f] # Absent
        /\ written' = written \ {f} /\ UNCHANGED <<deleted, marked, map, tooled, recovered, origin>>
    BY FilesFacts DEF fsutil_read, Moved, disk
  <1>3. RunInv
    BY <1>1, Running
  <1> USE DEF RunInv
  <1>4. /\ Good(s) /\ (Tidy(State) => Tidy(s)) /\ s.content = State.content /\ s.cwd = State.cwd
        /\ s.list = State.list /\ s.fault = State.fault /\ Entries0(State, s, f)
    BY <1>2, <1>3, GetFacts
  <1>5. n \in Int
    BY SizeAssumption
  <1> HIDE DEF s
  <1>6. /\ Good(t) /\ (Tidy(s) => Tidy(t)) /\ t.content = s.content /\ t.cwd = s.cwd
        /\ t.list = s.list /\ Entries0(s, t, f)
        /\ \/ t.fault = s.fault
           \/ /\ t.fault = "wild" /\ t.table = s.table
              /\ s.table[f].inode = "freed" \/ s.table[f].pos < 0
    BY <1>2, <1>4, <1>5, ReadFacts
  <1> HIDE DEF t
  <1>7. Entries0(State, t, f)
    BY <1>4, <1>6 DEF Entries0
  <1>8. AtEnds(t, written \ {f}) /\ (Copies(State, origin) => Copies(t, origin))
    BY <1>3, <1>4, <1>6, <1>7, TextsOther
  <1>9. t.fault # "none" => tooled \/ Cause(t)
    <2>1. s.table[f].inode = "freed" => ~Tidy(s)
      BY DEF Tidy
    <2>2. t.table[f].pos < 0 => Cause(t)
      BY DEF Cause
    <2> QED
      BY <1>3, <1>4, <1>6, <2>1, <2>2, StateFacts
  <1>10. written' \subseteq AllNames /\ origin' \in [AllNames -> Texts \cup {NoText}]
    BY <1>2 DEF IInv
  <1>11. DiskGood(t)
    BY <1>2, <1>4, <1>6, DiskKept
  <1> QED
    BY <1>1, <1>2, <1>3, <1>4, <1>6, <1>8, <1>9, <1>10, <1>11, Step

LEMMA SeekStep ==
    ASSUME IInv, NEW f \in AllNames, NEW n \in Offsets, fsutil_seek(f, n)
    PROVE  IInv'
  <1> DEFINE s == get_file_by_fname(State, f)
             t == SetPos(s, f, n)
  <1>1. Becomes(t)
    BY DEF fsutil_seek, SetPos
  <1>2. /\ State.content[f] # Absent
        /\ written' = written \ {f} /\ UNCHANGED <<deleted, marked, map, tooled, recovered, origin>>
    BY FilesFacts DEF fsutil_seek, Moved, disk
  <1>3. RunInv
    BY <1>1, Running
  <1> USE DEF RunInv
  <1>4. /\ Good(s) /\ (Tidy(State) => Tidy(s)) /\ s.content = State.content /\ s.cwd = State.cwd
        /\ s.list = State.list /\ s.fault = State.fault /\ Entries0(State, s, f)
    BY <1>2, <1>3, GetFacts
  <1> HIDE DEF s
  <1>5. n \in Positions
    BY DEF Positions
  <1>6. /\ Good(t) /\ (Tidy(s) => Tidy(t)) /\ t.content = s.content /\ t.cwd = s.cwd
        /\ t.list = s.list /\ t.fault = s.fault /\ Entries0(s, t, f)
    BY <1>4, <1>5, PosFacts
  <1> HIDE DEF t
  <1>7. Entries0(State, t, f)
    BY <1>4, <1>6 DEF Entries0
  <1>8. AtEnds(t, written \ {f}) /\ (Copies(State, origin) => Copies(t, origin))
    BY <1>3, <1>4, <1>6, <1>7, TextsOther
  <1>9. written' \subseteq AllNames /\ origin' \in [AllNames -> Texts \cup {NoText}]
    BY <1>2 DEF IInv
  <1>10. DiskGood(t)
    BY <1>2, <1>4, <1>6, DiskKept
  <1> QED
    BY <1>1, <1>2, <1>3, <1>4, <1>6, <1>8, <1>9, <1>10, Step, StateFacts

LEMMA SizeStep ==
    ASSUME IInv, NEW f \in AllNames, fsutil_size(f)
    PROVE  IInv'
  <1> DEFINE s == get_file_by_fname(State, f)
             t == IF s.table[f].inode = "freed" THEN Wild(s) ELSE s
  <1>1. Becomes(t)
    BY DEF fsutil_size
  <1>2. /\ State.content[f] # Absent
        /\ UNCHANGED <<deleted, marked, map, tooled, written, recovered, origin>>
    BY FilesFacts DEF fsutil_size, history, disk
  <1>3. RunInv
    BY <1>1, Running
  <1> USE DEF RunInv
  <1>4. /\ Good(s) /\ (Tidy(State) => Tidy(s)) /\ s.content = State.content /\ s.cwd = State.cwd
        /\ s.list = State.list /\ s.fault = State.fault /\ Entries0(State, s, f)
        /\ State.table[f].inode # "none" => s = State
    BY <1>2, <1>3, GetFacts
  <1> HIDE DEF s
  <1>5. t \in States /\ Same(s, t) /\ (t.fault # "none" => s.table[f].inode = "freed")
    BY <1>4, FaultFacts, StateFacts DEF Good, Same
  <1> HIDE DEF t
  <1>6. Good(t) /\ (Tidy(s) => Tidy(t))
    BY <1>4, <1>5, SameGood
  <1>7. AtEnds(t, written) /\ (Copies(State, origin) => Copies(t, origin))
    <2>1. \A g \in written : t.table[g] = State.table[g]
      BY <1>3, <1>4, <1>5 DEF Same, Entries0, AtEnds
    <2>2. \A g \in AllNames : t.content[g] = State.content[g]
      BY <1>4, <1>5 DEF Same
    <2>3. \A g \in written : t.table[g].pos = State.table[g].pos /\ t.table[g].inode # "none"
      BY <1>3, <2>1 DEF AtEnds
    <2> QED
      BY <1>3, <2>2, <2>3, TextsKept
  <1>8. t.fault # "none" => tooled
    BY <1>3, <1>4, <1>5 DEF Tidy
  <1>9. written' \subseteq AllNames /\ origin' \in [AllNames -> Texts \cup {NoText}]
    BY <1>2 DEF IInv
  <1>10. t.cwd = State.cwd /\ t.list = State.list
    BY <1>4, <1>5 DEF Same
  <1>11. DiskGood(t)
    BY <1>2, <1>4, <1>5, DiskKept DEF Same
  <1> QED
    BY <1>1, <1>2, <1>3, <1>4, <1>6, <1>7, <1>8, <1>9, <1>10, <1>11, Step

LEMMA CatStep ==
    ASSUME IInv, NEW f \in AllNames, fsutil_cat(f)
    PROVE  IInv'
  <1> DEFINE a == add_to_file_table(State, f)
             t == CASE file_table[f].inode = "none"  -> remove_from_file_table(a, f)
                    [] file_table[f].inode = "live"  -> State
                    [] file_table[f].inode = "freed" -> Wild(State)
  <1>1. Becomes(t)
    BY DEF fsutil_cat
  <1>2. /\ State.content[f] # Absent
        /\ UNCHANGED <<deleted, marked, map, tooled, written, recovered, origin>>
    BY FilesFacts DEF fsutil_cat, history, disk
  <1>3. RunInv
    BY <1>1, Running
  <1> USE DEF RunInv
  <1>4. State.table[f].inode \in {"none", "live", "freed"} /\ file_table = State.table
    BY <1>3, StateFacts DEF Good, States, Entries
  <1>5. CASE State.table[f].inode = "none"
    <2>1. a = get_file_by_fname(State, f) /\ t = remove_from_file_table(a, f)
      BY <1>4, <1>5 DEF get_file_by_fname
    <2>2. /\ Good(a) /\ (Tidy(State) => Tidy(a)) /\ a.content = State.content /\ a.cwd = State.cwd
          /\ a.list = State.list /\ a.fault = State.fault /\ Entries0(State, a, f)
          /\ a.table[f].inode = "live"
      BY <1>2, <1>3, <1>5, <2>1, GetFacts
    <2> HIDE DEF a, t
    <2>3. /\ Good(t) /\ (Tidy(a) => Tidy(t)) /\ t.content = a.content /\ t.cwd = a.cwd
          /\ t.list = a.list /\ Entries0(a, t, f) /\ t.fault = a.fault
      BY <2>1, <2>2, RemoveFacts
    <2>4. Entries0(State, t, f)
      BY <2>2, <2>3 DEF Entries0
    <2>5. AtEnds(t, written \ {f}) /\ (Copies(State, origin) => Copies(t, origin))
      BY <1>3, <2>2, <2>3, <2>4, TextsOther
    <2>6. written \ {f} = written
      BY <1>3, <1>5 DEF AtEnds
    <2>7. written' \subseteq AllNames /\ origin' \in [AllNames -> Texts \cup {NoText}]
      BY <1>2 DEF IInv
    <2>8. DiskGood(t)
      BY <1>2, <2>2, <2>3, DiskKept
    <2> QED
      BY <1>1, <1>2, <1>3, <2>2, <2>3, <2>5, <2>6, <2>7, <2>8, Step, StateFacts
  <1>6. CASE State.table[f].inode # "none"
    <2>1. t = IF State.table[f].inode = "freed" THEN Wild(State) ELSE State
      BY <1>4, <1>6
    <2> HIDE DEF t
    <2>2. t \in States /\ Same(State, t) /\ (t.fault # "none" => State.table[f].inode = "freed")
      BY <1>3, <2>1, FaultFacts, StateFacts DEF Good, Same
    <2>3. Good(t) /\ (Tidy(State) => Tidy(t))
      BY <1>3, <2>2, SameGood
    <2>4. AtEnds(t, written) /\ (Copies(State, origin) => Copies(t, origin))
      BY <1>3, <2>2 DEF AtEnds, Copies, Same
    <2>5. t.fault # "none" => tooled
      BY <1>3, <2>2 DEF Tidy
    <2>6. written' \subseteq AllNames /\ origin' \in [AllNames -> Texts \cup {NoText}]
      BY <1>2 DEF IInv
    <2>7. t.cwd = State.cwd /\ t.list = State.list
      BY <2>2 DEF Same
    <2>8. DiskGood(t)
      BY <1>2, <2>2, DiskKept DEF Same
    <2> QED
      BY <1>1, <1>2, <1>3, <2>3, <2>4, <2>5, <2>6, <2>7, <2>8, Step
  <1> QED
    BY <1>5, <1>6

LEMMA CatPathStep ==
    ASSUME IInv, NEW f \in AllNames, cat_path(f)
    PROVE  IInv'
  <1> DEFINE t == inode_close(State, {f})
  <1>1. /\ Becomes(t) /\ tooled' = (tooled \/ State.table[f].inode = "live")
        /\ UNCHANGED <<deleted, marked, map, written, recovered, origin>>
    BY StateFacts DEF cat_path, disk
  <1>2. RunInv
    BY <1>1, Running
  <1> USE DEF RunInv
  <1>3. /\ t \in States /\ t.content = State.content /\ t.open = State.open \ {f}
        /\ t.cwd = State.cwd /\ t.list = State.list /\ t.fault = "none"
        /\ \A g \in AllNames :
              /\ t.table[g].pos = State.table[g].pos
              /\ t.table[g].inode = IF g \in {f} /\ State.table[g].inode = "live"
                                    THEN "freed" ELSE State.table[g].inode
    BY <1>2, CloseFacts, StateFacts DEF Good
  <1> HIDE DEF t
  <1>4. Agree(t)
    BY <1>2, <1>3, NameAssumption DEF Good, Agree
  <1>5. ~tooled' => Tidy(t)
    BY <1>1, <1>2, <1>3 DEF Tidy
  <1>6. AtEnds(t, written) /\ (Copies(State, origin) => Copies(t, origin))
    BY <1>2, <1>3 DEF AtEnds, Copies
  <1>7. DiskGood(t)
    BY <1>1, <1>3, DiskKept
  <1>8. written' \subseteq AllNames /\ origin' \in [AllNames -> Texts \cup {NoText}]
    BY <1>1 DEF IInv
  <1> QED
    BY <1>1, <1>2, <1>3, <1>4, <1>5, <1>6, <1>7, <1>8, Step DEF Good

\* filesys_remove, for a file that has no entry any more.
LEMMA FsRemoveFacts ==
    ASSUME NEW s, Good(s), NEW f \in AllNames, s.table[f].inode = "none",
           NEW t, t = filesys_remove(s, f)
    PROVE  /\ Good(t) /\ (Tidy(s) => Tidy(t)) /\ t.cwd = NoDir /\ t.list = s.list
           /\ t.fault = s.fault /\ Entries0(s, t, f) /\ t.content[f] = Absent
  <1> DEFINE u == SetContent(s, f, Absent)
             v == [u EXCEPT !.cwd = NoDir]
  <1>1. /\ Good(u) /\ (Tidy(s) => Tidy(u)) /\ u.table = s.table /\ u.open = s.open
        /\ u.cwd = s.cwd /\ u.list = s.list /\ u.fault = s.fault
        /\ u.content[f] = Absent /\ Entries0(s, u, f)
    BY LiteralFacts, ContentFacts
  <1>2. t = inode_close(v, {Root, f})
    <2>1. s \in States
      BY DEF Good
    <2>2. [s EXCEPT !.content[f] = Absent, !.cwd = NoDir] = v
      BY <2>1 DEF SetContent, States
    <2> HIDE DEF v
    <2> QED
      BY <2>2 DEF filesys_remove
  <1> HIDE DEF u
  <1>3. /\ v \in States /\ v.content = u.content /\ v.table = u.table /\ v.open = u.open
        /\ v.cwd = NoDir /\ v.list = u.list /\ v.fault = u.fault
    BY <1>1, LiteralFacts DEF Good, States
  <1> HIDE DEF v
  <1>4. /\ t \in States /\ t.content = u.content /\ t.open = u.open \ {Root, f}
        /\ t.cwd = NoDir /\ t.list = s.list /\ t.fault = s.fault
        /\ \A g \in AllNames :
              /\ t.table[g].inode = IF g \in {Root, f} /\ s.table[g].inode = "live"
                                    THEN "freed" ELSE s.table[g].inode
              /\ g \notin {Root, f} => t.table[g] = s.table[g]
    BY <1>1, <1>2, <1>3, CloseFacts
  <1>5. t.table[f].inode = "none" /\ \A g \in AllNames \ {f} : t.table[g] = s.table[g]
    BY <1>4, NameAssumption
  <1>6. Agree(t)
    <2>1. Agree(u)
      BY <1>1 DEF Good
    <2> QED
      BY <1>1, <1>4, <1>5, <2>1 DEF Agree
  <1>7. Tidy(u) => Tidy(t)
    BY <1>1, <1>4, <1>5 DEF Tidy
  <1> QED
    BY <1>1, <1>4, <1>5, <1>6, <1>7 DEF Good, Entries0

LEMMA RmStep ==
    ASSUME IInv, NEW f \in AllNames, fsutil_rm(f)
    PROVE  IInv'
  <1> DEFINE s == remove_from_file_table(State, f)
             t == filesys_remove(s, f)
  <1>1. Becomes(t)
    BY DEF fsutil_rm
  <1>2. /\ \/ deleted' = State.content[f] /\ marked' = FALSE /\ map' = Saved
           \/ UNCHANGED <<deleted, marked>> /\ map' \in {map, Saved}
        /\ written' = written \ {f} /\ origin' = [origin EXCEPT ![f] = NoText]
        /\ tooled' = tooled
    BY StateFacts DEF fsutil_rm, Moved, disk
  <1>3. RunInv
    BY <1>1, Running
  <1> USE DEF RunInv
  <1>4. /\ Good(s) /\ (Tidy(State) => Tidy(s)) /\ s.content = State.content /\ s.cwd = State.cwd
        /\ s.list = State.list /\ Entries0(State, s, f) /\ s.table[f].inode = "none"
        /\ s.fault # "none" => State.table[f].inode = "freed"
    BY <1>3, RemoveFacts, StateFacts
  <1> HIDE DEF s
  <1>5. /\ Good(t) /\ (Tidy(s) => Tidy(t)) /\ t.cwd = NoDir /\ t.list = s.list
        /\ t.fault = s.fault /\ Entries0(s, t, f) /\ t.content[f] = Absent
    BY <1>4, FsRemoveFacts
  <1> HIDE DEF t
  <1>6. Entries0(State, t, f)
    BY <1>4, <1>5 DEF Entries0
  <1>7. written' \subseteq AllNames /\ origin' \in [AllNames -> Texts \cup {NoText}]
    BY <1>2, <1>3 DEF IInv, Good, States
  <1>8. origin'[f] = NoText /\ \A g \in AllNames \ {f} : origin'[g] = origin[g]
    BY <1>2 DEF IInv
  <1>9. AtEnds(t, written \ {f}) /\ (Copies(State, origin) => Copies(t, origin'))
    BY <1>3, <1>6, <1>8, TextsOther
  <1>10. t.fault # "none" => tooled
    BY <1>3, <1>4, <1>5 DEF Tidy
  <1>11. t.cwd.open_cnt <= MaxLeaks
    BY <1>5, SizeAssumption DEF NoDir
  <1>12. DiskGood(t)
    <2>1. Nuls(State) => Nuls(t)
      BY <1>5, <1>6, LiteralFacts DEF Nuls, Entries0
    <2>2. CASE UNCHANGED <<deleted, marked>> /\ map' \in {map, Saved}
      BY <1>3, <2>1, <2>2 DEF DiskGood, IInv, Saved, Maps
    <2>3. CASE deleted' = State.content[f] /\ marked' = FALSE /\ map' = Saved
      <3>1. map' \in Maps /\ (map = "unsound" <=> map' = "unsound")
        BY <2>3 DEF Saved, IInv, Maps
      <3>2. deleted' \in Contents /\ (Nuls(State) => deleted' \in Ended)
        BY <1>3, <2>3 DEF Good, States, Nuls
      <3> QED
        BY <1>3, <2>1, <2>3, <3>1, <3>2 DEF DiskGood
    <2> QED
      BY <1>2, <2>2, <2>3
  <1> QED
    BY <1>1, <1>2, <1>3, <1>4, <1>5, <1>7, <1>9, <1>10, <1>11, <1>12, Step

\* The end of a command that has read the directory through a new handle.
LEMMA EndDirFacts ==
    ASSUME NEW s, Good(s), s.cwd # NoDir, NEW t, t = dir_close(AtEnd(s))
    PROVE  /\ Good(t) /\ (Tidy(s) => Tidy(t)) /\ SameFiles(s, t) /\ t.cwd.open_cnt <= MaxLeaks
           /\ s.cwd.open_cnt = 1 => t.cwd = NoDir
           /\ s.cwd.open_cnt # 1 => t.cwd # NoDir /\ t.cwd.pos = "end"
  <1> DEFINE a == AtEnd(s)
  <1>1. /\ Good(a) /\ (Tidy(s) => Tidy(a)) /\ SameFiles(s, a)
        /\ a.cwd.open_cnt = s.cwd.open_cnt /\ a.cwd.pos = "end" /\ a.cwd # NoDir
    BY AtEndFacts
  <1>2. t = dir_close(a)
    OBVIOUS
  <1> HIDE DEF a
  <1>3. /\ Good(t) /\ (Tidy(a) => Tidy(t)) /\ SameFiles(a, t)
        /\ a.cwd.open_cnt = 1 => t.cwd = NoDir
        /\ a.cwd.open_cnt # 1 => t.cwd # NoDir /\ t.cwd.pos = a.cwd.pos
        /\ t.cwd.open_cnt <= MaxLeaks
    BY <1>1, <1>2, DirCloseFacts
  <1> QED
    BY <1>1, <1>3 DEF SameFiles

LEMMA LsStep ==
    ASSUME IInv, fsutil_ls
    PROVE  IInv'
  <1> DEFINE s == dir_open_root(State)
             t == dir_close(AtEnd(s))
  <1>1. Becomes(t) /\ UNCHANGED <<deleted, marked, map, tooled, written, recovered, origin>>
    BY DEF fsutil_ls, history, disk
  <1>2. RunInv
    BY <1>1, Running
  <1> USE DEF RunInv
  <1>3. /\ Good(s) /\ (Tidy(State) => Tidy(s)) /\ SameFiles(State, s)
        /\ s.cwd # NoDir
        /\ State.cwd = NoDir => s.cwd = [open_cnt |-> 1, pos |-> "start"]
    BY <1>2, DirOpenFacts
  <1> HIDE DEF s
  <1>4. /\ Good(t) /\ (Tidy(s) => Tidy(t)) /\ SameFiles(s, t) /\ t.cwd.open_cnt <= MaxLeaks
        /\ s.cwd.open_cnt = 1 => t.cwd = NoDir
    BY <1>3, EndDirFacts
  <1> HIDE DEF t
  <1>5. t.cwd # NoDir => recovered
    BY <1>2, <1>3, <1>4
  <1>6. AtEnds(t, written) /\ (Copies(State, origin) => Copies(t, origin))
    BY <1>2, <1>3, <1>4 DEF AtEnds, Copies, SameFiles
  <1>7. written' \subseteq AllNames /\ origin' \in [AllNames -> Texts \cup {NoText}]
    BY <1>1 DEF IInv
  <1>8. t.fault = "none" /\ t.list = State.list
    BY <1>3, <1>4, StateFacts DEF SameFiles
  <1>9. DiskGood(t)
    BY <1>1, <1>3, <1>4, DiskKept DEF SameFiles
  <1> QED
    BY <1>1, <1>2, <1>3, <1>4, <1>5, <1>6, <1>7, <1>8, <1>9, Step

-----------------------------------------------------------------------------
\* Texts.

\* The text of c are its n bytes before the first NUL.
LEMMA TextLength ==
    ASSUME NEW c \in Seq(Bytes), NEW n \in 0 .. Len(c),
           \A j \in 1 .. n : c[j] # NUL, n = Len(c) \/ c[n + 1] = NUL
    PROVE  /\ Text(c) \in Seq(Bytes) /\ Len(Text(c)) = n
           /\ \A j \in 1 .. n : Text(c)[j] = c[j]
  <1> DEFINE S == {k \in 1 .. Len(c) : \A j \in 1 .. k : c[j] # NUL}
  <1>1. S = 1 .. n
    <2>1. ASSUME NEW k \in S PROVE k \in 1 .. n
      <3>1. CASE n = Len(c)
        BY <2>1, <3>1
      <3>2. CASE c[n + 1] = NUL
        BY <2>1, <3>2
      <3> QED
        BY <3>1, <3>2
    <2>2. ASSUME NEW k \in 1 .. n PROVE k \in S
      BY <2>2
    <2> QED
      BY <2>1, <2>2
  <1>2. Cardinality(1 .. n) = n
    BY FS_Interval
  <1>3. Text(c) = SubSeq(c, 1, n)
    BY <1>1, <1>2 DEF Text
  <1> HIDE DEF S
  <1>4. /\ SubSeq(c, 1, n) \in Seq(Bytes) /\ Len(SubSeq(c, 1, n)) = n
        /\ \A j \in 1 .. n : SubSeq(c, 1, n)[j] = c[j]
    BY SubSeqProperties
  <1> QED
    BY <1>3, <1>4

\* A text has no NUL.
LEMMA TextFacts ==
    ASSUME NEW c \in Seq(Bytes)
    PROVE  Len(Text(c)) \in 0 .. Len(c) /\ \A j \in 1 .. Len(Text(c)) : c[j] # NUL
  <1> DEFINE Z == {k \in 1 .. Len(c) : c[k] = NUL}
  <1>1. CASE Z = {}
    <2>1. \A j \in 1 .. Len(c) : c[j] # NUL
      BY <1>1
    <2>2. Len(Text(c)) = Len(c)
      BY <2>1, TextLength
    <2> QED
      BY <2>1, <2>2
  <1>2. CASE Z # {}
    <2>0. Z \in SUBSET Nat
      OBVIOUS
    <2>1. PICK k \in Z : \A j \in Z : k <= j
      <3> HIDE DEF Z
      <3> QED
        BY <1>2, <2>0, LeastNat
    <2>2. k - 1 \in 0 .. Len(c) /\ (\A j \in 1 .. k - 1 : c[j] # NUL) /\ c[(k - 1) + 1] = NUL
      BY <2>1
    <2>3. Len(Text(c)) = k - 1
      BY <2>2, TextLength
    <2> QED
      BY <2>2, <2>3
  <1> QED
    BY <1>1, <1>2

\* d is the text t and n times NUL.
Padded(d, t, n) == /\ t \in Seq(Bytes) /\ Len(t) \in Nat /\ \A k \in 1 .. Len(t) : t[k] # NUL
                   /\ d \in Seq(Bytes) /\ Len(d) = Len(t) + n
                   /\ \A k \in 1 .. Len(d) : d[k] = IF k <= Len(t) THEN t[k] ELSE NUL

LEMMA BufferFacts ==
    ASSUME NEW t \in Texts, NEW n \in Nat, NEW d, d = t \o Zeros(n)
    PROVE  Padded(d, t, n)
  <1>1. t \in Seq(Bytes) /\ Len(t) \in Nat
    BY BytesFacts
  <1>2. \A k \in 1 .. Len(t) : t[k] # NUL
    BY TextAssumption
  <1>3. Zeros(n) \in Seq(Bytes) /\ Len(Zeros(n)) = n /\ \A k \in 1 .. n : Zeros(n)[k] = NUL
    BY ZerosFacts
  <1> DEFINE z == Zeros(n)
  <1> HIDE DEF z
  <1>4. d = t \o z /\ z \in Seq(Bytes) /\ Len(z) = n
    BY <1>3 DEF z
  <1>5. d \in Seq(Bytes) /\ Len(d) = Len(t) + n
    <2>1. t \o z \in Seq(Bytes) /\ Len(t \o z) = Len(t) + Len(z)
      BY <1>1, <1>4, ConcatProperties
    <2> QED
      BY <1>4, <2>1
  <1>6. \A k \in 1 .. Len(d) : d[k] = IF k <= Len(t) THEN t[k] ELSE NUL
    <2> TAKE k \in 1 .. Len(d)
    <2>1. d[k] = IF k <= Len(t) THEN t[k] ELSE z[k - Len(t)]
      BY <1>1, <1>4, <1>5
    <2>2. ~(k <= Len(t)) => k - Len(t) \in 1 .. n
      BY <1>1, <1>5
    <2> QED
      BY <1>3, <2>1, <2>2 DEF z
  <1> QED
    BY <1>1, <1>2, <1>5, <1>6 DEF Padded

\* A text written at the end of a text, or before it, ends the text.
LEMMA WrittenText ==
    ASSUME NEW c \in Seq(Bytes), NEW p \in 0 .. Len(Text(c)), NEW t \in Texts,
           NEW w, w = inode_write_at(c, p, Terminated(WriteBuffer(t)))
    PROVE  Len(Text(w)) = p + Len(t)
  <1> DEFINE d == WriteBuffer(t)
             e == Terminated(d)
  <1>1. /\ t \in Seq(Bytes) /\ Len(t) \in Nat /\ (\A k \in 1 .. Len(t) : t[k] # NUL)
        /\ d \in Seq(Bytes) /\ Len(d) = Len(t) + 2
        /\ \A k \in 1 .. Len(d) : d[k] = IF k <= Len(t) THEN t[k] ELSE NUL
    <2>1. d = t \o Zeros(2) /\ 2 \in Nat
      BY DEF WriteBuffer
    <2> HIDE DEF d
    <2>2. Padded(d, t, 2)
      BY <2>1, BufferFacts
    <2> QED
      BY <2>2 DEF Padded
  <1> HIDE DEF d
  <1>2. /\ e \in Seq(Bytes) /\ Len(e) = Len(d)
        /\ \A k \in 1 .. Len(d) : e[k] = IF k = Len(d) THEN NUL ELSE d[k]
    BY <1>1, TerminatedFacts
  <1> HIDE DEF e
  <1>3. \A k \in 1 .. Len(e) : e[k] = IF k <= Len(t) THEN t[k] ELSE NUL
    BY <1>1, <1>2
  <1>4. Len(Text(c)) \in 0 .. Len(c) /\ \A j \in 1 .. Len(Text(c)) : c[j] # NUL
    BY TextFacts
  <1>5. p \in Nat /\ p <= Len(c) /\ \A j \in 1 .. p : c[j] # NUL
    BY <1>4
  <1>6. w \in Seq(Bytes) /\ WrittenAt(w, c, p, e)
    BY <1>2, <1>5, WriteFacts DEF e, d
  <1>7. /\ Len(w) = (IF Len(c) >= p + Len(e) THEN Len(c) ELSE p + Len(e))
        /\ \A k \in 1 .. Len(w) : w[k] = IF k \in p + 1 .. p + Len(e) THEN e[k - p]
                                         ELSE IF k > Len(c) THEN NUL ELSE c[k]
    BY <1>6 DEF WrittenAt
  <1>8. p + Len(t) \in 0 .. Len(w) /\ p + Len(t) + 1 \in 1 .. Len(w)
    BY <1>1, <1>2, <1>5, <1>7
  <1>9. w[(p + Len(t)) + 1] = NUL
    <2>1. Len(t) + 1 \in 1 .. Len(e)
      BY <1>1, <1>2
    <2>2. e[Len(t) + 1] = NUL
      BY <1>1, <1>3, <2>1
    <2>3. w[(p + Len(t)) + 1] = e[((p + Len(t)) + 1) - p]
      BY <1>1, <1>2, <1>5, <1>7, <1>8
    <2>4. ((p + Len(t)) + 1) - p = Len(t) + 1
      BY <1>1, <1>5
    <2> QED
      BY <2>2, <2>3, <2>4
  <1>10. ASSUME NEW j \in 1 .. p + Len(t) PROVE w[j] # NUL
    <2>1. j \in 1 .. Len(w)
      BY <1>1, <1>5, <1>8
    <2>2. CASE j <= p
      BY <1>5, <1>7, <2>1, <2>2
    <2>3. CASE ~(j <= p)
      <3>1. j \in p + 1 .. p + Len(e) /\ j - p \in 1 .. Len(t) /\ j - p \in 1 .. Len(e)
        BY <1>1, <1>2, <1>5, <2>3
      <3>2. w[j] = e[j - p]
        BY <1>7, <2>1, <3>1
      <3>3. e[j - p] = t[j - p]
        BY <1>1, <1>3, <3>1
      <3> QED
        BY <1>1, <3>1, <3>2, <3>3
    <2> QED
      BY <2>2, <2>3
  <1> QED
    BY <1>6, <1>8, <1>9, <1>10, TextLength

LEMMA WriteStep ==
    ASSUME IInv, NEW f \in AllNames, NEW x \in Texts, fsutil_write(f, x)
    PROVE  IInv'
  <1> DEFINE s == get_file_by_fname(State, f)
             d == WriteBuffer(x)
             p == s.table[f].pos
  <1>1. PICK ok \in BOOLEAN :
           /\ Becomes(Writes(file_write(s, f, d, ok)))
           /\ written' = IF ok /\ p \in 0 .. Len(Text(content[f]))
                         THEN written \cup {f} ELSE written \ {f}
    BY DEF fsutil_write
  <1>2. /\ State.content[f] # Absent /\ p + Len(d) <= MaxLength
        /\ origin' = [origin EXCEPT ![f] = NoText] /\ UNCHANGED <<tooled, recovered>>
        /\ (Reuse /\ map' \in {map, Saved}) \/ UNCHANGED <<deleted, marked, map>>
    BY FilesFacts DEF fsutil_write, disk
  <1> DEFINE t == file_write(s, f, d, ok)
  <1>3. RunInv
    BY <1>1, Running
  <1> USE DEF RunInv
  <1>4. /\ Good(s) /\ (Tidy(State) => Tidy(s)) /\ s.content = State.content /\ s.cwd = State.cwd
        /\ s.list = State.list /\ s.fault = "none" /\ Entries0(State, s, f)
        /\ s.table[f].inode # "none"
    BY <1>2, <1>3, GetFacts, StateFacts
  <1>5. d \in Seq(Bytes) /\ Len(d) = Len(x) + 2 /\ Len(x) \in Nat
    <2>1. d = x \o Zeros(2) /\ 2 \in Nat
      BY DEF WriteBuffer
    <2> HIDE DEF d
    <2>2. Padded(d, x, 2)
      BY <2>1, BufferFacts
    <2> QED
      BY <2>2 DEF Padded
  <1>6. d # << >>
    BY <1>5
  <1>7. content = State.content
    BY StateFacts
  <1> HIDE DEF s, d
  <1>8. /\ Good(t) /\ (Tidy(s) => Tidy(t)) /\ t.cwd = s.cwd
        /\ t.list = s.list /\ Entries0(s, t, f) /\ t.table[f].inode = s.table[f].inode
        /\ Nuls(s) => Nuls(t)
        /\ \/ /\ t.fault = "wild" /\ t.table = s.table
              /\ s.table[f].inode = "freed" \/ s.table[f].pos < 0
           \/ /\ ok /\ s.table[f].pos >= 0
              /\ t.fault = IF d = << >> /\ s.fault = "none" THEN "lucky" ELSE s.fault
              /\ t.content[f] = inode_write_at(s.content[f], s.table[f].pos, Terminated(d))
              /\ t.table[f].pos = s.table[f].pos + Advance(Len(d))
           \/ ~ok /\ t.fault = s.fault
    BY <1>2, <1>4, <1>5, FileWriteFacts
  <1>9. Becomes(Writes(t))
    BY <1>1
  <1> HIDE DEF t
  <1>10. Entries0(State, t, f)
    BY <1>4, <1>8 DEF Entries0
  <1>11. written' \subseteq AllNames /\ origin' \in [AllNames -> Texts \cup {NoText}]
    BY <1>1, <1>2 DEF IInv
  <1>12. origin'[f] = NoText /\ \A g \in AllNames \ {f} : origin'[g] = origin[g]
    BY <1>2 DEF IInv
  <1>13. AtEnds(t, written \ {f}) /\ (Copies(State, origin) => Copies(t, origin'))
    BY <1>3, <1>10, <1>12, TextsOther
  <1>14. t.fault # "none" => tooled \/ Cause(t)
    <2>1. s.table[f].inode = "freed" => ~Tidy(s)
      BY DEF Tidy
    <2>2. t.table[f].pos < 0 => Cause(t)
      BY DEF Cause
    <2> QED
      BY <1>3, <1>4, <1>6, <1>8, <2>1, <2>2
  <1>15. t.fault # "wild" => AtEnds(t, written')
    <2>1. CASE ~(ok /\ p \in 0 .. Len(Text(content[f])))
      BY <1>1, <1>13, <2>1
    <2>2. CASE ok /\ p \in 0 .. Len(Text(content[f])) /\ t.fault # "wild"
      <3> DEFINE w == t.content[f]
      <3>1. w = inode_write_at(s.content[f], p, Terminated(d)) /\ t.table[f].pos = p + Advance(Len(d))
        BY <1>8, <2>2
      <3>2. s.content[f] \in Seq(Bytes)
        BY <1>2, <1>4, ContentsFacts DEF Good, States, Ended, Strings
      <3>3. p \in 0 .. Len(Text(s.content[f]))
        BY <1>4, <1>7, <2>2
      <3> HIDE DEF w, p
      <3>4. Len(Text(w)) = p + Len(x)
        BY <3>1, <3>2, <3>3, WrittenText DEF d
      <3>5. p \in Int
        BY <2>2
      <3>6. p + Advance(Len(d)) = p + Len(x)
        BY <1>5, <3>5 DEF Advance
      <3>7. t.table[f].pos = Len(Text(t.content[f])) /\ t.table[f].inode # "none"
        BY <1>4, <1>8, <3>1, <3>4, <3>6 DEF w
      <3>8. written' = (written \ {f}) \cup {f}
        BY <1>1, <2>2 DEF p
      <3> QED
        BY <1>13, <3>7, <3>8 DEF AtEnds
    <2> QED
      BY <2>1, <2>2
  <1>16. DiskGood(t)
    <2>1. Nuls(State) => Nuls(t)
      BY <1>4, <1>8 DEF Nuls
    <2>2. CASE Reuse /\ map' \in {map, Saved}
      BY <1>3, <2>1, <2>2, ReuseFacts
    <2>3. CASE UNCHANGED <<deleted, marked, map>>
      BY <2>1, <2>3 DEF DiskGood, IInv
    <2> QED
      BY <1>2, <2>2, <2>3
  <1> QED
    BY <1>2, <1>3, <1>4, <1>8, <1>9, <1>11, <1>13, <1>14, <1>15, <1>16, WritesStep

\* A text copied in completely is the text of the file.
LEMMA CopiedText ==
    ASSUME NEW x \in Texts, NEW n \in Nat, n = Len(x) + 1, NEW d, Padded(d, x, 1),
           NEW w, w = inode_write_at(Zeros(n), 0, Terminated(d))
    PROVE  Text(w) = x
  <1> DEFINE e == Terminated(d)
             z == Zeros(n)
  <1>1. /\ x \in Seq(Bytes) /\ Len(x) \in Nat /\ (\A k \in 1 .. Len(x) : x[k] # NUL)
        /\ d \in Seq(Bytes) /\ Len(d) = n
        /\ \A k \in 1 .. n : d[k] = IF k <= Len(x) THEN x[k] ELSE NUL
    BY DEF Padded
  <1>2. /\ e \in Seq(Bytes) /\ Len(e) = Len(d)
        /\ \A k \in 1 .. Len(d) : e[k] = IF k = Len(d) THEN NUL ELSE d[k]
    BY <1>1, TerminatedFacts
  <1>3. z \in Seq(Bytes) /\ Len(z) = n
    BY ZerosFacts
  <1>4. w = inode_write_at(z, 0, e)
    OBVIOUS
  <1> HIDE DEF e, z
  <1>5. w \in Seq(Bytes) /\ WrittenAt(w, z, 0, e)
    BY <1>2, <1>3, <1>4, WriteFacts
  <1>6. Len(w) = n /\ \A k \in 1 .. n : w[k] = e[k]
    BY <1>1, <1>2, <1>3, <1>5 DEF WrittenAt
  <1>7. \A k \in 1 .. Len(x) : w[k] = x[k]
    BY <1>1, <1>2, <1>6
  <1>8. w[Len(x) + 1] = NUL
    BY <1>1, <1>2, <1>6
  <1>9. /\ Text(w) \in Seq(Bytes) /\ Len(Text(w)) = Len(x)
        /\ \A j \in 1 .. Len(x) : Text(w)[j] = w[j]
    <2>1. Len(x) \in 0 .. Len(w) /\ \A j \in 1 .. Len(x) : w[j] # NUL
      BY <1>1, <1>6, <1>7
    <2> QED
      BY <1>5, <1>8, <2>1, TextLength
  <1> QED
    BY <1>1, <1>7, <1>9

LEMMA CopyInStep ==
    ASSUME IInv, NEW f \in AllNames, NEW x \in Texts, copy_in(f, x)
    PROVE  IInv'
  <1>1. PICK n \in 0 .. Len(x) + 1 :
           /\ Becomes(Writes(file_write(add_to_file_table([State EXCEPT !.content[f] = Zeros(n)], f),
                                        f, SubSeq(x \o Zeros(1), 1, n), TRUE)))
           /\ origin' = [origin EXCEPT ![f] = IF n = Len(x) + 1 THEN x ELSE NoText]
    BY DEF copy_in
  <1> DEFINE z == Zeros(n)
             u == SetContent(State, f, z)
             s == add_to_file_table(u, f)
             d == SubSeq(x \o Zeros(1), 1, n)
             ok == TRUE
             t == file_write(s, f, d, ok)
  <1>2. Becomes(Writes(t))
    BY <1>1 DEF SetContent
  <1>3. /\ State.content[f] = Absent /\ Len(x) + 1 <= MaxLength
        /\ written' = written \ {f} /\ Reuse /\ map' \in {map, Saved}
        /\ UNCHANGED <<tooled, recovered>>
    BY FilesFacts DEF copy_in, Moved
  <1>4. RunInv
    BY <1>2, Running
  <1> USE DEF RunInv
  <1>5. State.table[f].inode = "none" /\ f \notin written
    BY <1>3, <1>4, AbsentFacts
  <1>6. Padded(x \o Zeros(1), x, 1)
    <2> DEFINE b == x \o Zeros(1)
    <2>1. b = x \o Zeros(1) /\ 1 \in Nat
      OBVIOUS
    <2> HIDE DEF b
    <2>2. Padded(b, x, 1)
      BY <2>1, BufferFacts
    <2> QED
      BY <2>2 DEF b
  <1>7. n \in Nat /\ n <= MaxLength /\ Len(x) \in Nat
    BY <1>3, <1>6, SizeAssumption DEF Padded
  <1>8. d \in Seq(Bytes) /\ Len(d) = n /\ (n = Len(x) + 1 => Padded(d, x, 1))
    <2> DEFINE b == x \o Zeros(1)
    <2>1. b \in Seq(Bytes) /\ Len(b) = Len(x) + 1 /\ Padded(b, x, 1)
      BY <1>6 DEF Padded
    <2>2. d = SubSeq(b, 1, n)
      OBVIOUS
    <2> HIDE DEF b, d
    <2>3. /\ SubSeq(b, 1, n) \in Seq(Bytes) /\ Len(SubSeq(b, 1, n)) = n
          /\ \A k \in 1 .. n : SubSeq(b, 1, n)[k] = b[k]
      BY <1>7, <2>1, SubSeqProperties
    <2>4. d \in Seq(Bytes) /\ Len(d) = n /\ \A k \in 1 .. n : d[k] = b[k]
      BY <2>2, <2>3
    <2>5. n = Len(x) + 1 => d = b
      BY <2>1, <2>4
    <2> QED
      BY <2>1, <2>4, <2>5
  <1>9. z \in Ended /\ z # Absent /\ z \in Seq(Bytes) /\ Len(z) = n
    <2>1. z \in Seq(Bytes) /\ Len(z) = n
      BY <1>7, ZerosFacts
    <2>2. z \in Ended /\ z # Absent
      BY <1>7, ZerosEnd, SizeAssumption
    <2> QED
      BY <2>1, <2>2
  <1> HIDE DEF z, d
  <1>10. /\ Good(u) /\ (Tidy(State) => Tidy(u)) /\ u.table = State.table
         /\ u.cwd = State.cwd /\ u.list = State.list /\ u.fault = State.fault
         /\ u.content[f] = z /\ Entries0(State, u, f)
    BY <1>4, <1>9, ContentFacts DEF Ended
  <1> HIDE DEF u
  <1>11. s = get_file_by_fname(u, f)
    BY <1>5, <1>10 DEF get_file_by_fname
  <1> HIDE DEF s
  <1>12. /\ Good(s) /\ (Tidy(u) => Tidy(s)) /\ s.content = u.content /\ s.cwd = u.cwd
         /\ s.list = u.list /\ s.fault = u.fault /\ Entries0(u, s, f)
         /\ s.table[f].pos = 0 /\ s.table[f].inode = "live"
    BY <1>5, <1>9, <1>10, <1>11, GetFacts
  <1>13. s.table[f].pos + Len(d) <= MaxLength /\ s.content[f] = z
    BY <1>7, <1>8, <1>10, <1>12
  <1>14. ok \in BOOLEAN /\ ok
    OBVIOUS
  <1> HIDE DEF ok
  <1>15. /\ Good(t) /\ (Tidy(s) => Tidy(t)) /\ t.cwd = s.cwd
         /\ t.list = s.list /\ Entries0(s, t, f) /\ t.content[f] # Absent
         /\ Nuls(s) => Nuls(t)
         /\ \/ /\ t.fault = "wild" /\ t.table = s.table /\ t.content = s.content
               /\ s.table[f].inode = "freed" \/ s.table[f].pos < 0
            \/ /\ ok /\ s.table[f].pos >= 0
               /\ t.fault = IF d = << >> /\ s.fault = "none" THEN "lucky" ELSE s.fault
               /\ t.content[f] = inode_write_at(s.content[f], s.table[f].pos, Terminated(d))
               /\ t.table[f].pos = s.table[f].pos + Advance(Len(d))
            \/ ~ok
    <2>1. s.content[f] # Absent
      BY <1>9, <1>13
    <2>2. Good(s) /\ d \in Seq(Bytes) /\ ok \in BOOLEAN /\ s.table[f].pos + Len(d) <= MaxLength
      BY <1>8, <1>12, <1>13, <1>14
    <2>3. t = file_write(s, f, d, ok)
      OBVIOUS
    <2> HIDE DEF t
    <2> QED
      BY <2>1, <2>2, <2>3, FileWriteFacts
  <1> HIDE DEF t
  <1>16. /\ t.fault = IF d = << >> THEN "lucky" ELSE "none"
         /\ t.content[f] = inode_write_at(z, 0, Terminated(d))
         /\ t.table[f].pos = 0 + Advance(Len(d))
    BY <1>10, <1>12, <1>13, <1>15, <1>14, StateFacts
  <1>17. t.fault # "none" => Cause(t)
    <2> SUFFICES ASSUME t.fault # "none" PROVE Cause(t)
      OBVIOUS
    <2>1. Len(d) = 0
      BY <1>8, <1>16
    <2>2. t.table[f].pos < 0
      BY <1>16, <2>1 DEF Advance
    <2> QED
      BY <2>2 DEF Cause
  <1>18. Entries0(State, t, f)
    BY <1>10, <1>12, <1>15 DEF Entries0
  <1>19. written' \subseteq AllNames /\ origin' \in [AllNames -> Texts \cup {NoText}]
    BY <1>1, <1>3 DEF IInv
  <1>20. /\ origin'[f] = IF n = Len(x) + 1 THEN x ELSE NoText
         /\ \A g \in AllNames \ {f} : origin'[g] = origin[g]
    BY <1>1 DEF IInv
  <1>21. AtEnds(t, written \ {f})
    BY <1>4, <1>18 DEF AtEnds, Entries0
  <1>22. ASSUME Copies(State, origin) PROVE Copies(t, origin')
    <2> SUFFICES ASSUME NEW g \in AllNames, origin'[g] # NoText
                 PROVE  t.content[g] # Absent /\ Text(t.content[g]) = origin'[g]
      BY DEF Copies
    <2>1. CASE g # f
      BY <1>18, <1>20, <1>22, <2>1 DEF Entries0, Copies
    <2>2. CASE g = f
      <3>1. n = Len(x) + 1 /\ origin'[f] = x
        BY <1>20, <2>2
      <3>2. Text(t.content[f]) = x
        BY <1>7, <1>8, <1>16, <3>1, CopiedText DEF z
      <3> QED
        BY <1>15, <2>2, <3>1, <3>2
    <2> QED
      BY <2>1, <2>2
  <1>23. DiskGood(t)
    <2>1. Nuls(State) => Nuls(u)
      BY <1>9, <1>10 DEF Nuls, Entries0
    <2>2. Nuls(u) => Nuls(t)
      BY <1>12, <1>15 DEF Nuls
    <2> QED
      BY <1>3, <1>4, <2>1, <2>2, ReuseFacts
  <1> QED
    BY <1>2, <1>3, <1>4, <1>10, <1>12, <1>15, <1>17, <1>19, <1>21, <1>22, <1>23, WritesStep

LEMMA CopyOutStep ==
    ASSUME IInv, NEW f \in AllNames, copy_out(f)
    PROVE  IInv'
  <1> DEFINE O == State.open \cup {f}
             u == [State EXCEPT !.open = O]
             s == get_file_by_fname(u, f)
             v == SetPos(s, f, 0)
             t == remove_from_file_table(v, f)
  <1>1. Becomes(t)
    BY StateFacts DEF copy_out, SetPos
  <1>2. /\ State.content[f] # Absent
        /\ written' = written \ {f} /\ UNCHANGED <<deleted, marked, map, tooled, recovered, origin>>
    BY FilesFacts DEF copy_out, Moved, disk
  <1>3. RunInv
    BY <1>1, Running
  <1> USE DEF RunInv
  <1>4. O \in SUBSET (AllNames \cup {Root}) /\ O = State.open \cup {f}
    BY <1>3 DEF Good, States
  <1> HIDE DEF O
  <1>5. /\ u \in States /\ u.content = State.content /\ u.table = State.table /\ u.open = O
        /\ u.cwd = State.cwd /\ u.list = State.list /\ u.fault = State.fault
    BY <1>3, <1>4 DEF Good, States
  <1> HIDE DEF u
  <1>6. Good(u)
    BY <1>3, <1>4, <1>5, NameAssumption DEF Good, Agree
  <1>7. /\ Good(s) /\ s.content = u.content /\ s.cwd = u.cwd /\ s.list = u.list
        /\ s.fault = u.fault /\ Entries0(u, s, f) /\ s.table[f].inode # "none"
        /\ u.table[f].inode = "none" => s.table[f].inode = "live"
        /\ u.table[f].inode # "none" => s = u
    BY <1>2, <1>5, <1>6, GetFacts
  <1>8. s.open = O
    <2>1. CASE u.table[f].inode = "none"
      <3>1. s = add_to_file_table(u, f)
        BY <2>1 DEF get_file_by_fname
      <3>2. s.open = u.open \cup {f}
        BY <1>5, <3>1, AddFacts
      <3> QED
        BY <1>4, <1>5, <3>2
    <2> QED
      BY <1>5, <1>7, <2>1
  <1> HIDE DEF s
  <1>9. Tidy(State) => Tidy(s)
    <2> SUFFICES ASSUME Tidy(State), NEW g \in AllNames
                 PROVE  s.table[g].inode # "freed" /\ (g \in s.open => s.table[g].inode = "live")
      BY DEF Tidy
    <2>1. State.table[g].inode # "freed" /\ (g \in State.open => State.table[g].inode = "live")
      BY DEF Tidy
    <2>2. CASE g = f
      <3>1. State.table[f].inode \in {"none", "live", "freed"}
        BY <1>3 DEF Good, States, Entries
      <3> QED
        BY <1>5, <1>7, <2>1, <2>2, <3>1
    <2>3. CASE g # f
      BY <1>4, <1>5, <1>7, <1>8, <2>1, <2>3 DEF Entries0
    <2> QED
      BY <2>2, <2>3
  <1>10. 0 \in Positions
    BY SizeAssumption DEF Positions
  <1>11. /\ Good(v) /\ (Tidy(s) => Tidy(v)) /\ v.content = s.content /\ v.cwd = s.cwd
         /\ v.list = s.list /\ v.fault = s.fault /\ Entries0(s, v, f)
         /\ v.table[f].inode = s.table[f].inode
    BY <1>7, <1>10, PosFacts
  <1> HIDE DEF v
  <1>12. /\ Good(t) /\ (Tidy(v) => Tidy(t)) /\ t.content = v.content /\ t.cwd = v.cwd
         /\ t.list = v.list /\ Entries0(v, t, f)
         /\ t.fault = IF v.table[f].inode = "freed" /\ v.fault = "none" THEN "lucky" ELSE v.fault
    BY <1>11, RemoveFacts
  <1> HIDE DEF t
  <1>13. Entries0(State, t, f)
    BY <1>5, <1>7, <1>11, <1>12 DEF Entries0
  <1>14. t.fault # "none" => tooled
    BY <1>3, <1>5, <1>7, <1>9, <1>11, <1>12, StateFacts DEF Tidy
  <1>15. t.content = State.content
    BY <1>5, <1>7, <1>11, <1>12
  <1>16. AtEnds(t, written \ {f}) /\ (Copies(State, origin) => Copies(t, origin))
    BY <1>3, <1>13, <1>15, TextsOther
  <1>17. written' \subseteq AllNames /\ origin' \in [AllNames -> Texts \cup {NoText}]
    BY <1>2 DEF IInv
  <1>18. DiskGood(t)
    BY <1>2, <1>15, DiskKept
  <1> QED
    BY <1>1, <1>2, <1>3, <1>5, <1>7, <1>9, <1>11, <1>12, <1>14, <1>16, <1>17, <1>18, Step

-----------------------------------------------------------------------------
\* The tools that go through the directory.

LEMMA FindStep ==
    ASSUME IInv, find_file
    PROVE  IInv'
  <1> DEFINE s0 == dir_open_root(State)
             L == dir_readdir(s0)
             Opened(f) == get_file_by_fname(s0, f)
             Read(f) == file_read(Opened(f), f, Len(content[f]))
             faults == {Read(f).fault : f \in L}
             T == [f \in AllNames |-> IF f \in L THEN Read(f).table[f] ELSE s0.table[f]]
             O == s0.open \cup {f \in L : file_table[f].inode = "none"}
             F == CASE "wild" \in faults -> "wild"
                    [] \E f \in L : content[f] = << >> -> "lucky"
                    [] OTHER -> "none"
             s1 == [s0 EXCEPT !.table = T, !.open = O, !.fault = F]
             t == dir_close(AtEnd(s1))
  <1>1. /\ Becomes(t) /\ written' = written \ L
        /\ UNCHANGED <<deleted, marked, map, tooled, recovered, origin>>
    BY DEF find_file, disk
  <1>2. RunInv
    BY <1>1, Running
  <1> USE DEF RunInv
  <1>3. /\ Good(s0) /\ (Tidy(State) => Tidy(s0)) /\ SameFiles(State, s0)
        /\ s0.cwd # NoDir
        /\ State.cwd = NoDir => s0.cwd = [open_cnt |-> 1, pos |-> "start"]
    BY <1>2, DirOpenFacts
  <1>4. /\ s0.content = content /\ s0.table = file_table /\ s0.list = file_list /\ s0.fault = "none"
    BY <1>3, StateFacts DEF SameFiles
  <1>5. L \subseteq {f \in AllNames : s0.content[f] # Absent}
    BY DEF dir_readdir, Files
  <1> HIDE DEF s0, L
  <1>6. ASSUME NEW f \in L
        PROVE  /\ Read(f).table[f] \in Entries
               /\ Read(f).table[f].inode = IF s0.table[f].inode = "none" THEN "live"
                                           ELSE s0.table[f].inode
               /\ Read(f).fault # "none" => /\ Read(f).fault = "wild"
                                            /\ \/ s0.table[f].inode = "freed"
                                               \/ Read(f).table[f].pos < 0
    <2> DEFINE s == Opened(f)
               r == Read(f)
               n == Len(content[f])
    <2>1. f \in AllNames /\ s0.content[f] # Absent
      BY <1>5, <1>6
    <2>2. /\ Good(s) /\ s.content = s0.content /\ s.fault = s0.fault
          /\ s0.table[f].inode = "none" => s.table[f].inode = "live"
          /\ s0.table[f].inode # "none" => s = s0
      BY <1>3, <2>1, GetFacts
    <2>3. n \in Int
      <3>1. content[f] \in Seq(Bytes)
        BY <1>3, <1>4, <2>1, ContentsFacts DEF Good, States, Ended, Strings
      <3> QED
        BY <3>1
    <2>4. r = file_read(s, f, n)
      OBVIOUS
    <2> HIDE DEF s, r, n
    <2>5. /\ Good(r) /\ r.table[f].inode = s.table[f].inode
          /\ \/ r.fault = s.fault
             \/ /\ r.fault = "wild" /\ r.table = s.table
                /\ s.table[f].inode = "freed" \/ s.table[f].pos < 0
      BY <2>1, <2>2, <2>3, <2>4, ReadFacts
    <2>6. r.table[f] \in Entries
      BY <2>1, <2>5 DEF Good, States
    <2>7. s.table[f].inode = IF s0.table[f].inode = "none" THEN "live" ELSE s0.table[f].inode
      BY <2>2
    <2>8. r.fault # "none" => /\ r.fault = "wild"
                              /\ s0.table[f].inode = "freed" \/ r.table[f].pos < 0
      BY <1>4, <2>2, <2>5, <2>7
    <2> QED
      BY <2>5, <2>6, <2>7, <2>8 DEF r
  <1> HIDE DEF Read
  <1>7. T \in [AllNames -> Entries]
    BY <1>3, <1>6 DEF Good, States
  <1>8. O \in SUBSET (AllNames \cup {Root})
    BY <1>3, <1>5 DEF Good, States
  <1>9. F \in {"none", "lucky", "wild"}
    OBVIOUS
  <1>10. \A f \in AllNames :
            /\ f \in L => T[f] = Read(f).table[f]
            /\ f \notin L => T[f] = s0.table[f]
    OBVIOUS
  <1>11. F # "none" => \E f \in L : content[f] = << >> \/ Read(f).fault = "wild"
    OBVIOUS
  <1>12. O \cap AllNames = (s0.open \cap AllNames) \cup {f \in L : s0.table[f].inode = "none"}
    BY <1>4, <1>5
  <1>13. Root \in O <=> Root \in s0.open
    BY <1>5, NameAssumption
  <1> HIDE DEF T, O, F
  <1>14. /\ s1 \in States /\ s1.content = s0.content /\ s1.table = T /\ s1.open = O
         /\ s1.cwd = s0.cwd /\ s1.list = s0.list /\ s1.fault = F
    BY <1>3, <1>7, <1>8, <1>9 DEF Good, States
  <1> HIDE DEF s1
  <1>15. Agree(s1)
    <2>1. Agree(s0)
      BY <1>3 DEF Good
    <2>2. ASSUME NEW f \in AllNames
          PROVE  /\ s1.table[f].inode # "none" => s1.content[f] # Absent
                 /\ s1.table[f].inode = "live" => f \in s1.open
      <3>1. CASE f \in L
        BY <1>5, <1>6, <1>10, <1>12, <1>14, <2>1, <3>1 DEF Agree
      <3>2. CASE f \notin L
        BY <1>10, <1>12, <1>14, <2>1, <3>2 DEF Agree
      <3> QED
        BY <3>1, <3>2
    <2> QED
      BY <1>13, <1>14, <2>1, <2>2 DEF Agree
  <1>16. Tidy(s0) => Tidy(s1)
    <2> SUFFICES ASSUME Tidy(s0), NEW f \in AllNames
                 PROVE  s1.table[f].inode # "freed" /\ (f \in s1.open => s1.table[f].inode = "live")
      BY DEF Tidy
    <2>1. /\ s0.table[f].inode # "freed" /\ (f \in s0.open => s0.table[f].inode = "live")
          /\ s0.table[f].inode \in {"none", "live", "freed"}
      BY <1>3 DEF Tidy, Good, States, Entries
    <2>2. CASE f \in L
      BY <1>6, <1>10, <1>14, <2>1, <2>2
    <2>3. CASE f \notin L
      BY <1>10, <1>12, <1>14, <2>1, <2>3
    <2> QED
      BY <2>2, <2>3
  <1>17. /\ Good(t) /\ (Tidy(s1) => Tidy(t)) /\ SameFiles(s1, t) /\ t.cwd.open_cnt <= MaxLeaks
         /\ s1.cwd.open_cnt = 1 => t.cwd = NoDir
    BY <1>3, <1>14, <1>15, EndDirFacts DEF Good
  <1> HIDE DEF t
  <1>18. /\ t.content = content /\ t.table = T /\ t.list = State.list /\ t.fault = F
    BY <1>4, <1>14, <1>17, StateFacts DEF SameFiles
  <1>19. t.fault # "none" => tooled \/ Cause(t)
    <2> SUFFICES ASSUME F # "none", ~tooled PROVE Cause(t)
      BY <1>18
    <2>1. Tidy(s0)
      BY <1>2, <1>3
    <2>2. PICK f \in L : content[f] = << >> \/ Read(f).fault = "wild"
      BY <1>11
    <2>3. f \in AllNames /\ s0.table[f].inode # "freed"
      BY <1>5, <2>1 DEF Tidy
    <2>4. content[f] = << >> \/ Read(f).table[f].pos < 0
      BY <1>6, <2>2, <2>3
    <2> QED
      BY <1>10, <1>18, <2>3, <2>4 DEF Cause
  <1>20. AtEnds(t, written \ L) /\ (Copies(State, origin) => Copies(t, origin))
    <2>1. \A f \in written \ L : t.table[f] = State.table[f]
      BY <1>2, <1>4, <1>10, <1>18, StateFacts
    <2> QED
      BY <1>2, <1>18, <2>1, StateFacts DEF AtEnds, Copies
  <1>21. t.cwd # NoDir => recovered
    BY <1>2, <1>3, <1>14, <1>17
  <1>22. written' \subseteq AllNames /\ origin' \in [AllNames -> Texts \cup {NoText}]
    BY <1>1 DEF IInv
  <1>23. DiskGood(t)
    BY <1>1, <1>18, DiskKept, StateFacts
  <1> QED
    BY <1>1, <1>2, <1>3, <1>16, <1>17, <1>18, <1>19, <1>20, <1>21, <1>22, <1>23, Step

\* Opening and closing all files frees inodes and does no more.
LEMMA OpenAndCloseFacts ==
    ASSUME NEW s, Good(s), s.cwd # NoDir, NEW t, t = OpenAndClose(s)
    PROVE  /\ Good(t) /\ t.content = s.content /\ t.list = s.list /\ t.fault = s.fault
           /\ t.cwd.open_cnt = s.cwd.open_cnt /\ t.cwd.pos = "end" /\ t.cwd # NoDir
           /\ \A f \in AllNames : /\ t.table[f].pos = s.table[f].pos
                                  /\ t.table[f].inode = "none" <=> s.table[f].inode = "none"
           /\ dir_readdir(s) = {} /\ Tidy(s) => Tidy(t)
  <1> DEFINE L == dir_readdir(s)
             a == AtEnd(s)
  <1>1. L \subseteq AllNames
    BY DEF dir_readdir, Files
  <1>2. /\ Good(a) /\ (Tidy(s) => Tidy(a)) /\ SameFiles(s, a)
        /\ a.cwd.open_cnt = s.cwd.open_cnt /\ a.cwd.pos = "end" /\ a.cwd # NoDir
    BY AtEndFacts
  <1>3. t = inode_close(a, L)
    BY DEF OpenAndClose
  <1> HIDE DEF L, a
  <1>4. /\ t \in States /\ t.content = a.content /\ t.open = a.open \ L
        /\ t.cwd = a.cwd /\ t.list = a.list /\ t.fault = a.fault
        /\ \A f \in AllNames :
              /\ t.table[f].pos = a.table[f].pos
              /\ t.table[f].inode = IF f \in L /\ a.table[f].inode = "live"
                                    THEN "freed" ELSE a.table[f].inode
    BY <1>2, <1>3, CloseFacts DEF Good
  <1>5. Agree(t)
    BY <1>1, <1>2, <1>4, NameAssumption DEF Good, Agree
  <1>6. L = {} /\ Tidy(a) => Tidy(t)
    BY <1>4 DEF Tidy
  <1>7. \A f \in AllNames : /\ t.table[f].pos = s.table[f].pos
                            /\ t.table[f].inode = "none" <=> s.table[f].inode = "none"
    BY <1>2, <1>4 DEF SameFiles
  <1> QED
    BY <1>2, <1>4, <1>5, <1>6, <1>7 DEF Good, SameFiles, L

LEMMA FragmentationStep ==
    ASSUME IInv, fragmentation_degree
    PROVE  IInv'
  <1> DEFINE s == dir_open_root(State)
             u == OpenAndClose(s)
             t == dir_close(u)
  <1>1. Becomes(t) /\ tooled' = TRUE /\ UNCHANGED <<deleted, marked, map, written, recovered, origin>>
    BY DEF fragmentation_degree, disk
  <1>2. RunInv
    BY <1>1, Running
  <1> USE DEF RunInv
  <1>3. /\ Good(s) /\ SameFiles(State, s) /\ s.cwd # NoDir
        /\ State.cwd = NoDir => s.cwd = [open_cnt |-> 1, pos |-> "start"]
    BY <1>2, DirOpenFacts
  <1> HIDE DEF s
  <1>4. /\ Good(u) /\ u.content = s.content /\ u.list = s.list /\ u.fault = s.fault
        /\ u.cwd.open_cnt = s.cwd.open_cnt /\ u.cwd # NoDir
        /\ \A f \in AllNames : /\ u.table[f].pos = s.table[f].pos
                               /\ u.table[f].inode = "none" <=> s.table[f].inode = "none"
    BY <1>3, OpenAndCloseFacts
  <1> HIDE DEF u
  <1>5. /\ Good(t) /\ SameFiles(u, t) /\ t.cwd.open_cnt <= MaxLeaks
        /\ u.cwd.open_cnt = 1 => t.cwd = NoDir
    BY <1>4, DirCloseFacts
  <1> HIDE DEF t
  <1>6. t.cwd # NoDir => recovered
    BY <1>2, <1>3, <1>4, <1>5
  <1>7. /\ t.fault = "none" /\ t.list = State.list /\ t.content = State.content
        /\ \A f \in AllNames : /\ t.table[f].pos = State.table[f].pos
                               /\ t.table[f].inode = "none" <=> State.table[f].inode = "none"
    BY <1>3, <1>4, <1>5, StateFacts DEF SameFiles
  <1>8. AtEnds(t, written) /\ (Copies(State, origin) => Copies(t, origin))
    BY <1>2, <1>7 DEF AtEnds, Copies
  <1>9. written' \subseteq AllNames /\ origin' \in [AllNames -> Texts \cup {NoText}]
    BY <1>1 DEF IInv
  <1>10. DiskGood(t)
    BY <1>1, <1>7, DiskKept
  <1> QED
    BY <1>1, <1>2, <1>5, <1>6, <1>7, <1>8, <1>9, <1>10, Step

\* The first phase of defragment.  What its second pass through the directory
\* finds is what the first one found, or nothing.
LEMMA PassFacts ==
    ASSUME RunInv, NEW s0, s0 = dir_open_root(State), NEW s1,
           s1 = dir_open_root(dir_close(OpenAndClose(s0)))
    PROVE  /\ Good(s1) /\ s1.content = State.content /\ s1.list = State.list
           /\ s1.fault = "none" /\ s1.cwd # NoDir
           /\ State.cwd = NoDir => s1.cwd.open_cnt = 1
           /\ dir_readdir(s0) \subseteq AllNames
           /\ dir_readdir(s0) \subseteq {f \in AllNames : State.content[f] # Absent}
           /\ dir_readdir(s1) \subseteq dir_readdir(s0)
           /\ dir_readdir(s0) = {} /\ Tidy(State) => Tidy(s1)
  <1> USE DEF RunInv
  <1> DEFINE u == OpenAndClose(s0)
             v == dir_close(u)
  <1>1. /\ Good(s0) /\ (Tidy(State) => Tidy(s0)) /\ SameFiles(State, s0) /\ s0.cwd # NoDir
        /\ State.cwd = NoDir => s0.cwd = [open_cnt |-> 1, pos |-> "start"]
        /\ State.cwd # NoDir => s0.cwd.open_cnt >= 2 /\ s0.cwd.open_cnt = State.cwd.open_cnt + 1
    BY DirOpenFacts
  <1>2. /\ Good(u) /\ u.content = s0.content /\ u.list = s0.list /\ u.fault = s0.fault
        /\ u.cwd.open_cnt = s0.cwd.open_cnt /\ u.cwd.pos = "end" /\ u.cwd # NoDir
        /\ dir_readdir(s0) = {} /\ Tidy(s0) => Tidy(u)
    BY <1>1, OpenAndCloseFacts
  <1> HIDE DEF u
  <1>3. /\ Good(v) /\ (Tidy(u) => Tidy(v)) /\ SameFiles(u, v) /\ v.cwd.open_cnt <= MaxLeaks
        /\ u.cwd.open_cnt = 1 => v.cwd = NoDir
        /\ u.cwd.open_cnt # 1 => v.cwd # NoDir /\ v.cwd.pos = u.cwd.pos
    BY <1>2, DirCloseFacts
  <1>4. s1 = dir_open_root(v)
    BY DEF u
  <1> HIDE DEF v
  <1>5. /\ Good(s1) /\ (Tidy(v) => Tidy(s1)) /\ SameFiles(v, s1) /\ s1.cwd # NoDir
        /\ v.cwd = NoDir => s1.cwd = [open_cnt |-> 1, pos |-> "start"]
        /\ v.cwd # NoDir => s1.cwd.pos = v.cwd.pos
    BY <1>3, <1>4, DirOpenFacts
  <1>6. /\ s1.content = State.content /\ s1.list = State.list /\ s1.fault = "none"
        /\ s0.content = State.content
    BY <1>1, <1>2, <1>3, <1>5, StateFacts DEF SameFiles
  <1>7. dir_readdir(s0) \subseteq {f \in AllNames : State.content[f] # Absent}
    BY <1>6 DEF dir_readdir, Files
  <1>8. dir_readdir(s1) \subseteq dir_readdir(s0)
    <2>1. CASE State.cwd = NoDir
      <3>1. s0.cwd.pos = "start"
        BY <1>1, <2>1
      <3> QED
        BY <1>6, <3>1 DEF dir_readdir, Files
    <2>2. CASE State.cwd # NoDir
      <3>1. s1.cwd.pos = "end"
        BY <1>1, <1>2, <1>3, <1>5, <2>2
      <3> QED
        BY <3>1 DEF dir_readdir
    <2> QED
      BY <2>1, <2>2
  <1>9. State.cwd = NoDir => s1.cwd.open_cnt = 1
    BY <1>1, <1>2, <1>3, <1>5
  <1> QED
    BY <1>1, <1>2, <1>3, <1>5, <1>6, <1>7, <1>8, <1>9

\* The second phase.
LEMMA RemoveAllFacts ==
    ASSUME NEW s, Good(s), s.cwd # NoDir, s.fault = "none", NEW R, NEW t, t = RemoveAll(s, R)
    PROVE  /\ Good(t) /\ t.list = s.list /\ t.cwd.open_cnt <= MaxLeaks
           /\ \A f \in AllNames \ R : t.content[f] = s.content[f] /\ t.table[f] = s.table[f]
           /\ R = {} => /\ t.fault = "none" /\ (Tidy(s) => Tidy(t))
                        /\ s.cwd.open_cnt = 1 => t.cwd = NoDir
           /\ R # {} => t.cwd = NoDir /\ t.fault = "lucky"
  <1>1. s \in States /\ Agree(s)
    BY DEF Good
  <1>2. CASE R = {}
    <2>1. t = dir_close(AtEnd(s))
      BY <1>2 DEF RemoveAll
    <2>2. /\ Good(t) /\ (Tidy(s) => Tidy(t)) /\ SameFiles(s, t) /\ t.cwd.open_cnt <= MaxLeaks
          /\ s.cwd.open_cnt = 1 => t.cwd = NoDir
      BY <2>1, EndDirFacts
    <2> QED
      BY <1>2, <2>2 DEF SameFiles
  <1>3. CASE R # {}
    <2> DEFINE C == [f \in AllNames |-> IF f \in R THEN Absent ELSE s.content[f]]
               T == [f \in AllNames |-> IF f \in R THEN Closed ELSE s.table[f]]
               u == [s EXCEPT !.content = C, !.table = T, !.cwd = NoDir]
               v == inode_close(u, {Root})
    <2>1. t = Lucky(v)
      BY <1>1, <1>3 DEF RemoveAll, States
    <2>2. C \in [AllNames -> Contents] /\ T \in [AllNames -> Entries]
      BY <1>1, LiteralFacts DEF States
    <2>3. \A f \in AllNames : /\ f \in R => T[f].inode = "none"
                              /\ f \notin R => T[f] = s.table[f] /\ C[f] = s.content[f]
      BY DEF Closed
    <2> HIDE DEF C, T
    <2>4. /\ u \in States /\ u.content = C /\ u.table = T /\ u.open = s.open /\ u.cwd = NoDir
          /\ u.list = s.list /\ u.fault = s.fault
      BY <1>1, <2>2, LiteralFacts DEF States
    <2> HIDE DEF u
    <2>5. /\ v \in States /\ v.content = C /\ v.open = s.open \ {Root} /\ v.cwd = NoDir
          /\ v.list = s.list /\ v.fault = s.fault /\ \A f \in AllNames : v.table[f] = T[f]
      BY <2>4, CloseFacts, NameAssumption
    <2> HIDE DEF v
    <2>6. Agree(v)
      <3>1. ASSUME NEW f \in AllNames
            PROVE  /\ v.table[f].inode # "none" => v.content[f] # Absent
                   /\ v.table[f].inode = "live" => f \in v.open
        <4>1. CASE f \in R
          BY <2>3, <2>5, <4>1
        <4>2. CASE f \notin R
          BY <1>1, <2>3, <2>5, <4>2, NameAssumption DEF Agree
        <4> QED
          BY <4>1, <4>2
      <3> QED
        BY <2>5, <3>1 DEF Agree
    <2>7. /\ t \in States /\ Same(v, t) /\ t.fault = "lucky"
      BY <2>1, <2>5, FaultFacts
    <2>8. Good(t)
      BY <2>5, <2>6, <2>7, SameGood DEF Good
    <2>9. /\ t.content = C /\ t.list = s.list /\ t.cwd = NoDir
          /\ \A f \in AllNames : t.table[f] = T[f]
      BY <2>5, <2>7 DEF Same
    <2>10. NoDir.open_cnt <= MaxLeaks
      BY SizeAssumption DEF NoDir
    <2> QED
      BY <1>3, <2>3, <2>7, <2>8, <2>9, <2>10
  <1> QED
    BY <1>2, <1>3

\* A file that ends in a NUL is written back as it was.
LEMMA WrittenBack ==
    ASSUME NEW c \in Ended, c # Absent
    PROVE  Terminated(c) = c
  <1>1. c \in Seq(Bytes) /\ (c # << >> => c[Len(c)] = NUL)
    BY ContentsFacts DEF Ended, Strings
  <1> QED
    BY <1>1 DEF Terminated

\* The third phase.
LEMMA WriteAllFacts ==
    ASSUME NEW s, Good(s), NEW L, L \subseteq {f \in AllNames : content[f] # Absent},
           content \in [AllNames -> Contents], NEW t, t = WriteAll(s, L)
    PROVE  /\ Good(t) /\ t.list = s.list /\ t.cwd = s.cwd
           /\ \A f \in L : content[f] \in Ended => t.content[f] = content[f]
           /\ \A f \in AllNames \ L : t.content[f] = s.content[f]
           /\ L = {} => t.fault = s.fault /\ (Tidy(s) => Tidy(t))
           /\ t.fault = s.fault \/ t.fault = "wild"
  <1> DEFINE C == [f \in AllNames |-> IF f \in L THEN Terminated(content[f]) ELSE s.content[f]]
             T == [f \in AllNames |-> IF f \in L
                     THEN [pos |-> Advance(Len(content[f])), inode |-> "live"] ELSE s.table[f]]
             O == s.open \cup L
             F == IF \E f \in L : s.table[f].inode = "freed" THEN "wild" ELSE s.fault
  <1>1. s \in States /\ Agree(s)
    BY DEF Good
  <1>2. t = [s EXCEPT !.content = C, !.table = T, !.open = O, !.fault = F]
    BY <1>1 DEF WriteAll, States
  <1>3. ASSUME NEW f \in L
        PROVE  /\ f \in AllNames /\ content[f] # Absent
               /\ Terminated(content[f]) \in Contents /\ Terminated(content[f]) # Absent
               /\ content[f] \in Ended => Terminated(content[f]) = content[f]
               /\ [pos |-> Advance(Len(content[f])), inode |-> "live"] \in Entries
    <2>1. f \in AllNames /\ content[f] # Absent /\ content[f] \in Strings
      BY <1>3, ContentsFacts
    <2> DEFINE n == Len(content[f])
    <2>2. n \in Nat /\ n <= MaxLength
      BY <2>1 DEF Strings
    <2> HIDE DEF n
    <2>3. Advance(n) \in Positions
      BY <2>2, SizeAssumption DEF Advance, Positions
    <2>4. [pos |-> Advance(n), inode |-> "live"] \in Entries
      BY <2>3 DEF Entries
    <2>5. Terminated(content[f]) \in Strings
      BY <2>1, <2>2, TerminatedFacts DEF Strings, n
    <2> QED
      BY <2>1, <2>4, <2>5, ContentsFacts, WrittenBack DEF n
  <1>4. C \in [AllNames -> Contents] /\ T \in [AllNames -> Entries]
    BY <1>1, <1>3 DEF States
  <1>5. O \in SUBSET (AllNames \cup {Root}) /\ (Root \in O <=> Root \in s.open)
    BY <1>1, NameAssumption DEF States
  <1>6. F \in {"none", "lucky", "wild"} /\ (F = s.fault \/ F = "wild") /\ (L = {} => F = s.fault)
    BY <1>1 DEF States
  <1>7. \A f \in L : C[f] = Terminated(content[f]) /\ T[f].inode = "live" /\ f \in O
    BY <1>3
  <1>8. /\ \A f \in AllNames \ L : /\ C[f] = s.content[f] /\ T[f] = s.table[f]
                                   /\ f \in O <=> f \in s.open
    OBVIOUS
  <1> HIDE DEF C, T, O, F
  <1>9. /\ t \in States /\ t.content = C /\ t.table = T /\ t.open = O /\ t.cwd = s.cwd
        /\ t.list = s.list /\ t.fault = F
    BY <1>1, <1>2, <1>4, <1>5, <1>6 DEF States
  <1>10. Agree(t)
    <2>1. ASSUME NEW f \in AllNames
          PROVE  /\ t.table[f].inode # "none" => t.content[f] # Absent
                 /\ t.table[f].inode = "live" => f \in t.open
      <3>1. CASE f \in L
        BY <1>3, <1>7, <1>9, <3>1
      <3>2. CASE f \notin L
        BY <1>1, <1>8, <1>9, <3>2 DEF Agree
      <3> QED
        BY <3>1, <3>2
    <2> QED
      BY <1>1, <1>5, <1>9, <2>1 DEF Agree
  <1>11. L = {} => (Tidy(s) => Tidy(t))
    BY <1>8, <1>9 DEF Tidy
  <1> QED
    BY <1>3, <1>6, <1>7, <1>8, <1>9, <1>10, <1>11 DEF Good

LEMMA DefragmentStep ==
    ASSUME IInv, defragment
    PROVE  IInv'
  <1> DEFINE s0 == dir_open_root(State)
             L == dir_readdir(s0)
             s1 == dir_open_root(dir_close(OpenAndClose(s0)))
             R == dir_readdir(s1)
             s2 == RemoveAll(s1, R)
             s3 == WriteAll(s2, L)
             n == IF L = {} THEN "null" ELSE "freed"
             s4 == IF L = {} THEN s3 ELSE Writes(s3)
             s5 == [s4 EXCEPT !.list = n]
             t == IF file_list # "null" THEN Wild(s4) ELSE s5
  <1>1. /\ Becomes(t) /\ tooled' = (tooled \/ L # {}) /\ written' = {}
        /\ recovered' = (recovered /\ R = {})
        /\ \/ L = {} /\ UNCHANGED <<deleted, marked, map>>
           \/ map' = Saved /\ Recreated(L, R)
        /\ UNCHANGED origin
    BY DEF defragment, disk
  <1>2. RunInv
    BY <1>1, Running
  <1> USE DEF RunInv
  <1>3. /\ Good(s1) /\ s1.content = State.content /\ s1.list = State.list
        /\ s1.fault = "none" /\ s1.cwd # NoDir
        /\ State.cwd = NoDir => s1.cwd.open_cnt = 1
        /\ L \subseteq {f \in AllNames : State.content[f] # Absent}
        /\ R \subseteq L
        /\ L = {} /\ Tidy(State) => Tidy(s1)
    BY <1>2, PassFacts
  <1> HIDE DEF s0, L, s1, R
  <1>4. /\ Good(s2) /\ s2.list = s1.list /\ s2.cwd.open_cnt <= MaxLeaks
        /\ \A f \in AllNames \ R : s2.content[f] = s1.content[f]
        /\ R = {} => /\ s2.fault = "none" /\ (Tidy(s1) => Tidy(s2))
                     /\ s1.cwd.open_cnt = 1 => s2.cwd = NoDir
        /\ R # {} => s2.cwd = NoDir
    BY <1>3, RemoveAllFacts
  <1> HIDE DEF s2
  <1>5. content \in [AllNames -> Contents] /\ State.content = content
    BY <1>2, StateFacts DEF Good, States
  <1>6. L \subseteq {f \in AllNames : content[f] # Absent}
    BY <1>3, <1>5
  <1>7. /\ Good(s3) /\ s3.list = s2.list /\ s3.cwd = s2.cwd
        /\ \A f \in L : content[f] \in Ended => s3.content[f] = content[f]
        /\ \A f \in AllNames \ L : s3.content[f] = s2.content[f]
        /\ L = {} => s3.fault = s2.fault /\ (Tidy(s2) => Tidy(s3))
    BY <1>4, <1>5, <1>6, WriteAllFacts
  <1> HIDE DEF s3
  <1>8. n \in {"null", "freed"} /\ (n # "null" => L # {})
    OBVIOUS
  <1> HIDE DEF n
  <1>9. /\ Good(s4) /\ Same(s3, s4) /\ (Tidy(s3) => Tidy(s4))
        /\ L = {} => s4.fault = s3.fault
    <2>1. s3 \in States
      BY <1>7 DEF Good
    <2>2. s4 \in States /\ Same(s3, s4)
      BY <2>1, FaultFacts DEF Writes, Same
    <2> QED
      BY <1>7, <2>2, SameGood
  <1> HIDE DEF s4
  <1>10. /\ s5 \in States /\ s5.content = s4.content /\ s5.table = s4.table
         /\ s5.open = s4.open /\ s5.cwd = s4.cwd /\ s5.list = n /\ s5.fault = s4.fault
    BY <1>8, <1>9 DEF Good, States
  <1> HIDE DEF s5
  <1>11. Agree(s5) /\ (Tidy(s4) => Tidy(s5))
    BY <1>9, <1>10 DEF Good, Agree, Tidy
  <1>12. /\ Good(t) /\ (Tidy(s4) => Tidy(t)) /\ t.content = s4.content /\ t.cwd = s4.cwd
         /\ t.list # "null" => L # {} \/ State.list # "null"
         /\ t.fault # s4.fault => State.list # "null"
    <2>1. CASE file_list # "null"
      <3>1. t \in States /\ Same(s4, t)
        BY <1>9, <2>1, FaultFacts DEF Good
      <3> HIDE DEF t
      <3>2. State.list # "null"
        BY <2>1, StateFacts
      <3> QED
        BY <1>9, <3>1, <3>2, SameGood DEF Same
    <2>2. CASE file_list = "null"
      <3>1. t = s5
        BY <2>2
      <3> HIDE DEF t
      <3> QED
        BY <1>8, <1>10, <1>11, <3>1 DEF Good
    <2> QED
      BY <2>1, <2>2
  <1> HIDE DEF t
  <1>13. L = {} => R = {}
    BY <1>3
  <1>14. t.content = s3.content /\ t.cwd = s3.cwd
    BY <1>9, <1>12 DEF Same
  <1>15. ~tooled' => Tidy(t)
    BY <1>1, <1>2, <1>3, <1>4, <1>7, <1>9, <1>12, <1>13
  <1>16. t.list # "null" => tooled'
    BY <1>1, <1>2, <1>12
  <1>17. t.cwd # NoDir => recovered'
    BY <1>1, <1>2, <1>3, <1>4, <1>7, <1>14
  <1>18. t.fault # "none" => tooled'
    BY <1>1, <1>2, <1>4, <1>7, <1>9, <1>12, <1>13
  <1>19. map # "unsound" => \A f \in AllNames : t.content[f] = State.content[f]
    <2> SUFFICES ASSUME map # "unsound", NEW f \in AllNames
                 PROVE  t.content[f] = State.content[f]
      OBVIOUS
    <2>1. content[f] \in Ended
      BY <1>2, <1>5 DEF Nuls
    <2> QED
      BY <1>3, <1>4, <1>5, <1>7, <1>14, <2>1
  <1>20. AtEnds(t, written') /\ (map # "unsound" => Copies(t, origin'))
    <2>1. AtEnds(t, {})
      BY DEF AtEnds
    <2>2. map # "unsound" => Copies(t, origin)
      BY <1>2, <1>19 DEF Copies
    <2> QED
      BY <1>1, <2>1, <2>2
  <1>21. written' \subseteq AllNames /\ origin' \in [AllNames -> Texts \cup {NoText}]
    BY <1>1 DEF IInv
  <1>22. t.cwd.open_cnt <= MaxLeaks
    BY <1>4, <1>7, <1>14
  <1>23. DiskGood(t)
    <2>1. map # "unsound" => Nuls(t)
      BY <1>2, <1>19 DEF Nuls
    <2>2. CASE UNCHANGED <<deleted, marked, map>>
      BY <2>1, <2>2 DEF DiskGood, IInv
    <2>3. CASE map' = Saved /\ Reuse
      BY <2>1, <2>3, ReuseFacts
    <2>4. ASSUME map' = Saved, marked' \in BOOLEAN, NEW f \in L,
                 deleted' \in {content[f], Zeros(Len(content[f]))}
          PROVE  DiskGood(t)
      <3>1. map' \in Maps /\ (map = "unsound" <=> map' = "unsound")
        BY <2>4 DEF Saved, IInv, Maps
      <3>2. f \in AllNames /\ content[f] \in Strings
        BY <1>5, <1>6, ContentsFacts
      <3>3. Len(content[f]) \in 0 .. MaxLength
        BY <3>2, SizeAssumption DEF Strings
      <3>4. Zeros(Len(content[f])) \in Ended /\ (Nuls(State) => content[f] \in Ended)
        BY <1>5, <3>2, <3>3, ZerosEnd DEF Nuls
      <3>5. deleted' \in Contents /\ (map # "unsound" => deleted' \in Ended)
        BY <1>2, <1>5, <2>4, <3>2, <3>4 DEF Ended
      <3> QED
        BY <2>1, <2>4, <3>1, <3>5 DEF DiskGood
    <2>5. CASE map' = Saved /\ Recreated(L, R) /\ ~Reuse
      <3>1. PICK f \in L : marked' \in BOOLEAN /\ deleted' \in {content[f], Zeros(Len(content[f]))}
        BY <1>3, <2>5 DEF Recreated
      <3> QED
        BY <2>4, <2>5, <3>1
    <2> QED
      BY <1>1, <2>2, <2>3, <2>5
  <1> QED
    BY <1>1, <1>12, <1>15, <1>16, <1>17, <1>18, <1>20, <1>21, <1>22, <1>23, Step

LEMMA Recover0Step ==
    ASSUME IInv, recover0
    PROVE  IInv'
  <1>1. CASE /\ map = "unsound" /\ Becomes(Wild(State))
             /\ UNCHANGED <<deleted, marked, map, tooled, written, recovered, origin>>
    <2> DEFINE t == Wild(State)
    <2>1. RunInv
      BY <1>1, Running
    <2> USE DEF RunInv
    <2>2. t \in States /\ Same(State, t) /\ t.fault = "wild"
      BY <2>1, FaultFacts DEF Good
    <2> HIDE DEF t
    <2>3. Good(t) /\ (Tidy(State) => Tidy(t)) /\ t.cwd = State.cwd /\ t.list = State.list
      BY <2>1, <2>2, SameGood DEF Same
    <2>4. DiskGood(t)
      BY <1>1, <2>2, DiskKept DEF Same
    <2>5. written' \subseteq AllNames /\ origin' \in [AllNames -> Texts \cup {NoText}]
      BY <1>1 DEF IInv
    <2>6. Becomes(t)
      BY <1>1 DEF t
    <2> QED
      BY <1>1, <2>1, <2>2, <2>3, <2>4, <2>5, <2>6, Step
  <1>2. ASSUME NEW d \in {deleted} \cup Foreign, NEW m \in {"unsaved", "unsound"},
               deleted # Absent, State.cwd.open_cnt < MaxLeaks,
               IF marked \/ map = "unsound" THEN m = "unsound" ELSE d = deleted,
               Becomes(Lucky([dir_open_root(State) EXCEPT
                                !.content[Recovered] = IF @ = Absent THEN d ELSE @])),
               map' = m, deleted' = Absent, marked' = FALSE, recovered' = TRUE,
               UNCHANGED <<tooled, written, origin>>
        PROVE  IInv'
    <2> DEFINE s == dir_open_root(State)
               c == IF s.content[Recovered] = Absent THEN d ELSE s.content[Recovered]
               u == SetContent(s, Recovered, c)
               t == Lucky(u)
    <2>1. RunInv
      BY <1>2, Running
    <2> USE DEF RunInv
    <2>2. /\ Good(s) /\ (Tidy(State) => Tidy(s)) /\ SameFiles(State, s) /\ s.cwd # NoDir
          /\ State.cwd = NoDir => s.cwd = [open_cnt |-> 1, pos |-> "start"]
          /\ State.cwd # NoDir => s.cwd.open_cnt = State.cwd.open_cnt + 1
      BY <2>1, DirOpenFacts
    <2> HIDE DEF s
    <2>3. Becomes(t)
      <3>1. s \in States
        BY <2>2 DEF Good
      <3>2. [s EXCEPT !.content[Recovered] = IF @ = Absent THEN d ELSE @] = u
        BY <3>1 DEF SetContent, States
      <3> HIDE DEF u
      <3> QED
        BY <1>2, <3>2 DEF s
    <2>4. Recovered \in AllNames
      BY DEF AllNames
    <2>5. d \in Contents /\ d # Absent
      BY <1>2, ForeignAssumption DEF IInv
    <2>6. c \in Contents /\ c # Absent
      BY <2>2, <2>4, <2>5 DEF Good, States
    <2>7. /\ State.content[Recovered] # Absent => c = State.content[Recovered]
          /\ State.content[Recovered] = Absent => c = d
      BY <2>2 DEF SameFiles
    <2> HIDE DEF c
    <2>8. /\ Good(u) /\ (Tidy(s) => Tidy(u)) /\ u.table = s.table /\ u.cwd = s.cwd
          /\ u.list = s.list /\ u.content[Recovered] = c /\ Entries0(s, u, Recovered)
      BY <2>2, <2>4, <2>6, ContentFacts
    <2> HIDE DEF u
    <2>9. t \in States /\ Same(u, t)
      BY <2>8, FaultFacts DEF Good
    <2> HIDE DEF t
    <2>10. /\ Good(t) /\ (Tidy(State) => Tidy(t)) /\ t.table = State.table
           /\ t.cwd = s.cwd /\ t.list = State.list /\ t.content[Recovered] = c
           /\ \A f \in AllNames \ {Recovered} : t.content[f] = State.content[f]
      BY <2>2, <2>8, <2>9, SameGood DEF Same, SameFiles, Entries0
    <2>11. \A f \in AllNames : State.content[f] # Absent => t.content[f] = State.content[f]
      BY <2>7, <2>10
    <2>12. AtEnds(t, written)
      <3>1. \A f \in written : State.content[f] # Absent
        BY <2>1, AbsentFacts
      <3> QED
        BY <2>1, <2>10, <2>11, <3>1 DEF AtEnds
    <2>13. Copies(State, origin) => Copies(t, origin)
      BY <2>11 DEF Copies
    <2>14. t.cwd.open_cnt <= MaxLeaks
      <3>1. State.cwd.open_cnt \in Nat /\ MaxLeaks \in Nat
        BY <2>1, SizeAssumption DEF Good, States, Dirs
      <3>2. State.cwd = NoDir => t.cwd.open_cnt = 1
        BY <2>2, <2>10
      <3> QED
        BY <1>2, <2>2, <2>10, <3>1, <3>2
    <2>15. written' \subseteq AllNames /\ origin' \in [AllNames -> Texts \cup {NoText}]
      BY <1>2 DEF IInv
    <2>16. DiskGood(t)
      <3>1. m # "unsound" => Nuls(t)
        <4> SUFFICES ASSUME m # "unsound" PROVE Nuls(t)
          OBVIOUS
        <4>1. d = deleted /\ map # "unsound"
          BY <1>2
        <4>2. Nuls(State) /\ d \in Ended
          BY <2>1, <4>1
        <4>3. c \in Ended
          BY <2>4, <2>7, <4>2 DEF Nuls
        <4> QED
          BY <2>10, <4>2, <4>3 DEF Nuls
      <3> QED
        BY <1>2, <3>1, LiteralFacts DEF DiskGood, Maps
    <2>17. map' # "sound"
      BY <1>2
    <2> QED
      BY <1>2, <2>1, <2>3, <2>10, <2>12, <2>13, <2>14, <2>15, <2>16, <2>17, Step
  <1> QED
    BY <1>1, <1>2, StateFacts DEF recover0, disk, history

\* A process that ends, and one that starts, have no handles.
LEMMA GoneStep ==
    ASSUME IInv, phase = "run", NoHandles, UNCHANGED <<content, deleted, marked, origin>>,
           map' \in {map, "unsound"}, phase' \in {"run", "killed"}
    PROVE  IInv'
  <1> DEFINE t == State'
             T == [f \in AllNames |-> Closed]
  <1>1. /\ file_table' = T /\ open_inodes' = {} /\ cwd' = NoDir /\ file_list' = "null"
        /\ tooled' = FALSE /\ written' = {} /\ phase = "run"
        /\ UNCHANGED <<content, deleted, marked, origin>>
    BY DEF NoHandles
  <1>2. /\ T \in [AllNames -> Entries] /\ \A f \in AllNames : T[f].inode = "none"
    BY LiteralFacts DEF Closed
  <1> HIDE DEF T
  <1>3. t = [content |-> content, table |-> T, open |-> {}, cwd |-> NoDir,
             list |-> "null", fault |-> "none"]
    BY <1>1 DEF State
  <1>4. /\ content \in [AllNames -> Contents] /\ State.content = content
        /\ map # "unsound" => Copies(State, origin)
    BY <1>1, StateFacts DEF IInv, Good, States
  <1>5. /\ t \in States /\ t.content = content /\ t.table = T /\ t.open = {} /\ t.cwd = NoDir
        /\ t.list = "null"
    BY <1>2, <1>3, <1>4, LiteralFacts DEF States
  <1> HIDE DEF t
  <1>6. Agree(t) /\ Tidy(t)
    BY <1>2, <1>5 DEF Agree, Tidy
  <1>7. AtEnds(t, {})
    BY DEF AtEnds
  <1>8. /\ Copies(State, origin) => Copies(t, origin)
        /\ Nuls(State) => Nuls(t)
    BY <1>4, <1>5 DEF Copies, Nuls
  <1>9. NoDir.open_cnt <= MaxLeaks
    BY SizeAssumption DEF NoDir
  <1>10. map' \in Maps /\ (map' # "unsound" => map # "unsound")
    BY <1>1 DEF IInv, Maps
  <1>11. /\ Good(t) /\ cwd'.open_cnt <= MaxLeaks
         /\ deleted' \in Contents /\ marked' \in BOOLEAN /\ map' \in Maps
         /\ written' \subseteq AllNames /\ phase' \in {"run", "undefined", "killed"}
         /\ origin' \in [AllNames -> Texts \cup {NoText}]
         /\ ~tooled' => Tidy(t)
         /\ file_list' # "null" => tooled'
         /\ phase' = "run" /\ cwd' # NoDir => recovered'
         /\ phase' = "undefined" => tooled' \/ map' # "sound" \/ Cause(t)
         /\ map' # "unsound" => Nuls(t) /\ deleted' \in Ended
         /\ phase' = "run" => AtEnds(t, written')
         /\ phase' = "run" /\ map' # "unsound" => Copies(t, origin')
    BY <1>1, <1>4, <1>5, <1>6, <1>7, <1>8, <1>9, <1>10 DEF IInv, Good
  <1> QED
    BY <1>11 DEF IInv, t

LEMMA RestartStep ==
    ASSUME IInv, Restart
    PROVE  IInv'
  <1>1. /\ phase = "run" /\ NoHandles /\ UNCHANGED <<content, deleted, marked, origin>>
        /\ map' \in {map, "unsound"} /\ phase' \in {"run", "killed"}
    BY DEF Restart
  <1> QED
    BY <1>1, GoneStep

LEMMA NegativeReadStep ==
    ASSUME IInv, NEW n \in Offsets, NegativeRead(n)
    PROVE  IInv'
  <1>1. /\ phase = "run" /\ NoHandles /\ UNCHANGED <<content, deleted, marked, origin>>
        /\ map' \in {map, "unsound"} /\ phase' \in {"run", "killed"}
    BY DEF NegativeRead, disk
  <1> QED
    BY <1>1, GoneStep

-----------------------------------------------------------------------------
\* The theorems.

LEMMA InitHolds == Init => IInv
  <1> SUFFICES ASSUME Init PROVE IInv
    OBVIOUS
  <1> DEFINE T == [f \in AllNames |-> Closed]
             C == [f \in AllNames |-> Absent]
  <1>1. /\ content = C /\ file_table = T /\ open_inodes = {} /\ cwd = NoDir
        /\ file_list = "null" /\ deleted = Absent /\ marked = FALSE /\ map = "sound" /\ phase = "run" /\ written = {}
        /\ origin = [f \in AllNames |-> NoText]
    BY DEF Init
  <1>2. /\ T \in [AllNames -> Entries] /\ (\A f \in AllNames : T[f].inode = "none")
        /\ C \in [AllNames -> Ended] /\ C \in [AllNames -> Contents]
    BY LiteralFacts DEF Closed
  <1> HIDE DEF T, C
  <1>3. /\ State = [content |-> C, table |-> T, open |-> {}, cwd |-> NoDir,
                    list |-> "null", fault |-> "none"]
    BY <1>1 DEF State
  <1>4. State \in States
    BY <1>2, <1>3, LiteralFacts DEF States
  <1>5. Agree(State) /\ Tidy(State)
    BY <1>1, <1>2, StateFacts DEF Agree, Tidy
  <1>6. AtEnds(State, written) /\ Copies(State, origin) /\ Nuls(State)
    BY <1>1, <1>2, StateFacts DEF AtEnds, Copies, Nuls
  <1>7. cwd.open_cnt <= MaxLeaks
    BY <1>1, SizeAssumption DEF NoDir
  <1>8. origin \in [AllNames -> Texts \cup {NoText}] /\ written \subseteq AllNames /\ deleted \in Ended
        /\ deleted \in Contents /\ marked \in BOOLEAN /\ map \in Maps
    BY <1>1, LiteralFacts DEF Maps
  <1> QED
    BY <1>1, <1>4, <1>5, <1>6, <1>7, <1>8 DEF IInv, Good

LEMMA NextHolds == IInv /\ [Next]_vars => IInv'
  <1> SUFFICES ASSUME IInv, [Next]_vars PROVE IInv'
    OBVIOUS
  <1>1. Names \subseteq AllNames
    BY DEF AllNames
  <1>2. CASE \E f \in Names, n \in Sizes : fsutil_create(f, n)
    BY <1>2, CreateStep
  <1>3. CASE \E f \in Names, t \in Texts : fsutil_write(f, t)
    BY <1>1, <1>3, WriteStep
  <1>4. CASE \E f \in AllNames, n \in Offsets : fsutil_read(f, n)
    BY <1>4, ReadStep
  <1>5. CASE \E f \in AllNames : fsutil_size(f)
    BY <1>5, SizeStep
  <1>6. CASE \E f \in Names, n \in Offsets : fsutil_seek(f, n)
    BY <1>1, <1>6, SeekStep
  <1>7. CASE \E f \in AllNames : fsutil_cat(f)
    BY <1>7, CatStep
  <1>8. CASE \E f \in AllNames : fsutil_rm(f)
    BY <1>8, RmStep
  <1>9. CASE fsutil_ls
    BY <1>9, LsStep
  <1>10. CASE \E f \in Names, t \in Texts : copy_in(f, t)
    BY <1>1, <1>10, CopyInStep
  <1>11. CASE \E f \in AllNames : copy_out(f)
    BY <1>11, CopyOutStep
  <1>12. CASE find_file
    BY <1>12, FindStep
  <1>13. CASE fragmentation_degree \/ recover2
    BY <1>13, FragmentationStep DEF recover2
  <1>14. CASE defragment
    BY <1>14, DefragmentStep
  <1>15. CASE recover0
    BY <1>15, Recover0Step
  <1>16. CASE Restart
    BY <1>16, RestartStep
  <1>17. CASE \E n \in Sizes : CreateFails(n)
    BY <1>17, CreateFailsStep
  <1>18. CASE \E n \in Offsets : NegativeRead(n)
    BY <1>18, NegativeReadStep
  <1>19. CASE \E f \in AllNames : cat_path(f)
    BY <1>19, CatPathStep
  <1>20. CASE UNCHANGED vars
    <2>1. /\ UNCHANGED State /\ UNCHANGED <<cwd, deleted, marked, map, written, phase, origin, tooled, file_list, recovered>>
      BY <1>20 DEF vars, State
    <2> QED
      BY <2>1 DEF IInv
  <1> QED
    BY <1>2, <1>3, <1>4, <1>5, <1>6, <1>7, <1>8, <1>9, <1>10, <1>11, <1>12, <1>13, <1>14,
       <1>15, <1>16, <1>17, <1>18, <1>19, <1>20 DEF Next

LEMMA Holds == Spec => []IInv
  BY InitHolds, NextHolds, PTL DEF Spec

\* For every set of names, texts, sizes and offsets: the file table, the list of open
\* inodes, the directory handle and the files agree after any sequence of commands.
THEOREM Handles == Spec => []HandlesAgree
  <1>1. IInv => HandlesAgree
    <2> SUFFICES ASSUME IInv PROVE HandlesAgree
      OBVIOUS
    <2>1. TypeOK
      <3>1. /\ content \in [AllNames -> Contents] /\ file_table \in [AllNames -> Entries]
            /\ open_inodes \subseteq AllNames \cup {Root} /\ cwd \in Dirs
            /\ file_list \in {"null", "freed"}
        BY StateFacts DEF IInv, Good, States
      <3>2. cwd.open_cnt \in 0 .. MaxLeaks /\ cwd.pos \in {"start", "end"}
        BY <3>1, SizeAssumption DEF IInv, Dirs
      <3> QED
        BY <3>1, <3>2 DEF IInv, TypeOK, Entries, Positions, Maps
    <2>2. Agree(State) /\ (~tooled => Tidy(State))
      BY DEF IInv, Good
    <2> QED
      BY <2>1, <2>2, StateFacts DEF IInv, Agree, Tidy, HandlesAgree
  <1> QED
    BY <1>1, Holds, PTL

\* Behaviour becomes undefined only after a tool, or a cat through a path, that closes the
\* inodes of others, after recover 0 has changed the free map, with a position before the
\* start of a file, or with an empty file at hand.
THEOREM Defined == Spec => []DefinedOtherwise
  <1>1. IInv => DefinedOtherwise
    BY StateFacts DEF IInv, DefinedOtherwise, Cause
  <1> QED
    BY <1>1, Holds, PTL

\* As long as recover 0 has left no sector in use unmarked, the last byte of a file is a
\* NUL, whatever is written where, copied in, recovered or moved by defragment.
THEOREM NulEnded == Spec => []EndsInNul
  <1>1. IInv => EndsInNul
    BY StateFacts DEF IInv, Nuls, Ended, EndsInNul
  <1> QED
    BY <1>1, Holds, PTL

\* A write that starts in or at the end of a text leaves the position at the end of the
\* new text, and no command on another file, listing, search of another file or recovery moves it.
THEOREM WritesContinue == Spec => []AtTextEnd
  <1>1. IInv => AtTextEnd
    BY StateFacts DEF IInv, AtEnds, AtTextEnd
  <1> QED
    BY <1>1, Holds, PTL

\* As long as recover 0 has left no sector in use unmarked, a host file that was copied
\* in completely is what the file's text is until the file is written to or removed,
\* through any number of defragmentations, recoveries of others and restarts.
THEOREM CopiesIntact == Spec => []CopyIntact
  <1>1. IInv => CopyIntact
    BY StateFacts DEF IInv, Copies, CopyIntact
  <1> QED
    BY <1>1, Holds, PTL
=============================================================================
