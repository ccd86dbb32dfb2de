---------------------------- MODULE MCA2Kernel ----------------------------
EXTENDS A2Kernel

\* n plain lines, the last one without a newline, as in the repository's scripts.
Script(n) == [lines |-> [k \in 1 .. n |-> Plain], nl |-> FALSE]

\* A script of seven lines that starts two others.
Parent == [lines |-> <<Plain, "seven", Plain, Plain, Plain, "six", Plain>>, nl |-> FALSE]

Names == {"two", "three", "six", "seven", "nine", "ten", "parent"}
MCPrograms == [n \in Names |-> CASE n = "two" -> Script(2) [] n = "three" -> Script(3)
                                 [] n = "six" -> Script(6) [] n = "seven" -> Script(7)
                                 [] n = "nine" -> Script(9) [] n = "ten" -> Script(10) [] n = "parent" -> Parent]
=============================================================================
