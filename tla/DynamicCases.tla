----------------------------- MODULE DynamicCases -----------------------------
(* Programs of three functions, and pattern lists, for TLC                   *)
EXTENDS Integers, Sequences, FiniteSets, SequencesExt

Total(s) == FoldSeq(LAMBDA x, y : x + y, 0, s)
Jumps == {"jcc8", "jcc32", "jmp8"}
I(op, size, tgt) == [op |-> op, size |-> size, tgt |-> tgt]
Far == 64
\* The second function, with an instruction in the middle at Far + 3, and one of a library
Second(first) == [start |-> Far, cet |-> FALSE, cold |-> FALSE, mod |-> "exe",
                  insns |-> <<first, I("plain", 3, 0), I("plain", 3, 0), I("ret", 1, 0)>>]
Library == [start |-> 128, cet |-> FALSE, cold |-> FALSE, mod |-> "lib",
            insns |-> <<I("plain", 1, 0), I("lea", 7, 0), I("ret", 1, 0)>>]
Ops(targets) == {I("plain", 1, 0), I("plain", 3, 0), I("lea", 7, 0), I("call", 5, 0), I("ret", 1, 0)}
       \cup {I(op[1], op[2], t) : op \in {<<"jcc8", 2>>, <<"jcc32", 6>>, <<"jmp8", 2>>}, t \in targets}
Starts(s, from) == {from + Total([j \in 1 .. i - 1 |-> s[j].size]) : i \in DOMAIN s}
PrologueLen(s) == CHOOSE n \in DOMAIN s : \/ Total([j \in 1 .. n |-> s[j].size]) >= 5 /\ Total([j \in 1 .. n - 1 |-> s[j].size]) < 5
                                          \/ n = Len(s) /\ Total([j \in 1 .. n |-> s[j].size]) < 5
\* A jump goes to the start of an instruction.
WellFormed(s, from) == \A i \in DOMAIN s : s[i].op \in Jumps => s[i].tgt \in Starts(s, from) \cup {Far, Far + 3}
\* What compilers do not do: a function that starts with jumps to its own first instructions
NoJumpMaze(s, from, pro) ==
    \A i \in 1 .. pro : s[i].op \in Jumps => s[i].tgt \notin from .. from + Total([j \in 1 .. pro |-> s[j].size]) - 1
\* A jump into the middle of another function is in code that is checked: not in a function that is too
\* small or that is given up before.
JumpIsSeen(s, pro) ==
    (\E i \in DOMAIN s : s[i].op \in Jumps /\ s[i].tgt = Far + 3) =>
        /\ Total([j \in DOMAIN s |-> s[j].size]) > 5 /\ Cardinality({i \in DOMAIN s : s[i].op \in Jumps}) = 1
        /\ \A i \in 1 .. pro : s[i].op # "ret"
First(cet, s) == [start |-> 0, cet |-> cet, cold |-> FALSE, mod |-> "exe",
                  insns |-> (IF cet THEN <<I("endbr", 4, 0)>> ELSE << >>) \o s \o <<I("ret", 1, 0)>>]
Bodies(cet, back) ==
    LET from == IF cet THEN 4 ELSE 0
        targets == {from, from + 3, from + 8, Far, Far + 3}
    IN {s \in {<<a, b, c>> : a, b, c \in Ops(targets)} :
          LET t == Append(s, I("ret", 1, 0))
              pro == PrologueLen(t)
          IN /\ WellFormed(t, from) /\ NoJumpMaze(t, from, pro) /\ JumpIsSeen(t, pro)
             /\ back \/ \A i \in DOMAIN s : s[i].op \in Jumps =>
                   s[i].tgt \notin from + 1 .. from + Total([j \in 1 .. pro |-> t[j].size]) - 1}
P(fs, pos) == [funcs |-> fs, positive |-> pos]
All == <<P({1, 2, 3}, TRUE)>>
Patterns == {All, <<P({1, 3}, TRUE), P({2}, FALSE)>>, <<P({1, 2}, FALSE), P({1}, TRUE)>>}
Case(p, t, l) == [prog |-> p, type |-> t, patts |-> l]
Plain == I("plain", 3, 0)
Simple(cet, a) == <<First(cet, <<a, Plain, Plain>>), Second(Plain), Library>>
Cases ==
    {Case(<<First(FALSE, s), Second(Plain), Library>>, "none", All) : s \in Bodies(FALSE, TRUE)}
    \cup {Case(<<First(TRUE, s), Second(Plain), Library>>, "none", All) : s \in Bodies(TRUE, FALSE)}
    \cup {Case(<<First(FALSE, <<Plain, Plain, I("plain", 1, 0)>>), Second(I("jcc8", 2, t)), Library>>, "none", All) : t \in {0, 3, 6}}
    \cup {Case(<<First(TRUE, <<Plain, a, Plain>>), Second(I("jcc8", 2, t)), Library>>, "none", All) :
            a \in {Plain, I("lea", 7, 0)}, t \in {0, 4, 7}}
    \cup {Case(Simple(c, a), t, p) : c \in BOOLEAN, a \in {Plain, I("nop5", 5, 0)}, t \in {"none", "nop", "fentry"}, p \in Patterns}
===============================================================================
