----------------------------- MODULE SymbolCases ------------------------------
(* Modules for Symbol                                                        *)
EXTENDS Integers, Sequences

Name(k, n) == [kind |-> k, n |-> n]
Fun(v, sz, b, nm) == [value |-> v, size |-> sz, bind |-> b, name |-> nm, undef |-> FALSE]
Undef(nm) == [value |-> 0, size |-> 0, bind |-> "T", name |-> nm, undef |-> TRUE]
Rel(nm, v) == [name |-> nm, value |-> v]

\* Code from vaddr + 12 on, the PLT at vaddr + 0
Elf(v, syms, dyn, rels, sec) ==
    [vaddr |-> v, len |-> 24, syms |-> syms, dyn |-> dyn, plt |-> v, rels |-> rels, pltsec |-> sec]

Main(n) == Name("plain", n)
SymSeqs(v) ==
    {<<Fun(v + 18, 4, "T", Main("f")), Fun(v + 12, 3, "t", Main("g"))>>,
     \* twins, next to each other and not
     <<Fun(v + 12, 4, "w", Name("under", "f")), Fun(v + 12, 4, "T", Main("f")), Fun(v + 16, 4, "t", Main("h"))>>,
     <<Fun(v + 16, 4, "T", Name("under", "f")), Fun(v + 12, 4, "w", Name("mangled", "g")),
       Fun(v + 16, 4, "T", Main("f")), Fun(v + 12, 4, "T", Name("under", "gg"))>>,
     <<Fun(v + 12, 2, "?", Main("u")), Fun(v + 14, 2, "w", Name("mangled", "w")), Fun(v + 20, 0, "T", Main("z"))>>,
     << >>}
\* The dynamic symbols: none, or the global ones; the only ones of a stripped file
DynSeqs(v, syms) ==
    IF syms = << >>
    THEN {<< >>, <<Undef(Main("puts")), Fun(v + 12, 4, "T", Main("d")), Fun(v + 16, 4, "T", Name("under", "e"))>>}
    ELSE {<< >>, <<Undef(Main("puts"))>> \o SelectSeq(syms, LAMBDA e : e.bind \in {"T", "w"} /\ e.size > 0)}
RelSeqs ==
    {<< >>, <<Rel(Main("puts"), 0), Rel(Name("mangled", "new"), 0)>>,
     <<Rel(Main("puts"), 0), Rel(Name("empty", ""), 0)>>}
\* Relocations of functions whose address is taken, by a program at a fixed address
Taken(v, sec) == <<Rel(Main("puts"), IF sec THEN v ELSE v + 4), Rel(Main("exit"), 0)>>

Made(v, rels, sec) == UNION {{Elf(v, s, d, rels, sec) : d \in DynSeqs(v, s)} : s \in SymSeqs(v)}
Elfs == UNION {Made(v, r, sec) : v \in {0, 100}, r \in RelSeqs, sec \in BOOLEAN}
        \union UNION {Made(100, Taken(100, sec), sec) : sec \in BOOLEAN}

Line(a, b, p) == [start |-> a, end |-> b, path |-> p]
Single ==
    {[mods |-> {[path |-> "/bin/a", base |-> "a", id |-> "", csum |-> "s1", elf |-> e]},
      lines |-> <<Line(200, 210, "/bin/a"), Line(210, 216, ""), Line(210, 224, "/bin/a"), Line(900, 910, "[stack]")>>] :
        e \in Elfs}

Lib(p, i, c, n) ==
    [path |-> p, base |-> "lib", id |-> i, csum |-> c,
     elf |-> Elf(0, <<Fun(12, 4, "T", Main(n)), Fun(16, 4, "T", Name("mangled", n))>>, << >>, <<Rel(Main("x"), 0)>>, TRUE)]
Three(i, j, k) ==
    [mods |-> {Lib("/a/lib", i, "s1", "a"), Lib("/b/lib", j, "s2", "b"), Lib("/c/lib", k, "s3", "c")},
     lines |-> <<Line(0, 10, "/a/lib"), Line(10, 24, "/a/lib"), Line(100, 124, "/b/lib"), Line(124, 148, "/c/lib")>>]
Several == {Three(i, j, k) : i \in {"", "i1"}, j \in {"", "i2"}, k \in {"", "i3"}}

Cases == Single \union Several
===============================================================================
