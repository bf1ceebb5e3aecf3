-------------------------------- MODULE Symbol ---------------------------------
(***************************************************************************)
(* The symbol tables of utils/symbol.c: how the recorder makes one of the  *)
(* ELF file of a module, saves it in the data directory, and how a reader  *)
(* finds the table of a mapping again and a symbol in it.                  *)
(*                                                                         *)
(* One table holds the functions of the module and the slots of its PLT,   *)
(* whose addresses are computed from the order of the relocations.  Tables *)
(* are saved under the module's base name, so modules of the same base     *)
(* name get a suffix, made of the build-id or else of a sum of the path.   *)
(*                                                                         *)
(* Left out: data symbols, the search by name, kallsyms, Python's table,   *)
(* separate debug files, the PLT layouts of other linkers and machines.    *)
(***************************************************************************)
EXTENDS Integers, Sequences, SequencesExt, FiniteSets

CONSTANTS
    Cases       \* recordings: [mods: modules, lines: the map file of the session]

VARIABLES
    case,       \* the recording
    phase,      \* "load" and "save" (the recorder), "read" (the reader), "end"
    todo,       \* modules the phase has still to do
    tabs,       \* the recorder's tables
    files,      \* the .sym files of the data directory
    loaded      \* the reader's tables

vars == <<case, phase, todo, tabs, files, loaded>>

Ent == 4        \* plt_entsize, in units of the model's addresses
None == [kind |-> "none"]

\* Names: "plain", "under" (starts with '_'), "mangled" (starts with "_Z"), "empty"
Underscore(n) == n.kind \in {"under", "mangled"}
Demangle(n) == IF n.kind = "mangled" THEN [n EXCEPT !.kind = "plain"] ELSE n

ByAddr(t) ==    \* qsort() with addrsort(), which glibc does as a merge sort
    LET order == SetToSortSeq(DOMAIN t, LAMBDA i, j : t[i].addr < t[j].addr \/ (t[i].addr = t[j].addr /\ i < j))
    IN  [i \in DOMAIN t |-> t[order[i]]]

\* bsearch() with addrfind(), in t[l + 1 .. u]
RECURSIVE Bsearch(_, _, _, _)
Bsearch(t, a, l, u) ==
    IF l >= u THEN 0
    ELSE LET i == (l + u) \div 2 + 1
         IN  IF t[i].addr <= a /\ a < t[i].addr + t[i].size THEN i
             ELSE IF t[i].addr > a THEN Bsearch(t, a, l, i - 1) ELSE Bsearch(t, a, i, u)

\* find_sym()
FindSym(t, a) == LET i == Bsearch(t, a, 0, Len(t)) IN IF i = 0 THEN None ELSE t[i].name

--------------------------------------------------------------------------------
(* The table of an ELF file: [vaddr, syms, dyn, plt, rels, pltsec]           *)

\* load_symbol(): an alias is skipped where it follows its twin
LoadSymbol(elf, s, e) ==
    IF e.undef \/ e.size = 0 \/ e.value = s.prev THEN s
    ELSE [tab |-> Append(s.tab, [addr |-> e.value - elf.vaddr, size |-> e.size,
                                 type |-> e.bind, name |-> e.name]),
          prev |-> e.value]

\* "prefer names not started by '_' (if not mangled)"
BestName(best, s) ==
    IF best.kind = "under" /\ ~Underscore(s.name) THEN s.name ELSE best

\* sort_symtab(): of the symbols of one address the last one stays, under the best name
SortSymtab(t) ==
    LET s == ByAddr(t)
        addrs == SetToSortSeq({t[i].addr : i \in DOMAIN t}, <)
        Twins(a) == SelectSeq(s, LAMBDA e : e.addr = a)
    IN  [i \in DOMAIN addrs |->
            LET g == Twins(addrs[i])
            IN  [Last(g) EXCEPT !.name = FoldLeft(BestName, g[1].name, g)]]

\* load_symtab(): "fallback to dynamic symbol table when there's no symbol table"
LoadSymtab(elf) ==
    LET Load(s, e) == LoadSymbol(elf, s, e)
        src == IF elf.syms # << >> THEN elf.syms ELSE elf.dyn
    IN  SortSymtab(FoldLeft(Load, [tab |-> << >>, prev |-> -1], src).tab)

\* Mutant: a slot whose address the symbol holds is not the one before the next.
LoadDynSymbolSkip(elf, s, r) ==
    IF r.name.kind = "empty" THEN s
    ELSE LET a == IF r.value # 0 THEN r.value - elf.vaddr ELSE s.prev + Ent
         IN  [tab |-> Append(s.tab, [addr |-> a, size |-> Ent, type |-> "P", name |-> r.name]),
              prev |-> IF r.value # 0 THEN s.prev ELSE a]
\* load_dyn_symbol(): the PLT slot of a relocation is the next one, unless the symbol holds
\* the address
LoadDynSymbol(elf, s, r) ==
    IF r.name.kind = "empty" THEN s
    ELSE LET a == IF r.value # 0 THEN r.value - elf.vaddr ELSE s.prev + Ent
         IN  [tab |-> Append(s.tab, [addr |-> a, size |-> Ent, type |-> "P", name |-> r.name]), prev |-> a]

\* load_elf_dynsymtab(): .plt starts with a slot for the resolver, .plt.sec does not
LoadDynsymtab(elf) ==
    LET Load(s, r) == LoadDynSymbol(elf, s, r)
        plt == elf.plt - elf.vaddr
    IN  FoldLeft(Load, [tab |-> << >>, prev |-> IF elf.pltsec THEN plt - Ent ELSE plt], elf.rels).tab

\* merge_symtabs()
MergeSymtabs(l, r) == IF r = << >> THEN l ELSE IF l = << >> THEN ByAddr(r) ELSE ByAddr(l \o r)

\* update_symtab_using_dynsym()
UpdateName(elf, t, e) ==
    LET i == Bsearch(t, e.value - elf.vaddr, 0, Len(t)) IN
    IF e.undef \/ i = 0 THEN t
    ELSE IF (~Underscore(t[i].name) /\ Underscore(e.name)) \/ t[i].name.kind = "mangled" THEN t
    ELSE [t EXCEPT ![i].name = e.name]
UpdateSymtab(elf, t) ==
    LET Update(u, e) == UpdateName(elf, u, e) IN FoldLeft(Update, t, elf.dyn)

LoadElf(elf) == UpdateSymtab(elf, MergeSymtabs(LoadSymtab(elf), LoadDynsymtab(elf)))

--------------------------------------------------------------------------------
(* The symbol files                                                         *)

\* make_new_symbol_filename()
NewName(m) == <<m.base, IF m.id # "" THEN m.id ELSE m.csum>>

\* Mutant: only the path tells whether the file is the module's.
SaveFileSamePath(fs, m, t) ==
    LET c == [path |-> m.path, id |-> m.id, syms |-> t]
        f == <<m.base, "">>
    IN  IF t = << >> THEN fs
        ELSE IF f \notin DOMAIN fs THEN [g \in DOMAIN fs \union {f} |-> IF g = f THEN c ELSE fs[g]]
        ELSE fs
\* save_module_symbol_file(): a file is never written twice
SaveFile(fs, m, t) ==
    LET c == [path |-> m.path, id |-> m.id, syms |-> t]
        f == <<m.base, "">>
        With(name) == [g \in DOMAIN fs \union {name} |-> IF g = name THEN c ELSE fs[g]]
    IN  IF t = << >> THEN fs
        ELSE IF f \notin DOMAIN fs THEN With(f)
        ELSE IF (fs[f].path = m.path /\ fs[f].id = m.id) \/ NewName(m) \in DOMAIN fs THEN fs
        ELSE With(NewName(m))

\* Mutant: weak symbols are not among the types that are read.
ReadLineNoWeak(s, e) ==
    IF e.type \in {"?", "w"} \/ (e.addr = s.addr /\ e.type = s.type) THEN s
    ELSE [tab |-> Append(s.tab, [e EXCEPT !.name = Demangle(@)]), addr |-> e.addr, type |-> e.type]
\* load_module_symbol_file(): a line; names are demangled here
ReadLine(s, e) ==
    IF e.addr = s.addr /\ e.type = s.type THEN s
    ELSE [tab |-> IF e.type = "?" THEN s.tab ELSE Append(s.tab, [e EXCEPT !.name = Demangle(@)]),
          addr |-> e.addr, type |-> e.type]
ReadFile(c) ==
    ByAddr(FoldLeft(ReadLine, [tab |-> << >>, addr |-> -1, type |-> "X"], c.syms).tab)

\* load_module_symbol(), with SYMTAB_FL_USE_SYMFILE; without a file it reads the ELF file
LoadModule(m) ==
    LET f == <<m.base, "">>
        other == /\ f \in DOMAIN files
                 /\ \/ files[f].path # m.path
                    \/ files[f].id # "" /\ m.id # "" /\ files[f].id # m.id
        g == IF other THEN NewName(m) ELSE f
        t == IF g \in DOMAIN files THEN ReadFile(files[g]) ELSE << >>
    IN  IF t # << >> THEN t ELSE LoadElf(m.elf)

--------------------------------------------------------------------------------
(* The mappings of a session                                                *)

\* Mutant: each segment is a mapping of its own.
AddLineEach(maps, l) ==
    IF l.path \in {"", "[stack]"} THEN maps
    ELSE Append(maps, [start |-> l.start, end |-> l.end, path |-> l.path])
\* read_session_map(): "extend last_map to have all segments"
AddLine(maps, l) ==
    IF l.path \in {"", "[stack]"} THEN maps
    ELSE IF maps # << >> /\ Last(maps).path = l.path
         THEN [maps EXCEPT ![Len(maps)].end = l.end]
         ELSE Append(maps, [start |-> l.start, end |-> l.end, path |-> l.path])
ReadMap(lines) == FoldLeft(AddLine, << >>, lines)

\* find_map()
FindMap(maps, a) == SelectInSeq(maps, LAMBDA p : p.start <= a /\ a < p.end)

\* find_symtabs(): "use relative address for module symtab"
FindSymtabs(a) ==
    LET maps == ReadMap(case.lines)
        i == FindMap(maps, a)
    IN  IF i = 0 THEN None
        ELSE FindSym(loaded[CHOOSE m \in case.mods : m.path = maps[i].path], a - maps[i].start)

--------------------------------------------------------------------------------
(* The recorder and the reader                                              *)

Init ==
    /\ case \in Cases
    /\ phase = "load"
    /\ todo = case.mods
    /\ tabs = [m \in case.mods |-> << >>]
    /\ files = << >>
    /\ loaded = [m \in case.mods |-> << >>]

\* The phase has done m
Done(m, next) ==
    IF todo = {m} THEN todo' = (IF next = "end" THEN {} ELSE case.mods) /\ phase' = next
    ELSE todo' = todo \ {m} /\ phase' = phase

\* load_module_symtab() in write_symbol_files()
Load(m) ==
    /\ phase = "load"
    /\ tabs' = [tabs EXCEPT ![m] = LoadElf(m.elf)]
    /\ Done(m, "save")
    /\ UNCHANGED <<case, files, loaded>>

\* save_module_symtabs()
Save(m) ==
    /\ phase = "save"
    /\ files' = SaveFile(files, m, tabs[m])
    /\ Done(m, "read")
    /\ UNCHANGED <<case, tabs, loaded>>

\* load_module_symtab() in load_module_symtabs() or find_symtabs()
Read(m) ==
    /\ phase = "read"
    /\ loaded' = [loaded EXCEPT ![m] = LoadModule(m)]
    /\ Done(m, "end")
    /\ UNCHANGED <<case, tabs, files>>

Next == \E m \in todo : Load(m) \/ Save(m) \/ Read(m)

Spec == Init /\ [][Next]_vars

--------------------------------------------------------------------------------
(* Properties                                                               *)

\* What the linker made of a module: functions, and a PLT slot for every relocation
Functions(elf) == {e \in Range(elf.syms) \union Range(elf.dyn) : ~e.undef /\ e.size > 0 /\ e.bind # "?"}
Slot(elf, i) == elf.plt + Ent * (IF elf.pltsec THEN i - 1 ELSE i)
Covers(e, v) == e.value <= v /\ v < e.value + e.size
NamesAt(elf, v) ==
    {Demangle(e.name) : e \in {f \in Functions(elf) : \E g \in Functions(elf) : Covers(g, v) /\ f.value = g.value}}
    \union {Demangle(elf.rels[i].name) : i \in {j \in DOMAIN elf.rels :
                elf.rels[j].name.kind # "empty" /\ Slot(elf, j) <= v /\ v < Slot(elf, j) + Ent}}

Base(m) == LET i == SelectInSeq(case.lines, LAMBDA l : l.path = m.path) IN case.lines[i].start

\* find_symtabs() gives every address of a mapped module the name of the function or of the
\* PLT slot that the linker put there, and nothing where there is none: through the map file,
\* the table of the ELF file and the .sym file that is the module's own.
AddressesResolve ==
    phase = "end" => \A m \in case.mods : \A v \in m.elf.vaddr..(m.elf.vaddr + m.elf.len - 1) :
        LET found == FindSymtabs(Base(m) + v - m.elf.vaddr)
            names == NamesAt(m.elf, v)
        IN  IF names = {} THEN found = None ELSE found \in names

\* A reader finds the names under which the recorder knew the functions, demangled: what is
\* in a .sym file is what load_module_symbol_file() reads.
SameNames ==
    phase = "end" => \A m \in case.mods : \A i \in DOMAIN tabs[m] :
        LET s == tabs[m][i]
        IN  s.type # "?" => FindSym(loaded[m], s.addr) = Demangle(FindSym(tabs[m], s.addr))

\* No file holds the symbols of two modules or of another than it says, and every module of
\* the recording that has symbols finds a file with its own (unit tests symbol_same_file_name1
\* and symbol_same_file_name2).
EveryModuleSaved ==
    phase \in {"read", "end"} => \A m \in case.mods :
        tabs[m] # << >> => \E f \in DOMAIN files : /\ files[f].path = m.path /\ files[f].id = m.id
                                                  /\ files[f].syms = tabs[m]

\* An address has the same, right name in the recorder and in the reader, whatever modules
\* share names and files (load_symtab(), save_module_symbol_file()).
SymbolsFound == AddressesResolve /\ SameNames /\ EveryModuleSaved

================================================================================
