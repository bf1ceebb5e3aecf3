-------------------------------- MODULE Dynamic --------------------------------
(***************************************************************************)
(* Dynamic patching (libmcount/dynamic.c with arch/x86_64/mcount-dynamic.c *)
(* and mcount-insn.c): the first instructions of a function give way to a  *)
(* call of __dentry__ and are run in another place ("out of line"), which  *)
(* needs other forms of the ones that depend on their address; a function  *)
(* with room for it (a nop) just gets a call of __fentry__.  After the     *)
(* patching the program runs; opc is where the unpatched program would be. *)
(*                                                                         *)
(* An instruction has an operation, a size and maybe a target.  What the   *)
(* other ones do (plain, and with PC-relative addresses, which are turned  *)
(* into absolute ones) is not told apart, and a call is one step.  Left    *)
(* out: XRay, other processors, names and patterns beyond a verdict.       *)
(***************************************************************************)
EXTENDS Integers, Sequences, FiniteSets, SequencesExt

CONSTANTS
    Cases,      \* the programs looked at: [prog, type, patts], with the functions of the program (sequences of
                \* [start, cet, cold, mod, insns]), its dynamic type ("none", "nop", "fentry") and the pattern
                \* list (a sequence of [funcs, positive])
    Chunk       \* CODE_CHUNK

CallSize == 5
EndbrSize == 4
BranchEntry == 16
Align(n, a) == ((n + a - 1) \div a) * a
Total(s) == FoldSeq(LAMBDA x, y : x + y, 0, s)

VARIABLES
    prog, type, patts,
    todo,       \* functions to look at, in the order of their symbols
    phase,      \* "exe", "dlopen", "run"
    bad,        \* bad_syms
    code,       \* what was done to the functions: [st, orig, copy, jump, page, pos, len, branches]
    pages,      \* code_pages: [pos, frozen]
    pc, opc

vars == <<prog, type, patts, todo, phase, bad, code, pages, pc, opc>>

Funcs == DOMAIN prog
Size(f) == Total([i \in DOMAIN prog[f].insns |-> prog[f].insns[i].size])
\* Where the code after an endbr64 starts
Base(f) == prog[f].start + IF prog[f].cet THEN EndbrSize ELSE 0
Body(f) == IF prog[f].cet THEN Tail(prog[f].insns) ELSE prog[f].insns
AddrOf(f, i) == Base(f) + Total([j \in 1 .. i - 1 |-> Body(f)[j].size])
Covers(f, a) == prog[f].start <= a /\ a < prog[f].start + Size(f)
FuncsAt(a) == {f \in Funcs : Covers(f, a)}

Jumps == {"jmp8", "jmp32", "jcc8", "jcc32"}
Jcc == {"jcc8", "jcc32"}

-----------------------------------------------------------------------------
(* disasm_check_insns() *)

\* mcount_add_badsym(): `is' tells whether the jump is a bad one.
AddBadsym(b, t) ==
    LET fs == FuncsAt(t)
    IN IF fs = {} THEN [bad |-> b, is |-> TRUE]
       ELSE LET f == CHOOSE f \in fs : TRUE
            IN IF f \in b THEN [bad |-> b, is |-> TRUE]
               ELSE IF t = prog[f].start THEN [bad |-> b, is |-> FALSE] ELSE [bad |-> b \cup {f}, is |-> TRUE]

\* The size of an instruction in its other place: handle_rel_jmp(), handle_call(), handle_pic()
CopySize(i) ==
    CASE i.op \in Jcc -> 2 [] i.op \in {"jmp8", "jmp32"} -> 14 [] i.op = "call" -> 28 [] i.op = "lea" -> 10
      [] OTHER -> i.size

\* One instruction of the prologue: check_instrumentable() and manipulate_insns()
CheckInsn(f, d, i) ==
    LET insn == Body(f)[i]
        out == insn.op \in Jumps /\ ~Covers(f, insn.tgt)
        b == IF out THEN AddBadsym(d.bad, insn.tgt) ELSE [bad |-> d.bad, is |-> FALSE]
        item == [i |-> i, off |-> d.copy_size, insn |-> insn]
    IN IF d.state # "SUCCESS" \/ d.orig >= CallSize THEN d
       ELSE IF insn.op = "ret" \/ b.is THEN [d EXCEPT !.state = "FAILED", !.bad = b.bad]
       ELSE [d EXCEPT !.bad = b.bad, !.copy = Append(@, item), !.copy_size = @ + CopySize(insn),
                      !.orig = @ + insn.size,
                      !.modified = @ \/ insn.op \in Jumps \cup {"call", "lea"},
                      !.jump = @ \/ insn.op = "call" \/ (insn.op \in {"jmp8", "jmp32"} /\ d.orig + insn.size >= CallSize)]

\* Mutant: jumps back to the prologue are allowed.
CheckRestNot(f, d, i) ==
    LET insn == Body(f)[i]
        b == AddBadsym(d.bad, insn.tgt)
    IN IF i <= Len(d.copy) \/ d.state # "SUCCESS" \/ insn.op \notin Jumps \/ Covers(f, insn.tgt) THEN d
       ELSE [d EXCEPT !.bad = b.bad, !.state = IF b.is THEN "FAILED" ELSE @]

\* One instruction after the prologue: check_unsupported()
CheckRest(f, d, i) ==
    LET insn == Body(f)[i]
        b == AddBadsym(d.bad, insn.tgt)
    IN IF i <= Len(d.copy) \/ d.state # "SUCCESS" \/ insn.op \notin Jumps THEN d
       ELSE IF prog[f].start < insn.tgt /\ insn.tgt < prog[f].start + d.orig THEN [d EXCEPT !.state = "FAILED"]
       ELSE IF Covers(f, insn.tgt) THEN d
       ELSE [d EXCEPT !.bad = b.bad, !.state = IF b.is THEN "FAILED" ELSE @]

DisasmCheck(f) ==
    LET new == [state |-> "SUCCESS", orig |-> 0, copy |-> << >>, copy_size |-> 0, modified |-> FALSE,
                jump |-> FALSE, bad |-> bad]
        all == [i \in DOMAIN Body(f) |-> i]
    IN IF f \in bad THEN [new EXCEPT !.state = "FAILED"]
       ELSE IF prog[f].cold \/ (prog[f].cet /\ Size(f) - EndbrSize <= CallSize) THEN [new EXCEPT !.state = "SKIPPED"]
       ELSE FoldLeft(LAMBDA d, i : CheckRest(f, d, i), FoldLeft(LAMBDA d, i : CheckInsn(f, d, i), new, all), all)

-----------------------------------------------------------------------------
(* mcount_save_code(): the other place is in a code page *)

\* addr_in_prologue()
InPrologue(f, d, t) == prog[f].start <= t /\ t < prog[f].start + d.orig

\* mcount_arch_branch_table_size()
TableSize(f, d) ==
    BranchEntry * Cardinality({k \in DOMAIN d.copy : d.copy[k].insn.op \in Jcc /\ ~InPrologue(f, d, d.copy[k].insn.tgt)})

JmpSize(d) == IF d.jump THEN 0 ELSE 15

\* Mutant: no room for the branch table.
PatchSizeNoTable(f, d) ==
    IF d.modified THEN Align(Align(d.copy_size + JmpSize(d), 16) + Align(d.orig, 16), 32)
    ELSE Align(d.copy_size + JmpSize(d), 32)

PatchSize(f, d) ==
    IF d.modified THEN Align(Align(d.copy_size + JmpSize(d), 16) + Align(d.orig, 16) + TableSize(f, d), 32)
    ELSE Align(d.copy_size + JmpSize(d), 32)

\* What is written there: the copy with its jump, the branch table, the original code
Regions(f, d) ==
    LET n == PatchSize(f, d)
        insn == d.copy_size + JmpSize(d)
    IN {[name |-> "insn", from |-> 0, to |-> insn]}
       \cup IF d.modified THEN {[name |-> "table", from |-> insn, to |-> insn + TableSize(f, d)],
                               [name |-> "orig", from |-> n - Align(d.orig, 16), to |-> n - Align(d.orig, 16) + d.orig]}
            ELSE {}

\* Mutant: a frozen page is used again.
NeedsPageThawed(n) == pages = << >> \/ Last(pages).pos + n > Chunk

\* A new page when there is none, when the last one is full and when it is frozen
NeedsPage(n) == pages = << >> \/ Last(pages).pos + n > Chunk \/ Last(pages).frozen

\* patch_normal_func() with mcount_save_code() and patch_code()
PatchNormal(f) ==
    LET d == DisasmCheck(f)
        n == PatchSize(f, d)
        ps == IF NeedsPage(n) THEN Append(pages, [pos |-> 0, frozen |-> FALSE]) ELSE pages
    IN /\ bad' = d.bad
       /\ IF d.state = "SUCCESS"
          THEN /\ code' = [code EXCEPT ![f] = [st |-> "ool", d |-> d, page |-> Len(ps), pos |-> Last(ps).pos,
                                               len |-> n, late |-> Last(ps).frozen]]
               /\ pages' = [ps EXCEPT ![Len(ps)].pos = @ + n]
          ELSE UNCHANGED <<code, pages>>

\* patch_fentry_code(): a nop at the start becomes a call.
PatchNop(f) ==
    /\ code' = IF Body(f)[1].op = "nop5" THEN [code EXCEPT ![f].st = "call"] ELSE code
    /\ UNCHANGED <<bad, pages>>

\* unpatch_fentry_func(): a call at the start becomes a nop (not after an endbr64).
Unpatch(f) ==
    /\ code' = IF type = "fentry" /\ ~prog[f].cet /\ code[f].st = "call" THEN [code EXCEPT ![f].st = "no"] ELSE code
    /\ UNCHANGED <<bad, pages>>

\* Mutant: the first match decides.
MatchFirst(f) ==
    LET mine == SelectSeq(patts, LAMBDA p : f \in p.funcs)
    IN IF mine = << >> THEN 0 ELSE IF Head(mine).positive THEN 1 ELSE -1

\* match_pattern_list(): the last match decides.
Match(f) ==
    LET mine == SelectSeq(patts, LAMBDA p : f \in p.funcs)
    IN IF mine = << >> THEN 0 ELSE IF Last(mine).positive THEN 1 ELSE -1

\* patch_func_matched(): one function of the module after the other
PatchFunc ==
    LET f == Head(todo)
    IN /\ phase # "run" /\ todo # << >>
       /\ todo' = Tail(todo)
       /\ CASE Match(f) = 1 /\ type = "none" /\ Size(f) > CallSize -> PatchNormal(f)
            [] Match(f) = 1 /\ type = "nop" /\ Size(f) > CallSize -> PatchNop(f)
            [] Match(f) = -1 -> Unpatch(f)
            [] OTHER -> UNCHANGED <<bad, code, pages>>
       /\ UNCHANGED <<prog, type, patts, phase, pc, opc>>

\* Mutant: functions that others jump into stay patched.
RecoveredNot == code

\* mcount_arch_dynamic_recover(): functions that others jump into get their code back.  What was
\* saved of a prologue that had to change starts at the endbr64, and it is written back after it.
Recovered ==
    [f \in Funcs |-> IF f \in bad /\ code[f].st = "ool"
                     THEN [code[f] EXCEPT !.st = IF prog[f].cet /\ code[f].d.modified THEN "shifted" ELSE "no"]
                     ELSE code[f]]

ModuleFuncs(m) == SelectSeq([f \in Funcs |-> f], LAMBDA f : prog[f].mod = m)

\* freeze_dynamic_update(); a library may be loaded later, then mcount_dynamic_dlopen() does the
\* same for it.
Finish ==
    /\ phase # "run" /\ todo = << >>
    /\ code' = Recovered /\ bad' = {}
    /\ pages' = [i \in DOMAIN pages |-> [pages[i] EXCEPT !.frozen = TRUE]]
    /\ IF phase = "exe"
       THEN phase' = "dlopen" /\ todo' = ModuleFuncs("lib") /\ UNCHANGED <<pc, opc>>
       ELSE /\ phase' = "run" /\ UNCHANGED todo
            /\ \E f \in Funcs : pc' = [in |-> 0, at |-> prog[f].start] /\ opc' = prog[f].start
    /\ UNCHANGED <<prog, type, patts>>

-----------------------------------------------------------------------------
(* The program runs *)

InsnAt(a) ==
    LET at == {<<f, i>> \in {<<f, i>> : f \in Funcs, i \in 1 .. 6} :
                 i \in DOMAIN prog[f].insns /\ a = prog[f].start + Total([j \in 1 .. i - 1 |-> prog[f].insns[j].size])}
    IN IF at = {} THEN [op |-> "invalid", size |-> 0, tgt |-> 0]
       ELSE LET x == CHOOSE x \in at : TRUE IN prog[x[1]].insns[x[2]]

Exit == -1
Code == 0
Lost == [in |-> -1, at |-> 0]
At(a) == [in |-> Code, at |-> a]
Ool(f, k) == [in |-> f, at |-> k]

\* Where the original program goes from address a
OrigNext(a, taken) ==
    LET i == InsnAt(a)
    IN CASE i.op = "ret" -> Exit
         [] i.op \in {"jmp8", "jmp32"} -> i.tgt
         [] i.op \in Jcc /\ taken -> i.tgt
         [] OTHER -> a + i.size

Patched(f, a) == code[f].st \in {"ool", "shifted"} /\ Base(f) <= a /\ a < Base(f) + code[f].d.orig
InPatch(a) == \E f \in Funcs : Patched(f, a)
PatchOf(a) == CHOOSE f \in Funcs : Patched(f, a)

\* An instruction that is where it was
RunCode(taken) ==
    /\ phase = "run" /\ pc.in = Code /\ opc # Exit /\ ~InPatch(pc.at)
    /\ pc' = At(OrigNext(pc.at, taken)) /\ opc' = OrigNext(opc, taken)
    /\ UNCHANGED <<prog, type, patts, todo, phase, bad, code, pages>>

\* The call of __dentry__, which returns to the other place (mcount_find_code()).  Anywhere else in
\* the patch, and in a prologue that was shifted, there is no instruction of the program.
RunPatch ==
    /\ phase = "run" /\ pc.in = Code /\ InPatch(pc.at)
    /\ LET f == PatchOf(pc.at) IN pc' = IF code[f].st = "ool" /\ pc.at = Base(f) THEN Ool(f, 1) ELSE Lost
    /\ UNCHANGED <<prog, type, patts, todo, phase, bad, code, pages, opc>>

\* Mutant: the branch does not take the table.
BranchDirect(f, d, k) == Ool(f, k + 1)

\* mcount_arch_patch_branch(): a conditional jump goes to an entry of the table, which goes to the
\* target; one to the prologue keeps its distance.
Branch(f, d, k) ==
    LET insn == d.copy[k].insn
        off == d.copy[k].off + 2 + (insn.tgt - (AddrOf(f, d.copy[k].i) + insn.size))
        to == {j \in DOMAIN d.copy : d.copy[j].off = off}
    IN IF ~InPrologue(f, d, insn.tgt) THEN At(insn.tgt)
       ELSE IF to = {} THEN Lost ELSE Ool(f, CHOOSE j \in to : TRUE)

\* A copied instruction
RunCopy(taken) ==
    LET f == pc.in
        d == code[f].d
        insn == d.copy[pc.at].insn
    IN /\ phase = "run" /\ pc.in \in Funcs /\ pc.at \in DOMAIN d.copy
       /\ pc' = CASE insn.op \in {"jmp8", "jmp32"} -> At(insn.tgt)
                  [] insn.op = "call" -> At(AddrOf(f, d.copy[pc.at].i) + insn.size)
                  [] insn.op \in Jcc /\ taken -> Branch(f, d, pc.at)
                  [] OTHER -> Ool(f, pc.at + 1)
       /\ opc' = OrigNext(opc, taken)
       /\ UNCHANGED <<prog, type, patts, todo, phase, bad, code, pages>>

\* The jump after the copy: patch_normal_func()
RunBack ==
    LET f == pc.in
        d == code[f].d
    IN /\ phase = "run" /\ pc.in \in Funcs /\ pc.at \notin DOMAIN d.copy
       /\ pc' = IF d.jump THEN Lost ELSE At(Base(f) + d.orig)
       /\ UNCHANGED <<prog, type, patts, todo, phase, bad, code, pages, opc>>

-----------------------------------------------------------------------------

NoCode(st) ==
    [st |-> st, d |-> [state |-> "no", orig |-> 0, copy |-> << >>, copy_size |-> 0, modified |-> FALSE, jump |-> FALSE, bad |-> {}],
     page |-> 0, pos |-> 0, len |-> 0, late |-> FALSE]

Init ==
    /\ \E c \in Cases : prog = c.prog /\ type = c.type /\ patts = c.patts
    /\ todo = ModuleFuncs("exe")
    /\ phase = "exe" /\ bad = {} /\ pages = << >>
    /\ code = [f \in Funcs |-> NoCode(IF type = "fentry" THEN "call" ELSE "no")]
    /\ pc = Lost /\ opc = Exit

Next ==
    \/ PatchFunc \/ Finish \/ RunPatch \/ RunBack
    \/ \E taken \in BOOLEAN : RunCode(taken) \/ RunCopy(taken)

Spec == Init /\ [][Next]_vars

-----------------------------------------------------------------------------
(* Properties *)

\* Where a place of the patched program is in the original one
Mapped(p) ==
    CASE p.in = Code -> p.at
      [] p.in \in Funcs /\ p.at \in DOMAIN code[p.in].d.copy -> AddrOf(p.in, code[p.in].d.copy[p.at].i)
      [] p.in \in Funcs /\ p.at \notin DOMAIN code[p.in].d.copy -> Base(p.in) + code[p.in].d.orig
      [] OTHER -> -2

\* The patched program does what the original one does: whatever branches are taken, it is at the
\* same instruction, moved or not, and never in the middle of the patch.  Programs in which a
\* prologue after an endbr64 was written back at the wrong place are not claimed to.
RunsAsBefore ==
    phase = "run" /\ (\A f \in Funcs : code[f].st # "shifted") =>
        /\ pc # Lost /\ Mapped(pc) = opc
        /\ pc.in = Code /\ InPatch(pc.at) => pc.at = Base(PatchOf(pc.at))

\* The saved codes do not overlap, in themselves and with each other, they are inside a page, and
\* nothing is written to a page that was frozen (mcount_save_code()).
SavedApart ==
    LET saved == {f \in Funcs : code[f].len > 0}
    IN /\ \A f \in saved :
            /\ \A r, q \in Regions(f, code[f].d) : r # q => r.to <= q.from \/ q.to <= r.from
            /\ \A r \in Regions(f, code[f].d) : 0 <= r.from /\ r.to <= code[f].len
            /\ code[f].pos + code[f].len <= Chunk /\ ~code[f].late
       /\ \A f, g \in saved : f # g /\ code[f].page = code[g].page =>
            code[f].pos + code[f].len <= code[g].pos \/ code[g].pos + code[g].len <= code[f].pos

\* A function is patched or unpatched as the last pattern that names it says, and left alone when
\* there is none (-P and -U; functions after an endbr64 cannot be unpatched).
PatchedAsAsked ==
    phase = "run" => \A f \in Funcs :
        LET asked == {i \in DOMAIN patts : f \in patts[i].funcs}
            last == CHOOSE i \in asked : \A j \in asked : j <= i
        IN /\ code[f].st \in {"ool", "call"} /\ type # "fentry" => asked # {} /\ patts[last].positive
           /\ type = "nop" /\ asked # {} /\ patts[last].positive => (code[f].st = "call" <=> Body(f)[1].op = "nop5")
           /\ type = "fentry" /\ ~prog[f].cet => (code[f].st = "no" <=> asked # {} /\ ~patts[last].positive)

\* Patching leaves the program as it was: it runs the same instructions, and the code that was
\* moved away stays in one piece (mcount_patch_func(), mcount_save_code()).
PatchKeepsProgram == RunsAsBefore /\ SavedApart

=============================================================================
