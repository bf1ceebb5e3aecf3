-------------------------------- MODULE Filter ---------------------------------
(***************************************************************************)
(* How options become a tree of triggers (utils/filter.c, argspec.c and    *)
(* auto-args.c): in the traced program (mcount_trigger_init()), by the     *)
(* agent, and, for the arguments and return values in the data, again in   *)
(* the reader (setup_fstack_args()) from what the info file keeps of them. *)
(*                                                                         *)
(* An item of an option is [names, exact, mod, out, acts]: the names that  *)
(* the pattern matches, whether it is a plain name, the module after `@',  *)
(* whether it starts with `!', and the actions.  What a pattern matches,   *)
(* numbers and colours are not looked into.  An argument spec is           *)
(* [idx, fmt, size]; idx 0 is RETVAL_IDX.                                  *)
(***************************************************************************)
EXTENDS Integers, Sequences, FiniteSets, SequencesExt

CONSTANTS
    Syms,       \* the symbols of the program, in the order of its maps: [name, start, size, mod, plt]
    Auto,       \* name |-> the spec of its arguments and return value that debug info or the built-in list has
    Items,      \* option |-> the items a user may give
    AgentItems, \* option |-> the items a client may send to the running program
    MaxItems,   \* how many of the former
    MaxLater    \* and of the latter

VARIABLES
    given,      \* option |-> its items, in order
    later,      \* what the agent was told since, as [o, item]
    turn,       \* "options", "tracee", "done"
    trig,       \* mcount_triggers: [tree, filter_count, caller_count, loc_count]
    spec        \* the reader's tree

vars == <<given, later, turn, trig, spec>>

Options == {"filter", "trigger", "argument", "retval", "location", "caller", "auto"}
Names == {Syms[i].name : i \in DOMAIN Syms}
IsRet(a) == a.idx = 0
Range1(s) == {s[i] : i \in DOMAIN s}

-----------------------------------------------------------------------------
(* The actions after `@' *)

\* actions[]: the options (other than a trigger) that an action is for
Compat(act) ==
    CASE act \in {"filter", "notrace", "depth", "hide", "if"} -> {"FILTER"}
      [] act = "caller" -> {"FILTER"}
      [] act = "arg" -> {"ARGUMENT"}
      [] act = "retval" -> {"RETVAL"}
      [] act = "clear" -> {"FILTER", "CALLER"}
      [] OTHER -> {}

\* One action: parse_*_action(), parse_argument_spec(), parse_retval_spec(), parse_clear_action()
ParseAction(tr, act, orig) ==
    IF tr.failed \/ (orig # {} /\ orig \cap Compat(act.n) = {}) THEN tr
    ELSE CASE act.n = "filter" -> [tr EXCEPT !.flags = @ \cup {"FILTER"}, !.fmode = "in"]
           [] act.n = "notrace" -> [tr EXCEPT !.flags = @ \cup {"FILTER"}, !.fmode = "out"]
           [] act.n = "depth" -> IF act.v < 0 THEN [tr EXCEPT !.failed = TRUE]
                                 ELSE [tr EXCEPT !.flags = @ \cup {"DEPTH"}, !.depth = act.v]
           [] act.n = "caller" -> [tr EXCEPT !.flags = @ \cup {"CALLER"}]
           [] act.n = "hide" -> [tr EXCEPT !.flags = @ \cup {"HIDE"}]
           [] act.n = "if" -> [tr EXCEPT !.flags = @ \cup {"CONDITION"}, !.cond = act.v]
           [] act.n = "trace_on" -> [tr EXCEPT !.flags = @ \cup {"TRACE_ON"}]
           [] act.n = "trace_off" -> [tr EXCEPT !.flags = @ \cup {"TRACE_OFF"}]
           [] act.n = "arg" -> [tr EXCEPT !.flags = @ \cup {"ARGUMENT"}, !.pargs = Append(@, act.v)]
           [] act.n = "retval" -> [tr EXCEPT !.flags = @ \cup {"RETVAL"}, !.pargs = Append(@, act.v)]
           [] act.n = "auto-args" -> [tr EXCEPT !.flags = @ \cup {"ARGUMENT", "RETVAL"}]
           [] act.n = "clear" -> [tr EXCEPT !.flags = @ \cup {"CLEAR"}, !.clear = @ \cup act.v]

\* setup_trigger_action()
TriggerAction(item, flags) ==
    LET new == [flags |-> flags, clear |-> {}, fmode |-> "none", lmode |-> "none", depth |-> 0, cond |-> 0,
                pargs |-> << >>, failed |-> FALSE]
        tr == FoldLeft(LAMBDA t, a : ParseAction(t, a, flags), new, item.acts)
    IN IF "CLEAR" \notin tr.flags THEN tr
       ELSE [tr EXCEPT !.clear = IF flags # {} THEN flags ELSE @ \ tr.flags]

-----------------------------------------------------------------------------
(* The tree *)

\* Mutant: a pattern replaces the spec of a plain name.
AddArgSpecAlways(args, a, exact) ==
    LET old == {i \in DOMAIN args : args[i].idx = a.idx}
        new == [idx |-> a.idx, fmt |-> a.fmt, size |-> a.size, exact |-> exact]
    IN IF old = {} THEN Append(args, new) ELSE [args EXCEPT ![CHOOSE i \in old : TRUE] = new]

\* add_arg_spec(): an exact match is not replaced by a regex match.
AddArgSpec(args, a, exact) ==
    LET old == {i \in DOMAIN args : args[i].idx = a.idx}
        i == CHOOSE i \in old : TRUE
        new == [idx |-> a.idx, fmt |-> a.fmt, size |-> a.size, exact |-> exact]
    IN IF old = {} THEN Append(args, new)
       ELSE IF exact \/ ~args[i].exact THEN [args EXCEPT ![i] = new] ELSE args

NoEntry == [flags |-> {}, fmode |-> "none", lmode |-> "none", depth |-> 0, cond |-> 0, args |-> << >>]

\* Mutant: the first filter stays.
UpdateTriggerFirst(e, tr, exact) ==
    [e EXCEPT !.flags = (@ \cup tr.flags) \ tr.clear,
              !.fmode = IF "FILTER" \in tr.flags /\ "FILTER" \notin e.flags THEN tr.fmode ELSE @,
              !.args = FoldLeft(LAMBDA s, a : AddArgSpec(s, a, exact), @, tr.pargs)]

\* update_trigger() on an entry; what it reads back into the trigger is ClearedMode below.
UpdateTrigger(e, tr, exact) ==
    LET cleared == (e.flags \cup tr.flags) \ tr.clear
        on == IF "TRACE_ON" \in tr.flags THEN cleared \ {"TRACE_OFF"} ELSE cleared
        off == IF "TRACE_OFF" \in tr.flags THEN on \ {"TRACE_ON"} ELSE on
        forgets == {"FILTER", "CONDITION"} \cap tr.clear # {}
    IN [e EXCEPT !.flags = off,
                 !.depth = IF "DEPTH" \in tr.flags THEN tr.depth ELSE @,
                 !.fmode = IF "FILTER" \in tr.flags /\ "FILTER" \notin tr.clear THEN tr.fmode ELSE @,
                 !.cond = IF "CONDITION" \in tr.flags THEN tr.cond ELSE IF forgets THEN 0 ELSE @,
                 !.lmode = IF "LOC" \in tr.flags THEN tr.lmode ELSE @,
                 !.args = IF tr.flags \cap {"ARGUMENT", "RETVAL"} = {} THEN @
                          ELSE FoldLeft(LAMBDA s, a : AddArgSpec(s, a, exact), @, tr.pargs)]

\* The trigger after that, for the symbols that follow: the mode of the filter that is removed,
\* which the counting goes by, and its condition goes with it.
ClearedMode(e, tr) ==
    IF "FILTER" \in tr.clear THEN [tr EXCEPT !.fmode = e.fmode, !.clear = @ \cup {"CONDITION"}] ELSE tr

\* mcount_trigger_init() sets up automatic specs only if an option at the start is about arguments
\* or return values; a trigger of the agent comes too late for that.
AutoBuilt ==
    \/ \E o \in {"argument", "retval", "auto"} : given[o] # << >>
    \/ \E i \in DOMAIN given["trigger"] : \E j \in DOMAIN given["trigger"][i].acts :
            given["trigger"][i].acts[j].n \in {"arg", "retval", "auto-args"}

\* find_auto_argspec(), find_auto_retspec()
AutoSpec(name, ret) ==
    IF name \in DOMAIN Auto /\ AutoBuilt THEN SelectSeq(Auto[name], LAMBDA a : IsRet(a) = ret) ELSE << >>

\* update_filter(): one symbol.  s is [tree, tr, n].
UpdateFilter(s, sym, exact) ==
    LET tr == s.tr
        needs(f) == f \in tr.flags /\ tr.pargs = << >>
        arg == IF needs("ARGUMENT") THEN AutoSpec(sym.name, FALSE) ELSE << >>
        ret == IF needs("RETVAL") THEN AutoSpec(sym.name, TRUE) ELSE << >>
        none == (IF needs("ARGUMENT") /\ arg = << >> THEN {"ARGUMENT"} ELSE {})
                \cup (IF needs("RETVAL") /\ ret = << >> THEN {"RETVAL"} ELSE {})
        flags == tr.flags \ none
        known == sym.start \in DOMAIN s.tree
        e == IF known THEN s.tree[sym.start] ELSE NoEntry
        now == [tr EXCEPT !.flags = flags, !.pargs = @ \o arg \o ret]
        \* the auto specs are added after the others and by themselves
        e2 == UpdateTrigger(e, now, exact)
    IN IF flags = {"AUTO_ARGS"} THEN s
       ELSE IF "AUTO_ARGS" \in flags /\ e.flags \cap (flags \ {"AUTO_ARGS"}) # {} THEN s
       ELSE [s EXCEPT !.tree = [a \in DOMAIN s.tree \cup {sym.start} |-> IF a = sym.start THEN e2 ELSE s.tree[a]],
                      !.tr = ClearedMode(e, tr), !.n = @ + 1]

\* update_trigger_entry() over the maps that the item is for
Matching(item) ==
    SelectSeq(Syms, LAMBDA sym : /\ sym.name \in item.names
                                 /\ CASE item.mod = "" -> TRUE [] item.mod = "PLT" -> sym.mod = "exe" /\ sym.plt
                                      [] OTHER -> sym.mod = item.mod)

\* Mutant: an opt-out filter is counted too.
CountedAll(t, s) ==
    [t EXCEPT !.filter_count = @ + IF "FILTER" \in s.tr.flags THEN s.n ELSE 0]

\* The counters of setup_trigger()
Counted(t, s) ==
    LET minus(f) == IF f \in s.tr.clear THEN 0 - s.n ELSE s.n
    IN [t EXCEPT !.filter_count = @ + IF "FILTER" \in s.tr.flags /\ s.tr.fmode = "in" THEN minus("FILTER") ELSE 0,
                 !.loc_count = @ + IF "LOC" \in s.tr.flags /\ s.tr.lmode = "in" THEN s.n ELSE 0,
                 !.caller_count = @ + IF "CALLER" \in s.tr.flags THEN minus("CALLER") ELSE 0]

\* setup_trigger(): one item of an option with the given flags
SetupItem(t, item, flags) ==
    LET tr == TriggerAction(item, flags)
        mode == IF item.out THEN "out" ELSE "in"
        tr2 == [tr EXCEPT !.fmode = IF "FILTER" \in flags THEN mode ELSE @, !.lmode = IF "LOC" \in flags THEN mode ELSE @]
        s == FoldLeft(LAMBDA x, sym : UpdateFilter(x, sym, item.exact), [tree |-> t.tree, tr |-> tr2, n |-> 0], Matching(item))
    IN IF tr.failed THEN t ELSE [Counted(t, s) EXCEPT !.tree = s.tree]

Setup(t, items, flags) == FoldLeft(LAMBDA x, item : SetupItem(x, item, flags), t, items)

NoTriggers == [tree |-> << >>, filter_count |-> 0, caller_count |-> 0, loc_count |-> 0]

\* uftrace_match_filter()
MatchFilter(t, addr) ==
    LET at == {i \in DOMAIN Syms : Syms[i].start <= addr /\ addr < Syms[i].start + Syms[i].size /\ Syms[i].start \in DOMAIN t.tree}
    IN IF at = {} THEN NoEntry ELSE t.tree[Syms[CHOOSE i \in at : TRUE].start]

-----------------------------------------------------------------------------
(* The traced program and the reader *)

\* The pattern for everything, of --auto-args
Every == [names |-> Names, exact |-> FALSE, mod |-> "", out |-> FALSE, acts |-> << >>]
AutoItems == IF given["auto"] = << >> THEN << >> ELSE <<Every>>

Flags(o) ==
    CASE o = "filter" -> {"FILTER"} [] o = "trigger" -> {} [] o = "argument" -> {"ARGUMENT"} [] o = "retval" -> {"RETVAL"}
      [] o = "location" -> {"LOC"} [] o = "caller" -> {"CALLER"}

\* The user adds an item to an option of the command line.
Give(o, item) ==
    /\ turn = "options" /\ Cardinality({<<p, i>> \in Options \X (1 .. MaxItems) : i \in DOMAIN given[p]}) < MaxItems
    /\ o = "auto" => given[o] = << >>
    /\ given' = [given EXCEPT ![o] = Append(@, item)]
    /\ UNCHANGED <<later, turn, trig, spec>>

\* mcount_trigger_init()
TriggerInit ==
    LET step(t, o) == Setup(t, given[o], Flags(o))
        t1 == FoldLeft(step, NoTriggers, <<"filter", "trigger", "argument", "retval", "location", "caller">>)
        t2 == Setup(t1, AutoItems, {"ARGUMENT", "AUTO_ARGS"})
    IN /\ turn = "options" /\ turn' = "tracee"
       /\ trig' = Setup(t2, AutoItems, {"RETVAL", "AUTO_ARGS"})
       /\ UNCHANGED <<given, later, spec>>

\* agent_apply_option() adds to the tree while the program runs.
AgentOption(o, item) ==
    /\ turn = "tracee" /\ Len(later) < MaxLater
    /\ later' = Append(later, [o |-> o, item |-> item])
    /\ trig' = SetupItem(trig, item, Flags(o))
    /\ UNCHANGED <<given, turn, spec>>

\* Mutant: the arguments of a trigger are left out.
ExtractArgsNot(items, ret) == << >>

\* extract_trigger_args(): what of a trigger goes to the info file; the format of a return value
\* does not.
ExtractArgs(items, ret) ==
    LET acts(item) == [i \in 1 .. Len(SelectSeq(item.acts, LAMBDA a : a.n = (IF ret THEN "retval" ELSE "arg"))) |->
                         LET a == SelectSeq(item.acts, LAMBDA x : x.n = (IF ret THEN "retval" ELSE "arg"))[i]
                         IN IF ret THEN [n |-> "retval", v |-> [idx |-> 0, fmt |-> "d", size |-> 8]] ELSE a]
        has(item, n) == \E i \in DOMAIN item.acts : item.acts[i].n = n
        of(item) == (IF acts(item) # << >> THEN <<[item EXCEPT !.mod = "", !.acts = acts(item)]>> ELSE << >>)
                    \o (IF has(item, "auto-args") THEN <<[item EXCEPT !.mod = "", !.acts = << >>]>> ELSE << >>)
    IN FoldLeft(LAMBDA s, item : s \o of(item), << >>, items)

\* setup_fstack_args(), with and without auto-args
ReadInfo ==
    LET t1 == Setup(NoTriggers, ExtractArgs(given["trigger"], FALSE) \o given["argument"], {"ARGUMENT"})
        t2 == Setup(t1, ExtractArgs(given["trigger"], TRUE) \o given["retval"], {"RETVAL"})
        t3 == Setup(t2, AutoItems, {"ARGUMENT", "AUTO_ARGS"})
    IN /\ turn = "tracee" /\ turn' = "done"
       /\ spec' = Setup(t3, AutoItems, {"RETVAL", "AUTO_ARGS"})
       /\ UNCHANGED <<given, later, trig>>

Init ==
    /\ given = [o \in Options |-> << >>]
    /\ later = << >> /\ turn = "options"
    /\ trig = NoTriggers /\ spec = NoTriggers

Next ==
    \/ \E o \in Options : \E item \in Items[o] : Give(o, item)
    \/ \E o \in DOMAIN AgentItems : \E item \in AgentItems[o] : AgentOption(o, item)
    \/ TriggerInit \/ ReadInfo

Spec == Init /\ [][Next]_vars

-----------------------------------------------------------------------------
(* Properties *)

\* The items that concern a symbol, in the order in which they are looked at
Seen(sym) ==
    LET of(o) == [i \in DOMAIN given[o] |-> [item |-> given[o][i], o |-> o]]
        all == of("filter") \o of("trigger") \o SelectSeq(later, LAMBDA x : x.o \in {"filter", "trigger"})
    IN SelectSeq(all, LAMBDA x : \E i \in DOMAIN Matching(x.item) : Matching(x.item)[i].start = sym.start)

Mode(x) ==
    LET acts == {x.item.acts[i].n : i \in DOMAIN x.item.acts}
        i == CHOOSE i \in DOMAIN x.item.acts :
               /\ x.item.acts[i].n \in {"filter", "notrace"}
               /\ \A j \in DOMAIN x.item.acts : x.item.acts[j].n \in {"filter", "notrace"} => j <= i
        bad == \E j \in DOMAIN x.item.acts : x.item.acts[j].n = "depth" /\ x.item.acts[j].v < 0
        clears == \E j \in DOMAIN x.item.acts : x.item.acts[j].n = "clear" /\ (x.o = "filter" \/ "FILTER" \in x.item.acts[j].v)
    IN CASE bad -> "same"
         [] ~bad /\ x.o = "filter" /\ clears -> "none"
         [] ~bad /\ x.o = "filter" /\ ~clears -> IF x.item.out THEN "out" ELSE "in"
         [] ~bad /\ x.o = "trigger" /\ acts \cap {"filter", "notrace"} # {} -> IF x.item.acts[i].n = "filter" THEN "in" ELSE "out"
         [] ~bad /\ x.o = "trigger" /\ acts \cap {"filter", "notrace"} = {} -> IF clears THEN "none" ELSE "same"

\* What the last of the items says of a function, opt-in, opt-out or nothing
Wanted(sym) == FoldLeft(LAMBDA m, x : IF Mode(x) = "same" THEN m ELSE Mode(x), "none", Seen(sym))

\* A function has the filter that the last option naming it gives it, whatever its other names,
\* options and patterns do, and none once it is cleared.
LastFilterHolds ==
    turn # "options" => \A i \in DOMAIN Syms :
        LET e == MatchFilter(trig, Syms[i].start)
        IN (IF "FILTER" \in e.flags THEN e.fmode ELSE "none") = Wanted(Syms[i])

Clears(item) == \E j \in DOMAIN item.acts : item.acts[j].n = "clear"
Cleared ==
    \/ \E o \in Options : \E i \in DOMAIN given[o] : Clears(given[o][i])
    \/ \E i \in DOMAIN later : Clears(later[i].item)
Both == \E i \in DOMAIN Syms : {"in", "out"} \subseteq {Mode(Seen(Syms[i])[k]) : k \in DOMAIN Seen(Syms[i])}

\* Tracing is opt-in (filter_count) exactly if some function has an opt-in filter, unless filters are
\* cleared or a function is given both ways.
OptInIfFilter ==
    turn # "options" /\ ~Cleared /\ ~Both =>
        (trig.filter_count > 0 <=> \E i \in DOMAIN Syms : MatchFilter(trig, Syms[i].start).fmode = "in")

Layout(e, ret) ==
    LET mine == SelectSeq(e.args, LAMBDA a : IsRet(a) = ret)
    IN [i \in DOMAIN mine |-> [idx |-> mine[i].idx, fmt |-> mine[i].fmt, size |-> mine[i].size]]

\* A client of the agent asked for arguments or the return value of a function, of which the info
\* file keeps nothing.
ToldSpecs(sym) ==
    \E k \in DOMAIN later :
        /\ later[k].o = "trigger" /\ \E j \in DOMAIN later[k].item.acts : later[k].item.acts[j].n \in {"arg", "retval", "auto-args"}
        /\ \E i \in DOMAIN Matching(later[k].item) : Matching(later[k].item)[i].start = sym.start

\* The reader takes the data apart as the traced program put it together: for every function that has
\* arguments or a return value in the data, none of them asked for through the agent, it has the
\* same specs in the same order.
SpecsAgree ==
    turn = "done" => \A i \in {j \in DOMAIN Syms : ~ToldSpecs(Syms[j])} :
        LET e == MatchFilter(trig, Syms[i].start)
            r == MatchFilter(spec, Syms[i].start)
        IN /\ "ARGUMENT" \in e.flags => Layout(e, FALSE) = Layout(r, FALSE)
           /\ "RETVAL" \in e.flags => Layout(e, TRUE) = Layout(r, TRUE)

\* The specs that an item of an option gives a symbol: the written ones, or the automatic ones
SpecsOf(o, item, sym) ==
    LET written(n) == LET mine == SelectSeq(item.acts, LAMBDA x : x.n = n) IN [i \in DOMAIN mine |-> mine[i].v]
        auto(n) == IF written(n) = << >> THEN AutoSpec(sym.name, n = "retval") ELSE written(n)
    IN CASE o = "argument" -> auto("arg") [] o = "retval" -> auto("retval")
         [] o = "trigger" -> IF written("arg") \o written("retval") = << >> /\ \E i \in DOMAIN item.acts : item.acts[i].n = "auto-args"
                             THEN AutoSpec(sym.name, FALSE) \o AutoSpec(sym.name, TRUE) ELSE written("arg") \o written("retval")

\* The spec of an argument is that of the last plain name if there is one, else of the last pattern
\* (or an automatic one): -A, -R and the triggers, those of the agent included.
ExactSpecHolds ==
    turn = "done" => \A i \in DOMAIN Syms : \A a \in Range1(MatchFilter(trig, Syms[i].start).args) :
        LET says(items, o, exact) ==
                LET per(item) ==
                        LET mine == SelectSeq(Matching(item), LAMBDA sym : sym.start = Syms[i].start)
                        IN IF item.exact # exact THEN << >>
                           ELSE FoldLeft(LAMBDA s, sym : s \o SelectSeq(SpecsOf(o, item, sym), LAMBDA x : x.idx = a.idx), << >>, mine)
                IN FoldLeft(LAMBDA s, item : s \o per(item), << >>, items)
            option == IF IsRet(a) THEN "retval" ELSE "argument"
            told == SelectSeq(later, LAMBDA x : x.o = "trigger")
            all(exact) == says(given["trigger"], "trigger", exact) \o says(given[option], option, exact)
                          \o says([k \in DOMAIN told |-> told[k].item], "trigger", exact)
        IN /\ all(TRUE) # << >> => a.fmt = Last(all(TRUE)).fmt
           /\ all(TRUE) = << >> /\ all(FALSE) # << >> => a.fmt = Last(all(FALSE)).fmt

\* Options, environment and agent end in the triggers that were asked for, and in specs that
\* the traced program and the reader agree on (update_trigger(), setup_fstack_args()).
SettingsHold == LastFilterHolds /\ OptInIfFilter /\ SpecsAgree /\ ExactSpecHolds

===============================================================================
