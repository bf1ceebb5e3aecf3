------------------------------- MODULE Analysis --------------------------------
(***************************************************************************)
(* A program is recorded and one of the commands then analyses the data:   *)
(* replay, script, report, graph and dump over the reader of module        *)
(* Fstack.  The tasks of the program write their records in any order; the *)
(* data that comes out is what libmcount (module Mcount), the kernel and   *)
(* perf leave in a data directory.                                         *)
(***************************************************************************)
EXTENDS Replay, Report, Dump

CONSTANTS
    Programs,       \* what may happen while the program runs, a set of records
    Commands(_)     \* the command lines to try on the data of a program

VARIABLES
    phase,      \* "run", "read"
    cmd,        \* the command
    prog,       \* the program, a member of Programs
    clock,
    stack,      \* functions the tasks are in, the outermost one first
    kstack,     \* ... and those of the kernel
    away,       \* tasks that are scheduled out
    data        \* [files, other]: the data directory

vars_prog == <<phase, cmd, prog, clock, stack, kstack, away, data>>
vars == <<vars_reader, vars_replay, vars_report, vars_graph, vars_dump, vars_prog>>

-----------------------------------------------------------------------------
(* The program *)

Written == FoldSet(LAMBDA t, s : s + Len(data.files[t]), Len(data.other), Tasks)

Running(t) == phase = "run" /\ Written < prog.max /\ t \in prog.tasks /\ t \notin away

Record(type, depth, addr, src, t) ==
    [type |-> type, time |-> clock, depth |-> depth, addr |-> addr, src |-> src, tid |-> t]

Tick == \E d \in prog.steps : clock' = clock + d

ToFile(t, rec) == data' = [data EXCEPT !.files[t] = Append(@, rec)]
ToOther(rec) == data' = [data EXCEPT !.other = Append(@, rec)]

\* A program without recursion, in which a function is always called at the same depth
Levels == <<"main", "foo", "bar">>

vars_cmd == <<vars_reader, vars_replay, vars_report, vars_graph, vars_dump, phase, cmd, prog>>

Enter(t) ==
    /\ Running(t) /\ kstack[t] = << >> /\ Len(stack[t]) < prog.deep
    /\ \E f \in prog.funcs :
         /\ prog.levels => f = Levels[Len(stack[t]) + 1]
         /\ ToFile(t, Record("ENTRY", Len(stack[t]), f, "user", t))
         /\ stack' = [stack EXCEPT ![t] = Append(@, f)]
    /\ Tick /\ UNCHANGED <<vars_cmd, kstack, away>>

Leave(t) ==
    /\ Running(t) /\ kstack[t] = << >> /\ stack[t] # << >>
    /\ ToFile(t, Record("EXIT", Len(stack[t]) - 1, Last(stack[t]), "user", t))
    /\ stack' = [stack EXCEPT ![t] = Front(@)]
    /\ Tick /\ UNCHANGED <<vars_cmd, kstack, away>>

KernelEnter(t) ==
    /\ Running(t) /\ Len(kstack[t]) < 2
    /\ \E f \in prog.kfuncs :
         /\ ToOther(Record("ENTRY", Len(kstack[t]), f, "kernel", t))
         /\ kstack' = [kstack EXCEPT ![t] = Append(@, f)]
    /\ Tick /\ UNCHANGED <<vars_cmd, stack, away>>

KernelLeave(t) ==
    /\ Running(t) /\ kstack[t] # << >>
    /\ ToOther(Record("EXIT", Len(kstack[t]) - 1, Last(kstack[t]), "kernel", t))
    /\ kstack' = [kstack EXCEPT ![t] = Front(@)]
    /\ Tick /\ UNCHANGED <<vars_cmd, stack, away>>

SchedOut(t) ==
    /\ Running(t) /\ prog.sched
    /\ ToOther(Record("EVENT", 0, "sched_out", "perf", t))
    /\ away' = away \cup {t}
    /\ Tick /\ UNCHANGED <<vars_cmd, stack, kstack>>

SchedIn(t) ==
    /\ phase = "run" /\ Written < prog.max /\ t \in away
    /\ ToOther(Record("EVENT", 0, "sched_in", "perf", t))
    /\ away' = away \ {t}
    /\ Tick /\ UNCHANGED <<vars_cmd, stack, kstack>>

\* Another event of perf
PerfEvent(t) ==
    /\ Running(t) /\ prog.sched
    /\ ToOther(Record("EVENT", 0, "fault", "perf", t))
    /\ Tick /\ UNCHANGED <<vars_cmd, stack, kstack, away>>

\* An event that libmcount writes to the file of the task: what a trigger reads at a call
\* (EVENT_ID_READ_*), or the user's own
FileEvent(t) ==
    /\ Running(t) /\ prog.events /\ stack[t] # << >>
    /\ \E e \in {"read", UserEvent} : ToFile(t, Record("EVENT", 0, e, "user", t))
    /\ Tick /\ UNCHANGED <<vars_cmd, stack, kstack, away>>

\* libmcount had no buffer for a while: calls or returns are missing.  The record of the
\* loss has no time, and the depth is what the place held before.  (A second loss is left out:
\* fstack_account_time() then takes the time of the loss from a slot above the stack.)
Lose(t) ==
    /\ Running(t) /\ prog.lost /\ stack[t] # << >> /\ kstack[t] = << >>
    /\ \A i \in DOMAIN data.files[t] : data.files[t][i].type # "LOST"
    /\ \E d \in 0 .. 1 : ToFile(t, [Record("LOST", d, "lost", "user", t) EXCEPT !.time = 0])
    /\ \E f \in prog.funcs : \E s \in {stack[t], Front(stack[t]), Append(stack[t], f)} : stack' = [stack EXCEPT ![t] = s]
    /\ Tick /\ UNCHANGED <<vars_cmd, kstack, away>>

\* A child comes back from fork() with the stack of its parent.
ForkChild(p, t) ==
    /\ phase = "run" /\ Written < prog.max /\ prog.parent[t] = p /\ data.files[t] = << >>
    /\ stack[p] # << >> /\ Last(stack[p]) = "fork"
    /\ ToFile(t, Record("EXIT", Len(stack[p]) - 1, "fork", "user", t))
    /\ stack' = [stack EXCEPT ![t] = Front(stack[p])]
    /\ Tick /\ UNCHANGED <<vars_cmd, kstack, away>>

\* A command is started on the data.
Start ==
    /\ phase = "run" /\ Written \in {prog.min, prog.max}
    /\ \E c \in Commands(prog) :
         /\ c.cmd = "report_diff" => data.other = << >>
         /\ cmd' = c.cmd /\ opts' = c.opts
    /\ phase' = "read" /\ reading' = TRUE
    /\ UNCHANGED <<rd, vars_replay, vars_report, vars_graph, vars_dump, prog, clock, stack, kstack, away, data>>

-----------------------------------------------------------------------------
(* The commands *)

Only(t) == [x \in Tasks |-> IF x = t THEN data.files[t] ELSE << >>]

\* open_data_file(): --diff has the data of the first task in one directory and of the
\* second one in another
Open ==
    /\ phase = "read" /\ rd = NoReader
    /\ rd' = NewReader(IF cmd = "report_diff" THEN Only(IF base.ok THEN 2 ELSE 1) ELSE data.files, data.other)
    /\ UNCHANGED <<opts, reading, vars_replay, vars_report, vars_graph, vars_dump, vars_prog>>

Opened == phase = "read" /\ rd # NoReader /\ UNCHANGED vars_prog

Shows == cmd \in {"graph", "flat", "script"} /\ Opened
           /\ (ShowRecord(cmd) \/ ShowRemaining(cmd)) /\ UNCHANGED <<vars_report, vars_graph, vars_dump>>

Counts ==
    /\ Opened /\ UNCHANGED <<vars_replay, vars_graph, vars_dump>>
    /\ \/ cmd \in {"report", "report_diff"} /\ FunctionRecord
       \/ cmd = "report" /\ FunctionEnd
       \/ cmd = "report_task" /\ (TaskRecord \/ TaskEnd)
       \/ cmd = "report_diff" /\ (DiffSecond \/ DiffEnd)

Graphs_ ==
    /\ Opened /\ UNCHANGED <<vars_replay, vars_report, vars_dump>>
    /\ \/ cmd = "graph_calls" /\ (GraphRecord \/ GraphEnd)
       \/ cmd = "graph_task" /\ (TaskGraphRecord \/ TaskGraphEnd)

Dumps ==
    /\ Opened /\ UNCHANGED <<vars_replay, vars_report>>
    /\ \/ cmd = "dump" /\ (DumpRecord \/ DumpEnd)
       \/ cmd = "dump_raw" /\ (RawRecord \/ RawOther)

-----------------------------------------------------------------------------

Init ==
    /\ prog \in Programs
    /\ phase = "run" /\ cmd = "none" /\ clock = 1
    /\ stack = [t \in Tasks |-> << >>] /\ kstack = [t \in Tasks |-> << >>] /\ away = {}
    /\ data = [files |-> [t \in Tasks |-> << >>], other |-> << >>]
    /\ opts = << >> /\ rd = NoReader /\ reading = FALSE
    /\ ReplayInit /\ ReportInit /\ GraphInit /\ DumpInit

Next ==
    \/ \E t \in Tasks : \/ Enter(t) \/ Leave(t) \/ KernelEnter(t) \/ KernelLeave(t)
                        \/ SchedOut(t) \/ SchedIn(t) \/ PerfEvent(t)
                        \/ FileEvent(t) \/ Lose(t)
    \/ \E p, t \in Tasks : ForkChild(p, t)
    \/ Start \/ Open
    \/ Shows \/ Counts \/ Graphs_ \/ Dumps

Spec == Init /\ [][Next]_vars

-----------------------------------------------------------------------------
(* What happened, from the data alone *)

\* All that is known of a task, in the order of time; being away counts as a call.
Events(t) ==
    LET all == {data.files[t][i] : i \in DOMAIN data.files[t]}
               \cup {Conv(data.other[i]) : i \in {k \in DOMAIN data.other : data.other[k].tid = t}}
    IN SetToSortSeq(all, LAMBDA a, b : a.time < b.time)

Level(E, i) == Cardinality({k \in 1 .. i - 1 : E[k].type = "ENTRY"}) - Cardinality({k \in 1 .. i - 1 : E[k].type = "EXIT"})

\* The calls in the events E: when they begin and end (0: they did not), and what they are in
CallsIn(t, E) ==
    LET begins == {i \in DOMAIN E : E[i].type = "ENTRY"}
        ends(i) == {j \in DOMAIN E : j > i /\ E[j].type = "EXIT" /\ Level(E, j) = Level(E, i) + 1}
        end(i) == IF ends(i) = {} THEN 0 ELSE CHOOSE j \in ends(i) : \A k \in ends(i) : j <= k
        outer(i) == {k \in begins : k < i /\ (end(k) = 0 \/ end(k) > i)}
        name(i) == Name(E[i].addr)
    IN {[t |-> t, at |-> E[i].time, addr |-> name(i), src |-> E[i].src,
         end |-> IF end(i) = 0 THEN 0 ELSE E[end(i)].time,
         chain |-> [k \in 1 .. Cardinality(outer(i)) |-> LET o == SetToSortSeq(outer(i), <)[k] IN [at |-> E[o].time, addr |-> name(o), src |-> E[o].src]]]
        : i \in begins}

CallsOf(t) == CallsIn(t, Events(t))

AllCalls == UNION {CallsOf(t) : t \in Tasks}

\* The last record of a task ends what is still open.
LastTime(t) == LET E == Events(t) IN E[Len(E)].time
Duration(c) == (IF c.end = 0 THEN LastTime(c.t) ELSE c.end) - c.at

Inner(c) == {d \in CallsOf(c.t) : Len(d.chain) = Len(c.chain) + 1 /\ d.chain[Len(d.chain)].at = c.at}

Trig(addr) == IF addr \in DOMAIN opts.trig THEN opts.trig[addr] ELSE NoTrigger

\* Whether -F, -N, -D and hide show a call depends on the calls it is in, and on nothing else.
Selected(c) ==
    LET names == [k \in 1 .. Len(c.chain) + 1 |-> IF k <= Len(c.chain) THEN c.chain[k].addr ELSE c.addr]
        ins == {k \in DOMAIN names : Trig(names[k]).filter = "in"}
        from == IF ins = {} THEN 1 ELSE CHOOSE k \in ins : \A m \in ins : m <= k
        above == {k \in DOMAIN names : from <= k /\ k < Len(names) /\ ~Trig(names[k]).hide}
    IN /\ \A k \in DOMAIN names : Trig(names[k]).filter # "out"
       /\ FilterModeIn => ins # {}
       /\ ~Trig(c.addr).hide
       /\ ~opts.libcall => opts.kind[c.addr] # "plt"
       /\ Cardinality(above) < opts.depth

\* Whether something happens in the course of a call
During(c, time) == c.at < time /\ (c.end = 0 \/ time < c.end)

\* ... and the time filter only on how long it took, unless the user's own event is in it.
LongEnough(c) ==
    LET names == [k \in 1 .. Len(c.chain) + 1 |-> IF k <= Len(c.chain) THEN c.chain[k].addr ELSE c.addr]
        own == {k \in DOMAIN names : Trig(names[k]).time >= 0}
        near == CHOOSE k \in own : \A m \in own : m <= k
        probes == {rec \in Range(data.files[c.t]) : rec.type = "EVENT" /\ rec.addr = UserEvent}
    IN \/ c.end = 0 \/ \E rec \in probes : During(c, rec.time)
       \/ Duration(c) >= (IF own = {} THEN opts.tmin ELSE Trig(names[near]).time)

\* What the kernel does outside of the functions of the program is left out.
Inside(c) == c.src = "user" \/ ~opts.skip_out \/ \E k \in DOMAIN c.chain : c.chain[k].src = "user"

ToShow == {c \in AllCalls : Selected(c) /\ LongEnough(c) /\ Inside(c) /\ c.addr # "linux:schedule"}

-----------------------------------------------------------------------------
(* Properties *)

Done == phase = "read" /\ ~reading

\* No record is missing or left out, and no task starts in the middle of a call.
AllThere == ~prog.lost /\ \A t \in Tasks : prog.parent[t] = 0
Complete == AllThere /\ opts.start = 0 /\ opts.stop = 0

\* Replay and scripts show exactly the calls that the options select, each of them once:
\* the filters look at the calls a function is in and at its duration, whatever other tasks,
\* the kernel or the scheduler do in between (fstack_entry(), get_task_ustack()).
ShowsSelection ==
    Done /\ cmd \in {"graph", "script"} /\ Complete =>
        LET begin == SelectSeq(lines, LAMBDA x : x.kind \in {"open", "leaf"})
        IN /\ {[t |-> begin[i].t, at |-> begin[i].at] : i \in DOMAIN begin} = {[t |-> c.t, at |-> c.at] : c \in ToShow}
           /\ Len(begin) = Cardinality(ToShow)

\* The lines are in the order of time, and every closing line carries the duration of a
\* call that ends there (fstack_account_time()); what was read at a call is shown with that
\* call, and goes with it if it is too short.
LinesAreCalls ==
    Done /\ cmd \in {"graph", "script"} /\ Complete =>
        /\ \A i \in 2 .. Len(lines) : lines[i - 1].at <= lines[i].at
        /\ \A i \in DOMAIN lines : LET x == lines[i] IN
             /\ x.kind = "close" => \E c \in CallsOf(x.t) : c.end = x.at /\ c.addr = x.addr /\ x.dur = Duration(c)
             /\ x.kind = "leaf" => \E c \in CallsOf(x.t) : c.at = x.at /\ c.addr = x.addr /\ c.end # 0 /\ x.dur = Duration(c)
             /\ x.kind = "event" /\ x.addr = "read" =>
                  LET in == {c \in CallsOf(x.t) : During(c, x.at)}
                  IN \E c \in in \cap ToShow : \A d \in in : d.at <= c.at
             /\ x.kind # "inverted"

\* The braces of task t that are open after n lines
OpenLines(t, n) ==
    FoldLeft(LAMBDA acc, x : IF x.t # t THEN acc
                             ELSE IF x.kind = "open" THEN Append(acc, x)
                             ELSE IF x.kind = "close" /\ acc # << >> THEN Front(acc) ELSE acc,
             << >>, SubSeq(lines, 1, n))

\* Reading down the lines of a task, each brace closes the one opened last, at the same
\* indentation, and what is shown is indented by the braces it is in (fstack_update()).
LinesNest ==
    Done /\ cmd \in {"graph", "script"} /\ Complete =>
        \A n \in DOMAIN lines :
            LET x == lines[n]
                o == OpenLines(x.t, n - 1)
            IN /\ x.kind = "close" => o # << >> /\ Last(o).addr = x.addr /\ Last(o).indent = x.indent
               /\ x.kind \in {"open", "leaf"} => x.indent = Len(o)

\* "uftrace stopped tracing with remaining functions" lists the calls that did not end,
\* and only those, whatever is filtered (print_remaining_stack()).
RestIsOpen ==
    Done /\ cmd \in {"graph", "flat"} /\ Complete =>
        \A t \in Tasks :
            LET open == SetToSortSeq({c \in CallsOf(t) : c.end = 0}, LAMBDA a, b : a.at > b.at)
                mine == SelectSeq(rest, LAMBDA x : x.t = t)
                only == Len(open) = 1 /\ open[1].addr = "linux:schedule"
            IN ~only => [i \in DOMAIN mine |-> Name(mine[i].addr)] = [i \in DOMAIN open |-> open[i].addr]

\* The flat list has every record of the user functions, with durations.
FlatIsComplete ==
    Done /\ cmd = "flat" /\ Complete =>
        /\ Cardinality({i \in DOMAIN lines : lines[i].kind = "ENTRY"}) = Cardinality(AllCalls)
        /\ \A i \in DOMAIN lines : lines[i].kind = "EXIT" =>
             \E c \in CallsOf(lines[i].t) : c.end = lines[i].at /\ lines[i].dur = Duration(c)

Sum(S, v(_)) == FoldSet(LAMBDA x, acc : v(x) + acc, 0, S)

\* A call that is too short is as if it was never made: its time is that of its caller.
InnerTime(c) == Sum({d \in Inner(c) : LongEnough(d)}, Duration)

\* Calls of a function that are not in another call of it
OuterMost(S) == {c \in S : \A k \in DOMAIN c.chain : c.chain[k].addr # c.addr}

\* The row of function x says what the calls say
Reported(ns, calls, x) ==
    LET cs == {c \in calls : c.addr = x}
    IN /\ ns[x].call = Cardinality(cs)
       /\ ns[x].total.sum = Sum(OuterMost(cs), Duration)
       /\ ns[x].self.sum = Sum(cs, LAMBDA c : Duration(c) - InnerTime(c))

\* The report adds up what happened: for every function the calls that were made, the time
\* they took (recursion not counted twice) and the time spent in them and not in callees.
ReportAddsUp ==
    Done /\ cmd = "report" /\ Complete /\ (\A c \in AllCalls : c.end # 0) =>
        LET calls == ToShow \cup {c \in AllCalls : c.addr = "linux:schedule" /\ Inside(c)}
        IN /\ DOMAIN nodes = {c.addr : c \in calls}
           /\ \A x \in DOMAIN nodes : Reported(nodes, calls, x)

\* ... and so it does when the program ends inside of calls, if nothing is filtered.
ReportClosesOpen ==
    Done /\ cmd = "report" /\ Complete /\ opts.trig = << >> /\ opts.depth > 3 /\ opts.tmin = 0 /\ opts.libcall /\ data.other = << >> =>
        /\ DOMAIN nodes = {c.addr : c \in AllCalls}
        /\ \A x \in DOMAIN nodes : Reported(nodes, AllCalls, x)

\* No time is counted backwards, even when records are lost or options change the stack.
NoNegativeTime ==
    /\ \A x \in DOMAIN nodes : nodes[x].total.min >= 0 /\ nodes[x].self.min >= 0 /\ nodes[x].self.sum >= 0
    /\ \A t \in Tasks : idle[t].sum >= 0

\* The rows are sorted by the keys in their order, and none is lost or shown twice.
RowsSorted ==
    Done /\ cmd \in {"report", "report_task", "report_diff"} =>
        LET names == DOMAIN nodes \cup DOMAIN base.nodes
            rows == IF cmd = "report_diff" THEN Absolute(DiffRows(base.nodes, nodes)) ELSE nodes
        IN /\ Len(order) = Cardinality(names) /\ {order[i] : i \in DOMAIN order} = names
           /\ \A i, j \in DOMAIN order : i < j => ~Before(rows, order[j], order[i], opts.keys)

\* The time of a task is that of the functions it started, and its CPU time is what is left
\* without the time it was scheduled out.
TaskTimeAddsUp ==
    Done /\ cmd = "report_task" /\ Complete /\ (\A c \in AllCalls : c.end # 0) =>
        \A t \in Tasks : TaskName(t) \in DOMAIN nodes =>
            LET top == {c \in CallsOf(t) : c.chain = << >> /\ Inside(c) /\ c.addr # "linux:schedule"}
                asleep == {c \in CallsOf(t) : c.chain # << >> /\ c.addr = "linux:schedule"}
            IN /\ nodes[TaskName(t)].total.sum = Sum(top, Duration)
               /\ nodes[TaskName(t)].self.sum = Sum(top, Duration) - Sum(asleep, Duration)

\* The path of a call through the functions that are shown
PathOf(c) ==
    LET shown == {d.at : d \in {e \in ToShow : e.t = c.t}}
        names == SelectSeq(c.chain, LAMBDA k : k.at \in shown)
    IN Append([k \in DOMAIN names |-> names[k].addr], c.addr)

\* The graph of the whole program has a node for every path that was called, with the
\* number of calls along it and the time they took.
GraphAddsUp ==
    Done /\ cmd = "graph_calls" /\ Whole /\ Complete /\ (\A c \in AllCalls : c.end # 0) =>
        LET calls == ToShow \cup {c \in AllCalls : c.addr = "linux:schedule" /\ Inside(c)}
        IN /\ DOMAIN gr.nodes = {PathOf(c) : c \in calls} \cup {<< >>}
           /\ \A p \in DOMAIN gr.nodes \ {<< >>} :
                LET cs == {c \in calls : PathOf(c) = p}
                IN gr.nodes[p].calls = Cardinality(cs) /\ gr.nodes[p].time = Sum(cs, Duration)
                   /\ gr.nodes[p].child = Sum(cs, InnerTime)

\* The graph of a function counts its outermost calls and the time in them, and the
\* backtraces say how they were reached.
GraphOfFunction ==
    Done /\ cmd = "graph_calls" /\ ~Whole /\ Complete =>
        LET cs == OuterMost({c \in AllCalls : c.addr = opts.func})
        IN /\ gr.nodes[<< >>].calls = Cardinality(cs)
           /\ gr.nodes[<< >>].time = Sum(cs, Duration)
           /\ Sum(DOMAIN gr.bt, LAMBDA b : gr.bt[b].hit) = Cardinality(cs)
           /\ Sum(DOMAIN gr.bt, LAMBDA b : gr.bt[b].time) = Sum(cs, Duration)

\* The begins of task t that are open after n events
OpenEvents(t, n) ==
    FoldLeft(LAMBDA acc, x : IF x.t # t THEN acc
                             ELSE IF x.ph = "B" THEN Append(acc, x)
                             ELSE IF x.ph = "E" /\ acc # << >> THEN Front(acc) ELSE acc,
             << >>, SubSeq(json, 1, n))

\* The events for Chrome: every end closes the last begin of its task, all are closed in
\* the end, and a single comma is between two events (do_dump_replay(), dump_chrome_*).
\* The exception is a task that ends while it is scheduled out of no function at all.
ChromeBalanced ==
    Done /\ cmd = "dump" /\ opts.chrome /\ AllThere =>
        /\ \A n \in DOMAIN json :
             LET x == json[n]
                 left(e) == e.addr = "sched_out" /\ e.t \in away /\ stack[e.t] = << >>
                 o == OpenEvents(x.t, n - 1)
             IN /\ x.ph = "E" /\ ~left(x) => o # << >> /\ Last(o).addr = Name(x.addr) /\ Last(o).ts <= x.ts
                /\ (n % 2 = 0) = (x.ph = ",")
        /\ \A t \in Tasks : OpenEvents(t, Len(json)) = << >>

\* ... and they are the calls the options select.
ChromeShowsSelection ==
    Done /\ cmd = "dump" /\ opts.chrome /\ Complete =>
        {[t |-> json[i].t, at |-> json[i].ts] : i \in {k \in DOMAIN json : json[k].ph = "B" /\ json[k].addr # "linux:schedule"}}
        = {[t |-> c.t, at |-> c.at] : c \in ToShow}

\* No time is lost in the samples of a flame graph: a function and what it calls together
\* have all the samples of its time, although each of them shows whole samples only.
SamplesKept ==
    Done /\ cmd = "dump" /\ ~opts.chrome /\ Complete =>
        \A p \in DOMAIN gr.nodes \ {<< >>} :
            LET below == {q \in DOMAIN gr.nodes : Len(q) >= Len(p) /\ SubSeq(q, 1, Len(p)) = p}
            IN Sum(below, LAMBDA q : Samples(gr, q)) >= gr.nodes[p].time \div opts.sample

\* Replay and scripts show the selected calls, as lines with the right durations that nest, and
\* the calls that did not end (print_graph_rstack(), print_remaining_stack()).
ReplayShowsCalls == ShowsSelection /\ LinesAreCalls /\ LinesNest /\ RestIsOpen /\ FlatIsComplete

\* The reports of functions and of tasks add up the calls, closed or open, none backwards, in
\* the order of the keys (report_update_node(), add_remaining_fstack()).
ReportShowsCalls == ReportAddsUp /\ ReportClosesOpen /\ NoNegativeTime /\ RowsSorted /\ TaskTimeAddsUp

\* The graphs of the program and of a function add up the calls along their paths, and the
\* samples of a flame graph their times (add_graph_entry(), adjust_fg_time()).
GraphShowsCalls == GraphAddsUp /\ GraphOfFunction /\ SamplesKept

\* The events for Chrome pair up and are those of the selected calls (do_dump_replay()).
ChromeShowsCalls == ChromeBalanced /\ ChromeShowsSelection

=============================================================================
