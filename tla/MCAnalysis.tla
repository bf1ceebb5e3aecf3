------------------------------ MODULE MCAnalysis -------------------------------
(* Small programs and the command lines that are tried on their data *)
EXTENDS Analysis

MCTasks == {1, 2}

Addrs == {"main", "foo", "bar", "fork", "lib", "fault", "read", "probe", "sys", "none", "lost", "sched_out", "sched_in", "linux:schedule"}

None == [t \in MCTasks |-> 0]

Program == [name |-> "one", tasks |-> {1}, funcs |-> {"main", "foo"}, kfuncs |-> {}, sched |-> FALSE, events |-> FALSE, levels |-> FALSE, lost |-> FALSE,
            steps |-> {1}, deep |-> 3, parent |-> None, min |-> 1, max |-> 6]

MCPrograms == {
    Program,
    [Program EXCEPT !.name = "time", !.steps = {1, 3}, !.min = 4, !.max = 4],
    [Program EXCEPT !.name = "event", !.funcs = {"main"}, !.events = TRUE, !.steps = {1, 3}, !.min = 4, !.max = 4],
    [Program EXCEPT !.name = "two", !.tasks = {1, 2}, !.deep = 2, !.min = 4, !.max = 4],
    [Program EXCEPT !.name = "kernel", !.funcs = {"main"}, !.kfuncs = {"sys"}, !.max = 6],
    [Program EXCEPT !.name = "sched", !.tasks = {1, 2}, !.funcs = {"main"}, !.sched = TRUE, !.deep = 2, !.min = 4, !.max = 4],
    [Program EXCEPT !.name = "lost", !.lost = TRUE, !.funcs = {"main"}, !.min = 5, !.max = 5],
    [Program EXCEPT !.name = "fork", !.funcs = {"main", "fork"}, !.deep = 2, !.parent = (1 :> 0 @@ 2 :> 1), !.tasks = {1, 2}, !.min = 5, !.max = 5],
    [Program EXCEPT !.name = "lib", !.funcs = {"main", "lib"}, !.min = 4, !.max = 4],
    [Program EXCEPT !.name = "range", !.funcs = {"main", "foo", "bar"}, !.levels = TRUE]}

Opts(p) ==
    [depth |-> 10, tmin |-> 0, size |-> 0, start |-> 0, stop |-> 0, off |-> FALSE, trig |-> << >>,
     kind |-> [a \in Addrs |-> CASE a = "fork" -> "fork" [] a = "lib" -> "plt" [] OTHER -> "plain"],
     fsize |-> [a \in Addrs |-> 0], caller |-> FALSE, kernel_only |-> FALSE, skip_out |-> TRUE, no_sched |-> FALSE,
     libcall |-> TRUE, parent |-> p.parent, no_merge |-> FALSE, script |-> Addrs, haskernel |-> p.kfuncs # {},
     keys |-> <<"total", "func">>, names |-> <<"bar", "foo", "fork", "lib", "linux:schedule", "main", "none", "sched_out", "sys", "t1", "t2">>,
     tname |-> (1 :> "t1" @@ 2 :> "t2"), ksyms |-> {"sys"}, func |-> "none", sample |-> 0, chrome |-> TRUE]

With(f, fields) == f :> (fields @@ NoTrigger)

\* The option sets tried with every command
Filters(p) ==
    LET o == Opts(p)
    IN CASE p.name = "one" -> {o, [o EXCEPT !.trig = With("foo", [filter |-> "in"])], [o EXCEPT !.trig = With("foo", [filter |-> "out"])],
                               [o EXCEPT !.depth = 1], [o EXCEPT !.trig = With("main", [filter |-> "in"]), !.depth = 2],
                               [o EXCEPT !.trig = With("foo", [hide |-> TRUE])]}
         [] p.name = "time" -> {[o EXCEPT !.tmin = 3], [o EXCEPT !.trig = With("foo", [time |-> 4])]}
         [] p.name = "event" -> {[o EXCEPT !.tmin = 3]}
         [] p.name = "two" -> {o, [o EXCEPT !.trig = With("foo", [filter |-> "out"])]}
         [] p.name = "kernel" -> {o, [o EXCEPT !.depth = 2], [o EXCEPT !.trig = With("sys", [filter |-> "out"])]}
         [] p.name = "lib" -> {[o EXCEPT !.libcall = FALSE]}
         [] p.name = "range" -> {[o EXCEPT !.start = 3], [o EXCEPT !.start = 2, !.stop = 4]}
         [] OTHER -> {o}

MCCommands(p) ==
    LET cmds == {"graph", "script", "report", "graph_calls", "dump"}
        o == Opts(p)
    IN [cmd : cmds, opts : Filters(p)]
       \cup [cmd : {"graph"}, opts : {[o EXCEPT !.no_merge = TRUE]}]
       \cup [cmd : {"graph_calls"}, opts : {[o EXCEPT !.func = "main"]}]
       \cup [cmd : {"dump"}, opts : {[o EXCEPT !.chrome = FALSE, !.sample = 2]}]
       \cup [cmd : {"report_task", "graph_task", "dump_raw"}, opts : IF p.name \in {"lib", "range"} THEN Filters(p) ELSE {o}]
       \cup (IF p.name \in {"one", "two"} THEN [cmd : {"flat"}, opts : {o}] ELSE {})
       \cup (IF p.name = "two" THEN [cmd : {"report_diff"}, opts : {o}] ELSE {})

=============================================================================
