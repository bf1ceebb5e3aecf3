---------------------------- MODULE CpuTraceCases ----------------------------
(* Machines and requests for CpuTrace                                        *)
EXTENDS Integers

Sources == {"kernel", "perf"}
OldKernel == {"set_event_pid", "set_graph_notrace", "event-fork", "function-fork"}

Busy(k, p) == [s \in Sources |-> IF s = "kernel" THEN k ELSE p]
Base == [kernel |-> TRUE, perf |-> FALSE, events |-> FALSE, remote |-> FALSE,
         missing |-> {}, refused |-> {}, busy |-> Busy({0, 1, 2}, {}), max |-> 2]
Runs ==
    {Base, [Base EXCEPT !.perf = TRUE, !.busy = Busy({0, 2}, {2}), !.max = 1],
     [Base EXCEPT !.perf = TRUE, !.busy = Busy({1}, {0}), !.max = 3],
     [Base EXCEPT !.kernel = FALSE, !.perf = TRUE, !.busy = Busy({}, {1, 2}), !.max = 3]}
Machines ==
    {[Base EXCEPT !.kernel = k, !.events = ~k, !.missing = m, !.refused = {r}, !.busy = Busy({}, {})] :
        k \in BOOLEAN, m \in {{}, OldKernel, {"set_graph_function"}, {"tracing_on"}},
        r \in {"trace", "trace_clock", "current_tracer", "set_event", "buffer_size_kb", "function-fork"}}
Cases == Runs \union Machines
==============================================================================
