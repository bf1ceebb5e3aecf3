------------------------------- MODULE CallGraph -------------------------------
(***************************************************************************)
(* utils/graph.c and cmds/graph.c: the calls of all tasks added up along   *)
(* their paths.  A node of the graph is named by the path of functions     *)
(* that leads to it; << >> is the root.                                    *)
(*                                                                         *)
(* Left out: several sessions (exec), source lines and the drawing.        *)
(***************************************************************************)
EXTENDS Fstack

VARIABLES
    gr,         \* the graph: [nodes, tg (task graphs), special, bt (backtraces)]
    gprev,      \* prev_time
    run         \* graph --task: [first, last, stamp, idle, run] of the tasks

vars_graph == <<gr, gprev, run>>

NoGNode == [calls |-> 0, time |-> 0, child |-> 0, addr |-> "none", min |-> 0, max |-> 0]

\* graph_get_task(): the task is nowhere yet
NoTg == [has |-> FALSE, path |-> << >>, lost |-> FALSE, enabled |-> 0, bt |-> << >>]

NewGraph == [nodes |-> (<< >> :> NoGNode), tg |-> [t \in Tasks |-> NoTg], special |-> << >>, bt |-> << >>]

GraphInit ==
    /\ gr = NewGraph
    /\ gprev = 0
    /\ run = [t \in Tasks |-> [first |-> 0, last |-> 0, stamp |-> 0, idle |-> 0, run |-> 0]]

IsKernel(addr) == addr \in opts.ksyms

\* add_graph_entry()
AddEntry(g, T, t, name) ==
    LET tg == g.tg[t]
        path == Append(tg.path, name)
        f == T.fs[T.sc - 1]
        new == path \notin DOMAIN g.nodes
        node == IF new THEN [NoGNode EXCEPT !.addr = f.addr] ELSE g.nodes[path]
        snode == [path |-> path, addr |-> f.addr, pid |-> t]
    IN IF tg.lost \/ ~tg.has \/ T.sc - 1 \notin Slots THEN g
       ELSE [g EXCEPT !.nodes = (path :> [node EXCEPT !.calls = @ + 1]) @@ @,
                      !.tg[t].path = path,
                      !.special = IF new /\ opts.kind[f.addr] = "fork" THEN <<snode>> \o @ ELSE @]

\* update_graph_node_times()
NodeTimes(n, f) ==
    [n EXCEPT !.time = @ + f.total, !.child = @ + f.child,
              !.min = IF @ = 0 \/ f.total < @ THEN f.total ELSE @,
              !.max = IF f.total > @ THEN f.total ELSE @]

\* Where an exit is accounted: a forked child that returns from fork() finds the node of
\* its parent.  The result says which special node is used up, if any.
ExitNode(g, T, t, addr) ==
    LET path == g.tg[t].path
        found == {i \in DOMAIN g.special : g.special[i].addr = addr /\ g.special[i].pid = opts.parent[t]}
        i == CHOOSE k \in found : \A m \in found : k <= m
    IN IF g.nodes[path].addr # T.fs[T.sc].addr /\ found # {}
       THEN [path |-> g.special[i].path, special |-> RemoveAt(g.special, i)]
       ELSE [path |-> path, special |-> g.special]

Parent(path) == IF path = << >> THEN path ELSE Front(path)

\* Mutant: a caller is charged for all of the time of its callee.
AdjustedNot(nodes, path, f) == nodes

\* adjust_fg_time(): a caller is charged only for the samples its callee got.
Adjusted(nodes, path, f) ==
    LET whole == (f.total \div opts.sample) * opts.sample
    IN IF opts.sample = 0 \/ path = << >> THEN nodes
       ELSE [nodes EXCEPT ![Parent(path)].child = @ - f.total + whole]

\* Mutant: the task stays in the function it has left.
AddExitStays(g, T, t, addr) ==
    IF ~g.tg[t].has \/ T.sc \notin Slots THEN g
    ELSE [g EXCEPT !.nodes[g.tg[t].path] = NodeTimes(@, T.fs[T.sc])]

\* add_graph_exit()
AddExit(g, T, t, addr) ==
    LET e == ExitNode(g, T, t, addr)
        f == T.fs[T.sc]
        nodes == [g.nodes EXCEPT ![e.path] = NodeTimes(@, f)]
    IN IF ~g.tg[t].has \/ T.sc \notin Slots THEN g
       ELSE IF g.tg[t].lost /\ IsKernel(f.addr) THEN g
       ELSE [g EXCEPT !.nodes = Adjusted(nodes, g.tg[t].path, f), !.special = e.special,
                      !.tg[t] = [@ EXCEPT !.lost = FALSE, !.has = e.path # << >>, !.path = Parent(e.path)]]

\* graph_add_node()
AddNode(g, T, t, type, addr) ==
    CASE type = "ENTRY" -> AddEntry(g, T, t, addr)
      [] type = "EXIT" -> AddExit(g, T, t, addr)
      [] type = "EVENT" /\ addr = "sched_out" -> AddEntry(g, T, t, "linux:schedule")
      [] type = "EVENT" /\ addr = "sched_in" -> AddExit(g, T, t, addr)
      [] OTHER -> g

-----------------------------------------------------------------------------
(* graph *)

Whole == opts.func = "none"     \* full_graph

\* save_backtrace_addr(): how the function was reached
Backtrace(T) ==
    LET skip == IF opts.kernel_only THEN T.usc ELSE 0
    IN [i \in 1 .. T.sc - skip |-> IF skip + i - 1 \in Slots THEN T.fs[skip + i - 1].addr ELSE "none"]

\* Mutant: a call inside a call of the function starts another graph.
StartGraphAgain(g, T, t, addr) ==
    LET bt == Backtrace(T)
        old == IF bt \in DOMAIN g.bt THEN g.bt[bt] ELSE [hit |-> 0, time |-> 0]
    IN [g EXCEPT !.tg[t] = [@ EXCEPT !.enabled = @ + 1, !.has = TRUE, !.path = << >>, !.bt = bt],
                 !.bt = (bt :> [old EXCEPT !.hit = @ + 1]) @@ @,
                 !.nodes[<< >>] = [@ EXCEPT !.addr = addr, !.calls = @ + 1]]

\* start_graph()
StartGraph(g, T, t, addr) ==
    LET bt == Backtrace(T)
        old == IF bt \in DOMAIN g.bt THEN g.bt[bt] ELSE [hit |-> 0, time |-> 0]
    IN IF g.tg[t].enabled > 0 THEN [g EXCEPT !.tg[t].enabled = @ + 1]
       ELSE [g EXCEPT !.tg[t] = [@ EXCEPT !.enabled = 1, !.has = TRUE, !.path = << >>, !.bt = bt],
                      !.bt = IF bt = << >> THEN @ ELSE (bt :> [old EXCEPT !.hit = @ + 1]) @@ @,
                      !.nodes[<< >>] = [@ EXCEPT !.addr = addr, !.calls = @ + 1]]

\* end_graph() with save_backtrace_time()
EndGraph(g, T, t) ==
    LET bt == g.tg[t].bt
    IN CASE g.tg[t].enabled = 0 -> g
         [] g.tg[t].enabled > 1 -> [g EXCEPT !.tg[t].enabled = @ - 1]
         [] OTHER -> [g EXCEPT !.tg[t] = [@ EXCEPT !.enabled = 0, !.lost = FALSE, !.bt = << >>],
                               !.bt = IF bt # << >> /\ T.sc \in Slots THEN [@ EXCEPT ![bt].time = @ + T.fs[T.sc].total] ELSE @]

\* get_task_graph()
TaskGraph(g, T, t, addr) == IF Whole /\ ~g.tg[t].has THEN StartGraph(g, T, t, addr) ELSE g

\* build_graph_node()
BuildNode(g0, T, t, addr, type, recaddr) ==
    LET bounds(g) == IF Whole \/ addr # opts.func \/ type = "EVENT" THEN g
                     ELSE IF type = "ENTRY" THEN StartGraph(g, T, t, recaddr)
                     ELSE EndGraph(g, T, t)
        build(g) == IF ~opts.libcall /\ opts.kind[addr] = "plt" THEN g
                    ELSE bounds(IF g.tg[t].enabled > 0 THEN AddNode(g, T, t, type, addr) ELSE g)
    IN build(TaskGraph(g0, T, t, recaddr))

\* A LOST record in build_graph(): the kernel functions end there.
RECURSIVE GraphLost(_, _, _)
GraphLost(g, r, t) ==
    LET T == r.t[t]
        counted == r.on /\ T.sc \in Slots /\ T.fs[T.sc].valid /\ "NORECORD" \notin T.fs[T.sc].flags
        r2 == [FstackExit(r, t) EXCEPT !.t[t].sc = @ - 1]
    IN IF T.sc < T.usc THEN [g |-> [TaskGraph(g, T, t, "lost") EXCEPT !.tg[t].lost = TRUE], r |-> r]
       ELSE GraphLost(IF counted THEN BuildNode(g, T, t, T.fs[T.sc].addr, "EXIT", "lost") ELSE g, r2, t)

\* One round of the loop in build_graph()
GraphRecord ==
    /\ reading
    /\ \E p \in ReadRstack(rd) : \E f \in {CheckFilter(p.r, p.t, p.rec)} :
         LET t == p.t
             rec == p.rec
             taken == CheckOpts(p.r, t, rec) /\ f.ok /\ (rec.type = "EVENT" => rec.addr \in SchedEvents)
             lost == GraphLost(gr, f.r, t)
         IN \/ ~taken /\ rd' = (IF CheckOpts(p.r, t, rec) THEN f.r ELSE p.r) /\ UNCHANGED <<gr, gprev>>
            \/ /\ taken /\ rec.type = "LOST"
               /\ rd' = IF opts.skip_out /\ p.r.t[t].usc = 0 THEN f.r ELSE lost.r
               /\ gr' = IF opts.skip_out /\ p.r.t[t].usc = 0 THEN gr ELSE lost.g
               /\ UNCHANGED gprev
            \/ /\ taken /\ rec.type # "LOST" /\ gprev <= rec.time
               /\ gr' = BuildNode(gr, f.r.t[t], t, rec.addr, rec.type, rec.addr)
               /\ gprev' = rec.time
               /\ rd' = CheckFilterDone(f.r, t, rec)
    /\ UNCHANGED <<opts, reading, run>>

\* The functions of a task that are left at the end
RECURSIVE GraphRest(_, _, _, _)
GraphRest(g, T0, t, time) ==
    LET T == [T0 EXCEPT !.sc = @ - 1]
        i == T.sc
        ran == time - T.fs[i].total
        total == IF T.fs[i].child > ran THEN T.fs[i].child ELSE ran
        fs == [T.fs EXCEPT ![i].total = total]
        C == [T EXCEPT !.fs = IF i > 0 THEN [fs EXCEPT ![i - 1].child = @ + total] ELSE fs]
    IN IF i < 0 THEN g
       ELSE IF i \notin Slots THEN GraphRest(g, T, t, time)
       ELSE IF T.fs[i].addr = "none" \/ T.fs[i].total > time THEN GraphRest(g, T, t, time)
       ELSE GraphRest(BuildNode(g, C, t, T.fs[i].addr, "EXIT", T.fs[i].addr), C, t, time)

\* The time of the whole program is that of the functions it started with.
RootTime(g) ==
    LET tops == {p \in DOMAIN g.nodes : Len(p) = 1}
        sum == FoldSet(LAMBDA p, s : s + g.nodes[p].time, 0, tops)
        root == g.nodes[<< >>]
    IN IF ~Whole THEN g
       ELSE [g EXCEPT !.nodes[<< >>] = [root EXCEPT !.time = @ + sum, !.child = @ + sum,
                                                    !.min = root.time + sum, !.max = root.time + sum]]

\* The end of build_graph(), also after records out of order ("inverted time")
GraphEnd ==
    LET p == Peek(rd)
        end(t) == IF opts.stop > 0 THEN opts.stop ELSE RecordTime(rd.t[t])
        rest == FoldLeft(LAMBDA g, t : GraphRest(g, rd.t[t], t, end(t)), gr, SetToSortSeq(Tasks, <))
    IN /\ reading /\ p.end
       /\ reading' = FALSE
       /\ gr' = RootTime(rest)
       /\ UNCHANGED <<opts, rd, gprev, run>>

-----------------------------------------------------------------------------
(* graph --task *)

\* One round of the loop in graph_build_task(); the time filter is off meanwhile.
TaskGraphRecord ==
    /\ reading
    /\ \E p \in ReadRstack(rd) : \E f \in {CheckFilter(p.r, p.t, p.rec)} :
         LET t == p.t
             rec == p.rec
             R == [run[t] EXCEPT !.first = IF @ = 0 THEN rec.time ELSE @, !.last = rec.time]
             out == [R EXCEPT !.stamp = rec.time]
             in == [R EXCEPT !.stamp = 0, !.idle = IF R.stamp # 0 THEN @ + rec.time - R.stamp ELSE @]
         IN IF CheckOpts(p.r, t, rec) /\ f.ok
            THEN /\ run' = [run EXCEPT ![t] = CASE rec.addr = "sched_out" -> out
                                               [] rec.addr = "sched_in" -> in
                                               [] OTHER -> R]
                 /\ rd' = CheckFilterDone(f.r, t, rec)
            ELSE rd' = (IF CheckOpts(p.r, t, rec) THEN f.r ELSE p.r) /\ UNCHANGED run
    /\ UNCHANGED <<opts, reading, gr, gprev>>

TaskGraphEnd ==
    /\ reading /\ Peek(rd).end
    /\ reading' = FALSE
    /\ run' = [t \in Tasks |-> LET R == run[t]
                               IN [R EXCEPT !.idle = IF R.stamp # 0 THEN @ + R.last - R.stamp ELSE @,
                                            !.run = R.last - R.first]]
    /\ UNCHANGED <<opts, rd, gr, gprev>>

=============================================================================
