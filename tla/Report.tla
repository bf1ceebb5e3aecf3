-------------------------------- MODULE Report ---------------------------------
(***************************************************************************)
(* cmds/report.c and utils/report.c: calls, total and self time of every   *)
(* function or task, sorted by keys, and the difference of two of them.    *)
(* The tree of nodes is a function from names to what is known of them.    *)
(*                                                                         *)
(* Left out: source lines, sizes, averages, percentages, the time stamps   *)
(* of extremes and the output fields.                                      *)
(***************************************************************************)
EXTENDS Fstack

VARIABLES
    nodes,      \* root: the nodes by name
    last,       \* timestamp_last of the tasks
    idle,       \* t->time: [stamp, sum] of the tasks
    base,       \* --diff: the nodes of the first data directory, once they are complete
    order       \* the rows as they are printed, from the first one

vars_report == <<nodes, last, idle, base, order>>

ReportInit ==
    /\ nodes = << >>
    /\ last = [t \in Tasks |-> 0]
    /\ idle = [t \in Tasks |-> [stamp |-> 0, sum |-> 0]]
    /\ base = [ok |-> FALSE, nodes |-> << >>]
    /\ order = << >>

MaxTime == 1000000      \* stands for -1ULL

\* init_time_stat()
NoStat == [sum |-> 0, rec |-> 0, min |-> MaxTime, max |-> 0]
NoNode == [call |-> 0, total |-> NoStat, self |-> NoStat]

\* update_time_stat()
UpdateStat(ts, time, recursive) ==
    [sum |-> IF recursive THEN ts.sum ELSE ts.sum + time,
     rec |-> IF recursive THEN ts.rec + time ELSE ts.rec,
     min |-> IF time < ts.min THEN time ELSE ts.min,
     max |-> IF time > ts.max THEN time ELSE ts.max]

\* Mutant: a call inside a call of the same function counts again.
RecursiveNot(T) == FALSE

Recursive(T) == \E i \in 0 .. T.sc - 1 : i \in Slots /\ T.fs[i].addr = T.fs[T.sc].addr

\* insert_node() and report_update_node(): the frame at stack_count goes to the node.
InsertNode(ns, T, name) ==
    LET old == IF name \in DOMAIN ns THEN ns[name] ELSE NoNode
        f == T.fs[T.sc]
        new == [call |-> old.call + 1,
                total |-> UpdateStat(old.total, f.total, Recursive(T)),
                self |-> UpdateStat(old.self, f.total - f.child, FALSE)]
    IN [x \in DOMAIN ns \cup {name} |-> IF x # name THEN ns[x] ELSE IF T.sc \in Slots THEN new ELSE old]

\* add_lost_fstack(): what was running when records got lost is reported up to then.
RECURSIVE AddLost(_, _, _)
AddLost(ns, r, t) ==
    LET T == r.t[t]
        counted == r.on /\ T.sc \in Slots /\ T.fs[T.sc].valid /\ "NORECORD" \notin T.fs[T.sc].flags
        r2 == [FstackExit(r, t) EXCEPT !.t[t].sc = @ - 1]
    IN IF T.sc < T.usc THEN [ns |-> ns, r |-> r]
       ELSE AddLost(IF counted THEN InsertNode(ns, T, T.fs[T.sc].addr) ELSE ns, r2, t)

\* One round of the loop in build_function_tree()
FunctionRecord ==
    /\ reading
    /\ \E p \in ReadRstack(rd) : \E f \in {CheckFilter(p.r, p.t, p.rec)} :
         LET t == p.t
             rec == p.rec
             T == f.r.t[t]
             lost == AddLost(nodes, f.r, t)
             counted == opts.libcall \/ opts.kind[rec.addr] # "plt"
             sched == rec.addr = "sched_in" /\ T.sc \in Slots /\ T.fs[T.sc].addr = "sched_out"
         IN /\ last' = IF rec.type = "LOST" THEN last ELSE [last EXCEPT ![t] = rec.time]
            /\ \/ ~CheckOpts(p.r, t, rec) /\ rd' = p.r /\ UNCHANGED nodes
               \/ CheckOpts(p.r, t, rec) /\ ~f.ok /\ rd' = f.r /\ UNCHANGED nodes
               \/ /\ CheckOpts(p.r, t, rec) /\ f.ok
                  /\ CASE rec.type = "ENTRY" -> rd' = CheckFilterDone(f.r, t, rec) /\ UNCHANGED nodes
                       [] rec.type = "EVENT" -> rd' = f.r /\ nodes' = IF sched THEN InsertNode(nodes, T, "linux:schedule") ELSE nodes
                       [] rec.type = "LOST" -> rd' = lost.r /\ nodes' = lost.ns
                       [] rec.type = "EXIT" -> /\ rd' = CheckFilterDone(f.r, t, rec)
                                               /\ nodes' = IF counted THEN InsertNode(nodes, T, rec.addr) ELSE nodes
    /\ UNCHANGED <<opts, reading, idle, base, order>>

\* Mutant: a function that did not return has no time.
CloseFrameLate(T, i, time) == [T EXCEPT !.fs[i].total = 0]

\* The frame i of a task that ended without leaving it, closed at `time'
CloseFrame(T, i, time) ==
    LET run == time - T.fs[i].total
        total == IF T.fs[i].child > run THEN T.fs[i].child ELSE run
        fs == [T.fs EXCEPT ![i].total = total]
    IN [T EXCEPT !.fs = IF i > 0 THEN [fs EXCEPT ![i - 1].child = @ + total] ELSE fs]

\* Frames that are not known, or begin after the last record
SkipFrame(T, time, name) ==
    T.sc \notin Slots \/ T.fs[T.sc].total > time \/ (name # "func" /\ T.fs[T.sc].addr = "none")

\* The frames that are left, from the innermost one, go to the node `name', or to those of
\* their functions.
RECURSIVE AddFrames(_, _, _, _)
AddFrames(ns, T0, time, name) ==
    LET T == [T0 EXCEPT !.sc = @ - 1]
        C == CloseFrame(T, T.sc, time)
        f == T.fs[T.sc]
    IN IF T.sc < 0 THEN ns
       ELSE IF SkipFrame(T, time, name) THEN AddFrames(ns, T, time, name)
       ELSE AddFrames(InsertNode(ns, C, IF name = "func" THEN f.addr ELSE name), C, time, name)

InTaskOrder == SetToSortSeq(Tasks, <)

\* add_remaining_fstack()
AddRemaining(ns) ==
    LET end(t) == IF opts.stop > 0 THEN opts.stop ELSE RecordTime(rd.t[t])
        one(acc, t) == AddFrames(acc, rd.t[t], end(t), "func")
    IN FoldLeft(one, ns, InTaskOrder)

\* opts.names lists all names in the order of strcmp().
NameRank(x) == CHOOSE i \in DOMAIN opts.names : opts.names[i] = x

\* cmp_node() with the sort keys: the larger value first; "func" in the order of names
RECURSIVE Before(_, _, _, _)
Before(ns, a, b, keys) ==
    LET v(x) == CASE Head(keys) = "total" -> ns[x].total.sum [] Head(keys) = "self" -> ns[x].self.sum
                  [] Head(keys) = "call" -> ns[x].call [] Head(keys) = "total_max" -> ns[x].total.max
                  [] Head(keys) = "total_min" -> ns[x].total.min [] Head(keys) = "func" -> 0 - NameRank(x)
    IN IF keys = << >> THEN FALSE
       ELSE IF v(a) # v(b) THEN v(a) > v(b) ELSE Before(ns, a, b, Tail(keys))

\* Mutant: a row goes before those that are equal, whatever their keys say later.
InsertRowFirst(ns, rows, x, keys) ==
    LET n == Cardinality({i \in DOMAIN rows : Before(ns, rows[i], x, <<Head(keys)>>)})
    IN SubSeq(rows, 1, n) \o <<x>> \o SubSeq(rows, n + 1, Len(rows))

\* insert_node() of utils/report.c: equal rows keep the order in which they come.
InsertRow(ns, rows, x, keys) ==
    LET n == Cardinality({i \in DOMAIN rows : ~Before(ns, x, rows[i], keys)})
    IN SubSeq(rows, 1, n) \o <<x>> \o SubSeq(rows, n + 1, Len(rows))

\* report_sort_nodes(); the name tree is walked in the order of opts.names.
SortNodes(ns, keys) ==
    FoldLeft(LAMBDA rows, x : InsertRow(ns, rows, x, keys), << >>, SelectSeq(opts.names, LAMBDA x : x \in DOMAIN ns))

\* report_functions(), once everything is read
FunctionEnd ==
    /\ reading /\ Peek(rd).end
    /\ reading' = FALSE
    /\ nodes' = AddRemaining(nodes)
    /\ order' = SortNodes(nodes', opts.keys)
    /\ UNCHANGED <<opts, rd, last, idle, base>>

-----------------------------------------------------------------------------
(* report --task *)

TaskName(t) == opts.tname[t]

\* One round of the loop in report_task(); entries leave the filters alone.
TaskRecord ==
    /\ reading
    /\ \E p \in ReadRstack(rd) : \E f \in {CheckFilter(p.r, p.t, p.rec)} :
         LET t == p.t
             rec == p.rec
             skipped == rec.type \in {"ENTRY", "LOST"} \/ ~CheckOpts(p.r, t, rec)
             slept == rec.time - idle[t].stamp
             done == IF rec.addr # "sched_in" THEN idle
                     ELSE [idle EXCEPT ![t] = [stamp |-> 0, sum |-> IF @.stamp # 0 THEN @.sum + slept ELSE @.sum]]
         IN /\ rd' = IF skipped THEN p.r ELSE f.r
            /\ last' = IF skipped \/ ~f.ok THEN last ELSE [last EXCEPT ![t] = rec.time]
            /\ \/ (skipped \/ ~f.ok) /\ UNCHANGED <<nodes, idle>>
               \/ ~skipped /\ f.ok /\ rec.addr = "sched_out" /\ idle' = [idle EXCEPT ![t].stamp = rec.time] /\ UNCHANGED nodes
               \/ ~skipped /\ f.ok /\ rec.type = "EVENT" /\ rec.addr \notin SchedEvents /\ UNCHANGED <<nodes, idle>>
               \/ /\ ~skipped /\ f.ok /\ (rec.type = "EXIT" \/ rec.addr = "sched_in")
                  /\ nodes' = InsertNode(nodes, f.r.t[t], TaskName(t))
                  /\ idle' = done
    /\ UNCHANGED <<opts, reading, base, order>>

\* add_remaining_task_fstack()
AddRemainingTask(ns) ==
    LET end(t) == IF opts.stop > 0 THEN opts.stop ELSE last[t]
        one(acc, t) == AddFrames(acc, rd.t[t], end(t), TaskName(t))
    IN FoldLeft(one, ns, InTaskOrder)

\* Mutant: the time a task was away stays in its CPU time.
AdjustRuntimeNot(ns) ==
    [x \in DOMAIN ns |-> [ns[x] EXCEPT !.total = ns[x].self, !.self = [sum |-> ns[x].self.sum, rec |-> 0, min |-> 0, max |-> 0]]]

\* adjust_task_runtime(): total = runtime, self = cputime
AdjustRuntime(ns) ==
    LET task(x) == CHOOSE t \in Tasks : TaskName(t) = x
    IN [x \in DOMAIN ns |-> [ns[x] EXCEPT !.total = ns[x].self,
                               !.self = [sum |-> ns[x].self.sum - idle[task(x)].sum, rec |-> 0, min |-> 0, max |-> 0]]]

TaskEnd ==
    /\ reading /\ Peek(rd).end
    /\ reading' = FALSE
    /\ nodes' = AdjustRuntime(AddRemainingTask(nodes))
    /\ order' = SortNodes(nodes', opts.keys)
    /\ UNCHANGED <<opts, rd, last, idle, base>>

-----------------------------------------------------------------------------
(* report --diff *)

\* report_diff_nodes(): a row for every function of either side; a side that does not
\* have it shows the zeroes of dummy_node.
DiffRows(b, q) ==
    LET side(ns, x) == IF x \in DOMAIN ns THEN ns[x] ELSE NoNode
    IN [x \in DOMAIN b \cup DOMAIN q |->
          [call |-> side(q, x).call - side(b, x).call,
           total |-> [sum |-> side(q, x).total.sum - side(b, x).total.sum],
           self |-> [sum |-> side(q, x).self.sum - side(b, x).self.sum]]]

\* _cmp_diff_##_name() with the default policy: the size of the difference counts.
Absolute(rows) ==
    LET abs(n) == IF n < 0 THEN 0 - n ELSE n
    IN [x \in DOMAIN rows |-> [call |-> abs(rows[x].call), total |-> [sum |-> abs(rows[x].total.sum)],
                               self |-> [sum |-> abs(rows[x].self.sum)]]]

\* Mutant: functions only the second directory has are left out.
DiffNamesBase(b, q) == SelectSeq(opts.names, LAMBDA x : x \in DOMAIN b)

\* The rows come from the first tree, and then what only the second one has.
DiffNames(b, q) ==
    SelectSeq(opts.names, LAMBDA x : x \in DOMAIN b)
    \o SelectSeq(opts.names, LAMBDA x : x \in DOMAIN q \ DOMAIN b)

\* report_diff(): the second directory is read with its own, unfiltered options ...
DiffSecond ==
    /\ reading /\ Peek(rd).end /\ ~base.ok
    /\ base' = [ok |-> TRUE, nodes |-> AddRemaining(nodes)]
    /\ opts' = [opts EXCEPT !.trig = << >>, !.tmin = 0, !.start = 0, !.stop = 0, !.off = FALSE]
    /\ rd' = NoReader
    /\ nodes' = << >>
    /\ UNCHANGED <<reading, last, idle, order>>

\* ... and then compared.
DiffEnd ==
    /\ reading /\ Peek(rd).end /\ base.ok
    /\ reading' = FALSE
    /\ nodes' = AddRemaining(nodes)
    /\ order' = LET rows == Absolute(DiffRows(base.nodes, nodes'))
                IN FoldLeft(LAMBDA acc, x : InsertRow(rows, acc, x, opts.keys), << >>, DiffNames(base.nodes, nodes'))
    /\ UNCHANGED <<opts, rd, last, idle, base>>

=============================================================================
