--------------------------------- MODULE Dump ----------------------------------
(***************************************************************************)
(* cmds/dump.c: the records in other formats.  Chrome tracing gets begin   *)
(* and end events, flame graph, graphviz and mermaid the call graph, and   *)
(* the raw dump every file by itself.                                      *)
(*                                                                         *)
(* Left out: the text of headers and footers, hex dumps and arguments.     *)
(***************************************************************************)
EXTENDS CallGraph

VARIABLES
    json,       \* traceEvents, the commas between them included
    dlast       \* timestamp_last of the tasks

vars_dump == <<json, dlast>>

DumpInit == json = << >> /\ dlast = [t \in Tasks |-> 0]

Event(t, ph, addr, ts) == [t |-> t, ph |-> ph, addr |-> addr, ts |-> ts]
Comma == Event(0, ",", "none", 0)

\* The formats share do_dump_replay(); a dump is what they have written so far.
Dumped(j, g) == [json |-> j, gr |-> g]

Name(addr) == IF addr \in SchedEvents THEN "linux:schedule" ELSE addr

\* dump_chrome_task_rstack(): a LOST record prints nothing but the comma.
Chrome(j, t, type, addr, time) ==
    LET ph == CASE type = "ENTRY" \/ (type = "EVENT" /\ addr = "sched_out") -> "B"
                [] type = "EXIT" \/ (type = "EVENT" /\ addr = "sched_in") -> "E"
                [] type = "LOST" -> "lost"
        sep == IF j = << >> THEN << >> ELSE <<Comma>>
    IN j \o sep \o <<Event(t, ph, IF type = "EVENT" THEN Name(addr) ELSE addr, time)>>

\* dump_flame_task_rstack() and its likes
Draw(g, T, t, type, addr) ==
    AddNode(IF g.tg[t].has THEN g ELSE [g EXCEPT !.tg[t].has = TRUE, !.tg[t].path = << >>], T, t, type, addr)

\* dump_replay_func() and dump_replay_event()
DumpOne(d, T, t, type, addr, time) ==
    IF type # "LOST" /\ ~opts.libcall /\ opts.kind[addr] = "plt" THEN d
    ELSE IF type = "EVENT" /\ addr \notin SchedEvents THEN d
    ELSE IF opts.chrome THEN Dumped(Chrome(d.json, t, type, addr, time), d.gr)
    ELSE Dumped(d.json, Draw(d.gr, T, t, type, addr))

\* Mutant: the function that is about to end is left out.
BeforeTopLow(T, rec) == T.sc

\* How many frames were entered before the time range
BeforeTop(T, rec) ==
    CASE rec.type = "ENTRY" -> T.sc - 1
      [] rec.type = "EXIT" -> T.sc + 1
      [] OTHER -> T.sc

\* dump_replay_func_before_range()
RECURSIVE BeforeFrom(_, _, _, _, _)
BeforeFrom(d, T, t, i, top) ==
    IF i >= top THEN d
    ELSE IF i \notin Slots THEN BeforeFrom(d, T, t, i + 1, top)
    ELSE LET f == T.fs[i]
             skip == f.addr = "none" \/ "NORECORD" \in f.flags
         IN BeforeFrom(IF skip THEN d ELSE DumpOne(d, T, t, "ENTRY", f.addr, opts.start), T, t, i + 1, top)

\* One round of the loop in do_dump_replay()
DumpRecord ==
    /\ reading
    /\ \E p \in ReadRstack(rd) : \E f \in {CheckFilter(p.r, p.t, p.rec)} :
         LET t == p.t
             rec == p.rec
             first == opts.start > 0 /\ ~p.r.t[t].dset
             T == f.r.t[t]
             checked == CheckOpts(p.r, t, rec) /\ InRange(rec.time)
             d0 == Dumped(json, gr)
             d1 == IF first THEN BeforeFrom(d0, T, t, 0, BeforeTop(T, rec)) ELSE d0
             d2 == DumpOne(d1, T, t, rec.type, rec.addr, rec.time)
         IN /\ dlast' = [dlast EXCEPT ![t] = rec.time]
            /\ IF checked /\ f.ok
               THEN rd' = CheckFilterDone(f.r, t, rec) /\ json' = d2.json /\ gr' = d2.gr
               ELSE rd' = (IF checked THEN f.r ELSE p.r) /\ UNCHANGED <<json, gr>>
    /\ UNCHANGED <<opts, reading, gprev, run>>

\* The functions a task did not leave end with its last record.
RECURSIVE DumpRest(_, _, _, _)
DumpRest(d, r0, t, time) ==
    LET r == [r0 EXCEPT !.t[t].sc = @ - 1]
        T == r.t[t]
        i == T.sc
        f == T.fs[i]
        ran == time - f.total
        total == IF f.child > ran THEN f.child ELSE ran
        fs == [T.fs EXCEPT ![i].total = total]
        c == [r EXCEPT !.t[t].fs = IF i > 0 THEN [fs EXCEPT ![i - 1].child = @ + total] ELSE fs]
        rec == [type |-> "EXIT", time |-> time, depth |-> 0, addr |-> f.addr, src |-> IF IsKernel(f.addr) THEN "kernel" ELSE "user"]
        k == CheckFilter(c, t, rec)
    IN IF i < 0 THEN d
       ELSE IF i \notin Slots THEN DumpRest(d, r, t, time)
       ELSE IF f.addr = "none" \/ f.total > time THEN DumpRest(d, r, t, time)
       ELSE IF ~CheckOpts(c, t, rec) \/ ~InRange(time) THEN DumpRest(d, c, t, time)
       ELSE IF ~k.ok THEN DumpRest(d, k.r, t, time)
       ELSE DumpRest(DumpOne(d, k.r.t[t], t, "EXIT", f.addr, time), CheckFilterDone(k.r, t, rec), t, time)

DumpEnd ==
    LET end(t) == IF opts.stop > 0 /\ opts.stop < dlast[t] THEN opts.stop ELSE dlast[t]
        rest == FoldLeft(LAMBDA d, t : DumpRest(d, rd, t, end(t)), Dumped(json, gr), SetToSortSeq(Tasks, <))
    IN /\ reading /\ Peek(rd).end
       /\ reading' = FALSE
       /\ json' = rest.json /\ gr' = rest.gr
       /\ UNCHANGED <<opts, rd, dlast, gprev, run>>

\* print_flame_graph(): how many samples a node shows
Samples(g, path) ==
    LET n == g.nodes[path]
    IN IF n.calls > 0 /\ opts.sample > 0 THEN (n.time - n.child) \div opts.sample ELSE n.calls

-----------------------------------------------------------------------------
(* The raw dump, file by file *)

\* One round of the loop over a task in do_dump_file()
RawRecord ==
    LET ready == {t \in Tasks : rd.t[t].file # << >>}
        t == CHOOSE x \in ready : \A y \in ready : x <= y
        rec == Head(rd.t[t].file)
        r0 == [rd EXCEPT !.t[t].file = Tail(@)]
        libcall == rec.type # "EVENT" /\ ~opts.libcall /\ opts.kind[rec.addr] = "plt"
    IN /\ reading /\ ready # {}
       /\ \E r \in {UpdateStackCount(AccountTime(r0, t, rec), t, rec)} : \E f \in {CheckFilter(r, t, rec)} :
            \/ ~InRange(rec.time) /\ rd' = r /\ UNCHANGED json
            \/ InRange(rec.time) /\ ~f.ok /\ rd' = f.r /\ UNCHANGED json
            \/ InRange(rec.time) /\ f.ok /\ libcall /\ rd' = CheckFilterDone(f.r, t, rec) /\ UNCHANGED json
            \/ /\ InRange(rec.time) /\ f.ok /\ ~libcall
               /\ rd' = CheckFilterDone(f.r, t, rec)
               /\ json' = Append(json, Event(t, rec.type, rec.addr, rec.time))
       /\ UNCHANGED <<opts, reading, gprev, run, gr, dlast>>

\* Then the kernel data, and after that what perf has, without any filter
RawOther ==
    LET of(src) == SelectSeq(rd.other, LAMBDA x : x.src = src)
        all == of("kernel") \o SelectSeq(of("perf"), LAMBDA x : ~(opts.no_sched /\ x.addr \in SchedEvents))
    IN /\ reading /\ \A t \in Tasks : rd.t[t].file = << >>
       /\ reading' = FALSE
       /\ json' = json \o [i \in DOMAIN all |-> Event(all[i].tid, all[i].type, all[i].addr, all[i].time)]
       /\ UNCHANGED <<opts, rd, gprev, run, gr, dlast>>

=============================================================================
