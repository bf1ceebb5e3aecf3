-------------------------------- MODULE Replay ---------------------------------
(***************************************************************************)
(* cmds/replay.c and cmds/script.c: the commands that show the records one *)
(* after another.  A line of output is a record: its task, what it shows   *)
(* (a call that opens, closes or does both, an event, a loss), where it is *)
(* indented to, the time of the record and the duration printed with it.   *)
(*                                                                         *)
(* Left out: colours, columns, fields other than the duration, arguments.  *)
(***************************************************************************)
EXTENDS Fstack

VARIABLES
    lines,      \* what is printed, in order
    prev,       \* prev_time
    rest        \* what print_remaining_stack() prints

vars_replay == <<lines, prev, rest>>

ReplayInit == lines = << >> /\ prev = 0 /\ rest = << >>

Line(t, kind, addr, indent, at, dur) ==
    [t |-> t, kind |-> kind, addr |-> addr, indent |-> indent, at |-> at, dur |-> dur]

NoTime == -1

LibcallSkipped(rec) == ~opts.libcall /\ opts.kind[rec.addr] = "plt"

\* A call on one line: r has taken its exit, too; its frame is at i.
PrintLeaf(r, t, rec, depth, i) ==
    [r |-> FstackExit(r, t), out |-> <<Line(t, "leaf", rec.addr, depth, rec.time, r.t[t].fs[i].total)>>]

\* A call that is shown; n is what fstack_skip() found behind its entry.
PrintCall(T, t, rec, n) ==
    IF n.t = t /\ n.rec.depth = rec.depth /\ n.rec.type = "EXIT"
    THEN PrintLeaf(Consume(n.r, t, n.rec), t, rec, T.dd, T.sc - 1)
    ELSE [r |-> UpdateEntry(n.r, t), out |-> <<Line(t, "open", rec.addr, T.dd, rec.time, NoTime)>>]

PrintEntered(e, t, rec) ==
    IF ~e.ok THEN [r |-> e.r, out |-> << >>]
    ELSE PrintCall(e.r.t[t], t, rec,
                   IF opts.no_merge THEN [r |-> e.r, t |-> 0] ELSE FstackSkip(e.r, t, rec.depth, rec.src))

\* An entry in print_graph_rstack(): a call whose exit is the next record to be
\* shown is printed on one line.
PrintEntry(r, t, rec) == PrintEntered(FstackEntry(r, t, rec), t, rec)

\* Mutant: the indentation is not taken back for the closing line.
PrintExitNoUpdate(r, t, rec) ==
    LET i == r.t[t].sc
    IN IF r.on /\ i \in Slots /\ "NORECORD" \notin r.t[t].fs[i].flags
       THEN [r |-> FstackExit(r, t), out |-> <<Line(t, "close", rec.addr, r.t[t].dd, rec.time, r.t[t].fs[i].total)>>]
       ELSE [r |-> FstackExit(r, t), out |-> << >>]

\* ... and an exit
PrintExit(r, t, rec) ==
    LET i == r.t[t].sc
        u == UpdateExit(r, t)
    IN IF r.on /\ i \in Slots /\ "NORECORD" \notin r.t[t].fs[i].flags
       THEN [r |-> FstackExit(u, t), out |-> <<Line(t, "close", rec.addr, u.t[t].dd, rec.time, u.t[t].fs[i].total)>>]
       ELSE [r |-> FstackExit(r, t), out |-> << >>]

\* A switch to another task and back is shown on one line when nothing is in between.
PrintEvent(r0, t, rec) ==
    LET merge == rec.addr = "sched_out" /\ ~opts.no_merge
        event(r, both) ==
            LET i == r.t[t].sc
                dur == IF (both \/ rec.addr = "sched_in") /\ r.t[t].fs[i].total # 0
                       THEN r.t[t].fs[i].total ELSE NoTime
                out == <<Line(t, "event", IF both THEN "sched_both" ELSE rec.addr, r0.t[t].dd, rec.time, dur)>>
            IN [r |-> r, out |-> IF r.on /\ i \in Slots /\ "NORECORD" \notin r.t[t].fs[i].flags
                                 THEN out ELSE << >>]
        next(n) == IF n.t = t /\ n.rec.addr = "sched_in" THEN event(Consume(n.r, t, n.rec), TRUE) ELSE event(n.r, FALSE)
        checked(f) == IF ~f.ok THEN [r |-> f.r, out |-> << >>]
                      ELSE next(IF merge THEN FstackSkip(f.r, t, 0, rec.src) ELSE [r |-> f.r, t |-> 0])
    IN checked(CheckFilter(r0, t, rec))

\* print_graph_rstack()
PrintGraph(r, t, rec) ==
    CASE rec.type = "LOST" ->
           [r |-> r, out |-> IF opts.skip_out /\ r.t[t].usc = 0 THEN << >>
                             ELSE <<Line(t, "lost", "lost", r.t[t].dd + 1, rec.time, NoTime)>>]
      [] rec.type # "LOST" /\ LibcallSkipped(rec) -> [r |-> r, out |-> << >>]
      [] rec.type = "ENTRY" /\ ~LibcallSkipped(rec) -> PrintEntry(r, t, rec)
      [] rec.type = "EXIT" /\ ~LibcallSkipped(rec) -> PrintExit(r, t, rec)
      [] rec.type = "EVENT" /\ ~LibcallSkipped(rec) -> PrintEvent(r, t, rec)

\* print_flat_rstack(): no filters, and the duration is that of the slot the record names.
PrintFlat(r, t, rec) ==
    LET dur == IF rec.type = "EXIT" THEN r.t[t].fs[rec.depth].total ELSE NoTime
    IN [r |-> r, out |-> IF rec.depth \notin Slots \/ LibcallSkipped(rec) THEN << >>
                         ELSE <<Line(t, rec.type, rec.addr, rec.depth, rec.time, dur)>>]

\* run_script_for_rstack(): the hooks of the script are called.
RunScript(r, t, rec) ==
    LET e == FstackEntry(r, t, rec)
        i == r.t[t].sc
        u == UpdateExit(r, t)
        hook(kind, depth, dur) == IF rec.addr \in opts.script THEN <<Line(t, kind, rec.addr, depth, rec.time, dur)>> ELSE << >>
    IN CASE rec.type # "LOST" /\ LibcallSkipped(rec) -> [r |-> r, out |-> << >>]
         [] rec.type = "ENTRY" /\ ~LibcallSkipped(rec) ->
              IF e.ok THEN [r |-> UpdateEntry(e.r, t), out |-> hook("open", e.r.t[t].dd, NoTime)]
              ELSE [r |-> e.r, out |-> << >>]
         [] rec.type = "EXIT" /\ ~LibcallSkipped(rec) ->
              IF r.on /\ i \in Slots /\ "NORECORD" \notin r.t[t].fs[i].flags
              THEN [r |-> FstackExit(u, t), out |-> hook("close", u.t[t].dd, u.t[t].fs[i].total)]
              ELSE [r |-> FstackExit(r, t), out |-> << >>]
         [] rec.type = "EVENT" /\ ~LibcallSkipped(rec) ->
              [r |-> r, out |-> <<Line(t, "event", rec.addr, rec.depth, rec.time, NoTime)>>]
         [] OTHER -> [r |-> r, out |-> << >>]

\* print_warning()
Inverted(r, t, rec) ==
    IF rec.time # 0 /\ prev > rec.time THEN <<Line(t, "inverted", "none", r.t[t].dd + 1, rec.time, NoTime)>> ELSE << >>

Show(how, r, t, rec) ==
    CASE how = "graph" -> PrintGraph(r, t, rec)
      [] how = "flat" -> PrintFlat(r, t, rec)
      [] how = "script" -> RunScript(r, t, rec)

\* One round of the loop in command_replay() or command_script()
ShowRecord(how) ==
    /\ reading
    /\ \E p \in ReadRstack(rd) :
         IF CheckOpts(p.r, p.t, p.rec)
         THEN \E s \in {Show(how, p.r, p.t, p.rec)} :
                /\ lines' = lines \o (IF how = "script" THEN << >> ELSE Inverted(p.r, p.t, p.rec)) \o s.out
                /\ prev' = IF p.rec.time # 0 THEN p.rec.time ELSE prev
                /\ rd' = s.r
         ELSE rd' = p.r /\ UNCHANGED <<lines, prev>>
    /\ UNCHANGED <<opts, reading, rest>>

\* skip_sys_exit()
SkipSysExit(T) == opts.haskernel /\ T.usc = 0 /\ opts.kind[T.fs[0].addr] = "sysexit"

\* Mutant: the outermost function is left out.
RemainingInner(t) ==
    LET T == rd.t[t]
        n == Least(T.sc, MaxStack)
    IN IF n < 1 THEN << >> ELSE [k \in 1 .. n - 1 |-> [t |-> t, level |-> n - 1 - k, addr |-> T.fs[n - k].addr]]

\* What print_remaining_stack() prints of a task: the frames above the unknown ones,
\* innermost first
Remaining(t) ==
    LET T == rd.t[t]
        known == {i \in 0 .. T.sc - 1 : i \in Slots /\ T.fs[i].addr # "none"}
        zero == CHOOSE i \in known : \A k \in known : i <= k
        only == T.sc = 1 /\ T.fs[0].addr = "sched_out"
        n == Least(T.sc, MaxStack)
    IN IF known = {} \/ only \/ SkipSysExit(T) THEN << >>
       ELSE [k \in 1 .. n - zero |-> [t |-> t, level |-> n - zero - k, addr |-> T.fs[n - k].addr]]

RemainingOf(ts) == FoldLeft(LAMBDA acc, t : acc \o Remaining(t), << >>, ts)

ShowRemaining(how) ==
    /\ reading /\ Peek(rd).end
    /\ reading' = FALSE
    /\ rest' = IF how = "script" THEN rest ELSE RemainingOf(SetToSortSeq(Tasks, <))
    /\ UNCHANGED <<opts, rd, lines, prev>>

=============================================================================
