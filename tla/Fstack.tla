-------------------------------- MODULE Fstack ---------------------------------
(***************************************************************************)
(* utils/fstack.c: how the commands that analyse a data directory read it. *)
(* A reader keeps for every task the unread records of its data file, the  *)
(* records held back for the time filter (rstack_list), a function stack   *)
(* and the state of the filters.  __read_rstack() takes the oldest record  *)
(* of all tasks and of the kernel and perf data.                           *)
(*                                                                         *)
(* The reader is a value: the operators take a reader and return what the  *)
(* C function leaves behind.  The commands are built from them in modules  *)
(* Replay, Report, CallGraph and Dump.                                     *)
(*                                                                         *)
(* Left out: arguments and return values and the conditions on them,       *)
(* byte order, estimated return times and external data.  A session is     *)
(* known for every record (module Session).                                *)
(***************************************************************************)
EXTENDS Integers, Sequences, FiniteSets, SequencesExt

CONSTANTS
    Tasks,      \* handle->tasks, numbered 1, 2, ...
    MaxStack    \* handle->hdr.max_stack

VARIABLES
    opts,       \* what the command line says
    rd,         \* the reader (struct uftrace_data) with its tasks
    reading     \* the command is in its read_rstack() loop

vars_reader == <<opts, rd, reading>>

Slots == 0 .. MaxStack - 1

\* The same function, as a table (TLC would otherwise compute a value each time it is used)
Tabled(f) == f @@ << >>

\* Functions are named by strings.  In the data these stand for PERF_SCHED_OUT and _IN.
SchedEvents == {"sched_out", "sched_in"}

\* ... and this for EVENT_ID_USER: an event of the user's own, which belongs to no call.
UserEvent == "probe"

\* What uftrace_match_filter() finds for a function
NoTrigger == [filter |-> "none", loc |-> "none", depth |-> -1, on |-> FALSE, off |-> FALSE,
              trace |-> FALSE, hide |-> FALSE, caller |-> FALSE, time |-> -1, size |-> -1]
TriggerOf(f) == IF f \in DOMAIN opts.trig THEN opts.trig[f] ELSE NoTrigger

\* fstack_get_filter_mode(), fstack_get_loc_mode()
FilterModeIn == \E f \in DOMAIN opts.trig : opts.trig[f].filter = "in"
LocModeIn == \E f \in DOMAIN opts.trig : opts.trig[f].loc = "in"

NoFrame == [addr |-> "none", valid |-> FALSE, orig |-> opts.depth, flags |-> {}, total |-> 0, child |-> 0]

\* prepare_task_handle() and setup_task_handle()
NewTask(file) ==
    [file |-> file, list |-> << >>, sc |-> 0, usc |-> 0, ctx |-> "unknown",
     dd |-> 0, dset |-> ~opts.off /\ opts.start = 0, forkdd |-> 0, forked |-> FALSE,
     set |-> FALSE, lost |-> FALSE, in |-> 0, out |-> 0, depth |-> opts.depth, tfs |-> << >>,
     fs |-> [i \in Slots |-> NoFrame], ust |-> 0, rt |-> 0, ru |-> TRUE]


\* check_time_range()
InRange(time) == opts.start <= time /\ (opts.stop > 0 => time <= opts.stop)

NoReader == [t |-> << >>]

\* fstack_setup_filters(): the state a command starts with.  `other' are the records of
\* the kernel and of perf in the order of time; they are read only if in range.
NewReader(files, other) ==
    [t |-> [t \in Tasks |-> NewTask(files[t])], other |-> SelectSeq(other, LAMBDA x : InRange(x.time)),
     on |-> ~opts.off, sjd |-> 0, sjc |-> 0]

-----------------------------------------------------------------------------
(* Filters *)

\* fstack_entry(): the task keeps what was decided, so that fstack_exit() can undo it.
FstackEntry(r, t, rec) ==
    LET T == r.t[t]
        i == T.sc - 1
        tr == TriggerOf(rec.addr)
        kind == opts.kind[rec.addr]
        skipped == T.out > 0
        notrace == ~skipped /\ tr.filter = "out"
        passes == ~skipped /\ ~notrace /\ (tr.filter = "in" \/ ~FilterModeIn \/ T.in > 0)
        here == passes /\ (IF tr.loc = "none" THEN ~LocModeIn ELSE tr.loc = "in")
        d1 == IF passes /\ tr.filter = "in" THEN opts.depth ELSE T.depth
        d2 == IF here /\ tr.depth >= 0 THEN tr.depth ELSE d1
        on == IF ~here THEN r.on ELSE IF tr.off THEN FALSE ELSE IF tr.on THEN TRUE ELSE r.on
        hidden == d2 <= 0 \/ tr.hide
        shown == here /\ on /\ ~hidden
        flags == UNION { IF kind = "exec" /\ ~skipped THEN {"EXEC"} ELSE {},
                         IF kind = "longjmp" /\ ~skipped THEN {"LONGJMP"} ELSE {},
                         IF tr.filter = "in" /\ ~skipped THEN {"FILTERED"} ELSE {},
                         IF notrace THEN {"NOTRACE"} ELSE {},
                         IF ~here \/ (on /\ hidden) THEN {"NORECORD"} ELSE {} }
        dset == T.dset /\ ~(here /\ tr.off)
        T2 == [T EXCEPT !.fs[i].orig = T.depth, !.fs[i].flags = flags,
                 !.in = @ + (IF ~skipped /\ tr.filter = "in" THEN 1 ELSE 0),
                 !.out = @ + (IF notrace THEN 1 ELSE 0),
                 !.depth = IF shown THEN d2 - 1 ELSE d2,
                 !.dset = dset \/ shown,
                 !.dd = IF shown /\ ~dset THEN T.sc - 1 ELSE @,
                 !.forkdd = IF kind = "fork" /\ ~skipped THEN T.dd + 1 ELSE @]
    IN IF i \notin Slots THEN [r |-> r, ok |-> FALSE]
       ELSE [r |-> [r EXCEPT !.t[t] = T2, !.on = on,
                      !.sjd = IF kind = "setjmp" /\ ~skipped THEN T.dd + 1 ELSE @,
                      !.sjc = IF kind = "setjmp" /\ ~skipped THEN T.sc ELSE @],
             ok |-> shown]

\* Mutant: the depth that is left stays as the call made it.
FstackExitKeeps(r, t) ==
    LET T == r.t[t]
        fl == T.fs[T.sc].flags
    IN IF T.sc \notin Slots THEN r
       ELSE [r EXCEPT !.t[t] = [T EXCEPT !.in = @ - (IF "FILTERED" \in fl THEN 1 ELSE 0),
                                  !.out = @ - (IF "NOTRACE" \in fl THEN 1 ELSE 0), !.fs[T.sc].flags = {}]]

\* fstack_exit()
FstackExit(r, t) ==
    LET T == r.t[t]
        fl == T.fs[T.sc].flags
    IN IF T.sc \notin Slots THEN r
       ELSE [r EXCEPT !.t[t] =
               [T EXCEPT !.in = @ - (IF "FILTERED" \in fl THEN 1 ELSE 0),
                  !.out = @ - (IF "FILTERED" \notin fl /\ "NOTRACE" \in fl THEN 1 ELSE 0),
                  !.fs[T.sc].flags = {}, !.depth = T.fs[T.sc].orig]]

\* fstack_update() at an entry
UpdateEntry(r, t) ==
    LET T == r.t[t]
        i == T.sc - 1
        fl == T.fs[i].flags
        T2 == IF "EXEC" \in fl THEN [T EXCEPT !.dd = 0, !.sc = 0, !.usc = 0]
              ELSE IF "LONGJMP" \in fl THEN [T EXCEPT !.dd = r.sjd, !.sc = r.sjc, !.usc = r.sjc]
              ELSE [T EXCEPT !.dd = @ + 1]
    IN IF i \notin Slots THEN r ELSE [r EXCEPT !.t[t] = [T2 EXCEPT !.fs[i].flags = @ \ {"EXEC", "LONGJMP"}]]

\* ... and at an exit
UpdateExit(r, t) ==
    LET T == r.t[t]
        dd == IF T.dset THEN T.dd ELSE T.sc + 1
    IN [r EXCEPT !.t[t].dset = TRUE, !.t[t].dd = IF dd > 0 THEN dd - 1 ELSE 0]

\* fstack_check_filter()
CheckFilter(r, t, rec) ==
    LET T == r.t[t]
        no(q) == [r |-> q, ok |-> FALSE]
    IN CASE rec.type = "ENTRY" -> FstackEntry(r, t, rec)
         [] rec.type = "EXIT" ->
              IF T.sc \notin Slots THEN no(r)
              ELSE IF "NORECORD" \in T.fs[T.sc].flags \/ ~r.on THEN no(FstackExit(r, t))
              ELSE [r |-> UpdateExit(r, t), ok |-> TRUE]
         [] rec.type = "EVENT" ->
              LET quiet == T.out > 0 \/ T.depth <= 0 \/ (FilterModeIn /\ T.in = 0)
                  slot == IF rec.addr = "sched_out" THEN T.sc - 1 ELSE T.sc
              IN [r |-> r, ok |-> ~quiet /\ slot \in Slots]
         [] OTHER -> [r |-> r, ok |-> TRUE]

\* fstack_check_filter_done()
CheckFilterDone(r, t, rec) ==
    CASE rec.type = "ENTRY" -> UpdateEntry(r, t)
      [] rec.type = "EXIT" -> FstackExit(r, t)
      [] OTHER -> r

\* fstack_check_opts()
CheckOpts(r, t, rec) ==
    /\ opts.kernel_only => rec.src = "kernel" \/ rec.type = "LOST"
    /\ opts.skip_out /\ r.t[t].usc = 0 => rec.src # "kernel" /\ rec.type # "EVENT"
    /\ opts.no_sched => rec.addr \notin SchedEvents

-----------------------------------------------------------------------------
(* Reading the file of a task *)

Entries(list) == {i \in DOMAIN list : list[i].type = "ENTRY"}
LastEntry(list) == CHOOSE i \in Entries(list) : \A k \in Entries(list) : k <= i

\* Time and size filters in force for a record
Thresholds(T, tr) ==
    LET top == IF T.tfs = << >> THEN [time |-> opts.tmin, size |-> opts.size] ELSE Last(T.tfs)
    IN [time |-> IF tr.time >= 0 THEN tr.time ELSE top.time,
        size |-> IF tr.size >= 0 THEN tr.size ELSE top.size]

\* Mutant: the entry of a call that is too short is left in the list.
HeldKeepEntry(T, rec) ==
    LET tr == TriggerOf(rec.addr)
        th == Thresholds(T, tr)
        es == Entries(T.list)
        short == \/ rec.time - T.list[LastEntry(T.list)].time < th.time
                 \/ opts.caller /\ ~tr.caller
    IN IF es # {} /\ short /\ ~tr.trace THEN [T |-> T, go |-> TRUE]
       ELSE [T |-> [T EXCEPT !.list = Append(@, rec)], go |-> FALSE]

\* An exit in get_task_ustack(): a call that is too short goes away with its entry,
\* any other one releases what was held back.
HeldExit(T, rec) ==
    LET tr == TriggerOf(rec.addr)
        th == Thresholds(T, tr)
        es == Entries(T.list)
        short == \/ rec.time - T.list[LastEntry(T.list)].time < th.time
                 \/ opts.caller /\ ~tr.caller
        small == th.size > 0 /\ opts.fsize[rec.addr] < th.size
        T2 == IF T.tfs # << >> /\ Last(T.tfs).depth = rec.depth THEN [T EXCEPT !.tfs = Front(@)] ELSE T
    IN IF small THEN [T |-> T2, go |-> TRUE]
       ELSE IF es # {} /\ short /\ ~tr.trace
       THEN [T |-> [T2 EXCEPT !.list = SubSeq(@, 1, LastEntry(T.list) - 1)], go |-> TRUE]
       ELSE [T |-> [T2 EXCEPT !.list = Append(@, rec)], go |-> FALSE]

\* An entry has to wait for its exit.
HeldEntry(T, rec) ==
    LET tr == TriggerOf(rec.addr)
        th == Thresholds(T, tr)
        big == th.size = 0 \/ opts.fsize[rec.addr] >= th.size
    IN [T EXCEPT !.list = IF big THEN Append(@, rec) ELSE @,
          !.tfs = IF tr.time >= 0 \/ tr.size >= 0
                  THEN Append(@, [depth |-> rec.depth, time |-> th.time, size |-> th.size]) ELSE @]

\* A record before the time range only leaves its address in the stack.
BeforeRange(T, rec) ==
    IF rec.type = "ENTRY" /\ rec.time < opts.start /\ rec.depth \in Slots
    THEN [T EXCEPT !.fs[rec.depth].addr = rec.addr] ELSE T

\* One round of the loop in get_task_ustack(); `go' tells whether another one follows.
ReadOne(T0, rec) ==
    LET T == [T0 EXCEPT !.ust = rec.time]
    IN CASE ~InRange(rec.time) -> [T |-> BeforeRange(T, rec), go |-> TRUE]
         [] InRange(rec.time) /\ rec.type = "ENTRY" -> [T |-> HeldEntry(T, rec), go |-> TRUE]
         [] InRange(rec.time) /\ rec.type = "EXIT" -> HeldExit(T, rec)
         [] OTHER -> [T |-> [T EXCEPT !.list = Append(@, rec)], go |-> rec.type = "EVENT" /\ rec.addr # UserEvent]

RECURSIVE ReadOn(_)
ReadOn(T) ==
    IF T.file = << >> THEN T
    ELSE LET round(s) == IF s.go THEN ReadOn(s.T) ELSE s.T
         IN round(ReadOne([T EXCEPT !.file = Tail(@)], Head(T.file)))

\* get_task_ustack()
Fill(T) ==
    LET stamped(U) == IF U.list = << >> THEN U ELSE [U EXCEPT !.ust = Head(U.list).time]
    IN stamped(IF T.list # << >> THEN T ELSE ReadOn(T))

\* The oldest record, of the first task on a tie; user records go before kernel and perf
\* records of the same time.
Oldest(r) ==
    LET ready == {t \in Tasks : r.t[t].list # << >>}
        head(t) == Head(r.t[t].list)
        u == CHOOSE t \in ready : \A s \in ready : head(t).time < head(s).time \/ (head(t).time = head(s).time /\ t <= s)
        o == Head(r.other)
    IN IF ready = {} /\ r.other = << >> THEN [r |-> r, end |-> TRUE]
       ELSE IF ready # {} /\ (r.other = << >> \/ head(u).time <= o.time)
       THEN [r |-> r, end |-> FALSE, t |-> u, rec |-> head(u)]
       ELSE [r |-> r, end |-> FALSE, t |-> o.tid, rec |-> o]

\* __read_rstack() without `consume'
Peek(r) == Oldest([r EXCEPT !.t = Tabled([t \in Tasks |-> Fill(r.t[t])])])

-----------------------------------------------------------------------------
(* Accounting *)

\* convert_perf_event(): a switch of tasks counts as a call of a function.
Conv(rec) ==
    IF rec.type # "EVENT" THEN rec
    ELSE CASE rec.addr = "sched_out" -> [rec EXCEPT !.type = "ENTRY", !.depth = 0]
           [] rec.addr = "sched_in" -> [rec EXCEPT !.type = "EXIT", !.depth = 0]
           [] OTHER -> rec

\* apply_existing_fstack_filter() for the frames below n
ExistingFilter(T, n) ==
    LET known == {i \in 0 .. n - 1 : i \in Slots /\ T.fs[i].addr # "none"}
        mode(i) == TriggerOf(T.fs[i].addr).filter
        ins == {i \in known : mode(i) = "in"}
        outs == {i \in known : mode(i) = "out"}
        flags(i) == CASE i \in ins -> {"FILTERED"}
                      [] i \in outs -> {"NOTRACE", "NORECORD"}
                      [] i \in known \ (ins \cup outs) ->
                           IF FilterModeIn /\ T.in = 0 /\ {j \in ins : j < i} = {} THEN {"NORECORD"} ELSE {}
                      [] OTHER -> {}
    IN [T EXCEPT !.in = @ + Cardinality(ins), !.out = @ + Cardinality(outs),
                 !.fs = Tabled([i \in Slots |-> [T.fs[i] EXCEPT !.flags = @ \cup flags(i)]])]

\* The first record of a task: a forked child continues on the stack of its parent.
Inherit(r, t, rec) ==
    LET T == r.t[t]
        kernel == rec.src = "kernel"
        parent == opts.parent[t]
        inherits == ~T.forked /\ parent # 0 /\ r.t[parent].forkdd > 0
        fdd == r.t[parent].forkdd
        base == IF rec.type = "EXIT" THEN rec.depth + 1 ELSE rec.depth
        early == rec.type = "EXIT" /\ base \in Slots /\ T.fs[base].addr = rec.addr
        n == base + (IF early THEN 1 ELSE 0) + (IF inherits /\ kernel THEN fdd ELSE 0)
                  + (IF kernel THEN T.usc ELSE 0)
        stamp(f) == [f EXCEPT !.total = rec.time, !.child = 0, !.valid = TRUE]
        T2 == [T EXCEPT !.sc = n, !.set = TRUE, !.forked = TRUE,
                 !.dd = IF inherits THEN fdd ELSE @, !.dset = @ \/ inherits,
                 !.fs = Tabled([i \in Slots |-> IF i < n THEN stamp(T.fs[i]) ELSE T.fs[i]])]
    IN IF T.set THEN T ELSE [ExistingFilter(T2, n) EXCEPT !.depth = opts.depth]

\* The first record after a LOST record tells where the stack is now.
AfterLost(T, rec) ==
    LET n == (IF rec.type = "EXIT" THEN rec.depth + 1 ELSE rec.depth)
             + (IF rec.src = "kernel" THEN T.usc ELSE 0)
    IN IF ~T.lost THEN T
       ELSE [T EXCEPT !.sc = n, !.lost = FALSE,
               !.fs = Tabled([i \in Slots |-> IF i \in T.usc .. T.usc + rec.depth
                                              THEN [T.fs[i] EXCEPT !.total = rec.time - 1, !.child = 0]
                                              ELSE T.fs[i]])]

\* Back from the kernel
BackToUser(T, rec) ==
    IF T.ctx = "kernel" /\ rec.src = "user" /\ rec.type # "LOST"
    THEN [T EXCEPT !.sc = T.usc, !.depth = opts.depth - T.usc] ELSE T

Least(a, b) == IF a < b THEN a ELSE b

\* The functions cut short by LOST records get their time up to then.
RECURSIVE CutShort(_, _, _, _)
CutShort(fs, i, low, lost_time) ==
    IF i < low THEN fs
    ELSE IF i \notin Slots THEN CutShort(fs, i - 1, low, lost_time)
    ELSE LET lt == IF lost_time = 0 THEN fs[i].total + 1 ELSE lost_time
             delta == lt - fs[i].total
             f1 == [fs EXCEPT ![i].total = delta, ![i].child = Least(@, delta)]
             f2 == IF i > 0 THEN [f1 EXCEPT ![i - 1].child = @ + delta] ELSE f1
         IN CutShort(f2, i - 1, low, lt)

\* Mutant: the time of an exit comes from the slot above.
AccountCallAbove(T, rec) ==
    CASE rec.type = "ENTRY" /\ T.sc \in Slots ->
           [T EXCEPT !.fs[T.sc] = [@ EXCEPT !.addr = rec.addr, !.total = rec.time, !.child = 0, !.valid = TRUE]]
      [] rec.type = "EXIT" /\ T.sc \in Slots /\ T.sc > 0 ->
           [T EXCEPT !.fs[T.sc - 1] = [@ EXCEPT !.valid = FALSE, !.total = rec.time - T.fs[T.sc].total]]
      [] OTHER -> T

\* Mutant: the time of callees is kept even if nothing is known of the call itself.
AccountCallMore(T, rec) ==
    LET i == T.sc - 1
        delta == IF T.fs[i].valid THEN rec.time - T.fs[i].total ELSE 0
        f1 == [T.fs EXCEPT ![i].valid = FALSE, ![i].total = delta]
    IN CASE rec.type = "ENTRY" /\ T.sc \in Slots ->
              [T EXCEPT !.fs[T.sc] = [@ EXCEPT !.addr = rec.addr, !.total = rec.time, !.child = 0, !.valid = TRUE]]
         [] rec.type = "EXIT" /\ i \in Slots ->
              [T EXCEPT !.fs = IF i > 0 THEN [f1 EXCEPT ![i - 1].child = @ + delta] ELSE f1]
         [] rec.type = "LOST" -> [T EXCEPT !.lost = TRUE, !.dset = FALSE, !.fs = CutShort(T.fs, T.sc, T.usc, 0)]
         [] OTHER -> T

\* The last part of fstack_account_time()
AccountCall(T, rec) ==
    LET i == T.sc - 1
        delta == IF T.fs[i].valid THEN rec.time - T.fs[i].total ELSE 0
        f1 == [T.fs EXCEPT ![i].valid = FALSE, ![i].total = delta, ![i].child = Least(@, delta)]
    IN CASE rec.type = "ENTRY" ->
              IF T.sc \notin Slots THEN T
              ELSE [T EXCEPT !.fs[T.sc] = [@ EXCEPT !.addr = rec.addr, !.total = rec.time, !.child = 0, !.valid = TRUE]]
         [] rec.type = "EXIT" ->
              IF i \notin Slots THEN T
              ELSE [T EXCEPT !.fs = IF i > 0 THEN [f1 EXCEPT ![i - 1].child = @ + delta] ELSE f1]
         [] rec.type = "LOST" ->
              [T EXCEPT !.lost = TRUE, !.dset = FALSE, !.fs = CutShort(T.fs, T.sc, T.usc, 0)]
         [] OTHER -> T

AccountTask(T, rec) ==
    IF T.lost /\ rec.type = "LOST" THEN T ELSE AccountCall(BackToUser(AfterLost(T, rec), rec), rec)

AccountRecord(r, t, rec) ==
    IF rec.type = "EVENT" THEN r ELSE [r EXCEPT !.t[t] = AccountTask(Inherit(r, t, rec), rec)]

\* fstack_account_time()
AccountTime(r, t, rec) == AccountRecord(r, t, Conv(rec))

\* Where the stack is after a record
StackCount(T, rec) ==
    IF rec.type = "ENTRY" THEN T.sc + 1
    ELSE IF rec.type = "EXIT" /\ T.sc > 0 THEN T.sc - 1 ELSE T.sc

\* fstack_update_stack_count()
UpdateStackCount(r, t, rec0) ==
    LET T == r.t[t]
        rec == Conv(rec0)
        usc == IF rec.src # "user" THEN T.usc
               ELSE IF rec.type = "ENTRY" THEN T.usc + 1
               ELSE IF rec.type = "EXIT" /\ T.usc > 0 THEN T.usc - 1 ELSE T.usc
    IN IF rec.type = "EVENT" THEN r
       ELSE [r EXCEPT !.t[t].sc = StackCount(T, rec), !.t[t].usc = usc,
                      !.t[t].ctx = IF rec.src = "perf" THEN "unknown" ELSE rec.src]

\* __fstack_consume()
Consume(r, t, rec) ==
    LET r1 == IF rec.src = "user" THEN [r EXCEPT !.t[t].list = Tail(@), !.t[t].ru = TRUE]
              ELSE [r EXCEPT !.other = Tail(@), !.t[t].rt = rec.time, !.t[t].ru = FALSE]
    IN UpdateStackCount(AccountTime(r1, t, rec), t, rec)

\* read_rstack(): the record a command gets next, if any, and the reader that has consumed it
ReadRstack(r) ==
    {[t |-> p.t, rec |-> p.rec, r |-> Consume(p.r, p.t, p.rec)] : p \in {q \in {Peek(r)} : ~q.end}}

\* task->rstack->time: a user record is read into one place, later ones over it.
RecordTime(T) == IF T.ru THEN T.ust ELSE T.rt

\* fstack_check_skip()
CheckSkip(r, t, rec) ==
    LET T == r.t[t]
        tr == TriggerOf(rec.addr)
        depth == IF tr.filter = "in" THEN opts.depth ELSE T.depth
    IN \/ T.out > 0
       \/ /\ rec.type = "EXIT" /\ T.sc >= 1
          /\ T.sc - 1 \notin Slots \/ "NORECORD" \in T.fs[T.sc - 1].flags
       \/ /\ rec.type # "EXIT"
          /\ \/ tr.filter = "out"
             \/ tr.filter = "none" /\ tr.loc = "none" /\ (FilterModeIn \/ LocModeIn) /\ T.in = 0
             \/ ~(tr.depth >= 0 \/ tr.on) /\ (tr.off \/ tr.hide \/ depth <= 0)

\* fstack_skip(): drop the filtered records that follow an entry of task t, so that an
\* exit that follows directly can be shown with it.  Returns the next record, if any.
RECURSIVE SkipOn(_, _, _, _)
SkipOn(r0, t, depth, src) ==
    LET outside(p) == (p.rec.src = "kernel" \/ p.rec.type = "EVENT") /\ p.r.t[p.t].usc = 0 /\ opts.skip_out
        drop(p) == outside(p) \/ (~opts.libcall /\ opts.kind[p.rec.addr] = "plt") \/ CheckSkip(p.r, p.t, p.rec)
        dropped(r, p) == CASE p.rec.type = "ENTRY" -> FstackEntry(r, p.t, p.rec).r
                           [] p.rec.type = "EXIT" -> FstackExit(r, p.t)
                           [] OTHER -> r
        on(r) == IF r.on THEN SkipOn(r, t, depth, src) ELSE [r |-> r, t |-> 0]
        look(p) == IF p.end THEN [r |-> p.r, t |-> 0]
                   ELSE IF p.t = t /\ p.rec.src = src /\ depth >= p.rec.depth THEN [r |-> p.r, t |-> t, rec |-> p.rec]
                   ELSE IF p.rec.type = "LOST" /\ ~outside(p) THEN [r |-> p.r, t |-> 0]
                   ELSE IF ~drop(p) THEN [r |-> p.r, t |-> p.t, rec |-> p.rec]
                   ELSE on(dropped(Consume(p.r, p.t, p.rec), p))
    IN look(Peek(r0))

FstackSkip(r, t, depth, src) ==
    LET i == r.t[t].sc - 1
    IN IF i \notin Slots \/ r.t[t].fs[i].flags \cap {"EXEC", "LONGJMP"} # {} THEN [r |-> r, t |-> 0]
       ELSE SkipOn(r, t, depth, src)

=============================================================================
