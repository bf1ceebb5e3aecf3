-------------------------------- MODULE Mcount --------------------------------
(***************************************************************************)
(* What libmcount does at every entry and exit of a traced function        *)
(* (libmcount/mcount.c): the shadow stack of one thread, the state of the  *)
(* filters, and which ENTRY and EXIT records record_trace_data()           *)
(* (libmcount/record.c) makes of them.                                     *)
(*                                                                         *)
(* The thread runs an arbitrary program: it calls and returns, forks or    *)
(* crashes, while signals and other threads switch tracing on and off.     *)
(* Functions are instrumented with -pg (the return address is hijacked, so *)
(* a call that is filtered out has no exit), with -finstrument-functions   *)
(* (cygprof: the exit is called whatever the entry did) or with XRay.      *)
(*                                                                         *)
(* Abstractions: arguments, return values, watchpoints and the events      *)
(* they store are payload of a record and are left out; so are return      *)
(* addresses, which are in module RetAddr, and scripts.  Shared memory is  *)
(* a number of records that still fit in the step (see Recording).         *)
(***************************************************************************)
EXTENDS Integers, Sequences, FiniteSets, SequencesExt

CONSTANTS
    Functions,  \* the functions of the program
    Setups,     \* option sets the run explores, see SetupOK
    Rooms,      \* how many records can fit when a step wants to write
    MaxCalls,   \* bound: calls made
    MaxTime     \* bound: ticks of the clock

\* FILTER_NO_MAX_DEPTH, FILTER_NO_TIME
None == -1

TriggerFlags == {"FILTER_IN", "FILTER_OUT", "CONDITION", "LOC_IN", "LOC_OUT", "DEPTH",
                 "TRACE_ON", "TRACE_OFF", "TIME", "SIZE", "TRACE", "CALLER", "FINISH"}

\* trig: the trigger of each function; kind: how it is instrumented; fsize: its size;
\* depth, threshold, minsize, max: -D, -t, -Z and --max-stack; on: no --trace=off;
\* signals: what signal triggers or other threads may switch.
SetupOK(c) ==
    /\ c.trig \in [Functions -> [flags : SUBSET TriggerFlags, depth : Nat, time : Nat, size : Nat]]
    /\ c.kind \in [Functions -> {"pg", "cygprof", "xray"}]
    /\ c.fsize \in [Functions -> Nat]
    /\ c.depth \in Nat /\ c.threshold \in Nat /\ c.minsize \in Nat /\ c.max \in Nat \ {0}
    /\ c.on \in BOOLEAN /\ c.signals \subseteq {"on", "off", "finish"}

\* No call changes a filter and is dropped without a frame that changes it back, and no
\* XRay call goes beyond the limit of the stack (see the README for what happens then).
KeepsFilters(c) ==
    /\ c.depth > 0 /\ \A f \in Functions : "DEPTH" \in c.trig[f].flags => c.trig[f].depth > 0
    /\ \A f \in Functions :
          c.kind[f] = "pg" /\ c.trig[f].flags \cap {"FILTER_IN", "FILTER_OUT"} # {} =>
              /\ "LOC_OUT" \notin c.trig[f].flags
              /\ "LOC_IN" \in c.trig[f].flags \/ \A g \in Functions : "LOC_IN" \notin c.trig[g].flags
    /\ \A f \in Functions : c.kind[f] = "xray" => MaxCalls <= c.max

\* What the theorems of Mcount_proofs assume of the constants
McountAssumption ==
    /\ \A c \in Setups : SetupOK(c) /\ KeepsFilters(c)
    /\ Rooms \subseteq Nat /\ MaxCalls \in Nat /\ MaxTime \in Nat \ {0}

VARIABLES
    setup,      \* the options, fixed at startup
    app,        \* the calls the program is in, outermost first
    mtd,        \* the thread's data, with the globals mcount_enabled and the finish flag
    now,        \* mcount_gettime()
    calls,      \* calls made, which also names them
    status,     \* "run", "dead" (mtd_dtor ran) or "crashed"
    forked,     \* history: calls made before this process was forked
    wasOff      \* history: was a call entered or left while tracing was off?

vars == <<setup, app, mtd, now, calls, status, forked, wasOff>>

FrameFlags == {"NORECORD", "DISABLED", "WRITTEN", "FILTERED", "NOTRACE", "TRACE", "CALLER", "CYGPROF"}

\* mcount_filter_setup()
FilterSetup(c) == [depth |-> 0, max_depth |-> None, time |-> None, size |-> c.minsize]

\* mcount_prepare()
Prepared(c) ==
    [rstack |-> << >>, over |-> 0, in_count |-> 0, out_count |-> 0, filter |-> FilterSetup(c),
     record_idx |-> 0, enable_cached |-> c.on, warned |-> FALSE, enabled |-> c.on,
     finish |-> FALSE, stream |-> << >>, room |-> 0, losts |-> 0]

Idx(m) == Len(m.rstack) + m.over
Triggers(flag) == \E f \in Functions : flag \in setup.trig[f].flags
Skipped(fr) == fr.flags \cap {"NORECORD", "DISABLED"} # {}
Written(fr) == "WRITTEN" \in fr.flags

-----------------------------------------------------------------------------
(* record_trace_data() of the frame at i: the ENTRY records of its ancestors *)
(* that were not written yet, its own, and its EXIT if it has ended.         *)

Record(type, fr) ==
    [type |-> type, id |-> fr.id, fn |-> fr.fn, depth |-> fr.depth,
     time |-> IF type = "ENTRY" THEN fr.start ELSE fr.end]

\* Mutant: only the frame itself is written, its callers are forgotten.
UnwrittenSelf(m, i) == IF Written(m.rstack[i]) \/ Skipped(m.rstack[i]) THEN {} ELSE {i}

\* The frames whose ENTRY is due: up from the lowest one above the last written frame.
Unwritten(m, i) ==
    IF Written(m.rstack[i]) THEN {}
    ELSE LET below == {j \in 1..i : Written(m.rstack[j])}
         IN {j \in 1..i : (\A k \in below : j > k) /\ ~Skipped(m.rstack[j])}

\* The k-th of the frames S, counted from the outermost
Nth(S, k) == CHOOSE j \in S : Cardinality({l \in S : l <= j}) = k

\* Mutant: innermost frame first.
ToWriteReversed(m, i) ==
    LET due == Unwritten(m, i)
        entries == [k \in 1..Cardinality(due) |->
                        [type |-> "ENTRY", at |-> Nth(due, Cardinality(due) + 1 - k)]]
    IN IF m.rstack[i].end > 0 THEN Append(entries, [type |-> "EXIT", at |-> i]) ELSE entries

ToWrite(m, i) ==
    LET due == Unwritten(m, i)
        entries == [k \in 1..Cardinality(due) |-> [type |-> "ENTRY", at |-> Nth(due, k)]]
    IN IF m.rstack[i].end > 0 THEN Append(entries, [type |-> "EXIT", at |-> i]) ELSE entries

\* Mutant: a written frame is not marked.
NotMarked(fr) == fr

\* MCOUNT_FL_WRITTEN
Marked(fr) == [fr EXCEPT !.flags = @ \cup {"WRITTEN"}]

\* The first n records of todo are stored, the last one for the frame at i.
Stored(m, i, todo, n) ==
    LET done == {todo[k].at : k \in 1..n}
        rest == Len(todo) - n
    IN [m EXCEPT
        !.stream = @ \o [k \in 1..n |-> Record(todo[k].type, m.rstack[todo[k].at])],
        !.rstack = [j \in DOMAIN @ |-> IF j \in done THEN Marked(@[j]) ELSE @[j]],
        !.room = @ - n,
        !.losts = IF rest = 0 THEN @ ELSE IF todo[n + 1].at < i THEN @ + rest ELSE @ + 1]

\* record_ret_stack() fails once get_shmem_buffer() has no room; the rest is given up.
StoreWhatFits(m, i, todo) == Stored(m, i, todo, IF m.room < Len(todo) THEN m.room ELSE Len(todo))

RecordTraceData(m, i) == StoreWhatFits(m, i, ToWrite(m, i))

-----------------------------------------------------------------------------
(* Entry *)

\* mcount_check_rstack() finds the stack full: flush it, once.
RstackFull(m) ==
    IF m.warned THEN m
    ELSE [RecordTraceData(m, setup.max) EXCEPT !.warned = TRUE]

Outcome(m, result, flags, saved) == [m |-> m, result |-> result, flags |-> flags, saved |-> saved]

\* The filter conditions of a function whose argument is not the wanted one are dropped.
Effective(f, met) ==
    LET flags == setup.trig[f].flags
    IN IF "CONDITION" \in flags /\ ~met THEN flags \ {"FILTER_IN", "FILTER_OUT"} ELSE flags

\* What a matching filter does to the counters.
ApplyFilter(m, flags) ==
    IF flags \cap {"FILTER_IN", "FILTER_OUT"} = {} THEN m
    ELSE [m EXCEPT !.in_count = IF "FILTER_IN" \in flags THEN @ + 1 ELSE @,
                   !.out_count = IF "FILTER_IN" \notin flags THEN @ + 1 ELSE @,
                   !.filter.depth = 0]

\* No function filter lets the call in, or the location filter keeps it out.
KeptOut(m, flags) ==
    \/ /\ flags \cap {"FILTER_IN", "FILTER_OUT"} = {}
       /\ Triggers("FILTER_IN") /\ m.in_count = 0
    \/ "LOC_OUT" \in flags
    \/ flags \cap {"LOC_IN", "LOC_OUT"} = {} /\ Triggers("LOC_IN")

\* The triggers that change depth, time and size filters and switch tracing.
ApplyTrigger(m, f, flags) ==
    LET tr == setup.trig[f]
        set(flag, new, old) == IF flag \in flags THEN new ELSE old
    IN [m EXCEPT
        !.filter = [depth |-> set("DEPTH", 0, @.depth), max_depth |-> set("DEPTH", tr.depth, @.max_depth),
                    time |-> set("TIME", tr.time, @.time), size |-> set("SIZE", tr.size, @.size)],
        !.enabled = set("TRACE_OFF", FALSE, set("TRACE_ON", TRUE, @))]

\* Mutant: one call too many fits.
StackFullLate(m) == Idx(m) > setup.max

StackFull(m) == Idx(m) >= setup.max

\* The depth filter, which is the last
DepthCheck(m, flags, saved) ==
    LET limit == IF m.filter.max_depth = None THEN setup.depth ELSE m.filter.max_depth
    IN IF m.filter.depth >= limit THEN Outcome(m, "OUT", flags, saved)
       ELSE Outcome([m EXCEPT !.filter.depth = @ + 1], "IN", flags, saved)

\* The filters and triggers of f, whose flags have changed the counters in m already
TriggerCheck(m, f, flags, saved) ==
    IF KeptOut(m, flags) THEN Outcome(m, "OUT", flags, saved)
    ELSE DepthCheck(ApplyTrigger(m, f, flags), flags, saved)

\* mcount_entry_filter_check()
FilterCheck(m, f, met) ==
    LET m0 == [m EXCEPT !.warned = FALSE]
        flags == Effective(f, met)
    IN IF StackFull(m) THEN Outcome(RstackFull(m), "RSTACK", {}, m.filter)
       ELSE IF m.out_count > 0 THEN Outcome(m0, "OUT", {}, m.filter)
       ELSE TriggerCheck(ApplyFilter(m0, flags), f, flags, m.filter)

\* The frame __mcount_entry(), __cygprof_entry() and _xray_entry() push.
NewFrame(m, f, o) ==
    LET mine == IF setup.kind[f] = "cygprof" THEN {"CYGPROF"} ELSE {}
    IN [id |-> calls + 1, fn |-> f, depth |-> m.record_idx, end |-> 0, saved |-> o.saved,
        start |-> IF o.result = "IN" THEN now' ELSE 0,
        flags |-> IF o.result = "IN" THEN mine ELSE mine \cup {"NORECORD"}]

\* The flags mcount_entry_filter_record() gives a frame.
EntryFlags(m, fr, flags) ==
    LET size == m.filter.size
    IN fr.flags
       \cup (IF \/ m.out_count > 0
                \/ m.in_count = 0 /\ Triggers("FILTER_IN")
                \/ size > 0 /\ setup.fsize[fr.fn] < size THEN {"NORECORD"} ELSE {})
       \cup (IF "FILTER_IN" \in flags THEN {"FILTERED"}
             ELSE IF "FILTER_OUT" \in flags THEN {"NOTRACE"} ELSE {})
       \cup (flags \cap {"TRACE", "CALLER"})

\* Mutant: the depth of records does not grow.
CountedNot(m) == m

\* A frame to record makes the frames above it one deeper.
Counted(m) == [m EXCEPT !.record_idx = @ + 1]

\* While tracing is off the frame at n is disabled; the first one has its callers written.
DisableIfOff(m, n) ==
    LET off == [m EXCEPT !.rstack[n].flags = @ \cup {"DISABLED"}]
    IN IF m.enabled THEN m ELSE IF m.enable_cached THEN RecordTraceData(off, n) ELSE off

\* The rest of mcount_entry_filter_record() for the top frame, at n
TopRecord(m, n, flags) ==
    IF "FINISH" \in flags THEN [RecordTraceData(m, n) EXCEPT !.finish = TRUE]
    ELSE IF "NORECORD" \in m.rstack[n].flags THEN m
    ELSE [DisableIfOff(Counted(m), n) EXCEPT
            !.enable_cached = IF flags \cap {"TRACE_ON", "TRACE_OFF"} # {} THEN m.enabled ELSE @]

\* mcount_entry_filter_record() for the new top frame
EntryRecord(m, fr, flags) ==
    LET top == [fr EXCEPT !.flags = EntryFlags(m, fr, flags)]
    IN TopRecord([m EXCEPT !.rstack = Append(@, top)], Len(m.rstack) + 1, flags)

\* Is the exit of the call going to be reported?
Hooked(f, o) == setup.kind[f] # "pg" \/ o.result = "IN"

\* Mutant: calls beyond the limit are not counted.
BeyondIgnored(m) == m

\* A cygprof call beyond the limit only counts: its exit will come.
Beyond(m) == [m EXCEPT !.over = @ + 1]

\* What the outcome o of the filter check makes of the thread
Entered(f, o) ==
    LET m == IF ~Hooked(f, o) THEN o.m
             ELSE IF o.result = "RSTACK" /\ setup.kind[f] = "cygprof" THEN Beyond(o.m)
             ELSE EntryRecord(o.m, NewFrame(o.m, f, o), o.flags)
    IN [m |-> [m EXCEPT !.room = 0], hooked |-> Hooked(f, o)]

\* __mcount_entry(), __cygprof_entry(), _xray_entry()
EntryOutcome(f, met, room) == Entered(f, FilterCheck([mtd EXCEPT !.room = room], f, met))

\* mtd_dtor(): the frames are gone, hijacked return addresses are put back.
Destroyed(m) == [m EXCEPT !.rstack = << >>, !.over = 0]

Tick == now' \in {now, now + 1} /\ now' <= MaxTime

\* mcount_unguard_recursion(), or mcount_guard_recursion() of the next call, runs
\* mtd_dtor() once the finish flag is set.
Settle(m) ==
    /\ mtd' = IF m.finish THEN Destroyed(m) ELSE m
    /\ status' = IF m.finish THEN "dead" ELSE status
    /\ wasOff' = (wasOff \/ ~m.enabled)

\* The program calls f.
Call(f) ==
    /\ status = "run" /\ calls < MaxCalls
    /\ calls' = calls + 1
    /\ Tick
    /\ IF mtd.finish THEN Settle(mtd) /\ app' = app
       ELSE \E met \in BOOLEAN, room \in Rooms :
            \E e \in {EntryOutcome(f, met, room)} :
               /\ "CONDITION" \notin setup.trig[f].flags => met
               /\ Settle(e.m)
               /\ app' = Append(app, [fn |-> f, hooked |-> e.hooked])
    /\ UNCHANGED <<setup, forked>>

-----------------------------------------------------------------------------
(* Exit *)

\* Mutant: a frame that was written already is held to the time filter again.
WorthAgain(m, fr) ==
    LET limit == IF m.filter.time = None THEN setup.threshold ELSE m.filter.time
    IN \/ fr.end - fr.start > limit /\ (Triggers("CALLER") => "CALLER" \in fr.flags)
       \/ "TRACE" \in fr.flags

\* Does mcount_exit_filter_record() write the frame?
WorthWriting(m, fr) ==
    LET limit == IF m.filter.time = None THEN setup.threshold ELSE m.filter.time
    IN \/ fr.end - fr.start > limit /\ (Triggers("CALLER") => "CALLER" \in fr.flags)
       \/ fr.flags \cap {"WRITTEN", "TRACE"} # {}

\* Mutant: every exit leaves a filter.
LeaveAnyFilter(m, fr) ==
    [m EXCEPT !.in_count = IF Triggers("FILTER_IN") THEN @ - 1 ELSE @, !.filter = fr.saved]

\* Mutant: depth, time and size filters are not put back.
LeaveCountsOnly(m, fr) ==
    [m EXCEPT !.in_count = IF "FILTERED" \in fr.flags THEN @ - 1 ELSE @,
              !.out_count = IF "NOTRACE" \in fr.flags THEN @ - 1 ELSE @]

\* The counters and filters go back to what they were before the call.
LeaveFilter(m, fr) ==
    [m EXCEPT !.in_count = IF "FILTERED" \in fr.flags THEN @ - 1 ELSE @,
              !.out_count = IF "NOTRACE" \in fr.flags THEN @ - 1 ELSE @,
              !.filter = fr.saved]

\* So does the depth of the next record.
LeaveCall(m, fr) ==
    [LeaveFilter(m, fr) EXCEPT !.record_idx = IF "NORECORD" \notin fr.flags /\ @ > 0 THEN @ - 1 ELSE @]

\* mcount_exit_filter_record() for the top frame
ExitRecord(m) ==
    LET n == Len(m.rstack)
        fr == m.rstack[n]
        left == LeaveCall(m, fr)
    IN IF "NORECORD" \in fr.flags \/ ~m.enabled \/ ~WorthWriting(m, fr) THEN left ELSE RecordTraceData(left, n)

\* __mcount_exit(), __cygprof_exit(), _xray_exit()
ExitOutcome(f, room) ==
    LET n == Len(mtd.rstack)
        top == mtd.rstack[n]
        ended == [mtd EXCEPT !.room = room,
                             !.rstack[n].end = IF setup.kind[f] # "pg" /\ "NORECORD" \in top.flags
                                               THEN 0 ELSE now']
        m == ExitRecord(ended)
    IN IF Idx(mtd) > setup.max THEN [mtd EXCEPT !.over = IF @ > 0 THEN @ - 1 ELSE 0,
                                                !.rstack = IF mtd.over > 0 THEN @ ELSE Front(@)]
       ELSE IF setup.kind[f] = "cygprof" /\ "CYGPROF" \notin top.flags THEN mtd
       ELSE [m EXCEPT !.rstack = Front(@), !.room = 0]

\* The innermost function returns; a hijacked return records before it looks at the
\* finish flag, the others after.
Return ==
    /\ status = "run" /\ app # << >>
    /\ Tick
    /\ app' = Front(app)
    /\ LET f == Last(app).fn
       IN IF ~Last(app).hooked THEN UNCHANGED <<mtd, status, wasOff>>
          ELSE IF setup.kind[f] # "pg" /\ mtd.finish THEN Settle(mtd)
          ELSE \E room \in Rooms : Settle(ExitOutcome(f, room))
    /\ UNCHANGED <<setup, calls, forked>>

-----------------------------------------------------------------------------
(* What happens to the thread from outside *)

\* mcount_signal_trigger(), or a trigger of another thread
Signal ==
    /\ status = "run"
    /\ \/ "on" \in setup.signals /\ mtd' = [mtd EXCEPT !.enabled = TRUE]
       \/ "off" \in setup.signals /\ mtd' = [mtd EXCEPT !.enabled = FALSE]
       \/ "finish" \in setup.signals /\ mtd' = [mtd EXCEPT !.finish = TRUE]
    /\ UNCHANGED <<setup, app, now, calls, status, forked, wasOff>>

\* atfork_child_handler(): we follow the child, which starts a file of its own and
\* does not record the calls it was born in.
Fork ==
    /\ status = "run" /\ ~mtd.finish /\ forked = 0 /\ calls > 0
    /\ forked' = calls
    /\ mtd' = [mtd EXCEPT !.stream = << >>, !.losts = 0,
                          !.rstack = [j \in DOMAIN @ |-> Marked(@[j])]]
    /\ UNCHANGED <<setup, app, now, calls, status, wasOff>>

\* Mutant: the innermost frame is left out.
CrashFlushCallers(room) ==
    [RecordTraceData([mtd EXCEPT !.room = room], IF Len(mtd.rstack) > 1 THEN Len(mtd.rstack) - 1 ELSE 1)
        EXCEPT !.room = 0]

CrashFlush(room) ==
    [RecordTraceData([mtd EXCEPT !.room = room], Len(mtd.rstack)) EXCEPT !.room = 0]

\* segv_handler(): flush what is there and die.  With idx beyond the limit it looks at
\* a frame that does not exist: what it finds there may stop the flush or not.
Crash ==
    /\ status = "run"
    /\ status' = "crashed"
    /\ \E room \in Rooms :
          mtd' \in IF Idx(mtd) = 0 THEN {mtd}
                  ELSE IF mtd.over > 0 THEN {mtd, CrashFlush(room)}
                  ELSE {CrashFlush(room)}
    /\ UNCHANGED <<setup, app, now, calls, forked, wasOff>>

Init ==
    /\ setup \in Setups
    /\ app = << >> /\ now = 1 /\ calls = 0 /\ status = "run" /\ forked = 0
    /\ mtd = Prepared(setup)
    /\ wasOff = FALSE

Next == (\E f \in Functions : Call(f)) \/ Return \/ Signal \/ Fork \/ Crash

Spec == Init /\ [][Next]_vars

-----------------------------------------------------------------------------
(* Properties *)

FilterState == [depth : Nat, max_depth : Int, time : Int, size : Int]

Frame ==
    [id : 1..MaxCalls, fn : Functions, depth : Nat, start : Nat, end : Nat,
     flags : SUBSET FrameFlags, saved : FilterState]

\* The shadow stack, the filters and the stream are what the C types say.
TypeOK ==
    /\ SetupOK(setup) /\ now \in 1..MaxTime /\ calls \in 0..MaxCalls
    /\ status \in {"run", "dead", "crashed"} /\ forked \in 0..MaxCalls /\ wasOff \in BOOLEAN
    /\ app \in Seq([fn : Functions, hooked : BOOLEAN])
    /\ mtd.rstack \in Seq(Frame) /\ mtd.over \in Nat
    /\ mtd.filter \in FilterState
    /\ mtd.in_count \in Nat /\ mtd.out_count \in Nat /\ mtd.record_idx \in Nat
    /\ {mtd.enable_cached, mtd.warned, mtd.enabled, mtd.finish} \subseteq BOOLEAN
    /\ mtd.losts \in Nat /\ mtd.room = 0

Count(P(_)) == Cardinality({j \in DOMAIN mtd.rstack : P(mtd.rstack[j])})
Recordable(fr) == "NORECORD" \notin fr.flags

\* in_count, out_count and record_idx are what the live frames say, whatever filters
\* matched, triggers fired or calls were dropped in between; and once no call is left
\* every filter has the value it started with.
FiltersMatchFrames ==
    /\ status = "run" =>
         LET Filtered(fr) == "FILTERED" \in fr.flags
             Notrace(fr) == "NOTRACE" \in fr.flags
         IN /\ mtd.in_count = Count(Filtered)
            /\ mtd.out_count = Count(Notrace)
            /\ mtd.record_idx = Count(Recordable)
    /\ status = "run" /\ mtd.rstack = << >> => mtd.filter = FilterSetup(setup)

\* A function kept out with -N keeps out what it calls, and nothing else: when the
\* program is in no call at all, none is being kept out.
NotraceEndsWithCall == status = "run" /\ app = << >> => mtd.out_count = 0

HookedCalls == {k \in DOMAIN app : app[k].hooked}

\* idx counts exactly the calls whose exit libmcount will see, those beyond the limit of
\* the stack too, though none of these is stored: one miscount and every later exit is
\* taken for another function's.
IndexFollowsCalls ==
    /\ Len(mtd.rstack) <= setup.max
    /\ status = "run" =>
        /\ Idx(mtd) = Cardinality(HookedCalls)
        /\ \A k \in HookedCalls :
              LET j == Cardinality({h \in HookedCalls : h <= k})
              IN j <= Len(mtd.rstack) => mtd.rstack[j].fn = app[k].fn

\* When a frame has been written so have all the frames it was called from that are to
\* be recorded: a trace never has a call without its callers, lost records or not.
WrittenFromTheTop ==
    \A j \in DOMAIN mtd.rstack : \A i \in 1..j :
        Written(mtd.rstack[j]) => Written(mtd.rstack[i]) \/ Skipped(mtd.rstack[i])

\* The records of a task are in order of time, though entries are written late: all
\* readers merge the files of the tasks on that assumption.
TimesInOrder ==
    \A i, j \in DOMAIN mtd.stream : i < j => mtd.stream[i].time <= mtd.stream[j].time

Own(fr) == fr.id > forked
EntriesAt(d) == {i \in DOMAIN mtd.stream : mtd.stream[i].type = "ENTRY" /\ mtd.stream[i].depth = d}

\* A reader that takes the last ENTRY at each depth for the open call at that depth is
\* right about every live call that was written, even after lost or suppressed exits.
OpenCallsByDepth ==
    status # "dead" =>
        \A j \in DOMAIN mtd.rstack :
            LET fr == mtd.rstack[j]
                at == EntriesAt(fr.depth)
            IN Written(fr) /\ ~Skipped(fr) /\ Own(fr) =>
                 \E i \in at : mtd.stream[i].id = fr.id /\ \A k \in at : k <= i

\* No call has two records of a kind; an EXIT without an ENTRY before it belongs to a
\* call that began while tracing was off, or in the parent process.
EntryBeforeExit ==
    \A i, j \in DOMAIN mtd.stream :
        LET a == mtd.stream[i]
            b == mtd.stream[j]
        IN /\ i # j /\ a.id = b.id => a.type # b.type
           /\ a.type = "EXIT" /\ a.id > forked /\ ~wasOff =>
                \E k \in 1..i : mtd.stream[k].type = "ENTRY" /\ mtd.stream[k].id = a.id

\* While nothing was lost and tracing was on all the time, every ENTRY whose call is
\* over has its EXIT.
EveryEntryCloses ==
    status = "run" /\ mtd.losts = 0 /\ ~wasOff /\ mtd.enabled =>
        \A i \in DOMAIN mtd.stream :
            \/ mtd.stream[i].type = "EXIT"
            \/ \E j \in DOMAIN mtd.rstack : mtd.rstack[j].id = mtd.stream[i].id
            \/ \E j \in DOMAIN mtd.stream :
                   mtd.stream[j].type = "EXIT" /\ mtd.stream[j].id = mtd.stream[i].id

\* After a crash the trace shows every call the program was in, if there was room.
CrashShowsOpenCalls ==
    status = "crashed" /\ mtd.losts = 0 =>
        \A j \in DOMAIN mtd.rstack : Written(mtd.rstack[j]) \/ Skipped(mtd.rstack[j])

\* The data libmcount keeps of a thread mirror the calls it is in, whatever filters, triggers
\* and limits did to them: the filters (FiltersMatchFrames), the depth (IndexFollowsCalls).
MirrorsCalls == TypeOK /\ FiltersMatchFrames /\ IndexFollowsCalls

\* What record_trace_data() writes tells the calls: no call without its callers, in the order
\* of time, every exit after its entry, every entry closed, open calls found by their depth,
\* and all of them written when the program crashes (segv_handler()).
StreamTellsCalls ==
    /\ WrittenFromTheTop /\ TimesInOrder /\ OpenCallsByDepth
    /\ EntryBeforeExit /\ EveryEntryCloses /\ CrashShowsOpenCalls

=============================================================================
