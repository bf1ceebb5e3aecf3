-------------------------------- MODULE ArgData --------------------------------
(***************************************************************************)
(* The variable part of the trace data: arguments, return values and       *)
(* events of a task.  The traced thread keeps them in a buffer per call    *)
(* (ARGBUF_SIZE: a size, the arguments, and the events from the other end) *)
(* and writes them after the record (libmcount/record.c); the reader finds *)
(* the next record only if it takes exactly the same bytes away            *)
(* (utils/fstack.c, read_task_args() and read_task_event()).               *)
(*                                                                         *)
(* Sizes are in words of 4 bytes.  A word of the file is [k, v]: the first *)
(* word of a record ("rec"), the length of a string or an event, or data.  *)
(* Buffers shared with the recorder are left out (Recording), and so is    *)
(* which calls are recorded (Mcount): a call is recorded or too short.     *)
(***************************************************************************)
EXTENDS Integers, Sequences, SequencesExt, FiniteSets

CONSTANTS
    Cases,      \* [spec, read, sizes]: the argument spec of the function, with `read' trigger events or not,
                \* and the lengths of strings it is called with, in bytes
    ArgBuf,     \* ARGBUF_SIZE in words
    EvHdr, EvData,  \* EVTBUF_HDR and the size of the event, in words
    StrMax,     \* ARG_STR_MAX
    MaxDepth, MaxCalls, MaxAsync, MaxEvent, \* MAX_EVENT and the bounds
    LowHalves   \* what the low half of a time stamp may be

VARIABLES
    case,
    stack,      \* the calls: [start, flags, data, size, evs, evidx]
    sizes,      \* the size in the buffer of each depth, which stays after the call
    queue,      \* mtdp->event[]: [time, kind]
    inited,     \* mtdp->watch.inited
    clock, calls, asyncs,
    file,       \* the words written
    log,        \* what they stand for: [type, time, data, at (in the file)]
    pos, got, lost,  \* the reader
    cut         \* was the thread killed after a record and before its arguments?

vars == <<case, stack, sizes, queue, inited, clock, calls, asyncs, file, log, pos, got, lost, cut>>

Words(bytes) == (bytes + 3) \div 4
Even(words) == words + (words % 2)
W(k, v) == [k |-> k, v |-> v]
Data(v, n) == [i \in 1 .. n |-> W("data", v)]
Args(s) == SelectSeq(s, LAMBDA a : ~a.ret)
Rets(s) == SelectSeq(s, LAMBDA a : a.ret)
MaxData == ArgBuf - 1

-----------------------------------------------------------------------------
(* The traced thread *)

\* Mutant: the length field is not part of a string's size.
SaveOneShort(words, a, len) ==
    IF a.str THEN words \o <<W("len", len)>> \o Data(clock, Words(len) - 1) ELSE words \o Data(clock, Words(a.size))

\* One argument: a string has two bytes of length, and is cut where the buffer ends.
SaveOne(words, a, len) ==
    LET room == 4 * (MaxData - Len(words))
        most == IF len > StrMax THEN StrMax ELSE len
        n == IF room < 0 \/ most < room THEN most ELSE room
    IN IF a.str THEN words \o <<W("len", n)>> \o Data(clock, Words(n + 2) - 1) ELSE words \o Data(clock, Words(a.size))

\* save_to_argbuf()
SaveToArgbuf(specs, len) == FoldLeft(LAMBDA w, a : SaveOne(w, a, len), << >>, specs)
Fits(words) == Len(words) <= MaxData

\* What save_trigger_read() takes for the size of the arguments: a word at the start of the last
\* event, or of the next buffer
TakenSize(f, depth, low) ==
    IF f.flags \cap {"ARGUMENT", "RETVAL"} = {} THEN 0
    ELSE IF f.evs = << >> THEN (IF depth + 1 \in DOMAIN sizes THEN sizes[depth + 1] ELSE low) ELSE low

\* save_trigger_read()
SaveRead(f, depth, time, low) ==
    LET from == f.evidx - EvHdr - EvData
        hit == {i \in DOMAIN f.data : i >= from}
    IN IF from < TakenSize(f, depth, low) THEN f
       ELSE [f EXCEPT !.evs = Append(@, [time |-> time, kind |-> "read"]), !.evidx = from,
                      !.data = [i \in DOMAIN f.data |-> IF i \in hit THEN W("junk", 0) ELSE f.data[i]]]

\* save_watchpoint(): the processor changed, or it is the first time
SaveWatch(q, time) ==
    IF Len(q) < MaxEvent THEN Append(q, [time |-> IF inited THEN time - 1 ELSE time + 1, kind |-> "cpu"]) ELSE q

\* record_event(): 2 bytes of length and the data, aligned to 8
EventWords(kind) ==
    LET n == CASE kind = "read" -> EvData [] kind = "cpu" -> 1 [] kind = "sdt" -> 0
    IN IF n = 0 THEN << >> ELSE <<W("len", n)>> \o Data("ev", Even(n + 1) - 1)

\* The file and its log
Out(o, type, time, more, words, mean) ==
    [file |-> o.file \o <<W("rec", [type |-> type, more |-> more])>> \o Data(0, 3) \o words
                     \o (IF Len(words) % 2 = 1 THEN Data(0, 1) ELSE << >>),
     log |-> Append(o.log, [type |-> type, time |-> time, data |-> mean, at |-> Len(o.file) + 1]), q |-> o.q]

RecordEvent(o, e) == Out(o, e.kind, e.time, EventWords(e.kind) # << >>, EventWords(e.kind), << >>)

\* Mutant: all queued events are written with the next record.
EarlierAll(o, time) == [FoldLeft(RecordEvent, o, o.q) EXCEPT !.q = << >>]

\* The queued events that are before a record
Earlier(o, time) ==
    LET n == Cardinality({i \in DOMAIN o.q : \A j \in 1 .. i : o.q[j].time < time})
    IN [FoldLeft(RecordEvent, o, SubSeq(o.q, 1, n)) EXCEPT !.q = SubSeq(o.q, n + 1, Len(o.q))]

EventsAt(f, time) == SelectSeq(f.evs, LAMBDA e : e.time = time)

\* record_ret_stack() for an entry: the read events of the entry come after it.
RecordEntry(o, f) ==
    LET more == "ARGUMENT" \in f.flags
        o2 == Out(Earlier(o, f.start), "entry", f.start, more, IF more THEN f.data ELSE << >>, IF more THEN f.saved ELSE << >>)
    IN FoldLeft(RecordEvent, o2, EventsAt(f, f.start))

\* ... and for an exit, where they come before it.
RecordExit(o, f, time, ret) ==
    LET more == "RETVAL" \in f.flags /\ Fits(ret)
        o2 == FoldLeft(RecordEvent, Earlier(o, time), EventsAt(f, time))
    IN Out(o2, "exit", time, more, IF more THEN ret ELSE << >>, IF more THEN ret ELSE << >>)

\* record_trace_data(): the entries that are not written yet first
WriteEntries(o, frames) ==
    FoldLeft(LAMBDA x, f : IF "WRITTEN" \in f.flags THEN x ELSE RecordEntry(x, f), o, frames)
Written(frames) == [i \in DOMAIN frames |-> [frames[i] EXCEPT !.flags = @ \cup {"WRITTEN"}]]
Now == [file |-> file, log |-> log, q |-> queue]
Store(o) == file' = o.file /\ log' = o.log /\ queue' = o.q

Same == UNCHANGED <<case, pos, got, lost, cut>>

\* mcount_entry_filter_record() with save_argument()
Entry(len, moved) ==
    LET words == SaveToArgbuf(Args(case.spec), len)
        ok == Args(case.spec) # << >> /\ Fits(words)
        flags == (IF ok THEN {"ARGUMENT"} ELSE {}) \cup (IF Rets(case.spec) # << >> THEN {"RETVAL"} ELSE {})
        depth == Len(stack) + 1
        f == [start |-> clock, flags |-> flags, data |-> IF ok THEN words ELSE << >>, saved |-> IF ok THEN words ELSE << >>,
              evs |-> << >>, evidx |-> ArgBuf]
        g == IF case.read THEN SaveRead(f, depth, clock, 0) ELSE f
        q == IF moved THEN SaveWatch(queue, clock) ELSE queue
        flush == \E i \in DOMAIN q : q[i].kind = "sdt"
        s == Append(stack, g)
        o == WriteEntries([Now EXCEPT !.q = q], s)
    IN /\ depth <= MaxDepth /\ calls < MaxCalls /\ calls' = calls + 1
       /\ moved => asyncs < MaxAsync
       /\ asyncs' = IF moved THEN asyncs + 1 ELSE asyncs
       /\ sizes' = IF ok THEN [sizes EXCEPT ![depth] = Len(words)] ELSE sizes
       /\ clock' = clock + 2 /\ inited' = (inited \/ moved)
       /\ IF flush THEN Store(o) /\ stack' = Written(s) ELSE stack' = s /\ queue' = q /\ UNCHANGED <<file, log>>
       /\ Same

\* mcount_exit_filter_record() with save_retval()
Exit(len, moved, short, low) ==
    LET depth == Len(stack)
        f == Last(stack)
        g == IF case.read THEN SaveRead(f, depth, clock, low) ELSE f
        q == IF moved THEN SaveWatch(queue, clock) ELSE queue
        flush == \E i \in DOMAIN q : q[i].kind = "sdt"
        keep == ~short \/ "WRITTEN" \in f.flags \/ flush
        s == [stack EXCEPT ![depth] = g]
        ret == SaveToArgbuf(Rets(case.spec), len)
        o == RecordExit(WriteEntries([Now EXCEPT !.q = q], s), g, clock, ret)
    IN /\ stack # << >>
       /\ moved => asyncs < MaxAsync
       /\ asyncs' = IF moved THEN asyncs + 1 ELSE asyncs
       /\ clock' = clock + 2 /\ inited' = (inited \/ moved)
       /\ IF keep
          THEN /\ Store(o) /\ stack' = Front(Written(s))
               /\ sizes' = IF Rets(case.spec) # << >> /\ Fits(ret) THEN [sizes EXCEPT ![depth] = Len(ret)] ELSE sizes
          ELSE queue' = q /\ stack' = Front(stack) /\ UNCHANGED <<file, log, sizes>>
       /\ Same /\ UNCHANGED calls

\* mcount_save_event(): an SDT event
Async ==
    /\ asyncs < MaxAsync /\ asyncs' = asyncs + 1
    /\ queue' = IF Len(queue) < MaxEvent THEN Append(queue, [time |-> clock, kind |-> "sdt"]) ELSE queue
    /\ clock' = clock + 2
    /\ Same /\ UNCHANGED <<stack, sizes, inited, calls, file, log>>

\* The thread is killed inside its k-th record (what it has written is a prefix of what it would
\* have written in the end): record_ret_stack() adds the record to the size of the buffer and then
\* its data; record_event() adds both at once.
Kill(k) ==
    /\ stack = << >> /\ calls = MaxCalls /\ pos = 1
    /\ log[k].data # << >>
    /\ file' = SubSeq(file, 1, log[k].at + 3) /\ log' = SubSeq(log, 1, k) /\ cut' = TRUE
    /\ calls' = MaxCalls + 1 /\ queue' = << >> /\ clock' = 0 /\ asyncs' = MaxAsync
    /\ sizes' = [i \in 1 .. MaxDepth |-> 0] /\ inited' = FALSE
    /\ UNCHANGED <<case, stack, pos, got, lost>>

-----------------------------------------------------------------------------
(* The reader *)

\* Mutant: no alignment after the arguments
SkippedNot(from, to) == to

\* Where the next record is after arguments that end at `to'
Skipped(from, to) == from + Even(to - from)

\* read_task_arg(): p is the position, or 0 when it is lost
ReadArg(p, a) ==
    IF p = 0 \/ p > Len(file) THEN 0
    ELSE IF ~a.str THEN p + Words(a.size)
    ELSE IF file[p].k = "len" THEN p + Words(file[p].v + 2) ELSE 0

\* read_task_args() and read_task_event()
AfterData(type, p) ==
    IF type \in {"entry", "exit"}
    THEN LET specs == IF type = "exit" THEN Rets(case.spec) ELSE Args(case.spec)
             end == FoldLeft(ReadArg, p, specs)
         IN IF end = 0 THEN 0 ELSE Skipped(p, end)
    ELSE IF p <= Len(file) /\ file[p].k = "len" THEN p + Even(file[p].v + 1) ELSE 0

\* __read_task_ustack() with the data after the record
Read ==
    LET w == file[pos]
        next == IF w.v.more THEN AfterData(w.v.type, pos + 4) ELSE pos + 4
    IN /\ stack = << >> /\ calls >= MaxCalls /\ ~lost /\ pos <= Len(file)
       /\ IF w.k = "rec" /\ next # 0
          THEN /\ got' = Append(got, [type |-> w.v.type, data |-> IF w.v.more /\ w.v.type \in {"entry", "exit"}
                                                                THEN SubSeq(file, pos + 4, next - 1) ELSE << >>])
               /\ pos' = next /\ UNCHANGED lost
          ELSE lost' = TRUE /\ UNCHANGED <<pos, got>>
       /\ UNCHANGED <<case, stack, sizes, queue, inited, clock, calls, asyncs, file, log, cut>>

Init ==
    /\ case \in Cases
    /\ stack = << >> /\ sizes = [i \in 1 .. MaxDepth |-> 0] /\ queue = << >> /\ inited = FALSE
    /\ clock = 2 /\ calls = 0 /\ asyncs = 0 /\ file = << >> /\ log = << >>
    /\ pos = 1 /\ got = << >> /\ lost = FALSE /\ cut = FALSE

Next ==
    \/ \E len \in case.sizes, moved \in BOOLEAN : Entry(len, moved)
    \/ \E len \in case.sizes, moved, short \in BOOLEAN, low \in LowHalves : Exit(len, moved, short, low)
    \/ \E k \in DOMAIN log : Kill(k)
    \/ Async \/ Read

Spec == Init /\ [][Next]_vars

-----------------------------------------------------------------------------
(* Properties *)

\* The reader gets the records that were written, one by one, each with the arguments and return
\* values that were saved for it, and never takes data for a record.  The one record that a kill
\* left without its arguments, the last one, is where the reader gives up.
ReaderKeepsStep ==
    /\ lost => cut /\ Len(got) = Len(log) - 1
    /\ Len(got) <= Len(log)
    /\ \A i \in DOMAIN got :
         /\ got[i].type = log[i].type
         /\ Len(log[i].data) <= Len(got[i].data) /\ SubSeq(got[i].data, 1, Len(log[i].data)) = log[i].data
    /\ pos > Len(file) => Len(got) = Len(log)

\* With their events the records of a task are in the order of time, whenever calls are left out,
\* events are queued, and entries are written late.
EventsInOrder == \A i \in 1 .. Len(log) - 1 : log[i].time <= log[i + 1].time

\* The read trigger gives an event at the start and one at the end of every recorded call.
ReadsAtBothEnds ==
    case.read /\ stack = << >> =>
        2 * Cardinality({i \in DOMAIN log : log[i].type = "entry"}) = Cardinality({i \in DOMAIN log : log[i].type = "read"})

\* The reader finds in the file what was written, record by record with the right arguments,
\* and in the order of time (record_ret_stack(), read_task_args()).
DataReadBack == ReaderKeepsStep /\ EventsInOrder

===============================================================================
