-------------------------------- MODULE CpuRead --------------------------------
(***************************************************************************)
(* Reading back the data recorded per CPU: read_kernel_stack() and         *)
(* read_kernel_cpu() of utils/kernel.c on the files of ftrace, and         *)
(* process_perf_event() of utils/perf.c on those of perf.                  *)
(*                                                                         *)
(* The files belong to CPUs, the analyses want the records of a task.      *)
(* With a time filter (-t) a record is held back in a list of its CPU      *)
(* until the call is known to be long enough, and read_kernel_stack()      *)
(* takes the task of the CPU's last read record for the task of all.       *)
(*                                                                         *)
(* First the machine runs (tasks enter and leave kernel functions on the   *)
(* CPUs), then the files are read.  Left out: size filters, time ranges    *)
(* and triggers on kernel functions, pages with missed events.             *)
(***************************************************************************)
EXTENDS Integers, Sequences, SequencesExt, FiniteSets

CONSTANTS
    Tids,       \* the tasks of the data directory
    NrCpu,      \* kernel->nr_cpus, handle->nr_perf
    Funcs,      \* kernel functions
    Modes,      \* what the machine may do: subsets of "switch", "event",
                \* "stranger" and "sched"
    Threshold,  \* handle->time_filter
    MaxRecs     \* records made

VARIABLES
    mode,       \* the member of Modes
    phase,      \* "run", "read", "perf"
    on,         \* the task on a CPU, or None
    open,       \* per task, the kernel functions it is in
    kfile,      \* kernel-cpuN.dat
    pfile,      \* perf-cpuN.dat
    rd,         \* per CPU [pos: records of kfile read, list: rstack_list, tid: tids,
                \*   valid: rstack_valid, done: rstack_done] of struct uftrace_kernel_reader
    kfuncs,     \* kfunc_tree
    out,        \* what read_kernel_stack() gave, in order: <<task, record>>
    ppos,       \* records of pfile taken so far
    events      \* task->event_list

machine == <<mode, phase, on, open, kfile, pfile>>
reader == <<rd, kfuncs, out>>
perf == <<ppos, events>>
vars == <<machine, reader, perf>>

Cpus == 0..(NrCpu - 1)
None == 0
Known(t) == t \in Tids          \* get_task_handle() # NULL

Written(f) == FoldFunction(LAMBDA seq, n : Len(seq) + n, 0, f)
Clock == Written(kfile) + Written(pfile)

Rec(type, t, f, d) == [type |-> type, tid |-> t, addr |-> f, depth |-> d, time |-> Clock + 1]

--------------------------------------------------------------------------------
(* The machine                                                              *)

Init ==
    /\ mode \in Modes
    /\ phase = "run"
    /\ on = [c \in Cpus |-> IF c = 0 THEN 1 ELSE None]
    \* tracing may begin inside a kernel function
    /\ open \in {[t \in Tids |-> IF t = 1 THEN s ELSE << >>] : s \in {<< >>} \union {<<f>> : f \in Funcs}}
    /\ kfile = [c \in Cpus |-> << >>]
    /\ pfile = [c \in Cpus |-> << >>]
    /\ rd = [c \in Cpus |-> [pos |-> 0, list |-> << >>, tid |-> None, valid |-> FALSE, done |-> FALSE]]
    /\ kfuncs = {}
    /\ out = << >>
    /\ ppos = [c \in Cpus |-> 0]
    /\ events = [t \in Tids |-> << >>]

Running == phase = "run" /\ Clock < MaxRecs
Traced(c, r) == kfile' = [kfile EXCEPT ![c] = Append(@, r)]

Enter(c, f) ==
    LET t == on[c] IN
    /\ Running /\ t # None /\ Len(open[t]) < 2
    /\ Traced(c, Rec("entry", t, f, Len(open[t])))
    /\ open' = [open EXCEPT ![t] = Append(@, f)]
    /\ UNCHANGED <<mode, phase, on, pfile, reader, perf>>

Leave(c) ==
    LET t == on[c] IN
    /\ Running /\ t # None /\ open[t] # << >>
    /\ Traced(c, Rec("exit", t, Last(open[t]), Len(open[t]) - 1))
    /\ open' = [open EXCEPT ![t] = Front(@)]
    /\ UNCHANGED <<mode, phase, on, pfile, reader, perf>>

\* An event of the task, or of one that uftrace does not know
Event(c, t) ==
    /\ Running
    /\ \/ "event" \in mode /\ t = on[c]
       \/ "stranger" \in mode /\ t = None
    /\ Traced(c, Rec("event", t, 0, 0))
    /\ UNCHANGED <<mode, phase, on, open, pfile, reader, perf>>

\* A task leaves a CPU outside of kernel functions and gets
\* onto a free one.  perf records both ("sched").
Switched(c, t, how) ==
    pfile' = IF "sched" \in mode THEN [pfile EXCEPT ![c] = Append(@, Rec(how, t, 0, 0))] ELSE pfile
GetOn(c, t) ==
    /\ Running /\ "switch" \in mode /\ on[c] = None /\ \A d \in Cpus : on[d] # t
    /\ on' = [on EXCEPT ![c] = t]
    /\ Switched(c, t, "in")
    /\ UNCHANGED <<mode, phase, open, kfile, reader, perf>>
GetOff(c) ==
    /\ Running /\ on[c] # None /\ "switch" \in mode
    /\ open[on[c]] = << >>
    /\ on' = [on EXCEPT ![c] = None]
    /\ Switched(c, on[c], "out")
    /\ UNCHANGED <<mode, phase, open, kfile, reader, perf>>
\* PERF_RECORD_COMM
Comm(c) ==
    /\ Running /\ on[c] # None /\ "sched" \in mode
    /\ pfile' = [pfile EXCEPT ![c] = Append(@, Rec("comm", on[c], 0, 0))]
    /\ UNCHANGED <<mode, phase, on, open, kfile, reader, perf>>

Stop ==
    /\ phase = "run" /\ Clock = MaxRecs
    /\ phase' = "read"
    /\ UNCHANGED <<mode, on, open, kfile, pfile, reader, perf>>

--------------------------------------------------------------------------------
(* read_kernel_cpu()                                                        *)

\* The last record of the list that is not an event.  With events only the walk ends on the
\* list's head, whose bytes make an entry of an address for a time: any delta is long.
LastCall(l) == SelectLastInSubSeq(l, 1, Len(l), LAMBDA r : r.type # "event")

\* One record: s = [pos, list, tid, prev, kfuncs, stop]
Add(s, r) == [s EXCEPT !.list = Append(@, r)]
Found(s, r) == [Add(s, r) EXCEPT !.stop = TRUE]
\* "XXX: handle scheduled task properly"
Sched(s, r) == [s EXCEPT !.stop = r.tid # s.prev, !.prev = r.tid]

\* Mutant: the address of a function is not remembered.
TakeEntryOnly(s, r) == Sched(Add(s, r), r)
\* An entry waits for its exit
TakeEntry(s, r) == Sched([Add(s, r) EXCEPT !.kfuncs = @ \union {r.addr}], r)

\* Mutant: the events inside a call that is too short stay.
TakeExitEvents(s, r) ==
    LET i == LastCall(s.list)
    IN  IF r.addr \notin s.kfuncs THEN s
        ELSE IF i # 0 /\ r.time - s.list[i].time < Threshold
             THEN Sched([s EXCEPT !.list = RemoveAt(@, i)], r)
             ELSE Found(s, r)
\* An exit takes a call that was too short back, or ends the wait of all.  The exit of a
\* function never entered so far is ignored.
TakeExit(s, r) ==
    LET i == LastCall(s.list)
    IN  IF r.addr \notin s.kfuncs THEN s
        ELSE IF i # 0 /\ r.time - s.list[i].time < Threshold
             THEN Sched([s EXCEPT !.list = SubSeq(@, 1, i - 1)], r)
             ELSE Found(s, r)
TakeEvent(s, r) == Sched(Add(s, r), r)

\* tids[cpu] changes with every record, also of a task that is not known
TakeRecord(s, r) ==
    LET t == [s EXCEPT !.pos = @ + 1, !.tid = r.tid]
        u == [t EXCEPT !.prev = IF @ = -1 THEN r.tid ELSE @]
    IN  CASE ~Known(r.tid) -> t
          [] Known(r.tid) /\ r.type = "entry" -> TakeEntry(u, r)
          [] Known(r.tid) /\ r.type = "exit" -> TakeExit(u, r)
          [] Known(r.tid) /\ r.type = "event" -> TakeEvent(u, r)

RECURSIVE ReadUntil(_, _)
ReadUntil(f, s) == IF s.stop \/ s.pos = Len(f) THEN s ELSE ReadUntil(f, TakeRecord(s, f[s.pos + 1]))

\* read_kernel_cpu(): what is left in the list, or the next records of the file
ReadCpu(d, f, kf) ==
    LET s == ReadUntil(f, [pos |-> d.pos, list |-> d.list, tid |-> d.tid, prev |-> -1,
                           kfuncs |-> kf, stop |-> d.list # << >>])
    IN  [cpu |-> [pos |-> s.pos, list |-> s.list, tid |-> s.tid,
                  valid |-> s.list # << >>, done |-> s.list = << >>],
         kfuncs |-> s.kfuncs]

--------------------------------------------------------------------------------
(* read_kernel_stack() and the consumer                                     *)

\* Every CPU without a valid record is read, in order
RECURSIVE Fetch(_, _)
Fetch(k, c) ==
    IF c = NrCpu THEN k
    ELSE IF k.cpu[c].valid \/ (k.cpu[c].done /\ k.cpu[c].list = << >>) THEN Fetch(k, c + 1)
    ELSE LET r == ReadCpu(k.cpu[c], kfile[c], k.kfuncs)
         IN  Fetch([cpu |-> [k.cpu EXCEPT ![c] = r.cpu], kfuncs |-> r.kfuncs], c + 1)

Ready(cpu) == {c \in Cpus : cpu[c].valid}

\* Mutant: the first CPU that has a record.
OldestFirst(cpu) == CHOOSE c \in Ready(cpu) : \A d \in Ready(cpu) : c <= d
\* The CPU with the oldest record
Oldest(cpu) == CHOOSE c \in Ready(cpu) : \A d \in Ready(cpu) : cpu[c].list[1].time <= cpu[d].list[1].time

\* The task is the one of the CPU's last read record.  A record of an unknown task is dropped,
\* another one goes to __fstack_consume().
ReadStack ==
    /\ phase = "read"
    /\ LET k == Fetch([cpu |-> rd, kfuncs |-> kfuncs], 0)
           c == Oldest(k.cpu)
       IN  /\ kfuncs' = k.kfuncs
           /\ IF Ready(k.cpu) = {}
              THEN rd' = k.cpu /\ phase' = "perf" /\ out' = out
              ELSE /\ rd' = [k.cpu EXCEPT ![c].valid = FALSE, ![c].list = Tail(@)]
                   /\ out' = IF Known(k.cpu[c].tid) THEN Append(out, <<k.cpu[c].tid, k.cpu[c].list[1]>>) ELSE out
                   /\ phase' = phase
    /\ UNCHANGED <<mode, on, open, kfile, pfile, perf>>

--------------------------------------------------------------------------------
(* process_perf_event(), with a time filter                                 *)

PerfCpus == {c \in Cpus : ppos[c] < Len(pfile[c])}
PerfNext(c) == pfile[c][ppos[c] + 1]
\* read_perf_data()
PerfOldest == CHOOSE c \in PerfCpus : \A d \in PerfCpus : PerfNext(c).time <= PerfNext(d).time

LastOut(l) == SelectLastInSubSeq(l, 1, Len(l), LAMBDA r : r.type = "out")

\* Mutant: the sched-out stays.
AddEventLast(l, r) ==
    IF r.type = "in" /\ LastOut(l) # 0 /\ r.time - l[LastOut(l)].time < Threshold
    THEN l
    ELSE Append(l, r)
\* Where a task comes back from a pause shorter than the filter, remove_event_rstack() takes
\* the pause back
AddEvent(l, r) ==
    IF r.type = "in" /\ LastOut(l) # 0 /\ r.time - l[LastOut(l)].time < Threshold
    THEN SubSeq(l, 1, LastOut(l) - 1)
    ELSE Append(l, r)

PerfEvent ==
    /\ phase = "perf" /\ PerfCpus # {}
    /\ LET r == PerfNext(PerfOldest) IN
       /\ ppos' = [ppos EXCEPT ![PerfOldest] = @ + 1]
       /\ events' = [events EXCEPT ![r.tid] = AddEvent(@, r)]
    /\ UNCHANGED <<machine, reader>>

Next ==
    \/ \E c \in Cpus : \/ \E f \in Funcs : Enter(c, f)
                       \/ Leave(c) \/ GetOff(c) \/ Comm(c)
                       \/ \E t \in Tids \union {None} : Event(c, t)
                       \/ \E t \in Tids : GetOn(c, t)
    \/ Stop \/ ReadStack \/ PerfEvent

Spec == Init /\ [][Next]_vars

--------------------------------------------------------------------------------
(* Properties                                                               *)

Recs(file) == UNION {Range(file[c]) : c \in Cpus}
ReadAll == phase = "perf" /\ PerfCpus = {}
Shown(r) == \E i \in DOMAIN out : out[i][2] = r

\* A call of the kernel: an entry and the exit of the same task and depth that follows it
Calls ==
    LET After(e) == {x \in Recs(kfile) : /\ x.type = "exit" /\ x.tid = e.tid
                                         /\ x.depth = e.depth /\ x.time > e.time}
    IN  {<<e, x>> \in Recs(kfile) \X Recs(kfile) :
            /\ e.type = "entry" /\ x \in After(e)
            /\ \A y \in After(e) : x.time <= y.time}

\* read_kernel_stack(): the records of all CPUs come in the order of their times, each once,
\* and @task is the task whose record it is (comment of read_kernel_stack()).
OldestOfItsTask ==
    /\ \A i \in DOMAIN out : out[i][1] = out[i][2].tid
    /\ \A i, j \in DOMAIN out : i < j => out[i][2].time < out[j][2].time

\* read_kernel_cpu() keeps every call of at least the filter's time, with its entry and its
\* exit, drops the shorter ones on a CPU of a single task, and never shows half of a call.
CallsFiltered ==
    ReadAll => \A c \in Calls :
        /\ Shown(c[1]) <=> Shown(c[2])
        /\ c[2].time - c[1].time >= Threshold => Shown(c[1])
        /\ c[2].time - c[1].time < Threshold /\ "switch" \notin mode => ~Shown(c[1])

\* The kernel events of a call that read_kernel_cpu() drops go with it, and no others.
EventsFollowCalls ==
    ReadAll /\ "stranger" \notin mode => \A e \in Recs(kfile) : e.type = "event" /\ Known(e.tid) =>
        (Shown(e) <=> ~\E c \in Calls :
            /\ c[1].tid = e.tid /\ c[1].time < e.time /\ e.time < c[2].time
            /\ c[2].time - c[1].time < Threshold)

\* process_perf_event(): the list of a task holds its events of all CPUs in the order of
\* their times, without the pauses shorter than the time filter.
PausesFiltered ==
    ReadAll => \A t \in Tids :
        LET mine == {r \in Recs(pfile) : r.tid = t}
            Pause(o, i) == /\ o.type = "out" /\ i.type = "in" /\ o.time < i.time
                           /\ ~\E r \in mine : r.type = "in" /\ o.time < r.time /\ r.time < i.time
                           /\ i.time - o.time < Threshold
            kept == {r \in mine : ~\E s \in mine : Pause(r, s) \/ Pause(s, r)}
        IN  events[t] = SetToSortSeq(kept, LAMBDA a, b : a.time < b.time)

\* The records of all CPUs come in order, for the right tasks, and what a time filter drops is
\* whole calls and pauses with what belongs to them (read_kernel_stack(), process_perf_event()).
CpuDataRead == OldestOfItsTask /\ CallsFiltered /\ EventsFollowCalls /\ PausesFiltered

================================================================================
