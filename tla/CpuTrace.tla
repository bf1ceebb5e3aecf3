------------------------------- MODULE CpuTrace --------------------------------
(***************************************************************************)
(* Recording the data that the kernel keeps per CPU: utils/kernel.c and    *)
(* utils/tracefs.c (ftrace) and utils/perf.c (perf events), driven by the  *)
(* set-up, the writer threads and the tear-down of cmds/record.c.          *)
(*                                                                         *)
(* uftrace configures the ftrace of the whole machine through files of     *)
(* tracefs and must leave them as it found them on every way out.  The     *)
(* data of a CPU is read by one writer thread until it stops, and what is  *)
(* left then by the main thread (ftrace) or by the writer itself (perf).   *)
(*                                                                         *)
(* Left out: what the filter files hold, the buffer sizes, read errors.    *)
(***************************************************************************)
EXTENDS Integers, Sequences

CONSTANTS
    Confs,      \* requests and machines: [kernel, perf, events, remote : BOOLEAN,
                \*   missing : files that do not exist, refused : files that refuse uftrace's value,
                \*   busy : per source, the CPUs on which something happens, max : and how much]
    NrCpu,      \* wd->nr_cpu
    NrThread,   \* opts->nr_thread
    Ring,       \* slots of a perf ring buffer (a power of two)
    OpenFails   \* may a per-CPU file of tracefs fail to open?

VARIABLES
    conf,       \* the configuration of the run
    main,       \* where the main thread is
    fs,         \* the files of tracefs: "default" or "set"
    kern,       \* opts->kernel
    enabled,    \* kernel_tracing_enabled
    perf,       \* has_perf_event
    child,      \* "waits", "runs", "gone"
    made,       \* data made so far, per source and CPU
    raw,       \* trace_pipe_raw of a CPU
    ring,       \* perf ring buffers: [buf, head, tail]
    saved,      \* kernel-cpuN.dat and perf-cpuN.dat here or at the remote host
    local,      \* what was written to files that are removed afterwards (--host)
    stop,       \* buf_done: "no", or who ended the recording
    wr          \* writers: [pc, todo, have]

cpuVars == <<conf, main, fs, kern, enabled, perf, child, made, raw, ring, saved, local, stop, wr>>

Cpus == 0..(NrCpu - 1)
Writers == 0..(NrThread - 1)
Sources == {"kernel", "perf"}

Files == {"tracing_on", "current_tracer", "trace_clock", "set_ftrace_pid", "set_graph_function",
          "set_event_pid", "set_graph_notrace", "event-fork", "function-fork", "set_ftrace_filter",
          "set_ftrace_notrace", "max_graph_depth", "set_event", "buffer_size_kb"}
\* "ignore error on old kernel"
OldKernel == {"set_event_pid", "set_graph_notrace", "event-fork", "function-fork"}

ASSUME CpuAssumption ==
    /\ NrCpu \in Nat \ {0} /\ NrThread \in Nat \ {0} /\ Ring \in Nat \ {0}
    /\ \A c \in Confs :
        /\ c.kernel \in BOOLEAN /\ c.perf \in BOOLEAN /\ c.events \in BOOLEAN /\ c.remote \in BOOLEAN
        /\ c.missing \subseteq Files /\ c.refused \subseteq Files \cup {"trace"}

--------------------------------------------------------------------------------
(* tracefs                                                                  *)

\* write_tracing_file(), append_tracing_file(): the value is refused, or there is no file
Fails(w) == w.file \in conf.missing \/ (w.val # "default" /\ w.file \in conf.refused)

\* Writes in order, up to the first that fails and may not; a list names a file once.
WriteAll(f, ws) ==
    LET ends == {i \in DOMAIN ws : ws[i].must /\ Fails(ws[i])}
        done == {i \in DOMAIN ws : ~Fails(ws[i]) /\ \A j \in ends : i < j}
    IN [fs |-> [x \in Files |-> IF \E i \in done : ws[i].file = x
                               THEN ws[CHOOSE i \in done : ws[i].file = x].val ELSE f[x]],
        ok |-> ends = {}]

Write(file, val) == [file |-> file, val |-> val, must |-> file \notin OldKernel]

ResetOrder == <<"tracing_on", "current_tracer", "trace_clock", "set_ftrace_pid", "set_graph_function",
                "set_event_pid", "set_graph_notrace", "event-fork", "function-fork",
                "set_ftrace_filter", "set_ftrace_notrace", "max_graph_depth", "set_event",
                "buffer_size_kb">>

\* Mutant: the options of old kernels are not put back.
ResetTracingShort(f) ==
    WriteAll(f, [i \in DOMAIN ResetOrder |-> Write(ResetOrder[i],
        IF ResetOrder[i] = "event-fork" THEN f["event-fork"] ELSE "default")])

\* reset_tracing_files()
ResetTracing(f) == WriteAll(f, [i \in DOMAIN ResetOrder |-> Write(ResetOrder[i], "default")])

\* the files __setup_kernel_tracing() sets, in order; tracing is off meanwhile.  Writing to `trace'
\* empties the buffer and keeps nothing.
SetupOrder ==
    <<"trace", "trace_clock", "set_ftrace_pid", "set_event_pid", "set_graph_function", "set_graph_notrace",
      "set_ftrace_filter", "set_ftrace_notrace", "max_graph_depth">>
    \o (IF conf.events THEN <<"set_event">> ELSE << >>)
    \o <<"function-fork">>
    \o (IF "function-fork" \in conf.missing THEN << >> ELSE <<"event-fork">>)
    \o <<"buffer_size_kb", "current_tracer">>

\* Mutant: a step that fails is reported, and nothing is undone.
SetupTracingKeeps(f) ==
    LET r == ResetTracing(f)
        off == WriteAll(r.fs, <<Write("tracing_on", "off")>>)
        s == WriteAll(off.fs, [i \in DOMAIN SetupOrder |-> Write(SetupOrder[i], "set")])
    IN IF ~r.ok THEN r ELSE IF ~off.ok THEN off ELSE s

\* __setup_kernel_tracing(): [fs, ok]
SetupTracing(f) ==
    LET r == ResetTracing(f)
        off == WriteAll(r.fs, <<Write("tracing_on", "off")>>)
        s == WriteAll(off.fs, [i \in DOMAIN SetupOrder |-> Write(SetupOrder[i], "set")])
    IN IF ~r.ok THEN r
       ELSE IF ~off.ok THEN off
       ELSE IF s.ok THEN s ELSE [fs |-> ResetTracing(s.fs).fs, ok |-> FALSE]

--------------------------------------------------------------------------------
(* The main thread                                                          *)

\* The piece of data in the hands of a writer
Nothing == [src |-> "none", cpu |-> 0, data |-> << >>, head |-> 0]

NoData == [s \in Sources |-> [c \in Cpus |-> << >>]]

CpuInit ==
    /\ conf \in Confs
    /\ main = "setup"
    /\ fs = [f \in Files |-> "default"]
    /\ kern = conf.kernel /\ enabled = FALSE /\ perf = conf.perf
    /\ child = "waits"
    /\ made = [s \in Sources |-> [c \in Cpus |-> 0]]
    /\ raw = [c \in Cpus |-> << >>]
    /\ ring = [c \in Cpus |-> [buf |-> [i \in 0..(Ring - 1) |-> 0], head |-> 0, tail |-> 0]]
    /\ saved = NoData /\ local = NoData
    /\ stop = "no"
    /\ wr = [w \in Writers |-> [pc |-> "none", todo |-> {}, have |-> Nothing]]

\* setup_kernel_tracing(): events alone turn on opts->kernel too; an error turns it off
SetupKernel ==
    LET want == conf.kernel \/ conf.events
        s == SetupTracing(fs)
    IN /\ fs' = IF want THEN s.fs ELSE fs
       /\ kern' = (want /\ s.ok)
       /\ enabled' = (want /\ s.ok)

\* setup_perf_record(): it needs a descriptor, a buffer and a file for every CPU, or none is kept
SetupPerf == perf' \in (IF conf.perf THEN BOOLEAN ELSE {FALSE})

\* setup_writers()
SetupWriters ==
    /\ main = "setup"
    /\ SetupKernel /\ SetupPerf
    /\ main' = "start"
    /\ UNCHANGED <<conf, child, made, raw, ring, saved, local, stop, wr>>

\* Mutant: the share of a writer is rounded down.
CpusOfDown(w) ==
    LET per == NrCpu \div NrThread
    IN [k \in 1..per |-> IF (w * per) + k - 1 < NrCpu THEN (w * per) + k - 1 ELSE -1]

\* the CPUs that start_tracing() gives a writer; -1 where the division leaves none
CpusOf(w) ==
    LET per == (NrCpu + NrThread - 1) \div NrThread
    IN [k \in 1..per |-> IF (w * per) + k - 1 < NrCpu THEN (w * per) + k - 1 ELSE -1]

\* start_kernel_tracing(): if a file of a CPU cannot be opened the loop that closes them runs
\* past the arrays, for its condition is "kernel->nr_cpus"
StartKernel(next) ==
    \/ next = "run" /\ fs' = IF kern THEN [fs EXCEPT !["tracing_on"] = "default"] ELSE fs
    \/ next = "crashed" /\ OpenFails /\ kern /\ UNCHANGED fs

\* start_tracing(): ftrace goes on, the writers start, and the child may go
StartTracing ==
    /\ main = "start"
    /\ \E next \in {"run", "crashed"} :
        /\ StartKernel(next)
        /\ main' = next
        /\ child' = IF next = "run" THEN "runs" ELSE child
        /\ wr' = [w \in Writers |-> [wr[w] EXCEPT !.pc = IF next = "run" THEN "loop" ELSE @]]
    /\ UNCHANGED <<conf, kern, enabled, perf, made, raw, ring, saved, local, stop>>

\* stop_kernel_tracing()
StopKernel == fs' = IF kern /\ enabled THEN [fs EXCEPT !["tracing_on"] = "off"] ELSE fs

\* stop_tracing(): the child is gone, or the user has stopped uftrace
StopTracing ==
    /\ main = "run" /\ child \in {"runs", "gone"}
    /\ stop' = IF child = "gone" THEN "child" ELSE "user"
    /\ StopKernel
    /\ main' = "join"
    /\ UNCHANGED <<conf, kern, enabled, perf, child, made, raw, ring, saved, local, wr>>

Put(d, src, c, data) == [d EXCEPT ![src][c] = @ \o data]

\* finish_kernel_tracing(): record_kernel_tracing() until nothing is left, always into files
DrainPipe ==
    /\ main = "join" /\ \A w \in Writers : wr[w].pc = "done"
    /\ kern
    /\ \E c \in Cpus :
        /\ raw[c] # << >> /\ \A b \in Cpus : raw[b] # << >> => c <= b
        /\ raw' = [raw EXCEPT ![c] = << >>]
        /\ IF conf.remote THEN local' = Put(local, "kernel", c, raw[c]) /\ UNCHANGED saved
           ELSE saved' = Put(saved, "kernel", c, raw[c]) /\ UNCHANGED local
    /\ UNCHANGED <<conf, main, fs, kern, enabled, perf, child, made, ring, stop, wr>>

\* Mutant: one pass over the CPUs is enough.
FinishWritersEarly ==
    /\ main = "join" /\ \A w \in Writers : wr[w].pc = "done"
    /\ fs' = IF kern THEN ResetTracing(fs).fs ELSE fs
    /\ enabled' = FALSE
    /\ main' = "end"
    /\ UNCHANGED <<conf, kern, perf, child, made, raw, ring, saved, local, stop, wr>>

\* finish_kernel_tracing() when nothing is left, finish_perf_record()
FinishWriters ==
    /\ main = "join" /\ \A w \in Writers : wr[w].pc = "done"
    /\ kern => \A c \in Cpus : raw[c] = << >>
    /\ fs' = IF kern THEN ResetTracing(fs).fs ELSE fs
    /\ enabled' = FALSE
    /\ main' = "end"
    /\ UNCHANGED <<conf, kern, perf, child, made, raw, ring, saved, local, stop, wr>>

--------------------------------------------------------------------------------
(* The writer threads                                                       *)

\* setup_pollfd(): the descriptors after the control raw, as [src, k : index into cpus]
PollFds(w) ==
    LET n == Len(CpusOf(w))
        fds(src) == [k \in 1..n |-> [src |-> src, k |-> k]]
    IN (IF perf THEN fds("perf") ELSE << >>) \o (IF kern THEN fds("kernel") ELSE << >>)

HasData(src, c) ==
    IF c = -1 THEN FALSE
    ELSE IF src = "kernel" THEN raw[c] # << >> ELSE ring[c].head # ring[c].tail

\* handle_pollfd(): what is read of the descriptors that are ready, each at its place.  Without
\* the control pipe (idle = FALSE) the loop stops one short, and the kernel's are taken for their next.
Ready(w, idle, ready) ==
    LET cpus == CpusOf(w)
        n == Len(cpus)
        nr == (IF idle THEN 1 ELSE 0) + Len(PollFds(w))
        Of(i) == IF perf /\ i < n + 1 THEN [at |-> i, src |-> "perf", cpu |-> cpus[i]]
                 ELSE [at |-> i, src |-> "kernel", cpu |-> cpus[i - (nr - n) + 1]]
    IN {x \in {Of(i) : i \in ready \cap 1..(nr - 1)} : x.cpu # -1}

\* poll() on behalf of handle_pollfd()
Poll(w) ==
    /\ wr[w].pc = "loop" /\ stop = "no" /\ wr[w].todo = {} /\ wr[w].have = Nothing
    /\ \E idle \in BOOLEAN :
        LET fds == PollFds(w)
            ready == {i \in DOMAIN fds : HasData(fds[i].src, CpusOf(w)[fds[i].k])}
        IN wr' = [wr EXCEPT ![w].todo = Ready(w, idle, ready)]
    /\ wr'[w].todo # {}
    /\ UNCHANGED <<conf, main, fs, kern, enabled, perf, child, made, raw, ring, saved, local, stop>>

\* Mutant: the data is taken as one piece.
RingDataFlat(r) ==
    LET at == r.tail % Ring
    IN [i \in 1..(r.head - r.tail) |-> IF at + i - 1 < Ring THEN r.buf[at + i - 1] ELSE 0]

\* record_perf_data(): the part up to the end of the buffer, then the part from its start
RingData(r) ==
    LET size == r.head - r.tail
        at == r.tail % Ring
        wraps == at + size # r.head % Ring
        first == IF wraps THEN Ring - at ELSE 0
        start == r.tail + first
        Slots(from, n) == [i \in 1..n |-> r.buf[from + i - 1]]
    IN Slots(at, first) \o Slots(start % Ring, r.head - start)

\* record_kernel_trace_pipe(), record_perf_data(): the data is copied
Take(w) ==
    /\ wr[w].have = Nothing
    /\ \E x \in wr[w].todo :
        LET data == IF x.src = "kernel" THEN raw[x.cpu] ELSE RingData(ring[x.cpu])
        IN /\ \A y \in wr[w].todo : x.at <= y.at
           /\ wr' = [wr EXCEPT ![w].todo = @ \ {x},
                               ![w].have = IF data = << >> THEN Nothing
                                           ELSE [src |-> x.src, cpu |-> x.cpu, data |-> data, head |-> ring[x.cpu].head]]
           /\ raw' = IF x.src = "kernel" THEN [raw EXCEPT ![x.cpu] = << >>] ELSE raw
    /\ UNCHANGED <<conf, main, fs, kern, enabled, perf, child, made, ring, saved, local, stop>>

\* ... and saved, or sent to the remote host; then the kernel may use the room again
Save(w) ==
    /\ wr[w].have # Nothing
    /\ LET h == wr[w].have
       IN /\ saved' = Put(saved, h.src, h.cpu, h.data)
          /\ ring' = IF h.src = "perf" THEN [ring EXCEPT ![h.cpu].tail = h.head] ELSE ring
    /\ wr' = [wr EXCEPT ![w].have = Nothing]
    /\ UNCHANGED <<conf, main, fs, kern, enabled, perf, child, made, raw, local, stop>>

\* Mutant: the thread just ends.
LeaveNow(w) ==
    /\ wr[w].pc = "loop" /\ stop # "no" /\ wr[w].todo = {} /\ wr[w].have = Nothing
    /\ wr' = [wr EXCEPT ![w].pc = "last"]
    /\ UNCHANGED <<conf, main, fs, kern, enabled, perf, child, made, raw, ring, saved, local, stop>>

\* writer_thread() after its loop: a last look at the perf buffers
Leave(w) ==
    /\ wr[w].pc = "loop" /\ stop # "no" /\ wr[w].todo = {} /\ wr[w].have = Nothing
    /\ LET cpus == CpusOf(w)
           all == {x \in {[at |-> k, src |-> "perf", cpu |-> cpus[k]] : k \in DOMAIN cpus} : x.cpu # -1}
       IN wr' = [wr EXCEPT ![w].pc = "last", ![w].todo = IF perf THEN all ELSE {}]
    /\ UNCHANGED <<conf, main, fs, kern, enabled, perf, child, made, raw, ring, saved, local, stop>>

WriterGone(w) ==
    /\ wr[w].pc = "last" /\ wr[w].todo = {} /\ wr[w].have = Nothing
    /\ wr' = [wr EXCEPT ![w].pc = "done"]
    /\ UNCHANGED <<conf, main, fs, kern, enabled, perf, child, made, raw, ring, saved, local, stop>>

--------------------------------------------------------------------------------
(* The kernel and the traced program                                        *)

\* ftrace writes down what the child does on a CPU
KernelMakes(c) ==
    /\ child = "runs" /\ fs["tracing_on"] = "default" /\ fs["current_tracer"] = "set"
    /\ c \in conf.busy["kernel"] /\ made["kernel"][c] < conf.max
    /\ made' = [made EXCEPT !["kernel"][c] = @ + 1]
    /\ raw' = [raw EXCEPT ![c] = Append(@, made'["kernel"][c])]
    /\ UNCHANGED <<conf, main, fs, kern, enabled, perf, child, ring, saved, local, stop, wr>>

\* perf drops what has no room
PerfMakes(c) ==
    LET r == ring[c]
    IN /\ child = "runs" /\ perf /\ c \in conf.busy["perf"] /\ made["perf"][c] < conf.max /\ r.head - r.tail < Ring
       /\ made' = [made EXCEPT !["perf"][c] = @ + 1]
       /\ ring' = [ring EXCEPT ![c].buf[r.head % Ring] = made'["perf"][c], ![c].head = @ + 1]
       /\ UNCHANGED <<conf, main, fs, kern, enabled, perf, child, raw, saved, local, stop, wr>>

ChildExits ==
    /\ child = "runs" /\ child' = "gone"
    /\ UNCHANGED <<conf, main, fs, kern, enabled, perf, made, raw, ring, saved, local, stop, wr>>

CpuNext ==
    \/ SetupWriters \/ StartTracing \/ StopTracing \/ DrainPipe \/ FinishWriters
    \/ \E w \in Writers : Poll(w) \/ Take(w) \/ Save(w) \/ Leave(w) \/ WriterGone(w)
    \/ \E c \in Cpus : KernelMakes(c) \/ PerfMakes(c)
    \/ ChildExits

CpuSpec == CpuInit /\ [][CpuNext]_cpuVars

--------------------------------------------------------------------------------
(* Properties                                                               *)

Whole(n) == [i \in 1..n |-> i]

\* On every way out - the request was refused halfway, the kernel is too old, the child is
\* gone, the user stopped it - the ftrace of the machine is as it was: "restores kernel
\* ftrace configuration" (finish_kernel_tracing()).
TracefsRestored ==
    \/ main \in {"end", "crashed"}
    \/ main = "start" /\ ~kern
    => \A f \in Files : fs[f] = "default"

\* All that ftrace wrote down until it was switched off is saved, of every CPU, in order and
\* once: by its writer until it stops and by finish_kernel_tracing() after that.
KernelDataKept ==
    /\ \A c \in Cpus : saved["kernel"][c] = Whole(Len(saved["kernel"][c]))
    /\ main = "end" /\ kern => \A c \in Cpus : Len(saved["kernel"][c]) = made["kernel"][c]

\* The same for the perf events of a child that ended by itself, around the end of the ring
\* and past the last poll of the writers.
PerfDataKept ==
    /\ \A c \in Cpus : saved["perf"][c] = Whole(Len(saved["perf"][c]))
    /\ main = "end" /\ perf /\ stop = "child" =>
          \A c \in Cpus : Len(saved["perf"][c]) = made["perf"][c]

\* Recording takes all the data of every CPU, once, and leaves the machine as it was
\* (finish_kernel_tracing(), finish_perf_record()).
CpuDataKept == TracefsRestored /\ KernelDataKept /\ PerfDataKept

================================================================================
