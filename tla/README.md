# A TLA+ verification project for uftrace

uftrace records the function calls of a program. The traced program runs with
`libmcount` preloaded, which stores records in shared memory buffers; `uftrace
record` collects the buffers into one file per task; `replay`, `report`, `graph`,
`dump` and `tui` read the files. This directory models these parts, checks them with
TLC on small instances, and proves the parts where processes and threads meet with TLAPS
for all instances.

## 1. Inventory

| component | state | operations | interacts with | hard behaviour | module |
|---|---|---|---|---|---|
| shmem buffers (`libmcount/record.c`) | per thread: `buffer[]`, `nr_buf`, `curr`, `losts`; per buffer: `flag`, `size`, data | prepare, store, finish, get a new one (reuse, allocate, shrink, lose), thread end | writers through the flag; main loop through the `.channel` pipe | two processes share the memory without a lock; kill at any point; allocation failure | `Recording` |
| writer threads (`cmds/record.c`) | `buf_write_list`, `writer_list`, `warg->tid`, `warg->bufs`, the kick pipe, `buf_done` | hand over, kick, pick, write, release, splice, leave, stop, join, drain | main loop under `write_list_lock` | work handed over while a writer gives a task up; lost wakeups; full kick pipe | `WriterPool`, `WriterFeed` |
| message loop (`cmds/record.c`) | `shmem_list_head`, `tid_list_head`, `finish_received`, `shmem_lost_count` | one per message type; stop reasons; flush | traced program by pipe, signals, `/proc` | exec, fork, daemons, interrupts, a channel closed early | `Recording`, `TaskTable`, `Session` |
| entry and exit (`libmcount/mcount.c`) | the shadow stack, `idx`, filter counters, `mcount_enabled` | entry and exit of three kinds of instrumentation, filter check, record, signals, fork, crash | trampolines, agent | filters that change between entry and exit; stack limit | `Mcount` |
| return addresses (`misc.c`, `wrap.c`, `plthook.c`) | stack slots, `rstack[].parent_ip` | hook, restore, rehook | exceptions, longjmp, vfork, PLT | several entries share a slot | `RetAddr` |
| PLT (`plthook.c`) | GOT, `resolved_addr[]`, `resolver_mutex` | set-up, entry, exit | dynamic linker | two threads resolve one function | `PltGot` |
| patching (`dynamic.c`, `arch/x86_64`) | code, saved code pages, patterns | choose, check, move, patch, unpatch | dlopen | branches into the patch; page limits | `Dynamic` |
| arguments and events (`libmcount/record.c`, `fstack.c`) | `argbuf`, event queue, file words | save, queue, write, read | entry/exit, reader | writer and reader count bytes apart; kill inside a record | `ArgData` |
| agent (`agent.c`, `cmds/live.c`) | connection, trigger tree, options | accept, get, set, swap, close, kill | traced threads, dlopen | old tree freed under a reader; broken connections | `Agent` |
| network (`cmds/recv.c`, `cmds/record.c`) | client list, sockets, files | one per message | recorders | messages in pieces, of several clients | `Network` |
| sessions (`session.c`, `data-file.c`) | session tree, dlopen list, task tree, `task.txt` | stamp, send, append, read, find | reader, symbols | exec, fork and dlopen between records | `Session` |
| symbols (`symbol.c`) | tables, `.sym` files | load, merge, save, read, find | ELF files | same names, PLT slots by counting | `Symbol` |
| info file (`cmds/info.c`) | mask, lines | fill and read handlers | record, readers | handlers that fail halfway; long lines | `Info` |
| filter setup (`filter.c`, `argspec.c`, `auto-args.c`) | trigger tree, counts, specs | parse, match, update, clear | options, agent, info file | built twice, in the program and in the reader | `Filter` |
| kernel and perf recording (`kernel.c`, `tracefs.c`, `perf.c`) | tracefs files, pipes, ring buffers | set up, start, poll, read, stop, finish, reset | writer threads | failures halfway; the last data | `CpuTrace` |
| kernel and perf reading (`kernel.c`, `perf.c`) | per-CPU lists, `kfunc_tree`, event lists | read, hold, take, merge | reader | tasks that change CPUs under a time filter | `CpuRead` |
| reader (`fstack.c`) | per task `fstack`, look-ahead lists, filter state | read, merge, skip, consume, account | all reading commands | merging, LOST, forks, scheduling | `Fstack` |
| replay, script, report, graph, diff, dump | lines, nodes, graphs, events | one per record, end of data | reader | recursion, open calls, time ranges | `Replay`, `Report`, `CallGraph`, `Dump`, `Analysis` |
| tui (`cmds/tui.c`) | top, cursor, row numbers, masks, screen | one per key | graphs | everything kept in steps | `Tui` |

What makes each correct: a task's file is the task's record stream in order, with
any hole marked (buffers, writers, message loop); uftrace ends when the program
does and loses nothing then; the stream tells the calls (entry/exit); every hijacked
return address goes back to the right caller; the patched program does what the
original one did; readers take apart what writers put together (arguments, symbols, info,
specs); a record has the name it had when it was made (sessions); every analysis says
what the calls say; no reader of the trigger tree sees a freed one (agent).

`PROJECT.json` lists every component with its status, and under `hazards` the
lines of code where a test would hardly reach the failure.

## 2. Plan

Done: the modules above, in the order recording, table, libmcount, agent and network,
readers, directory files. Left, in the order of worth:

1. `TaskTable` composed with `Recording`'s buffers.
2. The links of `tid_list_head` under `sigchld_handler()`, and the closing of `mcount_pfd`
   between check and write.

## 3. Modules

**`TraceLog`** — what recording promises: each task has a stream it extends, and a
file that is a prefix of it and only grows.

**`WriterPool`** — the writers and the main thread's side of them.

| variable | code |
|---|---|
| `order`, `queue` | `buf_write_list`, kept as the tids in order of their first buffer and the buffers of each tid: only a buffer's place among its own task's buffers, and which task comes first, can be observed |
| `kicks` | ints in the `thread_ctl` pipe, at most `KickCap` |
| `bufDone` | `buf_done` (set together with the close of the pipe's write end) |
| `mpc` | main thread: `run` (message loop), `kick` (blocked in the write, lock held), `join`, `flush`, `remain`, `done` |
| `wpc` | writer: `poll`, `read`, `pick` (before the first critical section), `write`, `release`, `splice` (before the second), `exit` |
| `wtid`, `head`, `bufs` | `warg->tid` (a writer is in `writer_list` iff it has one), the local list, `warg->bufs` |
| `file` | what was appended to `<tid>.dat` |

Each critical section of `write_list_lock` is one step, except that the main thread
is visible inside its own while it waits for room in the kick pipe: every other
section then waits (`LockFree`). A poll that finds nothing changes nothing and is
left out unless `buf_done` makes it the last one. The shape of the lists (`PoolShape`) and the queue
the pool is to its users (`Backlog`) are stated here too.

**`WriterFeed`** closes the pool with the simplest environment: the main thread hands
over the buffers of each task numbered 1, 2, 3..., may stop at any time, and feeds
more while it flushes. The file then is a sequence of numbers that must be 1, 2, 3...

**`Recording`** is the pipeline from end to end. A task's buffers have a flag and
contents; records are numbered. `StoreRecord` … `ReportLost` follow
`get_shmem_buffer()` and `get_new_shmem_buffer()`, one action per outcome, cut where
another process can see the difference: a message is sent, a flag changes. A record can be
lost whenever no buffer is free (`LoseRecord`): the allocation may fail before `MaxBuf` is reached. `Killed`
may hit a thread between any two of them. `TraceFinish` closes the channel under
threads that go on. `ReadMessage` is `read_record_mmap()`. `StopTracing` gives the
three ways out of the loops. `Write` and `Release` are the pool's actions joined with
the memory. `stream` and `blind` are history variables. A record is one item here (a
buffer holds `BufCap` items); `shmem_need_unlink` is left out; `write_buffer()` writes and
empties a buffer in one step, which only the interrupted drain could tell apart, and there
the tail of a file is cut in any case. **`MCRecording`** restricts it to
three sizes for TLC, of which the initial state chooses one.

**`TaskTable`** is the rest of the message loop: which tasks `uftrace record` knows
(`tid_list_head`), what it makes of exec and fork, and when it stops. The traced
program is a set of tasks that start, create threads, fork, exec, end or are killed,
each sending the messages libmcount sends, in its order; a task can die between any two
of them. `st` is the point a task is at: `new` has not called `mcount_prepare()`, `begun` is
inside it, `forking` is between the atfork handler and `fork()`, `forked` to `childBuf` are
the steps of `atfork_child_handler()`, `ending` is inside `mtd_dtor()`. `mode` is the main
thread: `loop`, `drain` (`stop_tracing()`), and the two ways it ends. The kernel's part is
external. `parent`, `orphans` and `ended` are history variables, and so is the `img` of a message
about a task: uftrace does not see which program sent it.

**`Mcount`** is one thread of the traced program: `app` is the calls it really is in, `mtd`
the `mcount_thread_data` with the shadow stack and the filters, and the records written.
`Call` and `Return` are the entry and exit of the three kinds of instrumentation: with `-pg`
and dynamic patching a filtered call has no exit, with cygprof and XRay it has one. Signals
and other threads switch tracing off and on or finish it, `Fork` goes on in the child,
`Crash` runs `segv_handler()`. A step finds room for 1 or 9 records (`Rooms`). `McountCases` has
the option sets: filters in and out, depth, time, size, location, caller, trace triggers, stack
limits. Left out: arguments and events (`ArgData`), scripts, `--estimate-return`. `KeepsFilters`
excludes three option sets of which the properties are not true, because a call changes a filter and
leaves nothing behind that changes it back: a `-pg` function with `-F` or `-N` that the location filter then
drops (section 6, `NotraceEndsWithCall`); `depth=0` in a trigger, which `parse_depth_action()` accepts and
which drops the very call that set the depth (`-D` itself must be positive, `uftrace.c:602-606`); and XRay
functions that can be called beyond `--max-stack`: `_xray_entry()` ignores FILTER_RSTACK and writes
past its shadow stack, which is not modelled.

**`RetAddr`** is the machine stack of such a thread: slots with return addresses, and
libmcount's entries. The program calls (`-pg`, PLT, or both in one slot), tail-calls, returns,
throws and catches, uses longjmp, vfork, `backtrace()`, `dlsym(RTLD_NEXT)` and
`pthread_exit()`. A set of features is a program. Assumed: clean-up code of an exception
neither throws nor calls setjmp; frames have frame pointers. `Supported` names the programs whose
stack libmcount keeps right, and leaves out five combinations it does not (section 6): PLT calls
that share a slot with a traced function, with stack walks; the end of tracing while an exception is
handled, in a vfork child, or between setjmp() and longjmp(); exceptions past functions that are not traced.

**`PltGot`**: the GOT entries of functions of four kinds, `resolved_addr[]` and two threads
that call, under lazy binding, immediate binding and no PLT; the linker's overwriting
of a slot is a step of its own. `raced` and `bailed` name the functions whose first calls overlapped
or could not be hooked: these stay untraced (section 6).

**`Dynamic`**: the functions of a program are sequences of instructions with an operation, a
size and a target; the patching visits them in the order of symbols, then the program runs, patched
(`pc`) and unpatched (`opc`) at once. Saved code is in pages of `Chunk` bytes. The disassembler
is external: an instruction is what it says. `DynamicCases` has the programs. Assumed: no function begins with jumps to its
own first instructions (`NoJumpMaze`), and a jump into the middle of another function is in code that the
patching looks at (`JumpIsSeen`). `PatchKeepsProgram` claims nothing of programs in which a changed prologue
after an endbr64 was written back (state `shifted`, section 6).

**`ArgData`**: a thread calls a function with a spec of arguments; values go to the frame's
buffer, to the file, and through the reader, in words of 4 bytes, each padded as the code does;
events come from triggers (`read`), from other sources and from watch points. `Kill` ends the thread between
`size += sizeof(*frstack)` and the copy of the arguments: the file then ends in a record with
the more bit and no data. The reader stops there with "record missing argument info", and this
is the only record it may lose (`ReaderKeepsStep`).

**`Agent`**: the agent thread with its socket, clients that send options and may die, threads that
look triggers up and call `dlopen()`, which replaces the tree too, and the end of the program by
`mcount_cleanup()`. `swap_triggers()` is three steps, by whoever swaps (`swap`): `*old` is read (`SwapRead`), then
compared and swapped (`SwapCas`), and what that gave back is freed after the pause (`SwapFree`). `wait` is what the
`sleep(1)` stands for: the threads that were inside a lookup of that tree then; that a second is long enough for a lookup
is assumed. Any number of threads may swap at any time; `raced` remembers that a compare-and-swap found another
tree than the one read before it, after which `TreesReplaced` claims nothing (section 6). The agent refuses options it does not
know; this repository's client looks at the capabilities first (`live.c:263`) and never sends one, so the client that does
(`UnknownOptions`) is another program that speaks the protocol.

**`Network`**: recorders with writers that share a socket without a lock, header and body of a message as two
pieces, a server with its `client_list`. Any sender may be stopped between the pieces (`Put`, `PutRest`), and another
one's message then lies in the middle of its own; `mixed` remembers the recorder. The server that takes a header for a body reads on
inside a message, and what it finds there is taken never to look like a header: it ends with an error, as
`read_msg()` without the magic does. Left out: partial sends at other places than behind the header,
byte order, equal directory names (they would be mixed), failing files.

**`Session`**: tasks fork, make threads, exec, load and unload libraries; messages are stamped,
sent, and appended to `task.txt` in the order they arrive; at any time the file is read and every record looked up.
Left out: reused tids, a `FORK_END` after the parent's exec, libraries that processes forked from one
another load at the same place, exec during another thread's `dlopen()`.

**`Symbol`**, **`Info`**, **`Filter`**: tables and files are written by one side and read by the other.
`SymbolCases` has modules with functions, relocations, equal base names and map files. `Info` has every
fill handler as a set of forms of its lines and of ways to fail; kills end the writing anywhere. `Filter`
explores every choice of up to `MaxItems` option items and `MaxLater` sent to the agent
(`FilterCases`); the reader's tree is built from what the info file keeps. `SpecsAgree` leaves out the functions
for which the agent was asked for arguments or the return value (`ToldSpecs`, section 6).

**`CpuTrace`**, **`CpuRead`**: tracefs as files that are `default` or `set`, may be missing or refuse a value
(`CpuTraceCases`), with a list of writes that ends at the first that fails and must not; pipes and ring
buffers per CPU; writers that poll their part of the CPUs and keep what is ready in the order of the descriptors; a machine that makes data all the time. Then the files, read by `read_kernel_stack()` with a time filter,
while tasks switch between CPUs, with events and with tasks that are not in the data.

**`Fstack`** is a library: the reader is a value (`rd`) and each operator what a function of
`utils/fstack.c` leaves behind. **`Replay`**, **`Report`**, **`CallGraph`**, **`Dump`** are the commands over it. **`Analysis`** has
a program write its records and then one of the commands read them; its properties compare the output with the
calls, computed from the program's history by definitions of their own (`CallsOf`, `Selected` and
others). Events come from perf and from the task's own file: what a trigger read at a call, which goes with that call, and the
user's own, which makes a call be shown however short it is (`FileEvent`). `MCAnalysis` has the programs and command lines.

**`Tui`**: windows over given trees (`TuiCases`): every key that moves, pages, folds, searches or
changes the window, and what it repaints. Left out: how the trees are built (`build_tui_node()`), the
editor, pop-ups, resizing, terminals of six rows or fewer.

**`MCTracee`** and **`MCData`** put components that share no state side by side for TLC: the
initial state chooses one (`comp`). `MCTracee` extends `Mcount`, `PltGot` and `RetAddr`, and `MCData` extends `TaskTable`
and `CpuTrace`, so that the runs check the very properties that are proved; the other components have their variables in the slots `s1`, `s2`, ..., and
a property there is that of its component, in that component's behaviours.

Definitions whose comment starts with "Mutant" are plausible mistakes in the definition that
follows them; `PROJECT.json` says which property finds each of them.

## 4. Runs

| run | instance | shows |
|---|---|---|
| `writers` | 2 tasks, 2 writers, 3 buffers each, 6 kicks | one writer per task, wakeups, order, completeness, the inductive invariant, liveness, refinement of `TraceLog` |
| `writers_kick_full` | 1 writer, 2 kicks, 3 buffers | **violated**: the main thread blocks in the kick with the lock held (finding) |
| `rec_safety` | 1 task, 2 writers, 4 records, 2 buffers; 2 tasks, 1 writer; 1 task, 5 records, 4 buffers | `OneOwner` of every buffer, marked gaps, completeness, refinement |
| `rec_live` | 1 task, 2 writers, 3 records, 2 buffers | buffers come back, the recorder ends |
| `table_safety` | 2 tids, 2 programs each, 1 fork, 2 messages in the pipe, tids reused | `NothingForgotten` at an exec and at the stop; uftrace stops by itself if no fork is left open |
| `table_exec` | 2 tids, 2 programs each | **violated**: exec after the leader ended (finding) |
| `tracee` | `Mcount`: 2 functions, 4 calls, stack limits 2 to 4; `RetAddr`: 4 slots, 5 calls, 7 programs; `PltGot`: 2 threads, 4 functions; `Dynamic`: programs of a few functions, 128-byte pages; `ArgData`: 3 calls, 1 asynchronous event | `MirrorsCalls`, `StreamTellsCalls`, `ReturnsToCaller`, `StackIsHonest`, `PltCallsTraced`, `PatchKeepsProgram`, `PatchedAsAsked`, `DataReadBack` |
| `readers` | 9 kinds of programs with up to 6 records, 2 tasks, and the option sets of each | `ReplayShowsCalls`, `ReportShowsCalls`, `GraphShowsCalls`, `ChromeShowsCalls` |
| `agent` | 2 clients, one with options that the agent refuses, 2 threads, 1 dlopen | `TreesReplaced`; an acknowledged option comes into force; the program `EndsCleanly` |
| `network` | 2 recorders, one with 1 writer and 2 data messages, one with 2 writers and 1 each | `ServerKeepsData`; all is saved in the end |
| `data` | `Session`: 3 tasks without, 2 with libraries; `TaskTable`: 3 processes, 3 forks, one of the children may be killed; `Symbol`, `Info` (lines of 4 cells), `Filter` (3 items and 1), `CpuTrace` (3 CPUs, 2 writers), `CpuRead` (2 CPUs, 5 records), `Tui` (8 rows) | `TraceIsNamed`, `ForksPaired`, `SymbolsFound`, `InfoKept`, `SettingsHold`, `CpuDataKept`, `CpuDataRead`, `WindowIsTrue` |
| `info_long` | lines longer than the buffer | **violated**: a long command line makes the directory unreadable (finding) |

The properties of the later runs are conjunctions of named parts, each stated and commented in
its component's module, and each part has a mutant of its own.

Bounds. One record per buffer makes every record cross a buffer boundary, which is
where the protocol acts. Two writers compete for a task and one can be busy. Four buffers and five
records are the least with which shrinking, which needs three unused buffers behind the one
taken, happens. Two buffers and four records let allocation fail and recover.
Three tids and three forks are the least for forks of two processes to be open at once; a pipe of
two messages lets a task die with all of a start or an end still unread. Four calls in `Mcount` are a
caller, two nested callees and a sibling, within the stack limit of some option sets and beyond that of others; four
slots and five calls in `RetAddr` let an exception or a longjmp pass two frames and calls follow. Two threads are
the least that can resolve a function together. A trace of six records has recursion of depth three, a
sibling, or a pause with calls around it. Three CPUs over two writers leave one writer with two.
Two writers with one message each let one message be put into the middle of another, and a third
sender, the main thread, follow. Two traced threads, the agent and a `dlopen()` let two swaps be under way while someone looks a trigger up.

Deadlock is checked where the system should not stop (`writers`, `rec_*`, `table_*`); the other
models end when their bounds are used up, or when the program, the reading or the session is over.

Fairness. Writers and the main thread are scheduled by the kernel and never wait for
anything but the pipe and the lock, so each has weak fairness on its steps. Nothing
is assumed of the traced tasks: they may hang, die or go on. `StopTracing` is fair only
where the code stops by itself, once every task is gone and the channel is drained. In
`Agent` every thread runs on, but nobody need start a client, call `dlopen()` or end the program. In
`Network` recorders and server take their steps, and a socket with data is served in turn by
`epoll_wait()` (strong fairness of reading a header, since the server may be busy with others each time).

## 5. Proofs

Each theorem holds for any sets and numbers the constants stand for, under the named
assumptions of the module (`PoolAssumption`, `RecordingAssumption`, `AgentAssumption`,
`NetworkAssumption` and others), which say no more than that bounds are numbers, that sets that are counted are
finite, and that values meant to be different are.

| module | theorems | about |
|---|---|---|
| `WriterFeed_proofs` | `Inductive`, `TypeCorrect`, `SingleWriter`, `WakeupKept`, `FilesInOrder`, `AllWritten`, `PoolImplementsLog` | the writer threads with numbered buffers |
| `WriterPool_proofs` | lemmas (`PoolStepKeeps`, `BacklogKept`, ...) | the pool, whoever feeds it |
| `Data_proofs` | `TableInvariant`, `NothingIsForgotten`, `ForksArePaired` | the tid list, exec, the stop, forks |
| | `CpuDataSafe` | the data of the kernel and of perf, and tracefs |
| `Recording_proofs` | `RecordingInvariant`, `BuffersHaveOneOwner`, `FilesMarkGaps`, `FilesComplete`, `RecordingImplementsLog` | the pipeline from the traced threads to the files |
| `Mcount_proofs` | `CallsMirrored`, `CallsTold` | entry and exit: filters, shadow stack, records |
| `Hooks_proofs` | `PltTraced` | first calls through the PLT |
| | `RetInvariant`, `EveryCallReturns`, `HonestStack` | return addresses and the shadow stack |
| `Agent_proofs` | `TreesSafe`, `EndsClean` | the trigger tree, the end of the program |
| `Network_proofs` | `DataKept` | `uftrace recv` |

**`WriterFeed_proofs`.** The properties are not inductive by themselves. `IndInv` adds: the shape of
the list (`order` names exactly the tasks with queued buffers, once each); what a writer holds at
each point of its loop (`WriterShape`); which phases the main thread and the
writers can be in together (`Phases`); that unread kicks, kicks in the hands of writers and the one
being written are at least as many as queued tasks (`KickAccount`), from which
`NoLostWakeup` follows; and that file, local list, `warg->bufs` and the queue continue each
other's numbers (`Numbering`), from which order and completeness follow.
`KickAccount` counts writers, hence `IsFiniteSet(Writers)`. `PoolImplementsLog`: handing a buffer
over is `Produce`, a write by a writer or by the final drain is `Save`, any other step leaves stream and files alone.

**`WriterPool_proofs`** proves of the pool what its users need, with the buffers as a parameter: every
step keeps the types and `PoolShape`; and the pool is one queue of buffers per task: `Backlog(t)`
(what the writer of t holds, then what is queued for t) grows at the end when a buffer is handed over,
loses its first entry when that is given back, and picking, splicing and leaving do not change it.

**`Recording_proofs`.** The files are right because each task has a *lane*: the buffers it has handed
over or is still filling, in the messages, in `shmem_list_head` and in the pool, are in the order
in which they were started, and their contents are consecutive parts of the stream that begin where the file ends.
Buffers are reused, so neither their index nor their place in a list gives that order. `Lane(t, n, g)`
states it with two functions: n, the number of the record each buffer was last started for, and g, the place in the
stream where its contents begin; the invariant says that such functions exist, and a step that starts a buffer gives
it new values. The parts: messages and backlog are in the order of n
(`ChanSorted`, `BacklogSorted`); an END has its START and only the last START may be without
(`Paired`); contents follow one another (`Chained`) and equal the stream (`HeldMapped`); the file is a prefix
(`FilePrefix`); the buffer that is being filled is the last and ends where the stream ends (`Current`);
a task between two buffers has none open (`NoneOpen`); and unless the task lost the channel, nothing is missing between the last
buffer and the end of the stream (`NothingMissing`). The lists of `uftrace record` are made part
of the channel (`Chan`: an entry of `shmem_list_head` counts as a START that is unread), so that reading
a START and draining the list need no case of their own. Beside the lanes, `RecInv` has the types,
the pool's shape, what the counters are at each point (`Counted`, `Phased`), that a
buffer that is written and not given back is empty (`Emptying`), and that a record is
stored only after its predecessor or a LOST record (`StreamMarked`). From it:
`OneOwner` (a buffer that is held has its RECORDING flag, so it is not reused, nor unmapped), the gaps
(a file is a prefix of a marked stream), completeness (at the end the lane is empty, so the file
reaches the end of the stream) and the refinement of `TraceLog` (storing a
record is `Produce`, writing a buffer is `Save`).

**`Data_proofs`.** `NothingForgotten` is about what uftrace knows late of a program that has gone
on, so `TableInv` is about the messages under way. Of every tid whose thread did not end by itself: its buffers are
listed and announced in the order of its programs, and so are its reports (TASK_START and FORK_END), a
program's TASK_START before any other (`BufsSorted`, `ReportsSorted`); a report comes after the buffer of its program
(`ReportsStarted`); a task that records is known or its report is under way (`Reported`); and a task that
is known has a buffer listed that is older than any program still to report itself (`OldListed`). So when a
TASK_START finds the tid known, the first buffer `flush_old_shmem()` finds is of an older program:
the oldest is at the front. A tid whose thread ended is left out, since its
REC_END has taken that buffer and the tid can be given out again (run `table_exec`). That the least
position of a search exists (`First`) is proved from the well-ordering of the naturals.
`ForksArePaired` is a counting argument (`ForkInv`): at every point of the channel, the FORK_ENDs up to there are
no more than the entries with tid -1 and the FORK_STARTs up to there, and with the children that have still to send
theirs (`Due`) no more at its end (`Balanced`). Over all processes this gives FORK_END an entry. It also
holds of each process alone while no child was orphaned: then the search for an entry of the
parent the child names succeeds, and that parent is the right one (`Parents`). An orphan names the reaper and takes
anyone's entry, after which the balance of single processes is lost, as `ForksPaired` says.

`CpuDataSafe` proves `CpuDataKept` for any number of CPUs and writers, rings of any size and whatever files of tracefs are
missing or refuse uftrace's value. `CpuInv` follows the data of each CPU: it is saved, then in the hands
of the one writer `start_tracing()` gave the CPU (`OneServer`: the shares are disjoint and cover all CPUs), then in the
pipe (`KernelFlow`), or is still in the ring until it is saved (`PerfFlow`, `RingHolds`), with no number missing between
the three. `RingDataFacts`: the two parts `record_perf_data()` copies are what lies between tail and head,
wherever the end of the buffer is. `LastLook`: once the child is gone, a ring that a writer leaves behind is empty, to be read or in its
hands. `FilesInv`: who does not trace with ftrace, or not any more, finds every file at its default; it rests on
`SetupFacts` (setting up either succeeds or undoes itself: when a file that must be there is missing, the reset before it
fails first) and `ResetFacts`. The hypothesis `Works` leaves out the two deviations of section 6; the configurations of
run `data` satisfy it.

**`Hooks_proofs`.** For `PltTraced`, `PltInv` says of every entry of the table what it may hold (`GotShape`); that a hooked
call which finds no saved address has been through the linker, so that what it saves is the
function (`SavesReal`); that only one thread is in a function not yet resolved unless first calls
overlapped (`FirstAlone`, `InLinker`); and that an entry that leads past libmcount has a thread on its way to restore it
(`SomeoneRestores`).

`EveryCallReturns` and `HonestStack` are about addresses that were saved, overwritten and moved long before the
function returns. `RetInv` describes a shadow stack against the addresses the program pushed, `home`:
entries are in the order of their slots, the oldest of a slot has the address the caller pushed, and each further one
the hook of the entry before it (`Truthful`); a slot has its address or the hook of its
newest entry (`Covers`), none when everything was restored (`Unhooked`); the newest entry of all is hooked
(`TopHooked`). `Placed` says which of these hold in which slots at each point: running (`Good`), leaving a function
(`Leaving`), walking the stack, unwinding, in clean-up code and its library calls, before a longjmp or the parent of
a vfork goes on, after the end of tracing. `JmpInv` (as long as the frame that called setjmp is there, libmcount's
copy is the shadow stack up to its slot) and `VforkInv` say that what was kept aside is still right when it
is taken back; `Kinds` that in programs that walk their stack the entries of one slot are of one kind, which is what
`mcount_rstack_rehook()` relies on. There is a lemma for each helper (`Hijack`, `Restore`, `Rehook`,
`AutoRestore`, `AutoRehook`, `RehookException`, `Recovered`), for the common end of both exits (`LeaveWith`)
and for every action. `RetAddrAssumption`: the programs are `Supported`. TLC has checked that each restriction in it
is needed: with the five taken out one at a time (and the assumption dropped), `ReturnsToCaller` or `StackIsHonest` is
violated. It has also checked `RetInv` itself on the programs of run `tracee`.

**`Mcount_proofs`.** Both properties are about what entry and exit leave behind long after, so `McountInv` ties
the four things together that they change apart. `StackInv`: the calls libmcount sees the exit of are its frames,
and those beyond the limit (`FramesFollow`, by rank among the hooked calls); the counters are the numbers of frames with the
flag (`CountersMatch`); what a frame saved of the filters is what the frame below it, or the setup, left
(`FiltersSaved`; with `LimitsOpen`: no depth filter shuts everything out, so that a dropped call changed
nothing); recorded frames get deeper (`Growing`, `Running`). `StreamInv`: a frame is written after those
below it (`FromTheTop`), what is still to be written began after everything that is (`Timely`), every record is
there once (`OneOfEach`), a frame is marked as written exactly when its entry is in the stream, and nothing
of its depth came later (`FramesTold`); exits have entries (`Paired`); after the warning of a full stack
nothing waits (`Flushed`). `Closed`: an entry without an exit is of a frame. The step lemmas are one per action (`CallKeeps`,
from `CallBeyond` and `CallFits`; `ReturnKeeps`, from `ExitBeyond` and `ExitRecorded`; `SignalKeeps`,
`ForkKeeps`, `CrashKeeps`), and the heart is what `record_trace_data()` adds to a stream, whatever it has room for.
Both theorems assume `McountAssumption`: the option sets are of the shape the code parses them into, and
`KeepsFilters` (section 3); TLC evaluates it for the option sets of the run.

**`Agent_proofs`.** `TreesSafe` proves `TreesReplaced` for any clients, threads, option lists and calls of `dlopen()`,
with any number of swaps under way at once. `OwnInv`: a thread that swaps has a tree of its own that nobody
else has (`OwnIsTree`), before the compare-and-swap the new one and after it the one it replaced; every tree that is not freed is
the current one or owned by someone (`TreesOwned`); a thread looks into the current tree or into one whose owner waits
for it (`ReadersWaitedFor`); all of it as long as no compare-and-swap failed, since a failing one gives its swapper the current tree.
`ContentInv`: a client's messages are sent one by one (`Queued`), up to one that is refused (`ClientShape`), the copy has what was
taken in this connection (`CopyInProgress`), and every other tree has all of a client's options or none (`TreesWhole`). `EndsClean`
needs none of that: when `agent_kill()` saw the agent running, the program ends after the agent did, without the socket file.

**`Network_proofs`.** `NetInv`: of every recorder, each header on the way is followed by its body (`Framed`),
messages are saved and on the way in an order in which they may be sent (`InOrder`: `DIR_NAME`, data, files,
`END`), and what was sent is saved or on its way exactly once (`NothingLost`). So when `END` is read all is saved.
That is `RecInv`, of a recorder that lives and of which at most one thread is in the middle of a message (`InMiddle`). Once a
message was put into another or the recorder died (`Astray`), its `END` is never reached: either there is a piece before it
that is not what the server will take it for (`Confused`), which ends the server, or there is no `END` (`NoEnd`). So its command is never run.

Only model-checked:

- liveness (`WritersFinish`, `BuffersReturn`, `RecorderEnds`, the ends of `agent` and `network`): fairness and ENABLED
  are beyond the prover.
- The readers (`Fstack`, `Replay`, `Report`, `CallGraph`, `Dump`, `Analysis`), `Session`, `Symbol`, `CpuRead`, `Tui`: they
  use RECURSIVE operators, which the prover cannot unfold, and what they say is compared with reference definitions
  by recursion over data, which needs induction it cannot do either.
- `Info`, `Filter`, `Dynamic`, `ArgData`: what one pass over data of any length writes is what another reads, or does
  what the original did. The passes are folds over sequences, and relating two of them needs induction over the data.

## 6. Known deviations

Met while modelling, reproduced by a constant or a property of the module, and kept out of the
passing runs:

| module, how | the code |
|---|---|
| `Recording.LostCountsRecords` | a record that finds no buffer is counted at `libmcount/record.c:121` and again at `:873`; replay prints the number as "LOST %d records" |
| `TaskTable.StopsWhenGone` | an entry with tid -1 of a fork that failed keeps `check_tid_list()` waiting (`cmds/record.c:1050`) |
| `Agent.TreesReplaced` without `raced` | `swap_triggers()` reads `*old` before the compare-and-swap, and frees what that gives back without looking whether it succeeded: when another thread swaps in between (the agent, or any thread in `dlopen()`), the tree in use is freed and the new one lost (`agent.c:35-42`, `wrap.c:540`) |
| `Session`, `Reload = TRUE` | a library loaded again elsewhere after `dlclose()` is found by name and not announced (`wrap.c:91`) |
| `PltGot.HookAlwaysStays` | overlapping first calls leave a function resolved and untraced (`plthook.c:814-836`) |
| `Dynamic`, functions with endbr64 and a jump back into the first bytes | the check compares with `info->addr` while the patch starts 4 bytes later (`mcount-insn.c:559`) |
| `Dynamic.RunsAsBefore` with a function that begins with endbr64, whose prologue has to change and into which another jumps | `mcount_save_code()` saves the original bytes from the address of the function (`dynamic.c:149`), and `revert_normal_func()` writes them back behind the endbr64 (`x86_64/mcount-dynamic.c:652-659`): the code is 4 bytes off (state `shifted`) |
| `Filter.SpecsAgree` without `ToldSpecs` | the agent takes a trigger with arguments, a return value or auto-args (`agent.c:213-215`), and the traced program writes them from then on; nothing of it is in the info file, so the reader finds data it has no spec for ("record missing argument info", `fstack.c:1620`) |
| `Filter.SpecsAgree` with a return value format in a trigger | `extract_trigger_args()` (`auto-args.c:309-371`) drops it for the reader |
| `ArgData.ReadsAtBothEnds` | `save_trigger_read()` for an exit reads its size at the place of an event (`libmcount/record.c:692-748`) |
| `RetAddr.StackIsHonest` with `pltpg`, `pltjump`, or `plt` and `tail`, and a walk | `mcount_rstack_rehook()` (`misc.c:192-208`) hooks a shared slot with the older entry's hook, and `__plthook_exit()` may end the program (`NeverAborted`) |
| `RetAddr.ReturnsToCaller` with `throw` and `finish` | `mtd_dtor()` during clean-up code restores the entries of frames that are gone over the slots of its calls (`mcount.c:738`, `misc.c:124`) |
| `RetAddr.NeverAborted` with `vfork` and `finish` | a vfork child that notices the end of tracing frees the shadow stack it shares with its parent (`mcount.c:738-756`) |
| `RetAddr.NeverAborted` with `jmp` and `finish` | a `jmp_buf` filled before the end of tracing keeps the address of `plthook_return()`; a `longjmp()` after it enters `__plthook_exit()` without thread data, and the ASSERT at `plthook.c:1040` ends the program |
| `RetAddr.ReturnsToCaller` with `throw` and `plain`, 5 slots and 6 calls | the first traced entry after a throw drops only entries above its own frame (`wrap.c:148`): if two untraced functions lie between clean-up code and it, entries of frames that are gone stay, and a later return uses one |
| `Network.ServerStays` without `mixed` | `writev_all()` sends the rest of a message after other threads have sent theirs (`recv.c:153-178`, no lock around it): messages of several writers mix when the socket is full, and the server ends with an error, which stops the saving for all recorders |
| `Mcount.NotraceEndsWithCall` | `out_count++` (`mcount.c:1049`) is not undone when the location filter drops the same call |
| `CpuTrace`, `remote` with kernel tracing | the last data is written to local files that are removed (`kernel.c:657`, `690-715`) |
| `CpuTrace`, `OpenFails = TRUE` | the clean-up loop of `start_kernel_tracing()` has no bound (`kernel.c:589`) |
| `CpuRead`, mode `{"switch", "event"}` | the task of a held record is taken from the CPU's last read one (`kernel.c:1440`) |
| `Symbol`, equal base names and path sums, no build-id | both get one file name (`symbol.c:1286-1305`) |

Seen and not modelled: a second LOST of a task lets its time wrap; the flame graph counts many
short calls as more samples than their time; `report --diff` reads the second directory
without filters; a task that ends scheduled out leaves an end event without a begin in the Chrome output; a comma
follows a LOST record there; a client that dies before its answer kills the traced program by
SIGPIPE (`agent.c:271`), and so may `agent_kill()` if the agent closes its socket between its connect and its send
(both are modelled, as ends of the program); if the program ignores SIGPIPE, the agent answers a dead client with errors forever;
`agent_kill()` before the agent is up leaves it running; a dying recorder takes the server down;
`-U` does not find functions behind an endbr64; events of tasks that are not in the data drop held records
(`kernel.c:1209`); 'r' in the session window of the TUI takes a node of another type
(`tui.c:2979`); `filter_count` is not corrected after a duplicate or a clear; `code_hmap` grows without a lock while other threads look into it.

## 7. Not modelled

- DWARF, demangling and ELF decoding (`dwarf.c`, `demangle.c`, `symbol-*elf.c`): functions of
  byte strings without state, whose reference would be the formats themselves.
- Assembly trampolines, and the architectures other than x86_64.
- Python tracing: a second producer with its own shared symbol table; its records go through the modelled buffers.
- The option parser, `uftrace.c`, colours, columns, help texts.
- In modelled components: scripts run inside the traced program and `--estimate-return` (`Mcount`),
  SDT events and register access (`ArgData`), event formats (`CpuRead`), building of trees and
  the editor (`Tui`), option syntax and regular expressions (`Filter`).
- Torn reads of `tid_list_head` in a signal handler and the race on `mcount_pfd`: see the two hazards
  without a property.
