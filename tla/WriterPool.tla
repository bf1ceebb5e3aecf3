------------------------------ MODULE WriterPool ------------------------------
(***************************************************************************)
(* The writer threads of `uftrace record' (cmds/record.c) and the part of  *)
(* the main thread that feeds them.                                        *)
(*                                                                         *)
(* The main thread hands every finished shmem buffer to copy_to_buffer().  *)
(* If a writer already works for the buffer's task it gets the buffer in   *)
(* its own list (warg->bufs); otherwise the buffer goes to buf_write_list  *)
(* and one kick (an int) is written to the thread_ctl pipe.  A writer      *)
(* waits for a kick, takes all the buffers of one task, appends them to    *)
(* the task's file, gives the shmem buffers back to the traced program,    *)
(* and looks for buffers it was handed meanwhile before it gives the task  *)
(* up.                                                                     *)
(*                                                                         *)
(* The module has the state and the actions.  WriterFeed closes it with an *)
(* environment that hands over numbered buffers; Recording connects it to  *)
(* the traced program.                                                     *)
(***************************************************************************)
EXTENDS Integers, Sequences

CONSTANTS
    Tasks,      \* the traced threads, by tid
    Writers,    \* the writer threads: opts->nr_thread of them
    KickCap,    \* kicks the thread_ctl pipe holds (64KB / sizeof(int) = 16384)
    NoTask      \* warg->tid == -1

ASSUME PoolAssumption ==
    /\ KickCap \in Nat \ {0}
    /\ NoTask \notin Tasks

VARIABLES
    order,      \* tids with buffers in buf_write_list, by their first buffer
    queue,      \* the buffers of buf_write_list, by tid, each in list order
    kicks,      \* unread kicks in the thread_ctl pipe
    bufDone,    \* buf_done; thread_ctl[1] is closed together with it
    mpc,        \* where the main thread is
    wpc,        \* where each writer thread is
    wtid,       \* warg->tid; a writer is in writer_list iff it has a tid
    head,       \* the writer's local list of buffers to write
    bufs,       \* warg->bufs: buffers handed to the writer directly
    file        \* <dirname>/<tid>.dat: what has been appended to it

poolVars == <<order, queue, kicks, bufDone, mpc, wpc, wtid, head, bufs, file>>

MainPCs == {"run", "kick", "join", "flush", "remain", "done"}
WriterPCs == {"poll", "read", "pick", "write", "release", "splice", "exit"}

(***************************************************************************)
(* setup_writers() and start_tracing(): empty lists, an empty control pipe *)
(* and every writer about to poll it.                                      *)
(***************************************************************************)
PoolInit ==
    /\ order = << >>
    /\ queue = [t \in Tasks |-> << >>]
    /\ kicks = 0
    /\ bufDone = FALSE
    /\ mpc = "run"
    /\ wpc = [w \in Writers |-> "poll"]
    /\ wtid = [w \in Writers |-> NoTask]
    /\ head = [w \in Writers |-> << >>]
    /\ bufs = [w \in Writers |-> << >>]
    /\ file = [t \in Tasks |-> << >>]

\* write_list_lock.  The writers' critical sections are single steps; only
\* the main thread can be seen inside one, while it writes the kick.
LockFree == mpc # "kick"

\* Mutant: the writers' loop never looks at buf_done.
LoopForever == "poll"

\* `while (!buf_done)' at the top of writer_thread()
LoopTop == IF bufDone THEN "exit" ELSE "poll"

-----------------------------------------------------------------------------
(* The main thread *)

\* Mutant: list_add() for list_add_tail() into warg->bufs.
PassToWriterFront(w, b) ==
    /\ wtid[w] = b.tid
    /\ bufs' = [bufs EXCEPT ![w] = <<b>> \o @]
    /\ UNCHANGED <<order, queue, kicks, bufDone, mpc, wpc, wtid, head, file>>

\* copy_to_buffer(), a writer of writer_list works for this tid.
PassToWriter(w, b) ==
    /\ wtid[w] = b.tid
    /\ bufs' = [bufs EXCEPT ![w] = Append(@, b)]
    /\ UNCHANGED <<order, queue, kicks, bufDone, mpc, wpc, wtid, head, file>>

\* Mutant: the buffer is queued even if a writer works for its task.
AppendAlways(b) ==
    /\ order' = IF queue[b.tid] = << >> THEN Append(order, b.tid) ELSE order
    /\ queue' = [queue EXCEPT ![b.tid] = Append(@, b)]
    /\ mpc' = "kick"
    /\ UNCHANGED <<kicks, bufDone, wpc, wtid, head, bufs, file>>

\* Mutant: list_add() for list_add_tail() into buf_write_list.
AppendFront(b) ==
    /\ \A w \in Writers : wtid[w] # b.tid
    /\ order' = IF queue[b.tid] = << >> THEN Append(order, b.tid) ELSE order
    /\ queue' = [queue EXCEPT ![b.tid] = <<b>> \o @]
    /\ mpc' = "kick"
    /\ UNCHANGED <<kicks, bufDone, wpc, wtid, head, bufs, file>>

\* Mutant: the kick is written only for the first buffer of the list.
KickWhenEmpty(b) ==
    /\ \A w \in Writers : wtid[w] # b.tid
    /\ order' = IF queue[b.tid] = << >> THEN Append(order, b.tid) ELSE order
    /\ queue' = [queue EXCEPT ![b.tid] = Append(@, b)]
    /\ mpc' = IF order = << >> THEN "kick" ELSE mpc
    /\ UNCHANGED <<kicks, bufDone, wpc, wtid, head, bufs, file>>

\* copy_to_buffer(), nobody does: the buffer goes to the tail of
\* buf_write_list, and the kick is written with write_list_lock held.
AppendToList(b) ==
    /\ \A w \in Writers : wtid[w] # b.tid
    /\ order' = IF queue[b.tid] = << >> THEN Append(order, b.tid) ELSE order
    /\ queue' = [queue EXCEPT ![b.tid] = Append(@, b)]
    /\ mpc' = "kick"
    /\ UNCHANGED <<kicks, bufDone, wpc, wtid, head, bufs, file>>

\* copy_to_buffer(), up to the write of the kick.
CopyToBuffer(b) ==
    /\ mpc \in {"run", "flush"}
    /\ (\E w \in Writers : PassToWriter(w, b)) \/ AppendToList(b)

\* Mutant: the kick never gets into the pipe.
KickDropped ==
    /\ mpc = "kick"
    /\ mpc' = IF bufDone THEN "flush" ELSE "run"
    /\ UNCHANGED <<order, queue, kicks, bufDone, wpc, wtid, head, bufs, file>>

\* The write of the kick blocks while the pipe is full; after
\* stop_all_writers() it fails, which is ignored.  Then the lock is released.
Kick ==
    /\ mpc = "kick"
    /\ IF bufDone
         THEN /\ mpc' = "flush"
              /\ UNCHANGED kicks
         ELSE /\ kicks < KickCap
              /\ kicks' = kicks + 1
              /\ mpc' = "run"
    /\ UNCHANGED <<order, queue, bufDone, wpc, wtid, head, bufs, file>>

\* stop_all_writers()
StopAllWriters ==
    /\ mpc = "run"
    /\ bufDone' = TRUE
    /\ mpc' = "join"
    /\ UNCHANGED <<order, queue, kicks, wpc, wtid, head, bufs, file>>

\* Mutant: finish_writers() does not wait for the writers.
JoinNobody ==
    /\ mpc = "join"
    /\ mpc' = "flush"
    /\ UNCHANGED <<order, queue, kicks, bufDone, wpc, wtid, head, bufs, file>>

\* finish_writers(): pthread_join() of every writer
JoinWriters ==
    /\ mpc = "join"
    /\ \A w \in Writers : wpc[w] = "exit"
    /\ mpc' = "flush"
    /\ UNCHANGED <<order, queue, kicks, bufDone, wpc, wtid, head, bufs, file>>

\* flush_shmem_list() has returned
FlushDone ==
    /\ mpc = "flush"
    /\ mpc' = "remain"
    /\ UNCHANGED <<order, queue, kicks, bufDone, wpc, wtid, head, bufs, file>>

\* record_remaining_buffer(): one buffer of buf_write_list is appended to its
\* file.  The files are per task, so the order between tasks is immaterial.
RecordRemaining(data) ==
    /\ mpc = "remain"
    /\ order # << >>
    /\ LET t == Head(order)
       IN  /\ file' = [file EXCEPT ![t] = @ \o data]
           /\ queue' = [queue EXCEPT ![t] = Tail(@)]
           /\ order' = IF Len(queue[t]) = 1 THEN Tail(order) ELSE order
    /\ UNCHANGED <<kicks, bufDone, mpc, wpc, wtid, head, bufs>>

\* record_remaining_buffer() has emptied the list
RecordRemainingDone ==
    /\ mpc = "remain"
    /\ order = << >>
    /\ mpc' = "done"
    /\ UNCHANGED <<order, queue, kicks, bufDone, wpc, wtid, head, bufs, file>>

-----------------------------------------------------------------------------
(* The writer threads: writer_thread() *)

\* handle_pollfd() finds thread_ctl[0] readable
PollKick(w) ==
    /\ wpc[w] = "poll"
    /\ kicks > 0
    /\ wpc' = [wpc EXCEPT ![w] = "read"]
    /\ UNCHANGED <<order, queue, kicks, bufDone, mpc, wtid, head, bufs, file>>

\* poll() times out, or wakes for the hangup of the closed pipe
PollNothing(w) ==
    /\ wpc[w] = "poll"
    /\ bufDone
    /\ wpc' = [wpc EXCEPT ![w] = LoopTop]
    /\ UNCHANGED <<order, queue, kicks, bufDone, mpc, wtid, head, bufs, file>>

\* Mutant: a counter is decremented where the pipe would have blocked.
ReadUnblocked(w) ==
    /\ wpc[w] = "read"
    /\ kicks' = kicks - 1
    /\ wpc' = [wpc EXCEPT ![w] = "pick"]
    /\ UNCHANGED <<order, queue, bufDone, mpc, wtid, head, bufs, file>>

\* read(thread_ctl[0]): takes a kick, blocks on the empty pipe (another
\* writer may have taken the kick poll() saw), or reads end-of-file.
ReadKick(w) ==
    /\ wpc[w] = "read"
    /\ \/ kicks > 0 /\ kicks' = kicks - 1
       \/ kicks = 0 /\ bufDone /\ UNCHANGED kicks
    /\ wpc' = [wpc EXCEPT ![w] = "pick"]
    /\ UNCHANGED <<order, queue, bufDone, mpc, wtid, head, bufs, file>>

\* Mutant: only the first buffer of the task is taken from the list.
PickOneBuffer(w) ==
    /\ wpc[w] = "pick"
    /\ LockFree
    /\ order # << >>
    /\ LET t == Head(order)
       IN  /\ wtid' = [wtid EXCEPT ![w] = t]
           /\ head' = [head EXCEPT ![w] = <<Head(queue[t])>>]
           /\ queue' = [queue EXCEPT ![t] = Tail(@)]
           /\ order' = IF Len(queue[t]) = 1 THEN Tail(order) ELSE order
    /\ wpc' = [wpc EXCEPT ![w] = "write"]
    /\ UNCHANGED <<kicks, bufDone, mpc, bufs, file>>

\* Mutant: list_move() for list_move_tail(), which reverses the buffers.
PickReversed(w) ==
    /\ wpc[w] = "pick"
    /\ LockFree
    /\ order # << >>
    /\ LET t == Head(order)
           q == queue[t]
       IN  /\ wtid' = [wtid EXCEPT ![w] = t]
           /\ head' = [head EXCEPT ![w] = [i \in 1 .. Len(q) |-> q[Len(q) + 1 - i]]]
           /\ queue' = [queue EXCEPT ![t] = << >>]
    /\ order' = Tail(order)
    /\ wpc' = [wpc EXCEPT ![w] = "write"]
    /\ UNCHANGED <<kicks, bufDone, mpc, bufs, file>>

\* The first critical section: the tid of the first buffer of buf_write_list
\* and all its buffers become this writer's, which enters writer_list.
PickTask(w) ==
    /\ wpc[w] = "pick"
    /\ LockFree
    /\ order # << >>
    /\ LET t == Head(order)
       IN  /\ wtid' = [wtid EXCEPT ![w] = t]
           /\ head' = [head EXCEPT ![w] = queue[t]]
           /\ queue' = [queue EXCEPT ![t] = << >>]
    /\ order' = Tail(order)
    /\ wpc' = [wpc EXCEPT ![w] = "write"]
    /\ UNCHANGED <<kicks, bufDone, mpc, bufs, file>>

\* The first critical section, when another writer took the buffers already
PickNothing(w) ==
    /\ wpc[w] = "pick"
    /\ LockFree
    /\ order = << >>
    /\ wpc' = [wpc EXCEPT ![w] = LoopTop]
    /\ UNCHANGED <<order, queue, kicks, bufDone, mpc, wtid, head, bufs, file>>

\* write_buffer(): append the contents of the first buffer to its file
WriteBuffer(w, data) ==
    /\ wpc[w] = "write"
    /\ file' = [file EXCEPT ![Head(head[w]).tid] = @ \o data]
    /\ wpc' = [wpc EXCEPT ![w] = "release"]
    /\ UNCHANGED <<order, queue, kicks, bufDone, mpc, wtid, head, bufs>>

\* write_buf_list() after the barrier: the buffer is flagged SHMEM_FL_WRITTEN
\* and unmapped, and the next one is looked at.  (List entries go back to
\* buf_free_list, a cache of allocations that holds no data.)
ReleaseBuffer(w) ==
    /\ wpc[w] = "release"
    /\ head' = [head EXCEPT ![w] = Tail(@)]
    /\ wpc' = [wpc EXCEPT ![w] = IF Len(head[w]) = 1 THEN "splice" ELSE "write"]
    /\ UNCHANGED <<order, queue, kicks, bufDone, mpc, wtid, bufs, file>>

\* The second critical section, when warg->bufs has something
SpliceBufs(w) ==
    /\ wpc[w] = "splice"
    /\ LockFree
    /\ bufs[w] # << >>
    /\ head' = [head EXCEPT ![w] = bufs[w]]
    /\ bufs' = [bufs EXCEPT ![w] = << >>]
    /\ wpc' = [wpc EXCEPT ![w] = "write"]
    /\ UNCHANGED <<order, queue, kicks, bufDone, mpc, wtid, file>>

\* Mutant: the writer leaves without looking for buffers handed to it.
LeaveUnchecked(w) ==
    /\ wpc[w] = "splice"
    /\ LockFree
    /\ wtid' = [wtid EXCEPT ![w] = NoTask]
    /\ wpc' = [wpc EXCEPT ![w] = LoopTop]
    /\ UNCHANGED <<order, queue, kicks, bufDone, mpc, head, bufs, file>>

\* The second critical section, when it is empty: leave writer_list
LeaveTask(w) ==
    /\ wpc[w] = "splice"
    /\ LockFree
    /\ bufs[w] = << >>
    /\ wtid' = [wtid EXCEPT ![w] = NoTask]
    /\ wpc' = [wpc EXCEPT ![w] = LoopTop]
    /\ UNCHANGED <<order, queue, kicks, bufDone, mpc, head, bufs, file>>

\* Steps of a writer that do not depend on the contents of buffers
WriterStep(w) ==
    \/ PollKick(w) \/ PollNothing(w) \/ ReadKick(w)
    \/ PickTask(w) \/ PickNothing(w)
    \/ SpliceBufs(w) \/ LeaveTask(w)

-----------------------------------------------------------------------------
(* What holds of the lists and the writers whoever feeds them *)

\* Buffers from B fill the lists, and a writer is at a known point of writer_thread().
PoolTypes(B) ==
    /\ order \in Seq(Tasks)
    /\ queue \in [Tasks -> Seq(B)]
    /\ kicks \in 0 .. KickCap
    /\ bufDone \in BOOLEAN
    /\ mpc \in MainPCs
    /\ wpc \in [Writers -> WriterPCs]
    /\ wtid \in [Writers -> Tasks \cup {NoTask}]
    /\ head \in [Writers -> Seq(B)]
    /\ bufs \in [Writers -> Seq(B)]

\* Two writers never work for one task: their appends to its file would
\* interleave.  copy_to_buffer() and the two critical sections of
\* writer_thread() keep this between them.
OneWriterPerTask ==
    \A v, w \in Writers : wtid[v] = wtid[w] /\ wtid[v] # NoTask => v = w

\* A task with a writer has nothing in buf_write_list: otherwise a second
\* writer could pick it, or the newer buffers could be written first.
ServedTaskNotQueued ==
    \A w \in Writers : wtid[w] # NoTask => queue[wtid[w]] = << >>

\* `order' lists exactly the tasks with queued buffers, each once, and every
\* buffer is queued under its own tid.
ListShape ==
    /\ \A t \in Tasks : queue[t] # << >> <=> \E i \in 1 .. Len(order) : order[i] = t
    /\ \A i, j \in 1 .. Len(order) : order[i] = order[j] => i = j
    /\ \A t \in Tasks : \A i \in 1 .. Len(queue[t]) : queue[t][i].tid = t

\* A writer has a task from the moment it picks one until it leaves it, has
\* buffers while it writes, and holds buffers of its task only.
WriterShape ==
    \A w \in Writers :
        /\ wtid[w] # NoTask <=> wpc[w] \in {"write", "release", "splice"}
        /\ head[w] # << >> <=> wpc[w] \in {"write", "release"}
        /\ wtid[w] = NoTask => bufs[w] = << >>
        /\ \A i \in 1 .. Len(head[w]) : head[w][i].tid = wtid[w]
        /\ \A i \in 1 .. Len(bufs[w]) : bufs[w][i].tid = wtid[w]

\* Writers leave only after stop_all_writers(), and uftrace flushes only
\* after the last one left.
Phases ==
    /\ mpc = "run" => ~bufDone
    /\ mpc \in {"join", "flush", "remain", "done"} => bufDone
    /\ \A w \in Writers : wpc[w] = "exit" => bufDone
    /\ mpc \in {"flush", "remain", "done"} \/ (mpc = "kick" /\ bufDone) =>
         \A w \in Writers : wpc[w] = "exit"
    /\ mpc = "done" => order = << >>

PoolShape ==
    /\ ListShape
    /\ WriterShape
    /\ Phases
    /\ OneWriterPerTask
    /\ ServedTaskNotQueued

\* The buffers of a task that were handed over and not given back, in the order in
\* which they will be written: those of its writer, or those in buf_write_list.
Backlog(t) ==
    IF \E w \in Writers : wtid[w] = t
      THEN LET w == CHOOSE w \in Writers : wtid[w] = t IN head[w] \o bufs[w]
      ELSE queue[t]

=============================================================================
