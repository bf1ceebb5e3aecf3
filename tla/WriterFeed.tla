------------------------------ MODULE WriterFeed ------------------------------
(***************************************************************************)
(* The writer pool in isolation.  The main thread hands over the buffers   *)
(* of every task numbered from 1, as REC_END messages would make it do,    *)
(* may stop at any moment, and then flushes further buffers itself.  What  *)
(* a buffer appends to its file is its number.                             *)
(***************************************************************************)
EXTENDS WriterPool, FiniteSets

CONSTANT MaxBufs    \* bound: buffers handed over for each task

ASSUME FeedAssumption == MaxBufs \in Nat /\ IsFiniteSet(Writers)

VARIABLE given      \* how many buffers of each task were handed over

vars == <<order, queue, kicks, bufDone, mpc, wpc, wtid, head, bufs, file, given>>

Buf == [tid : Tasks, num : Nat]

Init == PoolInit /\ given = [t \in Tasks |-> 0]

\* record_mmap_file() of the next buffer of task t, from a REC_END message
\* (mpc = "run") or from flush_shmem_list() (mpc = "flush")
Feed(t) ==
    /\ given[t] < MaxBufs
    /\ CopyToBuffer([tid |-> t, num |-> given[t] + 1])
    /\ given' = [given EXCEPT ![t] = @ + 1]

Write(w) == WriteBuffer(w, <<Head(head[w]).num>>) /\ UNCHANGED given

Remaining == RecordRemaining(<<Head(queue[Head(order)]).num>>) /\ UNCHANGED given

Main ==
    \/ \E t \in Tasks : Feed(t)
    \/ /\ Kick \/ StopAllWriters \/ JoinWriters \/ FlushDone \/ RecordRemainingDone
       /\ UNCHANGED given
    \/ Remaining

Writer(w) ==
    \/ (WriterStep(w) \/ ReleaseBuffer(w)) /\ UNCHANGED given
    \/ Write(w)

\* uftrace has written everything and goes on to save symbols
Terminated == mpc = "done" /\ UNCHANGED vars

Next == Main \/ (\E w \in Writers : Writer(w)) \/ Terminated

\* The writers are threads the kernel schedules, and so is the main thread:
\* once it waits for the pipe, for the writers, or drains the list it goes on
\* when it can.  Nothing forces it to stop tracing or to get more buffers.
Fairness ==
    /\ \A w \in Writers : WF_vars(Writer(w))
    /\ WF_vars((Kick \/ JoinWriters \/ RecordRemainingDone) /\ UNCHANGED given)
    /\ WF_vars(FlushDone /\ UNCHANGED given)
    /\ WF_vars(Remaining)

Spec == Init /\ [][Next]_vars
FairSpec == Spec /\ Fairness

-----------------------------------------------------------------------------

\* The lists, the pipe and the writers' arguments hold what their C types allow, and a
\* writer is at a known point of writer_thread().
TypeOK ==
    /\ PoolTypes(Buf)
    /\ file \in [Tasks -> Seq(Nat)]
    /\ given \in [Tasks -> Nat]

\* No lost wakeup: while a buffer waits in buf_write_list, a kick is in the
\* pipe or about to be written, a writer that read one is about to look at
\* the list, or the writers were told to stop (record_remaining_buffer()
\* takes the rest).
NoLostWakeup ==
    order # << >> =>
        \/ kicks > 0
        \/ mpc = "kick"
        \/ \E w \in Writers : wpc[w] = "pick"
        \/ bufDone

\* The file of a task holds its buffers in the order the program filled
\* them, none missing and none twice, whoever wrote them.
FileInOrder ==
    \A t \in Tasks : \A i \in 1 .. Len(file[t]) : file[t][i] = i

\* When record_remaining_buffer() is through, every buffer handed over has
\* been written, the ones writers were holding when they were stopped too.
NothingStranded ==
    mpc = "done" => \A t \in Tasks : Len(file[t]) = given[t]

\* Every buffer handed to copy_to_buffer() reaches the file.
EveryBufferSaved ==
    \A t \in Tasks : \A n \in 1 .. MaxBufs :
        given[t] >= n ~> Len(file[t]) >= n

\* Once told to stop, the writers end and uftrace gets to the end of the data.
StopCompletes == bufDone ~> mpc = "done"

\* The writers get their work done: every buffer is saved in the end, and a stop completes
\* (writer_thread(), finish_writers()).
WritersFinish == EveryBufferSaved /\ StopCompletes

-----------------------------------------------------------------------------
(* The inductive invariant behind the safety properties. *)

\* The writers that have read a kick and not looked at the list yet
Pickers == {w \in Writers : wpc[w] = "pick"}

\* Each task in buf_write_list has a kick of its own, in the pipe, in the
\* hands of a writer, or about to be written.
KickAccount ==
    bufDone \/ Len(order) <= kicks + Cardinality(Pickers) + (IF mpc = "kick" THEN 1 ELSE 0)

\* The buffers of s are numbered on from n.
Consecutive(s, n) == \A i \in 1 .. Len(s) : s[i].num = n + i

\* How much of task wtid[w] is in the file before the buffers of `head'
Base(w) == Len(file[wtid[w]]) - (IF wpc[w] = "release" THEN 1 ELSE 0)

Served(t) == \E w \in Writers : wtid[w] = t

QueueContinuesFile(t) ==
    /\ Consecutive(queue[t], Len(file[t]))
    /\ given[t] = Len(file[t]) + Len(queue[t])

WriterContinuesFile(w) ==
    /\ Consecutive(head[w], Base(w))
    /\ Consecutive(bufs[w], Base(w) + Len(head[w]))
    /\ given[wtid[w]] = Base(w) + Len(head[w]) + Len(bufs[w])

\* File, writer's lists and buf_write_list continue each other without a gap.
Numbering ==
    /\ \A t \in Tasks : Served(t) \/ QueueContinuesFile(t)
    /\ \A w \in Writers : wtid[w] = NoTask \/ WriterContinuesFile(w)

\* The inductive invariant of the proofs: with it every step of writer_thread() and of the
\* main thread keeps the properties above.
IndInv ==
    /\ TypeOK
    /\ PoolShape
    /\ KickAccount
    /\ Numbering
    /\ FileInOrder

-----------------------------------------------------------------------------
(* The abstract specification: each file is a growing prefix of its log. *)

\* The first n buffers of a task
UpTo(n) == [i \in 1 .. n |-> i]

Log == INSTANCE TraceLog WITH
         Items <- 1 .. MaxBufs,
         stream <- [t \in Tasks |-> UpTo(given[t])]

\* The pool implements a per-task log whose saved part only ever grows by
\* the next buffers of the task.
RefinesTraceLog == Log!Spec

=============================================================================
