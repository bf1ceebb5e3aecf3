------------------------------ MODULE Recording -------------------------------
(***************************************************************************)
(* The recording pipeline from end to end: the traced threads store trace  *)
(* records in shared memory buffers (libmcount/record.c) and announce them *)
(* on the .channel pipe; the main thread of `uftrace record' reads the     *)
(* messages (read_record_mmap) and hands finished buffers to the writer    *)
(* threads of module WriterPool, which append them to the task's file and  *)
(* give the buffer back through its flags.                                 *)
(*                                                                         *)
(* The traced program and uftrace share the memory and nothing else: no    *)
(* lock is taken on a buffer, only its flags say whose turn it is.  A task *)
(* may be killed between any two steps, the program may close the pipe     *)
(* while other threads still record, and uftrace may be interrupted.       *)
(***************************************************************************)
EXTENDS WriterPool, FiniteSets

CONSTANTS
    MaxRec,     \* bound: trace records each task produces
    BufCap,     \* records a shmem buffer holds
    MaxBuf,     \* bound: shmem buffers a task can allocate
    PipeCap     \* bound: messages the .channel pipe holds before write blocks

ASSUME RecordingAssumption ==
    /\ MaxRec \in Nat
    /\ BufCap \in Nat \ {0}
    /\ MaxBuf \in Nat /\ MaxBuf >= 2
    /\ PipeCap \in Nat \ {0}

VARIABLES
    mem,        \* the shmem files: flag and contents of each buffer of a task
    nrBuf,      \* shmem->nr_buf: buffers the task has mapped
    curr,       \* shmem->curr
    losts,      \* shmem->losts
    ppc,        \* where the traced thread is
    next,       \* number of the next trace record
    stream,     \* history: the records the task stored, in order
    blind,      \* history: tasks that started a buffer nobody was told about
    pfdOpen,    \* mcount_pfd is open
    pipe,       \* unread messages in .channel
    listed,     \* shmem_list_head: buffers started and not ended
    lostCount,  \* shmem_lost_count
    finishRcvd, \* finish_received
    stop        \* why uftrace stopped reading messages

taskVars == <<mem, nrBuf, curr, losts, ppc, next, stream, blind>>
recorderVars == <<listed, lostCount, finishRcvd, stop>>
vars == <<poolVars, taskVars, pfdOpen, pipe, recorderVars>>

Idx == 0 .. MaxBuf - 1
Flags == {"RECORDING", "NEW", "WRITTEN"}
Rec(n) == [kind |-> "rec", num |-> n]
Lost(k) == [kind |-> "lost", num |-> k]
Items == [kind : {"rec", "lost"}, num : 0 .. 2 * MaxRec]
TaskPCs == {"none", "rec", "new", "start", "lost", "store", "gone"}

\* A buffer file, as ftruncate() leaves it
FreshBuffer == [flag |-> {}, data |-> << >>]
BufOf(t) == mem[t][curr[t]]

Init ==
    /\ PoolInit
    /\ mem = [t \in Tasks |-> [i \in Idx |-> FreshBuffer]]
    /\ nrBuf = [t \in Tasks |-> 0]
    /\ curr = [t \in Tasks |-> -1]
    /\ losts = [t \in Tasks |-> 0]
    /\ ppc = [t \in Tasks |-> "none"]
    /\ next = [t \in Tasks |-> 1]
    /\ stream = [t \in Tasks |-> << >>]
    /\ blind = {}
    /\ pfdOpen = TRUE
    /\ pipe = << >>
    /\ listed = << >>
    /\ lostCount = 0
    /\ finishRcvd = FALSE
    /\ stop = "no"

-----------------------------------------------------------------------------
(* The traced threads: libmcount/record.c *)

\* uftrace_send_message(): blocks on a full pipe; drops the message once
\* mcount_pfd is closed.
Send(m) ==
    IF pfdOpen
      THEN Len(pipe) < PipeCap /\ pipe' = Append(pipe, m)
      ELSE UNCHANGED pipe

Message(type, t, i) == [type |-> type, tid |-> t, arg |-> i]

\* prepare_shmem_buffer(): two buffers, the first one current
PrepareShmemBuffer(t) ==
    /\ ppc[t] = "none"
    /\ Send(Message("START", t, 0))
    /\ blind' = IF pfdOpen THEN blind ELSE blind \cup {t}
    /\ mem' = [mem EXCEPT ![t][0] = [flag |-> {"RECORDING", "NEW"}, data |-> << >>]]
    /\ nrBuf' = [nrBuf EXCEPT ![t] = 2]
    /\ curr' = [curr EXCEPT ![t] = 0]
    /\ ppc' = [ppc EXCEPT ![t] = "rec"]
    /\ UNCHANGED <<losts, next, stream, pfdOpen>>

\* record_ret_stack(): the record goes to the current buffer and its size
\* grows.  After get_new_shmem_buffer() ("store") the size is not checked
\* again.
StoreRecord(t) ==
    /\ next[t] <= MaxRec
    /\ curr[t] # -1
    /\ \/ ppc[t] = "rec" /\ Len(BufOf(t).data) < BufCap
       \/ ppc[t] = "store"
    /\ mem' = [mem EXCEPT ![t][curr[t]].data = Append(@, Rec(next[t]))]
    /\ stream' = [stream EXCEPT ![t] = Append(@, Rec(next[t]))]
    /\ next' = [next EXCEPT ![t] = @ + 1]
    /\ ppc' = [ppc EXCEPT ![t] = "rec"]
    /\ UNCHANGED <<nrBuf, curr, losts, blind, pfdOpen, pipe>>

\* get_shmem_buffer() finds no room: finish_shmem_buffer() of the current one
FinishShmemBuffer(t) ==
    /\ next[t] <= MaxRec
    /\ ppc[t] = "rec"
    /\ curr[t] # -1
    /\ Len(BufOf(t).data) >= BufCap
    /\ Send(Message("END", t, curr[t]))
    /\ ppc' = [ppc EXCEPT ![t] = "new"]
    /\ UNCHANGED <<mem, nrBuf, curr, losts, next, stream, blind, pfdOpen>>

\* get_new_shmem_buffer() is called: there is no current buffer since an
\* allocation failed, or it has just been finished.
NeedsBuffer(t) ==
    \/ ppc[t] = "new"
    \/ ppc[t] = "rec" /\ curr[t] = -1 /\ next[t] <= MaxRec

\* Mutant: any buffer but the one just finished is taken for free.
UsableOther(t) == 0 .. nrBuf[t] - 1 \ {curr[t]}

\* The buffers not marked SHMEM_FL_RECORDING
Usable(t) == {i \in 0 .. nrBuf[t] - 1 : "RECORDING" \notin mem[t][i].flag}

\* Mutant: only the number of buffers decides, not whether they are unused.
ShrinksByCount(t, i) == i + 3 <= nrBuf[t]

\* `shrink unused buffers': three or more buffers after i are unused, and the
\* last one is; it is unmapped.
Shrinks(t, i) ==
    LET unused == {j \in i + 1 .. nrBuf[t] - 1 : mem[t][j].flag = {"WRITTEN"}}
    IN  Cardinality(unused) >= 3 /\ nrBuf[t] - 1 \in unused

\* The reuse: part of get_new_shmem_buffer(): set the flag, start at size 0
Reuse(b) == [flag |-> b.flag \cup {"RECORDING"}, data |-> << >>]

\* get_new_shmem_buffer(), the first buffer that is available
ReuseBuffer(t) ==
    /\ NeedsBuffer(t)
    /\ \E i \in Usable(t) :
         /\ \A j \in Usable(t) : i <= j
         /\ mem' = [mem EXCEPT ![t][i] = Reuse(@)]
         /\ curr' = [curr EXCEPT ![t] = i]
         /\ nrBuf' = IF Shrinks(t, i) THEN [nrBuf EXCEPT ![t] = @ - 1] ELSE nrBuf
    /\ ppc' = [ppc EXCEPT ![t] = "start"]
    /\ UNCHANGED <<losts, next, stream, blind, pfdOpen, pipe>>

\* get_new_shmem_buffer(), all in use: allocate_shmem_buffer() creates or
\* truncates the file of the next index.
AllocateBuffer(t) ==
    /\ NeedsBuffer(t)
    /\ Usable(t) = {}
    /\ nrBuf[t] < MaxBuf
    /\ mem' = [mem EXCEPT ![t][nrBuf[t]] = Reuse(FreshBuffer)]
    /\ curr' = [curr EXCEPT ![t] = nrBuf[t]]
    /\ nrBuf' = [nrBuf EXCEPT ![t] = @ + 1]
    /\ ppc' = [ppc EXCEPT ![t] = "start"]
    /\ UNCHANGED <<losts, next, stream, blind, pfdOpen, pipe>>

\* get_new_shmem_buffer() cannot allocate, which may happen any time: it counts
\* a loss, get_shmem_buffer() counts another, and the record is not stored.
LoseRecord(t) ==
    /\ NeedsBuffer(t)
    /\ Usable(t) = {}
    /\ losts' = [losts EXCEPT ![t] = @ + 2]
    /\ curr' = [curr EXCEPT ![t] = -1]
    /\ next' = [next EXCEPT ![t] = @ + 1]
    /\ ppc' = [ppc EXCEPT ![t] = "rec"]
    /\ UNCHANGED <<mem, nrBuf, stream, blind, pfdOpen, pipe>>

\* Mutant: the loss is forgotten when a buffer is available again.
StartForgettingLoss(t) ==
    /\ ppc[t] = "start"
    /\ Send(Message("START", t, curr[t]))
    /\ blind' = IF pfdOpen THEN blind ELSE blind \cup {t}
    /\ losts' = [losts EXCEPT ![t] = 0]
    /\ ppc' = [ppc EXCEPT ![t] = "store"]
    /\ UNCHANGED <<mem, nrBuf, curr, next, stream, pfdOpen>>

\* The end of get_new_shmem_buffer(): tell uftrace about the buffer
StartBuffer(t) ==
    /\ ppc[t] = "start"
    /\ Send(Message("START", t, curr[t]))
    /\ blind' = IF pfdOpen THEN blind ELSE blind \cup {t}
    /\ ppc' = [ppc EXCEPT ![t] = IF losts[t] > 0 THEN "lost" ELSE "store"]
    /\ UNCHANGED <<mem, nrBuf, curr, losts, next, stream, pfdOpen>>

\* ... and about lost records, which also get a record of their own
ReportLost(t) ==
    /\ ppc[t] = "lost"
    /\ Send(Message("LOST", t, losts[t]))
    /\ mem' = [mem EXCEPT ![t][curr[t]].data = <<Lost(losts[t])>>]
    /\ stream' = [stream EXCEPT ![t] = Append(@, Lost(losts[t]))]
    /\ losts' = [losts EXCEPT ![t] = 0]
    /\ ppc' = [ppc EXCEPT ![t] = "store"]
    /\ UNCHANGED <<nrBuf, curr, next, blind, pfdOpen>>

\* mtd_dtor(): shmem_finish() of the thread
ShmemFinish(t) ==
    /\ ppc[t] = "rec"
    /\ IF curr[t] # -1 /\ "RECORDING" \in BufOf(t).flag
         THEN Send(Message("END", t, curr[t]))
         ELSE UNCHANGED pipe
    /\ curr' = [curr EXCEPT ![t] = -1]
    /\ nrBuf' = [nrBuf EXCEPT ![t] = 0]
    /\ ppc' = [ppc EXCEPT ![t] = "gone"]
    /\ UNCHANGED <<mem, losts, next, stream, blind, pfdOpen>>

\* external: the thread ends without mtd_dtor() (a signal, exit() of the
\* program, exec in another thread); its buffers stay as they are.
Killed(t) ==
    /\ ppc[t] # "gone"
    /\ ppc' = [ppc EXCEPT ![t] = "gone"]
    /\ UNCHANGED <<mem, nrBuf, curr, losts, next, stream, blind, pfdOpen, pipe>>

\* mcount_trace_finish(send_msg): the FINISH message if the program is to go
\* on without tracing, then no message leaves any thread anymore.
TraceFinish(sendMsg) ==
    /\ pfdOpen
    /\ IF sendMsg
         THEN Len(pipe) < PipeCap /\ pipe' = Append(pipe, Message("FINISH", NoTask, 0))
         ELSE UNCHANGED pipe
    /\ pfdOpen' = FALSE
    /\ UNCHANGED taskVars

TaskStep(t) ==
    \/ PrepareShmemBuffer(t) \/ StoreRecord(t) \/ FinishShmemBuffer(t)
    \/ ReuseBuffer(t) \/ AllocateBuffer(t) \/ LoseRecord(t)
    \/ StartBuffer(t) \/ ReportLost(t)
    \/ ShmemFinish(t)

-----------------------------------------------------------------------------
(* The main thread of uftrace: cmds/record.c *)

\* record_mmap_file(): a buffer marked RECORDING that has data goes to the
\* writers, any other one is left alone.
RecordMmapFile(t, i) ==
    IF "RECORDING" \in mem[t][i].flag /\ mem[t][i].data # << >>
      THEN CopyToBuffer([tid |-> t, idx |-> i])
      ELSE UNCHANGED poolVars

\* Mutant: the entry of an ended buffer stays in the list.
StillListed(s, e) == s

\* shmem_list_head without the first entry of the buffer that ended
WithoutFirst(s, e) ==
    IF \E k \in 1 .. Len(s) : s[k] = e
      THEN LET k == CHOOSE k \in 1 .. Len(s) : s[k] = e /\ \A j \in 1 .. k - 1 : s[j] # e
           IN  SubSeq(s, 1, k - 1) \o SubSeq(s, k + 1, Len(s))
      ELSE s

\* read_record_mmap(): one message
ReadMessage ==
    /\ mpc = "run"
    /\ stop = "no"
    /\ pipe # << >>
    /\ pipe' = Tail(pipe)
    /\ LET m == Head(pipe)
           e == [tid |-> m.tid, idx |-> m.arg]
       IN  \/ /\ m.type = "START"
              /\ listed' = Append(listed, e)
              /\ UNCHANGED <<poolVars, lostCount, finishRcvd>>
           \/ /\ m.type = "END"
              /\ listed' = WithoutFirst(listed, e)
              /\ RecordMmapFile(m.tid, m.arg)
              /\ UNCHANGED <<lostCount, finishRcvd>>
           \/ /\ m.type = "LOST"
              /\ lostCount' = lostCount + m.arg
              /\ UNCHANGED <<poolVars, listed, finishRcvd>>
           \/ /\ m.type = "FINISH"
              /\ finishRcvd' = TRUE
              /\ UNCHANGED <<poolVars, listed, lostCount>>
    /\ UNCHANGED <<taskVars, pfdOpen, stop>>

\* Mutant: uftrace stops as soon as the tasks exited, whatever the pipe holds.
StopUndrained ==
    (IF \A t \in Tasks : ppc[t] = "gone" THEN {"exited"} ELSE {})
      \cup (IF finishRcvd /\ ~pfdOpen THEN {"finished"} ELSE {})
      \cup {"interrupted"}

\* Why do_main_loop() and stop_tracing() stop reading: every task exited and
\* the pipe is drained, the program finished tracing and it is drained, or
\* uftrace_done was set by a signal, whatever is still in the pipe.
StopReasons ==
    (IF pipe = << >> /\ (\A t \in Tasks : ppc[t] = "gone") THEN {"exited"} ELSE {})
      \cup (IF pipe = << >> /\ finishRcvd /\ ~pfdOpen THEN {"finished"} ELSE {})
      \cup {"interrupted"}

StopTracing ==
    /\ StopAllWriters
    /\ stop' \in StopReasons
    /\ UNCHANGED <<taskVars, pfdOpen, pipe, listed, lostCount, finishRcvd>>

\* flush_shmem_list(): the buffers that never ended
FlushShmem ==
    /\ mpc = "flush"
    /\ listed # << >>
    /\ listed' = Tail(listed)
    /\ RecordMmapFile(Head(listed).tid, Head(listed).idx)
    /\ UNCHANGED <<taskVars, pfdOpen, pipe, lostCount, finishRcvd, stop>>

\* Mutant: the buffers that never ended are not flushed.
FlushNothing ==
    /\ FlushDone
    /\ UNCHANGED <<taskVars, pfdOpen, pipe, recorderVars>>

\* flush_shmem_list() has emptied shmem_list_head
FlushShmemDone ==
    /\ listed = << >>
    /\ FlushDone
    /\ UNCHANGED <<taskVars, pfdOpen, pipe, recorderVars>>

\* Steps of the pool that touch neither memory nor messages
PoolOnly(A) == A /\ UNCHANGED <<taskVars, pfdOpen, pipe, recorderVars>>

\* write_buffer() empties the buffer once its contents are written.
Emptied(b) == mem' = [mem EXCEPT ![b.tid][b.idx].data = << >>]

RemainingBuffer ==
    LET b == Head(queue[Head(order)])
    IN  /\ mpc = "remain"
        /\ order # << >>
        /\ RecordRemaining(mem[b.tid][b.idx].data)
        /\ Emptied(b)
        /\ UNCHANGED <<nrBuf, curr, losts, ppc, next, stream, blind, pfdOpen, pipe, recorderVars>>

\* Mutant: the buffer is given back before write_buf_list() is through with it.
WriteAndRelease(w) ==
    LET b == Head(head[w])
    IN  /\ wpc[w] = "write"
        /\ WriteBuffer(w, mem[b.tid][b.idx].data)
        /\ mem' = [mem EXCEPT ![b.tid][b.idx] = [flag |-> {"WRITTEN"}, data |-> << >>]]
        /\ UNCHANGED <<nrBuf, curr, losts, ppc, next, stream, blind, pfdOpen, pipe, recorderVars>>

\* The writers: the contents of the buffer at the time of the write, ...
Write(w) ==
    LET b == Head(head[w])
    IN  /\ wpc[w] = "write"
        /\ WriteBuffer(w, mem[b.tid][b.idx].data)
        /\ Emptied(b)
        /\ UNCHANGED <<nrBuf, curr, losts, ppc, next, stream, blind, pfdOpen, pipe, recorderVars>>

\* ... and the flag that lets get_new_shmem_buffer() use it again.
Release(w) ==
    LET b == Head(head[w])
    IN  /\ ReleaseBuffer(w)
        /\ mem' = [mem EXCEPT ![b.tid][b.idx].flag = {"WRITTEN"}]
        /\ UNCHANGED <<nrBuf, curr, losts, ppc, next, stream, blind, pfdOpen, pipe, recorderVars>>

-----------------------------------------------------------------------------

MainStep ==
    \/ ReadMessage \/ FlushShmem \/ FlushShmemDone \/ RemainingBuffer
    \/ PoolOnly(Kick) \/ PoolOnly(JoinWriters) \/ PoolOnly(RecordRemainingDone)

Writer(w) == PoolOnly(WriterStep(w)) \/ Write(w) \/ Release(w)

Program ==
    \/ \E t \in Tasks : TaskStep(t) \/ Killed(t)
    \/ \E sendMsg \in BOOLEAN : TraceFinish(sendMsg)

Terminated == mpc = "done" /\ UNCHANGED vars

Next ==
    \/ Program /\ UNCHANGED <<poolVars, recorderVars>>
    \/ MainStep
    \/ StopTracing
    \/ \E w \in Writers : Writer(w)
    \/ Terminated

\* Threads are scheduled; uftrace stops by itself once every task is gone.
\* Nothing makes a task go on, exit or be killed.
Fairness ==
    /\ WF_vars(MainStep)
    /\ \A w \in Writers : WF_vars(Writer(w))
    /\ WF_vars(StopTracing /\ stop' = "exited")

Spec == Init /\ [][Next]_vars
FairSpec == Spec /\ Fairness

-----------------------------------------------------------------------------

\* The buffers, the pipe and the program counters keep their types.
TypeOK ==
    /\ mem \in [Tasks -> [Idx -> [flag : SUBSET Flags, data : Seq(Items)]]]
    /\ nrBuf \in [Tasks -> 0 .. MaxBuf]
    /\ curr \in [Tasks -> Idx \cup {-1}]
    /\ losts \in [Tasks -> 0 .. 2 * MaxRec]
    /\ ppc \in [Tasks -> TaskPCs]
    /\ next \in [Tasks -> 1 .. MaxRec + 1]
    /\ stop \in {"no", "exited", "finished", "interrupted"}
    /\ mpc \in MainPCs
    /\ wpc \in [Writers -> WriterPCs]
    /\ kicks \in 0 .. KickCap

\* The buffers of task t some list of the recorder holds
InFlight(t) ==
    LET in(s) == {s[k].idx : k \in {k \in 1 .. Len(s) : s[k].tid = t}}
    IN  in(queue[t]) \cup UNION {in(head[w]) \cup in(bufs[w]) : w \in Writers}

\* While uftrace records, the buffer a task stores into is not on its way to
\* a file: get_new_shmem_buffer() takes a buffer only after write_buf_list()
\* is through with it.
CurrentNotInFlight ==
    \A t \in Tasks :
        ppc[t] \in {"rec", "start", "lost", "store"} /\ curr[t] # -1 /\ stop = "no"
            => curr[t] \notin InFlight(t)

\* A buffer the recorder holds is one the task still counts: shrinking never
\* drops it, so allocate_shmem_buffer() never truncates memory that a writer
\* has mapped.
InFlightStaysMapped ==
    \A t \in Tasks : ppc[t] # "gone" =>
        \A i \in InFlight(t) : i < nrBuf[t]

\* A task has at most one started buffer in shmem_list_head and it is not on
\* its way to a file, so flush_shmem_list() writes nothing twice.
ListedOnce ==
    stop = "no" =>
        \A i \in 1 .. Len(listed) :
            /\ listed[i].idx \notin InFlight(listed[i].tid)
            /\ \A j \in 1 .. Len(listed) : listed[j].tid = listed[i].tid => i = j

\* A buffer belongs to one side at a time: the one a task stores into is not on
\* its way to a file, one on its way is not unmapped, and the list of started
\* buffers names each once (get_new_shmem_buffer(), read_record_mmap()).
OneOwner == TypeOK /\ CurrentNotInFlight /\ InFlightStaysMapped /\ ListedOnce

\* Where records are missing from a file, a LOST record says so.
GapsAreMarked ==
    \A t \in Tasks : \A i \in 1 .. Len(file[t]) :
        file[t][i].kind = "rec" =>
            \/ i = 1 /\ file[t][i].num = 1
            \/ i > 1 /\ file[t][i - 1] = Rec(file[t][i].num - 1)
            \/ i > 1 /\ file[t][i - 1].kind = "lost"

\* When uftrace stops because every task is gone, by itself or killed, the
\* files hold every record the tasks stored, unless a task went on to a new
\* buffer after the program had closed the pipe.
CompleteAtEnd ==
    mpc = "done" /\ stop = "exited" => \A t \in Tasks \ blind : file[t] = stream[t]

\* The LOST records of a file count the records that are missing.
LostCountsRecords ==
    \A t \in Tasks : \A i \in 1 .. Len(file[t]) - 1 :
        file[t][i].kind = "lost" =>
            LET before == IF i = 1 THEN 0 ELSE file[t][i - 1].num
            IN  file[t][i].num = file[t][i + 1].num - before - 1

\* Every buffer the recorder takes is given back or, when uftrace stops, at
\* least written: nothing blocks the pipeline for good.
BuffersReturn ==
    \A t \in Tasks : \A i \in Idx : i \in InFlight(t) ~> i \notin InFlight(t)

\* Once every task is gone, uftrace gets to the end of its data.
RecorderEnds == (\A t \in Tasks : ppc[t] = "gone") ~> mpc = "done"

Log == INSTANCE TraceLog

\* Whatever the interleaving, the crashes and the interrupts, the file of a
\* task is a prefix of what the task stored and grows in that order.
RefinesTraceLog == Log!Spec

=============================================================================
