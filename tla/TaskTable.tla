------------------------------ MODULE TaskTable -------------------------------
(***************************************************************************)
(* How `uftrace record' keeps track of the tasks it traces (cmds/record.c, *)
(* tid_list_head) from the messages the traced program sends when threads  *)
(* start and end, fork and exec (libmcount/mcount.c), and when it believes *)
(* that all of them are gone.                                              *)
(*                                                                         *)
(* A message of one task can be overtaken by the death of its process, by  *)
(* an exec in another thread or by messages of other processes; a fork is  *)
(* announced by two messages, the second one from the child.  The traced   *)
(* program is followed until uftrace stops reading.  An interrupt only     *)
(* cuts a behaviour short; it, and the end of tracing by a FINISH message, *)
(* are in module Recording.                                                *)
(***************************************************************************)
EXTENDS Naturals, Sequences

CONSTANTS
    Tids,       \* the task ids the kernel can give out
    ThreadTids, \* those among them that new threads can get
    Recorders,  \* those whose functions are not all filtered out
    Root,       \* the task uftrace starts
    NoTid,      \* tl->tid == -1: a fork whose child is not known yet
    Reaper,     \* what getppid() says once the parent is gone
    MaxImg,     \* bound: programs a tid can run, by exec or by reuse
    MaxFork,    \* bound: forks attempted
    PipeCap,    \* bound: messages the .channel pipe holds before write blocks
    TidReuse,   \* may the kernel give out a tid a second time?
    Mortal      \* bound: the processes that may end in the middle of anything

ASSUME TableAssumption ==
    /\ Root \in Tids /\ ThreadTids \subseteq Tids /\ Recorders \subseteq Tids
    /\ NoTid \notin Tids /\ Reaper \notin Tids /\ Reaper # NoTid
    /\ MaxImg \in Nat \ {0} /\ MaxFork \in Nat /\ PipeCap \in Nat \ {0}
    /\ TidReuse \in BOOLEAN /\ Mortal \subseteq Tids

VARIABLES
    st,         \* where each task of the program is
    pid,        \* getpid() of each task
    img,        \* which program the tid runs, counting from 1
    ppid,       \* what the child of a fork read from getppid()
    forks,      \* how many forks were attempted
    filled,     \* shmem buffers with records, as [tid, img]
    pipe,       \* messages in .channel
    table,      \* tid_list_head, newest entry first
    listed,     \* shmem_list_head
    taken,      \* buffers record_mmap_file() handed to the writers
    forkInfo,   \* FORK lines of task.txt: [ppid, pid]
    mode,       \* where the main thread of uftrace is
    parent,     \* history: the process each child was forked from
    orphans,    \* history: children whose parent was gone when they looked
    ended       \* history: tids whose thread ended by itself, mtd_dtor() run

progVars == <<st, pid, img, ppid, forks, filled, parent, orphans, ended>>
recVars == <<table, listed, taken, forkInfo, mode>>
vars == <<progVars, pipe, recVars>>

Gone(t) == st[t] \in {"absent", "gone"}
Buffer(t) == [tid |-> t, img |-> img[t]]
Entry(p, t) == [pid |-> p, tid |-> t, exited |-> FALSE]
Send(m) == Len(pipe) < PipeCap /\ pipe' = Append(pipe, m)
\* The img of a message about a task is history: the program its sender runs.
TaskMsg(type, p, t) == [type |-> type, pid |-> p, tid |-> t, img |-> IF t = NoTid THEN 0 ELSE img[t]]
BufMsg(type, t) == [type |-> type, pid |-> pid[t], tid |-> t, img |-> img[t]]

Init ==
    /\ st = [t \in Tids |-> IF t = Root THEN "new" ELSE "absent"]
    /\ pid = [t \in Tids |-> t]
    /\ img = [t \in Tids |-> 1]
    /\ ppid = [t \in Tids |-> Reaper]
    /\ forks = 0
    /\ filled = {}
    /\ pipe = << >>
    /\ table = << >>
    /\ listed = << >>
    /\ taken = {}
    /\ forkInfo = {}
    /\ mode = "loop"
    /\ parent = [t \in Tids |-> Reaper]
    /\ orphans = {}
    /\ ended = {}

-----------------------------------------------------------------------------
(* The traced program *)

\* mcount_prepare(), called for the first function of a thread and by
\* atfork_child_handler() when the forking thread had none:
\* prepare_shmem_buffer() sends REC_START, ...
PrepareBuffer(t) ==
    /\ \/ st[t] = "new" /\ st' = [st EXCEPT ![t] = "begun"]
       \/ st[t] = "childNew" /\ st' = [st EXCEPT ![t] = "childBegun"]
       \/ st[t] = "child" /\ st' = [st EXCEPT ![t] = "childBuf"]
    /\ Send(BufMsg("REC_START", t))
    /\ UNCHANGED <<pid, img, ppid, forks, filled, parent, orphans, ended>>

\* ... then TASK_START follows.
PrepareTask(t) ==
    /\ \/ st[t] = "begun" /\ st' = [st EXCEPT ![t] = "run"]
       \/ st[t] = "childBegun" /\ st' = [st EXCEPT ![t] = "child"]
    /\ Send(TaskMsg("TASK_START", pid[t], t))
    /\ UNCHANGED <<pid, img, ppid, forks, filled, parent, orphans, ended>>

\* The task records functions into its buffer.
Record(t) ==
    /\ st[t] = "run" /\ t \in Recorders
    /\ filled' = filled \cup {Buffer(t)}
    /\ UNCHANGED <<st, pid, img, ppid, forks, parent, orphans, ended, pipe>>

\* external: pthread_create()
CloneThread(t, u) ==
    /\ st[t] = "run"
    /\ st[u] = "absent" \/ (TidReuse /\ st[u] = "gone" /\ img[u] < MaxImg)
    /\ \A v \in Tids : pid[v] = u /\ ~Gone(v) => v = u
    /\ st' = [st EXCEPT ![u] = "new"]
    /\ pid' = [pid EXCEPT ![u] = pid[t]]
    /\ img' = IF st[u] = "gone" THEN [img EXCEPT ![u] = @ + 1] ELSE img
    /\ UNCHANGED <<ppid, forks, filled, parent, orphans, ended, pipe>>

\* atfork_prepare_handler(): also for a thread libmcount does not know yet
ForkPrepare(t) ==
    /\ forks < MaxFork
    /\ forks' = forks + 1
    /\ \/ st[t] = "run" /\ st' = [st EXCEPT ![t] = "forking"]
       \/ st[t] = "new" /\ st' = [st EXCEPT ![t] = "forkingNew"]
    /\ Send(TaskMsg("FORK_START", pid[t], NoTid))
    /\ UNCHANGED <<pid, img, ppid, filled, parent, orphans, ended>>

\* external: fork() itself, which may fail
ForkSystemCall(t) ==
    /\ st[t] \in {"forking", "forkingNew"}
    /\ LET back == IF st[t] = "forking" THEN "run" ELSE "new"
           born == IF st[t] = "forking" THEN "forked" ELSE "forkedNew"
       IN  \/ /\ st' = [st EXCEPT ![t] = back]
              /\ UNCHANGED <<pid, parent>>
           \/ \E c \in Tids :
                /\ st[c] = "absent"
                /\ st' = [st EXCEPT ![t] = back, ![c] = born]
                /\ pid' = [pid EXCEPT ![c] = c]
                /\ parent' = [parent EXCEPT ![c] = pid[t]]
    /\ UNCHANGED <<img, ppid, forks, filled, orphans, ended, pipe>>

\* atfork_child_handler() starts with getppid().
ForkChild(t) ==
    /\ \/ st[t] = "forked" /\ st' = [st EXCEPT ![t] = "child"]
       \/ st[t] = "forkedNew" /\ st' = [st EXCEPT ![t] = "childNew"]
    /\ IF \E u \in Tids : pid[u] = parent[t] /\ ~Gone(u)
         THEN ppid' = [ppid EXCEPT ![t] = parent[t]] /\ UNCHANGED orphans
         ELSE ppid' = [ppid EXCEPT ![t] = Reaper] /\ orphans' = orphans \cup {t}
    /\ UNCHANGED <<pid, img, forks, filled, parent, ended, pipe>>

\* It ends with FORK_END, after prepare_shmem_buffer().
ForkEnd(t) ==
    /\ st[t] = "childBuf"
    /\ st' = [st EXCEPT ![t] = "run"]
    /\ Send(TaskMsg("FORK_END", ppid[t], t))
    /\ UNCHANGED <<pid, img, ppid, forks, filled, parent, orphans, ended>>

\* external: exec.  The other threads of the process disappear and the new
\* program runs as the leader, whose tid is the pid.
Exec(t) ==
    LET p == pid[t]
    IN  /\ st[t] = "run"
        /\ img[p] < MaxImg
        /\ st' = [u \in Tids |-> IF u = p THEN "new"
                                 ELSE IF pid[u] = p /\ ~Gone(u) THEN "gone" ELSE st[u]]
        /\ img' = [img EXCEPT ![p] = @ + 1]
        /\ UNCHANGED <<pid, ppid, forks, filled, parent, orphans, ended, pipe>>

\* mtd_dtor(): shmem_finish() sends REC_END, ...
ThreadExit(t) ==
    /\ st[t] = "run"
    /\ st' = [st EXCEPT ![t] = "ending"]
    /\ ended' = ended \cup {t}
    /\ Send(BufMsg("REC_END", t))
    /\ UNCHANGED <<pid, img, ppid, forks, filled, parent, orphans>>

\* ... then TASK_END follows.
ThreadEnd(t) ==
    /\ st[t] = "ending"
    /\ st' = [st EXCEPT ![t] = "gone"]
    /\ Send(TaskMsg("TASK_END", pid[t], t))
    /\ UNCHANGED <<pid, img, ppid, forks, filled, parent, orphans, ended>>

\* external: exit() or a signal ends the process wherever its threads are.
ProcessExit(p) ==
    /\ p \in Mortal
    /\ \E t \in Tids : pid[t] = p /\ ~Gone(t)
    /\ st' = [t \in Tids |-> IF pid[t] = p /\ ~Gone(t) THEN "gone" ELSE st[t]]
    /\ UNCHANGED <<pid, img, ppid, forks, filled, parent, orphans, ended, pipe>>

Program ==
    \E t \in Tids :
        \/ PrepareBuffer(t) \/ PrepareTask(t) \/ Record(t)
        \/ \E u \in ThreadTids : CloneThread(t, u)
        \/ ForkPrepare(t) \/ ForkSystemCall(t) \/ ForkChild(t) \/ ForkEnd(t)
        \/ Exec(t) \/ ThreadExit(t) \/ ThreadEnd(t) \/ ProcessExit(t)

-----------------------------------------------------------------------------
(* uftrace *)

Positions(s, P(_)) == {k \in 1 .. Len(s) : P(s[k])}
First(S) == CHOOSE k \in S : \A j \in S : k <= j
WithoutAt(s, k) == SubSeq(s, 1, k - 1) \o SubSeq(s, k + 1, Len(s))

\* record_mmap_file(): a buffer without data is left alone.
RecordMmapFile(b) == taken' = IF b \in filled THEN taken \cup {b} ELSE taken

\* REC_START
RecStart(m) ==
    /\ m.type = "REC_START"
    /\ listed' = Append(listed, [tid |-> m.tid, img |-> m.img])
    /\ UNCHANGED <<table, taken, forkInfo, mode>>

\* REC_END
RecEnd(m) ==
    /\ m.type = "REC_END"
    /\ LET b == [tid |-> m.tid, img |-> m.img]
           at == Positions(listed, LAMBDA e : e = b)
       IN  /\ listed' = IF at = {} THEN listed ELSE WithoutAt(listed, First(at))
           /\ RecordMmapFile(b)
    /\ UNCHANGED <<table, forkInfo, mode>>

\* Mutant: the search runs from the other end.
FlushNewest(t) ==
    LET at == Positions(listed, LAMBDA e : e.tid = t)
        last == CHOOSE k \in at : \A j \in at : j <= k
    IN  IF at = {}
          THEN UNCHANGED <<listed, taken>>
          ELSE listed' = WithoutAt(listed, last) /\ RecordMmapFile(listed[last])

\* flush_old_shmem(): the first listed buffer of this tid, whatever program
\* it belongs to
FlushOldShmem(t) ==
    LET at == Positions(listed, LAMBDA e : e.tid = t)
    IN  IF at = {}
          THEN UNCHANGED <<listed, taken>>
          ELSE /\ listed' = WithoutAt(listed, First(at))
               /\ RecordMmapFile(listed[First(at)])

\* TASK_START: a tid that is known has run exec.  The TASK line that is
\* appended to task.txt is left out: nothing here reads it.
TaskStart(m) ==
    /\ m.type = "TASK_START"
    /\ IF \E k \in 1 .. Len(table) : table[k].tid = m.tid
         THEN FlushOldShmem(m.tid) /\ UNCHANGED table
         ELSE table' = <<Entry(m.pid, m.tid)>> \o table /\ UNCHANGED <<listed, taken>>
    /\ UNCHANGED <<forkInfo, mode>>

\* tl->exited of the first entry with this tid
MarkExited(s, t) ==
    LET at == Positions(s, LAMBDA e : e.tid = t)
    IN  IF at = {} THEN s ELSE [s EXCEPT ![First(at)].exited = TRUE]

\* TASK_END
TaskEnd(m) ==
    /\ m.type = "TASK_END"
    /\ table' = MarkExited(table, m.tid)
    /\ UNCHANGED <<listed, taken, forkInfo, mode>>

\* Mutant: one entry for all forks of a process that are in flight
ForkStartedOnce(m) ==
    /\ m.type = "FORK_START"
    /\ table' = IF Positions(table, LAMBDA e : e = Entry(m.pid, NoTid)) # {} THEN table
                ELSE <<Entry(m.pid, NoTid)>> \o table
    /\ UNCHANGED <<listed, taken, forkInfo, mode>>

\* FORK_START: an entry whose tid is not known
ForkStarted(m) ==
    /\ m.type = "FORK_START"
    /\ table' = <<Entry(m.pid, NoTid)>> \o table
    /\ UNCHANGED <<listed, taken, forkInfo, mode>>

\* Mutant: always the first entry with tid -1
ForkEntriesAny(p) == Positions(table, LAMBDA e : e.tid = NoTid)

\* The entries FORK_END may complete: forks of this parent, or of anyone if
\* there is none (`just pick a first task which has tid of -1')
ForkEntries(p) ==
    LET mine == Positions(table, LAMBDA e : e.pid = p /\ e.tid = NoTid)
    IN  IF mine # {} THEN mine ELSE Positions(table, LAMBDA e : e.tid = NoTid)

\* Mutant: the parent's id goes into the entry.
ForkEndedSwapped(m) ==
    /\ m.type = "FORK_END"
    /\ LET at == ForkEntries(m.pid)
       IN  IF at = {}
             THEN mode' = "error" /\ UNCHANGED <<table, forkInfo>>
             ELSE /\ table' = [table EXCEPT ![First(at)].tid = m.pid]
                  /\ forkInfo' = forkInfo \cup {[ppid |-> table[First(at)].pid, pid |-> m.tid]}
                  /\ UNCHANGED mode
    /\ UNCHANGED <<listed, taken>>

\* FORK_END; pr_err() when there is no entry
ForkEnded(m) ==
    /\ m.type = "FORK_END"
    /\ LET at == ForkEntries(m.pid)
       IN  IF at = {}
             THEN mode' = "error" /\ UNCHANGED <<table, forkInfo>>
             ELSE /\ table' = [table EXCEPT ![First(at)].tid = m.tid]
                  /\ forkInfo' = forkInfo \cup {[ppid |-> table[First(at)].pid, pid |-> m.tid]}
                  /\ UNCHANGED mode
    /\ UNCHANGED <<listed, taken>>

\* read_record_mmap(), from do_main_loop() or from stop_tracing()
ReadMessage ==
    /\ mode \in {"loop", "drain"}
    /\ pipe # << >>
    /\ pipe' = Tail(pipe)
    /\ LET m == Head(pipe)
       IN  \/ RecStart(m) \/ RecEnd(m) \/ TaskStart(m) \/ TaskEnd(m)
           \/ ForkStarted(m) \/ ForkEnded(m)
    /\ UNCHANGED progVars

\* do_main_loop(): POLLHUP, nobody has the channel open
Hangup ==
    /\ mode = "loop"
    /\ \A t \in Tids : Gone(t)
    /\ mode' = "drain"
    /\ UNCHANGED <<progVars, pipe, table, listed, taken, forkInfo>>

\* sigchld_handler(), for the task uftrace started
SigChld ==
    /\ mode \in {"loop", "drain"}
    /\ \A t \in Tids : pid[t] = Root => Gone(t)
    /\ table' = MarkExited(table, Root)
    /\ UNCHANGED <<progVars, pipe, listed, taken, forkInfo, mode>>

\* Mutant: only the flags TASK_END and SIGCHLD set are looked at.
CheckedFlags(s) == s

\* The first pass of check_tid_list(): /proc/<tid>/stat
Checked(s) ==
    [k \in 1 .. Len(s) |->
        IF s[k].tid # NoTid /\ Gone(s[k].tid) THEN [s[k] EXCEPT !.exited = TRUE] ELSE s[k]]

\* Mutant: the tasks are checked before the channel is empty.
CheckUndrained ==
    /\ mode = "drain"
    /\ table' = Checked(table)
    /\ mode' = IF \A k \in 1 .. Len(table) : Checked(table)[k].exited THEN "stopped" ELSE "drain"
    /\ UNCHANGED <<progVars, pipe, listed, taken, forkInfo>>

\* stop_tracing() with nothing left to read
CheckTidList ==
    /\ mode = "drain"
    /\ pipe = << >>
    /\ table' = Checked(table)
    /\ mode' = IF \A k \in 1 .. Len(table) : Checked(table)[k].exited THEN "stopped" ELSE "drain"
    /\ UNCHANGED <<progVars, pipe, listed, taken, forkInfo>>

Recorder == ReadMessage \/ Hangup \/ CheckTidList

Stopped == mode \notin {"loop", "drain"} /\ UNCHANGED vars

Next ==
    \/ mode \in {"loop", "drain"} /\ Program /\ UNCHANGED recVars
    \/ Recorder
    \/ SigChld
    \/ Stopped

\* uftrace reads what there is and checks again and again; nothing is assumed
\* of the traced program.
Spec == Init /\ [][Next]_vars
FairSpec == Spec /\ WF_vars(Recorder)

-----------------------------------------------------------------------------

\* The variables keep their types; the entries of tid_list_head name tasks.
TypeOK ==
    /\ st \in [Tids -> {"absent", "new", "begun", "run", "forking", "forkingNew", "forked",
                        "forkedNew", "childNew", "childBegun", "child", "childBuf",
                        "ending", "gone"}]
    /\ pid \in [Tids -> Tids]
    /\ img \in [Tids -> 1 .. MaxImg]
    /\ ppid \in [Tids -> Tids \cup {Reaper}]
    /\ table \in Seq([pid : Tids, tid : Tids \cup {NoTid}, exited : BOOLEAN])
    /\ listed \in Seq([tid : Tids, img : 1 .. MaxImg])
    /\ mode \in {"loop", "drain", "stopped", "error"}

\* FORK_END always finds the entry of a FORK_START: uftrace never gives up
\* with `cannot find fork pid', however forks of several processes overlap.
ForkEndFindsEntry == mode # "error"

\* task.txt names the right parent of every forked process as long as no
\* child was orphaned before it looked for its parent.
ForkParentRight ==
    orphans = {} => \A f \in forkInfo : f.ppid = parent[f.pid]

\* The buffer a running program records into
Live(b) == st[b.tid] \in {"run", "forking"} /\ img[b.tid] = b.img

\* A buffer a running program records into is not handed to the writers:
\* flush_old_shmem() is for what an abnormal termination left behind.
LiveBufferNotTaken == \A b \in taken : ~Live(b)

\* What flush_old_shmem() takes on exec is the buffer of the old program,
\* unless the thread with this tid had ended its own before.
ExecFlushesOld == \A b \in taken : b.tid \in ended \/ ~Live(b)

\* When check_tid_list() lets uftrace stop, each task that recorded has an
\* entry and each of its buffers is in shmem_list_head for the final flush or
\* was handed over, whatever the tasks were killed in the middle of.  (Tids
\* whose thread ended are subject to LiveBufferNotTaken.)
KnownAtEnd ==
    mode = "stopped" =>
        \A b \in {c \in filled : c.tid \notin ended} :
            /\ \E k \in 1 .. Len(table) : table[k].tid = b.tid
            /\ b \in taken \/ \E k \in 1 .. Len(listed) : listed[k] = b

\* uftrace is done with the channel.
Finished == mode \notin {"loop", "drain"}

\* Forks that were announced and whose child never reported
Unfinished == {k \in 1 .. Len(table) : table[k].tid = NoTid}

\* Once the program is gone uftrace stops by itself, if no announced fork is
\* left without its child's report: stop_tracing() needs no signal for it.
StopsWhenForksComplete ==
    <>[]((\A t \in Tids : Gone(t)) /\ Unfinished = {}) => <>Finished

\* Once the program is gone uftrace stops by itself, as stop_tracing() says:
\* `child finished, read remaining data in the pipe'.
StopsWhenGone == (\A t \in Tids : Gone(t)) ~> Finished

\* However programs are replaced and tasks are killed, the old program's buffer is handed over
\* at an exec, and a stop forgets no task and no buffer (flush_old_shmem(), check_tid_list()).
NothingForgotten == TypeOK /\ ExecFlushesOld /\ KnownAtEnd

\* FORK_END finds the entry of its fork and the right parent, however forks overlap
\* (read_record_mmap()).
ForksPaired == ForkEndFindsEntry /\ ForkParentRight

=============================================================================
