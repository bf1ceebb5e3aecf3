-------------------------------- MODULE Session --------------------------------
(***************************************************************************)
(* The sessions and tasks of a data directory (utils/session.c, the task   *)
(* file part of utils/data-file.c): which program image, and which         *)
(* dlopen()ed library, an address in a record belongs to.  The traced      *)
(* processes fork, create threads, exec and load libraries; libmcount      *)
(* stamps and sends messages about it, record appends them to task.txt in  *)
(* the order they arrive, and a reader rebuilds the history from the file. *)
(*                                                                         *)
(* A session stands for its program image, and a library is loaded at one  *)
(* of a few places ("slots").  Left out: tids that are used again, kernel  *)
(* addresses, ends of processes (a parent that is gone is in TaskTable).   *)
(***************************************************************************)
EXTENDS Naturals, Sequences, FiniteSets, SequencesExt

CONSTANTS
    Tids,       \* 1 is the first process
    MaxTime,    \* bound on the clock
    MaxRecs,    \* bound on the records
    Libs, Slots,
    Reload      \* may a library be loaded again after dlclose()?

NoLib == 0
NoSess == 0
MainProgram == 0        \* the "slot" of the program itself

VARIABLES
    clock,
    task,       \* the tasks: [st, pid, ppid, msg (stamped, not yet sent), dl (dlopen() under way)]
    proc,       \* the processes: [sid, once (mcount_init_file() was run), loaded, known]
    nsid,       \* session ids given out
    file,       \* task.txt
    recs        \* the records: [tid, time, slot, sym]

vars == <<clock, task, proc, nsid, file, recs>>

Msg(type, time, tid, pid, sid, slot, lib) ==
    [type |-> type, time |-> time, tid |-> tid, pid |-> pid, sid |-> sid, slot |-> slot, lib |-> lib]
NoMsg == Msg("NONE", 0, 0, 0, NoSess, 0, NoLib)

NewTask(pid, ppid, st) == [st |-> st, pid |-> pid, ppid |-> ppid, msg |-> NoMsg, dl |-> NoMsg]
NoTask == NewTask(0, 0, "none")
NewProc(sid) == [sid |-> sid, once |-> "no", loaded |-> [s \in Slots |-> NoLib], known |-> {}]

Tick == clock < MaxTime /\ clock' = clock + 1
Now == clock + 1
MaySend(t) == task[t].st \in {"forked", "new", "live"} /\ task[t].msg = NoMsg
Fresh(c) == task[c].st = "none" /\ \A t \in Tids : task[t].st = "none" => c <= t

-----------------------------------------------------------------------------
(* The traced processes *)

\* mcount_init_file() in mcount_prepare() of the first thread of an image: send_session_msg().
\* The others wait in pthread_once().
StampSession(t) ==
    LET p == task[t].pid
    IN /\ task[t].st = "new" /\ MaySend(t) /\ proc[p].once = "no" /\ Tick
       /\ proc' = [proc EXCEPT ![p].once = "busy"]
       /\ task' = [task EXCEPT ![t].msg = Msg("SESS", Now, t, p, proc[p].sid, 0, NoLib)]
       /\ UNCHANGED <<nsid, file, recs>>

\* Mutant: the task is stamped before its session.
StampTaskEarly(t) ==
    LET p == task[t].pid
    IN /\ task[t].st = "new" /\ MaySend(t) /\ Tick
       /\ task' = [task EXCEPT ![t].msg = Msg("TASK", Now, t, p, NoSess, 0, NoLib)]
       /\ UNCHANGED <<proc, nsid, file, recs>>

\* The end of mcount_prepare(): "time should be get after session message sent".
StampTask(t) ==
    LET p == task[t].pid
    IN /\ task[t].st = "new" /\ MaySend(t) /\ proc[p].once = "done" /\ Tick
       /\ task' = [task EXCEPT ![t].msg = Msg("TASK", Now, t, p, NoSess, 0, NoLib)]
       /\ UNCHANGED <<proc, nsid, file, recs>>

\* atfork_child_handler()
StampFork(t) ==
    /\ task[t].st = "forked" /\ MaySend(t) /\ Tick
    /\ task' = [task EXCEPT ![t].msg = Msg("FORK", Now, t, task[t].ppid, NoSess, 0, NoLib)]
    /\ UNCHANGED <<proc, nsid, file, recs>>

\* The write to the pipe, and record's write_session_info(), write_task_info(), write_fork_info().
Send(t) ==
    LET m == task[t].msg
    IN /\ m # NoMsg
       /\ file' = Append(file, m)
       /\ task' = [task EXCEPT ![t].msg = NoMsg, ![t].st = IF m.type = "SESS" THEN @ ELSE "live"]
       /\ proc' = IF m.type = "SESS" THEN [proc EXCEPT ![task[t].pid].once = "done"] ELSE proc
       /\ UNCHANGED <<clock, nsid, recs>>

Fork(t, c) ==
    /\ task[t].st = "live" /\ task[t].dl = NoMsg /\ Fresh(c)
    /\ task' = [task EXCEPT ![c] = NewTask(c, task[t].pid, "forked")]
    /\ proc' = [proc EXCEPT ![c] = proc[task[t].pid]]
    /\ UNCHANGED <<clock, nsid, file, recs>>

CreateThread(t, c) ==
    /\ task[t].st = "live" /\ task[t].dl = NoMsg /\ Fresh(c)
    /\ task' = [task EXCEPT ![c] = NewTask(task[t].pid, 0, "new")]
    /\ UNCHANGED <<clock, proc, nsid, file, recs>>

\* exec() ends the other threads; the new image is a session of its own, announced by its first
\* traced function.  Assumed: every child has sent its FORK by then (a child that sends it later
\* would be taken for one of the new image), and no thread is inside dlopen().
Exec(t) ==
    LET p == task[t].pid
    IN /\ task[t].st = "live"
       /\ \A c \in Tids : task[c].pid = p => task[c].dl = NoMsg
       /\ \A c \in Tids : task[c].st = "forked" => task[c].ppid # p
       /\ nsid' = nsid + 1
       /\ task' = [c \in Tids |-> IF c = p THEN NewTask(p, task[p].ppid, "new")
                                  ELSE IF task[c].pid = p THEN [task[c] EXCEPT !.st = "dead", !.msg = NoMsg, !.dl = NoMsg]
                                  ELSE task[c]]
       /\ proc' = [proc EXCEPT ![p] = NewProc(nsid')]
       /\ UNCHANGED <<clock, file, recs>>

\* Processes that share a session would confuse the libraries they load at the same place: a slot
\* is used again only by a process that is alone in its session.
SlotFree(p, s) ==
    \/ \A q \in Tids \ {p} : proc[q].sid # proc[p].sid
    \/ \A i \in 1 .. Len(file) : file[i].type = "DLOP" /\ file[i].sid = proc[p].sid => file[i].slot # s

\* dlopen(): the time is taken first, then the library is loaded (and its constructors run).
\* Assumed: no other thread is in dlopen() meanwhile.
Dlopen(t, l, s) ==
    LET p == task[t].pid
    IN /\ task[t].st = "live" /\ task[t].dl = NoMsg /\ Tick
       /\ proc[p].loaded[s] = NoLib /\ SlotFree(p, s)
       /\ \A o \in Tids : task[o].dl = NoMsg
       /\ \A o \in Slots : proc[p].loaded[o] # l
       /\ l \in proc[p].known => Reload
       /\ proc' = [proc EXCEPT ![p].loaded[s] = l]
       /\ task' = [task EXCEPT ![t].dl = Msg("DLOP", Now, t, p, proc[p].sid, s, l)]
       /\ UNCHANGED <<nsid, file, recs>>

\* dlopen_base_callback(): a library "not found in the session maps" is reported.
DlopenEnd(t) ==
    LET p == task[t].pid
        m == task[t].dl
    IN /\ m # NoMsg /\ task[t].st = "live"
       /\ file' = IF m.lib \in proc[p].known THEN file ELSE Append(file, m)
       /\ proc' = [proc EXCEPT ![p].known = @ \cup {m.lib}]
       /\ task' = [task EXCEPT ![t].dl = NoMsg]
       /\ UNCHANGED <<clock, nsid, recs>>

\* dlclose() leaves the map in the list.
Dlclose(t, s) ==
    LET p == task[t].pid
    IN /\ task[t].st = "live" /\ proc[p].loaded[s] # NoLib /\ \A o \in Tids : task[o].pid = p => task[o].dl = NoMsg
       /\ proc' = [proc EXCEPT ![p].loaded[s] = NoLib]
       /\ UNCHANGED <<clock, task, nsid, file, recs>>

\* A traced function of the program, or of a library at slot s
Call(t, s) ==
    LET p == task[t].pid
    IN /\ task[t].st = "live" /\ Cardinality(recs) < MaxRecs /\ Tick
       /\ s # MainProgram => proc[p].loaded[s] # NoLib
       /\ recs' = recs \cup {[tid |-> t, time |-> Now, slot |-> s,
                              sym |-> IF s = MainProgram THEN proc[p].sid ELSE proc[p].loaded[s]]}
       /\ UNCHANGED <<task, proc, nsid, file>>

-----------------------------------------------------------------------------
(* The reader: a link has the session tree, the task tree and `first' *)

Forever == MaxTime + 1
EmptyLink == [sess |-> << >>, tasks |-> << >>, first |-> NoSess]

\* find_task()
HasTask(k, t) == \E i \in DOMAIN k.tasks : k.tasks[i].tid = t
TaskIndex(k, t) == CHOOSE i \in DOMAIN k.tasks : k.tasks[i].tid = t

\* create_session(): ordered by pid and start time; a task that has run exec() gets a new name.
CreateSession(k, m) ==
    LET s == [sid |-> m.sid, pid |-> m.pid, start |-> m.time, libs |-> << >>]
        before == SelectSeq(k.sess, LAMBDA o : o.pid < m.pid \/ (o.pid = m.pid /\ o.start <= m.time))
        after == SelectSeq(k.sess, LAMBDA o : ~(o.pid < m.pid \/ (o.pid = m.pid /\ o.start <= m.time)))
    IN [k EXCEPT !.sess = before \o <<s>> \o after,
                 !.first = IF @ = NoSess THEN m.sid ELSE @,
                 !.tasks = IF HasTask(k, m.tid) THEN [@ EXCEPT ![TaskIndex(k, m.tid)].comm = m.sid] ELSE @]

\* Mutant: the first session of a process is found, whatever the time.
FindSessionFirst(k, pid, time) ==
    LET mine == SelectSeq(k.sess, LAMBDA s : s.pid = pid /\ s.start <= time)
    IN IF mine = << >> THEN NoSess ELSE Head(mine).sid

\* find_session(): the last session of the process that had started
FindSession(k, pid, time) ==
    LET mine == SelectSeq(k.sess, LAMBDA s : s.pid = pid /\ s.start <= time)
    IN IF mine = << >> THEN NoSess ELSE Last(mine).sid

\* Mutant: the earlier reference stays open.
AddRefOpen(refs, sid, time) == Append(refs, [sid |-> sid, start |-> time, end |-> Forever])

\* add_session_ref()
AddRef(refs, sid, time) ==
    LET old == IF refs = << >> THEN refs ELSE [refs EXCEPT ![Len(refs)].end = time]
    IN Append(old, [sid |-> sid, start |-> time, end |-> Forever])

\* create_task(): a new session for a task that is known, or a new task, which may have the
\* session of its parent (or of its thread leader)
CreateTask(k, m) ==
    LET fork == m.type = "FORK"
        own == FindSession(k, m.pid, m.time)
        known == HasTask(k, m.pid)
        refs == IF known THEN k.tasks[TaskIndex(k, m.pid)].refs ELSE << >>
        sid == IF own = NoSess /\ refs # << >> /\ Last(refs).start < m.time THEN Last(refs).sid ELSE own
    IN IF HasTask(k, m.tid)
       THEN IF own = NoSess THEN k
            ELSE [k EXCEPT !.tasks[TaskIndex(k, m.tid)].refs = AddRef(@, own, m.time)]
       ELSE [k EXCEPT !.tasks = Append(@, [tid |-> m.tid, pid |-> IF fork THEN m.tid ELSE m.pid,
                                           ppid |-> IF fork THEN m.pid ELSE 0, comm |-> sid,
                                           up |-> IF known THEN m.pid ELSE 0,
                                           refs |-> IF sid = NoSess THEN << >> ELSE AddRef(<< >>, sid, m.time)])]

\* session_add_dlopen(): ordered by time
AddLib(libs, l) ==
    SelectSeq(libs, LAMBDA o : o.time <= l.time) \o <<l>> \o SelectSeq(libs, LAMBDA o : o.time > l.time)

\* get_session_from_sid() and session_add_dlopen()
AddDlopen(k, m) ==
    LET i == CHOOSE i \in DOMAIN k.sess : k.sess[i].sid = m.sid
    IN [k EXCEPT !.sess[i].libs = AddLib(@, [time |-> m.time, slot |-> m.slot, lib |-> m.lib])]

\* read_task_txt_file()
ReadLine(k, m) ==
    CASE m.type = "SESS" -> CreateSession(k, m)
      [] m.type \in {"TASK", "FORK"} -> CreateTask(k, m)
      [] m.type = "DLOP" -> AddDlopen(k, m)
ReadTaskFile(f) == FoldLeft(ReadLine, EmptyLink, f)

\* find_task_session(): the task's own session at that time, or that of a parent or leader
RECURSIVE FindTaskSession(_, _, _)
FindTaskSession(k, t, time) ==
    IF ~HasTask(k, t) THEN NoSess
    ELSE LET e == k.tasks[TaskIndex(k, t)]
             at == SelectSeq(e.refs, LAMBDA r : r.start <= time /\ time < r.end)
             parent == IF e.ppid # 0 THEN e.ppid ELSE e.pid
         IN IF at # << >> THEN Head(at).sid
            ELSE IF parent \in {0, t} THEN NoSess ELSE FindTaskSession(k, parent, time)

\* session_find_dlsym(): the last library there that had been loaded
FindDlsym(k, sid, r) ==
    LET s == k.sess[CHOOSE i \in DOMAIN k.sess : k.sess[i].sid = sid]
        at == SelectSeq(s.libs, LAMBDA l : l.time <= r.time /\ l.slot = r.slot)
    IN IF at = << >> THEN NoLib ELSE Last(at).lib

\* task_find_sym()
FindSym(k, r) ==
    LET sid == FindTaskSession(k, r.tid, r.time)
    IN IF sid = NoSess \/ r.slot = MainProgram THEN sid ELSE FindDlsym(k, sid, r)

-----------------------------------------------------------------------------

Init ==
    /\ clock = 0 /\ nsid = 1 /\ file = << >> /\ recs = {}
    /\ task = [t \in Tids |-> IF t = 1 THEN NewTask(1, 0, "new") ELSE NoTask]
    /\ proc = [t \in Tids |-> IF t = 1 THEN NewProc(1) ELSE NewProc(NoSess)]

Next ==
    \E t \in Tids :
        \/ StampSession(t) \/ StampTask(t) \/ StampFork(t) \/ Send(t) \/ Exec(t) \/ DlopenEnd(t)
        \/ \E c \in Tids : Fork(t, c) \/ CreateThread(t, c)
        \/ \E s \in Slots : Dlclose(t, s) \/ \E l \in Libs : Dlopen(t, l, s)
        \/ \E s \in Slots \cup {MainProgram} : Call(t, s)

Spec == Init /\ [][Next]_vars

-----------------------------------------------------------------------------
(* Properties *)

\* Every record is given the function that was called: the session of the image that ran at the
\* time of the record, and the library that was loaded there at that time (task_find_sym()).  A
\* library whose dlopen() has not returned is not in the file yet.
NamesAreRight ==
    (\A t \in Tids : task[t].dl = NoMsg)
        => LET k == ReadTaskFile(file) IN \A r \in recs : FindSym(k, r) = r.sym

\* A task is shown under the name of the program it runs, and below the process that created it,
\* once its messages are in the file (create_session(), create_task()).
TasksAreRight ==
    LET k == ReadTaskFile(file)
    IN \A t \in Tids : task[t].st = "live" =>
           /\ HasTask(k, t)
           /\ LET e == k.tasks[TaskIndex(k, t)]
              IN /\ e.comm = proc[task[t].pid].sid /\ e.pid = task[t].pid
                 /\ e.up = IF task[t].ppid # 0 THEN task[t].ppid ELSE IF t = task[t].pid THEN 0 ELSE task[t].pid

\* Records are given the right functions, and tasks the right names and parents
\* (find_task_session(), create_task()).
TraceIsNamed == NamesAreRight /\ TasksAreRight

=============================================================================
