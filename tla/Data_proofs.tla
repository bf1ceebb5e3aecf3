------------------------------ MODULE Data_proofs -------------------------------
(***************************************************************************)
(* Proofs about what a recording leaves in its data directory.             *)
(*                                                                         *)
(* TaskTable: for any tids, programs and forks and any size of the pipe,   *)
(* an exec hands over the buffer of the old program and never that of the  *)
(* new one, and a stop forgets no task and no buffer.                      *)
(*                                                                         *)
(* CpuTrace: for any number of CPUs and writers, rings of any size and     *)
(* whatever files of tracefs are missing or refuse a value, the data of    *)
(* every CPU is saved once and in order, and tracefs is left as it was.    *)
(***************************************************************************)
EXTENDS TaskTable, CpuTrace, FiniteSetTheorems, SequenceTheorems, WellFoundedInduction, TLAPS

-----------------------------------------------------------------------------
(* The tid list *)

Buffers == [tid : Tids, img : 1 .. MaxImg]
Entries == [pid : Tids, tid : Tids \cup {NoTid}, exited : BOOLEAN]
About == {"REC_START", "REC_END", "TASK_START", "TASK_END", "FORK_END"}
Msgs == [type : About, pid : Tids \cup {Reaper}, tid : Tids, img : 1 .. MaxImg]
        \cup [type : {"FORK_START"}, pid : Tids, tid : {NoTid}, img : {0}]

\* The message says that the task exists: add_tid_list() or the second half of a fork.
Reports(m, t) == m.type \in {"TASK_START", "FORK_END"} /\ m.tid = t
Starts(m, b) == m.type = "REC_START" /\ m.tid = b.tid /\ m.img = b.img

Known(t) == \E k \in 1 .. Len(table) : table[k].tid = t
Listed(b) == \E k \in 1 .. Len(listed) : listed[k] = b

\* The buffer is in shmem_list_head, or will be before message q of the pipe is read.
ListedBefore(b, q) == Listed(b) \/ \E p \in 1 .. Len(pipe) : p < q /\ Starts(pipe[p], b)

-----------------------------------------------------------------------------
(* The invariant *)

\* Types, and that no message and no entry of shmem_list_head is of a program yet to come.
Shape ==
    /\ TypeOK
    /\ pipe \in Seq(Msgs)
    /\ filled \subseteq Buffers /\ taken \subseteq Buffers /\ ended \subseteq Tids
    /\ parent \in [Tids -> Tids \cup {Reaper}] /\ forks \in Nat
    /\ mode = "stopped" => pipe = << >>
    /\ \A k \in 1 .. Len(pipe) :
        /\ pipe[k].type = "TASK_START" => pipe[k].pid \in Tids
        /\ pipe[k].type = "REC_END" => pipe[k].tid \in ended
        /\ pipe[k].type \in About => pipe[k].img <= img[pipe[k].tid]
    /\ \A k \in 1 .. Len(listed) : listed[k].img <= img[listed[k].tid]

\* The buffers of a tid are listed and announced in the order of its programs.
BufsSorted(t) ==
    /\ \A k, l \in 1 .. Len(listed) :
          k < l /\ listed[k].tid = t /\ listed[l].tid = t => listed[k].img <= listed[l].img
    /\ \A k \in 1 .. Len(listed), p \in 1 .. Len(pipe) :
          listed[k].tid = t /\ pipe[p].type = "REC_START" /\ pipe[p].tid = t => listed[k].img <= pipe[p].img
    /\ \A p, q \in 1 .. Len(pipe) :
          /\ p < q
          /\ pipe[p].type = "REC_START" /\ pipe[p].tid = t
          /\ pipe[q].type = "REC_START" /\ pipe[q].tid = t
          => pipe[p].img <= pipe[q].img

\* So do its reports come, and a program sends TASK_START before any other.
ReportsSorted(t) ==
    \A p, q \in 1 .. Len(pipe) :
        p < q /\ Reports(pipe[p], t) /\ Reports(pipe[q], t) =>
            /\ pipe[p].img <= pipe[q].img
            /\ pipe[q].type = "TASK_START" => pipe[p].img < pipe[q].img

\* The task has not reported itself in the program it runs.
Early(t) == st[t] \in {"absent", "new", "begun", "forkingNew", "forked", "forkedNew", "childNew", "childBegun"}

NotReported(t) ==
    Early(t) => \A p \in 1 .. Len(pipe) : Reports(pipe[p], t) => pipe[p].img < img[t]

\* The buffer of a program of t that is older than any that has still to report itself
Oldest(t, b) ==
    /\ b.tid = t /\ Listed(b)
    /\ Early(t) => b.img < img[t]
    /\ \A p \in 1 .. Len(pipe) : pipe[p].type = "TASK_START" /\ pipe[p].tid = t => b.img < pipe[p].img

\* There is one for a task in tid_list_head: flush_old_shmem() has something to flush.
OldListed(t) == Known(t) => \E b \in Buffers : Oldest(t, b)

\* A report comes after the buffer of its program.
ReportsStarted(t) ==
    \A q \in 1 .. Len(pipe) : Reports(pipe[q], t) => ListedBefore([tid |-> t, img |-> pipe[q].img], q)

Begun == {"begun", "run", "forking", "childBegun", "childBuf"}
Running == {"run", "forking"}

Started(t) == st[t] \in Begun => ListedBefore(Buffer(t), Len(pipe) + 1)

\* A task that records is known or will be.
Reported(t) ==
    st[t] \in Running \/ (\E b \in filled : b.tid = t) =>
        Known(t) \/ mode = "error" \/ \E p \in 1 .. Len(pipe) : Reports(pipe[p], t)

FilledKept(t) == \A b \in filled : b.tid = t => b \in taken \/ ListedBefore(b, Len(pipe) + 1)

Task(t) ==
    /\ BufsSorted(t) /\ ReportsSorted(t) /\ NotReported(t) /\ OldListed(t)
    /\ ReportsStarted(t) /\ Started(t) /\ Reported(t) /\ FilledKept(t)

\* What was taken is of an earlier program.
TakenOld == \A b \in taken : b.tid \in ended \/ b.img < img[b.tid]

TableInv == Shape /\ TakenOld /\ \A t \in Tids : t \in ended \/ Task(t)

-----------------------------------------------------------------------------
(* Lists *)

\* The least of some positions
LEMMA FirstFacts ==
    ASSUME NEW n \in Nat, NEW S \in SUBSET (1 .. n), S # {}
    PROVE  First(S) \in S /\ \A j \in S : First(S) <= j
<1> DEFINE R == OpToRel(<, Nat)
<1>1. IsWellFoundedOn(R, Nat)
  BY NatLessThanWellFounded
<1>2. S \subseteq Nat
  OBVIOUS
<1>3. \A x, y \in Nat : y < x => <<y, x>> \in R
  BY DEF OpToRel
<1> HIDE DEF R
<1>4. PICK x \in S : \A y \in S : ~(<<y, x>> \in R)
  BY <1>1, <1>2, WFMin
<1>5. \A y \in S : x <= y
  <2> TAKE y \in S
  <2>1. x \in Nat /\ y \in Nat
    BY <1>2
  <2>2. ~(y < x)
    BY <2>1, <1>3, <1>4
  <2> QED BY <2>1, <2>2
<1> QED BY <1>5 DEF First

\* A list without one of its entries
LEMMA WithoutAtFacts ==
    ASSUME NEW S, NEW s \in Seq(S), NEW k \in 1 .. Len(s), NEW r, r = WithoutAt(s, k)
    PROVE  /\ r \in Seq(S) /\ Len(r) = Len(s) - 1
           /\ \A j \in 1 .. Len(r) : r[j] = s[IF j < k THEN j ELSE j + 1]
<1>1. Len(s) \in Nat
  OBVIOUS
<1> DEFINE a == SubSeq(s, 1, k - 1)
           b == SubSeq(s, k + 1, Len(s))
<1>2. a \in Seq(S) /\ Len(a) = k - 1 /\ \A j \in 1 .. k - 1 : a[j] = s[j]
  BY SubSeqProperties, <1>1
<1>3. b \in Seq(S) /\ Len(b) = Len(s) - k /\ \A j \in 1 .. Len(s) - k : b[j] = s[k + j]
  <2>1. k + 1 \in 1 .. Len(s) + 1 /\ Len(s) \in k .. Len(s)
    BY <1>1
  <2>2. /\ b \in Seq(S)
        /\ Len(b) = (IF k + 1 <= Len(s) THEN Len(s) - (k + 1) + 1 ELSE 0)
        /\ \A j \in 1 .. Len(s) - (k + 1) + 1 : b[j] = s[k + 1 + j - 1]
    BY SubSeqProperties, <1>1, <2>1
  <2>3. Len(b) = Len(s) - k
    BY <2>2, <1>1
  <2>4. \A j \in 1 .. Len(s) - k : k + 1 + j - 1 = k + j /\ j \in 1 .. Len(s) - (k + 1) + 1
    BY <1>1
  <2> HIDE DEF b
  <2> QED BY <2>2, <2>3, <2>4
<1>4. r = a \o b
  BY DEF WithoutAt
<1> HIDE DEF a, b
<1>5. /\ r \in Seq(S) /\ Len(r) = Len(a) + Len(b)
      /\ \A j \in 1 .. Len(a) + Len(b) : r[j] = IF j <= Len(a) THEN a[j] ELSE b[j - Len(a)]
  <2>1. a \in Seq(S) /\ b \in Seq(S)
    BY <1>2, <1>3
  <2>2. /\ a \o b \in Seq(S) /\ Len(a \o b) = Len(a) + Len(b)
        /\ \A j \in 1 .. Len(a) + Len(b) : (a \o b)[j] = IF j <= Len(a) THEN a[j] ELSE b[j - Len(a)]
    BY ONLY <2>1, ConcatProperties
  <2> QED BY <2>2, <1>4
<1>6. ASSUME NEW j \in 1 .. Len(r) PROVE r[j] = s[IF j < k THEN j ELSE j + 1]
  <2>1. j \in 1 .. Len(s) - 1 /\ j \in Nat /\ k \in Nat /\ Len(r) = Len(s) - 1
    BY <1>1, <1>2, <1>3, <1>5
  <2>2. CASE j < k
    <3>1. j \in 1 .. k - 1 /\ j <= k - 1
      BY <2>1, <2>2
    <3>2. r[j] = a[j]
      BY <3>1, <2>1, <1>2, <1>3, <1>5
    <3> QED BY <3>1, <3>2, <1>2, <2>2
  <2>3. CASE ~(j < k)
    <3>1. j - (k - 1) \in 1 .. Len(s) - k /\ k + (j - (k - 1)) = j + 1 /\ ~(j <= k - 1)
      BY <2>1, <2>3, <1>1
    <3>2. r[j] = b[j - (k - 1)]
      BY <3>1, <2>1, <1>2, <1>3, <1>5
    <3> QED BY <3>1, <3>2, <1>3, <2>3
  <2> QED BY <2>2, <2>3
<1> QED BY <1>1, <1>2, <1>3, <1>5, <1>6

\* What is left in it, and in which order
Left(r, s, k) ==
    /\ \A j \in 1 .. Len(s) : j # k => \E i \in 1 .. Len(r) : r[i] = s[j]
    /\ \A i \in 1 .. Len(r) : \E j \in 1 .. Len(s) : r[i] = s[j]
    /\ \A h, i \in 1 .. Len(r) : h < i => \E j, l \in 1 .. Len(s) : j < l /\ r[h] = s[j] /\ r[i] = s[l]

LEMMA WithoutAtKeeps ==
    ASSUME NEW S, NEW s \in Seq(S), NEW k \in 1 .. Len(s), NEW r, r = WithoutAt(s, k)
    PROVE  r \in Seq(S) /\ Left(r, s, k)
<1>1. Len(s) \in Nat
  OBVIOUS
<1>2. /\ r \in Seq(S) /\ Len(r) = Len(s) - 1
      /\ \A j \in 1 .. Len(r) : r[j] = s[IF j < k THEN j ELSE j + 1]
  BY WithoutAtFacts
<1>3. ASSUME NEW j \in 1 .. Len(s), j # k PROVE \E i \in 1 .. Len(r) : r[i] = s[j]
  <2>1. CASE j < k
    <3>1. j \in 1 .. Len(r)
      BY <2>1, <1>1, <1>2
    <3> QED BY <3>1, <2>1, <1>2
  <2>2. CASE j > k
    <3>1. j - 1 \in 1 .. Len(r) /\ ~(j - 1 < k) /\ (j - 1) + 1 = j
      BY <2>2, <1>1, <1>2
    <3> QED BY <3>1, <1>2
  <2> QED BY <1>3, <2>1, <2>2
<1>4. \A i \in 1 .. Len(r) : (IF i < k THEN i ELSE i + 1) \in 1 .. Len(s)
  BY <1>1, <1>2
<1>5. \A h, i \in 1 .. Len(r) : h < i => (IF h < k THEN h ELSE h + 1) < (IF i < k THEN i ELSE i + 1)
  BY <1>1, <1>2
<1>6. \A i \in 1 .. Len(r) : \E j \in 1 .. Len(s) : r[i] = s[j]
  BY <1>2, <1>4
<1>7. \A h, i \in 1 .. Len(r) : h < i => \E j, l \in 1 .. Len(s) : j < l /\ r[h] = s[j] /\ r[i] = s[l]
  <2> TAKE h, i \in 1 .. Len(r)
  <2> HAVE h < i
  <2>1. PICK j \in 1 .. Len(s) : j = IF h < k THEN h ELSE h + 1
    BY <1>4
  <2>2. PICK l \in 1 .. Len(s) : l = IF i < k THEN i ELSE i + 1
    BY <1>4
  <2>3. j < l /\ r[h] = s[j] /\ r[i] = s[l]
    BY <2>1, <2>2, <1>2, <1>5
  <2> QED BY <2>3
<1> QED BY <1>2, <1>3, <1>6, <1>7 DEF Left

-----------------------------------------------------------------------------
(* What the tasks of the program do *)

\* A message more in the pipe
LEMMA Appended ==
    ASSUME NEW m \in Msgs, pipe \in Seq(Msgs), pipe' = Append(pipe, m)
    PROVE  /\ pipe' \in Seq(Msgs) /\ Len(pipe) \in Nat /\ Len(pipe') = Len(pipe) + 1
           /\ \A k \in 1 .. Len(pipe) : pipe'[k] = pipe[k] /\ pipe[k] \in Msgs /\ k \in 1 .. Len(pipe')
           /\ pipe'[Len(pipe) + 1] = m
           /\ \A k \in 1 .. Len(pipe') : k \in 1 .. Len(pipe) \/ k = Len(pipe) + 1
  BY AppendProperties, LenProperties, ElementOfSeq

\* The task does not go back behind what it has reported.
GoesOn(t) ==
    /\ img'[t] \in Nat /\ img[t] <= img'[t]
    /\ Early(t)' => Early(t) \/ img[t] < img'[t]
    /\ st'[t] \in Begun => st[t] \in Begun /\ img'[t] = img[t]
    /\ st'[t] \in Running => st[t] \in Running

\* What a task has sent lets it go on.
GoesOnWith(m, t) ==
    /\ Early(t)' => Early(t)
    /\ m.tid = t => m.img = img[t]
    /\ Reports(m, t) => st[t] \in Begun /\ ~Early(t)' /\ (m.type = "TASK_START" => Early(t))
    /\ st'[t] \in Begun => st[t] \in Begun \/ Starts(m, Buffer(t))
    /\ st'[t] \in Running => st[t] \in Running \/ Reports(m, t)

\* A step that leaves uftrace and the pipe alone
LEMMA QuietTask ==
    ASSUME Shape, UNCHANGED <<pipe, recVars, filled>>, NEW t \in Tids, Task(t), GoesOn(t)
    PROVE  Task(t)'
<1>1. pipe' = pipe /\ table' = table /\ listed' = listed /\ taken' = taken /\ mode' = mode /\ filled' = filled
  BY DEF recVars
<1>2. img[t] \in Nat /\ img'[t] \in Nat
  BY DEF Shape, TypeOK, GoesOn
<1>3. BufsSorted(t)' /\ ReportsSorted(t)'
  BY <1>1 DEF Task, BufsSorted, ReportsSorted, Reports
<1>4. \A k \in 1 .. Len(pipe) : Reports(pipe[k], t) => pipe[k].img \in Nat /\ pipe[k].img <= img[t]
  <2>1. \A k \in 1 .. Len(pipe) : pipe[k] \in Msgs
    BY ElementOfSeq DEF Shape
  <2>2. \A k \in 1 .. Len(pipe) : Reports(pipe[k], t) => pipe[k].type \in About /\ pipe[k].img \in 1 .. MaxImg
    BY <2>1 DEF Reports, Msgs, About
  <2> QED BY <2>2 DEF Shape, Reports
<1>5. NotReported(t)'
  <2> SUFFICES ASSUME Early(t)', NEW p \in 1 .. Len(pipe), Reports(pipe[p], t)
               PROVE  pipe[p].img < img'[t]
    BY <1>1 DEF NotReported, Reports
  <2> QED BY <1>2, <1>4 DEF GoesOn, Task, NotReported
<1>6. OldListed(t)'
  <2> SUFFICES ASSUME Known(t) PROVE \E b \in Buffers : Oldest(t, b)'
    BY <1>1 DEF OldListed, Known
  <2>1. PICK b \in Buffers : Oldest(t, b)
    BY DEF Task, OldListed
  <2>2. b.img \in Nat /\ b.img <= img[t]
    <3>1. b.img \in 1 .. MaxImg
      BY DEF Buffers
    <3> QED BY <2>1, <3>1 DEF Shape, Oldest, Listed
  <2>3. Early(t)' => b.img < img'[t]
    BY <1>2, <2>1, <2>2 DEF GoesOn, Oldest
  <2> QED BY <1>1, <2>1, <2>3 DEF Oldest, Listed
<1>7. ReportsStarted(t)'
  <2>1. \A b, q : ListedBefore(b, q)' <=> ListedBefore(b, q)
    BY <1>1 DEF ListedBefore, Listed, Starts
  <2>2. ReportsStarted(t)
    BY DEF Task
  <2> QED BY <1>1, <2>1, <2>2 DEF ReportsStarted, Reports
<1>8. Started(t)'
  BY <1>1 DEF GoesOn, Task, Started, ListedBefore, Listed, Starts, Buffer
<1>9. Reported(t)'
  BY <1>1 DEF GoesOn, Task, Reported, Reports, Known
<1>10. FilledKept(t)'
  BY <1>1 DEF Task, FilledKept, ListedBefore, Listed, Starts
<1> QED BY <1>3, <1>5, <1>6, <1>7, <1>8, <1>9, <1>10 DEF Task

\* A step in which a task of the program sends the message m
LEMMA SendTask ==
    ASSUME Shape, NEW m \in Msgs, pipe' = Append(pipe, m), UNCHANGED <<recVars, filled, img>>,
           NEW t \in Tids, Task(t), GoesOnWith(m, t)
    PROVE  Task(t)'
<1>1. /\ table' = table /\ listed' = listed /\ taken' = taken /\ mode' = mode
      /\ filled' = filled /\ img' = img
  BY DEF recVars
<1>2. /\ Len(pipe) \in Nat /\ Len(pipe') = Len(pipe) + 1
      /\ \A k \in 1 .. Len(pipe) : pipe'[k] = pipe[k] /\ pipe[k] \in Msgs /\ k \in 1 .. Len(pipe')
      /\ pipe'[Len(pipe) + 1] = m
      /\ \A k \in 1 .. Len(pipe') : k \in 1 .. Len(pipe) \/ k = Len(pipe) + 1
  BY Appended DEF Shape
<1>3. img[t] \in Nat
  BY DEF Shape, TypeOK
<1>4. \A k \in 1 .. Len(pipe) :
          pipe[k].type \in About /\ pipe[k].tid = t => pipe[k].img \in Nat /\ pipe[k].img <= img[t]
  <2>1. \A k \in 1 .. Len(pipe) : pipe[k].type \in About => pipe[k].img \in Nat
    BY <1>2 DEF Msgs, About
  <2> QED BY <2>1 DEF Shape
<1>5. \A k \in 1 .. Len(listed) : listed[k].tid = t => listed[k].img <= img[t]
  BY DEF Shape
<1>6. BufsSorted(t)'
  <2>1. /\ \A k \in 1 .. Len(listed) : listed[k].tid = t /\ m.type = "REC_START" /\ m.tid = t => listed[k].img <= m.img
        /\ \A p \in 1 .. Len(pipe) :
              pipe[p].type = "REC_START" /\ pipe[p].tid = t /\ m.tid = t => pipe[p].img <= m.img
    <3>1. "REC_START" \in About
      BY DEF About
    <3>2. m.tid = t => m.img = img[t]
      BY DEF GoesOnWith
    <3>3. \A p \in 1 .. Len(pipe) : pipe[p].type = "REC_START" /\ pipe[p].tid = t => pipe[p].img <= img[t]
      BY <3>1, <1>4
    <3> QED BY <3>2, <3>3, <1>5
  <2>2. BufsSorted(t)
    BY DEF Task
  <2>3. \A k, l \in 1 .. Len(listed') :
            k < l /\ listed'[k].tid = t /\ listed'[l].tid = t => listed'[k].img <= listed'[l].img
    BY <1>1, <2>2 DEF BufsSorted
  <2>4. \A k \in 1 .. Len(listed'), p \in 1 .. Len(pipe') :
            listed'[k].tid = t /\ pipe'[p].type = "REC_START" /\ pipe'[p].tid = t => listed'[k].img <= pipe'[p].img
    BY <1>1, <1>2, <2>1, <2>2 DEF BufsSorted
  <2>5. ASSUME NEW p \in 1 .. Len(pipe'), NEW q \in 1 .. Len(pipe'), p < q,
               pipe'[p].type = "REC_START", pipe'[p].tid = t, pipe'[q].type = "REC_START", pipe'[q].tid = t
        PROVE  pipe'[p].img <= pipe'[q].img
    <3>1. p \in 1 .. Len(pipe)
      BY <2>5, <1>2
    <3> QED BY <3>1, <2>5, <1>2, <2>1, <2>2 DEF BufsSorted
  <2> QED BY <2>3, <2>4, <2>5 DEF BufsSorted
<1>7. ReportsSorted(t)'
  <2>1. \A p \in 1 .. Len(pipe) : Reports(pipe[p], t) /\ Reports(m, t) =>
            pipe[p].img <= m.img /\ (m.type = "TASK_START" => pipe[p].img < m.img)
    BY <1>3, <1>4 DEF GoesOnWith, Reports, About, Task, NotReported
  <2>2. ASSUME NEW p \in 1 .. Len(pipe'), NEW q \in 1 .. Len(pipe'), p < q, Reports(pipe'[p], t), Reports(pipe'[q], t)
        PROVE  pipe'[p].img <= pipe'[q].img /\ (pipe'[q].type = "TASK_START" => pipe'[p].img < pipe'[q].img)
    <3>1. CASE q \in 1 .. Len(pipe)
      <4>1. p \in 1 .. Len(pipe)
        BY <3>1, <2>2, <1>2
      <4> QED BY <3>1, <4>1, <2>2, <1>2 DEF Task, ReportsSorted
    <3>2. CASE q = Len(pipe) + 1
      <4>1. p \in 1 .. Len(pipe)
        BY <3>2, <2>2, <1>2
      <4> QED BY <3>2, <4>1, <2>1, <2>2, <1>2
    <3> QED BY <3>1, <3>2, <1>2
  <2> QED BY <2>2 DEF ReportsSorted, Reports
<1>8. NotReported(t)'
  BY <1>1, <1>2 DEF GoesOnWith, Task, NotReported, Reports
<1>9. OldListed(t)'
  <2> SUFFICES ASSUME Known(t) PROVE \E b \in Buffers : Oldest(t, b)'
    BY <1>1 DEF OldListed, Known
  <2>1. PICK b \in Buffers : Oldest(t, b)
    BY DEF Task, OldListed
  <2>2. m.type = "TASK_START" /\ m.tid = t => b.img < m.img
    BY <2>1 DEF GoesOnWith, Oldest, Reports
  <2> QED BY <1>1, <1>2, <2>1, <2>2 DEF GoesOnWith, Oldest, Listed
<1>10. ReportsStarted(t)'
  <2>1. \A b : \A q \in 1 .. Len(pipe') : ListedBefore(b, q) => ListedBefore(b, q)'
    BY <1>1, <1>2 DEF ListedBefore, Listed, Starts
  <2>2. ASSUME NEW q \in 1 .. Len(pipe'), Reports(pipe'[q], t) PROVE ListedBefore([tid |-> t, img |-> pipe'[q].img], q)
    <3>1. CASE q \in 1 .. Len(pipe)
      BY <3>1, <2>2, <1>2 DEF Task, ReportsStarted
    <3>2. CASE q = Len(pipe) + 1
      BY <3>2, <2>2, <1>2 DEF GoesOnWith, Task, Started, Reports, Buffer
    <3> QED BY <3>1, <3>2, <1>2
  <2>3. \A q \in 1 .. Len(pipe') : Reports(pipe'[q], t) =>
            \E b : b = [tid |-> t, img |-> pipe'[q].img] /\ ListedBefore(b, q)'
    BY <2>1, <2>2
  <2> QED BY <2>3 DEF ReportsStarted, Reports, ListedBefore, Listed, Starts
<1>11. Started(t)'
  <2> SUFFICES ASSUME st'[t] \in Begun PROVE ListedBefore(Buffer(t), Len(pipe) + 2)'
    BY <1>1, <1>2 DEF Started, ListedBefore, Listed, Starts, Buffer
  <2>1. ListedBefore(Buffer(t), Len(pipe) + 1) \/ Starts(m, Buffer(t))
    BY DEF GoesOnWith, Task, Started
  <2> QED BY <1>1, <1>2, <2>1 DEF ListedBefore, Listed, Starts, Buffer
<1>12. Reported(t)'
  BY <1>1, <1>2 DEF GoesOnWith, Task, Reported, Reports, Known
<1>13. FilledKept(t)'
  BY <1>1, <1>2 DEF Task, FilledKept, ListedBefore, Listed, Starts
<1> QED BY <1>6, <1>7, <1>8, <1>9, <1>10, <1>11, <1>12, <1>13 DEF Task

States == {"absent", "new", "begun", "run", "forking", "forkingNew", "forked", "forkedNew",
           "childNew", "childBegun", "child", "childBuf", "ending", "gone"}

LEMMA SendInv ==
    ASSUME TableInv, NEW m \in Msgs, pipe' = Append(pipe, m), mode # "stopped",
           UNCHANGED <<recVars, filled, img, pid, parent, ppid>>, st' \in [Tids -> States], forks' \in Nat,
           ended \subseteq ended', ended' \subseteq Tids,
           m.type = "TASK_START" => m.pid \in Tids,
           m.type = "REC_END" => m.tid \in ended',
           m.type \in About => m.img = img[m.tid],
           \A t \in Tids : t \in ended' \/ GoesOnWith(m, t)
    PROVE  TableInv'
<1>1. /\ table' = table /\ listed' = listed /\ taken' = taken /\ mode' = mode
      /\ filled' = filled /\ img' = img /\ pid' = pid /\ parent' = parent /\ ppid' = ppid
  BY DEF recVars
<1>2. /\ pipe' \in Seq(Msgs) /\ Len(pipe) \in Nat /\ Len(pipe') = Len(pipe) + 1
      /\ \A k \in 1 .. Len(pipe) : pipe'[k] = pipe[k] /\ pipe[k] \in Msgs /\ k \in 1 .. Len(pipe')
      /\ pipe'[Len(pipe) + 1] = m
      /\ \A k \in 1 .. Len(pipe') : k \in 1 .. Len(pipe) \/ k = Len(pipe) + 1
  BY Appended DEF TableInv, Shape
<1>3. Shape /\ TakenOld
  BY DEF TableInv
<1>4. TypeOK'
  BY <1>1, <1>3 DEF Shape, TypeOK, States
<1>5. \A k \in 1 .. Len(pipe') :
        /\ pipe'[k].type = "TASK_START" => pipe'[k].pid \in Tids
        /\ pipe'[k].type = "REC_END" => pipe'[k].tid \in ended'
        /\ pipe'[k].type \in About => pipe'[k].img <= img'[pipe'[k].tid]
  <2> TAKE k \in 1 .. Len(pipe')
  <2>1. CASE k \in 1 .. Len(pipe)
    BY <2>1, <1>1, <1>2, <1>3 DEF Shape
  <2>2. CASE k = Len(pipe) + 1
    <3>1. m.type \in About => m.img \in Nat
      BY DEF Msgs, About
    <3> QED BY <2>2, <3>1, <1>1, <1>2
  <2> QED BY <2>1, <2>2, <1>2
<1>6. Shape'
  BY <1>1, <1>2, <1>3, <1>4, <1>5 DEF Shape
<1>7. TakenOld'
  BY <1>1, <1>3 DEF TakenOld
<1>8. ASSUME NEW t \in Tids, t \notin ended' PROVE Task(t)'
  <2>1. Task(t) /\ GoesOnWith(m, t)
    BY <1>8 DEF TableInv
  <2> QED BY <1>3, <2>1, SendTask
<1> QED BY <1>6, <1>7, <1>8 DEF TableInv

LEMMA QuietInv ==
    ASSUME TableInv, UNCHANGED <<pipe, recVars, filled, ended>>,
           st' \in [Tids -> States], pid' \in [Tids -> Tids], img' \in [Tids -> 1 .. MaxImg],
           ppid' \in [Tids -> Tids \cup {Reaper}], parent' \in [Tids -> Tids \cup {Reaper}], forks' \in Nat,
           \A t \in Tids : GoesOn(t)
    PROVE  TableInv'
<1>1. /\ pipe' = pipe /\ table' = table /\ listed' = listed /\ taken' = taken /\ mode' = mode
      /\ filled' = filled /\ ended' = ended
  BY DEF recVars
<1>2. Shape /\ TakenOld
  BY DEF TableInv
<1>3. TypeOK'
  BY <1>1, <1>2 DEF Shape, TypeOK, States
<1>4. \A t \in Tids : img[t] \in Nat /\ img'[t] \in Nat /\ img[t] <= img'[t]
  BY <1>2 DEF Shape, TypeOK, GoesOn
<1>5. ASSUME NEW k \in 1 .. Len(pipe), pipe[k].type \in About PROVE pipe[k].img <= img'[pipe[k].tid]
  <2>1. pipe[k] \in Msgs
    BY <1>2, ElementOfSeq DEF Shape
  <2>2. pipe[k].tid \in Tids /\ pipe[k].img \in Nat
    BY <2>1, <1>5 DEF Msgs, About
  <2> QED BY <2>2, <1>2, <1>4, <1>5 DEF Shape
<1>6. ASSUME NEW k \in 1 .. Len(listed) PROVE listed[k].img <= img'[listed[k].tid]
  <2>1. listed \in Seq(Buffers)
    BY <1>2 DEF Shape, TypeOK, Buffers
  <2>2. listed[k] \in Buffers
    BY <2>1, ElementOfSeq
  <2>3. listed[k].tid \in Tids /\ listed[k].img \in Nat
    BY <2>2 DEF Buffers
  <2> QED BY <2>3, <1>2, <1>4 DEF Shape
<1>7. Shape'
  BY <1>1, <1>2, <1>3, <1>5, <1>6 DEF Shape
<1>8. ASSUME NEW b \in taken, b.tid \notin ended PROVE b.img < img'[b.tid]
  <2>1. b.tid \in Tids /\ b.img \in Nat
    BY <1>2 DEF Shape, Buffers
  <2> QED BY <2>1, <1>2, <1>4, <1>8 DEF TakenOld
<1>9. TakenOld'
  BY <1>1, <1>8 DEF TakenOld
<1>10. ASSUME NEW t \in Tids, t \notin ended PROVE Task(t)'
  BY <1>2, <1>10, QuietTask DEF TableInv
<1> QED BY <1>1, <1>7, <1>9, <1>10 DEF TableInv

\* A task that records has a buffer that uftrace will be told of.
LEMMA RecordInv ==
    ASSUME TableInv, UNCHANGED recVars, NEW u \in Tids, Record(u)
    PROVE  TableInv'
<1>1. /\ pipe' = pipe /\ table' = table /\ listed' = listed /\ taken' = taken /\ mode' = mode
      /\ st' = st /\ pid' = pid /\ img' = img /\ ppid' = ppid /\ forks' = forks /\ parent' = parent
      /\ ended' = ended /\ filled' = filled \cup {Buffer(u)} /\ st[u] = "run"
  BY DEF recVars, Record
<1>2. Shape /\ TakenOld
  BY DEF TableInv
<1>3. Buffer(u) \in Buffers
  BY <1>2 DEF Shape, TypeOK, Buffer, Buffers
<1>4. Shape' /\ TakenOld'
  BY <1>1, <1>2, <1>3 DEF Shape, TypeOK, TakenOld
<1>5. ASSUME NEW t \in Tids, Task(t) PROVE Task(t)'
  <2>1. BufsSorted(t)' /\ ReportsSorted(t)' /\ NotReported(t)' /\ OldListed(t)'
    BY <1>1, <1>5 DEF Task, BufsSorted, ReportsSorted, NotReported, OldListed, Oldest, Early, Reports, Known, Listed
  <2>2. \A b, q : ListedBefore(b, q)' <=> ListedBefore(b, q)
    BY <1>1 DEF ListedBefore, Listed, Starts
  <2>3. ReportsStarted(t)'
    BY <1>1, <1>5, <2>2 DEF Task, ReportsStarted, Reports
  <2>4. Started(t)'
    BY <1>1, <1>5 DEF Task, Started, ListedBefore, Listed, Starts, Buffer
  <2>5. Reported(t)'
    BY <1>1, <1>5 DEF Task, Reported, Reports, Known, Buffer, Running
  <2>6. t = u => ListedBefore(Buffer(u), Len(pipe) + 1)
    BY <1>1, <1>5 DEF Task, Started, Begun
  <2>7. FilledKept(t)'
    BY <1>1, <1>5, <2>2, <2>6 DEF Task, FilledKept, Buffer
  <2> QED BY <2>1, <2>3, <2>4, <2>5, <2>7 DEF Task
<1> QED BY <1>1, <1>4, <1>5 DEF TableInv

\* The steps that send a message
LEMMA PrepareBufferInv ==
    ASSUME TableInv, mode # "stopped", UNCHANGED recVars, NEW u \in Tids, PrepareBuffer(u)
    PROVE  TableInv'
<1> DEFINE m == BufMsg("REC_START", u)
<1>1. TypeOK
  BY DEF TableInv, Shape
<1>2. /\ m \in Msgs /\ m.type = "REC_START" /\ m.tid = u /\ m.img = img[u] /\ m.img = img[m.tid]
      /\ Starts(m, Buffer(u))
  BY <1>1 DEF TypeOK, BufMsg, Msgs, About, Starts, Buffer
<1>3. pipe' = Append(pipe, m)
  BY DEF PrepareBuffer, Send
<1> HIDE DEF m
<1>4. st' \in [Tids -> States] /\ forks' \in Nat
  BY <1>1 DEF TypeOK, States, PrepareBuffer, TableInv, Shape
<1>5. ASSUME NEW t \in Tids PROVE GoesOnWith(m, t)
  BY <1>1, <1>2 DEF TypeOK, GoesOnWith, PrepareBuffer, Early, Begun, Running, Reports
<1>6. ended \subseteq Tids
  BY DEF TableInv, Shape
<1> QED BY <1>2, <1>3, <1>4, <1>5, <1>6, SendInv DEF PrepareBuffer

LEMMA PrepareTaskInv ==
    ASSUME TableInv, mode # "stopped", UNCHANGED recVars, NEW u \in Tids, PrepareTask(u)
    PROVE  TableInv'
<1> DEFINE m == TaskMsg("TASK_START", pid[u], u)
<1>1. TypeOK
  BY DEF TableInv, Shape
<1>2. m \in Msgs /\ m.type = "TASK_START" /\ m.tid = u /\ m.img = img[u] /\ m.img = img[m.tid] /\ m.pid \in Tids
  BY <1>1, TableAssumption DEF TypeOK, TaskMsg, Msgs, About
<1>3. pipe' = Append(pipe, m)
  BY DEF PrepareTask, Send
<1> HIDE DEF m
<1>4. st' \in [Tids -> States] /\ forks' \in Nat
  BY <1>1 DEF TypeOK, States, PrepareTask, TableInv, Shape
<1>5. ASSUME NEW t \in Tids PROVE GoesOnWith(m, t)
  BY <1>1, <1>2 DEF TypeOK, GoesOnWith, PrepareTask, Early, Begun, Running, Reports
<1>6. ended \subseteq Tids
  BY DEF TableInv, Shape
<1> QED BY <1>2, <1>3, <1>4, <1>5, <1>6, SendInv DEF PrepareTask

LEMMA ForkPrepareInv ==
    ASSUME TableInv, mode # "stopped", UNCHANGED recVars, NEW u \in Tids, ForkPrepare(u)
    PROVE  TableInv'
<1> DEFINE m == TaskMsg("FORK_START", pid[u], NoTid)
<1>1. TypeOK
  BY DEF TableInv, Shape
<1>2. m \in Msgs /\ m.type = "FORK_START" /\ m.tid = NoTid
  BY <1>1 DEF TypeOK, TaskMsg, Msgs, About
<1>3. pipe' = Append(pipe, m)
  BY DEF ForkPrepare, Send
<1> HIDE DEF m
<1>4. st' \in [Tids -> States] /\ forks' \in Nat
  <2>1. forks \in Nat /\ forks' = forks + 1
    BY DEF TableInv, Shape, ForkPrepare
  <2>2. st' \in [Tids -> States]
    BY <1>1 DEF TypeOK, States, ForkPrepare
  <2> QED BY <2>1, <2>2
<1>5. ASSUME NEW t \in Tids PROVE GoesOnWith(m, t)
  BY <1>1, <1>2, TableAssumption DEF TypeOK, GoesOnWith, ForkPrepare, Early, Begun, Running, Reports
<1>6. ended \subseteq Tids /\ "FORK_START" \notin About
  BY DEF TableInv, Shape, About
<1> QED BY <1>2, <1>3, <1>4, <1>5, <1>6, SendInv DEF ForkPrepare

LEMMA ForkEndInv ==
    ASSUME TableInv, mode # "stopped", UNCHANGED recVars, NEW u \in Tids, ForkEnd(u)
    PROVE  TableInv'
<1> DEFINE m == TaskMsg("FORK_END", ppid[u], u)
<1>1. TypeOK
  BY DEF TableInv, Shape
<1>2. m \in Msgs /\ m.type = "FORK_END" /\ m.tid = u /\ m.img = img[u] /\ m.img = img[m.tid]
  BY <1>1, TableAssumption DEF TypeOK, TaskMsg, Msgs, About
<1>3. pipe' = Append(pipe, m)
  BY DEF ForkEnd, Send
<1> HIDE DEF m
<1>4. st' \in [Tids -> States] /\ forks' \in Nat
  BY <1>1 DEF TypeOK, States, ForkEnd, TableInv, Shape
<1>5. ASSUME NEW t \in Tids PROVE GoesOnWith(m, t)
  BY <1>1, <1>2 DEF TypeOK, GoesOnWith, ForkEnd, Early, Begun, Running, Reports
<1>6. ended \subseteq Tids
  BY DEF TableInv, Shape
<1> QED BY <1>2, <1>3, <1>4, <1>5, <1>6, SendInv DEF ForkEnd

LEMMA ThreadExitInv ==
    ASSUME TableInv, mode # "stopped", UNCHANGED recVars, NEW u \in Tids, ThreadExit(u)
    PROVE  TableInv'
<1> DEFINE m == BufMsg("REC_END", u)
<1>1. TypeOK
  BY DEF TableInv, Shape
<1>2. m \in Msgs /\ m.type = "REC_END" /\ m.tid = u /\ m.img = img[u] /\ m.img = img[m.tid]
  BY <1>1 DEF TypeOK, BufMsg, Msgs, About
<1>3. pipe' = Append(pipe, m)
  BY DEF ThreadExit, Send
<1> HIDE DEF m
<1>4. st' \in [Tids -> States] /\ forks' \in Nat
  BY <1>1 DEF TypeOK, States, ThreadExit, TableInv, Shape
<1>5. ASSUME NEW t \in Tids PROVE GoesOnWith(m, t)
  BY <1>1, <1>2 DEF TypeOK, GoesOnWith, ThreadExit, Early, Begun, Running, Reports
<1>6. ended \subseteq ended' /\ ended' \subseteq Tids /\ u \in ended'
  BY DEF TableInv, Shape, ThreadExit
<1> QED BY <1>2, <1>3, <1>4, <1>5, <1>6, SendInv DEF ThreadExit

LEMMA ThreadEndInv ==
    ASSUME TableInv, mode # "stopped", UNCHANGED recVars, NEW u \in Tids, ThreadEnd(u)
    PROVE  TableInv'
<1> DEFINE m == TaskMsg("TASK_END", pid[u], u)
<1>1. TypeOK
  BY DEF TableInv, Shape
<1>2. m \in Msgs /\ m.type = "TASK_END" /\ m.tid = u /\ m.img = img[u] /\ m.img = img[m.tid]
  BY <1>1, TableAssumption DEF TypeOK, TaskMsg, Msgs, About
<1>3. pipe' = Append(pipe, m)
  BY DEF ThreadEnd, Send
<1> HIDE DEF m
<1>4. st' \in [Tids -> States] /\ forks' \in Nat
  BY <1>1 DEF TypeOK, States, ThreadEnd, TableInv, Shape
<1>5. ASSUME NEW t \in Tids PROVE GoesOnWith(m, t)
  BY <1>1, <1>2 DEF TypeOK, GoesOnWith, ThreadEnd, Early, Begun, Running, Reports
<1>6. ended \subseteq Tids
  BY DEF TableInv, Shape
<1> QED BY <1>2, <1>3, <1>4, <1>5, <1>6, SendInv DEF ThreadEnd

\* The steps that send nothing
LEMMA CloneThreadInv ==
    ASSUME TableInv, UNCHANGED recVars, NEW u \in Tids, NEW v \in Tids, CloneThread(u, v)
    PROVE  TableInv'
<1>1. TypeOK /\ forks \in Nat /\ parent \in [Tids -> Tids \cup {Reaper}]
  BY DEF TableInv, Shape
<1>2. st' \in [Tids -> States] /\ pid' \in [Tids -> Tids]
  BY <1>1 DEF TypeOK, States, CloneThread
<1>3. MaxImg \in Nat /\ \A i \in 1 .. MaxImg : i \in Nat /\ (i < MaxImg => i + 1 \in 1 .. MaxImg)
  BY TableAssumption
<1>4. img \in [Tids -> 1 .. MaxImg] /\ st' = [st EXCEPT ![v] = "new"]
  BY <1>1 DEF TypeOK, CloneThread
<1>5. img' = IF st[v] = "gone" THEN [img EXCEPT ![v] = @ + 1] ELSE img
  BY DEF CloneThread
<1>6. (st[v] = "gone" => img[v] < MaxImg) /\ st[v] \in {"absent", "gone"}
  BY DEF CloneThread
<1>7. img' \in [Tids -> 1 .. MaxImg]
  BY <1>3, <1>4, <1>5, <1>6
<1>8. ASSUME NEW t \in Tids PROVE GoesOn(t)
  <2>1. img[t] \in Nat /\ img'[t] \in Nat
    BY <1>3, <1>4, <1>7
  <2>2. CASE t = v
    <3>1. img'[t] = img[t] \/ (st[v] = "gone" /\ img'[t] = img[t] + 1)
      BY <2>2, <1>4, <1>5
    <3>2. Early(t) \/ img'[t] = img[t] + 1
      BY <2>2, <3>1, <1>4, <1>5, <1>6 DEF Early
    <3>3. st'[t] = "new"
      BY <2>2, <1>1, <1>4 DEF TypeOK
    <3> QED BY <2>1, <3>1, <3>2, <3>3 DEF GoesOn, Early, Begun, Running
  <2>3. CASE t # v
    <3>1. img'[t] = img[t] /\ st'[t] = st[t]
      BY <2>3, <1>1, <1>4, <1>5 DEF TypeOK
    <3> QED BY <2>1, <3>1 DEF GoesOn, Early, Begun, Running
  <2> QED BY <2>2, <2>3
<1>9. /\ ppid' \in [Tids -> Tids \cup {Reaper}] /\ parent' \in [Tids -> Tids \cup {Reaper}] /\ forks' \in Nat
      /\ UNCHANGED <<pipe, filled, ended>>
  BY <1>1 DEF TypeOK, CloneThread
<1> QED BY <1>2, <1>7, <1>8, <1>9, QuietInv

LEMMA ForkSystemCallInv ==
    ASSUME TableInv, UNCHANGED recVars, NEW u \in Tids, ForkSystemCall(u)
    PROVE  TableInv'
<1>1. TypeOK /\ forks \in Nat /\ parent \in [Tids -> Tids \cup {Reaper}]
  BY DEF TableInv, Shape
<1>2. /\ img \in [Tids -> 1 .. MaxImg] /\ \A t \in Tids : img[t] \in Nat
      /\ st \in [Tids -> States]
  BY <1>1 DEF TypeOK, States
<1> DEFINE back == IF st[u] = "forking" THEN "run" ELSE "new"
           born == IF st[u] = "forking" THEN "forked" ELSE "forkedNew"
<1>3. /\ UNCHANGED <<img, ppid, forks, filled, orphans, ended, pipe>>
      /\ \/ st' = [st EXCEPT ![u] = back] /\ UNCHANGED <<pid, parent>>
         \/ \E c \in Tids : /\ st[c] = "absent" /\ st' = [st EXCEPT ![u] = back, ![c] = born]
                            /\ pid' = [pid EXCEPT ![c] = c] /\ parent' = [parent EXCEPT ![c] = pid[u]]
      /\ st[u] \in {"forking", "forkingNew"}
  BY DEF ForkSystemCall
<1>4. back \in States /\ born \in States
  BY DEF States
<1>5. st' \in [Tids -> States] /\ pid' \in [Tids -> Tids] /\ parent' \in [Tids -> Tids \cup {Reaper}]
  <2> HIDE DEF back, born
  <2>1. pid \in [Tids -> Tids]
    BY <1>1 DEF TypeOK
  <2>2. CASE st' = [st EXCEPT ![u] = back] /\ UNCHANGED <<pid, parent>>
    BY <2>1, <2>2, <1>1, <1>2, <1>4
  <2>3. CASE \E c \in Tids : /\ st[c] = "absent" /\ st' = [st EXCEPT ![u] = back, ![c] = born]
                            /\ pid' = [pid EXCEPT ![c] = c] /\ parent' = [parent EXCEPT ![c] = pid[u]]
    <3>1. PICK c \in Tids : /\ st' = [st EXCEPT ![u] = back, ![c] = born]
                            /\ pid' = [pid EXCEPT ![c] = c] /\ parent' = [parent EXCEPT ![c] = pid[u]]
      BY <2>3
    <3>2. st' \in [Tids -> States]
      BY <3>1, <1>2, <1>4
    <3>3. pid' \in [Tids -> Tids] /\ parent' \in [Tids -> Tids \cup {Reaper}]
      BY <3>1, <2>1, <1>1
    <3> QED BY <3>2, <3>3
  <2> QED BY <2>2, <2>3, <1>3
<1>6. ASSUME NEW t \in Tids PROVE GoesOn(t)
  <2>1. st'[t] = st[t] \/ (t = u /\ st'[t] = back) \/ (st[t] = "absent" /\ st'[t] = born)
    BY <1>2, <1>3
  <2> QED BY <2>1, <1>2, <1>3 DEF GoesOn, Early, Begun, Running
<1>7. /\ img' \in [Tids -> 1 .. MaxImg] /\ ppid' \in [Tids -> Tids \cup {Reaper}] /\ forks' \in Nat
      /\ UNCHANGED <<pipe, filled, ended>>
  BY <1>1, <1>3 DEF TypeOK
<1> QED BY <1>5, <1>6, <1>7, QuietInv

LEMMA ForkChildInv ==
    ASSUME TableInv, UNCHANGED recVars, NEW u \in Tids, ForkChild(u)
    PROVE  TableInv'
<1>1. TypeOK /\ forks \in Nat /\ parent \in [Tids -> Tids \cup {Reaper}]
  BY DEF TableInv, Shape
<1>2. st' \in [Tids -> States]
  BY <1>1 DEF TypeOK, States, ForkChild
<1>3. ppid' \in [Tids -> Tids \cup {Reaper}]
  <2>1. ppid' = [ppid EXCEPT ![u] = parent[u]] \/ ppid' = [ppid EXCEPT ![u] = Reaper]
    BY DEF ForkChild
  <2>2. parent[u] \in Tids \cup {Reaper} /\ ppid \in [Tids -> Tids \cup {Reaper}]
    BY <1>1 DEF TypeOK
  <2> QED BY <2>1, <2>2
<1>4. UNCHANGED <<pid, img, forks, filled, parent, ended, pipe>>
  BY DEF ForkChild
<1>5. ASSUME NEW t \in Tids PROVE GoesOn(t)
  <2>1. st'[t] = st[t] \/ (st[t] = "forked" /\ st'[t] = "child") \/ (st[t] = "forkedNew" /\ st'[t] = "childNew")
    BY <1>1 DEF TypeOK, ForkChild
  <2>2. img'[t] = img[t] /\ img[t] \in Nat
    BY <1>1, <1>4 DEF TypeOK
  <2> QED BY <2>1, <2>2 DEF GoesOn, Early, Begun, Running
<1> QED BY <1>1, <1>2, <1>3, <1>4, <1>5, QuietInv DEF TypeOK

LEMMA ExecInv ==
    ASSUME TableInv, UNCHANGED recVars, NEW u \in Tids, Exec(u)
    PROVE  TableInv'
<1>1. TypeOK /\ forks \in Nat /\ parent \in [Tids -> Tids \cup {Reaper}]
  BY DEF TableInv, Shape
<1> DEFINE p == pid[u]
<1>2. p \in Tids
  BY <1>1 DEF TypeOK
<1>3. /\ img[p] < MaxImg
      /\ st' = [t \in Tids |-> IF t = p THEN "new" ELSE IF pid[t] = p /\ ~Gone(t) THEN "gone" ELSE st[t]]
      /\ img' = [img EXCEPT ![p] = @ + 1]
      /\ UNCHANGED <<pid, ppid, forks, filled, parent, orphans, ended, pipe>>
  BY DEF Exec
<1> HIDE DEF p
<1>4. MaxImg \in Nat /\ \A i \in 1 .. MaxImg : i \in Nat /\ (i < MaxImg => i + 1 \in 1 .. MaxImg)
  BY TableAssumption
<1>5. img \in [Tids -> 1 .. MaxImg] /\ st \in [Tids -> States]
  BY <1>1 DEF TypeOK, States
<1>6. st' \in [Tids -> States] /\ img' \in [Tids -> 1 .. MaxImg]
  BY <1>2, <1>3, <1>4, <1>5 DEF States
<1>7. ASSUME NEW t \in Tids PROVE GoesOn(t)
  <2>1. img[t] \in Nat /\ img'[t] = (IF t = p THEN img[t] + 1 ELSE img[t])
    BY <1>2, <1>3, <1>4, <1>5
  <2>2. IF t = p THEN st'[t] = "new" ELSE st'[t] \in {"gone", st[t]}
    BY <1>2, <1>3
  <2> QED BY <2>1, <2>2 DEF GoesOn, Early, Begun, Running
<1> QED BY <1>1, <1>3, <1>6, <1>7, QuietInv DEF TypeOK

LEMMA ProcessExitInv ==
    ASSUME TableInv, UNCHANGED recVars, NEW p \in Tids, ProcessExit(p)
    PROVE  TableInv'
<1>1. TypeOK /\ forks \in Nat /\ parent \in [Tids -> Tids \cup {Reaper}]
  BY DEF TableInv, Shape
<1>2. /\ st' = [t \in Tids |-> IF pid[t] = p /\ ~Gone(t) THEN "gone" ELSE st[t]]
      /\ UNCHANGED <<pid, img, ppid, forks, filled, parent, orphans, ended, pipe>>
  BY DEF ProcessExit
<1>3. st' \in [Tids -> States]
  BY <1>1, <1>2 DEF TypeOK, States
<1>4. ASSUME NEW t \in Tids PROVE GoesOn(t)
  <2>1. st'[t] \in {"gone", st[t]} /\ img'[t] = img[t] /\ img[t] \in Nat
    BY <1>1, <1>2 DEF TypeOK
  <2> QED BY <2>1 DEF GoesOn, Early, Begun, Running
<1> QED BY <1>1, <1>2, <1>3, <1>4, QuietInv DEF TypeOK

\* Whatever the tasks do, the invariant holds on.
LEMMA ProgramInv ==
    ASSUME TableInv, mode # "stopped", UNCHANGED recVars, Program
    PROVE  TableInv'
<1>1. PICK u \in Tids :
          \/ PrepareBuffer(u) \/ PrepareTask(u) \/ Record(u)
          \/ \E v \in ThreadTids : CloneThread(u, v)
          \/ ForkPrepare(u) \/ ForkSystemCall(u) \/ ForkChild(u) \/ ForkEnd(u)
          \/ Exec(u) \/ ThreadExit(u) \/ ThreadEnd(u) \/ ProcessExit(u)
  BY DEF Program
<1>2. \A v \in ThreadTids : v \in Tids
  BY TableAssumption
<1> QED BY <1>1, <1>2, PrepareBufferInv, PrepareTaskInv, RecordInv, CloneThreadInv, ForkPrepareInv,
           ForkSystemCallInv, ForkChildInv, ForkEndInv, ExecInv, ThreadExitInv, ThreadEndInv, ProcessExitInv

-----------------------------------------------------------------------------
(* What uftrace does *)

\* The first message taken off the pipe
LEMMA TakenOff ==
    ASSUME pipe \in Seq(Msgs), pipe # << >>, pipe' = Tail(pipe), NEW m, m = Head(pipe)
    PROVE  /\ pipe' \in Seq(Msgs) /\ Len(pipe) \in Nat /\ Len(pipe') = Len(pipe) - 1
           /\ 1 \in 1 .. Len(pipe) /\ pipe[1] = m /\ m \in Msgs
           /\ \A k \in 1 .. Len(pipe') : pipe'[k] = pipe[k + 1] /\ k + 1 \in 1 .. Len(pipe)
           /\ \A k \in 1 .. Len(pipe) : pipe[k] \in Msgs /\ (k = 1 \/ (k - 1 \in 1 .. Len(pipe') /\ pipe'[k - 1] = pipe[k]))
<1>1. Len(pipe) \in Nat /\ Len(pipe) # 0
  BY EmptySeq, LenProperties
<1>2. /\ pipe' \in Seq(Msgs) /\ Len(pipe') = Len(pipe) - 1
      /\ \A k \in 1 .. Len(pipe') : pipe'[k] = pipe[k + 1]
      /\ pipe[1] = m
  BY HeadTailProperties
<1>3. \A k \in 1 .. Len(pipe) : pipe[k] \in Msgs
  BY ElementOfSeq
<1>4. \A k \in 1 .. Len(pipe) : k # 1 => k - 1 \in 1 .. Len(pipe') /\ (k - 1) + 1 = k
  BY <1>1, <1>2
<1> QED BY <1>1, <1>2, <1>3, <1>4

\* What is in shmem_list_head now was there or was announced by m, in that order.
ListKept(m) ==
    /\ \A i \in 1 .. Len(listed') :
          (\E j \in 1 .. Len(listed) : listed'[i] = listed[j]) \/ Starts(m, listed'[i])
    /\ \A h, i \in 1 .. Len(listed') : h < i =>
          \/ \E j, l \in 1 .. Len(listed) : j < l /\ listed'[h] = listed[j] /\ listed'[i] = listed[l]
          \/ \E j \in 1 .. Len(listed) : listed'[h] = listed[j] /\ Starts(m, listed'[i])

\* Only TASK_START takes a buffer of t off the list, one of an older program, and not unwritten.
BufsKept(m, t) ==
    \A b \in Buffers : b.tid = t /\ (Listed(b) \/ Starts(m, b)) =>
        \/ Listed(b)'
        \/ m.type = "TASK_START" /\ m.tid = t /\ b.img < m.img /\ (b \in filled => b \in taken')

\* A task is in tid_list_head once it has reported itself.
KnownKept(m, t) ==
    /\ Known(t)' => Known(t) \/ Reports(m, t)
    /\ Known(t) => Known(t)'
    /\ Reports(m, t) => Known(t)' \/ mode' = "error"

\* The task keeps its part of the invariant when uftrace reads a message.
LEMMA ReadTask ==
    ASSUME Shape, pipe # << >>, pipe' = Tail(pipe), UNCHANGED progVars, NEW m, m = Head(pipe),
           mode = "error" => mode' = "error", taken \subseteq taken',
           NEW t \in Tids, Task(t), ListKept(m), BufsKept(m, t), KnownKept(m, t)
    PROVE  Task(t)'
<1>1. st' = st /\ img' = img /\ filled' = filled
  BY DEF progVars
<1>2. /\ pipe' \in Seq(Msgs) /\ Len(pipe) \in Nat /\ Len(pipe') = Len(pipe) - 1
      /\ 1 \in 1 .. Len(pipe) /\ pipe[1] = m /\ m \in Msgs
      /\ \A k \in 1 .. Len(pipe') : pipe'[k] = pipe[k + 1] /\ k + 1 \in 1 .. Len(pipe)
      /\ \A k \in 1 .. Len(pipe) : pipe[k] \in Msgs /\ (k = 1 \/ (k - 1 \in 1 .. Len(pipe') /\ pipe'[k - 1] = pipe[k]))
  BY TakenOff DEF Shape
<1>3. /\ img[t] \in Nat
      /\ \A k \in 1 .. Len(pipe) : pipe[k].type \in About => /\ pipe[k].img \in 1 .. MaxImg /\ pipe[k].img \in Nat
                                                             /\ pipe[k].tid = t => pipe[k].img <= img[t]
  <2>1. \A k \in 1 .. Len(pipe) : pipe[k].type \in About => pipe[k].img \in 1 .. MaxImg
    BY <1>2 DEF Msgs, About
  <2>2. img[t] \in Nat
    BY DEF Shape, TypeOK
  <2>3. \A k \in 1 .. Len(pipe) : pipe[k].type \in About => pipe[k].img <= img[pipe[k].tid]
    BY DEF Shape
  <2> QED BY <2>1, <2>2, <2>3
<1>4. Reports(m, t) => m.type \in About
  BY DEF Reports, About
<1>5. BufsSorted(t)'
  <2>1. BufsSorted(t)
    BY DEF Task
  <2>2. ASSUME NEW h \in 1 .. Len(listed'), NEW i \in 1 .. Len(listed'), h < i, listed'[h].tid = t, listed'[i].tid = t
        PROVE  listed'[h].img <= listed'[i].img
    <3>1. CASE \E j, l \in 1 .. Len(listed) : j < l /\ listed'[h] = listed[j] /\ listed'[i] = listed[l]
      BY <2>1, <2>2, <3>1 DEF BufsSorted
    <3>2. CASE \E j \in 1 .. Len(listed) : listed'[h] = listed[j] /\ Starts(m, listed'[i])
      BY <2>1, <2>2, <3>2, <1>2 DEF BufsSorted, Starts
    <3> QED BY <2>2, <3>1, <3>2 DEF ListKept
  <2>3. ASSUME NEW i \in 1 .. Len(listed'), NEW p \in 1 .. Len(pipe'),
               listed'[i].tid = t, pipe'[p].type = "REC_START", pipe'[p].tid = t
        PROVE  listed'[i].img <= pipe'[p].img
    <3>1. pipe'[p] = pipe[p + 1] /\ p + 1 \in 1 .. Len(pipe) /\ 1 < p + 1
      BY <1>2
    <3>2. CASE \E j \in 1 .. Len(listed) : listed'[i] = listed[j]
      BY <2>1, <2>3, <3>1, <3>2 DEF BufsSorted
    <3>3. CASE Starts(m, listed'[i])
      BY <2>1, <2>3, <3>1, <3>3, <1>2 DEF BufsSorted, Starts
    <3> QED BY <3>2, <3>3 DEF ListKept
  <2>4. ASSUME NEW p \in 1 .. Len(pipe'), NEW q \in 1 .. Len(pipe'), p < q,
               pipe'[p].type = "REC_START", pipe'[p].tid = t, pipe'[q].type = "REC_START", pipe'[q].tid = t
        PROVE  pipe'[p].img <= pipe'[q].img
    <3>1. p + 1 \in 1 .. Len(pipe) /\ q + 1 \in 1 .. Len(pipe) /\ p + 1 < q + 1
      BY <1>2, <2>4
    <3> QED BY <2>1, <2>4, <3>1, <1>2 DEF BufsSorted
  <2> QED BY <2>2, <2>3, <2>4 DEF BufsSorted
<1>6. ReportsSorted(t)'
  <2>1. ASSUME NEW p \in 1 .. Len(pipe'), NEW q \in 1 .. Len(pipe'), p < q, Reports(pipe'[p], t), Reports(pipe'[q], t)
        PROVE  pipe'[p].img <= pipe'[q].img /\ (pipe'[q].type = "TASK_START" => pipe'[p].img < pipe'[q].img)
    <3>1. p + 1 \in 1 .. Len(pipe) /\ q + 1 \in 1 .. Len(pipe) /\ p + 1 < q + 1
      BY <1>2, <2>1
    <3> QED BY <2>1, <3>1, <1>2 DEF Task, ReportsSorted
  <2> QED BY <2>1 DEF ReportsSorted, Reports
<1>7. NotReported(t)'
  BY <1>1, <1>2 DEF Task, NotReported, Reports, Early
<1>8. OldListed(t)'
  <2>1. CASE Reports(m, t)
    <3> DEFINE b == [tid |-> t, img |-> m.img]
    <3>1. m.type \in About /\ m.img \in 1 .. MaxImg /\ m.img \in Nat
      BY <2>1, <1>2, <1>3, <1>4
    <3>2. b \in Buffers /\ b.tid = t /\ b.img = m.img
      BY <3>1 DEF Buffers
    <3>3. ListedBefore(b, 1)
      BY <2>1, <1>2 DEF Task, ReportsStarted
    <3> HIDE DEF b
    <3>4. Listed(b)
      BY <3>3, <1>2 DEF ListedBefore
    <3>5. Listed(b)'
      BY <3>1, <3>2, <3>4 DEF BufsKept
    <3>6. Early(t)' => b.img < img'[t]
      BY <2>1, <3>2, <1>1, <1>2 DEF Task, NotReported, Early
    <3>7. ASSUME NEW p \in 1 .. Len(pipe'), pipe'[p].type = "TASK_START", pipe'[p].tid = t
          PROVE  b.img < pipe'[p].img
      <4>1. p + 1 \in 1 .. Len(pipe) /\ 1 < p + 1 /\ Reports(pipe[p + 1], t) /\ pipe[p + 1] = pipe'[p]
        BY <3>7, <1>2 DEF Reports
      <4> QED BY <2>1, <3>2, <3>7, <4>1, <1>2 DEF Task, ReportsSorted
    <3> QED BY <3>2, <3>5, <3>6, <3>7 DEF OldListed, Oldest
  <2>2. CASE ~Reports(m, t)
    <3> SUFFICES ASSUME Known(t) PROVE \E b \in Buffers : Oldest(t, b)'
      BY <2>2 DEF KnownKept, OldListed
    <3>1. PICK b \in Buffers : Oldest(t, b)
      BY DEF Task, OldListed
    <3>2. Listed(b)'
      BY <2>2, <3>1 DEF BufsKept, Oldest, Reports
    <3> QED BY <3>1, <3>2, <1>1, <1>2 DEF Oldest, Early
  <2> QED BY <2>1, <2>2
\* A buffer that was announced still is, unless it was flushed.
<1>9. ASSUME NEW b \in Buffers, b.tid = t, NEW q \in 1 .. Len(pipe), ListedBefore(b, q + 1)
      PROVE  ListedBefore(b, q)' \/ (m.type = "TASK_START" /\ m.tid = t /\ b.img < m.img /\ (b \in filled => b \in taken'))
  <2>1. CASE Listed(b) \/ Starts(m, b)
    BY <1>9, <2>1 DEF BufsKept, ListedBefore
  <2>2. CASE \E p \in 1 .. Len(pipe) : p < q + 1 /\ p # 1 /\ Starts(pipe[p], b)
    <3>1. PICK p \in 1 .. Len(pipe) : p < q + 1 /\ p # 1 /\ Starts(pipe[p], b)
      BY <2>2
    <3>2. p - 1 \in 1 .. Len(pipe') /\ p - 1 < q /\ pipe'[p - 1] = pipe[p]
      BY <3>1, <1>2
    <3> QED BY <3>1, <3>2 DEF ListedBefore, Starts
  <2> QED BY <1>9, <2>1, <2>2, <1>2 DEF ListedBefore
<1>10. ReportsStarted(t)'
  <2>1. ASSUME NEW q \in 1 .. Len(pipe'), Reports(pipe'[q], t)
        PROVE  \/ \E j \in 1 .. Len(listed') : listed'[j] = [tid |-> t, img |-> pipe'[q].img]
               \/ \E p \in 1 .. Len(pipe') : p < q /\ Starts(pipe'[p], [tid |-> t, img |-> pipe'[q].img])
    <3>1. pipe'[q] = pipe[q + 1] /\ q + 1 \in 1 .. Len(pipe) /\ q \in 1 .. Len(pipe) /\ 1 < q + 1
      BY <1>2
    <3>2. Reports(pipe[q + 1], t) /\ pipe[q + 1].type \in About
      BY <2>1, <3>1 DEF Reports, About
    <3>3. PICK b \in Buffers : b = [tid |-> t, img |-> pipe[q + 1].img]
      BY <3>1, <3>2, <1>3 DEF Buffers
    <3>4. ListedBefore(b, q + 1) /\ b.tid = t /\ b.img = pipe[q + 1].img
      BY <3>1, <3>2, <3>3 DEF Task, ReportsStarted
    <3>5. m.type = "TASK_START" /\ m.tid = t => m.img <= b.img /\ m.img \in Nat /\ b.img \in Nat
      BY <3>1, <3>2, <3>4, <1>2, <1>3, <1>4 DEF Task, ReportsSorted, Reports
    <3>6. ListedBefore(b, q)'
      BY <3>1, <3>4, <3>5, <1>9
    <3>7. b = [tid |-> t, img |-> pipe'[q].img]
      BY <3>1, <3>3
    <3> QED BY <3>6, <3>7 DEF ListedBefore, Listed, Starts
  <2> QED BY <2>1 DEF ReportsStarted, Reports, ListedBefore, Listed, Starts
<1>11. Started(t)'
  <2> SUFFICES ASSUME st[t] \in Begun PROVE ListedBefore(Buffer(t), Len(pipe) + 1)'
    BY <1>1 DEF Started
  <2>1. ListedBefore(Buffer(t), Len(pipe) + 1)
    BY DEF Task, Started
  <2>2. PICK b \in Buffers : b = Buffer(t) /\ b.tid = t /\ b.img = img[t]
    <3>1. img[t] \in 1 .. MaxImg
      BY DEF Shape, TypeOK
    <3>2. Buffer(t) \in Buffers /\ Buffer(t).tid = t /\ Buffer(t).img = img[t]
      BY <3>1 DEF Buffer, Buffers
    <3> QED BY <3>2
  <2>3. PICK q \in 1 .. Len(pipe) : q = Len(pipe)
    <3>1. Len(pipe) \in 1 .. Len(pipe)
      BY <1>2
    <3> QED BY <3>1
  <2>4. m.type = "TASK_START" /\ m.tid = t => m.img <= img[t] /\ m.img \in Nat
    BY <1>2, <1>3, <1>4 DEF Reports
  <2>5. ListedBefore(b, q)'
    BY <2>1, <2>2, <2>3, <2>4, <1>3, <1>9
  <2>6. Len(pipe') + 1 = q /\ Buffer(t)' = b
    BY <2>2, <2>3, <1>1, <1>2 DEF Buffer
  <2> QED BY <2>5, <2>6 DEF ListedBefore, Listed, Starts
<1>12. Reported(t)'
  <2> SUFFICES ASSUME st[t] \in Running \/ (\E b \in filled : b.tid = t), mode' # "error"
               PROVE  Known(t)' \/ \E p \in 1 .. Len(pipe') : Reports(pipe'[p], t)
    BY <1>1 DEF Reported, Reports, Known
  <2>1. Known(t) \/ \E p \in 1 .. Len(pipe) : Reports(pipe[p], t)
    BY DEF Task, Reported
  <2>2. CASE Known(t) \/ Reports(m, t)
    BY <2>2 DEF KnownKept
  <2>3. CASE \E p \in 1 .. Len(pipe) : p # 1 /\ Reports(pipe[p], t)
    BY <2>3, <1>2
  <2> QED BY <2>1, <2>2, <2>3, <1>2
<1>13. FilledKept(t)'
  <2>1. ASSUME NEW b \in filled, b.tid = t, b \notin taken' PROVE ListedBefore(b, Len(pipe) + 1)'
    <3>1. ListedBefore(b, Len(pipe) + 1) /\ b \in Buffers
      BY <2>1 DEF Task, FilledKept, Shape
    <3>2. PICK q \in 1 .. Len(pipe) : q = Len(pipe)
      <4>1. Len(pipe) \in 1 .. Len(pipe)
        BY <1>2
      <4> QED BY <4>1
    <3>3. ListedBefore(b, q)'
      BY <2>1, <3>1, <3>2, <1>9
    <3>4. Len(pipe') + 1 = q
      BY <3>2, <1>2
    <3> QED BY <3>3, <3>4 DEF ListedBefore
  <2> QED BY <2>1, <1>1 DEF FilledKept
<1> QED BY <1>5, <1>6, <1>7, <1>8, <1>10, <1>11, <1>12, <1>13 DEF Task

\* Reading a message keeps the invariant if it deals with the lists as it should.
LEMMA ReadInv ==
    ASSUME TableInv, pipe # << >>, pipe' = Tail(pipe), UNCHANGED progVars, NEW m, m = Head(pipe),
           mode \in {"loop", "drain"}, mode' \in {mode, "error"},
           table' \in Seq(Entries), listed' \in Seq(Buffers), ListKept(m),
           taken \subseteq taken', taken' \subseteq Buffers,
           \A b \in taken' : b \in taken \/ b.tid \in ended \/ b.img < img[b.tid],
           \A t \in Tids \ ended : BufsKept(m, t),
           \A t \in Tids : KnownKept(m, t)
    PROVE  TableInv'
<1>1. /\ st' = st /\ img' = img /\ filled' = filled /\ pid' = pid /\ ppid' = ppid
      /\ forks' = forks /\ parent' = parent /\ ended' = ended
  BY DEF progVars
<1>2. Shape /\ TakenOld
  BY DEF TableInv
<1>3. /\ pipe' \in Seq(Msgs) /\ Len(pipe) \in Nat /\ Len(pipe') = Len(pipe) - 1
      /\ 1 \in 1 .. Len(pipe) /\ pipe[1] = m /\ m \in Msgs
      /\ \A k \in 1 .. Len(pipe') : pipe'[k] = pipe[k + 1] /\ k + 1 \in 1 .. Len(pipe)
  BY <1>2, TakenOff DEF Shape
<1>4. TypeOK'
  BY <1>1, <1>2 DEF Shape, TypeOK, Entries, Buffers
<1>5. \A k \in 1 .. Len(pipe') :
        /\ pipe'[k].type = "TASK_START" => pipe'[k].pid \in Tids
        /\ pipe'[k].type = "REC_END" => pipe'[k].tid \in ended'
        /\ pipe'[k].type \in About => pipe'[k].img <= img'[pipe'[k].tid]
  BY <1>1, <1>2, <1>3 DEF Shape
<1>6. ASSUME NEW i \in 1 .. Len(listed') PROVE listed'[i].img <= img'[listed'[i].tid]
  <2>1. CASE \E j \in 1 .. Len(listed) : listed'[i] = listed[j]
    BY <2>1, <1>1, <1>2 DEF Shape
  <2>2. CASE Starts(m, listed'[i])
    <3>1. m.type \in About /\ m.img <= img[m.tid]
      BY <2>2, <1>2, <1>3 DEF Starts, About, Shape
    <3> QED BY <2>2, <3>1, <1>1 DEF Starts
  <2> QED BY <2>1, <2>2 DEF ListKept
<1>7. Shape'
  BY <1>1, <1>2, <1>3, <1>4, <1>5, <1>6 DEF Shape
<1>8. TakenOld'
  BY <1>1, <1>2 DEF TakenOld
<1>9. ASSUME NEW t \in Tids, t \notin ended PROVE Task(t)'
  <2>1. Task(t) /\ BufsKept(m, t) /\ KnownKept(m, t)
    BY <1>9 DEF TableInv
  <2>2. mode # "error"
    OBVIOUS
  <2> QED BY <2>1, <2>2, <1>2, ReadTask
<1> QED BY <1>1, <1>7, <1>8, <1>9 DEF TableInv

-----------------------------------------------------------------------------
(* tid_list_head *)

\* add_tid_list()
LEMMA Added ==
    ASSUME NEW s \in Seq(Entries), NEW e \in Entries, NEW r, r = <<e>> \o s
    PROVE  /\ r \in Seq(Entries)
           /\ \A t : (\E k \in 1 .. Len(r) : r[k].tid = t) <=> (e.tid = t \/ \E k \in 1 .. Len(s) : s[k].tid = t)
<1>1. Len(s) \in Nat /\ <<e>> \in Seq(Entries) /\ Len(<<e>>) = 1 /\ <<e>>[1] = e
  OBVIOUS
<1> DEFINE o == <<e>>
<1>2. o \in Seq(Entries) /\ Len(o) = 1 /\ o[1] = e /\ r = o \o s
  BY <1>1
<1> HIDE DEF o
<1>3. /\ r \in Seq(Entries) /\ Len(r) = 1 + Len(s)
      /\ \A k \in 1 .. 1 + Len(s) : r[k] = IF k <= 1 THEN o[k] ELSE s[k - 1]
  BY <1>2, ConcatProperties
<1>4. r[1] = e /\ 1 \in 1 .. Len(r)
  BY <1>1, <1>2, <1>3
<1>5. \A k \in 1 .. Len(s) : r[k + 1] = s[k] /\ k + 1 \in 1 .. Len(r)
  BY <1>1, <1>3
<1>6. \A k \in 1 .. Len(r) : k = 1 \/ (k - 1 \in 1 .. Len(s) /\ r[k] = s[k - 1])
  BY <1>1, <1>3
<1> QED BY <1>3, <1>4, <1>5, <1>6

\* A flag or a tid of an entry is set.
LEMMA EntrySet ==
    ASSUME NEW s \in Seq(Entries), NEW k \in 1 .. Len(s), NEW e \in Entries, NEW r, r = [s EXCEPT ![k] = e]
    PROVE  /\ r \in Seq(Entries) /\ Len(r) = Len(s)
           /\ \A j \in 1 .. Len(s) : r[j] = IF j = k THEN e ELSE s[j]
<1>1. s \in [1 .. Len(s) -> Entries] /\ Len(s) \in Nat
  BY SeqDef, LenProperties
<1>2. r \in [1 .. Len(s) -> Entries] /\ \A j \in 1 .. Len(s) : r[j] = IF j = k THEN e ELSE s[j]
  BY <1>1
<1>3. r \in Seq(Entries) /\ Len(r) = Len(s)
  BY <1>1, <1>2, SeqDef, LenProperties
<1> QED BY <1>2, <1>3

LEMMA MarkExitedFacts ==
    ASSUME NEW s \in Seq(Entries), NEW u, NEW r, r = MarkExited(s, u)
    PROVE  /\ r \in Seq(Entries) /\ Len(r) = Len(s)
           /\ \A k \in 1 .. Len(s) : r[k].tid = s[k].tid /\ r[k].pid = s[k].pid
<1> DEFINE at == {k \in 1 .. Len(s) : s[k].tid = u}
<1>1. Positions(s, LAMBDA e : e.tid = u) = at
  BY DEF Positions
<1>2. CASE at = {}
  BY <1>1, <1>2 DEF MarkExited
<1>3. CASE at # {}
  <2>1. PICK f \in 1 .. Len(s) : f = First(at)
    <3>1. Len(s) \in Nat /\ at \subseteq 1 .. Len(s)
      OBVIOUS
    <3>2. First(at) \in at
      <4> HIDE DEF at
      <4> QED BY <3>1, <1>3, FirstFacts
    <3> QED BY <3>1, <3>2
  <2> DEFINE e == [s[f] EXCEPT !.exited = TRUE]
  <2>2. s[f] \in Entries
    BY ElementOfSeq
  <2>3. e \in Entries /\ e.tid = s[f].tid /\ e.pid = s[f].pid
    BY <2>2 DEF Entries
  <2>4. r = [s EXCEPT ![f] = e]
    BY <1>1, <1>3, <2>1 DEF MarkExited
  <2> HIDE DEF e, at
  <2>5. /\ r \in Seq(Entries) /\ Len(r) = Len(s)
        /\ \A j \in 1 .. Len(s) : r[j] = IF j = f THEN e ELSE s[j]
    BY <2>3, <2>4, EntrySet
  <2> QED BY <2>3, <2>5
<1> QED BY <1>2, <1>3

\* The first pass of check_tid_list() sets flags only.
LEMMA CheckedFacts ==
    ASSUME NEW s \in Seq(Entries), NEW r, r = Checked(s)
    PROVE  /\ r \in Seq(Entries) /\ Len(r) = Len(s)
           /\ \A k \in 1 .. Len(s) : r[k].tid = s[k].tid /\ r[k].pid = s[k].pid
<1> DEFINE e(k) == IF s[k].tid # NoTid /\ Gone(s[k].tid) THEN [s[k] EXCEPT !.exited = TRUE] ELSE s[k]
<1>1. Len(s) \in Nat /\ r = [k \in 1 .. Len(s) |-> e(k)]
  BY DEF Checked
<1>2. ASSUME NEW k \in 1 .. Len(s) PROVE e(k) \in Entries /\ e(k).tid = s[k].tid /\ e(k).pid = s[k].pid
  <2>1. s[k] \in Entries
    BY ElementOfSeq
  <2> QED BY <2>1 DEF Entries
<1> HIDE DEF e
<1>3. r \in [1 .. Len(s) -> Entries] /\ \A k \in 1 .. Len(s) : r[k] = e(k)
  BY <1>1, <1>2
<1>4. r \in Seq(Entries) /\ Len(r) = Len(s)
  BY <1>1, <1>3, SeqDef, LenProperties
<1> QED BY <1>2, <1>3, <1>4

\* Nothing is put into shmem_list_head and nothing taken off.
LEMMA ListSame ==
    ASSUME UNCHANGED listed, NEW m, m.type # "REC_START"
    PROVE  ListKept(m) /\ \A t : BufsKept(m, t)
<1>1. listed' = listed
  OBVIOUS
<1>2. ListKept(m)
  BY <1>1 DEF ListKept
<1>3. \A b : Listed(b) => Listed(b)'
  BY <1>1 DEF Listed
<1>4. \A b : ~Starts(m, b)
  BY DEF Starts
<1> QED BY <1>2, <1>3, <1>4 DEF BufsKept

\* One entry is taken off.
LEMMA ListWithout ==
    ASSUME listed \in Seq(Buffers), NEW k \in 1 .. Len(listed), listed' = WithoutAt(listed, k),
           NEW m, m.type # "REC_START"
    PROVE  /\ listed' \in Seq(Buffers) /\ ListKept(m)
           /\ \A b : Listed(b) => Listed(b)' \/ b = listed[k]
<1>1. PICK r : r = WithoutAt(listed, k)
  OBVIOUS
<1>2. r \in Seq(Buffers) /\ Left(r, listed, k)
  BY <1>1, WithoutAtKeeps
<1>3. listed' = r
  BY <1>1
<1>4. ListKept(m)
  BY <1>2, <1>3 DEF ListKept, Left
<1>5. ASSUME NEW b, Listed(b), b # listed[k] PROVE Listed(b)'
  <2>1. PICK j \in 1 .. Len(listed) : listed[j] = b /\ j # k
    BY <1>5 DEF Listed
  <2>2. PICK i \in 1 .. Len(r) : r[i] = b
    BY <2>1, <1>2 DEF Left
  <2> QED BY <2>2, <1>3 DEF Listed
<1> QED BY <1>2, <1>3, <1>4, <1>5

\* tid_list_head has the same tids as before.
LEMMA TidsSame ==
    ASSUME Len(table') = Len(table), \A k \in 1 .. Len(table) : table'[k].tid = table[k].tid
    PROVE  \A t : Known(t)' <=> Known(t)
  BY DEF Known

-----------------------------------------------------------------------------
(* The messages *)

LEMMA RecStartInv ==
    ASSUME TableInv, pipe # << >>, pipe' = Tail(pipe), UNCHANGED progVars, mode \in {"loop", "drain"},
           NEW m, m = Head(pipe), RecStart(m)
    PROVE  TableInv'
<1>1. TypeOK /\ pipe \in Seq(Msgs) /\ taken \subseteq Buffers
  BY DEF TableInv, Shape
<1>2. m \in Msgs /\ m.type = "REC_START"
  BY <1>1, TakenOff DEF RecStart
<1>3. table \in Seq(Entries) /\ listed \in Seq(Buffers)
  BY <1>1 DEF TypeOK, Entries, Buffers
<1> DEFINE e == [tid |-> m.tid, img |-> m.img]
<1>4. e \in Buffers /\ e.tid = m.tid /\ e.img = m.img
  BY <1>2 DEF Msgs, About, Buffers
<1>5. listed' = Append(listed, e) /\ UNCHANGED <<table, taken, forkInfo, mode>>
  BY DEF RecStart
<1>6. \A b \in Buffers : Starts(m, b) => b = e
  BY <1>2 DEF Starts, Buffers
<1>7. Starts(m, e)
  BY <1>2, <1>4 DEF Starts
<1> HIDE DEF e
<1>8. /\ listed' \in Seq(Buffers) /\ Len(listed) \in Nat /\ Len(listed') = Len(listed) + 1
      /\ \A k \in 1 .. Len(listed) : listed'[k] = listed[k]
      /\ listed'[Len(listed) + 1] = e
  BY <1>3, <1>4, <1>5, AppendProperties, LenProperties
<1>9. ListKept(m)
  <2>1. ASSUME NEW h \in 1 .. Len(listed'), NEW i \in 1 .. Len(listed'), h < i
        PROVE  \/ \E j, l \in 1 .. Len(listed) : j < l /\ listed'[h] = listed[j] /\ listed'[i] = listed[l]
               \/ \E j \in 1 .. Len(listed) : listed'[h] = listed[j] /\ Starts(m, listed'[i])
    <3>1. h \in 1 .. Len(listed)
      BY <2>1, <1>8
    <3>2. CASE i \in 1 .. Len(listed)
      BY <2>1, <3>1, <3>2, <1>8
    <3>3. CASE i = Len(listed) + 1
      BY <3>1, <3>3, <1>7, <1>8
    <3> QED BY <3>2, <3>3, <1>8
  <2>2. ASSUME NEW i \in 1 .. Len(listed')
        PROVE  (\E j \in 1 .. Len(listed) : listed'[i] = listed[j]) \/ Starts(m, listed'[i])
    <3>1. i \in 1 .. Len(listed) \/ i = Len(listed) + 1
      BY <1>8
    <3> QED BY <3>1, <1>7, <1>8
  <2> QED BY <2>1, <2>2 DEF ListKept
<1>10. \A b : Listed(b) => Listed(b)'
  BY <1>8 DEF Listed
<1>11. ASSUME NEW b \in Buffers, Starts(m, b) PROVE Listed(b)'
  <2>1. b = e /\ Len(listed) + 1 \in 1 .. Len(listed')
    BY <1>6, <1>8, <1>11
  <2> QED BY <2>1, <1>8 DEF Listed
<1>12. \A t : BufsKept(m, t)
  BY <1>10, <1>11 DEF BufsKept
<1>13. \A t : KnownKept(m, t)
  BY <1>2, <1>5 DEF KnownKept, Known, Reports
<1> QED BY <1>1, <1>3, <1>5, <1>8, <1>9, <1>12, <1>13, ReadInv

LEMMA RecEndInv ==
    ASSUME TableInv, pipe # << >>, pipe' = Tail(pipe), UNCHANGED progVars, mode \in {"loop", "drain"},
           NEW m, m = Head(pipe), RecEnd(m)
    PROVE  TableInv'
<1>1. TypeOK /\ pipe \in Seq(Msgs) /\ taken \subseteq Buffers /\ filled \subseteq Buffers
  BY DEF TableInv, Shape
<1>2. m \in Msgs /\ m.type = "REC_END" /\ m.tid \in ended
  <2>1. 1 \in 1 .. Len(pipe) /\ pipe[1] = m /\ m \in Msgs
    BY <1>1, TakenOff
  <2> QED BY <2>1 DEF RecEnd, TableInv, Shape
<1>3. table \in Seq(Entries) /\ listed \in Seq(Buffers)
  BY <1>1 DEF TypeOK, Entries, Buffers
<1> DEFINE e == [tid |-> m.tid, img |-> m.img]
           at == {k \in 1 .. Len(listed) : listed[k] = e}
<1>4. /\ listed' = IF at = {} THEN listed ELSE WithoutAt(listed, First(at))
      /\ taken' = IF e \in filled THEN taken \cup {e} ELSE taken
      /\ UNCHANGED <<table, forkInfo, mode>>
  BY DEF RecEnd, RecordMmapFile, Positions
<1>5. e.tid = m.tid
  OBVIOUS
<1>6. listed' \in Seq(Buffers) /\ ListKept(m) /\ \A t \in Tids \ ended : BufsKept(m, t)
  <2>1. CASE at = {}
    BY <2>1, <1>2, <1>3, <1>4, ListSame
  <2>2. CASE at # {}
    <3>1. PICK k \in 1 .. Len(listed) : k = First(at) /\ listed[k] = e
      <4>1. Len(listed) \in Nat /\ at \subseteq 1 .. Len(listed)
        BY <1>3
      <4>2. First(at) \in at
        <5> HIDE DEF at
        <5> QED BY <2>2, <4>1, FirstFacts
      <4> QED BY <4>2
    <3>2. listed' = WithoutAt(listed, k)
      BY <2>2, <3>1, <1>4
    <3> HIDE DEF at
    <3>3. /\ listed' \in Seq(Buffers) /\ ListKept(m)
          /\ \A b : Listed(b) => Listed(b)' \/ b = listed[k]
      BY <3>2, <1>2, <1>3, ListWithout
    <3>4. \A b : ~Starts(m, b)
      BY <1>2 DEF Starts
    <3>5. ASSUME NEW t \in Tids \ ended PROVE BufsKept(m, t)
      BY <3>1, <3>3, <3>4, <1>2, <1>5 DEF BufsKept
    <3> QED BY <3>3, <3>5
  <2> QED BY <2>1, <2>2
<1> HIDE DEF e, at
<1>7. \A t : KnownKept(m, t)
  BY <1>2, <1>4 DEF KnownKept, Known, Reports
<1>8. /\ taken \subseteq taken' /\ taken' \subseteq Buffers
      /\ \A b \in taken' : b \in taken \/ b.tid \in ended \/ b.img < img[b.tid]
  BY <1>1, <1>2, <1>4, <1>5
<1> QED BY <1>3, <1>4, <1>6, <1>7, <1>8, ReadInv

\* The first listed buffer of a task that is known is of an older program than the one that
\* reports itself.
LEMMA FlushInv ==
    ASSUME TableInv, pipe # << >>, pipe' = Tail(pipe), UNCHANGED progVars, mode \in {"loop", "drain"},
           NEW m, m = Head(pipe), m.type = "TASK_START", Known(m.tid), FlushOldShmem(m.tid),
           UNCHANGED <<table, forkInfo, mode>>
    PROVE  TableInv'
<1>1. TypeOK /\ Shape /\ pipe \in Seq(Msgs) /\ taken \subseteq Buffers /\ filled \subseteq Buffers
  BY DEF TableInv, Shape
<1>2. 1 \in 1 .. Len(pipe) /\ pipe[1] = m /\ m \in Msgs
  BY <1>1, TakenOff
<1>3. table \in Seq(Entries) /\ listed \in Seq(Buffers)
  BY <1>1 DEF TypeOK, Entries, Buffers
<1>4. m.tid \in Tids /\ m.img \in Nat /\ m.img <= img[m.tid]
  BY <1>1, <1>2 DEF Shape, Msgs, About
<1> DEFINE at == {k \in 1 .. Len(listed) : listed[k].tid = m.tid}
<1>5. IF at = {} THEN UNCHANGED <<listed, taken>>
      ELSE listed' = WithoutAt(listed, First(at)) /\ RecordMmapFile(listed[First(at)])
  BY DEF FlushOldShmem, Positions
<1>6. /\ listed' \in Seq(Buffers) /\ ListKept(m) /\ \A t \in Tids \ ended : BufsKept(m, t)
      /\ taken \subseteq taken' /\ taken' \subseteq Buffers
      /\ \A b \in taken' : b \in taken \/ b.tid \in ended \/ b.img < img[b.tid]
  <2>1. CASE at = {}
    BY <2>1, <1>1, <1>2, <1>3, <1>5, ListSame
  <2>2. CASE at # {}
    <3>1. PICK k \in 1 .. Len(listed) : k = First(at) /\ listed[k].tid = m.tid
      <4>1. Len(listed) \in Nat /\ at \subseteq 1 .. Len(listed)
        BY <1>3
      <4>2. First(at) \in at
        <5> HIDE DEF at
        <5> QED BY <2>2, <4>1, FirstFacts
      <4> QED BY <4>2
    <3>2. \A j \in 1 .. Len(listed) : listed[j].tid = m.tid => k <= j
      <4>1. Len(listed) \in Nat /\ at \subseteq 1 .. Len(listed)
        BY <1>3
      <4>2. \A j \in at : First(at) <= j
        <5> HIDE DEF at
        <5> QED BY <2>2, <4>1, FirstFacts
      <4> QED BY <3>1, <4>2
    <3>3. /\ listed' = WithoutAt(listed, k)
          /\ taken' = IF listed[k] \in filled THEN taken \cup {listed[k]} ELSE taken
      BY <2>2, <3>1, <1>5 DEF RecordMmapFile
    <3> HIDE DEF at
    <3>4. /\ listed' \in Seq(Buffers) /\ ListKept(m)
          /\ \A b : Listed(b) => Listed(b)' \/ b = listed[k]
      BY <3>3, <1>3, ListWithout
    <3>5. \A b : ~Starts(m, b)
      BY DEF Starts
    <3>6. listed[k] \in Buffers /\ listed[k].img \in Nat
      <4>1. listed[k] \in Buffers
        BY <1>3, ElementOfSeq
      <4> QED BY <4>1 DEF Buffers
    <3>7. m.tid \notin ended => listed[k].img < m.img
      <4> SUFFICES ASSUME Task(m.tid) PROVE listed[k].img < m.img
        BY <1>4 DEF TableInv
      <4>1. PICK b \in Buffers : Oldest(m.tid, b)
        BY DEF Task, OldListed
      <4>2. b.img < m.img /\ b.img \in Nat
        BY <4>1, <1>2 DEF Oldest, Buffers
      <4>3. PICK j \in 1 .. Len(listed) : listed[j] = b
        BY <4>1 DEF Oldest, Listed
      <4>4. k <= j /\ listed[j].tid = m.tid
        BY <3>2, <4>1, <4>3 DEF Oldest
      <4>5. listed[k].img <= listed[j].img
        <5>1. CASE k < j
          BY <3>1, <4>4, <5>1 DEF Task, BufsSorted
        <5>2. CASE k = j
          BY <3>6, <5>2
        <5> QED BY <4>4, <5>1, <5>2
      <4> QED BY <3>6, <4>2, <4>3, <4>5, <1>4
    <3>8. ASSUME NEW t \in Tids \ ended PROVE BufsKept(m, t)
      BY <3>1, <3>3, <3>4, <3>5, <3>7 DEF BufsKept
    <3>9. listed[k].tid \in ended \/ listed[k].img < img[listed[k].tid]
      <4>1. img[m.tid] \in Nat
        BY <1>1, <1>4 DEF TypeOK
      <4> QED BY <3>1, <3>6, <3>7, <4>1, <1>4
    <3> QED BY <3>3, <3>4, <3>6, <3>8, <3>9, <1>1
  <2> QED BY <2>1, <2>2
<1>7. \A t : KnownKept(m, t)
  BY DEF KnownKept, Known, Reports
<1> QED BY <1>3, <1>6, <1>7, ReadInv

LEMMA TaskStartInv ==
    ASSUME TableInv, pipe # << >>, pipe' = Tail(pipe), UNCHANGED progVars, mode \in {"loop", "drain"},
           NEW m, m = Head(pipe), TaskStart(m)
    PROVE  TableInv'
<1>1. TypeOK /\ Shape /\ pipe \in Seq(Msgs) /\ taken \subseteq Buffers
  BY DEF TableInv, Shape
<1>2. 1 \in 1 .. Len(pipe) /\ pipe[1] = m /\ m \in Msgs /\ m.type = "TASK_START"
  BY <1>1, TakenOff DEF TaskStart
<1>3. table \in Seq(Entries) /\ listed \in Seq(Buffers)
  BY <1>1 DEF TypeOK, Entries, Buffers
<1>4. CASE Known(m.tid)
  <2>1. FlushOldShmem(m.tid) /\ UNCHANGED <<table, forkInfo, mode>>
    BY <1>4 DEF TaskStart, Known
  <2> QED BY <2>1, <1>2, <1>4, FlushInv
<1>5. CASE ~Known(m.tid)
  <2> DEFINE e == Entry(m.pid, m.tid)
  <2>1. e \in Entries /\ e.tid = m.tid
    <3>1. m.pid \in Tids /\ m.tid \in Tids
      BY <1>1, <1>2 DEF Shape, Msgs, About
    <3> QED BY <3>1 DEF Entry, Entries
  <2>2. table' = <<e>> \o table /\ UNCHANGED <<listed, taken, forkInfo, mode>>
    BY <1>5 DEF TaskStart, Known
  <2> HIDE DEF e
  <2>3. /\ table' \in Seq(Entries)
        /\ \A t : (\E k \in 1 .. Len(table') : table'[k].tid = t) <=> (e.tid = t \/ \E k \in 1 .. Len(table) : table[k].tid = t)
    <3>1. PICK r : r = <<e>> \o table
      OBVIOUS
    <3>2. /\ r \in Seq(Entries)
          /\ \A t : (\E k \in 1 .. Len(r) : r[k].tid = t) <=> (e.tid = t \/ \E k \in 1 .. Len(table) : table[k].tid = t)
      BY <3>1, <2>1, <1>3, Added
    <3> QED BY <3>1, <3>2, <2>2
  <2>4. \A t : KnownKept(m, t)
    BY <2>1, <2>3, <1>2 DEF KnownKept, Known, Reports
  <2>5. ListKept(m) /\ \A t : BufsKept(m, t)
    BY <2>2, <1>2, ListSame
  <2> QED BY <2>2, <2>3, <2>4, <2>5, <1>1, <1>3, ReadInv
<1> QED BY <1>4, <1>5

LEMMA TaskEndInv ==
    ASSUME TableInv, pipe # << >>, pipe' = Tail(pipe), UNCHANGED progVars, mode \in {"loop", "drain"},
           NEW m, m = Head(pipe), TaskEnd(m)
    PROVE  TableInv'
<1>1. TypeOK /\ taken \subseteq Buffers
  BY DEF TableInv, Shape
<1>2. table \in Seq(Entries) /\ listed \in Seq(Buffers)
  BY <1>1 DEF TypeOK, Entries, Buffers
<1>3. m.type = "TASK_END" /\ UNCHANGED <<listed, taken, forkInfo, mode>>
  BY DEF TaskEnd
<1>4. table' \in Seq(Entries) /\ \A t : Known(t)' <=> Known(t)
  <2>1. PICK r : r = MarkExited(table, m.tid)
    OBVIOUS
  <2>2. r \in Seq(Entries) /\ Len(r) = Len(table) /\ \A k \in 1 .. Len(table) : r[k].tid = table[k].tid
    BY <2>1, <1>2, MarkExitedFacts
  <2>3. table' = r
    BY <2>1 DEF TaskEnd
  <2> QED BY <2>2, <2>3, TidsSame
<1>5. \A t : KnownKept(m, t)
  BY <1>3, <1>4 DEF KnownKept, Reports
<1>6. ListKept(m) /\ \A t : BufsKept(m, t)
  BY <1>3, ListSame
<1> QED BY <1>1, <1>2, <1>3, <1>4, <1>5, <1>6, ReadInv

LEMMA ForkStartedInv ==
    ASSUME TableInv, pipe # << >>, pipe' = Tail(pipe), UNCHANGED progVars, mode \in {"loop", "drain"},
           NEW m, m = Head(pipe), ForkStarted(m)
    PROVE  TableInv'
<1>1. TypeOK /\ pipe \in Seq(Msgs) /\ taken \subseteq Buffers
  BY DEF TableInv, Shape
<1>2. m \in Msgs /\ m.type = "FORK_START"
  BY <1>1, TakenOff DEF ForkStarted
<1>3. table \in Seq(Entries) /\ listed \in Seq(Buffers)
  BY <1>1 DEF TypeOK, Entries, Buffers
<1> DEFINE e == Entry(m.pid, NoTid)
<1>4. e \in Entries /\ e.tid = NoTid
  BY <1>2 DEF Entry, Entries, Msgs, About
<1>5. table' = <<e>> \o table /\ UNCHANGED <<listed, taken, forkInfo, mode>>
  BY DEF ForkStarted
<1> HIDE DEF e
<1>6. /\ table' \in Seq(Entries)
      /\ \A t : (\E k \in 1 .. Len(table') : table'[k].tid = t) <=> (e.tid = t \/ \E k \in 1 .. Len(table) : table[k].tid = t)
  <2>1. PICK r : r = <<e>> \o table
    OBVIOUS
  <2>2. /\ r \in Seq(Entries)
        /\ \A t : (\E k \in 1 .. Len(r) : r[k].tid = t) <=> (e.tid = t \/ \E k \in 1 .. Len(table) : table[k].tid = t)
    BY <2>1, <1>3, <1>4, Added
  <2> QED BY <2>1, <2>2, <1>5
<1>7. ASSUME NEW t \in Tids PROVE KnownKept(m, t)
  BY <1>2, <1>4, <1>6, TableAssumption DEF KnownKept, Known, Reports
<1>8. ListKept(m) /\ \A t : BufsKept(m, t)
  BY <1>2, <1>5, ListSame
<1> QED BY <1>1, <1>3, <1>5, <1>6, <1>7, <1>8, ReadInv

\* The entry that FORK_END completes had no tid.
LEMMA ForkEndedInv ==
    ASSUME TableInv, pipe # << >>, pipe' = Tail(pipe), UNCHANGED progVars, mode \in {"loop", "drain"},
           NEW m, m = Head(pipe), ForkEnded(m)
    PROVE  TableInv'
<1>1. TypeOK /\ pipe \in Seq(Msgs) /\ taken \subseteq Buffers
  BY DEF TableInv, Shape
<1>2. m \in Msgs /\ m.type = "FORK_END"
  BY <1>1, TakenOff DEF ForkEnded
<1>3. table \in Seq(Entries) /\ listed \in Seq(Buffers)
  BY <1>1 DEF TypeOK, Entries, Buffers
<1> DEFINE at == ForkEntries(m.pid)
<1>4. at \subseteq 1 .. Len(table) /\ \A k \in at : table[k].tid = NoTid
  BY DEF ForkEntries, Positions
<1>5. /\ UNCHANGED <<listed, taken>>
      /\ IF at = {} THEN mode' = "error" /\ UNCHANGED table
         ELSE table' = [table EXCEPT ![First(at)].tid = m.tid] /\ UNCHANGED mode
  BY DEF ForkEnded
<1> HIDE DEF at
<1>6. /\ table' \in Seq(Entries) /\ mode' \in {mode, "error"}
      /\ \A t \in Tids : KnownKept(m, t)
  <2>1. CASE at = {}
    BY <2>1, <1>3, <1>5 DEF KnownKept, Known
  <2>2. CASE at # {}
    <3>1. PICK k \in 1 .. Len(table) : k = First(at) /\ table[k].tid = NoTid
      <4>1. Len(table) \in Nat
        BY <1>3
      <4>2. First(at) \in at
        BY <2>2, <4>1, <1>4, FirstFacts
      <4> QED BY <4>2, <1>4
    <3> DEFINE e == [table[k] EXCEPT !.tid = m.tid]
    <3>2. e \in Entries /\ e.tid = m.tid
      <4>1. table[k] \in Entries
        BY <1>3, ElementOfSeq
      <4>2. m.tid \in Tids
        BY <1>2 DEF Msgs, About
      <4> QED BY <4>1, <4>2 DEF Entries
    <3>3. table' = [table EXCEPT ![k] = e] /\ mode' = mode
      BY <2>2, <3>1, <1>5
    <3> HIDE DEF e
    <3>4. PICK r : r = [table EXCEPT ![k] = e]
      OBVIOUS
    <3>5. /\ r \in Seq(Entries) /\ Len(r) = Len(table)
          /\ \A j \in 1 .. Len(table) : r[j] = IF j = k THEN e ELSE table[j]
      BY <3>2, <3>4, <1>3, EntrySet
    <3>6. table' = r
      BY <3>3, <3>4
    <3>7. ASSUME NEW t \in Tids PROVE KnownKept(m, t)
      <4>1. t # NoTid
        BY TableAssumption
      <4>2. Known(t) => Known(t)'
        BY <4>1, <3>1, <3>5, <3>6 DEF Known
      <4>3. Known(t)' => Known(t) \/ Reports(m, t)
        BY <3>2, <3>5, <3>6, <1>2 DEF Known, Reports
      <4>4. Reports(m, t) => Known(t)'
        BY <3>2, <3>5, <3>6 DEF Known, Reports
      <4> QED BY <4>2, <4>3, <4>4 DEF KnownKept
    <3> QED BY <3>3, <3>5, <3>6, <3>7
  <2> QED BY <2>1, <2>2
<1>7. ListKept(m) /\ \A t : BufsKept(m, t)
  BY <1>2, <1>5, ListSame
<1> QED BY <1>1, <1>3, <1>5, <1>6, <1>7, ReadInv

LEMMA ReadMessageInv ==
    ASSUME TableInv, ReadMessage
    PROVE  TableInv'
<1>1. /\ mode \in {"loop", "drain"} /\ pipe # << >> /\ pipe' = Tail(pipe) /\ UNCHANGED progVars
      /\ \E m : /\ m = Head(pipe)
                /\ RecStart(m) \/ RecEnd(m) \/ TaskStart(m) \/ TaskEnd(m) \/ ForkStarted(m) \/ ForkEnded(m)
  BY DEF ReadMessage
<1> QED BY <1>1, RecStartInv, RecEndInv, TaskStartInv, TaskEndInv, ForkStartedInv, ForkEndedInv

\* uftrace looks after the entries of tid_list_head and reads nothing.
LEMMA TableOnlyInv ==
    ASSUME TableInv, UNCHANGED <<progVars, pipe, listed, taken>>, mode # "error",
           mode' \in {"loop", "drain", "stopped"}, mode' = "stopped" => pipe = << >>,
           table' \in Seq(Entries), \A t : Known(t)' <=> Known(t)
    PROVE  TableInv'
<1>1. /\ st' = st /\ img' = img /\ filled' = filled /\ pid' = pid /\ ppid' = ppid
      /\ forks' = forks /\ parent' = parent /\ ended' = ended
      /\ pipe' = pipe /\ listed' = listed /\ taken' = taken
  BY DEF progVars
<1>2. Shape' /\ TakenOld'
  BY <1>1 DEF TableInv, Shape, TypeOK, TakenOld, Entries
<1>3. \A b, q : ListedBefore(b, q)' <=> ListedBefore(b, q)
  BY <1>1 DEF ListedBefore, Listed, Starts
<1>4. ASSUME NEW t \in Tids, Task(t) PROVE Task(t)'
  <2>1. BufsSorted(t)' /\ ReportsSorted(t)' /\ NotReported(t)'
    BY <1>1, <1>4 DEF Task, BufsSorted, ReportsSorted, NotReported, Early, Reports
  <2>2. OldListed(t)'
    BY <1>1, <1>4 DEF Task, OldListed, Oldest, Early, Listed
  <2>3. ReportsStarted(t)'
    BY <1>1, <1>3, <1>4 DEF Task, ReportsStarted, Reports
  <2>4. Started(t)'
    BY <1>1, <1>4 DEF Task, Started, ListedBefore, Listed, Starts, Buffer
  <2>5. Reported(t)'
    BY <1>1, <1>4 DEF Task, Reported, Reports
  <2>6. FilledKept(t)'
    BY <1>1, <1>3, <1>4 DEF Task, FilledKept
  <2> QED BY <2>1, <2>2, <2>3, <2>4, <2>5, <2>6 DEF Task
<1> QED BY <1>1, <1>2, <1>4 DEF TableInv

LEMMA SigChldInv ==
    ASSUME TableInv, SigChld
    PROVE  TableInv'
<1>1. TypeOK /\ (mode = "stopped" => pipe = << >>)
  BY DEF TableInv, Shape
<1>2. table \in Seq(Entries)
  BY <1>1 DEF TypeOK, Entries
<1>3. mode \in {"loop", "drain"} /\ UNCHANGED <<progVars, pipe, listed, taken, mode>>
  BY DEF SigChld
<1>4. PICK r : r = MarkExited(table, Root)
  OBVIOUS
<1>5. r \in Seq(Entries) /\ Len(r) = Len(table) /\ \A k \in 1 .. Len(table) : r[k].tid = table[k].tid
  BY <1>2, <1>4, MarkExitedFacts
<1>6. table' = r
  BY <1>4 DEF SigChld
<1>7. \A t : Known(t)' <=> Known(t)
  BY <1>5, <1>6, TidsSame
<1> QED BY <1>3, <1>5, <1>6, <1>7, TableOnlyInv

LEMMA HangupInv ==
    ASSUME TableInv, Hangup
    PROVE  TableInv'
<1>1. TypeOK
  BY DEF TableInv, Shape
<1>2. table \in Seq(Entries)
  BY <1>1 DEF TypeOK, Entries
<1>3. mode = "loop" /\ mode' = "drain" /\ UNCHANGED <<progVars, pipe, table, listed, taken>>
  BY DEF Hangup
<1>4. \A t : Known(t)' <=> Known(t)
  BY <1>3 DEF Known
<1> QED BY <1>2, <1>3, <1>4, TableOnlyInv

LEMMA CheckTidListInv ==
    ASSUME TableInv, CheckTidList
    PROVE  TableInv'
<1>1. TypeOK
  BY DEF TableInv, Shape
<1>2. table \in Seq(Entries)
  BY <1>1 DEF TypeOK, Entries
<1>3. /\ mode = "drain" /\ pipe = << >> /\ mode' \in {"stopped", "drain"}
      /\ UNCHANGED <<progVars, pipe, listed, taken>>
  BY DEF CheckTidList
<1>4. PICK r : r = Checked(table)
  OBVIOUS
<1>5. r \in Seq(Entries) /\ Len(r) = Len(table) /\ \A k \in 1 .. Len(table) : r[k].tid = table[k].tid
  BY <1>2, <1>4, CheckedFacts
<1>6. table' = r
  BY <1>4 DEF CheckTidList
<1>7. \A t : Known(t)' <=> Known(t)
  BY <1>5, <1>6, TidsSame
<1> QED BY <1>3, <1>5, <1>6, <1>7, TableOnlyInv

\* When nothing changes, nothing of the invariant does.
LEMMA StillInv ==
    ASSUME TableInv, UNCHANGED vars
    PROVE  TableInv'
<1> USE DEF vars, progVars, recVars
<1>1. Shape' /\ TakenOld'
  BY DEF TableInv, Shape, TypeOK, TakenOld
<1>2. \A b, q : ListedBefore(b, q)' <=> ListedBefore(b, q)
  BY DEF ListedBefore, Listed, Starts
<1>3. ASSUME NEW t \in Tids, Task(t) PROVE Task(t)'
  <2>1. BufsSorted(t)' /\ ReportsSorted(t)' /\ NotReported(t)'
    BY <1>3 DEF Task, BufsSorted, ReportsSorted, NotReported, Early, Reports
  <2>2. OldListed(t)'
    BY <1>3 DEF Task, OldListed, Oldest, Early, Listed, Known
  <2>3. ReportsStarted(t)'
    BY <1>2, <1>3 DEF Task, ReportsStarted, Reports
  <2>4. Started(t)'
    BY <1>3 DEF Task, Started, ListedBefore, Listed, Starts, Buffer
  <2>5. Reported(t)'
    BY <1>3 DEF Task, Reported, Reports, Known
  <2>6. FilledKept(t)'
    BY <1>2, <1>3 DEF Task, FilledKept
  <2> QED BY <2>1, <2>2, <2>3, <2>4, <2>5, <2>6 DEF Task
<1> QED BY <1>1, <1>3 DEF TableInv

LEMMA InitInv == Init => TableInv
<1> SUFFICES ASSUME Init PROVE TableInv
  OBVIOUS
<1>1. MaxImg \in Nat /\ 1 \in 1 .. MaxImg /\ Root \in Tids
  BY TableAssumption
<1>2. /\ pipe = << >> /\ table = << >> /\ listed = << >> /\ Len(<< >>) = 0
      /\ filled = {} /\ taken = {} /\ mode = "loop" /\ 1 .. 0 = {}
  BY DEF Init
<1>3. \A t \in Tids : st[t] \in {"new", "absent"}
  BY DEF Init
<1>4. TypeOK
  <2>1. << >> \in Seq(Entries) /\ << >> \in Seq(Buffers)
    BY EmptySeq
  <2> QED BY <1>1, <1>2, <2>1 DEF TypeOK, Init, Entries, Buffers
<1>5. Shape
  <2>1. pipe \in Seq(Msgs)
    BY <1>2, EmptySeq
  <2>2. ended = {} /\ forks = 0 /\ parent = [t \in Tids |-> Reaper]
    BY DEF Init
  <2>3. parent \in [Tids -> Tids \cup {Reaper}]
    BY <2>2
  <2> QED BY <1>2, <1>4, <2>1, <2>2, <2>3 DEF Shape
<1>6. TakenOld
  BY <1>2 DEF TakenOld
<1>7. ASSUME NEW t \in Tids PROVE Task(t)
  <2>1. BufsSorted(t) /\ ReportsSorted(t) /\ NotReported(t) /\ OldListed(t) /\ ReportsStarted(t)
    BY <1>2 DEF BufsSorted, ReportsSorted, NotReported, OldListed, ReportsStarted, Known
  <2>2. Started(t) /\ Reported(t) /\ FilledKept(t)
    BY <1>2, <1>3 DEF Started, Reported, FilledKept, Begun, Running
  <2> QED BY <2>1, <2>2 DEF Task
<1> QED BY <1>5, <1>6, <1>7 DEF TableInv

\* Every step keeps the invariant.
LEMMA NextInv == TableInv /\ [Next]_vars => TableInv'
<1> SUFFICES ASSUME TableInv, [Next]_vars PROVE TableInv'
  OBVIOUS
<1>1. CASE mode \in {"loop", "drain"} /\ Program /\ UNCHANGED recVars
  BY <1>1, ProgramInv
<1>2. CASE ReadMessage
  BY <1>2, ReadMessageInv
<1>3. CASE Hangup
  BY <1>3, HangupInv
<1>4. CASE CheckTidList
  BY <1>4, CheckTidListInv
<1>5. CASE SigChld
  BY <1>5, SigChldInv
<1>6. CASE Stopped
  BY <1>6, StillInv DEF Stopped
<1>7. CASE UNCHANGED vars
  BY <1>7, StillInv
<1> QED BY <1>1, <1>2, <1>3, <1>4, <1>5, <1>6, <1>7 DEF Next, Recorder

\* What the invariant says of a stop and of what was handed over
LEMMA InvNothingForgotten == TableInv => NothingForgotten
<1> SUFFICES ASSUME TableInv PROVE NothingForgotten
  OBVIOUS
<1>1. Shape /\ TakenOld
  BY DEF TableInv
<1>2. TypeOK
  BY <1>1 DEF Shape
<1>3. ExecFlushesOld
  <2> SUFFICES ASSUME NEW b \in taken, b.tid \notin ended PROVE ~Live(b)
    BY DEF ExecFlushesOld
  <2>1. b.img < img[b.tid] /\ b.tid \in Tids /\ b.img \in Nat
    BY <1>1 DEF TakenOld, Shape, Buffers
  <2>2. img[b.tid] \in Nat
    BY <1>2, <2>1 DEF TypeOK
  <2> QED BY <2>1, <2>2 DEF Live
<1>4. KnownAtEnd
  <2> SUFFICES ASSUME mode = "stopped", NEW b \in filled, b.tid \notin ended
               PROVE  Known(b.tid) /\ (b \in taken \/ Listed(b))
    BY DEF KnownAtEnd, Known, Listed
  <2>1. b.tid \in Tids
    BY <1>1 DEF Shape, Buffers
  <2>2. Task(b.tid)
    BY <2>1 DEF TableInv
  <2>3. pipe = << >> /\ Len(<< >>) = 0 /\ 1 .. 0 = {}
    BY <1>1 DEF Shape
  <2>4. Known(b.tid)
    BY <2>2, <2>3 DEF Task, Reported
  <2>5. b \in taken \/ Listed(b)
    BY <2>2, <2>3 DEF Task, FilledKept, ListedBefore
  <2> QED BY <2>4, <2>5
<1> QED BY <1>2, <1>3, <1>4 DEF NothingForgotten

-----------------------------------------------------------------------------
(* Forks: what is announced, what waits in tid_list_head and what is to come *)

All == Tids \cup {Reaper}

\* The child of a fork that has not sent its FORK_END
Forked == {"forked", "forkedNew", "childNew", "childBegun", "child", "childBuf"}
Forking == {"forking", "forkingNew"}

\* The process a task forks from, or the one its FORK_END will name
From(t) ==
    IF st[t] \in Forking THEN pid[t] ELSE IF st[t] \in {"forked", "forkedNew"} THEN parent[t] ELSE ppid[t]

\* The tasks whose FORK_END, naming one of W, is still to be sent
Due(W) == {t \in Tids : st[t] \in Forking \cup Forked /\ From(t) \in W}

\* The entries of tid_list_head that wait for one
Unpaired(s, W) == {k \in 1 .. Len(s) : s[k].tid = NoTid /\ s[k].pid \in W}

\* The messages of a type among the first q
Sent(s, type, W, q) == {k \in 1 .. q : s[k].type = type /\ s[k].pid \in W}
Starting(s, W, q) == Cardinality(Sent(s, "FORK_START", W, q))
Ending(s, W, q) == Cardinality(Sent(s, "FORK_END", W, q))
Waiting(s, W) == Cardinality(Unpaired(s, W))
One(m, type, W) == IF m.type = type /\ m.pid \in W THEN 1 ELSE 0

\* Of the forks of processes in W, no FORK_END is read before an entry for it is there.
Balanced(W) ==
    /\ \A q \in 1 .. Len(pipe) : Ending(pipe, W, q) <= Waiting(table, W) + Starting(pipe, W, q)
    /\ IsFiniteSet(Due(W))
    /\ Ending(pipe, W, Len(pipe)) + Cardinality(Due(W)) <= Waiting(table, W) + Starting(pipe, W, Len(pipe))

\* Whoever knows the parent of a child knows the right one.
Parents ==
    /\ \A t \in Tids : st[t] \in Forked => From(t) = parent[t]
    /\ \A q \in 1 .. Len(pipe) : pipe[q].type = "FORK_END" =>
          st[pipe[q].tid] # "absent" /\ pipe[q].pid = parent[pipe[q].tid]
    /\ \A f \in forkInfo : f.pid \in Tids /\ st[f.pid] # "absent" /\ f.ppid = parent[f.pid]

ForkInv ==
    /\ mode # "error" /\ Balanced(All)
    /\ orphans = {} => Parents /\ \A p \in All : Balanced({p})

\* Positions in a list that begins one later
LEMMA ShiftedCard ==
    ASSUME NEW n \in Nat, NEW S \in SUBSET (1 .. n + 1), NEW T, T = {k \in 1 .. n : k + 1 \in S}
    PROVE  /\ IsFiniteSet(T) /\ Cardinality(T) \in Nat /\ IsFiniteSet(S)
           /\ Cardinality(S) = IF 1 \in S THEN Cardinality(T) + 1 ELSE Cardinality(T)
<1>1. IsFiniteSet(1 .. n) /\ IsFiniteSet(1 .. n + 1)
  BY FS_Interval
<1>2. T \subseteq 1 .. n /\ IsFiniteSet(T) /\ Cardinality(T) \in Nat /\ IsFiniteSet(S)
  BY <1>1, FS_Subset, FS_CardinalityType
<1> DEFINE R == S \ {1}
           f == [k \in T |-> k + 1]
<1>3. f \in [T -> R]
  BY <1>2
<1>4. \A k, l \in T : f[k] = f[l] => k = l
  BY <1>2
<1>5. \A j \in R : \E k \in T : f[k] = j
  <2> TAKE j \in R
  <2>1. j - 1 \in T /\ f[j - 1] = j
    OBVIOUS
  <2> QED BY <2>1
<1> HIDE DEF f
<1>6. f \in Bijection(T, R)
  BY <1>3, <1>4, <1>5 DEF Bijection, Injection, Surjection, IsInjective
<1> HIDE DEF R
<1>7. Cardinality(R) = Cardinality(T) /\ IsFiniteSet(R)
  BY <1>2, <1>6, FS_Bijection DEF ExistsBijection
<1>8. Cardinality(R) = IF 1 \in S THEN Cardinality(S) - 1 ELSE Cardinality(S)
  BY <1>2, FS_RemoveElement DEF R
<1>9. Cardinality(S) \in Nat
  BY <1>2, FS_CardinalityType
<1> QED BY <1>2, <1>7, <1>8, <1>9

LEMMA SentFacts ==
    ASSUME NEW s, NEW type, NEW W, NEW q \in Nat
    PROVE  /\ Sent(s, type, W, q) \in SUBSET (1 .. q) /\ IsFiniteSet(Sent(s, type, W, q))
           /\ Cardinality(Sent(s, type, W, q)) \in Nat
<1>1. Sent(s, type, W, q) \in SUBSET (1 .. q)
  BY DEF Sent
<1>2. IsFiniteSet(1 .. q)
  BY FS_Interval
<1> QED BY <1>1, <1>2, FS_Subset, FS_CardinalityType

LEMMA UnpairedFacts ==
    ASSUME NEW s \in Seq(Entries), NEW W
    PROVE  /\ Unpaired(s, W) \in SUBSET (1 .. Len(s)) /\ IsFiniteSet(Unpaired(s, W)) /\ Waiting(s, W) \in Nat
           /\ Waiting(s, W) > 0 => Unpaired(s, W) # {}
<1>1. Unpaired(s, W) \in SUBSET (1 .. Len(s))
  BY DEF Unpaired
<1>2. Len(s) \in Nat
  OBVIOUS
<1>3. IsFiniteSet(1 .. Len(s))
  BY <1>2, FS_Interval
<1>4. IsFiniteSet(Unpaired(s, W)) /\ Waiting(s, W) \in Nat
  BY <1>1, <1>3, FS_Subset, FS_CardinalityType DEF Waiting
<1>5. Waiting(s, W) > 0 => Unpaired(s, W) # {}
  <2>1. Cardinality({}) = 0
    BY FS_EmptySet
  <2>2. Unpaired(s, W) = {} => Waiting(s, W) = 0
    BY <2>1 DEF Waiting
  <2> QED BY <2>2
<1> QED BY <1>1, <1>4, <1>5

\* A message is read.
LEMMA SentTail ==
    ASSUME NEW s \in Seq(Msgs), s # << >>, NEW r, r = Tail(s), NEW type, NEW W, NEW q \in 0 .. Len(r)
    PROVE  Cardinality(Sent(s, type, W, q + 1)) = Cardinality(Sent(r, type, W, q)) + One(s[1], type, W)
<1>1. Len(s) \in Nat /\ Len(s) > 0 /\ Len(r) = Len(s) - 1 /\ \A k \in 1 .. Len(r) : r[k] = s[k + 1]
  <2>1. Len(s) \in Nat /\ Len(s) # 0
    BY EmptySeq
  <2>2. Len(r) = Len(s) - 1 /\ \A k \in 1 .. Len(r) : r[k] = s[k + 1]
    BY HeadTailProperties
  <2> QED BY <2>1, <2>2
<1>2. q \in Nat /\ q <= Len(r)
  BY <1>1
<1> DEFINE S == Sent(s, type, W, q + 1)
           T == Sent(r, type, W, q)
<1>3. T = {k \in 1 .. q : k + 1 \in S}
  <2>1. ASSUME NEW k \in 1 .. q PROVE r[k] = s[k + 1] /\ k + 1 \in 1 .. q + 1
    <3>1. k \in 1 .. Len(r)
      BY <1>1, <1>2
    <3> QED BY <3>1, <1>1, <1>2
  <2> QED BY <2>1 DEF Sent
<1>4. S \in SUBSET (1 .. q + 1) /\ (1 \in S <=> s[1].type = type /\ s[1].pid \in W)
  BY <1>2 DEF Sent
<1> HIDE DEF S, T
<1>5. /\ Cardinality(T) \in Nat
      /\ Cardinality(S) = IF 1 \in S THEN Cardinality(T) + 1 ELSE Cardinality(T)
  BY <1>2, <1>3, <1>4, ShiftedCard
<1>6. Cardinality(S) = Cardinality(T) + One(s[1], type, W)
  BY <1>4, <1>5 DEF One
<1> QED BY <1>6 DEF S, T

\* A message is sent.
Longer(r, s, m) ==
    /\ Len(s) \in Nat /\ Len(r) = Len(s) + 1 /\ r[Len(s) + 1] = m
    /\ \A k \in 1 .. Len(s) : r[k] = s[k]

LEMMA SentAppend ==
    ASSUME NEW s, NEW m, NEW r, Longer(r, s, m), NEW type, NEW W
    PROVE  /\ Len(s) \in Nat /\ Len(r) = Len(s) + 1
           /\ \A q \in 0 .. Len(s) : Sent(r, type, W, q) = Sent(s, type, W, q)
           /\ Cardinality(Sent(r, type, W, Len(r))) = Cardinality(Sent(s, type, W, Len(s))) + One(m, type, W)
<1>1. /\ Len(s) \in Nat /\ Len(r) = Len(s) + 1
      /\ \A k \in 1 .. Len(s) : r[k] = s[k]
      /\ r[Len(s) + 1] = m
  BY DEF Longer
<1>2. ASSUME NEW q \in 0 .. Len(s) PROVE Sent(r, type, W, q) = Sent(s, type, W, q)
  <2>1. \A k \in 1 .. q : r[k] = s[k]
    BY <1>1
  <2> QED BY <2>1 DEF Sent
<1> DEFINE n == Len(s)
           S == Sent(s, type, W, n)
           R == Sent(r, type, W, n + 1)
<1>3. R = IF m.type = type /\ m.pid \in W THEN S \cup {n + 1} ELSE S
  <2>1. \A k \in 1 .. n + 1 : k \in 1 .. n \/ k = n + 1
    BY <1>1
  <2>2. \A k \in 1 .. n : k \in 1 .. n + 1
    BY <1>1
  <2> QED BY <1>1, <2>1, <2>2 DEF Sent
<1>4. IsFiniteSet(S) /\ Cardinality(S) \in Nat /\ n + 1 \notin S
  BY <1>1, SentFacts
<1>5. Cardinality(S \cup {n + 1}) = Cardinality(S) + 1
  BY <1>4, FS_AddElement
<1> HIDE DEF S, R
<1>6. Cardinality(R) = Cardinality(S) + One(m, type, W)
  BY <1>3, <1>4, <1>5 DEF One
<1> QED BY <1>1, <1>2, <1>6 DEF S, R

\* One message more
LEMMA SendBalance ==
    ASSUME NEW W, Balanced(W), pipe \in Seq(Msgs), table \in Seq(Entries), NEW m \in Msgs,
           Send(m), table' = table, IsFiniteSet(Due(W)'),
           One(m, "FORK_END", W) + Cardinality(Due(W)') <= Cardinality(Due(W)) + One(m, "FORK_START", W)
    PROVE  Balanced(W)'
<1>1. PICK p : p = Append(pipe, m)
  OBVIOUS
<1>2. pipe' = p /\ Longer(p, pipe, m)
  BY <1>1, AppendProperties DEF Send, Longer
<1> DEFINE n == Len(pipe)
<1>3. /\ n \in Nat /\ Len(p) = n + 1
      /\ \A q \in 0 .. n : Ending(p, W, q) = Ending(pipe, W, q) /\ Starting(p, W, q) = Starting(pipe, W, q)
      /\ Ending(p, W, n + 1) = Ending(pipe, W, n) + One(m, "FORK_END", W)
      /\ Starting(p, W, n + 1) = Starting(pipe, W, n) + One(m, "FORK_START", W)
  <2>1. n \in Nat /\ Len(p) = n + 1
    BY <1>2, SentAppend
  <2>2. ASSUME NEW type
        PROVE  /\ \A q \in 0 .. Len(pipe) : Sent(p, type, W, q) = Sent(pipe, type, W, q)
               /\ Cardinality(Sent(p, type, W, Len(p))) = Cardinality(Sent(pipe, type, W, Len(pipe))) + One(m, type, W)
    BY <1>2, SentAppend
  <2>3. \A q \in 0 .. n : Ending(p, W, q) = Ending(pipe, W, q) /\ Starting(p, W, q) = Starting(pipe, W, q)
    BY <2>2 DEF Ending, Starting
  <2>4. /\ Ending(p, W, n + 1) = Ending(pipe, W, n) + One(m, "FORK_END", W)
        /\ Starting(p, W, n + 1) = Starting(pipe, W, n) + One(m, "FORK_START", W)
    BY <2>1, <2>2 DEF Ending, Starting
  <2> QED BY <2>1, <2>3, <2>4
<1>4. Waiting(table, W) \in Nat /\ Waiting(table', W) = Waiting(table, W)
  BY UnpairedFacts
<1>5. Ending(pipe, W, n) \in Nat /\ Starting(pipe, W, n) \in Nat
  BY <1>3, SentFacts DEF Ending, Starting
<1>6. Cardinality(Due(W)) \in Nat /\ Cardinality(Due(W)') \in Nat
  BY FS_CardinalityType DEF Balanced
<1>7. One(m, "FORK_END", W) \in Nat /\ One(m, "FORK_START", W) \in Nat
  BY DEF One
<1>8. Ending(pipe, W, n) + Cardinality(Due(W)) <= Waiting(table, W) + Starting(pipe, W, n)
  BY DEF Balanced
<1>9. Ending(p, W, n + 1) + Cardinality(Due(W)') <= Waiting(table, W) + Starting(p, W, n + 1)
  <2> DEFINE e == Ending(pipe, W, n)
             b == Starting(pipe, W, n)
             w == Waiting(table, W)
             c == Cardinality(Due(W))
             d == Cardinality(Due(W)')
             i == One(m, "FORK_END", W)
             j == One(m, "FORK_START", W)
  <2>1. /\ e \in Nat /\ b \in Nat /\ w \in Nat /\ c \in Nat /\ d \in Nat /\ i \in Nat /\ j \in Nat
        /\ e + c <= w + b /\ i + d <= c + j
    BY <1>4, <1>5, <1>6, <1>7, <1>8
  <2>2. Ending(p, W, n + 1) = e + i /\ Starting(p, W, n + 1) = b + j
    BY <1>3
  <2> HIDE DEF e, b, w, c, d, i, j
  <2>3. (e + i) + d <= w + (b + j)
    BY <2>1
  <2> QED BY <2>2, <2>3 DEF d, w
<1>10. ASSUME NEW q \in 1 .. n + 1 PROVE Ending(p, W, q) <= Waiting(table, W) + Starting(p, W, q)
  <2>1. CASE q \in 1 .. n
    BY <2>1, <1>3 DEF Balanced
  <2>2. CASE q = n + 1
    <3>1. Ending(p, W, n + 1) \in Nat /\ Starting(p, W, n + 1) \in Nat
      BY <1>3, <1>5, <1>7
    <3> QED BY <2>2, <3>1, <1>4, <1>6, <1>9
  <2> QED BY <2>1, <2>2, <1>3
<1> QED BY <1>2, <1>3, <1>4, <1>9, <1>10 DEF Balanced

\* No message, and no fork more
LEMMA QuietBalance ==
    ASSUME NEW W, Balanced(W), pipe \in Seq(Msgs), table \in Seq(Entries), pipe' = pipe,
           Waiting(table', W) = Waiting(table, W), IsFiniteSet(Due(W)'),
           Cardinality(Due(W)') <= Cardinality(Due(W))
    PROVE  Balanced(W)'
<1> DEFINE n == Len(pipe)
<1>1. n \in Nat
  OBVIOUS
<1>2. Ending(pipe, W, n) \in Nat /\ Starting(pipe, W, n) \in Nat /\ Waiting(table, W) \in Nat
  BY <1>1, SentFacts, UnpairedFacts DEF Ending, Starting
<1>3. Cardinality(Due(W)) \in Nat /\ Cardinality(Due(W)') \in Nat
  BY FS_CardinalityType DEF Balanced
<1>4. Ending(pipe, W, n) + Cardinality(Due(W)) <= Waiting(table, W) + Starting(pipe, W, n)
  BY DEF Balanced
<1>5. Ending(pipe, W, n) + Cardinality(Due(W)') <= Waiting(table, W) + Starting(pipe, W, n)
  BY <1>2, <1>3, <1>4
<1> QED BY <1>5 DEF Balanced

\* uftrace reads a message; a FORK_START adds an entry that waits, and a FORK_END takes one.
Reads(m) == pipe # << >> /\ pipe' = Tail(pipe) /\ m = Head(pipe)
Settles(m, W) ==
    /\ Waiting(table', W) \in Nat
    /\ Waiting(table', W) + One(m, "FORK_END", W) = Waiting(table, W) + One(m, "FORK_START", W)

LEMMA Shifted ==
    ASSUME NEW e \in Nat, NEW d \in Nat, NEW b \in Nat, NEW x \in Nat, NEW y \in Nat, NEW v \in Nat, NEW w \in Nat,
           (e + x) + d <= w + (b + y), v + x = w + y
    PROVE  e + d <= v + b
OBVIOUS

LEMMA ReadBalance ==
    ASSUME NEW W, Balanced(W), pipe \in Seq(Msgs), table \in Seq(Entries), NEW m, Reads(m), Settles(m, W),
           Due(W)' = Due(W)
    PROVE  Balanced(W)'
<1>1. PICK p : p = Tail(pipe)
  OBVIOUS
<1>2. pipe # << >>
  BY DEF Reads
<1>3. pipe' = p /\ pipe[1] = m /\ Len(pipe) \in Nat /\ Len(p) = Len(pipe) - 1 /\ Len(pipe) > 0
  BY <1>1, TakenOff DEF Reads
<1> DEFINE n == Len(p)
<1>4. \A q \in 0 .. n : /\ Ending(pipe, W, q + 1) = Ending(p, W, q) + One(m, "FORK_END", W)
                        /\ Starting(pipe, W, q + 1) = Starting(p, W, q) + One(m, "FORK_START", W)
  <2> TAKE q \in 0 .. n
  <2>1. Cardinality(Sent(pipe, "FORK_END", W, q + 1)) = Cardinality(Sent(p, "FORK_END", W, q)) + One(pipe[1], "FORK_END", W)
    BY <1>1, <1>2, SentTail
  <2>2. Cardinality(Sent(pipe, "FORK_START", W, q + 1)) = Cardinality(Sent(p, "FORK_START", W, q)) + One(pipe[1], "FORK_START", W)
    BY <1>1, <1>2, SentTail
  <2> QED BY <1>3, <2>1, <2>2 DEF Ending, Starting
<1>5. One(m, "FORK_END", W) \in Nat /\ One(m, "FORK_START", W) \in Nat
  BY DEF One
<1>6. \A q \in 0 .. n : Ending(p, W, q) \in Nat /\ Starting(p, W, q) \in Nat
  BY <1>3, SentFacts DEF Ending, Starting
<1>7. Waiting(table, W) \in Nat /\ IsFiniteSet(Due(W)) /\ Cardinality(Due(W)) \in Nat
  BY UnpairedFacts, FS_CardinalityType DEF Balanced
<1>8. Waiting(table', W) \in Nat
      /\ Waiting(table', W) + One(m, "FORK_END", W) = Waiting(table, W) + One(m, "FORK_START", W)
  BY DEF Settles
<1>9. ASSUME NEW q \in 1 .. n PROVE Ending(p, W, q) <= Waiting(table', W) + Starting(p, W, q)
  <2>1. q \in 0 .. n /\ q + 1 \in 1 .. Len(pipe)
    BY <1>3
  <2>2. Ending(pipe, W, q + 1) <= Waiting(table, W) + Starting(pipe, W, q + 1)
    BY <2>1 DEF Balanced
  <2>3. /\ Ending(pipe, W, q + 1) = Ending(p, W, q) + One(m, "FORK_END", W)
        /\ Starting(pipe, W, q + 1) = Starting(p, W, q) + One(m, "FORK_START", W)
        /\ Ending(p, W, q) \in Nat /\ Starting(p, W, q) \in Nat
    BY <2>1, <1>4, <1>6
  <2>4. Ending(p, W, q) + One(m, "FORK_END", W) <= Waiting(table, W) + (Starting(p, W, q) + One(m, "FORK_START", W))
    BY <2>2, <2>3
  <2>5. PICK e \in Nat, b \in Nat : e = Ending(p, W, q) /\ b = Starting(p, W, q)
    BY <2>3
  <2>6. PICK x \in Nat, y \in Nat : x = One(m, "FORK_END", W) /\ y = One(m, "FORK_START", W)
    BY <1>5
  <2>7. PICK v \in Nat, z \in Nat : v = Waiting(table', W) /\ z = Waiting(table, W)
    BY <1>7, <1>8
  <2>8. v + x = z + y
    BY <1>8, <2>6, <2>7
  <2>9. e + x <= z + (b + y)
    BY <2>4, <2>5, <2>6, <2>7
  <2>10. (e + x) + 0 <= z + (b + y)
    BY <2>9
  <2>11. e + 0 <= v + b
    BY <2>8, <2>10, Shifted
  <2>12. e <= v + b
    BY <2>11
  <2> QED BY <2>5, <2>7, <2>12
<1>10. Ending(p, W, n) + Cardinality(Due(W)) <= Waiting(table', W) + Starting(p, W, n)
  <2>1. n \in 0 .. n /\ n + 1 = Len(pipe)
    BY <1>3
  <2>2. Ending(pipe, W, n + 1) + Cardinality(Due(W)) <= Waiting(table, W) + Starting(pipe, W, n + 1)
    BY <2>1 DEF Balanced
  <2>3. /\ Ending(pipe, W, n + 1) = Ending(p, W, n) + One(m, "FORK_END", W)
        /\ Starting(pipe, W, n + 1) = Starting(p, W, n) + One(m, "FORK_START", W)
        /\ Ending(p, W, n) \in Nat /\ Starting(p, W, n) \in Nat
    BY <2>1, <1>4, <1>6
  <2>4. (Ending(p, W, n) + One(m, "FORK_END", W)) + Cardinality(Due(W)) <= Waiting(table, W) + (Starting(p, W, n) + One(m, "FORK_START", W))
    BY <2>2, <2>3
  <2> DEFINE e == Ending(p, W, n)
             b == Starting(p, W, n)
             d == Cardinality(Due(W))
  <2>5. e \in Nat /\ b \in Nat /\ d \in Nat
    BY <2>3, <1>7
  <2>6. (e + One(m, "FORK_END", W)) + d <= Waiting(table, W) + (b + One(m, "FORK_START", W))
    BY <2>4
  <2> HIDE DEF e, b, d
  <2>7. e + d <= Waiting(table', W) + b
    BY <2>5, <2>6, <1>5, <1>7, <1>8, Shifted
  <2> QED BY <2>7 DEF e, b, d
<1> QED BY <1>3, <1>7, <1>9, <1>10 DEF Balanced

\* A FORK_END that comes next has an entry.
LEMMA EntryWaits ==
    ASSUME NEW W, Balanced(W), pipe \in Seq(Msgs), table \in Seq(Entries), NEW m, Reads(m),
           m.type = "FORK_END", m.pid \in W
    PROVE  Waiting(table, W) > 0 /\ Unpaired(table, W) # {}
<1>1. Len(pipe) \in Nat /\ Len(pipe) > 0 /\ pipe[1] = m
  <2>1. Len(pipe) \in Nat /\ Len(pipe) # 0
    BY EmptySeq DEF Reads
  <2> QED BY <2>1, HeadTailProperties DEF Reads
<1>2. Sent(pipe, "FORK_END", W, 1) = {1} /\ Sent(pipe, "FORK_START", W, 1) = {}
  BY <1>1 DEF Sent
<1>3. Ending(pipe, W, 1) = 1 /\ Starting(pipe, W, 1) = 0
  BY <1>2, FS_Singleton, FS_EmptySet DEF Ending, Starting
<1>4. 1 <= Waiting(table, W) + 0
  BY <1>1, <1>3 DEF Balanced
<1>5. Waiting(table, W) \in Nat
  BY UnpairedFacts
<1>6. Waiting(table, W) > 0
  BY <1>4, <1>5
<1> QED BY <1>6, UnpairedFacts

\* The forks to come are those that were, or fewer.
Alike ==
    \A t \in Tids :
        /\ st'[t] \in Forking => st[t] \in Forking
        /\ st'[t] \in Forked => st[t] \in Forked
        /\ st'[t] \in Forking \cup Forked => From(t)' = From(t)
        /\ st[t] # "absent" => st'[t] # "absent"
        /\ parent'[t] = parent[t]

LEMMA DueFewer ==
    ASSUME NEW W, Balanced(W), Due(W)' \subseteq Due(W)
    PROVE  IsFiniteSet(Due(W)') /\ Cardinality(Due(W)') <= Cardinality(Due(W))
  BY FS_Subset DEF Balanced

LEMMA DueAlike ==
    ASSUME NEW W, Alike
    PROVE  Due(W)' \subseteq Due(W)
<1> SUFFICES ASSUME NEW t \in Due(W)' PROVE t \in Due(W)
  OBVIOUS
<1>1. t \in Tids /\ st'[t] \in Forking \cup Forked /\ From(t)' \in W
  BY DEF Due
<1>2. st[t] \in Forking \cup Forked /\ From(t) \in W
  BY <1>1 DEF Alike
<1> QED BY <1>1, <1>2 DEF Due

\* A task that no fork is about sends nothing.
LEMMA QuietFork ==
    ASSUME TableInv, ForkInv, Alike, UNCHANGED <<orphans, pipe, table, mode, forkInfo>>
    PROVE  ForkInv'
<1>1. pipe \in Seq(Msgs) /\ table \in Seq(Entries)
  BY DEF TableInv, Shape, TypeOK, Entries
<1>2. /\ orphans' = orphans /\ pipe' = pipe /\ table' = table /\ mode' = mode /\ forkInfo' = forkInfo
  OBVIOUS
<1>3. ASSUME NEW W, Balanced(W) PROVE Balanced(W)'
  <2>1. IsFiniteSet(Due(W)') /\ Cardinality(Due(W)') <= Cardinality(Due(W))
    BY <1>3, DueAlike, DueFewer
  <2> QED BY <1>1, <1>2, <1>3, <2>1, QuietBalance
<1>4. Balanced(All)'
  BY <1>3 DEF ForkInv, All
<1>5. ASSUME Parents PROVE Parents'
  <2>1. \A t \in Tids : st'[t] \in Forked => From(t)' = parent'[t]
    BY <1>5 DEF Parents, Alike
  <2>2. ASSUME NEW q \in 1 .. Len(pipe), pipe[q].type = "FORK_END"
        PROVE  st'[pipe[q].tid] # "absent" /\ pipe[q].pid = parent'[pipe[q].tid]
    <3>1. pipe[q].tid \in Tids
      <4>1. pipe[q] \in Msgs
        BY <1>1, ElementOfSeq
      <4> QED BY <2>2, <4>1 DEF Msgs
    <3> QED BY <2>2, <3>1, <1>5 DEF Parents, Alike
  <2>3. \A f \in forkInfo : f.pid \in Tids /\ st'[f.pid] # "absent" /\ f.ppid = parent'[f.pid]
    BY <1>5 DEF Parents, Alike
  <2> QED BY <1>2, <2>1, <2>2, <2>3 DEF Parents
<1> QED BY <1>2, <1>3, <1>4, <1>5 DEF ForkInv, All

\* It sends something else.
LEMMA SendFork ==
    ASSUME TableInv, ForkInv, Alike, UNCHANGED <<orphans, table, mode, forkInfo>>,
           NEW m \in Msgs, Send(m), m.type \notin {"FORK_START", "FORK_END"}
    PROVE  ForkInv'
<1>1. pipe \in Seq(Msgs) /\ table \in Seq(Entries)
  BY DEF TableInv, Shape, TypeOK, Entries
<1>2. /\ orphans' = orphans /\ table' = table /\ mode' = mode /\ forkInfo' = forkInfo
  OBVIOUS
<1>3. ASSUME NEW W, Balanced(W) PROVE Balanced(W)'
  <2>1. IsFiniteSet(Due(W)') /\ Cardinality(Due(W)') <= Cardinality(Due(W))
    BY <1>3, DueAlike, DueFewer
  <2>2. One(m, "FORK_END", W) = 0 /\ One(m, "FORK_START", W) = 0
    BY DEF One
  <2>3. Cardinality(Due(W)') \in Nat /\ Cardinality(Due(W)) \in Nat
    BY <1>3, <2>1, FS_CardinalityType DEF Balanced
  <2>4. One(m, "FORK_END", W) + Cardinality(Due(W)') <= Cardinality(Due(W)) + One(m, "FORK_START", W)
    BY <2>1, <2>2, <2>3
  <2> QED BY <1>1, <1>2, <1>3, <2>1, <2>4, SendBalance
<1>4. Balanced(All)'
  BY <1>3 DEF ForkInv, All
<1>5. ASSUME Parents PROVE Parents'
  <2>1. \A t \in Tids : st'[t] \in Forked => From(t)' = parent'[t]
    BY <1>5 DEF Parents, Alike
  <2>2. ASSUME NEW q \in 1 .. Len(pipe'), pipe'[q].type = "FORK_END"
        PROVE  st'[pipe'[q].tid] # "absent" /\ pipe'[q].pid = parent'[pipe'[q].tid]
    <3>1. q \in 1 .. Len(pipe) /\ pipe'[q] = pipe[q] /\ pipe[q] \in Msgs
      BY <1>1, <2>2, Appended DEF Send
    <3>2. pipe[q].tid \in Tids
      BY <2>2, <3>1 DEF Msgs
    <3> QED BY <2>2, <3>1, <3>2, <1>5 DEF Parents, Alike
  <2>3. \A f \in forkInfo : f.pid \in Tids /\ st'[f.pid] # "absent" /\ f.ppid = parent'[f.pid]
    BY <1>5 DEF Parents, Alike
  <2> QED BY <1>2, <2>1, <2>2, <2>3 DEF Parents
<1> QED BY <1>2, <1>3, <1>4, <1>5 DEF ForkInv, All

\* Steps that no fork is about
LEMMA OtherSteps ==
    ASSUME TableInv, ForkInv, UNCHANGED recVars, NEW u \in Tids,
           \/ PrepareBuffer(u) \/ PrepareTask(u) \/ Record(u) \/ (\E v \in Tids : CloneThread(u, v))
           \/ Exec(u) \/ ThreadExit(u) \/ ThreadEnd(u) \/ ProcessExit(u)
    PROVE  ForkInv'
<1>1. TypeOK
  BY DEF TableInv, Shape
<1>2. UNCHANGED <<table, mode, forkInfo>>
  BY DEF recVars
<1>3. CASE PrepareBuffer(u)
  <2>1. BufMsg("REC_START", u) \in Msgs /\ BufMsg("REC_START", u).type = "REC_START"
    BY <1>1 DEF TypeOK, BufMsg, Msgs, About
  <2>2. Alike
    BY <1>1, <1>3 DEF PrepareBuffer, Alike, TypeOK, Forking, Forked, From
  <2>3. Send(BufMsg("REC_START", u)) /\ orphans' = orphans
    BY <1>3 DEF PrepareBuffer
  <2> QED BY <1>2, <2>1, <2>2, <2>3, SendFork
<1>4. CASE PrepareTask(u)
  <2>1. TaskMsg("TASK_START", pid[u], u) \in Msgs /\ TaskMsg("TASK_START", pid[u], u).type = "TASK_START"
    BY <1>1, TableAssumption DEF TypeOK, TaskMsg, Msgs, About
  <2>2. Alike
    BY <1>1, <1>4 DEF PrepareTask, Alike, TypeOK, Forking, Forked, From
  <2>3. Send(TaskMsg("TASK_START", pid[u], u)) /\ orphans' = orphans
    BY <1>4 DEF PrepareTask
  <2> QED BY <1>2, <2>1, <2>2, <2>3, SendFork
<1>5. CASE Record(u)
  <2>1. Alike /\ UNCHANGED <<orphans, pipe>>
    BY <1>5 DEF Record, Alike, From
  <2> QED BY <1>2, <2>1, QuietFork
<1>6. ASSUME NEW v \in Tids, CloneThread(u, v) PROVE ForkInv'
  <2>1. Alike /\ UNCHANGED <<orphans, pipe>>
    BY <1>1, <1>6 DEF CloneThread, Alike, TypeOK, Forking, Forked, From
  <2> QED BY <1>2, <2>1, QuietFork
<1>7. CASE Exec(u)
  <2>1. Alike /\ UNCHANGED <<orphans, pipe>>
    BY <1>1, <1>7 DEF Exec, Alike, TypeOK, Forking, Forked, From, Gone
  <2> QED BY <1>2, <2>1, QuietFork
<1>8. CASE ThreadExit(u)
  <2>1. BufMsg("REC_END", u) \in Msgs /\ BufMsg("REC_END", u).type = "REC_END"
    BY <1>1 DEF TypeOK, BufMsg, Msgs, About
  <2>2. Alike
    BY <1>1, <1>8 DEF ThreadExit, Alike, TypeOK, Forking, Forked, From
  <2>3. Send(BufMsg("REC_END", u)) /\ orphans' = orphans
    BY <1>8 DEF ThreadExit
  <2> QED BY <1>2, <2>1, <2>2, <2>3, SendFork
<1>9. CASE ThreadEnd(u)
  <2>1. TaskMsg("TASK_END", pid[u], u) \in Msgs /\ TaskMsg("TASK_END", pid[u], u).type = "TASK_END"
    BY <1>1, TableAssumption DEF TypeOK, TaskMsg, Msgs, About
  <2>2. Alike
    BY <1>1, <1>9 DEF ThreadEnd, Alike, TypeOK, Forking, Forked, From
  <2>3. Send(TaskMsg("TASK_END", pid[u], u)) /\ orphans' = orphans
    BY <1>9 DEF ThreadEnd
  <2> QED BY <1>2, <2>1, <2>2, <2>3, SendFork
<1>10. CASE ProcessExit(u)
  <2>1. Alike /\ UNCHANGED <<orphans, pipe>>
    BY <1>1, <1>10 DEF ProcessExit, Alike, TypeOK, Forking, Forked, From, Gone
  <2> QED BY <1>2, <2>1, QuietFork
<1> QED BY <1>3, <1>4, <1>5, <1>6, <1>7, <1>8, <1>9, <1>10

\* atfork_prepare_handler() announces a fork.
LEMMA ForkPrepareStep ==
    ASSUME TableInv, ForkInv, UNCHANGED recVars, NEW u \in Tids, ForkPrepare(u)
    PROVE  ForkInv'
<1> DEFINE m == TaskMsg("FORK_START", pid[u], NoTid)
<1>1. TypeOK /\ pipe \in Seq(Msgs) /\ table \in Seq(Entries)
  BY DEF TableInv, Shape, TypeOK, Entries
<1>2. m \in Msgs /\ m.type = "FORK_START" /\ m.pid = pid[u]
  BY <1>1 DEF TypeOK, TaskMsg, Msgs, About
<1>3. Send(m) /\ orphans' = orphans /\ table' = table /\ mode' = mode /\ forkInfo' = forkInfo
  BY DEF ForkPrepare, recVars
<1> HIDE DEF m
<1>4. /\ parent' = parent
      /\ \A t \in Tids : /\ t # u => st'[t] = st[t]
                         /\ t # u /\ st[t] \in Forking \cup Forked => From(t)' = From(t)
      /\ st[u] # "absent" /\ st'[u] \in Forking /\ st'[u] \notin Forked /\ From(u)' = pid[u]
  BY <1>1 DEF ForkPrepare, TypeOK, Forking, Forked, From
<1>5. ASSUME NEW W, Balanced(W) PROVE Balanced(W)'
  <2>1. Due(W)' \subseteq IF pid[u] \in W THEN Due(W) \cup {u} ELSE Due(W)
    BY <1>4 DEF Due
  <2>2. IsFiniteSet(Due(W)) /\ Cardinality(Due(W)) \in Nat
    BY <1>5, FS_CardinalityType DEF Balanced
  <2>3. IsFiniteSet(Due(W) \cup {u}) /\ Cardinality(Due(W) \cup {u}) <= Cardinality(Due(W)) + 1
    <3>1. /\ IsFiniteSet(Due(W) \cup {u})
          /\ Cardinality(Due(W) \cup {u}) = IF u \in Due(W) THEN Cardinality(Due(W)) ELSE Cardinality(Due(W)) + 1
      BY <2>2, FS_AddElement
    <3> QED BY <2>2, <3>1
  <2>4. One(m, "FORK_END", W) = 0 /\ One(m, "FORK_START", W) = IF pid[u] \in W THEN 1 ELSE 0
    BY <1>2 DEF One
  <2>5. CASE pid[u] \in W
    <3>1. /\ IsFiniteSet(Due(W)') /\ Cardinality(Due(W)') <= Cardinality(Due(W) \cup {u})
          /\ Cardinality(Due(W)') \in Nat /\ Cardinality(Due(W) \cup {u}) \in Nat
      BY <2>1, <2>3, <2>5, FS_Subset, FS_CardinalityType
    <3>2. One(m, "FORK_END", W) + Cardinality(Due(W)') <= Cardinality(Due(W)) + One(m, "FORK_START", W)
      BY <2>2, <2>3, <2>4, <2>5, <3>1
    <3> QED BY <1>1, <1>2, <1>3, <1>5, <3>1, <3>2, SendBalance
  <2>6. CASE pid[u] \notin W
    <3>1. /\ IsFiniteSet(Due(W)') /\ Cardinality(Due(W)') <= Cardinality(Due(W))
          /\ Cardinality(Due(W)') \in Nat
      BY <2>1, <2>2, <2>6, FS_Subset, FS_CardinalityType
    <3>2. One(m, "FORK_END", W) + Cardinality(Due(W)') <= Cardinality(Due(W)) + One(m, "FORK_START", W)
      BY <2>2, <2>4, <2>6, <3>1
    <3> QED BY <1>1, <1>2, <1>3, <1>5, <3>1, <3>2, SendBalance
  <2> QED BY <2>5, <2>6
<1>6. Balanced(All)'
  BY <1>5 DEF ForkInv, All
<1>7. ASSUME Parents PROVE Parents'
  <2>1. \A t \in Tids : st'[t] \in Forked => From(t)' = parent'[t]
    BY <1>4, <1>7 DEF Parents
  <2>2. \A t \in Tids : st[t] # "absent" => st'[t] # "absent"
    BY <1>4 DEF Forking
  <2>3. ASSUME NEW q \in 1 .. Len(pipe'), pipe'[q].type = "FORK_END"
        PROVE  st'[pipe'[q].tid] # "absent" /\ pipe'[q].pid = parent'[pipe'[q].tid]
    <3>1. q \in 1 .. Len(pipe) /\ pipe'[q] = pipe[q] /\ pipe[q] \in Msgs
      BY <1>1, <1>2, <1>3, <2>3, Appended DEF Send
    <3>2. pipe[q].tid \in Tids
      BY <2>3, <3>1 DEF Msgs
    <3> QED BY <2>2, <2>3, <3>1, <3>2, <1>4, <1>7 DEF Parents
  <2>4. \A f \in forkInfo : f.pid \in Tids /\ st'[f.pid] # "absent" /\ f.ppid = parent'[f.pid]
    BY <2>2, <1>4, <1>7 DEF Parents
  <2> QED BY <1>3, <2>1, <2>3, <2>4 DEF Parents
<1> QED BY <1>3, <1>5, <1>6, <1>7 DEF ForkInv, All

\* The child takes the place of its fork.
LEMMA ForkSystemCallStep ==
    ASSUME TableInv, ForkInv, UNCHANGED recVars, NEW u \in Tids, ForkSystemCall(u)
    PROVE  ForkInv'
<1>1. TypeOK /\ pipe \in Seq(Msgs) /\ table \in Seq(Entries) /\ parent \in [Tids -> Tids \cup {Reaper}]
  BY DEF TableInv, Shape, TypeOK, Entries
<1>2. /\ table' = table /\ mode' = mode /\ forkInfo' = forkInfo /\ orphans' = orphans /\ pipe' = pipe
      /\ ppid' = ppid
  BY DEF recVars, ForkSystemCall
<1> DEFINE back == IF st[u] = "forking" THEN "run" ELSE "new"
           born == IF st[u] = "forking" THEN "forked" ELSE "forkedNew"
<1>3. CASE st' = [st EXCEPT ![u] = back] /\ UNCHANGED <<pid, parent>>
  <2>1. Alike
    BY <1>1, <1>2, <1>3 DEF Alike, TypeOK, Forking, Forked, From
  <2> QED BY <1>2, <2>1, QuietFork
<1>4. ASSUME NEW c \in Tids, st[c] = "absent", st' = [st EXCEPT ![u] = back, ![c] = born],
             pid' = [pid EXCEPT ![c] = c], parent' = [parent EXCEPT ![c] = pid[u]]
      PROVE  ForkInv'
  <2>1. /\ u # c /\ st[u] \in Forking /\ st'[u] \notin Forking \cup Forked /\ From(u) = pid[u]
        /\ st'[c] \in Forked /\ From(c)' = pid[u] /\ parent'[c] = pid[u]
        /\ \A t \in Tids : t \notin {u, c} => st'[t] = st[t] /\ parent'[t] = parent[t] /\ From(t)' = From(t)
        /\ \A t \in Tids : st[t] # "absent" => st'[t] # "absent" /\ parent'[t] = parent[t]
    BY <1>1, <1>2, <1>4 DEF ForkSystemCall, TypeOK, Forking, Forked, From
  <2>2. ASSUME NEW W, Balanced(W) PROVE Balanced(W)'
    <3>1. Due(W)' \subseteq IF pid[u] \in W THEN (Due(W) \ {u}) \cup {c} ELSE Due(W)
      BY <2>1 DEF Due
    <3>2. pid[u] \in W => u \in Due(W)
      BY <2>1 DEF Due
    <3>3. IsFiniteSet(Due(W)) /\ Cardinality(Due(W)) \in Nat
      BY <2>2, FS_CardinalityType DEF Balanced
    <3>4. IsFiniteSet(Due(W)') /\ Cardinality(Due(W)') <= Cardinality(Due(W))
      <4>1. CASE pid[u] \in W
        <5>1. IsFiniteSet(Due(W) \ {u}) /\ Cardinality(Due(W) \ {u}) = Cardinality(Due(W)) - 1
          BY <3>2, <3>3, <4>1, FS_RemoveElement
        <5>2. /\ IsFiniteSet((Due(W) \ {u}) \cup {c})
              /\ Cardinality((Due(W) \ {u}) \cup {c}) <= Cardinality(Due(W))
          <6> DEFINE R == Due(W) \ {u}
          <6>1. IsFiniteSet(R) /\ Cardinality(R) = Cardinality(Due(W)) - 1
            BY <5>1
          <6> HIDE DEF R
          <6>2. /\ IsFiniteSet(R \cup {c})
                /\ Cardinality(R \cup {c}) = IF c \in R THEN Cardinality(R) ELSE Cardinality(R) + 1
            BY <6>1, FS_AddElement
          <6>3. Cardinality(R \cup {c}) <= Cardinality(Due(W))
            BY <3>3, <6>1, <6>2
          <6> QED BY <6>2, <6>3 DEF R
        <5>3. /\ IsFiniteSet(Due(W)') /\ Cardinality(Due(W)') <= Cardinality((Due(W) \ {u}) \cup {c})
              /\ Cardinality(Due(W)') \in Nat /\ Cardinality((Due(W) \ {u}) \cup {c}) \in Nat
          BY <3>1, <4>1, <5>2, FS_Subset, FS_CardinalityType
        <5> QED BY <3>3, <5>2, <5>3
      <4>2. CASE pid[u] \notin W
        BY <3>1, <3>3, <4>2, FS_Subset
      <4> QED BY <4>1, <4>2
    <3> QED BY <1>1, <1>2, <2>2, <3>4, QuietBalance
  <2>3. Balanced(All)'
    BY <2>2 DEF ForkInv, All
  <2>4. ASSUME Parents PROVE Parents'
    <3>1. \A t \in Tids : st'[t] \in Forked => From(t)' = parent'[t]
      BY <2>1, <2>4 DEF Parents
    <3>2. ASSUME NEW q \in 1 .. Len(pipe), pipe[q].type = "FORK_END"
          PROVE  st'[pipe[q].tid] # "absent" /\ pipe[q].pid = parent'[pipe[q].tid]
      <4>1. pipe[q].tid \in Tids
        <5>1. pipe[q] \in Msgs
          BY <1>1, ElementOfSeq
        <5> QED BY <3>2, <5>1 DEF Msgs
      <4> QED BY <3>2, <4>1, <2>1, <2>4 DEF Parents
    <3>3. \A f \in forkInfo : f.pid \in Tids /\ st'[f.pid] # "absent" /\ f.ppid = parent'[f.pid]
      BY <2>1, <2>4 DEF Parents
    <3> QED BY <1>2, <3>1, <3>2, <3>3 DEF Parents
  <2> QED BY <1>2, <2>2, <2>3, <2>4 DEF ForkInv, All
<1> QED BY <1>3, <1>4 DEF ForkSystemCall

\* The child asks who its parent is.
LEMMA ForkChildStep ==
    ASSUME TableInv, ForkInv, UNCHANGED recVars, NEW u \in Tids, ForkChild(u)
    PROVE  ForkInv'
<1>1. TypeOK /\ pipe \in Seq(Msgs) /\ table \in Seq(Entries) /\ parent \in [Tids -> Tids \cup {Reaper}]
  BY DEF TableInv, Shape, TypeOK, Entries
<1>2. /\ table' = table /\ mode' = mode /\ forkInfo' = forkInfo /\ pipe' = pipe /\ parent' = parent /\ pid' = pid
  BY DEF recVars, ForkChild
<1>3. /\ st[u] \in {"forked", "forkedNew"} /\ st'[u] \in {"child", "childNew"} /\ From(u) = parent[u]
      /\ From(u)' = ppid'[u] /\ ppid'[u] \in All
      /\ \A t \in Tids : t # u => st'[t] = st[t] /\ From(t)' = From(t)
  BY <1>1, <1>2 DEF ForkChild, TypeOK, Forking, From, All
<1>4. CASE ppid' = [ppid EXCEPT ![u] = parent[u]] /\ UNCHANGED orphans
  <2>1. ppid'[u] = parent[u]
    BY <1>1, <1>4 DEF TypeOK
  <2>2. Alike
    BY <1>2, <1>3, <2>1 DEF Alike, Forking, Forked
  <2> QED BY <1>2, <1>4, <2>2, QuietFork
<1>5. CASE orphans' = orphans \cup {u}
  <2>1. parent[u] \in All
    BY <1>1 DEF All
  <2>2. Due(All)' \subseteq Due(All)
    BY <1>3, <2>1 DEF Due, Forking, Forked
  <2>3. Balanced(All)
    BY DEF ForkInv
  <2>4. All' = All
    BY DEF All
  <2>5. Balanced(All)'
    <3>1. IsFiniteSet(Due(All)') /\ Cardinality(Due(All)') <= Cardinality(Due(All))
      BY <2>2, <2>3, DueFewer
    <3> QED BY <1>1, <1>2, <2>3, <3>1, QuietBalance
  <2> QED BY <1>2, <1>5, <2>5 DEF ForkInv
<1> QED BY <1>4, <1>5 DEF ForkChild

\* The child's FORK_END
LEMMA ForkEndStep ==
    ASSUME TableInv, ForkInv, UNCHANGED recVars, NEW u \in Tids, ForkEnd(u)
    PROVE  ForkInv'
<1> DEFINE m == TaskMsg("FORK_END", ppid[u], u)
<1>1. TypeOK /\ pipe \in Seq(Msgs) /\ table \in Seq(Entries)
  BY DEF TableInv, Shape, TypeOK, Entries
<1>2. m \in Msgs /\ m.type = "FORK_END" /\ m.pid = ppid[u] /\ m.tid = u
  BY <1>1, TableAssumption DEF TypeOK, TaskMsg, Msgs, About
<1>3. Send(m) /\ orphans' = orphans /\ table' = table /\ mode' = mode /\ forkInfo' = forkInfo
  BY DEF ForkEnd, recVars
<1> HIDE DEF m
<1>4. /\ parent' = parent /\ st[u] \in Forked /\ st'[u] \notin Forking \cup Forked \cup {"absent"} /\ From(u) = ppid[u]
      /\ \A t \in Tids : t # u => st'[t] = st[t] /\ From(t)' = From(t)
  BY <1>1 DEF ForkEnd, TypeOK, Forking, Forked, From
<1>5. ASSUME NEW W, Balanced(W) PROVE Balanced(W)'
  <2>1. Due(W)' \subseteq Due(W) \ {u} /\ (u \in Due(W) <=> ppid[u] \in W)
    BY <1>4 DEF Due
  <2>2. IsFiniteSet(Due(W)) /\ Cardinality(Due(W)) \in Nat
    BY <1>5, FS_CardinalityType DEF Balanced
  <2>3. /\ IsFiniteSet(Due(W) \ {u})
        /\ Cardinality(Due(W) \ {u}) = IF u \in Due(W) THEN Cardinality(Due(W)) - 1 ELSE Cardinality(Due(W))
    BY <2>2, FS_RemoveElement
  <2>4. One(m, "FORK_START", W) = 0 /\ One(m, "FORK_END", W) = IF ppid[u] \in W THEN 1 ELSE 0
    BY <1>2 DEF One
  <2>5. /\ IsFiniteSet(Due(W)') /\ Cardinality(Due(W)') <= Cardinality(Due(W) \ {u})
        /\ Cardinality(Due(W)') \in Nat /\ Cardinality(Due(W) \ {u}) \in Nat
    BY <2>1, <2>3, FS_Subset, FS_CardinalityType
  <2>6. One(m, "FORK_END", W) + Cardinality(Due(W)') <= Cardinality(Due(W)) + One(m, "FORK_START", W)
    BY <2>1, <2>2, <2>3, <2>4, <2>5
  <2> QED BY <1>1, <1>2, <1>3, <1>5, <2>5, <2>6, SendBalance
<1>6. Balanced(All)'
  BY <1>5 DEF ForkInv, All
<1>7. ASSUME Parents PROVE Parents'
  <2>1. \A t \in Tids : st'[t] \in Forked => From(t)' = parent'[t]
    BY <1>4, <1>7 DEF Parents
  <2>2. \A t \in Tids : st[t] # "absent" => st'[t] # "absent"
    BY <1>4
  <2>3. ASSUME NEW q \in 1 .. Len(pipe'), pipe'[q].type = "FORK_END"
        PROVE  st'[pipe'[q].tid] # "absent" /\ pipe'[q].pid = parent'[pipe'[q].tid]
    <3>1. CASE q \in 1 .. Len(pipe)
      <4>1. pipe'[q] = pipe[q] /\ pipe[q] \in Msgs
        BY <1>1, <1>2, <1>3, <3>1, Appended DEF Send
      <4>2. pipe[q].tid \in Tids
        BY <2>3, <4>1 DEF Msgs
      <4> QED BY <2>2, <2>3, <3>1, <4>1, <4>2, <1>4, <1>7 DEF Parents
    <3>2. CASE pipe'[q] = m
      <4>1. ppid[u] = parent[u]
        BY <1>4, <1>7 DEF Parents
      <4> QED BY <1>2, <1>4, <3>2, <4>1
    <3> QED BY <1>1, <1>2, <1>3, <2>3, <3>1, <3>2, Appended DEF Send
  <2>4. \A f \in forkInfo : f.pid \in Tids /\ st'[f.pid] # "absent" /\ f.ppid = parent'[f.pid]
    BY <2>2, <1>4, <1>7 DEF Parents
  <2> QED BY <1>3, <2>1, <2>3, <2>4 DEF Parents
<1> QED BY <1>3, <1>5, <1>6, <1>7 DEF ForkInv, All

\* Entries that wait for a FORK_END, when flags are set, an entry is added or one is completed
LEMMA WaitingSame ==
    ASSUME NEW s \in Seq(Entries), NEW r \in Seq(Entries), Len(r) = Len(s), NEW W,
           \A k \in 1 .. Len(s) : r[k].tid = s[k].tid /\ r[k].pid = s[k].pid
    PROVE  Waiting(r, W) = Waiting(s, W)
<1>1. Unpaired(r, W) = Unpaired(s, W)
  BY DEF Unpaired
<1> QED BY <1>1 DEF Waiting

Prepended(r, e, s) == r = <<e>> \o s
Waits(e, W) == IF e.tid = NoTid /\ e.pid \in W THEN 1 ELSE 0

LEMMA WaitingAdded ==
    ASSUME NEW s \in Seq(Entries), NEW e \in Entries, NEW r, Prepended(r, e, s), NEW W
    PROVE  r \in Seq(Entries) /\ Waiting(r, W) = Waiting(s, W) + Waits(e, W)
<1> DEFINE o == <<e>>
           n == Len(s)
<1>1. o \in Seq(Entries) /\ Len(o) = 1 /\ o[1] = e /\ r = o \o s /\ n \in Nat
  BY DEF Prepended
<1>2. /\ r \in Seq(Entries) /\ Len(r) = 1 + n
      /\ \A k \in 1 .. 1 + n : r[k] = IF k <= 1 THEN o[k] ELSE s[k - 1]
  <2> HIDE DEF o
  <2>1. o \o s \in Seq(Entries) /\ Len(o \o s) = Len(o) + Len(s)
    BY <1>1, ConcatProperties
  <2>2. \A k \in 1 .. Len(o) + Len(s) : (o \o s)[k] = IF k <= Len(o) THEN o[k] ELSE s[k - Len(o)]
    BY <1>1, ConcatProperties
  <2> QED BY <1>1, <2>1, <2>2
<1> HIDE DEF o
<1>3. r[1] = e /\ Len(r) = n + 1 /\ \A k \in 1 .. n : r[k + 1] = s[k]
  BY <1>1, <1>2
<1> DEFINE S == Unpaired(r, W)
           T == Unpaired(s, W)
<1>4. S \in SUBSET (1 .. n + 1) /\ T = {k \in 1 .. n : k + 1 \in S} /\ (1 \in S <=> e.tid = NoTid /\ e.pid \in W)
  BY <1>1, <1>3 DEF Unpaired
<1> HIDE DEF S, T
<1>5. Cardinality(T) \in Nat /\ Cardinality(S) = IF 1 \in S THEN Cardinality(T) + 1 ELSE Cardinality(T)
  BY <1>1, <1>4, ShiftedCard
<1>6. Cardinality(S) = Cardinality(T) + Waits(e, W)
  BY <1>4, <1>5 DEF Waits
<1> QED BY <1>2, <1>6 DEF S, T, Waiting

Completed(r, s, k, t) == r = [s EXCEPT ![k].tid = t]

LEMMA WaitingDone ==
    ASSUME NEW s \in Seq(Entries), NEW k \in 1 .. Len(s), s[k].tid = NoTid, NEW t \in Tids,
           NEW r, Completed(r, s, k, t), NEW W
    PROVE  r \in Seq(Entries) /\ Waiting(r, W) \in Nat /\ Waiting(r, W) + Waits(s[k], W) = Waiting(s, W)
<1> DEFINE e == [s[k] EXCEPT !.tid = t]
<1>1. s[k] \in Entries
  BY ElementOfSeq
<1>2. e \in Entries /\ e.tid = t /\ e.pid = s[k].pid
  BY <1>1 DEF Entries
<1>3. r = [s EXCEPT ![k] = e]
  BY DEF Completed
<1> HIDE DEF e
<1>4. /\ r \in Seq(Entries) /\ Len(r) = Len(s)
      /\ \A j \in 1 .. Len(s) : r[j] = IF j = k THEN e ELSE s[j]
  BY <1>2, <1>3, EntrySet
<1>5. Unpaired(r, W) = Unpaired(s, W) \ {k}
  BY <1>2, <1>4, TableAssumption DEF Unpaired
<1>6. k \in Unpaired(s, W) <=> s[k].pid \in W
  BY DEF Unpaired
<1>7. IsFiniteSet(Unpaired(s, W)) /\ Waiting(s, W) \in Nat
  BY UnpairedFacts
<1>8. Cardinality(Unpaired(s, W) \ {k}) = IF k \in Unpaired(s, W) THEN Cardinality(Unpaired(s, W)) - 1 ELSE Cardinality(Unpaired(s, W))
  BY <1>7, FS_RemoveElement
<1>9. Waiting(r, W) \in Nat
  BY <1>4, UnpairedFacts
<1> DEFINE c == Cardinality(Unpaired(s, W))
           d == Cardinality(Unpaired(s, W) \ {k})
<1>10. c \in Nat /\ d \in Nat /\ d + Waits(s[k], W) = c
  <2>1. c \in Nat /\ d \in Nat
    BY <1>5, <1>7, <1>9 DEF Waiting
  <2>2. d = IF s[k].pid \in W THEN c - 1 ELSE c
    BY <1>6, <1>8
  <2> HIDE DEF c, d
  <2> QED BY <2>1, <2>2 DEF Waits
<1> QED BY <1>4, <1>5, <1>9, <1>10 DEF Waiting

\* uftrace reads a message and settles it.
LEMMA ReadFork ==
    ASSUME TableInv, ForkInv, NEW m, Reads(m), UNCHANGED progVars, mode' = mode,
           \A W : W = All \/ (orphans = {} /\ \E p \in All : W = {p}) => Settles(m, W),
           orphans = {} => \A f \in forkInfo' : f \in forkInfo \/ (m.type = "FORK_END" /\ f = [ppid |-> m.pid, pid |-> m.tid])
    PROVE  ForkInv'
<1>1. pipe \in Seq(Msgs) /\ table \in Seq(Entries)
  BY DEF TableInv, Shape, TypeOK, Entries
<1>2. /\ st' = st /\ pid' = pid /\ ppid' = ppid /\ parent' = parent /\ orphans' = orphans
  BY DEF progVars
<1>3. \A t : From(t)' = From(t)
  BY <1>2 DEF From
<1>4. \A W : Due(W)' = Due(W)
  BY <1>2, <1>3 DEF Due
<1>5. ASSUME NEW W, Balanced(W), Settles(m, W) PROVE Balanced(W)'
  BY <1>1, <1>4, <1>5, ReadBalance
<1>6. Balanced(All)'
  <2>1. Settles(m, All) /\ Balanced(All)
    BY DEF ForkInv
  <2> QED BY <1>5, <2>1 DEF All
<1>7. ASSUME orphans = {}, NEW p \in All PROVE Balanced({p})'
  <2>1. Settles(m, {p}) /\ Balanced({p})
    BY <1>7 DEF ForkInv
  <2> QED BY <1>5, <2>1
<1>8. ASSUME orphans = {} PROVE Parents'
  <2>1. Parents
    BY <1>8 DEF ForkInv
  <2>2. \A t \in Tids : st'[t] \in Forked => From(t)' = parent'[t]
    BY <2>1, <1>2, <1>3 DEF Parents
  <2>3. /\ 1 \in 1 .. Len(pipe) /\ pipe[1] = m /\ m \in Msgs
        /\ \A k \in 1 .. Len(pipe') : pipe'[k] = pipe[k + 1] /\ k + 1 \in 1 .. Len(pipe)
    BY <1>1, TakenOff DEF Reads
  <2>4. \A q \in 1 .. Len(pipe') : pipe'[q].type = "FORK_END" =>
           st'[pipe'[q].tid] # "absent" /\ pipe'[q].pid = parent'[pipe'[q].tid]
    BY <2>1, <2>3, <1>2 DEF Parents
  <2>5. ASSUME m.type = "FORK_END" PROVE m.tid \in Tids /\ st[m.tid] # "absent" /\ m.pid = parent[m.tid]
    BY <2>1, <2>3, <2>5 DEF Parents, Msgs
  <2>6. \A f \in forkInfo' : f.pid \in Tids /\ st'[f.pid] # "absent" /\ f.ppid = parent'[f.pid]
    <3> TAKE f \in forkInfo'
    <3>1. CASE f \in forkInfo
      BY <2>1, <3>1, <1>2 DEF Parents
    <3>2. CASE m.type = "FORK_END" /\ f = [ppid |-> m.pid, pid |-> m.tid]
      <4>1. f.ppid = m.pid /\ f.pid = m.tid
        BY <3>2
      <4> QED BY <2>5, <3>2, <4>1, <1>2
    <3> QED BY <1>8, <3>1, <3>2
  <2> QED BY <2>2, <2>4, <2>6 DEF Parents
<1>9. mode' # "error"
  BY DEF ForkInv
<1> QED BY <1>2, <1>6, <1>7, <1>8, <1>9 DEF ForkInv, All

\* A message that is about no fork leaves the entries that wait.
LEMMA ReadOther ==
    ASSUME TableInv, ForkInv, NEW m, Reads(m), UNCHANGED <<progVars, forkInfo, mode>>,
           RecStart(m) \/ RecEnd(m) \/ TaskStart(m) \/ TaskEnd(m)
    PROVE  ForkInv'
<1>1. pipe \in Seq(Msgs) /\ table \in Seq(Entries)
  BY DEF TableInv, Shape, TypeOK, Entries
<1>2. m \in Msgs /\ pipe[1] = m /\ 1 \in 1 .. Len(pipe)
  BY <1>1, TakenOff DEF Reads
<1>3. m.type \notin {"FORK_START", "FORK_END"}
  BY DEF RecStart, RecEnd, TaskStart, TaskEnd
<1>4. \A W : Waiting(table, W) \in Nat
  BY <1>1, UnpairedFacts
<1>5. ASSUME NEW W PROVE Waiting(table', W) = Waiting(table, W)
  <2>1. CASE table' = table
    BY <2>1
  <2>2. CASE TaskStart(m) /\ table' = <<Entry(m.pid, m.tid)>> \o table
    <3>1. m.type = "TASK_START"
      BY <2>2 DEF TaskStart
    <3>2. m.pid \in Tids /\ m.tid \in Tids
      BY <1>2, <3>1 DEF TableInv, Shape, Msgs
    <3>3. Entry(m.pid, m.tid) \in Entries /\ Entry(m.pid, m.tid).tid # NoTid
      BY <3>2, TableAssumption DEF Entry, Entries
    <3>4. PICK r, e : e = Entry(m.pid, m.tid) /\ Prepended(r, e, table) /\ table' = r
      BY <2>2 DEF Prepended
    <3>5. Waiting(r, W) = Waiting(table, W) + Waits(e, W)
      BY <1>1, <3>3, <3>4, WaitingAdded
    <3>6. Waits(e, W) = 0
      BY <3>3, <3>4 DEF Waits
    <3> QED BY <3>4, <3>5, <3>6, <1>4
  <2>3. CASE TaskEnd(m)
    <3>1. PICK r : r = MarkExited(table, m.tid)
      OBVIOUS
    <3>2. /\ r \in Seq(Entries) /\ Len(r) = Len(table)
          /\ \A k \in 1 .. Len(table) : r[k].tid = table[k].tid /\ r[k].pid = table[k].pid
      BY <1>1, <3>1, MarkExitedFacts
    <3>3. Waiting(r, W) = Waiting(table, W)
      BY <1>1, <3>2, WaitingSame
    <3>4. table' = r
      BY <2>3, <3>1 DEF TaskEnd
    <3> QED BY <3>3, <3>4
  <2> QED BY <2>1, <2>2, <2>3 DEF RecStart, RecEnd, TaskStart
<1>6. \A W : Settles(m, W)
  BY <1>3, <1>4, <1>5 DEF Settles, One
<1> QED BY <1>6, ReadFork

\* FORK_START adds an entry that waits.
LEMMA ReadForkStart ==
    ASSUME TableInv, ForkInv, NEW m, Reads(m), UNCHANGED progVars, ForkStarted(m)
    PROVE  ForkInv'
<1>1. pipe \in Seq(Msgs) /\ table \in Seq(Entries)
  BY DEF TableInv, Shape, TypeOK, Entries
<1>2. m \in Msgs /\ m.type = "FORK_START"
  BY <1>1, TakenOff DEF Reads, ForkStarted
<1> DEFINE e == Entry(m.pid, NoTid)
<1>3. e \in Entries /\ e.tid = NoTid /\ e.pid = m.pid
  BY <1>2 DEF Entry, Entries, Msgs, About
<1>4. table' = <<e>> \o table /\ UNCHANGED <<forkInfo, mode>>
  BY DEF ForkStarted
<1> HIDE DEF e
<1>5. ASSUME NEW W PROVE Settles(m, W)
  <2>1. PICK r : Prepended(r, e, table) /\ table' = r
    BY <1>4 DEF Prepended
  <2>2. r \in Seq(Entries) /\ Waiting(r, W) = Waiting(table, W) + Waits(e, W)
    BY <1>1, <1>3, <2>1, WaitingAdded
  <2>3. Waiting(r, W) \in Nat /\ Waiting(table, W) \in Nat
    BY <1>1, <2>2, UnpairedFacts
  <2>4. One(m, "FORK_START", W) = Waits(e, W) /\ One(m, "FORK_END", W) = 0
    BY <1>2, <1>3 DEF One, Waits
  <2> QED BY <2>1, <2>2, <2>3, <2>4 DEF Settles
<1> QED BY <1>4, <1>5, ReadFork

\* FORK_END completes an entry, and one of its parent when no child was orphaned.
LEMMA ReadForkEnd ==
    ASSUME TableInv, ForkInv, NEW m, Reads(m), UNCHANGED progVars, ForkEnded(m)
    PROVE  ForkInv'
<1>1. pipe \in Seq(Msgs) /\ table \in Seq(Entries)
  BY DEF TableInv, Shape, TypeOK, Entries
<1>2. m \in Msgs /\ m.type = "FORK_END"
  BY <1>1, TakenOff DEF Reads, ForkEnded
<1>3. m.pid \in All /\ m.tid \in Tids
  BY <1>2 DEF Msgs, About, All
<1> DEFINE at == ForkEntries(m.pid)
           mine == {k \in 1 .. Len(table) : table[k].pid = m.pid /\ table[k].tid = NoTid}
           any == {k \in 1 .. Len(table) : table[k].tid = NoTid}
<1>4. at = IF mine # {} THEN mine ELSE any
  BY DEF ForkEntries, Positions
<1>5. any # {}
  <2>1. Unpaired(table, All) # {}
    BY <1>1, <1>2, <1>3, EntryWaits DEF ForkInv
  <2> QED BY <2>1 DEF Unpaired
<1>6. orphans = {} => mine # {}
  <2>1. orphans = {} => Unpaired(table, {m.pid}) # {}
    BY <1>1, <1>2, <1>3, EntryWaits DEF ForkInv
  <2> QED BY <2>1 DEF Unpaired
<1>7. PICK k \in 1 .. Len(table) : k = First(at) /\ table[k].tid = NoTid /\ (orphans = {} => table[k].pid = m.pid)
  <2>1. Len(table) \in Nat /\ at \subseteq 1 .. Len(table) /\ at # {}
    BY <1>1, <1>4, <1>5
  <2>2. First(at) \in at
    <3> HIDE DEF at
    <3> QED BY <2>1, FirstFacts
  <2> QED BY <2>2, <1>4, <1>6
<1>8. /\ table' = [table EXCEPT ![k].tid = m.tid] /\ mode' = mode
      /\ forkInfo' = forkInfo \cup {[ppid |-> table[k].pid, pid |-> m.tid]}
  <2>1. at # {}
    BY <1>4, <1>5
  <2> HIDE DEF at
  <2> QED BY <2>1, <1>7 DEF ForkEnded, at
<1> HIDE DEF at, mine, any
<1>9. table[k].pid \in All
  <2>1. table[k] \in Entries
    BY <1>1, ElementOfSeq
  <2> QED BY <2>1 DEF Entries, All
<1>10. ASSUME NEW W, W = All \/ (orphans = {} /\ \E p \in All : W = {p}) PROVE Settles(m, W)
  <2>1. table[k].pid \in W <=> m.pid \in W
    BY <1>3, <1>7, <1>9, <1>10
  <2>2. PICK t \in Tids : t = m.tid
    BY <1>3
  <2>3. PICK r : Completed(r, table, k, t) /\ table' = r
    BY <1>8, <2>2 DEF Completed
  <2>4. Waiting(r, W) \in Nat /\ Waiting(r, W) + Waits(table[k], W) = Waiting(table, W)
    BY <1>1, <1>7, <2>3, WaitingDone
  <2>5. Waiting(table, W) \in Nat
    BY <1>1, UnpairedFacts
  <2>6. One(m, "FORK_START", W) = 0 /\ One(m, "FORK_END", W) = Waits(table[k], W)
    BY <1>2, <1>7, <2>1 DEF One, Waits
  <2> QED BY <2>3, <2>4, <2>5, <2>6 DEF Settles
<1>11. orphans = {} => \A f \in forkInfo' : f \in forkInfo \/ (m.type = "FORK_END" /\ f = [ppid |-> m.pid, pid |-> m.tid])
  BY <1>2, <1>7, <1>8
<1> QED BY <1>8, <1>10, <1>11, ReadFork


\* uftrace looks after the flags of the entries and reads nothing.
LEMMA FlagsFork ==
    ASSUME TableInv, ForkInv, UNCHANGED <<progVars, pipe, forkInfo>>, mode' # "error",
           table' \in Seq(Entries), Len(table') = Len(table),
           \A k \in 1 .. Len(table) : table'[k].tid = table[k].tid /\ table'[k].pid = table[k].pid
    PROVE  ForkInv'
<1>1. pipe \in Seq(Msgs) /\ table \in Seq(Entries)
  BY DEF TableInv, Shape, TypeOK, Entries
<1>2. /\ st' = st /\ pid' = pid /\ ppid' = ppid /\ parent' = parent /\ orphans' = orphans
      /\ pipe' = pipe /\ forkInfo' = forkInfo
  BY DEF progVars
<1>3. \A W : Due(W)' = Due(W)
  BY <1>2 DEF Due, From
<1>4. PICK r \in Seq(Entries) : r = table'
  OBVIOUS
<1>5. \A W : Waiting(r, W) = Waiting(table, W)
  <2>1. /\ Len(r) = Len(table)
        /\ \A k \in 1 .. Len(table) : r[k].tid = table[k].tid /\ r[k].pid = table[k].pid
    BY <1>4
  <2> QED BY <1>1, <2>1, WaitingSame
<1>6. ASSUME NEW W, Balanced(W) PROVE Balanced(W)'
  <2>1. IsFiniteSet(Due(W)') /\ Cardinality(Due(W)') <= Cardinality(Due(W))
    BY <1>3, <1>6, DueFewer
  <2> QED BY <1>1, <1>2, <1>4, <1>5, <1>6, <2>1, QuietBalance
<1>7. Parents => Parents'
  BY <1>2 DEF Parents, From
<1> QED BY <1>2, <1>6, <1>7 DEF ForkInv, All

LEMMA SigChldFork ==
    ASSUME TableInv, ForkInv, SigChld
    PROVE  ForkInv'
<1>1. table \in Seq(Entries) /\ mode # "error"
  BY DEF TableInv, Shape, TypeOK, Entries, ForkInv
<1>2. PICK r : r = MarkExited(table, Root)
  OBVIOUS
<1>3. /\ r \in Seq(Entries) /\ Len(r) = Len(table)
      /\ \A k \in 1 .. Len(table) : r[k].tid = table[k].tid /\ r[k].pid = table[k].pid
  BY <1>1, <1>2, MarkExitedFacts
<1>4. table' = r /\ UNCHANGED <<progVars, pipe, forkInfo, mode>>
  BY <1>2 DEF SigChld
<1> QED BY <1>1, <1>3, <1>4, FlagsFork

LEMMA CheckTidListFork ==
    ASSUME TableInv, ForkInv, CheckTidList
    PROVE  ForkInv'
<1>1. table \in Seq(Entries)
  BY DEF TableInv, Shape, TypeOK, Entries
<1>2. PICK r : r = Checked(table)
  OBVIOUS
<1>3. /\ r \in Seq(Entries) /\ Len(r) = Len(table)
      /\ \A k \in 1 .. Len(table) : r[k].tid = table[k].tid /\ r[k].pid = table[k].pid
  BY <1>1, <1>2, CheckedFacts
<1>4. table' = r /\ UNCHANGED <<progVars, pipe, forkInfo>> /\ mode' \in {"stopped", "drain"}
  BY <1>2 DEF CheckTidList
<1> QED BY <1>3, <1>4, FlagsFork

LEMMA HangupFork ==
    ASSUME TableInv, ForkInv, Hangup
    PROVE  ForkInv'
<1>1. table \in Seq(Entries)
  BY DEF TableInv, Shape, TypeOK, Entries
<1>2. UNCHANGED <<progVars, pipe, table, forkInfo>> /\ mode' = "drain"
  BY DEF Hangup
<1> QED BY <1>1, <1>2, FlagsFork

LEMMA StillFork ==
    ASSUME TableInv, ForkInv, UNCHANGED vars
    PROVE  ForkInv'
<1>1. table \in Seq(Entries) /\ mode # "error"
  BY DEF TableInv, Shape, TypeOK, Entries, ForkInv
<1>2. UNCHANGED <<progVars, pipe, table, forkInfo, mode>>
  BY DEF vars, recVars
<1> QED BY <1>1, <1>2, FlagsFork

LEMMA ReadMessageFork ==
    ASSUME TableInv, ForkInv, ReadMessage
    PROVE  ForkInv'
<1>1. PICK m : Reads(m) /\ (RecStart(m) \/ RecEnd(m) \/ TaskStart(m) \/ TaskEnd(m) \/ ForkStarted(m) \/ ForkEnded(m))
  BY DEF ReadMessage, Reads
<1>2. UNCHANGED progVars
  BY DEF ReadMessage
<1>3. CASE RecStart(m) \/ RecEnd(m) \/ TaskStart(m) \/ TaskEnd(m)
  <2>1. UNCHANGED <<progVars, forkInfo, mode>>
    BY <1>2, <1>3 DEF RecStart, RecEnd, TaskStart, TaskEnd
  <2> QED BY <1>1, <1>3, <2>1, ReadOther
<1>4. CASE ForkStarted(m)
  BY <1>1, <1>2, <1>4, ReadForkStart
<1>5. CASE ForkEnded(m)
  BY <1>1, <1>2, <1>5, ReadForkEnd
<1> QED BY <1>1, <1>3, <1>4, <1>5

LEMMA ProgramFork ==
    ASSUME TableInv, ForkInv, UNCHANGED recVars, Program
    PROVE  ForkInv'
<1>1. PICK u \in Tids :
          \/ PrepareBuffer(u) \/ PrepareTask(u) \/ Record(u)
          \/ \E v \in ThreadTids : CloneThread(u, v)
          \/ ForkPrepare(u) \/ ForkSystemCall(u) \/ ForkChild(u) \/ ForkEnd(u)
          \/ Exec(u) \/ ThreadExit(u) \/ ThreadEnd(u) \/ ProcessExit(u)
  BY DEF Program
<1>2. (\E v \in ThreadTids : CloneThread(u, v)) => \E v \in Tids : CloneThread(u, v)
  BY TableAssumption
<1>3. CASE ForkPrepare(u) \/ ForkSystemCall(u) \/ ForkChild(u) \/ ForkEnd(u)
  BY <1>3, ForkPrepareStep, ForkSystemCallStep, ForkChildStep, ForkEndStep
<1>4. CASE ~(ForkPrepare(u) \/ ForkSystemCall(u) \/ ForkChild(u) \/ ForkEnd(u))
  <2>1. \/ PrepareBuffer(u) \/ PrepareTask(u) \/ Record(u) \/ (\E v \in Tids : CloneThread(u, v))
        \/ Exec(u) \/ ThreadExit(u) \/ ThreadEnd(u) \/ ProcessExit(u)
    BY <1>1, <1>2, <1>4
  <2> QED BY <2>1, OtherSteps
<1> QED BY <1>3, <1>4

LEMMA ForkInit == Init => ForkInv
<1> SUFFICES ASSUME Init PROVE ForkInv
  OBVIOUS
<1>1. /\ pipe = << >> /\ table = << >> /\ forkInfo = {} /\ mode = "loop" /\ Len(<< >>) = 0 /\ 1 .. 0 = {}
      /\ \A t \in Tids : st[t] \in {"new", "absent"}
  BY DEF Init
<1>2. ASSUME NEW W PROVE Balanced(W)
  <2>1. Due(W) = {} /\ Unpaired(<< >>, W) = {}
    BY <1>1 DEF Due, Unpaired, Forking, Forked
  <2>2. Sent(<< >>, "FORK_END", W, 0) = {} /\ Sent(<< >>, "FORK_START", W, 0) = {}
    BY <1>1 DEF Sent
  <2>3. IsFiniteSet({}) /\ Cardinality({}) = 0
    BY FS_EmptySet
  <2>4. Ending(pipe, W, 0) = 0 /\ Starting(pipe, W, 0) = 0 /\ Waiting(table, W) = 0
    BY <1>1, <2>1, <2>2, <2>3 DEF Ending, Starting, Waiting
  <2>5. IsFiniteSet(Due(W)) /\ Cardinality(Due(W)) = 0
    BY <2>1, <2>3
  <2>6. Len(pipe) = 0
    BY <1>1
  <2> QED BY <1>1, <2>4, <2>5, <2>6 DEF Balanced
<1>3. Parents
  BY <1>1 DEF Parents, Forked
<1> QED BY <1>1, <1>2, <1>3 DEF ForkInv

\* Every step keeps the balance of forks.
LEMMA ForkNext == TableInv /\ ForkInv /\ [Next]_vars => ForkInv'
<1> SUFFICES ASSUME TableInv, ForkInv, [Next]_vars PROVE ForkInv'
  OBVIOUS
<1>1. CASE mode \in {"loop", "drain"} /\ Program /\ UNCHANGED recVars
  BY <1>1, ProgramFork
<1>2. CASE ReadMessage
  BY <1>2, ReadMessageFork
<1>3. CASE Hangup
  BY <1>3, HangupFork
<1>4. CASE CheckTidList
  BY <1>4, CheckTidListFork
<1>5. CASE SigChld
  BY <1>5, SigChldFork
<1>6. CASE Stopped
  BY <1>6, StillFork DEF Stopped
<1>7. CASE UNCHANGED vars
  BY <1>7, StillFork
<1> QED BY <1>1, <1>2, <1>3, <1>4, <1>5, <1>6, <1>7 DEF Next, Recorder

\* The balance says that the search ends with an entry, and Parents that its parent is right.
LEMMA InvForksPaired == ForkInv => ForksPaired
  BY DEF ForkInv, Parents, ForksPaired, ForkEndFindsEntry, ForkParentRight

-----------------------------------------------------------------------------
(* The theorems *)

\* However tasks fork, exec, end and are killed, TableInv holds: the lists and the messages
\* under way are in the order of the programs, and a task in tid_list_head whose thread did
\* not end has an older buffer listed (read_record_mmap()).
THEOREM TableInvariant == Spec => []TableInv
<1> QED BY InitInv, NextInv, PTL DEF Spec

\* flush_old_shmem() hands over the buffer of the old program at an exec and never that of the
\* new one, and when check_tid_list() lets uftrace stop, each task that recorded has its entry
\* and each of its buffers is listed or was handed over.
THEOREM NothingIsForgotten == Spec => []NothingForgotten
<1> QED BY TableInvariant, InvNothingForgotten, PTL

\* However forks of several processes overlap, FORK_END finds an entry that FORK_START made, and
\* task.txt names the right parent of each child as long as none was orphaned before it asked
\* for its parent (read_record_mmap(), atfork_child_handler()).
THEOREM ForksArePaired == Spec => []ForksPaired
<1>1. Init => TableInv /\ ForkInv
  BY InitInv, ForkInit
<1>2. TableInv /\ ForkInv /\ [Next]_vars => TableInv' /\ ForkInv'
  BY NextInv, ForkNext
<1>3. TableInv /\ ForkInv => ForksPaired
  BY InvForksPaired
<1> QED BY <1>1, <1>2, <1>3, PTL DEF Spec

-----------------------------------------------------------------------------
(* The data of every CPU *)

Values == {"default", "set", "off"}
Pieces == [src : Sources \cup {"none"}, cpu : Cpus, data : Seq(Nat), head : Nat]
Places == [at : Int, src : Sources, cpu : Cpus]
Rings == [buf : [0 .. Ring - 1 -> Nat], head : Nat, tail : Nat]

\* start_tracing() gave the CPU to this writer.
Serves(w, c) == \E k \in DOMAIN CpusOf(w) : CpusOf(w)[k] = c
Server(c) == CHOOSE w \in Writers : Serves(w, c)

\* The numbers after a, in order
Follows(q, a) == \A i \in 1 .. Len(q) : q[i] = a + i

CpuTypes ==
    /\ conf \in Confs /\ main \in {"setup", "start", "run", "join", "end"}
    /\ fs \in [Files -> Values]
    /\ kern \in BOOLEAN /\ enabled \in BOOLEAN /\ perf \in BOOLEAN
    /\ child \in {"waits", "runs", "gone"} /\ stop \in {"no", "child", "user"}
    /\ made \in [Sources -> [Cpus -> Nat]]
    /\ raw \in [Cpus -> Seq(Nat)] /\ ring \in [Cpus -> Rings]
    /\ saved \in [Sources -> [Cpus -> Seq(Nat)]]
    /\ wr \in [Writers -> [pc : {"none", "loop", "last", "done"}, todo : SUBSET Places, have : Pieces]]

\* All files that must be there are there.
Complete == conf.missing \subseteq OldKernel

\* The files of tracefs: whoever is not traced by ftrace, or not any more, finds the defaults.
FilesInv ==
    /\ \A x \in conf.missing : fs[x] = "default"
    /\ kern => conf.kernel \/ conf.events
    /\ main # "setup" /\ kern => Complete
    /\ main \in {"setup", "end"} \/ ~kern => \A x \in Files : fs[x] = "default"
    /\ main \in {"start", "run", "join"} => enabled = kern
    /\ main = "join" /\ kern => fs["tracing_on"] = "off"

\* The threads
PhaseInv ==
    /\ main \in {"setup", "start"} => child = "waits" /\ \A w \in Writers : wr[w].pc = "none"
    /\ main = "end" => (kern => \A c \in Cpus : raw[c] = << >>) /\ \A w \in Writers : wr[w].pc = "done"
    /\ stop = "child" => child = "gone"
    /\ main \in {"join", "end"} <=> stop # "no"
    /\ \A w \in Writers :
        /\ wr[w].pc \in {"last", "done"} => stop # "no"
        /\ wr[w].pc \in {"none", "done"} => wr[w].todo = {} /\ wr[w].have = Nothing
        /\ \A x \in wr[w].todo : Serves(w, x.cpu)
        /\ wr[w].have # Nothing => wr[w].have.src \in Sources /\ Serves(w, wr[w].have.cpu)

\* What the server of a CPU has in hands
Held(src, c) ==
    LET h == wr[Server(c)].have IN IF h.src = src /\ h.cpu = c THEN h.data ELSE << >>

\* What ftrace wrote down is saved, in the hands of the writer, or in the pipe.
KernelFlow(c) ==
    LET n == Len(saved["kernel"][c])
        k == Len(Held("kernel", c))
    IN /\ Follows(saved["kernel"][c], 0) /\ Follows(Held("kernel", c), n) /\ Follows(raw[c], n + k)
       /\ made["kernel"][c] = n + k + Len(raw[c])

\* What perf wrote down is saved or in the ring, and what the writer has in hands is still there.
RingHolds(r) ==
    /\ r.tail <= r.head /\ r.head - r.tail <= Ring
    /\ \A i \in Nat : r.tail <= i /\ i < r.head => r.buf[i % Ring] = i + 1

PerfFlow(c) ==
    LET n == Len(saved["perf"][c])
        h == wr[Server(c)].have
    IN /\ RingHolds(ring[c]) /\ ring[c].tail = n /\ ring[c].head = made["perf"][c]
       /\ Follows(saved["perf"][c], 0) /\ Follows(Held("perf", c), n)
       /\ h.src = "perf" /\ h.cpu = c => h.head = n + Len(h.data) /\ h.head <= ring[c].head

\* The last look of a writer, after the child is gone, leaves nothing in a ring.
LastLook(w) ==
    wr[w].pc \in {"last", "done"} /\ perf /\ stop = "child" =>
        \A c \in Cpus : Serves(w, c) =>
            \/ \E x \in wr[w].todo : x.src = "perf" /\ x.cpu = c
            \/ wr[w].have.src = "perf" /\ wr[w].have.cpu = c /\ wr[w].have.head = ring[c].head
            \/ ring[c].tail = ring[c].head

\* What start_tracing() and finish_kernel_tracing() leave undone is left out: the files of all
\* CPUs open, and ftrace is not recorded for a remote host.
Works == ~OpenFails /\ \A c \in Confs : c.remote => ~c.kernel /\ ~c.events

CpuInv ==
    /\ CpuTypes /\ FilesInv /\ PhaseInv
    /\ \A c \in Cpus : KernelFlow(c) /\ PerfFlow(c)
    /\ \A w \in Writers : LastLook(w)

-----------------------------------------------------------------------------
(* Arithmetic and sequences *)

LEMMA Monotone == ASSUME NEW a \in Nat, NEW b \in Nat, NEW p \in Nat, a <= b PROVE a * p <= b * p
OBVIOUS

LEMMA StepUp == ASSUME NEW a \in Nat, NEW b \in Nat, NEW p \in Nat, a < b PROVE a * p + p <= b * p
<1>1. (a + 1) * p <= b * p
  BY Monotone
<1> QED BY <1>1

LEMMA ModFacts ==
    ASSUME NEW n \in Nat, NEW r \in Nat \ {0}
    PROVE  n % r \in 0 .. r - 1 /\ n \div r \in Nat /\ n = r * (n \div r) + (n % r)
<1>1. n % r \in 0 .. r - 1
  OBVIOUS
<1>2. n \div r \in Nat
  OBVIOUS
<1>3. n = r * (n \div r) + (n % r)
  OBVIOUS
<1> QED BY <1>1, <1>2, <1>3

LEMMA ModUnique ==
    ASSUME NEW q \in Nat, NEW k \in Nat, NEW r \in Nat \ {0}, k < r
    PROVE  (r * q + k) % r = k
OBVIOUS

LEMMA ModShift ==
    ASSUME NEW n \in Nat, NEW r \in Nat \ {0}, NEW d \in 0 .. r
    PROVE  (n + d) % r = IF (n % r) + d < r THEN (n % r) + d ELSE (n % r) + d - r
<1>1. PICK q \in Nat, k \in 0 .. r - 1 : n = r * q + k /\ n % r = k
  BY ModFacts
<1>2. CASE k + d < r
  <2>1. (r * q + (k + d)) % r = k + d
    BY <1>2, ModUnique
  <2>2. n + d = r * q + (k + d)
    BY <1>1
  <2> QED BY <1>1, <1>2, <2>1, <2>2
<1>3. CASE k + d >= r
  <2>1. PICK j \in Nat, p \in Nat : j = k + d - r /\ j < r /\ p = q + 1
    BY <1>3
  <2>2. (r * p + j) % r = j
    BY <2>1, ModUnique
  <2>3. n + d = r * p + j
    BY <1>1, <2>1
  <2> QED BY <1>1, <1>3, <2>1, <2>2, <2>3
<1> QED BY <1>2, <1>3

LEMMA ConcatFacts ==
    ASSUME NEW s \in Seq(Nat), NEW t \in Seq(Nat)
    PROVE  /\ s \o t \in Seq(Nat) /\ Len(s \o t) = Len(s) + Len(t)
           /\ Len(s) \in Nat /\ Len(t) \in Nat
           /\ \A i \in 1 .. Len(s) + Len(t) : (s \o t)[i] = IF i <= Len(s) THEN s[i] ELSE t[i - Len(s)]
OBVIOUS

LEMMA ConcatFollows ==
    ASSUME NEW s \in Seq(Nat), NEW t \in Seq(Nat), NEW a \in Nat, Follows(s, a), Follows(t, a + Len(s))
    PROVE  Follows(s \o t, a)
<1>1. /\ Len(s \o t) = Len(s) + Len(t) /\ Len(s) \in Nat /\ Len(t) \in Nat
      /\ \A i \in 1 .. Len(s) + Len(t) : (s \o t)[i] = IF i <= Len(s) THEN s[i] ELSE t[i - Len(s)]
  BY ConcatFacts
<1>2. ASSUME NEW i \in 1 .. Len(s \o t) PROVE (s \o t)[i] = a + i
  <2>1. CASE i <= Len(s)
    BY <1>1, <2>1 DEF Follows
  <2>2. CASE i > Len(s)
    <3>1. i - Len(s) \in 1 .. Len(t)
      BY <1>1, <2>2
    <3>2. t[i - Len(s)] = (a + Len(s)) + (i - Len(s))
      BY <3>1 DEF Follows
    <3> QED BY <1>1, <2>2, <3>2
  <2> QED BY <1>1, <2>1, <2>2
<1> QED BY <1>2 DEF Follows

LEMMA EmptyFacts == << >> \in Seq(Nat) /\ Len(<< >>) = 0 /\ \A a : Follows(<< >>, a)
<1>1. << >> \in Seq(Nat) /\ Len(<< >>) = 0
  OBVIOUS
<1> QED BY <1>1 DEF Follows

LEMMA AppendFollows ==
    ASSUME NEW s \in Seq(Nat), NEW a \in Nat, NEW e \in Nat, Follows(s, a), e = a + Len(s) + 1
    PROVE  Append(s, e) \in Seq(Nat) /\ Len(Append(s, e)) = Len(s) + 1 /\ Follows(Append(s, e), a)
<1>1. /\ Append(s, e) \in Seq(Nat) /\ Len(Append(s, e)) = Len(s) + 1 /\ Len(s) \in Nat
      /\ \A i \in 1 .. Len(s) + 1 : Append(s, e)[i] = IF i <= Len(s) THEN s[i] ELSE e
  OBVIOUS
<1>2. ASSUME NEW i \in 1 .. Len(s) + 1 PROVE Append(s, e)[i] = a + i
  BY <1>1 DEF Follows
<1> QED BY <1>1, <1>2 DEF Follows

LEMMA FollowsWhole ==
    ASSUME NEW s \in Seq(Nat), Follows(s, 0)
    PROVE  s = Whole(Len(s))
<1>1. \A i \in 1 .. Len(s) : s[i] = i
  BY DEF Follows
<1>2. s = [i \in 1 .. Len(s) |-> s[i]]
  OBVIOUS
<1> QED BY <1>1, <1>2 DEF Whole

-----------------------------------------------------------------------------
(* tracefs *)

\* What a list of writes leaves in a file
LEMMA WriteFacts ==
    ASSUME NEW f \in [Files -> Values], NEW n \in Nat, NEW ws,
           DOMAIN ws = 1 .. n, \A i \in 1 .. n : ws[i].val \in Values /\ ws[i].must \in BOOLEAN
    PROVE  /\ WriteAll(f, ws).fs \in [Files -> Values] /\ WriteAll(f, ws).ok \in BOOLEAN
           /\ \A x \in Files : \/ WriteAll(f, ws).fs[x] = f[x]
                               \/ \E i \in 1 .. n : /\ ws[i].file = x /\ ~Fails(ws[i])
                                                    /\ WriteAll(f, ws).fs[x] = ws[i].val
           /\ WriteAll(f, ws).ok <=> \A i \in 1 .. n : ws[i].must => ~Fails(ws[i])
           /\ WriteAll(f, ws).ok =>
                 \A i \in 1 .. n : ~Fails(ws[i]) /\ ws[i].file \in Files =>
                     \E j \in 1 .. n : ws[j].file = ws[i].file /\ WriteAll(f, ws).fs[ws[i].file] = ws[j].val
<1> DEFINE ends == {i \in 1 .. n : ws[i].must /\ Fails(ws[i])}
           done == {i \in 1 .. n : ~Fails(ws[i]) /\ \A j \in ends : i < j}
           least(x) == CHOOSE i \in done : ws[i].file = x
           g == [x \in Files |-> IF \E i \in done : ws[i].file = x THEN ws[least(x)].val ELSE f[x]]
<1>1. WriteAll(f, ws) = [fs |-> g, ok |-> ends = {}]
  BY DEF WriteAll
<1>2. WriteAll(f, ws).fs = g /\ WriteAll(f, ws).ok = (ends = {})
  BY <1>1
<1>3. \A x : (\E i \in done : ws[i].file = x) => least(x) \in done /\ ws[least(x)].file = x
  OBVIOUS
<1>4. \A x \in Files : IF \E i \in done : ws[i].file = x THEN g[x] = ws[least(x)].val ELSE g[x] = f[x]
  OBVIOUS
<1>5. g \in [Files -> Values]
  <2>1. \A x \in Files : g[x] \in Values
    BY <1>3, <1>4
  <2> QED BY <2>1
<1>6. done \subseteq 1 .. n /\ \A i \in done : ~Fails(ws[i])
  OBVIOUS
<1>7. ends = {} => \A i \in 1 .. n : ~Fails(ws[i]) => i \in done
  OBVIOUS
<1>8. ends = {} <=> \A i \in 1 .. n : ws[i].must => ~Fails(ws[i])
  OBVIOUS
<1> HIDE DEF ends, done, least, g
<1>9. \A x \in Files : \/ g[x] = f[x]
                       \/ \E i \in 1 .. n : ws[i].file = x /\ ~Fails(ws[i]) /\ g[x] = ws[i].val
  BY <1>3, <1>4, <1>6
<1>10. ends = {} => \A i \in 1 .. n : ~Fails(ws[i]) /\ ws[i].file \in Files =>
                        \E j \in 1 .. n : ws[j].file = ws[i].file /\ g[ws[i].file] = ws[j].val
  <2>1. SUFFICES ASSUME ends = {}, NEW i \in 1 .. n, ~Fails(ws[i]), ws[i].file \in Files
                 PROVE  \E j \in 1 .. n : ws[j].file = ws[i].file /\ g[ws[i].file] = ws[j].val
    OBVIOUS
  <2>2. i \in done
    BY <1>7, <2>1
  <2>3. PICK x \in Files : x = ws[i].file
    BY <2>1
  <2>4. PICK j : j = least(x)
    OBVIOUS
  <2>5. j \in done /\ ws[j].file = x
    BY <1>3, <2>2, <2>3, <2>4
  <2>6. g[x] = ws[j].val
    BY <1>4, <2>2, <2>3, <2>4
  <2> QED BY <1>6, <2>3, <2>5, <2>6
<1>11. WriteAll(f, ws).ok \in BOOLEAN /\ (WriteAll(f, ws).ok <=> ends = {})
  BY <1>2
<1>12. PICK r : r = WriteAll(f, ws)
  OBVIOUS
<1>13. r.fs = g /\ r.ok \in BOOLEAN /\ (r.ok <=> ends = {})
  BY <1>2, <1>11, <1>12
<1>14. /\ r.fs \in [Files -> Values]
       /\ \A x \in Files : \/ r.fs[x] = f[x]
                           \/ \E i \in 1 .. n : ws[i].file = x /\ ~Fails(ws[i]) /\ r.fs[x] = ws[i].val
       /\ r.ok => \A i \in 1 .. n : ~Fails(ws[i]) /\ ws[i].file \in Files =>
                      \E j \in 1 .. n : ws[j].file = ws[i].file /\ r.fs[ws[i].file] = ws[j].val
  BY <1>5, <1>9, <1>10, <1>13
<1>15. r.ok <=> \A i \in 1 .. n : ws[i].must => ~Fails(ws[i])
  BY <1>8, <1>13
<1> QED BY <1>12, <1>13, <1>14, <1>15

LEMMA OldFiles == OldKernel \subseteq Files
BY DEF OldKernel, Files

\* reset_tracing_files()
LEMMA ResetFacts ==
    ASSUME NEW f \in [Files -> Values], conf.missing \subseteq Files
    PROVE  /\ ResetTracing(f).fs \in [Files -> Values] /\ ResetTracing(f).ok \in BOOLEAN
           /\ \A x \in Files : ResetTracing(f).fs[x] \in {f[x], "default"}
           /\ ResetTracing(f).ok <=> Complete
           /\ ResetTracing(f).ok => \A x \in Files : x \notin conf.missing => ResetTracing(f).fs[x] = "default"
<1> DEFINE ws == [i \in DOMAIN ResetOrder |-> Write(ResetOrder[i], "default")]
<1>1. DOMAIN ResetOrder = 1 .. 14 /\ 14 \in Nat
  BY DEF ResetOrder
<1>2. \A i \in 1 .. 14 : ResetOrder[i] \in Files
  BY DEF ResetOrder, Files
<1>3. \A x \in Files : \E i \in 1 .. 14 : ResetOrder[i] = x
  BY DEF ResetOrder, Files
<1>4. \A i \in 1 .. 14 : ws[i] = Write(ResetOrder[i], "default")
  BY <1>1
<1>5. \A i \in 1 .. 14 : ws[i].file = ResetOrder[i] /\ ws[i].val = "default"
                         /\ ws[i].must = (ResetOrder[i] \notin OldKernel)
  BY <1>4 DEF Write
<1>6. DOMAIN ws = 1 .. 14
  BY <1>1
<1>7. ResetTracing(f) = WriteAll(f, ws)
  BY DEF ResetTracing
<1> HIDE DEF ws
<1>8. \A i \in 1 .. 14 : Fails(ws[i]) <=> ResetOrder[i] \in conf.missing
  BY <1>5 DEF Fails
<1>9. \A i \in 1 .. 14 : ws[i].val \in Values /\ ws[i].must \in BOOLEAN
  BY <1>5 DEF Values
<1>10. PICK r : r = WriteAll(f, ws)
  OBVIOUS
<1>11. /\ r.fs \in [Files -> Values] /\ r.ok \in BOOLEAN
       /\ \A x \in Files : r.fs[x] = f[x] \/ \E i \in 1 .. 14 : ws[i].file = x /\ ~Fails(ws[i]) /\ r.fs[x] = ws[i].val
       /\ r.ok <=> \A i \in 1 .. 14 : ws[i].must => ~Fails(ws[i])
       /\ r.ok => \A i \in 1 .. 14 : ~Fails(ws[i]) /\ ws[i].file \in Files =>
                     \E j \in 1 .. 14 : ws[j].file = ws[i].file /\ r.fs[ws[i].file] = ws[j].val
  <2>1. PICK n \in Nat : n = 14
    BY <1>1
  <2>2. DOMAIN ws = 1 .. n /\ \A i \in 1 .. n : ws[i].val \in Values /\ ws[i].must \in BOOLEAN
    BY <1>6, <1>9, <2>1
  <2>3. /\ r.fs \in [Files -> Values] /\ r.ok \in BOOLEAN
        /\ \A x \in Files : r.fs[x] = f[x] \/ \E i \in 1 .. n : ws[i].file = x /\ ~Fails(ws[i]) /\ r.fs[x] = ws[i].val
        /\ r.ok <=> \A i \in 1 .. n : ws[i].must => ~Fails(ws[i])
        /\ r.ok => \A i \in 1 .. n : ~Fails(ws[i]) /\ ws[i].file \in Files =>
                      \E j \in 1 .. n : ws[j].file = ws[i].file /\ r.fs[ws[i].file] = ws[j].val
    BY <1>10, <2>2, WriteFacts
  <2> QED BY <2>1, <2>3
<1>12. r.ok <=> Complete
  <2>1. r.ok <=> \A i \in 1 .. 14 : ResetOrder[i] \in conf.missing => ResetOrder[i] \in OldKernel
    <3>1. r.ok <=> \A i \in 1 .. 14 : ws[i].must => ~Fails(ws[i])
      BY <1>11
    <3>2. \A i \in 1 .. 14 : (ws[i].must => ~Fails(ws[i])) <=> (ResetOrder[i] \in conf.missing => ResetOrder[i] \in OldKernel)
      BY <1>5, <1>8
    <3> QED BY <3>1, <3>2
  <2>2. Complete <=> \A x \in Files : x \in conf.missing => x \in OldKernel
    BY DEF Complete
  <2>3. Complete <=> \A i \in 1 .. 14 : ResetOrder[i] \in conf.missing => ResetOrder[i] \in OldKernel
    BY <1>2, <1>3, <2>2
  <2> QED BY <2>1, <2>3
<1>13. ASSUME r.ok, NEW x \in Files, x \notin conf.missing PROVE r.fs[x] = "default"
  <2>1. PICK i \in 1 .. 14 : ResetOrder[i] = x
    BY <1>3
  <2>2. ~Fails(ws[i]) /\ ws[i].file = x
    BY <1>5, <1>8, <1>13, <2>1
  <2>3. PICK j \in 1 .. 14 : r.fs[x] = ws[j].val
    BY <1>11, <1>13, <2>2
  <2> QED BY <1>5, <2>3
<1>14. \A x \in Files : r.fs[x] \in {f[x], "default"}
  BY <1>5, <1>11
<1> QED BY <1>7, <1>10, <1>11, <1>12, <1>13, <1>14

LEMMA SetupOrderType == SetupOrder \in Seq(Files \cup {"trace"})
<1> DEFINE S == Files \cup {"trace"}
<1>1. <<"trace", "trace_clock", "set_ftrace_pid", "set_event_pid", "set_graph_function", "set_graph_notrace",
        "set_ftrace_filter", "set_ftrace_notrace", "max_graph_depth">> \in Seq(S)
  BY DEF Files
<1>2. <<"set_event">> \in Seq(S) /\ << >> \in Seq(S) /\ <<"function-fork">> \in Seq(S)
      /\ <<"event-fork">> \in Seq(S) /\ <<"buffer_size_kb", "current_tracer">> \in Seq(S)
  BY DEF Files
<1> HIDE DEF S
<1>3. SetupOrder \in Seq(S)
  BY <1>1, <1>2 DEF SetupOrder
<1> QED BY <1>3 DEF S

\* __setup_kernel_tracing(): all or nothing
LEMMA SetupFacts ==
    ASSUME NEW f \in [Files -> Values], \A x \in Files : f[x] = "default", conf.missing \subseteq Files
    PROVE  /\ SetupTracing(f).fs \in [Files -> Values] /\ SetupTracing(f).ok \in BOOLEAN
           /\ SetupTracing(f).ok => Complete
           /\ ~SetupTracing(f).ok => \A x \in Files : SetupTracing(f).fs[x] = "default"
           /\ \A x \in conf.missing : SetupTracing(f).fs[x] = "default"
<1>1. PICK r : r = ResetTracing(f)
  OBVIOUS
<1>2. PICK g \in [Files -> Values] : g = r.fs
  BY <1>1, ResetFacts
<1>3. r.ok \in BOOLEAN /\ (r.ok <=> Complete) /\ \A x \in Files : g[x] = "default"
  BY <1>1, <1>2, ResetFacts
<1>4. PICK one : one = <<Write("tracing_on", "off")>>
  OBVIOUS
<1>5. DOMAIN one = 1 .. 1 /\ one[1] = Write("tracing_on", "off")
  BY <1>4
<1>6. PICK off : off = WriteAll(g, one)
  OBVIOUS
<1>7. /\ one[1].file = "tracing_on" /\ one[1].val = "off" /\ one[1].must
      /\ \A i \in 1 .. 1 : i = 1
  <2>1. "tracing_on" \notin OldKernel
    BY DEF OldKernel
  <2>2. one[1].must = ("tracing_on" \notin OldKernel)
    BY <1>5 DEF Write
  <2>3. one[1].file = "tracing_on" /\ one[1].val = "off"
    BY <1>5 DEF Write
  <2>4. one[1].must
    BY <2>1, <2>2
  <2>5. \A i \in 1 .. 1 : i = 1
    OBVIOUS
  <2> QED BY <2>3, <2>4, <2>5
<1>8. /\ off.fs \in [Files -> Values] /\ off.ok \in BOOLEAN
      /\ \A x \in Files : off.fs[x] = g[x] \/ (x = "tracing_on" /\ ~Fails(one[1]) /\ off.fs[x] = "off")
      /\ off.ok <=> ~Fails(one[1])
  <2>1. PICK n \in Nat : n = 1
    OBVIOUS
  <2>2. DOMAIN one = 1 .. n /\ \A i \in 1 .. n : one[i].val \in Values /\ one[i].must \in BOOLEAN
    BY <1>5, <1>7, <2>1 DEF Values
  <2>3. /\ off.fs \in [Files -> Values] /\ off.ok \in BOOLEAN
        /\ \A x \in Files : \/ off.fs[x] = g[x]
                            \/ \E i \in 1 .. n : one[i].file = x /\ ~Fails(one[i]) /\ off.fs[x] = one[i].val
        /\ off.ok <=> \A i \in 1 .. n : one[i].must => ~Fails(one[i])
    BY <1>6, <2>2, WriteFacts
  <2> QED BY <1>7, <2>1, <2>3
<1>9. PICK h \in [Files -> Values] : h = off.fs
  BY <1>8
<1>10. PICK ws : ws = [i \in DOMAIN SetupOrder |-> Write(SetupOrder[i], "set")]
  OBVIOUS
<1>11. PICK n \in Nat : n = Len(SetupOrder) /\ DOMAIN SetupOrder = 1 .. n
  BY SetupOrderType
<1>12. DOMAIN ws = 1 .. n /\ \A i \in 1 .. n : ws[i] = Write(SetupOrder[i], "set")
  BY <1>10, <1>11
<1>13. \A i \in 1 .. n : ws[i].val \in Values /\ ws[i].must \in BOOLEAN
  <2>1. \A i \in 1 .. n : ws[i].val = "set" /\ ws[i].must = (SetupOrder[i] \notin OldKernel)
    BY <1>12 DEF Write
  <2> QED BY <2>1 DEF Values
<1>14. PICK s : s = WriteAll(h, ws)
  OBVIOUS
<1>15. /\ s.fs \in [Files -> Values] /\ s.ok \in BOOLEAN
       /\ \A x \in Files : s.fs[x] = h[x] \/ \E i \in 1 .. n : ws[i].file = x /\ ~Fails(ws[i])
  BY <1>12, <1>13, <1>14, WriteFacts
<1>16. PICK k \in [Files -> Values] : k = s.fs
  BY <1>15
<1>17. \A x \in conf.missing : h[x] = "default" /\ k[x] = "default"
  <2>1. \A x \in Files : x \in conf.missing => h[x] = "default"
    BY <1>3, <1>7, <1>8, <1>9 DEF Fails
  <2>2. \A x \in Files : x \in conf.missing => k[x] = h[x]
    BY <1>15, <1>16 DEF Fails
  <2> QED BY <2>1, <2>2
<1>18. ASSUME r.ok PROVE \A x \in Files : ResetTracing(k).fs[x] = "default"
  <2>1. Complete
    BY <1>3, <1>18
  <2>2. PICK z : z = ResetTracing(k)
    OBVIOUS
  <2>3. z.ok /\ \A x \in Files : z.fs[x] \in {k[x], "default"}
    BY <2>1, <2>2, ResetFacts
  <2>4. \A x \in Files : x \notin conf.missing => z.fs[x] = "default"
    BY <2>2, <2>3, ResetFacts
  <2>5. \A x \in Files : x \in conf.missing => z.fs[x] = "default"
    BY <1>17, <2>3
  <2> QED BY <2>2, <2>4, <2>5
<1>19. SetupTracing(f) = IF ~r.ok THEN r ELSE IF ~off.ok THEN off
                         ELSE IF s.ok THEN s ELSE [fs |-> ResetTracing(k).fs, ok |-> FALSE]
  BY <1>1, <1>2, <1>4, <1>6, <1>9, <1>10, <1>14, <1>16 DEF SetupTracing
<1>20. CASE ~r.ok
  BY <1>2, <1>3, <1>19, <1>20
<1>21. CASE r.ok /\ ~off.ok
  <2>1. \A x \in Files : h[x] = "default"
    BY <1>3, <1>8, <1>9, <1>21
  <2>2. SetupTracing(f) = off
    BY <1>19, <1>21
  <2>3. ~off.ok /\ off.ok \in BOOLEAN
    BY <1>8, <1>21
  <2> QED BY <1>9, <1>17, <2>1, <2>2, <2>3
<1>22. CASE r.ok /\ off.ok /\ s.ok
  <2>1. SetupTracing(f) = s
    BY <1>19, <1>22
  <2>2. Complete
    BY <1>3, <1>22
  <2> QED BY <1>16, <1>17, <1>22, <2>1, <2>2
<1>23. CASE r.ok /\ off.ok /\ ~s.ok
  <2>1. ResetTracing(k).fs \in [Files -> Values]
    BY ResetFacts
  <2>2. SetupTracing(f).fs = ResetTracing(k).fs /\ SetupTracing(f).ok = FALSE
    BY <1>19, <1>23
  <2> QED BY <1>18, <1>23, <2>1, <2>2
<1> QED BY <1>3, <1>8, <1>15, <1>20, <1>21, <1>22, <1>23

-----------------------------------------------------------------------------
(* Who reads a CPU *)

Share == (NrCpu + NrThread - 1) \div NrThread

LEMMA ShareFacts == Share \in Nat \ {0} /\ NrCpu <= NrThread * Share
<1>1. NrCpu \in Nat \ {0} /\ NrThread \in Nat \ {0}
  BY CpuAssumption
<1>2. PICK n \in Nat : n = NrCpu + NrThread - 1
  BY <1>1
<1>3. n % NrThread \in 0 .. NrThread - 1 /\ n \div NrThread \in Nat
      /\ n = NrThread * (n \div NrThread) + (n % NrThread)
  BY <1>1, ModFacts
<1>4. Share = n \div NrThread
  BY <1>2 DEF Share
<1>5. PICK s \in Nat : s = Share
  BY <1>3, <1>4
<1>6. PICK p \in Nat : p = NrThread * s
  BY <1>1, <1>5
<1>7. NrCpu <= p
  BY <1>1, <1>2, <1>3, <1>4, <1>5, <1>6
<1>8. s # 0
  BY <1>1, <1>6, <1>7
<1> QED BY <1>5, <1>6, <1>7, <1>8

LEMMA CpusOfFacts ==
    ASSUME NEW w \in Writers
    PROVE  /\ DOMAIN CpusOf(w) = 1 .. Share /\ Len(CpusOf(w)) = Share
           /\ \A k \in 1 .. Share : /\ CpusOf(w)[k] \in Cpus \cup {-1}
                                    /\ CpusOf(w)[k] # -1 => Serves(w, CpusOf(w)[k])
           /\ \A c \in Cpus : Serves(w, c) <=> w * Share <= c /\ c < w * Share + Share
<1>1. PICK s \in Nat : s = Share /\ s # 0
  BY ShareFacts
<1>2. PICK n \in Nat : n = NrCpu
  BY CpuAssumption
<1>3. PICK p \in Nat : p = w * s
  BY <1>1, CpuAssumption DEF Writers
<1>4. CpusOf(w) = [k \in 1 .. s |-> IF p + k - 1 < n THEN p + k - 1 ELSE -1]
  BY <1>1, <1>2, <1>3 DEF CpusOf, Share
<1>5. DOMAIN CpusOf(w) = 1 .. s /\ \A k \in 1 .. s : CpusOf(w)[k] = IF p + k - 1 < n THEN p + k - 1 ELSE -1
  BY <1>4
<1>6. Len(CpusOf(w)) = s
  BY <1>1, <1>2, <1>3, <1>4
<1>7. Cpus = 0 .. n - 1
  BY <1>2 DEF Cpus
<1>8. \A k \in 1 .. s : CpusOf(w)[k] \in Cpus \cup {-1}
  BY <1>3, <1>5, <1>7
<1>9. \A k \in 1 .. s : Serves(w, CpusOf(w)[k])
  BY <1>5 DEF Serves
<1>10. ASSUME NEW c \in Cpus PROVE Serves(w, c) <=> p <= c /\ c < p + s
  <2>1. c \in Nat /\ c < n
    BY <1>7
  <2>2. Serves(w, c) => p <= c /\ c < p + s
    BY <1>3, <1>5, <2>1 DEF Serves
  <2>3. ASSUME p <= c, c < p + s PROVE Serves(w, c)
    <3>1. c - p + 1 \in 1 .. s
      BY <1>3, <2>1, <2>3
    <3>2. CpusOf(w)[c - p + 1] = c
      BY <1>3, <1>5, <2>1, <3>1
    <3> QED BY <1>5, <3>1, <3>2 DEF Serves
  <2> QED BY <2>2, <2>3
<1> QED BY <1>1, <1>3, <1>5, <1>6, <1>8, <1>9, <1>10

\* A CPU has one server.
LEMMA OneServer ==
    ASSUME NEW c \in Cpus
    PROVE  /\ Server(c) \in Writers /\ Serves(Server(c), c)
           /\ \A w \in Writers : Serves(w, c) <=> w = Server(c)
<1>1. PICK s \in Nat \ {0} : s = Share
  BY ShareFacts
<1>2. c \in Nat /\ c < NrCpu /\ NrCpu \in Nat /\ NrThread \in Nat
  BY CpuAssumption DEF Cpus
<1>3. c % s \in 0 .. s - 1 /\ c \div s \in Nat /\ c = s * (c \div s) + (c % s)
  BY <1>1, <1>2, ModFacts
<1>4. PICK q \in Nat : q = c \div s
  BY <1>3
<1>5. PICK p \in Nat : p = q * s
  BY <1>1
<1>6. p <= c /\ c < p + s
  BY <1>1, <1>2, <1>3, <1>4, <1>5
<1>7. q < NrThread
  <2>1. SUFFICES ASSUME NrThread <= q PROVE FALSE
    BY <1>2
  <2>2. PICK t \in Nat : t = NrThread * s
    BY <1>1, <1>2
  <2>3. t <= p
    BY <1>1, <1>2, <1>5, <2>1, <2>2, Monotone
  <2>4. NrCpu <= t
    BY <1>1, <2>2, ShareFacts
  <2> QED BY <1>2, <1>6, <2>3, <2>4
<1>8. q \in Writers
  BY <1>2, <1>7 DEF Writers
<1>9. Serves(q, c)
  BY <1>1, <1>5, <1>6, <1>8, CpusOfFacts
<1>10. ASSUME NEW v \in Writers, Serves(v, c), NEW w \in Writers, Serves(w, c), v < w PROVE FALSE
  <2>1. v \in Nat /\ w \in Nat
    BY CpuAssumption DEF Writers
  <2>2. PICK a \in Nat, b \in Nat : a = v * s /\ b = w * s
    BY <1>1, <2>1
  <2>3. a + s <= b
    BY <1>1, <1>10, <2>1, <2>2, StepUp
  <2>4. c < a + s /\ b <= c
    BY <1>1, <1>10, <2>2, CpusOfFacts
  <2> QED BY <1>1, <1>2, <2>2, <2>3, <2>4
<1>11. \A v, w \in Writers : v < w \/ w < v \/ v = w
  BY CpuAssumption DEF Writers
<1>12. Server(c) \in Writers /\ Serves(Server(c), c)
  BY <1>8, <1>9 DEF Server
<1> QED BY <1>10, <1>11, <1>12

\* Whatever is ready, and whether the control pipe is there, a writer reads of its own CPUs.
LEMMA ReadyFacts ==
    ASSUME NEW w \in Writers, kern \in BOOLEAN, perf \in BOOLEAN, NEW idle \in BOOLEAN,
           NEW ready, ready \subseteq DOMAIN PollFds(w)
    PROVE  Ready(w, idle, ready) \subseteq Places /\ \A x \in Ready(w, idle, ready) : Serves(w, x.cpu)
<1>1. PICK n \in Nat : n = Share /\ n # 0
  BY ShareFacts
<1>2. PICK cpus : cpus = CpusOf(w)
  OBVIOUS
<1>3. Len(cpus) = n /\ \A k \in 1 .. n : cpus[k] \in Cpus \cup {-1} /\ (cpus[k] # -1 => Serves(w, cpus[k]))
  BY <1>1, <1>2, CpusOfFacts
<1>4. PICK f, g : f = [k \in 1 .. n |-> [src |-> "perf", k |-> k]] /\ g = [k \in 1 .. n |-> [src |-> "kernel", k |-> k]]
  OBVIOUS
<1>5. PollFds(w) = (IF perf THEN f ELSE << >>) \o (IF kern THEN g ELSE << >>)
  BY <1>2, <1>3, <1>4 DEF PollFds
<1>6. PICK T : f \in Seq(T) /\ g \in Seq(T) /\ << >> \in Seq(T)
  <2>1. f \in Seq([src : Sources, k : 1 .. n]) /\ g \in Seq([src : Sources, k : 1 .. n])
    BY <1>4 DEF Sources
  <2> QED BY <2>1
<1>7. Len(f) = n /\ Len(g) = n
  BY <1>4
<1>8. PICK l \in Nat : /\ l = (IF perf THEN n ELSE 0) + (IF kern THEN n ELSE 0)
                       /\ Len(PollFds(w)) = l /\ DOMAIN PollFds(w) = 1 .. l
  <2>1. PICK a, b : a = (IF perf THEN f ELSE << >>) /\ b = (IF kern THEN g ELSE << >>)
    OBVIOUS
  <2>2. a \in Seq(T) /\ b \in Seq(T)
    BY <1>6, <2>1
  <2>3. Len(<< >>) = 0
    OBVIOUS
  <2>4. Len(a) = (IF perf THEN n ELSE 0) /\ Len(b) = (IF kern THEN n ELSE 0)
    BY <1>7, <2>1, <2>3
  <2>5. Len(a \o b) = Len(a) + Len(b) /\ DOMAIN (a \o b) = 1 .. Len(a) + Len(b)
    BY <2>2
  <2>6. PICK x \in Nat, y \in Nat : x = Len(a) /\ y = Len(b)
    BY <2>2
  <2>7. PICK p : p = a \o b
    OBVIOUS
  <2>8. PollFds(w) = p
    BY <1>5, <2>1, <2>7
  <2>9. Len(p) = x + y /\ DOMAIN p = 1 .. x + y
    BY <2>5, <2>6, <2>7
  <2>10. x + y = (IF perf THEN n ELSE 0) + (IF kern THEN n ELSE 0) /\ x + y \in Nat
    BY <2>4, <2>6
  <2> HIDE DEF PollFds
  <2> QED BY <2>8, <2>9, <2>10
<1>9. PICK nr \in Nat : nr = (IF idle THEN 1 ELSE 0) + l
  OBVIOUS
<1> DEFINE Of(i) == IF perf /\ i < n + 1 THEN [at |-> i, src |-> "perf", cpu |-> cpus[i]]
                    ELSE [at |-> i, src |-> "kernel", cpu |-> cpus[i - (nr - n) + 1]]
<1>10. Ready(w, idle, ready) = {x \in {Of(i) : i \in ready \cap 1 .. (nr - 1)} : x.cpu # -1}
  BY <1>2, <1>3, <1>8, <1>9 DEF Ready
<1>11. ASSUME NEW i \in ready \cap 1 .. (nr - 1), Of(i).cpu # -1
       PROVE  Of(i) \in Places /\ Serves(w, Of(i).cpu)
  <2>1. i \in 1 .. l /\ i < nr
    BY <1>8
  <2>2. CASE perf /\ i < n + 1
    <3>1. i \in 1 .. n
      BY <2>1, <2>2
    <3>2. Of(i) = [at |-> i, src |-> "perf", cpu |-> cpus[i]]
      BY <2>2
    <3>3. cpus[i] \in Cpus /\ Serves(w, cpus[i])
      BY <1>3, <1>11, <3>1, <3>2
    <3> QED BY <3>1, <3>2, <3>3 DEF Places, Sources
  <2>3. CASE ~(perf /\ i < n + 1)
    <3>1. i - (nr - n) + 1 \in 1 .. n
      BY <1>8, <1>9, <2>1, <2>3
    <3>2. Of(i) = [at |-> i, src |-> "kernel", cpu |-> cpus[i - (nr - n) + 1]]
      BY <2>3
    <3>3. PICK j \in 1 .. n : j = i - (nr - n) + 1
      BY <3>1
    <3>4. cpus[j] \in Cpus /\ Serves(w, cpus[j])
      BY <1>3, <1>11, <3>2, <3>3
    <3> QED BY <2>1, <3>2, <3>3, <3>4 DEF Places, Sources
  <2> QED BY <2>2, <2>3
<1> HIDE DEF Of
<1> QED BY <1>10, <1>11

-----------------------------------------------------------------------------
(* The perf ring buffers *)

\* record_perf_data(): the two parts together are what lies between tail and head.
LEMMA RingDataFacts ==
    ASSUME NEW r \in Rings, RingHolds(r)
    PROVE  /\ RingData(r) \in Seq(Nat) /\ Len(RingData(r)) = r.head - r.tail
           /\ Follows(RingData(r), r.tail)
<1>1. PICK m \in Nat \ {0} : m = Ring
  BY CpuAssumption
<1>2. PICK h \in Nat, t \in Nat, buf \in [0 .. m - 1 -> Nat] : h = r.head /\ t = r.tail /\ buf = r.buf
  BY <1>1 DEF Rings
<1>3. /\ t <= h /\ h - t <= m
      /\ \A i \in Nat : t <= i /\ i < h => buf[i % m] = i + 1
  BY <1>1, <1>2 DEF RingHolds
<1>4. PICK at \in 0 .. m - 1 : at = t % m
  BY <1>1, <1>2, ModFacts
<1>5. \A d \in 0 .. m : (t + d) % m = IF at + d < m THEN at + d ELSE at + d - m
  BY <1>1, <1>2, <1>4, ModShift
<1> DEFINE Slots(from, n) == [i \in 1 .. n |-> buf[from + i - 1]]
<1>6. ASSUME NEW from \in Nat, NEW n \in Nat, from + n <= m
      PROVE  /\ Slots(from, n) \in Seq(Nat) /\ Len(Slots(from, n)) = n
             /\ \A i \in 1 .. n : Slots(from, n)[i] = buf[from + i - 1]
  <2>1. \A i \in 1 .. n : buf[from + i - 1] \in Nat
    <3>1. \A i \in 1 .. n : from + i - 1 \in 0 .. m - 1
      BY <1>6
    <3> QED BY <3>1
  <2> QED BY <2>1
<1>7. PICK size \in 0 .. m : size = h - t /\ h = t + size
  BY <1>3
<1>8. h % m = IF at + size < m THEN at + size ELSE at + size - m
  BY <1>5, <1>7
<1>9. PICK first \in Nat : first = (IF at + size # h % m THEN m - at ELSE 0)
  <2>1. m - at \in Nat /\ 0 \in Nat
    OBVIOUS
  <2>2. PICK x : x = (IF at + size # h % m THEN m - at ELSE 0)
    OBVIOUS
  <2>3. x \in {m - at, 0}
    BY <2>2
  <2> QED BY <2>1, <2>2, <2>3
<1>10. RingData(r) = Slots(at, first) \o Slots((t + first) % m, h - (t + first))
  BY <1>1, <1>2, <1>4, <1>7, <1>9 DEF RingData
<1>11. \/ first = 0 /\ at + size < m
       \/ first = m - at /\ at + size >= m
  BY <1>8, <1>9
<1>12. PICK rest \in Nat, from \in Nat : rest = h - (t + first) /\ from = (t + first) % m /\ rest + first = size
  <2>1. PICK n \in Nat : n = t + first
    OBVIOUS
  <2>2. n % m \in Nat
    BY <2>1, ModFacts
  <2>3. h - n \in Nat /\ (h - n) + first = size
    BY <1>7, <1>11, <2>1
  <2> QED BY <2>1, <2>2, <2>3
<1>13. from = IF at + first < m THEN at + first ELSE at + first - m
  <2>1. PICK d \in 0 .. m : d = first
    BY <1>11
  <2> QED BY <1>5, <1>12, <2>1
<1>14. from + rest <= m
  BY <1>11, <1>12, <1>13
<1>15. PICK s1, s2 : s1 = Slots(at, first) /\ s2 = Slots(from, rest)
  OBVIOUS
<1>16. /\ s1 \in Seq(Nat) /\ Len(s1) = first /\ \A i \in 1 .. first : s1[i] = buf[at + i - 1]
       /\ s2 \in Seq(Nat) /\ Len(s2) = rest /\ \A i \in 1 .. rest : s2[i] = buf[from + i - 1]
  <2>1. at + first <= m
    BY <1>11
  <2> HIDE DEF Slots
  <2>2. PICK x \in Nat : x = at
    OBVIOUS
  <2>3. s1 \in Seq(Nat) /\ Len(s1) = first /\ \A i \in 1 .. first : s1[i] = buf[at + i - 1]
    BY <1>6, <1>15, <2>1, <2>2
  <2>4. s2 \in Seq(Nat) /\ Len(s2) = rest /\ \A i \in 1 .. rest : s2[i] = buf[from + i - 1]
    BY <1>6, <1>14, <1>15
  <2> QED BY <2>3, <2>4
<1>17. Follows(s1, t)
  <2>1. ASSUME NEW i \in 1 .. first PROVE s1[i] = t + i
    <3>1. (t + (i - 1)) % m = at + (i - 1)
      <4>1. PICK d \in 0 .. m : d = i - 1 /\ at + d < m
        BY <1>11
      <4>2. (t + d) % m = at + d
        BY <1>5, <4>1
      <4> QED BY <4>1, <4>2
    <3>2. PICK j \in Nat : j = t + (i - 1) /\ t <= j /\ j < h
      BY <1>7, <1>11
    <3>3. buf[at + (i - 1)] = j + 1
      BY <1>3, <3>1, <3>2
    <3> QED BY <1>16, <3>2, <3>3
  <2> QED BY <1>16, <2>1 DEF Follows
<1>18. Follows(s2, t + first)
  <2>1. ASSUME NEW i \in 1 .. rest PROVE s2[i] = (t + first) + i
    <3>1. PICK d \in 0 .. m : d = first + (i - 1) /\ d < size
      BY <1>12
    <3>2. (t + d) % m = from + (i - 1)
      <4>1. (t + d) % m = IF at + d < m THEN at + d ELSE at + d - m
        BY <1>5
      <4>2. from + (i - 1) = IF at + d < m THEN at + d ELSE at + d - m
        <5>1. CASE first = 0 /\ at + size < m
          <6>1. from = at /\ at + d < m
            BY <1>13, <3>1, <5>1
          <6> QED BY <3>1, <5>1, <6>1
        <5>2. CASE first = m - at /\ at + size >= m
          <6>1. from = 0 /\ ~(at + d < m)
            BY <1>13, <3>1, <5>2
          <6> QED BY <3>1, <5>2, <6>1
        <5> QED BY <1>11, <5>1, <5>2
      <4> QED BY <4>1, <4>2
    <3>3. PICK j \in Nat : j = t + d /\ t <= j /\ j < h
      BY <1>7, <3>1
    <3>4. buf[from + (i - 1)] = j + 1
      BY <1>3, <3>2, <3>3
    <3> QED BY <1>16, <3>1, <3>3, <3>4
  <2> QED BY <1>16, <2>1 DEF Follows
<1>19. RingData(r) = s1 \o s2
  BY <1>10, <1>12, <1>15
<1>20. s1 \o s2 \in Seq(Nat) /\ Len(s1 \o s2) = first + rest
  BY <1>16, ConcatFacts
<1>21. Follows(s1 \o s2, t)
  BY <1>16, <1>17, <1>18, ConcatFollows
<1> QED BY <1>2, <1>7, <1>12, <1>19, <1>20, <1>21

\* record_perf_data() gives the room back: what is left is still in order.
LEMMA RingShrinks ==
    ASSUME NEW r \in Rings, RingHolds(r), NEW h \in Nat, r.tail <= h, h <= r.head
    PROVE  [r EXCEPT !.tail = h] \in Rings /\ RingHolds([r EXCEPT !.tail = h])
           /\ [r EXCEPT !.tail = h].tail = h /\ [r EXCEPT !.tail = h].head = r.head
<1>1. r.head \in Nat /\ r.tail \in Nat /\ Ring \in Nat
  BY CpuAssumption DEF Rings
<1>2. PICK s : s = [r EXCEPT !.tail = h]
  OBVIOUS
<1>3. s \in Rings /\ s.buf = r.buf /\ s.head = r.head /\ s.tail = h
  BY <1>2 DEF Rings
<1>4. RingHolds(s)
  BY <1>1, <1>3 DEF RingHolds
<1> QED BY <1>2, <1>3, <1>4

\* The kernel adds one where there is room.
LEMMA RingGrows ==
    ASSUME NEW r \in Rings, RingHolds(r), r.head - r.tail < Ring, NEW v \in Nat, v = r.head + 1
    PROVE  LET s == [r EXCEPT !.buf[r.head % Ring] = v, !.head = @ + 1]
           IN  s \in Rings /\ RingHolds(s) /\ s.tail = r.tail /\ s.head = v
<1>1. PICK m \in Nat \ {0} : m = Ring
  BY CpuAssumption
<1>2. PICK h \in Nat, t \in Nat, buf \in [0 .. m - 1 -> Nat] : h = r.head /\ t = r.tail /\ buf = r.buf
  BY <1>1 DEF Rings
<1>3. PICK k \in 0 .. m - 1 : k = h % m
  BY <1>1, <1>2, ModFacts
<1>4. PICK b : b = [buf EXCEPT ![k] = v]
  OBVIOUS
<1>5. b \in [0 .. m - 1 -> Nat] /\ b[k] = v /\ \A i \in 0 .. m - 1 : i # k => b[i] = buf[i]
  BY <1>4
<1>6. PICK s : s = [r EXCEPT !.buf[r.head % Ring] = v, !.head = @ + 1]
  OBVIOUS
<1>7. s \in Rings /\ s.buf = b /\ s.head = h + 1 /\ s.tail = t
  <2>1. s.buf = b /\ s.head = h + 1 /\ s.tail = t
    BY <1>1, <1>2, <1>3, <1>4, <1>6 DEF Rings
  <2>2. s = [buf |-> b, head |-> h + 1, tail |-> t]
    BY <1>1, <1>2, <1>3, <1>4, <1>6 DEF Rings
  <2> QED BY <1>1, <1>2, <1>5, <2>1, <2>2 DEF Rings
<1>8. t <= h /\ h - t < m /\ \A i \in Nat : t <= i /\ i < h => buf[i % m] = i + 1
  BY <1>1, <1>2 DEF RingHolds
<1>9. ASSUME NEW i \in Nat, t <= i, i < h + 1 PROVE b[i % m] = i + 1
  <2>1. CASE i = h
    BY <1>2, <1>3, <1>5, <2>1
  <2>2. CASE i < h
    <3>1. PICK d \in 0 .. m : d = h - i /\ d # 0 /\ d # m /\ h = i + d
      BY <1>8, <1>9, <2>2
    <3>2. i % m \in 0 .. m - 1
      BY ModFacts
    <3>3. k = IF (i % m) + d < m THEN (i % m) + d ELSE (i % m) + d - m
      <4>1. (i + d) % m = IF (i % m) + d < m THEN (i % m) + d ELSE (i % m) + d - m
        BY <1>9, ModShift
      <4>2. k = (i + d) % m
        BY <1>3, <3>1
      <4> QED BY <4>1, <4>2
    <3>4. i % m # k
      BY <3>1, <3>2, <3>3
    <3> QED BY <1>5, <1>8, <1>9, <2>2, <3>2, <3>4
  <2> QED BY <1>9, <2>1, <2>2
<1>10. RingHolds(s)
  BY <1>1, <1>7, <1>8, <1>9 DEF RingHolds
<1> QED BY <1>2, <1>6, <1>7, <1>10

-----------------------------------------------------------------------------
(* What a step leaves alone *)

LEMMA Fixed ==
    /\ \A w, c : Serves(w, c)' <=> Serves(w, c)
    /\ \A c : Server(c)' = Server(c)
<1>1. \A w, c : Serves(w, c)' <=> Serves(w, c)
  BY DEF Serves, CpusOf
<1>2. \A c : Server(c)' = Server(c)
  BY DEF Server, Serves, CpusOf, Writers
<1> QED BY <1>1, <1>2

LEMMA FilesSame ==
    ASSUME FilesInv, UNCHANGED <<conf, main, fs, kern, enabled>>
    PROVE  FilesInv'
BY DEF FilesInv, Complete, OldKernel, Files

\* KernelFlow(c) is about these four.
LEMMA KernelSame ==
    ASSUME NEW c \in Cpus, KernelFlow(c),
           saved'["kernel"][c] = saved["kernel"][c], made'["kernel"][c] = made["kernel"][c], raw'[c] = raw[c],
           Held("kernel", c)' = Held("kernel", c)
    PROVE  KernelFlow(c)'
BY DEF KernelFlow, Follows

LEMMA KernelFlowIs ==
    ASSUME NEW c \in Cpus, NEW s, NEW h, NEW q, saved'["kernel"][c] = s, Held("kernel", c)' = h, raw'[c] = q,
           Follows(s, 0), Follows(h, Len(s)), Follows(q, Len(s) + Len(h)),
           made'["kernel"][c] = Len(s) + Len(h) + Len(q)
    PROVE  KernelFlow(c)'
BY DEF KernelFlow, Follows

LEMMA PerfSame ==
    ASSUME NEW c \in Cpus, PerfFlow(c),
           saved'["perf"][c] = saved["perf"][c], made'["perf"][c] = made["perf"][c], ring'[c] = ring[c],
           wr'[Server(c)].have = wr[Server(c)].have
    PROVE  PerfFlow(c)'
<1>1. Held("perf", c)' = Held("perf", c)
  BY Fixed DEF Held
<1> QED BY <1>1, Fixed DEF PerfFlow, Follows, RingHolds

LEMMA HeldSame ==
    ASSUME NEW c \in Cpus, wr'[Server(c)].have = wr[Server(c)].have, NEW src
    PROVE  Held(src, c)' = Held(src, c)
BY Fixed DEF Held

LEMMA LookSame ==
    ASSUME NEW w \in Writers, LastLook(w), UNCHANGED <<perf, stop, ring>>, wr'[w] = wr[w]
    PROVE  LastLook(w)'
BY Fixed DEF LastLook, Cpus

-----------------------------------------------------------------------------
(* The steps of the main thread *)

\* The parts of the invariant that say where the data is
Flows == \A c \in Cpus : KernelFlow(c) /\ PerfFlow(c)
Looks == \A w \in Writers : LastLook(w)

LEMMA ConfFacts ==
    ASSUME CpuTypes
    PROVE  /\ conf.kernel \in BOOLEAN /\ conf.perf \in BOOLEAN /\ conf.events \in BOOLEAN
           /\ conf.missing \subseteq Files
           /\ Works => (conf.remote => ~conf.kernel /\ ~conf.events)
BY CpuAssumption DEF CpuTypes, Works

LEMMA FlowsSame ==
    ASSUME Flows, UNCHANGED <<made, raw, ring, saved>>, \A w \in Writers : wr'[w].have = wr[w].have
    PROVE  Flows'
<1>1. ASSUME NEW c \in Cpus PROVE KernelFlow(c)' /\ PerfFlow(c)'
  <2>1. wr'[Server(c)].have = wr[Server(c)].have
    BY OneServer
  <2>2. KernelFlow(c)'
    BY <2>1, HeldSame, KernelSame DEF Flows
  <2>3. PerfFlow(c)'
    BY <2>1, PerfSame DEF Flows
  <2> QED BY <2>2, <2>3
<1>2. Cpus' = Cpus
  BY DEF Cpus
<1> QED BY <1>1, <1>2 DEF Flows

LEMMA InitStep == CpuInit => CpuInv
<1>1. SUFFICES ASSUME CpuInit PROVE CpuInv
  OBVIOUS
<1>2. CpuTypes
  <2>1. conf \in Confs /\ main = "setup" /\ child = "waits" /\ stop = "no" /\ enabled = FALSE
    BY <1>1 DEF CpuInit
  <2>2. kern \in BOOLEAN /\ perf \in BOOLEAN
    BY <1>1, CpuAssumption DEF CpuInit
  <2>3. fs \in [Files -> Values]
    BY <1>1 DEF CpuInit, Values
  <2>4. made \in [Sources -> [Cpus -> Nat]]
    BY <1>1 DEF CpuInit
  <2>5. raw \in [Cpus -> Seq(Nat)] /\ saved \in [Sources -> [Cpus -> Seq(Nat)]]
    BY <1>1, EmptyFacts DEF CpuInit, NoData
  <2>6. ring \in [Cpus -> Rings]
    BY <1>1, CpuAssumption DEF CpuInit, Rings
  <2>7. Nothing \in Pieces
    <3>1. 0 \in Cpus
      BY CpuAssumption DEF Cpus
    <3> QED BY <3>1, EmptyFacts DEF Nothing, Pieces
  <2>8. wr \in [Writers -> [pc : {"none", "loop", "last", "done"}, todo : SUBSET Places, have : Pieces]]
    BY <1>1, <2>7 DEF CpuInit
  <2> QED BY <2>1, <2>2, <2>3, <2>4, <2>5, <2>6, <2>8 DEF CpuTypes
<1>3. FilesInv
  <2>1. conf.missing \subseteq Files
    BY <1>2, ConfFacts
  <2> QED BY <1>1, <2>1 DEF CpuInit, FilesInv
<1>4. \A w \in Writers : wr[w].pc = "none" /\ wr[w].todo = {} /\ wr[w].have = Nothing
  BY <1>1 DEF CpuInit
<1>5. PhaseInv
  <2>1. main = "setup" /\ child = "waits" /\ stop = "no"
    BY <1>1 DEF CpuInit
  <2> QED BY <1>4, <2>1 DEF PhaseInv
<1>6. \A w \in Writers : LastLook(w)
  BY <1>4 DEF LastLook
<1>7. ASSUME NEW c \in Cpus PROVE KernelFlow(c) /\ PerfFlow(c)
  <2>1. /\ saved["kernel"][c] = << >> /\ saved["perf"][c] = << >> /\ raw[c] = << >>
        /\ made["kernel"][c] = 0 /\ made["perf"][c] = 0
        /\ ring[c].head = 0 /\ ring[c].tail = 0
    BY <1>1 DEF CpuInit, NoData, Sources
  <2>2. wr[Server(c)].have = Nothing
    BY <1>4, OneServer
  <2>3. Held("kernel", c) = << >> /\ Held("perf", c) = << >> /\ wr[Server(c)].have.src = "none"
    BY <2>2 DEF Held, Nothing
  <2>4. KernelFlow(c)
    BY <2>1, <2>3, EmptyFacts DEF KernelFlow
  <2>5. RingHolds(ring[c])
    BY <2>1, CpuAssumption DEF RingHolds
  <2>6. PerfFlow(c)
    BY <2>1, <2>3, <2>5, EmptyFacts DEF PerfFlow
  <2> QED BY <2>4, <2>6
<1> QED BY <1>2, <1>3, <1>5, <1>6, <1>7 DEF CpuInv

LEMMA SetupWritersStep ==
    ASSUME CpuInv, SetupWriters
    PROVE  CpuInv'
<1>1. /\ CpuTypes /\ FilesInv /\ PhaseInv /\ Flows /\ main = "setup" /\ main' = "start"
      /\ UNCHANGED <<conf, child, made, raw, ring, saved, local, stop, wr>>
  BY DEF CpuInv, Flows, SetupWriters
<1>2. \A x \in Files : fs[x] = "default"
  BY <1>1 DEF FilesInv
<1>3. PICK s : s = SetupTracing(fs)
  OBVIOUS
<1>4. /\ s.fs \in [Files -> Values] /\ s.ok \in BOOLEAN
      /\ s.ok => Complete
      /\ ~s.ok => \A x \in Files : s.fs[x] = "default"
      /\ \A x \in conf.missing : s.fs[x] = "default"
  BY <1>1, <1>2, <1>3, ConfFacts, SetupFacts DEF CpuTypes
<1>5. PICK want \in BOOLEAN : want = (conf.kernel \/ conf.events)
  OBVIOUS
<1>6. /\ fs' = IF want THEN s.fs ELSE fs
      /\ kern' = (want /\ s.ok) /\ enabled' = (want /\ s.ok)
  BY <1>3, <1>5 DEF SetupWriters, SetupKernel
<1>7. perf' \in BOOLEAN
  BY DEF SetupWriters, SetupPerf
<1>8. CpuTypes'
  <2>1. fs' \in [Files -> Values]
    BY <1>1, <1>4, <1>6 DEF CpuTypes
  <2>2. kern' \in BOOLEAN /\ enabled' \in BOOLEAN
    BY <1>4, <1>6
  <2> QED BY <1>1, <1>7, <2>1, <2>2 DEF CpuTypes, Cpus, Writers, Places, Pieces, Rings, Sources, Files, Values
<1>9. FilesInv'
  <2>1. \A x \in conf.missing : fs'[x] = "default"
    BY <1>1, <1>4, <1>6 DEF FilesInv
  <2>2. kern' => Complete
    BY <1>4, <1>6
  <2>3. kern' => conf.kernel \/ conf.events
    BY <1>5, <1>6
  <2>4. ~kern' => \A x \in Files : fs'[x] = "default"
    BY <1>2, <1>4, <1>6
  <2>5. enabled' = kern'
    BY <1>6
  <2> QED BY <1>1, <2>1, <2>2, <2>3, <2>4, <2>5 DEF FilesInv, Complete, Files, OldKernel
<1>10. PhaseInv'
  BY <1>1, Fixed DEF PhaseInv, Writers, Nothing, Sources
<1>11. Flows'
  BY <1>1, FlowsSame
<1>12. Looks'
  BY <1>1 DEF PhaseInv, Looks, LastLook, Writers
<1> QED BY <1>8, <1>9, <1>10, <1>11, <1>12 DEF CpuInv, Flows, Looks

LEMMA StartTracingStep ==
    ASSUME Works, CpuInv, StartTracing
    PROVE  CpuInv'
<1>1. /\ CpuTypes /\ FilesInv /\ PhaseInv /\ Flows /\ main = "start"
      /\ UNCHANGED <<conf, kern, enabled, perf, made, raw, ring, saved, local, stop>>
  BY DEF CpuInv, Flows, StartTracing
<1>2. PICK next \in {"run", "crashed"} :
        /\ StartKernel(next)
        /\ main' = next
        /\ child' = IF next = "run" THEN "runs" ELSE child
        /\ wr' = [w \in Writers |-> [wr[w] EXCEPT !.pc = IF next = "run" THEN "loop" ELSE @]]
  BY DEF StartTracing
<1>3. /\ next = "run"
      /\ fs' = IF kern THEN [fs EXCEPT !["tracing_on"] = "default"] ELSE fs
  BY <1>2 DEF Works, StartKernel
<1>4. wr' = [w \in Writers |-> [wr[w] EXCEPT !.pc = "loop"]]
  BY <1>2, <1>3
<1>5. \A w \in Writers : wr'[w].pc = "loop" /\ wr'[w].todo = wr[w].todo /\ wr'[w].have = wr[w].have
  BY <1>1, <1>4 DEF CpuTypes
<1>6. fs' \in [Files -> Values] /\ \A x \in Files : fs'[x] \in {fs[x], "default"}
  BY <1>1, <1>3 DEF CpuTypes, Values, Files
<1>7. CpuTypes'
  <2>1. wr' \in [Writers -> [pc : {"none", "loop", "last", "done"}, todo : SUBSET Places, have : Pieces]]
    BY <1>1, <1>4 DEF CpuTypes
  <2> QED BY <1>1, <1>2, <1>3, <1>6, <2>1 DEF CpuTypes, Cpus, Writers, Places, Pieces, Rings, Sources, Files, Values
<1>8. FilesInv'
  <2>1. \A x \in conf.missing : fs'[x] = "default"
    BY <1>1, <1>6, ConfFacts DEF FilesInv
  <2>2. kern => Complete /\ (conf.kernel \/ conf.events)
    BY <1>1 DEF FilesInv
  <2>3. enabled = kern /\ (~kern => \A x \in Files : fs'[x] = "default")
    BY <1>1, <1>3 DEF FilesInv
  <2> QED BY <1>1, <1>2, <1>3, <2>1, <2>2, <2>3 DEF FilesInv, Complete, Files, OldKernel
<1>9. PhaseInv'
  <2>1. stop = "no" /\ main' = "run" /\ \A w \in Writers : wr[w].todo = {} /\ wr[w].have = Nothing
    BY <1>1, <1>2, <1>3 DEF PhaseInv
  <2> QED BY <1>1, <1>5, <2>1 DEF PhaseInv, Writers, Nothing
<1>10. Flows'
  BY <1>1, <1>5, FlowsSame
<1>11. Looks'
  BY <1>5 DEF Looks, LastLook, Writers
<1> QED BY <1>7, <1>8, <1>9, <1>10, <1>11 DEF CpuInv, Flows, Looks

LEMMA StopTracingStep ==
    ASSUME CpuInv, StopTracing
    PROVE  CpuInv'
<1>1. /\ CpuTypes /\ FilesInv /\ PhaseInv /\ Flows /\ main = "run" /\ main' = "join"
      /\ stop' = (IF child = "gone" THEN "child" ELSE "user")
      /\ fs' = IF kern /\ enabled THEN [fs EXCEPT !["tracing_on"] = "off"] ELSE fs
      /\ UNCHANGED <<conf, kern, enabled, perf, child, made, raw, ring, saved, local, wr>>
  BY DEF CpuInv, Flows, StopTracing, StopKernel
<1>2. "tracing_on" \in Files /\ "tracing_on" \notin OldKernel
  BY DEF Files, OldKernel
<1>3. CpuTypes'
  <2>1. fs' \in [Files -> Values]
    BY <1>1, <1>2 DEF CpuTypes, Values
  <2>2. stop' \in {"child", "user"}
    BY <1>1
  <2> QED BY <1>1, <2>1, <2>2 DEF CpuTypes, Cpus, Writers, Places, Pieces, Rings, Sources, Files, Values
<1>4. FilesInv'
  <2>1. enabled = kern /\ (kern => Complete /\ (conf.kernel \/ conf.events))
    BY <1>1 DEF FilesInv
  <2>2. \A x \in Files : (kern /\ x = "tracing_on" /\ fs'[x] = "off") \/ ((~kern \/ x # "tracing_on") /\ fs'[x] = fs[x])
    BY <1>1, <2>1 DEF CpuTypes
  <2>3. \A x \in conf.missing : fs'[x] = "default"
    <3>1. \A x \in conf.missing : x \in Files /\ fs[x] = "default" /\ (kern => x # "tracing_on")
      BY <1>1, <1>2, <2>1, ConfFacts DEF FilesInv, Complete
    <3> QED BY <2>2, <3>1
  <2>4. kern => fs'["tracing_on"] = "off"
    BY <1>2, <2>2
  <2>5. ~kern => \A x \in Files : fs'[x] = "default"
    BY <1>1, <2>2 DEF FilesInv
  <2> QED BY <1>1, <2>1, <2>3, <2>4, <2>5 DEF FilesInv, Complete, Files, OldKernel
<1>5. \A w \in Writers : wr[w].pc \notin {"last", "done"}
  BY <1>1 DEF PhaseInv
<1>6. PhaseInv'
  <2>1. stop' # "no" /\ (stop' = "child" => child = "gone")
    BY <1>1
  <2> QED BY <1>1, <2>1, Fixed DEF PhaseInv, Writers, Nothing, Sources
<1>7. Flows'
  BY <1>1, FlowsSame
<1>8. Looks'
  BY <1>1, <1>5 DEF Looks, LastLook, Writers
<1> QED BY <1>3, <1>4, <1>6, <1>7, <1>8 DEF CpuInv, Flows, Looks

\* finish_kernel_tracing(): the rest of a pipe goes behind what its writer saved.
LEMMA DrainPipeStep ==
    ASSUME Works, CpuInv, DrainPipe
    PROVE  CpuInv'
<1>1. /\ CpuTypes /\ FilesInv /\ PhaseInv /\ Flows /\ Looks /\ main = "join" /\ kern
      /\ \A w \in Writers : wr[w].pc = "done"
      /\ UNCHANGED <<conf, main, fs, kern, enabled, perf, child, made, ring, stop, wr>>
  BY DEF CpuInv, Flows, Looks, DrainPipe
<1>2. ~conf.remote
  BY <1>1, ConfFacts DEF FilesInv
<1>3. PICK c \in Cpus : raw' = [raw EXCEPT ![c] = << >>] /\ saved' = Put(saved, "kernel", c, raw[c])
  BY <1>2 DEF DrainPipe
<1>4. PICK q \in Seq(Nat), s \in Seq(Nat) : q = raw[c] /\ s = saved["kernel"][c]
  BY <1>1 DEF CpuTypes, Sources
<1>5. PICK sq \in Seq(Nat) : sq = s \o q
  BY ConcatFacts
<1>6. saved' = [saved EXCEPT !["kernel"][c] = sq]
  BY <1>1, <1>3, <1>4, <1>5 DEF Put, CpuTypes, Sources
<1>7. /\ saved'["kernel"][c] = sq /\ raw'[c] = << >>
      /\ \A b \in Cpus : saved'["perf"][b] = saved["perf"][b]
      /\ \A b \in Cpus : b # c => saved'["kernel"][b] = saved["kernel"][b] /\ raw'[b] = raw[b]
  BY <1>1, <1>3, <1>6 DEF CpuTypes, Sources
<1>8. CpuTypes'
  <2>1. saved' \in [Sources -> [Cpus -> Seq(Nat)]]
    BY <1>1, <1>5, <1>6 DEF CpuTypes, Sources
  <2>2. raw' \in [Cpus -> Seq(Nat)]
    BY <1>1, <1>3, EmptyFacts DEF CpuTypes
  <2> QED BY <1>1, <2>1, <2>2 DEF CpuTypes, Cpus, Writers, Places, Pieces, Rings, Sources, Files, Values
<1>9. FilesInv'
  BY <1>1, FilesSame
<1>10. PhaseInv'
  BY <1>1, Fixed DEF PhaseInv, Writers, Nothing, Sources
<1>11. ASSUME NEW b \in Cpus PROVE KernelFlow(b)'
  <2>1. wr'[Server(b)].have = wr[Server(b)].have
    BY <1>1
  <2>2. Held("kernel", b)' = Held("kernel", b)
    BY <2>1, HeldSame
  <2>3. CASE b # c
    BY <1>1, <1>7, <2>2, <2>3, KernelSame DEF Flows
  <2>4. CASE b = c
    <3>1. Held("kernel", c) = << >>
      <4>1. wr[Server(c)].have = Nothing
        BY <1>1, OneServer DEF PhaseInv
      <4> QED BY <4>1 DEF Held, Nothing
    <3>2. /\ Follows(s, 0) /\ Follows(q, Len(s)) /\ made["kernel"][c] = Len(s) + Len(q)
          /\ Len(s) \in Nat /\ Len(q) \in Nat
      <4>1. KernelFlow(c) /\ Len(Held("kernel", c)) = 0
        BY <1>1, <3>1, EmptyFacts DEF Flows
      <4>2. /\ Follows(s, 0) /\ Follows(q, Len(s) + Len(Held("kernel", c)))
            /\ made["kernel"][c] = Len(s) + Len(Held("kernel", c)) + Len(q)
        BY <1>4, <4>1 DEF KernelFlow
      <4>3. Len(s) \in Nat /\ Len(q) \in Nat
        BY <1>4, ConcatFacts
      <4>4. Len(s) + 0 = Len(s) /\ Len(s) + 0 + Len(q) = Len(s) + Len(q)
        BY <4>3
      <4> QED BY <4>1, <4>2, <4>3, <4>4
    <3>3. Len(sq) = Len(s) + Len(q)
      BY <1>5, ConcatFacts
    <3>4. Follows(sq, 0)
      <4>1. Follows(q, 0 + Len(s)) /\ 0 \in Nat
        BY <3>2
      <4> QED BY <1>5, <3>2, <4>1, ConcatFollows
    <3>5. /\ saved'["kernel"][b] = sq /\ raw'[b] = << >> /\ Held("kernel", b)' = << >>
          /\ made'["kernel"][b] = Len(sq)
      BY <1>1, <1>7, <2>2, <2>4, <3>1, <3>2, <3>3
    <3>6. PICK e : e = << >> /\ Len(e) = 0 /\ \A a : Follows(e, a)
      BY EmptyFacts
    <3>7. PICK l \in Nat : l = Len(sq) /\ l + 0 + 0 = l
      BY <1>5, ConcatFacts
    <3>8. saved'["kernel"][c] = sq /\ Held("kernel", c)' = e /\ raw'[c] = e
          /\ made'["kernel"][c] = Len(sq) + Len(e) + Len(e)
      BY <2>4, <3>5, <3>6, <3>7
    <3> QED BY <2>4, <3>4, <3>6, <3>8, KernelFlowIs
  <2> QED BY <2>3, <2>4
<1>12. ASSUME NEW b \in Cpus PROVE PerfFlow(b)'
  BY <1>1, <1>7, PerfSame DEF Flows
<1>13. \A w \in Writers : LastLook(w)'
  BY <1>1, LookSame DEF Looks
<1> QED BY <1>8, <1>9, <1>10, <1>11, <1>12, <1>13 DEF CpuInv, Cpus, Writers

\* finish_kernel_tracing(): the files are put back.
LEMMA FinishWritersStep ==
    ASSUME CpuInv, FinishWriters
    PROVE  CpuInv'
<1>1. /\ CpuTypes /\ FilesInv /\ PhaseInv /\ Flows /\ Looks /\ main = "join" /\ main' = "end"
      /\ \A w \in Writers : wr[w].pc = "done"
      /\ kern => \A c \in Cpus : raw[c] = << >>
      /\ fs' = (IF kern THEN ResetTracing(fs).fs ELSE fs) /\ enabled' = FALSE
      /\ UNCHANGED <<conf, kern, perf, child, made, raw, ring, saved, local, stop, wr>>
  BY DEF CpuInv, Flows, Looks, FinishWriters
<1>2. fs \in [Files -> Values] /\ conf.missing \subseteq Files /\ kern \in BOOLEAN
  BY <1>1, ConfFacts DEF CpuTypes
<1>3. fs' \in [Files -> Values] /\ \A x \in Files : fs'[x] = "default"
  <2>1. CASE kern
    <3>1. Complete /\ \A x \in conf.missing : fs[x] = "default"
      BY <1>1, <2>1 DEF FilesInv
    <3>2. PICK r : r = ResetTracing(fs)
      OBVIOUS
    <3>3. /\ r.fs \in [Files -> Values] /\ \A x \in Files : r.fs[x] \in {fs[x], "default"}
          /\ \A x \in Files : x \notin conf.missing => r.fs[x] = "default"
      BY <1>2, <3>1, <3>2, ResetFacts
    <3> QED BY <1>1, <2>1, <3>1, <3>2, <3>3
  <2>2. CASE ~kern
    BY <1>1, <1>2, <2>2 DEF FilesInv
  <2> QED BY <2>1, <2>2
<1>4. CpuTypes'
  BY <1>1, <1>3 DEF CpuTypes, Cpus, Writers, Places, Pieces, Rings, Sources, Files, Values
<1>5. FilesInv'
  <2>1. kern => Complete /\ (conf.kernel \/ conf.events)
    BY <1>1 DEF FilesInv
  <2> QED BY <1>1, <1>2, <1>3, <2>1 DEF FilesInv, Complete, Files, OldKernel
<1>6. PhaseInv'
  BY <1>1, Fixed DEF PhaseInv, Writers, Nothing, Sources, Cpus
<1>7. Flows'
  BY <1>1, FlowsSame
<1>8. \A w \in Writers : LastLook(w)'
  BY <1>1, LookSame DEF Looks
<1> QED BY <1>4, <1>5, <1>6, <1>7, <1>8 DEF CpuInv, Flows, Writers

-----------------------------------------------------------------------------
(* The steps of a writer *)

\* A step of one writer is not seen by the others.
LEMMA OthersSame ==
    ASSUME CpuInv, NEW w \in Writers, wr' \in [Writers -> [pc : {"none", "loop", "last", "done"}, todo : SUBSET Places, have : Pieces]],
           \A v \in Writers : v # w => wr'[v] = wr[v],
           UNCHANGED <<conf, main, fs, kern, enabled, perf, child, stop>>,
           wr[w].pc \in {"loop", "last"}, main # "end",
           wr'[w].pc \in {"loop", "last", "done"}, wr'[w].pc # "loop" => stop # "no",
           wr'[w].pc = "done" => wr'[w].todo = {} /\ wr'[w].have = Nothing,
           \A x \in wr'[w].todo : Serves(w, x.cpu),
           wr'[w].have # Nothing => wr'[w].have.src \in Sources /\ Serves(w, wr'[w].have.cpu)
    PROVE  PhaseInv' /\ FilesInv'
<1>1. PhaseInv /\ FilesInv
  BY DEF CpuInv
<1>2. main \notin {"setup", "start"}
  BY <1>1 DEF PhaseInv
<1>3. ASSUME NEW v \in Writers
      PROVE  /\ wr'[v].pc \in {"last", "done"} => stop # "no"
             /\ wr'[v].pc \in {"none", "done"} => wr'[v].todo = {} /\ wr'[v].have = Nothing
             /\ \A x \in wr'[v].todo : Serves(v, x.cpu)
             /\ wr'[v].have # Nothing => wr'[v].have.src \in Sources /\ Serves(v, wr'[v].have.cpu)
  <2>1. CASE v = w
    BY <2>1
  <2>2. CASE v # w
    BY <1>1, <2>2 DEF PhaseInv
  <2> QED BY <2>1, <2>2
<1>4. PhaseInv'
  BY <1>1, <1>2, <1>3, Fixed DEF PhaseInv, Writers, Nothing, Sources
<1>5. FilesInv'
  BY <1>1, FilesSame
<1> QED BY <1>4, <1>5

\* A writer that is not done finds the main thread waiting for it.
LEMMA WriterAlive ==
    ASSUME CpuInv, NEW w \in Writers, wr[w].pc # "done"
    PROVE  main # "end"
BY DEF CpuInv, PhaseInv

LEMMA PollStep ==
    ASSUME CpuInv, NEW w \in Writers, Poll(w)
    PROVE  CpuInv'
<1>1. /\ CpuTypes /\ PhaseInv /\ Flows /\ Looks /\ wr[w].pc = "loop" /\ wr[w].have = Nothing
      /\ UNCHANGED <<conf, main, fs, kern, enabled, perf, child, made, raw, ring, saved, local, stop>>
  BY DEF CpuInv, Flows, Looks, Poll
<1>2. PICK idle \in BOOLEAN, ready \in SUBSET DOMAIN PollFds(w) :
        wr' = [wr EXCEPT ![w].todo = Ready(w, idle, ready)]
  BY DEF Poll
<1>3. PICK todo : todo = Ready(w, idle, ready)
  OBVIOUS
<1>4. todo \subseteq Places /\ \A x \in todo : Serves(w, x.cpu)
  BY <1>1, <1>3, ReadyFacts DEF CpuTypes
<1>5. wr' = [wr EXCEPT ![w].todo = todo]
  BY <1>2, <1>3
<1>6. /\ wr' \in [Writers -> [pc : {"none", "loop", "last", "done"}, todo : SUBSET Places, have : Pieces]]
      /\ wr'[w].todo = todo /\ wr'[w].pc = "loop" /\ wr'[w].have = Nothing
      /\ \A v \in Writers : v # w => wr'[v] = wr[v]
  BY <1>1, <1>4, <1>5 DEF CpuTypes
<1>7. CpuTypes'
  BY <1>1, <1>6 DEF CpuTypes, Cpus, Writers, Places, Pieces, Rings, Sources, Files, Values
<1>8. PhaseInv' /\ FilesInv'
  BY <1>1, <1>4, <1>6, WriterAlive, OthersSame
<1>9. \A v \in Writers : wr'[v].have = wr[v].have
  BY <1>1, <1>6
<1>10. Flows'
  BY <1>1, <1>9, FlowsSame
<1>11. ASSUME NEW v \in Writers PROVE LastLook(v)'
  <2>1. CASE v = w
    BY <1>6, <2>1 DEF LastLook
  <2>2. CASE v # w
    BY <1>1, <1>6, <2>2, LookSame DEF Looks
  <2> QED BY <2>1, <2>2
<1> QED BY <1>7, <1>8, <1>10, <1>11 DEF CpuInv, Flows, Writers

\* A writer leaves its loop for a last look at all of its rings.
LEMMA LeaveStep ==
    ASSUME CpuInv, NEW w \in Writers, Leave(w)
    PROVE  CpuInv'
<1>1. /\ CpuTypes /\ PhaseInv /\ Flows /\ Looks /\ wr[w].pc = "loop" /\ wr[w].have = Nothing /\ stop # "no"
      /\ UNCHANGED <<conf, main, fs, kern, enabled, perf, child, made, raw, ring, saved, local, stop>>
  BY DEF CpuInv, Flows, Looks, Leave
<1>2. PICK cpus : cpus = CpusOf(w)
  OBVIOUS
<1>3. PICK n \in Nat : /\ DOMAIN cpus = 1 .. n
                       /\ \A k \in 1 .. n : cpus[k] \in Cpus \cup {-1} /\ (cpus[k] # -1 => Serves(w, cpus[k]))
  BY <1>2, CpusOfFacts, ShareFacts
<1> DEFINE Place(k) == [at |-> k, src |-> "perf", cpu |-> cpus[k]]
<1>4. PICK all : all = {x \in {Place(k) : k \in 1 .. n} : x.cpu # -1}
  OBVIOUS
<1>5. PICK todo : todo = IF perf THEN all ELSE {}
  OBVIOUS
<1>6. wr' = [wr EXCEPT ![w].pc = "last", ![w].todo = todo]
  BY <1>2, <1>3, <1>4, <1>5 DEF Leave
<1>7. all \subseteq Places /\ \A x \in all : Serves(w, x.cpu)
  <2>1. ASSUME NEW k \in 1 .. n, Place(k).cpu # -1 PROVE Place(k) \in Places /\ Serves(w, Place(k).cpu)
    <3>1. cpus[k] \in Cpus /\ Serves(w, cpus[k])
      BY <1>3, <2>1
    <3> QED BY <3>1 DEF Places, Sources
  <2> HIDE DEF Place
  <2> QED BY <1>4, <2>1
<1>8. \A c \in Cpus : Serves(w, c) => \E x \in all : x.src = "perf" /\ x.cpu = c
  <2>1. ASSUME NEW c \in Cpus, Serves(w, c) PROVE \E x \in all : x.src = "perf" /\ x.cpu = c
    <3>1. PICK k \in 1 .. n : cpus[k] = c
      BY <1>2, <1>3, <2>1 DEF Serves
    <3>2. c # -1
      BY CpuAssumption DEF Cpus
    <3>3. Place(k) \in all
      BY <1>4, <3>1, <3>2
    <3> QED BY <3>1, <3>3
  <2> QED BY <2>1
<1>9. todo \subseteq Places /\ (\A x \in todo : Serves(w, x.cpu)) /\ (perf => todo = all)
  BY <1>5, <1>7
<1>10. /\ wr' \in [Writers -> [pc : {"none", "loop", "last", "done"}, todo : SUBSET Places, have : Pieces]]
       /\ wr'[w].todo = todo /\ wr'[w].pc = "last" /\ wr'[w].have = Nothing
       /\ \A v \in Writers : v # w => wr'[v] = wr[v]
  BY <1>1, <1>6, <1>9 DEF CpuTypes
<1>11. CpuTypes'
  BY <1>1, <1>10 DEF CpuTypes, Cpus, Writers, Places, Pieces, Rings, Sources, Files, Values
<1>12. PhaseInv' /\ FilesInv'
  BY <1>1, <1>9, <1>10, WriterAlive, OthersSame
<1>13. \A v \in Writers : wr'[v].have = wr[v].have
  BY <1>1, <1>10
<1>14. Flows'
  BY <1>1, <1>13, FlowsSame
<1>15. ASSUME NEW v \in Writers PROVE LastLook(v)'
  <2>1. CASE v = w
    BY <1>1, <1>8, <1>9, <1>10, <2>1, Fixed DEF LastLook, Cpus
  <2>2. CASE v # w
    BY <1>1, <1>10, <2>2, LookSame DEF Looks
  <2> QED BY <2>1, <2>2
<1> QED BY <1>11, <1>12, <1>14, <1>15 DEF CpuInv, Flows, Writers

LEMMA WriterGoneStep ==
    ASSUME CpuInv, NEW w \in Writers, WriterGone(w)
    PROVE  CpuInv'
<1>1. /\ CpuTypes /\ PhaseInv /\ Flows /\ Looks /\ wr[w].pc = "last" /\ wr[w].have = Nothing /\ wr[w].todo = {}
      /\ wr' = [wr EXCEPT ![w].pc = "done"]
      /\ UNCHANGED <<conf, main, fs, kern, enabled, perf, child, made, raw, ring, saved, local, stop>>
  BY DEF CpuInv, Flows, Looks, WriterGone
<1>2. /\ wr' \in [Writers -> [pc : {"none", "loop", "last", "done"}, todo : SUBSET Places, have : Pieces]]
      /\ wr'[w].todo = {} /\ wr'[w].pc = "done" /\ wr'[w].have = Nothing
      /\ \A v \in Writers : v # w => wr'[v] = wr[v]
  BY <1>1 DEF CpuTypes
<1>3. CpuTypes'
  BY <1>1, <1>2 DEF CpuTypes, Cpus, Writers, Places, Pieces, Rings, Sources, Files, Values
<1>4. PhaseInv' /\ FilesInv'
  <2>1. stop # "no"
    BY <1>1 DEF PhaseInv
  <2> QED BY <1>1, <1>2, <2>1, WriterAlive, OthersSame
<1>5. \A v \in Writers : wr'[v].have = wr[v].have
  BY <1>1, <1>2
<1>6. Flows'
  BY <1>1, <1>5, FlowsSame
<1>7. ASSUME NEW v \in Writers PROVE LastLook(v)'
  <2>1. CASE v = w
    BY <1>1, <1>2, <2>1, Fixed DEF LastLook, Looks, Cpus
  <2>2. CASE v # w
    BY <1>1, <1>2, <2>2, LookSame DEF Looks
  <2> QED BY <2>1, <2>2
<1> QED BY <1>3, <1>4, <1>6, <1>7 DEF CpuInv, Flows, Writers

\* What the piece in the hands of a writer says of its CPUs
LEMMA HeldFacts ==
    ASSUME PhaseInv, NEW c \in Cpus, NEW w \in Writers, Serves(w, c), NEW src
    PROVE  /\ wr[w].have = Nothing => Held(src, c) = << >> \/ src = "none"
           /\ Held(src, c) = IF wr[w].have.src = src /\ wr[w].have.cpu = c THEN wr[w].have.data ELSE << >>
           /\ Held(src, c)' = IF wr'[w].have.src = src /\ wr'[w].have.cpu = c THEN wr'[w].have.data ELSE << >>
<1>1. w = Server(c)
  BY OneServer
<1>2. Server(c)' = Server(c)
  BY Fixed
<1> QED BY <1>1, <1>2 DEF Held, Nothing

\* The next piece is copied: what was in the pipe is in the hands of the writer, what was in the
\* ring is in both.
LEMMA TakeStep ==
    ASSUME CpuInv, NEW w \in Writers, Take(w)
    PROVE  CpuInv'
<1>1. /\ CpuTypes /\ PhaseInv /\ Flows /\ Looks /\ wr[w].have = Nothing
      /\ UNCHANGED <<conf, main, fs, kern, enabled, perf, child, made, ring, saved, local, stop>>
  BY DEF CpuInv, Flows, Looks, Take
<1>2. PICK x \in wr[w].todo : \E data :
        /\ data = IF x.src = "kernel" THEN raw[x.cpu] ELSE RingData(ring[x.cpu])
        /\ wr' = [wr EXCEPT ![w].todo = @ \ {x},
                            ![w].have = IF data = << >> THEN Nothing
                                        ELSE [src |-> x.src, cpu |-> x.cpu, data |-> data, head |-> ring[x.cpu].head]]
        /\ raw' = IF x.src = "kernel" THEN [raw EXCEPT ![x.cpu] = << >>] ELSE raw
  BY ZenonT(60) DEF Take
<1>3. PICK data :
        /\ data = IF x.src = "kernel" THEN raw[x.cpu] ELSE RingData(ring[x.cpu])
        /\ wr' = [wr EXCEPT ![w].todo = @ \ {x},
                            ![w].have = IF data = << >> THEN Nothing
                                        ELSE [src |-> x.src, cpu |-> x.cpu, data |-> data, head |-> ring[x.cpu].head]]
        /\ raw' = IF x.src = "kernel" THEN [raw EXCEPT ![x.cpu] = << >>] ELSE raw
  BY <1>2
<1>4. wr[w].todo \subseteq Places
  BY <1>1 DEF CpuTypes
<1>5. PICK c \in Cpus : c = x.cpu
  BY <1>4 DEF Places
<1>6. PICK src \in Sources : src = x.src
  BY <1>4 DEF Places
<1>7. Serves(w, c) /\ wr[w].pc \in {"loop", "last"}
  BY <1>1, <1>5 DEF PhaseInv, CpuTypes
<1>8. KernelFlow(c) /\ PerfFlow(c) /\ ring[c] \in Rings /\ RingHolds(ring[c]) /\ raw[c] \in Seq(Nat)
  BY <1>1 DEF Flows, PerfFlow, CpuTypes
<1>9. PICK head \in Nat, tail \in Nat : head = ring[c].head /\ tail = ring[c].tail
  BY <1>8 DEF Rings
<1>10. /\ src = "kernel" => data = raw[c]
       /\ src = "perf" => data = RingData(ring[c])
       /\ data \in Seq(Nat)
  BY <1>3, <1>5, <1>6, <1>8, RingDataFacts DEF Sources
<1>11. PICK have : have = IF data = << >> THEN Nothing ELSE [src |-> src, cpu |-> c, data |-> data, head |-> head]
  OBVIOUS
<1>12. /\ have \in Pieces
       /\ data = << >> => have = Nothing
       /\ data # << >> => have.src = src /\ have.cpu = c /\ have.data = data /\ have.head = head
  <2>1. Nothing \in Pieces
    BY <1>1 DEF CpuTypes
  <2> QED BY <1>10, <1>11, <2>1 DEF Pieces
<1>13. PICK todo \in SUBSET Places : todo = wr[w].todo \ {x}
  BY <1>4
<1>14. wr' = [wr EXCEPT ![w].todo = todo, ![w].have = have]
  BY <1>1, <1>3, <1>5, <1>6, <1>9, <1>11, <1>13 DEF CpuTypes
<1>15. /\ wr' \in [Writers -> [pc : {"none", "loop", "last", "done"}, todo : SUBSET Places, have : Pieces]]
       /\ wr'[w].todo = todo /\ wr'[w].pc = wr[w].pc /\ wr'[w].have = have
       /\ \A v \in Writers : v # w => wr'[v] = wr[v]
  BY <1>1, <1>12, <1>14 DEF CpuTypes
<1>16. /\ src = "kernel" => raw' = [raw EXCEPT ![c] = << >>]
       /\ src = "perf" => raw' = raw
  BY <1>3, <1>5, <1>6 DEF Sources
<1>17. /\ raw' \in [Cpus -> Seq(Nat)]
       /\ src = "kernel" => raw'[c] = << >>
       /\ src = "perf" => raw'[c] = raw[c]
       /\ \A b \in Cpus : b # c => raw'[b] = raw[b]
  BY <1>1, <1>16, EmptyFacts DEF CpuTypes, Sources
<1>18. CpuTypes'
  BY <1>1, <1>15, <1>17 DEF CpuTypes, Cpus, Writers, Places, Pieces, Rings, Sources, Files, Values
<1>19. PhaseInv' /\ FilesInv'
  <2>1. \A y \in todo : Serves(w, y.cpu)
    BY <1>1, <1>13 DEF PhaseInv
  <2>2. have # Nothing => have.src \in Sources /\ Serves(w, have.cpu)
    BY <1>7, <1>12
  <2>3. wr[w].pc # "loop" => stop # "no"
    BY <1>1, <1>7 DEF PhaseInv
  <2>4. main # "end"
    BY <1>7, WriterAlive
  <2> QED BY <1>1, <1>7, <1>15, <2>1, <2>2, <2>3, <2>4, OthersSame
<1>20. Held("kernel", c) = << >> /\ Held("perf", c) = << >>
  BY <1>1, <1>7, HeldFacts
<1>21. ASSUME NEW b \in Cpus, b # c
       PROVE  Held("kernel", b)' = Held("kernel", b) /\ Held("perf", b)' = Held("perf", b) /\ PerfFlow(b)'
  <2>1. CASE Server(b) = w
    <3>1. Serves(w, b)
      BY <2>1, OneServer
    <3>2. Held("kernel", b) = << >> /\ Held("perf", b) = << >>
      BY <1>1, <3>1, HeldFacts
    <3>3. ~(have.src \in Sources /\ have.cpu = b)
      BY <1>12, <1>21 DEF Nothing, Sources
    <3>4. Held("kernel", b)' = << >> /\ Held("perf", b)' = << >>
      BY <1>1, <1>15, <3>1, <3>3, HeldFacts DEF Sources
    <3>5. PerfFlow(b)'
      <4>1. PerfFlow(b) /\ Server(b)' = Server(b)
        BY <1>1, Fixed DEF Flows
      <4>2. ~(wr'[Server(b)].have.src = "perf" /\ wr'[Server(b)].have.cpu = b)
        BY <1>15, <2>1, <3>3 DEF Sources
      <4> QED BY <1>1, <3>2, <3>4, <4>1, <4>2 DEF PerfFlow, Follows, RingHolds
    <3> QED BY <3>2, <3>4, <3>5
  <2>2. CASE Server(b) # w
    <3>1. wr'[Server(b)].have = wr[Server(b)].have
      BY <1>15, <2>2, OneServer
    <3> QED BY <1>1, <3>1, HeldSame, PerfSame DEF Flows
  <2> QED BY <2>1, <2>2
<1>22. ASSUME NEW b \in Cpus, b # c PROVE KernelFlow(b)' /\ PerfFlow(b)'
  BY <1>1, <1>17, <1>21, <1>22, KernelSame DEF Flows
<1>23. Held("kernel", c)' = (IF have.src = "kernel" /\ have.cpu = c THEN have.data ELSE << >>)
       /\ Held("perf", c)' = (IF have.src = "perf" /\ have.cpu = c THEN have.data ELSE << >>)
  BY <1>1, <1>7, <1>15, HeldFacts
<1>24. /\ saved'["kernel"][c] = saved["kernel"][c] /\ saved'["perf"][c] = saved["perf"][c]
       /\ made'["kernel"][c] = made["kernel"][c] /\ made'["perf"][c] = made["perf"][c] /\ ring'[c] = ring[c]
  BY <1>1
<1>25. ASSUME data = << >>
       PROVE  KernelFlow(c)' /\ PerfFlow(c)' /\ (src = "perf" => ring[c].tail = ring[c].head)
  <2>1. have = Nothing /\ raw'[c] = raw[c]
    BY <1>10, <1>12, <1>17, <1>25 DEF Sources
  <2>2. Held("kernel", c)' = << >> /\ Held("perf", c)' = << >>
    BY <1>23, <2>1 DEF Nothing
  <2>3. KernelFlow(c)'
    BY <1>8, <1>20, <1>24, <2>1, <2>2, KernelSame
  <2>4. wr'[Server(c)].have = wr[Server(c)].have
    BY <1>1, <1>7, <1>15, <2>1, OneServer
  <2>5. PerfFlow(c)'
    BY <1>8, <1>24, <2>4, PerfSame
  <2>6. src = "perf" => ring[c].tail = ring[c].head
    <3>1. ASSUME src = "perf" PROVE head - tail = 0
      BY <1>8, <1>9, <1>10, <1>25, <3>1, RingDataFacts, EmptyFacts
    <3> QED BY <1>9, <3>1
  <2> QED BY <2>3, <2>5, <2>6
<1>26. ASSUME data # << >>, src = "kernel" PROVE KernelFlow(c)' /\ PerfFlow(c)'
  <2>1. Held("kernel", c)' = raw[c] /\ Held("perf", c)' = << >>
    BY <1>10, <1>12, <1>23, <1>26
  <2>2. PICK n \in Nat : n = Len(saved["kernel"][c])
    BY <1>1, ConcatFacts DEF CpuTypes, Sources
  <2>3. PICK l \in Nat : l = Len(raw[c])
    BY <1>8, ConcatFacts
  <2>4. /\ Follows(saved["kernel"][c], 0) /\ Follows(raw[c], n + 0) /\ made["kernel"][c] = n + 0 + l
    BY <1>8, <1>20, <2>2, <2>3, EmptyFacts DEF KernelFlow
  <2>5. Follows(raw[c], n) /\ made["kernel"][c] = n + l + 0
    <3>1. n + 0 = n /\ n + 0 + l = n + l + 0
      OBVIOUS
    <3> QED BY <2>4, <3>1
  <2>6. KernelFlow(c)'
    <3>1. PICK q : q = raw[c] /\ Follows(q, n) /\ Len(q) = l
      BY <2>3, <2>5
    <3>2. PICK s : s = saved["kernel"][c] /\ Follows(s, 0) /\ Len(s) = n
      BY <2>2, <2>4
    <3>3. PICK e : e = << >> /\ Follows(e, n + l) /\ Len(e) = 0
      BY EmptyFacts
    <3>4. saved'["kernel"][c] = s /\ Held("kernel", c)' = q /\ raw'[c] = e /\ made'["kernel"][c] = n + l + 0
      BY <1>17, <1>24, <1>26, <2>1, <2>5, <3>1, <3>2, <3>3
    <3> QED BY <3>1, <3>2, <3>3, <3>4, KernelFlowIs
  <2>7. ~(wr'[Server(c)].have.src = "perf")
    BY <1>7, <1>12, <1>15, <1>26, OneServer
  <2>8. PerfFlow(c)'
    BY <1>8, <1>20, <1>24, <2>1, <2>7, Fixed DEF PerfFlow, Follows, RingHolds
  <2> QED BY <2>6, <2>8
<1>27. ASSUME data # << >>, src = "perf" PROVE KernelFlow(c)' /\ PerfFlow(c)'
  <2>1. Held("kernel", c)' = << >> /\ Held("perf", c)' = data
    BY <1>12, <1>23, <1>27
  <2>2. KernelFlow(c)'
    BY <1>8, <1>17, <1>20, <1>24, <1>27, <2>1, KernelSame
  <2>3. /\ Follows(data, tail) /\ Len(data) = head - tail
    BY <1>8, <1>9, <1>10, <1>27, RingDataFacts
  <2>4. tail = Len(saved["perf"][c]) /\ head = tail + Len(data) /\ head <= ring[c].head
    BY <1>8, <1>9, <2>3 DEF PerfFlow
  <2>5. wr'[Server(c)].have.data = data /\ wr'[Server(c)].have.head = head
    BY <1>7, <1>12, <1>15, <1>27, OneServer
  <2>6. PerfFlow(c)'
    BY <1>8, <1>24, <2>1, <2>3, <2>4, <2>5, Fixed DEF PerfFlow, Follows, RingHolds
  <2> QED BY <2>2, <2>6
<1>28. KernelFlow(c)' /\ PerfFlow(c)' /\ (src = "perf" => ring[c].tail = ring[c].head \/ data # << >>)
  BY <1>25, <1>26, <1>27 DEF Sources
<1>29. ASSUME NEW v \in Writers PROVE LastLook(v)'
  <2>1. CASE v = w
    <3>1. ASSUME wr[w].pc = "last", perf, stop = "child", NEW b \in Cpus, Serves(w, b)
          PROVE  \/ \E y \in todo : y.src = "perf" /\ y.cpu = b
                 \/ have.src = "perf" /\ have.cpu = b /\ have.head = ring[b].head
                 \/ ring[b].tail = ring[b].head
      <4>1. \/ \E y \in wr[w].todo : y.src = "perf" /\ y.cpu = b
            \/ ring[b].tail = ring[b].head
        BY <1>1, <3>1 DEF Looks, LastLook, Nothing
      <4>2. CASE \E y \in wr[w].todo : y.src = "perf" /\ y.cpu = b
        <5>1. PICK y \in wr[w].todo : y.src = "perf" /\ y.cpu = b
          BY <4>2
        <5>2. CASE y = x
          BY <1>5, <1>6, <1>9, <1>12, <1>28, <5>1, <5>2
        <5>3. CASE y # x
          BY <1>13, <5>1, <5>3
        <5> QED BY <5>2, <5>3
      <4> QED BY <4>1, <4>2
    <3> QED BY <1>1, <1>7, <1>15, <2>1, <3>1, Fixed DEF LastLook, Cpus
  <2>2. CASE v # w
    BY <1>1, <1>15, <2>2, LookSame DEF Looks
  <2> QED BY <2>1, <2>2
<1>30. Flows'
  <2>1. \A b \in Cpus : KernelFlow(b)' /\ PerfFlow(b)'
    BY <1>22, <1>28
  <2> QED BY <2>1 DEF Flows, Cpus
<1> QED BY <1>18, <1>19, <1>29, <1>30 DEF CpuInv, Flows, Writers

\* The piece is saved, and the kernel may use its room again.
LEMMA SaveStep ==
    ASSUME CpuInv, NEW w \in Writers, Save(w)
    PROVE  CpuInv'
<1>1. /\ CpuTypes /\ PhaseInv /\ Flows /\ Looks /\ wr[w].have # Nothing
      /\ wr' = [wr EXCEPT ![w].have = Nothing]
      /\ UNCHANGED <<conf, main, fs, kern, enabled, perf, child, made, raw, local, stop>>
  BY DEF CpuInv, Flows, Looks, Save
<1>2. PICK h \in Pieces : h = wr[w].have
  BY <1>1 DEF CpuTypes
<1>3. PICK src \in Sources : src = h.src
  BY <1>1, <1>2 DEF PhaseInv
<1>4. PICK c \in Cpus : c = h.cpu /\ Serves(w, c)
  BY <1>1, <1>2 DEF PhaseInv, Pieces
<1>5. PICK data \in Seq(Nat), head \in Nat : data = h.data /\ head = h.head
  BY <1>2 DEF Pieces
<1>6. /\ saved' = Put(saved, src, c, data)
      /\ ring' = IF src = "perf" THEN [ring EXCEPT ![c].tail = head] ELSE ring
  BY <1>2, <1>3, <1>4, <1>5 DEF Save
<1>7. PICK s \in Seq(Nat) : s = saved[src][c]
  BY <1>1 DEF CpuTypes
<1>8. PICK sq \in Seq(Nat) : sq = s \o data
  BY ConcatFacts
<1>9. saved' = [saved EXCEPT ![src][c] = sq]
  BY <1>1, <1>6, <1>7, <1>8 DEF Put, CpuTypes
<1>10. /\ saved' \in [Sources -> [Cpus -> Seq(Nat)]] /\ saved'[src][c] = sq
       /\ \A o \in Sources, b \in Cpus : o # src \/ b # c => saved'[o][b] = saved[o][b]
  BY <1>1, <1>8, <1>9 DEF CpuTypes
<1>11. wr[w].pc \in {"loop", "last"}
  BY <1>1 DEF PhaseInv, CpuTypes
<1>12. /\ wr' \in [Writers -> [pc : {"none", "loop", "last", "done"}, todo : SUBSET Places, have : Pieces]]
       /\ wr'[w].todo = wr[w].todo /\ wr'[w].pc = wr[w].pc /\ wr'[w].have = Nothing
       /\ \A v \in Writers : v # w => wr'[v] = wr[v]
  <2>1. Nothing \in Pieces
    <3>1. 0 \in Cpus
      BY CpuAssumption DEF Cpus
    <3> QED BY <3>1, EmptyFacts DEF Nothing, Pieces
  <2> QED BY <1>1, <2>1 DEF CpuTypes
<1>13. KernelFlow(c) /\ PerfFlow(c) /\ ring[c] \in Rings /\ RingHolds(ring[c])
  BY <1>1 DEF Flows, PerfFlow, CpuTypes
<1>14. /\ Held("kernel", c) = IF src = "kernel" THEN data ELSE << >>
       /\ Held("perf", c) = IF src = "perf" THEN data ELSE << >>
       /\ Held("kernel", c)' = << >> /\ Held("perf", c)' = << >>
  BY <1>1, <1>2, <1>3, <1>4, <1>5, <1>12, HeldFacts DEF Nothing
<1>15. w = Server(c) /\ wr[Server(c)].have = h
  BY <1>2, <1>4, OneServer
<1>16. src = "perf" => /\ head = Len(saved["perf"][c]) + Len(data) /\ head <= ring[c].head
                       /\ ring[c].tail = Len(saved["perf"][c])
  BY <1>3, <1>4, <1>5, <1>13, <1>15 DEF PerfFlow
<1>17. src = "perf" => ring[c].tail <= head
  <2>1. PICK n \in Nat : n = Len(saved["perf"][c])
    BY <1>1, ConcatFacts DEF CpuTypes, Sources
  <2>2. PICK l \in Nat : l = Len(data)
    BY ConcatFacts
  <2> QED BY <1>16, <2>1, <2>2
<1>18. PICK r : r = [ring[c] EXCEPT !.tail = head]
  OBVIOUS
<1>19. src = "perf" => /\ r \in Rings /\ RingHolds(r) /\ r.tail = head /\ r.head = ring[c].head
                       /\ ring' = [ring EXCEPT ![c] = r]
  <2>1. ASSUME src = "perf" PROVE r \in Rings /\ RingHolds(r) /\ r.tail = head /\ r.head = ring[c].head
    BY <1>13, <1>16, <1>17, <1>18, <2>1, RingShrinks
  <2>2. src = "perf" => ring' = [ring EXCEPT ![c] = r]
    BY <1>1, <1>6, <1>18 DEF CpuTypes
  <2> QED BY <2>1, <2>2
<1>20. /\ ring' \in [Cpus -> Rings]
       /\ src = "perf" => ring'[c] = r
       /\ src # "perf" => ring' = ring
       /\ \A b \in Cpus : b # c => ring'[b] = ring[b]
  BY <1>1, <1>6, <1>19 DEF CpuTypes
<1>21. CpuTypes'
  BY <1>1, <1>10, <1>12, <1>20 DEF CpuTypes, Cpus, Writers, Places, Pieces, Rings, Sources, Files, Values
<1>22. PhaseInv' /\ FilesInv'
  <2>1. \A y \in wr[w].todo : Serves(w, y.cpu)
    BY <1>1 DEF PhaseInv
  <2>2. wr[w].pc # "loop" => stop # "no"
    BY <1>1, <1>11 DEF PhaseInv
  <2>3. main # "end"
    BY <1>11, WriterAlive
  <2> QED BY <1>1, <1>11, <1>12, <2>1, <2>2, <2>3, OthersSame
<1>23. ASSUME NEW b \in Cpus, b # c PROVE KernelFlow(b)' /\ PerfFlow(b)'
  <2>1. saved'["kernel"][b] = saved["kernel"][b] /\ saved'["perf"][b] = saved["perf"][b]
    BY <1>10, <1>23 DEF Sources
  <2>2. raw'[b] = raw[b] /\ ring'[b] = ring[b] /\ made'["kernel"][b] = made["kernel"][b]
        /\ made'["perf"][b] = made["perf"][b] /\ KernelFlow(b) /\ PerfFlow(b)
    BY <1>1, <1>20, <1>23 DEF Flows
  <2>3. CASE Server(b) = w
    <3>1. Serves(w, b)
      BY <2>3, OneServer
    <3>2. wr[w].have.cpu # b
      BY <1>2, <1>4, <1>23
    <3>3. Held("kernel", b) = << >> /\ Held("perf", b) = << >>
      BY <1>1, <3>1, <3>2, HeldFacts
    <3>4. Held("kernel", b)' = << >> /\ Held("perf", b)' = << >>
      BY <1>1, <1>12, <3>1, HeldFacts DEF Nothing
    <3>5. KernelFlow(b)'
      BY <2>1, <2>2, <3>3, <3>4, KernelSame
    <3>6. wr'[Server(b)].have.src # "perf"
      BY <1>12, <2>3 DEF Nothing
    <3>7. PerfFlow(b)'
      BY <2>1, <2>2, <3>3, <3>4, <3>6, Fixed DEF PerfFlow, Follows, RingHolds
    <3> QED BY <3>5, <3>7
  <2>4. CASE Server(b) # w
    <3>1. wr'[Server(b)].have = wr[Server(b)].have
      BY <1>12, <2>4, OneServer
    <3>2. Held("kernel", b)' = Held("kernel", b)
      BY <3>1, HeldSame
    <3> QED BY <2>1, <2>2, <3>1, <3>2, KernelSame, PerfSame
  <2> QED BY <2>3, <2>4
<1>24. ASSUME src = "kernel" PROVE KernelFlow(c)' /\ PerfFlow(c)'
  <2>1. PICK n \in Nat, l \in Nat : n = Len(s) /\ l = Len(data) /\ Len(sq) = n + l
    BY <1>8, ConcatFacts
  <2>2. PICK q \in Seq(Nat) : q = raw[c]
    BY <1>1 DEF CpuTypes
  <2>3. /\ Follows(s, 0) /\ Follows(data, n) /\ Follows(q, n + l)
        /\ made["kernel"][c] = n + l + Len(q)
    BY <1>7, <1>13, <1>14, <1>24, <2>1, <2>2 DEF KernelFlow
  <2>4. Follows(sq, 0)
    <3>1. Follows(data, 0 + Len(s)) /\ 0 \in Nat
      BY <2>1, <2>3
    <3> QED BY <1>8, <2>3, <3>1, ConcatFollows
  <2>5. PICK e : e = << >> /\ Follows(e, n + l) /\ Len(e) = 0
    BY EmptyFacts
  <2>6. PICK k \in Nat : k = Len(q)
    BY <2>2, ConcatFacts
  <2>7. n + l + 0 = n + l /\ n + l + 0 + k = n + l + k
    OBVIOUS
  <2>8. Follows(q, Len(sq) + Len(e)) /\ made'["kernel"][c] = Len(sq) + Len(e) + Len(q)
    BY <1>1, <2>1, <2>3, <2>5, <2>6, <2>7
  <2>9. saved'["kernel"][c] = sq /\ Held("kernel", c)' = e /\ raw'[c] = q /\ Follows(e, Len(sq))
    BY <1>1, <1>10, <1>14, <1>24, <2>1, <2>2, <2>5
  <2>10. KernelFlow(c)'
    BY <2>4, <2>8, <2>9, KernelFlowIs
  <2>11. saved'["perf"][c] = saved["perf"][c] /\ made'["perf"][c] = made["perf"][c] /\ ring'[c] = ring[c]
    BY <1>1, <1>10, <1>20, <1>24 DEF Sources
  <2>12. wr'[Server(c)].have.src # "perf" /\ Held("perf", c) = << >>
    BY <1>12, <1>14, <1>15, <1>24 DEF Nothing
  <2>13. PerfFlow(c)'
    BY <1>13, <1>14, <2>11, <2>12, Fixed DEF PerfFlow, Follows, RingHolds
  <2> QED BY <2>10, <2>13
<1>25. ASSUME src = "perf" PROVE KernelFlow(c)' /\ PerfFlow(c)'
  <2>1. saved'["kernel"][c] = saved["kernel"][c] /\ made'["kernel"][c] = made["kernel"][c] /\ raw'[c] = raw[c]
    BY <1>1, <1>10, <1>25 DEF Sources
  <2>2. Held("kernel", c)' = Held("kernel", c)
    BY <1>14, <1>25
  <2>3. KernelFlow(c)'
    BY <1>13, <2>1, <2>2, KernelSame
  <2>4. Follows(s, 0) /\ Follows(data, Len(s)) /\ ring[c].head = made["perf"][c]
    BY <1>7, <1>13, <1>14, <1>25 DEF PerfFlow
  <2>5. Follows(sq, 0)
    <3>1. Follows(data, 0 + Len(s)) /\ 0 \in Nat
      <4>1. Len(s) \in Nat
        BY ConcatFacts
      <4> QED BY <2>4, <4>1
    <3> QED BY <1>8, <2>4, <3>1, ConcatFollows
  <2>6. head = Len(sq)
    BY <1>7, <1>8, <1>16, <1>25, ConcatFacts
  <2>7. saved'["perf"][c] = sq /\ ring'[c] = r /\ made'["perf"][c] = r.head
    BY <1>1, <1>10, <1>19, <1>20, <1>25, <2>4
  <2>8. RingHolds(r) /\ r.tail = Len(sq)
    BY <1>19, <1>25, <2>6
  <2>9. wr'[Server(c)].have.src # "perf"
    BY <1>12, <1>15 DEF Nothing
  <2>10. Held("perf", c)' = << >> /\ Follows(<< >>, Len(sq))
    BY <1>14, EmptyFacts
  <2>11. PerfFlow(c)'
    BY <2>5, <2>7, <2>8, <2>9, <2>10, Fixed DEF PerfFlow, Follows, RingHolds
  <2> QED BY <2>3, <2>11
<1>26. Flows'
  <2>1. \A b \in Cpus : KernelFlow(b)' /\ PerfFlow(b)'
    BY <1>23, <1>24, <1>25 DEF Sources
  <2> QED BY <2>1 DEF Flows, Cpus
<1>27. ASSUME NEW v \in Writers PROVE LastLook(v)'
  <2>1. CASE v = w
    <3>1. ASSUME wr[w].pc = "last", perf, stop = "child", NEW b \in Cpus, Serves(w, b)
          PROVE  \/ \E y \in wr[w].todo : y.src = "perf" /\ y.cpu = b
                 \/ ring'[b].tail = ring'[b].head
      <4>1. \/ \E y \in wr[w].todo : y.src = "perf" /\ y.cpu = b
            \/ h.src = "perf" /\ h.cpu = b /\ h.head = ring[b].head
            \/ ring[b].tail = ring[b].head
        BY <1>1, <1>2, <3>1 DEF Looks, LastLook
      <4>2. CASE h.src = "perf" /\ h.cpu = b /\ h.head = ring[b].head
        BY <1>3, <1>4, <1>5, <1>19, <1>20, <4>2
      <4>3. CASE ring[b].tail = ring[b].head
        <5>1. CASE src = "perf" /\ b = c
          <6>1. PICK t \in Nat : t = ring[c].tail /\ t = ring[c].head
            BY <1>13, <4>3, <5>1 DEF Rings
          <6>2. head = t
            BY <1>16, <1>17, <5>1, <6>1
          <6> QED BY <1>19, <1>20, <5>1, <6>1, <6>2
        <5>2. CASE ~(src = "perf" /\ b = c)
          BY <1>20, <4>3, <5>2
        <5> QED BY <5>1, <5>2
      <4> QED BY <4>1, <4>2, <4>3
    <3>2. wr'[w].pc \in {"last", "done"} /\ perf /\ stop = "child" =>
            \A b \in Cpus : Serves(w, b) => \/ \E y \in wr'[w].todo : y.src = "perf" /\ y.cpu = b
                                            \/ ring'[b].tail = ring'[b].head
      BY <1>11, <1>12, <3>1
    <3> QED BY <1>1, <2>1, <3>2, Fixed DEF LastLook, Cpus
  <2>2. CASE v # w
    <3>1. ASSUME wr[v].pc \in {"last", "done"}, perf, stop = "child", NEW b \in Cpus, Serves(v, b)
          PROVE  \/ \E y \in wr[v].todo : y.src = "perf" /\ y.cpu = b
                 \/ wr[v].have.src = "perf" /\ wr[v].have.cpu = b /\ wr[v].have.head = ring'[b].head
                 \/ ring'[b].tail = ring'[b].head
      <4>1. b # c
        BY <1>4, <2>2, <3>1, OneServer
      <4>2. ring'[b] = ring[b]
        BY <1>20, <4>1
      <4> QED BY <1>1, <3>1, <4>2 DEF Looks, LastLook
    <3> QED BY <1>1, <1>12, <2>2, <3>1, Fixed DEF LastLook, Cpus
  <2> QED BY <2>1, <2>2
<1> QED BY <1>21, <1>22, <1>26, <1>27 DEF CpuInv, Flows, Writers

-----------------------------------------------------------------------------
(* The steps of the kernel and the child *)

\* ftrace writes nothing after the files were put back.
LEMMA KernelMakesStep ==
    ASSUME CpuInv, NEW c \in Cpus, KernelMakes(c)
    PROVE  CpuInv'
<1>1. /\ CpuTypes /\ FilesInv /\ PhaseInv /\ Flows /\ Looks /\ fs["current_tracer"] = "set"
      /\ made' = [made EXCEPT !["kernel"][c] = @ + 1]
      /\ raw' = [raw EXCEPT ![c] = Append(@, made'["kernel"][c])]
      /\ UNCHANGED <<conf, main, fs, kern, enabled, perf, child, ring, saved, local, stop, wr>>
  BY DEF CpuInv, Flows, Looks, KernelMakes
<1>2. main # "end"
  BY <1>1 DEF FilesInv, Files
<1>3. PICK m \in Nat, q \in Seq(Nat) : m = made["kernel"][c] /\ q = raw[c]
  BY <1>1 DEF CpuTypes, Sources
<1>4. /\ made'["kernel"][c] = m + 1 /\ \A b \in Cpus : made'["perf"][b] = made["perf"][b]
      /\ \A b \in Cpus : b # c => made'["kernel"][b] = made["kernel"][b]
      /\ made' \in [Sources -> [Cpus -> Nat]]
  BY <1>1, <1>3 DEF CpuTypes, Sources
<1>5. PICK n \in Nat, k \in Nat, l \in Nat : n = Len(saved["kernel"][c]) /\ k = Len(Held("kernel", c)) /\ l = Len(q)
  <2>1. saved["kernel"][c] \in Seq(Nat)
    BY <1>1 DEF CpuTypes, Sources
  <2>2. Held("kernel", c) \in Seq(Nat)
    BY <1>1, OneServer, EmptyFacts DEF CpuTypes, Pieces, Held
  <2> QED BY <2>1, <2>2, ConcatFacts
<1>6. Follows(q, n + k) /\ m = n + k + l
  BY <1>1, <1>3, <1>5 DEF Flows, KernelFlow
<1>7. PICK q2 \in Seq(Nat) : q2 = Append(q, m + 1) /\ Len(q2) = l + 1 /\ Follows(q2, n + k)
  <2>1. PICK a \in Nat, e \in Nat : a = n + k /\ e = m + 1
    OBVIOUS
  <2>2. e = a + Len(q) + 1
    BY <1>5, <1>6, <2>1
  <2> QED BY <1>5, <1>6, <2>1, <2>2, AppendFollows
<1>8. raw'[c] = q2 /\ raw' \in [Cpus -> Seq(Nat)] /\ \A b \in Cpus : b # c => raw'[b] = raw[b]
  <2>1. raw' = [raw EXCEPT ![c] = q2]
    BY <1>1, <1>3, <1>4, <1>7 DEF CpuTypes
  <2> QED BY <1>1, <2>1 DEF CpuTypes
<1>9. CpuTypes'
  BY <1>1, <1>4, <1>8 DEF CpuTypes, Cpus, Writers, Places, Pieces, Rings, Sources, Files, Values
<1>10. FilesInv'
  BY <1>1, FilesSame
<1>11. PhaseInv'
  BY <1>1, <1>2, Fixed DEF PhaseInv, Writers, Nothing, Sources
<1>12. ASSUME NEW b \in Cpus PROVE PerfFlow(b)' /\ Held("kernel", b)' = Held("kernel", b)
  BY <1>1, <1>4, PerfSame, HeldSame DEF Flows
<1>13. ASSUME NEW b \in Cpus PROVE KernelFlow(b)'
  <2>1. CASE b # c
    BY <1>1, <1>4, <1>8, <1>12, <2>1, KernelSame DEF Flows
  <2>2. CASE b = c
    <3>1. PICK s : s = saved["kernel"][c] /\ Follows(s, 0) /\ Len(s) = n
      BY <1>1, <1>5 DEF Flows, KernelFlow
    <3>2. PICK h : h = Held("kernel", c) /\ Follows(h, n) /\ Len(h) = k
      BY <1>1, <1>5 DEF Flows, KernelFlow
    <3>3. /\ saved'["kernel"][c] = s /\ Held("kernel", c)' = h /\ raw'[c] = q2
          /\ made'["kernel"][c] = n + k + (l + 1)
      BY <1>1, <1>4, <1>6, <1>8, <1>12, <3>1, <3>2
    <3> QED BY <1>7, <2>2, <3>1, <3>2, <3>3, KernelFlowIs
  <2> QED BY <2>1, <2>2
<1>14. \A w \in Writers : LastLook(w)'
  BY <1>1, LookSame DEF Looks
<1> QED BY <1>9, <1>10, <1>11, <1>12, <1>13, <1>14 DEF CpuInv, Cpus, Writers

\* perf writes where there is room.
LEMMA PerfMakesStep ==
    ASSUME CpuInv, NEW c \in Cpus, PerfMakes(c)
    PROVE  CpuInv'
<1>1. /\ CpuTypes /\ FilesInv /\ PhaseInv /\ Flows /\ Looks /\ child = "runs"
      /\ ring[c].head - ring[c].tail < Ring
      /\ made' = [made EXCEPT !["perf"][c] = @ + 1]
      /\ ring' = [ring EXCEPT ![c].buf[ring[c].head % Ring] = made'["perf"][c], ![c].head = @ + 1]
      /\ UNCHANGED <<conf, main, fs, kern, enabled, perf, child, raw, saved, local, stop, wr>>
  BY DEF CpuInv, Flows, Looks, PerfMakes
<1>2. PerfFlow(c) /\ ring[c] \in Rings /\ RingHolds(ring[c]) /\ ring[c].head = made["perf"][c]
  BY <1>1 DEF Flows, PerfFlow, CpuTypes
<1>3. PICK v \in Nat : v = ring[c].head + 1
  BY <1>2 DEF Rings
<1>4. /\ made'["perf"][c] = v /\ \A b \in Cpus : made'["kernel"][b] = made["kernel"][b]
      /\ \A b \in Cpus : b # c => made'["perf"][b] = made["perf"][b]
      /\ made' \in [Sources -> [Cpus -> Nat]]
  BY <1>1, <1>2, <1>3 DEF CpuTypes, Sources
<1>5. PICK r : r = [ring[c] EXCEPT !.buf[ring[c].head % Ring] = v, !.head = @ + 1]
  OBVIOUS
<1>6. r \in Rings /\ RingHolds(r) /\ r.tail = ring[c].tail /\ r.head = v
  BY <1>1, <1>2, <1>3, <1>5, RingGrows
<1>7. ring' = [ring EXCEPT ![c] = r]
  <2>1. PICK k, d : k = ring[c].head % Ring /\ d = v
    OBVIOUS
  <2>2. ring' = [ring EXCEPT ![c].buf[k] = d, ![c].head = @ + 1]
    BY <1>1, <1>4, <2>1
  <2>3. ring \in [Cpus -> Rings]
    BY <1>1 DEF CpuTypes
  <2>4. ring' = [ring EXCEPT ![c] = [ring[c] EXCEPT !.buf[k] = d, !.head = @ + 1]]
    BY <1>2, <2>2, <2>3
  <2>5. r = [ring[c] EXCEPT !.buf[k] = d, !.head = @ + 1]
    BY <1>5, <2>1
  <2> QED BY <2>4, <2>5
<1>8. ring'[c] = r /\ ring' \in [Cpus -> Rings] /\ \A b \in Cpus : b # c => ring'[b] = ring[b]
  <2>1. ring \in [Cpus -> Rings]
    BY <1>1 DEF CpuTypes
  <2> QED BY <1>6, <1>7, <2>1
<1>9. CpuTypes'
  BY <1>1, <1>4, <1>8 DEF CpuTypes, Cpus, Writers, Places, Pieces, Rings, Sources, Files, Values
<1>10. FilesInv'
  BY <1>1, FilesSame
<1>11. PhaseInv'
  BY <1>1, Fixed DEF PhaseInv, Writers, Nothing, Sources, Cpus
<1>12. ASSUME NEW b \in Cpus PROVE Held("perf", b)' = Held("perf", b) /\ KernelFlow(b)'
  BY <1>1, <1>4, HeldSame, KernelSame DEF Flows
<1>13. ASSUME NEW b \in Cpus PROVE PerfFlow(b)'
  <2>1. CASE b # c
    BY <1>1, <1>4, <1>8, <2>1, PerfSame DEF Flows
  <2>2. CASE b = c
    <3>1. Held("perf", c)' = Held("perf", c)
      BY <1>12
    <3>2. wr'[Server(c)].have = wr[Server(c)].have /\ saved'["perf"][c] = saved["perf"][c]
      BY <1>1
    <3>3. ring'[c].tail = ring[c].tail /\ ring'[c].head = made'["perf"][c] /\ RingHolds(ring'[c])
      BY <1>4, <1>6, <1>8
    <3>4. wr[Server(c)].have.src = "perf" /\ wr[Server(c)].have.cpu = c =>
            wr[Server(c)].have.head <= ring'[c].head
      <4>1. wr[Server(c)].have.head \in Nat /\ ring[c].head \in Nat
        BY <1>1, <1>2, OneServer DEF CpuTypes, Pieces, Rings
      <4>2. ring'[c].head = ring[c].head + 1
        BY <1>3, <1>6, <1>8
      <4> QED BY <1>2, <4>1, <4>2 DEF PerfFlow
    <3> QED BY <1>2, <2>2, <3>1, <3>2, <3>3, <3>4, Fixed DEF PerfFlow, Follows, RingHolds
  <2> QED BY <2>1, <2>2
<1>14. \A w \in Writers : LastLook(w)'
  <2>1. stop # "child"
    BY <1>1 DEF PhaseInv
  <2> QED BY <1>1, <2>1 DEF LastLook
<1> QED BY <1>9, <1>10, <1>11, <1>12, <1>13, <1>14 DEF CpuInv, Cpus, Writers

LEMMA ChildExitsStep ==
    ASSUME CpuInv, ChildExits
    PROVE  CpuInv'
<1>1. /\ CpuTypes /\ FilesInv /\ PhaseInv /\ Flows /\ Looks /\ child = "runs" /\ child' = "gone"
      /\ UNCHANGED <<conf, main, fs, kern, enabled, perf, made, raw, ring, saved, local, stop, wr>>
  BY DEF CpuInv, Flows, Looks, ChildExits
<1>2. CpuTypes'
  BY <1>1 DEF CpuTypes, Cpus, Writers, Places, Pieces, Rings, Sources, Files, Values
<1>3. FilesInv'
  BY <1>1, FilesSame
<1>4. PhaseInv'
  BY <1>1, Fixed DEF PhaseInv, Writers, Nothing, Sources, Cpus
<1>5. Flows'
  BY <1>1, FlowsSame
<1>6. \A w \in Writers : LastLook(w)'
  BY <1>1, LookSame DEF Looks
<1> QED BY <1>2, <1>3, <1>4, <1>5, <1>6 DEF CpuInv, Flows, Writers

LEMMA CpuStutter ==
    ASSUME CpuInv, UNCHANGED cpuVars
    PROVE  CpuInv'
<1>1. /\ CpuTypes /\ FilesInv /\ PhaseInv /\ Flows /\ Looks
      /\ UNCHANGED <<conf, main, fs, kern, enabled, perf, child, made, raw, ring, saved, local, stop, wr>>
  BY DEF CpuInv, Flows, Looks, cpuVars
<1>2. CpuTypes'
  BY <1>1 DEF CpuTypes, Cpus, Writers, Places, Pieces, Rings, Sources, Files, Values
<1>3. FilesInv'
  BY <1>1, FilesSame
<1>4. PhaseInv'
  BY <1>1, Fixed DEF PhaseInv, Writers, Nothing, Sources, Cpus
<1>5. Flows'
  BY <1>1, FlowsSame
<1>6. \A w \in Writers : LastLook(w)'
  BY <1>1, LookSame DEF Looks
<1> QED BY <1>2, <1>3, <1>4, <1>5, <1>6 DEF CpuInv, Flows, Writers

-----------------------------------------------------------------------------
(* The theorem *)

LEMMA CpuStep ==
    ASSUME Works, CpuInv, [CpuNext]_cpuVars
    PROVE  CpuInv'
<1>1. CASE SetupWriters \/ StartTracing \/ StopTracing \/ DrainPipe \/ FinishWriters
  BY <1>1, SetupWritersStep, StartTracingStep, StopTracingStep, DrainPipeStep, FinishWritersStep
<1>2. CASE \E w \in Writers : Poll(w) \/ Take(w) \/ Save(w) \/ Leave(w) \/ WriterGone(w)
  BY <1>2, PollStep, TakeStep, SaveStep, LeaveStep, WriterGoneStep
<1>3. CASE \E c \in Cpus : KernelMakes(c) \/ PerfMakes(c)
  BY <1>3, KernelMakesStep, PerfMakesStep
<1>4. CASE ChildExits
  BY <1>4, ChildExitsStep
<1>5. CASE UNCHANGED cpuVars
  BY <1>5, CpuStutter
<1> QED BY <1>1, <1>2, <1>3, <1>4, <1>5 DEF CpuNext

LEMMA CpuKept ==
    ASSUME CpuInv
    PROVE  CpuDataKept
<1>1. CpuTypes /\ FilesInv /\ PhaseInv /\ Flows /\ Looks
  BY DEF CpuInv, Flows, Looks
<1>2. TracefsRestored
  BY <1>1 DEF TracefsRestored, CpuTypes, FilesInv
<1>3. ASSUME NEW c \in Cpus, NEW src \in Sources PROVE saved[src][c] = Whole(Len(saved[src][c]))
  <2>1. saved[src][c] \in Seq(Nat)
    BY <1>1 DEF CpuTypes
  <2>2. Follows(saved[src][c], 0)
    BY <1>1 DEF Flows, KernelFlow, PerfFlow, Sources
  <2> QED BY <2>1, <2>2, FollowsWhole
<1>4. ASSUME main = "end", NEW c \in Cpus PROVE wr[Server(c)].todo = {} /\ wr[Server(c)].have = Nothing
  BY <1>1, <1>4, OneServer DEF PhaseInv
<1>5. ASSUME main = "end", kern, NEW c \in Cpus PROVE Len(saved["kernel"][c]) = made["kernel"][c]
  <2>1. raw[c] = << >> /\ Held("kernel", c) = << >>
    BY <1>1, <1>4, <1>5 DEF PhaseInv, Held, Nothing
  <2>2. PICK n \in Nat : n = Len(saved["kernel"][c])
    BY <1>1, ConcatFacts DEF CpuTypes, Sources
  <2>3. made["kernel"][c] = n + 0 + 0
    BY <1>1, <2>1, <2>2, EmptyFacts DEF Flows, KernelFlow
  <2> QED BY <2>2, <2>3
<1>6. ASSUME main = "end", perf, stop = "child", NEW c \in Cpus PROVE Len(saved["perf"][c]) = made["perf"][c]
  <2>1. wr[Server(c)].pc = "done"
    BY <1>1, <1>6, OneServer DEF PhaseInv
  <2>2. ring[c].tail = ring[c].head
    BY <1>1, <1>4, <1>6, <2>1, OneServer DEF Looks, LastLook, Nothing
  <2> QED BY <1>1, <2>2 DEF Flows, PerfFlow
<1>7. KernelDataKept
  BY <1>3, <1>5 DEF KernelDataKept, Sources
<1>8. PerfDataKept
  BY <1>3, <1>6 DEF PerfDataKept, Sources
<1> QED BY <1>2, <1>7, <1>8 DEF CpuDataKept

\* Whatever happens on however many CPUs, in rings of any size, and however the writers and the
\* main thread interleave: recording saves all of it once and in order and puts tracefs back,
\* also where setup_kernel_tracing() fails halfway (finish_kernel_tracing(), record_perf_data()).
THEOREM CpuDataSafe == Works /\ CpuSpec => []CpuDataKept
<1>1. SUFFICES ASSUME Works PROVE CpuSpec => []CpuDataKept
  OBVIOUS
<1>2. CpuInit => CpuInv
  BY InitStep
<1>3. CpuInv /\ [CpuNext]_cpuVars => CpuInv'
  BY <1>1, CpuStep
<1>4. CpuInv => CpuDataKept
  BY CpuKept
<1> QED BY <1>2, <1>3, <1>4, PTL DEF CpuSpec
=================================================================================
