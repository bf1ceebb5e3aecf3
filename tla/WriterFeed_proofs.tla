-------------------------- MODULE WriterFeed_proofs ---------------------------
(***************************************************************************)
(* Proofs about the writer pool: for any tasks, writers, pipe capacity and *)
(* number of buffers, the safety properties of WriterFeed hold.            *)
(***************************************************************************)
EXTENDS WriterFeed, WriterPool_proofs

(* Handing over a numbered buffer, writing its number, and all the rest are *)
(* steps of the pool.                                                      *)
LEMMA FeedStep ==
  ASSUME TypeOK, [Next]_vars
  PROVE  PoolStep(Buf)
<1>1. ASSUME NEW t \in Tasks, Feed(t) PROVE PoolStep(Buf)
  <2> DEFINE b == [tid |-> t, num |-> given[t] + 1]
  <2>1. b \in Buf /\ b.tid \in Tasks
    BY DEF Buf, TypeOK
  <2>2. CopyToBuffer(b)
    BY <1>1 DEF Feed
  <2> HIDE DEF b
  <2> QED BY <2>1, <2>2 DEF PoolStep
<1>2. CASE Remaining
  BY <1>2 DEF Remaining, PoolStep
<1>3. ASSUME NEW w \in Writers, Writer(w) PROVE PoolStep(Buf)
  BY <1>3 DEF Writer, Write, PoolStep
<1>4. CASE Kick \/ StopAllWriters \/ JoinWriters \/ FlushDone \/ RecordRemainingDone
  BY <1>4 DEF PoolStep
<1>5. CASE UNCHANGED vars
  BY <1>5 DEF vars, poolVars, PoolStep
<1> QED BY <1>1, <1>2, <1>3, <1>4, <1>5 DEF Next, Main, Terminated

(* Empty lists, files and counters have their types. *)
LEMMA TypeInit == Init => TypeOK
<1> SUFFICES ASSUME Init PROVE TypeOK
  OBVIOUS
<1>1. PoolTypes(Buf)
  BY TypesInit DEF Init
<1>2. << >> \in Seq(Nat)
  OBVIOUS
<1>3. file \in [Tasks -> Seq(Nat)] /\ given \in [Tasks -> Nat]
  BY <1>2 DEF Init, PoolInit
<1> QED BY <1>1, <1>3 DEF TypeOK

(* No step of the main thread or a writer breaks a type. *)
LEMMA TypeStep ==
  ASSUME TypeOK, PoolShape, [Next]_vars
  PROVE  TypeOK'
<1>1. PoolTypes(Buf)'
  BY FeedStep, PoolStepKeeps DEF TypeOK
<1>2. given' \in [Tasks -> Nat]
  <2>1. CASE \E t \in Tasks : Feed(t)
    BY <2>1 DEF TypeOK, Feed
  <2>2. CASE UNCHANGED given
    BY <2>2 DEF TypeOK
  <2> QED BY <2>1, <2>2 DEF Next, Main, Remaining, Writer, Write, Terminated, vars
<1>3. CASE UNCHANGED file
  BY <1>1, <1>2, <1>3 DEF TypeOK
<1>4. ASSUME NEW t \in Tasks, NEW n \in Nat, file' = [file EXCEPT ![t] = @ \o <<n>>]
      PROVE  TypeOK'
  <2>1. file[t] \o <<n>> \in Seq(Nat)
    BY DEF TypeOK
  <2>2. file' \in [Tasks -> Seq(Nat)]
    BY <1>4, <2>1 DEF TypeOK
  <2> QED BY <1>1, <1>2, <2>2 DEF TypeOK
<1>5. ASSUME NEW w \in Writers, Write(w) PROVE TypeOK'
  <2>1. wpc[w] = "write"
    BY <1>5 DEF Write, WriteBuffer
  <2>2. Head(head[w]) \in Buf
    BY <2>1, BacklogHead DEF TypeOK
  <2>3. Head(head[w]).num \in Nat /\ Head(head[w]).tid \in Tasks
    BY <2>2 DEF Buf
  <2> QED BY <1>4, <1>5, <2>3 DEF Write, WriteBuffer
<1>6. CASE Remaining
  <2>1. Head(order) \in Tasks /\ queue[Head(order)] # << >>
    <3>1. order # << >> /\ order \in Seq(Tasks)
      BY <1>6 DEF Remaining, RecordRemaining, TypeOK, PoolTypes
    <3>2. Head(order) \in Tasks /\ Head(order) = order[1] /\ 1 \in 1 .. Len(order)
      BY <3>1
    <3> QED BY <3>2 DEF PoolShape, ListShape
  <2>2. Head(queue[Head(order)]) \in Buf
    BY <2>1 DEF TypeOK, PoolTypes
  <2>3. Head(queue[Head(order)]).num \in Nat
    BY <2>2 DEF Buf
  <2> QED BY <1>4, <1>6, <2>1, <2>3 DEF Remaining, RecordRemaining
<1>7. ~(\E w \in Writers : Write(w)) /\ ~Remaining => UNCHANGED file
  BY DEF Next, vars, Main, Writer, WriterStep, Terminated, Feed, CopyToBuffer, PassToWriter,
       AppendToList, Kick, StopAllWriters, JoinWriters, FlushDone, RecordRemainingDone,
       PollKick, PollNothing, ReadKick, PickTask, PickNothing, SpliceBufs, LeaveTask, ReleaseBuffer
<1> QED BY <1>3, <1>5, <1>6, <1>7

(* Every step keeps the shape of lists and writers. *)
LEMMA ShapeStep ==
  ASSUME TypeOK, PoolShape, [Next]_vars
  PROVE  PoolShape'
  BY FeedStep, PoolStepKeeps DEF TypeOK

-----------------------------------------------------------------------------
(* No kick is lost. *)

(* An empty list needs no kick. *)
LEMMA KickInit == Init => KickAccount
<1> SUFFICES ASSUME Init PROVE KickAccount
  OBVIOUS
<1>1. Pickers = {}
  BY DEF Init, PoolInit, Pickers
<1> QED BY <1>1, FS_EmptySet DEF Init, PoolInit, KickAccount

(* The writers about to look at the list can be counted. *)
LEMMA PickersFinite ==
  ASSUME TRUE
  PROVE  IsFiniteSet(Pickers) /\ Cardinality(Pickers) \in Nat
<1>1. Pickers \in SUBSET Writers
  BY DEF Pickers
<1> QED BY <1>1, FeedAssumption, FS_Subset, FS_CardinalityType

(* copy_to_buffer() adds a kick for a task it queues, and a writer that uses up
   a kick takes a task off the list: the kicks always cover the queued tasks. *)
LEMMA KickStep ==
  ASSUME TypeOK, PoolShape, KickAccount, [Next]_vars
  PROVE  KickAccount'
<1> DEFINE owed == IF mpc = "kick" THEN 1 ELSE 0
<1>a. IsFiniteSet(Pickers) /\ Cardinality(Pickers) \in Nat
  BY PickersFinite
<1>b. kicks \in Nat /\ order \in Seq(Tasks) /\ Len(order) \in Nat
  BY PoolAssumption, LenProperties DEF TypeOK, PoolTypes
<1>c. CASE bufDone'
  BY <1>c DEF KickAccount
<1>d. CASE ~bufDone' /\ UNCHANGED <<order, kicks, mpc>> /\ Pickers' = Pickers
  <2>1. ~bufDone
    BY <1>d DEF Next, Main, Writer, WriterStep, Terminated, vars, Feed, CopyToBuffer, PassToWriter,
                AppendToList, Kick, StopAllWriters, JoinWriters, FlushDone, RecordRemainingDone,
                Remaining, RecordRemaining, PollKick, PollNothing, ReadKick, PickTask, PickNothing,
                SpliceBufs, LeaveTask, ReleaseBuffer, Write, WriteBuffer
  <2> QED BY <1>d, <2>1 DEF KickAccount
<1>1. ASSUME NEW t \in Tasks, Feed(t), ~bufDone' PROVE KickAccount'
  <2> DEFINE b == [tid |-> t, num |-> given[t] + 1]
  <2>1. CASE \E w \in Writers : PassToWriter(w, b)
    <3>1. UNCHANGED <<order, kicks, mpc, wpc>>
      BY <2>1 DEF PassToWriter
    <3>2. Pickers' = Pickers
      BY <3>1 DEF Pickers
    <3> QED BY <1>d, <1>1, <3>1, <3>2
  <2>2. CASE AppendToList(b)
    <3>1. /\ UNCHANGED <<kicks, bufDone, wpc>> /\ mpc' = "kick"
          /\ order' = Append(order, t) \/ order' = order
      BY <2>2 DEF AppendToList
    <3>2. mpc = "run"
      BY <1>1, <3>1 DEF Feed, CopyToBuffer, PoolShape, Phases
    <3>3. Pickers' = Pickers
      BY <3>1 DEF Pickers
    <3>4. Len(order') <= Len(order) + 1
      BY <1>b, <3>1, AppendProperties
    <3>5. Len(order') \in Nat
      BY <1>b, <3>1, AppendProperties
    <3>6. Len(order) <= kicks + Cardinality(Pickers)
      BY <1>1, <1>a, <1>b, <3>1, <3>2 DEF KickAccount
    <3>7. Len(order') <= kicks + Cardinality(Pickers) + 1
      BY <1>a, <1>b, <3>4, <3>5, <3>6
    <3> QED BY <3>1, <3>3, <3>7 DEF KickAccount
  <2> QED BY <1>1, <2>1, <2>2 DEF Feed, CopyToBuffer
<1>2. CASE Kick /\ ~bufDone'
  <2>1. /\ UNCHANGED <<order, bufDone, wpc>> /\ mpc = "kick" /\ mpc' = "run" /\ kicks' = kicks + 1
    BY <1>2 DEF Kick
  <2>2. Pickers' = Pickers
    BY <2>1 DEF Pickers
  <2>3. Len(order) <= kicks + Cardinality(Pickers) + 1
    BY <1>2, <2>1 DEF KickAccount
  <2>4. Len(order) <= (kicks + 1) + Cardinality(Pickers) + 0
    BY <1>a, <1>b, <2>3
  <2> QED BY <2>1, <2>2, <2>4 DEF KickAccount
<1>3. CASE (StopAllWriters \/ JoinWriters \/ FlushDone \/ RecordRemainingDone \/ Remaining) /\ ~bufDone'
  BY <1>3 DEF StopAllWriters, JoinWriters, FlushDone, RecordRemainingDone, Remaining,
              RecordRemaining, PoolShape, Phases
<1>4. ASSUME NEW w \in Writers, ReadKick(w), ~bufDone' PROVE KickAccount'
  <2>1. /\ UNCHANGED <<order, bufDone, mpc>> /\ kicks > 0 /\ kicks' = kicks - 1
        /\ wpc[w] = "read" /\ wpc' = [wpc EXCEPT ![w] = "pick"]
    BY <1>4 DEF ReadKick
  <2>2. Pickers' = Pickers \cup {w} /\ w \notin Pickers
    BY <2>1 DEF Pickers, TypeOK, PoolTypes
  <2>3. Cardinality(Pickers') = Cardinality(Pickers) + 1
    BY <1>a, <2>2, FS_AddElement
  <2>4. Len(order) <= kicks + Cardinality(Pickers) + owed
    BY <1>4, <2>1 DEF KickAccount
  <2>5. Len(order) <= (kicks - 1) + (Cardinality(Pickers) + 1) + owed
    BY <1>a, <1>b, <2>4
  <2> QED BY <2>1, <2>3, <2>5 DEF KickAccount
<1>5. ASSUME NEW w \in Writers, PickTask(w) \/ PickNothing(w), ~bufDone' PROVE KickAccount'
  <2>1. /\ UNCHANGED <<bufDone, mpc, kicks>> /\ wpc[w] = "pick" /\ mpc # "kick"
        /\ wpc' \in {[wpc EXCEPT ![w] = "write"], [wpc EXCEPT ![w] = "poll"]}
    BY <1>5 DEF PickTask, PickNothing, LockFree, LoopTop
  <2>2. Pickers' = Pickers \ {w} /\ w \in Pickers
    BY <2>1 DEF Pickers, TypeOK, PoolTypes
  <2>3. Cardinality(Pickers') = Cardinality(Pickers) - 1 /\ Cardinality(Pickers') \in Nat
    BY <1>a, <2>2, FS_RemoveElement, FS_CardinalityType
  <2>4. Len(order) <= kicks + Cardinality(Pickers)
    BY <1>5, <1>a, <1>b, <2>1 DEF KickAccount
  <2>5. CASE PickTask(w)
    <3>1. order # << >> /\ order' = Tail(order)
      BY <2>5 DEF PickTask
    <3>2. Len(order') = Len(order) - 1
      BY <1>b, <3>1, TailFacts
    <3>3. Len(order') <= kicks + Cardinality(Pickers') + 0
      BY <1>a, <1>b, <2>3, <2>4, <3>2
    <3> QED BY <2>1, <3>3 DEF KickAccount
  <2>6. CASE PickNothing(w)
    <3>1. order' = << >>
      BY <2>6 DEF PickNothing
    <3>2. Len(order') <= kicks + Cardinality(Pickers') + 0
      BY <1>b, <2>3, <3>1
    <3> QED BY <2>1, <3>2 DEF KickAccount
  <2> QED BY <1>5, <2>5, <2>6
<1>6. ASSUME NEW w \in Writers, ~bufDone',
             PollKick(w) \/ PollNothing(w) \/ Write(w) \/ ReleaseBuffer(w) \/ SpliceBufs(w) \/ LeaveTask(w)
      PROVE  KickAccount'
  <2>1. UNCHANGED <<order, kicks, mpc>>
    BY <1>6 DEF PollKick, PollNothing, Write, WriteBuffer, ReleaseBuffer, SpliceBufs, LeaveTask
  <2>2. wpc[w] # "pick" /\ \E p \in WriterPCs \ {"pick"} : wpc' = [wpc EXCEPT ![w] = p]
    BY <1>6 DEF PollKick, PollNothing, Write, WriteBuffer, ReleaseBuffer, SpliceBufs, LeaveTask,
                LoopTop, WriterPCs
  <2>3. Pickers' = Pickers
    BY <2>2 DEF Pickers, TypeOK, PoolTypes
  <2> QED BY <1>d, <1>6, <2>1, <2>3
<1>7. CASE UNCHANGED vars /\ ~bufDone'
  <2>1. UNCHANGED <<order, kicks, mpc, wpc>>
    BY <1>7 DEF vars
  <2>2. Pickers' = Pickers
    BY <2>1 DEF Pickers
  <2> QED BY <1>d, <1>7, <2>1, <2>2
<1> QED
  BY <1>c, <1>1, <1>2, <1>3, <1>4, <1>5, <1>6, <1>7 DEF Next, Main, Writer, WriterStep, Terminated

-----------------------------------------------------------------------------
(* The buffers of a task reach its file in order. *)

(* Moving one buffer from a list to the file keeps the sum. *)
LEMMA MoveOne ==
  /\ \A a, c \in Int : (a + c) + 1 = a + (c + 1)
  /\ \A a, c \in Int : a + c = (a + 1) + (c - 1)
  OBVIOUS

(* A numbered list stays numbered when the next buffer is added. *)
LEMMA ConsecutiveAppend ==
  ASSUME NEW s \in Seq(Buf), NEW b \in Buf, NEW n \in Int,
         Consecutive(s, n), b.num = n + Len(s) + 1
  PROVE  Consecutive(Append(s, b), n) /\ Len(Append(s, b)) = Len(s) + 1
<1>1. /\ Len(Append(s, b)) = Len(s) + 1 /\ Len(s) \in Nat
      /\ \A i \in 1 .. Len(s) : Append(s, b)[i] = s[i]
      /\ Append(s, b)[Len(s) + 1] = b
  BY AppendProperties, LenProperties
<1>2. ASSUME NEW i \in 1 .. Len(s) + 1 PROVE Append(s, b)[i].num = n + i
  <2>1. CASE i \in 1 .. Len(s)
    BY <1>1, <2>1 DEF Consecutive
  <2>2. CASE i = Len(s) + 1
    BY <1>1, <2>2
  <2> QED BY <1>1, <2>1, <2>2
<1> QED BY <1>1, <1>2 DEF Consecutive

(* A numbered list without its first buffer is numbered from one further on. *)
LEMMA ConsecutiveTail ==
  ASSUME NEW s \in Seq(Buf), NEW n \in Int, Consecutive(s, n), s # << >>
  PROVE  /\ Consecutive(Tail(s), n + 1) /\ Len(Tail(s)) = Len(s) - 1
         /\ Head(s).num = n + 1 /\ Len(s) \in Nat
<1>1. /\ Head(s) = s[1] /\ Len(s) \in Nat \ {0} /\ Len(Tail(s)) = Len(s) - 1
      /\ \A i \in 1 .. Len(s) - 1 : Tail(s)[i] = s[i + 1] /\ i + 1 \in 1 .. Len(s)
  BY TailFacts
<1>2. ASSUME NEW i \in 1 .. Len(s) - 1 PROVE Tail(s)[i].num = (n + 1) + i
  BY <1>1 DEF Consecutive
<1>3. Head(s).num = n + 1
  BY <1>1 DEF Consecutive
<1> QED BY <1>1, <1>2, <1>3 DEF Consecutive

(* The empty list is numbered from anywhere. *)
LEMMA ConsecutiveEmpty ==
  ASSUME NEW n
  PROVE  Consecutive(<< >>, n) /\ Len(<< >>) = 0
  BY DEF Consecutive

(* A file that grows by the next number stays in order. *)
LEMMA InOrderAppend ==
  ASSUME NEW f \in Seq(Nat), \A i \in 1 .. Len(f) : f[i] = i
  PROVE  LET g == f \o <<Len(f) + 1>>
         IN  Len(g) = Len(f) + 1 /\ \A i \in 1 .. Len(g) : g[i] = i
<1> DEFINE g == f \o <<Len(f) + 1>>
<1>1. Len(f) \in Nat
  BY LenProperties
<1>2. <<Len(f) + 1>> \in Seq(Nat) /\ Len(<<Len(f) + 1>>) = 1 /\ <<Len(f) + 1>>[1] = Len(f) + 1
  BY <1>1
<1>3. /\ Len(g) = Len(f) + 1
      /\ \A i \in 1 .. Len(f) + 1 :
           g[i] = IF i <= Len(f) THEN f[i] ELSE <<Len(f) + 1>>[i - Len(f)]
  BY <1>2, ConcatProperties
<1> HIDE DEF g
<1>4. ASSUME NEW i \in 1 .. Len(f) + 1 PROVE g[i] = i
  <2>1. CASE i <= Len(f)
    BY <1>1, <1>3, <2>1
  <2>2. CASE ~(i <= Len(f))
    <3>1. i = Len(f) + 1 /\ i - Len(f) = 1
      BY <1>1, <2>2
    <3> QED BY <1>2, <1>3, <2>2, <3>1
  <2> QED BY <2>1, <2>2
<1>5. Len(g) = Len(f) + 1 /\ \A i \in 1 .. Len(g) : g[i] = i
  BY <1>3, <1>4
<1> QED BY <1>5 DEF g

(* The parts of the invariant about the order of buffers. *)
Numbers == Numbering /\ FileInOrder

(* Nothing is handed over and nothing is written at the start. *)
LEMMA NumbersInit == Init => Numbers
<1> SUFFICES ASSUME Init PROVE Numbers
  OBVIOUS
<1> USE DEF Init, PoolInit
<1>1. ASSUME NEW t \in Tasks PROVE QueueContinuesFile(t)
  BY ConsecutiveEmpty DEF QueueContinuesFile
<1>2. \A w \in Writers : wtid[w] = NoTask
  OBVIOUS
<1>3. FileInOrder
  BY DEF FileInOrder
<1> QED BY <1>1, <1>2, <1>3 DEF Numbers, Numbering

(* The lengths and bases that appear in Numbering are integers. *)
LEMMA NumberTypes ==
  ASSUME TypeOK
  PROVE  /\ \A t \in Tasks : /\ queue[t] \in Seq(Buf) /\ Len(queue[t]) \in Nat
                             /\ file[t] \in Seq(Nat) /\ Len(file[t]) \in Nat
                             /\ given[t] \in Nat
         /\ \A w \in Writers : /\ head[w] \in Seq(Buf) /\ Len(head[w]) \in Nat
                               /\ bufs[w] \in Seq(Buf) /\ Len(bufs[w]) \in Nat
                               /\ wtid[w] # NoTask => wtid[w] \in Tasks /\ Base(w) \in Int
<1>1. \A t \in Tasks : queue[t] \in Seq(Buf) /\ file[t] \in Seq(Nat) /\ given[t] \in Nat
  BY DEF TypeOK, PoolTypes
<1>2. \A w \in Writers : head[w] \in Seq(Buf) /\ bufs[w] \in Seq(Buf) /\ wtid[w] \in Tasks \cup {NoTask}
  BY DEF TypeOK, PoolTypes
<1>3. \A t \in Tasks : Len(queue[t]) \in Nat /\ Len(file[t]) \in Nat
  BY <1>1, LenProperties
<1>4. \A w \in Writers : Len(head[w]) \in Nat /\ Len(bufs[w]) \in Nat
  BY <1>2, LenProperties
<1>5. ASSUME NEW w \in Writers, wtid[w] # NoTask PROVE wtid[w] \in Tasks /\ Base(w) \in Int
  BY <1>2, <1>3, <1>5 DEF Base
<1> QED BY <1>1, <1>2, <1>3, <1>4, <1>5

(* Steps that touch neither buffers nor files nor who works for whom. *)
LEMMA NumbersQuiet ==
  ASSUME Numbers, UNCHANGED <<queue, file, given, wtid, head, bufs>>,
         \A w \in Writers : wtid[w] # NoTask => (wpc'[w] = "release" <=> wpc[w] = "release")
  PROVE  Numbers'
<1>1. \A t \in Tasks : Served(t) => Served(t)'
  BY DEF Served
<1>2. \A t \in Tasks : QueueContinuesFile(t) => QueueContinuesFile(t)'
  BY DEF QueueContinuesFile, Consecutive
<1>3. ASSUME NEW w \in Writers, wtid[w] # NoTask, WriterContinuesFile(w)
      PROVE  WriterContinuesFile(w)'
  <2>1. Base(w)' = Base(w)
    BY <1>3 DEF Base
  <2> QED BY <1>3, <2>1 DEF WriterContinuesFile, Consecutive
<1>4. Numbering'
  BY <1>1, <1>2, <1>3 DEF Numbers, Numbering
<1>5. FileInOrder'
  BY DEF Numbers, FileInOrder
<1> QED BY <1>4, <1>5 DEF Numbers

(* copy_to_buffer() puts the next buffer behind the last one of its task. *)
LEMMA NumbersFeed ==
  ASSUME TypeOK, PoolShape, Numbers, NEW t \in Tasks, Feed(t)
  PROVE  Numbers'
<1> DEFINE b == [tid |-> t, num |-> given[t] + 1]
<1>0. b \in Buf /\ b.tid = t /\ b.num = given[t] + 1
  BY DEF Buf, TypeOK, PoolTypes
<1>1. (\E w \in Writers : PassToWriter(w, b)) \/ AppendToList(b)
  BY DEF Feed, CopyToBuffer
<1>2. \A u \in Tasks : given'[u] = IF u = t THEN given[t] + 1 ELSE given[u]
  BY DEF Feed, TypeOK, PoolTypes
<1> HIDE DEF b
<1>3. ASSUME NEW w \in Writers, PassToWriter(w, b) PROVE Numbers'
  <2>1. /\ wtid[w] = t /\ UNCHANGED <<queue, file, wtid, head, wpc>>
        /\ \A v \in Writers : bufs'[v] = IF v = w THEN Append(bufs[w], b) ELSE bufs[v]
    BY <1>0, <1>3 DEF PassToWriter, TypeOK, PoolTypes
  <2>2. \A v \in Writers : Base(v)' = Base(v)
    BY <2>1 DEF Base
  <2>3. ASSUME NEW u \in Tasks PROVE Served(u)' \/ QueueContinuesFile(u)'
    <3>1. CASE u = t
      BY <2>1, <3>1 DEF Served
    <3>2. CASE u # t /\ Served(u)
      BY <2>1, <3>2 DEF Served
    <3>3. CASE u # t /\ QueueContinuesFile(u)
      BY <1>2, <2>1, <3>3 DEF QueueContinuesFile, Consecutive
    <3> QED BY <3>1, <3>2, <3>3 DEF Numbers, Numbering
  <2>4. ASSUME NEW v \in Writers, wtid[v] # NoTask PROVE WriterContinuesFile(v)'
    <3>0. WriterContinuesFile(v) /\ wtid[v] \in Tasks /\ Base(v) \in Int
      BY <2>4, NumberTypes DEF Numbers, Numbering
    <3>1. CASE v # w
      <4>1. wtid[v] # t
        BY <2>1, <2>4, <3>1 DEF PoolShape, OneWriterPerTask
      <4> QED BY <1>2, <2>1, <2>2, <3>0, <3>1, <4>1 DEF WriterContinuesFile, Consecutive
    <3>2. CASE v = w
      <4>1. /\ Len(head[w]) \in Nat /\ Len(bufs[w]) \in Nat /\ bufs[w] \in Seq(Buf)
            /\ given[t] = Base(w) + Len(head[w]) + Len(bufs[w])
            /\ Consecutive(head[w], Base(w)) /\ Consecutive(bufs[w], Base(w) + Len(head[w]))
        BY <2>1, <3>0, <3>2, NumberTypes DEF WriterContinuesFile
      <4>2. Base(w) + Len(head[w]) \in Int /\ b.num = Base(w) + Len(head[w]) + Len(bufs[w]) + 1
        BY <1>0, <3>0, <3>2, <4>1
      <4>3. /\ Consecutive(Append(bufs[w], b), Base(w) + Len(head[w]))
            /\ Len(Append(bufs[w], b)) = Len(bufs[w]) + 1
        BY <1>0, <4>1, <4>2, ConsecutiveAppend
      <4>4. given'[t] = Base(w) + Len(head[w]) + Len(Append(bufs[w], b))
        BY <1>2, <3>0, <3>2, <4>1, <4>3
      <4>5. Consecutive(head[w], Base(w))' /\ Consecutive(bufs[w], Base(w) + Len(head[w]))'
        BY <2>1, <2>2, <4>1, <4>3 DEF Consecutive
      <4> QED BY <2>1, <2>2, <3>2, <4>4, <4>5 DEF WriterContinuesFile
    <3> QED BY <3>1, <3>2
  <2>5. FileInOrder'
    BY <2>1 DEF Numbers, FileInOrder
  <2> QED BY <2>1, <2>3, <2>4, <2>5 DEF Numbers, Numbering
<1>4. CASE AppendToList(b)
  <2>1. /\ \A w \in Writers : wtid[w] # t
        /\ UNCHANGED <<file, wtid, head, bufs, wpc>>
        /\ \A u \in Tasks : queue'[u] = IF u = t THEN Append(queue[t], b) ELSE queue[u]
    BY <1>0, <1>4 DEF AppendToList, TypeOK, PoolTypes
  <2>2. ASSUME NEW u \in Tasks PROVE Served(u)' \/ QueueContinuesFile(u)'
    <3>1. CASE u = t
      <4>1. /\ queue[t] \in Seq(Buf) /\ Len(queue[t]) \in Nat /\ Len(file[t]) \in Nat
            /\ Consecutive(queue[t], Len(file[t])) /\ given[t] = Len(file[t]) + Len(queue[t])
        BY <2>1, NumberTypes DEF Numbers, Numbering, Served, QueueContinuesFile
      <4>2. b.num = Len(file[t]) + Len(queue[t]) + 1 /\ Len(file[t]) \in Int
        BY <1>0, <4>1
      <4>3. /\ Consecutive(Append(queue[t], b), Len(file[t]))
            /\ Len(Append(queue[t], b)) = Len(queue[t]) + 1
        BY <1>0, <4>1, <4>2, ConsecutiveAppend
      <4>4. given'[t] = Len(file[t]) + Len(Append(queue[t], b))
        <5>1. given'[t] = given[t] + 1
          BY <1>2
        <5>2. Len(file[t]) \in Int /\ Len(queue[t]) \in Int
          BY <4>1
        <5>3. (Len(file[t]) + Len(queue[t])) + 1 = Len(file[t]) + (Len(queue[t]) + 1)
          BY <5>2, MoveOne
        <5>4. given[t] = Len(file[t]) + Len(queue[t])
          BY <4>1
        <5> QED BY <4>3, <5>1, <5>3, <5>4
      <4> QED BY <2>1, <3>1, <4>3, <4>4 DEF QueueContinuesFile, Consecutive
    <3>2. CASE u # t /\ Served(u)
      BY <2>1, <3>2 DEF Served
    <3>3. CASE u # t /\ QueueContinuesFile(u)
      BY <1>2, <2>1, <3>3 DEF QueueContinuesFile, Consecutive
    <3> QED BY <3>1, <3>2, <3>3 DEF Numbers, Numbering
  <2>3. ASSUME NEW v \in Writers, wtid[v] # NoTask PROVE WriterContinuesFile(v)'
    <3>0. WriterContinuesFile(v) /\ wtid[v] \in Tasks /\ wtid[v] # t
      BY <2>1, <2>3, NumberTypes DEF Numbers, Numbering
    <3>1. Base(v)' = Base(v)
      BY <2>1 DEF Base
    <3> QED BY <1>2, <2>1, <3>0, <3>1 DEF WriterContinuesFile, Consecutive
  <2>4. FileInOrder'
    BY <2>1 DEF Numbers, FileInOrder
  <2> QED BY <2>1, <2>2, <2>3, <2>4 DEF Numbers, Numbering
<1> QED BY <1>1, <1>3, <1>4

(* The buffers a writer takes from the list continue the file. *)
LEMMA NumbersPick ==
  ASSUME TypeOK, PoolShape, Numbers, NEW w \in Writers, PickTask(w), UNCHANGED given
  PROVE  Numbers'
<1> DEFINE t == Head(order)
<1>1. /\ wpc[w] = "pick" /\ order # << >> /\ UNCHANGED <<file, bufs, given>>
      /\ wtid' = [wtid EXCEPT ![w] = t]
      /\ head' = [head EXCEPT ![w] = queue[t]]
      /\ queue' = [queue EXCEPT ![t] = << >>]
      /\ wpc' = [wpc EXCEPT ![w] = "write"]
  BY DEF PickTask
<1>2. t \in Tasks /\ t = order[1] /\ 1 \in 1 .. Len(order)
  BY <1>1, TailFacts DEF TypeOK, PoolTypes
<1> HIDE DEF t
<1>3. queue[t] # << >>
  BY <1>2 DEF PoolShape, ListShape
<1>4. \A v \in Writers : wtid[v] # t
  BY <1>2, <1>3, PoolAssumption DEF PoolShape, ServedTaskNotQueued
<1>5. wtid[w] = NoTask /\ bufs[w] = << >>
  BY <1>1 DEF PoolShape, WriterShape
<1>6. \A v \in Writers :
        /\ wtid'[v] = IF v = w THEN t ELSE wtid[v]
        /\ head'[v] = IF v = w THEN queue[t] ELSE head[v]
        /\ wpc'[v] = IF v = w THEN "write" ELSE wpc[v]
  <2>1. wtid \in [Writers -> Tasks \cup {NoTask}] /\ head \in [Writers -> Seq(Buf)]
        /\ wpc \in [Writers -> WriterPCs]
    BY DEF TypeOK, PoolTypes
  <2>2. \A v \in Writers : wtid'[v] = IF v = w THEN t ELSE wtid[v]
    BY <1>1, <2>1
  <2>3. \A v \in Writers : head'[v] = IF v = w THEN queue[t] ELSE head[v]
    BY <1>1, <2>1
  <2>4. \A v \in Writers : wpc'[v] = IF v = w THEN "write" ELSE wpc[v]
    BY <1>1, <2>1
  <2> QED BY <2>2, <2>3, <2>4
<1>7. \A u \in Tasks : queue'[u] = IF u = t THEN << >> ELSE queue[u]
  BY <1>1 DEF TypeOK, PoolTypes
<1>8. ASSUME NEW u \in Tasks PROVE Served(u)' \/ QueueContinuesFile(u)'
  <2>1. CASE u = t
    BY <1>6, <2>1 DEF Served
  <2>2. CASE u # t /\ Served(u)
    BY <1>5, <1>6, <2>2, PoolAssumption DEF Served
  <2>3. CASE u # t /\ QueueContinuesFile(u)
    BY <1>1, <1>7, <2>3 DEF QueueContinuesFile, Consecutive
  <2> QED BY <2>1, <2>2, <2>3 DEF Numbers, Numbering
<1>9. ASSUME NEW v \in Writers, wtid'[v] # NoTask PROVE WriterContinuesFile(v)'
  <2>1. CASE v = w
    <3>1. /\ Consecutive(queue[t], Len(file[t])) /\ given[t] = Len(file[t]) + Len(queue[t])
          /\ Len(file[t]) \in Nat /\ Len(queue[t]) \in Nat
      BY <1>2, <1>4, NumberTypes DEF Numbers, Numbering, Served, QueueContinuesFile
    <3>2. Base(w)' = Len(file[t])
      <4>1. file' = file /\ wtid'[w] = t /\ wpc'[w] = "write"
        BY <1>1, <1>6
      <4>2. Base(w)' = Len(file[t]) - 0
        BY <4>1 DEF Base
      <4> QED BY <3>1, <4>2
    <3>3. Consecutive(<< >>, Len(file[t]) + Len(queue[t])) /\ Len(<< >>) = 0
      BY ConsecutiveEmpty
    <3>4. bufs'[w] = << >> /\ head'[w] = queue[t] /\ wtid'[w] = t /\ given' = given
      BY <1>1, <1>5, <1>6
    <3>5. Consecutive(head[w], Base(w))' /\ Consecutive(bufs[w], Base(w) + Len(head[w]))'
      BY <3>1, <3>2, <3>3, <3>4 DEF Consecutive
    <3>6. given'[wtid'[w]] = Base(w)' + Len(head'[w]) + Len(bufs'[w])
      <4>1. given'[wtid'[w]] = given[t] /\ Len(head'[w]) = Len(queue[t]) /\ Len(bufs'[w]) = 0
        BY <3>3, <3>4
      <4>2. given[t] = Len(file[t]) + Len(queue[t]) + 0
        BY <3>1
      <4> QED BY <3>2, <4>1, <4>2
    <3> QED BY <2>1, <3>5, <3>6 DEF WriterContinuesFile
  <2>2. CASE v # w
    <3>1. WriterContinuesFile(v)
      BY <1>6, <1>9, <2>2 DEF Numbers, Numbering
    <3>2. Base(v)' = Base(v)
      BY <1>1, <1>6, <2>2 DEF Base
    <3> QED BY <1>1, <1>6, <2>2, <3>1, <3>2 DEF WriterContinuesFile, Consecutive
  <2> QED BY <2>1, <2>2
<1>10. FileInOrder'
  BY <1>1 DEF Numbers, FileInOrder
<1> QED BY <1>8, <1>9, <1>10 DEF Numbers, Numbering

(* write_buffer() appends the next buffer of the task. *)
LEMMA NumbersWrite ==
  ASSUME TypeOK, PoolShape, Numbers, NEW w \in Writers, Write(w)
  PROVE  Numbers'
<1> DEFINE t == wtid[w]
<1>1. wpc[w] = "write" /\ wtid[w] # NoTask /\ head[w] # << >>
  BY DEF Write, WriteBuffer, PoolShape, WriterShape
<1>2. /\ t \in Tasks /\ head[w] \in Seq(Buf) /\ Len(head[w]) \in Nat
      /\ file[t] \in Seq(Nat) /\ Len(file[t]) \in Nat /\ Base(w) \in Int
  BY <1>1, NumberTypes
<1>3. Head(head[w]) = head[w][1] /\ 1 \in 1 .. Len(head[w])
  BY <1>1, <1>2, TailFacts
<1>4. Head(head[w]).tid = t
  BY <1>3 DEF PoolShape, WriterShape
<1>5. WriterContinuesFile(w)
  BY <1>1 DEF Numbers, Numbering
<1>6. Base(w) = Len(file[t])
  BY <1>1, <1>2 DEF Base
<1>7. Head(head[w]).num = Len(file[t]) + 1
  BY <1>2, <1>3, <1>5, <1>6 DEF WriterContinuesFile, Consecutive
<1> HIDE DEF t
<1> DEFINE g == file[t] \o <<Len(file[t]) + 1>>
<1>8. /\ UNCHANGED <<queue, wtid, head, bufs, given>>
      /\ \A u \in Tasks : file'[u] = IF u = t THEN g ELSE file[u]
      /\ \A v \in Writers : wpc'[v] = IF v = w THEN "release" ELSE wpc[v]
  BY <1>2, <1>4, <1>7 DEF Write, WriteBuffer, TypeOK, PoolTypes
<1>9. Len(g) = Len(file[t]) + 1 /\ \A i \in 1 .. Len(g) : g[i] = i
  BY <1>2, InOrderAppend DEF Numbers, FileInOrder
<1> HIDE DEF g
<1>10. ASSUME NEW v \in Writers, wtid[v] # NoTask PROVE Base(v)' = Base(v)
  <2>1. CASE v = w
    <3>1. wtid'[w] = t /\ file'[t] = g /\ wpc'[w] = "release"
      BY <1>2, <1>8 DEF t
    <3>2. Base(w)' = Len(g) - 1
      BY <3>1 DEF Base
    <3> QED BY <1>2, <1>6, <1>9, <2>1, <3>2
  <2>2. CASE v # w
    <3>1. wtid[v] # t /\ wtid[v] \in Tasks
      BY <1>10, <2>2, NumberTypes DEF PoolShape, OneWriterPerTask, t
    <3> QED BY <1>8, <2>2, <3>1 DEF Base
  <2> QED BY <2>1, <2>2
<1>11. ASSUME NEW v \in Writers, wtid[v] # NoTask PROVE WriterContinuesFile(v)'
  <2>1. WriterContinuesFile(v)
    BY <1>11 DEF Numbers, Numbering
  <2> QED BY <1>8, <1>10, <1>11, <2>1 DEF WriterContinuesFile, Consecutive
<1>12. ASSUME NEW u \in Tasks PROVE Served(u)' \/ QueueContinuesFile(u)'
  <2>1. CASE Served(u)
    BY <1>8, <2>1 DEF Served
  <2>2. CASE ~Served(u)
    <3>1. u # t /\ QueueContinuesFile(u)
      BY <2>2 DEF Numbers, Numbering, Served, t
    <3> QED BY <1>8, <3>1 DEF QueueContinuesFile, Consecutive
  <2> QED BY <2>1, <2>2
<1>13. FileInOrder'
  BY <1>8, <1>9 DEF Numbers, FileInOrder
<1> QED BY <1>8, <1>11, <1>12, <1>13 DEF Numbers, Numbering

(* The buffer written is dropped from the writer's list. *)
LEMMA NumbersRelease ==
  ASSUME TypeOK, PoolShape, Numbers, NEW w \in Writers, ReleaseBuffer(w), UNCHANGED given
  PROVE  Numbers'
<1>1. /\ wpc[w] = "release" /\ wtid[w] # NoTask /\ head[w] # << >>
      /\ UNCHANGED <<queue, wtid, bufs, given, file>>
      /\ \A v \in Writers : head'[v] = IF v = w THEN Tail(head[w]) ELSE head[v]
      /\ wpc'[w] # "release" /\ \A v \in Writers \ {w} : wpc'[v] = wpc[v]
  BY DEF ReleaseBuffer, PoolShape, WriterShape, TypeOK, PoolTypes
<1>2. \A u \in Tasks : Served(u)' \/ QueueContinuesFile(u)'
  BY <1>1 DEF Numbers, Numbering, Served, QueueContinuesFile, Consecutive
<1>3. ASSUME NEW v \in Writers, wtid[v] # NoTask PROVE WriterContinuesFile(v)'
  <2>0. /\ WriterContinuesFile(v) /\ Base(v) \in Int /\ head[v] \in Seq(Buf)
        /\ Len(head[v]) \in Nat /\ Len(bufs[v]) \in Nat /\ Len(file[wtid[v]]) \in Nat
    BY <1>3, NumberTypes DEF Numbers, Numbering
  <2>1. CASE v = w
    <3>1. Base(w)' = Base(w) + 1
      BY <1>1, <2>0, <2>1 DEF Base
    <3>2. Consecutive(Tail(head[w]), Base(w) + 1) /\ Len(Tail(head[w])) = Len(head[w]) - 1
      BY <1>1, <2>0, <2>1, ConsecutiveTail DEF WriterContinuesFile
    <3>3. Base(w) + 1 + Len(Tail(head[w])) = Base(w) + Len(head[w])
      BY <2>0, <2>1, <3>2
    <3>4. Consecutive(head[w], Base(w))'
      BY <1>1, <3>1, <3>2 DEF Consecutive
    <3>5. (Base(w) + Len(head[w]))' = Base(w) + Len(head[w])
      BY <1>1, <3>1, <3>3
    <3>6. Consecutive(bufs[w], Base(w) + Len(head[w]))'
      BY <1>1, <2>0, <2>1, <3>5 DEF WriterContinuesFile, Consecutive
    <3>7. given'[wtid'[w]] = (Base(w) + Len(head[w]))' + Len(bufs'[w])
      BY <1>1, <2>0, <2>1, <3>5 DEF WriterContinuesFile
    <3> QED BY <2>1, <3>4, <3>6, <3>7 DEF WriterContinuesFile
  <2>2. CASE v # w
    <3>1. Base(v)' = Base(v)
      BY <1>1, <2>2 DEF Base
    <3> QED BY <1>1, <2>0, <2>2, <3>1 DEF WriterContinuesFile, Consecutive
  <2> QED BY <2>1, <2>2
<1>4. FileInOrder'
  BY <1>1 DEF Numbers, FileInOrder
<1> QED BY <1>1, <1>2, <1>3, <1>4 DEF Numbers, Numbering

(* The buffers handed to the writer continue the ones it has written. *)
LEMMA NumbersSplice ==
  ASSUME TypeOK, PoolShape, Numbers, NEW w \in Writers, SpliceBufs(w), UNCHANGED given
  PROVE  Numbers'
<1>1. /\ wpc[w] = "splice" /\ wtid[w] # NoTask /\ head[w] = << >>
      /\ UNCHANGED <<queue, wtid, given, file>>
      /\ \A v \in Writers : /\ head'[v] = IF v = w THEN bufs[w] ELSE head[v]
                            /\ bufs'[v] = IF v = w THEN << >> ELSE bufs[v]
      /\ wpc'[w] = "write" /\ \A v \in Writers \ {w} : wpc'[v] = wpc[v]
  BY DEF SpliceBufs, PoolShape, WriterShape, TypeOK, PoolTypes
<1>2. \A u \in Tasks : Served(u)' \/ QueueContinuesFile(u)'
  BY <1>1 DEF Numbers, Numbering, Served, QueueContinuesFile, Consecutive
<1>3. ASSUME NEW v \in Writers, wtid[v] # NoTask PROVE WriterContinuesFile(v)'
  <2>0. /\ WriterContinuesFile(v) /\ Base(v) \in Int /\ Len(bufs[v]) \in Nat
    BY <1>3, NumberTypes DEF Numbers, Numbering
  <2>1. Base(v)' = Base(v)
    BY <1>1 DEF Base
  <2>2. CASE v = w
    <3>1. Len(<< >>) = 0 /\ Consecutive(<< >>, Base(w) + Len(bufs[w]))
      BY ConsecutiveEmpty
    <3>2. Base(w) + Len(head[w]) = Base(w)
      BY <1>1, <2>0, <2>2, <3>1
    <3>3. Consecutive(bufs[w], Base(w)) /\ given[wtid[w]] = Base(w) + Len(bufs[w])
      BY <2>0, <2>2, <3>2 DEF WriterContinuesFile
    <3>4. head'[w] = bufs[w] /\ bufs'[w] = << >>
      BY <1>1
    <3>5. Consecutive(head[w], Base(w))' /\ Consecutive(bufs[w], Base(w) + Len(head[w]))'
      BY <2>1, <2>2, <3>1, <3>3, <3>4 DEF Consecutive
    <3>6. given'[wtid'[w]] = Base(w)' + Len(head'[w]) + Len(bufs'[w])
      BY <1>1, <2>0, <2>1, <2>2, <3>1, <3>3, <3>4
    <3> QED BY <2>2, <3>5, <3>6 DEF WriterContinuesFile
  <2>3. CASE v # w
    BY <1>1, <2>0, <2>1, <2>3 DEF WriterContinuesFile, Consecutive
  <2> QED BY <2>2, <2>3
<1>4. FileInOrder'
  BY <1>1 DEF Numbers, FileInOrder
<1> QED BY <1>1, <1>2, <1>3, <1>4 DEF Numbers, Numbering

(* A writer leaves a task with every buffer of it written. *)
LEMMA NumbersLeave ==
  ASSUME TypeOK, PoolShape, Numbers, NEW w \in Writers, LeaveTask(w), UNCHANGED given
  PROVE  Numbers'
<1>1. /\ wpc[w] = "splice" /\ wtid[w] # NoTask /\ head[w] = << >> /\ bufs[w] = << >>
      /\ UNCHANGED <<queue, head, bufs, given, file>>
      /\ \A v \in Writers : wtid'[v] = IF v = w THEN NoTask ELSE wtid[v]
      /\ \A v \in Writers \ {w} : wpc'[v] = wpc[v]
  BY DEF LeaveTask, PoolShape, WriterShape, TypeOK, PoolTypes
<1>2. ASSUME NEW u \in Tasks PROVE Served(u)' \/ QueueContinuesFile(u)'
  <2>1. CASE u = wtid[w]
    <3>1. queue[u] = << >> /\ Len(file[u]) \in Nat
      BY <1>1, <2>1, NumberTypes DEF PoolShape, ServedTaskNotQueued
    <3>2. Base(w) = Len(file[u])
      BY <1>1, <2>1, <3>1 DEF Base
    <3>3. Len(<< >>) = 0 /\ Consecutive(<< >>, Len(file[u]))
      BY ConsecutiveEmpty
    <3>4. given[u] = Base(w) + Len(head[w]) + Len(bufs[w])
      BY <1>1, <2>1 DEF Numbers, Numbering, WriterContinuesFile
    <3>5. given[u] = Len(file[u]) + 0
      BY <1>1, <3>1, <3>2, <3>3, <3>4
    <3> QED BY <1>1, <3>1, <3>3, <3>5 DEF QueueContinuesFile, Consecutive
  <2>2. CASE u # wtid[w] /\ Served(u)
    BY <1>1, <2>2 DEF Served
  <2>3. CASE u # wtid[w] /\ QueueContinuesFile(u)
    BY <1>1, <2>3 DEF QueueContinuesFile, Consecutive
  <2> QED BY <2>1, <2>2, <2>3 DEF Numbers, Numbering
<1>3. ASSUME NEW v \in Writers, wtid'[v] # NoTask PROVE WriterContinuesFile(v)'
  <2>1. v # w /\ wtid'[v] = wtid[v] /\ WriterContinuesFile(v)
    BY <1>1, <1>3 DEF Numbers, Numbering
  <2>2. Base(v)' = Base(v)
    BY <1>1, <2>1 DEF Base
  <2> QED BY <1>1, <2>1, <2>2 DEF WriterContinuesFile, Consecutive
<1>4. FileInOrder'
  BY <1>1 DEF Numbers, FileInOrder
<1> QED BY <1>2, <1>3, <1>4 DEF Numbers, Numbering

(* record_remaining_buffer() appends the next buffer of the task. *)
LEMMA NumbersRemaining ==
  ASSUME TypeOK, PoolShape, Numbers, Remaining
  PROVE  Numbers'
<1> DEFINE t == Head(order)
<1>1. mpc = "remain" /\ order # << >>
  BY DEF Remaining, RecordRemaining
<1>2. t \in Tasks /\ t = order[1] /\ 1 \in 1 .. Len(order)
  BY <1>1, TailFacts DEF TypeOK, PoolTypes
<1>3. queue[t] # << >>
  BY <1>2 DEF PoolShape, ListShape
<1>4. \A w \in Writers : wtid[w] = NoTask
  BY <1>1 DEF PoolShape, Phases, WriterShape
<1>5. /\ queue[t] \in Seq(Buf) /\ Len(queue[t]) \in Nat /\ file[t] \in Seq(Nat)
      /\ Len(file[t]) \in Nat /\ given[t] \in Nat
  BY <1>2, NumberTypes
<1>6. QueueContinuesFile(t)
  BY <1>2, <1>4, PoolAssumption DEF Numbers, Numbering, Served
<1>7. /\ Consecutive(Tail(queue[t]), Len(file[t]) + 1) /\ Len(Tail(queue[t])) = Len(queue[t]) - 1
      /\ Head(queue[t]).num = Len(file[t]) + 1
  BY <1>3, <1>5, <1>6, ConsecutiveTail DEF QueueContinuesFile
<1>8. /\ UNCHANGED <<wtid, given>>
      /\ file' = [file EXCEPT ![t] = @ \o <<Head(queue[t]).num>>]
      /\ queue' = [queue EXCEPT ![t] = Tail(@)]
  BY DEF Remaining, RecordRemaining
<1> DEFINE g == file[t] \o <<Len(file[t]) + 1>>
<1> HIDE DEF t
<1>9. \A u \in Tasks :
        /\ file'[u] = IF u = t THEN g ELSE file[u]
        /\ queue'[u] = IF u = t THEN Tail(queue[t]) ELSE queue[u]
  BY <1>2, <1>7, <1>8 DEF TypeOK, PoolTypes
<1>10. Len(g) = Len(file[t]) + 1 /\ \A i \in 1 .. Len(g) : g[i] = i
  BY <1>2, <1>5, InOrderAppend DEF Numbers, FileInOrder
<1> HIDE DEF g
<1>11. ASSUME NEW u \in Tasks PROVE QueueContinuesFile(u)'
  <2>1. CASE u = t
    <3>1. Consecutive(queue'[t], Len(file'[t]))
      BY <1>2, <1>7, <1>9, <1>10
    <3>2. given[t] = (Len(file[t]) + 1) + (Len(queue[t]) - 1)
      <4>1. given[t] = Len(file[t]) + Len(queue[t])
        BY <1>6 DEF QueueContinuesFile
      <4>2. Len(file[t]) \in Int /\ Len(queue[t]) \in Int
        BY <1>5
      <4>3. Len(file[t]) + Len(queue[t]) = (Len(file[t]) + 1) + (Len(queue[t]) - 1)
        BY <4>2, MoveOne
      <4> QED BY <4>1, <4>3
    <3>3. given'[t] = Len(file'[t]) + Len(queue'[t])
      BY <1>2, <1>7, <1>8, <1>9, <1>10, <3>2
    <3> QED BY <2>1, <3>1, <3>3 DEF QueueContinuesFile, Consecutive
  <2>2. CASE u # t
    <3>1. QueueContinuesFile(u)
      BY <1>4, PoolAssumption DEF Numbers, Numbering, Served
    <3> QED BY <1>8, <1>9, <2>2, <3>1 DEF QueueContinuesFile, Consecutive
  <2> QED BY <2>1, <2>2
<1>12. FileInOrder'
  BY <1>9, <1>10 DEF Numbers, FileInOrder
<1> QED BY <1>4, <1>8, <1>11, <1>12 DEF Numbers, Numbering

(* Every step of the pool keeps the order of buffers. *)
LEMMA NumbersStep ==
  ASSUME TypeOK, PoolShape, Numbers, [Next]_vars
  PROVE  Numbers'
<1>1. CASE \E t \in Tasks : Feed(t)
  BY <1>1, NumbersFeed
<1>2. CASE Remaining
  BY <1>2, NumbersRemaining
<1>3. CASE \E w \in Writers : Write(w)
  BY <1>3, NumbersWrite
<1>4. CASE \E w \in Writers : PickTask(w) /\ UNCHANGED given
  BY <1>4, NumbersPick
<1>5. CASE \E w \in Writers : ReleaseBuffer(w) /\ UNCHANGED given
  BY <1>5, NumbersRelease
<1>6. CASE \E w \in Writers : SpliceBufs(w) /\ UNCHANGED given
  BY <1>6, NumbersSplice
<1>7. CASE \E w \in Writers : LeaveTask(w) /\ UNCHANGED given
  BY <1>7, NumbersLeave
<1>8. ASSUME NEW w \in Writers, UNCHANGED given,
             PollKick(w) \/ PollNothing(w) \/ ReadKick(w) \/ PickNothing(w)
      PROVE  Numbers'
  <2>1. UNCHANGED <<queue, file, given, wtid, head, bufs>>
    BY <1>8 DEF PollKick, PollNothing, ReadKick, PickNothing
  <2>2. wtid[w] = NoTask /\ \A v \in Writers \ {w} : wpc'[v] = wpc[v]
    BY <1>8 DEF PollKick, PollNothing, ReadKick, PickNothing, PoolShape, WriterShape, TypeOK, PoolTypes
  <2> QED BY <2>1, <2>2, NumbersQuiet
<1>9. CASE \/ UNCHANGED given /\ (Kick \/ StopAllWriters \/ JoinWriters \/ FlushDone \/ RecordRemainingDone)
           \/ UNCHANGED vars
  <2>1. UNCHANGED <<queue, file, given, wtid, head, bufs, wpc>>
    BY <1>9 DEF Kick, StopAllWriters, JoinWriters, FlushDone, RecordRemainingDone, vars
  <2> QED BY <2>1, NumbersQuiet
<1> QED
  BY <1>1, <1>2, <1>3, <1>4, <1>5, <1>6, <1>7, <1>8, <1>9
     DEF Next, Main, Writer, WriterStep, Terminated

-----------------------------------------------------------------------------
(* The theorems. *)

(* The inductive invariant, grouped as the lemmas prove it. *)
LEMMA IndInvParts == IndInv <=> TypeOK /\ PoolShape /\ KickAccount /\ Numbers
  BY DEF IndInv, Numbers

(* The conjunction of all the parts is an inductive invariant of the pool. *)
THEOREM Inductive == Spec => []IndInv
<1>1. Init => IndInv
  BY TypeInit, ShapeInit, KickInit, NumbersInit, IndInvParts DEF Init
<1>2. IndInv /\ [Next]_vars => IndInv'
  <2> SUFFICES ASSUME IndInv, [Next]_vars PROVE IndInv'
    OBVIOUS
  <2>1. TypeOK /\ PoolShape /\ KickAccount /\ Numbers
    BY IndInvParts
  <2>2. TypeOK'
    BY <2>1, TypeStep DEF PoolShape
  <2>3. PoolShape'
    BY <2>1, ShapeStep
  <2>4. KickAccount'
    BY <2>1, KickStep
  <2>5. Numbers'
    BY <2>1, NumbersStep
  <2> QED BY <2>2, <2>3, <2>4, <2>5 DEF IndInv, Numbers
<1> QED BY <1>1, <1>2, PTL DEF Spec

(* Every variable keeps its type, whatever the writers do. *)
THEOREM TypeCorrect == Spec => []TypeOK
<1>1. IndInv => TypeOK
  BY DEF IndInv
<1> QED BY <1>1, Inductive, PTL

(* No task ever has two writers, and what a writer works on is not queued. *)
THEOREM SingleWriter == Spec => [](OneWriterPerTask /\ ServedTaskNotQueued)
<1>1. IndInv => OneWriterPerTask /\ ServedTaskNotQueued
  BY DEF IndInv, PoolShape
<1> QED BY <1>1, Inductive, PTL

(* A buffer in buf_write_list is never forgotten by the kicks. *)
THEOREM WakeupKept == Spec => []NoLostWakeup
<1>1. IndInv => NoLostWakeup
  <2> SUFFICES ASSUME IndInv, order # << >>, kicks = 0, mpc # "kick", ~bufDone
               PROVE  \E w \in Writers : wpc[w] = "pick"
    <3>1. IndInv => kicks \in Nat
      BY PoolAssumption DEF IndInv, TypeOK, PoolTypes
    <3> QED BY <3>1 DEF NoLostWakeup
  <2>1. Len(order) \in Nat \ {0}
    BY EmptySeq DEF IndInv, TypeOK, PoolTypes
  <2>2. Cardinality(Pickers) \in Nat /\ IsFiniteSet(Pickers)
    BY PickersFinite
  <2>3. Len(order) <= 0 + Cardinality(Pickers) + 0
    BY DEF IndInv, KickAccount
  <2>4. Cardinality(Pickers) # 0
    BY <2>1, <2>2, <2>3
  <2>5. Pickers # {}
    BY <2>4, FS_EmptySet
  <2> QED BY <2>5 DEF Pickers
<1> QED BY <1>1, Inductive, PTL

(* The file of a task is its buffers 1, 2, 3, ... in order. *)
THEOREM FilesInOrder == Spec => []FileInOrder
<1>1. IndInv => FileInOrder
  BY DEF IndInv
<1> QED BY <1>1, Inductive, PTL

(* At the end, the files hold every buffer that was handed over. *)
THEOREM AllWritten == Spec => []NothingStranded
<1>1. IndInv => NothingStranded
  <2> SUFFICES ASSUME IndInv, mpc = "done", NEW t \in Tasks
               PROVE  Len(file[t]) = given[t]
    BY DEF NothingStranded
  <2>1. \A w \in Writers : wtid[w] = NoTask
    BY DEF IndInv, PoolShape, Phases, WriterShape
  <2>2. QueueContinuesFile(t)
    BY <2>1, PoolAssumption DEF IndInv, Numbering, Served
  <2>3. queue[t] = << >>
    <3>1. order = << >>
      BY DEF IndInv, PoolShape, Phases
    <3>2. ~ \E i \in 1 .. Len(order) : order[i] = t
      BY <3>1
    <3> QED BY <3>2 DEF IndInv, PoolShape, ListShape
  <2>4. Len(file[t]) \in Nat /\ Len(<< >>) = 0
    BY NumberTypes, ConsecutiveEmpty DEF IndInv
  <2> QED BY <2>2, <2>3, <2>4 DEF QueueContinuesFile
<1> QED BY <1>1, Inductive, PTL

-----------------------------------------------------------------------------
(* The pool implements the abstract log. *)

(* The sequence 1, ..., n, one longer, and cut after m. *)
LEMMA UpToFacts ==
  ASSUME NEW n \in Nat
  PROVE  /\ UpTo(n) \in Seq(Nat) /\ Len(UpTo(n)) = n
         /\ UpTo(n + 1) = Append(UpTo(n), n + 1)
         /\ \A m \in 0 .. n : SubSeq(UpTo(n), 1, m) = UpTo(m)
<1>1. \A m \in Nat : /\ UpTo(m) \in Seq(Nat) /\ Len(UpTo(m)) = m
                     /\ \A i \in 1 .. m : UpTo(m)[i] = i
  BY DEF UpTo
<1>2. UpTo(n + 1) = Append(UpTo(n), n + 1)
  <2>1. n + 1 \in Nat /\ UpTo(n) \in Seq(Nat) /\ Len(UpTo(n)) = n
    BY <1>1
  <2>2. /\ Append(UpTo(n), n + 1) \in Seq(Nat) /\ Len(Append(UpTo(n), n + 1)) = n + 1
        /\ \A i \in 1 .. n : Append(UpTo(n), n + 1)[i] = UpTo(n)[i]
        /\ Append(UpTo(n), n + 1)[n + 1] = n + 1
    BY <2>1, AppendProperties
  <2>3. \A i \in 1 .. n + 1 : Append(UpTo(n), n + 1)[i] = UpTo(n + 1)[i]
    <3> TAKE i \in 1 .. n + 1
    <3>1. i \in 1 .. n \/ i = n + 1
      OBVIOUS
    <3> QED BY <1>1, <2>1, <2>2, <3>1
  <2> QED BY <1>1, <2>1, <2>2, <2>3, SeqEqual
<1>3. ASSUME NEW m \in 0 .. n PROVE SubSeq(UpTo(n), 1, m) = UpTo(m)
  <2>1. m \in Nat /\ m <= n
    OBVIOUS
  <2>2. \A i \in 1 .. m : UpTo(n)[i] = i /\ UpTo(n)[i] \in Nat
    <3> TAKE i \in 1 .. m
    <3>1. i \in Nat /\ i \in 1 .. n
      BY <2>1
    <3> QED BY <1>1, <3>1
  <2>3. /\ SubSeq(UpTo(n), 1, m) \in Seq(Nat)
        /\ Len(SubSeq(UpTo(n), 1, m)) = IF 1 <= m THEN m - 1 + 1 ELSE 0
        /\ \A i \in 1 .. m - 1 + 1 : SubSeq(UpTo(n), 1, m)[i] = UpTo(n)[1 + i - 1]
    BY <2>1, <2>2, SubSeqProperties
  <2>4. Len(SubSeq(UpTo(n), 1, m)) = m
    BY <2>1, <2>3
  <2>5. \A i \in 1 .. m : SubSeq(UpTo(n), 1, m)[i] = UpTo(m)[i]
    <3> TAKE i \in 1 .. m
    <3>1. 1 + i - 1 = i /\ m - 1 + 1 = m
      BY <2>1
    <3> QED BY <1>1, <2>1, <2>2, <2>3, <3>1
  <2> QED BY <1>1, <2>1, <2>3, <2>4, <2>5, SeqEqual
<1> QED BY <1>1, <1>2, <1>3

(* The next buffer is one of those handed over when some are not written. *)
LEMMA NextIsGiven == \A a, d \in Nat : \A c \in Nat \ {0} : a + 1 \in 1 .. a + c + d /\ a + 1 \in 1 .. a + c
  OBVIOUS

(* Whoever writes, a writer or the final drain, adds the next buffer of the task. *)
LEMMA WriteExtends ==
  ASSUME TypeOK, PoolShape, Numbers, (\E w \in Writers : Write(w)) \/ Remaining
  PROVE  \E t \in Tasks :
           /\ file' = [file EXCEPT ![t] = @ \o <<Len(file[t]) + 1>>]
           /\ Len(file[t]) + 1 \in 1 .. given[t]
           /\ UNCHANGED given
<1>1. ASSUME NEW w \in Writers, Write(w)
      PROVE  \E t \in Tasks :
               /\ file' = [file EXCEPT ![t] = @ \o <<Len(file[t]) + 1>>]
               /\ Len(file[t]) + 1 \in 1 .. given[t]
               /\ UNCHANGED given
  <2> DEFINE t == wtid[w]
  <2>1. wpc[w] = "write" /\ wtid[w] # NoTask /\ head[w] # << >>
    BY <1>1 DEF Write, WriteBuffer, PoolShape, WriterShape
  <2>2. /\ t \in Tasks /\ head[w] \in Seq(Buf) /\ Len(head[w]) \in Nat \ {0}
        /\ Len(file[t]) \in Nat /\ Len(bufs[w]) \in Nat /\ given[t] \in Nat
    BY <2>1, NumberTypes, EmptySeq
  <2>3. Head(head[w]) = head[w][1] /\ 1 \in 1 .. Len(head[w])
    BY <2>1, <2>2, TailFacts
  <2>4. WriterContinuesFile(w) /\ Base(w) = Len(file[t])
    BY <2>1, <2>2 DEF Numbers, Numbering, Base
  <2>5. Head(head[w]).tid = t /\ Head(head[w]).num = Len(file[t]) + 1
    BY <2>2, <2>3, <2>4 DEF PoolShape, WriterShape, WriterContinuesFile, Consecutive
  <2>6. given[t] = Len(file[t]) + Len(head[w]) + Len(bufs[w])
    BY <2>4 DEF WriterContinuesFile
  <2>7. Len(file[t]) + 1 \in 1 .. given[t]
    <3>1. Len(file[t]) + 1 \in 1 .. Len(file[t]) + Len(head[w]) + Len(bufs[w])
      BY <2>2, NextIsGiven
    <3> QED BY <2>6, <3>1
  <2> HIDE DEF t
  <2>8. file' = [file EXCEPT ![t] = @ \o <<Len(file[t]) + 1>>] /\ given' = given
    BY <1>1, <2>5 DEF Write, WriteBuffer
  <2> QED BY <2>2, <2>7, <2>8
<1>2. ASSUME Remaining
      PROVE  \E t \in Tasks :
               /\ file' = [file EXCEPT ![t] = @ \o <<Len(file[t]) + 1>>]
               /\ Len(file[t]) + 1 \in 1 .. given[t]
               /\ UNCHANGED given
  <2> DEFINE t == Head(order)
  <2>1. mpc = "remain" /\ order # << >>
    BY <1>2 DEF Remaining, RecordRemaining
  <2>2. t \in Tasks /\ t = order[1] /\ 1 \in 1 .. Len(order)
    BY <2>1, TailFacts DEF TypeOK, PoolTypes
  <2>3. queue[t] # << >> /\ \A w \in Writers : wtid[w] = NoTask
    BY <2>1, <2>2 DEF PoolShape, ListShape, Phases, WriterShape
  <2>4. /\ queue[t] \in Seq(Buf) /\ Len(queue[t]) \in Nat \ {0}
        /\ Len(file[t]) \in Nat /\ given[t] \in Nat
    BY <2>2, <2>3, NumberTypes, EmptySeq
  <2>5. QueueContinuesFile(t)
    BY <2>2, <2>3, PoolAssumption DEF Numbers, Numbering, Served
  <2>6. Head(queue[t]).num = Len(file[t]) + 1
    BY <2>3, <2>4, <2>5, ConsecutiveTail DEF QueueContinuesFile
  <2>7. Len(file[t]) + 1 \in 1 .. given[t]
    <3>1. Len(file[t]) + 1 \in 1 .. Len(file[t]) + Len(queue[t])
      BY <2>4, NextIsGiven
    <3> QED BY <2>5, <3>1 DEF QueueContinuesFile
  <2>8. file' = [file EXCEPT ![t] = @ \o <<Len(file[t]) + 1>>] /\ given' = given
    BY <1>2, <2>6 DEF Remaining, RecordRemaining
  <2> QED BY <2>2, <2>7, <2>8
<1> QED BY <1>1, <1>2

(* Every step of the pool is a step of the log: a buffer handed over is       *)
(* produced, a buffer written is saved, and anything else changes nothing.    *)
LEMMA LogStep ==
  ASSUME IndInv, [Next]_vars
  PROVE  [Log!Next]_<<[t \in Tasks |-> UpTo(given[t])], file>>
<1>1. TypeOK /\ PoolShape /\ Numbers
  BY IndInvParts
<1> DEFINE s == [t \in Tasks |-> UpTo(given[t])]
<1>2. \A t \in Tasks : given[t] \in Nat /\ Len(file[t]) \in Nat /\ file[t] \in Seq(Nat)
  BY <1>1, NumberTypes
<1>3. ASSUME NEW t \in Tasks, Feed(t) PROVE Log!Produce(t)
  <2>1. given[t] + 1 \in 1 .. MaxBufs /\ given' = [given EXCEPT ![t] = @ + 1]
    BY <1>2, <1>3, FeedAssumption DEF Feed
  <2>2. UNCHANGED file
    BY <1>3 DEF Feed, CopyToBuffer, PassToWriter, AppendToList
  <2>3. UpTo(given[t] + 1) = Append(UpTo(given[t]), given[t] + 1)
    BY <1>2, UpToFacts
  <2>4. \A u \in Tasks : given'[u] = IF u = t THEN given[t] + 1 ELSE given[u]
    BY <1>1, <2>1 DEF TypeOK, PoolTypes
  <2>5. s' = [s EXCEPT ![t] = Append(@, given[t] + 1)]
    BY <2>3, <2>4
  <2> QED BY <2>1, <2>2, <2>5 DEF Log!Produce
<1>4. ASSUME (\E w \in Writers : Write(w)) \/ Remaining PROVE \E t \in Tasks : Log!Save(t)
  <2>1. PICK t \in Tasks : /\ file' = [file EXCEPT ![t] = @ \o <<Len(file[t]) + 1>>]
                          /\ Len(file[t]) + 1 \in 1 .. given[t]
                          /\ UNCHANGED given
    BY <1>1, <1>4, WriteExtends
  <2> DEFINE g == file[t] \o <<Len(file[t]) + 1>>
             n == Len(file[t]) + 1
  <2>2. Len(g) = n /\ \A i \in 1 .. Len(g) : g[i] = i
    BY <1>1, <1>2, InOrderAppend DEF Numbers, FileInOrder
  <2>3. g \in Seq(Nat) /\ n \in Nat
    BY <1>2, ConcatProperties
  <2>4. UpTo(n) \in Seq(Nat) /\ Len(UpTo(n)) = n /\ \A i \in 1 .. n : UpTo(n)[i] = i
    BY <2>3, UpToFacts DEF UpTo
  <2> HIDE DEF g, n
  <2>5. g = UpTo(n)
    BY <2>2, <2>3, <2>4, SeqEqual
  <2>6. UpTo(n) = SubSeq(s[t], 1, n)
    <3>1. s[t] = UpTo(given[t]) /\ given[t] \in Nat
      BY <1>2
    <3>2. n \in 0 .. given[t]
      BY <1>2, <2>1 DEF n
    <3> QED BY <3>1, <3>2, UpToFacts
  <2>7. n \in Len(file[t]) + 1 .. Len(s[t])
    <3>1. s[t] = UpTo(given[t]) /\ Len(UpTo(given[t])) = given[t]
      BY <1>2, UpToFacts
    <3>2. n \in Len(file[t]) + 1 .. given[t]
      BY <1>2, <2>1 DEF n
    <3> QED BY <3>1, <3>2
  <2>8. file' = [file EXCEPT ![t] = SubSeq(s[t], 1, n)]
    BY <2>1, <2>5, <2>6 DEF g
  <2>9. UNCHANGED s
    BY <2>1
  <2> QED BY <2>7, <2>8, <2>9 DEF Log!Save
<1>5. ASSUME ~(\E t \in Tasks : Feed(t)), ~(\E w \in Writers : Write(w)), ~Remaining
      PROVE  UNCHANGED <<file, given>>
  BY <1>5 DEF Next, vars, Main, Writer, WriterStep, Terminated, Kick, StopAllWriters,
       JoinWriters, FlushDone, RecordRemainingDone, PollKick, PollNothing, ReadKick,
       PickTask, PickNothing, SpliceBufs, LeaveTask, ReleaseBuffer
<1> QED BY <1>3, <1>4, <1>5 DEF Log!Next

(* The writers implement TraceLog: each task's file is at all times a prefix  *)
(* of the buffers handed over for it, and grows by the next ones only.        *)
THEOREM PoolImplementsLog == Spec => RefinesTraceLog
<1>1. Init => Log!Init
  <2> SUFFICES ASSUME Init PROVE Log!Init
    OBVIOUS
  <2>1. \A t \in Tasks : UpTo(given[t]) = << >>
    <3>1. UpTo(0) = << >>
      BY EmptySeq, UpToFacts
    <3> QED BY <3>1 DEF Init
  <2>2. file = [t \in Tasks |-> << >>]
    BY DEF Init, PoolInit
  <2> QED BY <2>1, <2>2 DEF Log!Init
<1>2. IndInv /\ [Next]_vars => [Log!Next]_<<[t \in Tasks |-> UpTo(given[t])], file>>
  BY LogStep
<1> QED BY <1>1, <1>2, Inductive, PTL DEF Spec, RefinesTraceLog, Log!Spec

=============================================================================
