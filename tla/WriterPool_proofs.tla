-------------------------- MODULE WriterPool_proofs ---------------------------
(***************************************************************************)
(* Proofs about the writer pool that hold whoever feeds it: the types and  *)
(* the shape of its lists are kept by every step, and to its users the     *)
(* pool is one queue of buffers per task.                                  *)
(***************************************************************************)
EXTENDS WriterPool, FiniteSetTheorems, SequenceTheorems, TLAPS

(* The first entry of a nonempty sequence and what is left without it. *)
LEMMA TailFacts ==
  ASSUME NEW S, NEW s \in Seq(S), s # << >>
  PROVE  /\ Head(s) = s[1] /\ Head(s) \in S /\ Tail(s) \in Seq(S)
         /\ Len(s) \in Nat \ {0} /\ Len(Tail(s)) = Len(s) - 1
         /\ \A i \in 1 .. Len(s) - 1 : Tail(s)[i] = s[i + 1] /\ i + 1 \in 1 .. Len(s)
         /\ Len(s) = 1 <=> Tail(s) = << >>
<1>1. Len(s) \in Nat /\ Len(s) # 0
  BY LenProperties, EmptySeq
<1>2. /\ Head(s) \in S /\ Tail(s) \in Seq(S) /\ Len(Tail(s)) = Len(s) - 1
      /\ \A i \in 1 .. Len(Tail(s)) : Tail(s)[i] = s[i + 1]
  BY HeadTailProperties
<1>3. Head(s) = s[1]
  BY <1>1
<1>4. Tail(s) = << >> <=> Len(Tail(s)) = 0
  BY <1>2, EmptySeq
<1>5. \A i \in 1 .. Len(s) - 1 : i + 1 \in 1 .. Len(s)
  BY <1>1
<1> QED BY <1>1, <1>2, <1>3, <1>4, <1>5

(* What taking the first entry off a list without duplicates leaves. *)
LEMMA TailOfDistinct ==
  ASSUME NEW S, NEW s \in Seq(S), s # << >>,
         \A i, j \in 1 .. Len(s) : s[i] = s[j] => i = j
  PROVE  /\ Head(s) \in S /\ Head(s) = s[1] /\ 1 \in 1 .. Len(s)
         /\ Tail(s) \in Seq(S) /\ Len(Tail(s)) = Len(s) - 1
         /\ \A i, j \in 1 .. Len(Tail(s)) : Tail(s)[i] = Tail(s)[j] => i = j
         /\ \A u : (\E i \in 1 .. Len(Tail(s)) : Tail(s)[i] = u)
                    <=> (u # Head(s) /\ \E i \in 1 .. Len(s) : s[i] = u)
<1>1. /\ Head(s) \in S /\ Head(s) = s[1] /\ Len(s) \in Nat /\ Len(s) >= 1
      /\ Tail(s) \in Seq(S) /\ Len(Tail(s)) = Len(s) - 1
      /\ \A i \in 1 .. Len(s) - 1 : Tail(s)[i] = s[i + 1]
  OBVIOUS
<1> DEFINE r == Tail(s)
<1>2. \A i \in 1 .. Len(s) - 1 : r[i] = s[i + 1] /\ i + 1 \in 1 .. Len(s)
  BY <1>1
<1> HIDE DEF r
<1>3. \A i, j \in 1 .. Len(s) - 1 : r[i] = r[j] => i = j
  BY <1>1, <1>2
<1>4. ASSUME NEW u, NEW i \in 1 .. Len(s) - 1, r[i] = u
      PROVE  u # s[1] /\ \E k \in 1 .. Len(s) : s[k] = u
  BY <1>1, <1>2, <1>4
<1>5. ASSUME NEW u, NEW k \in 1 .. Len(s), s[k] = u, u # s[1]
      PROVE  \E i \in 1 .. Len(s) - 1 : r[i] = u
  <2>1. k - 1 \in 1 .. Len(s) - 1
    BY <1>1, <1>5
  <2>2. r[k - 1] = u
    BY <1>1, <1>2, <1>5, <2>1
  <2> QED BY <2>1, <2>2
<1> QED BY <1>1, <1>3, <1>4, <1>5 DEF r

(* Appending a buffer of t to buffers of t. *)
LEMMA AppendSameTask ==
  ASSUME NEW B, NEW t, NEW s \in Seq(B), NEW b \in B, b.tid = t,
         \A i \in 1 .. Len(s) : s[i].tid = t
  PROVE  /\ Append(s, b) # << >>
         /\ \A i \in 1 .. Len(Append(s, b)) : Append(s, b)[i].tid = t
<1>1. /\ Len(Append(s, b)) = Len(s) + 1 /\ Len(s) \in Nat
      /\ \A i \in 1 .. Len(s) : Append(s, b)[i] = s[i]
      /\ Append(s, b)[Len(s) + 1] = b
      /\ Append(s, b) # << >>
  BY AppendProperties, LenProperties
<1>2. ASSUME NEW i \in 1 .. Len(s) + 1 PROVE Append(s, b)[i].tid = t
  BY <1>1
<1> QED BY <1>1, <1>2

-----------------------------------------------------------------------------
(* Who works for whom: the lists, the writers and the phases of the main thread. *)

(* Empty lists and idle writers have the shape. *)
LEMMA ShapeInit == PoolInit => PoolShape
<1> SUFFICES ASSUME PoolInit PROVE PoolShape
  OBVIOUS
<1> USE PoolAssumption DEF PoolInit
<1>1. ListShape
  BY DEF ListShape
<1>2. WriterShape
  BY DEF WriterShape
<1>3. Phases
  BY DEF Phases
<1>4. OneWriterPerTask /\ ServedTaskNotQueued
  BY DEF OneWriterPerTask, ServedTaskNotQueued
<1> QED BY <1>1, <1>2, <1>3, <1>4 DEF PoolShape

(* The steps that change neither a list nor who works for whom. *)
LEMMA ShapeQuietStep ==
  ASSUME NEW B, PoolTypes(B), PoolShape,
         \/ Kick \/ StopAllWriters \/ JoinWriters \/ FlushDone \/ RecordRemainingDone
         \/ \E w \in Writers : PollKick(w) \/ PollNothing(w) \/ ReadKick(w) \/ PickNothing(w)
         \/ \E w \in Writers : \E d : WriteBuffer(w, d)
         \/ UNCHANGED poolVars
  PROVE  PoolShape'
<1> USE PoolAssumption DEF PoolTypes, MainPCs, WriterPCs
<1>1. CASE Kick \/ StopAllWriters \/ JoinWriters \/ FlushDone \/ RecordRemainingDone
  <2> USE <1>1 DEF Kick, StopAllWriters, JoinWriters, FlushDone, RecordRemainingDone
  <2>1. UNCHANGED <<order, queue, wpc, wtid, head, bufs>>
    OBVIOUS
  <2>2. (ListShape /\ WriterShape /\ OneWriterPerTask /\ ServedTaskNotQueued)'
    BY <2>1 DEF PoolShape, ListShape, WriterShape, OneWriterPerTask, ServedTaskNotQueued
  <2>3. Phases'
    BY DEF PoolShape, Phases
  <2> QED BY <2>2, <2>3 DEF PoolShape
<1>2. ASSUME NEW w \in Writers,
             PollKick(w) \/ PollNothing(w) \/ ReadKick(w) \/ PickNothing(w)
      PROVE  PoolShape'
  <2> USE <1>2 DEF PollKick, PollNothing, ReadKick, PickNothing, LoopTop
  <2>1. UNCHANGED <<order, queue, bufDone, mpc, wtid, head, bufs>>
    OBVIOUS
  <2>2. (ListShape /\ OneWriterPerTask /\ ServedTaskNotQueued)'
    BY <2>1 DEF PoolShape, ListShape, OneWriterPerTask, ServedTaskNotQueued
  <2>3. WriterShape'
    <3>1. \A v \in Writers :
            /\ wpc'[v] \in {"write", "release", "splice"} <=> wpc[v] \in {"write", "release", "splice"}
            /\ wpc'[v] \in {"write", "release"} <=> wpc[v] \in {"write", "release"}
      OBVIOUS
    <3>2. SUFFICES ASSUME NEW v \in Writers
                   PROVE  /\ wtid[v] # NoTask <=> wpc'[v] \in {"write", "release", "splice"}
                          /\ head[v] # << >> <=> wpc'[v] \in {"write", "release"}
      BY <2>1 DEF PoolShape, WriterShape
    <3> QED BY <3>1 DEF PoolShape, WriterShape
  <2>4. Phases'
    BY DEF PoolShape, Phases
  <2> QED BY <2>2, <2>3, <2>4 DEF PoolShape
<1>3. ASSUME NEW w \in Writers, NEW d, WriteBuffer(w, d) PROVE PoolShape'
  <2> USE <1>3 DEF WriteBuffer
  <2>1. (ListShape /\ OneWriterPerTask /\ ServedTaskNotQueued)'
    BY DEF PoolShape, ListShape, OneWriterPerTask, ServedTaskNotQueued
  <2>2. WriterShape'
    BY DEF PoolShape, WriterShape
  <2>3. Phases'
    BY DEF PoolShape, Phases
  <2> QED BY <2>1, <2>2, <2>3 DEF PoolShape
<1>4. CASE UNCHANGED poolVars
  <2>1. UNCHANGED <<order, queue, bufDone, mpc, wpc, wtid, head, bufs>>
    BY <1>4 DEF poolVars
  <2>2. (ListShape /\ Phases)'
    BY <2>1 DEF PoolShape, ListShape, Phases
  <2>3. (WriterShape /\ OneWriterPerTask /\ ServedTaskNotQueued)'
    BY <2>1 DEF PoolShape, WriterShape, OneWriterPerTask, ServedTaskNotQueued
  <2> QED BY <2>2, <2>3 DEF PoolShape
<1> QED BY <1>1, <1>2, <1>3, <1>4

(* A buffer is handed over. *)
LEMMA ShapeFeed ==
  ASSUME NEW B, PoolTypes(B), PoolShape, NEW b \in B, b.tid \in Tasks, CopyToBuffer(b)
  PROVE  PoolShape'
<1>0. PICK t \in Tasks : b.tid = t
  OBVIOUS
<1>00. mpc \in {"run", "flush"} /\ (\/ \E w \in Writers : PassToWriter(w, b)
                                   \/ AppendToList(b))
  BY DEF CopyToBuffer
<1>1. ASSUME NEW w \in Writers, PassToWriter(w, b) PROVE PoolShape'
  <2>1. UNCHANGED <<order, queue, bufDone, mpc, wpc, wtid, head>>
    BY <1>1 DEF PassToWriter
  <2>2. (ListShape /\ Phases /\ OneWriterPerTask /\ ServedTaskNotQueued)'
    BY <2>1 DEF PoolShape, ListShape, Phases, OneWriterPerTask, ServedTaskNotQueued
  <2>3. wtid[w] = t /\ bufs' = [bufs EXCEPT ![w] = Append(@, b)]
    BY <1>0, <1>1 DEF PassToWriter
  <2>4. \A i \in 1 .. Len(Append(bufs[w], b)) : Append(bufs[w], b)[i].tid = t
    <3>1. bufs[w] \in Seq(B) /\ \A i \in 1 .. Len(bufs[w]) : bufs[w][i].tid = t
      BY <2>3 DEF PoolShape, WriterShape, PoolTypes
    <3> QED BY <1>0, <3>1, AppendSameTask
  <2>5. WriterShape'
    <3>1. SUFFICES ASSUME NEW v \in Writers
                   PROVE  /\ wtid[v] = NoTask => bufs'[v] = << >>
                          /\ \A i \in 1 .. Len(bufs'[v]) : bufs'[v][i].tid = wtid[v]
      BY <2>1 DEF PoolShape, WriterShape
    <3>2. CASE v = w
      BY <2>3, <2>4, <3>2, PoolAssumption DEF PoolTypes
    <3>3. CASE v # w
      BY <2>3, <3>3 DEF PoolShape, WriterShape, PoolTypes
    <3> QED BY <3>2, <3>3
  <2> QED BY <2>2, <2>5 DEF PoolShape
<1>2. CASE AppendToList(b)
  <2>1. /\ \A w \in Writers : wtid[w] # t
        /\ order' = IF queue[t] = << >> THEN Append(order, t) ELSE order
        /\ queue' = [queue EXCEPT ![t] = Append(@, b)]
        /\ mpc' = "kick"
        /\ UNCHANGED <<kicks, bufDone, wpc, wtid, head, bufs, file>>
    BY <1>0, <1>2 DEF AppendToList
  <2>2. Phases'
    BY <1>00, <2>1 DEF PoolShape, Phases
  <2>3. (WriterShape /\ OneWriterPerTask)'
    BY <2>1 DEF PoolShape, WriterShape, OneWriterPerTask
  <2>4. ServedTaskNotQueued'
    BY <2>1 DEF PoolShape, ServedTaskNotQueued, PoolTypes
  <2>5. /\ Append(queue[t], b) # << >>
        /\ \A i \in 1 .. Len(Append(queue[t], b)) : Append(queue[t], b)[i].tid = t
    <3>1. queue[t] \in Seq(B) /\ \A i \in 1 .. Len(queue[t]) : queue[t][i].tid = t
      BY DEF PoolShape, ListShape, PoolTypes
    <3> QED BY <1>0, <3>1, AppendSameTask
  <2>6. ListShape'
    <3>1. \A u \in Tasks : queue'[u] = IF u = t THEN Append(queue[t], b) ELSE queue[u]
      BY <2>1 DEF PoolTypes
    <3>2. \A u \in Tasks : \A i \in 1 .. Len(queue'[u]) : queue'[u][i].tid = u
      BY <2>5, <3>1 DEF PoolShape, ListShape
    <3>3. CASE queue[t] # << >>
      BY <2>1, <2>5, <3>1, <3>2, <3>3 DEF PoolShape, ListShape
    <3>4. CASE queue[t] = << >>
      <4>1. order' = Append(order, t) /\ order \in Seq(Tasks)
        BY <2>1, <3>4 DEF PoolTypes
      <4>2. /\ Len(order') = Len(order) + 1 /\ order'[Len(order) + 1] = t /\ Len(order) \in Nat
            /\ \A i \in 1 .. Len(order) : order'[i] = order[i]
        BY <4>1
      <4>3. \A i \in 1 .. Len(order) : order[i] # t
        BY <3>4 DEF PoolShape, ListShape
      <4>4. \A i, j \in 1 .. Len(order') : order'[i] = order'[j] => i = j
        BY <4>2, <4>3 DEF PoolShape, ListShape
      <4>5. \A u \in Tasks : (\E i \in 1 .. Len(order') : order'[i] = u)
                               <=> u = t \/ \E i \in 1 .. Len(order) : order[i] = u
        BY <4>2
      <4>6. \A u \in Tasks : queue'[u] # << >> <=> \E i \in 1 .. Len(order') : order'[i] = u
        BY <2>5, <3>1, <4>5 DEF PoolShape, ListShape
      <4> QED BY <3>2, <4>4, <4>6 DEF ListShape
    <3> QED BY <3>3, <3>4
  <2> QED BY <2>2, <2>3, <2>4, <2>6 DEF PoolShape
<1> QED BY <1>00, <1>1, <1>2

(* A writer takes all the buffers of the first task of the list. *)
LEMMA ShapePick ==
  ASSUME NEW B, PoolTypes(B), PoolShape, NEW w \in Writers, PickTask(w)
  PROVE  PoolShape'
<1> DEFINE t == Head(order)
<1>1. /\ wpc[w] = "pick" /\ mpc # "kick" /\ order # << >>
      /\ wtid' = [wtid EXCEPT ![w] = t]
      /\ head' = [head EXCEPT ![w] = queue[t]]
      /\ queue' = [queue EXCEPT ![t] = << >>]
      /\ order' = Tail(order)
      /\ wpc' = [wpc EXCEPT ![w] = "write"]
      /\ UNCHANGED <<kicks, bufDone, mpc, bufs, file>>
  BY DEF PickTask, LockFree
<1>2. /\ t \in Tasks /\ \E i \in 1 .. Len(order) : order[i] = t
      /\ \A i, j \in 1 .. Len(order') : order'[i] = order'[j] => i = j
      /\ \A u : (\E i \in 1 .. Len(order') : order'[i] = u)
                 <=> (u # t /\ \E i \in 1 .. Len(order) : order[i] = u)
  <2>1. order \in Seq(Tasks) /\ \A i, j \in 1 .. Len(order) : order[i] = order[j] => i = j
    BY DEF PoolTypes, PoolShape, ListShape
  <2>2. /\ t \in Tasks /\ t = order[1] /\ 1 \in 1 .. Len(order)
        /\ \A i, j \in 1 .. Len(Tail(order)) : Tail(order)[i] = Tail(order)[j] => i = j
        /\ \A u : (\E i \in 1 .. Len(Tail(order)) : Tail(order)[i] = u)
                   <=> (u # t /\ \E i \in 1 .. Len(order) : order[i] = u)
    BY <1>1, <2>1, TailOfDistinct
  <2> HIDE DEF t
  <2> QED BY <1>1, <2>2
<1> HIDE DEF t
<1>3. queue[t] # << >> /\ \A i \in 1 .. Len(queue[t]) : queue[t][i].tid = t
  BY <1>2 DEF PoolShape, ListShape
<1>4. wtid[w] = NoTask /\ bufs[w] = << >>
  BY <1>1 DEF PoolShape, WriterShape
<1>5. \A u \in Tasks : queue'[u] = IF u = t THEN << >> ELSE queue[u]
  BY <1>1 DEF PoolTypes
<1>6. \A v \in Writers :
        /\ wtid'[v] = IF v = w THEN t ELSE wtid[v]
        /\ head'[v] = IF v = w THEN queue[t] ELSE head[v]
        /\ wpc'[v] = IF v = w THEN "write" ELSE wpc[v]
        /\ bufs'[v] = bufs[v]
  <2>1. wtid \in [Writers -> Tasks \cup {NoTask}] /\ head \in [Writers -> Seq(B)]
        /\ wpc \in [Writers -> WriterPCs]
    BY DEF PoolTypes
  <2>2. \A v \in Writers : wtid'[v] = IF v = w THEN t ELSE wtid[v]
    BY <1>1, <2>1
  <2>3. \A v \in Writers : head'[v] = IF v = w THEN queue[t] ELSE head[v]
    BY <1>1, <2>1
  <2>4. \A v \in Writers : wpc'[v] = IF v = w THEN "write" ELSE wpc[v]
    BY <1>1, <2>1
  <2> QED BY <1>1, <2>2, <2>3, <2>4
<1>7. \A v \in Writers : wtid[v] # t
  BY <1>2, <1>3, PoolAssumption DEF PoolShape, ServedTaskNotQueued
<1>8. ListShape'
  <2>1. \A u \in Tasks : queue'[u] # << >> <=> \E i \in 1 .. Len(order') : order'[i] = u
    BY <1>2, <1>5 DEF PoolShape, ListShape
  <2>2. \A u \in Tasks : \A i \in 1 .. Len(queue'[u]) : queue'[u][i].tid = u
    BY <1>5 DEF PoolShape, ListShape
  <2> QED BY <1>2, <2>1, <2>2 DEF ListShape
<1>9. WriterShape'
  <2> SUFFICES ASSUME NEW v \in Writers
               PROVE  /\ wtid'[v] # NoTask <=> wpc'[v] \in {"write", "release", "splice"}
                      /\ head'[v] # << >> <=> wpc'[v] \in {"write", "release"}
                      /\ wtid'[v] = NoTask => bufs'[v] = << >>
                      /\ \A i \in 1 .. Len(head'[v]) : head'[v][i].tid = wtid'[v]
                      /\ \A i \in 1 .. Len(bufs'[v]) : bufs'[v][i].tid = wtid'[v]
    BY DEF WriterShape
  <2>1. CASE v = w
    BY <1>2, <1>3, <1>4, <1>6, <2>1, PoolAssumption
  <2>2. CASE v # w
    BY <1>6, <2>2 DEF PoolShape, WriterShape
  <2> QED BY <2>1, <2>2
<1>10. Phases'
  BY <1>1, <1>6 DEF PoolShape, Phases
<1>11. OneWriterPerTask'
  BY <1>6, <1>7 DEF PoolShape, OneWriterPerTask
<1>12. ServedTaskNotQueued'
  <2> SUFFICES ASSUME NEW v \in Writers, wtid'[v] # NoTask
               PROVE  queue'[wtid'[v]] = << >>
    BY DEF ServedTaskNotQueued
  <2>1. CASE v = w
    BY <1>2, <1>5, <1>6, <2>1
  <2>2. CASE v # w
    <3>1. wtid'[v] = wtid[v] /\ wtid[v] \in Tasks
      BY <1>6, <2>2 DEF PoolTypes
    <3> QED BY <1>5, <3>1 DEF PoolShape, ServedTaskNotQueued
  <2> QED BY <2>1, <2>2
<1> QED BY <1>8, <1>9, <1>10, <1>11, <1>12 DEF PoolShape

(* record_remaining_buffer() takes a buffer; there is no writer anymore. *)
LEMMA ShapeRemaining ==
  ASSUME NEW B, PoolTypes(B), PoolShape, NEW d, RecordRemaining(d)
  PROVE  PoolShape'
<1> DEFINE t == Head(order)
<1>1. /\ mpc = "remain" /\ order # << >>
      /\ queue' = [queue EXCEPT ![t] = Tail(@)]
      /\ order' = IF Len(queue[t]) = 1 THEN Tail(order) ELSE order
      /\ UNCHANGED <<kicks, bufDone, mpc, wpc, wtid, head, bufs>>
  BY DEF RecordRemaining
<1>2. /\ t \in Tasks /\ \E i \in 1 .. Len(order) : order[i] = t
      /\ \A i, j \in 1 .. Len(Tail(order)) : Tail(order)[i] = Tail(order)[j] => i = j
      /\ \A u : (\E i \in 1 .. Len(Tail(order)) : Tail(order)[i] = u)
                 <=> (u # t /\ \E i \in 1 .. Len(order) : order[i] = u)
  <2>1. order \in Seq(Tasks) /\ \A i, j \in 1 .. Len(order) : order[i] = order[j] => i = j
    BY DEF PoolTypes, PoolShape, ListShape
  <2> QED BY <1>1, <2>1, TailOfDistinct
<1> HIDE DEF t
<1>3. queue[t] # << >> /\ queue[t] \in Seq(B)
      /\ \A i \in 1 .. Len(queue[t]) : queue[t][i].tid = t
  BY <1>2 DEF PoolShape, ListShape, PoolTypes
<1>4. /\ Len(queue[t]) = 1 <=> Tail(queue[t]) = << >>
      /\ \A i \in 1 .. Len(Tail(queue[t])) : Tail(queue[t])[i].tid = t
  BY <1>3, TailFacts
<1>5. \A u \in Tasks : queue'[u] = IF u = t THEN Tail(queue[t]) ELSE queue[u]
  BY <1>1 DEF PoolTypes
<1>6. \A w \in Writers : wtid[w] = NoTask
  BY <1>1 DEF PoolShape, Phases, WriterShape
<1>7. ListShape'
  <2>1. \A u \in Tasks : \A i \in 1 .. Len(queue'[u]) : queue'[u][i].tid = u
    BY <1>4, <1>5 DEF PoolShape, ListShape
  <2>2. CASE Len(queue[t]) = 1
    <3>1. order' = Tail(order)
      BY <1>1, <2>2
    <3>2. \A u \in Tasks : queue'[u] # << >> <=> u # t /\ queue[u] # << >>
      BY <1>4, <1>5, <2>2
    <3>3. \A u \in Tasks : queue'[u] # << >> <=> \E i \in 1 .. Len(order') : order'[i] = u
      BY <1>2, <3>1, <3>2 DEF PoolShape, ListShape
    <3> QED BY <1>2, <2>1, <3>1, <3>3 DEF ListShape
  <2>3. CASE Len(queue[t]) # 1
    <3>1. order' = order
      BY <1>1, <2>3
    <3>2. \A u \in Tasks : queue'[u] # << >> <=> queue[u] # << >>
      BY <1>3, <1>4, <1>5, <2>3
    <3> QED BY <2>1, <3>1, <3>2 DEF PoolShape, ListShape
  <2> QED BY <2>2, <2>3
<1>8. WriterShape' /\ OneWriterPerTask'
  BY <1>1 DEF PoolShape, WriterShape, OneWriterPerTask
<1>9. Phases'
  BY <1>1 DEF PoolShape, Phases
<1>10. ServedTaskNotQueued'
  BY <1>1, <1>6 DEF ServedTaskNotQueued
<1> QED BY <1>7, <1>8, <1>9, <1>10 DEF PoolShape

(* A writer goes on to its next buffer, takes what it was handed, or leaves. *)
LEMMA ShapeWriter ==
  ASSUME NEW B, PoolTypes(B), PoolShape, NEW w \in Writers,
         ReleaseBuffer(w) \/ SpliceBufs(w) \/ LeaveTask(w)
  PROVE  PoolShape'
<1>1. UNCHANGED <<order, queue, bufDone, mpc>>
  BY DEF ReleaseBuffer, SpliceBufs, LeaveTask
<1>2. ListShape'
  BY <1>1 DEF PoolShape, ListShape
<1>3. CASE ReleaseBuffer(w)
  <2>1. /\ wpc[w] = "release" /\ UNCHANGED <<wtid, bufs>>
        /\ \A v \in Writers :
             /\ head'[v] = IF v = w THEN Tail(head[w]) ELSE head[v]
             /\ wpc'[v] = IF v = w THEN (IF Len(head[w]) = 1 THEN "splice" ELSE "write") ELSE wpc[v]
    BY <1>3 DEF ReleaseBuffer, PoolTypes
  <2>2. head[w] \in Seq(B) /\ head[w] # << >> /\ wtid[w] # NoTask
        /\ \A i \in 1 .. Len(head[w]) : head[w][i].tid = wtid[w]
    BY <2>1 DEF PoolShape, WriterShape, PoolTypes
  <2>5. /\ Len(head[w]) = 1 <=> Tail(head[w]) = << >>
        /\ \A i \in 1 .. Len(Tail(head[w])) : Tail(head[w])[i].tid = wtid[w]
    BY <2>2, TailFacts
  <2>6. WriterShape'
    <3> SUFFICES ASSUME NEW v \in Writers
                 PROVE  /\ wtid[v] # NoTask <=> wpc'[v] \in {"write", "release", "splice"}
                        /\ head'[v] # << >> <=> wpc'[v] \in {"write", "release"}
                        /\ wtid[v] = NoTask => bufs[v] = << >>
                        /\ \A i \in 1 .. Len(head'[v]) : head'[v][i].tid = wtid[v]
                        /\ \A i \in 1 .. Len(bufs[v]) : bufs[v][i].tid = wtid[v]
      BY <2>1 DEF WriterShape
    <3>1. CASE v = w
      BY <2>1, <2>2, <2>5, <3>1 DEF PoolShape, WriterShape
    <3>2. CASE v # w
      BY <2>1, <3>2 DEF PoolShape, WriterShape
    <3> QED BY <3>1, <3>2
  <2>7. Phases' /\ OneWriterPerTask' /\ ServedTaskNotQueued'
    BY <1>1, <2>1 DEF PoolShape, Phases, OneWriterPerTask, ServedTaskNotQueued
  <2> QED BY <1>2, <2>6, <2>7 DEF PoolShape
<1>4. CASE SpliceBufs(w)
  <2>1. /\ wpc[w] = "splice" /\ bufs[w] # << >> /\ UNCHANGED wtid
        /\ \A v \in Writers :
             /\ head'[v] = IF v = w THEN bufs[w] ELSE head[v]
             /\ bufs'[v] = IF v = w THEN << >> ELSE bufs[v]
             /\ wpc'[v] = IF v = w THEN "write" ELSE wpc[v]
    BY <1>4 DEF SpliceBufs, PoolTypes
  <2>2. WriterShape'
    <3> SUFFICES ASSUME NEW v \in Writers
                 PROVE  /\ wtid[v] # NoTask <=> wpc'[v] \in {"write", "release", "splice"}
                        /\ head'[v] # << >> <=> wpc'[v] \in {"write", "release"}
                        /\ wtid[v] = NoTask => bufs'[v] = << >>
                        /\ \A i \in 1 .. Len(head'[v]) : head'[v][i].tid = wtid[v]
                        /\ \A i \in 1 .. Len(bufs'[v]) : bufs'[v][i].tid = wtid[v]
      BY <2>1 DEF WriterShape
    <3>1. CASE v = w
      BY <2>1, <3>1 DEF PoolShape, WriterShape
    <3>2. CASE v # w
      BY <2>1, <3>2 DEF PoolShape, WriterShape
    <3> QED BY <3>1, <3>2
  <2>3. Phases' /\ OneWriterPerTask' /\ ServedTaskNotQueued'
    BY <1>1, <2>1 DEF PoolShape, Phases, OneWriterPerTask, ServedTaskNotQueued
  <2> QED BY <1>2, <2>2, <2>3 DEF PoolShape
<1>5. CASE LeaveTask(w)
  <2>1. /\ wpc[w] = "splice" /\ bufs[w] = << >> /\ UNCHANGED <<head, bufs>>
        /\ \A v \in Writers :
             /\ wtid'[v] = IF v = w THEN NoTask ELSE wtid[v]
             /\ wpc'[v] = IF v = w THEN (IF bufDone THEN "exit" ELSE "poll") ELSE wpc[v]
    BY <1>5 DEF LeaveTask, LoopTop, PoolTypes
  <2>2. WriterShape'
    <3> SUFFICES ASSUME NEW v \in Writers
                 PROVE  /\ wtid'[v] # NoTask <=> wpc'[v] \in {"write", "release", "splice"}
                        /\ head[v] # << >> <=> wpc'[v] \in {"write", "release"}
                        /\ wtid'[v] = NoTask => bufs[v] = << >>
                        /\ \A i \in 1 .. Len(head[v]) : head[v][i].tid = wtid'[v]
                        /\ \A i \in 1 .. Len(bufs[v]) : bufs[v][i].tid = wtid'[v]
      BY <2>1 DEF WriterShape
    <3>1. CASE v = w
      BY <2>1, <3>1 DEF PoolShape, WriterShape
    <3>2. CASE v # w
      BY <2>1, <3>2 DEF PoolShape, WriterShape
    <3> QED BY <3>1, <3>2
  <2>3. Phases' /\ OneWriterPerTask' /\ ServedTaskNotQueued'
    BY <1>1, <2>1 DEF PoolShape, Phases, OneWriterPerTask, ServedTaskNotQueued
  <2> QED BY <1>2, <2>2, <2>3 DEF PoolShape
<1> QED BY <1>3, <1>4, <1>5

-----------------------------------------------------------------------------
(* Every step of the pool, whatever it is fed. *)

PoolStep(B) ==
    \/ \E b \in B : b.tid \in Tasks /\ CopyToBuffer(b)
    \/ Kick \/ StopAllWriters \/ JoinWriters \/ FlushDone \/ RecordRemainingDone
    \/ \E d : RecordRemaining(d)
    \/ \E w \in Writers : WriterStep(w) \/ ReleaseBuffer(w) \/ \E d : WriteBuffer(w, d)
    \/ UNCHANGED poolVars

(* The main thread of uftrace keeps the types. *)
LEMMA TypesMain ==
  ASSUME NEW B, PoolTypes(B), PoolShape,
         \/ \E b \in B : b.tid \in Tasks /\ CopyToBuffer(b)
         \/ Kick \/ StopAllWriters \/ JoinWriters \/ FlushDone \/ RecordRemainingDone
         \/ \E d : RecordRemaining(d)
  PROVE  PoolTypes(B)'
<1> USE PoolAssumption DEF PoolTypes, MainPCs, WriterPCs
<1>1. ASSUME NEW b \in B, b.tid \in Tasks, CopyToBuffer(b) PROVE PoolTypes(B)'
  <2>0. PICK t \in Tasks : b.tid = t
    BY <1>1
  <2>1. ASSUME NEW w \in Writers, PassToWriter(w, b) PROVE PoolTypes(B)'
    <3>1. Append(bufs[w], b) \in Seq(B)
      OBVIOUS
    <3>2. bufs' \in [Writers -> Seq(B)]
      BY <2>1, <3>1 DEF PassToWriter
    <3> QED BY <2>1, <3>2 DEF PassToWriter
  <2>2. CASE AppendToList(b)
    <3>1. Append(queue[t], b) \in Seq(B) /\ Append(order, t) \in Seq(Tasks)
      OBVIOUS
    <3>2. queue' \in [Tasks -> Seq(B)] /\ order' \in Seq(Tasks)
      BY <2>0, <2>2, <3>1 DEF AppendToList
    <3> QED BY <2>2, <3>2 DEF AppendToList
  <2> QED BY <1>1, <2>1, <2>2 DEF CopyToBuffer
<1>2. CASE Kick
  BY <1>2 DEF Kick
<1>3. CASE StopAllWriters
  <2>1. bufDone' \in BOOLEAN
    BY <1>3 DEF StopAllWriters
  <2> QED BY <1>3, <2>1 DEF StopAllWriters
<1>4. CASE JoinWriters \/ FlushDone \/ RecordRemainingDone
  BY <1>4 DEF JoinWriters, FlushDone, RecordRemainingDone
<1>5. ASSUME NEW d, RecordRemaining(d) PROVE PoolTypes(B)'
  <2>1. order # << >> /\ Head(order) \in Tasks /\ Tail(order) \in Seq(Tasks)
        /\ Head(order) = order[1] /\ 1 \in 1 .. Len(order)
    BY <1>5 DEF RecordRemaining
  <2> DEFINE t == Head(order)
  <2>2. queue[t] # << >>
    BY <2>1 DEF PoolShape, ListShape
  <2>3. t \in Tasks /\ Tail(queue[t]) \in Seq(B)
    BY <2>1, <2>2
  <2> HIDE DEF t
  <2>4. /\ queue' = [queue EXCEPT ![t] = Tail(@)]
        /\ order' = order \/ order' = Tail(order)
        /\ UNCHANGED <<kicks, bufDone, mpc, wpc, wtid, head, bufs>>
    BY <1>5 DEF RecordRemaining, t
  <2>5. queue' \in [Tasks -> Seq(B)] /\ order' \in Seq(Tasks)
    BY <2>1, <2>3, <2>4
  <2> QED BY <2>4, <2>5
<1> QED BY <1>1, <1>2, <1>3, <1>4, <1>5

(* So do the writers. *)
LEMMA TypesWriter ==
  ASSUME NEW B, PoolTypes(B), PoolShape, NEW w \in Writers,
         WriterStep(w) \/ ReleaseBuffer(w) \/ \E d : WriteBuffer(w, d)
  PROVE  PoolTypes(B)'
<1> USE PoolAssumption DEF PoolTypes, MainPCs, WriterPCs
<1>1. CASE PollKick(w) \/ PollNothing(w) \/ PickNothing(w) \/ \E d : WriteBuffer(w, d)
  BY <1>1 DEF PollKick, PollNothing, PickNothing, LoopTop, WriteBuffer
<1>2. CASE ReadKick(w)
  <2>1. kicks' \in 0 .. KickCap /\ wpc' \in [Writers -> WriterPCs]
    BY <1>2 DEF ReadKick
  <2> QED BY <1>2, <2>1 DEF ReadKick
<1>3. CASE PickTask(w)
  <2>1. Head(order) \in Tasks /\ Tail(order) \in Seq(Tasks) /\ << >> \in Seq(B)
    BY <1>3 DEF PickTask
  <2>2. wtid' \in [Writers -> Tasks \cup {NoTask}]
    BY <1>3, <2>1 DEF PickTask
  <2>3. head' \in [Writers -> Seq(B)]
    BY <1>3, <2>1 DEF PickTask
  <2>4. queue' \in [Tasks -> Seq(B)]
    BY <1>3, <2>1 DEF PickTask
  <2>5. order' \in Seq(Tasks) /\ wpc' \in [Writers -> WriterPCs]
    BY <1>3, <2>1 DEF PickTask
  <2> QED BY <1>3, <2>2, <2>3, <2>4, <2>5 DEF PickTask
<1>4. CASE SpliceBufs(w)
  <2>1. << >> \in Seq(B)
    OBVIOUS
  <2>2. head' \in [Writers -> Seq(B)] /\ bufs' \in [Writers -> Seq(B)]
    BY <1>4, <2>1 DEF SpliceBufs
  <2>3. wpc' \in [Writers -> WriterPCs]
    BY <1>4 DEF SpliceBufs
  <2> QED BY <1>4, <2>2, <2>3 DEF SpliceBufs
<1>5. CASE LeaveTask(w)
  BY <1>5 DEF LeaveTask, LoopTop
<1>6. CASE ReleaseBuffer(w)
  <2>1. head[w] # << >>
    BY <1>6 DEF ReleaseBuffer, PoolShape, WriterShape
  <2>2. Tail(head[w]) \in Seq(B)
    BY <2>1
  <2>3. head' \in [Writers -> Seq(B)] /\ wpc' \in [Writers -> WriterPCs]
    BY <1>6, <2>2 DEF ReleaseBuffer
  <2> QED BY <1>6, <2>3 DEF ReleaseBuffer
<1> QED BY <1>1, <1>2, <1>3, <1>4, <1>5, <1>6 DEF WriterStep

(* Types and shape of the pool are an invariant of it. *)
LEMMA PoolStepKeeps ==
  ASSUME NEW B, PoolTypes(B), PoolShape, PoolStep(B)
  PROVE  PoolTypes(B)' /\ PoolShape'
<1>1. PoolTypes(B)'
  <2>1. CASE UNCHANGED poolVars
    BY <2>1 DEF poolVars, PoolTypes
  <2> QED BY <2>1, TypesMain, TypesWriter DEF PoolStep
<1>2. PoolShape'
  <2>1. CASE \E b \in B : b.tid \in Tasks /\ CopyToBuffer(b)
    BY <2>1, ShapeFeed
  <2>2. CASE \E d : RecordRemaining(d)
    BY <2>2, ShapeRemaining
  <2>3. CASE \E w \in Writers : PickTask(w)
    BY <2>3, ShapePick
  <2>4. CASE \E w \in Writers : ReleaseBuffer(w) \/ SpliceBufs(w) \/ LeaveTask(w)
    BY <2>4, ShapeWriter
  <2>5. CASE \/ Kick \/ StopAllWriters \/ JoinWriters \/ FlushDone \/ RecordRemainingDone
             \/ \E w \in Writers : PollKick(w) \/ PollNothing(w) \/ ReadKick(w) \/ PickNothing(w)
             \/ \E w \in Writers : \E d : WriteBuffer(w, d)
             \/ UNCHANGED poolVars
    BY <2>5, ShapeQuietStep
  <2> QED BY <2>1, <2>2, <2>3, <2>4, <2>5 DEF PoolStep, WriterStep
<1> QED BY <1>1, <1>2

(* Empty lists have their types. *)
LEMMA TypesInit ==
  ASSUME NEW B, PoolInit
  PROVE  PoolTypes(B)
<1> USE PoolAssumption DEF PoolInit
<1>1. << >> \in Seq(Tasks) /\ << >> \in Seq(B)
  OBVIOUS
<1>2. order \in Seq(Tasks) /\ queue \in [Tasks -> Seq(B)]
  BY <1>1
<1>3. kicks \in 0 .. KickCap /\ mpc \in MainPCs
  BY DEF MainPCs
<1>4. bufDone \in BOOLEAN
  OBVIOUS
<1>5. wpc \in [Writers -> WriterPCs] /\ wtid \in [Writers -> Tasks \cup {NoTask}]
  BY DEF WriterPCs
<1>6. head \in [Writers -> Seq(B)] /\ bufs \in [Writers -> Seq(B)]
  BY <1>1
<1> QED BY <1>2, <1>3, <1>4, <1>5, <1>6 DEF PoolTypes

-----------------------------------------------------------------------------
(* The pool as one queue of buffers per task. *)

(* The backlog of a task that a writer works for, and of one nobody works for. *)
LEMMA BacklogOf ==
  ASSUME OneWriterPerTask, NEW t \in Tasks
  PROVE  /\ \A w \in Writers : wtid[w] = t => Backlog(t) = head[w] \o bufs[w]
         /\ (\A w \in Writers : wtid[w] # t) => Backlog(t) = queue[t]
<1>1. ASSUME NEW w \in Writers, wtid[w] = t PROVE Backlog(t) = head[w] \o bufs[w]
  <2> DEFINE v == CHOOSE v \in Writers : wtid[v] = t
  <2>1. v \in Writers /\ wtid[v] = t
    BY <1>1
  <2>2. v = w
    BY <1>1, <2>1, PoolAssumption DEF OneWriterPerTask
  <2> QED BY <1>1, <2>2 DEF Backlog
<1>2. (\A w \in Writers : wtid[w] # t) => Backlog(t) = queue[t]
  BY DEF Backlog
<1> QED BY <1>1, <1>2

(* The same after a step. *)
LEMMA BacklogOfNext ==
  ASSUME OneWriterPerTask', NEW t \in Tasks
  PROVE  /\ \A w \in Writers : wtid'[w] = t => Backlog(t)' = head'[w] \o bufs'[w]
         /\ (\A w \in Writers : wtid'[w] # t) => Backlog(t)' = queue'[t]
<1>1. ASSUME NEW w \in Writers, wtid'[w] = t PROVE Backlog(t)' = head'[w] \o bufs'[w]
  <2> DEFINE v == CHOOSE v \in Writers : wtid'[v] = t
  <2>1. v \in Writers /\ wtid'[v] = t
    BY <1>1
  <2>2. v = w
    BY <1>1, <2>1, PoolAssumption DEF OneWriterPerTask
  <2> QED BY <1>1, <2>2 DEF Backlog
<1>2. (\A w \in Writers : wtid'[w] # t) => Backlog(t)' = queue'[t]
  BY DEF Backlog
<1> QED BY <1>1, <1>2

(* Joining a list to an empty one, and taking from or adding to a joined list. *)
LEMMA JoinFacts ==
  ASSUME NEW B, NEW r \in Seq(B), NEW s \in Seq(B)
  PROVE  /\ r \o s \in Seq(B)
         /\ << >> \o s = s
         /\ r \o << >> = r
         /\ \A b \in B : r \o Append(s, b) = Append(r \o s, b)
         /\ r # << >> => /\ r \o s # << >> /\ Head(r \o s) = Head(r)
                         /\ Tail(r) \o s = Tail(r \o s)
<1>1. /\ r \o s \in Seq(B) /\ Len(r \o s) = Len(r) + Len(s)
      /\ Len(r) \in Nat /\ Len(s) \in Nat
      /\ \A k \in 1 .. Len(r) + Len(s) : (r \o s)[k] = IF k <= Len(r) THEN r[k] ELSE s[k - Len(r)]
  BY ConcatProperties, LenProperties
<1>2. << >> \o s = s /\ r \o << >> = r
  BY ConcatEmptySeq
<1>3. ASSUME NEW b \in B PROVE r \o Append(s, b) = Append(r \o s, b)
  OBVIOUS
<1>4. ASSUME r # << >>
      PROVE  r \o s # << >> /\ Head(r \o s) = Head(r) /\ Tail(r) \o s = Tail(r \o s)
  <2>1. Len(r) >= 1
    BY <1>1, <1>4, EmptySeq
  <2>2. r \o s # << >> /\ Head(r \o s) = (r \o s)[1] /\ Head(r) = r[1]
    BY <1>1, <2>1
  <2>3. (r \o s)[1] = r[1]
    BY <1>1, <2>1
  <2>4. Tail(r) \in Seq(B) /\ Len(Tail(r)) = Len(r) - 1
        /\ \A k \in 1 .. Len(r) - 1 : Tail(r)[k] = r[k + 1]
    BY <1>4, HeadTailProperties
  <2>5. Tail(r \o s) \in Seq(B) /\ Len(Tail(r \o s)) = Len(r) + Len(s) - 1
        /\ \A k \in 1 .. Len(r) + Len(s) - 1 : Tail(r \o s)[k] = (r \o s)[k + 1]
    BY <1>1, <2>2, HeadTailProperties
  <2>6. /\ Tail(r) \o s \in Seq(B) /\ Len(Tail(r) \o s) = Len(r) - 1 + Len(s)
        /\ \A k \in 1 .. Len(r) - 1 + Len(s) :
             (Tail(r) \o s)[k] = IF k <= Len(r) - 1 THEN Tail(r)[k] ELSE s[k - (Len(r) - 1)]
    BY <1>1, <2>1, <2>4, ConcatProperties
  <2>7. ASSUME NEW k \in 1 .. Len(r) - 1 + Len(s)
        PROVE  (Tail(r) \o s)[k] = Tail(r \o s)[k]
    <3>1. k + 1 \in 1 .. Len(r) + Len(s) /\ k \in 1 .. Len(r) + Len(s) - 1
      BY <1>1
    <3>2. Tail(r \o s)[k] = IF k + 1 <= Len(r) THEN r[k + 1] ELSE s[k + 1 - Len(r)]
      BY <1>1, <2>5, <3>1
    <3>3. CASE k <= Len(r) - 1
      BY <1>1, <2>1, <2>4, <2>6, <3>2, <3>3
    <3>4. CASE ~(k <= Len(r) - 1)
      <4>1. k - (Len(r) - 1) = k + 1 - Len(r) /\ ~(k + 1 <= Len(r))
        BY <1>1, <3>4
      <4> QED BY <2>6, <3>2, <3>4, <4>1
    <3> QED BY <3>3, <3>4
  <2>8. Tail(r) \o s = Tail(r \o s)
    BY <1>1, <2>5, <2>6, <2>7, SeqEqual
  <2> QED BY <2>2, <2>3, <2>8
<1> QED BY <1>1, <1>2, <1>3, <1>4

(* A backlog holds buffers of its task. *)
LEMMA BacklogType ==
  ASSUME NEW B, PoolTypes(B), PoolShape, NEW t \in Tasks
  PROVE  /\ Backlog(t) \in Seq(B)
         /\ \A k \in 1 .. Len(Backlog(t)) : Backlog(t)[k] \in B /\ Backlog(t)[k].tid = t
<1>1. CASE \A w \in Writers : wtid[w] # t
  <2>1. Backlog(t) = queue[t]
    BY <1>1, BacklogOf DEF PoolShape
  <2> QED BY <2>1 DEF PoolTypes, PoolShape, ListShape
<1>2. ASSUME NEW w \in Writers, wtid[w] = t
      PROVE  /\ Backlog(t) \in Seq(B)
             /\ \A k \in 1 .. Len(Backlog(t)) : Backlog(t)[k] \in B /\ Backlog(t)[k].tid = t
  <2>1. Backlog(t) = head[w] \o bufs[w]
    BY <1>2, BacklogOf DEF PoolShape
  <2>2. /\ head[w] \in Seq(B) /\ bufs[w] \in Seq(B)
        /\ \A i \in 1 .. Len(head[w]) : head[w][i].tid = t
        /\ \A i \in 1 .. Len(bufs[w]) : bufs[w][i].tid = t
    BY <1>2 DEF PoolTypes, PoolShape, WriterShape
  <2>3. /\ head[w] \o bufs[w] \in Seq(B) /\ Len(head[w] \o bufs[w]) = Len(head[w]) + Len(bufs[w])
        /\ Len(head[w]) \in Nat /\ Len(bufs[w]) \in Nat
        /\ \A k \in 1 .. Len(head[w]) + Len(bufs[w]) :
             (head[w] \o bufs[w])[k] = IF k <= Len(head[w]) THEN head[w][k] ELSE bufs[w][k - Len(head[w])]
    BY <2>2, ConcatProperties, LenProperties
  <2>4. ASSUME NEW k \in 1 .. Len(head[w]) + Len(bufs[w])
        PROVE  (head[w] \o bufs[w])[k].tid = t /\ (head[w] \o bufs[w])[k] \in B
    <3>1. CASE k <= Len(head[w])
      <4>1. k \in 1 .. Len(head[w])
        BY <2>3, <3>1
      <4> QED BY <2>2, <2>3, <3>1, <4>1
    <3>2. CASE ~(k <= Len(head[w]))
      <4> DEFINE m == Len(head[w])
                 n == Len(bufs[w])
      <4>a. m \in Nat /\ n \in Nat /\ k \in 1 .. m + n /\ ~(k <= m)
        BY <2>3, <3>2
      <4> HIDE DEF m, n
      <4>b. k - m \in 1 .. n
        BY <4>a
      <4>1. k - Len(head[w]) \in 1 .. Len(bufs[w])
        BY <4>b DEF m, n
      <4> QED BY <2>2, <2>3, <3>2, <4>1
    <3> QED BY <3>1, <3>2
  <2>5. \A k \in 1 .. Len(Backlog(t)) : Backlog(t)[k].tid = t /\ Backlog(t)[k] \in B
    BY <2>1, <2>3, <2>4
  <2> QED BY <2>1, <2>3, <2>5
<1> QED BY <1>1, <1>2

(* Most steps of the pool leave every backlog alone: picking a task, splicing *)
(* and leaving only move it between lists.                                    *)
LEMMA BacklogKept ==
  ASSUME NEW B, PoolTypes(B), PoolShape, PoolShape',
         \/ Kick \/ StopAllWriters \/ JoinWriters \/ FlushDone \/ RecordRemainingDone
         \/ \E w \in Writers : WriterStep(w) \/ \E d : WriteBuffer(w, d)
         \/ UNCHANGED poolVars,
         NEW t \in Tasks
  PROVE  Backlog(t)' = Backlog(t)
<1>1. CASE UNCHANGED <<wtid, head, bufs, queue>>
  BY <1>1 DEF Backlog
<1>2. ASSUME NEW w \in Writers, PickTask(w) PROVE Backlog(t)' = Backlog(t)
  <2> DEFINE u == Head(order)
  <2>1. /\ wpc[w] = "pick" /\ order # << >>
        /\ wtid' = [wtid EXCEPT ![w] = u]
        /\ head' = [head EXCEPT ![w] = queue[u]]
        /\ queue' = [queue EXCEPT ![u] = << >>]
        /\ UNCHANGED bufs
    BY <1>2 DEF PickTask
  <2>2. u \in Tasks /\ queue[u] # << >>
    <3>1. u \in Tasks /\ u = order[1] /\ 1 \in 1 .. Len(order)
      BY <2>1 DEF PoolTypes
    <3> QED BY <3>1 DEF PoolShape, ListShape
  <2> HIDE DEF u
  <2>3. wtid[w] = NoTask /\ bufs[w] = << >>
    BY <2>1 DEF PoolShape, WriterShape
  <2>4. \A v \in Writers : wtid[v] # u
    BY <2>2, PoolAssumption DEF PoolShape, ServedTaskNotQueued
  <2>5. /\ \A v \in Writers : /\ wtid'[v] = IF v = w THEN u ELSE wtid[v]
                              /\ head'[v] = IF v = w THEN queue[u] ELSE head[v]
        /\ queue'[t] = IF t = u THEN << >> ELSE queue[t]
    BY <2>1 DEF PoolTypes
  <2>6. CASE t = u
    <3>1. Backlog(t) = queue[t]
      BY <2>4, <2>6, BacklogOf DEF PoolShape
    <3>2. Backlog(t)' = head'[w] \o bufs'[w]
      <4>1. OneWriterPerTask' /\ wtid'[w] = t
        BY <2>5, <2>6 DEF PoolShape
      <4> QED BY <4>1, BacklogOfNext
    <3>3. head'[w] = queue[t] /\ bufs'[w] = << >> /\ queue[t] \in Seq(B)
      BY <2>1, <2>3, <2>5, <2>6 DEF PoolTypes
    <3> QED BY <3>1, <3>2, <3>3, ConcatEmptySeq
  <2>7. CASE t # u
    <3>1. \A v \in Writers : wtid'[v] = t <=> wtid[v] = t
      BY <2>3, <2>5, <2>7, PoolAssumption
    <3>2. CASE \A v \in Writers : wtid[v] # t
      BY <2>5, <2>7, <3>1, <3>2 DEF Backlog
    <3>3. ASSUME NEW v \in Writers, wtid[v] = t PROVE Backlog(t)' = Backlog(t)
      <4>1. Backlog(t) = head[v] \o bufs[v]
        BY <3>3, BacklogOf DEF PoolShape
      <4>2. Backlog(t)' = head'[v] \o bufs'[v]
        <5>1. OneWriterPerTask' /\ wtid'[v] = t
          BY <3>1, <3>3 DEF PoolShape
        <5> QED BY <5>1, BacklogOfNext
      <4>3. v # w
        BY <2>3, <3>3, PoolAssumption
      <4> QED BY <2>1, <2>5, <4>1, <4>2, <4>3
    <3> QED BY <3>2, <3>3
  <2> QED BY <2>6, <2>7
<1>3. ASSUME NEW w \in Writers, SpliceBufs(w) PROVE Backlog(t)' = Backlog(t)
  <2>1. /\ wpc[w] = "splice" /\ UNCHANGED <<wtid, queue>>
        /\ \A v \in Writers : /\ head'[v] = IF v = w THEN bufs[w] ELSE head[v]
                              /\ bufs'[v] = IF v = w THEN << >> ELSE bufs[v]
    BY <1>3 DEF SpliceBufs, PoolTypes
  <2>2. head[w] = << >> /\ bufs[w] \in Seq(B)
    BY <2>1 DEF PoolShape, WriterShape, PoolTypes
  <2>3. CASE wtid[w] = t
    <3>1. Backlog(t) = head[w] \o bufs[w] /\ Backlog(t)' = head'[w] \o bufs'[w]
      BY <2>1, <2>3, BacklogOf, BacklogOfNext DEF PoolShape
    <3> QED BY <2>1, <2>2, <3>1, ConcatEmptySeq
  <2>4. CASE wtid[w] # t
    <3>1. CASE \A v \in Writers : wtid[v] # t
      BY <2>1, <3>1 DEF Backlog
    <3>2. ASSUME NEW v \in Writers, wtid[v] = t PROVE Backlog(t)' = Backlog(t)
      <4>1. Backlog(t) = head[v] \o bufs[v] /\ Backlog(t)' = head'[v] \o bufs'[v]
        BY <2>1, <3>2, BacklogOf, BacklogOfNext DEF PoolShape
      <4> QED BY <2>1, <2>4, <3>2, <4>1
    <3> QED BY <3>1, <3>2
  <2> QED BY <2>3, <2>4
<1>4. ASSUME NEW w \in Writers, LeaveTask(w) PROVE Backlog(t)' = Backlog(t)
  <2>1. /\ wpc[w] = "splice" /\ bufs[w] = << >> /\ UNCHANGED <<head, bufs, queue>>
        /\ \A v \in Writers : wtid'[v] = IF v = w THEN NoTask ELSE wtid[v]
    BY <1>4 DEF LeaveTask, PoolTypes
  <2>2. head[w] = << >> /\ wtid[w] # NoTask
    BY <2>1 DEF PoolShape, WriterShape
  <2>3. CASE wtid[w] = t
    <3>1. Backlog(t) = head[w] \o bufs[w]
      BY <2>3, BacklogOf DEF PoolShape
    <3>2. Backlog(t) = << >>
      BY <2>1, <2>2, <3>1, ConcatEmptySeq, EmptySeq
    <3>3. \A v \in Writers : wtid'[v] # t
      BY <2>1, <2>3, PoolAssumption DEF PoolShape, OneWriterPerTask
    <3>4. Backlog(t)' = queue[t]
      BY <2>1, <3>3, BacklogOfNext DEF PoolShape
    <3>5. queue[t] = << >>
      BY <2>2, <2>3 DEF PoolShape, ServedTaskNotQueued
    <3> QED BY <3>2, <3>4, <3>5
  <2>4. CASE wtid[w] # t
    <3>1. \A v \in Writers : wtid'[v] = t <=> wtid[v] = t
      BY <2>1, <2>4, PoolAssumption
    <3>2. CASE \A v \in Writers : wtid[v] # t
      BY <2>1, <3>1, <3>2 DEF Backlog
    <3>3. ASSUME NEW v \in Writers, wtid[v] = t PROVE Backlog(t)' = Backlog(t)
      <4>1. Backlog(t) = head[v] \o bufs[v] /\ Backlog(t)' = head'[v] \o bufs'[v]
        BY <3>1, <3>3, BacklogOf, BacklogOfNext DEF PoolShape
      <4> QED BY <2>1, <4>1
    <3> QED BY <3>2, <3>3
  <2> QED BY <2>3, <2>4
<1>5. CASE \/ Kick \/ StopAllWriters \/ JoinWriters \/ FlushDone \/ RecordRemainingDone
           \/ \E w \in Writers : \/ PollKick(w) \/ PollNothing(w) \/ ReadKick(w) \/ PickNothing(w)
                                 \/ \E d : WriteBuffer(w, d)
           \/ UNCHANGED poolVars
  <2>1. UNCHANGED <<wtid, head, bufs, queue>>
    BY <1>5 DEF Kick, StopAllWriters, JoinWriters, FlushDone, RecordRemainingDone, PollKick,
       PollNothing, ReadKick, PickNothing, WriteBuffer, poolVars
  <2> QED BY <1>1, <2>1
<1> QED BY <1>2, <1>3, <1>4, <1>5 DEF WriterStep

(* copy_to_buffer() adds the buffer at the end of its task's backlog. *)
LEMMA BacklogCopy ==
  ASSUME NEW B, PoolTypes(B), PoolShape, PoolShape', NEW b \in B, b.tid \in Tasks,
         CopyToBuffer(b), NEW t \in Tasks
  PROVE  Backlog(t)' = IF t = b.tid THEN Append(Backlog(t), b) ELSE Backlog(t)
<1>0. PICK u \in Tasks : b.tid = u
  OBVIOUS
<1>1. ASSUME NEW w \in Writers, PassToWriter(w, b)
      PROVE  Backlog(t)' = IF t = u THEN Append(Backlog(t), b) ELSE Backlog(t)
  <2>1. /\ wtid[w] = u /\ UNCHANGED <<wtid, queue, head>>
        /\ \A v \in Writers : bufs'[v] = IF v = w THEN Append(bufs[w], b) ELSE bufs[v]
    BY <1>0, <1>1 DEF PassToWriter, PoolTypes
  <2>2. CASE \A v \in Writers : wtid[v] # t
    BY <2>1, <2>2 DEF Backlog
  <2>3. ASSUME NEW v \in Writers, wtid[v] = t
        PROVE  Backlog(t)' = IF t = u THEN Append(Backlog(t), b) ELSE Backlog(t)
    <3>1. Backlog(t) = head[v] \o bufs[v] /\ Backlog(t)' = head'[v] \o bufs'[v]
      BY <2>1, <2>3, BacklogOf, BacklogOfNext DEF PoolShape
    <3>2. head[v] \in Seq(B) /\ bufs[v] \in Seq(B)
      BY DEF PoolTypes
    <3>3. t = u <=> v = w
      BY <2>1, <2>3, PoolAssumption DEF PoolShape, OneWriterPerTask
    <3>4. head[v] \o Append(bufs[v], b) = Append(head[v] \o bufs[v], b)
      <4> DEFINE r == head[v]
                 s == bufs[v]
      <4>1. r \in Seq(B) /\ s \in Seq(B) /\ b \in B
        BY <3>2
      <4> HIDE DEF r, s
      <4>2. r \o Append(s, b) = Append(r \o s, b)
        BY ONLY <4>1, JoinFacts
      <4> QED BY <4>2 DEF r, s
    <3> QED BY <2>1, <3>1, <3>3, <3>4
  <2> QED BY <2>2, <2>3
<1>2. CASE AppendToList(b)
  <2>1. /\ \A w \in Writers : wtid[w] # u
        /\ UNCHANGED <<wtid, head, bufs>>
        /\ queue'[t] = IF t = u THEN Append(queue[t], b) ELSE queue[t]
    BY <1>0, <1>2 DEF AppendToList, PoolTypes
  <2>2. CASE \A v \in Writers : wtid[v] # t
    <3>1. Backlog(t) = queue[t] /\ Backlog(t)' = queue'[t]
      BY <2>1, <2>2 DEF Backlog
    <3> QED BY <1>0, <2>1, <3>1
  <2>3. ASSUME NEW v \in Writers, wtid[v] = t
        PROVE  Backlog(t)' = IF t = u THEN Append(Backlog(t), b) ELSE Backlog(t)
    <3>1. Backlog(t)' = Backlog(t)
      BY <2>1, <2>3 DEF Backlog
    <3>2. t # u
      BY <2>1, <2>3
    <3> QED BY <3>1, <3>2
  <2> QED BY <1>0, <2>2, <2>3
<1> QED BY <1>0, <1>1, <1>2 DEF CopyToBuffer

(* The buffer a writer writes or gives back is the first of its task's backlog. *)
LEMMA BacklogHead ==
  ASSUME NEW B, PoolTypes(B), PoolShape, NEW w \in Writers, wpc[w] \in {"write", "release"}
  PROVE  /\ wtid[w] \in Tasks /\ head[w] # << >> /\ Head(head[w]) \in B
         /\ Head(head[w]).tid = wtid[w]
         /\ Backlog(wtid[w]) # << >> /\ Head(Backlog(wtid[w])) = Head(head[w])
<1>1. PICK t \in Tasks : t = wtid[w]
  BY DEF PoolTypes, PoolShape, WriterShape
<1>2. /\ head[w] # << >> /\ head[w] \in Seq(B) /\ bufs[w] \in Seq(B)
      /\ \A i \in 1 .. Len(head[w]) : head[w][i].tid = t
  BY <1>1 DEF PoolTypes, PoolShape, WriterShape
<1>3. Head(head[w]) \in B /\ Head(head[w]).tid = t
  BY <1>2
<1>4. Backlog(t) = head[w] \o bufs[w]
  BY <1>1, BacklogOf DEF PoolShape
<1>5. Backlog(t) # << >> /\ Head(Backlog(t)) = Head(head[w])
  <2> DEFINE r == head[w]
             s == bufs[w]
  <2>1. r \in Seq(B) /\ s \in Seq(B) /\ r # << >>
    BY <1>2
  <2> HIDE DEF r, s
  <2>2. r \o s # << >> /\ Head(r \o s) = Head(r)
    BY ONLY <2>1, JoinFacts
  <2> QED BY <1>4, <2>2 DEF r, s
<1> QED BY <1>1, <1>2, <1>3, <1>5

(* Giving a buffer back takes it off the backlog. *)
LEMMA BacklogRelease ==
  ASSUME NEW B, PoolTypes(B), PoolShape, PoolShape', NEW w \in Writers, ReleaseBuffer(w),
         NEW t \in Tasks
  PROVE  Backlog(t)' = IF t = wtid[w] THEN Tail(Backlog(t)) ELSE Backlog(t)
<1>1. /\ wpc[w] = "release" /\ UNCHANGED <<wtid, queue, bufs>>
      /\ \A v \in Writers : head'[v] = IF v = w THEN Tail(head[w]) ELSE head[v]
  BY DEF ReleaseBuffer, PoolTypes
<1>2. head[w] # << >> /\ head[w] \in Seq(B) /\ bufs[w] \in Seq(B)
  BY <1>1 DEF PoolTypes, PoolShape, WriterShape
<1>3. CASE \A v \in Writers : wtid[v] # t
  BY <1>1, <1>3 DEF Backlog
<1>4. ASSUME NEW v \in Writers, wtid[v] = t
      PROVE  Backlog(t)' = IF t = wtid[w] THEN Tail(Backlog(t)) ELSE Backlog(t)
  <2>1. Backlog(t) = head[v] \o bufs[v] /\ Backlog(t)' = head'[v] \o bufs'[v]
    BY <1>1, <1>4, BacklogOf, BacklogOfNext DEF PoolShape
  <2>2. t = wtid[w] <=> v = w
    BY <1>4, PoolAssumption DEF PoolShape, OneWriterPerTask
  <2>3. Tail(head[w]) \o bufs[w] = Tail(head[w] \o bufs[w])
    <3> DEFINE r == head[w]
               s == bufs[w]
    <3>1. r \in Seq(B) /\ s \in Seq(B) /\ r # << >>
      BY <1>2
    <3> HIDE DEF r, s
    <3>2. Tail(r) \o s = Tail(r \o s)
      BY ONLY <3>1, JoinFacts
    <3> QED BY <3>2 DEF r, s
  <2> QED BY <1>1, <2>1, <2>2, <2>3
<1> QED BY <1>3, <1>4

(* So does the drain at the end, which works on the first queued task. *)
LEMMA BacklogRemaining ==
  ASSUME NEW B, PoolTypes(B), PoolShape, NEW d, RecordRemaining(d), NEW t \in Tasks
  PROVE  /\ Head(order) \in Tasks /\ queue[Head(order)] # << >>
         /\ Backlog(Head(order)) = queue[Head(order)]
         /\ Backlog(t)' = IF t = Head(order) THEN Tail(Backlog(t)) ELSE Backlog(t)
<1> DEFINE u == Head(order)
<1>1. /\ mpc = "remain" /\ order # << >> /\ UNCHANGED <<wtid, head, bufs>>
      /\ queue' = [queue EXCEPT ![u] = Tail(@)]
  BY DEF RecordRemaining
<1>2. u \in Tasks /\ queue[u] # << >>
  <2>1. u \in Tasks /\ u = order[1] /\ 1 \in 1 .. Len(order)
    BY <1>1 DEF PoolTypes
  <2> QED BY <2>1 DEF PoolShape, ListShape
<1>3. \A w \in Writers : wtid[w] = NoTask
  BY <1>1 DEF PoolShape, Phases, WriterShape
<1>4. \A x \in Tasks : Backlog(x) = queue[x] /\ Backlog(x)' = queue'[x]
  BY <1>1, <1>3, PoolAssumption DEF Backlog
<1> HIDE DEF u
<1>5. queue'[t] = IF t = u THEN Tail(queue[t]) ELSE queue[t]
  BY <1>1 DEF PoolTypes
<1> QED BY <1>2, <1>4, <1>5 DEF u

(* Empty lists make empty backlogs. *)
LEMMA BacklogInit == PoolInit => \A t \in Tasks : Backlog(t) = << >>
  BY PoolAssumption DEF PoolInit, Backlog

=============================================================================
