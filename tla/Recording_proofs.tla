-------------------------- MODULE Recording_proofs ---------------------------
(***************************************************************************)
(* Proofs about the recording pipeline: for any tasks, writers, numbers of *)
(* buffers and records and sizes of the pipes, a buffer has one owner at a *)
(* time, the files implement TraceLog with every gap marked, and nothing   *)
(* is missing from them when uftrace ends with the program.                *)
(***************************************************************************)
EXTENDS Recording, WriterPool_proofs

Buf == [tid : Tasks, idx : Idx]
Msgs == [type : {"START", "END", "LOST", "FINISH"}, tid : Tasks \cup {NoTask}, arg : Nat]

\* The messages uftrace will still read
Unread == IF stop = "no" THEN pipe ELSE << >>

\* The channel: a buffer of shmem_list_head counts as a START that is unread.  Reading a
\* START so leaves it as it is.
Channel(ls, ms) == [k \in 1 .. Len(ls) + Len(ms) |->
                       IF k <= Len(ls) THEN Message("START", ls[k].tid, ls[k].idx)
                                       ELSE ms[k - Len(ls)]]
Chan == Channel(listed, Unread)

Sent(c, y, t, i) == \E k \in 1 .. Len(c) : c[k].type = y /\ c[k].tid = t /\ c[k].arg = i
Started(t, i) == Sent(Chan, "START", t, i)
Ended(t, i) == Sent(Chan, "END", t, i)
Queued(t, i) == \E k \in 1 .. Len(Backlog(t)) : Backlog(t)[k].idx = i

\* uftrace has the buffer, or will get it
Held(t, i) == Started(t, i) \/ Queued(t, i)

Data(t, i) == mem[t][i].data
Taken(t, i) == "RECORDING" \in mem[t][i].flag
Storing(t) == ppc[t] \in {"rec", "start", "lost", "store"} /\ curr[t] # -1
Between(t) == ppc[t] = "new" \/ (ppc[t] = "rec" /\ curr[t] = -1)
Flushing == mpc \in {"flush", "remain", "done"} \/ (mpc = "kick" /\ bufDone)

-----------------------------------------------------------------------------
(* The invariant of one task.  n[i] is the number of the record that buffer i was last  *)
(* started for, g[i] the place in the stream where its contents begin.                   *)

About(t, m) == m.tid = t /\ m.type \in {"START", "END"}
Key(n, m) == 2 * n[m.arg] + (IF m.type = "END" THEN 1 ELSE 0)

\* Buffers go through the channel and the backlog in the order they were started.
Sorted(c, t, n) ==
    \A k, l \in 1 .. Len(c) :
        About(t, c[k]) /\ About(t, c[l]) /\ k < l => Key(n, c[k]) < Key(n, c[l])
ChanSorted(t, n) == Sorted(Chan, t, n)
BacklogSorted(t, n) ==
    /\ \A k, l \in 1 .. Len(Backlog(t)) : k < l => n[Backlog(t)[k].idx] < n[Backlog(t)[l].idx]
    /\ \A i, j \in Idx : Queued(t, i) /\ Started(t, j) => n[i] < n[j]

\* An END has its START, and only the last START may be without an END.
Paired(t, n) ==
    /\ \A i \in Idx : Ended(t, i) => Started(t, i)
    /\ \A i, j \in Idx : Started(t, i) /\ Started(t, j) /\ n[i] < n[j] => Ended(t, i)

EndOf(t, g, i) == g[i] + Len(Data(t, i))

\* Position x of the stream is where the file ends or the contents of a held buffer do.
Reached(t, g, x) ==
    \/ x = Len(file[t])
    \/ \E i \in Idx : Held(t, i) /\ Data(t, i) # << >> /\ EndOf(t, g, i) = x

\* The contents of the held buffers follow one another.
Chained(t, n, g) ==
    /\ \A i, j \in Idx : Held(t, i) /\ Held(t, j) /\ n[i] < n[j] => EndOf(t, g, i) <= g[j]
    /\ \A i \in Idx : Held(t, i) => Reached(t, g, g[i])

\* The contents of buffer i are a part of the stream.
PartOfStream(t, g, i) ==
    /\ EndOf(t, g, i) <= Len(stream[t])
    /\ \A k \in 1 .. Len(Data(t, i)) : Data(t, i)[k] = stream[t][g[i] + k]

HeldMapped(t, g) ==
    \A i \in Idx : Held(t, i) =>
        /\ Taken(t, i)
        /\ ppc[t] # "gone" => i < nrBuf[t]
        /\ PartOfStream(t, g, i)

FilePrefix(t) ==
    /\ Len(file[t]) <= Len(stream[t])
    /\ \A k \in 1 .. Len(file[t]) : file[t][k] = stream[t][k]

\* The buffer c a task stores into is its last one and ends where the stream does.
LastBuffer(t, c, n, g) ==
    /\ Taken(t, c) /\ c < nrBuf[t]
    /\ PartOfStream(t, g, c) /\ EndOf(t, g, c) = Len(stream[t])
    /\ \A i \in Idx : Held(t, i) /\ i # c => n[i] < n[c]
    /\ n[c] <= next[t]
    /\ ppc[t] = "rec" /\ Data(t, c) # << >> => n[c] < next[t]
    /\ ~Ended(t, c)
    /\ Queued(t, c) => Flushing
    /\ ppc[t] = "start" \/ (t \in blind /\ stop = "no") => ~Held(t, c)
    /\ stop = "no" /\ t \notin blind /\ ppc[t] # "start" => Started(t, c)
    /\ ppc[t] \in {"start", "lost"} => Data(t, c) = << >>
Current(t, n, g) == Storing(t) => LastBuffer(t, curr[t], n, g)

\* A task that has no current buffer has ended all it was told of.
NoneOpen(t, n) ==
    /\ Between(t) => \A i \in Idx : Held(t, i) => n[i] < next[t]
    /\ (Between(t) \/ ppc[t] = "start") /\ pfdOpen /\ stop = "no" =>
           \A i \in Idx : Started(t, i) => Ended(t, i)

\* Nothing is missing between the held buffers and the end of the stream.
NothingMissing(t, g) ==
    t \notin blind /\ stop \in {"no", "exited"} => Reached(t, g, Len(stream[t]))

Fresh(t) ==
    ppc[t] = "none" =>
        /\ \A i \in Idx : ~Held(t, i)
        /\ stream[t] = << >> /\ file[t] = << >> /\ next[t] = 1 /\ losts[t] = 0 /\ t \notin blind

Lane(t, n, g) ==
    /\ ChanSorted(t, n) /\ BacklogSorted(t, n) /\ Paired(t, n)
    /\ Chained(t, n, g) /\ HeldMapped(t, g) /\ FilePrefix(t)
    /\ Current(t, n, g) /\ NoneOpen(t, n) /\ NothingMissing(t, g) /\ Fresh(t)

Ranks == [Idx -> Nat]
Lanes == \A t \in Tasks : \E n, g \in Ranks : Lane(t, n, g)

-----------------------------------------------------------------------------
(* The invariant of the whole. *)

Types ==
    /\ PoolTypes(Buf)
    /\ file \in [Tasks -> Seq(Items)] /\ stream \in [Tasks -> Seq(Items)]
    /\ mem \in [Tasks -> [Idx -> [flag : SUBSET Flags, data : Seq(Items)]]]
    /\ nrBuf \in [Tasks -> 0 .. MaxBuf]
    /\ curr \in [Tasks -> Idx \cup {-1}]
    /\ losts \in [Tasks -> Nat]
    /\ ppc \in [Tasks -> TaskPCs]
    /\ next \in [Tasks -> 1 .. MaxRec + 1]
    /\ blind \in SUBSET Tasks
    /\ pfdOpen \in BOOLEAN
    /\ pipe \in Seq(Msgs)
    /\ listed \in Seq(Buf)
    /\ stop \in {"no", "exited", "finished", "interrupted"}

\* START and END name a buffer of a task.
Proper(m) == m \in Msgs /\ (m.type \in {"START", "END"} => m.tid \in Tasks /\ m.arg \in Idx)
MsgShape ==
    \A k \in 1 .. Len(Chan) : Proper(Chan[k])

\* What the counters of a task are at each point.
Counted ==
    \A t \in Tasks :
        /\ losts[t] <= 2 * (next[t] - 1)
        /\ ppc[t] \in {"new", "start", "lost", "store"} => next[t] <= MaxRec /\ curr[t] # -1
        /\ ppc[t] = "new" \/ ppc[t] = "store" \/ (ppc[t] = "rec" /\ curr[t] # -1) => losts[t] = 0

Phased ==
    /\ stop = "no" <=> ~bufDone
    /\ mpc \in {"remain", "done"} => listed = << >>
    /\ stop = "exited" => \A t \in Tasks : ppc[t] = "gone"
    /\ blind # {} => ~pfdOpen

\* What a writer has written and not given back yet is empty.
Emptying ==
    \A w \in Writers : wpc[w] = "release" =>
        Data(Head(head[w]).tid, Head(head[w]).idx) = << >>

\* In a sequence of items a record follows the one before it or a LOST record.
Marked(s) ==
    \A i \in 1 .. Len(s) : s[i].kind = "rec" =>
        \/ i = 1 /\ s[i].num = 1
        \/ i > 1 /\ s[i - 1] = Rec(s[i].num - 1)
        \/ i > 1 /\ s[i - 1].kind = "lost"

\* The stream has its gaps marked, and ends with the record before the next or with a
\* LOST record unless one is due.
StreamMarked ==
    \A t \in Tasks :
        /\ Marked(stream[t])
        /\ losts[t] = 0 =>
             \/ stream[t] = << >> /\ next[t] = 1
             \/ stream[t] # << >> /\ LET x == stream[t][Len(stream[t])]
                                     IN  x.kind = "lost" \/ x = Rec(next[t] - 1)

RecInv == Types /\ PoolShape /\ MsgShape /\ Counted /\ Phased /\ Emptying /\ StreamMarked /\ Lanes

-----------------------------------------------------------------------------
(* The channel as a sequence of messages. *)

\* It is a sequence: first the buffers of shmem_list_head, then the unread messages.
LEMMA ChannelFacts ==
  ASSUME NEW ls \in Seq(Buf), NEW ms \in Seq(Msgs)
  PROVE  /\ Channel(ls, ms) \in Seq(Msgs)
         /\ Len(ls) \in Nat /\ Len(ms) \in Nat
         /\ Len(Channel(ls, ms)) = Len(ls) + Len(ms)
         /\ \A k \in 1 .. Len(ls) : /\ k \in 1 .. Len(Channel(ls, ms)) /\ ls[k] \in Buf
                                    /\ Channel(ls, ms)[k] = Message("START", ls[k].tid, ls[k].idx)
         /\ \A k \in 1 .. Len(ms) : /\ k + Len(ls) \in 1 .. Len(Channel(ls, ms))
                                    /\ Channel(ls, ms)[k + Len(ls)] = ms[k]
<1>1. Len(ls) \in Nat /\ Len(ms) \in Nat
  BY LenProperties
<1>2. /\ \A k \in 1 .. Len(ls) : ls[k] \in Buf
      /\ \A k \in 1 .. Len(ms) : ms[k] \in Msgs
  BY ElementOfSeq
<1>3. \A b \in Buf : Message("START", b.tid, b.idx) \in Msgs
  <2>1. Idx \subseteq Nat
    BY RecordingAssumption DEF Idx
  <2>. QED
    BY <2>1 DEF Buf, Msgs, Message
<1>. DEFINE p == Len(ls)
            q == Len(ms)
            f == [k \in 1 .. p + q |-> IF k <= p THEN Message("START", ls[k].tid, ls[k].idx)
                                                ELSE ms[k - p]]
<1>4. Channel(ls, ms) = f
  BY DEF Channel
<1>5. p + q \in Nat
  BY <1>1
<1>6. \A k \in 1 .. p + q : f[k] \in Msgs
  <2>. TAKE k \in 1 .. p + q
  <2>1. CASE k <= p
    BY <2>1, <1>1, <1>2, <1>3
  <2>2. CASE ~(k <= p)
    <3>1. k - p \in 1 .. q
      BY <2>2, <1>1
    <3>. QED
      BY <3>1, <2>2, <1>2
  <2>. QED
    BY <2>1, <2>2
<1>7. f \in [1 .. p + q -> Msgs]
  BY <1>6
<1>8. f \in Seq(Msgs) /\ Len(f) = p + q
  BY <1>5, <1>7, SeqDef, LenProperties
<1>. QED
  BY <1>1, <1>2, <1>4, <1>8

\* A message more at the end of the pipe is one more at the end of the channel.
LEMMA ChannelAppend ==
  ASSUME NEW ls \in Seq(Buf), NEW ms \in Seq(Msgs), NEW m \in Msgs
  PROVE  Channel(ls, Append(ms, m)) = Append(Channel(ls, ms), m)
<1>. DEFINE l == Len(ls)
            p == Len(ms)
            c == Channel(ls, ms)
            a == Append(ms, m)
            d == Channel(ls, a)
<1>1. /\ a \in Seq(Msgs) /\ Len(a) = p + 1
      /\ \A k \in 1 .. p : a[k] = ms[k]
      /\ a[p + 1] = m
  BY AppendProperties
<1>2. /\ c \in Seq(Msgs) /\ l \in Nat /\ p \in Nat /\ Len(c) = l + p
      /\ \A k \in 1 .. l : c[k] = Message("START", ls[k].tid, ls[k].idx)
      /\ \A k \in 1 .. p : c[k + l] = ms[k]
  BY ChannelFacts
<1>3. /\ d \in Seq(Msgs) /\ Len(d) = l + (p + 1)
      /\ \A k \in 1 .. l : d[k] = Message("START", ls[k].tid, ls[k].idx)
      /\ \A k \in 1 .. p + 1 : d[k + l] = a[k]
  <2>. HIDE DEF a
  <2>1. /\ d \in Seq(Msgs) /\ Len(d) = Len(ls) + Len(a)
        /\ \A k \in 1 .. Len(ls) : d[k] = Message("START", ls[k].tid, ls[k].idx)
        /\ \A k \in 1 .. Len(a) : d[k + Len(ls)] = a[k]
    BY <1>1, ChannelFacts
  <2>. QED
    BY <2>1, <1>1
<1>4. /\ Append(c, m) \in Seq(Msgs) /\ Len(Append(c, m)) = Len(c) + 1
      /\ \A k \in 1 .. Len(c) : Append(c, m)[k] = c[k]
      /\ Append(c, m)[Len(c) + 1] = m
  BY <1>2, AppendProperties
<1>. HIDE DEF l, p, a, c, d
<1>5. \A k \in 1 .. Len(d) : d[k] = Append(c, m)[k]
  <2>. TAKE k \in 1 .. Len(d)
  <2>1. CASE k <= l
    BY <2>1, <1>2, <1>3, <1>4
  <2>2. CASE k > l /\ k <= l + p
    <3>1. PICK j \in 1 .. p : k = j + l
      <4>. k - l \in 1 .. p /\ k = (k - l) + l
        BY <2>2, <1>2, <1>3
      <4>. QED
        OBVIOUS
    <3>2. d[j + l] = a[j] /\ c[j + l] = ms[j] /\ a[j] = ms[j]
      BY <1>1, <1>2, <1>3
    <3>. QED
      BY <3>1, <3>2, <2>2, <1>2, <1>4
  <2>3. CASE k = l + p + 1
    <3>1. k = (p + 1) + l /\ p + 1 \in 1 .. p + 1 /\ k = Len(c) + 1
      BY <2>3, <1>2, <1>3
    <3>2. d[(p + 1) + l] = a[p + 1]
      BY ONLY <3>1, <1>3
    <3>. QED
      BY <3>1, <3>2, <1>1, <1>4
  <2>. QED
    BY <2>1, <2>2, <2>3, <1>2, <1>3
<1>6. Len(d) = Len(Append(c, m))
  BY <1>2, <1>3, <1>4
<1>7. d = Append(c, m)
  BY <1>3, <1>4, <1>5, <1>6, SeqEqual
<1>. QED
  BY <1>7 DEF a, c, d

\* A message of type y about buffer i of task t
Says(m, y, t, i) == m.type = y /\ m.tid = t /\ m.arg = i

LEMMA SentAppend ==
  ASSUME NEW c \in Seq(Msgs), NEW m \in Msgs, NEW y, NEW t, NEW i
  PROVE  Sent(Append(c, m), y, t, i) <=> Sent(c, y, t, i) \/ Says(m, y, t, i)
<1>. DEFINE d == Append(c, m)
<1>1. /\ Len(d) = Len(c) + 1 /\ Len(c) \in Nat
      /\ \A k \in 1 .. Len(c) : d[k] = c[k]
      /\ d[Len(c) + 1] = m
  BY AppendProperties, LenProperties
<1>. HIDE DEF d
<1>2. \A k : k \in 1 .. Len(d) <=> (k \in 1 .. Len(c) \/ k = Len(c) + 1)
  BY <1>1
<1>3. Sent(d, y, t, i) <=> Sent(c, y, t, i) \/ Says(m, y, t, i)
  BY <1>1, <1>2 DEF Sent, Says
<1>. QED
  BY <1>3 DEF d

\* A message about the buffer started last can follow the others.
LEMMA SortedAppend ==
  ASSUME NEW c \in Seq(Msgs), \A k \in 1 .. Len(c) : Proper(c[k]),
         NEW m \in Msgs, NEW t \in Tasks, NEW n \in Ranks, Sorted(c, t, n),
         m.tid = t => m.type = "LOST" \/ (m.type \in {"START", "END"} /\ m.arg \in Idx),
         \A i \in Idx : m.tid = t /\ m.type \in {"START", "END"} =>
             /\ Sent(c, "START", t, i) => n[i] < n[m.arg] \/ (m.type = "END" /\ i = m.arg)
             /\ Sent(c, "END", t, i) => n[i] < n[m.arg]
  PROVE  Sorted(Append(c, m), t, n)
<1>. DEFINE d == Append(c, m)
<1>1. /\ Len(d) = Len(c) + 1 /\ Len(c) \in Nat
      /\ \A k \in 1 .. Len(c) : d[k] = c[k]
      /\ d[Len(c) + 1] = m
  BY AppendProperties, LenProperties
<1>. HIDE DEF d
<1>2. SUFFICES ASSUME NEW k \in 1 .. Len(d), NEW l \in 1 .. Len(d),
                      About(t, d[k]), About(t, d[l]), k < l
               PROVE  Key(n, d[k]) < Key(n, d[l])
  BY DEF Sorted, d
<1>3. k \in 1 .. Len(c) /\ d[k] = c[k]
  BY <1>1, <1>2
<1>4. CASE l \in 1 .. Len(c)
  BY <1>1, <1>2, <1>3, <1>4 DEF Sorted
<1>5. CASE l = Len(c) + 1
  <2>1. d[l] = m /\ m.tid = t /\ m.type \in {"START", "END"} /\ m.arg \in Idx
    BY <1>1, <1>2, <1>5 DEF About
  <2>2. c[k].arg \in Idx /\ c[k].tid = t /\ c[k].type \in {"START", "END"}
    BY <1>2, <1>3 DEF About, Proper
  <2>3. n[c[k].arg] \in Nat /\ n[m.arg] \in Nat
    BY <2>1, <2>2 DEF Ranks
  <2>4. c[k].type = "START" => Sent(c, "START", t, c[k].arg)
    BY <1>3, <2>2 DEF Sent
  <2>5. c[k].type = "END" => Sent(c, "END", t, c[k].arg)
    BY <1>3, <2>2 DEF Sent
  <2>8. \/ m.type = "START" /\ Key(n, m) = 2 * n[m.arg] + 0
        \/ m.type = "END" /\ Key(n, m) = 2 * n[m.arg] + 1
    BY <2>1 DEF Key
  <2>6. CASE c[k].type = "START"
    <3>1. n[c[k].arg] < n[m.arg] \/ (m.type = "END" /\ c[k].arg = m.arg)
      BY <2>1, <2>2, <2>4, <2>6
    <3>2. Key(n, c[k]) = 2 * n[c[k].arg] + 0
      BY <2>6 DEF Key
    <3>. QED
      BY <3>1, <3>2, <2>1, <2>3, <2>8, <1>3
  <2>7. CASE c[k].type = "END"
    <3>1. n[c[k].arg] < n[m.arg]
      BY <2>1, <2>2, <2>5, <2>7
    <3>2. Key(n, c[k]) = 2 * n[c[k].arg] + 1
      BY <2>7 DEF Key
    <3>. QED
      BY <3>1, <3>2, <2>1, <2>3, <2>8, <1>3
  <2>. QED
    BY <2>2, <2>6, <2>7
<1>. QED
  BY <1>1, <1>4, <1>5

\* d is c without its message at place p.
Cut(c, d, p) ==
    /\ p \in 1 .. Len(c) /\ Len(d) = Len(c) - 1
    /\ \A k \in 1 .. Len(d) : d[k] = IF k < p THEN c[k] ELSE c[k + 1]

LEMMA CutFacts ==
  ASSUME NEW c \in Seq(Msgs), NEW d \in Seq(Msgs), NEW p, Cut(c, d, p)
  PROVE  /\ \A t, n : Sorted(c, t, n) => Sorted(d, t, n)
         /\ \A y, t, i : Sent(d, y, t, i) <=> \E k \in 1 .. Len(c) : k # p /\ Says(c[k], y, t, i)
         /\ (\A k \in 1 .. Len(c) : Proper(c[k])) => \A k \in 1 .. Len(d) : Proper(d[k])
<1>1. /\ Len(c) \in Nat /\ Len(d) \in Nat /\ p \in 1 .. Len(c) /\ Len(d) = Len(c) - 1
  BY LenProperties DEF Cut
<1>. DEFINE h(k) == IF k < p THEN k ELSE k + 1
<1>2. \A k \in 1 .. Len(d) : h(k) \in 1 .. Len(c) /\ h(k) # p /\ d[k] = c[h(k)]
  BY <1>1 DEF Cut
<1>3. \A k, l \in 1 .. Len(d) : k < l => h(k) < h(l)
  BY <1>1
<1>4. \A j \in 1 .. Len(c) : j # p => \E k \in 1 .. Len(d) : h(k) = j
  <2>. TAKE j \in 1 .. Len(c)
  <2>. HAVE j # p
  <2>1. CASE j < p
    <3>1. j \in 1 .. Len(d) /\ h(j) = j
      BY <2>1, <1>1
    <3>. QED
      BY <3>1
  <2>2. CASE j > p
    <3>1. j - 1 \in 1 .. Len(d) /\ h(j - 1) = j
      BY <2>2, <1>1
    <3>. QED
      BY <3>1
  <2>. QED
    BY <2>1, <2>2, <1>1
<1>. HIDE DEF h
<1>5. ASSUME NEW t, NEW n, Sorted(c, t, n)
      PROVE  Sorted(d, t, n)
  <2>. SUFFICES ASSUME NEW k \in 1 .. Len(d), NEW l \in 1 .. Len(d),
                       About(t, d[k]), About(t, d[l]), k < l
                PROVE  Key(n, d[k]) < Key(n, d[l])
    BY DEF Sorted
  <2>1. /\ h(k) \in 1 .. Len(c) /\ h(l) \in 1 .. Len(c) /\ h(k) < h(l)
        /\ d[k] = c[h(k)] /\ d[l] = c[h(l)]
    BY <1>2, <1>3
  <2>. QED
    BY <2>1, <1>5 DEF Sorted
<1>6. ASSUME NEW y, NEW t, NEW i
      PROVE  Sent(d, y, t, i) <=> \E k \in 1 .. Len(c) : k # p /\ Says(c[k], y, t, i)
  <2>1. ASSUME NEW k \in 1 .. Len(d), Says(d[k], y, t, i)
        PROVE  \E j \in 1 .. Len(c) : j # p /\ Says(c[j], y, t, i)
    BY <2>1, <1>2
  <2>2. ASSUME NEW j \in 1 .. Len(c), j # p, Says(c[j], y, t, i)
        PROVE  \E k \in 1 .. Len(d) : Says(d[k], y, t, i)
    <3>1. PICK k \in 1 .. Len(d) : h(k) = j
      BY <2>2, <1>4
    <3>. QED
      BY <3>1, <2>2, <1>2
  <2>. QED
    BY <2>1, <2>2 DEF Sent, Says
<1>. QED
  BY <1>2, <1>5, <1>6

\* Reading a message cuts it out of the channel, ...
LEMMA CutMessage ==
  ASSUME NEW ls \in Seq(Buf), NEW ms \in Seq(Msgs), ms # << >>
  PROVE  /\ Cut(Channel(ls, ms), Channel(ls, Tail(ms)), Len(ls) + 1)
         /\ Channel(ls, ms)[Len(ls) + 1] = Head(ms)
<1>. DEFINE r == Tail(ms)
            c == Channel(ls, ms)
            d == Channel(ls, r)
            l == Len(ls)
            p == Len(ms)
<1>1. /\ Head(ms) = ms[1] /\ r \in Seq(Msgs) /\ p \in Nat \ {0} /\ Len(r) = p - 1
      /\ \A i \in 1 .. p - 1 : r[i] = ms[i + 1]
  BY TailFacts
<1>2. /\ l \in Nat /\ Len(c) = l + p
      /\ \A k \in 1 .. l : c[k] = Message("START", ls[k].tid, ls[k].idx)
      /\ \A k \in 1 .. p : c[k + l] = ms[k]
  BY ChannelFacts
<1>3. /\ Len(d) = l + Len(r)
      /\ \A k \in 1 .. l : d[k] = Message("START", ls[k].tid, ls[k].idx)
      /\ \A k \in 1 .. Len(r) : d[k + l] = r[k]
  <2>. HIDE DEF r
  <2>. QED
    BY <1>1, ChannelFacts
<1>. HIDE DEF r, c, d, l, p
<1>4. \A k \in 1 .. Len(d) : d[k] = IF k < l + 1 THEN c[k] ELSE c[k + 1]
  <2>. TAKE k \in 1 .. Len(d)
  <2>1. CASE k <= l
    <3>1. k \in 1 .. l /\ k < l + 1
      BY <2>1, <1>1, <1>2, <1>3
    <3>. QED
      BY <3>1, <1>2, <1>3
  <2>2. CASE k > l
    <3>1. PICK j \in 1 .. p - 1 : k = j + l
      <4>. k - l \in 1 .. p - 1 /\ k = (k - l) + l
        BY <2>2, <1>1, <1>2, <1>3
      <4>. QED
        OBVIOUS
    <3>2. d[j + l] = r[j] /\ r[j] = ms[j + 1]
      BY <1>1, <1>3
    <3>3. c[(j + 1) + l] = ms[j + 1] /\ (j + 1) + l = k + 1
      BY <3>1, <1>1, <1>2
    <3>. QED
      BY <3>1, <3>2, <3>3, <2>2, <1>2
  <2>. QED
    BY <2>1, <2>2, <1>2, <1>3, <1>1
<1>5. Len(d) = Len(c) - 1 /\ l + 1 \in 1 .. Len(c)
  BY <1>1, <1>2, <1>3
<1>6. c[l + 1] = ms[1]
  <2>1. 1 \in 1 .. p /\ 1 + l = l + 1
    BY <1>1, <1>2
  <2>2. c[1 + l] = ms[1]
    BY <2>1, <1>2
  <2>. QED
    BY <2>1, <2>2
<1>. QED
  BY <1>1, <1>4, <1>5, <1>6 DEF Cut, c, d, l, r

\* ... and taking a buffer out of shmem_list_head cuts its START.
LEMMA CutListed ==
  ASSUME NEW ls \in Seq(Buf), NEW ms \in Seq(Msgs), NEW rs \in Seq(Buf), NEW p,
         Cut(ls, rs, p)
  PROVE  Cut(Channel(ls, ms), Channel(rs, ms), p)
<1>. DEFINE c == Channel(ls, ms)
            d == Channel(rs, ms)
            l == Len(ls)
            q == Len(ms)
<1>1. /\ l \in Nat /\ q \in Nat /\ Len(c) = l + q
      /\ \A k \in 1 .. l : c[k] = Message("START", ls[k].tid, ls[k].idx)
      /\ \A k \in 1 .. q : c[k + l] = ms[k]
  BY ChannelFacts
<1>2. /\ Len(d) = Len(rs) + q
      /\ \A k \in 1 .. Len(rs) : d[k] = Message("START", rs[k].tid, rs[k].idx)
      /\ \A k \in 1 .. q : d[k + Len(rs)] = ms[k]
  BY ChannelFacts
<1>3. /\ p \in 1 .. l /\ Len(rs) = l - 1
      /\ \A k \in 1 .. Len(rs) : rs[k] = IF k < p THEN ls[k] ELSE ls[k + 1]
  BY DEF Cut
<1>. HIDE DEF c, d, l, q
<1>4. \A k \in 1 .. Len(d) : d[k] = IF k < p THEN c[k] ELSE c[k + 1]
  <2>. TAKE k \in 1 .. Len(d)
  <2>1. CASE k < p
    <3>1. k \in 1 .. l /\ k \in 1 .. Len(rs)
      BY <2>1, <1>1, <1>2, <1>3
    <3>. QED
      BY <3>1, <2>1, <1>1, <1>2, <1>3
  <2>2. CASE k >= p /\ k <= l - 1
    <3>1. k + 1 \in 1 .. l /\ k \in 1 .. Len(rs) /\ ~(k < p)
      BY <2>2, <1>1, <1>2, <1>3
    <3>2. rs[k] = ls[k + 1]
      BY <3>1, <1>3
    <3>. QED
      BY <3>1, <3>2, <1>1, <1>2
  <2>3. CASE k > l - 1
    <3>1. PICK j \in 1 .. q : k = j + (l - 1)
      <4>. k - (l - 1) \in 1 .. q /\ k = (k - (l - 1)) + (l - 1)
        BY <2>3, <1>1, <1>2, <1>3
      <4>. QED
        OBVIOUS
    <3>2. d[j + Len(rs)] = ms[j] /\ c[j + l] = ms[j]
      BY <1>1, <1>2
    <3>3. k = j + Len(rs) /\ j + l = k + 1 /\ ~(k < p)
      BY <3>1, <2>3, <1>1, <1>3
    <3>. QED
      BY <3>2, <3>3
  <2>. QED
    BY <2>1, <2>2, <2>3, <1>1, <1>2, <1>3
<1>5. p \in 1 .. Len(c) /\ Len(d) = Len(c) - 1
  BY <1>1, <1>2, <1>3
<1>. QED
  BY <1>4, <1>5 DEF Cut, c, d

\* A START that is read moves to the list, the channel stays as it is.
LEMMA ReadStart ==
  ASSUME NEW ls \in Seq(Buf), NEW ms \in Seq(Msgs), ms # << >>, NEW b \in Buf,
         Head(ms) = Message("START", b.tid, b.idx)
  PROVE  Channel(Append(ls, b), Tail(ms)) = Channel(ls, ms)
<1>. DEFINE r == Tail(ms)
            a == Append(ls, b)
            c == Channel(ls, ms)
            d == Channel(a, r)
            l == Len(ls)
            p == Len(ms)
<1>1. /\ Head(ms) = ms[1] /\ r \in Seq(Msgs) /\ p \in Nat \ {0} /\ Len(r) = p - 1
      /\ \A i \in 1 .. p - 1 : r[i] = ms[i + 1]
  BY TailFacts
<1>2. /\ a \in Seq(Buf) /\ Len(a) = l + 1
      /\ \A k \in 1 .. l : a[k] = ls[k]
      /\ a[l + 1] = b
  BY AppendProperties
<1>3. /\ c \in Seq(Msgs) /\ l \in Nat /\ Len(c) = l + p
      /\ \A k \in 1 .. l : c[k] = Message("START", ls[k].tid, ls[k].idx)
      /\ \A k \in 1 .. p : c[k + l] = ms[k]
  BY ChannelFacts
<1>4. /\ d \in Seq(Msgs) /\ Len(d) = Len(a) + Len(r)
      /\ \A k \in 1 .. Len(a) : d[k] = Message("START", a[k].tid, a[k].idx)
      /\ \A k \in 1 .. Len(r) : d[k + Len(a)] = r[k]
  <2>. HIDE DEF r, a
  <2>. QED
    BY <1>1, <1>2, ChannelFacts
<1>5. Head(ms) = Message("START", b.tid, b.idx)
  OBVIOUS
<1>. HIDE DEF r, a, c, d, l, p
<1>6. \A k \in 1 .. Len(d) : d[k] = c[k]
  <2>. TAKE k \in 1 .. Len(d)
  <2>1. CASE k <= l
    <3>1. k \in 1 .. l /\ k \in 1 .. Len(a)
      BY <2>1, <1>1, <1>2, <1>3, <1>4
    <3>. QED
      BY <3>1, <1>2, <1>3, <1>4
  <2>2. CASE k = l + 1
    <3>1. k \in 1 .. Len(a) /\ d[k] = ms[1]
      BY <2>2, <1>1, <1>2, <1>3, <1>4, <1>5
    <3>2. 1 \in 1 .. p /\ 1 + l = k
      BY <2>2, <1>1, <1>3
    <3>3. c[1 + l] = ms[1]
      BY <3>2, <1>3
    <3>. QED
      BY <3>1, <3>2, <3>3
  <2>3. CASE k > l + 1
    <3>1. PICK j \in 1 .. p - 1 : k = j + (l + 1)
      <4>. k - (l + 1) \in 1 .. p - 1 /\ k = (k - (l + 1)) + (l + 1)
        BY <2>3, <1>1, <1>2, <1>3, <1>4
      <4>. QED
        OBVIOUS
    <3>2. d[j + Len(a)] = r[j] /\ r[j] = ms[j + 1]
      BY <1>1, <1>4
    <3>3. c[(j + 1) + l] = ms[j + 1] /\ (j + 1) + l = k /\ k = j + Len(a)
      BY <3>1, <1>1, <1>2, <1>3
    <3>. QED
      BY <3>2, <3>3
  <2>. QED
    BY <2>1, <2>2, <2>3, <1>1, <1>2, <1>3, <1>4
<1>7. Len(d) = Len(c)
  BY <1>1, <1>2, <1>3, <1>4
<1>8. d = c
  BY <1>3, <1>4, <1>6, <1>7, SeqEqual
<1>. QED
  BY <1>8 DEF c, d, a, r

\* An entry that is in the list once is taken out.
LEMMA TakeOut ==
  ASSUME NEW ls \in Seq(Buf), NEW p \in 1 .. Len(ls),
         \A k \in 1 .. Len(ls) : ls[k] = ls[p] => k = p
  PROVE  WithoutFirst(ls, ls[p]) \in Seq(Buf) /\ Cut(ls, WithoutFirst(ls, ls[p]), p)
<1>. DEFINE e == ls[p]
            r == SubSeq(ls, 1, p - 1)
            s == SubSeq(ls, p + 1, Len(ls))
<1>1. Len(ls) \in Nat /\ p \in Nat /\ \A k \in 1 .. Len(ls) : ls[k] \in Buf
  BY LenProperties, ElementOfSeq
<1>2. \A k \in 1 .. Len(ls) : (ls[k] = e /\ \A j \in 1 .. k - 1 : ls[j] # e) <=> k = p
  BY <1>1
<1>3. p = CHOOSE k \in 1 .. Len(ls) : ls[k] = e /\ \A j \in 1 .. k - 1 : ls[j] # e
  BY <1>2
<1>4. WithoutFirst(ls, e) = r \o s
  BY <1>3 DEF WithoutFirst
<1>5. /\ r \in Seq(Buf) /\ Len(r) = p - 1
      /\ \A k \in 1 .. p - 1 : r[k] = ls[k]
  <2>1. /\ 1 \in Int /\ p - 1 \in Int /\ \A k \in 1 .. p - 1 : ls[k] \in Buf
    BY <1>1
  <2>2. /\ r \in Seq(Buf) /\ Len(r) = IF 1 <= p - 1 THEN (p - 1) - 1 + 1 ELSE 0
        /\ \A k \in 1 .. (p - 1) - 1 + 1 : r[k] = ls[1 + k - 1]
    BY <2>1, SubSeqProperties
  <2>. HIDE DEF r
  <2>. QED
    BY <2>2, <1>1
<1>6. /\ s \in Seq(Buf) /\ Len(s) = Len(ls) - p
      /\ \A k \in 1 .. Len(ls) - p : s[k] = ls[p + k]
  <2>1. /\ p + 1 \in Int /\ Len(ls) \in Int /\ \A k \in p + 1 .. Len(ls) : ls[k] \in Buf
    BY <1>1
  <2>2. /\ s \in Seq(Buf) /\ Len(s) = IF p + 1 <= Len(ls) THEN Len(ls) - (p + 1) + 1 ELSE 0
        /\ \A k \in 1 .. Len(ls) - (p + 1) + 1 : s[k] = ls[(p + 1) + k - 1]
    BY <2>1, SubSeqProperties
  <2>. HIDE DEF s
  <2>3. \A k \in 1 .. Len(ls) - p : (p + 1) + k - 1 = p + k
    BY <1>1
  <2>. QED
    BY <2>2, <2>3, <1>1
<1>. HIDE DEF e, r, s
<1>7. /\ r \o s \in Seq(Buf) /\ Len(r \o s) = Len(r) + Len(s)
      /\ \A k \in 1 .. Len(r) + Len(s) : (r \o s)[k] = IF k <= Len(r) THEN r[k] ELSE s[k - Len(r)]
  BY <1>5, <1>6, ConcatProperties
<1>8. \A k \in 1 .. Len(r \o s) : (r \o s)[k] = IF k < p THEN ls[k] ELSE ls[k + 1]
  <2>. TAKE k \in 1 .. Len(r \o s)
  <2>1. CASE k < p
    <3>1. k \in 1 .. p - 1 /\ k <= Len(r)
      BY <2>1, <1>1, <1>5, <1>6, <1>7
    <3>. QED
      BY <3>1, <2>1, <1>5, <1>7
  <2>2. CASE ~(k < p)
    <3>1. ~(k <= Len(r)) /\ k - Len(r) \in 1 .. Len(ls) - p /\ p + (k - Len(r)) = k + 1
      BY <2>2, <1>1, <1>5, <1>6, <1>7
    <3>. QED
      BY <3>1, <2>2, <1>6, <1>7
  <2>. QED
    BY <2>1, <2>2
<1>9. Len(r \o s) = Len(ls) - 1
  BY <1>1, <1>5, <1>6, <1>7
<1>. QED
  BY <1>4, <1>7, <1>8, <1>9 DEF Cut, e

-----------------------------------------------------------------------------
(* The channel along the steps. *)

LEMMA ChanFacts ==
  ASSUME Types
  PROVE  /\ listed \in Seq(Buf) /\ Unread \in Seq(Msgs) /\ Chan \in Seq(Msgs)
         /\ Len(listed) \in Nat /\ Len(Chan) \in Nat /\ Len(listed) <= Len(Chan)
         /\ Len(Chan) = Len(listed) + Len(Unread)
         /\ stop = "no" => Unread = pipe
         /\ stop # "no" => Unread = << >> /\ Len(Chan) = Len(listed)
         /\ \A k \in 1 .. Len(listed) :
               listed[k] \in Buf /\ k \in 1 .. Len(Chan)
               /\ Chan[k] = Message("START", listed[k].tid, listed[k].idx)
<1>1. listed \in Seq(Buf) /\ pipe \in Seq(Msgs)
  BY DEF Types
<1>2. << >> \in Seq(Msgs) /\ Len(<< >>) = 0
  BY EmptySeq
<1>3. Unread \in Seq(Msgs)
  BY <1>1, <1>2 DEF Unread
<1>4. /\ Chan \in Seq(Msgs) /\ Len(listed) \in Nat /\ Len(Unread) \in Nat
      /\ Len(Chan) = Len(listed) + Len(Unread)
      /\ \A k \in 1 .. Len(listed) : /\ k \in 1 .. Len(Chan) /\ listed[k] \in Buf
                                     /\ Chan[k] = Message("START", listed[k].tid, listed[k].idx)
  BY <1>1, <1>3, ChannelFacts DEF Chan
<1>5. stop = "no" => Unread = pipe
  BY DEF Unread
<1>6. stop # "no" => Unread = << >>
  BY DEF Unread
<1>. QED
  BY <1>1, <1>2, <1>3, <1>4, <1>5, <1>6

\* A buffer is started and ended at most once in the channel.
LEMMA OneMessage ==
  ASSUME NEW c \in Seq(Msgs), NEW t \in Tasks, NEW i \in Idx, NEW n \in Ranks, Sorted(c, t, n),
         NEW y \in {"START", "END"},
         NEW k \in 1 .. Len(c), NEW l \in 1 .. Len(c),
         Says(c[k], y, t, i), Says(c[l], y, t, i)
  PROVE  k = l
<1>1. n[i] \in Nat
  BY DEF Ranks
<1>2. About(t, c[k]) /\ About(t, c[l])
  BY DEF Says, About
<1>3. Key(n, c[k]) = Key(n, c[l]) /\ Key(n, c[k]) \in Nat
  BY <1>1 DEF Says, Key
<1>4. Len(c) \in Nat
  BY LenProperties
<1>5. k < l => Key(n, c[k]) < Key(n, c[l])
  BY <1>2 DEF Sorted
<1>6. l < k => Key(n, c[l]) < Key(n, c[k])
  BY <1>2 DEF Sorted
<1>. QED
  BY <1>3, <1>4, <1>5, <1>6

\* The ranks of two messages tell their order in the channel.
LEMMA KeyOrder ==
  ASSUME Types, MsgShape, NEW t \in Tasks, NEW n \in Ranks, ChanSorted(t, n),
         NEW k \in 1 .. Len(Chan), NEW l \in 1 .. Len(Chan), k < l,
         NEW i \in Idx, NEW j \in Idx
  PROVE  /\ Says(Chan[k], "START", t, i) /\ Says(Chan[l], "START", t, j) => n[i] < n[j]
         /\ Says(Chan[k], "START", t, i) /\ Says(Chan[l], "END", t, j) => n[i] <= n[j]
         /\ Says(Chan[k], "END", t, i) /\ Says(Chan[l], "START", t, j) => n[i] < n[j]
         /\ Says(Chan[k], "END", t, i) /\ Says(Chan[l], "END", t, j) => n[i] < n[j]
<1>1. n[i] \in Nat /\ n[j] \in Nat
  BY DEF Ranks
<1>2. ASSUME NEW m, NEW b \in Idx
      PROVE  /\ Says(m, "START", t, b) => About(t, m) /\ Key(n, m) = 2 * n[b] + 0
             /\ Says(m, "END", t, b) => About(t, m) /\ Key(n, m) = 2 * n[b] + 1
  BY DEF Says, About, Key
<1>3. About(t, Chan[k]) /\ About(t, Chan[l]) => Key(n, Chan[k]) < Key(n, Chan[l])
  BY DEF ChanSorted, Sorted
<1>4. /\ Says(Chan[k], "START", t, i) => About(t, Chan[k]) /\ Key(n, Chan[k]) = 2 * n[i] + 0
      /\ Says(Chan[k], "END", t, i) => About(t, Chan[k]) /\ Key(n, Chan[k]) = 2 * n[i] + 1
      /\ Says(Chan[l], "START", t, j) => About(t, Chan[l]) /\ Key(n, Chan[l]) = 2 * n[j] + 0
      /\ Says(Chan[l], "END", t, j) => About(t, Chan[l]) /\ Key(n, Chan[l]) = 2 * n[j] + 1
  BY <1>2
<1>. QED
  BY <1>1, <1>3, <1>4

LEMMA StartedAt ==
  ASSUME Types, NEW t, NEW i
  PROVE  /\ Started(t, i) <=> \E k \in 1 .. Len(Chan) : Says(Chan[k], "START", t, i)
         /\ Ended(t, i) <=> \E k \in 1 .. Len(Chan) : Says(Chan[k], "END", t, i)
         /\ \A k \in 1 .. Len(listed) : listed[k].tid = t /\ listed[k].idx = i =>
                Says(Chan[k], "START", t, i) /\ k \in 1 .. Len(Chan) /\ Started(t, i)
         /\ \A k \in 1 .. Len(listed) : Says(Chan[k], "START", t, i) =>
                listed[k].tid = t /\ listed[k].idx = i
         /\ \A k \in 1 .. Len(listed) : ~Says(Chan[k], "END", t, i)
<1>1. \A k \in 1 .. Len(listed) : /\ k \in 1 .. Len(Chan)
                                  /\ Chan[k] = Message("START", listed[k].tid, listed[k].idx)
  BY ChanFacts
<1>2. \A k \in 1 .. Len(listed) :
        /\ k \in 1 .. Len(Chan) /\ Chan[k].type = "START"
        /\ Chan[k].tid = listed[k].tid /\ Chan[k].arg = listed[k].idx
  <2>1. \A u, j : LET m == Message("START", u, j)
                  IN  m.type = "START" /\ m.tid = u /\ m.arg = j
    BY DEF Message
  <2>. TAKE k \in 1 .. Len(listed)
  <2>2. k \in 1 .. Len(Chan) /\ Chan[k] = Message("START", listed[k].tid, listed[k].idx)
    BY <1>1
  <2>. QED
    BY <2>1, <2>2
<1>3. /\ Started(t, i) <=> \E k \in 1 .. Len(Chan) : Says(Chan[k], "START", t, i)
      /\ Ended(t, i) <=> \E k \in 1 .. Len(Chan) : Says(Chan[k], "END", t, i)
  BY DEF Started, Ended, Sent, Says
<1>4. /\ \A k \in 1 .. Len(listed) : listed[k].tid = t /\ listed[k].idx = i =>
                Says(Chan[k], "START", t, i) /\ k \in 1 .. Len(Chan)
      /\ \A k \in 1 .. Len(listed) : Says(Chan[k], "START", t, i) =>
                listed[k].tid = t /\ listed[k].idx = i
      /\ \A k \in 1 .. Len(listed) : ~Says(Chan[k], "END", t, i)
  BY <1>2 DEF Says
<1>. QED
  BY <1>3, <1>4

\* A task has at most one buffer in shmem_list_head: an END would be between the STARTs.
LEMMA ListedAlone ==
  ASSUME Types, MsgShape, NEW t \in Tasks, NEW n \in Ranks, ChanSorted(t, n), Paired(t, n),
         NEW k \in 1 .. Len(listed), NEW l \in 1 .. Len(listed),
         listed[k].tid = t, listed[l].tid = t
  PROVE  k = l
<1>1. ASSUME NEW a \in 1 .. Len(listed), NEW b \in 1 .. Len(listed), a < b,
             listed[a].tid = t, listed[b].tid = t
      PROVE  FALSE
  <2>1. PICK i \in Idx, j \in Idx : listed[a].idx = i /\ listed[b].idx = j
    BY ChanFacts DEF Buf
  <2>a. Says(Chan[a], "START", t, i) /\ a \in 1 .. Len(Chan) /\ Started(t, i)
    BY <1>1, <2>1, StartedAt
  <2>b. Says(Chan[b], "START", t, j) /\ b \in 1 .. Len(Chan) /\ Started(t, j)
    BY <1>1, <2>1, StartedAt
  <2>2. /\ Says(Chan[a], "START", t, i) /\ a \in 1 .. Len(Chan) /\ Started(t, i)
        /\ Says(Chan[b], "START", t, j) /\ b \in 1 .. Len(Chan) /\ Started(t, j)
    BY <2>a, <2>b
  <2>3. n[i] < n[j]
    BY <1>1, <2>2, KeyOrder
  <2>4. Ended(t, i)
    BY <2>2, <2>3 DEF Paired
  <2>5. PICK q \in 1 .. Len(Chan) : Says(Chan[q], "END", t, i)
    BY <2>4, StartedAt
  <2>6. q \notin 1 .. Len(listed)
    BY <2>5, StartedAt
  <2>7. b < q
    BY <2>6, ChanFacts
  <2>8. n[j] <= n[i]
    BY <2>2, <2>5, <2>7, KeyOrder
  <2>9. n[i] \in Nat /\ n[j] \in Nat
    BY DEF Ranks
  <2>. QED
    BY <2>3, <2>8, <2>9
<1>2. Len(listed) \in Nat
  BY ChanFacts
<1>3. ~(k < l) /\ ~(l < k)
  BY <1>1
<1>. QED
  BY <1>2, <1>3

\* The message read next cuts itself out of the channel.
LEMMA ReadCut ==
  ASSUME Types, Types', stop = "no", stop' = stop, pipe # << >>, pipe' = Tail(pipe),
         listed' = listed
  PROVE  Cut(Chan, Chan', Len(listed) + 1) /\ Chan[Len(listed) + 1] = Head(pipe)
<1>1. listed \in Seq(Buf) /\ pipe \in Seq(Msgs)
  BY DEF Types
<1>2. Unread = pipe /\ Unread' = Tail(pipe)
  BY DEF Unread
<1>. QED
  BY <1>1, <1>2, CutMessage DEF Chan

\* The channel of buffer i of t gets rid of its START, and of its END if there is one.
HandedOver(t, i) ==
    /\ \A u, j : Started(u, j)' <=> Started(u, j) /\ ~(u = t /\ j = i)
    /\ \A u, j : Ended(u, j)' <=> Ended(u, j) /\ ~(u = t /\ j = i)
    /\ \A u \in Tasks, m \in Ranks : ChanSorted(u, m) => ChanSorted(u, m)'
    /\ MsgShape'

\* The only message of its kind about a buffer is cut out of the channel.
LEMMA CutOne ==
  ASSUME NEW c \in Seq(Msgs), NEW d \in Seq(Msgs), NEW p \in 1 .. Len(c), Cut(c, d, p),
         NEW t \in Tasks, NEW i \in Idx, NEW n \in Ranks, Sorted(c, t, n),
         NEW y \in {"START", "END"}, Says(c[p], y, t, i)
  PROVE  /\ \A u, j : Sent(d, y, u, j) <=> Sent(c, y, u, j) /\ ~(u = t /\ j = i)
         /\ \A z, u, j : z # y => (Sent(d, z, u, j) <=> Sent(c, z, u, j))
<1>1. \A z, u, j : Sent(d, z, u, j) <=> \E k \in 1 .. Len(c) : k # p /\ Says(c[k], z, u, j)
  BY CutFacts
<1>2. \A z, u, j : Sent(c, z, u, j) <=> \E k \in 1 .. Len(c) : Says(c[k], z, u, j)
  BY DEF Sent, Says
<1>3. \A k \in 1 .. Len(c) : Says(c[k], y, t, i) => k = p
  BY OneMessage
<1>4. \A z, u, j : Says(c[p], z, u, j) => z = y /\ u = t /\ j = i
  BY DEF Says
<1>. QED
  BY <1>1, <1>2, <1>3, <1>4

\* END is read: the buffer has been the one of the task in shmem_list_head, and it is the
\* first the task started of those in the channel.
LEMMA ReadEndChan ==
  ASSUME Types, MsgShape, NEW t \in Tasks, NEW i \in Idx,
         NEW n \in Ranks, ChanSorted(t, n), Paired(t, n),
         stop = "no", stop' = stop, pipe # << >>, Says(Head(pipe), "END", t, i),
         pipe' = Tail(pipe), listed' = WithoutFirst(listed, [tid |-> t, idx |-> i])
  PROVE  /\ HandedOver(t, i) /\ Started(t, i) /\ listed' \in Seq(Buf)
         /\ \A j \in Idx : Started(t, j) /\ j # i => n[i] < n[j]
<1>. DEFINE q == Len(listed) + 1
            mid == Channel(listed, Tail(pipe))
<1>1. listed \in Seq(Buf) /\ pipe \in Seq(Msgs) /\ Unread = pipe /\ Chan = Channel(listed, pipe)
  BY DEF Types, Chan, Unread
<1>2. Tail(pipe) \in Seq(Msgs)
  BY <1>1, TailFacts
<1>3. Cut(Chan, mid, q) /\ Chan[q] = Head(pipe)
  BY <1>1, CutMessage
<1>4. Chan \in Seq(Msgs) /\ Len(listed) \in Nat /\ Len(Chan) \in Nat
  BY ChanFacts
<1>5. mid \in Seq(Msgs)
  BY <1>1, <1>2, ChannelFacts
<1>6. q \in 1 .. Len(Chan) /\ Says(Chan[q], "END", t, i)
  BY <1>3 DEF Cut
<1>. HIDE DEF mid
<1>7. Sorted(Chan, t, n)
  BY DEF ChanSorted
<1>8. Started(t, i)
  <2>1. Ended(t, i)
    BY <1>6, StartedAt
  <2>. QED
    BY <2>1 DEF Paired
<1>9. PICK p \in 1 .. Len(Chan) : Says(Chan[p], "START", t, i)
  BY <1>8, StartedAt
<1>10. n[i] \in Nat
  BY DEF Ranks
<1>11. p # q
  BY <1>6, <1>9 DEF Says
<1>12. ~(q < p)
  <2>1. q < p => n[i] < n[i]
    BY <1>6, <1>9, KeyOrder
  <2>. QED
    BY <2>1, <1>10
<1>13. p \in 1 .. Len(listed)
  BY <1>4, <1>11, <1>12
<1>14. listed[p] = [tid |-> t, idx |-> i]
  <2>1. listed[p].tid = t /\ listed[p].idx = i
    BY <1>9, <1>13, StartedAt
  <2>2. listed[p] \in [tid : Tasks, idx : Idx]
    BY <1>13, ChanFacts DEF Buf
  <2>. QED
    BY <2>1, <2>2
<1>15. \A k \in 1 .. Len(listed) : listed[k] = listed[p] => k = p
  <2>1. listed[p].tid = t
    BY <1>14
  <2>. QED
    BY <2>1, <1>13, ListedAlone
<1>16. listed' \in Seq(Buf) /\ Cut(listed, listed', p)
  BY <1>1, <1>13, <1>14, <1>15, TakeOut
<1>17. Chan' = Channel(listed', Tail(pipe))
  BY DEF Chan, Unread
<1>18. Cut(mid, Chan', p)
  BY <1>1, <1>2, <1>16, <1>17, CutListed DEF mid
<1>19. Chan' \in Seq(Msgs)
  BY <1>2, <1>16, <1>17, ChannelFacts
<1>20. Sorted(mid, t, n)
  BY <1>3, <1>4, <1>5, <1>7, CutFacts
<1>21. p \in 1 .. Len(mid) /\ mid[p] = Chan[p]
  <2>1. p \in 1 .. Len(mid)
    BY <1>18 DEF Cut
  <2>. QED
    BY <2>1, <1>3, <1>4, <1>13 DEF Cut
<1>22. /\ \A u, j : Sent(mid, "END", u, j) <=> Ended(u, j) /\ ~(u = t /\ j = i)
       /\ \A u, j : Sent(mid, "START", u, j) <=> Started(u, j)
  BY <1>3, <1>4, <1>5, <1>6, <1>7, CutOne DEF Ended, Started
<1>23. Says(mid[p], "START", t, i)
  BY <1>9, <1>21
<1>24. /\ \A u, j : Sent(Chan', "START", u, j) <=> Sent(mid, "START", u, j) /\ ~(u = t /\ j = i)
       /\ \A u, j : Sent(Chan', "END", u, j) <=> Sent(mid, "END", u, j)
  BY <1>5, <1>18, <1>19, <1>20, <1>21, <1>23, CutOne
<1>25. /\ \A u, j : Started(u, j)' <=> Started(u, j) /\ ~(u = t /\ j = i)
       /\ \A u, j : Ended(u, j)' <=> Ended(u, j) /\ ~(u = t /\ j = i)
  BY <1>22, <1>24 DEF Started, Ended
<1>26. \A u, m : ChanSorted(u, m) => ChanSorted(u, m)'
  <2>1. \A u, m : Sorted(Chan, u, m) => Sorted(mid, u, m)
    BY <1>3, <1>4, <1>5, CutFacts
  <2>2. \A u, m : Sorted(mid, u, m) => Sorted(Chan', u, m)
    BY <1>5, <1>18, <1>19, CutFacts
  <2>. QED
    BY <2>1, <2>2 DEF ChanSorted
<1>27. MsgShape'
  <2>1. \A k \in 1 .. Len(mid) : Proper(mid[k])
    BY <1>3, <1>4, <1>5, CutFacts DEF MsgShape
  <2>2. \A k \in 1 .. Len(Chan') : Proper(Chan'[k])
    BY <2>1, <1>5, <1>18, <1>19, CutFacts
  <2>. QED
    BY <2>2 DEF MsgShape
<1>28. ASSUME NEW j \in Idx, Started(t, j), j # i
       PROVE  n[i] < n[j]
  <2>1. PICK k \in 1 .. Len(Chan) : Says(Chan[k], "START", t, j)
    BY <1>28, StartedAt
  <2>2. k \notin 1 .. Len(listed)
    <3>1. SUFFICES ASSUME k \in 1 .. Len(listed)
                   PROVE  FALSE
      OBVIOUS
    <3>2. listed[k].tid = t /\ listed[k].idx = j
      BY <2>1, <3>1, StartedAt
    <3>3. k = p
      BY <3>1, <3>2, <1>13, <1>14, ListedAlone
    <3>. QED
      BY <3>2, <3>3, <1>14, <1>28
  <2>3. k # q
    BY <2>1, <1>6 DEF Says
  <2>4. q < k
    BY <2>2, <2>3, <1>4
  <2>. QED
    BY <2>1, <2>4, <1>6, KeyOrder
<1>. QED
  BY <1>8, <1>16, <1>25, <1>26, <1>27, <1>28 DEF HandedOver

\* After uftrace stopped, the channel is what is left of shmem_list_head.
LEMMA FlushChan ==
  ASSUME Types, MsgShape, stop # "no", stop' = stop, listed # << >>,
         listed' = Tail(listed), NEW t, NEW i, Head(listed) = [tid |-> t, idx |-> i]
  PROVE  /\ t \in Tasks /\ i \in Idx /\ Started(t, i)
         /\ ~Ended(t, i)
         /\ \A n \in Ranks : ChanSorted(t, n) /\ Paired(t, n) =>
               HandedOver(t, i) /\ \A j \in Idx : Started(t, j) => j = i
<1>1. listed \in Seq(Buf) /\ Unread = << >> /\ Chan = Channel(listed, << >>)
  BY DEF Types, Chan, Unread
<1>2. /\ Head(listed) = listed[1] /\ listed' \in Seq(Buf)
      /\ Len(listed) \in Nat \ {0} /\ Len(listed') = Len(listed) - 1
      /\ \A k \in 1 .. Len(listed) - 1 : listed'[k] = listed[k + 1]
  BY <1>1, TailFacts
<1>3. listed[1] \in [tid : Tasks, idx : Idx] /\ 1 \in 1 .. Len(listed)
  BY <1>1, <1>2, ElementOfSeq DEF Buf
<1>4. t \in Tasks /\ i \in Idx /\ listed[1].tid = t /\ listed[1].idx = i
  BY <1>2, <1>3
<1>5. Says(Chan[1], "START", t, i) /\ 1 \in 1 .. Len(Chan) /\ Started(t, i)
  BY <1>3, <1>4, StartedAt
<1>6. Len(Chan) = Len(listed)
  BY ChanFacts
<1>7. ~Ended(t, i)
  BY <1>6, StartedAt
<1>8. ASSUME NEW n \in Ranks, ChanSorted(t, n), Paired(t, n)
      PROVE  HandedOver(t, i) /\ \A j \in Idx : Started(t, j) => j = i
  <2>1. Cut(listed, listed', 1)
    BY <1>2, <1>3 DEF Cut
  <2>2. Chan' = Channel(listed', << >>) /\ << >> \in Seq(Msgs)
    BY EmptySeq DEF Chan, Unread
  <2>3. Cut(Chan, Chan', 1)
    BY <1>1, <1>2, <2>1, <2>2, CutListed
  <2>4. Chan \in Seq(Msgs) /\ Chan' \in Seq(Msgs)
    BY <1>1, <1>2, <2>2, ChannelFacts
  <2>5. Sorted(Chan, t, n)
    BY <1>8 DEF ChanSorted
  <2>6. /\ \A u, j : Started(u, j)' <=> Started(u, j) /\ ~(u = t /\ j = i)
        /\ \A u, j : Ended(u, j)' <=> Ended(u, j)
    BY <1>4, <1>5, <2>3, <2>4, <2>5, CutOne DEF Started, Ended
  <2>7. \A u, m : ChanSorted(u, m) => ChanSorted(u, m)'
    BY <2>3, <2>4, CutFacts DEF ChanSorted
  <2>8. MsgShape'
    BY <2>3, <2>4, CutFacts DEF MsgShape
  <2>9. \A u, j : ~Ended(u, j)
    BY <1>6, StartedAt
  <2>10. ASSUME NEW j \in Idx, Started(t, j)
         PROVE  j = i
    <3>1. PICK k \in 1 .. Len(Chan) : Says(Chan[k], "START", t, j)
      BY <2>10, StartedAt
    <3>2. k \in 1 .. Len(listed) /\ listed[k].tid = t /\ listed[k].idx = j
      BY <3>1, <1>6, StartedAt
    <3>3. k = 1
      BY <3>2, <1>3, <1>4, <1>8, ListedAlone
    <3>. QED
      BY <3>2, <3>3, <1>4
  <2>. QED
    BY <2>6, <2>7, <2>8, <2>9, <2>10 DEF HandedOver
<1>. QED
  BY <1>4, <1>5, <1>7, <1>8

\* Nothing that matters changes in the channel.
ChanQuiet ==
    /\ \A u, j : Started(u, j)' <=> Started(u, j)
    /\ \A u, j : Ended(u, j)' <=> Ended(u, j)
    /\ \A u \in Tasks, m \in Ranks : ChanSorted(u, m) => ChanSorted(u, m)'
    /\ MsgShape'

LEMMA ChanSame ==
  ASSUME MsgShape, Chan' = Chan
  PROVE  ChanQuiet
<1>1. /\ \A u, j : Started(u, j)' <=> Started(u, j)
      /\ \A u, j : Ended(u, j)' <=> Ended(u, j)
  BY DEF Started, Ended
<1>2. \A u \in Tasks, m \in Ranks : ChanSorted(u, m) => ChanSorted(u, m)'
  BY DEF ChanSorted
<1>3. MsgShape'
  BY DEF MsgShape
<1>. QED
  BY <1>1, <1>2, <1>3 DEF ChanQuiet

\* START is read: the channel is the same, only a part of it is in shmem_list_head.
LEMMA ReadStartChan ==
  ASSUME Types, MsgShape, stop = "no", stop' = stop, pipe # << >>, pipe' = Tail(pipe),
         NEW b \in Buf, Head(pipe) = Message("START", b.tid, b.idx), listed' = Append(listed, b)
  PROVE  ChanQuiet
<1>1. listed \in Seq(Buf) /\ pipe \in Seq(Msgs) /\ Chan = Channel(listed, pipe)
  BY DEF Types, Chan, Unread
<1>2. Chan' = Channel(Append(listed, b), Tail(pipe))
  BY DEF Chan, Unread
<1>3. Chan' = Chan
  BY <1>1, <1>2, ReadStart
<1>. QED
  BY <1>3, ChanSame

\* LOST and FINISH are read.
LEMMA ReadOtherChan ==
  ASSUME Types, MsgShape, stop = "no", stop' = stop, pipe # << >>, pipe' = Tail(pipe),
         Head(pipe).type \notin {"START", "END"}, listed' = listed
  PROVE  ChanQuiet
<1>. DEFINE q == Len(listed) + 1
<1>1. listed \in Seq(Buf) /\ pipe \in Seq(Msgs) /\ Chan = Channel(listed, pipe)
  BY DEF Types, Chan, Unread
<1>2. Chan' = Channel(listed, Tail(pipe))
  BY DEF Chan, Unread
<1>3. Tail(pipe) \in Seq(Msgs)
  BY <1>1, TailFacts
<1>4. Cut(Chan, Chan', q) /\ Chan[q] = Head(pipe)
  BY <1>1, <1>2, CutMessage
<1>5. Chan \in Seq(Msgs) /\ Chan' \in Seq(Msgs)
  BY <1>1, <1>2, <1>3, ChannelFacts
<1>6. \A y, u, j : y \in {"START", "END"} => ~Says(Chan[q], y, u, j)
  BY <1>4 DEF Says
<1>7. \A y, u, j : Sent(Chan', y, u, j) <=> \E k \in 1 .. Len(Chan) : k # q /\ Says(Chan[k], y, u, j)
  BY <1>4, <1>5, CutFacts
<1>8. /\ \A u, j : Started(u, j)' <=> Started(u, j)
      /\ \A u, j : Ended(u, j)' <=> Ended(u, j)
  <2>1. \A y, u, j : Sent(Chan, y, u, j) <=> \E k \in 1 .. Len(Chan) : Says(Chan[k], y, u, j)
    BY DEF Sent, Says
  <2>2. \A y, u, j : y \in {"START", "END"} => (Sent(Chan', y, u, j) <=> Sent(Chan, y, u, j))
    BY <2>1, <1>6, <1>7
  <2>. QED
    BY <2>2 DEF Started, Ended
<1>9. \A u \in Tasks, m \in Ranks : ChanSorted(u, m) => ChanSorted(u, m)'
  BY <1>4, <1>5, CutFacts DEF ChanSorted
<1>10. MsgShape'
  BY <1>4, <1>5, CutFacts DEF MsgShape
<1>. QED
  BY <1>8, <1>9, <1>10 DEF ChanQuiet

\* A message reaches the channel if mcount_pfd is open and uftrace still reads.
LEMMA SendChan ==
  ASSUME Types, NEW m \in Msgs, Send(m), UNCHANGED <<listed, stop>>
  PROVE  Chan' = IF pfdOpen /\ stop = "no" THEN Append(Chan, m) ELSE Chan
<1>1. CASE pfdOpen /\ stop = "no"
  <2>1. listed \in Seq(Buf) /\ pipe \in Seq(Msgs) /\ Chan = Channel(listed, pipe)
    BY <1>1 DEF Types, Chan, Unread
  <2>2. Chan' = Channel(listed, Append(pipe, m))
    BY <1>1 DEF Chan, Unread, Send
  <2>. QED
    BY <1>1, <2>1, <2>2, ChannelAppend
<1>2. CASE ~pfdOpen \/ stop # "no"
  BY <1>2 DEF Chan, Unread, Send
<1>. QED
  BY <1>1, <1>2

LEMMA AppendShape ==
  ASSUME Types, MsgShape, NEW m, Proper(m), Chan' = Append(Chan, m)
  PROVE  MsgShape'
<1>1. Chan \in Seq(Msgs) /\ m \in Msgs
  BY ChanFacts DEF Proper
<1>. DEFINE d == Append(Chan, m)
<1>2. /\ Len(d) = Len(Chan) + 1 /\ Len(Chan) \in Nat
      /\ \A k \in 1 .. Len(Chan) : d[k] = Chan[k]
      /\ d[Len(Chan) + 1] = m
  BY <1>1, AppendProperties, LenProperties
<1>. HIDE DEF d
<1>3. \A k \in 1 .. Len(d) : k \in 1 .. Len(Chan) \/ k = Len(Chan) + 1
  BY <1>2
<1>4. \A k \in 1 .. Len(d) : Proper(d[k])
  BY <1>2, <1>3 DEF MsgShape
<1>. QED
  BY <1>4 DEF MsgShape, d

\* START or END of the buffer that was started last is sent.
LEMMA SendAbout ==
  ASSUME Types, MsgShape, NEW t \in Tasks, NEW c \in Idx, NEW y \in {"START", "END"},
         Chan' = Append(Chan, Message(y, t, c))
  PROVE  /\ MsgShape'
         /\ \A u, j : Started(u, j)' <=> Started(u, j) \/ (y = "START" /\ u = t /\ j = c)
         /\ \A u, j : Ended(u, j)' <=> Ended(u, j) \/ (y = "END" /\ u = t /\ j = c)
         /\ \A u \in Tasks \ {t}, m \in Ranks : ChanSorted(u, m) => ChanSorted(u, m)'
         /\ \A n \in Ranks : /\ ChanSorted(t, n)
                             /\ \A i \in Idx :
                                 /\ Started(t, i) => n[i] < n[c] \/ (y = "END" /\ i = c)
                                 /\ Ended(t, i) => n[i] < n[c]
                             => ChanSorted(t, n)'
<1>. DEFINE m == Message(y, t, c)
<1>1. /\ m \in Msgs /\ m.type = y /\ m.tid = t /\ m.arg = c
  <2>1. c \in Nat
    BY RecordingAssumption DEF Idx
  <2>. QED
    BY <2>1 DEF Message, Msgs
<1>2. Chan' = Append(Chan, m)
  OBVIOUS
<1>. HIDE DEF m
<1>3. Chan \in Seq(Msgs) /\ \A k \in 1 .. Len(Chan) : Proper(Chan[k])
  BY ChanFacts DEF MsgShape
<1>4. Proper(m)
  BY <1>1 DEF Proper
<1>5. MsgShape'
  BY <1>2, <1>4, AppendShape
<1>6. \A z, u, j : Sent(Chan', z, u, j) <=> Sent(Chan, z, u, j) \/ Says(m, z, u, j)
  BY <1>1, <1>2, <1>3, SentAppend
<1>7. \A z, u, j : Says(m, z, u, j) <=> z = y /\ u = t /\ j = c
  BY <1>1 DEF Says
<1>8. /\ \A u, j : Started(u, j)' <=> Started(u, j) \/ (y = "START" /\ u = t /\ j = c)
      /\ \A u, j : Ended(u, j)' <=> Ended(u, j) \/ (y = "END" /\ u = t /\ j = c)
  BY <1>6, <1>7 DEF Started, Ended
<1>9. ASSUME NEW u \in Tasks \ {t}, NEW n \in Ranks, ChanSorted(u, n)
      PROVE  ChanSorted(u, n)'
  <2>1. Sorted(Chan, u, n) /\ u \in Tasks /\ m.tid # u
    BY <1>1, <1>9 DEF ChanSorted
  <2>2. Sorted(Append(Chan, m), u, n)
    BY <1>1, <1>3, <2>1, SortedAppend
  <2>. QED
    BY <2>2, <1>2 DEF ChanSorted
<1>10. ASSUME NEW n \in Ranks, ChanSorted(t, n),
              \A i \in Idx : /\ Started(t, i) => n[i] < n[c] \/ (y = "END" /\ i = c)
                             /\ Ended(t, i) => n[i] < n[c]
       PROVE  ChanSorted(t, n)'
  <2>1. Sorted(Chan, t, n)
    BY <1>10 DEF ChanSorted
  <2>2. \A i \in Idx : m.tid = t /\ m.type \in {"START", "END"} =>
             /\ Sent(Chan, "START", t, i) => n[i] < n[m.arg] \/ (m.type = "END" /\ i = m.arg)
             /\ Sent(Chan, "END", t, i) => n[i] < n[m.arg]
    BY <1>1, <1>10 DEF Started, Ended
  <2>3. m.tid = t => m.type = "LOST" \/ (m.type \in {"START", "END"} /\ m.arg \in Idx)
    BY <1>1
  <2>4. Sorted(Append(Chan, m), t, n)
    BY <1>1, <1>3, <2>1, <2>2, <2>3, SortedAppend
  <2>. QED
    BY <2>4, <1>2 DEF ChanSorted
<1>. QED
  BY <1>5, <1>8, <1>9, <1>10

\* LOST and FINISH are sent.
LEMMA SendOther ==
  ASSUME Types, MsgShape, NEW m \in Msgs,
         \/ m.type = "LOST"
         \/ m.type = "FINISH" /\ m.tid \notin Tasks,
         Chan' = Append(Chan, m)
  PROVE  ChanQuiet
<1>1. Chan \in Seq(Msgs) /\ \A k \in 1 .. Len(Chan) : Proper(Chan[k])
  BY ChanFacts DEF MsgShape
<1>2. MsgShape'
  BY AppendShape DEF Proper
<1>3. \A z, u, j : Sent(Chan', z, u, j) <=> Sent(Chan, z, u, j) \/ Says(m, z, u, j)
  BY <1>1, SentAppend
<1>4. /\ \A u, j : Started(u, j)' <=> Started(u, j)
      /\ \A u, j : Ended(u, j)' <=> Ended(u, j)
  BY <1>3 DEF Started, Ended, Says
<1>5. ASSUME NEW u \in Tasks, NEW n \in Ranks, ChanSorted(u, n)
      PROVE  ChanSorted(u, n)'
  <2>1. Sorted(Chan, u, n)
    BY <1>5 DEF ChanSorted
  <2>2. Sorted(Append(Chan, m), u, n)
    BY <1>1, <2>1, SortedAppend
  <2>. QED
    BY <2>2 DEF ChanSorted
<1>. QED
  BY <1>2, <1>4, <1>5 DEF ChanQuiet

\* uftrace stops: what is unread stays unread.
LEMMA StopChan ==
  ASSUME Types, MsgShape, stop = "no", stop' # "no", UNCHANGED <<listed, pipe>>
  PROVE  /\ \A u, j : Started(u, j)' => Started(u, j)
         /\ \A u, j : Started(u, j)' <=> \E k \in 1 .. Len(listed) : Says(Chan[k], "START", u, j)
         /\ \A u, j : ~Ended(u, j)'
         /\ \A u \in Tasks, m \in Ranks : ChanSorted(u, m) => ChanSorted(u, m)'
         /\ MsgShape'
         /\ pipe = << >> => Chan' = Chan
<1>1. /\ listed \in Seq(Buf) /\ pipe \in Seq(Msgs) /\ << >> \in Seq(Msgs) /\ Len(<< >>) = 0
      /\ Chan = Channel(listed, pipe) /\ Chan' = Channel(listed, << >>)
  BY EmptySeq DEF Types, Chan, Unread
<1>2. /\ Chan \in Seq(Msgs) /\ Len(listed) \in Nat /\ Len(Chan) \in Nat /\ Len(listed) <= Len(Chan)
      /\ \A k \in 1 .. Len(listed) :
            k \in 1 .. Len(Chan) /\ Chan[k] = Message("START", listed[k].tid, listed[k].idx)
  BY ChanFacts
<1>3. /\ Len(Chan') = Len(listed)
      /\ \A k \in 1 .. Len(listed) : Chan'[k] = Message("START", listed[k].tid, listed[k].idx)
  <2>1. /\ Len(Channel(listed, << >>)) = Len(listed) + Len(<< >>)
        /\ \A k \in 1 .. Len(listed) :
             Channel(listed, << >>)[k] = Message("START", listed[k].tid, listed[k].idx)
    BY <1>1, ChannelFacts
  <2>. QED
    BY <1>1, <1>2, <2>1
<1>4. \A k \in 1 .. Len(Chan') : k \in 1 .. Len(Chan) /\ k \in 1 .. Len(listed) /\ Chan'[k] = Chan[k]
  BY <1>2, <1>3
<1>5. \A k \in 1 .. Len(listed) : Chan[k].type = "START"
  <2>. TAKE k \in 1 .. Len(listed)
  <2>1. Says(Chan[k], "START", listed[k].tid, listed[k].idx)
    BY StartedAt
  <2>. QED
    BY <2>1 DEF Says
<1>6. \A u, j : Started(u, j)' <=> \E k \in 1 .. Len(listed) : Says(Chan[k], "START", u, j)
  BY <1>3, <1>4 DEF Started, Sent, Says
<1>7. \A u, j : Started(u, j)' => Started(u, j)
  BY <1>4 DEF Started, Sent
<1>8. \A u, j : ~Ended(u, j)'
  BY <1>4, <1>5 DEF Ended, Sent
<1>9. \A u \in Tasks, m \in Ranks : ChanSorted(u, m) => ChanSorted(u, m)'
  BY <1>4 DEF ChanSorted, Sorted
<1>10. MsgShape'
  BY <1>4 DEF MsgShape
<1>11. pipe = << >> => Chan' = Chan
  BY <1>1
<1>. QED
  BY <1>6, <1>7, <1>8, <1>9, <1>10, <1>11

-----------------------------------------------------------------------------
(* The lane of a task: facts about one state. *)

Base == Types /\ PoolShape /\ MsgShape /\ Counted /\ Phased

LEMMA QueuedAt ==
  ASSUME Base, NEW t \in Tasks
  PROVE  /\ Backlog(t) \in Seq(Buf) /\ Len(Backlog(t)) \in Nat
         /\ \A k \in 1 .. Len(Backlog(t)) :
               /\ Backlog(t)[k] \in Buf /\ Backlog(t)[k].tid = t
               /\ Backlog(t)[k].idx \in Idx /\ Queued(t, Backlog(t)[k].idx)
<1>1. PoolTypes(Buf) /\ PoolShape
  BY DEF Base, Types
<1>2. /\ Backlog(t) \in Seq(Buf)
      /\ \A k \in 1 .. Len(Backlog(t)) : Backlog(t)[k] \in Buf /\ Backlog(t)[k].tid = t
  BY <1>1, BacklogType
<1>3. Len(Backlog(t)) \in Nat
  BY <1>2, LenProperties
<1>. QED
  BY <1>2, <1>3 DEF Queued, Buf

\* The buffers of a task uftrace has or will get were started one after the other.
LEMMA HeldOrder ==
  ASSUME Base, NEW t \in Tasks, NEW n \in Ranks,
         ChanSorted(t, n), BacklogSorted(t, n),
         NEW i \in Idx, NEW j \in Idx, Held(t, i), Held(t, j), i # j
  PROVE  n[i] < n[j] \/ n[j] < n[i]
<1>1. Types /\ MsgShape
  BY DEF Base
<1>2. CASE Started(t, i) /\ Started(t, j)
  <2>1. PICK k \in 1 .. Len(Chan) : Says(Chan[k], "START", t, i)
    BY <1>1, <1>2, StartedAt
  <2>2. PICK l \in 1 .. Len(Chan) : Says(Chan[l], "START", t, j)
    BY <1>1, <1>2, StartedAt
  <2>3. k # l
    BY <2>1, <2>2 DEF Says
  <2>4. Len(Chan) \in Nat
    BY <1>1, ChanFacts
  <2>5. k < l => n[i] < n[j]
    BY <1>1, <2>1, <2>2, KeyOrder
  <2>6. l < k => n[j] < n[i]
    BY <1>1, <2>1, <2>2, KeyOrder
  <2>. QED
    BY <2>3, <2>4, <2>5, <2>6
<1>3. CASE Queued(t, i) /\ Queued(t, j)
  <2>1. PICK k \in 1 .. Len(Backlog(t)) : Backlog(t)[k].idx = i
    BY <1>3 DEF Queued
  <2>2. PICK l \in 1 .. Len(Backlog(t)) : Backlog(t)[l].idx = j
    BY <1>3 DEF Queued
  <2>3. k # l
    BY <2>1, <2>2
  <2>4. Len(Backlog(t)) \in Nat
    BY QueuedAt
  <2>. QED
    BY <2>1, <2>2, <2>3, <2>4 DEF BacklogSorted
<1>. QED
  BY <1>2, <1>3 DEF Held, BacklogSorted

-----------------------------------------------------------------------------
(* The lane of a task from step to step. *)

\* The parts of the state that belong to task t and stay
KeepsTask(t) ==
    /\ ppc'[t] = ppc[t] /\ curr'[t] = curr[t] /\ nrBuf'[t] = nrBuf[t]
    /\ next'[t] = next[t] /\ losts'[t] = losts[t] /\ stream'[t] = stream[t]
    /\ (t \in blind') <=> (t \in blind)
KeepsData(t) ==
    /\ \A j \in Idx : Data(t, j)' = Data(t, j) /\ (Taken(t, j)' <=> Taken(t, j))
    /\ file'[t] = file[t]
KeepsChan(t) ==
    /\ \A j \in Idx : (Started(t, j)' <=> Started(t, j)) /\ (Ended(t, j)' <=> Ended(t, j))
    /\ \A n \in Ranks : ChanSorted(t, n) => ChanSorted(t, n)'

\* A step that does not touch the task leaves its lane as it is.
LEMMA LaneSame ==
  ASSUME Base, NEW t \in Tasks, NEW n \in Ranks, NEW g \in Ranks, Lane(t, n, g),
         KeepsTask(t), KeepsData(t), KeepsChan(t),
         Backlog(t)' = Backlog(t), pfdOpen' => pfdOpen, stop' = stop, Flushing => Flushing'
  PROVE  Lane(t, n, g)'
<1>1. \A j \in Idx : /\ Queued(t, j)' <=> Queued(t, j)
                     /\ Held(t, j)' <=> Held(t, j)
                     /\ Started(t, j)' <=> Started(t, j)
                     /\ Ended(t, j)' <=> Ended(t, j)
  BY DEF Queued, Held, KeepsChan
<1>2. /\ \A j \in Idx : Data(t, j)' = Data(t, j) /\ (Taken(t, j)' <=> Taken(t, j))
      /\ file'[t] = file[t] /\ stream'[t] = stream[t]
  BY DEF KeepsData, KeepsTask
<1>3. ChanSorted(t, n)' /\ BacklogSorted(t, n)' /\ Paired(t, n)'
  BY <1>1 DEF Lane, KeepsChan, BacklogSorted, Paired
<1>4. \A j \in Idx : /\ EndOf(t, g, j)' = EndOf(t, g, j)
                     /\ PartOfStream(t, g, j)' <=> PartOfStream(t, g, j)
  BY <1>2 DEF EndOf, PartOfStream
<1>5. \A x : Reached(t, g, x)' <=> Reached(t, g, x)
  BY <1>1, <1>2, <1>4 DEF Reached
<1>6. Chained(t, n, g)'
  BY <1>1, <1>4, <1>5 DEF Lane, Chained
<1>7. HeldMapped(t, g)'
  BY <1>1, <1>2, <1>4 DEF Lane, HeldMapped, KeepsTask
<1>8. FilePrefix(t)'
  BY <1>2 DEF Lane, FilePrefix
<1>9. Current(t, n, g)'
  <2>1. Storing(t)' <=> Storing(t)
    BY DEF Storing, KeepsTask
  <2>2. ASSUME Storing(t)
        PROVE  LastBuffer(t, curr[t], n, g)'
    <3>1. PICK c \in Idx : c = curr[t]
      BY <2>2 DEF Storing, Base, Types
    <3>2. LastBuffer(t, c, n, g)
      BY <2>2, <3>1 DEF Lane, Current
    <3>3. LastBuffer(t, c, n, g)'
      BY <3>2, <1>1, <1>2, <1>4 DEF LastBuffer, KeepsTask
    <3>. QED
      BY <3>1, <3>3 DEF KeepsTask
  <2>. QED
    BY <2>1, <2>2 DEF Current, KeepsTask
<1>10. NoneOpen(t, n)'
  BY <1>1 DEF Lane, NoneOpen, Between, KeepsTask
<1>11. NothingMissing(t, g)'
  BY <1>2, <1>5 DEF Lane, NothingMissing, KeepsTask
<1>12. Fresh(t)'
  BY <1>1, <1>2 DEF Lane, Fresh, KeepsTask
<1>. QED
  BY <1>3, <1>6, <1>7, <1>8, <1>9, <1>10, <1>11, <1>12 DEF Lane

\* uftrace takes a buffer out of the channel, and queues it if it has data.
LEMMA LaneHandOver ==
  ASSUME Base, NEW t \in Tasks, NEW n \in Ranks, NEW g \in Ranks, Lane(t, n, g),
         NEW i \in Idx, HandedOver(t, i), Started(t, i),
         \A j \in Idx : Started(t, j) /\ j # i => n[i] < n[j],
         \/ stop = "no" /\ Ended(t, i)
         \/ stop # "no" /\ Flushing',
         \/ Data(t, i) = << >> /\ Backlog(t)' = Backlog(t)
         \/ /\ Data(t, i) # << >>
            /\ \E b \in Buf : b.idx = i /\ Backlog(t)' = Append(Backlog(t), b),
         KeepsTask(t), KeepsData(t),
         pfdOpen' = pfdOpen, stop' = stop, Flushing => Flushing'
  PROVE  Lane(t, n, g)'
<1>1. /\ \A j \in Idx : Started(t, j)' <=> (Started(t, j) /\ j # i)
      /\ \A j \in Idx : Ended(t, j)' <=> (Ended(t, j) /\ j # i)
      /\ ChanSorted(t, n)'
  BY DEF HandedOver, Lane
<1>2. /\ \A j \in Idx : Data(t, j)' = Data(t, j) /\ (Taken(t, j)' <=> Taken(t, j))
      /\ file'[t] = file[t] /\ stream'[t] = stream[t]
  BY DEF KeepsData, KeepsTask
<1>3. /\ Backlog(t) \in Seq(Buf) /\ Len(Backlog(t)) \in Nat
      /\ \A k \in 1 .. Len(Backlog(t)) :
            Backlog(t)[k].idx \in Idx /\ Queued(t, Backlog(t)[k].idx)
  BY QueuedAt
<1>4. /\ \A a, b \in Idx : Queued(t, a) /\ Started(t, b) => n[a] < n[b]
      /\ \A a \in Idx : Ended(t, a) => Started(t, a)
      /\ \A a, b \in Idx : Started(t, a) /\ Started(t, b) /\ n[a] < n[b] => Ended(t, a)
      /\ \A k, l \in 1 .. Len(Backlog(t)) : k < l => n[Backlog(t)[k].idx] < n[Backlog(t)[l].idx]
  BY DEF Lane, BacklogSorted, Paired
<1>5. /\ \A j \in Idx : Queued(t, j)' <=> (Queued(t, j) \/ (Data(t, i) # << >> /\ j = i))
      /\ \A k, l \in 1 .. Len(Backlog(t)') :
            k < l => n[Backlog(t)'[k].idx] < n[Backlog(t)'[l].idx]
  <2>1. CASE Data(t, i) = << >> /\ Backlog(t)' = Backlog(t)
    BY <2>1, <1>4 DEF Queued
  <2>2. ASSUME NEW b \in Buf, Data(t, i) # << >>, b.idx = i, Backlog(t)' = Append(Backlog(t), b)
        PROVE  /\ \A j \in Idx : Queued(t, j)' <=> (Queued(t, j) \/ (Data(t, i) # << >> /\ j = i))
               /\ \A k, l \in 1 .. Len(Backlog(t)') :
                     k < l => n[Backlog(t)'[k].idx] < n[Backlog(t)'[l].idx]
    <3>. DEFINE s == Backlog(t)
                r == Append(s, b)
    <3>1. /\ Len(r) = Len(s) + 1
          /\ \A k \in 1 .. Len(s) : r[k] = s[k]
          /\ r[Len(s) + 1] = b
      BY <1>3, AppendProperties
    <3>2. /\ \A j : Queued(t, j)' <=> \E k \in 1 .. Len(r) : r[k].idx = j
          /\ \A j : Queued(t, j) <=> \E k \in 1 .. Len(s) : s[k].idx = j
          /\ Backlog(t)' = r /\ Len(s) \in Nat
      BY <2>2, <1>3 DEF Queued
    <3>3. /\ \A k \in 1 .. Len(s) : s[k].idx \in Idx /\ n[s[k].idx] < n[i]
          /\ \A k, l \in 1 .. Len(s) : k < l => n[s[k].idx] < n[s[l].idx]
      BY <1>3, <1>4
    <3>. HIDE DEF r, s
    <3>4. \A k : k \in 1 .. Len(r) <=> (k \in 1 .. Len(s) \/ k = Len(s) + 1)
      BY <3>1, <3>2
    <3>5. \A j \in Idx : Queued(t, j)' <=> (Queued(t, j) \/ j = i)
      BY <2>2, <3>1, <3>2, <3>4
    <3>6. ASSUME NEW k \in 1 .. Len(r), NEW l \in 1 .. Len(r), k < l
          PROVE  n[r[k].idx] < n[r[l].idx]
      <4>1. k \in 1 .. Len(s) /\ r[k] = s[k]
        BY <3>1, <3>2, <3>6
      <4>2. CASE l \in 1 .. Len(s)
        BY <4>1, <4>2, <3>1, <3>3, <3>6
      <4>3. CASE l = Len(s) + 1
        BY <4>1, <4>3, <3>1, <3>3, <2>2
      <4>. QED
        BY <4>2, <4>3, <3>4
    <3>. QED
      BY <2>2, <3>2, <3>5, <3>6
  <2>. QED
    BY <2>1, <2>2
<1>6. \A j \in Idx : /\ Held(t, j)' => Held(t, j)
                     /\ Held(t, j) /\ Data(t, j) # << >> => Held(t, j)'
  BY <1>1, <1>5 DEF Held
<1>7. BacklogSorted(t, n)'
  BY <1>1, <1>4, <1>5 DEF BacklogSorted
<1>8. Paired(t, n)'
  BY <1>1, <1>4 DEF Paired
<1>9. \A j \in Idx : /\ EndOf(t, g, j)' = EndOf(t, g, j)
                     /\ PartOfStream(t, g, j)' <=> PartOfStream(t, g, j)
  BY <1>2 DEF EndOf, PartOfStream
<1>10. \A x : Reached(t, g, x) => Reached(t, g, x)'
  BY <1>2, <1>6, <1>9 DEF Reached
<1>11. Chained(t, n, g)'
  BY <1>6, <1>9, <1>10 DEF Lane, Chained
<1>12. HeldMapped(t, g)'
  BY <1>2, <1>6, <1>9 DEF Lane, HeldMapped, KeepsTask
<1>13. FilePrefix(t)'
  BY <1>2 DEF Lane, FilePrefix
<1>14. Current(t, n, g)'
  <2>1. Storing(t)' <=> Storing(t)
    BY DEF Storing, KeepsTask
  <2>2. ASSUME Storing(t)
        PROVE  LastBuffer(t, curr[t], n, g)'
    <3>1. PICK c \in Idx : c = curr[t]
      BY <2>2 DEF Storing, Base, Types
    <3>2. LastBuffer(t, c, n, g)
      BY <2>2, <3>1 DEF Lane, Current
    <3>3. stop = "no" => c # i
      BY <3>2 DEF LastBuffer
    <3>4. /\ Queued(t, c)' => Flushing'
          /\ stop = "no" => (Started(t, c) => Started(t, c)')
          /\ ~Ended(t, c)'
      BY <1>1, <1>5, <3>2, <3>3 DEF LastBuffer
    <3>5. LastBuffer(t, c, n, g)'
      BY <3>2, <3>4, <1>2, <1>6, <1>9 DEF LastBuffer, KeepsTask
    <3>. QED
      BY <3>1, <3>5 DEF KeepsTask
  <2>. QED
    BY <2>1, <2>2 DEF Current, KeepsTask
<1>15. NoneOpen(t, n)'
  BY <1>1, <1>6 DEF Lane, NoneOpen, Between, KeepsTask
<1>16. NothingMissing(t, g)'
  BY <1>2, <1>10 DEF Lane, NothingMissing, KeepsTask
<1>17. Fresh(t)'
  BY <1>2, <1>6 DEF Lane, Fresh, KeepsTask
<1>. QED
  BY <1>1, <1>7, <1>8, <1>11, <1>12, <1>13, <1>14, <1>15, <1>16, <1>17 DEF Lane

\* uftrace stops: of the buffers in the channel only those in shmem_list_head stay, which
\* are the first ones.
LEMMA LaneStop ==
  ASSUME Base, NEW t \in Tasks, NEW n \in Ranks, NEW g \in Ranks, Lane(t, n, g),
         stop = "no", stop' \in {"exited", "finished", "interrupted"},
         UNCHANGED <<listed, pipe>>, stop' = "exited" => pipe = << >>,
         KeepsTask(t), KeepsData(t), Backlog(t)' = Backlog(t), pfdOpen' = pfdOpen,
         Flushing => Flushing'
  PROVE  Lane(t, n, g)'
<1>1. Types /\ MsgShape
  BY DEF Base
<1>2. /\ \A j : Started(t, j)' => Started(t, j)
      /\ \A j : Started(t, j)' <=> \E k \in 1 .. Len(listed) : Says(Chan[k], "START", t, j)
      /\ \A j : ~Ended(t, j)'
      /\ ChanSorted(t, n)'
      /\ pipe = << >> => Chan' = Chan
  BY <1>1, StopChan DEF Lane
<1>3. \A j \in Idx : Queued(t, j)' <=> Queued(t, j)
  BY DEF Queued
<1>4. \A j \in Idx : Held(t, j)' => Held(t, j)
  BY <1>2, <1>3 DEF Held
<1>5. ChanSorted(t, n) /\ BacklogSorted(t, n) /\ Paired(t, n) /\ Chained(t, n, g)
  BY DEF Lane
<1>6. ASSUME NEW i \in Idx, NEW j \in Idx, Started(t, i)', Started(t, j), n[j] < n[i]
      PROVE  Started(t, j)'
  <2>1. PICK k \in 1 .. Len(listed) : Says(Chan[k], "START", t, i)
    BY <1>2, <1>6
  <2>2. PICK l \in 1 .. Len(Chan) : Says(Chan[l], "START", t, j)
    BY <1>1, <1>6, StartedAt
  <2>3. k \in 1 .. Len(Chan) /\ Len(Chan) \in Nat /\ Len(listed) \in Nat
    BY <1>1, ChanFacts
  <2>4. n[i] \in Nat /\ n[j] \in Nat
    BY DEF Ranks
  <2>5. ~(k < l)
    BY <1>1, <1>5, <1>6, <2>1, <2>2, <2>3, <2>4, KeyOrder
  <2>6. l \in 1 .. Len(listed)
    BY <2>1, <2>2, <2>3, <2>5
  <2>. QED
    BY <1>2, <2>2, <2>6
<1>7. ASSUME NEW i \in Idx, NEW j \in Idx, Started(t, i)', Started(t, j)'
      PROVE  i = j
  <2>1. PICK k \in 1 .. Len(listed) : Says(Chan[k], "START", t, i)
    BY <1>2, <1>7
  <2>2. PICK l \in 1 .. Len(listed) : Says(Chan[l], "START", t, j)
    BY <1>2, <1>7
  <2>a. listed[k].tid = t /\ listed[k].idx = i
    BY <1>1, <2>1, StartedAt
  <2>b. listed[l].tid = t /\ listed[l].idx = j
    BY <1>1, <2>2, StartedAt
  <2>3. listed[k].tid = t /\ listed[k].idx = i /\ listed[l].tid = t /\ listed[l].idx = j
    BY <2>a, <2>b
  <2>4. k = l
    BY <1>1, <1>5, <2>3, ListedAlone
  <2>. QED
    BY <2>3, <2>4
<1>8. /\ \A j \in Idx : Data(t, j)' = Data(t, j) /\ (Taken(t, j)' <=> Taken(t, j))
      /\ file'[t] = file[t] /\ stream'[t] = stream[t]
  BY DEF KeepsData, KeepsTask
<1>9. \A j \in Idx : n[j] \in Nat /\ g[j] \in Nat /\ Len(Data(t, j)) \in Nat
                     /\ (Data(t, j) # << >> => Len(Data(t, j)) > 0)
  <2>. TAKE j \in Idx
  <2>1. Data(t, j) \in Seq(Items)
    BY <1>1 DEF Types, Data
  <2>. QED
    BY <2>1, LenProperties, EmptySeq DEF Ranks
<1>10. BacklogSorted(t, n)'
  BY <1>2, <1>3, <1>5 DEF BacklogSorted
<1>11. Paired(t, n)'
  BY <1>2, <1>7, <1>9 DEF Paired
<1>12. \A j \in Idx : /\ EndOf(t, g, j)' = EndOf(t, g, j)
                      /\ PartOfStream(t, g, j)' <=> PartOfStream(t, g, j)
  BY <1>8 DEF EndOf, PartOfStream
<1>13. Chained(t, n, g)'
  <2>1. ASSUME NEW i \in Idx, Held(t, i)'
        PROVE  Reached(t, g, g[i])'
    <3>1. Held(t, i) /\ Reached(t, g, g[i])
      BY <1>4, <1>5, <2>1 DEF Chained
    <3>2. CASE g[i] = Len(file[t])
      BY <3>2, <1>8 DEF Reached
    <3>3. ASSUME NEW j \in Idx, Held(t, j), Data(t, j) # << >>, EndOf(t, g, j) = g[i]
          PROVE  Reached(t, g, g[i])'
      <4>1. j # i /\ ~(n[i] < n[j])
        BY <3>1, <3>3, <1>5, <1>9 DEF Chained, EndOf
      <4>2. n[j] < n[i]
        BY <4>1, <3>1, <3>3, <1>5, HeldOrder
      <4>3. Held(t, j)'
        <5>1. CASE Queued(t, j)
          BY <5>1, <1>3 DEF Held
        <5>2. CASE Started(t, j)
          <6>1. ~Queued(t, i)
            BY <4>1, <5>2, <1>5 DEF BacklogSorted
          <6>2. Started(t, i)'
            BY <2>1, <6>1, <1>3 DEF Held
          <6>. QED
            BY <4>2, <5>2, <6>2, <1>6 DEF Held
        <5>. QED
          BY <3>3, <5>1, <5>2 DEF Held
      <4>. QED
        BY <3>3, <4>3, <1>8, <1>12 DEF Reached
    <3>. QED
      BY <3>1, <3>2, <3>3 DEF Reached
  <2>. QED
    BY <2>1, <1>4, <1>5, <1>12 DEF Chained
<1>14. HeldMapped(t, g)'
  BY <1>4, <1>8, <1>12 DEF Lane, HeldMapped, KeepsTask
<1>15. FilePrefix(t)'
  BY <1>8 DEF Lane, FilePrefix
<1>16. Current(t, n, g)'
  <2>1. Storing(t)' <=> Storing(t)
    BY DEF Storing, KeepsTask
  <2>2. ASSUME Storing(t)
        PROVE  LastBuffer(t, curr[t], n, g)'
    <3>1. PICK c \in Idx : c = curr[t]
      BY <2>2 DEF Storing, Base, Types
    <3>2. LastBuffer(t, c, n, g)
      BY <2>2, <3>1 DEF Lane, Current
    <3>3. LastBuffer(t, c, n, g)'
      BY <3>2, <1>2, <1>3, <1>4, <1>8, <1>12 DEF LastBuffer, KeepsTask
    <3>. QED
      BY <3>1, <3>3 DEF KeepsTask
  <2>. QED
    BY <2>1, <2>2 DEF Current, KeepsTask
<1>17. NoneOpen(t, n)'
  BY <1>4 DEF Lane, NoneOpen, Between, KeepsTask
<1>18. NothingMissing(t, g)'
  <2>1. SUFFICES ASSUME t \notin blind, stop' = "exited"
                 PROVE  Reached(t, g, Len(stream[t]))'
    BY <1>8 DEF NothingMissing, KeepsTask
  <2>2. Chan' = Chan
    BY <1>2, <2>1
  <2>3. \A j \in Idx : Held(t, j)' <=> Held(t, j)
    BY <2>2, <1>3 DEF Held, Started
  <2>4. Reached(t, g, Len(stream[t]))
    BY <2>1 DEF Lane, NothingMissing
  <2>. QED
    BY <2>3, <2>4, <1>8, <1>12 DEF Reached
<1>19. Fresh(t)'
  BY <1>4, <1>8 DEF Lane, Fresh, KeepsTask
<1>. QED
  BY <1>2, <1>10, <1>11, <1>13, <1>14, <1>15, <1>16, <1>17, <1>18, <1>19 DEF Lane

\* The first buffer of the backlog reaches the file, and is or is not given back at once;
\* or it has been emptied before and is given back.
LEMMA LaneDrain ==
  ASSUME Base, NEW t \in Tasks, NEW n \in Ranks, NEW g \in Ranks, Lane(t, n, g),
         Backlog(t) # << >>, NEW i \in Idx, Head(Backlog(t)).idx = i,
         KeepsTask(t), KeepsChan(t),
         file'[t] = file[t] \o Data(t, i), Data(t, i)' = << >>,
         \A j \in Idx \ {i} : Data(t, j)' = Data(t, j) /\ (Taken(t, j)' <=> Taken(t, j)),
         \/ Backlog(t)' = Backlog(t) /\ (Taken(t, i)' <=> Taken(t, i))
         \/ Backlog(t)' = Tail(Backlog(t)) /\ ((Taken(t, i)' <=> Taken(t, i)) \/ ~Flushing),
         pfdOpen' = pfdOpen, stop' = stop, Flushing => Flushing'
  PROVE  \E m \in Ranks : Lane(t, n, m)'
<1>1. Types /\ MsgShape /\ file[t] \in Seq(Items) /\ stream[t] \in Seq(Items)
      /\ \A j \in Idx : Data(t, j) \in Seq(Items)
  BY DEF Base, Types, Data
<1>2. \A j \in Idx : /\ n[j] \in Nat /\ g[j] \in Nat /\ Len(Data(t, j)) \in Nat
                     /\ (Data(t, j) # << >> => Len(Data(t, j)) > 0)
  BY <1>1, LenProperties, EmptySeq DEF Ranks
<1>3. Len(file[t]) \in Nat /\ Len(stream[t]) \in Nat /\ Len(<< >>) = 0
      /\ (Data(t, i) = << >> => Len(Data(t, i)) = 0)
  BY <1>1, LenProperties, EmptySeq
<1>e. PICK e \in Nat : e = Len(file[t]) + Len(Data(t, i))
  BY <1>2, <1>3
<1>4. PICK m \in Ranks : m[i] = e /\ \A j \in Idx \ {i} : m[j] = g[j]
  <2>1. [g EXCEPT ![i] = e] \in Ranks
    BY DEF Ranks
  <2>2. /\ [g EXCEPT ![i] = e][i] = e
        /\ \A j \in Idx \ {i} : [g EXCEPT ![i] = e][j] = g[j]
    BY DEF Ranks
  <2>. QED
    BY <2>1, <2>2
<1>5. /\ Len(file'[t]) = e
      /\ \A k \in 1 .. e : file'[t][k] = IF k <= Len(file[t]) THEN file[t][k]
                                                             ELSE Data(t, i)[k - Len(file[t])]
  BY <1>1, <1>e, ConcatProperties
<1>6. ChanSorted(t, n) /\ BacklogSorted(t, n) /\ Paired(t, n) /\ Chained(t, n, g) /\ HeldMapped(t, g)
  BY DEF Lane
<1>7. /\ Backlog(t) \in Seq(Buf) /\ Len(Backlog(t)) \in Nat
      /\ \A k \in 1 .. Len(Backlog(t)) :
            Backlog(t)[k].idx \in Idx /\ Queued(t, Backlog(t)[k].idx)
  BY QueuedAt
<1>8. /\ 1 \in 1 .. Len(Backlog(t)) /\ Backlog(t)[1].idx = i
      /\ Len(Tail(Backlog(t))) = Len(Backlog(t)) - 1
      /\ \A k \in 1 .. Len(Backlog(t)) - 1 :
            Tail(Backlog(t))[k] = Backlog(t)[k + 1] /\ k + 1 \in 1 .. Len(Backlog(t))
  <2>1. Backlog(t) \in Seq(Buf) /\ Backlog(t) # << >>
    BY <1>7
  <2>2. /\ Head(Backlog(t)) = Backlog(t)[1] /\ Len(Backlog(t)) \in Nat \ {0}
        /\ Len(Tail(Backlog(t))) = Len(Backlog(t)) - 1
        /\ \A k \in 1 .. Len(Backlog(t)) - 1 :
              Tail(Backlog(t))[k] = Backlog(t)[k + 1] /\ k + 1 \in 1 .. Len(Backlog(t))
    BY <2>1, TailFacts
  <2>. QED
    BY <2>2
<1>9. Queued(t, i) /\ Held(t, i)
  BY <1>8 DEF Queued, Held
<1>10. \A j \in Idx : Held(t, j) /\ j # i => n[i] < n[j]
  <2>. SUFFICES ASSUME NEW j \in Idx, Held(t, j), j # i
                PROVE  n[i] < n[j]
    OBVIOUS
  <2>1. CASE Started(t, j)
    BY <2>1, <1>6, <1>9 DEF BacklogSorted
  <2>2. CASE Queued(t, j)
    <3>1. PICK k \in 1 .. Len(Backlog(t)) : Backlog(t)[k].idx = j
      BY <2>2 DEF Queued
    <3>2. 1 < k
      BY <3>1, <1>7, <1>8
    <3>. QED
      BY <3>1, <3>2, <1>6, <1>8 DEF BacklogSorted
  <2>. QED
    BY <2>1, <2>2 DEF Held
\* The head starts where the file ends.
<1>11. g[i] = Len(file[t])
  <2>1. Reached(t, g, g[i])
    BY <1>6, <1>9 DEF Chained
  <2>2. ASSUME NEW j \in Idx, Held(t, j), Data(t, j) # << >>, EndOf(t, g, j) = g[i]
        PROVE  FALSE
    <3>1. CASE j = i
      BY <2>2, <3>1, <1>2 DEF EndOf
    <3>2. CASE j # i
      <4>1. EndOf(t, g, i) <= g[j]
        BY <2>2, <3>2, <1>6, <1>9, <1>10 DEF Chained
      <4>. QED
        BY <2>2, <4>1, <1>2 DEF EndOf
    <3>. QED
      BY <3>1, <3>2
  <2>. QED
    BY <2>1, <2>2 DEF Reached
<1>12. \A j \in Idx : EndOf(t, m, j)' = EndOf(t, g, j)
  <2>. TAKE j \in Idx
  <2>1. CASE j = i
    BY <2>1, <1>2, <1>3, <1>4, <1>11, <1>e DEF EndOf
  <2>2. CASE j # i
    BY <2>2, <1>4 DEF EndOf
  <2>. QED
    BY <2>1, <2>2
<1>13. EndOf(t, g, i) = e
  BY <1>11, <1>e DEF EndOf
<1>14. /\ \A j \in Idx : Started(t, j)' <=> Started(t, j)
       /\ \A j \in Idx : Ended(t, j)' <=> Ended(t, j)
       /\ ChanSorted(t, n)'
  BY <1>6 DEF KeepsChan
<1>15. /\ \A j \in Idx : Queued(t, j)' => Queued(t, j)
       /\ \A j \in Idx : Queued(t, j) /\ j # i => Queued(t, j)'
       /\ \A k, l \in 1 .. Len(Backlog(t)') :
             k < l => n[Backlog(t)'[k].idx] < n[Backlog(t)'[l].idx]
       /\ Queued(t, i)' => Backlog(t)' = Backlog(t)
  <2>1. CASE Backlog(t)' = Backlog(t)
    BY <2>1, <1>6 DEF Queued, BacklogSorted
  <2>2. CASE Backlog(t)' = Tail(Backlog(t))
    <3>. DEFINE s == Backlog(t)
                r == Tail(s)
    <3>1. /\ \A j : Queued(t, j)' <=> \E k \in 1 .. Len(r) : r[k].idx = j
          /\ \A j : Queued(t, j) <=> \E k \in 1 .. Len(s) : s[k].idx = j
          /\ Backlog(t)' = r
      BY <2>2 DEF Queued
    <3>2. /\ Len(s) \in Nat /\ s[1].idx = i /\ Len(r) = Len(s) - 1 /\ 1 \in 1 .. Len(s)
          /\ \A k \in 1 .. Len(s) - 1 : r[k] = s[k + 1] /\ k + 1 \in 1 .. Len(s)
          /\ \A k, l \in 1 .. Len(s) : k < l => n[s[k].idx] < n[s[l].idx]
      BY <1>6, <1>7, <1>8 DEF BacklogSorted
    <3>. HIDE DEF s, r
    <3>3. \A j \in Idx : Queued(t, j)' => Queued(t, j)
      BY <3>1, <3>2
    <3>4. ASSUME NEW j \in Idx, Queued(t, j), j # i
          PROVE  Queued(t, j)'
      <4>1. PICK k \in 1 .. Len(s) : s[k].idx = j
        BY <3>1, <3>4
      <4>2. k - 1 \in 1 .. Len(r) /\ k - 1 \in 1 .. Len(s) - 1 /\ (k - 1) + 1 = k
        BY <4>1, <3>2, <3>4
      <4>3. r[k - 1] = s[(k - 1) + 1]
        BY <4>2, <3>2
      <4>4. r[k - 1].idx = j
        BY <4>1, <4>2, <4>3
      <4>. QED
        BY <4>2, <4>4, <3>1
    <3>5. \A k, l \in 1 .. Len(r) : k < l => n[r[k].idx] < n[r[l].idx]
      <4>. TAKE k, l \in 1 .. Len(r)
      <4>1. /\ r[k] = s[k + 1] /\ r[l] = s[l + 1]
            /\ k + 1 \in 1 .. Len(s) /\ l + 1 \in 1 .. Len(s) /\ (k < l => k + 1 < l + 1)
        BY <3>2
      <4>. QED
        BY <4>1, <3>2
    <3>6. ~Queued(t, i)'
      <4>1. SUFFICES ASSUME NEW k \in 1 .. Len(r), r[k].idx = i
                     PROVE  FALSE
        BY <3>1
      <4>2. r[k] = s[k + 1] /\ k + 1 \in 1 .. Len(s) /\ 1 < k + 1
        BY <3>2
      <4>3. n[i] < n[i]
        BY <4>1, <4>2, <3>2
      <4>. QED
        BY <4>3, <1>2
    <3>. QED
      BY <3>1, <3>3, <3>4, <3>5, <3>6
  <2>. QED
    BY <2>1, <2>2
<1>16. /\ \A j \in Idx : Held(t, j)' => Held(t, j)
       /\ \A j \in Idx : Held(t, j) /\ j # i => Held(t, j)'
       /\ Held(t, i)' => Queued(t, i)' /\ Backlog(t)' = Backlog(t)
  <2>1. ~Started(t, i)
    <3>1. Started(t, i) => n[i] < n[i]
      BY <1>6, <1>9 DEF BacklogSorted
    <3>. QED
      BY <3>1, <1>2
  <2>. QED
    BY <2>1, <1>14, <1>15 DEF Held
<1>17. BacklogSorted(t, n)'
  BY <1>6, <1>14, <1>15 DEF BacklogSorted
<1>18. Paired(t, n)'
  BY <1>6, <1>14 DEF Paired
<1>19. ASSUME NEW x, Reached(t, g, x), x >= e
       PROVE  Reached(t, m, x)'
  <2>1. CASE x = Len(file[t])
    BY <2>1, <1>19, <1>2, <1>3, <1>5, <1>e DEF Reached
  <2>2. ASSUME NEW j \in Idx, Held(t, j), Data(t, j) # << >>, EndOf(t, g, j) = x
        PROVE  Reached(t, m, x)'
    <3>1. CASE j = i
      BY <2>2, <3>1, <1>5, <1>13 DEF Reached
    <3>2. CASE j # i
      <4>1. Held(t, j)' /\ Data(t, j)' # << >> /\ EndOf(t, m, j)' = x
        BY <2>2, <3>2, <1>12, <1>16
      <4>. QED
        BY <4>1 DEF Reached
    <3>. QED
      BY <3>1, <3>2
  <2>. QED
    BY <2>1, <2>2, <1>19 DEF Reached
<1>20. Chained(t, n, m)'
  <2>1. ASSUME NEW a \in Idx, NEW b \in Idx, Held(t, a)', Held(t, b)', n[a] < n[b]
        PROVE  EndOf(t, m, a)' <= m[b]
    <3>1. Held(t, a) /\ Held(t, b)
      BY <2>1, <1>16
    <3>2. b # i
      BY <2>1, <3>1, <1>2, <1>10
    <3>3. EndOf(t, g, a) <= g[b]
      BY <2>1, <3>1, <1>6 DEF Chained
    <3>. QED
      BY <3>2, <3>3, <1>4, <1>12
  <2>2. ASSUME NEW a \in Idx, Held(t, a)'
        PROVE  Reached(t, m, m[a])'
    <3>1. CASE a = i
      BY <3>1, <1>4, <1>5 DEF Reached
    <3>2. CASE a # i
      <4>1. Held(t, a) /\ n[i] < n[a] /\ m[a] = g[a]
        BY <2>2, <3>2, <1>4, <1>10, <1>16
      <4>2. EndOf(t, g, i) <= g[a] /\ Reached(t, g, g[a])
        BY <4>1, <1>6, <1>9 DEF Chained
      <4>. QED
        BY <4>1, <4>2, <1>2, <1>4, <1>13, <1>19
    <3>. QED
      BY <3>1, <3>2
  <2>. QED
    BY <2>1, <2>2 DEF Chained
<1>21. PartOfStream(t, g, i)
  BY <1>6, <1>9 DEF HeldMapped
<1>22. \A j \in Idx : PartOfStream(t, g, j) => PartOfStream(t, m, j)'
  <2>. SUFFICES ASSUME NEW j \in Idx, PartOfStream(t, g, j)
                PROVE  PartOfStream(t, m, j)'
    OBVIOUS
  <2>1. EndOf(t, m, j)' <= Len(stream[t]) /\ stream'[t] = stream[t]
    BY <1>12 DEF PartOfStream, KeepsTask
  <2>2. CASE j = i
    <3>1. \A k : ~(k \in 1 .. Len(Data(t, j)'))
      BY <2>2, <1>3
    <3>. QED
      BY <2>1, <3>1 DEF PartOfStream
  <2>3. CASE j # i
    BY <2>1, <2>3, <1>4 DEF PartOfStream
  <2>. QED
    BY <2>2, <2>3
<1>23. HeldMapped(t, m)'
  <2>. SUFFICES ASSUME NEW j \in Idx, Held(t, j)'
                PROVE  /\ Taken(t, j)'
                       /\ ppc'[t] # "gone" => j < nrBuf'[t]
                       /\ PartOfStream(t, m, j)'
    BY DEF HeldMapped
  <2>1. Held(t, j) /\ Taken(t, j) /\ (ppc[t] # "gone" => j < nrBuf[t]) /\ PartOfStream(t, g, j)
    BY <1>6, <1>16 DEF HeldMapped
  <2>2. Taken(t, j)'
    <3>1. CASE j = i
      <4>1. Backlog(t)' # Tail(Backlog(t))
        <5>1. Backlog(t)' = Backlog(t)
          BY <3>1, <1>16
        <5>. DEFINE p == Len(Backlog(t))
                    q == Len(Tail(Backlog(t)))
        <5>a. p \in Nat /\ q = p - 1
          BY <1>7, <1>8
        <5>. HIDE DEF p, q
        <5>b. p # q
          BY <5>a
        <5>2. Len(Tail(Backlog(t))) # Len(Backlog(t))
          BY <5>b DEF p, q
        <5>. QED
          BY <5>1, <5>2
      <4>. QED
        BY <2>1, <3>1, <4>1
    <3>. QED
      BY <2>1, <3>1
  <2>. QED
    BY <2>1, <2>2, <1>22 DEF KeepsTask
<1>24. FilePrefix(t)'
  <2>1. /\ EndOf(t, g, i) <= Len(stream[t])
        /\ \A k \in 1 .. Len(Data(t, i)) : Data(t, i)[k] = stream[t][g[i] + k]
    BY <1>21 DEF PartOfStream
  <2>2. \A k \in 1 .. Len(file[t]) : file[t][k] = stream[t][k]
    BY DEF Lane, FilePrefix
  <2>3. ASSUME NEW k \in 1 .. e
        PROVE  file'[t][k] = stream[t][k]
    <3>1. CASE k <= Len(file[t])
      BY <3>1, <2>2, <1>3, <1>4, <1>5
    <3>2. CASE ~(k <= Len(file[t]))
      <4>1. PICK j \in 1 .. Len(Data(t, i)) : k = g[i] + j
        <5>. k - Len(file[t]) \in 1 .. Len(Data(t, i)) /\ k = g[i] + (k - Len(file[t]))
          BY <3>2, <1>2, <1>3, <1>4, <1>11, <1>e
        <5>. QED
          OBVIOUS
      <4>2. file'[t][k] = Data(t, i)[k - Len(file[t])]
        BY <3>2, <1>5
      <4>3. k - Len(file[t]) = j
        BY <4>1, <1>3, <1>11
      <4>. QED
        BY <4>1, <4>2, <4>3, <2>1
    <3>. QED
      BY <3>1, <3>2
  <2>. QED
    BY <2>1, <2>3, <1>5, <1>13 DEF FilePrefix, KeepsTask
<1>25. Current(t, n, m)'
  <2>1. Storing(t)' <=> Storing(t)
    BY DEF Storing, KeepsTask
  <2>2. ASSUME Storing(t)
        PROVE  LastBuffer(t, curr[t], n, m)'
    <3>1. PICK c \in Idx : c = curr[t]
      BY <2>2, <1>1 DEF Storing, Types
    <3>2. LastBuffer(t, c, n, g)
      BY <2>2, <3>1 DEF Lane, Current
    <3>3. Taken(t, c)' /\ PartOfStream(t, m, c)' /\ EndOf(t, m, c)' = Len(stream[t])
      <4>1. c = i => Flushing
        BY <3>2, <1>9 DEF LastBuffer
      <4>. QED
        BY <3>2, <4>1, <1>12, <1>22 DEF LastBuffer
    <3>4. /\ \A a \in Idx : Held(t, a)' /\ a # c => n[a] < n[c]
          /\ ~Ended(t, c)'
          /\ Queued(t, c)' => Flushing'
          /\ Held(t, c)' => Held(t, c)
          /\ Started(t, c)' <=> Started(t, c)
          /\ Data(t, c)' = Data(t, c) \/ Data(t, c)' = << >>
      BY <3>2, <1>14, <1>15, <1>16 DEF LastBuffer
    <3>5. LastBuffer(t, c, n, m)'
      BY <3>2, <3>3, <3>4 DEF LastBuffer, KeepsTask
    <3>. QED
      BY <3>1, <3>5 DEF KeepsTask
  <2>. QED
    BY <2>1, <2>2 DEF Current, KeepsTask
<1>26. NoneOpen(t, n)'
  BY <1>14, <1>16 DEF Lane, NoneOpen, Between, KeepsTask
<1>27. NothingMissing(t, m)'
  <2>1. PICK x \in Nat : x = Len(stream[t])
    BY <1>3
  <2>2. e <= x
    BY <2>1, <1>13, <1>21 DEF PartOfStream
  <2>3. Reached(t, g, x) => Reached(t, m, x)'
    BY <2>1, <2>2, <1>19
  <2>. QED
    BY <2>1, <2>3 DEF Lane, NothingMissing, KeepsTask
<1>28. Fresh(t)'
  <2>1. ppc[t] # "none"
    BY <1>9 DEF Lane, Fresh
  <2>. QED
    BY <2>1 DEF Fresh, KeepsTask
<1>. QED
  BY <1>4, <1>14, <1>17, <1>18, <1>20, <1>23, <1>24, <1>25, <1>26, <1>27, <1>28 DEF Lane

-----------------------------------------------------------------------------
(* The lane of a task along its own steps: the pool and shmem_list_head stay. *)

LEMMA OwnStep ==
  ASSUME UNCHANGED <<poolVars, recorderVars>>, NEW t
  PROVE  /\ Backlog(t)' = Backlog(t) /\ (Flushing' <=> Flushing)
         /\ file' = file /\ stop' = stop /\ listed' = listed
         /\ \A j : Queued(t, j)' <=> Queued(t, j)
<1>1. /\ order' = order /\ queue' = queue /\ kicks' = kicks /\ bufDone' = bufDone /\ mpc' = mpc
      /\ wpc' = wpc /\ wtid' = wtid /\ head' = head /\ bufs' = bufs /\ file' = file
      /\ stop' = stop /\ listed' = listed
  BY DEF poolVars, recorderVars
<1>2. Backlog(t)' = Backlog(t)
  BY <1>1 DEF Backlog
<1>3. Flushing' <=> Flushing
  BY <1>1 DEF Flushing
<1>. QED
  BY <1>1, <1>2, <1>3 DEF Queued

\* What the parts of a lane are made of
LEMMA LaneTypes ==
  ASSUME Base, NEW t \in Tasks, NEW n \in Ranks, NEW g \in Ranks
  PROVE  /\ \A j \in Idx : /\ n[j] \in Nat /\ g[j] \in Nat /\ Data(t, j) \in Seq(Items)
                           /\ Len(Data(t, j)) \in Nat
                           /\ (Data(t, j) # << >> <=> Len(Data(t, j)) > 0)
         /\ file[t] \in Seq(Items) /\ stream[t] \in Seq(Items)
         /\ Len(file[t]) \in Nat /\ Len(stream[t]) \in Nat
         /\ next[t] \in Nat /\ next[t] >= 1 /\ curr[t] \in Idx \cup {-1} /\ nrBuf[t] \in Nat
<1>1. /\ Types /\ file[t] \in Seq(Items) /\ stream[t] \in Seq(Items)
      /\ \A j \in Idx : Data(t, j) \in Seq(Items)
      /\ next[t] \in 1 .. MaxRec + 1 /\ curr[t] \in Idx \cup {-1} /\ nrBuf[t] \in 0 .. MaxBuf
  BY DEF Base, Types, Data
<1>2. Len(file[t]) \in Nat /\ Len(stream[t]) \in Nat
  BY <1>1, LenProperties
<1>3. ASSUME NEW j \in Idx
      PROVE  Len(Data(t, j)) \in Nat /\ (Data(t, j) # << >> <=> Len(Data(t, j)) > 0)
  <2>1. Data(t, j) \in Seq(Items)
    BY <1>1
  <2>2. Len(Data(t, j)) \in Nat
    BY <2>1, LenProperties
  <2>. QED
    BY <2>1, <2>2, EmptySeq
<1>. QED
  BY <1>1, <1>2, <1>3, RecordingAssumption DEF Ranks

\* A record or a LOST record is stored in the current buffer.
LEMMA LaneExtend ==
  ASSUME Base, NEW t \in Tasks, NEW n \in Ranks, NEW g \in Ranks, Lane(t, n, g),
         UNCHANGED <<poolVars, recorderVars, pfdOpen>>,
         NEW c \in Idx, curr[t] = c, ppc[t] \in {"rec", "lost", "store"}, NEW x \in Items,
         KeepsChan(t),
         Data(t, c)' = Append(Data(t, c), x), stream'[t] = Append(stream[t], x),
         \A j \in Idx \ {c} : Data(t, j)' = Data(t, j),
         \A j \in Idx : Taken(t, j)' <=> Taken(t, j),
         curr'[t] = c, nrBuf'[t] = nrBuf[t], (t \in blind') <=> (t \in blind),
         \/ ppc'[t] = "rec" /\ next'[t] = next[t] + 1
         \/ ppc'[t] = "store" /\ next'[t] = next[t]
  PROVE  Lane(t, n, g)'
<1>1. /\ Backlog(t)' = Backlog(t) /\ (Flushing' <=> Flushing)
      /\ file' = file /\ stop' = stop /\ pfdOpen' = pfdOpen
      /\ \A j : Queued(t, j)' <=> Queued(t, j)
  BY OwnStep
<1>2. /\ \A j \in Idx : Started(t, j)' <=> Started(t, j)
      /\ \A j \in Idx : Ended(t, j)' <=> Ended(t, j)
      /\ \A j \in Idx : Held(t, j)' <=> Held(t, j)
      /\ ChanSorted(t, n)'
  BY <1>1 DEF KeepsChan, Held, Lane
<1>3. /\ \A j \in Idx : /\ n[j] \in Nat /\ g[j] \in Nat /\ Data(t, j) \in Seq(Items)
                        /\ Len(Data(t, j)) \in Nat
                        /\ (Data(t, j) # << >> <=> Len(Data(t, j)) > 0)
      /\ stream[t] \in Seq(Items) /\ Len(file[t]) \in Nat /\ Len(stream[t]) \in Nat
      /\ next[t] \in Nat
  BY LaneTypes
<1>d. PICK d \in Seq(Items), s \in Seq(Items) : d = Data(t, c) /\ s = stream[t]
  BY <1>3
<1>z. Len(d) \in Nat /\ Len(s) \in Nat
  BY LenProperties
<1>4. /\ Len(Data(t, c)') = Len(d) + 1
      /\ \A k \in 1 .. Len(d) : Data(t, c)'[k] = d[k]
      /\ Data(t, c)'[Len(d) + 1] = x
  BY <1>d, AppendProperties
<1>5. /\ Len(stream'[t]) = Len(s) + 1
      /\ \A k \in 1 .. Len(s) : stream'[t][k] = s[k]
      /\ stream'[t][Len(s) + 1] = x
  BY <1>d, AppendProperties
<1>6. LastBuffer(t, c, n, g)
  <2>1. c # -1
    BY RecordingAssumption DEF Idx
  <2>. QED
    BY <2>1 DEF Lane, Current, Storing
<1>7. /\ EndOf(t, g, c) = Len(s) /\ EndOf(t, g, c)' = Len(s) + 1
      /\ g[c] + Len(d) = Len(s)
      /\ \A j \in Idx \ {c} : EndOf(t, g, j)' = EndOf(t, g, j)
  <2>1. EndOf(t, g, c) = Len(s)
    BY <1>6, <1>d DEF LastBuffer
  <2>2. g[c] + Len(d) = Len(s)
    BY <2>1, <1>d DEF EndOf
  <2>3. EndOf(t, g, c)' = g[c] + (Len(d) + 1)
    BY <1>4 DEF EndOf
  <2>4. \A j \in Idx \ {c} : EndOf(t, g, j)' = EndOf(t, g, j)
    BY DEF EndOf
  <2>5. g[c] \in Nat
    BY <1>3
  <2>6. EndOf(t, g, c)' = Len(s) + 1
    <3>. DEFINE a == g[c]
                p == Len(d)
                q == Len(s)
    <3>1. a \in Nat /\ p \in Nat /\ q \in Nat /\ a + p = q
      BY <2>2, <2>5, <1>z
    <3>2. EndOf(t, g, c)' = a + (p + 1)
      BY <2>3
    <3>. HIDE DEF a, p, q
    <3>3. a + (p + 1) = q + 1
      BY <3>1
    <3>. QED
      BY <3>2, <3>3 DEF q
  <2>. QED
    BY <2>1, <2>2, <2>4, <2>6
<1>8. \A j \in Idx : Held(t, j) /\ j # c => n[j] < n[c]
  BY <1>6 DEF LastBuffer
<1>9. Chained(t, n, g)
  BY DEF Lane
<1>10. ASSUME NEW y, Reached(t, g, y), y # EndOf(t, g, c) \/ y = Len(file[t])
       PROVE  Reached(t, g, y)'
  <2>1. CASE y = Len(file[t])
    BY <2>1, <1>1 DEF Reached
  <2>2. ASSUME NEW j \in Idx, Held(t, j), Data(t, j) # << >>, EndOf(t, g, j) = y, j # c
        PROVE  Reached(t, g, y)'
    <3>1. Held(t, j)' /\ Data(t, j)' # << >> /\ EndOf(t, g, j)' = y
      BY <2>2, <1>2, <1>7
    <3>. QED
      BY <3>1 DEF Reached
  <2>. QED
    BY <2>1, <2>2, <1>10 DEF Reached
<1>11. Chained(t, n, g)'
  <2>1. ASSUME NEW a \in Idx, NEW b \in Idx, Held(t, a)', Held(t, b)', n[a] < n[b]
        PROVE  EndOf(t, g, a)' <= g[b]
    <3>1. Held(t, a) /\ Held(t, b) /\ EndOf(t, g, a) <= g[b]
      BY <2>1, <1>2, <1>9 DEF Chained
    <3>2. a # c
      <4>1. n[a] \in Nat /\ n[b] \in Nat /\ n[c] \in Nat
        BY <1>3
      <4>2. b = c \/ n[b] < n[c]
        BY <3>1, <1>8
      <4>. QED
        BY <2>1, <4>1, <4>2
    <3>. QED
      BY <3>1, <3>2, <1>7
  <2>2. ASSUME NEW a \in Idx, Held(t, a)'
        PROVE  Reached(t, g, g[a])'
    <3>1. Held(t, a) /\ Reached(t, g, g[a])
      BY <2>2, <1>2, <1>9 DEF Chained
    <3>2. CASE g[a] # EndOf(t, g, c) \/ g[a] = Len(file[t])
      BY <3>1, <3>2, <1>10
    <3>3. ASSUME NEW j \in Idx, Held(t, j), Data(t, j) # << >>, EndOf(t, g, j) = g[a], j # c
          PROVE  Reached(t, g, g[a])'
      <4>1. Held(t, j)' /\ Data(t, j)' # << >> /\ EndOf(t, g, j)' = g[a]
        BY <3>3, <1>2, <1>7
      <4>. QED
        BY <4>1 DEF Reached
    <3>4. ASSUME Held(t, c), Data(t, c) # << >>, EndOf(t, g, c) = g[a]
          PROVE  FALSE
      <4>1. CASE a = c
        BY <3>4, <4>1, <1>3 DEF EndOf
      <4>2. CASE a # c
        <5>1. EndOf(t, g, a) <= g[c]
          BY <3>1, <3>4, <4>2, <1>8, <1>9 DEF Chained
        <5>. QED
          BY <3>4, <5>1, <1>3 DEF EndOf
      <4>. QED
        BY <4>1, <4>2
    <3>. QED
      BY <3>1, <3>2, <3>3, <3>4 DEF Reached
  <2>. QED
    BY <2>1, <2>2 DEF Chained
<1>12. PartOfStream(t, g, c)'
  <2>1. \A k \in 1 .. Len(d) : d[k] = s[g[c] + k]
    BY <1>6, <1>d, <1>z DEF LastBuffer, PartOfStream
  <2>2. ASSUME NEW k \in 1 .. Len(d) + 1
        PROVE  Data(t, c)'[k] = stream'[t][g[c] + k]
    <3>1. CASE k \in 1 .. Len(d)
      <4>1. g[c] + k \in 1 .. Len(s)
        BY <3>1, <1>3, <1>7, <1>d, <1>z
      <4>. QED
        BY <3>1, <4>1, <2>1, <1>4, <1>5
    <3>2. CASE k = Len(d) + 1
      <4>1. g[c] + k = Len(s) + 1
        BY <3>2, <1>3, <1>7, <1>d, <1>z
      <4>. QED
        BY <3>2, <4>1, <1>4, <1>5
    <3>3. k \in 1 .. Len(d) \/ k = Len(d) + 1
      BY <1>z
    <3>. QED
      BY <3>1, <3>2, <3>3
  <2>3. EndOf(t, g, c)' <= Len(stream'[t])
    BY <1>3, <1>5, <1>7, <1>d, <1>z
  <2>. QED
    BY <2>2, <2>3, <1>4 DEF PartOfStream
<1>13. ASSUME NEW j \in Idx, PartOfStream(t, g, j), j # c
       PROVE  PartOfStream(t, g, j)'
  <2>1. EndOf(t, g, j) <= Len(s) /\ \A k \in 1 .. Len(Data(t, j)) : Data(t, j)[k] = s[g[j] + k]
    BY <1>13, <1>d, <1>z DEF PartOfStream
  <2>2. EndOf(t, g, j)' <= Len(stream'[t])
    BY <2>1, <1>3, <1>5, <1>7, <1>13, <1>d, <1>z DEF EndOf
  <2>3. ASSUME NEW k \in 1 .. Len(Data(t, j))
        PROVE  Data(t, j)[k] = stream'[t][g[j] + k]
    <3>1. g[j] + k \in 1 .. Len(s)
      BY <2>1, <1>3, <1>d, <1>z DEF EndOf
    <3>. QED
      BY <3>1, <2>1, <1>5
  <2>. QED
    BY <2>2, <2>3, <1>13 DEF PartOfStream
<1>14. HeldMapped(t, g)'
  <2>. SUFFICES ASSUME NEW j \in Idx, Held(t, j)'
                PROVE  /\ Taken(t, j)'
                       /\ ppc'[t] # "gone" => j < nrBuf'[t]
                       /\ PartOfStream(t, g, j)'
    BY DEF HeldMapped
  <2>1. Held(t, j) /\ Taken(t, j) /\ j < nrBuf[t] /\ PartOfStream(t, g, j)
    BY <1>2 DEF Lane, HeldMapped
  <2>. QED
    BY <2>1, <1>12, <1>13
<1>15. FilePrefix(t)'
  <2>1. Len(file[t]) <= Len(s) /\ \A k \in 1 .. Len(file[t]) : file[t][k] = s[k]
    BY <1>d, <1>z DEF Lane, FilePrefix
  <2>2. \A k \in 1 .. Len(file[t]) : k \in 1 .. Len(s)
    BY <2>1, <1>3, <1>d, <1>z
  <2>. QED
    BY <2>1, <2>2, <1>1, <1>3, <1>5, <1>d, <1>z DEF FilePrefix
<1>16. Current(t, n, g)'
  <2>1. LastBuffer(t, c, n, g)'
    <3>1. ppc'[t] \in {"rec", "store"} /\ next[t] <= next'[t] /\ (ppc'[t] = "rec" => next[t] < next'[t])
      BY <1>3
    <3>2. n[c] <= next'[t] /\ (ppc'[t] = "rec" => n[c] < next'[t])
      BY <3>1, <1>3, <1>6 DEF LastBuffer
    <3>3. EndOf(t, g, c)' = Len(stream'[t])
      BY <1>5, <1>7
    <3>. QED
      BY <3>1, <3>2, <3>3, <1>1, <1>2, <1>6, <1>12 DEF LastBuffer
  <2>. QED
    BY <2>1 DEF Current
<1>17. NoneOpen(t, n)'
  BY DEF NoneOpen, Between, Idx
<1>18. NothingMissing(t, g)'
  <2>1. SUFFICES ASSUME t \notin blind, stop \in {"no", "exited"}
                 PROVE  Reached(t, g, Len(stream[t]))'
    BY <1>1 DEF NothingMissing
  <2>2. stop # "exited"
    BY DEF Base, Phased
  <2>3. Held(t, c)'
    BY <2>1, <2>2, <1>2, <1>6 DEF LastBuffer, Held
  <2>4. Data(t, c)' # << >>
    BY <1>3, <1>4, EmptySeq, <1>d, <1>z
  <2>. QED
    BY <2>3, <2>4, <1>5, <1>7 DEF Reached
<1>19. Fresh(t)'
  BY DEF Fresh
<1>20. BacklogSorted(t, n)' /\ Paired(t, n)'
  BY <1>1, <1>2 DEF Lane, BacklogSorted, Paired
<1>. QED
  BY <1>2, <1>11, <1>14, <1>15, <1>16, <1>17, <1>18, <1>19, <1>20 DEF Lane

\* The current buffer is announced (START) or given up (END); or nothing is sent because
\* mcount_pfd is closed or uftrace has stopped reading.
Announces(y, t, c) ==
    IF pfdOpen /\ stop = "no" THEN Chan' = Append(Chan, Message(y, t, c)) ELSE Chan' = Chan

\* What a step that sends a message about the task does to the channel
LEMMA AnnounceChan ==
  ASSUME Base, NEW t \in Tasks, NEW c \in Idx, NEW y \in {"START", "END"}, Announces(y, t, c)
  PROVE  /\ MsgShape'
         /\ \A j : Started(t, j)' <=>
               Started(t, j) \/ (pfdOpen /\ stop = "no" /\ y = "START" /\ j = c)
         /\ \A j : Ended(t, j)' <=>
               Ended(t, j) \/ (pfdOpen /\ stop = "no" /\ y = "END" /\ j = c)
         /\ \A u \in Tasks \ {t} : KeepsChan(u)
         /\ \A n \in Ranks : /\ ChanSorted(t, n)
                             /\ \A i \in Idx :
                                 /\ Started(t, i) => n[i] < n[c] \/ (y = "END" /\ i = c)
                                 /\ Ended(t, i) => n[i] < n[c]
                             => ChanSorted(t, n)'
<1>1. Types /\ MsgShape
  BY DEF Base
<1>2. CASE pfdOpen /\ stop = "no"
  <2>1. Chan' = Append(Chan, Message(y, t, c))
    BY <1>2 DEF Announces
  <2>2. /\ MsgShape'
        /\ \A u, j : Started(u, j)' <=> Started(u, j) \/ (y = "START" /\ u = t /\ j = c)
        /\ \A u, j : Ended(u, j)' <=> Ended(u, j) \/ (y = "END" /\ u = t /\ j = c)
        /\ \A u \in Tasks \ {t}, m \in Ranks : ChanSorted(u, m) => ChanSorted(u, m)'
        /\ \A n \in Ranks : /\ ChanSorted(t, n)
                            /\ \A i \in Idx :
                                /\ Started(t, i) => n[i] < n[c] \/ (y = "END" /\ i = c)
                                /\ Ended(t, i) => n[i] < n[c]
                            => ChanSorted(t, n)'
    BY <1>1, <2>1, SendAbout
  <2>3. \A u \in Tasks \ {t} : KeepsChan(u)
    BY <2>2 DEF KeepsChan
  <2>. QED
    BY <1>2, <2>2, <2>3
<1>3. CASE ~(pfdOpen /\ stop = "no")
  <2>1. ChanQuiet
    BY <1>1, <1>3, ChanSame DEF Announces
  <2>. QED
    BY <1>3, <2>1 DEF ChanQuiet, KeepsChan
<1>. QED
  BY <1>2, <1>3

\* The data, the stream and the file stay: so does what a lane says of them.
LEMMA SameData ==
  ASSUME NEW t, KeepsData(t), stream'[t] = stream[t]
  PROVE  /\ \A g : \A j \in Idx : /\ EndOf(t, g, j)' = EndOf(t, g, j)
                                  /\ PartOfStream(t, g, j)' <=> PartOfStream(t, g, j)
         /\ FilePrefix(t)' <=> FilePrefix(t)
         /\ \A g, x : (\A j \in Idx : Held(t, j) => Held(t, j)') /\ Reached(t, g, x)
                          => Reached(t, g, x)'
<1>1. /\ \A j \in Idx : Data(t, j)' = Data(t, j)
      /\ file'[t] = file[t] /\ stream'[t] = stream[t]
  BY DEF KeepsData
<1>2. \A g : \A j \in Idx : /\ EndOf(t, g, j)' = EndOf(t, g, j)
                            /\ PartOfStream(t, g, j)' <=> PartOfStream(t, g, j)
  BY <1>1 DEF EndOf, PartOfStream
<1>3. FilePrefix(t)' <=> FilePrefix(t)
  BY <1>1 DEF FilePrefix
<1>4. \A g, x : (\A j \in Idx : Held(t, j) => Held(t, j)') /\ Reached(t, g, x)
                          => Reached(t, g, x)'
  BY <1>1, <1>2 DEF Reached
<1>. QED
  BY <1>2, <1>3, <1>4

\* The current buffer is full, or the thread ends: END is sent.
LEMMA LaneEnd ==
  ASSUME Base, NEW t \in Tasks, NEW n \in Ranks, NEW g \in Ranks, Lane(t, n, g),
         UNCHANGED <<poolVars, recorderVars, pfdOpen, blind>>,
         NEW c \in Idx, curr[t] = c, ppc[t] = "rec", Announces("END", t, c),
         KeepsData(t), stream'[t] = stream[t], next'[t] = next[t],
         \/ ppc'[t] = "new" /\ Data(t, c) # << >> /\ nrBuf'[t] = nrBuf[t]
         \/ ppc'[t] = "gone"
  PROVE  Lane(t, n, g)'
<1>1. /\ Backlog(t)' = Backlog(t) /\ file' = file /\ stop' = stop /\ blind' = blind /\ pfdOpen' = pfdOpen
      /\ \A j : Queued(t, j)' <=> Queued(t, j)
  BY OwnStep
<1>2. /\ \A j : Started(t, j)' <=> Started(t, j)
      /\ \A j : Ended(t, j)' <=> Ended(t, j) \/ (pfdOpen /\ stop = "no" /\ j = c)
      /\ \A j : Held(t, j)' <=> Held(t, j)
  BY <1>1, AnnounceChan DEF Held
<1>3. \A j \in Idx : n[j] \in Nat
  BY DEF Ranks
<1>4. LastBuffer(t, c, n, g)
  <2>1. c # -1
    BY RecordingAssumption DEF Idx
  <2>. QED
    BY <2>1 DEF Lane, Current, Storing
<1>5. \A j \in Idx : Held(t, j) /\ j # c => n[j] < n[c]
  BY <1>4 DEF LastBuffer
<1>6. Paired(t, n) /\ ChanSorted(t, n) /\ ~Ended(t, c)
  BY <1>4 DEF Lane, LastBuffer
<1>7. ChanSorted(t, n)'
  <2>1. \A i \in Idx : /\ Started(t, i) => n[i] < n[c] \/ i = c
                       /\ Ended(t, i) => n[i] < n[c]
    BY <1>5, <1>6 DEF Paired, Held
  <2>. QED
    BY <2>1, <1>6, AnnounceChan
<1>8. pfdOpen /\ stop = "no" => Started(t, c)
  <2>1. pfdOpen => t \notin blind
    BY DEF Base, Phased
  <2>. QED
    BY <2>1, <1>4 DEF LastBuffer
<1>9. Paired(t, n)'
  BY <1>2, <1>6, <1>8 DEF Paired
<1>10. BacklogSorted(t, n)'
  BY <1>1, <1>2 DEF Lane, BacklogSorted
<1>11. /\ \A j \in Idx : /\ EndOf(t, g, j)' = EndOf(t, g, j)
                         /\ PartOfStream(t, g, j)' <=> PartOfStream(t, g, j)
       /\ FilePrefix(t)'
       /\ \A x : Reached(t, g, x) => Reached(t, g, x)'
  BY <1>2, SameData DEF Lane
<1>12. Chained(t, n, g)'
  BY <1>2, <1>11 DEF Lane, Chained
<1>13. HeldMapped(t, g)'
  BY <1>2, <1>11 DEF Lane, HeldMapped, KeepsData
<1>14. Current(t, n, g)'
  BY DEF Current, Storing
<1>15. NoneOpen(t, n)'
  <2>1. ASSUME ppc'[t] = "new", NEW i \in Idx, Held(t, i)'
        PROVE  n[i] < next'[t]
    <3>1. Data(t, c) # << >>
      BY <2>1
    <3>2. n[c] < next[t] /\ next[t] \in Nat
      BY <3>1, <1>4, LaneTypes DEF LastBuffer
    <3>3. i = c \/ n[i] < n[c]
      BY <2>1, <1>2, <1>5
    <3>. QED
      BY <3>2, <3>3, <1>3
  <2>2. ASSUME pfdOpen, stop = "no", NEW i \in Idx, Started(t, i)
        PROVE  Ended(t, i)'
    <3>1. CASE i = c
      BY <2>2, <3>1, <1>2
    <3>2. CASE i # c
      <4>1. n[i] < n[c] /\ Started(t, c)
        BY <2>2, <3>2, <1>5, <1>8 DEF Held
      <4>. QED
        BY <2>2, <4>1, <1>2, <1>6 DEF Paired
    <3>. QED
      BY <3>1, <3>2
  <2>. QED
    BY <2>1, <2>2, <1>1, <1>2 DEF NoneOpen, Between
<1>16. NothingMissing(t, g)'
  BY <1>1, <1>11 DEF Lane, NothingMissing
<1>17. Fresh(t)'
  BY DEF Fresh
<1>. QED
  BY <1>7, <1>9, <1>10, <1>11, <1>12, <1>13, <1>14, <1>15, <1>16, <1>17 DEF Lane

\* The new current buffer is announced: START is sent.
LEMMA LaneStart ==
  ASSUME Base, NEW t \in Tasks, NEW n \in Ranks, NEW g \in Ranks, Lane(t, n, g),
         UNCHANGED <<poolVars, recorderVars, pfdOpen>>,
         NEW c \in Idx, curr[t] = c, ppc[t] = "start", Announces("START", t, c),
         KeepsData(t), stream'[t] = stream[t], next'[t] = next[t], nrBuf'[t] = nrBuf[t],
         curr'[t] = c, (t \in blind') <=> (t \in blind \/ ~pfdOpen),
         ppc'[t] \in {"lost", "store"}
  PROVE  Lane(t, n, g)'
<1>1. /\ Backlog(t)' = Backlog(t) /\ file' = file /\ stop' = stop /\ pfdOpen' = pfdOpen
      /\ (Flushing' <=> Flushing)
      /\ \A j : Queued(t, j)' <=> Queued(t, j)
  BY OwnStep
<1>2. /\ \A j : Started(t, j)' <=> Started(t, j) \/ (pfdOpen /\ stop = "no" /\ j = c)
      /\ \A j : Ended(t, j)' <=> Ended(t, j)
      /\ \A j : Held(t, j)' <=> Held(t, j) \/ (pfdOpen /\ stop = "no" /\ j = c)
  BY <1>1, AnnounceChan DEF Held
<1>3. \A j \in Idx : n[j] \in Nat /\ g[j] \in Nat
  BY DEF Ranks
<1>4. LastBuffer(t, c, n, g)
  <2>1. c # -1
    BY RecordingAssumption DEF Idx
  <2>. QED
    BY <2>1 DEF Lane, Current, Storing
<1>5. /\ \A j \in Idx : Held(t, j) => n[j] < n[c]
      /\ ~Held(t, c) /\ Data(t, c) = << >> /\ EndOf(t, g, c) = g[c] /\ g[c] = Len(stream[t])
      /\ PartOfStream(t, g, c)
  <2>1. Len(<< >>) = 0
    BY EmptySeq
  <2>. QED
    BY <2>1, <1>3, <1>4 DEF LastBuffer, EndOf
<1>6. Paired(t, n) /\ ChanSorted(t, n) /\ Chained(t, n, g) /\ HeldMapped(t, g) /\ ~Ended(t, c)
  BY <1>4 DEF Lane, LastBuffer
<1>7. ChanSorted(t, n)'
  <2>1. \A i \in Idx : /\ Started(t, i) => n[i] < n[c]
                       /\ Ended(t, i) => n[i] < n[c]
    BY <1>5, <1>6 DEF Paired, Held
  <2>. QED
    BY <2>1, <1>6, AnnounceChan
<1>8. pfdOpen /\ stop = "no" => \A i \in Idx : Started(t, i) => Ended(t, i)
  BY DEF Lane, NoneOpen
<1>9. Paired(t, n)'
  <2>1. ASSUME NEW i \in Idx, NEW j \in Idx, Started(t, i)', Started(t, j)', n[i] < n[j]
        PROVE  Ended(t, i)'
    <3>1. CASE Started(t, i) /\ Started(t, j)
      BY <2>1, <3>1, <1>2, <1>6 DEF Paired
    <3>2. CASE pfdOpen /\ stop = "no" /\ i = c
      <4>1. j = c \/ n[j] < n[c]
        BY <2>1, <1>2, <1>5 DEF Held
      <4>. QED
        BY <2>1, <3>2, <4>1, <1>3
    <3>3. CASE pfdOpen /\ stop = "no" /\ i # c
      BY <2>1, <3>3, <1>2, <1>8
    <3>. QED
      BY <2>1, <3>1, <3>2, <3>3, <1>2
  <2>. QED
    BY <2>1, <1>2, <1>6 DEF Paired
<1>10. BacklogSorted(t, n)'
  <2>1. \A i \in Idx : Queued(t, i) => n[i] < n[c]
    BY <1>5 DEF Held
  <2>. QED
    BY <2>1, <1>1, <1>2 DEF Lane, BacklogSorted
<1>11. /\ \A j \in Idx : /\ EndOf(t, g, j)' = EndOf(t, g, j)
                         /\ PartOfStream(t, g, j)' <=> PartOfStream(t, g, j)
       /\ FilePrefix(t)'
       /\ \A x : Reached(t, g, x) => Reached(t, g, x)'
  BY <1>2, SameData DEF Lane
<1>12. \A j \in Idx : Held(t, j) => EndOf(t, g, j) <= g[c]
  BY <1>5, <1>6 DEF HeldMapped, PartOfStream
<1>13. pfdOpen /\ stop = "no" => Reached(t, g, g[c])
  <2>1. pfdOpen => t \notin blind
    BY DEF Base, Phased
  <2>. QED
    BY <2>1, <1>5 DEF Lane, NothingMissing
<1>14. Chained(t, n, g)'
  <2>1. ASSUME NEW i \in Idx, NEW j \in Idx, Held(t, i)', Held(t, j)', n[i] < n[j]
        PROVE  EndOf(t, g, i)' <= g[j]
    <3>1. CASE Held(t, i) /\ Held(t, j)
      BY <2>1, <3>1, <1>6, <1>11 DEF Chained
    <3>2. CASE Held(t, i) /\ j = c
      BY <3>2, <1>11, <1>12
    <3>3. CASE i = c
      <4>1. j = c \/ n[j] < n[c]
        BY <2>1, <1>2, <1>5
      <4>. QED
        BY <2>1, <3>3, <4>1, <1>3
    <3>. QED
      BY <2>1, <3>1, <3>2, <3>3, <1>2
  <2>2. ASSUME NEW i \in Idx, Held(t, i)'
        PROVE  Reached(t, g, g[i])'
    BY <2>2, <1>2, <1>6, <1>11, <1>13 DEF Chained
  <2>. QED
    BY <2>1, <2>2 DEF Chained
<1>15. HeldMapped(t, g)'
  <2>1. Taken(t, c) /\ c < nrBuf[t]
    BY <1>4 DEF LastBuffer
  <2>. QED
    BY <2>1, <1>2, <1>5, <1>6, <1>11 DEF HeldMapped, KeepsData
<1>16. Current(t, n, g)'
  <2>1. pfdOpen => t \notin blind
    BY DEF Base, Phased
  <2>2. ASSUME TRUE
        PROVE  LastBuffer(t, c, n, g)'
    <3>1. /\ Taken(t, c)' /\ c < nrBuf'[t] /\ PartOfStream(t, g, c)'
          /\ EndOf(t, g, c)' = Len(stream'[t]) /\ Data(t, c)' = << >>
          /\ n[c] <= next'[t]
      BY <1>4, <1>5, <1>11 DEF LastBuffer, KeepsData
    <3>2. /\ \A i \in Idx : Held(t, i)' /\ i # c => n[i] < n[c]
          /\ ~Ended(t, c)'
          /\ ~Queued(t, c)'
      BY <1>1, <1>2, <1>5, <1>6 DEF Held
    <3>3. /\ t \in blind' /\ stop' = "no" => ~Held(t, c)'
          /\ stop' = "no" /\ t \notin blind' => Started(t, c)'
      BY <2>1, <1>1, <1>2, <1>5
    <3>. QED
      BY <3>1, <3>2, <3>3 DEF LastBuffer
  <2>. QED
    BY <2>2 DEF Current
<1>17. NoneOpen(t, n)'
  BY DEF NoneOpen, Between
<1>18. NothingMissing(t, g)'
  <2>1. stop # "exited"
    BY DEF Base, Phased
  <2>. QED
    BY <2>1, <1>1, <1>11 DEF Lane, NothingMissing
<1>19. Fresh(t)'
  BY DEF Fresh
<1>. QED
  BY <1>7, <1>9, <1>10, <1>11, <1>14, <1>15, <1>16, <1>17, <1>18, <1>19 DEF Lane

\* The thread is gone, or has lost a record: it has no current buffer any more.
LEMMA LaneNoBuffer ==
  ASSUME Base, NEW t \in Tasks, NEW n \in Ranks, NEW g \in Ranks, Lane(t, n, g),
         UNCHANGED <<poolVars, recorderVars, pfdOpen, blind>>, KeepsChan(t),
         KeepsData(t), stream'[t] = stream[t],
         \/ ppc'[t] = "gone"
         \/ /\ Between(t) /\ ppc'[t] = "rec" /\ curr'[t] = -1
            /\ next'[t] = next[t] + 1 /\ nrBuf'[t] = nrBuf[t]
  PROVE  Lane(t, n, g)'
<1>1. /\ Backlog(t)' = Backlog(t) /\ file' = file /\ stop' = stop /\ pfdOpen' = pfdOpen
      /\ blind' = blind
      /\ \A j : Queued(t, j)' <=> Queued(t, j)
  BY OwnStep
<1>2. /\ \A j \in Idx : Started(t, j)' <=> Started(t, j)
      /\ \A j \in Idx : Ended(t, j)' <=> Ended(t, j)
      /\ \A j \in Idx : Held(t, j)' <=> Held(t, j)
      /\ ChanSorted(t, n)'
  BY <1>1 DEF KeepsChan, Held, Lane
<1>3. Paired(t, n)' /\ BacklogSorted(t, n)'
  BY <1>1, <1>2 DEF Lane, Paired, BacklogSorted
<1>4. /\ \A j \in Idx : /\ EndOf(t, g, j)' = EndOf(t, g, j)
                        /\ PartOfStream(t, g, j)' <=> PartOfStream(t, g, j)
      /\ FilePrefix(t)'
      /\ \A x : Reached(t, g, x) => Reached(t, g, x)'
  BY <1>2, SameData DEF Lane
<1>5. Chained(t, n, g)'
  BY <1>2, <1>4 DEF Lane, Chained
<1>6. HeldMapped(t, g)'
  BY <1>2, <1>4 DEF Lane, HeldMapped, KeepsData, Between
<1>7. Current(t, n, g)'
  BY DEF Current, Storing
<1>8. NoneOpen(t, n)'
  <2>1. CASE ppc'[t] = "gone"
    BY <2>1 DEF NoneOpen, Between
  <2>2. CASE Between(t) /\ ppc'[t] = "rec" /\ curr'[t] = -1 /\ next'[t] = next[t] + 1
    <3>1. next[t] \in Nat /\ \A j \in Idx : n[j] \in Nat
      BY LaneTypes
    <3>2. \A j \in Idx : Held(t, j) => n[j] < next[t] + 1
      BY <2>2, <3>1 DEF Lane, NoneOpen
    <3>3. pfdOpen /\ stop = "no" => \A j \in Idx : Started(t, j) => Ended(t, j)
      BY <2>2 DEF Lane, NoneOpen
    <3>. QED
      BY <2>2, <3>2, <3>3, <1>1, <1>2 DEF NoneOpen
  <2>. QED
    BY <2>1, <2>2
<1>9. NothingMissing(t, g)'
  BY <1>1, <1>4 DEF Lane, NothingMissing
<1>10. Fresh(t)'
  BY DEF Fresh
<1>. QED
  BY <1>2, <1>3, <1>4, <1>5, <1>6, <1>7, <1>8, <1>9, <1>10 DEF Lane

\* A buffer nobody holds becomes the current one: it is the last one that was started, and
\* begins where the stream ends.
LEMMA LaneBegin ==
  ASSUME Base, NEW t \in Tasks, NEW n \in Ranks, NEW g \in Ranks, Lane(t, n, g),
         UNCHANGED <<poolVars, recorderVars, pfdOpen, blind>>, Chan' = Chan, Between(t),
         NEW c \in Idx, ~Held(t, c),
         Data(t, c)' = << >>, Taken(t, c)',
         \A j \in Idx \ {c} : Data(t, j)' = Data(t, j) /\ (Taken(t, j)' <=> Taken(t, j)),
         ppc'[t] = "start", curr'[t] = c, stream'[t] = stream[t], next'[t] = next[t],
         c < nrBuf'[t], \A j \in Idx : Held(t, j) => j < nrBuf'[t]
  PROVE  \E m, h \in Ranks : Lane(t, m, h)'
<1>1. /\ Backlog(t)' = Backlog(t) /\ file' = file /\ stop' = stop /\ pfdOpen' = pfdOpen
      /\ blind' = blind
      /\ \A j : Queued(t, j)' <=> Queued(t, j)
  BY OwnStep
<1>2. /\ \A j \in Idx : Started(t, j)' <=> Started(t, j)
      /\ \A j \in Idx : Ended(t, j)' <=> Ended(t, j)
      /\ \A j \in Idx : Held(t, j)' <=> Held(t, j)
  BY <1>1 DEF Held, Started, Ended
<1>3. /\ \A j \in Idx : n[j] \in Nat /\ g[j] \in Nat
      /\ Len(stream[t]) \in Nat /\ next[t] \in Nat
  BY LaneTypes
<1>4. PICK x \in Nat, y \in Nat : x = next[t] /\ y = Len(stream[t])
  BY <1>3
<1>5. PICK m \in Ranks : m[c] = x /\ \A j \in Idx \ {c} : m[j] = n[j]
  <2>1. [n EXCEPT ![c] = x] \in Ranks
    BY DEF Ranks
  <2>2. /\ [n EXCEPT ![c] = x][c] = x
        /\ \A j \in Idx \ {c} : [n EXCEPT ![c] = x][j] = n[j]
    BY DEF Ranks
  <2>. QED
    BY <2>1, <2>2
<1>6. PICK h \in Ranks : h[c] = y /\ \A j \in Idx \ {c} : h[j] = g[j]
  <2>1. [g EXCEPT ![c] = y] \in Ranks
    BY DEF Ranks
  <2>2. /\ [g EXCEPT ![c] = y][c] = y
        /\ \A j \in Idx \ {c} : [g EXCEPT ![c] = y][j] = g[j]
    BY DEF Ranks
  <2>. QED
    BY <2>1, <2>2
<1>7. ChanSorted(t, n) /\ BacklogSorted(t, n) /\ Paired(t, n) /\ Chained(t, n, g) /\ HeldMapped(t, g)
  BY DEF Lane
<1>8. ~Started(t, c) /\ ~Ended(t, c) /\ ~Queued(t, c)
  BY <1>7 DEF Held, Paired
<1>9. ChanSorted(t, m)'
  <2>1. ASSUME NEW k \in 1 .. Len(Chan), About(t, Chan[k])
        PROVE  Key(m, Chan[k]) = Key(n, Chan[k])
    <3>1. Proper(Chan[k]) /\ Chan[k].tid = t /\ Chan[k].type \in {"START", "END"}
      BY <2>1 DEF Base, MsgShape, About
    <3>2. Chan[k].arg \in Idx
      BY <3>1 DEF Proper
    <3>3. Chan[k].arg # c
      BY <3>1, <1>8 DEF Started, Ended, Sent
    <3>. QED
      BY <3>2, <3>3, <1>5 DEF Key
  <2>2. Sorted(Chan, t, m)
    BY <2>1, <1>7 DEF ChanSorted, Sorted
  <2>. QED
    BY <2>2 DEF ChanSorted
<1>10. BacklogSorted(t, m)'
  <2>1. \A k \in 1 .. Len(Backlog(t)) : m[Backlog(t)[k].idx] = n[Backlog(t)[k].idx]
    <3>1. \A k \in 1 .. Len(Backlog(t)) :
             Backlog(t)[k].idx \in Idx /\ Queued(t, Backlog(t)[k].idx)
      BY QueuedAt
    <3>. QED
      BY <3>1, <1>5, <1>8
  <2>2. \A i, j \in Idx : Queued(t, i) /\ Started(t, j) => m[i] < m[j]
    BY <1>5, <1>7, <1>8 DEF BacklogSorted
  <2>. QED
    BY <2>1, <2>2, <1>1, <1>2, <1>7 DEF BacklogSorted
<1>11. Paired(t, m)'
  BY <1>2, <1>5, <1>7, <1>8 DEF Paired
<1>12. ASSUME NEW j \in Idx, j # c
       PROVE  /\ EndOf(t, h, j)' = EndOf(t, g, j)
              /\ PartOfStream(t, g, j) => PartOfStream(t, h, j)'
  <2>1. EndOf(t, h, j)' = EndOf(t, g, j)
    BY <1>6, <1>12 DEF EndOf
  <2>. QED
    BY <2>1, <1>6, <1>12 DEF PartOfStream
<1>13. ASSUME NEW z, Reached(t, g, z)
       PROVE  Reached(t, h, z)'
  <2>1. CASE z = Len(file[t])
    BY <2>1, <1>1 DEF Reached
  <2>2. ASSUME NEW j \in Idx, Held(t, j), Data(t, j) # << >>, EndOf(t, g, j) = z
        PROVE  Reached(t, h, z)'
    <3>1. j # c
      BY <2>2
    <3>2. Held(t, j)' /\ Data(t, j)' # << >> /\ EndOf(t, h, j)' = z
      BY <2>2, <3>1, <1>2, <1>12
    <3>. QED
      BY <3>2 DEF Reached
  <2>. QED
    BY <2>1, <2>2, <1>13 DEF Reached
<1>14. Chained(t, m, h)'
  <2>1. ASSUME NEW i \in Idx, NEW j \in Idx, Held(t, i)', Held(t, j)', m[i] < m[j]
        PROVE  EndOf(t, h, i)' <= h[j]
    <3>1. i # c /\ j # c /\ Held(t, i) /\ Held(t, j)
      BY <2>1, <1>2
    <3>. QED
      BY <2>1, <3>1, <1>5, <1>6, <1>7, <1>12 DEF Chained
  <2>2. ASSUME NEW i \in Idx, Held(t, i)'
        PROVE  Reached(t, h, h[i])'
    <3>1. i # c /\ Held(t, i) /\ Reached(t, g, g[i])
      BY <2>2, <1>2, <1>7 DEF Chained
    <3>. QED
      BY <3>1, <1>6, <1>13
  <2>. QED
    BY <2>1, <2>2 DEF Chained
<1>15. HeldMapped(t, h)'
  <2>. SUFFICES ASSUME NEW j \in Idx, Held(t, j)'
                PROVE  /\ Taken(t, j)'
                       /\ ppc'[t] # "gone" => j < nrBuf'[t]
                       /\ PartOfStream(t, h, j)'
    BY DEF HeldMapped
  <2>1. j # c /\ Held(t, j) /\ Taken(t, j) /\ PartOfStream(t, g, j)
    BY <1>2, <1>7 DEF HeldMapped
  <2>. QED
    BY <2>1, <1>12
<1>16. FilePrefix(t)'
  BY <1>1 DEF Lane, FilePrefix
<1>17. Current(t, m, h)'
  <2>1. Len(<< >>) = 0 /\ \A k : ~(k \in 1 .. 0)
    BY EmptySeq
  <2>2. EndOf(t, h, c)' = Len(stream'[t])
    BY <2>1, <1>4, <1>6 DEF EndOf
  <2>3. PartOfStream(t, h, c)'
    <3>1. EndOf(t, h, c)' <= Len(stream'[t])
      BY <2>2, <1>3
    <3>2. \A k : ~(k \in 1 .. Len(Data(t, c)'))
      BY <2>1
    <3>. QED
      BY <3>1, <3>2 DEF PartOfStream
  <2>4. \A i \in Idx : Held(t, i)' => i # c /\ m[i] < m[c]
    BY <1>2, <1>4, <1>5 DEF Lane, NoneOpen
  <2>5. /\ ~Held(t, c)' /\ ~Ended(t, c)' /\ ~Queued(t, c)'
    BY <1>1, <1>2, <1>8
  <2>6. m[c] <= next'[t]
    BY <1>3, <1>4, <1>5
  <2>7. LastBuffer(t, c, m, h)'
    BY <2>2, <2>3, <2>4, <2>5, <2>6 DEF LastBuffer
  <2>. QED
    BY <2>7 DEF Current
<1>18. NoneOpen(t, m)'
  BY <1>1, <1>2 DEF Lane, NoneOpen, Between
<1>19. NothingMissing(t, h)'
  <2>1. Reached(t, g, y) => Reached(t, h, y)'
    BY <1>13
  <2>. QED
    BY <2>1, <1>1, <1>4 DEF Lane, NothingMissing
<1>20. Fresh(t)'
  BY DEF Fresh
<1>. QED
  BY <1>5, <1>6, <1>9, <1>10, <1>11, <1>14, <1>15, <1>16, <1>17, <1>18, <1>19, <1>20 DEF Lane

\* The first buffer of a thread
LEMMA LanePrepare ==
  ASSUME Base, NEW t \in Tasks, NEW n \in Ranks, NEW g \in Ranks, Lane(t, n, g),
         UNCHANGED <<poolVars, recorderVars, pfdOpen>>, Announces("START", t, 0), ppc[t] = "none",
         Data(t, 0)' = << >>, Taken(t, 0)',
         \A j \in Idx \ {0} : Data(t, j)' = Data(t, j) /\ (Taken(t, j)' <=> Taken(t, j)),
         ppc'[t] = "rec", curr'[t] = 0, stream'[t] = stream[t], next'[t] = next[t],
         nrBuf'[t] = 2, (t \in blind') <=> (t \in blind \/ ~pfdOpen)
  PROVE  Lane(t, [j \in Idx |-> 1], [j \in Idx |-> 0])'
<1>. DEFINE m == [j \in Idx |-> 1]
            h == [j \in Idx |-> 0]
<1>0. 0 \in Idx
  BY RecordingAssumption DEF Idx
<1>1. /\ Backlog(t)' = Backlog(t) /\ file' = file /\ stop' = stop /\ pfdOpen' = pfdOpen
      /\ (Flushing' <=> Flushing)
      /\ \A j : Queued(t, j)' <=> Queued(t, j)
  BY OwnStep
<1>2. /\ \A j : Started(t, j)' <=> Started(t, j) \/ (pfdOpen /\ stop = "no" /\ j = 0)
      /\ \A j : Ended(t, j)' <=> Ended(t, j)
      /\ \A k \in Ranks : /\ ChanSorted(t, k)
                          /\ \A i \in Idx : /\ Started(t, i) => k[i] < k[0]
                                            /\ Ended(t, i) => k[i] < k[0]
                          => ChanSorted(t, k)'
  BY <1>0, <1>1, AnnounceChan
<1>3. /\ \A i \in Idx : ~Held(t, i) /\ ~Started(t, i) /\ ~Queued(t, i) /\ ~Ended(t, i)
      /\ stream[t] = << >> /\ file[t] = << >> /\ next[t] = 1 /\ t \notin blind
  BY DEF Lane, Fresh, Held, Paired
<1>4. m \in Ranks /\ \A j \in Idx : m[j] = 1 /\ h[j] = 0
  BY DEF Ranks
<1>. HIDE DEF m, h
<1>5. Len(<< >>) = 0 /\ \A k : ~(k \in 1 .. 0)
  BY EmptySeq
<1>6. \A j \in Idx : Held(t, j)' <=> (pfdOpen /\ stop = "no" /\ j = 0)
  BY <1>1, <1>2, <1>3 DEF Held
<1>7. ChanSorted(t, m)'
  <2>1. ASSUME NEW k \in 1 .. Len(Chan)
        PROVE  ~About(t, Chan[k])
    <3>1. Proper(Chan[k])
      BY DEF Base, MsgShape
    <3>. QED
      BY <3>1, <1>3 DEF About, Proper, Started, Ended, Sent
  <2>2. ChanSorted(t, m)
    BY <2>1 DEF ChanSorted, Sorted
  <2>. QED
    BY <2>2, <1>2, <1>3, <1>4
<1>8. BacklogSorted(t, m)'
  <2>1. \A k : ~(k \in 1 .. Len(Backlog(t)))
    BY <1>3, QueuedAt
  <2>. QED
    BY <2>1, <1>1, <1>3 DEF BacklogSorted
<1>9. Paired(t, m)'
  BY <1>2, <1>3, <1>4 DEF Paired
<1>10. EndOf(t, h, 0)' = 0 /\ PartOfStream(t, h, 0)'
  <2>1. EndOf(t, h, 0)' = 0
    BY <1>0, <1>4, <1>5 DEF EndOf
  <2>2. \A k : ~(k \in 1 .. Len(Data(t, 0)'))
    BY <1>5
  <2>. QED
    BY <2>1, <2>2, <1>3, <1>5 DEF PartOfStream
<1>11. Reached(t, h, 0)'
  BY <1>1, <1>3, <1>5 DEF Reached
<1>12. Chained(t, m, h)'
  BY <1>4, <1>6, <1>11 DEF Chained
<1>13. HeldMapped(t, h)'
  BY <1>6, <1>10 DEF HeldMapped
<1>14. FilePrefix(t)'
  BY <1>1, <1>3, <1>5 DEF FilePrefix
<1>15. Current(t, m, h)'
  <2>1. pfdOpen => t \notin blind'
    BY <1>3
  <2>2. LastBuffer(t, 0, m, h)'
    BY <2>1, <1>0, <1>1, <1>2, <1>3, <1>4, <1>5, <1>6, <1>10 DEF LastBuffer
  <2>. QED
    BY <2>2 DEF Current
<1>16. NoneOpen(t, m)'
  BY DEF NoneOpen, Between
<1>17. NothingMissing(t, h)'
  BY <1>1, <1>3, <1>5, <1>11 DEF NothingMissing
<1>18. Fresh(t)'
  BY DEF Fresh
<1>. QED
  BY <1>7, <1>8, <1>9, <1>12, <1>13, <1>14, <1>15, <1>16, <1>17, <1>18 DEF Lane, m, h

-----------------------------------------------------------------------------
(* The steps of the traced threads. *)

\* The tasks other than t are left alone.
Alone(t) ==
    \A u \in Tasks \ {t} :
        /\ mem'[u] = mem[u] /\ nrBuf'[u] = nrBuf[u] /\ curr'[u] = curr[u]
        /\ losts'[u] = losts[u] /\ ppc'[u] = ppc[u] /\ next'[u] = next[u]
        /\ stream'[u] = stream[u] /\ ((u \in blind') <=> (u \in blind))

LEMMA StepAlone ==
  ASSUME Types, NEW t \in Tasks, TaskStep(t) \/ Killed(t)
  PROVE  Alone(t) /\ pfdOpen' = pfdOpen
<1>1. CASE PrepareShmemBuffer(t)
  BY <1>1 DEF PrepareShmemBuffer, Alone, Types
<1>2. CASE StoreRecord(t)
  BY <1>2 DEF StoreRecord, Alone, Types
<1>3. CASE FinishShmemBuffer(t)
  BY <1>3 DEF FinishShmemBuffer, Alone, Types
<1>4. CASE ReuseBuffer(t)
  <2>1. PICK i \in Usable(t) : mem' = [mem EXCEPT ![t][i] = Reuse(@)] /\ curr' = [curr EXCEPT ![t] = i]
                               /\ nrBuf' = IF Shrinks(t, i) THEN [nrBuf EXCEPT ![t] = @ - 1] ELSE nrBuf
    BY <1>4 DEF ReuseBuffer
  <2>2. \A u \in Tasks \ {t} : nrBuf'[u] = nrBuf[u] /\ mem'[u] = mem[u] /\ curr'[u] = curr[u]
    BY <2>1 DEF Types
  <2>. QED
    BY <1>4, <2>2 DEF ReuseBuffer, Alone, Types
<1>5. CASE AllocateBuffer(t)
  BY <1>5 DEF AllocateBuffer, Alone, Types
<1>6. CASE LoseRecord(t)
  BY <1>6 DEF LoseRecord, Alone, Types
<1>7. CASE StartBuffer(t)
  BY <1>7 DEF StartBuffer, Alone, Types
<1>8. CASE ReportLost(t)
  BY <1>8 DEF ReportLost, Alone, Types
<1>9. CASE ShmemFinish(t)
  BY <1>9 DEF ShmemFinish, Alone, Types
<1>10. CASE Killed(t)
  BY <1>10 DEF Killed, Alone, Types
<1>. QED
  BY <1>1, <1>2, <1>3, <1>4, <1>5, <1>6, <1>7, <1>8, <1>9, <1>10 DEF TaskStep

\* It is enough to look at the lane of the task that takes the step.
LEMMA OtherLanes ==
  ASSUME RecInv, NEW t \in Tasks, UNCHANGED <<poolVars, recorderVars>>, pfdOpen' = pfdOpen,
         Alone(t), \A u \in Tasks \ {t} : KeepsChan(u),
         \E n, g \in Ranks : Lane(t, n, g)'
  PROVE  Lanes'
<1>1. ASSUME NEW u \in Tasks, u # t
      PROVE  \E n, g \in Ranks : Lane(u, n, g)'
  <2>1. PICK n \in Ranks, g \in Ranks : Lane(u, n, g)
    BY DEF RecInv, Lanes
  <2>2. KeepsTask(u) /\ KeepsChan(u)
    BY <1>1 DEF Alone, KeepsTask
  <2>3. file' = file /\ Backlog(u)' = Backlog(u) /\ stop' = stop /\ (Flushing' <=> Flushing)
    BY OwnStep
  <2>4. KeepsData(u)
    BY <1>1, <2>3 DEF Alone, KeepsData, Data, Taken
  <2>5. Base
    BY DEF RecInv, Base
  <2>6. Lane(u, n, g)'
    BY <2>1, <2>2, <2>3, <2>4, <2>5, LaneSame
  <2>. QED
    BY <2>6
<1>. QED
  BY <1>1 DEF Lanes

LEMMA QuietKeeps ==
  ASSUME ChanQuiet, NEW u \in Tasks
  PROVE  KeepsChan(u) /\ MsgShape'
BY DEF ChanQuiet, KeepsChan

\* Sending about a buffer
LEMMA SendAnnounces ==
  ASSUME Types, NEW t \in Tasks, NEW c \in Idx, NEW y \in {"START", "END"},
         Send(Message(y, t, c)), UNCHANGED <<listed, stop>>
  PROVE  Announces(y, t, c)
<1>1. Message(y, t, c) \in Msgs
  BY DEF Message, Msgs, Idx
<1>. QED
  BY <1>1, SendChan DEF Announces

Shmem == [flag : SUBSET Flags, data : Seq(Items)]
SetsBuffer(t, c, b) == mem' = [mem EXCEPT ![t][c] = b]
SetsData(t, c, d) == mem' = [mem EXCEPT ![t][c].data = d]

\* The contents and flags of the buffers when one of them is changed
LEMMA MemChange ==
  ASSUME Types, NEW t \in Tasks, NEW c \in Idx, NEW b \in Shmem, SetsBuffer(t, c, b)
  PROVE  /\ Data(t, c)' = b.data /\ (Taken(t, c)' <=> "RECORDING" \in b.flag)
         /\ \A j \in Idx \ {c} : Data(t, j)' = Data(t, j) /\ (Taken(t, j)' <=> Taken(t, j))
<1>1. mem'[t][c] = b /\ \A j \in Idx \ {c} : mem'[t][j] = mem[t][j]
  BY DEF Types, SetsBuffer
<1>. QED
  BY <1>1 DEF Data, Taken

LEMMA DataChange ==
  ASSUME Types, NEW t \in Tasks, NEW c \in Idx, NEW d \in Seq(Items),
         SetsData(t, c, d)
  PROVE  /\ Data(t, c)' = d /\ (Taken(t, c)' <=> Taken(t, c))
         /\ \A j \in Idx \ {c} : Data(t, j)' = Data(t, j) /\ (Taken(t, j)' <=> Taken(t, j))
<1>1. mem[t][c] \in [flag : SUBSET Flags, data : Seq(Items)]
  BY DEF Types
<1>2. \A j \in Idx \ {c} : mem'[t][j] = mem[t][j]
  BY DEF Types, SetsData
<1>3. mem'[t][c] = [mem[t][c] EXCEPT !.data = d]
  BY DEF Types, SetsData
<1>4. mem'[t][c].data = d /\ mem'[t][c].flag = mem[t][c].flag
  BY <1>1, <1>3
<1>. QED
  BY <1>2, <1>4 DEF Data, Taken

\* The lane of a task after each of its own steps
LEMMA LaneStore ==
  ASSUME RecInv, NEW t \in Tasks, UNCHANGED <<poolVars, recorderVars>>, StoreRecord(t)
  PROVE  ChanQuiet /\ \E n, g \in Ranks : Lane(t, n, g)'
<1>0. Base /\ Types /\ MsgShape
  BY DEF RecInv, Base
<1>c. PICK c \in Idx : c = curr[t]
  BY <1>0 DEF StoreRecord, Types
<1>1. PICK n \in Ranks, g \in Ranks : Lane(t, n, g)
  BY DEF RecInv, Lanes
<1>2. /\ mem' = [mem EXCEPT ![t][c].data = Append(@, Rec(next[t]))]
      /\ next[t] <= MaxRec /\ curr[t] # -1 /\ ppc[t] \in {"rec", "store"}
      /\ UNCHANGED <<nrBuf, curr, losts, blind, pfdOpen, pipe>>
  BY <1>c DEF StoreRecord
<1>3. stream'[t] = Append(stream[t], Rec(next[t])) /\ next'[t] = next[t] + 1 /\ ppc'[t] = "rec"
  BY <1>0 DEF StoreRecord, Types
<1>4. c \in Idx
  OBVIOUS
<1>5. mem' = [mem EXCEPT ![t][c].data = Append(Data(t, c), Rec(next[t]))]
  BY <1>0, <1>2, <1>4 DEF Types, Data
<1>6. Chan' = Chan
  BY <1>2 DEF Chan, Unread, recorderVars
<1>7. ChanQuiet /\ KeepsChan(t)
  BY <1>0, <1>6, ChanSame, QuietKeeps
<1>8. Rec(next[t]) \in Items
  <2>1. next[t] \in Nat /\ MaxRec \in Nat /\ next[t] <= MaxRec
    BY <1>0, <1>2, RecordingAssumption DEF Types
  <2>2. next[t] \in 0 .. 2 * MaxRec
    BY <2>1
  <2>. QED
    BY <2>2 DEF Rec, Items
<1>9. /\ Data(t, c)' = Append(Data(t, c), Rec(next[t]))
      /\ \A j \in Idx \ {c} : Data(t, j)' = Data(t, j)
      /\ \A j \in Idx : Taken(t, j)' <=> Taken(t, j)
  <2>1. PICK d \in Seq(Items) : d = Append(Data(t, c), Rec(next[t]))
    <3>1. Data(t, c) \in Seq(Items)
      BY <1>0, <1>4 DEF Types, Data
    <3>2. Append(Data(t, c), Rec(next[t])) \in Seq(Items)
      BY <3>1, <1>8, AppendProperties
    <3>. QED
      BY <3>2
  <2>2. SetsData(t, c, d)
    BY <1>5, <2>1 DEF SetsData
  <2>3. /\ Data(t, c)' = d /\ (Taken(t, c)' <=> Taken(t, c))
        /\ \A j \in Idx \ {c} : Data(t, j)' = Data(t, j) /\ (Taken(t, j)' <=> Taken(t, j))
    BY <1>0, <1>4, <2>2, DataChange
  <2>. QED
    BY <2>1, <2>3
<1>10. Lane(t, n, g)'
  <2>1. curr[t] = c /\ curr'[t] = c /\ nrBuf'[t] = nrBuf[t] /\ ((t \in blind') <=> (t \in blind))
    BY <1>c, <1>2
  <2>2. UNCHANGED <<poolVars, recorderVars, pfdOpen>>
    BY <1>2
  <2>3. ppc[t] \in {"rec", "lost", "store"}
    BY <1>2
  <2>4. PICK x \in Items : x = Rec(next[t])
    BY <1>8
  <2>. QED
    BY <1>0, <1>1, <1>3, <1>4, <1>7, <1>9, <2>1, <2>2, <2>3, <2>4, LaneExtend
<1>. QED
  BY <1>7, <1>10

LEMMA LaneReport ==
  ASSUME RecInv, NEW t \in Tasks, UNCHANGED <<poolVars, recorderVars>>, ReportLost(t)
  PROVE  ChanQuiet /\ \E n, g \in Ranks : Lane(t, n, g)'
<1>0. Base /\ Types /\ MsgShape /\ Counted
  BY DEF RecInv, Base
<1>c. PICK c \in Idx : c = curr[t]
  BY <1>0 DEF ReportLost, Types, Counted
<1>x. PICK x \in Items : x = Lost(losts[t])
  <2>1. next[t] <= MaxRec /\ losts[t] <= 2 * (next[t] - 1)
    BY <1>0 DEF ReportLost, Counted
  <2>2. losts[t] \in Nat /\ next[t] \in Nat /\ MaxRec \in Nat
    BY <1>0, RecordingAssumption DEF Types
  <2>3. losts[t] \in 0 .. 2 * MaxRec
    BY <2>1, <2>2
  <2>. QED
    BY <2>3 DEF Lost, Items
<1>1. PICK n \in Ranks, g \in Ranks : Lane(t, n, g)
  BY DEF RecInv, Lanes
<1>2. /\ ppc[t] = "lost" /\ Send(Message("LOST", t, losts[t]))
      /\ mem' = [mem EXCEPT ![t][c].data = <<x>>]
      /\ UNCHANGED <<nrBuf, curr, next, blind, pfdOpen>>
  BY <1>c, <1>x DEF ReportLost
<1>3. stream'[t] = Append(stream[t], x) /\ next'[t] = next[t] /\ ppc'[t] = "store"
  BY <1>0, <1>x DEF ReportLost, Types
<1>4. c \in Idx
  OBVIOUS
<1>5. Storing(t)
  BY <1>0, <1>2 DEF Storing, Counted
<1>6. Data(t, c) = << >>
  BY <1>1, <1>2, <1>5, <1>c DEF Lane, Current, LastBuffer
<1>7. x \in Items
  OBVIOUS
<1>8. ChanQuiet /\ KeepsChan(t)
  <2>1. PICK m \in Msgs : m = Message("LOST", t, losts[t])
    BY <1>0 DEF Msgs, Message, Types
  <2>2. UNCHANGED <<listed, stop>>
    BY DEF recorderVars
  <2>3. Chan' = IF pfdOpen /\ stop = "no" THEN Append(Chan, m) ELSE Chan
    BY <1>0, <1>2, <2>1, <2>2, SendChan
  <2>4. m.type = "LOST"
    BY <2>1 DEF Message
  <2>5. ChanQuiet
    <3>1. CASE Chan' = Chan
      BY <3>1, <1>0, ChanSame
    <3>2. CASE Chan' = Append(Chan, m)
      BY <3>2, <2>4, <1>0, SendOther
    <3>. QED
      BY <2>3, <3>1, <3>2
  <2>. QED
    BY <2>5, QuietKeeps
<1>9. /\ Data(t, c)' = <<x>>
      /\ \A j \in Idx \ {c} : Data(t, j)' = Data(t, j)
      /\ \A j \in Idx : Taken(t, j)' <=> Taken(t, j)
  <2>1. PICK d \in Seq(Items) : d = <<x>>
    <3>1. <<x>> \in Seq(Items)
      BY <1>7
    <3>. QED
      BY <3>1
  <2>2. SetsData(t, c, d)
    BY <1>2, <2>1 DEF SetsData
  <2>3. /\ Data(t, c)' = d /\ (Taken(t, c)' <=> Taken(t, c))
        /\ \A j \in Idx \ {c} : Data(t, j)' = Data(t, j) /\ (Taken(t, j)' <=> Taken(t, j))
    BY <1>0, <1>4, <2>2, DataChange
  <2>. QED
    BY <2>1, <2>3
<1>10. Data(t, c)' = Append(Data(t, c), x)
  BY <1>6, <1>9
<1>11. Lane(t, n, g)'
  <2>1. curr[t] = c /\ curr'[t] = c /\ nrBuf'[t] = nrBuf[t] /\ ((t \in blind') <=> (t \in blind))
    BY <1>c, <1>2
  <2>2. UNCHANGED <<poolVars, recorderVars, pfdOpen>>
    BY <1>2
  <2>3. ppc[t] \in {"rec", "lost", "store"}
    BY <1>2
  <2>. QED
    BY <1>0, <1>1, <1>3, <1>4, <1>7, <1>8, <1>9, <1>10, <2>1, <2>2, <2>3, LaneExtend
<1>. QED
  BY <1>8, <1>11

\* The other tasks see no change of the channel.
OthersQuiet(t) == MsgShape' /\ \A u \in Tasks \ {t} : KeepsChan(u)

LEMMA LaneFinish ==
  ASSUME RecInv, NEW t \in Tasks, UNCHANGED <<poolVars, recorderVars>>, FinishShmemBuffer(t)
  PROVE  OthersQuiet(t) /\ \E n, g \in Ranks : Lane(t, n, g)'
<1>0. Base /\ Types
  BY DEF RecInv, Base
<1>1. PICK n \in Ranks, g \in Ranks : Lane(t, n, g)
  BY DEF RecInv, Lanes
<1>2. PICK c \in Idx : c = curr[t]
  BY <1>0 DEF FinishShmemBuffer, Types
<1>3. /\ ppc[t] = "rec" /\ Len(Data(t, c)) >= BufCap /\ Send(Message("END", t, c))
      /\ UNCHANGED <<mem, nrBuf, curr, next, stream, blind, pfdOpen>>
  BY <1>2 DEF FinishShmemBuffer, BufOf, Data
<1>4. ppc'[t] = "new"
  BY <1>0 DEF FinishShmemBuffer, Types
<1>5. Data(t, c) # << >>
  <2>1. BufCap \in Nat \ {0} /\ Len(<< >>) = 0
    BY RecordingAssumption, EmptySeq
  <2>. QED
    BY <2>1, <1>3
<1>6. UNCHANGED <<listed, stop>> /\ UNCHANGED <<poolVars, recorderVars, pfdOpen, blind>>
  BY <1>3 DEF recorderVars
<1>7. Announces("END", t, c)
  BY <1>0, <1>3, <1>6, SendAnnounces
<1>8. OthersQuiet(t)
  BY <1>0, <1>7, AnnounceChan DEF OthersQuiet
<1>9. KeepsData(t)
  BY <1>3 DEF KeepsData, Data, Taken, poolVars
<1>10. Lane(t, n, g)'
  BY <1>0, <1>1, <1>2, <1>3, <1>4, <1>5, <1>6, <1>7, <1>9, LaneEnd
<1>. QED
  BY <1>8, <1>10

LEMMA LaneShmemFinish ==
  ASSUME RecInv, NEW t \in Tasks, UNCHANGED <<poolVars, recorderVars>>, ShmemFinish(t)
  PROVE  OthersQuiet(t) /\ \E n, g \in Ranks : Lane(t, n, g)'
<1>0. Base /\ Types /\ MsgShape
  BY DEF RecInv, Base
<1>1. PICK n \in Ranks, g \in Ranks : Lane(t, n, g)
  BY DEF RecInv, Lanes
<1>2. /\ ppc[t] = "rec" /\ UNCHANGED <<mem, losts, next, stream, blind, pfdOpen>>
  BY DEF ShmemFinish
<1>3. ppc'[t] = "gone"
  BY <1>0 DEF ShmemFinish, Types
<1>4. UNCHANGED <<listed, stop>> /\ UNCHANGED <<poolVars, recorderVars, pfdOpen, blind>>
  BY <1>2 DEF recorderVars
<1>5. KeepsData(t)
  BY <1>2 DEF KeepsData, Data, Taken, poolVars
<1>6. CASE curr[t] # -1 /\ Send(Message("END", t, curr[t]))
  <2>1. PICK c \in Idx : c = curr[t]
    BY <1>0, <1>6 DEF Types
  <2>2. Announces("END", t, c)
    BY <2>1, <1>0, <1>6, <1>4, SendAnnounces
  <2>3. OthersQuiet(t)
    BY <1>0, <2>2, AnnounceChan DEF OthersQuiet
  <2>4. Lane(t, n, g)'
    BY <1>0, <1>1, <1>2, <1>3, <1>4, <1>5, <2>1, <2>2, LaneEnd
  <2>. QED
    BY <2>3, <2>4
<1>7. CASE UNCHANGED pipe
  <2>1. Chan' = Chan
    BY <1>4, <1>7 DEF Chan, Unread
  <2>2. ChanQuiet
    BY <2>1, <1>0, ChanSame
  <2>3. OthersQuiet(t) /\ KeepsChan(t)
    BY <2>2, QuietKeeps DEF OthersQuiet
  <2>4. Lane(t, n, g)'
    BY <1>0, <1>1, <1>2, <1>3, <1>4, <1>5, <2>3, LaneNoBuffer
  <2>. QED
    BY <2>3, <2>4
<1>. QED
  BY <1>6, <1>7 DEF ShmemFinish

LEMMA LaneGone ==
  ASSUME RecInv, NEW t \in Tasks, UNCHANGED <<poolVars, recorderVars>>, Killed(t) \/ LoseRecord(t)
  PROVE  OthersQuiet(t) /\ \E n, g \in Ranks : Lane(t, n, g)'
<1>0. Base /\ Types /\ MsgShape
  BY DEF RecInv, Base
<1>1. PICK n \in Ranks, g \in Ranks : Lane(t, n, g)
  BY DEF RecInv, Lanes
<1>2. UNCHANGED <<mem, nrBuf, stream, blind, pfdOpen, pipe>>
  BY DEF Killed, LoseRecord
<1>3. UNCHANGED <<listed, stop>> /\ UNCHANGED <<poolVars, recorderVars, pfdOpen, blind>>
  BY <1>2 DEF recorderVars
<1>4. KeepsData(t) /\ stream'[t] = stream[t] /\ nrBuf'[t] = nrBuf[t]
  BY <1>2 DEF KeepsData, Data, Taken, poolVars
<1>5. Chan' = Chan
  BY <1>2, <1>3 DEF Chan, Unread
<1>6. OthersQuiet(t) /\ KeepsChan(t)
  BY <1>5, <1>0, ChanSame, QuietKeeps DEF OthersQuiet
<1>7. \/ ppc'[t] = "gone"
      \/ /\ Between(t) /\ ppc'[t] = "rec" /\ curr'[t] = -1
         /\ next'[t] = next[t] + 1
  <2>1. CASE Killed(t)
    BY <2>1, <1>0 DEF Killed, Types
  <2>2. CASE LoseRecord(t)
    BY <2>2, <1>0 DEF LoseRecord, NeedsBuffer, Between, Types
  <2>. QED
    BY <2>1, <2>2
<1>8. Lane(t, n, g)'
  BY <1>0, <1>1, <1>3, <1>4, <1>6, <1>7, LaneNoBuffer
<1>. QED
  BY <1>6, <1>8

LEMMA LaneStartBuffer ==
  ASSUME RecInv, NEW t \in Tasks, UNCHANGED <<poolVars, recorderVars>>, StartBuffer(t)
  PROVE  OthersQuiet(t) /\ \E n, g \in Ranks : Lane(t, n, g)'
<1>0. Base /\ Types /\ Counted
  BY DEF RecInv, Base
<1>1. PICK n \in Ranks, g \in Ranks : Lane(t, n, g)
  BY DEF RecInv, Lanes
<1>2. PICK c \in Idx : c = curr[t]
  BY <1>0 DEF StartBuffer, Types, Counted
<1>3. /\ ppc[t] = "start" /\ Send(Message("START", t, c))
      /\ UNCHANGED <<mem, nrBuf, curr, next, stream, pfdOpen>>
  BY <1>2 DEF StartBuffer
<1>4. ppc'[t] \in {"lost", "store"} /\ ((t \in blind') <=> (t \in blind \/ ~pfdOpen))
  BY <1>0 DEF StartBuffer, Types
<1>5. UNCHANGED <<listed, stop>> /\ UNCHANGED <<poolVars, recorderVars, pfdOpen>>
  BY <1>3 DEF recorderVars
<1>6. Announces("START", t, c)
  BY <1>0, <1>3, <1>5, SendAnnounces
<1>7. OthersQuiet(t)
  BY <1>0, <1>6, AnnounceChan DEF OthersQuiet
<1>8. KeepsData(t)
  BY <1>3 DEF KeepsData, Data, Taken, poolVars
<1>9. Lane(t, n, g)'
  BY <1>0, <1>1, <1>2, <1>3, <1>4, <1>5, <1>6, <1>8, LaneStart
<1>. QED
  BY <1>7, <1>9

\* A buffer is taken: one that is given back, or a new one.
LEMMA LaneTake ==
  ASSUME RecInv, NEW t \in Tasks, UNCHANGED <<poolVars, recorderVars>>,
         ReuseBuffer(t) \/ AllocateBuffer(t)
  PROVE  OthersQuiet(t) /\ \E n, g \in Ranks : Lane(t, n, g)'
<1>0. Base /\ Types /\ MsgShape
  BY DEF RecInv, Base
<1>1. PICK n \in Ranks, g \in Ranks : Lane(t, n, g)
  BY DEF RecInv, Lanes
<1>2. /\ NeedsBuffer(t) /\ UNCHANGED <<losts, next, stream, blind, pfdOpen, pipe>>
      /\ ppc'[t] = "start"
  BY <1>0 DEF ReuseBuffer, AllocateBuffer, Types
<1>3. Between(t) /\ stream'[t] = stream[t] /\ next'[t] = next[t] /\ ppc[t] # "gone"
  BY <1>2 DEF NeedsBuffer, Between
<1>4. UNCHANGED <<poolVars, recorderVars, pfdOpen, blind>> /\ Chan' = Chan
  BY <1>2 DEF Chan, Unread, recorderVars
<1>5. OthersQuiet(t)
  BY <1>4, <1>0, ChanSame, QuietKeeps DEF OthersQuiet
<1>6. /\ nrBuf[t] \in 0 .. MaxBuf /\ MaxBuf \in Nat
      /\ \A j \in Idx : j \in Nat /\ j < MaxBuf
      /\ \A j \in Nat : j < MaxBuf => j \in Idx
  BY <1>0, RecordingAssumption DEF Types, Idx
<1>7. \A j \in Idx : Held(t, j) => Taken(t, j) /\ j < nrBuf[t]
  BY <1>1, <1>3 DEF Lane, HeldMapped
<1>8. PICK c \in Idx, b \in Shmem :
        /\ SetsBuffer(t, c, b) /\ b.data = << >> /\ "RECORDING" \in b.flag
        /\ ~Held(t, c) /\ curr'[t] = c
        /\ c < nrBuf'[t] /\ \A j \in Idx : Held(t, j) => j < nrBuf'[t]
  <2>1. CASE ReuseBuffer(t)
    <3>1. PICK i \in Usable(t) :
            /\ mem' = [mem EXCEPT ![t][i] = Reuse(@)]
            /\ curr' = [curr EXCEPT ![t] = i]
            /\ nrBuf' = IF Shrinks(t, i) THEN [nrBuf EXCEPT ![t] = @ - 1] ELSE nrBuf
      BY <2>1 DEF ReuseBuffer
    <3>2. i \in Nat /\ i < nrBuf[t] /\ i \in Idx /\ ~Taken(t, i)
      BY <1>6 DEF Usable, Taken
    <3>3. mem[t][i] \in Shmem
      BY <1>0, <3>2 DEF Types, Shmem
    <3>4. PICK b \in Shmem : b = Reuse(mem[t][i])
      <4>1. << >> \in Seq(Items)
        OBVIOUS
      <4>. QED
        BY <3>3, <4>1 DEF Reuse, Shmem, Flags
    <3>5. SetsBuffer(t, i, b)
      BY <3>1, <3>2, <3>4, <1>0 DEF SetsBuffer, Types
    <3>6. b.data = << >> /\ "RECORDING" \in b.flag
      BY <3>4 DEF Reuse
    <3>7. curr'[t] = i
      BY <3>1, <1>0 DEF Types
    <3>8. i < nrBuf'[t] /\ \A j \in Idx : Held(t, j) => j < nrBuf'[t]
      <4>1. CASE Shrinks(t, i)
        <5>1. nrBuf[t] - 1 \in i + 1 .. nrBuf[t] - 1 /\ mem[t][nrBuf[t] - 1].flag = {"WRITTEN"}
          BY <4>1 DEF Shrinks
        <5>2. nrBuf'[t] = nrBuf[t] - 1
          BY <4>1, <3>1, <1>0 DEF Types
        <5>3. PICK l \in Nat : l = nrBuf[t] - 1
          BY <1>6, <3>2
        <5>4. ~Taken(t, l)
          BY <5>1, <5>3 DEF Taken
        <5>5. ASSUME NEW j \in Idx, Held(t, j)
              PROVE  j < nrBuf'[t]
          <6>1. j # l /\ j < nrBuf[t]
            BY <5>4, <5>5, <1>7
          <6>. QED
            BY <6>1, <5>2, <5>3, <1>6
        <5>. QED
          BY <5>1, <5>2, <5>5, <3>2, <1>6
      <4>2. CASE ~Shrinks(t, i)
        BY <4>2, <3>1, <3>2, <1>7
      <4>. QED
        BY <4>1, <4>2
    <3>9. ~Held(t, i)
      BY <3>2, <1>7
    <3>. QED
      BY <3>2, <3>4, <3>5, <3>6, <3>7, <3>8, <3>9
  <2>2. CASE AllocateBuffer(t)
    <3>1. /\ nrBuf[t] < MaxBuf
          /\ mem' = [mem EXCEPT ![t][nrBuf[t]] = Reuse(FreshBuffer)]
          /\ curr' = [curr EXCEPT ![t] = nrBuf[t]]
          /\ nrBuf' = [nrBuf EXCEPT ![t] = @ + 1]
      BY <2>2 DEF AllocateBuffer
    <3>2. PICK i \in Idx : i = nrBuf[t]
      BY <3>1, <1>6
    <3>3. PICK b \in Shmem : b = Reuse(FreshBuffer)
      <4>1. << >> \in Seq(Items)
        OBVIOUS
      <4>. QED
        BY <4>1 DEF Reuse, Shmem, Flags, FreshBuffer
    <3>4. SetsBuffer(t, i, b)
      BY <3>1, <3>2, <3>3 DEF SetsBuffer
    <3>5. b.data = << >> /\ "RECORDING" \in b.flag
      BY <3>3 DEF Reuse
    <3>6. curr'[t] = i /\ nrBuf'[t] = nrBuf[t] + 1
      BY <3>1, <3>2, <1>0 DEF Types
    <3>7. ~Held(t, i)
      BY <3>2, <1>6, <1>7
    <3>8. i < nrBuf'[t] /\ \A j \in Idx : Held(t, j) => j < nrBuf'[t]
      BY <3>2, <3>6, <1>6, <1>7
    <3>. QED
      BY <3>4, <3>5, <3>6, <3>7, <3>8
  <2>. QED
    BY <2>1, <2>2
<1>9. /\ Data(t, c)' = << >> /\ Taken(t, c)'
      /\ \A j \in Idx \ {c} : Data(t, j)' = Data(t, j) /\ (Taken(t, j)' <=> Taken(t, j))
  <2>1. /\ Data(t, c)' = b.data /\ (Taken(t, c)' <=> "RECORDING" \in b.flag)
        /\ \A j \in Idx \ {c} : Data(t, j)' = Data(t, j) /\ (Taken(t, j)' <=> Taken(t, j))
    BY <1>0, <1>8, MemChange
  <2>. QED
    BY <2>1, <1>8
<1>10. \E m, h \in Ranks : Lane(t, m, h)'
  BY <1>0, <1>1, <1>2, <1>3, <1>4, <1>8, <1>9, LaneBegin
<1>. QED
  BY <1>5, <1>10

LEMMA LanePrepareBuffer ==
  ASSUME RecInv, NEW t \in Tasks, UNCHANGED <<poolVars, recorderVars>>, PrepareShmemBuffer(t)
  PROVE  OthersQuiet(t) /\ \E n, g \in Ranks : Lane(t, n, g)'
<1>0. Base /\ Types /\ MsgShape
  BY DEF RecInv, Base
<1>1. PICK n \in Ranks, g \in Ranks : Lane(t, n, g)
  BY DEF RecInv, Lanes
<1>2. /\ ppc[t] = "none" /\ Send(Message("START", t, 0))
      /\ mem' = [mem EXCEPT ![t][0] = [flag |-> {"RECORDING", "NEW"}, data |-> << >>]]
      /\ UNCHANGED <<losts, next, stream, pfdOpen>>
  BY DEF PrepareShmemBuffer
<1>3. /\ ppc'[t] = "rec" /\ curr'[t] = 0 /\ nrBuf'[t] = 2
      /\ ((t \in blind') <=> (t \in blind \/ ~pfdOpen))
  BY <1>0 DEF PrepareShmemBuffer, Types
<1>4. 0 \in Idx
  BY RecordingAssumption DEF Idx
<1>5. UNCHANGED <<listed, stop>> /\ UNCHANGED <<poolVars, recorderVars, pfdOpen>>
  BY <1>2 DEF recorderVars
<1>6. Announces("START", t, 0)
  BY <1>0, <1>2, <1>4, <1>5, SendAnnounces
<1>7. OthersQuiet(t)
  BY <1>0, <1>4, <1>6, AnnounceChan DEF OthersQuiet
<1>8. PICK b \in Shmem : b = [flag |-> {"RECORDING", "NEW"}, data |-> << >>]
  <2>1. << >> \in Seq(Items)
    OBVIOUS
  <2>. QED
    BY <2>1 DEF Shmem, Flags
<1>9. SetsBuffer(t, 0, b) /\ b.data = << >> /\ "RECORDING" \in b.flag
  BY <1>2, <1>8 DEF SetsBuffer
<1>10. /\ Data(t, 0)' = << >> /\ Taken(t, 0)'
       /\ \A j \in Idx \ {0} : Data(t, j)' = Data(t, j) /\ (Taken(t, j)' <=> Taken(t, j))
  <2>1. /\ Data(t, 0)' = b.data /\ (Taken(t, 0)' <=> "RECORDING" \in b.flag)
        /\ \A j \in Idx \ {0} : Data(t, j)' = Data(t, j) /\ (Taken(t, j)' <=> Taken(t, j))
    BY <1>0, <1>4, <1>9, MemChange
  <2>. QED
    BY <2>1, <1>9
<1>11. Lane(t, [j \in Idx |-> 1], [j \in Idx |-> 0])'
  <2>1. stream'[t] = stream[t] /\ next'[t] = next[t]
    BY <1>2
  <2>. QED
    BY <2>1, <1>0, <1>1, <1>2, <1>3, <1>5, <1>6, <1>10, LanePrepare
<1>12. PICK m \in Ranks, h \in Ranks : m = [j \in Idx |-> 1] /\ h = [j \in Idx |-> 0]
  BY DEF Ranks
<1>13. Lane(t, m, h)'
  BY <1>11, <1>12
<1>. QED
  BY <1>7, <1>13

LEMMA LanesOfTask ==
  ASSUME RecInv, NEW t \in Tasks, UNCHANGED <<poolVars, recorderVars>>, TaskStep(t) \/ Killed(t)
  PROVE  Lanes' /\ MsgShape'
<1>1. Alone(t) /\ pfdOpen' = pfdOpen
  BY StepAlone DEF RecInv
<1>2. OthersQuiet(t) /\ \E n, g \in Ranks : Lane(t, n, g)'
  <2>1. CASE StoreRecord(t) \/ ReportLost(t)
    BY <2>1, LaneStore, LaneReport, QuietKeeps DEF OthersQuiet
  <2>2. CASE ~(StoreRecord(t) \/ ReportLost(t))
    BY <2>2, LaneFinish, LaneShmemFinish, LaneGone, LaneStartBuffer, LaneTake, LanePrepareBuffer
    DEF TaskStep
  <2>. QED
    BY <2>1, <2>2
<1>. QED
  BY <1>1, <1>2, OtherLanes DEF OthersQuiet

\* The types after each step of a thread
LEMMA SendTypes ==
  ASSUME Types, NEW m \in Msgs, Send(m)
  PROVE  pipe' \in Seq(Msgs)
<1>1. pipe' = pipe \/ pipe' = Append(pipe, m)
  BY DEF Send
<1>2. Append(pipe, m) \in Seq(Msgs)
  BY AppendProperties DEF Types
<1>. QED
  BY <1>1, <1>2 DEF Types

LEMMA SetsTypes ==
  ASSUME Types, NEW t \in Tasks, NEW c \in Idx
  PROVE  /\ \A b \in Shmem : SetsBuffer(t, c, b) => mem' \in [Tasks -> [Idx -> Shmem]]
         /\ \A d \in Seq(Items) : SetsData(t, c, d) => mem' \in [Tasks -> [Idx -> Shmem]]
<1>0. mem \in [Tasks -> [Idx -> Shmem]]
  BY DEF Types, Shmem
<1>1. ASSUME NEW b \in Shmem, SetsBuffer(t, c, b)
      PROVE  mem' \in [Tasks -> [Idx -> Shmem]]
  BY <1>0, <1>1 DEF SetsBuffer
<1>2. ASSUME NEW d \in Seq(Items), SetsData(t, c, d)
      PROVE  mem' \in [Tasks -> [Idx -> Shmem]]
  <2>1. mem[t][c] \in [flag : SUBSET Flags, data : Seq(Items)]
    BY DEF Types
  <2>2. PICK b \in Shmem : b = [mem[t][c] EXCEPT !.data = d]
    <3>1. [mem[t][c] EXCEPT !.data = d] \in [flag : SUBSET Flags, data : Seq(Items)]
      BY <2>1
    <3>. QED
      BY <3>1 DEF Shmem
  <2>3. mem' = [mem EXCEPT ![t][c] = b]
    BY <1>0, <1>2, <2>2 DEF SetsData
  <2>. QED
    BY <1>0, <2>3
<1>. QED
  BY <1>1, <1>2

LEMMA TypesOfTask ==
  ASSUME RecInv, NEW t \in Tasks, UNCHANGED <<poolVars, recorderVars>>, TaskStep(t) \/ Killed(t)
  PROVE  Types'
<1>0. Types /\ Counted
  BY DEF RecInv
<1>1. PoolTypes(Buf)' /\ file' \in [Tasks -> Seq(Items)] /\ listed' \in Seq(Buf)
      /\ stop' \in {"no", "exited", "finished", "interrupted"}
  BY <1>0 DEF Types, PoolTypes, poolVars, recorderVars
<1>2. pfdOpen' \in BOOLEAN
  BY <1>0, StepAlone DEF Types
<1>3. MaxBuf \in Nat /\ MaxBuf >= 2 /\ MaxRec \in Nat /\ 0 \in Idx
  BY RecordingAssumption DEF Idx
<1>4. CASE Killed(t) \/ LoseRecord(t)
  <2>1. CASE Killed(t)
    BY <2>1, <1>0, <1>1, <1>2 DEF Killed, Types, TaskPCs
  <2>2. CASE LoseRecord(t)
    <3>1. next[t] <= MaxRec
      BY <2>2, <1>0 DEF LoseRecord, NeedsBuffer, Counted
    <3>2. next' \in [Tasks -> 1 .. MaxRec + 1]
      <4>1. next[t] + 1 \in 1 .. MaxRec + 1
        BY <3>1, <1>0, <1>3 DEF Types
      <4>. QED
        BY <4>1, <2>2, <1>0 DEF LoseRecord, Types
    <3>3. losts' \in [Tasks -> Nat]
      BY <2>2, <1>0 DEF LoseRecord, Types
    <3>4. curr' \in [Tasks -> Idx \cup {-1}] /\ ppc' \in [Tasks -> TaskPCs]
      BY <2>2, <1>0 DEF LoseRecord, Types, TaskPCs
    <3>. QED
      BY <2>2, <3>2, <3>3, <3>4, <1>0, <1>1, <1>2 DEF LoseRecord, Types
  <2>. QED
    BY <2>1, <2>2, <1>4
<1>5. CASE FinishShmemBuffer(t) \/ ShmemFinish(t) \/ StartBuffer(t)
  <2>1. UNCHANGED <<mem, next, stream, losts>>
    BY <1>5 DEF FinishShmemBuffer, ShmemFinish, StartBuffer
  <2>2. pipe' \in Seq(Msgs)
    <3>1. pipe' = pipe \/ \E i \in Idx : \E y \in {"START", "END"} : Send(Message(y, t, i))
      BY <1>5, <1>0 DEF FinishShmemBuffer, ShmemFinish, StartBuffer, Types, Counted
    <3>2. \A i \in Idx : \A y \in {"START", "END"} : Message(y, t, i) \in Msgs
      BY DEF Message, Msgs, Idx
    <3>3. pipe \in Seq(Msgs)
      BY <1>0 DEF Types
    <3>. QED
      BY <3>1, <3>2, <3>3, <1>0, SendTypes
  <2>3. ppc' \in [Tasks -> TaskPCs]
    BY <1>5, <1>0 DEF FinishShmemBuffer, ShmemFinish, StartBuffer, Types, TaskPCs
  <2>4. curr' \in [Tasks -> Idx \cup {-1}] /\ nrBuf' \in [Tasks -> 0 .. MaxBuf]
    <3>1. \/ UNCHANGED <<curr, nrBuf>>
          \/ curr' = [curr EXCEPT ![t] = -1] /\ nrBuf' = [nrBuf EXCEPT ![t] = 0]
      BY <1>5 DEF FinishShmemBuffer, ShmemFinish, StartBuffer
    <3>2. 0 \in 0 .. MaxBuf
      BY <1>3
    <3>3. curr \in [Tasks -> Idx \cup {-1}] /\ nrBuf \in [Tasks -> 0 .. MaxBuf]
      BY <1>0 DEF Types
    <3>. QED
      BY <3>1, <3>2, <3>3
  <2>5. blind' \in SUBSET Tasks
    BY <1>5, <1>0 DEF FinishShmemBuffer, ShmemFinish, StartBuffer, Types
  <2>. QED
    BY <2>1, <2>2, <2>3, <2>4, <2>5, <1>0, <1>1, <1>2 DEF Types
<1>6. CASE StoreRecord(t)
  <2>1. PICK x \in Items : x = Rec(next[t])
    <3>1. next[t] \in Nat /\ next[t] <= MaxRec
      BY <1>6, <1>0 DEF StoreRecord, Types
    <3>2. next[t] \in 0 .. 2 * MaxRec
      BY <3>1, <1>3
    <3>. QED
      BY <3>2 DEF Rec, Items
  <2>2. PICK c \in Idx : c = curr[t]
    BY <1>6, <1>0 DEF StoreRecord, Types
  <2>3. mem[t][c].data \in Seq(Items)
    BY <1>0 DEF Types
  <2>4. PICK d \in Seq(Items) : d = Append(mem[t][c].data, x)
    <3>1. Append(mem[t][c].data, x) \in Seq(Items)
      BY <2>3, AppendProperties
    <3>. QED
      BY <3>1
  <2>5. SetsData(t, c, d)
    BY <1>6, <1>0, <2>1, <2>2, <2>4 DEF StoreRecord, SetsData, Types
  <2>6. mem' \in [Tasks -> [Idx -> Shmem]]
    BY <2>5, <1>0, SetsTypes
  <2>7. stream' \in [Tasks -> Seq(Items)]
    <3>1. Append(stream[t], x) \in Seq(Items)
      BY <1>0, AppendProperties DEF Types
    <3>. QED
      BY <3>1, <1>6, <1>0, <2>1 DEF StoreRecord, Types
  <2>8. next' \in [Tasks -> 1 .. MaxRec + 1]
    <3>1. next[t] \in Nat /\ next[t] <= MaxRec
      BY <1>6, <1>0 DEF StoreRecord, Types
    <3>2. next[t] + 1 \in 1 .. MaxRec + 1
      BY <3>1, <1>3
    <3>. QED
      BY <3>2, <1>6, <1>0 DEF StoreRecord, Types
  <2>9. ppc' \in [Tasks -> TaskPCs]
    BY <1>6, <1>0 DEF StoreRecord, Types, TaskPCs
  <2>. QED
    BY <2>6, <2>7, <2>8, <2>9, <1>6, <1>0, <1>1, <1>2 DEF StoreRecord, Types, Shmem
<1>7. CASE ReportLost(t)
  <2>1. PICK x \in Items : x = Lost(losts[t])
    <3>1. losts[t] <= 2 * (next[t] - 1) /\ next[t] <= MaxRec
      BY <1>7, <1>0 DEF ReportLost, Counted
    <3>2. losts[t] \in Nat /\ next[t] \in Nat
      BY <1>0 DEF Types
    <3>3. losts[t] \in 0 .. 2 * MaxRec
      BY <3>1, <3>2, <1>3
    <3>. QED
      BY <3>3 DEF Lost, Items
  <2>2. PICK c \in Idx : c = curr[t]
    BY <1>7, <1>0 DEF ReportLost, Types, Counted
  <2>3. PICK d \in Seq(Items) : d = <<x>>
    <3>1. <<x>> \in Seq(Items)
      OBVIOUS
    <3>. QED
      BY <3>1
  <2>4. SetsData(t, c, d)
    BY <1>7, <2>1, <2>2, <2>3 DEF ReportLost, SetsData
  <2>5. mem' \in [Tasks -> [Idx -> Shmem]]
    BY <2>4, <1>0, SetsTypes
  <2>6. stream' \in [Tasks -> Seq(Items)]
    <3>1. Append(stream[t], x) \in Seq(Items)
      BY <1>0, AppendProperties DEF Types
    <3>. QED
      BY <3>1, <1>7, <1>0, <2>1 DEF ReportLost, Types
  <2>7. losts' \in [Tasks -> Nat] /\ ppc' \in [Tasks -> TaskPCs]
    BY <1>7, <1>0 DEF ReportLost, Types, TaskPCs
  <2>8. pipe' \in Seq(Msgs)
    <3>1. Message("LOST", t, losts[t]) \in Msgs
      BY <1>0 DEF Types, Message, Msgs
    <3>. QED
      BY <3>1, <1>7, <1>0, SendTypes DEF ReportLost
  <2>. QED
    BY <2>5, <2>6, <2>7, <2>8, <1>7, <1>0, <1>1, <1>2 DEF ReportLost, Types, Shmem
<1>8. CASE ReuseBuffer(t) \/ AllocateBuffer(t)
  <2>1. << >> \in Seq(Items)
    OBVIOUS
  <2>2. /\ mem' \in [Tasks -> [Idx -> Shmem]]
        /\ curr' \in [Tasks -> Idx \cup {-1}]
        /\ nrBuf' \in [Tasks -> 0 .. MaxBuf]
    <3>1. CASE ReuseBuffer(t)
      <4>1. PICK i \in Usable(t) :
              /\ mem' = [mem EXCEPT ![t][i] = Reuse(@)]
              /\ curr' = [curr EXCEPT ![t] = i]
              /\ nrBuf' = IF Shrinks(t, i) THEN [nrBuf EXCEPT ![t] = @ - 1] ELSE nrBuf
        BY <3>1 DEF ReuseBuffer
      <4>2. i \in Idx /\ nrBuf[t] \in 0 .. MaxBuf /\ i \in 0 .. nrBuf[t] - 1
        BY <1>0, <1>3 DEF Usable, Types, Idx
      <4>3. mem[t][i] \in [flag : SUBSET Flags, data : Seq(Items)]
        BY <4>2, <1>0 DEF Types
      <4>4. PICK b \in Shmem : b = Reuse(mem[t][i])
        BY <4>3, <2>1 DEF Reuse, Shmem, Flags
      <4>5. SetsBuffer(t, i, b)
        BY <4>1, <4>2, <4>4, <1>0 DEF SetsBuffer, Types
      <4>6. mem' \in [Tasks -> [Idx -> Shmem]]
        BY <4>2, <4>5, <1>0, SetsTypes
      <4>7. nrBuf[t] - 1 \in 0 .. MaxBuf
        BY <4>2, <1>3
      <4>. QED
        BY <4>1, <4>2, <4>6, <4>7, <1>0 DEF Types
    <3>2. CASE AllocateBuffer(t)
      <4>1. /\ nrBuf[t] < MaxBuf
            /\ mem' = [mem EXCEPT ![t][nrBuf[t]] = Reuse(FreshBuffer)]
            /\ curr' = [curr EXCEPT ![t] = nrBuf[t]]
            /\ nrBuf' = [nrBuf EXCEPT ![t] = @ + 1]
        BY <3>2 DEF AllocateBuffer
      <4>2. PICK i \in Idx : i = nrBuf[t]
        BY <4>1, <1>0, <1>3 DEF Idx, Types
      <4>3. PICK b \in Shmem : b = Reuse(FreshBuffer)
        BY <2>1 DEF Reuse, Shmem, Flags, FreshBuffer
      <4>4. SetsBuffer(t, i, b)
        BY <4>1, <4>2, <4>3 DEF SetsBuffer
      <4>5. mem' \in [Tasks -> [Idx -> Shmem]]
        BY <4>4, <1>0, SetsTypes
      <4>6. nrBuf[t] + 1 \in 0 .. MaxBuf
        BY <4>1, <1>0, <1>3 DEF Types
      <4>. QED
        BY <4>1, <4>2, <4>5, <4>6, <1>0 DEF Types
    <3>. QED
      BY <3>1, <3>2, <1>8
  <2>3. ppc' \in [Tasks -> TaskPCs] /\ UNCHANGED <<losts, next, stream, blind, pfdOpen, pipe>>
    BY <1>8, <1>0 DEF ReuseBuffer, AllocateBuffer, Types, TaskPCs
  <2>. QED
    BY <2>2, <2>3, <1>0, <1>1, <1>2 DEF Types, Shmem
<1>9. CASE PrepareShmemBuffer(t)
  <2>1. PICK b \in Shmem : b = [flag |-> {"RECORDING", "NEW"}, data |-> << >>]
    <3>1. << >> \in Seq(Items)
      OBVIOUS
    <3>. QED
      BY <3>1 DEF Shmem, Flags
  <2>2. SetsBuffer(t, 0, b)
    BY <1>9, <2>1 DEF PrepareShmemBuffer, SetsBuffer
  <2>3. mem' \in [Tasks -> [Idx -> Shmem]]
    BY <2>2, <1>0, <1>3, SetsTypes
  <2>4. pipe' \in Seq(Msgs)
    <3>1. Message("START", t, 0) \in Msgs
      BY DEF Message, Msgs
    <3>. QED
      BY <3>1, <1>9, <1>0, SendTypes DEF PrepareShmemBuffer
  <2>5. /\ nrBuf' \in [Tasks -> 0 .. MaxBuf] /\ curr' \in [Tasks -> Idx \cup {-1}]
        /\ ppc' \in [Tasks -> TaskPCs] /\ blind' \in SUBSET Tasks
    BY <1>9, <1>0, <1>3 DEF PrepareShmemBuffer, Types, TaskPCs
  <2>. QED
    BY <2>3, <2>4, <2>5, <1>9, <1>0, <1>1, <1>2 DEF PrepareShmemBuffer, Types, Shmem
<1>. QED
  BY <1>4, <1>5, <1>6, <1>7, <1>8, <1>9 DEF TaskStep

\* A sequence with its gaps marked stays one when the next record, the first one or a LOST
\* record is appended to it.
LEMMA MarkedAppend ==
  ASSUME NEW s \in Seq(Items), NEW x \in Items, Marked(s),
         x.kind = "rec" =>
            \/ s = << >> /\ x.num = 1
            \/ s # << >> /\ (s[Len(s)] = Rec(x.num - 1) \/ s[Len(s)].kind = "lost")
  PROVE  Marked(Append(s, x)) /\ Append(s, x) # << >> /\ Append(s, x)[Len(Append(s, x))] = x
<1>1. PICK d \in Seq(Items) : d = Append(s, x)
  <2>1. Append(s, x) \in Seq(Items)
    BY AppendProperties
  <2>. QED
    BY <2>1
<1>2. /\ Len(d) = Len(s) + 1 /\ Len(s) \in Nat /\ d[Len(s) + 1] = x
      /\ \A k \in 1 .. Len(s) : d[k] = s[k]
      /\ d # << >> /\ (s = << >> <=> Len(s) = 0)
  BY <1>1, AppendProperties, LenProperties, EmptySeq
<1>3. ASSUME NEW i \in 1 .. Len(d), d[i].kind = "rec"
      PROVE  \/ i = 1 /\ d[i].num = 1
             \/ i > 1 /\ d[i - 1] = Rec(d[i].num - 1)
             \/ i > 1 /\ d[i - 1].kind = "lost"
  <2>1. CASE i \in 1 .. Len(s)
    <3>1. d[i] = s[i]
      BY <1>2, <2>1
    <3>2. i > 1 => d[i - 1] = s[i - 1]
      BY <1>2, <2>1
    <3>. QED
      BY <3>1, <3>2, <2>1, <1>3 DEF Marked
  <2>2. CASE i = Len(s) + 1
    <3>1. d[i] = x
      BY <1>2, <2>2
    <3>2. CASE s = << >>
      BY <3>1, <3>2, <2>2, <1>2, <1>3
    <3>3. CASE s # << >>
      <4>1. i > 1 /\ i - 1 = Len(s) /\ d[i - 1] = s[Len(s)]
        BY <3>3, <2>2, <1>2
      <4>. QED
        BY <4>1, <3>1, <3>3, <1>3
    <3>. QED
      BY <3>2, <3>3
  <2>. QED
    BY <2>1, <2>2, <1>2
<1>4. Marked(d)
  BY <1>3 DEF Marked
<1>. QED
  BY <1>1, <1>2, <1>4

LEMMA MarkedOfTask ==
  ASSUME RecInv, NEW t \in Tasks, TaskStep(t) \/ Killed(t)
  PROVE  StreamMarked'
<1>0. Types /\ Counted /\ StreamMarked
  BY DEF RecInv
<1>1. Alone(t)
  BY <1>0, StepAlone
<1>2. ASSUME NEW u \in Tasks \ {t}
      PROVE  stream'[u] = stream[u] /\ next'[u] = next[u] /\ losts'[u] = losts[u]
  BY <1>1 DEF Alone
<1>3. CASE stream'[t] = stream[t]
  <2>1. (next'[t] = next[t] /\ losts'[t] = losts[t]) \/ losts'[t] # 0
    <3>1. CASE LoseRecord(t)
      <4>1. losts'[t] = losts[t] + 2 /\ losts[t] \in Nat
        BY <3>1, <1>0 DEF LoseRecord, Types
      <4>. QED
        BY <4>1
    <3>2. CASE StoreRecord(t)
      <4>1. stream'[t] = Append(stream[t], Rec(next[t])) /\ stream[t] \in Seq(Items)
        BY <3>2, <1>0 DEF StoreRecord, Types
      <4>2. Rec(next[t]) \in [kind : {"rec"}, num : Nat]
        BY <1>0 DEF Rec, Types
      <4>3. Len(Append(stream[t], Rec(next[t]))) = Len(stream[t]) + 1 /\ Len(stream[t]) \in Nat
        BY <4>1, LenProperties
      <4>. QED
        BY <4>1, <4>3, <1>3
    <3>3. CASE ReportLost(t)
      <4>1. stream'[t] = Append(stream[t], Lost(losts[t])) /\ stream[t] \in Seq(Items)
        BY <3>3, <1>0 DEF ReportLost, Types
      <4>2. Len(Append(stream[t], Lost(losts[t]))) = Len(stream[t]) + 1 /\ Len(stream[t]) \in Nat
        BY <4>1, LenProperties
      <4>. QED
        BY <4>1, <4>2, <1>3
    <3>4. CASE ~(LoseRecord(t) \/ StoreRecord(t) \/ ReportLost(t))
      BY <3>4 DEF TaskStep, PrepareShmemBuffer, FinishShmemBuffer, ReuseBuffer, AllocateBuffer,
                  StartBuffer, ShmemFinish, Killed
    <3>. QED
      BY <3>1, <3>2, <3>3, <3>4
  <2>. QED
    BY <2>1, <1>0, <1>2, <1>3 DEF StreamMarked
<1>4. CASE StoreRecord(t)
  <2>1. PICK x \in Items : x = Rec(next[t])
    <3>1. next[t] \in Nat /\ next[t] <= MaxRec
      BY <1>4, <1>0 DEF StoreRecord, Types
    <3>2. next[t] \in 0 .. 2 * MaxRec
      BY <3>1, RecordingAssumption
    <3>. QED
      BY <3>2 DEF Rec, Items
  <2>2. /\ stream'[t] = Append(stream[t], x) /\ stream[t] \in Seq(Items)
        /\ next'[t] = next[t] + 1 /\ losts'[t] = losts[t] /\ next[t] \in Nat
    BY <2>1, <1>4, <1>0 DEF StoreRecord, Types
  <2>3. losts[t] = 0
    BY <1>4, <1>0 DEF StoreRecord, Counted
  <2>4. x.kind = "rec" /\ x.num = next[t]
    BY <2>1 DEF Rec
  <2>5. PICK s \in Seq(Items) : s = stream[t]
    BY <2>2
  <2>6. \/ s = << >> /\ x.num = 1
        \/ s # << >> /\ (s[Len(s)] = Rec(x.num - 1) \/ s[Len(s)].kind = "lost")
    BY <2>3, <2>4, <2>5, <1>0 DEF StreamMarked
  <2>7. Marked(s)
    BY <2>5, <1>0 DEF StreamMarked
  <2>8. PICK d : d = Append(s, x)
    OBVIOUS
  <2>9. Marked(d) /\ d # << >> /\ d[Len(d)] = x
    BY <2>6, <2>7, <2>8, MarkedAppend
  <2>10. stream'[t] = d /\ x = Rec(next'[t] - 1)
    BY <2>1, <2>2, <2>5, <2>8
  <2>. QED
    BY <2>9, <2>10, <1>0, <1>2 DEF StreamMarked
<1>5. CASE ReportLost(t)
  <2>1. PICK x \in Items : x = Lost(losts[t])
    <3>1. losts[t] <= 2 * (next[t] - 1) /\ next[t] <= MaxRec
      BY <1>5, <1>0 DEF ReportLost, Counted
    <3>2. losts[t] \in Nat /\ next[t] \in Nat /\ MaxRec \in Nat
      BY <1>0, RecordingAssumption DEF Types
    <3>3. losts[t] \in 0 .. 2 * MaxRec
      BY <3>1, <3>2
    <3>. QED
      BY <3>3 DEF Lost, Items
  <2>2. stream'[t] = Append(stream[t], x) /\ stream[t] \in Seq(Items)
    BY <2>1, <1>5, <1>0 DEF ReportLost, Types
  <2>3. x.kind = "lost"
    BY <2>1 DEF Lost
  <2>4. PICK s \in Seq(Items) : s = stream[t]
    BY <2>2
  <2>5. Marked(s)
    BY <2>4, <1>0 DEF StreamMarked
  <2>6. PICK d : d = Append(s, x)
    OBVIOUS
  <2>7. Marked(d) /\ d # << >> /\ d[Len(d)] = x
    BY <2>3, <2>5, <2>6, MarkedAppend
  <2>8. stream'[t] = d
    BY <2>2, <2>4, <2>6
  <2>. QED
    BY <2>3, <2>7, <2>8, <1>0, <1>2 DEF StreamMarked
<1>6. CASE ~(StoreRecord(t) \/ ReportLost(t))
  BY <1>3, <1>6 DEF TaskStep, PrepareShmemBuffer, FinishShmemBuffer, ReuseBuffer, AllocateBuffer,
                    LoseRecord, StartBuffer, ShmemFinish, Killed
<1>. QED
  BY <1>4, <1>5, <1>6

LEMMA CountedOfTask ==
  ASSUME RecInv, NEW t \in Tasks, TaskStep(t) \/ Killed(t)
  PROVE  Counted'
<1>0. Types /\ Counted
  BY DEF RecInv
<1>1. Alone(t)
  BY <1>0, StepAlone
<1>2. /\ losts[t] \in Nat /\ next[t] \in Nat /\ next[t] >= 1 /\ MaxRec \in Nat
      /\ losts[t] <= 2 * (next[t] - 1)
      /\ \A i \in Idx : i # -1
  BY <1>0, RecordingAssumption DEF Types, Counted, Idx
<1>3. /\ losts'[t] <= 2 * (next'[t] - 1)
      /\ ppc'[t] \in {"new", "start", "lost", "store"} => next'[t] <= MaxRec /\ curr'[t] # -1
      /\ ppc'[t] = "new" \/ ppc'[t] = "store" \/ (ppc'[t] = "rec" /\ curr'[t] # -1)
            => losts'[t] = 0
  <2>1. CASE PrepareShmemBuffer(t)
    <3>1. losts[t] = 0
      BY <2>1 DEF PrepareShmemBuffer, RecInv, Lanes, Lane, Fresh
    <3>. QED
      BY <2>1, <3>1, <1>0, <1>2 DEF PrepareShmemBuffer, Types
  <2>2. CASE StoreRecord(t)
    <3>1. losts[t] = 0 /\ curr[t] # -1
      BY <2>2, <1>0 DEF StoreRecord, Counted
    <3>2. losts'[t] = losts[t] /\ next'[t] = next[t] + 1 /\ ppc'[t] = "rec"
      BY <2>2, <1>0 DEF StoreRecord, Types
    <3>. QED
      BY <3>1, <3>2, <1>2
  <2>3. CASE FinishShmemBuffer(t)
    BY <2>3, <1>0, <1>2 DEF FinishShmemBuffer, Types, Counted
  <2>4. CASE ReuseBuffer(t) \/ AllocateBuffer(t)
    <3>1. next[t] <= MaxRec
      BY <2>4, <1>0 DEF ReuseBuffer, AllocateBuffer, NeedsBuffer, Counted
    <3>2. curr'[t] \in Nat
      BY <2>4, <1>0 DEF ReuseBuffer, AllocateBuffer, Usable, Types
    <3>3. losts' = losts /\ next' = next /\ ppc'[t] = "start"
      BY <2>4, <1>0 DEF ReuseBuffer, AllocateBuffer, Types
    <3>. QED
      BY <3>1, <3>2, <3>3, <1>2
  <2>5. CASE LoseRecord(t)
    <3>1. losts'[t] = losts[t] + 2 /\ next'[t] = next[t] + 1 /\ ppc'[t] = "rec" /\ curr'[t] = -1
      BY <2>5, <1>0 DEF LoseRecord, Types
    <3>. QED
      BY <3>1, <1>2
  <2>6. CASE StartBuffer(t)
    BY <2>6, <1>0, <1>2 DEF StartBuffer, Types, Counted
  <2>7. CASE ReportLost(t)
    BY <2>7, <1>0, <1>2 DEF ReportLost, Types, Counted
  <2>8. CASE ShmemFinish(t) \/ Killed(t)
    BY <2>8, <1>0, <1>2 DEF ShmemFinish, Killed, Types
  <2>. QED
    BY <2>1, <2>2, <2>3, <2>4, <2>5, <2>6, <2>7, <2>8 DEF TaskStep
<1>4. ASSUME NEW u \in Tasks \ {t}
      PROVE  losts'[u] = losts[u] /\ next'[u] = next[u] /\ ppc'[u] = ppc[u] /\ curr'[u] = curr[u]
  BY <1>1 DEF Alone
<1>. QED
  BY <1>3, <1>4, <1>0 DEF Counted

LEMMA PhasedOfTask ==
  ASSUME RecInv, NEW t \in Tasks, UNCHANGED <<poolVars, recorderVars>>, TaskStep(t) \/ Killed(t)
  PROVE  Phased'
<1>0. Types /\ Phased
  BY DEF RecInv
<1>1. ppc[t] # "gone"
  BY DEF TaskStep, PrepareShmemBuffer, StoreRecord, FinishShmemBuffer, ReuseBuffer, AllocateBuffer,
         LoseRecord, NeedsBuffer, StartBuffer, ReportLost, ShmemFinish, Killed
<1>2. stop' = stop /\ bufDone' = bufDone /\ mpc' = mpc /\ listed' = listed /\ pfdOpen' = pfdOpen
  BY <1>0, StepAlone DEF poolVars, recorderVars
<1>3. pfdOpen => blind' = blind
  BY DEF TaskStep, PrepareShmemBuffer, StoreRecord, FinishShmemBuffer, ReuseBuffer, AllocateBuffer,
         LoseRecord, StartBuffer, ReportLost, ShmemFinish, Killed
<1>. QED
  BY <1>0, <1>1, <1>2, <1>3 DEF Phased

\* A thread stores into no buffer that a writer has.
LEMMA EmptyingOfTask ==
  ASSUME RecInv, NEW t \in Tasks, UNCHANGED <<poolVars, recorderVars>>, TaskStep(t) \/ Killed(t)
  PROVE  Emptying'
<1>0. Base /\ Types /\ Emptying /\ PoolShape /\ Counted
  BY DEF RecInv, Base
<1>1. UNCHANGED <<wpc, head>>
  BY DEF poolVars
<1>2. SUFFICES ASSUME NEW w \in Writers, wpc[w] = "release"
      PROVE  (Data(Head(head[w]).tid, Head(head[w]).idx) = << >>)'
  BY <1>1 DEF Emptying
<1>3. PICK b \in Buf : b = Head(head[w]) /\ b.tid = wtid[w] /\ wtid[w] \in Tasks
                       /\ Backlog(wtid[w]) # << >> /\ Head(Backlog(wtid[w])) = b
  BY <1>0, <1>2, BacklogHead DEF Types
<1>4. Data(b.tid, b.idx) = << >>
  BY <1>0, <1>2, <1>3 DEF Emptying
<1>5. b.tid \in Tasks /\ b.idx \in Idx /\ Queued(b.tid, b.idx)
  <2>1. /\ Head(Backlog(b.tid)) = Backlog(b.tid)[1] /\ Len(Backlog(b.tid)) \in Nat \ {0}
    BY <1>0, <1>3, QueuedAt, TailFacts
  <2>. QED
    BY <2>1, <1>3 DEF Queued, Buf
<1>6. ~Flushing
  BY <1>0, <1>2 DEF PoolShape, Phases, Flushing
<1>7. PICK n \in Ranks, g \in Ranks : Lane(t, n, g)
  BY DEF RecInv, Lanes
<1>8. Storing(t) => ~(b.tid = t /\ b.idx = curr[t])
  BY <1>5, <1>6, <1>7 DEF Lane, Current, LastBuffer
<1>9. Data(b.tid, b.idx)' = << >>
  <2>1. CASE mem'[b.tid][b.idx] = mem[b.tid][b.idx]
    BY <2>1, <1>4 DEF Data
  <2>2. CASE StoreRecord(t) \/ ReportLost(t)
    <3>1. Storing(t) /\ curr[t] \in Idx
      BY <2>2, <1>0 DEF StoreRecord, ReportLost, Storing, Counted, Types
    <3>2. mem'[b.tid][b.idx] = mem[b.tid][b.idx]
      <4>1. CASE StoreRecord(t)
        BY <4>1, <3>1, <1>0, <1>5, <1>8 DEF StoreRecord, Types
      <4>2. CASE ReportLost(t)
        BY <4>2, <3>1, <1>0, <1>5, <1>8 DEF ReportLost, Types
      <4>. QED
        BY <4>1, <4>2, <2>2
    <3>. QED
      BY <3>2, <2>1
  <2>3. CASE PrepareShmemBuffer(t)
    <3>1. 0 \in Idx
      BY RecordingAssumption DEF Idx
    <3>2. \/ mem'[b.tid][b.idx] = mem[b.tid][b.idx]
          \/ mem'[b.tid][b.idx] = [flag |-> {"RECORDING", "NEW"}, data |-> << >>]
      BY <2>3, <3>1, <1>0, <1>5 DEF PrepareShmemBuffer, Types
    <3>. QED
      BY <3>2, <2>1 DEF Data
  <2>4. CASE ReuseBuffer(t)
    <3>1. PICK i \in Usable(t) : mem' = [mem EXCEPT ![t][i] = Reuse(@)]
      BY <2>4 DEF ReuseBuffer
    <3>2. \/ mem'[b.tid][b.idx] = mem[b.tid][b.idx]
          \/ mem'[b.tid][b.idx] = Reuse(mem[b.tid][b.idx])
      BY <3>1, <1>0, <1>5 DEF Types
    <3>. QED
      BY <3>2, <2>1 DEF Data, Reuse
  <2>5. CASE AllocateBuffer(t)
    <3>1. \/ mem'[b.tid][b.idx] = mem[b.tid][b.idx]
          \/ mem'[b.tid][b.idx] = Reuse(FreshBuffer)
      BY <2>5, <1>0, <1>5 DEF AllocateBuffer, Types
    <3>. QED
      BY <3>1, <2>1 DEF Data, Reuse
  <2>6. CASE ~(StoreRecord(t) \/ ReportLost(t) \/ PrepareShmemBuffer(t) \/ ReuseBuffer(t)
                 \/ AllocateBuffer(t))
    BY <2>6, <2>1 DEF TaskStep, FinishShmemBuffer, LoseRecord, StartBuffer, ShmemFinish, Killed
  <2>. QED
    BY <2>2, <2>3, <2>4, <2>5, <2>6
<1>10. head'[w] = head[w]
  BY <1>1
<1>. QED
  BY <1>3, <1>9, <1>10 DEF Data

LEMMA TaskKeeps ==
  ASSUME RecInv, NEW t \in Tasks, UNCHANGED <<poolVars, recorderVars>>, TaskStep(t) \/ Killed(t)
  PROVE  RecInv'
<1>1. PoolShape'
  <2>1. PoolStep(Buf)
    BY DEF PoolStep
  <2>. QED
    BY <2>1, PoolStepKeeps DEF RecInv, Types
<1>. QED
  BY <1>1, TypesOfTask, LanesOfTask, CountedOfTask, PhasedOfTask, EmptyingOfTask, MarkedOfTask
  DEF RecInv

-----------------------------------------------------------------------------
(* The steps of uftrace. *)

\* What does not depend on the messages and the files
LEMMA RestKept ==
  ASSUME RecInv, UNCHANGED taskVars
  PROVE  /\ Counted' /\ StreamMarked'
         /\ \A t \in Tasks : KeepsTask(t)
         /\ mem' = mem /\ (\A t \in Tasks : file'[t] = file[t] => KeepsData(t))
<1>1. /\ Counted /\ StreamMarked
      /\ UNCHANGED <<mem, nrBuf, curr, losts, ppc, next, stream, blind>>
  BY DEF RecInv, taskVars
<1>2. Counted' /\ StreamMarked'
  BY <1>1 DEF Counted, StreamMarked
<1>3. \A t \in Tasks : KeepsTask(t) /\ (file'[t] = file[t] => KeepsData(t))
  BY <1>1 DEF KeepsTask, KeepsData, Data, Taken
<1>. QED
  BY <1>1, <1>2, <1>3

LEMMA EmptyingKept ==
  ASSUME RecInv, mem' = mem,
         \A w \in Writers : wpc'[w] = "release" => wpc[w] = "release" /\ head'[w] = head[w]
  PROVE  Emptying'
BY DEF RecInv, Emptying, Data

LEMMA TypesKept ==
  ASSUME RecInv, UNCHANGED taskVars, PoolTypes(Buf)',
         pfdOpen' \in BOOLEAN, pipe' \in Seq(Msgs), listed' \in Seq(Buf),
         file' \in [Tasks -> Seq(Items)],
         stop' \in {"no", "exited", "finished", "interrupted"}
  PROVE  Types'
<1>1. Types /\ UNCHANGED <<mem, nrBuf, curr, losts, ppc, next, stream, blind>>
  BY DEF RecInv, taskVars
<1>. QED
  BY <1>1 DEF Types

\* A step that moves no buffer from one place to another keeps the invariant.
LEMMA QuietStep ==
  ASSUME RecInv, UNCHANGED taskVars, UNCHANGED <<file, stop>>, PoolStep(Buf), ChanQuiet, Phased',
         pfdOpen' \in BOOLEAN, pfdOpen' => pfdOpen, pipe' \in Seq(Msgs), listed' \in Seq(Buf),
         \A t \in Tasks : Backlog(t)' = Backlog(t), Flushing => Flushing',
         \A w \in Writers : wpc'[w] = "release" => wpc[w] = "release" /\ head'[w] = head[w]
  PROVE  RecInv'
<1>0. Base /\ Types
  BY DEF RecInv, Base
<1>1. PoolTypes(Buf)' /\ PoolShape'
  BY PoolStepKeeps DEF RecInv, Types
<1>2. /\ Counted' /\ StreamMarked' /\ mem' = mem
      /\ \A t \in Tasks : KeepsTask(t) /\ KeepsData(t)
  BY RestKept
<1>3. Emptying'
  BY <1>2, EmptyingKept
<1>4. file' \in [Tasks -> Seq(Items)] /\ stop' \in {"no", "exited", "finished", "interrupted"}
  BY <1>0 DEF Types
<1>5. Types'
  BY <1>1, <1>4, TypesKept
<1>6. MsgShape'
  BY DEF ChanQuiet
<1>7. Lanes'
  <2>1. SUFFICES ASSUME NEW t \in Tasks
        PROVE  \E n, g \in Ranks : Lane(t, n, g)'
    BY DEF Lanes
  <2>2. PICK n \in Ranks, g \in Ranks : Lane(t, n, g)
    BY DEF RecInv, Lanes
  <2>3. KeepsChan(t)
    BY QuietKeeps
  <2>4. KeepsTask(t) /\ KeepsData(t)
    BY <1>2
  <2>5. Backlog(t)' = Backlog(t) /\ stop' = stop
    OBVIOUS
  <2>6. Lane(t, n, g)'
    BY <1>0, <2>2, <2>3, <2>4, <2>5, LaneSame
  <2>. QED
    BY <2>6
<1>. QED
  BY <1>1, <1>2, <1>3, <1>5, <1>6, <1>7 DEF RecInv

LEMMA TraceFinishKeeps ==
  ASSUME RecInv, NEW sendMsg \in BOOLEAN, TraceFinish(sendMsg),
         UNCHANGED <<poolVars, recorderVars>>
  PROVE  RecInv'
<1>0. Types /\ MsgShape /\ Phased
  BY DEF RecInv
<1>1. pfdOpen /\ pfdOpen' = FALSE /\ UNCHANGED taskVars
  BY DEF TraceFinish
<1>2. UNCHANGED <<listed, stop, file, wpc, head, mpc, bufDone>>
  BY DEF recorderVars, poolVars
<1>3. PICK m \in Msgs : m = Message("FINISH", NoTask, 0)
  BY DEF Message, Msgs
<1>4. m.type = "FINISH" /\ m.tid \notin Tasks
  BY <1>3, PoolAssumption DEF Message
<1>5. ChanQuiet /\ pipe' \in Seq(Msgs)
  <2>1. CASE sendMsg
    <3>1. Send(m)
      BY <2>1, <1>1, <1>3 DEF TraceFinish, Send
    <3>2. Chan' = IF pfdOpen /\ stop = "no" THEN Append(Chan, m) ELSE Chan
      BY <3>1, <1>0, <1>2, SendChan
    <3>3. ChanQuiet
      <4>1. CASE Chan' = Chan
        BY <4>1, <1>0, ChanSame
      <4>2. CASE Chan' = Append(Chan, m)
        BY <4>2, <1>4, <1>0, SendOther
      <4>. QED
        BY <3>2, <4>1, <4>2
    <3>. QED
      BY <3>1, <3>3, <1>0, SendTypes
  <2>2. CASE ~sendMsg
    <3>1. pipe' = pipe
      BY <2>2 DEF TraceFinish
    <3>2. Chan' = Chan
      BY <3>1, <1>2 DEF Chan, Unread
    <3>. QED
      BY <3>1, <3>2, <1>0, ChanSame DEF Types
  <2>. QED
    BY <2>1, <2>2
<1>6. PoolStep(Buf) /\ \A t \in Tasks : Backlog(t)' = Backlog(t)
  BY OwnStep DEF PoolStep
<1>7. Phased'
  BY <1>0, <1>1, <1>2 DEF Phased, taskVars
<1>8. Flushing => Flushing'
  BY <1>2 DEF Flushing
<1>9. listed' \in Seq(Buf)
  BY <1>0, <1>2 DEF Types
<1>. QED
  BY <1>1, <1>2, <1>5, <1>6, <1>7, <1>8, <1>9, QuietStep

\* The first unread message
LEMMA FirstMessage ==
  ASSUME RecInv, stop = "no", pipe # << >>
  PROVE  /\ Proper(Head(pipe)) /\ Tail(pipe) \in Seq(Msgs) /\ pipe \in Seq(Msgs)
         /\ Head(pipe).type \in {"START", "END"} =>
              /\ Head(pipe).tid \in Tasks /\ Head(pipe).arg \in Idx
              /\ [tid |-> Head(pipe).tid, idx |-> Head(pipe).arg] \in Buf
              /\ Head(pipe) = Message(Head(pipe).type, Head(pipe).tid, Head(pipe).arg)
<1>0. Types /\ MsgShape /\ pipe \in Seq(Msgs)
  BY DEF RecInv, Types
<1>1. /\ Unread = pipe /\ Len(Chan) = Len(listed) + Len(pipe)
      /\ Len(listed) \in Nat /\ listed \in Seq(Buf)
  BY <1>0, ChanFacts
<1>2. /\ Head(pipe) = pipe[1] /\ Len(pipe) \in Nat \ {0} /\ Tail(pipe) \in Seq(Msgs)
      /\ 1 \in 1 .. Len(pipe)
  BY <1>0, TailFacts
<1>3. /\ 1 + Len(listed) \in 1 .. Len(Channel(listed, pipe))
      /\ Channel(listed, pipe)[1 + Len(listed)] = pipe[1]
  BY <1>0, <1>1, <1>2, ChannelFacts
<1>4. Proper(pipe[1])
  BY <1>0, <1>1, <1>3 DEF Chan, MsgShape
<1>5. PICK m \in Msgs : m = Head(pipe) /\ Proper(m)
  BY <1>2, <1>4 DEF Proper
<1>6. m.type \in {"START", "END"} =>
        /\ m.tid \in Tasks /\ m.arg \in Idx
        /\ [tid |-> m.tid, idx |-> m.arg] \in Buf
        /\ m = Message(m.type, m.tid, m.arg)
  BY <1>5 DEF Proper, Msgs, Buf, Message
<1>. QED
  BY <1>0, <1>2, <1>5, <1>6

LEMMA ReadQuietKeeps ==
  ASSUME RecInv, ReadMessage, Head(pipe).type # "END"
  PROVE  RecInv'
<1>0. Types /\ MsgShape /\ Phased
  BY DEF RecInv
<1>1. /\ stop = "no" /\ pipe # << >> /\ pipe' = Tail(pipe)
      /\ UNCHANGED <<taskVars, pfdOpen, stop, poolVars>>
      /\ \/ Head(pipe).type = "START"
            /\ listed' = Append(listed, [tid |-> Head(pipe).tid, idx |-> Head(pipe).arg])
         \/ Head(pipe).type \notin {"START", "END"} /\ listed' = listed
  BY DEF ReadMessage
<1>2. pipe' \in Seq(Msgs)
  BY <1>1, FirstMessage
<1>3. ChanQuiet /\ listed' \in Seq(Buf)
  <2>1. CASE Head(pipe).type = "START"
    <3>1. PICK b \in Buf : b = [tid |-> Head(pipe).tid, idx |-> Head(pipe).arg]
      BY <1>1, <2>1, FirstMessage
    <3>2. Head(pipe) = Message("START", b.tid, b.idx)
      BY <1>1, <2>1, <3>1, FirstMessage
    <3>3. listed' = Append(listed, b)
      BY <1>1, <2>1, <3>1
    <3>4. listed' \in Seq(Buf)
      BY <3>3, <1>0, AppendProperties DEF Types
    <3>. QED
      BY <1>0, <1>1, <3>2, <3>3, <3>4, ReadStartChan
  <2>2. CASE Head(pipe).type \notin {"START", "END"}
    <3>1. listed' = listed
      BY <1>1, <2>2
    <3>. QED
      BY <1>0, <1>1, <2>2, <3>1, ReadOtherChan DEF Types
  <2>. QED
    BY <2>1, <2>2
<1>4. UNCHANGED <<file, mpc, bufDone, wpc, head>> /\ UNCHANGED <<blind, ppc>>
  BY <1>1 DEF poolVars, taskVars
<1>5. PoolStep(Buf) /\ \A t \in Tasks : Backlog(t)' = Backlog(t)
  BY <1>1 DEF PoolStep, poolVars, Backlog
<1>6. Phased'
  <2>1. mpc = "run"
    BY DEF ReadMessage
  <2>. QED
    BY <2>1, <1>0, <1>1, <1>4 DEF Phased
<1>7. (Flushing => Flushing') /\ pfdOpen' \in BOOLEAN
  BY <1>0, <1>1, <1>4 DEF Flushing, Types
<1>. QED
  BY <1>1, <1>2, <1>3, <1>4, <1>5, <1>6, <1>7, QuietStep

\* The steps of the pool that move buffers within a backlog at most
LEMMA PoolOnlyKeeps ==
  ASSUME RecInv,
         \/ PoolOnly(Kick) \/ PoolOnly(JoinWriters) \/ PoolOnly(RecordRemainingDone)
         \/ FlushShmemDone
         \/ \E w \in Writers : PoolOnly(WriterStep(w))
  PROVE  RecInv'
<1>0. Types /\ MsgShape /\ Phased /\ PoolShape
  BY DEF RecInv
<1>1. UNCHANGED taskVars /\ pfdOpen' = pfdOpen /\ pipe' = pipe /\ UNCHANGED <<listed, stop>>
  BY DEF PoolOnly, FlushShmemDone, recorderVars
<1>2. /\ \/ Kick \/ JoinWriters \/ RecordRemainingDone \/ FlushDone
         \/ \E w \in Writers : WriterStep(w)
      /\ FlushDone => listed = << >>
  BY DEF PoolOnly, FlushShmemDone, FlushDone, Kick, JoinWriters, RecordRemainingDone, WriterStep,
         PollKick, PollNothing, ReadKick, PickTask, PickNothing, SpliceBufs, LeaveTask
<1>3. PoolStep(Buf)
  BY <1>2 DEF PoolStep
<1>4. PoolTypes(Buf) /\ PoolShape'
  BY <1>0, <1>3, PoolStepKeeps DEF Types
<1>5. \A t \in Tasks : Backlog(t)' = Backlog(t)
  BY <1>0, <1>2, <1>4, BacklogKept
<1>6. file' = file
  BY <1>2 DEF Kick, JoinWriters, RecordRemainingDone, FlushDone, WriterStep, PollKick, PollNothing,
              ReadKick, PickTask, PickNothing, SpliceBufs, LeaveTask
<1>7. ChanQuiet
  BY <1>0, <1>1, ChanSame DEF Chan, Unread
<1>8. Phased' /\ (Flushing => Flushing')
  <2>1. CASE Kick
    BY <2>1, <1>0, <1>1 DEF Kick, Phased, Flushing, taskVars
  <2>2. CASE JoinWriters
    BY <2>2, <1>0, <1>1 DEF JoinWriters, Phased, Flushing, taskVars
  <2>3. CASE RecordRemainingDone
    BY <2>3, <1>0, <1>1 DEF RecordRemainingDone, Phased, Flushing, taskVars
  <2>4. CASE FlushDone
    BY <2>4, <1>0, <1>1, <1>2 DEF FlushDone, Phased, Flushing, taskVars
  <2>5. CASE \E w \in Writers : WriterStep(w)
    <3>1. mpc' = mpc /\ bufDone' = bufDone
      BY <2>5 DEF WriterStep, PollKick, PollNothing, ReadKick, PickTask, PickNothing, SpliceBufs,
                  LeaveTask
    <3>. QED
      BY <3>1, <1>0, <1>1 DEF Phased, Flushing, taskVars
  <2>. QED
    BY <1>2, <2>1, <2>2, <2>3, <2>4, <2>5
<1>9. \A w \in Writers : wpc'[w] = "release" => wpc[w] = "release" /\ head'[w] = head[w]
  <2>1. CASE \E w \in Writers : WriterStep(w)
    BY <2>1, <1>4 DEF PoolTypes, WriterStep, PollKick, PollNothing, ReadKick, PickTask, PickNothing,
                     SpliceBufs, LeaveTask, LoopTop
  <2>2. CASE Kick \/ JoinWriters \/ RecordRemainingDone \/ FlushDone
    BY <2>2 DEF Kick, JoinWriters, RecordRemainingDone, FlushDone
  <2>. QED
    BY <1>2, <2>1, <2>2
<1>10. pfdOpen' \in BOOLEAN /\ pipe' \in Seq(Msgs) /\ listed' \in Seq(Buf)
  BY <1>0, <1>1 DEF Types
<1>11. UNCHANGED <<file, stop>>
  BY <1>1, <1>6
<1>. QED
  BY <1>1, <1>3, <1>5, <1>7, <1>8, <1>9, <1>10, <1>11, QuietStep

LEMMA StopTracingKeeps ==
  ASSUME RecInv, StopTracing
  PROVE  RecInv'
<1>0. Base /\ Types /\ MsgShape /\ Phased /\ PoolShape
  BY DEF RecInv, Base
<1>1. /\ StopAllWriters /\ stop' \in StopReasons
      /\ UNCHANGED taskVars /\ UNCHANGED <<pfdOpen, pipe, listed>>
  BY DEF StopTracing
<1>2. mpc = "run" /\ mpc' = "join" /\ bufDone' = TRUE /\ UNCHANGED <<file, wpc, head>>
  BY <1>1 DEF StopAllWriters
<1>3. stop = "no" /\ ~Flushing
  BY <1>0, <1>2 DEF PoolShape, Phases, Phased, Flushing
<1>4. /\ stop' \in {"exited", "finished", "interrupted"}
      /\ stop' = "exited" => pipe = << >> /\ \A t \in Tasks : ppc[t] = "gone"
  BY <1>1 DEF StopReasons
<1>5. PoolStep(Buf)
  BY <1>1 DEF PoolStep
<1>6. PoolTypes(Buf) /\ PoolTypes(Buf)' /\ PoolShape'
  BY <1>0, <1>5, PoolStepKeeps DEF Types
<1>7. \A t \in Tasks : Backlog(t)' = Backlog(t)
  BY <1>0, <1>1, <1>6, BacklogKept
<1>8. /\ Counted' /\ StreamMarked' /\ mem' = mem
      /\ \A t \in Tasks : KeepsTask(t) /\ KeepsData(t)
  BY <1>1, <1>2, RestKept
<1>9. Emptying'
  BY <1>2, <1>8, EmptyingKept
<1>10. Types'
  <2>1. pfdOpen' \in BOOLEAN /\ pipe' \in Seq(Msgs) /\ listed' \in Seq(Buf)
        /\ file' \in [Tasks -> Seq(Items)]
    BY <1>0, <1>1, <1>2 DEF Types
  <2>. QED
    BY <2>1, <1>1, <1>4, <1>6, TypesKept
<1>11. Phased'
  BY <1>0, <1>1, <1>2, <1>4 DEF Phased, taskVars
<1>12. MsgShape'
  BY <1>0, <1>1, <1>3, <1>4, StopChan
<1>13. Lanes'
  <2>1. SUFFICES ASSUME NEW t \in Tasks
        PROVE  \E n, g \in Ranks : Lane(t, n, g)'
    BY DEF Lanes
  <2>2. PICK n \in Ranks, g \in Ranks : Lane(t, n, g)
    BY DEF RecInv, Lanes
  <2>3. KeepsTask(t) /\ KeepsData(t) /\ Backlog(t)' = Backlog(t) /\ pfdOpen' = pfdOpen
    BY <1>1, <1>7, <1>8
  <2>4. UNCHANGED <<listed, pipe>> /\ (stop' = "exited" => pipe = << >>) /\ (Flushing => Flushing')
    BY <1>1, <1>3, <1>4
  <2>5. Lane(t, n, g)'
    BY <1>0, <1>3, <1>4, <2>2, <2>3, <2>4, LaneStop
  <2>. QED
    BY <2>5
<1>. QED
  BY <1>6, <1>8, <1>9, <1>10, <1>11, <1>12, <1>13 DEF RecInv

\* A buffer leaves the channel and, if it has data, goes to the end of the backlog.
LEMMA HandOverStep ==
  ASSUME RecInv, NEW t \in Tasks, NEW i \in Idx, RecordMmapFile(t, i),
         UNCHANGED taskVars, UNCHANGED <<pfdOpen, stop>>,
         HandedOver(t, i), Started(t, i),
         \A n \in Ranks : ChanSorted(t, n) /\ Paired(t, n) =>
             \A j \in Idx : Started(t, j) /\ j # i => n[i] < n[j],
         \/ stop = "no" /\ Ended(t, i)
         \/ stop # "no" /\ mpc = "flush",
         mpc \in {"run", "flush"}, listed' \in Seq(Buf), pipe' \in Seq(Msgs)
  PROVE  RecInv'
<1>0. Base /\ Types /\ MsgShape /\ Phased /\ PoolShape
  BY DEF RecInv, Base
<1>1. PICK n \in Ranks, g \in Ranks : Lane(t, n, g)
  BY DEF RecInv, Lanes
<1>2. Taken(t, i)
  BY <1>1 DEF Lane, HeldMapped, Held
<1>3. PICK b \in Buf : b = [tid |-> t, idx |-> i]
  BY DEF Buf
<1>4. /\ Data(t, i) # << >> => CopyToBuffer(b)
      /\ Data(t, i) = << >> => UNCHANGED poolVars
  BY <1>2, <1>3 DEF RecordMmapFile, Data, Taken
<1>5. b.tid = t /\ b.idx = i
  BY <1>3
<1>6. PoolStep(Buf)
  BY <1>4, <1>5 DEF PoolStep
<1>7. PoolTypes(Buf) /\ PoolShape'
  BY <1>0, <1>6, PoolStepKeeps DEF Types
<1>8. UNCHANGED <<file, wpc, head, bufDone>> /\ (mpc' = mpc \/ mpc' = "kick")
  BY <1>4 DEF poolVars, CopyToBuffer, PassToWriter, AppendToList
<1>9. /\ Counted' /\ StreamMarked' /\ mem' = mem
      /\ \A u \in Tasks : KeepsTask(u) /\ KeepsData(u)
  BY <1>8, RestKept
<1>10. Emptying'
  BY <1>8, <1>9, EmptyingKept
<1>11. MsgShape'
  BY DEF HandedOver
<1>12. \A u \in Tasks : Backlog(u)' =
           IF u = t /\ Data(t, i) # << >> THEN Append(Backlog(u), b) ELSE Backlog(u)
  <2>1. CASE Data(t, i) # << >>
    BY <2>1, <1>0, <1>4, <1>5, <1>7, BacklogCopy
  <2>2. CASE Data(t, i) = << >>
    BY <2>2, <1>4 DEF poolVars, Backlog
  <2>. QED
    BY <2>1, <2>2
<1>13. /\ Flushing => Flushing'
       /\ stop # "no" => Flushing'
  <2>1. stop # "no" => mpc = "flush" /\ bufDone
    BY <1>0 DEF Phased
  <2>2. Flushing => mpc = "flush" /\ bufDone
    BY <1>0 DEF Flushing, PoolShape, Phases
  <2>. QED
    BY <1>8, <2>1, <2>2 DEF Flushing
<1>14. Lanes'
  <2>1. ASSUME NEW u \in Tasks, u # t
        PROVE  \E m, h \in Ranks : Lane(u, m, h)'
    <3>1. PICK m \in Ranks, h \in Ranks : Lane(u, m, h)
      BY DEF RecInv, Lanes
    <3>2. KeepsChan(u)
      BY <2>1 DEF HandedOver, KeepsChan
    <3>3. Backlog(u)' = Backlog(u) /\ KeepsTask(u) /\ KeepsData(u)
      BY <1>9, <1>12, <2>1
    <3>4. Lane(u, m, h)'
      BY <1>0, <1>13, <3>1, <3>2, <3>3, LaneSame
    <3>. QED
      BY <3>4
  <2>2. Lane(t, n, g)'
    <3>1. \A j \in Idx : Started(t, j) /\ j # i => n[i] < n[j]
      BY <1>1 DEF Lane
    <3>2. \/ stop = "no" /\ Ended(t, i)
          \/ stop # "no" /\ Flushing'
      BY <1>13
    <3>3. \/ Data(t, i) = << >> /\ Backlog(t)' = Backlog(t)
          \/ /\ Data(t, i) # << >>
             /\ \E d \in Buf : d.idx = i /\ Backlog(t)' = Append(Backlog(t), d)
      BY <1>5, <1>12
    <3>4. KeepsTask(t) /\ KeepsData(t) /\ pfdOpen' = pfdOpen /\ stop' = stop
      BY <1>9
    <3>. QED
      BY <1>0, <1>1, <1>13, <3>1, <3>2, <3>3, <3>4, LaneHandOver
  <2>. QED
    BY <2>1, <2>2 DEF Lanes
<1>15. Types'
  <2>1. file' \in [Tasks -> Seq(Items)] /\ pfdOpen' \in BOOLEAN
        /\ stop' \in {"no", "exited", "finished", "interrupted"} /\ PoolTypes(Buf)'
    BY <1>0, <1>6, <1>8, PoolStepKeeps DEF Types
  <2>. QED
    BY <2>1, TypesKept
<1>16. Phased'
  <2>1. mpc' \in {"run", "flush", "kick"}
    BY <1>8
  <2>. QED
    BY <2>1, <1>0, <1>8 DEF Phased, taskVars
<1>. QED
  BY <1>7, <1>9, <1>10, <1>11, <1>14, <1>15, <1>16 DEF RecInv

LEMMA ReadEndKeeps ==
  ASSUME RecInv, ReadMessage, Head(pipe).type = "END"
  PROVE  RecInv'
<1>0. Types /\ MsgShape
  BY DEF RecInv
<1>1. /\ mpc = "run" /\ stop = "no" /\ pipe # << >> /\ pipe' = Tail(pipe)
      /\ UNCHANGED taskVars /\ UNCHANGED <<pfdOpen, stop>>
      /\ listed' = WithoutFirst(listed, [tid |-> Head(pipe).tid, idx |-> Head(pipe).arg])
      /\ RecordMmapFile(Head(pipe).tid, Head(pipe).arg)
  BY DEF ReadMessage
<1>2. PICK t \in Tasks, i \in Idx : Head(pipe).tid = t /\ Head(pipe).arg = i
  BY <1>1, FirstMessage
<1>3. /\ Says(Head(pipe), "END", t, i) /\ RecordMmapFile(t, i)
      /\ listed' = WithoutFirst(listed, [tid |-> t, idx |-> i])
  BY <1>1, <1>2 DEF Says
<1>4. pipe' \in Seq(Msgs)
  BY <1>1, FirstMessage
<1>5. \A n \in Ranks : ChanSorted(t, n) /\ Paired(t, n) =>
          /\ HandedOver(t, i) /\ Started(t, i) /\ listed' \in Seq(Buf)
          /\ \A j \in Idx : Started(t, j) /\ j # i => n[i] < n[j]
  BY <1>0, <1>1, <1>3, ReadEndChan
<1>6. HandedOver(t, i) /\ Started(t, i) /\ listed' \in Seq(Buf)
  BY <1>5 DEF RecInv, Lanes, Lane
<1>7. Ended(t, i)
  <2>1. Len(listed) + 1 \in 1 .. Len(Chan) /\ Chan[Len(listed) + 1] = Head(pipe)
    <3>1. Cut(Channel(listed, pipe), Channel(listed, Tail(pipe)), Len(listed) + 1)
          /\ Channel(listed, pipe)[Len(listed) + 1] = Head(pipe)
      BY <1>0, <1>1, CutMessage DEF Types
    <3>2. Chan = Channel(listed, pipe)
      BY <1>1 DEF Chan, Unread
    <3>. QED
      BY <3>1, <3>2 DEF Cut
  <2>. QED
    BY <2>1, <1>3 DEF Ended, Sent, Says
<1>. QED
  BY <1>1, <1>3, <1>4, <1>5, <1>6, <1>7, HandOverStep

LEMMA FlushShmemKeeps ==
  ASSUME RecInv, FlushShmem
  PROVE  RecInv'
<1>0. Types /\ MsgShape /\ PoolShape /\ Phased
  BY DEF RecInv
<1>1. /\ mpc = "flush" /\ listed # << >> /\ listed' = Tail(listed)
      /\ UNCHANGED taskVars /\ UNCHANGED <<pfdOpen, pipe, stop>>
      /\ RecordMmapFile(Head(listed).tid, Head(listed).idx)
  BY DEF FlushShmem
<1>2. stop # "no"
  BY <1>0, <1>1 DEF PoolShape, Phases, Phased
<1>3. listed' \in Seq(Buf) /\ Head(listed) \in Buf
  BY <1>0, <1>1, TailFacts DEF Types
<1>4. PICK t \in Tasks, i \in Idx : Head(listed) = [tid |-> t, idx |-> i]
  BY <1>3 DEF Buf
<1>5. RecordMmapFile(t, i)
  BY <1>1, <1>4
<1>6. pipe' \in Seq(Msgs)
  BY <1>0, <1>1 DEF Types
<1>7. /\ Started(t, i)
      /\ \A n \in Ranks : ChanSorted(t, n) /\ Paired(t, n) =>
            HandedOver(t, i) /\ \A j \in Idx : Started(t, j) => j = i
  BY <1>0, <1>1, <1>2, <1>4, FlushChan
<1>8. HandedOver(t, i)
  BY <1>7 DEF RecInv, Lanes, Lane
<1>. QED
  BY <1>1, <1>2, <1>3, <1>5, <1>6, <1>7, <1>8, HandOverStep

\* The contents of the first buffer of a backlog go to the file, or the buffer, which is
\* empty by then, is given back.
LEMMA DrainStep ==
  ASSUME RecInv, NEW t \in Tasks, NEW i \in Idx, Backlog(t) # << >>, Head(Backlog(t)).idx = i,
         PoolStep(Buf), UNCHANGED <<nrBuf, curr, losts, ppc, next, stream, blind, pfdOpen, pipe>>,
         UNCHANGED <<listed, stop, mpc, bufDone>>,
         NEW b \in Shmem, SetsBuffer(t, i, b), b.data = << >>,
         file' = [file EXCEPT ![t] = @ \o Data(t, i)],
         \A u \in Tasks \ {t} : Backlog(u)' = Backlog(u),
         \/ Backlog(t)' = Backlog(t) /\ ("RECORDING" \in b.flag <=> Taken(t, i))
         \/ /\ Backlog(t)' = Tail(Backlog(t))
            /\ ("RECORDING" \in b.flag <=> Taken(t, i)) \/ ~Flushing,
         \A w \in Writers : wpc'[w] = "release" =>
             \/ wpc[w] = "release" /\ head'[w] = head[w]
             \/ Head(head'[w]) = [tid |-> t, idx |-> i]
  PROVE  RecInv'
<1>0. Base /\ Types /\ MsgShape /\ Phased /\ Counted /\ StreamMarked /\ Emptying
  BY DEF RecInv, Base
<1>1. PoolTypes(Buf)' /\ PoolShape'
  BY PoolStepKeeps DEF RecInv, Types
<1>2. /\ Data(t, i)' = << >> /\ (Taken(t, i)' <=> "RECORDING" \in b.flag)
      /\ \A j \in Idx \ {i} : Data(t, j)' = Data(t, j) /\ (Taken(t, j)' <=> Taken(t, j))
  BY <1>0, MemChange
<1>3. \A u \in Tasks \ {t} : mem'[u] = mem[u] /\ file'[u] = file[u]
  BY <1>0 DEF SetsBuffer, Types
<1>4. file'[t] = file[t] \o Data(t, i) /\ file' \in [Tasks -> Seq(Items)]
  <2>1. file[t] \o Data(t, i) \in Seq(Items)
    <3>1. file[t] \in Seq(Items) /\ Data(t, i) \in Seq(Items)
      BY <1>0 DEF Types, Data
    <3>. QED
      BY <3>1, ConcatProperties
  <2>. QED
    BY <2>1, <1>0 DEF Types
<1>5. mem' \in [Tasks -> [Idx -> Shmem]]
  BY <1>0, SetsTypes
<1>6. Types'
  BY <1>0, <1>1, <1>4, <1>5 DEF Types, Shmem
<1>7. Counted' /\ StreamMarked' /\ Phased'
  BY <1>0 DEF Counted, StreamMarked, Phased
<1>8. ChanQuiet
  <2>1. Chan' = Chan
    BY DEF Chan, Unread
  <2>. QED
    BY <2>1, <1>0, ChanSame
<1>9. MsgShape'
  BY <1>8 DEF ChanQuiet
<1>10. Flushing' <=> Flushing
  BY DEF Flushing
<1>11. \A u \in Tasks : KeepsTask(u) /\ KeepsChan(u)
  BY <1>8, QuietKeeps DEF KeepsTask
<1>12. Emptying'
  <2>1. SUFFICES ASSUME NEW w \in Writers, wpc'[w] = "release"
        PROVE  (Data(Head(head[w]).tid, Head(head[w]).idx) = << >>)'
    BY DEF Emptying
  <2>2. CASE Head(head'[w]) = [tid |-> t, idx |-> i]
    BY <2>2, <1>2 DEF Data
  <2>3. CASE wpc[w] = "release" /\ head'[w] = head[w]
    <3>1. Data(Head(head[w]).tid, Head(head[w]).idx) = << >>
      BY <2>3, <1>0 DEF Emptying
    <3>2. PICK d \in Buf : d = Head(head[w])
      BY <2>3, <1>0, BacklogHead DEF RecInv, Types
    <3>3. d.tid \in Tasks /\ d.idx \in Idx
      BY DEF Buf
    <3>4. \/ mem'[d.tid][d.idx] = mem[d.tid][d.idx]
          \/ mem'[d.tid][d.idx] = b
      BY <3>3, <1>0 DEF SetsBuffer, Types
    <3>. QED
      BY <3>1, <3>2, <3>4, <2>3 DEF Data
  <2>. QED
    BY <2>1, <2>2, <2>3
<1>13. Lanes'
  <2>1. ASSUME NEW u \in Tasks, u # t
        PROVE  \E m, h \in Ranks : Lane(u, m, h)'
    <3>1. PICK m \in Ranks, h \in Ranks : Lane(u, m, h)
      BY DEF RecInv, Lanes
    <3>2. KeepsData(u)
      BY <2>1, <1>3 DEF KeepsData, Data, Taken
    <3>3. Backlog(u)' = Backlog(u) /\ KeepsTask(u) /\ KeepsChan(u)
      BY <1>11, <2>1
    <3>4. Lane(u, m, h)'
      BY <1>0, <1>10, <3>1, <3>2, <3>3, LaneSame
    <3>. QED
      BY <3>4
  <2>2. \E m, h \in Ranks : Lane(t, m, h)'
    <3>1. PICK n \in Ranks, g \in Ranks : Lane(t, n, g)
      BY DEF RecInv, Lanes
    <3>2. KeepsTask(t) /\ KeepsChan(t)
      BY <1>11
    <3>3. \/ Backlog(t)' = Backlog(t) /\ (Taken(t, i)' <=> Taken(t, i))
          \/ Backlog(t)' = Tail(Backlog(t)) /\ ((Taken(t, i)' <=> Taken(t, i)) \/ ~Flushing)
      BY <1>2
    <3>4. \E m \in Ranks : Lane(t, n, m)'
      BY <1>0, <1>2, <1>4, <1>10, <3>1, <3>2, <3>3, LaneDrain
    <3>. QED
      BY <3>4
  <2>. QED
    BY <2>1, <2>2 DEF Lanes
<1>. QED
  BY <1>1, <1>6, <1>7, <1>9, <1>12, <1>13 DEF RecInv

LEMMA EmptiedSets ==
  ASSUME Types, NEW t \in Tasks, NEW i \in Idx, Emptied([tid |-> t, idx |-> i])
  PROVE  \E b \in Shmem : /\ SetsBuffer(t, i, b) /\ b.data = << >>
                          /\ ("RECORDING" \in b.flag <=> Taken(t, i))
<1>1. << >> \in Seq(Items)
  OBVIOUS
<1>2. mem[t][i] \in [flag : SUBSET Flags, data : Seq(Items)]
  BY DEF Types
<1>3. PICK b \in Shmem : b = [mem[t][i] EXCEPT !.data = << >>]
  BY <1>1, <1>2 DEF Shmem
<1>4. b.data = << >> /\ b.flag = mem[t][i].flag
  BY <1>2, <1>3
<1>5. SetsBuffer(t, i, b)
  BY <1>3 DEF Emptied, SetsBuffer, Types
<1>. QED
  BY <1>4, <1>5 DEF Taken

LEMMA RemainingKeeps ==
  ASSUME RecInv, RemainingBuffer
  PROVE  RecInv'
<1>0. Types /\ PoolShape /\ PoolTypes(Buf)
  BY DEF RecInv, Types
<1>1. PICK d : /\ d = Head(queue[Head(order)])
  OBVIOUS
<1>2. /\ RecordRemaining(mem[d.tid][d.idx].data) /\ Emptied(d)
      /\ UNCHANGED <<nrBuf, curr, losts, ppc, next, stream, blind, pfdOpen, pipe, recorderVars>>
  BY <1>1 DEF RemainingBuffer
<1>3. PICK t \in Tasks : t = Head(order) /\ queue[t] # << >> /\ Backlog(t) = queue[t]
  <2>1. Head(order) \in Tasks
    BY <1>0, <1>2, TailFacts DEF RecordRemaining, PoolTypes
  <2>. QED
    BY <2>1, <1>0, <1>2, BacklogRemaining
<1>4. /\ Head(queue[t]) = queue[t][1] /\ queue[t][1] \in Buf /\ 1 \in 1 .. Len(queue[t])
  <2>1. queue[t] \in Seq(Buf)
    BY <1>0 DEF PoolTypes
  <2>. QED
    BY <2>1, <1>3, TailFacts
<1>5. PICK i \in Idx : d = [tid |-> t, idx |-> i]
  <2>1. d \in [tid : Tasks, idx : Idx] /\ d.tid = t
    BY <1>0, <1>1, <1>3, <1>4 DEF PoolShape, ListShape, Buf
  <2>. QED
    BY <2>1
<1>6. Backlog(t) # << >> /\ Head(Backlog(t)).idx = i
  BY <1>1, <1>3, <1>5
<1>7. PICK b \in Shmem : /\ SetsBuffer(t, i, b) /\ b.data = << >>
                         /\ ("RECORDING" \in b.flag <=> Taken(t, i))
  BY <1>0, <1>2, <1>5, EmptiedSets
<1>8. file' = [file EXCEPT ![t] = @ \o Data(t, i)]
  BY <1>2, <1>3, <1>5 DEF RecordRemaining, Data
<1>9. /\ Backlog(t)' = Tail(Backlog(t))
      /\ \A u \in Tasks \ {t} : Backlog(u)' = Backlog(u)
  BY <1>0, <1>2, <1>3, BacklogRemaining
<1>10. UNCHANGED <<listed, stop, mpc, bufDone, wpc, head>>
  BY <1>2 DEF recorderVars, RecordRemaining
<1>11. PoolStep(Buf)
  BY <1>2 DEF PoolStep
<1>. QED
  BY <1>2, <1>6, <1>7, <1>8, <1>9, <1>10, <1>11, DrainStep

LEMMA WriteKeeps ==
  ASSUME RecInv, NEW w \in Writers, Write(w)
  PROVE  RecInv'
<1>0. Types /\ PoolShape /\ PoolTypes(Buf)
  BY DEF RecInv, Types
<1>1. PICK d : d = Head(head[w])
  OBVIOUS
<1>2. /\ wpc[w] = "write" /\ WriteBuffer(w, mem[d.tid][d.idx].data) /\ Emptied(d)
      /\ UNCHANGED <<nrBuf, curr, losts, ppc, next, stream, blind, pfdOpen, pipe, recorderVars>>
  BY <1>1 DEF Write
<1>3. PICK t \in Tasks : /\ t = wtid[w] /\ d \in Buf /\ d.tid = t
                         /\ Backlog(t) # << >> /\ Head(Backlog(t)) = d
  BY <1>0, <1>1, <1>2, BacklogHead
<1>4. PICK i \in Idx : d = [tid |-> t, idx |-> i]
  BY <1>3 DEF Buf
<1>5. Head(Backlog(t)).idx = i
  BY <1>3, <1>4
<1>6. PICK b \in Shmem : /\ SetsBuffer(t, i, b) /\ b.data = << >>
                         /\ ("RECORDING" \in b.flag <=> Taken(t, i))
  BY <1>0, <1>2, <1>4, EmptiedSets
<1>7. file' = [file EXCEPT ![t] = @ \o Data(t, i)]
  <2>1. file' = [file EXCEPT ![d.tid] = @ \o mem[d.tid][d.idx].data]
    BY <1>1, <1>2 DEF WriteBuffer
  <2>2. d.tid = t /\ d.idx = i
    BY <1>4
  <2>. QED
    BY <2>1, <2>2 DEF Data
<1>8. PoolStep(Buf)
  BY <1>2 DEF PoolStep
<1>9. PoolShape'
  BY <1>0, <1>8, PoolStepKeeps
<1>10. \A u \in Tasks : Backlog(u)' = Backlog(u)
  BY <1>0, <1>2, <1>9, BacklogKept
<1>11. UNCHANGED <<listed, stop, mpc, bufDone, head>>
  BY <1>2 DEF recorderVars, WriteBuffer
<1>12. \A v \in Writers : wpc'[v] = "release" =>
           \/ wpc[v] = "release" /\ head'[v] = head[v]
           \/ Head(head'[v]) = [tid |-> t, idx |-> i]
  <2>1. \A v \in Writers \ {w} : wpc'[v] = wpc[v]
    BY <1>0, <1>2 DEF WriteBuffer, PoolTypes
  <2>. QED
    BY <2>1, <1>1, <1>4, <1>11
<1>. QED
  BY <1>2, <1>3, <1>5, <1>6, <1>7, <1>8, <1>10, <1>11, <1>12, DrainStep

LEMMA ReleaseKeeps ==
  ASSUME RecInv, NEW w \in Writers, Release(w)
  PROVE  RecInv'
<1>0. Types /\ PoolShape /\ PoolTypes(Buf) /\ Emptying
  BY DEF RecInv, Types
<1>1. PICK d : d = Head(head[w])
  OBVIOUS
<1>2. /\ wpc[w] = "release" /\ ReleaseBuffer(w) /\ mem' = [mem EXCEPT ![d.tid][d.idx].flag = {"WRITTEN"}]
      /\ UNCHANGED <<nrBuf, curr, losts, ppc, next, stream, blind, pfdOpen, pipe, recorderVars>>
  BY <1>1 DEF Release, ReleaseBuffer
<1>3. PICK t \in Tasks : /\ t = wtid[w] /\ d \in Buf /\ d.tid = t
                         /\ Backlog(t) # << >> /\ Head(Backlog(t)) = d
  BY <1>0, <1>1, <1>2, BacklogHead
<1>4. PICK i \in Idx : d = [tid |-> t, idx |-> i]
  BY <1>3 DEF Buf
<1>5. Head(Backlog(t)).idx = i
  BY <1>3, <1>4
<1>6. Data(t, i) = << >>
  BY <1>0, <1>1, <1>2, <1>4 DEF Emptying
<1>7. PICK b \in Shmem : SetsBuffer(t, i, b) /\ b.data = << >>
  <2>1. mem[t][i] \in [flag : SUBSET Flags, data : Seq(Items)]
    BY <1>0 DEF Types
  <2>2. [mem[t][i] EXCEPT !.flag = {"WRITTEN"}] \in [flag : SUBSET Flags, data : Seq(Items)]
    BY <2>1 DEF Flags
  <2>3. PICK b \in Shmem : b = [mem[t][i] EXCEPT !.flag = {"WRITTEN"}]
    BY <2>2 DEF Shmem
  <2>4. b.data = << >>
    BY <2>1, <2>3, <1>6 DEF Data
  <2>5. SetsBuffer(t, i, b)
    BY <2>3, <1>0, <1>2, <1>4 DEF SetsBuffer, Types
  <2>. QED
    BY <2>4, <2>5
<1>8. file' = [file EXCEPT ![t] = @ \o Data(t, i)]
  <2>1. file' = file /\ file \in [Tasks -> Seq(Items)]
    BY <1>0, <1>2 DEF ReleaseBuffer, Types
  <2>2. file[t] \o Data(t, i) = file[t]
    BY <2>1, <1>6, ConcatEmptySeq
  <2>. QED
    BY <2>1, <2>2
<1>9. PoolStep(Buf)
  BY <1>2 DEF PoolStep
<1>10. PoolShape'
  BY <1>0, <1>9, PoolStepKeeps
<1>11. \A u \in Tasks : Backlog(u)' = IF u = t THEN Tail(Backlog(u)) ELSE Backlog(u)
  BY <1>0, <1>2, <1>3, <1>10, BacklogRelease
<1>12. UNCHANGED <<listed, stop, mpc, bufDone>>
  BY <1>2 DEF recorderVars, ReleaseBuffer
<1>13. \A v \in Writers : wpc'[v] = "release" => wpc[v] = "release" /\ head'[v] = head[v]
  BY <1>0, <1>2 DEF ReleaseBuffer, PoolTypes
<1>14. ~Flushing
  BY <1>0, <1>2 DEF PoolShape, Phases, Flushing
<1>. QED
  BY <1>2, <1>3, <1>5, <1>7, <1>8, <1>9, <1>11, <1>12, <1>13, <1>14, DrainStep

-----------------------------------------------------------------------------
(* The invariant holds in every state. *)

LEMMA RecInit == Init => RecInv
<1>. SUFFICES ASSUME Init
     PROVE  RecInv
  OBVIOUS
<1>1. PoolTypes(Buf) /\ PoolShape
  BY TypesInit, ShapeInit DEF Init
<1>2. /\ MaxBuf \in Nat /\ MaxRec \in Nat /\ << >> \in Seq(Items) /\ << >> \in Seq(Msgs)
      /\ << >> \in Seq(Buf) /\ Len(<< >>) = 0 /\ \A k : ~(k \in 1 .. 0)
  BY RecordingAssumption, EmptySeq
<1>3. Types
  <2>1. mem \in [Tasks -> [Idx -> [flag : SUBSET Flags, data : Seq(Items)]]]
    <3>1. FreshBuffer \in [flag : SUBSET Flags, data : Seq(Items)]
      BY <1>2 DEF FreshBuffer
    <3>. QED
      BY <3>1 DEF Init
  <2>2. /\ file \in [Tasks -> Seq(Items)] /\ stream \in [Tasks -> Seq(Items)]
        /\ pipe \in Seq(Msgs) /\ listed \in Seq(Buf)
    BY <1>2 DEF Init, PoolInit
  <2>3. /\ nrBuf \in [Tasks -> 0 .. MaxBuf] /\ next \in [Tasks -> 1 .. MaxRec + 1]
        /\ losts \in [Tasks -> Nat]
    BY <1>2 DEF Init
  <2>4. /\ curr \in [Tasks -> Idx \cup {-1}] /\ ppc \in [Tasks -> TaskPCs] /\ blind \in SUBSET Tasks
        /\ pfdOpen \in BOOLEAN /\ stop \in {"no", "exited", "finished", "interrupted"}
    BY DEF Init, TaskPCs
  <2>. QED
    BY <1>1, <2>1, <2>2, <2>3, <2>4 DEF Types
<1>4. Len(Chan) = 0 /\ \A k : ~(k \in 1 .. Len(Chan))
  <2>1. Len(Chan) = Len(listed) + Len(Unread) /\ stop = "no" /\ Unread = pipe
    BY <1>3, ChanFacts DEF Init
  <2>2. Len(Chan) = 0
    BY <2>1, <1>2 DEF Init
  <2>. QED
    BY <2>2, <1>2
<1>5. MsgShape
  BY <1>4 DEF MsgShape
<1>6. Counted
  <2>1. ASSUME NEW t \in Tasks
        PROVE  losts[t] = 0 /\ losts[t] <= 2 * (next[t] - 1) /\ ppc[t] = "none"
    <3>1. losts[t] = 0 /\ next[t] = 1 /\ ppc[t] = "none"
      BY DEF Init
    <3>. QED
      BY <3>1
  <2>. QED
    BY <2>1 DEF Counted
<1>7. Phased
  BY DEF Init, PoolInit, Phased
<1>8. Emptying
  BY DEF Init, PoolInit, Emptying
<1>9. StreamMarked
  BY <1>2 DEF Init, StreamMarked, Marked
<1>10. Lanes
  <2>1. SUFFICES ASSUME NEW t \in Tasks
        PROVE  \E n, g \in Ranks : Lane(t, n, g)
    BY DEF Lanes
  <2>2. PICK n \in Ranks : n = [j \in Idx |-> 0]
    BY DEF Ranks
  <2>3. Backlog(t) = << >> /\ Len(Backlog(t)) = 0 /\ \A k : ~(k \in 1 .. Len(Backlog(t)))
    BY <1>2, BacklogInit DEF Init
  <2>4. \A i : ~Started(t, i) /\ ~Ended(t, i) /\ ~Queued(t, i) /\ ~Held(t, i)
    BY <1>4, <2>3 DEF Started, Ended, Sent, Queued, Held
  <2>5. ChanSorted(t, n) /\ BacklogSorted(t, n) /\ Paired(t, n)
    BY <1>4, <2>3, <2>4 DEF ChanSorted, Sorted, BacklogSorted, Paired
  <2>6. /\ file[t] = << >> /\ stream[t] = << >> /\ ppc[t] = "none" /\ next[t] = 1
        /\ losts[t] = 0 /\ t \notin blind
    BY DEF Init, PoolInit
  <2>7. Chained(t, n, n) /\ HeldMapped(t, n) /\ FilePrefix(t) /\ Fresh(t)
    BY <1>2, <2>4, <2>6 DEF Chained, HeldMapped, FilePrefix, Fresh
  <2>8. Current(t, n, n) /\ NoneOpen(t, n) /\ NothingMissing(t, n)
    BY <1>2, <2>4, <2>6 DEF Current, Storing, NoneOpen, Between, NothingMissing, Reached
  <2>9. Lane(t, n, n)
    BY <2>5, <2>7, <2>8 DEF Lane
  <2>. QED
    BY <2>9
<1>. QED
  BY <1>1, <1>3, <1>5, <1>6, <1>7, <1>8, <1>9, <1>10 DEF RecInv

LEMMA RecNext == RecInv /\ [Next]_vars => RecInv'
<1>. SUFFICES ASSUME RecInv, [Next]_vars
     PROVE  RecInv'
  OBVIOUS
<1>1. CASE UNCHANGED vars
  <2>1. UNCHANGED taskVars /\ UNCHANGED <<file, stop, listed, pipe, pfdOpen, mpc, bufDone, wpc, head>>
        /\ UNCHANGED poolVars /\ UNCHANGED recorderVars
    BY <1>1 DEF vars, poolVars, recorderVars
  <2>2. PoolStep(Buf) /\ \A t \in Tasks : Backlog(t)' = Backlog(t)
    BY <2>1, OwnStep DEF PoolStep
  <2>3. ChanQuiet
    <3>1. Chan' = Chan
      BY <2>1 DEF Chan, Unread
    <3>. QED
      BY <3>1, ChanSame DEF RecInv
  <2>4. Phased' /\ (Flushing => Flushing')
    BY <2>1 DEF RecInv, Phased, Flushing, taskVars
  <2>5. pfdOpen' \in BOOLEAN /\ pipe' \in Seq(Msgs) /\ listed' \in Seq(Buf)
    BY <2>1 DEF RecInv, Types
  <2>. QED
    BY <2>1, <2>2, <2>3, <2>4, <2>5, QuietStep
<1>2. CASE \E t \in Tasks : (TaskStep(t) \/ Killed(t)) /\ UNCHANGED <<poolVars, recorderVars>>
  BY <1>2, TaskKeeps
<1>3. CASE \E sendMsg \in BOOLEAN : TraceFinish(sendMsg) /\ UNCHANGED <<poolVars, recorderVars>>
  BY <1>3, TraceFinishKeeps
<1>4. CASE MainStep
  BY <1>4, ReadQuietKeeps, ReadEndKeeps, FlushShmemKeeps, RemainingKeeps, PoolOnlyKeeps DEF MainStep
<1>5. CASE StopTracing
  BY <1>5, StopTracingKeeps
<1>6. CASE \E w \in Writers : Writer(w)
  BY <1>6, WriteKeeps, ReleaseKeeps, PoolOnlyKeeps DEF Writer
<1>. QED
  BY <1>1, <1>2, <1>3, <1>4, <1>5, <1>6 DEF Next, Program, Terminated

\* The buffers of a task in the lists are those of its backlog.
LEMMA InFlightQueued ==
  ASSUME RecInv, NEW t \in Tasks, NEW i \in InFlight(t)
  PROVE  i \in Idx /\ Queued(t, i)
<1>. DEFINE in(s) == {s[k].idx : k \in {k \in 1 .. Len(s) : s[k].tid = t}}
<1>0. PoolTypes(Buf) /\ PoolShape /\ Types
  BY DEF RecInv, Types
<1>1. PICK s \in Seq(Buf) : /\ i \in in(s)
                            /\ \/ s = queue[t]
                               \/ \E w \in Writers : s = head[w] \/ s = bufs[w]
  <2>1. CASE i \in in(queue[t])
    BY <2>1, <1>0 DEF PoolTypes
  <2>2. CASE \E w \in Writers : i \in in(head[w]) \/ i \in in(bufs[w])
    BY <2>2, <1>0 DEF PoolTypes
  <2>. QED
    BY <2>1, <2>2 DEF InFlight
<1>2. PICK k \in 1 .. Len(s) : s[k].tid = t /\ s[k].idx = i
  BY <1>1
<1>. HIDE DEF in
<1>3. s[k] \in Buf /\ i \in Idx
  <2>1. s[k] \in Buf
    BY ElementOfSeq
  <2>. QED
    BY <2>1, <1>2 DEF Buf
<1>4. OneWriterPerTask
  BY <1>0 DEF PoolShape
<1>5. CASE s = queue[t]
  <2>1. queue[t] # << >>
    BY <1>5, EmptySeq
  <2>2. \A w \in Writers : wtid[w] # t
    BY <2>1, <1>0, PoolAssumption DEF PoolShape, ServedTaskNotQueued
  <2>3. Backlog(t) = s
    BY <2>2, <1>4, <1>5, BacklogOf
  <2>. QED
    BY <2>3, <1>2, <1>3 DEF Queued
<1>6. ASSUME NEW w \in Writers, s = head[w] \/ s = bufs[w]
      PROVE  Queued(t, i)
  <2>1. wtid[w] = t
    BY <1>0, <1>2, <1>6 DEF PoolShape, WriterShape
  <2>2. Backlog(t) = head[w] \o bufs[w]
    BY <2>1, <1>4, BacklogOf
  <2>3. head[w] \in Seq(Buf) /\ bufs[w] \in Seq(Buf)
    BY <1>0 DEF PoolTypes
  <2>4. PICK a \in Seq(Buf), b \in Seq(Buf) : a = head[w] /\ b = bufs[w]
    BY <2>3
  <2>5. /\ Len(a) \in Nat /\ Len(b) \in Nat /\ Len(a \o b) = Len(a) + Len(b)
        /\ \A j \in 1 .. Len(a) + Len(b) : (a \o b)[j] = IF j <= Len(a) THEN a[j] ELSE b[j - Len(a)]
    BY ConcatProperties, LenProperties
  <2>6. \E j \in 1 .. Len(a \o b) : (a \o b)[j] = s[k]
    <3>1. CASE s = a
      BY <3>1, <2>5
    <3>2. CASE s = b
      <4>1. PICK j \in 1 .. Len(a) + Len(b) : j = Len(a) + k
        BY <3>2, <2>5
      <4>2. (a \o b)[j] = b[k]
        BY <4>1, <3>2, <2>5
      <4>. QED
        BY <4>1, <4>2, <3>2, <2>5
    <3>. QED
      BY <3>1, <3>2, <2>4, <1>6
  <2>7. Backlog(t) = a \o b
    BY <2>2, <2>4
  <2>. QED
    BY <2>6, <2>7, <1>2 DEF Queued
<1>. QED
  BY <1>1, <1>3, <1>5, <1>6

LEMMA InvOwner == RecInv => OneOwner
<1>. SUFFICES ASSUME RecInv
     PROVE  OneOwner
  OBVIOUS
<1>0. Base /\ Types /\ PoolTypes(Buf) /\ PoolShape /\ MsgShape /\ Counted /\ Phased
  BY DEF RecInv, Base, Types
<1>1. TypeOK
  <2>1. losts \in [Tasks -> 0 .. 2 * MaxRec]
    <3>1. ASSUME NEW t \in Tasks
          PROVE  losts[t] \in 0 .. 2 * MaxRec
      <4>1. losts[t] \in Nat /\ next[t] \in 1 .. MaxRec + 1 /\ MaxRec \in Nat
            /\ losts[t] <= 2 * (next[t] - 1)
        BY <1>0, RecordingAssumption DEF Types, Counted
      <4>. QED
        BY <4>1
    <3>. QED
      BY <3>1, <1>0 DEF Types
  <2>. QED
    BY <2>1, <1>0 DEF TypeOK, Types, PoolTypes
<1>2. CurrentNotInFlight
  <2>1. SUFFICES ASSUME NEW t \in Tasks, Storing(t), stop = "no"
        PROVE  curr[t] \notin InFlight(t)
    BY DEF CurrentNotInFlight, Storing
  <2>2. ~Flushing
    BY <2>1, <1>0 DEF Phased, Flushing, PoolShape, Phases
  <2>3. ~Queued(t, curr[t])
    BY <2>1, <2>2 DEF RecInv, Lanes, Lane, Current, LastBuffer
  <2>. QED
    BY <2>3, InFlightQueued
<1>3. InFlightStaysMapped
  <2>1. SUFFICES ASSUME NEW t \in Tasks, ppc[t] # "gone", NEW i \in InFlight(t)
        PROVE  i < nrBuf[t]
    BY DEF InFlightStaysMapped
  <2>2. i \in Idx /\ Held(t, i)
    BY InFlightQueued DEF Held
  <2>. QED
    BY <2>1, <2>2 DEF RecInv, Lanes, Lane, HeldMapped
<1>4. ListedOnce
  <2>1. SUFFICES ASSUME NEW k \in 1 .. Len(listed)
        PROVE  /\ listed[k].idx \notin InFlight(listed[k].tid)
               /\ \A l \in 1 .. Len(listed) : listed[l].tid = listed[k].tid => k = l
    BY DEF ListedOnce
  <2>2. listed[k] \in Buf
    BY <1>0, ChanFacts
  <2>3. PICK t \in Tasks, i \in Idx : listed[k].tid = t /\ listed[k].idx = i
    BY <2>2 DEF Buf
  <2>4. PICK n \in Ranks, g \in Ranks : Lane(t, n, g)
    BY DEF RecInv, Lanes
  <2>5. ChanSorted(t, n) /\ Paired(t, n) /\ BacklogSorted(t, n)
    BY <2>4 DEF Lane
  <2>6. \A l \in 1 .. Len(listed) : listed[l].tid = t => k = l
    BY <2>3, <2>5, <1>0, ListedAlone
  <2>7. Started(t, i)
    BY <2>3, <1>0, StartedAt
  <2>8. n[i] \in Nat
    BY DEF Ranks
  <2>9. ~Queued(t, i)
    BY <2>5, <2>7, <2>8 DEF BacklogSorted
  <2>. QED
    BY <2>3, <2>6, <2>9, InFlightQueued
<1>. QED
  BY <1>1, <1>2, <1>3, <1>4 DEF OneOwner

LEMMA InvMarked == RecInv => GapsAreMarked
<1>. SUFFICES ASSUME RecInv, NEW t \in Tasks, NEW i \in 1 .. Len(file[t]), file[t][i].kind = "rec"
              PROVE  \/ i = 1 /\ file[t][1].num = 1
                     \/ i > 1 /\ file[t][i - 1] = Rec(file[t][i].num - 1)
                     \/ i > 1 /\ file[t][i - 1].kind = "lost"
  BY DEF GapsAreMarked
<1>1. FilePrefix(t) /\ Marked(stream[t])
  BY DEF RecInv, Lanes, Lane, StreamMarked
<1>2. Len(file[t]) \in Nat /\ Len(stream[t]) \in Nat
  BY LenProperties DEF RecInv, Types
<1>3. i \in 1 .. Len(stream[t]) /\ file[t][i] = stream[t][i]
  BY <1>1, <1>2 DEF FilePrefix
<1>4. i > 1 => file[t][i - 1] = stream[t][i - 1]
  BY <1>1, <1>2 DEF FilePrefix
<1>. QED
  BY <1>1, <1>3, <1>4 DEF Marked

LEMMA InvComplete == RecInv => CompleteAtEnd
<1>. SUFFICES ASSUME RecInv, mpc = "done", stop = "exited", NEW t \in Tasks, t \notin blind
              PROVE  file[t] = stream[t]
  BY DEF CompleteAtEnd
<1>0. Base /\ Types /\ PoolTypes(Buf) /\ PoolShape /\ Phased
  BY DEF RecInv, Base, Types
<1>1. PICK n \in Ranks, g \in Ranks : Lane(t, n, g)
  BY DEF RecInv, Lanes
<1>2. FilePrefix(t) /\ Reached(t, g, Len(stream[t]))
  BY <1>1 DEF Lane, NothingMissing
<1>3. \A i : ~Started(t, i)
  <2>1. listed = << >> /\ Unread = << >>
    BY <1>0 DEF Phased, Unread
  <2>2. Len(Chan) = Len(listed) + Len(Unread) /\ Len(<< >>) = 0 /\ \A k : ~(k \in 1 .. 0)
    BY <1>0, ChanFacts, EmptySeq
  <2>3. \A k : ~(k \in 1 .. Len(Chan))
    BY <2>1, <2>2
  <2>. QED
    BY <2>3 DEF Started, Sent
<1>4. \A i : ~Queued(t, i)
  <2>1. order = << >> /\ \A w \in Writers : wpc[w] = "exit"
    BY <1>0 DEF PoolShape, Phases
  <2>2. \A w \in Writers : wtid[w] # t
    BY <2>1, <1>0, PoolAssumption DEF PoolShape, WriterShape
  <2>3. Len(<< >>) = 0 /\ \A k : ~(k \in 1 .. 0)
    BY EmptySeq
  <2>4. queue[t] = << >>
    BY <2>1, <2>3, <1>0 DEF PoolShape, ListShape
  <2>5. Backlog(t) = << >>
    BY <2>2, <2>4, <1>0, BacklogOf DEF PoolShape
  <2>. QED
    BY <2>3, <2>5 DEF Queued
<1>5. Len(file[t]) = Len(stream[t])
  BY <1>2, <1>3, <1>4 DEF Reached, Held
<1>6. PICK a \in Seq(Items), b \in Seq(Items) : a = file[t] /\ b = stream[t]
  BY <1>0 DEF Types
<1>7. Len(a) = Len(b) /\ \A k \in 1 .. Len(a) : a[k] = b[k]
  BY <1>2, <1>5, <1>6 DEF FilePrefix
<1>8. a = b
  BY <1>7, SeqEqual
<1>. QED
  BY <1>6, <1>8

-----------------------------------------------------------------------------
(* The recorder implements the abstract log. *)

\* What a step does to the streams and the files: a task produces an item, a writer or
\* record_remaining_buffer() appends to a file, or nothing happens to them.
LEMMA LogEffect ==
  ASSUME RecInv, [Next]_vars
  PROVE  \/ UNCHANGED <<stream, file>>
         \/ /\ \E t \in Tasks : \E x \in Items : stream' = [stream EXCEPT ![t] = Append(@, x)]
            /\ UNCHANGED file
         \/ /\ \E t \in Tasks : \E d \in Seq(Items) : file' = [file EXCEPT ![t] = @ \o d]
            /\ UNCHANGED stream
<1>0. Types /\ Counted /\ PoolTypes(Buf) /\ PoolShape
  BY DEF RecInv, Types
<1>1. CASE \E t \in Tasks : StoreRecord(t) /\ UNCHANGED poolVars
  <2>1. PICK t \in Tasks : StoreRecord(t) /\ UNCHANGED poolVars
    BY <1>1
  <2>2. next[t] \in Nat /\ next[t] <= MaxRec /\ MaxRec \in Nat
    BY <2>1, <1>0, RecordingAssumption DEF StoreRecord, Types
  <2>3. next[t] \in 0 .. 2 * MaxRec
    BY <2>2
  <2>4. Rec(next[t]) \in Items
    BY <2>3 DEF Rec, Items
  <2>. QED
    BY <2>1, <2>4 DEF StoreRecord, poolVars
<1>2. CASE \E t \in Tasks : ReportLost(t) /\ UNCHANGED poolVars
  <2>1. PICK t \in Tasks : ReportLost(t) /\ UNCHANGED poolVars
    BY <1>2
  <2>2. losts[t] \in Nat /\ next[t] \in Nat /\ MaxRec \in Nat /\ next[t] <= MaxRec
        /\ losts[t] <= 2 * (next[t] - 1)
    BY <2>1, <1>0, RecordingAssumption DEF ReportLost, Counted, Types
  <2>3. losts[t] \in 0 .. 2 * MaxRec
    BY <2>2
  <2>4. Lost(losts[t]) \in Items
    BY <2>3 DEF Lost, Items
  <2>. QED
    BY <2>1, <2>4 DEF ReportLost, poolVars
<1>3. CASE \E t \in Tasks : /\ TaskStep(t) \/ Killed(t)
                            /\ ~StoreRecord(t) /\ ~ReportLost(t) /\ UNCHANGED poolVars
  BY <1>3 DEF TaskStep, PrepareShmemBuffer, FinishShmemBuffer, ReuseBuffer, AllocateBuffer,
              LoseRecord, StartBuffer, ShmemFinish, Killed, poolVars
<1>4. CASE \E sendMsg \in BOOLEAN : TraceFinish(sendMsg) /\ UNCHANGED poolVars
  BY <1>4 DEF TraceFinish, taskVars, poolVars
<1>5. CASE ReadMessage \/ FlushShmem
  <2>1. \/ UNCHANGED poolVars
        \/ \E b : CopyToBuffer(b)
    BY <1>5 DEF ReadMessage, FlushShmem, RecordMmapFile
  <2>. QED
    BY <2>1, <1>5 DEF ReadMessage, FlushShmem, taskVars, poolVars, CopyToBuffer, PassToWriter,
                      AppendToList
<1>6. CASE \/ PoolOnly(Kick) \/ PoolOnly(JoinWriters) \/ PoolOnly(RecordRemainingDone)
           \/ FlushShmemDone \/ StopTracing
           \/ \E w \in Writers : PoolOnly(WriterStep(w))
  BY <1>6 DEF PoolOnly, FlushShmemDone, StopTracing, taskVars, Kick, JoinWriters,
              RecordRemainingDone, FlushDone, StopAllWriters, WriterStep, PollKick, PollNothing,
              ReadKick, PickTask, PickNothing, SpliceBufs, LeaveTask
<1>7. CASE RemainingBuffer
  <2>1. PICK t \in Tasks : t = Head(order) /\ queue[t] # << >>
    <3>1. Head(order) \in Tasks
      BY <1>7, <1>0, TailFacts DEF RemainingBuffer, PoolTypes
    <3>. QED
      BY <3>1, <1>7, <1>0, BacklogRemaining DEF RemainingBuffer
  <2>2. PICK d \in Buf : d = Head(queue[t])
    BY <2>1, <1>0, TailFacts DEF PoolTypes
  <2>3. mem[d.tid][d.idx].data \in Seq(Items)
    BY <1>0 DEF Buf, Types
  <2>. QED
    BY <1>7, <2>1, <2>2, <2>3 DEF RemainingBuffer, RecordRemaining
<1>8. CASE \E w \in Writers : Write(w)
  <2>1. PICK w \in Writers : Write(w)
    BY <1>8
  <2>2. PICK d \in Buf : d = Head(head[w])
    BY <2>1, <1>0, BacklogHead DEF Write
  <2>3. mem[d.tid][d.idx].data \in Seq(Items) /\ d.tid \in Tasks
    BY <1>0 DEF Buf, Types
  <2>. QED
    BY <2>1, <2>2, <2>3 DEF Write, WriteBuffer
<1>9. CASE \E w \in Writers : Release(w)
  BY <1>9 DEF Release, ReleaseBuffer
<1>10. CASE UNCHANGED vars
  BY <1>10 DEF vars, taskVars, poolVars
<1>. QED
  BY <1>1, <1>2, <1>3, <1>4, <1>5, <1>6, <1>7, <1>8, <1>9, <1>10
  DEF Next, Program, MainStep, Writer, Terminated

\* The start of a sequence that another one continues
LEMMA PrefixCut ==
  ASSUME NEW a \in Seq(Items), NEW b \in Seq(Items), Len(a) <= Len(b),
         \A k \in 1 .. Len(a) : a[k] = b[k]
  PROVE  a = SubSeq(b, 1, Len(a))
<1>1. Len(a) \in Nat /\ Len(b) \in Nat
  OBVIOUS
<1>2. PICK c \in Seq(Items) : c = SubSeq(b, 1, Len(a))
  OBVIOUS
<1>3. Len(c) = Len(a) /\ \A k \in 1 .. Len(a) : c[k] = b[k]
  BY <1>1, <1>2
<1>4. a = c
  BY <1>3, SeqEqual
<1>. QED
  BY <1>2, <1>4

LEMMA LogStepOfRecorder ==
  ASSUME RecInv, RecInv', [Next]_vars
  PROVE  [Log!Next]_<<stream, file>>
<1>0. Types /\ Types'
  BY DEF RecInv
<1>1. CASE UNCHANGED <<stream, file>>
  BY <1>1
<1>2. CASE /\ \E t \in Tasks : \E x \in Items : stream' = [stream EXCEPT ![t] = Append(@, x)]
           /\ UNCHANGED file
  BY <1>2 DEF Log!Next, Log!Produce
<1>3. CASE /\ \E t \in Tasks : \E d \in Seq(Items) : file' = [file EXCEPT ![t] = @ \o d]
           /\ UNCHANGED stream
  <2>1. PICK t \in Tasks : \E d \in Seq(Items) : file' = [file EXCEPT ![t] = @ \o d]
    BY <1>3
  <2>2. PICK d \in Seq(Items) : file' = [file EXCEPT ![t] = @ \o d]
    BY <2>1
  <2>3. PICK a \in Seq(Items), b \in Seq(Items), f \in Seq(Items) :
            a = file'[t] /\ b = stream[t] /\ f = file[t]
    BY <1>0 DEF Types
  <2>4. file' = [file EXCEPT ![t] = a]
    BY <2>2, <2>3, <1>0 DEF Types
  <2>5. Len(a) <= Len(b) /\ \A k \in 1 .. Len(a) : a[k] = b[k]
    <3>1. FilePrefix(t)'
      BY DEF RecInv, Lanes, Lane
    <3>. QED
      BY <3>1, <2>3, <1>3 DEF FilePrefix
  <2>6. a = SubSeq(b, 1, Len(a))
    BY <2>5, PrefixCut
  <2>7. Len(f) <= Len(b) /\ \A k \in 1 .. Len(f) : f[k] = b[k]
    <3>1. FilePrefix(t)
      BY DEF RecInv, Lanes, Lane
    <3>. QED
      BY <3>1, <2>3 DEF FilePrefix
  <2>8. Len(a) >= Len(f)
    <3>1. a = f \o d
      BY <2>2, <2>3, <1>0 DEF Types
    <3>2. Len(a) = Len(f) + Len(d) /\ Len(f) \in Nat /\ Len(d) \in Nat
      BY <3>1, ConcatProperties, LenProperties
    <3>. QED
      BY <3>2
  <2>9. CASE Len(a) = Len(f)
    <3>1. \A k \in 1 .. Len(a) : a[k] = f[k]
      BY <2>5, <2>7, <2>9
    <3>2. a = f
      BY <3>1, <2>9, SeqEqual
    <3>3. file' = file
      BY <3>2, <2>3, <2>4, <1>0 DEF Types
    <3>. QED
      BY <3>3, <1>3
  <2>10. CASE Len(a) # Len(f)
    <3>1. Len(a) \in Len(f) + 1 .. Len(b) /\ Len(a) \in Nat
      BY <2>5, <2>8, <2>10
    <3>2. file' = [file EXCEPT ![t] = SubSeq(stream[t], 1, Len(a))]
      BY <2>3, <2>4, <2>6
    <3>3. Log!Save(t)
      BY <3>1, <3>2, <2>3, <1>3 DEF Log!Save
    <3>. QED
      BY <3>3 DEF Log!Next
  <2>. QED
    BY <2>9, <2>10
<1>. QED
  BY <1>1, <1>2, <1>3, LogEffect

-----------------------------------------------------------------------------
(* What holds of the recorder for any tasks, writers, buffers and bounds. *)

(* Every task has its lane in every state: ranks and places with which its    *)
(* started, finished and queued buffers are in order and continue its file.   *)
THEOREM RecordingInvariant == Spec => []RecInv
  BY RecInit, RecNext, PTL DEF Spec

(* A buffer belongs to one side at a time: get_new_shmem_buffer() and          *)
(* copy_to_buffer() never both hold it.                                        *)
THEOREM BuffersHaveOneOwner == Spec => []OneOwner
  BY RecordingInvariant, InvOwner, PTL

(* Where records are missing from a file, a LOST record says so.              *)
THEOREM FilesMarkGaps == Spec => []GapsAreMarked
  BY RecordingInvariant, InvMarked, PTL

(* When uftrace ends with the program, the files hold all that was stored.    *)
THEOREM FilesComplete == Spec => []CompleteAtEnd
  BY RecordingInvariant, InvComplete, PTL

(* Recording implements TraceLog: whatever the interleaving, the kills and    *)
(* the interrupts, a file is a prefix of what its task stored and only grows. *)
THEOREM RecordingImplementsLog == Spec => RefinesTraceLog
<1>1. Init => Log!Init
  BY DEF Init, PoolInit, Log!Init
<1>2. RecInv /\ RecInv' /\ [Next]_vars => [Log!Next]_<<stream, file>>
  BY LogStepOfRecorder
<1>. QED
  BY <1>1, <1>2, RecordingInvariant, PTL DEF Spec, RefinesTraceLog, Log!Spec

=============================================================================
