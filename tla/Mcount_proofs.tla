----------------------------- MODULE Mcount_proofs ------------------------------
(***************************************************************************)
(* Proofs about Mcount: for any functions, any options and any program,    *)
(* however calls, signals, forks and crashes follow one another, the data  *)
(* of a thread mirror its calls and its records tell them.                 *)
(***************************************************************************)
EXTENDS Mcount, SequenceTheorems, FiniteSetTheorems, TLAPS

-----------------------------------------------------------------------------
(* The invariant *)

Flagged(s, x) == {j \in 1 .. Len(s) : x \in s[j].flags}
RecordableAt(s) == {j \in 1 .. Len(s) : Recordable(s[j])}

Rec == [type : {"ENTRY", "EXIT"}, id : 1 .. MaxCalls, fn : Functions, depth : Nat, time : Nat]

MtdType ==
    [rstack : Seq(Frame), over : Nat, in_count : Nat, out_count : Nat, filter : FilterState, record_idx : Nat,
     enable_cached : BOOLEAN, warned : BOOLEAN, enabled : BOOLEAN, finish : BOOLEAN, stream : Seq(Rec),
     room : Nat, losts : Nat]

\* The counters of the filters are what the frames say.
CountersMatch(m) ==
    /\ m.in_count = Cardinality(Flagged(m.rstack, "FILTERED"))
    /\ m.out_count = Cardinality(Flagged(m.rstack, "NOTRACE"))
    /\ m.record_idx = Cardinality(RecordableAt(m.rstack))

\* The outermost call found the filters as mcount_filter_setup() left them.
FiltersSaved(c, m) ==
    IF m.rstack = << >> THEN m.filter = FilterSetup(c) ELSE m.rstack[1].saved = FilterSetup(c)

\* The limit of the stack, beyond which calls are only counted
Limited(c, m) ==
    /\ Len(m.rstack) <= c.max
    /\ m.over > 0 => Len(m.rstack) = c.max

\* Frames of cygprof functions know it.
KindsMatch(c, m) ==
    \A j \in 1 .. Len(m.rstack) : "CYGPROF" \in m.rstack[j].flags <=> c.kind[m.rstack[j].fn] = "cygprof"

\* A frame belongs to a later call than those below it, and is deeper if both are recorded.
Growing(m, n) ==
    \A j \in 1 .. Len(m.rstack) :
        /\ m.rstack[j].id <= n
        /\ \A i \in 1 .. j - 1 :
              /\ m.rstack[i].id < m.rstack[j].id
              /\ Recordable(m.rstack[i]) /\ Recordable(m.rstack[j]) => m.rstack[i].depth < m.rstack[j].depth

\* A call in progress has not ended, and the next one will be deeper.
Running(m) ==
    \A j \in 1 .. Len(m.rstack) :
        m.rstack[j].end = 0 /\ (Recordable(m.rstack[j]) => m.rstack[j].depth < m.record_idx)

\* No depth filter lets nothing in.
OpenLimit(fl) == fl.max_depth = None \/ fl.max_depth > 0
LimitsOpen(m) == OpenLimit(m.filter) /\ \A j \in 1 .. Len(m.rstack) : OpenLimit(m.rstack[j].saved)

\* The frames are of the calls that libmcount sees the exit of.
Hooks(a) == {k \in 1 .. Len(a) : a[k].hooked}
Rank(a, k) == Cardinality({h \in Hooks(a) : h <= k})
FramesFollow(a, m) ==
    /\ Idx(m) = Cardinality(Hooks(a))
    /\ \A k \in Hooks(a) : Rank(a, k) <= Len(m.rstack) => m.rstack[Rank(a, k)].fn = a[k].fn

StackInv(c, a, m, n) ==
    /\ Len(a) <= n /\ CountersMatch(m) /\ FiltersSaved(c, m) /\ LimitsOpen(m) /\ Limited(c, m) /\ KindsMatch(c, m)
    /\ Growing(m, n) /\ Running(m) /\ FramesFollow(a, m)

\* A frame is written after those below it.
FromTheTop(m) ==
    \A j \in 1 .. Len(m.rstack) : \A i \in 1 .. j :
        Written(m.rstack[j]) => Written(m.rstack[i]) \/ Skipped(m.rstack[i])

\* What has still to be written began after all that is written.
Timely(m, t) ==
    /\ \A k \in 1 .. Len(m.stream) : m.stream[k].time <= t
    /\ \A k, l \in 1 .. Len(m.stream) : k < l => m.stream[k].time <= m.stream[l].time
    /\ \A j \in 1 .. Len(m.rstack) : ~Skipped(m.rstack[j]) =>
          /\ m.rstack[j].start <= t
          /\ \A i \in 1 .. j - 1 : ~Skipped(m.rstack[i]) => m.rstack[i].start <= m.rstack[j].start
          /\ ~Written(m.rstack[j]) => \A k \in 1 .. Len(m.stream) : m.stream[k].time <= m.rstack[j].start

EntryOf(m, id) == {k \in 1 .. Len(m.stream) : m.stream[k].type = "ENTRY" /\ m.stream[k].id = id}
ExitOf(m, id) == {k \in 1 .. Len(m.stream) : m.stream[k].type = "EXIT" /\ m.stream[k].id = id}

\* Each record is of a call that was made, and there is one of a kind.
OneOfEach(m, n) ==
    /\ \A k \in 1 .. Len(m.stream) : m.stream[k].id <= n
    /\ \A k, l \in 1 .. Len(m.stream) : m.stream[k].id = m.stream[l].id /\ m.stream[k].type = m.stream[l].type => k = l

\* The frame is written if and only if its entry is, unless it is inherited.
FrameTold(m, f, fr) ==
    /\ ExitOf(m, fr.id) = {}
    /\ EntryOf(m, fr.id) # {} => Written(fr) /\ ~Skipped(fr)
    /\ fr.id <= f => Written(fr)
    /\ Written(fr) /\ ~Skipped(fr) /\ fr.id > f =>
         \E k \in 1 .. Len(m.stream) :
             /\ m.stream[k].type = "ENTRY" /\ m.stream[k].id = fr.id /\ m.stream[k].depth = fr.depth
             /\ \A l \in 1 .. Len(m.stream) : m.stream[l].type = "ENTRY" /\ m.stream[l].depth = fr.depth => l <= k

FramesTold(m, f) == \A j \in 1 .. Len(m.rstack) : FrameTold(m, f, m.rstack[j])

\* Exits have entries.
Paired(m, f, off) ==
    /\ ~off => \A j \in 1 .. Len(m.rstack) : "DISABLED" \notin m.rstack[j].flags
    /\ ~off => \A k \in 1 .. Len(m.stream) : m.stream[k].type = "EXIT" /\ m.stream[k].id > f =>
                    \E l \in 1 .. k : m.stream[l].type = "ENTRY" /\ m.stream[l].id = m.stream[k].id

\* Entries have exits unless the call goes on.
Closed(m, off) ==
    ~off /\ m.losts = 0 =>
          \A k \in 1 .. Len(m.stream) : m.stream[k].type = "ENTRY" =>
              \/ \E j \in 1 .. Len(m.rstack) : m.rstack[j].id = m.stream[k].id
              \/ ExitOf(m, m.stream[k].id) # {}

AllWritten(m) == \A j \in 1 .. Len(m.rstack) : Written(m.rstack[j]) \/ Skipped(m.rstack[j])

\* After the warning that the stack is full everything is written.
Flushed(m) ==
    /\ m.over > 0 => m.warned
    /\ m.warned /\ m.losts = 0 => AllWritten(m)

StreamInv(m, n, t, f, off) ==
    /\ FromTheTop(m) /\ Timely(m, t) /\ OneOfEach(m, n) /\ FramesTold(m, f) /\ Paired(m, f, off) /\ Flushed(m)

McountInv ==
    /\ setup \in Setups /\ app \in Seq([fn : Functions, hooked : BOOLEAN]) /\ now \in 1 .. MaxTime
    /\ calls \in 0 .. MaxCalls /\ forked \in 0 .. calls /\ status \in {"run", "dead", "crashed"} /\ wasOff \in BOOLEAN
    /\ mtd \in MtdType /\ mtd.room = 0
    /\ status # "dead" => StackInv(setup, app, mtd, calls)
    /\ status = "dead" => mtd.rstack = << >>
    /\ StreamInv(mtd, calls, now, forked, wasOff)
    /\ status # "dead" => Closed(mtd, wasOff)
    /\ status = "crashed" /\ mtd.losts = 0 => AllWritten(mtd)

-----------------------------------------------------------------------------
(* Positions *)

\* Sets of positions, and the next position
LEMMA CardFacts ==
    ASSUME NEW n \in Nat, NEW S \in SUBSET (1 .. n)
    PROVE  /\ IsFiniteSet(S) /\ Cardinality(S) \in Nat
           /\ IsFiniteSet(S \cup {n + 1}) /\ Cardinality(S \cup {n + 1}) = Cardinality(S) + 1
           /\ Cardinality(S \ {n}) = IF n \in S THEN Cardinality(S) - 1 ELSE Cardinality(S)
           /\ n \in S => Cardinality(S) > 0
<1>1. IsFiniteSet(1 .. n)
  BY FS_Interval
<1>2. IsFiniteSet(S) /\ Cardinality(S) \in Nat
  BY <1>1, FS_Subset, FS_CardinalityType
<1>3. n + 1 \notin S
  OBVIOUS
<1>4. IsFiniteSet(S \cup {n + 1}) /\ Cardinality(S \cup {n + 1}) = Cardinality(S) + 1
  BY <1>2, <1>3, FS_AddElement
<1>5. Cardinality(S \ {n}) = IF n \in S THEN Cardinality(S) - 1 ELSE Cardinality(S)
  BY <1>2, FS_RemoveElement
<1>6. n \in S => Cardinality(S) > 0
  BY <1>2, FS_EmptySet
<1> QED BY <1>2, <1>4, <1>5, <1>6

\* Nth counts the positions through, in order.
LEMMA NthFacts ==
    ASSUME NEW n \in Nat, NEW S \in SUBSET (1 .. n)
    PROVE  /\ \A k \in 1 .. Cardinality(S) : Nth(S, k) \in S
           /\ \A k, l \in 1 .. Cardinality(S) : k < l => Nth(S, k) < Nth(S, l)
           /\ \A j \in S : \E k \in 1 .. Cardinality(S) : Nth(S, k) = j
<1> DEFINE Upto(j) == {l \in S : l <= j}
           c == Cardinality(S)
           rank == [j \in S |-> Cardinality(Upto(j))]
<1>1. IsFiniteSet(S) /\ c \in Nat
  BY CardFacts
<1>2. \A j \in S : Upto(j) \in SUBSET S /\ j \in Upto(j) /\ IsFiniteSet(Upto(j)) /\ Cardinality(Upto(j)) \in Nat
  <2> TAKE j \in S
  <2>1. Upto(j) \in SUBSET S /\ j \in Upto(j)
    OBVIOUS
  <2> QED BY <2>1, <1>1, FS_Subset, FS_CardinalityType
<1>3. \A j \in S : rank[j] \in 1 .. c
  <2> TAKE j \in S
  <2>1. Cardinality(Upto(j)) <= c /\ Cardinality(Upto(j)) # 0
    BY <1>1, <1>2, FS_Subset, FS_EmptySet
  <2> QED BY <2>1, <1>1, <1>2
<1>4. \A j, h \in S : j < h => rank[j] < rank[h]
  <2> TAKE j, h \in S
  <2> HAVE j < h
  <2> j \in Nat /\ h \in Nat
    OBVIOUS
  <2>1. Upto(j) \in SUBSET Upto(h) /\ h \in Upto(h) /\ h \notin Upto(j)
    <3>1. ASSUME NEW l \in S, l <= j PROVE l <= h
      <4>1. l \in Nat
        OBVIOUS
      <4> QED BY <4>1, <3>1
    <3>2. h \in Upto(h)
      OBVIOUS
    <3>3. h \notin Upto(j)
      OBVIOUS
    <3>4. Upto(j) \in SUBSET Upto(h)
      BY <3>1
    <3> QED BY <3>2, <3>3, <3>4
  <2>2. Cardinality(Upto(j)) <= Cardinality(Upto(h)) /\ Cardinality(Upto(j)) # Cardinality(Upto(h))
    BY <2>1, <1>2, FS_Subset
  <2> QED BY <2>2, <1>2
<1>5. \A k \in 1 .. c : \E j \in S : rank[j] = k
  <2>1. rank \in [S -> 1 .. c]
    BY <1>3
  <2>5. ASSUME NEW j \in S, NEW h \in S, rank[j] = rank[h] PROVE j = h
    <3>1. j \in Nat /\ h \in Nat /\ rank[j] \in Nat /\ rank[h] \in Nat
      BY <1>3
    <3>2. ~(rank[j] < rank[h]) /\ ~(rank[h] < rank[j])
      BY <3>1, <2>5
    <3>3. ~(j < h) /\ ~(h < j)
      BY <3>2, <1>4
    <3> QED BY <3>1, <3>3
  <2> HIDE DEF rank
  <2>2. rank \in Injection(S, 1 .. c)
    BY <2>1, <2>5 DEF Injection, IsInjective
  <2>3. IsFiniteSet(1 .. c) /\ Cardinality(1 .. c) = c
    BY <1>1, FS_Interval
  <2> HIDE DEF c
  <2>4. rank \in Surjection(S, 1 .. c)
    BY <2>2, <2>3, FS_Injection DEF c
  <2> QED BY <2>4 DEF Surjection
<1>6. \A k \in 1 .. c : Nth(S, k) \in S /\ rank[Nth(S, k)] = k
  BY <1>5 DEF Nth
<1>7. \A j, h \in S : rank[j] = rank[h] => j = h
  <2> TAKE j, h \in S
  <2> HAVE rank[j] = rank[h]
  <2> HIDE DEF rank
  <2>1. j \in Nat /\ h \in Nat /\ rank[j] \in Nat /\ rank[h] \in Nat
    BY <1>3
  <2>2. ~(rank[j] < rank[h]) /\ ~(rank[h] < rank[j])
    BY <2>1
  <2>3. ~(j < h) /\ ~(h < j)
    BY <2>2, <1>4
  <2> QED BY <2>1, <2>3
<1> HIDE DEF rank, Upto
<1>8. \A k, l \in 1 .. c : k < l => Nth(S, k) < Nth(S, l)
  <2> TAKE k, l \in 1 .. c
  <2> HAVE k < l
  <2>1. PICK j \in S : j = Nth(S, k) /\ rank[j] = k
    BY <1>6
  <2>2. PICK h \in S : h = Nth(S, l) /\ rank[h] = l
    BY <1>6
  <2>3. j \in Nat /\ h \in Nat /\ k \in Nat /\ l \in Nat
    BY <1>1
  <2>4. h < j => l < k
    BY <1>4, <2>1, <2>2
  <2>5. j # h
    BY <2>1, <2>2, <2>3
  <2> QED BY <2>1, <2>2, <2>3, <2>4, <2>5
<1>9. \A j \in S : \E k \in 1 .. c : Nth(S, k) = j
  BY <1>3, <1>6, <1>7
<1> QED BY <1>6, <1>8, <1>9

-----------------------------------------------------------------------------
(* record_trace_data() *)

\* What it leaves alone
SameRest(m, x) ==
    /\ x.over = m.over /\ x.in_count = m.in_count /\ x.out_count = m.out_count /\ x.filter = m.filter
    /\ x.record_idx = m.record_idx /\ x.enable_cached = m.enable_cached /\ x.warned = m.warned
    /\ x.enabled = m.enabled /\ x.finish = m.finish

Todo(m) == [type : {"ENTRY", "EXIT"}, at : 1 .. Len(m.rstack)]

\* What storing n records of todo makes of the stream and of the frames
Holds(m, x, todo, n) ==
    /\ Len(x.stream) = Len(m.stream) + n
    /\ \A k \in 1 .. Len(m.stream) : x.stream[k] = m.stream[k]
    /\ \A k \in 1 .. n : x.stream[Len(m.stream) + k] = Record(todo[k].type, m.rstack[todo[k].at])
    /\ Len(x.rstack) = Len(m.rstack)
    /\ \A j \in 1 .. Len(m.rstack) :
          x.rstack[j] = IF \E k \in 1 .. n : todo[k].at = j THEN Marked(m.rstack[j]) ELSE m.rstack[j]

\* A record has the fields of a frame.
LEMMA RecordType ==
    ASSUME NEW fr \in Frame, NEW type \in {"ENTRY", "EXIT"}
    PROVE  Record(type, fr) \in Rec /\ Marked(fr) \in Frame
<1>1. Record(type, fr) \in Rec
  BY DEF Record, Rec, Frame
<1>2. Marked(fr) \in Frame
  BY DEF Marked, Frame, FrameFlags
<1> QED BY <1>1, <1>2

\* Storing the first records of todo appends them and marks their frames.
LEMMA StoredFacts ==
    ASSUME NEW m \in MtdType, NEW i \in 1 .. Len(m.rstack), NEW todo \in Seq(Todo(m)),
           NEW n \in 0 .. Len(todo), n <= m.room, NEW x, x = Stored(m, i, todo, n)
    PROVE  /\ x \in MtdType /\ SameRest(m, x) /\ Holds(m, x, todo, n)
           /\ x.losts >= m.losts
           /\ x.losts = m.losts <=> n = Len(todo)
<1> DEFINE new == [k \in 1 .. n |-> Record(todo[k].type, m.rstack[todo[k].at])]
           done == {todo[k].at : k \in 1 .. n}
           stack == [j \in DOMAIN m.rstack |-> IF j \in done THEN Marked(m.rstack[j]) ELSE m.rstack[j]]
           rest == Len(todo) - n
           losts == IF rest = 0 THEN m.losts ELSE IF todo[n + 1].at < i THEN m.losts + rest ELSE m.losts + 1
<1>t. m.rstack \in Seq(Frame) /\ m.stream \in Seq(Rec) /\ m.losts \in Nat /\ m.room \in Nat
  BY DEF MtdType
<1>1. \A k \in 1 .. n : todo[k] \in Todo(m)
  OBVIOUS
<1>2. \A k \in 1 .. n : new[k] \in Rec
  <2> TAKE k \in 1 .. n
  <2>1. todo[k].type \in {"ENTRY", "EXIT"} /\ todo[k].at \in 1 .. Len(m.rstack)
    BY <1>1 DEF Todo
  <2>2. m.rstack[todo[k].at] \in Frame
    BY <2>1, <1>t
  <2> QED BY <2>1, <2>2, RecordType
<1>3. new \in Seq(Rec) /\ Len(new) = n
  <2>1. new \in [1 .. n -> Rec]
    BY <1>2
  <2> QED BY <2>1, SeqDef, LenProperties
<1>4. DOMAIN m.rstack = 1 .. Len(m.rstack)
  BY <1>t
<1>5. \A j \in 1 .. Len(m.rstack) : stack[j] \in Frame
  <2> TAKE j \in 1 .. Len(m.rstack)
  <2>1. m.rstack[j] \in Frame
    BY <1>t
  <2>2. Marked(m.rstack[j]) \in Frame
    BY <2>1, RecordType
  <2> QED BY <2>1, <2>2, <1>4
<1>6. stack \in Seq(Frame) /\ Len(stack) = Len(m.rstack)
  <2>1. stack \in [1 .. Len(m.rstack) -> Frame]
    BY <1>4, <1>5
  <2>2. Len(m.rstack) \in Nat
    BY <1>t
  <2> HIDE DEF stack
  <2> QED BY <2>1, <2>2, SeqDef, LenProperties
<1>7. losts \in Nat /\ losts >= m.losts /\ (losts = m.losts <=> n = Len(todo))
  <2>1. rest \in Nat /\ n \in Nat
    OBVIOUS
  <2> QED BY <2>1, <1>t
<1>8. x = [m EXCEPT !.stream = m.stream \o new, !.rstack = stack, !.room = m.room - n, !.losts = losts]
  BY DEF Stored
<1> HIDE DEF new, stack, losts
<1>9. m.stream \o new \in Seq(Rec) /\ Len(m.stream \o new) = Len(m.stream) + n
  BY <1>t, <1>3, ConcatProperties
<1>10. m.room - n \in Nat
  BY <1>t
<1>11. x \in MtdType
  BY <1>6, <1>7, <1>8, <1>9, <1>10 DEF MtdType
<1>12. x.stream = m.stream \o new /\ x.rstack = stack /\ x.losts = losts
  BY <1>8 DEF MtdType
<1>13. SameRest(m, x)
  BY <1>8 DEF SameRest, MtdType
<1>14. Holds(m, x, todo, n)
  <2>1. \A k \in 1 .. Len(m.stream) : x.stream[k] = m.stream[k]
    BY <1>t, <1>3, <1>12, ConcatProperties
  <2>2. ASSUME NEW k \in 1 .. n
        PROVE  x.stream[Len(m.stream) + k] = Record(todo[k].type, m.rstack[todo[k].at])
    <3>1. Len(m.stream) + k \in Len(m.stream) + 1 .. Len(m.stream) + Len(new) /\ Len(m.stream) + k - Len(m.stream) = k
      BY <1>t, <1>3
    <3>2. x.stream[Len(m.stream) + k] = new[k]
      BY <1>t, <1>3, <1>12, <3>1, ConcatProperties
    <3> QED BY <3>2 DEF new
  <2>3. \A j \in 1 .. Len(m.rstack) :
          x.rstack[j] = IF \E k \in 1 .. n : todo[k].at = j THEN Marked(m.rstack[j]) ELSE m.rstack[j]
    BY <1>4, <1>12 DEF stack
  <2> QED BY <1>6, <1>9, <1>12, <2>1, <2>2, <2>3 DEF Holds
<1> QED BY <1>7, <1>11, <1>12, <1>13, <1>14

\* The frames up to i whose entry has not been written, though it should be
Due(m, i) == {j \in 1 .. i : ~Written(m.rstack[j]) /\ ~Skipped(m.rstack[j])}

\* As frames are written from the outermost, these are the ones record_trace_data() finds.
LEMMA UnwrittenIsDue ==
    ASSUME NEW m, m.rstack \in Seq(Frame), NEW i \in 1 .. Len(m.rstack), FromTheTop(m)
    PROVE  Unwritten(m, i) = Due(m, i)
<1>1. CASE Written(m.rstack[i])
  <2>1. \A j \in 1 .. i : Written(m.rstack[j]) \/ Skipped(m.rstack[j])
    BY <1>1 DEF FromTheTop
  <2> QED BY <1>1, <2>1 DEF Unwritten, Due
<1>2. CASE ~Written(m.rstack[i])
  <2>1. ASSUME NEW j \in 1 .. i, ~Written(m.rstack[j]), ~Skipped(m.rstack[j]), NEW k \in 1 .. i, Written(m.rstack[k])
        PROVE  j > k
    <3>1. j <= k => Written(m.rstack[j]) \/ Skipped(m.rstack[j])
      BY <2>1 DEF FromTheTop
    <3> QED BY <2>1, <3>1
  <2>2. ASSUME NEW j \in 1 .. i, \A k \in {l \in 1 .. i : Written(m.rstack[l])} : j > k
        PROVE  ~Written(m.rstack[j])
    BY <2>2
  <2> DEFINE below == {l \in 1 .. i : Written(m.rstack[l])}
  <2>3. \A j \in 1 .. i : (\A k \in below : j > k) /\ ~Skipped(m.rstack[j])
                             <=> ~Written(m.rstack[j]) /\ ~Skipped(m.rstack[j])
    BY <2>1, <2>2
  <2>4. Unwritten(m, i) = {j \in 1 .. i : (\A k \in below : j > k) /\ ~Skipped(m.rstack[j])}
    BY <1>2 DEF Unwritten
  <2> HIDE DEF below
  <2> QED BY <2>3, <2>4 DEF Due
<1> QED BY <1>1, <1>2

\* y is m after the entries of the frames h[1] to h[q] were stored.
Told(m, y, i, q, h) ==
    /\ \A k \in 1 .. q : h[k] \in Due(m, i) /\ \A l \in k + 1 .. q : h[k] < h[l]
    /\ \A k \in 1 .. q : \A j \in Due(m, i) : j < h[k] => \E l \in 1 .. q : h[l] = j
    /\ y.losts >= m.losts
    /\ y.losts = m.losts => \A j \in Due(m, i) : \E k \in 1 .. q : h[k] = j
    /\ Len(y.stream) = Len(m.stream) + q
    /\ \A k \in 1 .. Len(m.stream) : y.stream[k] = m.stream[k]
    /\ \A k \in 1 .. q : y.stream[Len(m.stream) + k] = Record("ENTRY", m.rstack[h[k]])
    /\ Len(y.rstack) = Len(m.rstack)
    /\ \A j \in 1 .. Len(m.rstack) :
          y.rstack[j] = IF \E k \in 1 .. q : h[k] = j THEN Marked(m.rstack[j]) ELSE m.rstack[j]

\* x is y after the exit of the frame at i was stored.
Exited(m, y, x, i) ==
    /\ x \in MtdType /\ SameRest(y, x) /\ x.losts = y.losts
    /\ Len(x.stream) = Len(y.stream) + 1
    /\ \A k \in 1 .. Len(y.stream) : x.stream[k] = y.stream[k]
    /\ x.stream[Len(y.stream) + 1] = Record("EXIT", m.rstack[i])
    /\ Len(x.rstack) = Len(y.rstack)
    /\ \A j \in 1 .. Len(y.rstack) : j # i => x.rstack[j] = y.rstack[j]

\* The first entries due are stored, with the exit if all of them are, and what does not fit
\* is counted as lost.
LEMMA Recorded ==
    ASSUME NEW m \in MtdType, NEW i \in 1 .. Len(m.rstack), FromTheTop(m), NEW x, x = RecordTraceData(m, i)
    PROVE  \E q \in Nat : \E h \in [1 .. q -> 1 .. i] : \E y \in MtdType :
              /\ Told(m, y, i, q, h) /\ SameRest(m, y)
              /\ \/ x = y /\ (x.losts = m.losts => m.rstack[i].end = 0)
                 \/ m.rstack[i].end > 0 /\ y.losts = m.losts /\ Exited(m, y, x, i)
<1> DEFINE D == Due(m, i)
           c == Cardinality(D)
           order == [k \in 1 .. c |-> Nth(D, k)]
           entries == [k \in 1 .. c |-> [type |-> "ENTRY", at |-> Nth(D, k)]]
           ends == m.rstack[i].end > 0
           exit == [type |-> "EXIT", at |-> i]
           todo == IF ends THEN Append(entries, exit) ELSE entries
           n == IF m.room < Len(todo) THEN m.room ELSE Len(todo)
<1>t. m.rstack \in Seq(Frame) /\ Len(m.rstack) \in Nat /\ m.room \in Nat /\ m.losts \in Nat
  BY DEF MtdType
<1>1. D \in SUBSET (1 .. i) /\ i \in Nat
  BY <1>t DEF Due
<1>2. c \in Nat
  BY <1>1, CardFacts
<1>3. /\ \A k \in 1 .. c : Nth(D, k) \in D
      /\ \A k, l \in 1 .. c : k < l => Nth(D, k) < Nth(D, l)
      /\ \A j \in D : \E k \in 1 .. c : Nth(D, k) = j
  <2> HIDE DEF D
  <2> QED BY <1>1, NthFacts
<1> HIDE DEF D, c
<1>4. order \in [1 .. c -> 1 .. i]
  BY <1>1, <1>3
<1>5. entries \in Seq(Todo(m)) /\ Len(entries) = c
  <2>1. \A k \in 1 .. c : Nth(D, k) \in 1 .. Len(m.rstack)
    <3> TAKE k \in 1 .. c
    <3>1. Nth(D, k) \in 1 .. i
      BY <1>1, <1>3
    <3> QED BY <1>t, <3>1
  <2>2. entries \in [1 .. c -> Todo(m)]
    BY <2>1 DEF Todo
  <2> HIDE DEF entries
  <2> QED BY <2>2, <1>2, SeqDef, LenProperties
<1>6. \A k \in 1 .. c : entries[k].type = "ENTRY" /\ entries[k].at = order[k]
  OBVIOUS
<1>7. exit \in Todo(m) /\ exit.type = "EXIT" /\ exit.at = i
  BY DEF Todo
<1>8. x = Stored(m, i, todo, n)
  <2>1. Unwritten(m, i) = D
    BY <1>t, UnwrittenIsDue DEF D
  <2> QED BY <2>1 DEF RecordTraceData, StoreWhatFits, ToWrite, c
<1> HIDE DEF entries, exit
<1>9. todo \in Seq(Todo(m)) /\ Len(todo) = (IF ends THEN c + 1 ELSE c)
  BY <1>5, <1>7
<1>10. \A k \in 1 .. c : todo[k] = entries[k]
  <2>1. ends => \A k \in 1 .. c : todo[k] = entries[k]
    BY <1>5, <1>7, AppendProperties
  <2> QED BY <2>1
<1>11. n \in 0 .. Len(todo) /\ n <= m.room
  BY <1>t, <1>9, <1>2
<1> HIDE DEF todo, n
<1>12. /\ x \in MtdType /\ SameRest(m, x) /\ Holds(m, x, todo, n)
       /\ x.losts >= m.losts
       /\ x.losts = m.losts <=> n = Len(todo)
  BY <1>8, <1>9, <1>11, StoredFacts
<1>13. /\ \A k \in 1 .. c : order[k] \in D /\ order[k] \in 1 .. i
       /\ \A k, l \in 1 .. c : k < l => order[k] < order[l]
       /\ \A j \in D : \E k \in 1 .. c : order[k] = j
  BY <1>3, <1>4
<1> HIDE DEF order
<1>14. ASSUME NEW z \in MtdType, NEW q \in 0 .. c, NEW list, \A k \in 1 .. c : list[k] = entries[k],
              Holds(m, z, list, q), z.losts >= m.losts, z.losts = m.losts => q = c
       PROVE  \E h \in [1 .. q -> 1 .. i] : Told(m, z, i, q, h)
  <2> DEFINE h == [k \in 1 .. q |-> order[k]]
  <2>1. h \in [1 .. q -> 1 .. i] /\ \A k \in 1 .. q : h[k] = order[k] /\ k \in 1 .. c
    BY <1>2, <1>13
  <2>2. \A k \in 1 .. q : list[k].type = "ENTRY" /\ list[k].at = h[k]
    BY <2>1, <1>6, <1>14
  <2> HIDE DEF h
  <2>3. ASSUME NEW k \in 1 .. q
        PROVE  h[k] \in D /\ \A l \in k + 1 .. q : h[k] < h[l]
    <3>1. \A l \in k + 1 .. q : l \in 1 .. q /\ k < l
      BY <1>2
    <3> QED BY <3>1, <2>1, <1>13
  <2>4. ASSUME NEW k \in 1 .. q, NEW j \in D, j < h[k]
        PROVE  \E l \in 1 .. q : h[l] = j
    <3>1. PICK l \in 1 .. c : order[l] = j
      BY <1>13
    <3>2. j \in Nat /\ h[k] \in Nat /\ h[k] = order[k] /\ k \in 1 .. c
      BY <1>1, <2>1
    <3>3. ~(l > k) /\ l # k
      BY <3>1, <3>2, <2>4, <1>13
    <3>4. l \in 1 .. q
      BY <3>3, <1>2
    <3> QED BY <3>1, <3>4, <2>1
  <2>5. z.losts = m.losts => \A j \in D : \E k \in 1 .. q : h[k] = j
    BY <1>13, <1>14, <2>1
  <2>6. /\ Len(z.stream) = Len(m.stream) + q
        /\ \A k \in 1 .. Len(m.stream) : z.stream[k] = m.stream[k]
        /\ \A k \in 1 .. q : z.stream[Len(m.stream) + k] = Record("ENTRY", m.rstack[h[k]])
        /\ Len(z.rstack) = Len(m.rstack)
    <3>1. /\ Len(z.stream) = Len(m.stream) + q /\ Len(z.rstack) = Len(m.rstack)
          /\ \A k \in 1 .. Len(m.stream) : z.stream[k] = m.stream[k]
      BY <1>14 DEF Holds
    <3>2. ASSUME NEW k \in 1 .. q PROVE z.stream[Len(m.stream) + k] = Record("ENTRY", m.rstack[h[k]])
      <4>1. z.stream[Len(m.stream) + k] = Record(list[k].type, m.rstack[list[k].at])
        BY <1>14 DEF Holds
      <4> QED BY <4>1, <2>2
    <3> QED BY <3>1, <3>2
  <2>7. \A j \in 1 .. Len(m.rstack) :
          z.rstack[j] = IF \E k \in 1 .. q : h[k] = j THEN Marked(m.rstack[j]) ELSE m.rstack[j]
    <3> TAKE j \in 1 .. Len(m.rstack)
    <3>1. z.rstack[j] = IF \E k \in 1 .. q : list[k].at = j THEN Marked(m.rstack[j]) ELSE m.rstack[j]
      BY <1>14 DEF Holds
    <3>2. (\E k \in 1 .. q : list[k].at = j) <=> (\E k \in 1 .. q : h[k] = j)
      BY <2>2
    <3> QED BY <3>1, <3>2
  <2>8. Told(m, z, i, q, h)
    BY <2>3, <2>4, <2>5, <2>6, <2>7, <1>14 DEF Told, D
  <2> QED BY <2>1, <2>8
<1>15. CASE n <= c
  <2>1. n \in 0 .. c /\ (x.losts = m.losts => n = c /\ ~ends)
    BY <1>2, <1>9, <1>11, <1>12, <1>15
  <2>2. \E h \in [1 .. n -> 1 .. i] : Told(m, x, i, n, h)
    BY <2>1, <1>10, <1>12, <1>14
  <2>3. m.rstack[i].end \in Nat
    <3>1. m.rstack[i] \in Frame
      BY <1>t
    <3> QED BY <3>1 DEF Frame
  <2>4. x.losts = m.losts => m.rstack[i].end = 0
    BY <2>1, <2>3
  <2>5. n \in Nat
    BY <2>1
  <2> QED BY <2>2, <2>4, <2>5, <1>12
<1>16. CASE ~(n <= c)
  <2>1. ends /\ n = c + 1 /\ n = Len(todo) /\ c <= m.room
    BY <1>2, <1>9, <1>11, <1>16, <1>t
  <2>2. todo[c + 1] = exit
    <3>1. todo = Append(entries, exit)
      BY <2>1 DEF todo
    <3> QED BY <3>1, <1>5, <1>7, AppendProperties
  <2>3. PICK y : y = Stored(m, i, entries, c)
    OBVIOUS
  <2>4. c \in 0 .. Len(entries) /\ c = Len(entries)
    BY <1>2, <1>5
  <2>5. y \in MtdType /\ SameRest(m, y) /\ Holds(m, y, entries, c) /\ y.losts = m.losts
    BY <2>1, <2>3, <2>4, <1>5, StoredFacts
  <2>6. \E h \in [1 .. c -> 1 .. i] : Told(m, y, i, c, h)
    <3>1. c \in 0 .. c /\ y.losts >= m.losts
      BY <1>2, <1>t, <2>5
    <3> QED BY <3>1, <2>5, <1>14
  <2>7. Exited(m, y, x, i)
    <3>1. x.losts = y.losts /\ SameRest(y, x)
      BY <2>1, <2>5, <1>12 DEF SameRest
    <3>2. /\ Len(m.stream) \in Nat /\ Len(y.stream) = Len(m.stream) + c /\ Len(x.stream) = Len(m.stream) + (c + 1)
          /\ Len(y.stream) \in Nat
      <4>1. Len(m.stream) \in Nat
        BY DEF MtdType
      <4>2. Len(y.stream) = Len(m.stream) + c
        BY <2>5 DEF Holds
      <4>3. Len(x.stream) = Len(m.stream) + n
        BY <1>12 DEF Holds
      <4>4. Len(y.stream) \in Nat
        BY <2>5 DEF MtdType
      <4> QED BY <4>1, <4>2, <4>3, <4>4, <2>1
    <3>8. Len(y.stream) + 1 = Len(m.stream) + (c + 1)
      <4>1. \A a, b, d \in Nat : d = a + b => d + 1 = a + (b + 1)
        OBVIOUS
      <4> QED BY <4>1, <3>2, <1>2, Zenon
    <3>3. \A k \in 1 .. Len(y.stream) : x.stream[k] = y.stream[k]
      <4> TAKE k \in 1 .. Len(y.stream)
      <4>1. CASE k <= Len(m.stream)
        <5>1. k \in 1 .. Len(m.stream)
          BY <4>1, <3>2
        <5> QED BY <5>1, <2>5, <1>12 DEF Holds
      <4>2. CASE k > Len(m.stream)
        <5>1. PICK l \in 1 .. c : k = Len(m.stream) + l
          <6>1. k - Len(m.stream) \in 1 .. c /\ k = Len(m.stream) + (k - Len(m.stream))
            BY <4>2, <3>2, <1>2
          <6> QED BY <6>1
        <5>2. l \in 1 .. n /\ todo[l] = entries[l]
          BY <2>1, <1>2, <1>10
        <5>3. y.stream[k] = Record(entries[l].type, m.rstack[entries[l].at])
          BY <5>1, <2>5 DEF Holds
        <5>4. x.stream[k] = Record(todo[l].type, m.rstack[todo[l].at])
          BY <5>1, <5>2, <1>12 DEF Holds
        <5> QED BY <5>2, <5>3, <5>4
      <4> QED BY <4>1, <4>2, <3>2
    <3>4. x.stream[Len(y.stream) + 1] = Record("EXIT", m.rstack[i])
      <4>1. c + 1 \in 1 .. n /\ Len(y.stream) + 1 = Len(m.stream) + (c + 1)
        <5>1. c + 1 \in 1 .. n
          BY <2>1, <1>2
        <5> QED BY <5>1, <3>8
      <4>2. x.stream[Len(m.stream) + (c + 1)] = Record(todo[c + 1].type, m.rstack[todo[c + 1].at])
        BY <4>1, <1>12 DEF Holds
      <4> QED BY <4>1, <4>2, <2>2, <1>7
    <3>5. Len(x.rstack) = Len(y.rstack)
      BY <2>5, <1>12 DEF Holds
    <3>6. ASSUME NEW j \in 1 .. Len(y.rstack), j # i PROVE x.rstack[j] = y.rstack[j]
      <4>1. ASSUME NEW k \in 1 .. n, todo[k].at = j PROVE \E l \in 1 .. c : entries[l].at = j
        <5>1. k # c + 1
          BY <4>1, <3>6, <2>2, <1>7
        <5>2. k \in 1 .. c
          BY <5>1, <2>1, <1>2
        <5> QED BY <5>2, <4>1, <1>10
      <4>2. ASSUME NEW k \in 1 .. c, entries[k].at = j PROVE \E l \in 1 .. n : todo[l].at = j
        <5>1. k \in 1 .. n
          BY <2>1, <1>2
        <5> QED BY <5>1, <4>2, <1>10
      <4>3. j \in 1 .. Len(m.rstack)
        BY <2>5 DEF Holds
      <4>4. (\E k \in 1 .. n : todo[k].at = j) <=> (\E k \in 1 .. c : entries[k].at = j)
        BY <4>1, <4>2
      <4> QED BY <4>3, <4>4, <2>5, <1>12 DEF Holds
    <3>7. Len(x.stream) = Len(y.stream) + 1
      BY <3>2, <3>8
    <3> QED BY <3>1, <3>7, <3>3, <3>4, <3>5, <3>6, <1>12 DEF Exited
  <2> QED BY <2>1, <2>5, <2>6, <2>7, <1>2
<1>17. n \in Nat
  BY <1>11, <1>9, <1>2
<1> QED BY <1>15, <1>16

\* A frame is still the same, perhaps written by now.
SameFrame(a, b) ==
    /\ b.id = a.id /\ b.fn = a.fn /\ b.depth = a.depth /\ b.start = a.start /\ b.end = a.end /\ b.saved = a.saved
    /\ \A g \in FrameFlags \ {"WRITTEN"} : g \in b.flags <=> g \in a.flags
    /\ Written(a) => Written(b)
    /\ Skipped(b) <=> Skipped(a)
    /\ Recordable(b) <=> Recordable(a)

SameFrames(m, y) ==
    /\ Len(y.rstack) = Len(m.rstack)
    /\ \A j \in 1 .. Len(m.rstack) : SameFrame(m.rstack[j], y.rstack[j])

\* MCOUNT_FL_WRITTEN is all that marking a frame changes.
LEMMA MarkedFrame ==
    ASSUME NEW fr \in Frame
    PROVE  SameFrame(fr, fr) /\ SameFrame(fr, Marked(fr)) /\ Written(Marked(fr))
<1>1. SameFrame(fr, fr)
  BY DEF SameFrame
<1>2. /\ Marked(fr).id = fr.id /\ Marked(fr).fn = fr.fn /\ Marked(fr).depth = fr.depth
      /\ Marked(fr).start = fr.start /\ Marked(fr).end = fr.end /\ Marked(fr).saved = fr.saved
      /\ Marked(fr).flags = fr.flags \cup {"WRITTEN"}
  BY DEF Marked, Frame
<1>3. SameFrame(fr, Marked(fr))
  BY <1>2 DEF SameFrame, Written, Skipped, Recordable
<1>4. Written(Marked(fr))
  BY <1>2 DEF Written
<1> QED BY <1>1, <1>3, <1>4

\* What Told says of each frame
ToldFrame(m, y, i, q, h, j) ==
    /\ SameFrame(m.rstack[j], y.rstack[j])
    /\ Written(y.rstack[j]) <=> Written(m.rstack[j]) \/ \E k \in 1 .. q : h[k] = j

\* Each frame is the same, and is written if it was or if its entry was stored.
LEMMA ToldFrames ==
    ASSUME NEW m, m.rstack \in Seq(Frame), NEW i \in 1 .. Len(m.rstack), NEW y, NEW q \in Nat, NEW h, Told(m, y, i, q, h)
    PROVE  \A j \in 1 .. Len(m.rstack) : ToldFrame(m, y, i, q, h, j)
<1> TAKE j \in 1 .. Len(m.rstack)
<1>1. m.rstack[j] \in Frame
  OBVIOUS
<1>2. y.rstack[j] = IF \E k \in 1 .. q : h[k] = j THEN Marked(m.rstack[j]) ELSE m.rstack[j]
  BY DEF Told
<1>3. CASE \E k \in 1 .. q : h[k] = j
  BY <1>1, <1>2, <1>3, MarkedFrame DEF ToldFrame
<1>4. CASE ~\E k \in 1 .. q : h[k] = j
  BY <1>1, <1>2, <1>4, MarkedFrame DEF ToldFrame
<1> QED BY <1>3, <1>4

\* Where a record of y is: one of m's, or one of the new
NewRecords(m, y, q, h) ==
    /\ Len(m.stream) \in Nat /\ Len(y.stream) \in Nat
    /\ \A k \in 1 .. Len(y.stream) :
          \/ k \in 1 .. Len(m.stream)
          \/ \E a \in 1 .. q : k = Len(m.stream) + a
    /\ \A k \in 1 .. Len(m.stream) : k \in 1 .. Len(y.stream) /\ y.stream[k] = m.stream[k]
    /\ \A a \in 1 .. q : /\ Len(m.stream) + a \in 1 .. Len(y.stream)
                         /\ y.stream[Len(m.stream) + a] = Record("ENTRY", m.rstack[h[a]])

\* The records are those there were, followed by the entries stored.
LEMMA ToldRecords ==
    ASSUME NEW m, m.stream \in Seq(Rec), NEW i, NEW y, NEW q \in Nat, NEW h, Told(m, y, i, q, h)
    PROVE  NewRecords(m, y, q, h)
<1>1. Len(m.stream) \in Nat
  OBVIOUS
<1>2. PICK n \in Nat : n = Len(m.stream)
  BY <1>1
<1>3. Len(y.stream) = n + q
  BY <1>2 DEF Told
<1>4. ASSUME NEW k \in 1 .. n + q, k \notin 1 .. n PROVE \E a \in 1 .. q : k = n + a
  <2>1. k - n \in 1 .. q /\ k = n + (k - n)
    BY <1>4
  <2> QED BY <2>1
<1>5. \A k \in 1 .. n : k \in 1 .. n + q
  OBVIOUS
<1>6. \A a \in 1 .. q : n + a \in 1 .. n + q
  OBVIOUS
<1>7. n + q \in Nat
  OBVIOUS
<1> QED BY <1>2, <1>3, <1>4, <1>5, <1>6, <1>7 DEF Told, NewRecords

\* The fields of an entry
LEMMA EntryFields ==
    ASSUME NEW fr
    PROVE  LET r == Record("ENTRY", fr)
               x == Record("EXIT", fr)
           IN /\ r.type = "ENTRY" /\ r.id = fr.id /\ r.depth = fr.depth /\ r.time = fr.start
              /\ x.type = "EXIT" /\ x.id = fr.id /\ x.time = fr.end
  BY DEF Record

\* What record_trace_data() keeps, apart from the exit
Kept(m, y, i, n, t, f, off) ==
    /\ StreamInv(y, n, t, f, off) /\ SameFrames(m, y) /\ SameRest(m, y) /\ y.losts >= m.losts
    /\ y.losts = m.losts => \A j \in 1 .. i : Written(y.rstack[j]) \/ Skipped(y.rstack[j])
    /\ AllWritten(m) => AllWritten(y)
    /\ Closed(m, off) => Closed(y, off)

\* Entries keep what is said of the stream, and all are written if none was lost.
LEMMA EntriesKeep ==
    ASSUME NEW m, m.rstack \in Seq(Frame), m.stream \in Seq(Rec), m.losts \in Nat, NEW i \in 1 .. Len(m.rstack),
           NEW y \in MtdType, NEW q \in Nat, NEW h \in [1 .. q -> 1 .. i], Told(m, y, i, q, h), SameRest(m, y),
           NEW n \in Nat, NEW t \in Nat, NEW f \in Nat, NEW off \in BOOLEAN,
           Growing(m, n), StreamInv(m, n, t, f, off)
    PROVE  Kept(m, y, i, n, t, f, off)
<1> DEFINE N == Len(m.rstack)
           M == Len(m.stream)
<1>t. N \in Nat /\ i \in 1 .. N /\ (\A j \in 1 .. N : m.rstack[j] \in Frame) /\ \A k \in 1 .. M : m.stream[k] \in Rec
  OBVIOUS
<1>f. /\ Len(y.rstack) = N
      /\ \A j \in 1 .. N : ToldFrame(m, y, i, q, h, j)
  BY ToldFrames DEF Told
<1>r. /\ M \in Nat /\ Len(y.stream) \in Nat
      /\ \A k \in 1 .. Len(y.stream) :
            \/ k \in 1 .. M
            \/ \E a \in 1 .. q : k = M + a
      /\ \A k \in 1 .. M : k \in 1 .. Len(y.stream) /\ y.stream[k] = m.stream[k]
      /\ \A a \in 1 .. q : /\ M + a \in 1 .. Len(y.stream)
                           /\ y.stream[M + a] = Record("ENTRY", m.rstack[h[a]])
  <2>1. NewRecords(m, y, q, h)
    BY ToldRecords
  <2> QED BY <2>1 DEF NewRecords
<1>s. SameFrames(m, y)
  BY <1>f DEF SameFrames, ToldFrame
<1>d. ASSUME NEW j \in 1 .. i PROVE j \in 1 .. N /\ (j \in Due(m, i) <=> ~Written(m.rstack[j]) /\ ~Skipped(m.rstack[j]))
  BY <1>t DEF Due
<1>h. ASSUME NEW a \in 1 .. q
      PROVE  /\ h[a] \in 1 .. i /\ h[a] \in 1 .. N /\ ~Written(m.rstack[h[a]]) /\ ~Skipped(m.rstack[h[a]])
             /\ \A b \in 1 .. q : a < b => h[a] < h[b]
             /\ \A j \in 1 .. i : j < h[a] /\ ~Written(m.rstack[j]) /\ ~Skipped(m.rstack[j]) => \E b \in 1 .. q : h[b] = j
  <2>1. h[a] \in 1 .. i /\ h[a] \in Due(m, i)
    BY DEF Told
  <2>2. ASSUME NEW b \in 1 .. q, a < b PROVE h[a] < h[b]
    <3>1. b \in a + 1 .. q
      BY <2>2
    <3> QED BY <3>1 DEF Told
  <2>3. ASSUME NEW j \in 1 .. i, j < h[a], ~Written(m.rstack[j]), ~Skipped(m.rstack[j]) PROVE \E b \in 1 .. q : h[b] = j
    BY <2>3, <1>d DEF Told
  <2> QED BY <2>1, <2>2, <2>3, <1>d
<1>i. StreamInv(m, n, t, f, off)
  OBVIOUS
<1> HIDE DEF N, M
<1>1. FromTheTop(y)
  <2> SUFFICES ASSUME NEW j \in 1 .. N, NEW k \in 1 .. j, Written(y.rstack[j])
               PROVE  Written(y.rstack[k]) \/ Skipped(y.rstack[k])
    BY <1>f DEF FromTheTop
  <2>1. k \in 1 .. N
    BY <1>t
  <2>2. ToldFrame(m, y, i, q, h, j) /\ ToldFrame(m, y, i, q, h, k)
    BY <2>1, <1>f
  <2>3. CASE Written(m.rstack[j])
    BY <2>2, <2>3, <1>i DEF StreamInv, FromTheTop, ToldFrame, SameFrame, N
  <2>4. CASE ~Written(m.rstack[j])
    <3>1. PICK a \in 1 .. q : h[a] = j
      BY <2>2, <2>4 DEF ToldFrame
    <3>2. k = j \/ (k < h[a] /\ k \in 1 .. i)
      BY <3>1, <1>h, <1>t
    <3> QED BY <2>2, <3>1, <3>2, <1>h DEF ToldFrame, SameFrame
  <2> QED BY <2>3, <2>4
<1>2. Timely(y, t)
  <2>1. ASSUME NEW j \in 1 .. N, ~Skipped(m.rstack[j])
        PROVE  /\ m.rstack[j].start <= t /\ m.rstack[j].start \in Nat
               /\ \A k \in 1 .. N : k < j /\ ~Skipped(m.rstack[k]) => m.rstack[k].start <= m.rstack[j].start
               /\ ~Written(m.rstack[j]) => \A k \in 1 .. M : m.stream[k].time <= m.rstack[j].start
    <3>1. \A k \in 1 .. N : k < j => k \in 1 .. j - 1
      BY <1>t
    <3>2. m.rstack[j].start \in Nat
      BY <1>t DEF Frame
    <3>3. Timely(m, t)
      BY <1>i DEF StreamInv
    <3> QED BY <3>1, <3>2, <3>3, <2>1 DEF Timely, N, M
  <2>2. /\ \A k \in 1 .. M : m.stream[k].time <= t /\ m.stream[k].time \in Nat
        /\ \A k, l \in 1 .. M : k < l => m.stream[k].time <= m.stream[l].time
    <3>1. \A k \in 1 .. M : m.stream[k].time \in Nat
      BY <1>t DEF Rec, M
    <3> QED BY <3>1, <1>i DEF StreamInv, Timely, M
  <2>3. ASSUME NEW a \in 1 .. q
        PROVE  /\ M + a \in 1 .. Len(y.stream) /\ y.stream[M + a].time = m.rstack[h[a]].start
               /\ m.rstack[h[a]].start <= t /\ m.rstack[h[a]].start \in Nat
               /\ \A k \in 1 .. M : m.stream[k].time <= m.rstack[h[a]].start
               /\ \A b \in 1 .. q : a < b => m.rstack[h[a]].start <= m.rstack[h[b]].start
    <3>1. h[a] \in 1 .. N /\ ~Written(m.rstack[h[a]]) /\ ~Skipped(m.rstack[h[a]])
      BY <1>h
    <3>2. \A b \in 1 .. q : a < b => h[a] < h[b] /\ h[b] \in 1 .. N /\ ~Skipped(m.rstack[h[b]])
      BY <1>h
    <3>3. y.stream[M + a].time = m.rstack[h[a]].start
      BY <1>r, EntryFields
    <3> QED BY <3>1, <3>2, <3>3, <2>1, <1>r
  <2>4. \A k \in 1 .. Len(y.stream) : y.stream[k].time <= t
    BY <2>2, <2>3, <1>r
  <2>5. ASSUME NEW k \in 1 .. Len(y.stream), NEW l \in 1 .. Len(y.stream), k < l
        PROVE  y.stream[k].time <= y.stream[l].time
    <3>1. CASE l \in 1 .. M
      <4>1. k \in 1 .. M
        BY <3>1, <2>5, <1>r
      <4> QED BY <4>1, <3>1, <2>5, <2>2, <1>r
    <3>2. CASE \E b \in 1 .. q : l = M + b
      <4>1. PICK b \in 1 .. q : l = M + b
        BY <3>2
      <4>2. CASE k \in 1 .. M
        BY <4>1, <4>2, <2>3, <1>r
      <4>3. CASE \E a \in 1 .. q : k = M + a
        <5>1. PICK a \in 1 .. q : k = M + a
          BY <4>3
        <5>2. a < b
          BY <5>1, <4>1, <2>5, <1>r
        <5> QED BY <5>1, <5>2, <4>1, <2>3
      <4> QED BY <4>2, <4>3, <1>r
    <3> QED BY <3>1, <3>2, <1>r
  <2>6. ASSUME NEW j \in 1 .. N, ~Skipped(y.rstack[j])
        PROVE  /\ y.rstack[j].start <= t
               /\ \A k \in 1 .. j - 1 : ~Skipped(y.rstack[k]) => y.rstack[k].start <= y.rstack[j].start
               /\ ~Written(y.rstack[j]) => \A k \in 1 .. Len(y.stream) : y.stream[k].time <= y.rstack[j].start
    <3>1. y.rstack[j].start = m.rstack[j].start /\ ~Skipped(m.rstack[j])
      BY <2>6, <1>f DEF ToldFrame, SameFrame
    <3>2. ASSUME NEW k \in 1 .. j - 1, ~Skipped(y.rstack[k]) PROVE y.rstack[k].start <= y.rstack[j].start
      <4>1. k \in 1 .. N /\ k < j
        BY <1>t
      <4>2. y.rstack[k].start = m.rstack[k].start /\ ~Skipped(m.rstack[k])
        BY <3>2, <4>1, <1>f DEF ToldFrame, SameFrame
      <4> QED BY <3>1, <4>1, <4>2, <2>1
    <3>3. ASSUME ~Written(y.rstack[j]), NEW k \in 1 .. Len(y.stream) PROVE y.stream[k].time <= y.rstack[j].start
      <4>1. ~Written(m.rstack[j]) /\ ~\E b \in 1 .. q : h[b] = j
        BY <3>3, <1>f DEF ToldFrame
      <4>2. CASE k \in 1 .. M
        BY <4>1, <4>2, <3>1, <2>1, <1>r
      <4>3. CASE \E a \in 1 .. q : k = M + a
        <5>1. PICK a \in 1 .. q : k = M + a
          BY <4>3
        <5>2. h[a] \in 1 .. N /\ h[a] \in 1 .. i /\ h[a] # j /\ ~Skipped(m.rstack[h[a]])
          BY <4>1, <1>h
        <5>3. ~(j < h[a])
          <6>1. j < h[a] => j \in 1 .. i
            BY <5>2, <1>t
          <6> QED BY <6>1, <4>1, <3>1, <1>h
        <5>4. h[a] < j
          BY <5>2, <5>3
        <5>5. m.rstack[h[a]].start <= m.rstack[j].start
          BY <5>2, <5>4, <3>1, <2>1
        <5> QED BY <5>1, <5>5, <3>1, <2>3
      <4> QED BY <4>2, <4>3, <1>r
    <3> QED BY <3>1, <3>2, <3>3, <2>1
  <2> QED BY <2>4, <2>5, <2>6, <1>f DEF Timely
<1>g. ASSUME NEW j \in 1 .. N
      PROVE  /\ m.rstack[j].id <= n /\ m.rstack[j].id \in Nat
             /\ \A k \in 1 .. N : m.rstack[k].id = m.rstack[j].id => k = j
             /\ \A k \in 1 .. N : /\ Recordable(m.rstack[j]) /\ Recordable(m.rstack[k])
                                 /\ m.rstack[k].depth = m.rstack[j].depth => k = j
  <2>1. ASSUME NEW k \in 1 .. N PROVE m.rstack[k].id \in Nat /\ m.rstack[k].depth \in Nat /\ m.rstack[k].id <= n
    <3>1. m.rstack[k] \in Frame
      BY <1>t
    <3>2. m.rstack[k].id \in 1 .. MaxCalls /\ m.rstack[k].depth \in Nat
      BY <3>1 DEF Frame
    <3>3. m.rstack[k].id <= n
      BY DEF Growing, N
    <3> QED BY <3>2, <3>3
  <2>2. ASSUME NEW k \in 1 .. N, NEW l \in 1 .. N, l < k
        PROVE  /\ m.rstack[l].id < m.rstack[k].id
               /\ Recordable(m.rstack[l]) /\ Recordable(m.rstack[k]) => m.rstack[l].depth < m.rstack[k].depth
    <3>1. l \in 1 .. k - 1
      BY <2>2, <1>t
    <3> QED BY <3>1 DEF Growing, N
  <2>3. ASSUME NEW k \in 1 .. N, k # j
        PROVE  /\ m.rstack[k].id # m.rstack[j].id
               /\ Recordable(m.rstack[j]) /\ Recordable(m.rstack[k]) => m.rstack[k].depth # m.rstack[j].depth
    <3>1. k < j \/ j < k
      BY <2>3, <1>t
    <3>2. /\ m.rstack[k].id < m.rstack[j].id \/ m.rstack[j].id < m.rstack[k].id
          /\ Recordable(m.rstack[j]) /\ Recordable(m.rstack[k])
                 => m.rstack[k].depth < m.rstack[j].depth \/ m.rstack[j].depth < m.rstack[k].depth
      BY <3>1, <2>2
    <3>3. /\ m.rstack[k].id \in Nat /\ m.rstack[j].id \in Nat
          /\ m.rstack[k].depth \in Nat /\ m.rstack[j].depth \in Nat
      BY <2>1
    <3>4. \A a, b \in Nat : a < b \/ b < a => a # b
      OBVIOUS
    <3> QED BY <3>2, <3>3, <3>4, Zenon
  <2>4. m.rstack[j].id <= n /\ m.rstack[j].id \in Nat
    BY <2>1
  <2> QED BY <2>3, <2>4
<1>a. ASSUME NEW a \in 1 .. q
      PROVE  /\ y.stream[M + a].type = "ENTRY" /\ y.stream[M + a].id = m.rstack[h[a]].id
             /\ y.stream[M + a].depth = m.rstack[h[a]].depth
  <2>1. y.stream[M + a] = Record("ENTRY", m.rstack[h[a]])
    BY <1>r
  <2> QED BY <2>1, EntryFields
<1>b. ASSUME NEW a \in 1 .. q, NEW b \in 1 .. q, h[a] = h[b] PROVE a = b
  <2>1. ~(a < b) /\ ~(b < a)
    <3>1. a < b => h[a] < h[b]
      BY <1>h
    <3>2. b < a => h[b] < h[a]
      BY <1>h
    <3>3. h[a] \in Nat /\ h[b] \in Nat
      BY <1>h, <1>t
    <3> QED BY <3>1, <3>2, <3>3, <1>b
  <2> QED BY <2>1
<1>o. ASSUME NEW j \in 1 .. N, NEW k \in 1 .. M, m.stream[k].id = m.rstack[j].id
      PROVE  m.stream[k].type = "ENTRY" /\ Written(m.rstack[j]) /\ ~Skipped(m.rstack[j])
  <2>1. m.stream[k].type \in {"ENTRY", "EXIT"}
    BY <1>t DEF Rec
  <2>2. /\ m.stream[k].type = "EXIT" => k \in ExitOf(m, m.rstack[j].id)
        /\ m.stream[k].type = "ENTRY" => k \in EntryOf(m, m.rstack[j].id)
    BY <1>o DEF ExitOf, EntryOf, M
  <2>3. /\ ExitOf(m, m.rstack[j].id) = {}
        /\ EntryOf(m, m.rstack[j].id) # {} => Written(m.rstack[j]) /\ ~Skipped(m.rstack[j])
    BY <1>i DEF StreamInv, FramesTold, FrameTold, N
  <2> QED BY <2>1, <2>2, <2>3
<1>3. OneOfEach(y, n)
  <2>1. \A k \in 1 .. M : m.stream[k].id <= n
    BY <1>i DEF StreamInv, OneOfEach, M
  <2>2. \A a \in 1 .. q : y.stream[M + a].id <= n
    BY <1>a, <1>h, <1>g
  <2>3. \A k \in 1 .. Len(y.stream) : y.stream[k].id <= n
    BY <2>1, <2>2, <1>r
  <2>4. ASSUME NEW k \in 1 .. M, NEW a \in 1 .. q, m.stream[k].id = y.stream[M + a].id PROVE FALSE
    BY <2>4, <1>a, <1>h, <1>o
  <2>5. ASSUME NEW a \in 1 .. q, NEW b \in 1 .. q, y.stream[M + a].id = y.stream[M + b].id PROVE a = b
    <3>1. h[a] = h[b]
      <4>1. m.rstack[h[a]].id = m.rstack[h[b]].id
        BY <2>5, <1>a
      <4>2. h[a] \in 1 .. N /\ h[b] \in 1 .. N
        BY <1>h
      <4> QED BY <4>1, <4>2, <1>g
    <3> QED BY <3>1, <1>b
  <2>6. ASSUME NEW k \in 1 .. Len(y.stream), NEW l \in 1 .. Len(y.stream),
               y.stream[k].id = y.stream[l].id, y.stream[k].type = y.stream[l].type
        PROVE  k = l
    <3>1. CASE k \in 1 .. M /\ l \in 1 .. M
      BY <3>1, <2>6, <1>r, <1>i DEF StreamInv, OneOfEach, M
    <3>2. CASE k \in 1 .. M /\ l \notin 1 .. M
      BY <3>2, <2>4, <2>6, <1>r
    <3>3. CASE k \notin 1 .. M /\ l \in 1 .. M
      BY <3>3, <2>4, <2>6, <1>r
    <3>4. CASE k \notin 1 .. M /\ l \notin 1 .. M
      <4>1. PICK a \in 1 .. q : k = M + a
        BY <3>4, <1>r
      <4>2. PICK b \in 1 .. q : l = M + b
        BY <3>4, <1>r
      <4> QED BY <4>1, <4>2, <2>5, <2>6
    <3> QED BY <3>1, <3>2, <3>3, <3>4
  <2> QED BY <2>3, <2>6 DEF OneOfEach
<1>4. FramesTold(y, f)
  <2> SUFFICES ASSUME NEW j \in 1 .. N
               PROVE  FrameTold(y, f, y.rstack[j])
    BY <1>f DEF FramesTold
  <2> DEFINE fr == m.rstack[j]
             gr == y.rstack[j]
  <2>1. /\ gr.id = fr.id /\ gr.depth = fr.depth /\ (Skipped(gr) <=> Skipped(fr)) /\ (Written(fr) => Written(gr))
        /\ Written(gr) <=> Written(fr) \/ \E k \in 1 .. q : h[k] = j
    BY <1>f DEF ToldFrame, SameFrame
  <2> HIDE DEF fr, gr
  <2>2. ASSUME NEW k \in 1 .. Len(y.stream), y.stream[k].id = fr.id
        PROVE  y.stream[k].type = "ENTRY" /\ Written(gr) /\ ~Skipped(gr)
    <3>1. CASE k \in 1 .. M
      BY <3>1, <2>1, <2>2, <1>r, <1>o DEF fr
    <3>2. CASE \E a \in 1 .. q : k = M + a
      <4>1. PICK a \in 1 .. q : k = M + a
        BY <3>2
      <4>2. y.stream[k].type = "ENTRY" /\ m.rstack[h[a]].id = fr.id /\ h[a] \in 1 .. N /\ ~Skipped(m.rstack[h[a]])
        BY <4>1, <2>2, <1>a, <1>h
      <4>3. h[a] = j
        BY <4>2, <1>g DEF fr
      <4> QED BY <4>2, <4>3, <2>1 DEF fr
    <3> QED BY <3>1, <3>2, <1>r
  <2>3. ExitOf(y, gr.id) = {} /\ (EntryOf(y, gr.id) # {} => Written(gr) /\ ~Skipped(gr))
    BY <2>1, <2>2 DEF ExitOf, EntryOf
  <2>4. FramesTold(m, f)
    BY <1>i DEF StreamInv
  <2>5. gr.id <= f => Written(gr)
    BY <2>1, <2>4 DEF FramesTold, FrameTold, N, fr
  <2>6. ASSUME Written(gr), ~Skipped(gr), gr.id > f
        PROVE  \E k \in 1 .. Len(y.stream) :
                  /\ y.stream[k].type = "ENTRY" /\ y.stream[k].id = fr.id /\ y.stream[k].depth = fr.depth
                  /\ \A l \in 1 .. Len(y.stream) :
                        y.stream[l].type = "ENTRY" /\ y.stream[l].depth = fr.depth => l <= k
    <3>0. Recordable(fr) /\ ~Skipped(fr)
      BY <2>6, <2>1 DEF Skipped, Recordable
    <3>1. ASSUME NEW a \in 1 .. q, y.stream[M + a].depth = fr.depth PROVE h[a] = j
      <4>1. h[a] \in 1 .. N /\ Recordable(m.rstack[h[a]]) /\ m.rstack[h[a]].depth = fr.depth
        BY <3>1, <1>a, <1>h DEF Skipped, Recordable
      <4> QED BY <4>1, <3>0, <1>g DEF fr
    <3>2. CASE Written(fr)
      <4>1. PICK k \in 1 .. M :
                  /\ m.stream[k].type = "ENTRY" /\ m.stream[k].id = fr.id /\ m.stream[k].depth = fr.depth
                  /\ \A l \in 1 .. M : m.stream[l].type = "ENTRY" /\ m.stream[l].depth = fr.depth => l <= k
        BY <3>0, <3>2, <2>1, <2>4, <2>6 DEF FramesTold, FrameTold, N, M, fr
      <4>2. ASSUME NEW l \in 1 .. Len(y.stream), y.stream[l].type = "ENTRY", y.stream[l].depth = fr.depth PROVE l <= k
        <5>1. CASE l \in 1 .. M
          BY <5>1, <4>1, <4>2, <1>r
        <5>2. CASE \E a \in 1 .. q : l = M + a
          <6>1. PICK a \in 1 .. q : l = M + a
            BY <5>2
          <6>2. h[a] = j
            BY <6>1, <4>2, <3>1
          <6> QED BY <6>2, <3>2, <1>h DEF fr
        <5> QED BY <5>1, <5>2, <1>r
      <4>3. k \in 1 .. Len(y.stream) /\ y.stream[k] = m.stream[k]
        BY <1>r
      <4> QED BY <4>1, <4>2, <4>3
    <3>3. CASE ~Written(fr)
      <4>1. PICK a \in 1 .. q : h[a] = j
        BY <3>3, <2>1, <2>6
      <4>2. M + a \in 1 .. Len(y.stream) /\ y.stream[M + a].type = "ENTRY"
            /\ y.stream[M + a].id = fr.id /\ y.stream[M + a].depth = fr.depth
        BY <4>1, <1>a, <1>r DEF fr
      <4>3. ASSUME NEW l \in 1 .. Len(y.stream), y.stream[l].type = "ENTRY", y.stream[l].depth = fr.depth PROVE l <= M + a
        <5>1. CASE l \in 1 .. M
          BY <5>1, <1>r
        <5>2. CASE \E b \in 1 .. q : l = M + b
          <6>1. PICK b \in 1 .. q : l = M + b
            BY <5>2
          <6>2. h[b] = h[a]
            BY <6>1, <4>1, <4>3, <3>1
          <6>3. a = b
            BY <6>2, <1>b
          <6> QED BY <6>1, <6>3, <1>r
        <5> QED BY <5>1, <5>2, <1>r
      <4> QED BY <4>2, <4>3
    <3> QED BY <3>2, <3>3
  <2> QED BY <2>1, <2>3, <2>5, <2>6 DEF gr, FrameTold
<1>5. Paired(y, f, off)
  <2> SUFFICES ASSUME ~off PROVE Paired(y, f, off)
    BY DEF Paired
  <2>1. \A j \in 1 .. N : "DISABLED" \notin y.rstack[j].flags
    <3>1. Paired(m, f, off)
      BY <1>i DEF StreamInv
    <3>2. "DISABLED" \in FrameFlags \ {"WRITTEN"}
      BY DEF FrameFlags
    <3> QED BY <3>1, <3>2, <1>f DEF Paired, N, ToldFrame, SameFrame
  <2>2. ASSUME NEW k \in 1 .. Len(y.stream), y.stream[k].type = "EXIT", y.stream[k].id > f
        PROVE  \E l \in 1 .. k : y.stream[l].type = "ENTRY" /\ y.stream[l].id = y.stream[k].id
    <3>1. k \in 1 .. M
      BY <2>2, <1>r, <1>a
    <3>2. PICK l \in 1 .. k : m.stream[l].type = "ENTRY" /\ m.stream[l].id = m.stream[k].id
      BY <3>1, <2>2, <1>r, <1>i DEF StreamInv, Paired, M
    <3>3. l \in 1 .. M
      BY <3>1, <1>r
    <3> QED BY <3>1, <3>2, <3>3, <1>r
  <2> QED BY <2>1, <2>2, <1>f DEF Paired
<1>l. /\ y.losts \in Nat /\ y.losts >= m.losts /\ y.warned = m.warned /\ y.over = m.over
      /\ y.losts = 0 => m.losts = 0
  BY DEF Told, SameRest, MtdType
<1>6. AllWritten(m) => AllWritten(y)
  BY <1>f DEF AllWritten, ToldFrame, SameFrame, N
<1>7. Flushed(y)
  BY <1>l, <1>6, <1>i DEF StreamInv, Flushed
<1>8. ASSUME y.losts = m.losts, NEW j \in 1 .. i PROVE Written(y.rstack[j]) \/ Skipped(y.rstack[j])
  <2>1. j \in Due(m, i) => \E k \in 1 .. q : h[k] = j
    BY <1>8 DEF Told
  <2> QED BY <2>1, <1>d, <1>f DEF ToldFrame, SameFrame
<1>9. ASSUME Closed(m, off) PROVE Closed(y, off)
  <2> SUFFICES ASSUME ~off, y.losts = 0, NEW k \in 1 .. Len(y.stream), y.stream[k].type = "ENTRY"
               PROVE  \/ \E j \in 1 .. N : y.rstack[j].id = y.stream[k].id
                      \/ ExitOf(y, y.stream[k].id) # {}
    BY <1>f DEF Closed
  <2>1. CASE k \in 1 .. M
    <3>1. \/ \E j \in 1 .. N : m.rstack[j].id = m.stream[k].id
          \/ ExitOf(m, m.stream[k].id) # {}
      BY <2>1, <1>9, <1>l, <1>r DEF Closed, M, N
    <3>2. ExitOf(m, m.stream[k].id) \subseteq ExitOf(y, m.stream[k].id)
      BY <1>r DEF ExitOf, M
    <3>3. \A j \in 1 .. N : y.rstack[j].id = m.rstack[j].id
      BY <1>f DEF ToldFrame, SameFrame
    <3> QED BY <2>1, <3>1, <3>2, <3>3, <1>r
  <2>2. CASE \E a \in 1 .. q : k = M + a
    <3>1. PICK a \in 1 .. q : k = M + a
      BY <2>2
    <3>2. h[a] \in 1 .. N /\ y.stream[k].id = m.rstack[h[a]].id
      BY <3>1, <1>a, <1>h
    <3> QED BY <3>2, <1>f DEF ToldFrame, SameFrame
  <2> QED BY <2>1, <2>2, <1>r
<1>10. StreamInv(y, n, t, f, off)
  BY <1>1, <1>2, <1>3, <1>4, <1>5, <1>7 DEF StreamInv
<1> QED BY <1>s, <1>l, <1>6, <1>8, <1>9, <1>10 DEF Kept

\* record_trace_data() stores entries, and the exit if the call has ended and all of them fit.
LEMMA RecordKeeps ==
    ASSUME NEW m \in MtdType, NEW i \in 1 .. Len(m.rstack), NEW x, x = RecordTraceData(m, i),
           NEW n \in Nat, NEW t \in Nat, NEW f \in Nat, NEW off \in BOOLEAN,
           Growing(m, n), StreamInv(m, n, t, f, off)
    PROVE  \E y \in MtdType :
              /\ Kept(m, y, i, n, t, f, off)
              /\ \/ x = y /\ (x.losts = m.losts => m.rstack[i].end = 0)
                 \/ m.rstack[i].end > 0 /\ y.losts = m.losts /\ Exited(m, y, x, i)
<1>1. FromTheTop(m)
  BY DEF StreamInv
<1> DEFINE Outcomes(y) ==
              \/ x = y /\ (x.losts = m.losts => m.rstack[i].end = 0)
              \/ m.rstack[i].end > 0 /\ y.losts = m.losts /\ Exited(m, y, x, i)
<1>a. PICK q \in Nat : \E h \in [1 .. q -> 1 .. i] : \E y \in MtdType :
              Told(m, y, i, q, h) /\ SameRest(m, y) /\ Outcomes(y)
  BY <1>1, Recorded
<1>b. PICK h \in [1 .. q -> 1 .. i] : \E y \in MtdType :
              Told(m, y, i, q, h) /\ SameRest(m, y) /\ Outcomes(y)
  BY <1>a
<1>2. PICK y \in MtdType : Told(m, y, i, q, h) /\ SameRest(m, y) /\ Outcomes(y)
  BY <1>b
<1>3. m.rstack \in Seq(Frame) /\ m.stream \in Seq(Rec) /\ m.losts \in Nat
  BY DEF MtdType
<1>4. Kept(m, y, i, n, t, f, off)
  BY <1>2, <1>3, EntriesKeep
<1> QED BY <1>2, <1>4

\* While no call has ended there are no exits.
LEMMA FlushKeeps ==
    ASSUME NEW m \in MtdType, NEW i \in 1 .. Len(m.rstack), NEW x, x = RecordTraceData(m, i),
           NEW n \in Nat, NEW t \in Nat, NEW f \in Nat, NEW off \in BOOLEAN,
           Growing(m, n), StreamInv(m, n, t, f, off), m.rstack[i].end = 0
    PROVE  x \in MtdType /\ Kept(m, x, i, n, t, f, off)
<1>1. PICK y \in MtdType :
              /\ Kept(m, y, i, n, t, f, off)
              /\ \/ x = y /\ (x.losts = m.losts => m.rstack[i].end = 0)
                 \/ m.rstack[i].end > 0 /\ y.losts = m.losts /\ Exited(m, y, x, i)
  BY RecordKeeps
<1>2. x = y
  BY <1>1
<1> QED BY <1>1, <1>2

\* The frames without the top one
LEMMA FrontFacts ==
    ASSUME NEW T, NEW s \in Seq(T), Len(s) > 0
    PROVE  /\ Front(s) \in Seq(T) /\ Len(Front(s)) = Len(s) - 1
           /\ \A j \in 1 .. Len(s) - 1 : Front(s)[j] = s[j] /\ j \in 1 .. Len(s)
<1>1. PICK N \in Nat : N = Len(s)
  OBVIOUS
<1>2. s # << >> /\ N > 0
  BY <1>1
<1>3. Front(s) = [j \in 1 .. N - 1 |-> s[j]]
  BY <1>1, <1>2 DEF Front, SubSeq
<1>4. Front(s) \in [1 .. N - 1 -> T]
  BY <1>1, <1>3
<1>5. N - 1 \in Nat
  BY <1>2
<1>6. Front(s) \in Seq(T) /\ Len(Front(s)) = N - 1
  <2> HIDE DEF Front
  <2> QED BY <1>4, <1>5, SeqDef, LenProperties
<1> QED BY <1>1, <1>3, <1>6

\* z is x without its top frame; in y, the frames are the same.
Popped(y, x, z) ==
    /\ y \in MtdType /\ z \in MtdType /\ Len(y.rstack) > 0
    /\ z.rstack = Front(x.rstack) /\ z.stream = x.stream /\ z.losts = x.losts /\ z.warned = y.warned /\ z.over = y.over

\* A call that ends without an exit record.
LEMMA PopSilent ==
    ASSUME NEW y, NEW z, NEW n, NEW t, NEW f, NEW off, Popped(y, y, z), StreamInv(y, n, t, f, off),
           n \in Nat, t \in Nat, f \in Nat, off \in BOOLEAN
    PROVE  /\ StreamInv(z, n, t, f, off)
           /\ Closed(y, off) /\ (off \/ y.losts # 0 \/ EntryOf(y, y.rstack[Len(y.rstack)].id) = {}) => Closed(z, off)
<1> /\ y \in MtdType /\ z \in MtdType /\ Len(y.rstack) > 0
    /\ z.rstack = Front(y.rstack) /\ z.stream = y.stream /\ z.losts = y.losts /\ z.warned = y.warned /\ z.over = y.over
  BY DEF Popped
<1> DEFINE N == Len(y.rstack)
<1>1. /\ N \in Nat /\ N - 1 \in Nat /\ Len(z.rstack) = N - 1
      /\ \A j \in 1 .. N - 1 : z.rstack[j] = y.rstack[j] /\ j \in 1 .. N
  <2>1. y.rstack \in Seq(Frame)
    BY DEF MtdType
  <2>2. N \in Nat /\ N > 0
    BY <2>1
  <2> QED BY <2>1, <2>2, FrontFacts
<1> HIDE DEF N
<1>2. \A j \in 1 .. N : j \in 1 .. N - 1 \/ j = N
  BY <1>1
<1>3. \A j \in 1 .. N - 1 : \A i \in 1 .. j : i \in 1 .. N - 1
  BY <1>1
<1>4. \A j \in 1 .. N - 1 : \A i \in 1 .. j - 1 : i \in 1 .. N - 1
  BY <1>1
<1>5. FromTheTop(z)
  BY <1>1, <1>3 DEF StreamInv, FromTheTop, N
<1>6. Timely(z, t)
  BY <1>1, <1>4 DEF StreamInv, Timely, N
<1>7. OneOfEach(z, n)
  BY DEF StreamInv, OneOfEach
<1>8. FramesTold(z, f)
  <2>1. FramesTold(y, f)
    BY DEF StreamInv
  <2>2. \A fr : FrameTold(z, f, fr) <=> FrameTold(y, f, fr)
    BY DEF FrameTold, ExitOf, EntryOf
  <2> QED BY <2>1, <2>2, <1>1 DEF FramesTold, N
<1>9. Paired(z, f, off)
  <2>1. Paired(y, f, off)
    BY DEF StreamInv
  <2>2. ~off => \A j \in 1 .. N - 1 : "DISABLED" \notin z.rstack[j].flags
    BY <2>1, <1>1 DEF Paired, N
  <2> QED BY <2>1, <2>2, <1>1 DEF Paired
<1>10. Flushed(z)
  BY <1>1 DEF StreamInv, Flushed, AllWritten, N
<1>11. ASSUME Closed(y, off), off \/ y.losts # 0 \/ EntryOf(y, y.rstack[N].id) = {}
       PROVE  Closed(z, off)
  <2> SUFFICES ASSUME ~off, y.losts = 0, NEW k \in 1 .. Len(y.stream), y.stream[k].type = "ENTRY"
               PROVE  \/ \E j \in 1 .. N - 1 : z.rstack[j].id = y.stream[k].id
                      \/ ExitOf(z, y.stream[k].id) # {}
    BY <1>1 DEF Closed
  <2>1. y.rstack[N].id # y.stream[k].id
    BY <1>11 DEF EntryOf
  <2>2. \/ \E j \in 1 .. N : y.rstack[j].id = y.stream[k].id
        \/ ExitOf(y, y.stream[k].id) # {}
    BY <1>11 DEF Closed, N
  <2>3. ExitOf(z, y.stream[k].id) = ExitOf(y, y.stream[k].id)
    BY DEF ExitOf
  <2> QED BY <2>1, <2>2, <2>3, <1>1, <1>2
<1> QED BY <1>5, <1>6, <1>7, <1>8, <1>9, <1>10, <1>11 DEF StreamInv, N

\* Of the call that ends at t all entries have been written in y, and its exit in x.
PoppedExit(m, y, x, z, n, t) ==
    /\ m \in MtdType /\ SameFrames(m, y) /\ Growing(y, n) /\ AllWritten(y) /\ Exited(m, y, x, Len(m.rstack))
    /\ m.rstack[Len(m.rstack)].end = t /\ Recordable(m.rstack[Len(m.rstack)]) /\ Popped(y, x, z)

\* A call that ends with an exit record: then all entries are written.
LEMMA PopExit ==
    ASSUME NEW m, NEW y, NEW x, NEW z, NEW n, NEW t, NEW f, NEW off, PoppedExit(m, y, x, z, n, t),
           StreamInv(y, n, t, f, off), n \in Nat, t \in Nat, f \in Nat, off \in BOOLEAN
    PROVE  StreamInv(z, n, t, f, off) /\ (Closed(y, off) => Closed(z, off))
<1> /\ y \in MtdType /\ z \in MtdType /\ Len(y.rstack) > 0 /\ Len(m.rstack) > 0
    /\ z.rstack = Front(x.rstack) /\ z.stream = x.stream /\ z.losts = x.losts /\ z.warned = y.warned /\ z.over = y.over
    /\ m \in MtdType /\ SameFrames(m, y) /\ Growing(y, n) /\ AllWritten(y) /\ Exited(m, y, x, Len(m.rstack))
    /\ m.rstack[Len(m.rstack)].end = t /\ Recordable(m.rstack[Len(m.rstack)])
  BY DEF PoppedExit, Popped, SameFrames
<1> DEFINE N == Len(y.rstack)
           M == Len(y.stream)
           top == y.rstack[N]
<1>1. /\ N \in Nat /\ N - 1 \in Nat /\ N \in 1 .. N /\ N = Len(m.rstack) /\ Len(z.rstack) = N - 1
      /\ \A j \in 1 .. N - 1 : z.rstack[j] = y.rstack[j] /\ j \in 1 .. N /\ j # N
  <2>1. x.rstack \in Seq(Frame) /\ y.rstack \in Seq(Frame)
    BY DEF Exited, MtdType
  <2>2. N \in Nat /\ N > 0 /\ N = Len(m.rstack) /\ Len(x.rstack) = N
    BY <2>1 DEF SameFrames, Exited
  <2>3. Len(z.rstack) = N - 1 /\ \A j \in 1 .. N - 1 : z.rstack[j] = x.rstack[j]
    <3>1. Len(x.rstack) > 0
      BY <2>2
    <3>2. /\ Len(Front(x.rstack)) = Len(x.rstack) - 1
          /\ \A j \in 1 .. Len(x.rstack) - 1 : Front(x.rstack)[j] = x.rstack[j]
      BY <2>1, <3>1, FrontFacts
    <3> QED BY <3>2, <2>2
  <2>4. \A j \in 1 .. N - 1 : j \in 1 .. N /\ j # N
    BY <2>2
  <2>5. \A j \in 1 .. N - 1 : x.rstack[j] = y.rstack[j]
    BY <2>2, <2>4 DEF Exited
  <2>6. N - 1 \in Nat /\ N \in 1 .. N
    BY <2>2
  <2> HIDE DEF N
  <2> QED BY <2>2, <2>3, <2>4, <2>5, <2>6
<1>2. /\ M \in Nat /\ Len(z.stream) = M + 1
      /\ \A k \in 1 .. M : z.stream[k] = y.stream[k] /\ y.stream[k] \in Rec
      /\ \A k \in 1 .. M + 1 : k \in 1 .. M \/ k = M + 1
      /\ \A k \in 1 .. M : k \in 1 .. M + 1 /\ k # M + 1 /\ k <= M
      /\ M + 1 \in 1 .. M + 1
  <2>1. y.stream \in Seq(Rec)
    BY DEF MtdType
  <2> QED BY <2>1 DEF Exited
<1>3. z.stream[M + 1].type = "EXIT" /\ z.stream[M + 1].id = top.id /\ z.stream[M + 1].time = t
  <2>1. z.stream[M + 1] = Record("EXIT", m.rstack[N])
    BY <1>1 DEF Exited
  <2>2. SameFrame(m.rstack[N], top)
    BY <1>1 DEF SameFrames
  <2>3. m.rstack[N].end = t
    BY <1>1
  <2>4. z.stream[M + 1].type = "EXIT" /\ z.stream[M + 1].id = m.rstack[N].id /\ z.stream[M + 1].time = m.rstack[N].end
    BY <2>1, EntryFields
  <2> QED BY <2>2, <2>3, <2>4 DEF SameFrame
<1>4. StreamInv(y, n, t, f, off)
  OBVIOUS
<1> HIDE DEF N, M, top
<1>5. /\ top.id <= n /\ \A j \in 1 .. N - 1 : y.rstack[j].id # top.id
  <2>1. top.id \in Nat /\ \A j \in 1 .. N - 1 : y.rstack[j].id \in Nat
    <3>0. y.rstack \in Seq(Frame)
      BY DEF MtdType
    <3>1. \A j \in 1 .. N : y.rstack[j] \in Frame
      BY <3>0 DEF N
    <3>2. \A j \in 1 .. N : y.rstack[j].id \in 1 .. MaxCalls
      BY <3>1 DEF Frame
    <3>3. \A j \in 1 .. N : y.rstack[j].id \in Nat
      BY <3>2
    <3> QED BY <3>3, <1>1 DEF top
  <2>2. top.id <= n /\ \A j \in 1 .. N - 1 : y.rstack[j].id < top.id
    BY <1>1 DEF Growing, N, top
  <2>3. \A a, b \in Nat : a < b => a # b
    OBVIOUS
  <2> QED BY <2>1, <2>2, <2>3
<1>6. Recordable(top) /\ (Written(top) \/ Skipped(top))
  <2>1. SameFrame(m.rstack[N], top)
    BY <1>1 DEF SameFrames, top
  <2> QED BY <2>1, <1>1 DEF SameFrame, AllWritten, N, top
<1>7. \A j \in 1 .. N - 1 : \A i \in 1 .. j : i \in 1 .. N - 1
  BY <1>1
<1>8. FromTheTop(z)
  BY <1>1, <1>7, <1>4 DEF StreamInv, FromTheTop, N
<1>9. Timely(z, t)
  <2>0. Timely(y, t)
    BY <1>4 DEF StreamInv
  <2>1. \A k \in 1 .. M : y.stream[k].time <= t
    BY <2>0 DEF Timely, M
  <2>2. \A k \in 1 .. M + 1 : z.stream[k].time <= t
    BY <2>1, <1>2, <1>3
  <2>3. ASSUME NEW k \in 1 .. M + 1, NEW l \in 1 .. M + 1, k < l PROVE z.stream[k].time <= z.stream[l].time
    <3>1. CASE l = M + 1
      BY <3>1, <2>2, <1>3
    <3>2. CASE l \in 1 .. M
      <4>1. k \in 1 .. M
        BY <3>2, <2>3, <1>2
      <4> QED BY <4>1, <3>2, <2>3, <2>0, <1>2 DEF Timely, M
    <3> QED BY <3>1, <3>2, <1>2
  <2>4. ASSUME NEW j \in 1 .. N - 1, ~Skipped(z.rstack[j])
        PROVE  /\ z.rstack[j].start <= t
               /\ \A i \in 1 .. j - 1 : ~Skipped(z.rstack[i]) => z.rstack[i].start <= z.rstack[j].start
               /\ ~Written(z.rstack[j]) => \A k \in 1 .. M + 1 : z.stream[k].time <= z.rstack[j].start
    <3>1. Written(z.rstack[j])
      BY <2>4, <1>1 DEF AllWritten, N
    <3>2. \A i \in 1 .. j - 1 : i \in 1 .. N - 1
      BY <1>1
    <3> QED BY <3>1, <3>2, <2>4, <2>0, <1>1 DEF Timely, N
  <2> QED BY <2>2, <2>3, <2>4, <1>1, <1>2 DEF Timely
<1>10. ASSUME NEW k \in 1 .. M, y.stream[k].id = top.id PROVE y.stream[k].type = "ENTRY"
  <2>1. y.stream[k].type \in {"ENTRY", "EXIT"}
    BY <1>2 DEF Rec
  <2>2. ExitOf(y, top.id) = {}
    BY <1>1, <1>4 DEF StreamInv, FramesTold, FrameTold, N, top
  <2> QED BY <2>1, <2>2, <1>10 DEF ExitOf, M
<1>11. OneOfEach(z, n)
  <2>1. \A k \in 1 .. M + 1 : z.stream[k].id <= n
    BY <1>2, <1>3, <1>4, <1>5 DEF StreamInv, OneOfEach, M
  <2>2. ASSUME NEW k \in 1 .. M + 1, NEW l \in 1 .. M + 1,
               z.stream[k].id = z.stream[l].id, z.stream[k].type = z.stream[l].type
        PROVE  k = l
    <3>1. CASE k \in 1 .. M /\ l \in 1 .. M
      BY <3>1, <2>2, <1>2, <1>4 DEF StreamInv, OneOfEach, M
    <3>2. CASE k = M + 1 /\ l \in 1 .. M
      BY <3>2, <2>2, <1>2, <1>3, <1>10
    <3>3. CASE k \in 1 .. M /\ l = M + 1
      BY <3>3, <2>2, <1>2, <1>3, <1>10
    <3> QED BY <3>1, <3>2, <3>3, <1>2
  <2> QED BY <2>1, <2>2, <1>2 DEF OneOfEach
<1>12. FramesTold(z, f)
  <2> SUFFICES ASSUME NEW j \in 1 .. N - 1 PROVE FrameTold(z, f, y.rstack[j])
    BY <1>1 DEF FramesTold
  <2> DEFINE fr == y.rstack[j]
  <2>1. FrameTold(y, f, fr) /\ fr.id # top.id
    BY <1>1, <1>4, <1>5 DEF StreamInv, FramesTold, N
  <2> HIDE DEF fr
  <2>2. ExitOf(z, fr.id) = {}
    <3>1. ASSUME NEW k \in 1 .. M + 1, z.stream[k].type = "EXIT", z.stream[k].id = fr.id PROVE FALSE
      <4>1. k \in 1 .. M /\ z.stream[k] = y.stream[k]
        BY <3>1, <2>1, <1>2, <1>3
      <4> QED BY <4>1, <3>1, <2>1 DEF FrameTold, ExitOf, M
    <3> QED BY <3>1, <1>2 DEF ExitOf
  <2>3. EntryOf(z, fr.id) # {} => EntryOf(y, fr.id) # {}
    BY <1>2, <1>3 DEF EntryOf, M
  <2>4. ASSUME Written(fr), ~Skipped(fr), fr.id > f
        PROVE  \E k \in 1 .. Len(z.stream) :
             /\ z.stream[k].type = "ENTRY" /\ z.stream[k].id = fr.id /\ z.stream[k].depth = fr.depth
             /\ \A l \in 1 .. Len(z.stream) : z.stream[l].type = "ENTRY" /\ z.stream[l].depth = fr.depth => l <= k
    <3>1. PICK k \in 1 .. M :
             /\ y.stream[k].type = "ENTRY" /\ y.stream[k].id = fr.id /\ y.stream[k].depth = fr.depth
             /\ \A l \in 1 .. M : y.stream[l].type = "ENTRY" /\ y.stream[l].depth = fr.depth => l <= k
      BY <2>1, <2>4 DEF FrameTold, M
    <3>2. ASSUME NEW l \in 1 .. M + 1, z.stream[l].type = "ENTRY", z.stream[l].depth = fr.depth PROVE l <= k
      <4>1. l \in 1 .. M
        BY <3>2, <1>2, <1>3
      <4> QED BY <4>1, <3>1, <3>2, <1>2
    <3> QED BY <3>1, <3>2, <1>2
  <2>5. FrameTold(z, f, fr)
    BY <2>1, <2>2, <2>3, <2>4 DEF FrameTold
  <2> QED BY <2>5 DEF fr
<1>13. Paired(z, f, off)
  <2>1. Paired(y, f, off)
    BY <1>4 DEF StreamInv
  <2>2. ~off => \A j \in 1 .. N - 1 : "DISABLED" \notin z.rstack[j].flags
    BY <2>1, <1>1 DEF Paired, N
  <2>3. ASSUME ~off, NEW k \in 1 .. M + 1, z.stream[k].type = "EXIT", z.stream[k].id > f
        PROVE  \E l \in 1 .. k : z.stream[l].type = "ENTRY" /\ z.stream[l].id = z.stream[k].id
    <3>1. CASE k \in 1 .. M
      <4>1. PICK l \in 1 .. k : y.stream[l].type = "ENTRY" /\ y.stream[l].id = y.stream[k].id
        BY <3>1, <2>1, <2>3, <1>2 DEF Paired, M
      <4>2. l \in 1 .. M
        BY <3>1, <1>2
      <4> QED BY <3>1, <4>1, <4>2, <1>2
    <3>2. CASE k = M + 1
      <4>1. "DISABLED" \notin top.flags
        BY <2>1, <2>3, <1>1 DEF Paired, N, top
      <4>2. ~Skipped(top)
        BY <4>1, <1>6 DEF Skipped, Recordable
      <4>3. top.id > f
        BY <3>2, <2>3, <1>3
      <4>4. FrameTold(y, f, top)
        BY <1>1, <1>4 DEF StreamInv, FramesTold, N, top
      <4>5. PICK l \in 1 .. M : y.stream[l].type = "ENTRY" /\ y.stream[l].id = top.id
        BY <4>2, <4>3, <4>4, <1>6 DEF FrameTold, M
      <4> QED BY <3>2, <4>5, <1>2, <1>3
    <3> QED BY <3>1, <3>2, <1>2
  <2> QED BY <2>2, <2>3, <1>1, <1>2 DEF Paired
<1>14. Flushed(z)
  <2>1. AllWritten(z)
    BY <1>1 DEF AllWritten, N
  <2> QED BY <2>1, <1>4 DEF StreamInv, Flushed
<1>15. ASSUME Closed(y, off) PROVE Closed(z, off)
  <2> SUFFICES ASSUME ~off, y.losts = 0, NEW k \in 1 .. M + 1, z.stream[k].type = "ENTRY"
               PROVE  \/ \E j \in 1 .. N - 1 : z.rstack[j].id = z.stream[k].id
                      \/ ExitOf(z, z.stream[k].id) # {}
    <3>1. z.losts = y.losts
      BY DEF Exited
    <3> QED BY <3>1, <1>1, <1>2 DEF Closed
  <2>1. k \in 1 .. M /\ z.stream[k] = y.stream[k]
    BY <1>2, <1>3
  <2>2. \/ \E j \in 1 .. N : y.rstack[j].id = y.stream[k].id
        \/ ExitOf(y, y.stream[k].id) # {}
    BY <2>1, <1>15 DEF Closed, N, M
  <2>3. ExitOf(y, y.stream[k].id) \subseteq ExitOf(z, y.stream[k].id)
    BY <1>2 DEF ExitOf, M
  <2>4. y.stream[k].id = top.id => M + 1 \in ExitOf(z, y.stream[k].id)
    BY <1>2, <1>3 DEF ExitOf
  <2>5. \A j \in 1 .. N : j \in 1 .. N - 1 \/ j = N
    BY <1>1
  <2> QED BY <2>1, <2>2, <2>3, <2>4, <2>5, <1>1 DEF top
<1> QED BY <1>8, <1>9, <1>11, <1>12, <1>13, <1>14, <1>15 DEF StreamInv

\* Appending
LEMMA PushFacts ==
    ASSUME NEW T, NEW s \in Seq(T), NEW e \in T
    PROVE  /\ Append(s, e) \in Seq(T) /\ Len(Append(s, e)) = Len(s) + 1 /\ Len(s) \in Nat
           /\ Append(s, e)[Len(s) + 1] = e
           /\ \A j \in 1 .. Len(s) : Append(s, e)[j] = s[j]
           /\ \A j \in 1 .. Len(s) + 1 : j \in 1 .. Len(s) \/ j = Len(s) + 1
           /\ \A j \in 1 .. Len(s) : j \in 1 .. Len(s) + 1
           /\ Len(s) + 1 \in 1 .. Len(s) + 1
  BY AppendProperties

\* Time passed, calls were made, and tracing may have been off.
Later(n, t, off, n2, t2, off2) ==
    /\ n \in Nat /\ n2 \in Nat /\ n <= n2 /\ t \in Nat /\ t2 \in Nat /\ t <= t2
    /\ off \in BOOLEAN /\ off2 \in BOOLEAN /\ (off => off2)

\* The stream says as much when time passes and calls are made that are not recorded.
LEMMA StreamStays ==
    ASSUME NEW m, NEW z, NEW n, NEW t, NEW f, NEW off, NEW n2, NEW t2, NEW off2, Later(n, t, off, n2, t2, off2),
           m \in MtdType, StreamInv(m, n, t, f, off), z.rstack = m.rstack, z.stream = m.stream, z.losts = m.losts, Flushed(z)
    PROVE  StreamInv(z, n2, t2, f, off2) /\ (Closed(m, off) => Closed(z, off2))
<1> /\ n \in Nat /\ n2 \in Nat /\ n <= n2 /\ t \in Nat /\ t2 \in Nat /\ t <= t2
    /\ off \in BOOLEAN /\ off2 \in BOOLEAN /\ (off => off2)
  BY DEF Later
<1>0. m.rstack \in Seq(Frame) /\ m.stream \in Seq(Rec)
  BY DEF MtdType
<1>1. FromTheTop(z)
  BY DEF StreamInv, FromTheTop
<1>2. Timely(z, t2)
  <2>1. \A k \in 1 .. Len(m.stream) : m.stream[k].time \in Nat
    <3>1. \A k \in 1 .. Len(m.stream) : m.stream[k] \in Rec
      BY <1>0
    <3> QED BY <3>1 DEF Rec
  <2>2. \A j \in 1 .. Len(m.rstack) : m.rstack[j].start \in Nat
    <3>1. \A j \in 1 .. Len(m.rstack) : m.rstack[j] \in Frame
      BY <1>0
    <3> QED BY <3>1 DEF Frame
  <2>3. \A a \in Nat : a <= t => a <= t2
    OBVIOUS
  <2> QED BY <2>1, <2>2, <2>3 DEF StreamInv, Timely
<1>3. OneOfEach(z, n2)
  <2>1. \A k \in 1 .. Len(m.stream) : m.stream[k].id \in Nat
    <3>1. \A k \in 1 .. Len(m.stream) : m.stream[k] \in Rec
      BY <1>0
    <3>2. \A k \in 1 .. Len(m.stream) : m.stream[k].id \in 1 .. MaxCalls
      BY <3>1 DEF Rec
    <3> QED BY <3>2
  <2>2. \A a \in Nat : a <= n => a <= n2
    OBVIOUS
  <2> QED BY <2>1, <2>2 DEF StreamInv, OneOfEach
<1>4. FramesTold(z, f)
  BY DEF StreamInv, FramesTold, FrameTold, ExitOf, EntryOf
<1>5. Paired(z, f, off2)
  BY DEF StreamInv, Paired
<1>6. Closed(m, off) => Closed(z, off2)
  BY DEF Closed, ExitOf
<1> QED BY <1>1, <1>2, <1>3, <1>4, <1>5, <1>6 DEF StreamInv

\* What is said of the stream is said of these fields.
LEMMA StreamSame ==
    ASSUME NEW m, NEW z, NEW n, NEW t, NEW f, NEW off, StreamInv(m, n, t, f, off),
           z.rstack = m.rstack, z.stream = m.stream, z.losts = m.losts, Flushed(z)
    PROVE  StreamInv(z, n, t, f, off) /\ (Closed(m, off) => Closed(z, off))
<1>1. FromTheTop(z) /\ Timely(z, t) /\ OneOfEach(z, n)
  BY DEF StreamInv, FromTheTop, Timely, OneOfEach
<1>2. FramesTold(z, f)
  <2>1. \A fr : FrameTold(m, f, fr) <=> FrameTold(z, f, fr)
    BY DEF FrameTold, ExitOf, EntryOf
  <2> QED BY <2>1 DEF StreamInv, FramesTold
<1>3. Paired(z, f, off) /\ (Closed(m, off) => Closed(z, off))
  BY DEF StreamInv, Paired, Closed, ExitOf
<1> QED BY <1>1, <1>2, <1>3 DEF StreamInv

\* mtd_dtor() leaves the stream.
LEMMA StreamOutlives ==
    ASSUME NEW m \in MtdType, NEW z \in MtdType, NEW n \in Nat, NEW t \in Nat, NEW f \in Nat, NEW off \in BOOLEAN,
           StreamInv(m, n, t, f, off), z.rstack = << >>, z.over = 0, z.stream = m.stream
    PROVE  StreamInv(z, n, t, f, off)
<1>1. Len(z.rstack) = 0 /\ 1 .. 0 = {}
  OBVIOUS
<1>2. FromTheTop(z) /\ FramesTold(z, f) /\ Flushed(z)
  BY <1>1 DEF FromTheTop, FramesTold, Flushed, AllWritten
<1>3. Timely(z, t)
  BY <1>1 DEF StreamInv, Timely
<1>4. OneOfEach(z, n)
  BY DEF StreamInv, OneOfEach
<1>5. Paired(z, f, off)
  BY <1>1 DEF StreamInv, Paired
<1> QED BY <1>2, <1>3, <1>4, <1>5 DEF StreamInv

\* z is m with a new frame, of call n + 1 at t2.
Begun(m, z, fr, n, t2, off2) ==
    /\ z \in MtdType /\ t2 \in Nat /\ off2 \in BOOLEAN
    /\ fr \in Frame /\ fr.id = n + 1 /\ ~Written(fr) /\ (~Skipped(fr) => fr.start = t2) /\ ("DISABLED" \in fr.flags => off2)
    /\ z.rstack = Append(m.rstack, fr) /\ z.stream = m.stream /\ z.losts = m.losts /\ ~z.warned /\ z.over = 0

\* A new frame has no record yet, and began after all that was recorded.
LEMMA StreamPushed ==
    ASSUME NEW m, NEW z, NEW fr, NEW n, NEW t, NEW t2, NEW f, NEW off, NEW off2,
           Begun(m, z, fr, n, t2, off2), m \in MtdType, n \in Nat, t \in Nat, f \in 0 .. n, off \in BOOLEAN,
           t <= t2, off => off2, StreamInv(m, n, t, f, off)
    PROVE  StreamInv(z, n + 1, t2, f, off2) /\ (Closed(m, off) => Closed(z, off2))
<1> /\ z \in MtdType /\ t2 \in Nat /\ off2 \in BOOLEAN
    /\ fr \in Frame /\ fr.id = n + 1 /\ ~Written(fr) /\ (~Skipped(fr) => fr.start = t2) /\ ("DISABLED" \in fr.flags => off2)
    /\ z.rstack = Append(m.rstack, fr) /\ z.stream = m.stream /\ z.losts = m.losts /\ ~z.warned /\ z.over = 0
  BY DEF Begun
<1> DEFINE N == Len(m.rstack)
           M == Len(m.stream)
<1>t. m.rstack \in Seq(Frame) /\ m.stream \in Seq(Rec)
  BY DEF MtdType
<1>1. /\ N \in Nat /\ Len(z.rstack) = N + 1 /\ z.rstack[N + 1] = fr
      /\ \A j \in 1 .. N : z.rstack[j] = m.rstack[j] /\ j \in 1 .. N + 1
      /\ \A j \in 1 .. N + 1 : j \in 1 .. N \/ j = N + 1
      /\ N + 1 \in 1 .. N + 1
  BY <1>t, PushFacts
<1>2. M \in Nat /\ \A k \in 1 .. M : m.stream[k].time \in Nat /\ m.stream[k].id \in Nat
  <2>1. M \in Nat /\ \A k \in 1 .. M : m.stream[k] \in Rec
    BY <1>t
  <2>2. \A k \in 1 .. M : m.stream[k].time \in Nat /\ m.stream[k].id \in 1 .. MaxCalls
    BY <2>1 DEF Rec
  <2> QED BY <2>1, <2>2
<1>3. \A j \in 1 .. N : m.rstack[j].start \in Nat
  <2>1. \A j \in 1 .. N : m.rstack[j] \in Frame
    BY <1>t
  <2> QED BY <2>1 DEF Frame
<1> HIDE DEF N, M
<1>4. FromTheTop(z)
  <2>1. ASSUME NEW j \in 1 .. N, NEW i \in 1 .. j, Written(m.rstack[j]) PROVE Written(m.rstack[i]) \/ Skipped(m.rstack[i])
    BY <2>1 DEF StreamInv, FromTheTop, N
  <2>2. \A j \in 1 .. N : \A i \in 1 .. j : i \in 1 .. N
    BY <1>1
  <2> QED BY <2>1, <2>2, <1>1 DEF FromTheTop
<1>5. Timely(z, t2)
  <2>0. Timely(m, t)
    BY DEF StreamInv
  <2>1. \A a \in Nat : a <= t => a <= t2
    OBVIOUS
  <2>2. \A k \in 1 .. M : m.stream[k].time <= t2
    BY <2>0, <2>1, <1>2 DEF Timely, M
  <2>3. ASSUME NEW j \in 1 .. N, ~Skipped(z.rstack[j])
        PROVE  /\ z.rstack[j].start <= t2
               /\ \A i \in 1 .. j - 1 : ~Skipped(z.rstack[i]) => z.rstack[i].start <= z.rstack[j].start
               /\ ~Written(z.rstack[j]) => \A k \in 1 .. M : m.stream[k].time <= z.rstack[j].start
    <3>1. \A i \in 1 .. j - 1 : i \in 1 .. N
      BY <1>1
    <3>2. m.rstack[j].start <= t
      BY <2>0, <2>3, <1>1 DEF Timely, N
    <3> QED BY <3>1, <3>2, <2>0, <2>1, <2>3, <1>1, <1>3 DEF Timely, N, M
  <2>4. ASSUME ~Skipped(fr)
        PROVE  /\ fr.start <= t2
               /\ \A i \in 1 .. N : ~Skipped(z.rstack[i]) => z.rstack[i].start <= fr.start
               /\ \A k \in 1 .. M : m.stream[k].time <= fr.start
    <3>1. fr.start = t2
      BY <2>4
    <3>2. \A i \in 1 .. N : ~Skipped(z.rstack[i]) => z.rstack[i].start <= t2
      BY <2>3
    <3>3. t2 <= t2
      OBVIOUS
    <3> QED BY <2>2, <3>1, <3>2, <3>3, Zenon
  <2>5. N + 1 - 1 = N
    BY <1>1
  <2>6. \A k, l \in 1 .. M : k < l => m.stream[k].time <= m.stream[l].time
    BY <2>0 DEF Timely, M
  <2>7. \A j \in 1 .. N + 1 : ~Skipped(z.rstack[j]) =>
          /\ z.rstack[j].start <= t2
          /\ \A i \in 1 .. j - 1 : ~Skipped(z.rstack[i]) => z.rstack[i].start <= z.rstack[j].start
          /\ ~Written(z.rstack[j]) => \A k \in 1 .. M : m.stream[k].time <= z.rstack[j].start
    <3> TAKE j \in 1 .. N + 1
    <3>1. CASE j \in 1 .. N
      BY <3>1, <2>3
    <3>2. CASE j = N + 1
      BY <3>2, <2>4, <2>5, <1>1
    <3> QED BY <3>1, <3>2, <1>1
  <2> QED BY <2>2, <2>6, <2>7, <1>1 DEF Timely, M
<1>6. \A k \in 1 .. M : m.stream[k].id <= n /\ m.stream[k].id # n + 1
  <2>1. \A k \in 1 .. M : m.stream[k].id <= n
    BY DEF StreamInv, OneOfEach, M
  <2>2. \A a \in Nat : a <= n => a # n + 1
    OBVIOUS
  <2> QED BY <2>1, <2>2, <1>2
<1>7. OneOfEach(z, n + 1)
  <2>1. \A a \in Nat : a <= n => a <= n + 1
    OBVIOUS
  <2>2. \A k \in 1 .. M : m.stream[k].id <= n + 1
    BY <2>1, <1>2, <1>6
  <2> QED BY <2>2 DEF StreamInv, OneOfEach, M
<1>8. FramesTold(z, f)
  <2>1. \A g : FrameTold(m, f, g) => FrameTold(z, f, g)
    BY DEF FrameTold, ExitOf, EntryOf
  <2>2. FrameTold(z, f, fr)
    <3>1. ExitOf(z, n + 1) = {} /\ EntryOf(z, n + 1) = {}
      BY <1>6 DEF ExitOf, EntryOf, M
    <3>2. ~(n + 1 <= f)
      OBVIOUS
    <3> QED BY <3>1, <3>2 DEF FrameTold
  <2>3. \A j \in 1 .. N : FrameTold(z, f, m.rstack[j])
    BY <2>1 DEF StreamInv, FramesTold, N
  <2> QED BY <2>2, <2>3, <1>1 DEF FramesTold
<1>9. Paired(z, f, off2)
  <2>1. Paired(m, f, off)
    BY DEF StreamInv
  <2>2. ~off2 => \A j \in 1 .. Len(z.rstack) : "DISABLED" \notin z.rstack[j].flags
    BY <2>1, <1>1 DEF Paired, N
  <2>3. ~off2 => \A k \in 1 .. Len(z.stream) : z.stream[k].type = "EXIT" /\ z.stream[k].id > f =>
                    \E l \in 1 .. k : z.stream[l].type = "ENTRY" /\ z.stream[l].id = z.stream[k].id
    BY <2>1 DEF Paired
  <2> QED BY <2>2, <2>3 DEF Paired
<1>10. Flushed(z)
  BY DEF Flushed
<1>11. ASSUME Closed(m, off) PROVE Closed(z, off2)
  <2> SUFFICES ASSUME ~off2, z.losts = 0, NEW k \in 1 .. Len(z.stream), z.stream[k].type = "ENTRY"
               PROVE  \/ \E j \in 1 .. Len(z.rstack) : z.rstack[j].id = z.stream[k].id
                      \/ ExitOf(z, z.stream[k].id) # {}
    BY DEF Closed
  <2>1. \/ \E j \in 1 .. N : m.rstack[j].id = m.stream[k].id
        \/ ExitOf(m, m.stream[k].id) # {}
    BY <1>11 DEF Closed, N, M
  <2>2. ExitOf(z, m.stream[k].id) = ExitOf(m, m.stream[k].id)
    BY DEF ExitOf
  <2> QED BY <2>1, <2>2, <1>1
<1>12. StreamInv(z, n + 1, t2, f, off2)
  BY <1>4, <1>5, <1>7, <1>8, <1>9, <1>10 DEF StreamInv
<1> QED BY <1>11, <1>12

-----------------------------------------------------------------------------
(* The stack *)

Calls == [fn : Functions, hooked : BOOLEAN]

\* b is a with the call e on top: it adds itself to those whose exit is seen, or not,
\* and keeps the place of the others.
Deeper(a, e, b) ==
    /\ a \in Seq(Calls) /\ b \in Seq(Calls) /\ Len(b) = Len(a) + 1 /\ b[Len(a) + 1] = e
    /\ Cardinality(Hooks(a)) \in Nat
    /\ Cardinality(Hooks(b)) = IF e.hooked THEN Cardinality(Hooks(a)) + 1 ELSE Cardinality(Hooks(a))
    /\ \A k \in Hooks(b) : k \in Hooks(a) \/ (k = Len(a) + 1 /\ e.hooked)
    /\ \A k \in Hooks(a) : /\ k \in Hooks(b) /\ b[k] = a[k] /\ Rank(b, k) = Rank(a, k)
                           /\ Rank(a, k) \in 1 .. Cardinality(Hooks(a))
    /\ e.hooked => Rank(b, Len(a) + 1) = Cardinality(Hooks(b)) /\ Len(a) + 1 \in Hooks(b)

\* The ranks of the calls whose exit is seen are the indices of their frames.
LEMMA RankType ==
    ASSUME NEW a \in Seq(Calls), NEW k \in Hooks(a)
    PROVE  /\ k \in 1 .. Len(a) /\ Cardinality(Hooks(a)) \in Nat
           /\ Rank(a, k) \in 1 .. Cardinality(Hooks(a))
<1> DEFINE S == {h \in Hooks(a) : h <= k}
<1>1. Len(a) \in Nat /\ Hooks(a) \in SUBSET (1 .. Len(a))
  BY DEF Hooks
<1>2. k \in 1 .. Len(a) /\ S \in SUBSET Hooks(a) /\ k \in S
  BY <1>1
<1> HIDE DEF S
<1>3. IsFiniteSet(Hooks(a)) /\ Cardinality(Hooks(a)) \in Nat
  BY <1>1, CardFacts
<1>4. S \in SUBSET (1 .. Len(a))
  BY <1>1, <1>2
<1>5. Cardinality(S) \in Nat /\ IsFiniteSet(S)
  BY <1>1, <1>4, CardFacts
<1>6. Cardinality(S) # 0 /\ Cardinality(S) <= Cardinality(Hooks(a))
  BY <1>2, <1>3, <1>5, FS_EmptySet, FS_Subset
<1>7. Cardinality(S) \in 1 .. Cardinality(Hooks(a))
  BY <1>3, <1>5, <1>6
<1> QED BY <1>2, <1>3, <1>7 DEF Rank, S

\* A call that begins has the next rank, and no other call changes its own.
LEMMA HooksPushed ==
    ASSUME NEW a \in Seq(Calls), NEW e \in Calls
    PROVE  Deeper(a, e, Append(a, e))
<1> DEFINE b == Append(a, e)
           n == Len(a)
<1>1. /\ b \in Seq(Calls) /\ n \in Nat /\ Len(b) = n + 1 /\ b[n + 1] = e
      /\ \A k \in 1 .. n : b[k] = a[k]
  BY PushFacts
<1> HIDE DEF b
<1>2. Hooks(a) \in SUBSET (1 .. n)
  BY DEF Hooks
<1> HIDE DEF n
<1>3. Hooks(b) = Hooks(a) \cup (IF e.hooked THEN {n + 1} ELSE {})
  <2>1. ASSUME NEW k PROVE k \in Hooks(b) <=> k \in Hooks(a) \/ (k = n + 1 /\ e.hooked)
    <3>1. k \in 1 .. n + 1 <=> k \in 1 .. n \/ k = n + 1
      BY <1>1
    <3>2. n + 1 \notin 1 .. n
      BY <1>1
    <3> QED BY <3>1, <3>2, <1>1 DEF Hooks, n
  <2> QED BY <2>1
<1>4. /\ IsFiniteSet(Hooks(a)) /\ Cardinality(Hooks(a)) \in Nat
      /\ Cardinality(Hooks(a) \cup {n + 1}) = Cardinality(Hooks(a)) + 1
  BY <1>1, <1>2, CardFacts
<1>5. Cardinality(Hooks(b)) = IF e.hooked THEN Cardinality(Hooks(a)) + 1 ELSE Cardinality(Hooks(a))
  <2>1. CASE e.hooked
    BY <2>1, <1>3, <1>4
  <2>2. CASE ~e.hooked
    <3>1. Hooks(b) = Hooks(a)
      BY <2>2, <1>3
    <3> QED BY <2>2, <3>1
  <2> QED BY <2>1, <2>2
<1>6. ASSUME NEW k \in Hooks(a)
      PROVE  /\ k \in Hooks(b) /\ b[k] = a[k] /\ Rank(b, k) = Rank(a, k)
             /\ Rank(a, k) \in 1 .. Cardinality(Hooks(a))
  <2>1. k \in 1 .. n
    BY <1>2
  <2>2. {h \in Hooks(b) : h <= k} = {h \in Hooks(a) : h <= k}
    <3>1. ~(n + 1 <= k)
      BY <2>1, <1>1
    <3> QED BY <3>1, <1>3
  <2>5. Rank(a, k) \in 1 .. Cardinality(Hooks(a))
    BY RankType
  <2> QED BY <2>1, <2>2, <2>5, <1>1, <1>3 DEF Rank
<1>7. ASSUME e.hooked PROVE Rank(b, n + 1) = Cardinality(Hooks(b))
  <2>1. {h \in Hooks(b) : h <= n + 1} = Hooks(b)
    <3>1. \A h \in Hooks(b) : h <= n + 1
      <4> TAKE h \in Hooks(b)
      <4>1. h \in 1 .. n \/ h = n + 1
        BY <1>2, <1>3
      <4> QED BY <4>1, <1>1
    <3> QED BY <3>1
  <2> QED BY <2>1 DEF Rank
<1>8. \A k \in Hooks(b) : k \in Hooks(a) \/ (k = n + 1 /\ e.hooked)
  BY <1>3
<1>9. e.hooked => n + 1 \in Hooks(b)
  BY <1>3
<1> QED BY <1>1, <1>4, <1>5, <1>6, <1>7, <1>8, <1>9 DEF b, n, Deeper

\* A return undoes the call.
LEMMA HooksPopped ==
    ASSUME NEW a \in Seq(Calls), Len(a) > 0
    PROVE  Deeper(Front(a), a[Len(a)], a) /\ a[Len(a)] \in Calls
<1> DEFINE b == Front(a)
           e == a[Len(a)]
<1>1. b \in Seq(Calls) /\ Len(b) = Len(a) - 1 /\ e \in Calls /\ \A k \in 1 .. Len(a) - 1 : b[k] = a[k]
  <2>1. Len(a) \in 1 .. Len(a)
    OBVIOUS
  <2> QED BY <2>1, FrontFacts
<1>2. a = Append(b, e)
  <2>1. Append(b, e) \in Seq(Calls) /\ Len(Append(b, e)) = Len(a)
    BY <1>1, PushFacts
  <2>2. \A k \in 1 .. Len(a) : Append(b, e)[k] = a[k]
    <3> TAKE k \in 1 .. Len(a)
    <3>1. CASE k \in 1 .. Len(b)
      <4>1. Append(b, e)[k] = b[k]
        BY <3>1, <1>1, PushFacts
      <4> QED BY <3>1, <4>1, <1>1
    <3>2. CASE k = Len(b) + 1
      <4>1. k = Len(a)
        BY <3>2, <1>1
      <4> QED BY <3>2, <4>1, <1>1, PushFacts
    <3>3. k \in 1 .. Len(b) \/ k = Len(b) + 1
      BY <1>1
    <3> QED BY <3>1, <3>2, <3>3
  <2> QED BY <2>1, <2>2, SeqEqual
<1> HIDE DEF b, e
<1>3. Deeper(b, e, a)
  BY <1>1, <1>2, HooksPushed
<1> QED BY <1>1, <1>3 DEF b, e

\* How many frames have a flag, and how many are recorded, after a call and after a return
CountsPushed(s, fr, z) ==
    /\ \A x : /\ Cardinality(Flagged(s, x)) \in Nat
              /\ Cardinality(Flagged(z, x)) = IF x \in fr.flags THEN Cardinality(Flagged(s, x)) + 1 ELSE Cardinality(Flagged(s, x))
    /\ Cardinality(RecordableAt(s)) \in Nat
    /\ Cardinality(RecordableAt(z)) = IF Recordable(fr) THEN Cardinality(RecordableAt(s)) + 1 ELSE Cardinality(RecordableAt(s))

CountsPopped(s, fr, z) ==
    /\ \A x : /\ Cardinality(Flagged(s, x)) \in Nat
              /\ Cardinality(Flagged(z, x)) = IF x \in fr.flags THEN Cardinality(Flagged(s, x)) - 1 ELSE Cardinality(Flagged(s, x))
              /\ x \in fr.flags => Cardinality(Flagged(s, x)) > 0
    /\ Cardinality(RecordableAt(s)) \in Nat
    /\ Cardinality(RecordableAt(z)) = IF Recordable(fr) THEN Cardinality(RecordableAt(s)) - 1 ELSE Cardinality(RecordableAt(s))
    /\ Recordable(fr) => Cardinality(RecordableAt(s)) > 0

\* A new frame is counted by each of the counters that its flags name.
LEMMA PushCounts ==
    ASSUME NEW s \in Seq(Frame), NEW fr \in Frame
    PROVE  CountsPushed(s, fr, Append(s, fr))
<1> DEFINE z == Append(s, fr)
           n == Len(s)
<1>1. /\ n \in Nat /\ Len(z) = n + 1 /\ z[n + 1] = fr /\ \A k \in 1 .. n : z[k] = s[k]
      /\ \A k : k \in 1 .. n + 1 <=> k \in 1 .. n \/ k = n + 1
  BY PushFacts
<1> HIDE DEF z, n
<1>2. ASSUME NEW x
      PROVE  /\ Cardinality(Flagged(s, x)) \in Nat
             /\ Cardinality(Flagged(z, x)) = IF x \in fr.flags THEN Cardinality(Flagged(s, x)) + 1 ELSE Cardinality(Flagged(s, x))
  <2>1. Flagged(s, x) \in SUBSET (1 .. n)
    BY DEF Flagged, n
  <2>2. CASE x \in fr.flags
    <3>0. Cardinality(Flagged(s, x)) \in Nat /\ Cardinality(Flagged(s, x) \cup {n + 1}) = Cardinality(Flagged(s, x)) + 1
      BY <2>1, <1>1, CardFacts
    <3>1. Flagged(z, x) = Flagged(s, x) \cup {n + 1}
      BY <2>2, <1>1 DEF Flagged, n
    <3> QED BY <3>0, <3>1, <2>2
  <2>3. CASE x \notin fr.flags
    <3>1. Flagged(z, x) = Flagged(s, x)
      BY <2>3, <1>1 DEF Flagged, n
    <3> QED BY <3>1, <2>1, <2>3, <1>1, CardFacts
  <2> QED BY <2>2, <2>3
<1>3. /\ Cardinality(RecordableAt(s)) \in Nat
      /\ Cardinality(RecordableAt(z)) = IF Recordable(fr) THEN Cardinality(RecordableAt(s)) + 1 ELSE Cardinality(RecordableAt(s))
  <2>1. RecordableAt(s) \in SUBSET (1 .. n)
    BY DEF RecordableAt, n
  <2>2. CASE Recordable(fr)
    <3>0. Cardinality(RecordableAt(s)) \in Nat /\ Cardinality(RecordableAt(s) \cup {n + 1}) = Cardinality(RecordableAt(s)) + 1
      BY <2>1, <1>1, CardFacts
    <3>1. RecordableAt(z) = RecordableAt(s) \cup {n + 1}
      BY <2>2, <1>1 DEF RecordableAt, n
    <3> QED BY <3>0, <3>1, <2>2
  <2>3. CASE ~Recordable(fr)
    <3>1. RecordableAt(z) = RecordableAt(s)
      BY <2>3, <1>1 DEF RecordableAt, n
    <3> QED BY <3>1, <2>1, <2>3, <1>1, CardFacts
  <2> QED BY <2>2, <2>3
<1> QED BY <1>2, <1>3 DEF CountsPushed, z

\* The top frame is no longer counted once it has gone.
LEMMA PopCounts ==
    ASSUME NEW s \in Seq(Frame), Len(s) > 0
    PROVE  CountsPopped(s, s[Len(s)], Front(s))
<1> DEFINE z == Front(s)
           n == Len(s)
           fr == s[n]
<1>1. /\ n \in Nat /\ n > 0 /\ Len(z) = n - 1 /\ \A k \in 1 .. n - 1 : z[k] = s[k]
      /\ \A k : k \in 1 .. n - 1 <=> k \in 1 .. n /\ k # n
      /\ n \in 1 .. n
  BY FrontFacts
<1> HIDE DEF z, n
<1>2. ASSUME NEW x
      PROVE  /\ Cardinality(Flagged(s, x)) \in Nat
             /\ Cardinality(Flagged(z, x)) = IF x \in fr.flags THEN Cardinality(Flagged(s, x)) - 1 ELSE Cardinality(Flagged(s, x))
             /\ x \in fr.flags => Cardinality(Flagged(s, x)) > 0
  <2>1. Flagged(s, x) \in SUBSET (1 .. n)
    BY DEF Flagged, n
  <2>2. Flagged(z, x) = Flagged(s, x) \ {n}
    BY <1>1 DEF Flagged, n
  <2>4. /\ Cardinality(Flagged(s, x)) \in Nat /\ (n \in Flagged(s, x) => Cardinality(Flagged(s, x)) > 0)
        /\ Cardinality(Flagged(s, x) \ {n}) = IF n \in Flagged(s, x) THEN Cardinality(Flagged(s, x)) - 1 ELSE Cardinality(Flagged(s, x))
    BY <2>1, <1>1, CardFacts
  <2>3. n \in Flagged(s, x) <=> x \in fr.flags
    BY <1>1 DEF Flagged, n
  <2> QED BY <2>2, <2>3, <2>4
<1>3. /\ Cardinality(RecordableAt(s)) \in Nat
      /\ Cardinality(RecordableAt(z)) = IF Recordable(fr) THEN Cardinality(RecordableAt(s)) - 1 ELSE Cardinality(RecordableAt(s))
      /\ Recordable(fr) => Cardinality(RecordableAt(s)) > 0
  <2>1. RecordableAt(s) \in SUBSET (1 .. n)
    BY DEF RecordableAt, n
  <2>2. RecordableAt(z) = RecordableAt(s) \ {n}
    BY <1>1 DEF RecordableAt, n
  <2>4. /\ Cardinality(RecordableAt(s)) \in Nat /\ (n \in RecordableAt(s) => Cardinality(RecordableAt(s)) > 0)
        /\ Cardinality(RecordableAt(s) \ {n}) = IF n \in RecordableAt(s) THEN Cardinality(RecordableAt(s)) - 1 ELSE Cardinality(RecordableAt(s))
    BY <2>1, <1>1, CardFacts
  <2>3. n \in RecordableAt(s) <=> Recordable(fr)
    BY <1>1 DEF RecordableAt, n
  <2> QED BY <2>2, <2>3, <2>4
<1> QED BY <1>2, <1>3 DEF CountsPopped, z, n

\* Marking frames written changes nothing of this.
LEMMA GrowingStays ==
    ASSUME NEW m, NEW y, NEW n, SameFrames(m, y), Growing(m, n), Len(m.rstack) \in Nat
    PROVE  Growing(y, n)
<1>1. \A j \in 1 .. Len(m.rstack) : \A i \in 1 .. j - 1 : i \in 1 .. Len(m.rstack)
  OBVIOUS
<1> QED BY <1>1 DEF Growing, SameFrames, SameFrame

\* Nor does it change the rest of what is said of the stack.
LEMMA StackStays ==
    ASSUME NEW m \in MtdType, NEW y \in MtdType, NEW c, NEW a \in Seq(Calls), NEW n,
           SameFrames(m, y), SameRest(m, y), StackInv(c, a, m, n)
    PROVE  StackInv(c, a, y, n)
<1> DEFINE N == Len(m.rstack)
<1>1. /\ N \in Nat /\ Len(y.rstack) = N /\ m.rstack \in Seq(Frame) /\ y.rstack \in Seq(Frame)
      /\ \A j \in 1 .. N : SameFrame(m.rstack[j], y.rstack[j])
  BY DEF MtdType, SameFrames
<1> HIDE DEF N
<1>2. CountersMatch(y)
  <2>1. \A x \in FrameFlags \ {"WRITTEN"} : Flagged(y.rstack, x) = Flagged(m.rstack, x)
    BY <1>1 DEF Flagged, SameFrame, N
  <2>2. {"FILTERED", "NOTRACE"} \subseteq FrameFlags \ {"WRITTEN"}
    BY DEF FrameFlags
  <2>3. RecordableAt(y.rstack) = RecordableAt(m.rstack)
    BY <1>1 DEF RecordableAt, SameFrame, N
  <2> QED BY <2>1, <2>2, <2>3 DEF StackInv, CountersMatch, SameRest
<1>3. FiltersSaved(c, y)
  <2>1. y.rstack = << >> <=> m.rstack = << >>
    BY <1>1 DEF N
  <2>2. m.rstack # << >> => 1 \in 1 .. N
    BY <1>1 DEF N
  <2>3. m.rstack # << >> => y.rstack[1].saved = m.rstack[1].saved
    BY <2>2, <1>1 DEF SameFrame
  <2> QED BY <2>1, <2>3 DEF StackInv, FiltersSaved, SameRest
<1>4. LimitsOpen(y)
  BY <1>1 DEF StackInv, LimitsOpen, SameRest, SameFrame, N
<1>5. Limited(c, y)
  BY <1>1 DEF StackInv, Limited, SameRest, N
<1>6. KindsMatch(c, y)
  BY <1>1 DEF StackInv, KindsMatch, SameFrame, FrameFlags, N
<1>7. Growing(y, n)
  BY <1>1, GrowingStays DEF StackInv, N
<1>8. Running(y)
  BY <1>1 DEF StackInv, Running, SameRest, SameFrame, N
<1>9. FramesFollow(a, y)
  <2>1. Idx(y) = Idx(m)
    BY <1>1 DEF Idx, SameRest, N
  <2>2. ASSUME NEW k \in Hooks(a), Rank(a, k) <= N PROVE y.rstack[Rank(a, k)].fn = a[k].fn
    <3>1. m.rstack[Rank(a, k)].fn = a[k].fn
      BY <2>2 DEF StackInv, FramesFollow, N
    <3>2. Rank(a, k) \in 1 .. N
      <4>1. Rank(a, k) \in 1 .. Cardinality(Hooks(a))
        BY RankType
      <4> QED BY <4>1, <2>2, <1>1
    <3> QED BY <3>1, <3>2, <1>1 DEF SameFrame
  <2> QED BY <2>1, <2>2, <1>1 DEF StackInv, FramesFollow, N
<1> QED BY <1>2, <1>3, <1>4, <1>5, <1>6, <1>7, <1>8, <1>9 DEF StackInv

\* The frame of the next call is of a later call than all others, and deeper than those recorded.
LEMMA GrowingPushed ==
    ASSUME NEW m \in MtdType, NEW z, NEW n \in Nat, NEW fr \in Frame, Growing(m, n), Running(m),
           fr.id = n + 1, fr.depth = m.record_idx, z.rstack = Append(m.rstack, fr)
    PROVE  Growing(z, n + 1)
<1> DEFINE N == Len(m.rstack)
<1>1. /\ N \in Nat /\ Len(z.rstack) = N + 1 /\ z.rstack[N + 1] = fr /\ \A j \in 1 .. N : z.rstack[j] = m.rstack[j]
      /\ \A j \in 1 .. N + 1 : j \in 1 .. N \/ j = N + 1
  <2>1. m.rstack \in Seq(Frame)
    BY DEF MtdType
  <2> QED BY <2>1, PushFacts
<1>2. \A j \in 1 .. N : m.rstack[j].id \in Nat
  <2>1. m.rstack \in Seq(Frame)
    BY DEF MtdType
  <2>2. \A j \in 1 .. N : m.rstack[j] \in Frame
    BY <2>1
  <2>3. \A j \in 1 .. N : m.rstack[j].id \in 1 .. MaxCalls
    BY <2>2 DEF Frame
  <2> QED BY <2>3
<1> HIDE DEF N
<1>3. \A d \in Nat : d <= n => d <= n + 1 /\ d < n + 1
  OBVIOUS
<1>4. ASSUME NEW j \in 1 .. N
      PROVE  /\ z.rstack[j].id <= n + 1 /\ z.rstack[j].id < n + 1
             /\ Recordable(z.rstack[j]) => z.rstack[j].depth < fr.depth
             /\ \A i \in 1 .. j - 1 :
                   /\ z.rstack[i].id < z.rstack[j].id
                   /\ Recordable(z.rstack[i]) /\ Recordable(z.rstack[j]) => z.rstack[i].depth < z.rstack[j].depth
  <2>1. m.rstack[j].id <= n
    BY DEF Growing, N
  <2>2. \A i \in 1 .. j - 1 : i \in 1 .. N
    BY <1>1
  <2>3. Recordable(m.rstack[j]) => m.rstack[j].depth < fr.depth
    BY DEF Running, N
  <2>4. \A i \in 1 .. j - 1 :
                   /\ m.rstack[i].id < m.rstack[j].id
                   /\ Recordable(m.rstack[i]) /\ Recordable(m.rstack[j]) => m.rstack[i].depth < m.rstack[j].depth
    BY DEF Growing, N
  <2> QED BY <2>1, <2>2, <2>3, <2>4, <1>1, <1>2, <1>3
<1>5. N + 1 - 1 = N
  BY <1>1
<1>6. n + 1 <= n + 1
  OBVIOUS
<1>7. ASSUME NEW j \in 1 .. N + 1
      PROVE  /\ z.rstack[j].id <= n + 1
             /\ \A i \in 1 .. j - 1 :
                   /\ z.rstack[i].id < z.rstack[j].id
                   /\ Recordable(z.rstack[i]) /\ Recordable(z.rstack[j]) => z.rstack[i].depth < z.rstack[j].depth
  <2>1. CASE j \in 1 .. N
    BY <2>1, <1>4
  <2>2. CASE j = N + 1
    BY <2>2, <1>1, <1>4, <1>5, <1>6
  <2> QED BY <2>1, <2>2, <1>1
<1> QED BY <1>1, <1>7 DEF Growing

\* The new top frame of a call whose exit will be seen
LEMMA StackPushed ==
    ASSUME NEW m \in MtdType, NEW z \in MtdType, NEW c, NEW a \in Seq(Calls), NEW n \in Nat, NEW fr \in Frame,
           StackInv(c, a, m, n), c.max \in Nat, Len(m.rstack) < c.max, m.over = 0, z.over = 0,
           z.rstack = Append(m.rstack, fr), fr.id = n + 1, fr.end = 0, fr.depth = m.record_idx, fr.saved = m.filter,
           OpenLimit(z.filter), "CYGPROF" \in fr.flags <=> c.kind[fr.fn] = "cygprof",
           z.in_count = IF "FILTERED" \in fr.flags THEN m.in_count + 1 ELSE m.in_count,
           z.out_count = IF "NOTRACE" \in fr.flags THEN m.out_count + 1 ELSE m.out_count,
           z.record_idx = IF Recordable(fr) THEN m.record_idx + 1 ELSE m.record_idx
    PROVE  StackInv(c, Append(a, [fn |-> fr.fn, hooked |-> TRUE]), z, n + 1)
<1> DEFINE N == Len(m.rstack)
           e == [fn |-> fr.fn, hooked |-> TRUE]
           b == Append(a, e)
<1>t. m.rstack \in Seq(Frame) /\ m.record_idx \in Nat /\ m.over \in Nat
  BY DEF MtdType
<1>e. e \in Calls /\ e.fn = fr.fn /\ e.hooked
  BY DEF Calls, Frame
<1>1. /\ N \in Nat /\ Len(z.rstack) = N + 1 /\ z.rstack[N + 1] = fr
      /\ \A j \in 1 .. N : z.rstack[j] = m.rstack[j] /\ m.rstack[j] \in Frame
      /\ \A j \in 1 .. N + 1 : j \in 1 .. N \/ j = N + 1
  BY <1>t, PushFacts
<1> HIDE DEF e
<1>2. Deeper(a, e, b)
  BY <1>e, HooksPushed
<1>3. CountsPushed(m.rstack, fr, z.rstack)
  BY <1>t, PushCounts
<1>4. Len(a) \in Nat
  OBVIOUS
<1> HIDE DEF b, N
<1>5. Len(b) <= n + 1
  BY <1>2, <1>4 DEF StackInv, Deeper
<1>6. CountersMatch(z)
  BY <1>3 DEF StackInv, CountersMatch, CountsPushed
<1>7. FiltersSaved(c, z)
  <2>1. z.rstack # << >>
    <3>1. Len(<< >>) = 0 /\ N + 1 # 0
      BY <1>1
    <3> QED BY <3>1, <1>1
  <2>2. CASE m.rstack = << >>
    <3>1. N + 1 = 1
      BY <2>2 DEF N
    <3> QED BY <2>1, <2>2, <3>1, <1>1 DEF StackInv, FiltersSaved
  <2>3. CASE m.rstack # << >>
    <3>1. 1 \in 1 .. N
      BY <2>3, <1>t DEF N
    <3> QED BY <2>1, <2>3, <3>1, <1>1 DEF StackInv, FiltersSaved
  <2> QED BY <2>2, <2>3
<1>8. LimitsOpen(z)
  BY <1>1 DEF StackInv, LimitsOpen, N
<1>9. Limited(c, z)
  BY <1>1 DEF Limited, N
<1>10. KindsMatch(c, z)
  BY <1>1 DEF StackInv, KindsMatch, N
<1>11. Growing(z, n + 1)
  BY GrowingPushed DEF StackInv
<1>12. Running(z)
  <2>1. ASSUME NEW j \in 1 .. N PROVE m.rstack[j].end = 0 /\ (Recordable(m.rstack[j]) => m.rstack[j].depth < m.record_idx)
    BY DEF StackInv, Running, N
  <2>2. \A j \in 1 .. N : m.rstack[j].depth \in Nat
    BY <1>1 DEF Frame
  <2>3. \A d \in Nat : d < m.record_idx => d < z.record_idx
    BY <1>t
  <2>4. Recordable(fr) => fr.depth < z.record_idx
    BY <1>t
  <2>5. \A j \in 1 .. N + 1 : z.rstack[j].end = 0 /\ (Recordable(z.rstack[j]) => z.rstack[j].depth < z.record_idx)
    <3> TAKE j \in 1 .. N + 1
    <3>1. CASE j \in 1 .. N
      BY <3>1, <2>1, <2>2, <2>3, <1>1
    <3>2. CASE j = N + 1
      BY <3>2, <2>4, <1>1
    <3> QED BY <3>1, <3>2, <1>1
  <2> QED BY <2>5, <1>1 DEF Running
<1>13. FramesFollow(b, z)
  <2>1. Idx(m) = N /\ N = Cardinality(Hooks(a)) /\ Idx(z) = N + 1
    BY <1>1 DEF StackInv, FramesFollow, Idx, N
  <2>2. ASSUME NEW k \in Hooks(b) PROVE z.rstack[Rank(b, k)].fn = b[k].fn
    <3>1. CASE k \in Hooks(a)
      <4>1. Rank(b, k) = Rank(a, k) /\ Rank(a, k) \in 1 .. N /\ b[k] = a[k]
        BY <3>1, <2>1, <1>2 DEF Deeper
      <4>2. m.rstack[Rank(a, k)].fn = a[k].fn
        <5>1. Rank(a, k) <= N
          BY <4>1, <1>1
        <5> QED BY <3>1, <5>1 DEF StackInv, FramesFollow, N
      <4> QED BY <4>1, <4>2, <1>1
    <3>2. CASE k = Len(a) + 1
      <4>1. Rank(b, k) = N + 1 /\ b[k] = e
        BY <3>2, <2>1, <1>2, <1>e DEF Deeper
      <4> QED BY <4>1, <1>1, <1>e
    <3> QED BY <3>1, <3>2, <1>2 DEF Deeper
  <2>3. Idx(z) = Cardinality(Hooks(b))
    BY <2>1, <1>2, <1>e DEF Deeper
  <2> QED BY <2>2, <2>3 DEF FramesFollow
<1>14. StackInv(c, b, z, n + 1)
  BY <1>5, <1>6, <1>7, <1>8, <1>9, <1>10, <1>11, <1>12, <1>13 DEF StackInv
<1> QED BY <1>14 DEF b, e

\* The end of a call whose frame is the top one
LEMMA StackPopped ==
    ASSUME NEW m \in MtdType, NEW z \in MtdType, NEW c, NEW a \in Seq(Calls), NEW n \in Nat,
           StackInv(c, a, m, n), c.max \in Nat, Len(a) > 0, a[Len(a)].hooked,
           Len(m.rstack) > 0, m.over = 0, z.over = 0, z.rstack = Front(m.rstack),
           NEW top, top = m.rstack[Len(m.rstack)], z.filter = top.saved,
           z.in_count = IF "FILTERED" \in top.flags THEN m.in_count - 1 ELSE m.in_count,
           z.out_count = IF "NOTRACE" \in top.flags THEN m.out_count - 1 ELSE m.out_count,
           z.record_idx = IF Recordable(top) THEN m.record_idx - 1 ELSE m.record_idx
    PROVE  StackInv(c, Front(a), z, n)
<1> DEFINE N == Len(m.rstack)
           b == Front(a)
<1>t. m.rstack \in Seq(Frame) /\ m.record_idx \in Nat
  BY DEF MtdType
<1>1. /\ N \in Nat /\ Len(z.rstack) = N - 1 /\ N - 1 \in Nat /\ N \in 1 .. N
      /\ \A j \in 1 .. N - 1 : z.rstack[j] = m.rstack[j] /\ j \in 1 .. N /\ j < N /\ m.rstack[j] \in Frame
  <2>1. N \in Nat /\ N > 0
    BY <1>t
  <2>2. Len(z.rstack) = N - 1 /\ \A j \in 1 .. N - 1 : z.rstack[j] = m.rstack[j]
    BY <1>t, <2>1, FrontFacts
  <2>3. \A j \in 1 .. N - 1 : m.rstack[j] \in Frame
    BY <1>t, <2>1
  <2> HIDE DEF N
  <2> QED BY <2>1, <2>2, <2>3
<1>2. Deeper(b, a[Len(a)], a)
  BY HooksPopped
<1>3. CountsPopped(m.rstack, top, z.rstack)
  BY <1>t, PopCounts
<1>4. m.rstack[N] = top
  OBVIOUS
<1> HIDE DEF b, N
<1>5. Len(b) <= n
  <2>1. Len(b) \in Nat /\ Len(a) = Len(b) + 1
    BY <1>2 DEF Deeper
  <2>2. Len(a) <= n
    BY DEF StackInv
  <2> QED BY <2>1, <2>2
<1>6. CountersMatch(z)
  BY <1>3 DEF StackInv, CountersMatch, CountsPopped
<1>7. FiltersSaved(c, z)
  <2>0. 1 \in 1 .. N /\ m.rstack # << >>
    <3>1. Len(<< >>) = 0
      OBVIOUS
    <3> QED BY <3>1, <1>1 DEF N
  <2>1. m.rstack[1].saved = FilterSetup(c)
    BY <2>0 DEF StackInv, FiltersSaved
  <2>2. CASE N = 1
    <3>1. z.rstack = << >>
      <4>1. z.rstack \in Seq(Frame) /\ Len(z.rstack) = 0
        BY <2>2, <1>1 DEF MtdType
      <4> QED BY <4>1, EmptySeq
    <3> QED BY <2>1, <2>2, <3>1, <1>4 DEF FiltersSaved
  <2>3. CASE N # 1
    <3>1. 1 \in 1 .. N - 1
      BY <2>3, <2>0, <1>1
    <3>2. z.rstack # << >>
      <4>1. Len(<< >>) = 0
        OBVIOUS
      <4> QED BY <4>1, <3>1, <1>1
    <3> QED BY <2>1, <3>1, <3>2, <1>1 DEF FiltersSaved
  <2> QED BY <2>2, <2>3
<1>8. LimitsOpen(z)
  <2>1. OpenLimit(top.saved)
    BY <1>1, <1>4 DEF StackInv, LimitsOpen, N
  <2> QED BY <2>1, <1>1 DEF StackInv, LimitsOpen, N
<1>9. Limited(c, z)
  BY <1>1 DEF StackInv, Limited, N
<1>10. KindsMatch(c, z)
  BY <1>1 DEF StackInv, KindsMatch, N
<1>11. Growing(z, n)
  <2>1. \A j \in 1 .. N - 1 : \A i \in 1 .. j - 1 : i \in 1 .. N - 1
    BY <1>1
  <2> QED BY <2>1, <1>1 DEF StackInv, Growing, N
<1>12. Running(z)
  <2>1. ASSUME NEW j \in 1 .. N - 1, Recordable(m.rstack[j]) PROVE m.rstack[j].depth < z.record_idx
    <3>1. m.rstack[j].depth \in Nat /\ m.rstack[j].depth < m.record_idx
      BY <2>1, <1>1 DEF StackInv, Running, N, Frame
    <3>2. CASE Recordable(top)
      <4>1. top.depth < m.record_idx /\ top.depth \in Nat
        <5>1. top \in Frame
          BY <1>t, <1>1, <1>4 DEF N
        <5> QED BY <3>2, <5>1, <1>1, <1>4 DEF StackInv, Running, N, Frame
      <4>2. m.rstack[j].depth < top.depth
        <5>1. j \in 1 .. N - 1
          OBVIOUS
        <5> QED BY <2>1, <3>2, <5>1, <1>1, <1>4 DEF StackInv, Growing, N
      <4>3. \A d, e, f \in Nat : d < e /\ e < f => d < f - 1
        OBVIOUS
      <4> QED BY <3>1, <3>2, <4>1, <4>2, <4>3, <1>t
    <3>3. CASE ~Recordable(top)
      BY <3>1, <3>3
    <3> QED BY <3>2, <3>3
  <2> QED BY <2>1, <1>1 DEF StackInv, Running, N
<1>13. FramesFollow(b, z)
  <2>1. Idx(m) = N /\ N = Cardinality(Hooks(a)) /\ Idx(z) = N - 1
    BY <1>1 DEF StackInv, FramesFollow, Idx, N
  <2>2. Cardinality(Hooks(b)) = N - 1
    BY <2>1, <1>1, <1>2 DEF Deeper
  <2>3. ASSUME NEW k \in Hooks(b) PROVE z.rstack[Rank(b, k)].fn = b[k].fn
    <3>1. k \in Hooks(a) /\ Rank(b, k) = Rank(a, k) /\ Rank(b, k) \in 1 .. N - 1 /\ b[k] = a[k]
      BY <2>2, <1>2 DEF Deeper
    <3>2. Rank(a, k) <= N
      BY <3>1, <1>1
    <3>3. m.rstack[Rank(a, k)].fn = a[k].fn
      BY <3>1, <3>2 DEF StackInv, FramesFollow, N
    <3> QED BY <3>1, <3>3, <1>1
  <2> QED BY <2>1, <2>2, <2>3 DEF FramesFollow
<1> QED BY <1>5, <1>6, <1>7, <1>8, <1>9, <1>10, <1>11, <1>12, <1>13 DEF StackInv, b

\* The thread z after a call that has no frame: its exit is not seen, or it is beyond the limit.
Unseen(c, m, e, z) ==
    /\ m \in MtdType /\ z \in MtdType /\ e \in Calls /\ c.max \in Nat /\ z.rstack = m.rstack
    /\ z.record_idx = m.record_idx /\ z.in_count = m.in_count /\ z.out_count = m.out_count
    /\ OpenLimit(z.filter) /\ (m.rstack = << >> => z.filter = m.filter)
    /\ z.over = (IF e.hooked THEN m.over + 1 ELSE m.over) /\ (e.hooked => Len(m.rstack) = c.max)

\* What is said of the stack holds with one more call that has no frame.
LEMMA StackUnseen ==
    ASSUME NEW m, NEW z, NEW c, NEW a, NEW n, NEW e, Unseen(c, m, e, z), a \in Seq(Calls), n \in Nat,
           StackInv(c, a, m, n)
    PROVE  StackInv(c, Append(a, e), z, n + 1)
<1> /\ m \in MtdType /\ z \in MtdType /\ e \in Calls /\ c.max \in Nat /\ z.rstack = m.rstack
    /\ z.record_idx = m.record_idx /\ z.in_count = m.in_count /\ z.out_count = m.out_count
    /\ OpenLimit(z.filter) /\ (m.rstack = << >> => z.filter = m.filter)
    /\ z.over = (IF e.hooked THEN m.over + 1 ELSE m.over) /\ (e.hooked => Len(m.rstack) = c.max)
  BY DEF Unseen
<1> DEFINE N == Len(m.rstack)
           b == Append(a, e)
<1>t. m.rstack \in Seq(Frame) /\ m.over \in Nat
  BY DEF MtdType
<1>1. N \in Nat /\ Len(a) \in Nat
  BY <1>t
<1>2. Deeper(a, e, b)
  BY HooksPushed
<1> HIDE DEF b, N
<1>5. Len(b) <= n + 1
  BY <1>1, <1>2 DEF StackInv, Deeper
<1>6. CountersMatch(z) /\ LimitsOpen(z) /\ KindsMatch(c, z) /\ Running(z)
  BY DEF StackInv, CountersMatch, LimitsOpen, KindsMatch, Running
<1>7. FiltersSaved(c, z)
  BY DEF StackInv, FiltersSaved
<1>8. Limited(c, z)
  BY DEF StackInv, Limited
<1>9. Growing(z, n + 1)
  <2>1. \A j \in 1 .. N : m.rstack[j].id \in Nat
    <3>1. \A j \in 1 .. N : m.rstack[j] \in Frame
      BY <1>t DEF N
    <3>2. \A j \in 1 .. N : m.rstack[j].id \in 1 .. MaxCalls
      BY <3>1 DEF Frame
    <3> QED BY <3>2
  <2>2. \A d \in Nat : d <= n => d <= n + 1
    OBVIOUS
  <2> QED BY <2>1, <2>2 DEF StackInv, Growing, N
<1>10. FramesFollow(b, z)
  <2>1. Idx(m) = N + m.over /\ N + m.over = Cardinality(Hooks(a)) /\ Idx(z) = N + z.over
    BY <1>1 DEF StackInv, FramesFollow, Idx, N
  <2>2. Cardinality(Hooks(b)) = N + z.over
    BY <2>1, <1>1, <1>2, <1>t DEF Deeper
  <2>3. ASSUME NEW k \in Hooks(b), Rank(b, k) <= N PROVE m.rstack[Rank(b, k)].fn = b[k].fn
    <3>1. CASE k \in Hooks(a)
      <4>1. Rank(b, k) = Rank(a, k) /\ b[k] = a[k]
        BY <3>1, <1>2 DEF Deeper
      <4> QED BY <2>3, <3>1, <4>1 DEF StackInv, FramesFollow, N
    <3>2. CASE k = Len(a) + 1 /\ e.hooked
      <4>1. Rank(b, k) = N + (m.over + 1)
        BY <2>2, <3>2, <1>2 DEF Deeper
      <4> QED BY <2>3, <4>1, <1>1, <1>t
    <3> QED BY <3>1, <3>2, <1>2 DEF Deeper
  <2> QED BY <2>1, <2>2, <2>3 DEF FramesFollow, N
<1> QED BY <1>5, <1>6, <1>7, <1>8, <1>9, <1>10 DEF StackInv, b

\* The end of such a call
LEMMA StackUnseenEnd ==
    ASSUME NEW m \in MtdType, NEW z \in MtdType, NEW c, NEW a \in Seq(Calls), NEW n \in Nat,
           StackInv(c, a, m, n), c.max \in Nat, Len(a) > 0, z.rstack = m.rstack, z.record_idx = m.record_idx,
           z.in_count = m.in_count, z.out_count = m.out_count, z.filter = m.filter,
           m.over = IF a[Len(a)].hooked THEN z.over + 1 ELSE z.over
    PROVE  StackInv(c, Front(a), z, n)
<1> DEFINE N == Len(m.rstack)
           b == Front(a)
           e == a[Len(a)]
<1>t. m.rstack \in Seq(Frame) /\ m.over \in Nat /\ z.over \in Nat
  BY DEF MtdType
<1>1. N \in Nat
  BY <1>t
<1>2. Deeper(b, e, a)
  BY HooksPopped
<1> HIDE DEF b, N, e
<1>5. Len(b) <= n
  <2>1. Len(b) \in Nat /\ Len(a) = Len(b) + 1
    BY <1>2 DEF Deeper
  <2>2. Len(a) <= n
    BY DEF StackInv
  <2> QED BY <2>1, <2>2
<1>6. CountersMatch(z) /\ LimitsOpen(z) /\ KindsMatch(c, z) /\ Running(z) /\ FiltersSaved(c, z) /\ Growing(z, n)
  BY DEF StackInv, CountersMatch, LimitsOpen, KindsMatch, Running, FiltersSaved, Growing
<1>7. Limited(c, z)
  BY <1>t DEF StackInv, Limited, e
<1>8. FramesFollow(b, z)
  <2>1. Idx(m) = N + m.over /\ N + m.over = Cardinality(Hooks(a)) /\ Idx(z) = N + z.over
    BY <1>1 DEF StackInv, FramesFollow, Idx, N
  <2>2. Cardinality(Hooks(b)) = N + z.over
    <3>1. m.over = IF e.hooked THEN z.over + 1 ELSE z.over
      BY DEF e
    <3>2. Cardinality(Hooks(b)) \in Nat
      BY <1>2 DEF Deeper
    <3>3. Cardinality(Hooks(a)) = IF e.hooked THEN Cardinality(Hooks(b)) + 1 ELSE Cardinality(Hooks(b))
      BY <1>2 DEF Deeper
    <3> QED BY <2>1, <3>1, <3>2, <3>3, <1>1, <1>t
  <2>3. ASSUME NEW k \in Hooks(b), Rank(b, k) <= N PROVE m.rstack[Rank(b, k)].fn = b[k].fn
    <3>1. k \in Hooks(a) /\ Rank(b, k) = Rank(a, k) /\ b[k] = a[k]
      BY <1>2 DEF Deeper
    <3> QED BY <2>3, <3>1 DEF StackInv, FramesFollow, N
  <2> QED BY <2>1, <2>2, <2>3 DEF FramesFollow, N
<1> QED BY <1>5, <1>6, <1>7, <1>8 DEF StackInv, b

-----------------------------------------------------------------------------
(* Entry *)

\* What the filters make of a call to g that fits the stack
Checked(m, g, o) ==
    /\ o.m \in MtdType /\ o.result \in {"IN", "OUT"} /\ o.flags \subseteq TriggerFlags /\ o.saved = m.filter
    /\ o.m.rstack = m.rstack /\ o.m.stream = m.stream /\ o.m.losts = m.losts /\ o.m.over = m.over
    /\ ~o.m.warned /\ o.m.record_idx = m.record_idx /\ OpenLimit(o.m.filter)
    /\ o.m.in_count = IF "FILTER_IN" \in o.flags THEN m.in_count + 1 ELSE m.in_count
    /\ o.m.out_count = IF "FILTER_OUT" \in o.flags /\ "FILTER_IN" \notin o.flags THEN m.out_count + 1 ELSE m.out_count
    /\ setup.kind[g] = "pg" /\ o.result = "OUT" =>
          /\ o.m.in_count = m.in_count /\ o.m.out_count = m.out_count
          /\ m.rstack = << >> => o.m.filter = m.filter

\* Counting a filter: the thread afterwards differs in this
LEMMA FilterApplied ==
    ASSUME NEW m \in MtdType, NEW flags \in SUBSET TriggerFlags, LimitsOpen(m), NEW x, x = ApplyFilter(m, flags)
    PROVE  /\ x \in MtdType /\ x.rstack = m.rstack /\ x.stream = m.stream /\ x.losts = m.losts /\ x.over = m.over
           /\ x.warned = m.warned /\ x.record_idx = m.record_idx
           /\ x.in_count = IF "FILTER_IN" \in flags THEN m.in_count + 1 ELSE m.in_count
           /\ x.out_count = IF "FILTER_OUT" \in flags /\ "FILTER_IN" \notin flags THEN m.out_count + 1 ELSE m.out_count
           /\ x.filter.max_depth = m.filter.max_depth
           /\ IF flags \cap {"FILTER_IN", "FILTER_OUT"} = {} THEN x = m ELSE x.filter.depth = 0
<1>1. CASE flags \cap {"FILTER_IN", "FILTER_OUT"} = {}
  BY <1>1 DEF ApplyFilter
<1>2. CASE flags \cap {"FILTER_IN", "FILTER_OUT"} # {}
  <2> DEFINE ic == IF "FILTER_IN" \in flags THEN m.in_count + 1 ELSE m.in_count
             oc == IF "FILTER_IN" \notin flags THEN m.out_count + 1 ELSE m.out_count
             fl == [m.filter EXCEPT !.depth = 0]
  <2>0. m.in_count \in Nat /\ m.out_count \in Nat /\ m.filter \in FilterState
    BY DEF MtdType
  <2>1. ic \in Nat /\ oc \in Nat /\ fl \in FilterState
    BY <2>0 DEF FilterState
  <2>2. fl.depth = 0 /\ fl.max_depth = m.filter.max_depth
    BY <2>0 DEF FilterState
  <2>3. x = [m EXCEPT !.in_count = ic, !.out_count = oc, !.filter = fl]
    BY <1>2 DEF ApplyFilter, MtdType
  <2>4. ic = IF "FILTER_IN" \in flags THEN m.in_count + 1 ELSE m.in_count
    OBVIOUS
  <2>5. oc = IF "FILTER_OUT" \in flags /\ "FILTER_IN" \notin flags THEN m.out_count + 1 ELSE m.out_count
    BY <1>2
  <2> HIDE DEF ic, oc, fl
  <2>6. x \in MtdType
    BY <2>1, <2>3 DEF MtdType
  <2>7. /\ x.rstack = m.rstack /\ x.stream = m.stream /\ x.losts = m.losts /\ x.over = m.over
        /\ x.warned = m.warned /\ x.record_idx = m.record_idx /\ x.in_count = ic /\ x.out_count = oc /\ x.filter = fl
    BY <2>3 DEF MtdType
  <2> QED BY <1>2, <2>2, <2>4, <2>5, <2>6, <2>7
<1> QED BY <1>1, <1>2

\* Firing a trigger
LEMMA TriggerApplied ==
    ASSUME NEW m \in MtdType, SetupOK(setup), KeepsFilters(setup), NEW g \in Functions,
           NEW flags \in SUBSET setup.trig[g].flags, OpenLimit(m.filter), NEW x, x = ApplyTrigger(m, g, flags)
    PROVE  /\ x \in MtdType /\ x.rstack = m.rstack /\ x.stream = m.stream /\ x.losts = m.losts /\ x.over = m.over
           /\ x.warned = m.warned /\ x.record_idx = m.record_idx /\ x.in_count = m.in_count /\ x.out_count = m.out_count
           /\ OpenLimit(x.filter)
           /\ m.filter.depth = 0 => x.filter.depth = 0
<1> DEFINE tr == setup.trig[g]
           fl == [depth |-> IF "DEPTH" \in flags THEN 0 ELSE m.filter.depth,
                  max_depth |-> IF "DEPTH" \in flags THEN tr.depth ELSE m.filter.max_depth,
                  time |-> IF "TIME" \in flags THEN tr.time ELSE m.filter.time,
                  size |-> IF "SIZE" \in flags THEN tr.size ELSE m.filter.size]
           en == IF "TRACE_OFF" \in flags THEN FALSE ELSE IF "TRACE_ON" \in flags THEN TRUE ELSE m.enabled
<1>0. m.filter \in FilterState /\ m.enabled \in BOOLEAN
  BY DEF MtdType
<1>1. tr \in [flags : SUBSET TriggerFlags, depth : Nat, time : Nat, size : Nat]
  BY DEF SetupOK
<1>2. tr.depth \in Nat /\ tr.time \in Nat /\ tr.size \in Nat
  BY <1>1
<1>3. "DEPTH" \in flags => tr.depth > 0
  BY DEF KeepsFilters
<1> HIDE DEF tr
<1>4. fl \in FilterState /\ en \in BOOLEAN
  <2>1. m.filter.depth \in Nat /\ m.filter.max_depth \in Int /\ m.filter.time \in Int /\ m.filter.size \in Int
    BY <1>0 DEF FilterState
  <2>2. fl \in FilterState
    BY <2>1, <1>2 DEF FilterState
  <2>3. en \in BOOLEAN
    BY <1>0
  <2> QED BY <2>2, <2>3
<1>5. x = [m EXCEPT !.filter = fl, !.enabled = en]
  BY DEF ApplyTrigger, tr
<1>6. OpenLimit(fl) /\ (m.filter.depth = 0 => fl.depth = 0)
  BY <1>3 DEF OpenLimit
<1> HIDE DEF fl, en
<1>7. x \in MtdType
  BY <1>4, <1>5 DEF MtdType
<1>8. /\ x.rstack = m.rstack /\ x.stream = m.stream /\ x.losts = m.losts /\ x.over = m.over
      /\ x.warned = m.warned /\ x.record_idx = m.record_idx /\ x.in_count = m.in_count /\ x.out_count = m.out_count
      /\ x.filter = fl
  BY <1>5 DEF MtdType
<1> QED BY <1>6, <1>7, <1>8

\* The depth filter
LEMMA DepthChecked ==
    ASSUME NEW m \in MtdType, SetupOK(setup), KeepsFilters(setup), NEW flags, NEW saved, OpenLimit(m.filter),
           NEW o, o = DepthCheck(m, flags, saved)
    PROVE  /\ o.m \in MtdType /\ o.result \in {"IN", "OUT"} /\ o.flags = flags /\ o.saved = saved
           /\ o.m.rstack = m.rstack /\ o.m.stream = m.stream /\ o.m.losts = m.losts /\ o.m.over = m.over
           /\ o.m.warned = m.warned /\ o.m.record_idx = m.record_idx
           /\ o.m.in_count = m.in_count /\ o.m.out_count = m.out_count /\ OpenLimit(o.m.filter)
           /\ o.result = "OUT" => o.m = m /\ m.filter.depth # 0
<1> DEFINE limit == IF m.filter.max_depth = None THEN setup.depth ELSE m.filter.max_depth
           fl == [m.filter EXCEPT !.depth = @ + 1]
           x == [m EXCEPT !.filter = fl]
<1>0. m.filter \in FilterState
  BY DEF MtdType
<1>1. m.filter.depth \in Nat /\ m.filter.max_depth \in Int
  BY <1>0 DEF FilterState
<1>2. limit \in Int /\ limit > 0
  BY <1>1 DEF OpenLimit, KeepsFilters, SetupOK
<1> HIDE DEF limit
<1>3. fl \in FilterState /\ fl.max_depth = m.filter.max_depth
  BY <1>0 DEF FilterState
<1>4. OpenLimit(fl)
  BY <1>3 DEF OpenLimit
<1> HIDE DEF fl
<1>5. x \in MtdType
  BY <1>3 DEF MtdType
<1>6. /\ x.rstack = m.rstack /\ x.stream = m.stream /\ x.losts = m.losts /\ x.over = m.over
      /\ x.warned = m.warned /\ x.record_idx = m.record_idx /\ x.in_count = m.in_count /\ x.out_count = m.out_count
      /\ x.filter = fl
  BY DEF MtdType
<1>7. o = IF m.filter.depth >= limit THEN Outcome(m, "OUT", flags, saved) ELSE Outcome(x, "IN", flags, saved)
  BY DEF DepthCheck, limit, fl, MtdType
<1> HIDE DEF x
<1>8. CASE m.filter.depth >= limit
  <2>1. o = [m |-> m, result |-> "OUT", flags |-> flags, saved |-> saved]
    BY <1>7, <1>8 DEF Outcome
  <2>2. m.filter.depth # 0
    BY <1>1, <1>2, <1>8
  <2> QED BY <2>1, <2>2
<1>9. CASE ~(m.filter.depth >= limit)
  <2>1. o = [m |-> x, result |-> "IN", flags |-> flags, saved |-> saved]
    BY <1>7, <1>9 DEF Outcome
  <2> QED BY <2>1, <1>4, <1>5, <1>6
<1> QED BY <1>8, <1>9

\* A filter of a call whose exit would not be seen does not keep the call out.
LEMMA FilterLetsIn ==
    ASSUME KeepsFilters(setup), NEW g \in Functions, setup.kind[g] = "pg", NEW met, NEW m,
           NEW flags, flags = Effective(g, met), flags \cap {"FILTER_IN", "FILTER_OUT"} # {}
    PROVE  ~KeptOut(m, flags)
<1> DEFINE raw == setup.trig[g].flags
<1>1. flags = raw \/ flags = raw \ {"FILTER_IN", "FILTER_OUT"}
  BY DEF Effective
<1>2. raw \cap {"FILTER_IN", "FILTER_OUT"} # {} /\ flags \subseteq raw /\ ("LOC_IN" \in raw => "LOC_IN" \in flags)
  BY <1>1
<1>3. "LOC_OUT" \notin raw /\ ("LOC_IN" \in raw \/ \A h \in Functions : "LOC_IN" \notin setup.trig[h].flags)
  BY <1>2 DEF KeepsFilters
<1> HIDE DEF raw
<1> QED BY <1>2, <1>3 DEF KeptOut, Triggers

\* mcount_entry_filter_check() when the stack is not full
LEMMA CheckPasses ==
    ASSUME NEW m \in MtdType, SetupOK(setup), KeepsFilters(setup), NEW g \in Functions, NEW met \in BOOLEAN,
           LimitsOpen(m), FiltersSaved(setup, m), ~StackFull(m), NEW o, o = FilterCheck(m, g, met)
    PROVE  Checked(m, g, o)
<1> DEFINE m0 == [m EXCEPT !.warned = FALSE]
           flags == Effective(g, met)
<1>1. /\ m0 \in MtdType /\ m0.rstack = m.rstack /\ m0.stream = m.stream /\ m0.losts = m.losts /\ m0.over = m.over
      /\ ~m0.warned /\ m0.record_idx = m.record_idx /\ m0.filter = m.filter
      /\ m0.in_count = m.in_count /\ m0.out_count = m.out_count
  BY DEF MtdType
<1>2. OpenLimit(m.filter) /\ LimitsOpen(m0)
  BY <1>1 DEF LimitsOpen
<1>3. flags \subseteq setup.trig[g].flags /\ flags \in SUBSET TriggerFlags
  BY DEF Effective, SetupOK
<1>4. o = IF m.out_count > 0 THEN Outcome(m0, "OUT", {}, m.filter)
          ELSE TriggerCheck(ApplyFilter(m0, flags), g, flags, m.filter)
  BY DEF FilterCheck
<1>n. m.in_count \in Nat /\ m.out_count \in Nat
  BY DEF MtdType
<1> HIDE DEF m0
<1>5. CASE m.out_count > 0
  <2>1. o = [m |-> m0, result |-> "OUT", flags |-> {}, saved |-> m.filter]
    BY <1>4, <1>5 DEF Outcome
  <2> QED BY <2>1, <1>1, <1>2 DEF Checked
<1>6. CASE ~(m.out_count > 0)
  <2>1. PICK x : x = ApplyFilter(m0, flags)
    OBVIOUS
  <2>2. /\ x \in MtdType /\ x.rstack = m.rstack /\ x.stream = m.stream /\ x.losts = m.losts /\ x.over = m.over
        /\ ~x.warned /\ x.record_idx = m.record_idx
        /\ x.in_count = IF "FILTER_IN" \in flags THEN m.in_count + 1 ELSE m.in_count
        /\ x.out_count = IF "FILTER_OUT" \in flags /\ "FILTER_IN" \notin flags THEN m.out_count + 1 ELSE m.out_count
        /\ x.filter.max_depth = m.filter.max_depth
        /\ IF flags \cap {"FILTER_IN", "FILTER_OUT"} = {} THEN x = m0 ELSE x.filter.depth = 0
    BY <2>1, <1>1, <1>2, <1>3, FilterApplied
  <2>3. OpenLimit(x.filter)
    BY <2>2, <1>2 DEF OpenLimit
  <2>4. flags \cap {"FILTER_IN", "FILTER_OUT"} = {} =>
           x.in_count = m.in_count /\ x.out_count = m.out_count /\ x.filter = m.filter
    BY <2>2, <1>1
  <2>5. o = TriggerCheck(x, g, flags, m.filter)
    BY <1>4, <1>6, <2>1
  <2> HIDE DEF flags
  <2>6. CASE KeptOut(x, flags)
    <3>1. o = [m |-> x, result |-> "OUT", flags |-> flags, saved |-> m.filter]
      BY <2>5, <2>6 DEF TriggerCheck, Outcome
    <3>2. setup.kind[g] = "pg" => flags \cap {"FILTER_IN", "FILTER_OUT"} = {}
      BY <2>6, FilterLetsIn DEF flags
    <3> QED BY <3>1, <3>2, <2>2, <2>3, <2>4, <1>3 DEF Checked
  <2>7. CASE ~KeptOut(x, flags)
    <3>1. PICK y : y = ApplyTrigger(x, g, flags)
      OBVIOUS
    <3>2. flags \in SUBSET setup.trig[g].flags
      BY <1>3
    <3>3. /\ y \in MtdType /\ y.rstack = x.rstack /\ y.stream = x.stream /\ y.losts = x.losts /\ y.over = x.over
          /\ y.warned = x.warned /\ y.record_idx = x.record_idx /\ y.in_count = x.in_count /\ y.out_count = x.out_count
          /\ OpenLimit(y.filter)
          /\ x.filter.depth = 0 => y.filter.depth = 0
      BY <2>2, <2>3, <3>1, <3>2, TriggerApplied
    <3>4. o = DepthCheck(y, flags, m.filter)
      BY <2>5, <2>7, <3>1 DEF TriggerCheck
    <3>5. /\ o.m \in MtdType /\ o.result \in {"IN", "OUT"} /\ o.flags = flags /\ o.saved = m.filter
          /\ o.m.rstack = y.rstack /\ o.m.stream = y.stream /\ o.m.losts = y.losts /\ o.m.over = y.over
          /\ o.m.warned = y.warned /\ o.m.record_idx = y.record_idx
          /\ o.m.in_count = y.in_count /\ o.m.out_count = y.out_count /\ OpenLimit(o.m.filter)
          /\ o.result = "OUT" => o.m = y /\ y.filter.depth # 0
      BY <3>3, <3>4, DepthChecked
    <3>6. ASSUME o.result = "OUT"
          PROVE  /\ o.m.in_count = m.in_count /\ o.m.out_count = m.out_count
                 /\ m.rstack = << >> => o.m.filter = m.filter
      <4>1. x.filter.depth # 0
        BY <3>3, <3>5, <3>6
      <4>2. flags \cap {"FILTER_IN", "FILTER_OUT"} = {}
        BY <4>1, <2>2
      <4>3. m.rstack = << >> => m.filter = FilterSetup(setup)
        BY DEF FiltersSaved
      <4>4. m.rstack = << >> => m.filter.depth = 0
        BY <4>3 DEF FilterSetup
      <4> QED BY <4>1, <4>2, <4>4, <2>4, <3>3, <3>5
    <3> QED BY <2>2, <3>3, <3>5, <3>6, <1>3 DEF Checked
  <2> QED BY <2>6, <2>7
<1> QED BY <1>5, <1>6

\* All that is said of a thread that runs, with n calls made until t
ThreadInv(a, m, n, t, f, off) ==
    StackInv(setup, a, m, n) /\ StreamInv(m, n, t, f, off) /\ Closed(m, off)

\* What the stack needs is in these fields.
LEMMA StackSame ==
    ASSUME NEW m, NEW z, NEW c, NEW a, NEW n, StackInv(c, a, m, n),
           z.rstack = m.rstack, z.over = m.over, z.in_count = m.in_count, z.out_count = m.out_count,
           z.filter = m.filter, z.record_idx = m.record_idx
    PROVE  StackInv(c, a, z, n)
<1>1. CountersMatch(z) /\ FiltersSaved(c, z) /\ LimitsOpen(z) /\ Limited(c, z) /\ KindsMatch(c, z)
  BY DEF StackInv, CountersMatch, FiltersSaved, LimitsOpen, Limited, KindsMatch
<1>2. Growing(z, n) /\ Running(z)
  BY DEF StackInv, Growing, Running
<1>3. FramesFollow(a, z)
  BY DEF StackInv, FramesFollow, Idx
<1> QED BY <1>1, <1>2, <1>3 DEF StackInv

\* mcount_check_rstack() finds the stack full.
LEMMA FullFlushed ==
    ASSUME NEW m \in MtdType, NEW a \in Seq(Calls), NEW n \in Nat, NEW t \in Nat, NEW f \in Nat, NEW off \in BOOLEAN,
           ThreadInv(a, m, n, t, f, off), SetupOK(setup), StackFull(m), NEW x, x = RstackFull(m)
    PROVE  /\ x \in MtdType /\ ThreadInv(a, x, n, t, f, off) /\ x.warned /\ Len(x.rstack) = setup.max
           /\ x.over = m.over
<1>t. m.rstack \in Seq(Frame) /\ Len(m.rstack) \in Nat /\ m.over \in Nat /\ m.losts \in Nat /\ m.warned \in BOOLEAN
  BY DEF MtdType
<1>1. Len(m.rstack) = setup.max /\ setup.max \in 1 .. Len(m.rstack)
  <2>1. Limited(setup, m)
    BY DEF ThreadInv, StackInv
  <2>2. setup.max \in Nat \ {0}
    BY DEF SetupOK
  <2>3. Len(m.rstack) + m.over >= setup.max
    BY DEF StackFull, Idx
  <2>4. Len(m.rstack) = setup.max
    BY <1>t, <2>1, <2>2, <2>3 DEF Limited
  <2> QED BY <2>2, <2>4
<1>2. CASE m.warned
  BY <1>1, <1>2 DEF RstackFull
<1>3. CASE ~m.warned
  <2>1. PICK y : y = RecordTraceData(m, setup.max)
    OBVIOUS
  <2>2. m.rstack[setup.max].end = 0 /\ Growing(m, n) /\ StreamInv(m, n, t, f, off)
    BY <1>1 DEF ThreadInv, StackInv, Running
  <2>3. y \in MtdType /\ Kept(m, y, setup.max, n, t, f, off)
    BY <1>1, <2>1, <2>2, FlushKeeps
  <2>4. StreamInv(y, n, t, f, off) /\ SameFrames(m, y) /\ SameRest(m, y) /\ y.losts >= m.losts /\ Closed(y, off)
    BY <2>3 DEF Kept, ThreadInv
  <2>5. StackInv(setup, a, y, n)
    BY <2>3, <2>4, StackStays DEF ThreadInv
  <2>6. x = [y EXCEPT !.warned = TRUE]
    BY <2>1, <1>3 DEF RstackFull
  <2>7. /\ x \in MtdType /\ x.warned /\ x.rstack = y.rstack /\ x.over = y.over /\ x.stream = y.stream /\ x.losts = y.losts
        /\ x.in_count = y.in_count /\ x.out_count = y.out_count /\ x.filter = y.filter /\ x.record_idx = y.record_idx
    BY <2>3, <2>6 DEF MtdType
  <2>8. StackInv(setup, a, x, n)
    BY <2>5, <2>7, StackSame
  <2>9. Len(y.rstack) = setup.max /\ y.over = m.over /\ y.losts \in Nat
    BY <1>1, <2>3, <2>4 DEF SameFrames, SameRest, MtdType
  <2>10. Flushed(x)
    <3>1. ASSUME x.losts = 0 PROVE AllWritten(x)
      <4>1. y.losts = m.losts
        BY <3>1, <2>4, <2>7, <2>9, <1>t
      <4>2. \A j \in 1 .. setup.max : Written(y.rstack[j]) \/ Skipped(y.rstack[j])
        BY <4>1, <2>3 DEF Kept
      <4> QED BY <4>2, <2>7, <2>9 DEF AllWritten
    <3> QED BY <3>1, <2>7 DEF Flushed
  <2>11. StreamInv(x, n, t, f, off) /\ Closed(x, off)
    BY <2>4, <2>7, <2>10, StreamSame
  <2> QED BY <2>7, <2>8, <2>9, <2>11 DEF ThreadInv
<1> QED BY <1>t, <1>2, <1>3

\* The frame of call number n + 1, to g
TopFrame(m, g, o, n, top) ==
    /\ top \in Frame /\ top.id = n + 1 /\ top.fn = g /\ top.end = 0 /\ top.depth = m.record_idx /\ top.saved = m.filter
    /\ ~Written(top) /\ (~Skipped(top) => top.start = now')
    /\ "CYGPROF" \in top.flags <=> setup.kind[g] = "cygprof"
    /\ "FILTERED" \in top.flags <=> "FILTER_IN" \in o.flags
    /\ "NOTRACE" \in top.flags <=> "FILTER_OUT" \in o.flags /\ "FILTER_IN" \notin o.flags

\* The frame pushed at the entry to a function, with the flags of mcount_entry_filter_record()
LEMMA NewTop ==
    ASSUME NEW m \in MtdType, SetupOK(setup), NEW g \in Functions, NEW o, Checked(m, g, o),
           MaxCalls \in Nat, calls \in 0 .. MaxCalls - 1, now' \in Nat,
           NEW fr, fr = NewFrame(o.m, g, o),
           NEW top, top = [fr EXCEPT !.flags = EntryFlags(o.m, fr, o.flags)]
    PROVE  TopFrame(m, g, o, calls, top) /\ "DISABLED" \notin top.flags
<1> DEFINE mine == IF setup.kind[g] = "cygprof" THEN {"CYGPROF"} ELSE {}
           hers == IF o.result = "IN" THEN mine ELSE mine \cup {"NORECORD"}
           time == IF o.result = "IN" THEN now' ELSE 0
           flags == EntryFlags(o.m, fr, o.flags)
<1>1. fr = [id |-> calls + 1, fn |-> g, depth |-> o.m.record_idx, end |-> 0, saved |-> o.saved, start |-> time, flags |-> hers]
  BY DEF NewFrame
<1>2. hers \subseteq {"CYGPROF", "NORECORD"} /\ ("CYGPROF" \in hers <=> setup.kind[g] = "cygprof")
      /\ (o.result # "IN" => "NORECORD" \in hers)
  OBVIOUS
<1>3. time \in Nat /\ (o.result = "IN" => time = now')
  OBVIOUS
<1> HIDE DEF hers, time
<1>4. fr.flags = hers
  BY <1>1
<1>5. /\ hers \subseteq flags /\ flags \subseteq hers \cup {"NORECORD", "FILTERED", "NOTRACE", "TRACE", "CALLER"}
      /\ "FILTERED" \in flags <=> "FILTER_IN" \in o.flags
      /\ "NOTRACE" \in flags <=> "FILTER_OUT" \in o.flags /\ "FILTER_IN" \notin o.flags
  BY <1>2, <1>4 DEF EntryFlags
<1> HIDE DEF flags
<1>6. flags \in SUBSET FrameFlags /\ "WRITTEN" \notin flags /\ "DISABLED" \notin flags
      /\ ("CYGPROF" \in flags <=> setup.kind[g] = "cygprof")
  BY <1>2, <1>5 DEF FrameFlags
<1>7. top = [id |-> calls + 1, fn |-> g, depth |-> o.m.record_idx, end |-> 0, saved |-> o.saved, start |-> time, flags |-> flags]
  BY <1>1 DEF flags
<1>8. m.record_idx \in Nat /\ m.filter \in FilterState /\ o.m.record_idx = m.record_idx /\ o.saved = m.filter
  BY DEF MtdType, Checked
<1>9. calls + 1 \in 1 .. MaxCalls
  OBVIOUS
<1>10. top \in Frame
  BY <1>3, <1>6, <1>7, <1>8, <1>9 DEF Frame
<1>11. ~Skipped(top) => top.start = now'
  <2>1. ~Skipped(top) => "NORECORD" \notin flags
    BY <1>7 DEF Skipped
  <2>2. o.result # "IN" => "NORECORD" \in flags
    BY <1>2, <1>5
  <2> QED BY <2>1, <2>2, <1>3, <1>7
<1> QED BY <1>5, <1>6, <1>7, <1>8, <1>10, <1>11 DEF TopFrame, Written

\* z is the thread with the frame top pushed, however the depth is counted.
Pushed(m, o, top, z) ==
    /\ z \in MtdType /\ z.rstack = Append(m.rstack, top) /\ z.stream = m.stream /\ z.losts = m.losts
    /\ ~z.warned /\ z.over = 0 /\ z.filter = o.m.filter
    /\ z.in_count = o.m.in_count /\ z.out_count = o.m.out_count

\* The call to g is entered by a thread whose stack is not full, with the outcome o of the filters.
Entering(m, a, n, t, f, off, off2, g, o) ==
    /\ m \in MtdType /\ a \in Seq(Calls) /\ n \in Nat /\ t \in Nat /\ f \in 0 .. n /\ off \in BOOLEAN
    /\ off2 \in BOOLEAN /\ (off => off2) /\ (~o.m.enabled => off2)
    /\ now' \in Nat /\ t <= now' /\ g \in Functions /\ SetupOK(setup)
    /\ ThreadInv(a, m, n, t, f, off) /\ ~StackFull(m) /\ Checked(m, g, o)

\* What holds of the thread z with the new frame top, when its depth is counted and before
Grown(m, a, n, f, off2, g, top, z) ==
    /\ StreamInv(z, n + 1, now', f, off2) /\ Closed(z, off2) /\ Growing(z, n + 1)
    /\ Len(z.rstack) = Len(m.rstack) + 1 /\ z.rstack[Len(m.rstack) + 1] = top
    /\ z.record_idx = (IF Recordable(top) THEN m.record_idx + 1 ELSE m.record_idx) =>
          StackInv(setup, Append(a, [fn |-> g, hooked |-> TRUE]), z, n + 1)

\* What holds of the thread with a new frame, though its depth may not be counted yet
LEMMA PushKeeps ==
    ASSUME NEW m, NEW a, NEW n, NEW t, NEW f, NEW off, NEW off2, NEW g, NEW o, NEW top, NEW z,
           Entering(m, a, n, t, f, off, off2, g, o), TopFrame(m, g, o, n, top), "DISABLED" \in top.flags => off2,
           Pushed(m, o, top, z)
    PROVE  Grown(m, a, n, f, off2, g, top, z)
<1> /\ m \in MtdType /\ a \in Seq(Calls) /\ n \in Nat /\ t \in Nat /\ f \in 0 .. n /\ off \in BOOLEAN
    /\ off2 \in BOOLEAN /\ (off => off2) /\ now' \in Nat /\ t <= now' /\ g \in Functions /\ SetupOK(setup)
    /\ ThreadInv(a, m, n, t, f, off) /\ ~StackFull(m) /\ Checked(m, g, o)
  BY DEF Entering
<1>t. m.rstack \in Seq(Frame) /\ Len(m.rstack) \in Nat /\ m.over \in Nat /\ z \in MtdType /\ top \in Frame
  BY DEF MtdType, Pushed, TopFrame
<1>1. StackInv(setup, a, m, n) /\ StreamInv(m, n, t, f, off) /\ Closed(m, off)
  BY DEF ThreadInv
<1>2. setup.max \in Nat /\ Len(m.rstack) < setup.max /\ m.over = 0
  <2>1. Limited(setup, m)
    BY <1>1 DEF StackInv
  <2>2. setup.max \in Nat
    BY DEF SetupOK
  <2>3. ~(Len(m.rstack) + m.over >= setup.max)
    BY DEF StackFull, Idx
  <2> QED BY <1>t, <2>1, <2>2, <2>3 DEF Limited
<1>3. /\ top.id = n + 1 /\ top.fn = g /\ top.end = 0 /\ top.depth = m.record_idx /\ top.saved = m.filter
      /\ ~Written(top) /\ (~Skipped(top) => top.start = now')
      /\ ("CYGPROF" \in top.flags <=> setup.kind[g] = "cygprof")
  BY DEF TopFrame
<1>4. /\ z.rstack = Append(m.rstack, top) /\ z.stream = m.stream /\ z.losts = m.losts
      /\ ~z.warned /\ z.over = 0 /\ z.filter = o.m.filter
  BY DEF Pushed
<1>5. StreamInv(z, n + 1, now', f, off2) /\ Closed(z, off2)
  <2>1. PICK t2 \in Nat : t2 = now'
    OBVIOUS
  <2>2. ~Skipped(top) => top.start = t2
    BY <2>1, <1>3
  <2>3. t <= t2 /\ StreamInv(m, n, t, f, off) /\ top.id = n + 1 /\ ~Written(top) /\ ~z.warned /\ z.over = 0
        /\ z.rstack = Append(m.rstack, top) /\ z.stream = m.stream /\ z.losts = m.losts
    BY <2>1, <1>1, <1>3, <1>4
  <2>4. Begun(m, z, top, n, t2, off2)
    BY <2>2, <2>3, <1>t DEF Begun
  <2>5. StreamInv(z, n + 1, t2, f, off2) /\ (Closed(m, off) => Closed(z, off2))
    BY <2>3, <2>4, StreamPushed
  <2> QED BY <2>1, <2>5, <1>1
<1>6. Growing(z, n + 1)
  <2>1. Growing(m, n) /\ Running(m)
    BY <1>1 DEF StackInv
  <2> QED BY <2>1, <1>t, <1>3, <1>4, GrowingPushed
<1>7. Len(z.rstack) = Len(m.rstack) + 1 /\ z.rstack[Len(m.rstack) + 1] = top
  BY <1>t, <1>4, PushFacts
<1>8. ASSUME z.record_idx = (IF Recordable(top) THEN m.record_idx + 1 ELSE m.record_idx)
      PROVE  StackInv(setup, Append(a, [fn |-> g, hooked |-> TRUE]), z, n + 1)
  <2>1. OpenLimit(z.filter)
    BY <1>4 DEF Checked
  <2>2. /\ z.in_count = IF "FILTERED" \in top.flags THEN m.in_count + 1 ELSE m.in_count
        /\ z.out_count = IF "NOTRACE" \in top.flags THEN m.out_count + 1 ELSE m.out_count
    BY DEF Pushed, Checked, TopFrame
  <2>3. "CYGPROF" \in top.flags <=> setup.kind[top.fn] = "cygprof"
    BY <1>3
  <2>4. StackInv(setup, Append(a, [fn |-> top.fn, hooked |-> TRUE]), z, n + 1)
    <3>1. PICK c : c = setup
      OBVIOUS
    <3> QED BY <1>t, <1>1, <1>2, <1>3, <1>4, <1>8, <2>1, <2>2, <2>3, <3>1, StackPushed
  <2> QED BY <2>4, <1>3
<1> QED BY <1>5, <1>6, <1>7, <1>8 DEF Grown

\* What holds of the thread x when call number n has been entered, unless it is to finish
Done(x, b, n, t, f, off) ==
    /\ x \in MtdType /\ StreamInv(x, n, t, f, off) /\ Closed(x, off)
    /\ ~x.finish => StackInv(setup, b, x, n)

\* x differs from y in what does not matter.
Alike(y, x) ==
    /\ x \in MtdType /\ x.rstack = y.rstack /\ x.over = y.over /\ x.in_count = y.in_count /\ x.out_count = y.out_count
    /\ x.filter = y.filter /\ x.record_idx = y.record_idx /\ x.warned = y.warned
    /\ x.stream = y.stream /\ x.losts = y.losts /\ (y.finish => x.finish)

\* What holds after a call is not about the other fields.
LEMMA DoneAlike ==
    ASSUME NEW x, NEW y, NEW b, NEW n, NEW t, NEW f, NEW off, Alike(y, x), Done(y, b, n, t, f, off)
    PROVE  Done(x, b, n, t, f, off)
<1>1. x \in MtdType
  BY DEF Alike
<1>2. Flushed(x)
  <2>1. Flushed(y)
    BY DEF Done, StreamInv
  <2> QED BY <2>1 DEF Flushed, AllWritten, Alike
<1>3. StreamInv(x, n, t, f, off) /\ (Closed(y, off) => Closed(x, off))
  BY <1>2, StreamSame DEF Alike, Done
<1>4. ASSUME ~x.finish PROVE StackInv(setup, b, x, n)
  <2>1. StackInv(setup, b, y, n)
    BY <1>4 DEF Done, Alike
  <2>2. PICK c : c = setup
    OBVIOUS
  <2> QED BY <2>1, <2>2, StackSame DEF Alike
<1> QED BY <1>1, <1>3, <1>4 DEF Done

\* A frame that is disabled when tracing is off
LEMMA DisabledTop ==
    ASSUME NEW m, NEW g, NEW o, NEW n, NEW top, TopFrame(m, g, o, n, top),
           NEW top2, top2 = [top EXCEPT !.flags = @ \cup {"DISABLED"}]
    PROVE  TopFrame(m, g, o, n, top2) /\ (Recordable(top2) <=> Recordable(top))
<1>1. top \in Frame
  BY DEF TopFrame
<1>2. PICK flags : flags = top.flags \cup {"DISABLED"}
  OBVIOUS
<1>3. top.flags \in SUBSET FrameFlags
  BY <1>1 DEF Frame
<1>4. flags \in SUBSET FrameFlags /\ \A e : e # "DISABLED" => (e \in flags <=> e \in top.flags)
  BY <1>2, <1>3 DEF FrameFlags
<1>5. top2 = [top EXCEPT !.flags = flags]
  BY <1>1, <1>2 DEF Frame
<1>6. /\ top2 \in Frame /\ top2.flags = flags /\ top2.id = top.id /\ top2.fn = top.fn /\ top2.end = top.end
      /\ top2.depth = top.depth /\ top2.saved = top.saved /\ top2.start = top.start
  BY <1>1, <1>4, <1>5 DEF Frame
<1>7. Skipped(top2)
  BY <1>2, <1>6 DEF Skipped
<1>8. (Written(top2) <=> Written(top)) /\ (Recordable(top2) <=> Recordable(top))
  BY <1>4, <1>6 DEF Written, Recordable
<1>9. /\ "CYGPROF" \in top2.flags <=> "CYGPROF" \in top.flags
      /\ "FILTERED" \in top2.flags <=> "FILTERED" \in top.flags
      /\ "NOTRACE" \in top2.flags <=> "NOTRACE" \in top.flags
  BY <1>4, <1>6
<1>10. /\ top2.id = n + 1 /\ top2.fn = g /\ top2.end = 0 /\ top2.depth = m.record_idx /\ top2.saved = m.filter
       /\ ~Written(top2)
  BY <1>6, <1>8 DEF TopFrame
<1>11. /\ "CYGPROF" \in top.flags <=> setup.kind[g] = "cygprof"
       /\ "FILTERED" \in top.flags <=> "FILTER_IN" \in o.flags
       /\ "NOTRACE" \in top.flags <=> "FILTER_OUT" \in o.flags /\ "FILTER_IN" \notin o.flags
  BY DEF TopFrame
<1>12. TopFrame(m, g, o, n, top2)
  BY <1>6, <1>7, <1>9, <1>10, <1>11, Zenon DEF TopFrame
<1> QED BY <1>8, <1>12

\* The frame after the counters of the thread are set, disabled if tracing is off
LEMMA CountedTop ==
    ASSUME NEW m, NEW a, NEW n, NEW t, NEW f, NEW off, NEW off2, NEW g, NEW o, NEW top,
           Entering(m, a, n, t, f, off, off2, g, o), TopFrame(m, g, o, n, top), "DISABLED" \notin top.flags,
           Recordable(top), NEW b, b = Append(a, [fn |-> g, hooked |-> TRUE]),
           NEW d, Pushed(m, o, top, d), d.record_idx = m.record_idx + 1, d.enabled = o.m.enabled,
           NEW x, x = DisableIfOff(d, Len(m.rstack) + 1)
    PROVE  /\ Done(x, b, n + 1, now', f, off2) /\ SameRest(d, x) /\ Len(x.rstack) = Len(m.rstack) + 1
<1> DEFINE N == Len(m.rstack) + 1
<1>0. /\ m \in MtdType /\ a \in Seq(Calls) /\ n \in Nat /\ f \in 0 .. n /\ off2 \in BOOLEAN /\ g \in Functions
      /\ now' \in Nat /\ (~o.m.enabled => off2) /\ f \in Nat /\ n + 1 \in Nat
  BY DEF Entering
<1>t. m.rstack \in Seq(Frame) /\ N \in Nat /\ N \in 1 .. N
  BY <1>0 DEF MtdType
<1>b. b \in Seq(Calls)
  BY <1>0 DEF Calls
<1>d. d \in MtdType /\ d.rstack = Append(m.rstack, top)
  BY DEF Pushed
<1> HIDE DEF N
<1>1. CASE d.enabled
  <2>1. x = d
    BY <1>1 DEF DisableIfOff
  <2>2. Grown(m, a, n, f, off2, g, top, d)
    BY PushKeeps
  <2> QED BY <2>1, <2>2, <1>d DEF Grown, Done, SameRest
<1>2. CASE ~d.enabled
  <2>1. PICK top2 : top2 = [top EXCEPT !.flags = @ \cup {"DISABLED"}]
    OBVIOUS
  <2>2. TopFrame(m, g, o, n, top2) /\ Recordable(top2)
    BY <2>1, DisabledTop
  <2>3. PICK y : y = [d EXCEPT !.rstack = Append(m.rstack, top2)]
    OBVIOUS
  <2>4. [d EXCEPT !.rstack[N].flags = @ \cup {"DISABLED"}] = y
    <3>1. [Append(m.rstack, top) EXCEPT ![N] = top2] = Append(m.rstack, top2)
      <4>1. PICK u : u = [Append(m.rstack, top) EXCEPT ![N] = top2]
        OBVIOUS
      <4>2. PICK v : v = Append(m.rstack, top2)
        OBVIOUS
      <4>3. top \in Frame /\ top2 \in Frame
        BY <2>2 DEF TopFrame
      <4>4. /\ v \in Seq(Frame) /\ Len(v) = N /\ v[N] = top2 /\ \A j \in 1 .. N - 1 : v[j] = m.rstack[j]
        BY <4>2, <4>3, <1>t, PushFacts DEF N
      <4>5. PICK w : w = Append(m.rstack, top)
        OBVIOUS
      <4>6. /\ w \in Seq(Frame) /\ Len(w) = N /\ \A j \in 1 .. N - 1 : w[j] = m.rstack[j]
        BY <4>5, <4>3, <1>t, PushFacts DEF N
      <4>7. v \in [1 .. N -> Frame] /\ w \in [1 .. N -> Frame]
        BY <4>4, <4>6
      <4>8. \A j \in 1 .. N : j = N \/ j \in 1 .. N - 1
        BY <1>t
      <4>9. [w EXCEPT ![N] = top2] = v
        BY <4>4, <4>6, <4>7, <4>8, <1>t
      <4> QED BY <4>2, <4>5, <4>9
    <3>2. Append(m.rstack, top)[N] = top
      BY <1>t DEF N
    <3>3. [d EXCEPT !.rstack[N].flags = @ \cup {"DISABLED"}] = [d EXCEPT !.rstack = [Append(m.rstack, top) EXCEPT ![N] = top2]]
      BY <3>2, <2>1, <1>d DEF MtdType
    <3> QED BY <3>1, <3>3, <2>3
  <2>5. top2 \in Frame /\ Append(m.rstack, top2) \in Seq(Frame) /\ top2.end = 0
    BY <2>2, <1>t, PushFacts DEF TopFrame
  <2>6. /\ y \in MtdType /\ y.rstack = Append(m.rstack, top2) /\ SameRest(d, y) /\ y.stream = d.stream
        /\ y.losts = d.losts
    BY <2>3, <2>5, <1>d DEF MtdType, SameRest
  <2>7. Pushed(m, o, top2, y)
    BY <2>6 DEF Pushed, SameRest
  <2>8. Grown(m, a, n, f, off2, g, top2, y)
    BY <2>2, <2>7, <1>0, <1>2, PushKeeps
  <2>9. /\ StreamInv(y, n + 1, now', f, off2) /\ Closed(y, off2) /\ Growing(y, n + 1)
        /\ Len(y.rstack) = N /\ y.rstack[N] = top2 /\ StackInv(setup, b, y, n + 1)
    BY <2>2, <2>6, <2>8 DEF Grown, SameRest, N
  <2>10. CASE ~d.enable_cached
    <3>1. x = y
      BY <1>2, <2>4, <2>10 DEF DisableIfOff, N
    <3> QED BY <3>1, <2>6, <2>9 DEF Done, N
  <2>11. CASE d.enable_cached
    <3>1. x = RecordTraceData(y, N)
      BY <1>2, <2>4, <2>11 DEF DisableIfOff, N
    <3>2. PICK t2 \in Nat : t2 = now'
      BY <1>0
    <3>3. PICK n2 \in Nat : n2 = n + 1
      BY <1>0
    <3>4. N \in 1 .. Len(y.rstack) /\ y.rstack[N].end = 0
      BY <2>5, <2>9, <1>t
    <3>5. Growing(y, n2) /\ StreamInv(y, n2, t2, f, off2) /\ StackInv(setup, b, y, n2)
      BY <3>2, <3>3, <2>9
    <3>6. x \in MtdType /\ Kept(y, x, N, n2, t2, f, off2)
      <4>1. y \in MtdType /\ Growing(y, n2) /\ StreamInv(y, n2, t2, f, off2)
        BY <2>6, <3>5
      <4> QED BY <4>1, <3>1, <3>4, <1>0, FlushKeeps
    <3>7. StreamInv(x, n2, t2, f, off2) /\ Closed(x, off2) /\ SameRest(y, x) /\ SameFrames(y, x)
      BY <3>6, <2>9 DEF Kept
    <3>9. StackInv(setup, b, x, n2)
      <4>1. PICK c : c = setup
        OBVIOUS
      <4> QED BY <4>1, <3>5, <3>6, <3>7, <2>6, <1>b, StackStays
    <3>8. SameRest(d, x)
      BY <2>6, <3>7 DEF SameRest
    <3> QED BY <3>2, <3>3, <3>6, <3>7, <3>8, <3>9, <2>9 DEF Done, SameFrames, N
  <2> QED BY <2>10, <2>11
<1> QED BY <1>1, <1>2

\* mcount_entry_filter_record()
LEMMA EntryRecorded ==
    ASSUME NEW m, NEW a, NEW n, NEW t, NEW f, NEW off, NEW off2, NEW g, NEW o,
           Entering(m, a, n, t, f, off, off2, g, o), n = calls, MaxCalls \in Nat, calls \in 0 .. MaxCalls - 1,
           NEW b, b = Append(a, [fn |-> g, hooked |-> TRUE]),
           NEW x, x = EntryRecord(o.m, NewFrame(o.m, g, o), o.flags)
    PROVE  Done(x, b, n + 1, now', f, off2) /\ x.enabled = o.m.enabled
<1> DEFINE N == Len(m.rstack) + 1
<1>0. /\ m \in MtdType /\ a \in Seq(Calls) /\ n \in Nat /\ f \in 0 .. n /\ off2 \in BOOLEAN /\ g \in Functions
      /\ now' \in Nat /\ f \in Nat /\ n + 1 \in Nat /\ SetupOK(setup) /\ Checked(m, g, o)
  BY DEF Entering
<1>1. PICK fr : fr = NewFrame(o.m, g, o)
  OBVIOUS
<1>2. PICK top : top = [fr EXCEPT !.flags = EntryFlags(o.m, fr, o.flags)]
  OBVIOUS
<1>3. TopFrame(m, g, o, n, top) /\ "DISABLED" \notin top.flags
  <2>1. TopFrame(m, g, o, calls, top) /\ "DISABLED" \notin top.flags
    BY <1>0, <1>1, <1>2, NewTop
  <2> QED BY <2>1
<1>t. m.rstack \in Seq(Frame) /\ N \in Nat /\ N \in 1 .. N /\ top \in Frame
  BY <1>0, <1>3 DEF MtdType, TopFrame
<1>4. PICK z : z = [o.m EXCEPT !.rstack = Append(@, top)]
  OBVIOUS
<1>5. o.m \in MtdType /\ o.m.rstack = m.rstack
  BY <1>0 DEF Checked
<1>6. x = TopRecord(z, N, o.flags)
  <2>1. x = LET p == [fr EXCEPT !.flags = EntryFlags(o.m, fr, o.flags)]
            IN TopRecord([o.m EXCEPT !.rstack = Append(@, p)], Len(o.m.rstack) + 1, o.flags)
    BY <1>1 DEF EntryRecord
  <2> QED BY <2>1, <1>2, <1>4, <1>5
<1>7. Append(m.rstack, top) \in Seq(Frame)
  BY <1>t
<1>8. /\ z \in MtdType /\ z.rstack = Append(m.rstack, top) /\ z.stream = o.m.stream /\ z.losts = o.m.losts
      /\ z.warned = o.m.warned /\ z.over = o.m.over /\ z.filter = o.m.filter /\ z.in_count = o.m.in_count
      /\ z.out_count = o.m.out_count /\ z.record_idx = o.m.record_idx /\ z.enabled = o.m.enabled
  BY <1>4, <1>5, <1>7 DEF MtdType
<1>9. m.over = 0
  <2>1. Limited(setup, m) /\ ~(Len(m.rstack) + m.over >= setup.max)
    BY DEF Entering, ThreadInv, StackInv, StackFull, Idx
  <2>2. setup.max \in Nat /\ Len(m.rstack) \in Nat /\ m.over \in Nat
    <3>1. setup.max \in Nat
      BY <1>0 DEF SetupOK
    <3>2. m.over \in Nat
      BY <1>0 DEF MtdType
    <3> QED BY <3>1, <3>2, <1>t
  <2> QED BY <2>1, <2>2 DEF Limited
<1>10. Pushed(m, o, top, z) /\ z.record_idx = m.record_idx
  BY <1>0, <1>8, <1>9 DEF Pushed, Checked
<1>11. Grown(m, a, n, f, off2, g, top, z)
  BY <1>3, <1>10, PushKeeps
<1> HIDE DEF N
<1>12. CASE "FINISH" \in o.flags
  <2>1. PICK y : y = RecordTraceData(z, N)
    OBVIOUS
  <2>2. x = [y EXCEPT !.finish = TRUE]
    BY <1>6, <1>12, <2>1 DEF TopRecord
  <2>3. PICK t2 \in Nat : t2 = now'
    BY <1>0
  <2>4. PICK n2 \in Nat : n2 = n + 1
    BY <1>0
  <2>5. N \in 1 .. Len(z.rstack) /\ z.rstack[N].end = 0 /\ Growing(z, n2) /\ StreamInv(z, n2, t2, f, off2) /\ Closed(z, off2)
    BY <1>3, <1>11, <1>t, <2>3, <2>4 DEF Grown, N, TopFrame
  <2>6. y \in MtdType /\ Kept(z, y, N, n2, t2, f, off2)
    <3>1. z \in MtdType /\ f \in Nat /\ off2 \in BOOLEAN
      BY <1>0, <1>8
    <3>2. N \in 1 .. Len(z.rstack) /\ z.rstack[N].end = 0 /\ Growing(z, n2) /\ StreamInv(z, n2, t2, f, off2)
      BY <2>5
    <3> QED BY <3>1, <3>2, <2>1, FlushKeeps
  <2>7. StreamInv(y, n2, t2, f, off2) /\ Closed(y, off2) /\ SameRest(z, y)
    BY <2>5, <2>6 DEF Kept
  <2>8. /\ x \in MtdType /\ x.finish /\ x.rstack = y.rstack /\ x.stream = y.stream /\ x.losts = y.losts
        /\ x.warned = y.warned /\ x.over = y.over /\ x.enabled = y.enabled
    BY <2>2, <2>6 DEF MtdType
  <2>9. Flushed(x)
    BY <2>7, <2>8 DEF StreamInv, Flushed, AllWritten
  <2>10. StreamInv(x, n2, t2, f, off2) /\ Closed(x, off2)
    <3>2. x \in MtdType /\ x.rstack = y.rstack /\ x.stream = y.stream /\ x.losts = y.losts
      BY <2>8
    <3>3. StreamInv(x, n2, t2, f, off2) /\ (Closed(y, off2) => Closed(x, off2))
      BY <3>2, <2>7, <2>9, StreamSame
    <3> QED BY <3>3, <2>7
  <2> QED BY <2>3, <2>4, <2>7, <2>8, <2>10, <1>8 DEF Done, SameRest
<1>13. CASE "FINISH" \notin o.flags /\ ~Recordable(top)
  <2>1. z.rstack[N] = top
    BY <1>11 DEF Grown, N
  <2>2. x = z
    BY <1>6, <1>13, <2>1 DEF TopRecord, Recordable
  <2>3. StackInv(setup, b, z, n + 1)
    BY <1>10, <1>11, <1>13 DEF Grown
  <2> QED BY <2>2, <2>3, <1>8, <1>11 DEF Done, Grown
<1>14. CASE "FINISH" \notin o.flags /\ Recordable(top)
  <2>1. PICK d : d = Counted(z)
    OBVIOUS
  <2>2. m.record_idx \in Nat
    BY <1>0 DEF MtdType
  <2>3. /\ d \in MtdType /\ d.rstack = z.rstack /\ d.stream = z.stream /\ d.losts = z.losts
        /\ d.warned = z.warned /\ d.over = z.over /\ d.filter = z.filter /\ d.in_count = z.in_count
        /\ d.out_count = z.out_count /\ d.record_idx = m.record_idx + 1 /\ d.enabled = z.enabled
    <3>1. PICK r \in Nat : r = m.record_idx + 1
      BY <2>2
    <3>2. d = [z EXCEPT !.record_idx = r]
      BY <2>1, <3>1, <1>8, <1>10 DEF Counted, MtdType
    <3> QED BY <3>1, <3>2, <1>8 DEF MtdType
  <2>4. Pushed(m, o, top, d)
    BY <2>3, <1>10 DEF Pushed
  <2>5. PICK y : y = DisableIfOff(d, N)
    OBVIOUS
  <2>6. Done(y, b, n + 1, now', f, off2) /\ SameRest(d, y)
    BY <2>3, <2>4, <2>5, <1>3, <1>8, <1>14, CountedTop DEF N
  <2>7. z.rstack[N] = top
    BY <1>11 DEF Grown, N
  <2>8. x = [y EXCEPT !.enable_cached = IF o.flags \cap {"TRACE_ON", "TRACE_OFF"} # {} THEN z.enabled ELSE @]
    BY <1>6, <1>14, <2>1, <2>5, <2>7 DEF TopRecord, Recordable
  <2>9. y \in MtdType
    BY <2>6 DEF Done
  <2>10. PICK on \in BOOLEAN : x = [y EXCEPT !.enable_cached = on]
    <3>1. y.enable_cached \in BOOLEAN /\ z.enabled \in BOOLEAN
      BY <2>9, <1>8 DEF MtdType
    <3>2. CASE o.flags \cap {"TRACE_ON", "TRACE_OFF"} # {}
      BY <3>1, <3>2, <2>8
    <3>3. CASE o.flags \cap {"TRACE_ON", "TRACE_OFF"} = {}
      BY <3>1, <3>3, <2>8
    <3> QED BY <3>2, <3>3
  <2>11. Alike(y, x) /\ x.enabled = y.enabled
    BY <2>9, <2>10 DEF MtdType, Alike
  <2>12. Done(x, b, n + 1, now', f, off2)
    BY <2>6, <2>11, DoneAlike
  <2> QED BY <2>3, <2>6, <2>11, <2>12, <1>8 DEF SameRest
<1> QED BY <1>12, <1>13, <1>14

\* A call that leaves no frame
LEMMA CallUnseen ==
    ASSUME NEW m, NEW z, NEW a, NEW n, NEW t, NEW t2, NEW f, NEW off, NEW off2, NEW e, Unseen(setup, m, e, z),
           a \in Seq(Calls), n \in Nat, t \in Nat, t2 \in Nat, t <= t2, f \in Nat, off \in BOOLEAN, off2 \in BOOLEAN,
           off => off2, ThreadInv(a, m, n, t, f, off), z.stream = m.stream, z.losts = m.losts, Flushed(z)
    PROVE  Done(z, Append(a, e), n + 1, t2, f, off2)
<1>1. m \in MtdType /\ z \in MtdType /\ z.rstack = m.rstack
  BY DEF Unseen
<1>2. StackInv(setup, Append(a, e), z, n + 1)
  <2>1. PICK c : c = setup
    OBVIOUS
  <2>2. StackInv(c, a, m, n) /\ Unseen(c, m, e, z)
    BY <2>1 DEF ThreadInv
  <2>3. StackInv(c, Append(a, e), z, n + 1)
    BY <2>2, StackUnseen
  <2> QED BY <2>1, <2>3
<1>3. StreamInv(z, n + 1, t2, f, off2) /\ Closed(z, off2)
  <2>1. PICK n2 \in Nat : n2 = n + 1
    OBVIOUS
  <2>2. n <= n2 /\ StreamInv(m, n, t, f, off) /\ Closed(m, off)
    BY <2>1 DEF ThreadInv
  <2>3. Later(n, t, off, n2, t2, off2)
    BY <2>2 DEF Later
  <2>4. StreamInv(z, n2, t2, f, off2) /\ (Closed(m, off) => Closed(z, off2))
    BY <2>2, <2>3, <1>1, StreamStays
  <2> QED BY <2>1, <2>2, <2>4
<1> QED BY <1>1, <1>2, <1>3 DEF Done

\* The exits the program will see are not more than its calls.
LEMMA HooksBounded ==
    ASSUME NEW a \in Seq(Calls)
    PROVE  Cardinality(Hooks(a)) \in Nat /\ Cardinality(Hooks(a)) <= Len(a)
<1>1. Hooks(a) \in SUBSET (1 .. Len(a)) /\ Len(a) \in Nat
  BY DEF Hooks
<1>2. IsFiniteSet(1 .. Len(a)) /\ Cardinality(1 .. Len(a)) = Len(a)
  <2>1. PICK k \in Nat : k = Len(a)
    BY <1>1
  <2>2. IsFiniteSet(1 .. k) /\ Cardinality(1 .. k) = k
    BY FS_Interval
  <2> QED BY <2>1, <2>2
<1> QED BY <1>1, <1>2, FS_Subset, FS_CardinalityType

\* The thread m calls g, as call number n + 1.
Calling(m, a, n, t, f, off, g, met) ==
    /\ m \in MtdType /\ a \in Seq(Calls) /\ n \in Nat /\ t \in Nat /\ f \in 0 .. n /\ off \in BOOLEAN
    /\ now' \in Nat /\ t <= now' /\ g \in Functions /\ met \in BOOLEAN /\ SetupOK(setup) /\ KeepsFilters(setup)
    /\ ThreadInv(a, m, n, t, f, off) /\ n = calls /\ MaxCalls \in Nat /\ n < MaxCalls

\* The stack is full: an XRay call never finds it so.
LEMMA CallBeyond ==
    ASSUME NEW m, NEW a, NEW n, NEW t, NEW f, NEW off, NEW off2, NEW g, NEW met, Calling(m, a, n, t, f, off, g, met),
           off2 \in BOOLEAN, off => off2, StackFull(m), NEW x, x = Entered(g, FilterCheck(m, g, met))
    PROVE  /\ x.hooked \in BOOLEAN /\ x.m.room = 0
           /\ Done(x.m, Append(a, [fn |-> g, hooked |-> x.hooked]), n + 1, now', f, off2)
<1>0. /\ m \in MtdType /\ a \in Seq(Calls) /\ n \in Nat /\ t \in Nat /\ f \in Nat /\ off \in BOOLEAN
      /\ now' \in Nat /\ t <= now' /\ g \in Functions /\ SetupOK(setup)
      /\ ThreadInv(a, m, n, t, f, off) /\ n < MaxCalls /\ MaxCalls \in Nat
  BY DEF Calling
<1>1. PICK y : y = RstackFull(m)
  OBVIOUS
<1>2. /\ y \in MtdType /\ ThreadInv(a, y, n, t, f, off) /\ y.warned /\ Len(y.rstack) = setup.max
      /\ y.over = m.over
  BY <1>0, <1>1, FullFlushed
<1>3. setup.max \in Nat \ {0} /\ setup.kind[g] \in {"pg", "cygprof", "xray"} /\ m.over \in Nat
  BY <1>0 DEF SetupOK, MtdType
<1>4. FilterCheck(m, g, met) = [m |-> y, result |-> "RSTACK", flags |-> {}, saved |-> m.filter]
  BY <1>1 DEF FilterCheck, Outcome
<1>5. setup.kind[g] # "xray"
  <2>1. setup.kind[g] = "xray" => MaxCalls <= setup.max
    BY <1>0 DEF Calling, KeepsFilters
  <2>2. Cardinality(Hooks(a)) >= setup.max
    BY DEF Calling, ThreadInv, StackInv, FramesFollow, StackFull
  <2>3. Len(a) \in Nat /\ Len(a) <= n
    BY <1>0 DEF ThreadInv, StackInv
  <2> QED BY <2>1, <2>2, <2>3, <1>0, <1>3, HooksBounded
<1>6. OpenLimit(y.filter) /\ (y.rstack # << >>)
  <2>1. Len(y.rstack) # 0
    BY <1>2, <1>3
  <2> QED BY <1>2, <2>1 DEF ThreadInv, StackInv, LimitsOpen
<1>7. PICK e : e = [fn |-> g, hooked |-> x.hooked]
  OBVIOUS
<1>8. CASE setup.kind[g] = "pg"
  <2>1. x = [m |-> [y EXCEPT !.room = 0], hooked |-> FALSE]
    <3>1. PICK o : o = FilterCheck(m, g, met)
      OBVIOUS
    <3>2. o.m = y /\ o.result = "RSTACK"
      BY <3>1, <1>4
    <3>3. ~Hooked(g, o)
      BY <3>2, <1>8 DEF Hooked
    <3>4. Hooked(g, o) = FALSE
      BY <3>3, Zenon DEF Hooked
    <3> QED BY <3>1, <3>2, <3>4 DEF Entered
  <2>2. PICK z : z = [y EXCEPT !.room = 0]
    OBVIOUS
  <2>3. /\ z \in MtdType /\ z.room = 0 /\ z.rstack = y.rstack /\ z.stream = y.stream /\ z.losts = y.losts
        /\ z.warned = y.warned /\ z.over = y.over /\ z.filter = y.filter /\ z.in_count = y.in_count
        /\ z.out_count = y.out_count /\ z.record_idx = y.record_idx
    BY <2>2, <1>2 DEF MtdType
  <2>4. e \in Calls /\ ~e.hooked
    BY <2>1, <1>0, <1>7 DEF Calls
  <2>5. Unseen(setup, y, e, z)
    BY <2>3, <2>4, <1>2, <1>3, <1>6 DEF Unseen
  <2>6. Flushed(z)
    BY <2>3, <1>2 DEF ThreadInv, StreamInv, Flushed, AllWritten
  <2>7. Done(z, Append(a, e), n + 1, now', f, off2)
    BY <2>3, <2>5, <2>6, <1>0, <1>2, CallUnseen
  <2>8. x.m = z /\ x.hooked \in BOOLEAN
    BY <2>1, <2>2
  <2> QED BY <2>3, <2>7, <2>8, <1>7
<1>9. CASE setup.kind[g] = "cygprof"
  <2>1. x = [m |-> [Beyond(y) EXCEPT !.room = 0], hooked |-> TRUE]
    <3>1. PICK o : o = FilterCheck(m, g, met)
      OBVIOUS
    <3>2. o.m = y /\ o.result = "RSTACK"
      BY <3>1, <1>4
    <3>3. Hooked(g, o)
      BY <3>2, <1>9 DEF Hooked
    <3>4. Hooked(g, o) = TRUE
      BY <3>3, Zenon DEF Hooked
    <3> QED BY <3>1, <3>2, <3>4, <1>9 DEF Entered
  <2>2. PICK z : z = [Beyond(y) EXCEPT !.room = 0]
    OBVIOUS
  <2>3. /\ z \in MtdType /\ z.room = 0 /\ z.rstack = y.rstack /\ z.stream = y.stream /\ z.losts = y.losts
        /\ z.warned = y.warned /\ z.over = y.over + 1 /\ z.filter = y.filter /\ z.in_count = y.in_count
        /\ z.out_count = y.out_count /\ z.record_idx = y.record_idx
    <3>1. PICK k \in Nat : k = y.over + 1
      BY <1>2, <1>3
    <3>2. z = [y EXCEPT !.over = k, !.room = 0]
      BY <2>2, <3>1, <1>2 DEF Beyond, MtdType
    <3> QED BY <3>1, <3>2, <1>2 DEF MtdType
  <2>4. e \in Calls /\ e.hooked
    BY <2>1, <1>0, <1>7 DEF Calls
  <2>5. Unseen(setup, y, e, z)
    BY <2>3, <2>4, <1>2, <1>3, <1>6 DEF Unseen
  <2>6. Flushed(z)
    BY <2>3, <1>2 DEF ThreadInv, StreamInv, Flushed, AllWritten
  <2>7. Done(z, Append(a, e), n + 1, now', f, off2)
    BY <2>3, <2>5, <2>6, <1>0, <1>2, CallUnseen
  <2>8. x.m = z /\ x.hooked \in BOOLEAN
    BY <2>1, <2>2
  <2> QED BY <2>3, <2>7, <2>8, <1>7
<1> QED BY <1>3, <1>5, <1>8, <1>9

\* The stack is not full.
LEMMA CallFits ==
    ASSUME NEW m, NEW a, NEW n, NEW t, NEW f, NEW off, NEW off2, NEW g, NEW met, Calling(m, a, n, t, f, off, g, met),
           ~StackFull(m), NEW x, x = Entered(g, FilterCheck(m, g, met)),
           off2 \in BOOLEAN, off => off2, ~x.m.enabled => off2
    PROVE  /\ x.hooked \in BOOLEAN /\ x.m.room = 0
           /\ Done(x.m, Append(a, [fn |-> g, hooked |-> x.hooked]), n + 1, now', f, off2)
<1>0. /\ m \in MtdType /\ a \in Seq(Calls) /\ n \in Nat /\ t \in Nat /\ f \in Nat /\ off \in BOOLEAN /\ f \in 0 .. n
      /\ now' \in Nat /\ t <= now' /\ g \in Functions /\ SetupOK(setup) /\ KeepsFilters(setup) /\ met \in BOOLEAN
      /\ ThreadInv(a, m, n, t, f, off) /\ n < MaxCalls /\ MaxCalls \in Nat /\ n = calls
  BY DEF Calling
<1>1. PICK o : o = FilterCheck(m, g, met)
  OBVIOUS
<1>2. Checked(m, g, o)
  <2>1. LimitsOpen(m) /\ FiltersSaved(setup, m)
    BY <1>0 DEF ThreadInv, StackInv
  <2> QED BY <2>1, <1>0, <1>1, CheckPasses
<1>3. o.m \in MtdType /\ o.result \in {"IN", "OUT"}
  BY <1>2 DEF Checked
<1>4. PICK e : e = [fn |-> g, hooked |-> x.hooked]
  OBVIOUS
<1>7. n = calls /\ MaxCalls \in Nat /\ calls \in 0 .. MaxCalls - 1
  BY <1>0
<1>5. CASE ~Hooked(g, o)
  <2>1. x = [m |-> [o.m EXCEPT !.room = 0], hooked |-> FALSE]
    <3>1. Hooked(g, o) = FALSE
      BY <1>5, Zenon DEF Hooked
    <3> QED BY <3>1, <1>1 DEF Entered
  <2>2. setup.kind[g] = "pg" /\ o.result = "OUT"
    BY <1>3, <1>5 DEF Hooked
  <2>3. PICK z : z = [o.m EXCEPT !.room = 0]
    OBVIOUS
  <2>4. /\ z \in MtdType /\ z.room = 0 /\ z.rstack = o.m.rstack /\ z.stream = o.m.stream /\ z.losts = o.m.losts
        /\ z.warned = o.m.warned /\ z.over = o.m.over /\ z.filter = o.m.filter /\ z.in_count = o.m.in_count
        /\ z.out_count = o.m.out_count /\ z.record_idx = o.m.record_idx
    BY <2>3, <1>3 DEF MtdType
  <2>5. /\ z.rstack = m.rstack /\ z.stream = m.stream /\ z.losts = m.losts /\ ~z.warned /\ z.over = m.over
        /\ OpenLimit(z.filter) /\ z.in_count = m.in_count /\ z.out_count = m.out_count
        /\ z.record_idx = m.record_idx /\ (m.rstack = << >> => z.filter = m.filter)
    BY <2>2, <2>4, <1>2 DEF Checked
  <2>6. m.over = 0
    <3>1. Limited(setup, m) /\ ~(Len(m.rstack) + m.over >= setup.max)
      BY <1>0 DEF ThreadInv, StackInv, StackFull, Idx
    <3>2. setup.max \in Nat /\ m.over \in Nat
      BY <1>0 DEF SetupOK, MtdType
    <3>3. m.rstack \in Seq(Frame)
      BY <1>0 DEF MtdType
    <3>4. Len(m.rstack) \in Nat
      BY <3>3
    <3> QED BY <3>1, <3>2, <3>4 DEF Limited
  <2>7. e \in Calls /\ ~e.hooked /\ setup.max \in Nat
    BY <2>1, <1>0, <1>4 DEF Calls, SetupOK
  <2>8. Unseen(setup, m, e, z)
    BY <2>4, <2>5, <2>7, <1>0 DEF Unseen
  <2>9. Flushed(z)
    BY <2>5, <2>6 DEF Flushed
  <2>10. Done(z, Append(a, e), n + 1, now', f, off2)
    BY <2>5, <2>8, <2>9, <1>0, CallUnseen
  <2>11. x.m = z /\ x.hooked \in BOOLEAN
    BY <2>1, <2>3
  <2> QED BY <2>4, <2>10, <2>11, <1>4
<1>6. CASE Hooked(g, o)
  <2>1. PICK y : y = EntryRecord(o.m, NewFrame(o.m, g, o), o.flags)
    OBVIOUS
  <2>2. PICK z : z = [y EXCEPT !.room = 0]
    OBVIOUS
  <2>3. x = [m |-> z, hooked |-> TRUE]
    <3>1. Hooked(g, o) = TRUE
      BY <1>6, Zenon DEF Hooked
    <3> QED BY <3>1, <2>1, <2>2, <1>1, <1>3 DEF Entered
  <2>4. PICK b : b = Append(a, [fn |-> g, hooked |-> TRUE])
    OBVIOUS
  <2>5. y \in MtdType /\ y.enabled = o.m.enabled
    <3>1. PICK off3 : off3 = (off \/ ~o.m.enabled)
      OBVIOUS
    <3>2. off3 \in BOOLEAN /\ (off => off3) /\ (~o.m.enabled => off3)
      BY <3>1
    <3>3. Entering(m, a, n, t, f, off, off3, g, o)
      BY <3>2, <1>0, <1>2 DEF Entering
    <3>4. Done(y, b, n + 1, now', f, off3)
      BY <3>3, <2>1, <2>4, <1>7, EntryRecorded
    <3>5. y.enabled = o.m.enabled
      BY <3>3, <3>4, <2>1, <2>4, <1>7, EntryRecorded
    <3> QED BY <3>4, <3>5 DEF Done
  <2>6. Alike(y, z) /\ z.room = 0 /\ z.enabled = y.enabled
    BY <2>2, <2>5 DEF Alike, MtdType
  <2>7. Entering(m, a, n, t, f, off, off2, g, o)
    BY <2>3, <2>5, <2>6, <1>0, <1>2 DEF Entering
  <2>8. Done(y, b, n + 1, now', f, off2)
    BY <2>1, <2>4, <2>7, <1>7, EntryRecorded
  <2>9. Done(z, b, n + 1, now', f, off2)
    BY <2>6, <2>8, DoneAlike
  <2> QED BY <2>3, <2>4, <2>6, <2>9
<1> QED BY <1>5, <1>6

-----------------------------------------------------------------------------
(* Exit *)

\* The top frame is that of the function that returns, if its call has one.
LEMMA TopFollows ==
    ASSUME NEW m \in MtdType, NEW a \in Seq(Calls), NEW c, NEW n, StackInv(c, a, m, n), m.over = 0,
           Len(a) > 0, a[Len(a)].hooked
    PROVE  Len(m.rstack) > 0 /\ m.rstack[Len(m.rstack)].fn = a[Len(a)].fn
<1>1. Deeper(Front(a), a[Len(a)], a)
  BY HooksPopped
<1>2. PICK b : b = Front(a)
  OBVIOUS
<1>3. /\ Cardinality(Hooks(b)) \in Nat /\ Cardinality(Hooks(a)) = Cardinality(Hooks(b)) + 1 /\ Len(a) = Len(b) + 1
      /\ Rank(a, Len(b) + 1) = Cardinality(Hooks(a)) /\ Len(b) + 1 \in Hooks(a)
  BY <1>1, <1>2 DEF Deeper
<1>4. m.rstack \in Seq(Frame) /\ Len(m.rstack) \in Nat
  BY DEF MtdType
<1>5. Cardinality(Hooks(a)) = Len(m.rstack)
  BY <1>4 DEF StackInv, FramesFollow, Idx
<1>6. Rank(a, Len(a)) = Len(m.rstack) /\ Len(a) \in Hooks(a) /\ Len(m.rstack) <= Len(m.rstack)
  BY <1>3, <1>4, <1>5
<1>7. m.rstack[Rank(a, Len(a))].fn = a[Len(a)].fn
  BY <1>6 DEF StackInv, FramesFollow
<1> QED BY <1>3, <1>4, <1>5, <1>6, <1>7

\* z is m with the end of the top frame set to v and what its call changed put back.
Left(m, z, v) ==
    /\ z \in MtdType /\ Len(z.rstack) = Len(m.rstack)
    /\ \A j \in 1 .. Len(m.rstack) - 1 : z.rstack[j] = m.rstack[j]
    /\ z.rstack[Len(m.rstack)] = [m.rstack[Len(m.rstack)] EXCEPT !.end = v]
    /\ z.stream = m.stream /\ z.losts = m.losts /\ z.over = m.over /\ z.warned = m.warned
    /\ z.enabled = m.enabled /\ z.finish = m.finish /\ z.filter = m.rstack[Len(m.rstack)].saved
    /\ z.in_count = IF "FILTERED" \in m.rstack[Len(m.rstack)].flags THEN m.in_count - 1 ELSE m.in_count
    /\ z.out_count = IF "NOTRACE" \in m.rstack[Len(m.rstack)].flags THEN m.out_count - 1 ELSE m.out_count
    /\ z.record_idx = IF Recordable(m.rstack[Len(m.rstack)]) THEN m.record_idx - 1 ELSE m.record_idx

\* The frame, as the reports of the end leave it
LEMMA FrameEnds ==
    ASSUME NEW fr \in Frame, NEW v \in Nat, NEW fr2, fr2 = [fr EXCEPT !.end = v]
    PROVE  /\ fr2 \in Frame /\ fr2.end = v /\ fr2.id = fr.id /\ fr2.fn = fr.fn /\ fr2.depth = fr.depth
           /\ fr2.start = fr.start /\ fr2.flags = fr.flags /\ fr2.saved = fr.saved
  BY DEF Frame

\* The end of a call changes nothing of what the stream says of the frames.
LEMMA StreamLeft ==
    ASSUME NEW m \in MtdType, NEW z, NEW n, NEW t, NEW f, NEW off, NEW v \in Nat,
           Left(m, z, v), Len(m.rstack) > 0, StreamInv(m, n, t, f, off), Growing(m, n)
    PROVE  StreamInv(z, n, t, f, off) /\ Growing(z, n) /\ (Closed(m, off) => Closed(z, off))
<1> DEFINE N == Len(m.rstack)
<1>1. m.rstack \in Seq(Frame) /\ N \in Nat /\ N \in 1 .. N /\ m.rstack[N] \in Frame
  <2>1. m.rstack \in Seq(Frame) /\ N \in Nat
    BY DEF MtdType
  <2> QED BY <2>1
<1>2. Len(z.rstack) = N /\ z.stream = m.stream /\ z.losts = m.losts /\ z.over = m.over /\ z.warned = m.warned
  BY DEF Left
<1>3. \A j \in 1 .. N : /\ z.rstack[j].id = m.rstack[j].id /\ z.rstack[j].depth = m.rstack[j].depth
                        /\ z.rstack[j].start = m.rstack[j].start /\ z.rstack[j].flags = m.rstack[j].flags
  <2> TAKE j \in 1 .. N
  <2>1. CASE j = N
    <3>1. z.rstack[N] = [m.rstack[N] EXCEPT !.end = v]
      BY DEF Left
    <3> QED BY <3>1, <2>1, <1>1, FrameEnds
  <2>2. CASE j # N
    <3>1. j \in 1 .. N - 1
      BY <2>2, <1>1
    <3> QED BY <3>1 DEF Left
  <2> QED BY <2>1, <2>2
<1> HIDE DEF N
<1>4. \A j \in 1 .. N : /\ Written(z.rstack[j]) <=> Written(m.rstack[j])
                        /\ Skipped(z.rstack[j]) <=> Skipped(m.rstack[j])
                        /\ Recordable(z.rstack[j]) <=> Recordable(m.rstack[j])
  BY <1>3 DEF Written, Skipped, Recordable
<1>5. \A j \in 1 .. N : \A i \in 1 .. j : i \in 1 .. N
  BY <1>1
<1>6. FromTheTop(z)
  BY <1>2, <1>4, <1>5 DEF StreamInv, FromTheTop, N
<1>7. Timely(z, t)
  <2>1. \A j \in 1 .. N : \A i \in 1 .. j - 1 : i \in 1 .. N
    BY <1>1
  <2>2. \A j \in 1 .. N : ~Skipped(m.rstack[j]) =>
          /\ m.rstack[j].start <= t
          /\ \A i \in 1 .. j - 1 : ~Skipped(m.rstack[i]) => m.rstack[i].start <= m.rstack[j].start
          /\ ~Written(m.rstack[j]) => \A k \in 1 .. Len(m.stream) : m.stream[k].time <= m.rstack[j].start
    BY DEF StreamInv, Timely, N
  <2>3. \A j \in 1 .. N : ~Skipped(z.rstack[j]) =>
          /\ z.rstack[j].start <= t
          /\ \A i \in 1 .. j - 1 : ~Skipped(z.rstack[i]) => z.rstack[i].start <= z.rstack[j].start
          /\ ~Written(z.rstack[j]) => \A k \in 1 .. Len(m.stream) : m.stream[k].time <= z.rstack[j].start
    BY <2>1, <2>2, <1>3, <1>4
  <2> QED BY <2>3, <1>2 DEF StreamInv, Timely
<1>8. OneOfEach(z, n)
  BY <1>2 DEF StreamInv, OneOfEach
<1>9. FramesTold(z, f)
  <2> SUFFICES ASSUME NEW j \in 1 .. N PROVE FrameTold(z, f, z.rstack[j])
    BY <1>2 DEF FramesTold
  <2>1. FrameTold(m, f, m.rstack[j])
    BY DEF StreamInv, FramesTold, N
  <2>2. FrameTold(z, f, m.rstack[j])
    BY <2>1, <1>2 DEF FrameTold, EntryOf, ExitOf
  <2> QED BY <2>2, <1>3, <1>4 DEF FrameTold
<1>10. Paired(z, f, off)
  <2>1. ~off => \A j \in 1 .. Len(z.rstack) : "DISABLED" \notin z.rstack[j].flags
    BY <1>2, <1>3 DEF StreamInv, Paired, N
  <2> QED BY <2>1, <1>2 DEF StreamInv, Paired
<1>11. Flushed(z)
  BY <1>2, <1>4 DEF StreamInv, Flushed, AllWritten, N
<1>12. Growing(z, n)
  <2>1. \A j \in 1 .. N : \A i \in 1 .. j - 1 : i \in 1 .. N
    BY <1>1
  <2> QED BY <2>1, <1>2, <1>3, <1>4 DEF Growing, N
<1>13. ASSUME Closed(m, off) PROVE Closed(z, off)
  <2> SUFFICES ASSUME ~off, z.losts = 0, NEW k \in 1 .. Len(z.stream), z.stream[k].type = "ENTRY"
               PROVE  \/ \E j \in 1 .. Len(z.rstack) : z.rstack[j].id = z.stream[k].id
                      \/ ExitOf(z, z.stream[k].id) # {}
    BY DEF Closed
  <2>1. \/ \E j \in 1 .. N : m.rstack[j].id = m.stream[k].id
        \/ ExitOf(m, m.stream[k].id) # {}
    BY <1>2, <1>13 DEF Closed, N
  <2>2. ExitOf(z, m.stream[k].id) = ExitOf(m, m.stream[k].id)
    BY <1>2 DEF ExitOf
  <2> QED BY <2>1, <2>2, <1>2, <1>3
<1>14. StreamInv(z, n, t, f, off)
  BY <1>6, <1>7, <1>8, <1>9, <1>10, <1>11 DEF StreamInv
<1> QED BY <1>12, <1>13, <1>14

\* The frame, as __mcount_exit(), __cygprof_exit() and _xray_exit() leave it
Ending(m, room, v) == [m EXCEPT !.room = room, !.rstack[Len(m.rstack)].end = v]

LeftOrWritten(m, z, v, x) ==
    /\ Left(m, z, v)
    /\ \/ x = z /\ (~Recordable(m.rstack[Len(m.rstack)]) \/ ~m.enabled \/ ~Written(m.rstack[Len(m.rstack)]))
       \/ x = RecordTraceData(z, Len(m.rstack)) /\ Recordable(m.rstack[Len(m.rstack)])

\* mcount_exit_filter_record() puts back what the call changed, and either writes the frame or
\* leaves one of no record, while tracing is off, or one that was not written.
LEMMA ExitLeaves ==
    ASSUME NEW m \in MtdType, CountersMatch(m), Len(m.rstack) > 0, NEW v \in Nat,
           NEW room \in Nat, NEW e, e = Ending(m, room, v), NEW x, x = ExitRecord(e)
    PROVE  \E z : LeftOrWritten(m, z, v, x)
<1>1. PICK N \in Nat : N = Len(m.rstack)
  <2>1. m.rstack \in Seq(Frame)
    BY DEF MtdType
  <2> QED BY <2>1
<1>2. m.rstack \in Seq(Frame) /\ N \in 1 .. N /\ N > 0
  BY <1>1 DEF MtdType
<1>3. PICK top \in Frame : top = m.rstack[N]
  BY <1>1, <1>2
<1>4. PICK top2 : top2 = [top EXCEPT !.end = v]
  OBVIOUS
<1>5. top2 \in Frame /\ top2.flags = top.flags /\ top2.saved = top.saved
  BY <1>4, FrameEnds
<1>6. PICK s : s = [m.rstack EXCEPT ![N] = top2]
  OBVIOUS
<1>7. s \in Seq(Frame) /\ Len(s) = N /\ s[N] = top2 /\ \A j \in 1 .. N - 1 : s[j] = m.rstack[j]
  <2>1. m.rstack \in [1 .. N -> Frame]
    BY <1>1, <1>2
  <2>2. s \in [1 .. N -> Frame]
    BY <2>1, <1>5, <1>6
  <2>3. s \in Seq(Frame) /\ Len(s) = N
    BY <2>2, <1>1, SeqDef, LenProperties
  <2>4. \A j \in 1 .. N - 1 : j \in 1 .. N /\ j # N
    BY <1>1
  <2> QED BY <2>1, <2>3, <2>4, <1>2, <1>6
<1>8. e = [m EXCEPT !.room = room, !.rstack = s]
  BY <1>1, <1>3, <1>4, <1>6 DEF MtdType, Ending
<1>9. /\ e \in MtdType /\ e.rstack = s /\ e.stream = m.stream /\ e.losts = m.losts /\ e.over = m.over /\ e.warned = m.warned
      /\ e.enabled = m.enabled /\ e.finish = m.finish /\ e.filter = m.filter /\ e.in_count = m.in_count
      /\ e.out_count = m.out_count /\ e.record_idx = m.record_idx
  BY <1>7, <1>8 DEF MtdType
<1>10. PICK ic : ic = IF "FILTERED" \in top.flags THEN m.in_count - 1 ELSE m.in_count
  OBVIOUS
<1>11. PICK oc : oc = IF "NOTRACE" \in top.flags THEN m.out_count - 1 ELSE m.out_count
  OBVIOUS
<1>12. PICK ri : ri = IF Recordable(top) THEN m.record_idx - 1 ELSE m.record_idx
  OBVIOUS
<1>13. CountsPopped(m.rstack, top, Front(m.rstack)) /\ CountersMatch(m)
  BY <1>1, <1>2, <1>3, PopCounts
<1>14. /\ ic \in Nat /\ oc \in Nat /\ ri \in Nat /\ top.saved \in FilterState
       /\ ri = IF "NORECORD" \notin top2.flags /\ m.record_idx > 0 THEN m.record_idx - 1 ELSE m.record_idx
  <2>1. m.in_count \in Nat /\ m.out_count \in Nat /\ m.record_idx \in Nat
    BY DEF MtdType
  <2>2. "FILTERED" \in top.flags => m.in_count > 0
    BY <1>13 DEF CountsPopped, CountersMatch
  <2>3. "NOTRACE" \in top.flags => m.out_count > 0
    BY <1>13 DEF CountsPopped, CountersMatch
  <2>4. Recordable(top) => m.record_idx > 0
    BY <1>13 DEF CountsPopped, CountersMatch
  <2>5. ic \in Nat /\ oc \in Nat /\ ri \in Nat
    BY <2>1, <2>2, <2>3, <2>4, <1>10, <1>11, <1>12
  <2>6. Recordable(top) <=> "NORECORD" \notin top2.flags
    BY <1>5 DEF Recordable
  <2>7. top.saved \in FilterState
    BY <1>3 DEF Frame
  <2> QED BY <2>1, <2>4, <2>5, <2>6, <2>7, <1>12
<1>15. PICK z : z = LeaveCall(e, top2)
  OBVIOUS
<1>16. z = [e EXCEPT !.in_count = ic, !.out_count = oc, !.filter = top.saved, !.record_idx = ri]
  <2>1. PICK w : w = LeaveFilter(e, top2)
    OBVIOUS
  <2>2. w = [e EXCEPT !.in_count = ic, !.out_count = oc, !.filter = top.saved]
    BY <2>1, <1>5, <1>9, <1>10, <1>11 DEF LeaveFilter, MtdType
  <2>3. z = [w EXCEPT !.record_idx = IF "NORECORD" \notin top2.flags /\ @ > 0 THEN @ - 1 ELSE @]
    BY <2>1, <1>15 DEF LeaveCall
  <2>4. w.record_idx = m.record_idx
    BY <2>2, <1>9 DEF MtdType
  <2>5. z = [w EXCEPT !.record_idx = ri]
    BY <2>3, <2>4, <1>14
  <2> QED BY <2>2, <2>5, <1>9 DEF MtdType
<1>17. /\ z \in MtdType /\ z.rstack = s /\ z.stream = m.stream /\ z.losts = m.losts /\ z.over = m.over /\ z.warned = m.warned
       /\ z.enabled = m.enabled /\ z.finish = m.finish /\ z.filter = top.saved /\ z.in_count = ic
       /\ z.out_count = oc /\ z.record_idx = ri
  BY <1>9, <1>14, <1>16 DEF MtdType
<1>18. Left(m, z, v)
  <2>1. Len(z.rstack) = N /\ z.rstack[N] = top2 /\ \A j \in 1 .. N - 1 : z.rstack[j] = m.rstack[j]
    BY <1>7, <1>17
  <2> QED BY <2>1, <1>1, <1>3, <1>4, <1>10, <1>11, <1>12, <1>17 DEF Left
<1>19. x = IF "NORECORD" \in top2.flags \/ ~e.enabled \/ ~WorthWriting(e, top2) THEN z ELSE RecordTraceData(z, N)
  <2>1. Len(e.rstack) = N /\ e.rstack[N] = top2
    BY <1>7, <1>9
  <2>2. e.rstack[Len(e.rstack)] = top2 /\ Len(e.rstack) = N
    BY <2>1
  <2>3. PICK k : k = Len(e.rstack)
    OBVIOUS
  <2>4. PICK fr : fr = e.rstack[k]
    OBVIOUS
  <2>5. x = IF "NORECORD" \in fr.flags \/ ~e.enabled \/ ~WorthWriting(e, fr) THEN LeaveCall(e, fr)
            ELSE RecordTraceData(LeaveCall(e, fr), k)
    BY <2>3, <2>4 DEF ExitRecord
  <2>6. fr = top2 /\ k = N
    BY <2>2, <2>3, <2>4
  <2> QED BY <2>5, <2>6, <1>15
<1>20. Written(top) => WorthWriting(e, top2)
  BY <1>5 DEF Written, WorthWriting
<1> QED BY <1>1, <1>3, <1>5, <1>9, <1>18, <1>19, <1>20 DEF Recordable, LeftOrWritten

\* d is z but for frames that may have been written, and x is d without its top.
PoppedFrom(z, d, x) ==
    /\ d \in MtdType /\ SameRest(z, d) /\ Len(d.rstack) = Len(z.rstack)
    /\ \A j \in 1 .. Len(z.rstack) - 1 : SameFrame(z.rstack[j], d.rstack[j])
    /\ x \in MtdType /\ SameRest(d, x) /\ x.rstack = Front(d.rstack) /\ x.stream = d.stream /\ x.losts = d.losts

\* What is left of the stack
LEMMA ExitStack ==
    ASSUME NEW m, NEW a, NEW c, NEW n, NEW v, NEW z, NEW d, NEW x, Left(m, z, v), PoppedFrom(z, d, x),
           m \in MtdType, a \in Seq(Calls), n \in Nat, StackInv(c, a, m, n), c.max \in Nat, m.over = 0,
           Len(m.rstack) > 0, Len(a) > 0, a[Len(a)].hooked
    PROVE  StackInv(c, Front(a), x, n)
<1>1. PICK N \in Nat : N = Len(m.rstack)
  <2>1. m.rstack \in Seq(Frame)
    BY DEF MtdType
  <2> QED BY <2>1
<1>2. m.rstack \in Seq(Frame) /\ d.rstack \in Seq(Frame) /\ x.rstack \in Seq(Frame) /\ Len(d.rstack) = N
  BY <1>1 DEF MtdType, PoppedFrom, Left
<1>3. PICK s : s = Front(m.rstack)
  OBVIOUS
<1>4. s \in Seq(Frame) /\ Len(s) = N - 1 /\ \A j \in 1 .. N - 1 : s[j] = m.rstack[j]
  BY <1>1, <1>2, <1>3, FrontFacts
<1>5. Len(x.rstack) = N - 1 /\ \A j \in 1 .. N - 1 : x.rstack[j] = d.rstack[j]
  <2>1. Len(d.rstack) > 0
    BY <1>1, <1>2
  <2>2. Len(Front(d.rstack)) = Len(d.rstack) - 1 /\ \A j \in 1 .. Len(d.rstack) - 1 : Front(d.rstack)[j] = d.rstack[j]
    BY <2>1, <1>2, FrontFacts
  <2> QED BY <2>2, <1>1, <1>2 DEF PoppedFrom
<1>6. PICK w : w = [x EXCEPT !.rstack = s]
  OBVIOUS
<1>7. /\ w \in MtdType /\ w.rstack = s /\ SameRest(w, x)
  BY <1>4, <1>6 DEF MtdType, SameRest, PoppedFrom
<1>8. SameFrames(w, x)
  <2>1. \A j \in 1 .. N - 1 : z.rstack[j] = m.rstack[j]
    BY <1>1 DEF Left
  <2>2. \A j \in 1 .. N - 1 : SameFrame(z.rstack[j], d.rstack[j])
    BY <1>1 DEF PoppedFrom, Left
  <2>3. \A j \in 1 .. N - 1 : SameFrame(w.rstack[j], x.rstack[j])
    BY <2>1, <2>2, <1>4, <1>5, <1>7
  <2> QED BY <2>3, <1>4, <1>5, <1>7 DEF SameFrames
<1>9. PICK top : top = m.rstack[Len(m.rstack)]
  OBVIOUS
<1>10. /\ w.over = 0 /\ w.filter = top.saved
       /\ w.in_count = IF "FILTERED" \in top.flags THEN m.in_count - 1 ELSE m.in_count
       /\ w.out_count = IF "NOTRACE" \in top.flags THEN m.out_count - 1 ELSE m.out_count
       /\ w.record_idx = IF Recordable(top) THEN m.record_idx - 1 ELSE m.record_idx
  <2>1. /\ w.over = z.over /\ w.filter = z.filter /\ w.in_count = z.in_count /\ w.out_count = z.out_count
        /\ w.record_idx = z.record_idx
    BY <1>7 DEF SameRest, PoppedFrom
  <2> QED BY <2>1, <1>9 DEF Left
<1>11. StackInv(c, Front(a), w, n)
  BY <1>3, <1>7, <1>9, <1>10, StackPopped
<1>12. Front(a) \in Seq(Calls)
  BY FrontFacts
<1> QED BY <1>7, <1>8, <1>11, <1>12, StackStays DEF PoppedFrom

\* A call whose exit is seen returns.
Returning(m, a, n, t, f, off, off2) ==
    /\ m \in MtdType /\ m.room = 0 /\ a \in Seq(Calls) /\ Len(a) > 0 /\ a[Len(a)].hooked
    /\ n \in Nat /\ t \in Nat /\ f \in Nat /\ off \in BOOLEAN /\ off2 \in BOOLEAN /\ (off => off2)
    /\ (~m.enabled => off2) /\ now' \in Nat /\ now' > 0 /\ t <= now' /\ SetupOK(setup)
    /\ ThreadInv(a, m, n, t, f, off)

\* The thread x afterwards
Returned(m, a, n, f, off2, x) ==
    /\ x \in MtdType /\ x.room = 0 /\ x.enabled = m.enabled /\ ThreadInv(Front(a), x, n, now', f, off2)

\* Until the record of its exit, the stream says of the frame what it said while the call went on.
LEMMA ExitStream ==
    ASSUME NEW m, NEW a, NEW n, NEW t, NEW f, NEW off, NEW off2, Returning(m, a, n, t, f, off, off2), Len(m.rstack) > 0,
           NEW z, NEW v \in Nat, Left(m, z, v)
    PROVE  StreamInv(z, n, now', f, off2) /\ Growing(z, n) /\ Closed(z, off2)
<1>1. PICK t2 \in Nat : t2 = now'
  BY DEF Returning
<1>2. m \in MtdType /\ Later(n, t, off, n, t2, off2)
  BY <1>1 DEF Returning, Later
<1>3. StreamInv(m, n, t, f, off) /\ Closed(m, off) /\ Growing(m, n)
  BY DEF Returning, ThreadInv, StackInv
<1>4. Flushed(m)
  BY <1>3 DEF StreamInv
<1>5. StreamInv(m, n, t2, f, off2) /\ (Closed(m, off) => Closed(m, off2))
  BY <1>2, <1>3, <1>4, StreamStays
<1>6. StreamInv(z, n, t2, f, off2) /\ Growing(z, n) /\ (Closed(m, off2) => Closed(z, off2))
  BY <1>2, <1>3, <1>5, StreamLeft
<1> QED BY <1>1, <1>3, <1>5, <1>6

NewFrames(d, s, x) == d \in MtdType /\ s \in Seq(Frame) /\ x = [d EXCEPT !.rstack = s, !.room = 0]

\* A thread whose frames are replaced
LEMMA FramesReplaced ==
    ASSUME NEW d, NEW s, NEW x, NewFrames(d, s, x)
    PROVE  /\ x \in MtdType /\ x.room = 0 /\ x.rstack = s
           /\ SameRest(d, x) /\ x.stream = d.stream /\ x.losts = d.losts
<1> d \in MtdType /\ s \in Seq(Frame) /\ x = [d EXCEPT !.rstack = s, !.room = 0]
  BY DEF NewFrames
<1>1. x \in MtdType
  BY DEF MtdType
<1>2. x.room = 0 /\ x.rstack = s
  BY DEF MtdType
<1>3. SameRest(d, x) /\ x.stream = d.stream /\ x.losts = d.losts
  BY DEF MtdType, SameRest
<1> QED BY <1>1, <1>2, <1>3

\* The top frame is taken off.
Popping(d, x) == x = [d EXCEPT !.rstack = Front(@), !.room = 0]

\* The exit of a call whose frame is on the stack
LEMMA ExitRecorded ==
    ASSUME NEW m, NEW a, NEW n, NEW t, NEW f, NEW off, NEW off2, Returning(m, a, n, t, f, off, off2),
           m.over = 0, Len(m.rstack) > 0, NEW room \in Nat, NEW v \in Nat,
           Recordable(m.rstack[Len(m.rstack)]) => v = now',
           NEW e, e = Ending(m, room, v), NEW d, d = ExitRecord(e), NEW x, Popping(d, x)
    PROVE  Returned(m, a, n, f, off2, x)
<1>0. /\ m \in MtdType /\ a \in Seq(Calls) /\ Len(a) > 0 /\ a[Len(a)].hooked /\ n \in Nat /\ f \in Nat
      /\ off2 \in BOOLEAN /\ (~m.enabled => off2) /\ now' \in Nat /\ now' > 0 /\ setup.max \in Nat
      /\ StackInv(setup, a, m, n)
  BY DEF Returning, ThreadInv, SetupOK
<1>1. PICK N \in Nat : N = Len(m.rstack)
  <2>1. m.rstack \in Seq(Frame)
    BY <1>0 DEF MtdType
  <2> QED BY <2>1
<1>2. m.rstack \in Seq(Frame) /\ N > 0 /\ N \in 1 .. N /\ m.rstack[N] \in Frame
  BY <1>0, <1>1 DEF MtdType
<1>3. PICK top \in Frame : top = m.rstack[N]
  BY <1>2
<1>4. PICK t2 \in Nat : t2 = now'
  BY <1>0
<1>5. PICK z : /\ Left(m, z, v)
               /\ \/ d = z /\ (~Recordable(top) \/ ~m.enabled \/ ~Written(top))
                  \/ d = RecordTraceData(z, N) /\ Recordable(top)
  <2>1. CountersMatch(m) /\ m \in MtdType
    BY <1>0 DEF StackInv
  <2>2. \E z : LeftOrWritten(m, z, v, d)
    BY <2>1, ExitLeaves
  <2> QED BY <2>2, <1>1, <1>3 DEF LeftOrWritten
<1>6. StreamInv(z, n, t2, f, off2) /\ Growing(z, n) /\ Closed(z, off2)
  BY <1>4, <1>5, ExitStream
<1>7. z \in MtdType /\ Len(z.rstack) = N /\ z.enabled = m.enabled /\ z.losts \in Nat
  BY <1>1, <1>5 DEF Left, MtdType
<1>8. /\ z.rstack[N].end = v /\ z.rstack[N].flags = top.flags /\ z.rstack[N].id = top.id
  <2>1. z.rstack[N] = [top EXCEPT !.end = v]
    BY <1>1, <1>3, <1>5 DEF Left
  <2> QED BY <2>1, FrameEnds
<1>9. ASSUME d \in MtdType, d.rstack \in Seq(Frame), Len(d.rstack) = N, SameRest(z, d),
             \A j \in 1 .. N - 1 : SameFrame(z.rstack[j], d.rstack[j])
      PROVE  /\ x \in MtdType /\ x.room = 0 /\ x.enabled = m.enabled /\ StackInv(setup, Front(a), x, n)
             /\ x.rstack = Front(d.rstack) /\ x.stream = d.stream /\ x.losts = d.losts /\ x.over = d.over /\ x.warned = d.warned
  <2>1. PICK s : s = Front(d.rstack)
    OBVIOUS
  <2>2. s \in Seq(Frame)
    BY <2>1, <1>2, <1>9, FrontFacts
  <2>3. x = [d EXCEPT !.rstack = s, !.room = 0]
    BY <2>1, <1>9 DEF MtdType, Popping
  <2>4. x \in MtdType /\ x.room = 0 /\ x.rstack = s /\ SameRest(d, x) /\ x.stream = d.stream /\ x.losts = d.losts
    <3>1. d \in MtdType
      BY <1>9
    <3>2. NewFrames(d, s, x)
      BY <3>1, <2>2, <2>3 DEF NewFrames
    <3> QED BY <3>2, FramesReplaced
  <2>5. PoppedFrom(z, d, x)
    BY <2>1, <2>4, <1>7, <1>9 DEF PoppedFrom
  <2>6. PICK c : c = setup
    OBVIOUS
  <2>7. StackInv(c, Front(a), x, n)
    BY <2>5, <2>6, <1>0, <1>1, <1>2, <1>5, ExitStack
  <2> QED BY <2>1, <2>4, <2>6, <2>7, <1>7, <1>9 DEF SameRest
<1>10. EntryOf(z, top.id) # {} => Written(top) /\ Recordable(top)
  <2>1. FrameTold(z, f, z.rstack[N])
    BY <1>2, <1>6, <1>7 DEF StreamInv, FramesTold
  <2> QED BY <2>1, <1>8 DEF FrameTold, Written, Skipped, Recordable
<1>11. CASE d = z /\ (~Recordable(top) \/ ~m.enabled \/ ~Written(top))
  <2>1. \A j \in 1 .. N - 1 : SameFrame(z.rstack[j], d.rstack[j])
    <3>1. z.rstack \in Seq(Frame)
      BY <1>7 DEF MtdType
    <3>2. \A j \in 1 .. N - 1 : z.rstack[j] \in Frame
      BY <3>1, <1>7
    <3> QED BY <3>2, <1>11, MarkedFrame
  <2>2. SameRest(z, d) /\ d \in MtdType /\ d.rstack \in Seq(Frame) /\ Len(d.rstack) = N
    BY <1>7, <1>11 DEF SameRest, MtdType
  <2>3. /\ x \in MtdType /\ x.room = 0 /\ x.enabled = m.enabled /\ StackInv(setup, Front(a), x, n)
        /\ x.rstack = Front(z.rstack) /\ x.stream = z.stream /\ x.losts = z.losts /\ x.over = z.over /\ x.warned = z.warned
    BY <2>1, <2>2, <1>9, <1>11
  <2>4. off2 \/ EntryOf(z, z.rstack[Len(z.rstack)].id) = {}
    BY <1>0, <1>7, <1>8, <1>10, <1>11
  <2>5. StreamInv(x, n, t2, f, off2) /\ Closed(x, off2)
    <3>1. Popped(z, z, x)
      BY <2>3, <1>2, <1>7 DEF Popped
    <3>2. /\ StreamInv(x, n, t2, f, off2)
          /\ Closed(z, off2) /\ (off2 \/ z.losts # 0 \/ EntryOf(z, z.rstack[Len(z.rstack)].id) = {}) => Closed(x, off2)
      BY <3>1, <1>0, <1>6, PopSilent
    <3> QED BY <3>2, <2>4, <1>6
  <2> QED BY <2>3, <2>5, <1>4 DEF Returned, ThreadInv
<1>12. CASE d = RecordTraceData(z, N) /\ Recordable(top)
  <2>1. v = t2 /\ t2 > 0
    BY <1>0, <1>1, <1>3, <1>4, <1>12
  <2>2. PICK y \in MtdType :
              /\ Kept(z, y, N, n, t2, f, off2)
              /\ \/ d = y /\ (d.losts = z.losts => z.rstack[N].end = 0)
                 \/ z.rstack[N].end > 0 /\ y.losts = z.losts /\ Exited(z, y, d, N)
    <3>1. z \in MtdType /\ N \in 1 .. Len(z.rstack) /\ f \in Nat /\ off2 \in BOOLEAN /\ n \in Nat
      BY <1>0, <1>2, <1>7
    <3>2. Growing(z, n) /\ StreamInv(z, n, t2, f, off2) /\ d = RecordTraceData(z, N)
      BY <1>6, <1>12
    <3> QED BY <3>1, <3>2, RecordKeeps
  <2>3. StreamInv(y, n, t2, f, off2) /\ SameFrames(z, y) /\ SameRest(z, y) /\ y.losts >= z.losts /\ Closed(y, off2)
    BY <2>2, <1>6 DEF Kept
  <2>4. y.rstack \in Seq(Frame) /\ Len(y.rstack) = N /\ \A j \in 1 .. N : SameFrame(z.rstack[j], y.rstack[j])
    BY <2>2, <2>3, <1>7 DEF SameFrames, MtdType
  <2>5. \A j \in 1 .. N - 1 : j \in 1 .. N /\ j # N
    BY <1>1
  <2>6. CASE d = y /\ (d.losts = z.losts => z.rstack[N].end = 0)
    <3>1. /\ x \in MtdType /\ x.room = 0 /\ x.enabled = m.enabled /\ StackInv(setup, Front(a), x, n)
          /\ x.rstack = Front(y.rstack) /\ x.stream = y.stream /\ x.losts = y.losts /\ x.over = y.over /\ x.warned = y.warned
      BY <2>2, <2>3, <2>4, <2>5, <2>6, <1>9
    <3>2. y.losts # 0
      <4>1. y.losts # z.losts
        BY <2>1, <2>6, <1>8
      <4>2. y.losts \in Nat
        BY <2>2 DEF MtdType
      <4> QED BY <4>1, <4>2, <2>3, <1>7
    <3>3. StreamInv(x, n, t2, f, off2) /\ Closed(x, off2)
      <4>1. Popped(y, y, x)
        BY <3>1, <2>2, <2>4, <1>2 DEF Popped
      <4>2. /\ StreamInv(x, n, t2, f, off2)
            /\ Closed(y, off2) /\ (off2 \/ y.losts # 0 \/ EntryOf(y, y.rstack[Len(y.rstack)].id) = {}) => Closed(x, off2)
        BY <4>1, <2>3, <1>0, PopSilent
      <4> QED BY <4>2, <3>2, <2>3
    <3> QED BY <3>1, <3>3, <1>4 DEF Returned, ThreadInv
  <2>7. CASE z.rstack[N].end > 0 /\ y.losts = z.losts /\ Exited(z, y, d, N)
    <3>1. /\ d \in MtdType /\ SameRest(y, d) /\ Len(d.rstack) = N /\ \A j \in 1 .. N - 1 : d.rstack[j] = y.rstack[j]
      BY <2>4, <2>5, <2>7 DEF Exited
    <3>2. d.rstack \in Seq(Frame) /\ SameRest(z, d)
      BY <3>1, <2>3 DEF MtdType, SameRest
    <3>3. \A j \in 1 .. N - 1 : SameFrame(z.rstack[j], d.rstack[j])
      BY <3>1, <2>4, <2>5
    <3>4. /\ x \in MtdType /\ x.room = 0 /\ x.enabled = m.enabled /\ StackInv(setup, Front(a), x, n)
          /\ x.rstack = Front(d.rstack) /\ x.stream = d.stream /\ x.losts = d.losts /\ x.over = d.over /\ x.warned = d.warned
      BY <3>1, <3>2, <3>3, <1>9
    <3>5. AllWritten(y)
      BY <2>2, <2>4, <2>7 DEF Kept, AllWritten
    <3>6. Growing(y, n)
      BY <2>3, <1>1, <1>6, <1>7, GrowingStays
    <3>7. Exited(z, y, d, Len(z.rstack)) /\ z.rstack[Len(z.rstack)].end = t2 /\ Recordable(z.rstack[Len(z.rstack)])
      BY <2>1, <2>7, <1>7, <1>8, <1>12 DEF Recordable
    <3>8. x.over = y.over /\ x.warned = y.warned
      BY <3>1, <3>4 DEF SameRest
    <3>9. StreamInv(x, n, t2, f, off2) /\ (Closed(y, off2) => Closed(x, off2))
      <4>1. Popped(y, d, x)
        BY <3>4, <3>8, <2>2, <2>4, <1>2 DEF Popped
      <4>2. PoppedExit(z, y, d, x, n, t2)
        BY <4>1, <3>5, <3>6, <3>7, <2>3, <1>7 DEF PoppedExit
      <4> QED BY <4>2, <2>3, <1>0, PopExit
    <3> QED BY <3>4, <3>9, <2>3, <1>4 DEF Returned, ThreadInv
  <2> QED BY <2>2, <2>6, <2>7
<1> QED BY <1>5, <1>11, <1>12
\* The exit of a call beyond the limit of the stack only counts.
LEMMA ExitBeyond ==
    ASSUME NEW m, NEW a, NEW n, NEW t, NEW f, NEW off, NEW off2, Returning(m, a, n, t, f, off, off2),
           m.over > 0, NEW x, x = [m EXCEPT !.over = @ - 1]
    PROVE  Returned(m, a, n, f, off2, x)
<1>0. /\ m \in MtdType /\ m.room = 0 /\ a \in Seq(Calls) /\ Len(a) > 0 /\ a[Len(a)].hooked
      /\ n \in Nat /\ t \in Nat /\ f \in Nat /\ off \in BOOLEAN /\ off2 \in BOOLEAN /\ (off => off2)
      /\ now' \in Nat /\ t <= now' /\ setup.max \in Nat
      /\ StackInv(setup, a, m, n) /\ StreamInv(m, n, t, f, off) /\ Closed(m, off)
  BY DEF Returning, ThreadInv, SetupOK
<1>1. PICK k \in Nat : k = m.over - 1
  <2>1. m.over \in Nat
    BY <1>0 DEF MtdType
  <2> QED BY <2>1
<1>2. x = [m EXCEPT !.over = k]
  BY <1>0, <1>1 DEF MtdType
<1>3. x \in MtdType
  BY <1>0, <1>2 DEF MtdType
<1>4. /\ x.room = 0 /\ x.enabled = m.enabled /\ x.over = k /\ x.rstack = m.rstack /\ x.record_idx = m.record_idx
      /\ x.in_count = m.in_count /\ x.out_count = m.out_count /\ x.filter = m.filter
      /\ x.stream = m.stream /\ x.losts = m.losts /\ x.warned = m.warned
  BY <1>0, <1>2 DEF MtdType
<1>5. m.over = k + 1
  <2>1. m.over \in Nat
    BY <1>0 DEF MtdType
  <2> QED BY <2>1, <1>1
<1>6. StackInv(setup, Front(a), x, n)
  <2>1. PICK c : c = setup
    OBVIOUS
  <2>2. StackInv(c, a, m, n) /\ c.max \in Nat
    BY <2>1, <1>0
  <2>3. m.over = IF a[Len(a)].hooked THEN x.over + 1 ELSE x.over
    BY <1>0, <1>4, <1>5
  <2>4. StackInv(c, Front(a), x, n)
    BY <2>2, <2>3, <1>0, <1>3, <1>4, StackUnseenEnd
  <2> QED BY <2>1, <2>4
<1>7. Flushed(x)
  <2>1. Flushed(m)
    BY <1>0 DEF StreamInv
  <2> QED BY <2>1, <1>4 DEF Flushed, AllWritten
<1>8. StreamInv(x, n, now', f, off2) /\ Closed(x, off2)
  <2>1. PICK t2 \in Nat : t2 = now'
    BY <1>0
  <2>2. Later(n, t, off, n, t2, off2)
    BY <2>1, <1>0 DEF Later
  <2>3. StreamInv(x, n, t2, f, off2) /\ (Closed(m, off) => Closed(x, off2))
    BY <2>2, <1>0, <1>4, <1>7, StreamStays
  <2> QED BY <2>1, <2>3, <1>0
<1> QED BY <1>3, <1>4, <1>6, <1>8 DEF Returned, ThreadInv

\* The exit of a call that is seen: the call has the frame at the top, or is beyond the limit.
LEMMA ExitKeeps ==
    ASSUME NEW a, NEW n, NEW t, NEW f, NEW off, NEW off2, Returning(mtd, a, n, t, f, off, off2),
           NEW room \in Nat, NEW x, x = ExitOutcome(a[Len(a)].fn, room)
    PROVE  Returned(mtd, a, n, f, off2, x)
<1>0. /\ mtd \in MtdType /\ a \in Seq(Calls) /\ Len(a) > 0 /\ a[Len(a)].hooked /\ n \in Nat /\ now' \in Nat
      /\ setup.max \in Nat /\ StackInv(setup, a, mtd, n)
  BY DEF Returning, ThreadInv, SetupOK
<1>1. mtd.rstack \in Seq(Frame) /\ mtd.over \in Nat /\ Len(mtd.rstack) \in Nat
  BY <1>0 DEF MtdType
<1>2. Limited(setup, mtd) /\ KindsMatch(setup, mtd)
  BY <1>0 DEF StackInv
<1>3. CASE mtd.over > 0
  <2>1. Idx(mtd) > setup.max
    BY <1>0, <1>1, <1>2, <1>3 DEF Idx, Limited
  <2>2. x = [mtd EXCEPT !.over = IF mtd.over > 0 THEN mtd.over - 1 ELSE 0,
                        !.rstack = IF mtd.over > 0 THEN mtd.rstack ELSE Front(mtd.rstack)]
    BY <2>1, <1>0 DEF ExitOutcome, MtdType
  <2>3. x = [mtd EXCEPT !.over = mtd.over - 1]
    BY <2>2, <1>0, <1>3 DEF MtdType
  <2> QED BY <2>3, <1>3, ExitBeyond
<1>4. CASE mtd.over = 0
  <2>1. ~(Idx(mtd) > setup.max)
    BY <1>0, <1>1, <1>2, <1>4 DEF Idx, Limited
  <2>2. PICK c : c = setup
    OBVIOUS
  <2>3. Len(mtd.rstack) > 0 /\ mtd.rstack[Len(mtd.rstack)].fn = a[Len(a)].fn
    BY <2>2, <1>0, <1>4, TopFollows
  <2>4. PICK top \in Frame : top = mtd.rstack[Len(mtd.rstack)]
    BY <2>3, <1>1
  <2>5. "CYGPROF" \in top.flags <=> setup.kind[a[Len(a)].fn] = "cygprof"
    BY <2>3, <2>4, <1>1, <1>2 DEF KindsMatch
  <2>6. PICK v \in Nat : v = IF setup.kind[a[Len(a)].fn] # "pg" /\ "NORECORD" \in top.flags THEN 0 ELSE now'
    BY <1>0
  <2>7. PICK e : e = Ending(mtd, room, v)
    OBVIOUS
  <2>8. PICK d : d = ExitRecord(e)
    OBVIOUS
  <2>9. x = [d EXCEPT !.rstack = Front(@), !.room = 0]
    BY <2>1, <2>4, <2>5, <2>6, <2>7, <2>8 DEF ExitOutcome, Ending
  <2>10. Popping(d, x)
    BY <2>9 DEF Popping
  <2>11. Recordable(mtd.rstack[Len(mtd.rstack)]) => v = now'
    BY <2>4, <2>6 DEF Recordable
  <2> QED BY <2>3, <2>7, <2>8, <2>10, <2>11, <1>4, ExitRecorded
<1> QED BY <1>1, <1>3, <1>4
-----------------------------------------------------------------------------
(* The steps *)

\* The thread x after a call or a return, before the finish flag is looked at
Settling(x) ==
    /\ x \in MtdType /\ x.room = 0
    /\ StreamInv(x, calls', now', forked', wasOff') /\ Closed(x, wasOff')
    /\ ~x.finish => StackInv(setup, app', x, calls')

\* mtd_dtor() keeps the stream.
LEMMA Settled ==
    ASSUME McountInv, status = "run", NEW x, Settling(x), Settle(x), setup' = setup, now' \in 1 .. MaxTime, MaxTime \in Nat,
           calls' \in 0 .. MaxCalls, MaxCalls \in Nat, forked' \in 0 .. calls',
           app' \in Seq([fn : Functions, hooked : BOOLEAN])
    PROVE  McountInv'
<1>1. /\ x \in MtdType /\ x.room = 0
      /\ StreamInv(x, calls', now', forked', wasOff') /\ Closed(x, wasOff')
      /\ ~x.finish => StackInv(setup, app', x, calls')
  BY DEF Settling
<1>2. wasOff' \in BOOLEAN /\ setup' \in Setups
  BY DEF Settle, McountInv
<1>3. CASE x.finish
  <2>1. mtd' = [x EXCEPT !.rstack = << >>, !.over = 0] /\ status' = "dead"
    BY <1>3 DEF Settle, Destroyed
  <2>2. PICK z : z = mtd'
    OBVIOUS
  <2>3. z = [x EXCEPT !.rstack = << >>, !.over = 0]
    BY <2>1, <2>2
  <2>4. z \in MtdType
    <3>1. << >> \in Seq(Frame)
      OBVIOUS
    <3> QED BY <3>1, <2>3, <1>1 DEF MtdType
  <2>5. z.room = 0 /\ z.rstack = << >> /\ z.over = 0 /\ z.stream = x.stream /\ z.losts = x.losts
    BY <2>3, <1>1 DEF MtdType
  <2>6. PICK n \in Nat, t \in Nat, f \in Nat, off \in BOOLEAN : n = calls' /\ t = now' /\ f = forked' /\ off = wasOff'
    BY <1>2
  <2>7. StreamInv(z, n, t, f, off)
    <3>1. StreamInv(x, n, t, f, off)
      BY <2>6, <1>1
    <3> QED BY <3>1, <2>4, <2>5, <1>1, StreamOutlives
  <2>8. StreamInv(mtd', calls', now', forked', wasOff') /\ mtd' \in MtdType /\ mtd'.room = 0 /\ mtd'.rstack = << >>
    BY <2>2, <2>4, <2>5, <2>6, <2>7
  <2> QED BY <2>1, <2>8, <1>2 DEF McountInv
<1>4. CASE ~x.finish
  <2>1. mtd' = x /\ status' = "run"
    BY <1>4 DEF Settle
  <2>2. StackInv(setup', app', mtd', calls') /\ StreamInv(mtd', calls', now', forked', wasOff') /\ Closed(mtd', wasOff')
        /\ mtd' \in MtdType /\ mtd'.room = 0
    BY <2>1, <1>1, <1>4
  <2> QED BY <2>1, <2>2, <1>2 DEF McountInv
<1> QED BY <1>3, <1>4
\* The clock goes on.
LEMMA TimeGoesOn ==
    ASSUME McountAssumption, McountInv, Tick
    PROVE  /\ now \in Nat /\ now' \in Nat /\ now <= now' /\ now' > 0 /\ now' \in 1 .. MaxTime /\ MaxTime \in Nat
           /\ calls \in Nat /\ calls <= MaxCalls /\ MaxCalls \in Nat /\ forked \in Nat /\ forked \in 0 .. calls
           /\ SetupOK(setup) /\ KeepsFilters(setup)
<1>1. MaxTime \in Nat \ {0} /\ MaxCalls \in Nat /\ setup \in Setups /\ \A c \in Setups : SetupOK(c) /\ KeepsFilters(c)
  BY DEF McountAssumption, McountInv
<1>2. now \in 1 .. MaxTime /\ now' \in {now, now + 1} /\ now' <= MaxTime /\ calls \in 0 .. MaxCalls /\ forked \in 0 .. calls
  BY DEF McountInv, Tick
<1> QED BY <1>1, <1>2

\* A call
LEMMA CallKeeps ==
    ASSUME McountAssumption, McountInv, NEW g \in Functions, Call(g)
    PROVE  McountInv'
<1>1. /\ status = "run" /\ calls < MaxCalls /\ calls' = calls + 1 /\ Tick /\ setup' = setup /\ forked' = forked
  BY DEF Call
<1>2. /\ now \in Nat /\ now' \in Nat /\ now <= now' /\ now' > 0 /\ now' \in 1 .. MaxTime /\ MaxTime \in Nat
      /\ calls \in Nat /\ calls <= MaxCalls /\ MaxCalls \in Nat /\ forked \in Nat /\ forked \in 0 .. calls
      /\ SetupOK(setup) /\ KeepsFilters(setup)
  BY <1>1, TimeGoesOn
<1>3. calls' \in 0 .. MaxCalls /\ forked' \in 0 .. calls'
  BY <1>1, <1>2
<1>4. /\ app \in Seq(Calls) /\ wasOff \in BOOLEAN /\ mtd \in MtdType /\ mtd.room = 0
      /\ StackInv(setup, app, mtd, calls) /\ StreamInv(mtd, calls, now, forked, wasOff) /\ Closed(mtd, wasOff)
  BY <1>1 DEF McountInv, Calls
<1>5. CASE mtd.finish
  <2>1. Settle(mtd) /\ app' = app
    BY <1>5 DEF Call
  <2>2. PICK n2 \in Nat, t2 \in Nat, off2 \in BOOLEAN : n2 = calls' /\ t2 = now' /\ off2 = wasOff'
    <3>1. wasOff' \in BOOLEAN
      BY <2>1, <1>4 DEF Settle
    <3>2. calls' \in Nat
      BY <1>1, <1>2
    <3> QED BY <3>1, <3>2, <1>2
  <2>3. wasOff => off2
    BY <2>1, <2>2 DEF Settle
  <2>4. Later(calls, now, wasOff, n2, t2, off2)
    BY <2>2, <2>3, <1>1, <1>2, <1>4 DEF Later
  <2>5. StreamInv(mtd, n2, t2, forked, off2) /\ Closed(mtd, off2)
    <3>1. Flushed(mtd)
      BY <1>4 DEF StreamInv
    <3>2. PICK m : m = mtd
      OBVIOUS
    <3>3. StreamInv(m, n2, t2, forked, off2) /\ (Closed(m, wasOff) => Closed(m, off2))
      BY <3>1, <3>2, <2>4, <1>4, StreamStays
    <3> QED BY <3>2, <3>3, <1>4
  <2>6. Settling(mtd)
    BY <2>2, <2>5, <1>1, <1>4, <1>5 DEF Settling
  <2>7. app' \in Seq([fn : Functions, hooked : BOOLEAN])
    BY <2>1, <1>4 DEF Calls
  <2> QED BY <2>1, <2>6, <2>7, <1>1, <1>2, <1>3, Settled
<1>6. CASE ~mtd.finish
  <2>1. PICK met \in BOOLEAN, room \in Rooms :
            Settle(EntryOutcome(g, met, room).m) /\ app' = Append(app, [fn |-> g, hooked |-> EntryOutcome(g, met, room).hooked])
    BY <1>6 DEF Call
  <2>2. room \in Nat
    BY DEF McountAssumption
  <2>3. PICK m : m = [mtd EXCEPT !.room = room]
    OBVIOUS
  <2>4. PICK e : e = Entered(g, FilterCheck(m, g, met))
    OBVIOUS
  <2>5. EntryOutcome(g, met, room) = e
    BY <2>3, <2>4 DEF EntryOutcome
  <2>6. Settle(e.m) /\ app' = Append(app, [fn |-> g, hooked |-> e.hooked])
    BY <2>1, <2>5
  <2>7. /\ m \in MtdType /\ m.rstack = mtd.rstack /\ m.over = mtd.over /\ m.in_count = mtd.in_count
        /\ m.out_count = mtd.out_count /\ m.filter = mtd.filter /\ m.record_idx = mtd.record_idx
        /\ m.stream = mtd.stream /\ m.losts = mtd.losts /\ m.warned = mtd.warned
    BY <2>2, <2>3, <1>4 DEF MtdType
  <2>8. ThreadInv(app, m, calls, now, forked, wasOff)
    <3>1. StackInv(setup, app, m, calls)
      BY <2>7, <1>4, StackSame
    <3>2. Flushed(m)
      BY <2>7, <1>4 DEF StreamInv, Flushed, AllWritten
    <3>3. StreamInv(m, calls, now, forked, wasOff) /\ Closed(m, wasOff)
      BY <3>2, <2>7, <1>4, StreamSame
    <3> QED BY <3>1, <3>3 DEF ThreadInv
  <2>9. Calling(m, app, calls, now, forked, wasOff, g, met)
    BY <2>7, <2>8, <1>1, <1>2, <1>4 DEF Calling
  <2>10. PICK off2 \in BOOLEAN : off2 = wasOff'
    BY <2>6, <1>4 DEF Settle
  <2>11. (wasOff => off2) /\ (~e.m.enabled => off2)
    BY <2>6, <2>10 DEF Settle
  <2>12. /\ e.hooked \in BOOLEAN /\ e.m.room = 0
         /\ Done(e.m, Append(app, [fn |-> g, hooked |-> e.hooked]), calls + 1, now', forked, off2)
    <3>1. CASE StackFull(m)
      BY <3>1, <2>4, <2>9, <2>11, CallBeyond
    <3>2. CASE ~StackFull(m)
      BY <3>2, <2>4, <2>9, <2>11, CallFits
    <3> QED BY <3>1, <3>2
  <2>13. PICK x : x = e.m
    OBVIOUS
  <2>14. Done(x, app', calls', now', forked', wasOff')
    BY <2>6, <2>10, <2>12, <2>13, <1>1
  <2>15. Settling(x)
    BY <2>12, <2>13, <2>14, <1>1 DEF Settling, Done
  <2>16. app' \in Seq([fn : Functions, hooked : BOOLEAN])
    <3>1. [fn |-> g, hooked |-> e.hooked] \in Calls
      BY <2>12 DEF Calls
    <3>2. app' \in Seq(Calls)
      BY <3>1, <2>6, <1>4
    <3> QED BY <3>2 DEF Calls
  <2> QED BY <2>6, <2>13, <2>15, <2>16, <1>1, <1>2, <1>3, Settled
<1> QED BY <1>5, <1>6
\* A return
LEMMA ReturnKeeps ==
    ASSUME McountAssumption, McountInv, Return
    PROVE  McountInv'
<1>1. /\ status = "run" /\ app # << >> /\ Tick /\ app' = Front(app) /\ setup' = setup /\ calls' = calls /\ forked' = forked
  BY DEF Return
<1>2. /\ now \in Nat /\ now' \in Nat /\ now <= now' /\ now' > 0 /\ now' \in 1 .. MaxTime /\ MaxTime \in Nat
      /\ calls \in Nat /\ calls <= MaxCalls /\ MaxCalls \in Nat /\ forked \in Nat /\ forked \in 0 .. calls
      /\ SetupOK(setup)
  BY <1>1, TimeGoesOn
<1>3. calls' \in 0 .. MaxCalls /\ forked' \in 0 .. calls'
  BY <1>1, <1>2
<1>4. /\ app \in Seq(Calls) /\ wasOff \in BOOLEAN /\ mtd \in MtdType /\ mtd.room = 0
      /\ StackInv(setup, app, mtd, calls) /\ StreamInv(mtd, calls, now, forked, wasOff) /\ Closed(mtd, wasOff)
  BY <1>1 DEF McountInv, Calls
<1>5. Len(app) > 0 /\ Last(app) = app[Len(app)] /\ app[Len(app)] \in Calls
  BY <1>1, <1>4 DEF Last
<1>6. app' \in Seq(Calls) /\ app' \in Seq([fn : Functions, hooked : BOOLEAN])
  <2>1. app' \in Seq(Calls)
    BY <1>1, <1>4, <1>5, FrontFacts
  <2> QED BY <2>1 DEF Calls
<1>7. ASSUME NEW off2 \in BOOLEAN, wasOff => off2
      PROVE  StreamInv(mtd, calls, now', forked, off2) /\ Closed(mtd, off2)
  <2>1. PICK t2 \in Nat : t2 = now'
    BY <1>2
  <2>2. Later(calls, now, wasOff, calls, t2, off2)
    BY <2>1, <1>2, <1>4, <1>7 DEF Later
  <2>3. Flushed(mtd)
    BY <1>4 DEF StreamInv
  <2>4. PICK m : m = mtd
    OBVIOUS
  <2>5. StreamInv(m, calls, t2, forked, off2) /\ (Closed(m, wasOff) => Closed(m, off2))
    BY <2>2, <2>3, <2>4, <1>4, StreamStays
  <2> QED BY <2>1, <2>4, <2>5, <1>4
<1>8. CASE ~app[Len(app)].hooked
  <2>1. mtd' = mtd /\ status' = status /\ wasOff' = wasOff
    BY <1>5, <1>8 DEF Return
  <2>2. PICK c : c = setup
    OBVIOUS
  <2>3. StackInv(c, Front(app), mtd, calls)
    <3>1. StackInv(c, app, mtd, calls) /\ c.max \in Nat
      BY <2>2, <1>2, <1>4 DEF SetupOK
    <3>2. mtd.over = IF app[Len(app)].hooked THEN mtd.over + 1 ELSE mtd.over
      BY <1>8
    <3> QED BY <3>1, <3>2, <1>2, <1>4, <1>5, StackUnseenEnd
  <2>4. StreamInv(mtd, calls, now', forked, wasOff) /\ Closed(mtd, wasOff)
    BY <1>4, <1>7
  <2>5. StackInv(setup', app', mtd', calls') /\ StreamInv(mtd', calls', now', forked', wasOff') /\ Closed(mtd', wasOff')
    BY <2>1, <2>2, <2>3, <2>4, <1>1
  <2>6. mtd' \in MtdType /\ mtd'.room = 0 /\ status' = "run" /\ wasOff' \in BOOLEAN /\ setup' \in Setups
    BY <2>1, <1>1, <1>4 DEF McountInv
  <2> QED BY <2>5, <2>6, <1>2, <1>3, <1>6 DEF McountInv
<1>9. CASE app[Len(app)].hooked /\ setup.kind[app[Len(app)].fn] # "pg" /\ mtd.finish
  <2>1. Settle(mtd)
    BY <1>5, <1>9 DEF Return
  <2>2. PICK off2 \in BOOLEAN : off2 = wasOff'
    BY <2>1, <1>4 DEF Settle
  <2>3. StreamInv(mtd, calls, now', forked, off2) /\ Closed(mtd, off2)
    <3>1. wasOff => off2
      BY <2>1, <2>2 DEF Settle
    <3> QED BY <3>1, <1>7
  <2>4. Settling(mtd)
    BY <2>2, <2>3, <1>1, <1>4, <1>9 DEF Settling
  <2> QED BY <2>1, <2>4, <1>1, <1>2, <1>3, <1>6, Settled
<1>10. CASE app[Len(app)].hooked /\ ~(setup.kind[app[Len(app)].fn] # "pg" /\ mtd.finish)
  <2>1. PICK room \in Rooms : Settle(ExitOutcome(app[Len(app)].fn, room))
    BY <1>5, <1>10 DEF Return
  <2>2. room \in Nat
    BY DEF McountAssumption
  <2>3. PICK x : x = ExitOutcome(app[Len(app)].fn, room)
    OBVIOUS
  <2>4. Settle(x)
    BY <2>1, <2>3
  <2>5. x.enabled = mtd.enabled
    <3>1. PICK off3 : off3 = TRUE
      OBVIOUS
    <3>2. Returning(mtd, app, calls, now, forked, wasOff, off3)
      BY <3>1, <1>2, <1>4, <1>5, <1>10 DEF Returning, ThreadInv
    <3>3. Returned(mtd, app, calls, forked, off3, x)
      BY <3>2, <2>2, <2>3, ExitKeeps
    <3> QED BY <3>3 DEF Returned
  <2>6. PICK off2 \in BOOLEAN : off2 = wasOff'
    BY <2>4, <1>4 DEF Settle
  <2>7. (wasOff => off2) /\ (~mtd.enabled => off2)
    BY <2>4, <2>5, <2>6 DEF Settle
  <2>8. Returning(mtd, app, calls, now, forked, wasOff, off2)
    BY <2>7, <1>2, <1>4, <1>5, <1>10 DEF Returning, ThreadInv
  <2>9. Returned(mtd, app, calls, forked, off2, x)
    BY <2>8, <2>2, <2>3, ExitKeeps
  <2>10. Settling(x)
    BY <2>6, <2>9, <1>1 DEF Settling, Returned, ThreadInv
  <2> QED BY <2>4, <2>10, <1>1, <1>2, <1>3, <1>6, Settled
<1> QED BY <1>8, <1>9, <1>10
\* Tracing is switched, or the flag to finish is set.
LEMMA SignalKeeps ==
    ASSUME McountAssumption, McountInv, Signal
    PROVE  McountInv'
<1>1. status = "run" /\ setup' = setup /\ app' = app /\ now' = now /\ calls' = calls /\ status' = status
      /\ forked' = forked /\ wasOff' = wasOff
  BY DEF Signal
<1>2. /\ mtd \in MtdType /\ mtd.room = 0 /\ StackInv(setup, app, mtd, calls)
      /\ StreamInv(mtd, calls, now, forked, wasOff) /\ Closed(mtd, wasOff)
  BY <1>1 DEF McountInv
<1>3. PICK on \in BOOLEAN, done \in BOOLEAN : mtd' = [mtd EXCEPT !.enabled = on, !.finish = done]
  <2>1. mtd.enabled \in BOOLEAN /\ mtd.finish \in BOOLEAN
    BY <1>2 DEF MtdType
  <2>2. \E on \in BOOLEAN, done \in BOOLEAN : [mtd EXCEPT !.enabled = TRUE] = [mtd EXCEPT !.enabled = on, !.finish = done]
    <3>1. [mtd EXCEPT !.enabled = TRUE] = [mtd EXCEPT !.enabled = TRUE, !.finish = mtd.finish]
      BY <1>2 DEF MtdType
    <3> QED BY <3>1, <2>1
  <2>3. \E on \in BOOLEAN, done \in BOOLEAN : [mtd EXCEPT !.enabled = FALSE] = [mtd EXCEPT !.enabled = on, !.finish = done]
    <3>1. [mtd EXCEPT !.enabled = FALSE] = [mtd EXCEPT !.enabled = FALSE, !.finish = mtd.finish]
      BY <1>2 DEF MtdType
    <3> QED BY <3>1, <2>1
  <2>4. \E on \in BOOLEAN, done \in BOOLEAN : [mtd EXCEPT !.finish = TRUE] = [mtd EXCEPT !.enabled = on, !.finish = done]
    <3>1. [mtd EXCEPT !.finish = TRUE] = [mtd EXCEPT !.enabled = mtd.enabled, !.finish = TRUE]
      BY <1>2 DEF MtdType
    <3> QED BY <3>1, <2>1
  <2>5. mtd' \in {[mtd EXCEPT !.enabled = TRUE], [mtd EXCEPT !.enabled = FALSE], [mtd EXCEPT !.finish = TRUE]}
    BY DEF Signal
  <2> QED BY <2>2, <2>3, <2>4, <2>5
<1>4. PICK z : z = mtd'
  OBVIOUS
<1>5. z = [mtd EXCEPT !.enabled = on, !.finish = done]
  BY <1>3, <1>4
<1>6. z \in MtdType
  BY <1>2, <1>5 DEF MtdType
<1>7. /\ z.room = 0 /\ z.rstack = mtd.rstack /\ z.over = mtd.over /\ z.in_count = mtd.in_count
      /\ z.out_count = mtd.out_count /\ z.filter = mtd.filter /\ z.record_idx = mtd.record_idx
      /\ z.stream = mtd.stream /\ z.losts = mtd.losts /\ z.warned = mtd.warned
  BY <1>2, <1>5 DEF MtdType
<1>8. StackInv(setup, app, z, calls)
  <2>1. PICK c : c = setup
    OBVIOUS
  <2> QED BY <2>1, <1>2, <1>7, StackSame
<1>9. StreamInv(z, calls, now, forked, wasOff) /\ Closed(z, wasOff)
  <2>1. Flushed(z)
    BY <1>2, <1>7 DEF StreamInv, Flushed, AllWritten
  <2> QED BY <2>1, <1>2, <1>7, StreamSame
<1>10. /\ StackInv(setup', app', mtd', calls') /\ StreamInv(mtd', calls', now', forked', wasOff') /\ Closed(mtd', wasOff')
       /\ mtd' \in MtdType /\ mtd'.room = 0
  BY <1>1, <1>4, <1>6, <1>7, <1>8, <1>9
<1> QED BY <1>1, <1>10 DEF McountInv

\* The child of a fork has all the frames of its parent, marked, and a stream of its own.
Inherited(m, z) == z = [m EXCEPT !.stream = << >>, !.losts = 0, !.rstack = [j \in DOMAIN @ |-> Marked(@[j])]]

\* They are the frames of the parent in all but the mark.
LEMMA ForkFrames ==
    ASSUME NEW m \in MtdType, NEW z, Inherited(m, z)
    PROVE  /\ z \in MtdType /\ SameFrames(m, z) /\ SameRest(m, z) /\ z.room = m.room /\ z.stream = << >> /\ z.losts = 0
           /\ \A j \in 1 .. Len(z.rstack) : Written(z.rstack[j])
<1>1. m.rstack \in Seq(Frame)
  BY DEF MtdType
<1>2. PICK s : s = [j \in 1 .. Len(m.rstack) |-> Marked(m.rstack[j])]
  OBVIOUS
<1>3. s \in Seq(Frame) /\ Len(s) = Len(m.rstack)
  <2>1. \A j \in 1 .. Len(m.rstack) : Marked(m.rstack[j]) \in Frame
    <3> TAKE j \in 1 .. Len(m.rstack)
    <3>1. m.rstack[j] \in Frame
      BY <1>1
    <3> QED BY <3>1, RecordType
  <2>2. s \in [1 .. Len(m.rstack) -> Frame] /\ Len(m.rstack) \in Nat
    BY <2>1, <1>1, <1>2
  <2> QED BY <2>2, SeqDef, LenProperties
<1>4. DOMAIN m.rstack = 1 .. Len(m.rstack)
  BY <1>1
<1>5. z = [m EXCEPT !.stream = << >>, !.losts = 0, !.rstack = s]
  BY <1>2, <1>4 DEF Inherited, MtdType
<1>6. z \in MtdType
  <2>1. << >> \in Seq(Rec)
    OBVIOUS
  <2> QED BY <2>1, <1>3, <1>5 DEF MtdType
<1>7. /\ z.room = m.room /\ z.stream = << >> /\ z.losts = 0 /\ z.rstack = s /\ SameRest(m, z)
  BY <1>5 DEF MtdType, SameRest
<1>8. \A j \in 1 .. Len(m.rstack) : SameFrame(m.rstack[j], s[j]) /\ Written(s[j])
  <2> TAKE j \in 1 .. Len(m.rstack)
  <2>1. m.rstack[j] \in Frame /\ s[j] = Marked(m.rstack[j])
    BY <1>1, <1>2
  <2> QED BY <2>1, MarkedFrame
<1>9. SameFrames(m, z) /\ \A j \in 1 .. Len(z.rstack) : Written(z.rstack[j])
  BY <1>3, <1>7, <1>8 DEF SameFrames
<1> QED BY <1>6, <1>7, <1>9

\* A fork
LEMMA ForkKeeps ==
    ASSUME McountAssumption, McountInv, Fork
    PROVE  McountInv'
<1>1. status = "run" /\ setup' = setup /\ app' = app /\ now' = now /\ calls' = calls /\ status' = status
      /\ forked' = calls /\ wasOff' = wasOff
  BY DEF Fork
<1>2. /\ mtd \in MtdType /\ mtd.room = 0 /\ StackInv(setup, app, mtd, calls) /\ app \in Seq(Calls)
      /\ StreamInv(mtd, calls, now, forked, wasOff) /\ Closed(mtd, wasOff)
  BY <1>1 DEF McountInv, Calls
<1>3. calls \in Nat
  BY DEF McountInv, McountAssumption
<1>4. PICK z : z = mtd'
  OBVIOUS
<1>5. PICK m : m = mtd
  OBVIOUS
<1>6. m \in MtdType /\ Inherited(m, z)
  BY <1>2, <1>4, <1>5 DEF Fork, Inherited
<1>7. /\ z \in MtdType /\ SameFrames(m, z) /\ SameRest(m, z) /\ z.room = m.room /\ z.stream = << >> /\ z.losts = 0
      /\ \A j \in 1 .. Len(z.rstack) : Written(z.rstack[j])
  BY <1>6, ForkFrames
<1>8. StackInv(setup, app, z, calls)
  <2>1. PICK c : c = setup
    OBVIOUS
  <2>2. StackInv(c, app, m, calls)
    BY <2>1, <1>2, <1>5
  <2>3. StackInv(c, app, z, calls)
    BY <2>2, <1>2, <1>6, <1>7, StackStays
  <2> QED BY <2>1, <2>3
<1>9. StreamInv(z, calls, now, calls, wasOff) /\ Closed(z, wasOff)
  <2>1. m.rstack \in Seq(Frame) /\ z.rstack \in Seq(Frame) /\ Len(z.rstack) = Len(m.rstack)
    BY <1>6, <1>7 DEF MtdType, SameFrames
  <2>2. Len(z.stream) = 0 /\ 1 .. 0 = {} /\ 1 .. Len(z.stream) = {}
    BY <1>7
  <2>3. FromTheTop(z)
    <3>1. \A j \in 1 .. Len(z.rstack) : \A i \in 1 .. j : i \in 1 .. Len(z.rstack)
      BY <2>1
    <3> QED BY <3>1, <1>7 DEF FromTheTop
  <2>4. Timely(z, now)
    <3>1. \A j \in 1 .. Len(z.rstack) : ~Skipped(z.rstack[j]) =>
              /\ z.rstack[j].start <= now
              /\ \A i \in 1 .. j - 1 : ~Skipped(z.rstack[i]) => z.rstack[i].start <= z.rstack[j].start
      <4>1. \A j \in 1 .. Len(m.rstack) : \A i \in 1 .. j - 1 : i \in 1 .. Len(m.rstack)
        BY <2>1
      <4>2. Timely(m, now)
        BY <1>2, <1>5 DEF StreamInv
      <4> QED BY <4>1, <4>2, <2>1, <1>7 DEF Timely, SameFrames, SameFrame
    <3> QED BY <3>1, <2>2, <1>7 DEF Timely
  <2>5. OneOfEach(z, calls)
    BY <2>2 DEF OneOfEach
  <2>6. FramesTold(z, calls)
    <3>1. ASSUME NEW j \in 1 .. Len(z.rstack) PROVE FrameTold(z, calls, z.rstack[j])
      <4>1. ExitOf(z, z.rstack[j].id) = {} /\ EntryOf(z, z.rstack[j].id) = {} /\ Written(z.rstack[j])
        BY <2>2, <1>7 DEF ExitOf, EntryOf
      <4>2. ~(z.rstack[j].id > calls)
        <5>1. z.rstack[j] \in Frame
          BY <2>1
        <5>2. z.rstack[j].id \in 1 .. MaxCalls
          BY <5>1 DEF Frame
        <5>3. z.rstack[j].id <= calls
          BY <1>8 DEF StackInv, Growing
        <5> QED BY <5>2, <5>3, <1>3
      <4> QED BY <4>1, <4>2 DEF FrameTold
    <3> QED BY <3>1 DEF FramesTold
  <2>7. Paired(z, calls, wasOff)
    <3>1. Paired(m, forked, wasOff)
      BY <1>2, <1>5 DEF StreamInv
    <3>2. \A j \in 1 .. Len(z.rstack) : "DISABLED" \in z.rstack[j].flags <=> "DISABLED" \in m.rstack[j].flags
      <4>1. "DISABLED" \in FrameFlags \ {"WRITTEN"}
        BY DEF FrameFlags
      <4> QED BY <4>1, <2>1, <1>7 DEF SameFrames, SameFrame
    <3> QED BY <3>1, <3>2, <2>1, <2>2 DEF Paired
  <2>8. Flushed(z)
    <3>1. z.over = m.over /\ z.warned = m.warned
      BY <1>7 DEF SameRest
    <3> QED BY <3>1, <1>2, <1>5, <1>7 DEF StreamInv, Flushed, AllWritten
  <2>9. Closed(z, wasOff)
    BY <2>2 DEF Closed
  <2> QED BY <2>3, <2>4, <2>5, <2>6, <2>7, <2>8, <2>9 DEF StreamInv
<1>10. /\ StackInv(setup', app', mtd', calls') /\ StreamInv(mtd', calls', now', forked', wasOff') /\ Closed(mtd', wasOff')
       /\ mtd' \in MtdType /\ mtd'.room = 0
  BY <1>1, <1>2, <1>4, <1>5, <1>7, <1>8, <1>9
<1>11. forked' \in 0 .. calls'
  BY <1>1, <1>3
<1> QED BY <1>1, <1>10, <1>11 DEF McountInv
\* What segv_handler() flushes
CrashFlushed(m, room) == [RecordTraceData([m EXCEPT !.room = room], Len(m.rstack)) EXCEPT !.room = 0]

\* The flush tells all the calls in progress, if there is room.
LEMMA FlushAtCrash ==
    ASSUME NEW m, NEW a, NEW n \in Nat, NEW t \in Nat, NEW f \in Nat, NEW off \in BOOLEAN, NEW room \in Nat,
           m \in MtdType, a \in Seq(Calls), ThreadInv(a, m, n, t, f, off), Len(m.rstack) > 0,
           NEW x, x = CrashFlushed(m, room)
    PROVE  x \in MtdType /\ x.room = 0 /\ ThreadInv(a, x, n, t, f, off) /\ (x.losts = 0 => AllWritten(x))
<1>1. PICK N \in Nat : N = Len(m.rstack)
  <2>1. m.rstack \in Seq(Frame)
    BY DEF MtdType
  <2> QED BY <2>1
<1>2. PICK w : w = [m EXCEPT !.room = room]
  OBVIOUS
<1>3. /\ w \in MtdType /\ w.rstack = m.rstack /\ w.over = m.over /\ w.in_count = m.in_count
      /\ w.out_count = m.out_count /\ w.filter = m.filter /\ w.record_idx = m.record_idx
      /\ w.stream = m.stream /\ w.losts = m.losts /\ w.warned = m.warned
  BY <1>2 DEF MtdType
<1>4. StackInv(setup, a, w, n)
  <2>1. PICK c : c = setup
    OBVIOUS
  <2>2. StackInv(c, a, m, n)
    BY <2>1 DEF ThreadInv
  <2> QED BY <2>1, <2>2, <1>3, StackSame
<1>5. StreamInv(w, n, t, f, off) /\ Closed(w, off)
  <2>1. StreamInv(m, n, t, f, off) /\ Closed(m, off)
    BY DEF ThreadInv
  <2>2. Flushed(w)
    BY <2>1, <1>3 DEF StreamInv, Flushed, AllWritten
  <2> QED BY <2>1, <2>2, <1>3, StreamSame
<1>6. PICK y : y = RecordTraceData(w, N)
  OBVIOUS
<1>7. y \in MtdType /\ Kept(w, y, N, n, t, f, off)
  <2>1. N \in 1 .. Len(w.rstack)
    BY <1>1, <1>3
  <2>2. Growing(w, n) /\ w.rstack[N].end = 0
    BY <2>1, <1>4 DEF StackInv, Running
  <2> QED BY <2>1, <2>2, <1>3, <1>5, <1>6, FlushKeeps
<1>8. StreamInv(y, n, t, f, off) /\ SameFrames(w, y) /\ SameRest(w, y) /\ Closed(y, off) /\ y.losts >= w.losts
  BY <1>5, <1>7 DEF Kept
<1>9. StackInv(setup, a, y, n)
  <2>1. PICK c : c = setup
    OBVIOUS
  <2>2. StackInv(c, a, w, n)
    BY <2>1, <1>4
  <2> QED BY <2>1, <2>2, <1>3, <1>7, <1>8, StackStays
<1>10. x = [y EXCEPT !.room = 0]
  BY <1>1, <1>2, <1>6 DEF CrashFlushed
<1>11. /\ x \in MtdType /\ x.room = 0 /\ x.rstack = y.rstack /\ x.over = y.over /\ x.in_count = y.in_count
       /\ x.out_count = y.out_count /\ x.filter = y.filter /\ x.record_idx = y.record_idx
       /\ x.stream = y.stream /\ x.losts = y.losts /\ x.warned = y.warned
  <2>1. y \in MtdType
    BY <1>7
  <2>2. PICK r : r = [y EXCEPT !.room = 0]
    OBVIOUS
  <2>3. /\ r \in MtdType /\ r.room = 0 /\ r.rstack = y.rstack /\ r.over = y.over /\ r.in_count = y.in_count
        /\ r.out_count = y.out_count /\ r.filter = y.filter /\ r.record_idx = y.record_idx
        /\ r.stream = y.stream /\ r.losts = y.losts /\ r.warned = y.warned
    BY <2>1, <2>2 DEF MtdType
  <2> QED BY <2>2, <2>3, <1>10
<1>12. StackInv(setup, a, x, n)
  BY <1>9, <1>11, StackSame
<1>13. StreamInv(x, n, t, f, off) /\ Closed(x, off)
  <2>1. Flushed(x)
    BY <1>8, <1>11 DEF StreamInv, Flushed, AllWritten
  <2> QED BY <2>1, <1>8, <1>11, StreamSame
<1>14. ASSUME x.losts = 0 PROVE AllWritten(x)
  <2>1. y.losts = w.losts
    <3>1. w.losts \in Nat /\ y.losts \in Nat
      BY <1>3, <1>7 DEF MtdType
    <3> QED BY <3>1, <1>8, <1>11, <1>14
  <2>2. \A j \in 1 .. N : Written(y.rstack[j]) \/ Skipped(y.rstack[j])
    BY <2>1, <1>7 DEF Kept
  <2>3. Len(y.rstack) = N
    BY <1>1, <1>3, <1>8 DEF SameFrames
  <2> QED BY <2>2, <2>3, <1>11 DEF AllWritten
<1> QED BY <1>11, <1>12, <1>13, <1>14 DEF ThreadInv

\* A crash
LEMMA CrashKeeps ==
    ASSUME McountAssumption, McountInv, Crash
    PROVE  McountInv'
<1>1. status = "run" /\ setup' = setup /\ app' = app /\ now' = now /\ calls' = calls /\ status' = "crashed"
      /\ forked' = forked /\ wasOff' = wasOff
  BY DEF Crash
<1>2. /\ mtd \in MtdType /\ mtd.room = 0 /\ StackInv(setup, app, mtd, calls) /\ app \in Seq(Calls)
      /\ StreamInv(mtd, calls, now, forked, wasOff) /\ Closed(mtd, wasOff)
  BY <1>1 DEF McountInv, Calls
<1>3. calls \in Nat /\ now \in Nat /\ forked \in Nat /\ wasOff \in BOOLEAN /\ SetupOK(setup)
  BY DEF McountInv, McountAssumption
<1>4. mtd.rstack \in Seq(Frame) /\ Len(mtd.rstack) \in Nat /\ mtd.over \in Nat
  BY <1>2 DEF MtdType
<1>5. PICK room \in Rooms :
          mtd' \in IF Idx(mtd) = 0 THEN {mtd}
                  ELSE IF mtd.over > 0 THEN {mtd, CrashFlush(room)}
                  ELSE {CrashFlush(room)}
  BY DEF Crash
<1>6. room \in Nat
  BY DEF McountAssumption
<1>7. CrashFlush(room) = CrashFlushed(mtd, room)
  BY DEF CrashFlush, CrashFlushed
<1>8. \/ mtd' = mtd /\ (Idx(mtd) = 0 \/ mtd.over > 0)
      \/ mtd' = CrashFlushed(mtd, room) /\ Idx(mtd) # 0
  BY <1>5, <1>7
<1>9. PICK z : z = mtd'
  OBVIOUS
<1>10. z \in MtdType /\ z.room = 0 /\ ThreadInv(app, z, calls, now, forked, wasOff) /\ (z.losts = 0 => AllWritten(z))
  <2>1. CASE z = mtd /\ (Idx(mtd) = 0 \/ mtd.over > 0)
    <3>1. ASSUME mtd.losts = 0 PROVE AllWritten(mtd)
      <4>1. CASE Idx(mtd) = 0
        <5>1. Len(mtd.rstack) = 0
          BY <4>1, <1>4 DEF Idx
        <5> QED BY <5>1 DEF AllWritten
      <4>2. CASE mtd.over > 0
        BY <4>2, <3>1, <1>2 DEF StreamInv, Flushed
      <4> QED BY <4>1, <4>2, <2>1
    <3> QED BY <3>1, <2>1, <1>2 DEF ThreadInv
  <2>2. CASE z = CrashFlushed(mtd, room) /\ Idx(mtd) # 0
    <3>1. Len(mtd.rstack) > 0
      <4>1. Limited(setup, mtd) /\ setup.max \in Nat \ {0}
        BY <1>2, <1>3 DEF StackInv, SetupOK
      <4> QED BY <4>1, <2>2, <1>4 DEF Limited, Idx
    <3>2. PICK m : m = mtd
      OBVIOUS
    <3>3. m \in MtdType /\ ThreadInv(app, m, calls, now, forked, wasOff) /\ Len(m.rstack) > 0 /\ z = CrashFlushed(m, room)
      BY <3>1, <3>2, <2>2, <1>2 DEF ThreadInv
    <3> QED BY <3>3, <1>2, <1>3, <1>6, FlushAtCrash
  <2> QED BY <2>1, <2>2, <1>8, <1>9
<1>11. /\ StackInv(setup', app', mtd', calls') /\ StreamInv(mtd', calls', now', forked', wasOff') /\ Closed(mtd', wasOff')
       /\ mtd' \in MtdType /\ mtd'.room = 0 /\ (mtd'.losts = 0 => AllWritten(mtd'))
  BY <1>1, <1>9, <1>10 DEF ThreadInv
<1> QED BY <1>1, <1>11 DEF McountInv
\* mcount_prepare()
LEMMA InitHolds ==
    ASSUME McountAssumption, Init
    PROVE  McountInv
<1>1. /\ setup \in Setups /\ SetupOK(setup) /\ MaxTime \in Nat \ {0} /\ MaxCalls \in Nat
      /\ app = << >> /\ now = 1 /\ calls = 0 /\ status = "run" /\ forked = 0 /\ wasOff = FALSE /\ mtd = Prepared(setup)
  BY DEF Init, McountAssumption
<1>2. PICK m : m = mtd
  OBVIOUS
<1>3. /\ m.rstack = << >> /\ m.over = 0 /\ m.in_count = 0 /\ m.out_count = 0 /\ m.filter = FilterSetup(setup)
      /\ m.record_idx = 0 /\ m.warned = FALSE /\ m.stream = << >> /\ m.room = 0 /\ m.losts = 0
  BY <1>1, <1>2 DEF Prepared
<1>4. m \in MtdType
  <2>1. FilterSetup(setup) \in FilterState
    <3>1. setup.minsize \in Nat
      BY <1>1 DEF SetupOK
    <3> QED BY <3>1 DEF FilterSetup, FilterState, None
  <2>2. setup.on \in BOOLEAN
    BY <1>1 DEF SetupOK
  <2>3. << >> \in Seq(Frame) /\ << >> \in Seq(Rec)
    OBVIOUS
  <2> HIDE DEF FilterSetup
  <2> QED BY <2>1, <2>2, <2>3, <1>1, <1>2 DEF Prepared, MtdType
<1>5. Len(m.rstack) = 0 /\ Len(m.stream) = 0 /\ 1 .. 0 = {} /\ Len(app) = 0
  BY <1>1, <1>3
<1>6. StackInv(setup, app, m, 0)
  <2>1. CountersMatch(m)
    <3>1. Flagged(m.rstack, "FILTERED") = {} /\ Flagged(m.rstack, "NOTRACE") = {} /\ RecordableAt(m.rstack) = {}
      BY <1>5 DEF Flagged, RecordableAt
    <3>2. Cardinality({}) = 0
      BY FS_EmptySet
    <3> QED BY <3>1, <3>2, <1>3 DEF CountersMatch
  <2>2. FiltersSaved(setup, m)
    BY <1>3 DEF FiltersSaved
  <2>3. LimitsOpen(m)
    BY <1>3, <1>5 DEF LimitsOpen, OpenLimit, FilterSetup
  <2>4. Limited(setup, m)
    BY <1>1, <1>3, <1>5 DEF Limited, SetupOK
  <2>5. KindsMatch(setup, m) /\ Growing(m, 0) /\ Running(m)
    BY <1>5 DEF KindsMatch, Growing, Running
  <2>6. FramesFollow(app, m)
    <3>1. Hooks(app) = {}
      BY <1>5 DEF Hooks
    <3>2. Cardinality({}) = 0
      BY FS_EmptySet
    <3> QED BY <3>1, <3>2, <1>3, <1>5 DEF FramesFollow, Idx
  <2>7. Len(app) <= 0
    BY <1>5
  <2> QED BY <2>1, <2>2, <2>3, <2>4, <2>5, <2>6, <2>7 DEF StackInv
<1>7. StreamInv(m, 0, 1, 0, FALSE) /\ Closed(m, FALSE)
  <2>1. FromTheTop(m) /\ Timely(m, 1) /\ OneOfEach(m, 0) /\ FramesTold(m, 0)
    BY <1>5 DEF FromTheTop, Timely, OneOfEach, FramesTold
  <2>2. Paired(m, 0, FALSE) /\ Flushed(m) /\ Closed(m, FALSE)
    BY <1>3, <1>5 DEF Paired, Flushed, Closed
  <2> QED BY <2>1, <2>2 DEF StreamInv
<1>8. mtd \in MtdType /\ mtd.room = 0 /\ StackInv(setup, app, mtd, calls)
      /\ StreamInv(mtd, calls, now, forked, wasOff) /\ Closed(mtd, wasOff)
  BY <1>1, <1>2, <1>3, <1>4, <1>6, <1>7
<1>9. app \in Seq([fn : Functions, hooked : BOOLEAN]) /\ now \in 1 .. MaxTime /\ calls \in 0 .. MaxCalls
      /\ forked \in 0 .. calls
  BY <1>1
<1> QED BY <1>1, <1>8, <1>9 DEF McountInv

\* Every step
LEMMA StepHolds ==
    ASSUME McountAssumption, McountInv, [Next]_vars
    PROVE  McountInv'
<1>1. ASSUME NEW g \in Functions, Call(g) PROVE McountInv'
  BY <1>1, CallKeeps
<1>2. CASE Return
  BY <1>2, ReturnKeeps
<1>3. CASE Signal
  BY <1>3, SignalKeeps
<1>4. CASE Fork
  BY <1>4, ForkKeeps
<1>5. CASE Crash
  BY <1>5, CrashKeeps
<1>6. CASE UNCHANGED vars
  BY <1>6 DEF vars, McountInv
<1> QED BY <1>1, <1>2, <1>3, <1>4, <1>5, <1>6 DEF Next

\* What the invariant says of the thread
LEMMA InvMirrors ==
    ASSUME McountAssumption, McountInv
    PROVE  MirrorsCalls
<1>1. /\ SetupOK(setup) /\ mtd \in MtdType /\ mtd.room = 0 /\ app \in Seq([fn : Functions, hooked : BOOLEAN])
      /\ status \in {"run", "dead", "crashed"} /\ wasOff \in BOOLEAN /\ now \in 1 .. MaxTime
      /\ calls \in 0 .. MaxCalls /\ forked \in 0 .. calls /\ MaxCalls \in Nat
  BY DEF McountInv, McountAssumption
<1>2. TypeOK
  <2>1. forked \in 0 .. MaxCalls
    BY <1>1
  <2>2. /\ mtd.rstack \in Seq(Frame) /\ mtd.over \in Nat /\ mtd.filter \in FilterState
        /\ mtd.in_count \in Nat /\ mtd.out_count \in Nat /\ mtd.record_idx \in Nat /\ mtd.losts \in Nat
        /\ mtd.enable_cached \in BOOLEAN /\ mtd.warned \in BOOLEAN /\ mtd.enabled \in BOOLEAN /\ mtd.finish \in BOOLEAN
    BY <1>1 DEF MtdType
  <2> QED BY <2>1, <2>2, <1>1 DEF TypeOK
<1>3. DOMAIN mtd.rstack = 1 .. Len(mtd.rstack) /\ DOMAIN app = 1 .. Len(app)
  <2>1. mtd.rstack \in Seq(Frame)
    BY <1>1 DEF MtdType
  <2> QED BY <2>1, <1>1
<1>4. status = "run" => StackInv(setup, app, mtd, calls)
  BY DEF McountInv
<1>5. FiltersMatchFrames
  <2> SUFFICES ASSUME status = "run" PROVE FiltersMatchFrames
    BY DEF FiltersMatchFrames
  <2>1. CountersMatch(mtd) /\ FiltersSaved(setup, mtd)
    BY <1>4 DEF StackInv
  <2>2. /\ mtd.in_count = Cardinality({j \in DOMAIN mtd.rstack : "FILTERED" \in mtd.rstack[j].flags})
        /\ mtd.out_count = Cardinality({j \in DOMAIN mtd.rstack : "NOTRACE" \in mtd.rstack[j].flags})
        /\ mtd.record_idx = Cardinality({j \in DOMAIN mtd.rstack : Recordable(mtd.rstack[j])})
    BY <2>1, <1>3 DEF CountersMatch, Flagged, RecordableAt
  <2>3. mtd.rstack = << >> => mtd.filter = FilterSetup(setup)
    BY <2>1 DEF FiltersSaved
  <2> QED BY <2>2, <2>3 DEF FiltersMatchFrames, Count
<1>6. IndexFollowsCalls
  <2>1. Len(mtd.rstack) <= setup.max
    <3>1. CASE status = "dead"
      <4>1. Len(mtd.rstack) = 0 /\ setup.max \in Nat
        BY <3>1, <1>1 DEF McountInv, SetupOK
      <4> QED BY <4>1
    <3>2. CASE status # "dead"
      BY <3>2 DEF McountInv, StackInv, Limited
    <3> QED BY <3>1, <3>2
  <2>2. ASSUME status = "run"
        PROVE  /\ Idx(mtd) = Cardinality(HookedCalls)
               /\ \A k \in HookedCalls :
                     LET j == Cardinality({h \in HookedCalls : h <= k})
                     IN j <= Len(mtd.rstack) => mtd.rstack[j].fn = app[k].fn
    <3>1. HookedCalls = Hooks(app)
      BY <1>3 DEF HookedCalls, Hooks
    <3>2. FramesFollow(app, mtd)
      BY <2>2, <1>4 DEF StackInv
    <3> QED BY <3>1, <3>2 DEF FramesFollow, Rank
  <2> QED BY <2>1, <2>2 DEF IndexFollowsCalls
<1> QED BY <1>2, <1>5, <1>6 DEF MirrorsCalls

\* What it says of the records
LEMMA InvTells ==
    ASSUME McountAssumption, McountInv
    PROVE  StreamTellsCalls
<1>1. mtd \in MtdType /\ StreamInv(mtd, calls, now, forked, wasOff)
  BY DEF McountInv
<1>2. /\ DOMAIN mtd.rstack = 1 .. Len(mtd.rstack) /\ DOMAIN mtd.stream = 1 .. Len(mtd.stream)
      /\ \A i \in 1 .. Len(mtd.stream) : mtd.stream[i] \in Rec
  <2>1. mtd.rstack \in Seq(Frame) /\ mtd.stream \in Seq(Rec)
    BY <1>1 DEF MtdType
  <2> QED BY <2>1
<1>3. WrittenFromTheTop
  BY <1>1, <1>2 DEF StreamInv, FromTheTop, WrittenFromTheTop
<1>4. TimesInOrder
  BY <1>1, <1>2 DEF StreamInv, Timely, TimesInOrder
<1>5. OpenCallsByDepth
  <2> SUFFICES ASSUME NEW j \in 1 .. Len(mtd.rstack), Written(mtd.rstack[j]), ~Skipped(mtd.rstack[j]), Own(mtd.rstack[j])
               PROVE  \E i \in EntriesAt(mtd.rstack[j].depth) :
                         mtd.stream[i].id = mtd.rstack[j].id /\ \A k \in EntriesAt(mtd.rstack[j].depth) : k <= i
    BY <1>2 DEF OpenCallsByDepth
  <2>1. FrameTold(mtd, forked, mtd.rstack[j])
    BY <1>1 DEF StreamInv, FramesTold
  <2>2. PICK i \in 1 .. Len(mtd.stream) :
            /\ mtd.stream[i].type = "ENTRY" /\ mtd.stream[i].id = mtd.rstack[j].id
            /\ mtd.stream[i].depth = mtd.rstack[j].depth
            /\ \A l \in 1 .. Len(mtd.stream) :
                  mtd.stream[l].type = "ENTRY" /\ mtd.stream[l].depth = mtd.rstack[j].depth => l <= i
    BY <2>1 DEF FrameTold, Own
  <2> QED BY <2>2, <1>2 DEF EntriesAt
<1>6. EntryBeforeExit
  <2>1. OneOfEach(mtd, calls) /\ Paired(mtd, forked, wasOff)
    BY <1>1 DEF StreamInv
  <2>2. ASSUME NEW i \in 1 .. Len(mtd.stream), NEW j \in 1 .. Len(mtd.stream), i # j, mtd.stream[i].id = mtd.stream[j].id
        PROVE  mtd.stream[i].type # mtd.stream[j].type
    BY <2>1, <2>2 DEF OneOfEach
  <2>3. ASSUME NEW i \in 1 .. Len(mtd.stream), mtd.stream[i].type = "EXIT", mtd.stream[i].id > forked, ~wasOff
        PROVE  \E k \in 1 .. i : mtd.stream[k].type = "ENTRY" /\ mtd.stream[k].id = mtd.stream[i].id
    BY <2>1, <2>3 DEF Paired
  <2> QED BY <2>2, <2>3, <1>2 DEF EntryBeforeExit
<1>7. EveryEntryCloses
  <2> SUFFICES ASSUME status = "run", mtd.losts = 0, ~wasOff, NEW i \in 1 .. Len(mtd.stream), mtd.stream[i].type # "EXIT"
               PROVE  \/ \E j \in 1 .. Len(mtd.rstack) : mtd.rstack[j].id = mtd.stream[i].id
                      \/ \E j \in 1 .. Len(mtd.stream) :
                             mtd.stream[j].type = "EXIT" /\ mtd.stream[j].id = mtd.stream[i].id
    BY <1>2 DEF EveryEntryCloses
  <2>1. Closed(mtd, wasOff)
    BY DEF McountInv
  <2>2. mtd.stream[i].type = "ENTRY"
    BY <1>2 DEF Rec
  <2> QED BY <2>1, <2>2 DEF Closed, ExitOf
<1>8. CrashShowsOpenCalls
  BY <1>2 DEF McountInv, AllWritten, CrashShowsOpenCalls
<1> QED BY <1>3, <1>4, <1>5, <1>6, <1>7, <1>8 DEF StreamTellsCalls

-----------------------------------------------------------------------------
(* The theorems *)

\* __mcount_entry(), __mcount_exit() and their like keep the filters and the index of a thread to
\* what its calls made of them, whatever filters, triggers, limits, signals, forks and crashes do.
THEOREM CallsMirrored ==
    ASSUME McountAssumption
    PROVE  Spec => []MirrorsCalls
<1>1. Init => McountInv
  BY InitHolds
<1>2. McountInv /\ [Next]_vars => McountInv'
  BY StepHolds
<1>3. McountInv => MirrorsCalls
  BY InvMirrors
<1> QED BY <1>1, <1>2, <1>3, PTL DEF Spec

\* The records that record_trace_data() writes of a thread tell its calls: callers first, in the
\* order of time, in pairs, and all that are in progress when segv_handler() flushes them.
THEOREM CallsTold ==
    ASSUME McountAssumption
    PROVE  Spec => []StreamTellsCalls
<1>1. Init => McountInv
  BY InitHolds
<1>2. McountInv /\ [Next]_vars => McountInv'
  BY StepHolds
<1>3. McountInv => StreamTellsCalls
  BY InvTells
<1> QED BY <1>1, <1>2, <1>3, PTL DEF Spec
=============================================================================
