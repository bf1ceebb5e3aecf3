---------------------------- MODULE Network_proofs -----------------------------
(***************************************************************************)
(* Proofs about Network, for any recorders, writers, amount of data and    *)
(* files, with messages of several writers mixed up as they may be: what   *)
(* the server has saved when it runs the command for a recorder is all of  *)
(* that recorder's data.                                                   *)
(***************************************************************************)
EXTENDS Network, SequenceTheorems, TLAPS

DirName == Msg("DIR_NAME", Main, 0)
End == Msg("END", Main, 0)

Saves(r) == DataOf(r) \cup MetaFiles
MsgsOf(r) == Saves(r) \cup {DirName, End}
ThreadsOf(r) == WritersOf(r) \cup {Main}

Items(M) == [is : {"head", "body"}, m : M]

-----------------------------------------------------------------------------
(* The stream of a recorder: what is in its socket (W) and saved already (F); the server may have   *)
(* read a header alone (at = "body"), that of h; and a sender may be in the middle of a message, p. *)

\* What must be sent later than x
SentAfter(x, y) ==
    \/ x.type = "DIR_NAME" /\ y.type # "DIR_NAME"
    \/ x.type # "END" /\ y.type = "END"
    \/ x.type = "DATA" /\ y.type = "META"
    \/ WrittenBefore(x, y)

MayPrecede(x, y) == x # y /\ ~SentAfter(y, x)

\* Every header is followed by its body, the last one as soon as its sender goes on.
Framed(W, at, h, p) ==
    /\ \A i \in 1 .. Len(W) - 1 :
         /\ W[i].is = "head" => W[i + 1] = Piece("body", W[i].m)
         /\ W[i].is = "body" => W[i + 1].is = "head"
    /\ Len(W) > 0 => (W[1].is = "body" <=> at = "body") /\ (at = "body" => W[1].m = h)
    /\ \A i \in 1 .. Len(W) : W[i].m = End => i = Len(W) /\ W[i].is = "head"
    /\ p # NoMsg => IF Len(W) = 0 THEN at = "body" /\ h = p ELSE W[Len(W)] = Piece("head", p) /\ p # End
    /\ Len(W) > 0 => (W[Len(W)].is = "head" /\ W[Len(W)].m # End => p = W[Len(W)].m)
    /\ Len(W) = 0 /\ at = "body" => p = h

\* Messages are saved and on their way in an order in which they may be sent.
InOrder(W, F, at, h) ==
    /\ \A i, j \in 1 .. Len(W) : i < j => MayPrecede(W[i].m, W[j].m) \/ (j = i + 1 /\ W[i].is = "head")
    /\ \A i \in 1 .. Len(F), j \in 1 .. Len(W) : MayPrecede(F[i], W[j].m)
    /\ at = "body" => /\ \A i \in 1 .. Len(F) : MayPrecede(F[i], h)
                      /\ \A j \in 2 .. Len(W) : MayPrecede(h, W[j].m)
    /\ \A i, j \in 1 .. Len(F) : i < j => MayPrecede(F[i], F[j])

\* The message is saved or on its way.
CarriedBy(W, F, at, h, x) ==
    \/ \E i \in 1 .. Len(F) : F[i] = x
    \/ \E i \in 1 .. Len(W) : W[i].m = x
    \/ at = "body" /\ h = x

-----------------------------------------------------------------------------
(* The invariant *)

\* Whether the server has read the header of a message of the recorder and not its body
AtOf(r) == IF srv.pc = "body" /\ srv.sock = r THEN "body" ELSE "poll"

Carried(r, x) == CarriedBy(wire[r], files[r], AtOf(r), srv.head, x)

Shape ==
    /\ snd = [r \in Recorders |-> [pc |-> snd[r].pc, left |-> snd[r].left, rest |-> snd[r].rest]]
    /\ part = [r \in Recorders |-> part[r]] /\ wire = [r \in Recorders |-> wire[r]] /\ files = [r \in Recorders |-> files[r]]
    /\ srv = [up |-> srv.up, pc |-> srv.pc, sock |-> srv.sock, head |-> srv.head, list |-> srv.list, epoll |-> srv.epoll]
    /\ srv.up \in BOOLEAN /\ srv.pc \in {"poll", "body"} /\ cmds \subseteq Recorders
    /\ srv.pc = "body" => srv.sock \in Recorders

Types(r) ==
    /\ snd[r].pc \in {"start", "data", "meta", "gone", "dead"}
    /\ snd[r].left \in [WritersOf(r) -> 0 .. MaxData(r)] /\ snd[r].rest \in Seq(STRING)
    /\ part[r] \in [ThreadsOf(r) -> MsgsOf(r) \cup {NoMsg}]
    /\ wire[r] \in Seq(Items(MsgsOf(r))) /\ files[r] \in Seq(Saves(r))
    /\ AtOf(r) = "body" => srv.head \in MsgsOf(r) \ {End}

NoneInMiddle(r) == \A w \in ThreadsOf(r) : part[r][w] = NoMsg

\* At most one thread of a recorder is in the middle of a message, p.
InMiddle(r, p) ==
    /\ \A w \in ThreadsOf(r) : part[r][w] \in {NoMsg, p}
    /\ \A v, w \in ThreadsOf(r) : part[r][v] # NoMsg /\ part[r][w] # NoMsg => v = w
    /\ p # NoMsg => (\E w \in ThreadsOf(r) : part[r][w] = p) /\ p \in MsgsOf(r) \ {End}

Stream(r) ==
    /\ \E p \in MsgsOf(r) \cup {NoMsg} : InMiddle(r, p) /\ Framed(wire[r], AtOf(r), srv.head, p)
    /\ InOrder(wire[r], files[r], AtOf(r), srv.head)

\* The recorder sends its data, then its files in order.
Phases(r) ==
    /\ Len(snd[r].rest) <= Len(Meta)
    /\ \A i \in 1 .. Len(snd[r].rest) : snd[r].rest[i] = Meta[i + (Len(Meta) - Len(snd[r].rest))]
    /\ snd[r].pc \in {"start", "data"} => snd[r].rest = Meta
    /\ snd[r].pc = "start" => /\ wire[r] = << >> /\ AtOf(r) = "poll" /\ files[r] = << >>
                              /\ \A w \in WritersOf(r) : snd[r].left[w] = MaxData(r)
    /\ snd[r].pc = "meta" => \A w \in WritersOf(r) : snd[r].left[w] = 0 /\ part[r][w] = NoMsg
    /\ snd[r].pc \in {"start", "gone"} => NoneInMiddle(r)

\* All of it was sent.
AllSent(r) == snd[r].pc = "gone" /\ snd[r].rest = << >> /\ \A w \in WritersOf(r) : snd[r].left[w] = 0

\* What was sent is saved or on its way, and nothing else.
NothingLost(r) ==
    /\ \A w \in WritersOf(r), d \in 1 .. MaxData(r) : Carried(r, Msg("DATA", w, d)) <=> d > snd[r].left[w]
    /\ \A i \in 1 .. Len(Meta) : Carried(r, Msg("META", Meta[i], 1)) <=> i <= Len(Meta) - Len(snd[r].rest)
    /\ Carried(r, End) => AllSent(r)
    /\ r \in cmds => wire[r] = << >> /\ AtOf(r) = "poll" /\ AllSent(r)

RecInv(r) == Types(r) /\ Stream(r) /\ Phases(r) /\ NothingLost(r)

\* In a socket (W) where the server reads on at a header or a body (at), a piece that is not what the
\* server takes it for comes before END: the first one, or the second of two headers in a row.
Confused(W, at) ==
    \E n \in 1 .. Len(W) :
        /\ \A i \in 1 .. n : W[i].m.type # "END"
        /\ n = 1 => (W[1].is = "head" <=> at = "body")
        /\ n # 1 => W[n - 1].is = "head" /\ W[n].is = "head"

NoEnd(W) == \A i \in 1 .. Len(W) : W[i].m.type # "END"

\* A recorder that has died or mixed its messages up is never taken for one that has sent all.
Astray(r) ==
    /\ r \notin cmds /\ \E S : wire[r] \in Seq(S)
    /\ srv.up => Confused(wire[r], AtOf(r)) \/ (snd[r].pc = "dead" /\ NoEnd(wire[r]))

Rec(r) == IF Orderly(r) THEN RecInv(r) ELSE Astray(r)

\* Only such a recorder takes the server down.
ServerUp == srv.up \/ \E r \in Recorders : ~Orderly(r)

NetInv == Shape /\ ServerUp /\ \A r \in Recorders : Rec(r)

USE NetworkAssumption

-----------------------------------------------------------------------------
(* Lemmas about the stream *)

\* An item at the end of the socket
LEMMA AppendedItem ==
    ASSUME NEW M, NEW W \in Seq(Items(M)), NEW it \in Items(M), NEW V, V = Append(W, it)
    PROVE  /\ V \in Seq(Items(M)) /\ Len(V) = Len(W) + 1 /\ Len(W) \in Nat /\ V[Len(W) + 1] = it
           /\ \A i \in 1 .. Len(W) : i \in 1 .. Len(V) /\ V[i] = W[i] /\ W[i].m \in M /\ W[i].is \in {"head", "body"}
           /\ \A j \in 1 .. Len(V) : (j = Len(W) + 1 /\ V[j] = it) \/ (j \in 1 .. Len(W) /\ V[j] = W[j])
<1>1. /\ V \in Seq(Items(M)) /\ Len(V) = Len(W) + 1 /\ Len(W) \in Nat /\ V[Len(W) + 1] = it
      /\ \A i \in 1 .. Len(W) : V[i] = W[i] /\ W[i] \in Items(M)
  OBVIOUS
<1> QED BY <1>1 DEF Items

\* The order of the messages after one more
LEMMA AppendedOrder ==
    ASSUME NEW M, NEW W \in Seq(Items(M)), NEW F \in Seq(M), NEW at, NEW h, NEW it \in Items(M), NEW V, V = Append(W, it),
           InOrder(W, F, at, h),
           \A i \in 1 .. Len(W) : MayPrecede(W[i].m, it.m) \/ (i = Len(W) /\ W[i].is = "head"),
           \A i \in 1 .. Len(F) : MayPrecede(F[i], it.m),
           at = "body" /\ Len(W) > 0 => MayPrecede(h, it.m)
    PROVE  /\ InOrder(V, F, at, h)
           /\ \A x : CarriedBy(V, F, at, h, x) <=> CarriedBy(W, F, at, h, x) \/ x = it.m
<1>1. /\ V \in Seq(Items(M)) /\ Len(V) = Len(W) + 1 /\ Len(W) \in Nat /\ V[Len(W) + 1] = it
      /\ \A i \in 1 .. Len(W) : i \in 1 .. Len(V) /\ V[i] = W[i] /\ W[i].m \in M /\ W[i].is \in {"head", "body"}
      /\ \A j \in 1 .. Len(V) : (j = Len(W) + 1 /\ V[j] = it) \/ (j \in 1 .. Len(W) /\ V[j] = W[j])
  BY AppendedItem, SMTT(30)
<1>2. \A i, j \in 1 .. Len(V) : i < j => MayPrecede(V[i].m, V[j].m) \/ (j = i + 1 /\ V[i].is = "head")
  <2> SUFFICES ASSUME NEW i \in 1 .. Len(V), NEW j \in 1 .. Len(V), i < j
               PROVE  MayPrecede(V[i].m, V[j].m) \/ (j = i + 1 /\ V[i].is = "head")
    OBVIOUS
  <2>1. i \in 1 .. Len(W) /\ V[i] = W[i]
    BY <1>1
  <2>2. CASE j = Len(W) + 1
    BY <1>1, <2>1, <2>2
  <2>3. CASE j \in 1 .. Len(W)
    <3>1. V[j] = W[j]
      BY <1>1, <2>3
    <3> QED BY <2>1, <2>3, <3>1 DEF InOrder
  <2> QED BY <1>1, <2>2, <2>3
<1>3. \A i \in 1 .. Len(F), j \in 1 .. Len(V) : MayPrecede(F[i], V[j].m)
  <2> SUFFICES ASSUME NEW i \in 1 .. Len(F), NEW j \in 1 .. Len(V)
               PROVE  MayPrecede(F[i], V[j].m)
    OBVIOUS
  <2>1. V[j] = it \/ (j \in 1 .. Len(W) /\ V[j] = W[j])
    BY <1>1
  <2> QED BY <2>1 DEF InOrder
<1>4. ASSUME at = "body", NEW j \in 2 .. Len(V)
      PROVE  MayPrecede(h, V[j].m)
  <2>1. (V[j] = it /\ Len(W) > 0) \/ (j \in 2 .. Len(W) /\ V[j] = W[j])
    BY <1>1
  <2> QED BY <1>4, <2>1 DEF InOrder
<1>5. InOrder(V, F, at, h)
  BY <1>2, <1>3, <1>4 DEF InOrder
<1>6. \A x : CarriedBy(V, F, at, h, x) <=> CarriedBy(W, F, at, h, x) \/ x = it.m
  <2>1. \A x : (\E i \in 1 .. Len(V) : V[i].m = x) <=> (\E i \in 1 .. Len(W) : W[i].m = x) \/ x = it.m
    <3>1. Len(W) + 1 \in 1 .. Len(V) /\ V[Len(W) + 1].m = it.m
      BY <1>1
    <3> QED BY <1>1, <3>1
  <2> QED BY <2>1 DEF CarriedBy
<1> QED BY <1>5, <1>6

\* The frames after one more item, q being the message in the middle then
LEMMA AppendedFrame ==
    ASSUME NEW M, NEW W \in Seq(Items(M)), NEW at, NEW h, NEW it \in Items(M), NEW V, V = Append(W, it), NEW p, NEW q,
           Framed(W, at, h, p), \A i \in 1 .. Len(W) : W[i].m # End,
           Len(W) > 0 => /\ W[Len(W)].is = "head" => it = Piece("body", W[Len(W)].m)
                         /\ W[Len(W)].is = "body" => it.is = "head",
           Len(W) = 0 => (it.is = "body" <=> at = "body") /\ (at = "body" => it.m = h),
           it.m = End => it.is = "head",
           q # NoMsg => it = Piece("head", q) /\ q # End,
           it.is = "head" /\ it.m # End => q = it.m
    PROVE  Framed(V, at, h, q)
<1>1. /\ V \in Seq(Items(M)) /\ Len(V) = Len(W) + 1 /\ Len(W) \in Nat /\ V[Len(W) + 1] = it
      /\ \A i \in 1 .. Len(W) : i \in 1 .. Len(V) /\ V[i] = W[i] /\ W[i].m \in M /\ W[i].is \in {"head", "body"}
      /\ \A j \in 1 .. Len(V) : (j = Len(W) + 1 /\ V[j] = it) \/ (j \in 1 .. Len(W) /\ V[j] = W[j])
  BY AppendedItem
<1>2. ASSUME NEW i \in 1 .. Len(V) - 1
      PROVE  /\ V[i].is = "head" => V[i + 1] = Piece("body", V[i].m)
             /\ V[i].is = "body" => V[i + 1].is = "head"
  <2>1. CASE i < Len(W)
    <3>1. V[i] = W[i] /\ V[i + 1] = W[i + 1] /\ i \in 1 .. Len(W) - 1
      BY <1>1, <2>1
    <3> QED BY <3>1 DEF Framed
  <2>2. CASE i = Len(W)
    BY <1>1, <2>2
  <2> QED BY <1>1, <2>1, <2>2
<1>3. (V[1].is = "body" <=> at = "body") /\ (at = "body" => V[1].m = h)
  <2>1. CASE Len(W) = 0
    BY <1>1, <2>1
  <2>2. CASE Len(W) > 0
    <3>1. V[1] = W[1]
      BY <1>1, <2>2
    <3> QED BY <2>2, <3>1 DEF Framed
  <2> QED BY <1>1, <2>1, <2>2
<1>4. \A i \in 1 .. Len(V) : V[i].m = End => i = Len(V) /\ V[i].is = "head"
  BY <1>1
<1> QED BY <1>1, <1>2, <1>3, <1>4 DEF Framed

\* A header is put into the socket.
LEMMA PutHead ==
    ASSUME NEW M, NEW W \in Seq(Items(M)), NEW F \in Seq(M), NEW at, NEW h, NEW m \in M, NoMsg \notin M, m # End,
           Framed(W, at, h, NoMsg), InOrder(W, F, at, h), ~CarriedBy(W, F, at, h, End), at = "body" => h # NoMsg,
           \A x : CarriedBy(W, F, at, h, x) => MayPrecede(x, m)
    PROVE  LET V == Append(W, Piece("head", m)) IN
           /\ V \in Seq(Items(M)) /\ Framed(V, at, h, m) /\ InOrder(V, F, at, h)
           /\ \A x : CarriedBy(V, F, at, h, x) <=> CarriedBy(W, F, at, h, x) \/ x = m
<1> DEFINE it == Piece("head", m)   V == Append(W, it)
<1>1. it \in Items(M) /\ it.is = "head" /\ it.m = m /\ it = Piece("head", m) /\ V = Append(W, it)
  BY DEF Piece, Items
<1> HIDE DEF it, V
<1>2. /\ V \in Seq(Items(M)) /\ Len(W) \in Nat
      /\ \A i \in 1 .. Len(W) : W[i].m \in M /\ W[i].is \in {"head", "body"} /\ W[i].m # End /\ MayPrecede(W[i].m, m)
  BY <1>1, AppendedItem DEF CarriedBy
<1>3. Len(W) > 0 => W[Len(W)].is = "body"
  BY <1>2 DEF Framed
<1>4. Len(W) = 0 => at # "body"
  BY DEF Framed
<1>5. Framed(V, at, h, m)
  <2>1. Len(W) > 0 => /\ W[Len(W)].is = "head" => it = Piece("body", W[Len(W)].m)
                      /\ W[Len(W)].is = "body" => it.is = "head"
    BY <1>1, <1>3
  <2>2. Len(W) = 0 => (it.is = "body" <=> at = "body") /\ (at = "body" => it.m = h)
    BY <1>1, <1>4
  <2>3. it.m = End => it.is = "head"
    BY <1>1
  <2>4. m # NoMsg => it = Piece("head", m) /\ m # End
    BY <1>1
  <2>5. it.is = "head" /\ it.m # End => m = it.m
    BY <1>1
  <2>6. \A i \in 1 .. Len(W) : W[i].m # End
    BY <1>2
  <2> QED BY <1>1, <2>1, <2>2, <2>3, <2>4, <2>5, <2>6, AppendedFrame
<1>6. (\A i \in 1 .. Len(F) : MayPrecede(F[i], m)) /\ (at = "body" => MayPrecede(h, m))
  BY DEF CarriedBy
<1>7. InOrder(V, F, at, h) /\ \A x : CarriedBy(V, F, at, h, x) <=> CarriedBy(W, F, at, h, x) \/ x = m
  <2>1. /\ \A i \in 1 .. Len(W) : MayPrecede(W[i].m, it.m) \/ (i = Len(W) /\ W[i].is = "head")
        /\ \A i \in 1 .. Len(F) : MayPrecede(F[i], it.m)
        /\ at = "body" /\ Len(W) > 0 => MayPrecede(h, it.m)
    BY <1>1, <1>2, <1>6
  <2>2. InOrder(V, F, at, h) /\ \A x : CarriedBy(V, F, at, h, x) <=> CarriedBy(W, F, at, h, x) \/ x = it.m
    BY <1>1, <2>1, AppendedOrder
  <2> QED BY <1>1, <2>2
<1> QED BY <1>2, <1>5, <1>7 DEF it, V

\* END has no body.
LEMMA PutEnd ==
    ASSUME NEW M, NEW W \in Seq(Items(M)), NEW F \in Seq(M), NEW at, NEW h, End \in M, NoMsg \notin M,
           Framed(W, at, h, NoMsg), InOrder(W, F, at, h), ~CarriedBy(W, F, at, h, End), at = "body" => h # NoMsg,
           \A x : CarriedBy(W, F, at, h, x) => MayPrecede(x, End)
    PROVE  LET V == Append(W, Piece("head", End)) IN
           /\ V \in Seq(Items(M)) /\ Framed(V, at, h, NoMsg) /\ InOrder(V, F, at, h)
           /\ \A x : CarriedBy(V, F, at, h, x) <=> CarriedBy(W, F, at, h, x) \/ x = End
<1> DEFINE it == Piece("head", End)   V == Append(W, it)
<1>1. it \in Items(M) /\ it.is = "head" /\ it.m = End /\ V = Append(W, it)
  BY DEF Piece, Items
<1> HIDE DEF it, V
<1>2. /\ V \in Seq(Items(M)) /\ Len(W) \in Nat
      /\ \A i \in 1 .. Len(W) : W[i].m \in M /\ W[i].is \in {"head", "body"} /\ W[i].m # End /\ MayPrecede(W[i].m, End)
  BY <1>1, AppendedItem DEF CarriedBy
<1>3. Len(W) > 0 => W[Len(W)].is = "body"
  BY <1>2 DEF Framed
<1>4. Len(W) = 0 => at # "body"
  BY DEF Framed
<1>5. Framed(V, at, h, NoMsg)
  <2>1. Len(W) > 0 => /\ W[Len(W)].is = "head" => it = Piece("body", W[Len(W)].m)
                      /\ W[Len(W)].is = "body" => it.is = "head"
    BY <1>1, <1>3
  <2>2. Len(W) = 0 => (it.is = "body" <=> at = "body") /\ (at = "body" => it.m = h)
    BY <1>1, <1>4
  <2>3. it.m = End => it.is = "head"
    BY <1>1
  <2>4. NoMsg # NoMsg => it = Piece("head", NoMsg) /\ NoMsg # End
    BY <1>1
  <2>5. it.is = "head" /\ it.m # End => NoMsg = it.m
    BY <1>1
  <2>6. \A i \in 1 .. Len(W) : W[i].m # End
    BY <1>2
  <2> QED BY <1>1, <2>1, <2>2, <2>3, <2>4, <2>5, <2>6, AppendedFrame
<1>6. (\A i \in 1 .. Len(F) : MayPrecede(F[i], End)) /\ (at = "body" => MayPrecede(h, End))
  BY DEF CarriedBy
<1>7. InOrder(V, F, at, h) /\ \A x : CarriedBy(V, F, at, h, x) <=> CarriedBy(W, F, at, h, x) \/ x = End
  <2>1. /\ \A i \in 1 .. Len(W) : MayPrecede(W[i].m, it.m) \/ (i = Len(W) /\ W[i].is = "head")
        /\ \A i \in 1 .. Len(F) : MayPrecede(F[i], it.m)
        /\ at = "body" /\ Len(W) > 0 => MayPrecede(h, it.m)
    BY <1>1, <1>2, <1>6
  <2>2. InOrder(V, F, at, h) /\ \A x : CarriedBy(V, F, at, h, x) <=> CarriedBy(W, F, at, h, x) \/ x = it.m
    BY <1>1, <2>1, AppendedOrder, ZenonT(60)
  <2> QED BY <1>1, <2>2
<1> QED BY <1>2, <1>5, <1>7 DEF it, V

\* A body follows its header.
LEMMA PutBody ==
    ASSUME NEW M, NEW W \in Seq(Items(M)), NEW F \in Seq(M), NEW at, NEW h, NEW p \in M, NoMsg \notin M, p # End,
           Framed(W, at, h, p), InOrder(W, F, at, h)
    PROVE  LET V == Append(W, Piece("body", p)) IN
           /\ V \in Seq(Items(M)) /\ Framed(V, at, h, NoMsg) /\ InOrder(V, F, at, h)
           /\ \A x : CarriedBy(V, F, at, h, x) <=> CarriedBy(W, F, at, h, x)
<1> DEFINE it == Piece("body", p)   V == Append(W, it)
<1>1. it \in Items(M) /\ it.is = "body" /\ it.m = p /\ it = Piece("body", p) /\ V = Append(W, it)
  BY DEF Piece, Items
<1> HIDE DEF it, V
<1>2. /\ V \in Seq(Items(M)) /\ Len(W) \in Nat
      /\ \A i \in 1 .. Len(W) : W[i].m \in M /\ W[i].is \in {"head", "body"}
  BY <1>1, AppendedItem
<1>3. IF Len(W) = 0 THEN at = "body" /\ h = p ELSE W[Len(W)].is = "head" /\ W[Len(W)].m = p
  BY DEF Framed, Piece
<1>4. \A i \in 1 .. Len(W) : W[i].m # End
  BY <1>2, <1>3 DEF Framed
<1>5. Framed(V, at, h, NoMsg)
  <2>1. Len(W) > 0 => /\ W[Len(W)].is = "head" => it = Piece("body", W[Len(W)].m)
                      /\ W[Len(W)].is = "body" => it.is = "head"
    BY <1>1, <1>3
  <2>2. Len(W) = 0 => (it.is = "body" <=> at = "body") /\ (at = "body" => it.m = h)
    BY <1>1, <1>3
  <2>3. it.m = End => it.is = "head"
    BY <1>1
  <2>4. NoMsg # NoMsg => it = Piece("head", NoMsg) /\ NoMsg # End
    BY <1>1
  <2>5. it.is = "head" /\ it.m # End => NoMsg = it.m
    BY <1>1
  <2>6. \A i \in 1 .. Len(W) : W[i].m # End
    BY <1>4
  <2> QED BY <1>1, <2>1, <2>2, <2>3, <2>4, <2>5, <2>6, AppendedFrame, ZenonT(60)
<1>6. \A i \in 1 .. Len(W) : MayPrecede(W[i].m, p) \/ (i = Len(W) /\ W[i].is = "head")
  <2> SUFFICES ASSUME NEW i \in 1 .. Len(W), i < Len(W)
               PROVE  MayPrecede(W[i].m, p)
    BY <1>2, <1>3
  <2>1. ~(Len(W) = i + 1 /\ W[i].is = "head")
    <3> SUFFICES ASSUME Len(W) = i + 1, W[i].is = "head"
                 PROVE  FALSE
      OBVIOUS
    <3>1. i \in 1 .. Len(W) - 1
      BY <1>2
    <3>2. W[Len(W)].is = "body"
      <4>1. W[i + 1] = Piece("body", W[i].m)
        BY <3>1 DEF Framed
      <4> QED BY <4>1 DEF Piece
    <3> QED BY <1>2, <1>3, <3>2
  <2> QED BY <1>2, <1>3, <2>1 DEF InOrder
<1>7. \A i \in 1 .. Len(F) : MayPrecede(F[i], p)
  BY <1>2, <1>3 DEF InOrder
<1>8. at = "body" /\ Len(W) > 0 => MayPrecede(h, p)
  <2>1. at = "body" /\ Len(W) > 0 => Len(W) \in 2 .. Len(W)
    BY <1>2, <1>3 DEF Framed
  <2> QED BY <1>3, <2>1 DEF InOrder
<1>9. InOrder(V, F, at, h) /\ \A x : CarriedBy(V, F, at, h, x) <=> CarriedBy(W, F, at, h, x) \/ x = p
  <2>1. /\ \A i \in 1 .. Len(W) : MayPrecede(W[i].m, it.m) \/ (i = Len(W) /\ W[i].is = "head")
        /\ \A i \in 1 .. Len(F) : MayPrecede(F[i], it.m)
        /\ at = "body" /\ Len(W) > 0 => MayPrecede(h, it.m)
    BY <1>1, <1>6, <1>7, <1>8
  <2>2. InOrder(V, F, at, h) /\ \A x : CarriedBy(V, F, at, h, x) <=> CarriedBy(W, F, at, h, x) \/ x = it.m
    BY <1>1, <2>1, AppendedOrder
  <2> QED BY <1>1, <2>2
<1>10. CarriedBy(W, F, at, h, p)
  BY <1>2, <1>3 DEF CarriedBy
<1> QED BY <1>2, <1>5, <1>9, <1>10 DEF it, V

\* The first item is taken off the socket.
LEMMA TakenItem ==
    ASSUME NEW M, NEW W \in Seq(Items(M)), W # << >>, NEW V, V = Tail(W)
    PROVE  /\ V \in Seq(Items(M)) /\ Len(V) = Len(W) - 1 /\ Len(W) \in Nat /\ Len(W) > 0 /\ Head(W) = W[1] /\ Head(W) \in Items(M)
           /\ \A i \in 1 .. Len(V) : i + 1 \in 2 .. Len(W) /\ V[i] = W[i + 1]
           /\ \A i \in 2 .. Len(W) : i - 1 \in 1 .. Len(V) /\ V[i - 1] = W[i]
OBVIOUS

\* The server reads a header other than END.
LEMMA TakeHead ==
    ASSUME NEW M, NEW W \in Seq(Items(M)), NEW F \in Seq(M), NEW h, NEW p, W # << >>,
           Framed(W, "poll", h, p), InOrder(W, F, "poll", h), Head(W).m # End
    PROVE  /\ Head(W).is = "head" /\ Head(W).m \in M /\ Tail(W) \in Seq(Items(M))
           /\ Framed(Tail(W), "body", Head(W).m, p) /\ InOrder(Tail(W), F, "body", Head(W).m)
           /\ \A x : CarriedBy(Tail(W), F, "body", Head(W).m, x) <=> CarriedBy(W, F, "poll", h, x)
<1> DEFINE V == Tail(W)   g == Head(W).m
<1>1. /\ V \in Seq(Items(M)) /\ Len(V) = Len(W) - 1 /\ Len(W) \in Nat /\ Len(W) > 0 /\ Head(W) = W[1] /\ Head(W) \in Items(M)
      /\ \A i \in 1 .. Len(V) : i + 1 \in 2 .. Len(W) /\ V[i] = W[i + 1]
      /\ \A i \in 2 .. Len(W) : i - 1 \in 1 .. Len(V) /\ V[i - 1] = W[i]
  BY TakenItem
<1> HIDE DEF V, g
<1>2. g = W[1].m /\ g \in M /\ W[1].is = "head"
  BY <1>1 DEF Framed, Items, g
<1>3. Framed(V, "body", g, p)
  <2>1. ASSUME NEW i \in 1 .. Len(V) - 1
        PROVE  /\ V[i].is = "head" => V[i + 1] = Piece("body", V[i].m)
               /\ V[i].is = "body" => V[i + 1].is = "head"
    <3>1. V[i] = W[i + 1] /\ V[i + 1] = W[i + 1 + 1] /\ i + 1 \in 1 .. Len(W) - 1
      BY <1>1
    <3> QED BY <3>1 DEF Framed
  <2>2. Len(V) > 0 => V[1].is = "body" /\ V[1].m = g
    <3> SUFFICES ASSUME Len(V) > 0
                 PROVE  V[1].is = "body" /\ V[1].m = g
      OBVIOUS
    <3>1. V[1] = W[1 + 1] /\ 1 \in 1 .. Len(W) - 1
      BY <1>1
    <3>2. W[1 + 1] = Piece("body", W[1].m)
      BY <1>2, <3>1 DEF Framed
    <3> QED BY <1>2, <3>1, <3>2 DEF Piece
  <2>3. \A i \in 1 .. Len(V) : V[i].m = End => i = Len(V) /\ V[i].is = "head"
    BY <1>1 DEF Framed
  <2>4. Len(V) > 0 => V[Len(V)] = W[Len(W)]
    BY <1>1
  <2>5. Len(V) = 0 => p = g
    <3> SUFFICES ASSUME Len(V) = 0
                 PROVE  p = g
      OBVIOUS
    <3>1. Len(W) = 1 /\ W[Len(W)] = W[1] /\ W[1].m # End
      BY <1>1
    <3> QED BY <1>2, <3>1 DEF Framed
  <2>6. p # NoMsg => W[Len(W)] = Piece("head", p) /\ p # End
    BY <1>1 DEF Framed
  <2>7. Len(V) > 0 => (V[Len(V)].is = "head" /\ V[Len(V)].m # End => p = V[Len(V)].m)
    BY <1>1, <2>4 DEF Framed
  <2> QED BY <2>1, <2>2, <2>3, <2>4, <2>5, <2>6, <2>7 DEF Framed
<1>4. InOrder(V, F, "body", g)
  <2>1. ASSUME NEW i \in 1 .. Len(V), NEW j \in 1 .. Len(V), i < j
        PROVE  MayPrecede(V[i].m, V[j].m) \/ (j = i + 1 /\ V[i].is = "head")
    <3>1. V[i] = W[i + 1] /\ V[j] = W[j + 1] /\ i + 1 \in 1 .. Len(W) /\ j + 1 \in 1 .. Len(W) /\ i + 1 < j + 1
      BY <1>1, <2>1
    <3>2. MayPrecede(W[i + 1].m, W[j + 1].m) \/ (j + 1 = i + 1 + 1 /\ W[i + 1].is = "head")
      BY <3>1 DEF InOrder
    <3> QED BY <3>1, <3>2
  <2>2. \A i \in 1 .. Len(F), j \in 1 .. Len(V) : MayPrecede(F[i], V[j].m)
    BY <1>1 DEF InOrder
  <2>3. \A i \in 1 .. Len(F) : MayPrecede(F[i], g)
    BY <1>1, <1>2 DEF InOrder
  <2>4. ASSUME NEW j \in 2 .. Len(V)
        PROVE  MayPrecede(g, V[j].m)
    <3>1. V[j] = W[j + 1] /\ 1 \in 1 .. Len(W) /\ j + 1 \in 1 .. Len(W) /\ 1 < j + 1 /\ j + 1 # 1 + 1
      BY <1>1
    <3> QED BY <1>2, <3>1 DEF InOrder
  <2> QED BY <2>1, <2>2, <2>3, <2>4 DEF InOrder
<1>5. \A x : (\E i \in 1 .. Len(W) : W[i].m = x) <=> (\E i \in 1 .. Len(V) : V[i].m = x) \/ x = g
  <2>1. 1 \in 1 .. Len(W) /\ \A i \in 1 .. Len(W) : i = 1 \/ i \in 2 .. Len(W)
    BY <1>1
  <2>2. \A i \in 1 .. Len(V) : i + 1 \in 1 .. Len(W) /\ V[i] = W[i + 1]
    BY <1>1
  <2> QED BY <1>1, <1>2, <2>1, <2>2, ZenonT(60)
<1> QED BY <1>1, <1>2, <1>3, <1>4, <1>5 DEF CarriedBy, V, g

\* The server reads a body, and saves it or not.
LEMMA TakeBody ==
    ASSUME NEW M, NEW W \in Seq(Items(M)), NEW F \in Seq(M), NEW h, NEW p, W # << >>,
           Framed(W, "body", h, p), InOrder(W, F, "body", h)
    PROVE  /\ Head(W).is = "body" /\ Head(W).m = h /\ h \in M /\ Tail(W) \in Seq(Items(M))
           /\ Framed(Tail(W), "poll", h, p)
           /\ InOrder(Tail(W), F, "poll", h) /\ InOrder(Tail(W), Append(F, h), "poll", h)
           /\ \A x : x # h => (CarriedBy(Tail(W), F, "poll", h, x) <=> CarriedBy(W, F, "body", h, x))
           /\ \A x : CarriedBy(Tail(W), Append(F, h), "poll", h, x) <=> CarriedBy(W, F, "body", h, x)
<1> DEFINE V == Tail(W)   G == Append(F, h)
<1>1. /\ V \in Seq(Items(M)) /\ Len(V) = Len(W) - 1 /\ Len(W) \in Nat /\ Len(W) > 0 /\ Head(W) = W[1] /\ Head(W) \in Items(M)
      /\ \A i \in 1 .. Len(V) : i + 1 \in 2 .. Len(W) /\ V[i] = W[i + 1]
      /\ \A i \in 2 .. Len(W) : i - 1 \in 1 .. Len(V) /\ V[i - 1] = W[i]
  BY TakenItem
<1>2. W[1].is = "body" /\ W[1].m = h /\ h \in M
  BY <1>1 DEF Framed, Items
<1>3. /\ Len(F) \in Nat /\ Len(G) = Len(F) + 1 /\ G[Len(F) + 1] = h
      /\ \A i \in 1 .. Len(F) : i \in 1 .. Len(G) /\ G[i] = F[i]
      /\ \A i \in 1 .. Len(G) : (i = Len(F) + 1 /\ G[i] = h) \/ (i \in 1 .. Len(F) /\ G[i] = F[i])
  BY <1>2
<1> HIDE DEF V, G
<1>4. Framed(V, "poll", h, p)
  <2>1. ASSUME NEW i \in 1 .. Len(V) - 1
        PROVE  /\ V[i].is = "head" => V[i + 1] = Piece("body", V[i].m)
               /\ V[i].is = "body" => V[i + 1].is = "head"
    <3>1. V[i] = W[i + 1] /\ V[i + 1] = W[i + 1 + 1] /\ i + 1 \in 1 .. Len(W) - 1
      BY <1>1
    <3> QED BY <3>1 DEF Framed
  <2>2. Len(V) > 0 => V[1].is # "body"
    <3> SUFFICES ASSUME Len(V) > 0
                 PROVE  V[1].is # "body"
      OBVIOUS
    <3>1. V[1] = W[1 + 1] /\ 1 \in 1 .. Len(W) - 1
      BY <1>1
    <3>2. W[1 + 1].is = "head"
      BY <1>2, <3>1 DEF Framed
    <3> QED BY <3>1, <3>2
  <2>3. \A i \in 1 .. Len(V) : V[i].m = End => i = Len(V) /\ V[i].is = "head"
    BY <1>1 DEF Framed
  <2>4. Len(V) > 0 => V[Len(V)] = W[Len(W)]
    BY <1>1
  <2>5. p # NoMsg => W[Len(W)] = Piece("head", p) /\ W[Len(W)].is = "head" /\ p # End
    BY <1>1 DEF Framed, Piece
  <2>6. p # NoMsg => Len(V) # 0
    BY <1>1, <1>2, <2>5
  <2>7. Len(V) > 0 => (V[Len(V)].is = "head" /\ V[Len(V)].m # End => p = V[Len(V)].m)
    BY <1>1, <2>4 DEF Framed
  <2>8. Len(V) \in Nat
    BY <1>1
  <2> QED BY <2>1, <2>2, <2>3, <2>4, <2>5, <2>6, <2>7, <2>8 DEF Framed
<1>5. \A i, j \in 1 .. Len(V) : i < j => MayPrecede(V[i].m, V[j].m) \/ (j = i + 1 /\ V[i].is = "head")
  <2> SUFFICES ASSUME NEW i \in 1 .. Len(V), NEW j \in 1 .. Len(V), i < j
               PROVE  MayPrecede(V[i].m, V[j].m) \/ (j = i + 1 /\ V[i].is = "head")
    OBVIOUS
  <2>1. V[i] = W[i + 1] /\ V[j] = W[j + 1] /\ i + 1 \in 1 .. Len(W) /\ j + 1 \in 1 .. Len(W) /\ i + 1 < j + 1
    BY <1>1
  <2>2. MayPrecede(W[i + 1].m, W[j + 1].m) \/ (j + 1 = i + 1 + 1 /\ W[i + 1].is = "head")
    BY <2>1 DEF InOrder
  <2> QED BY <2>1, <2>2
<1>6. (\A i \in 1 .. Len(F), j \in 1 .. Len(V) : MayPrecede(F[i], V[j].m)) /\ \A j \in 1 .. Len(V) : MayPrecede(h, V[j].m)
  BY <1>1 DEF InOrder
<1>7. InOrder(V, F, "poll", h)
  BY <1>5, <1>6 DEF InOrder
<1>8. InOrder(V, G, "poll", h)
  <2>1. \A i \in 1 .. Len(G), j \in 1 .. Len(V) : MayPrecede(G[i], V[j].m)
    BY <1>3, <1>6
  <2>2. \A i, j \in 1 .. Len(G) : i < j => MayPrecede(G[i], G[j])
    <3> SUFFICES ASSUME NEW i \in 1 .. Len(G), NEW j \in 1 .. Len(G), i < j
                 PROVE  MayPrecede(G[i], G[j])
      OBVIOUS
    <3>1. i \in 1 .. Len(F) /\ G[i] = F[i]
      BY <1>3
    <3>2. G[j] = h \/ (j \in 1 .. Len(F) /\ G[j] = F[j])
      BY <1>3
    <3> QED BY <3>1, <3>2 DEF InOrder
  <2> QED BY <1>5, <2>1, <2>2 DEF InOrder
<1>9. \A x : (\E i \in 1 .. Len(W) : W[i].m = x) <=> (\E i \in 1 .. Len(V) : V[i].m = x) \/ x = h
  <2>1. 1 \in 1 .. Len(W) /\ \A i \in 1 .. Len(W) : i = 1 \/ i \in 2 .. Len(W)
    BY <1>1
  <2>2. \A i \in 1 .. Len(V) : i + 1 \in 1 .. Len(W) /\ V[i] = W[i + 1]
    BY <1>1
  <2> QED BY <1>1, <1>2, <2>1, <2>2, ZenonT(60)
<1>10. \A x : (\E i \in 1 .. Len(G) : G[i] = x) <=> (\E i \in 1 .. Len(F) : F[i] = x) \/ x = h
  <2>1. Len(F) + 1 \in 1 .. Len(G)
    BY <1>3
  <2> QED BY <1>3, <2>1
<1> QED BY <1>1, <1>2, <1>4, <1>7, <1>8, <1>9, <1>10 DEF CarriedBy, V, G

\* The server reads END, the last message.
LEMMA TakeEnd ==
    ASSUME NEW M, NEW W \in Seq(Items(M)), NEW F \in Seq(M), NEW h, NEW p, W # << >>,
           Framed(W, "poll", h, p), InOrder(W, F, "poll", h), Head(W).m = End
    PROVE  /\ Tail(W) = << >> /\ p = NoMsg
           /\ Framed(<< >>, "poll", h, NoMsg) /\ InOrder(<< >>, F, "poll", h)
           /\ CarriedBy(W, F, "poll", h, End)
           /\ \A x : x # End => (CarriedBy(<< >>, F, "poll", h, x) <=> CarriedBy(W, F, "poll", h, x))
<1>1. Len(W) \in Nat /\ Len(W) > 0 /\ Head(W) = W[1] /\ 1 \in 1 .. Len(W) /\ Len(Tail(W)) = Len(W) - 1 /\ Tail(W) \in Seq(Items(M))
  OBVIOUS
<1>2. Len(W) = 1 /\ W[1].m = End
  BY <1>1 DEF Framed
<1>3. Tail(W) = << >>
  <2>1. \A q \in Seq(Items(M)) : q # << >> => Len(q) \in Nat \ {0}
    BY EmptySeq
  <2>2. Len(Tail(W)) = 0 /\ Tail(W) \in Seq(Items(M))
    BY <1>1, <1>2
  <2> HIDE DEF Items
  <2> QED BY <2>1, <2>2, Zenon
<1>4. p = NoMsg
  <2>1. p # NoMsg => W[1] = Piece("head", p) /\ p # End
    BY <1>2 DEF Framed
  <2> QED BY <1>2, <2>1 DEF Piece
<1>5. Framed(<< >>, "poll", h, NoMsg) /\ InOrder(<< >>, F, "poll", h)
  <2>1. Len(<< >>) = 0 /\ \A i \in 1 .. 0 : FALSE
    OBVIOUS
  <2>2. \A i \in 1 .. 0 - 1 : FALSE
    OBVIOUS
  <2> QED BY <2>1, <2>2 DEF Framed, InOrder
<1>6. /\ CarriedBy(W, F, "poll", h, End)
      /\ \A x : x # End => (CarriedBy(<< >>, F, "poll", h, x) <=> CarriedBy(W, F, "poll", h, x))
  <2>1. Len(<< >>) = 0 /\ \A i \in 1 .. 0 : FALSE
    OBVIOUS
  <2>2. \A i \in 1 .. Len(W) : i = 1
    BY <1>2
  <2> QED BY <1>1, <1>2, <2>1, <2>2 DEF CarriedBy
<1> QED BY <1>3, <1>4, <1>5, <1>6

-----------------------------------------------------------------------------
(* Lemmas about the messages of a recorder *)

LEMMA NoMsgNone ==
    ASSUME NEW r \in Recorders
    PROVE  NoMsg \notin MsgsOf(r) /\ End \in MsgsOf(r) /\ DirName \in MsgsOf(r) /\ NoMsg # End /\ DirName # End
<1>1. NoMsg # End /\ DirName # End /\ NoMsg # DirName
  BY DEF Msg, NoMsg, End, DirName
<1>2. NoMsg \notin DataOf(r)
  <2>1. \A x \in DataOf(r) : x.type = "DATA"
    BY DEF Msg, DataOf
  <2>2. NoMsg.type = "NONE"
    BY DEF Msg, NoMsg
  <2> QED BY <2>1, <2>2
<1>3. NoMsg \notin MetaFiles
  BY DEF Msg, NoMsg, MetaFiles
<1> QED BY <1>1, <1>2, <1>3 DEF MsgsOf, Saves

\* What is carried is a message of the recorder.
LEMMA CarriedKinds ==
    ASSUME NEW r \in Recorders, Shape, Types(r)
    PROVE  /\ files[r] \in Seq(MsgsOf(r))
           /\ AtOf(r) \in {"body", "poll"} /\ (AtOf(r) = "body" => srv.head \in MsgsOf(r) \ {End})
           /\ \A x : Carried(r, x) => x \in MsgsOf(r)
<1>1. files[r] \in Seq(MsgsOf(r))
  <2>1. files[r] \in Seq(Saves(r)) /\ Saves(r) \subseteq MsgsOf(r)
    BY DEF Types, MsgsOf
  <2> QED BY <2>1, SeqMonotonic
<1>2. AtOf(r) \in {"body", "poll"} /\ (AtOf(r) = "body" => srv.head \in MsgsOf(r) \ {End})
  BY DEF AtOf, Types
<1>3. ASSUME NEW x, Carried(r, x)
      PROVE  x \in MsgsOf(r)
  <2>1. CASE \E i \in 1 .. Len(files[r]) : files[r][i] = x
    BY <1>1, <2>1, ElementOfSeq
  <2>2. CASE \E i \in 1 .. Len(wire[r]) : wire[r][i].m = x
    <3>1. PICK i \in 1 .. Len(wire[r]) : wire[r][i].m = x
      BY <2>2
    <3>2. wire[r][i] \in Items(MsgsOf(r))
      <4>1. wire[r] \in Seq(Items(MsgsOf(r)))
        BY DEF Types
      <4> QED BY <4>1, ElementOfSeq
    <3> QED BY <3>1, <3>2 DEF Items
  <2>3. CASE AtOf(r) = "body" /\ srv.head = x
    BY <1>2, <2>3
  <2> QED BY <1>3, <2>1, <2>2, <2>3 DEF Carried, CarriedBy
<1> QED BY <1>1, <1>2, <1>3

\* A task's next data may be sent after all that was sent before.
LEMMA NextData ==
    ASSUME NEW r \in Recorders, Shape, RecInv(r), snd[r].pc = "data", NEW w \in WritersOf(r), snd[r].left[w] > 0
    PROVE  LET m == Msg("DATA", w, snd[r].left[w]) IN
           /\ m \in MsgsOf(r) \ {End} /\ snd[r].left[w] \in 1 .. MaxData(r)
           /\ \A x : Carried(r, x) => MayPrecede(x, m)
<1> DEFINE m == Msg("DATA", w, snd[r].left[w])
<1>1. snd[r].left[w] \in 1 .. MaxData(r)
  BY DEF RecInv, Types
<1>2. m \in MsgsOf(r) \ {End}
  BY <1>1 DEF MsgsOf, Saves, DataOf, End, Msg
<1>3. ASSUME NEW x, Carried(r, x)
      PROVE  MayPrecede(x, m)
  <2>1. x \in MsgsOf(r) /\ x # End
    BY <1>3, CarriedKinds DEF RecInv, NothingLost, AllSent
  <2>2. CASE x \in DataOf(r)
    <3>1. PICK v \in WritersOf(r), d \in 1 .. MaxData(r) : x = Msg("DATA", v, d)
      BY <2>2 DEF DataOf
    <3>2. d > snd[r].left[v]
      BY <1>3, <3>1 DEF RecInv, NothingLost
    <3>3. snd[r].left[v] \in Nat
      BY DEF RecInv, Types
    <3> QED BY <1>1, <3>1, <3>2, <3>3 DEF MayPrecede, SentAfter, WrittenBefore, Msg
  <2>3. CASE x \in MetaFiles
    <3>1. PICK i \in 1 .. Len(Meta) : x = Msg("META", Meta[i], 1)
      BY <2>3 DEF MetaFiles
    <3>2. i <= Len(Meta) - Len(snd[r].rest)
      BY <1>3, <3>1 DEF RecInv, NothingLost
    <3>3. snd[r].rest = Meta
      BY DEF RecInv, Phases
    <3> QED BY <3>2, <3>3
  <2>4. CASE x = DirName
    BY <2>4 DEF MayPrecede, SentAfter, WrittenBefore, Msg, DirName
  <2> QED BY <2>1, <2>2, <2>3, <2>4 DEF MsgsOf, Saves
<1> QED BY <1>1, <1>2, <1>3

\* So may the next file.
LEMMA NextFile ==
    ASSUME NEW r \in Recorders, Shape, RecInv(r), snd[r].pc = "meta", snd[r].rest # << >>
    PROVE  LET m == Msg("META", Head(snd[r].rest), 1)
               k == Len(Meta) - Len(snd[r].rest) + 1
           IN /\ m \in MsgsOf(r) \ {End} /\ k \in 1 .. Len(Meta) /\ m = Msg("META", Meta[k], 1)
              /\ \A x : Carried(r, x) => MayPrecede(x, m)
<1> DEFINE m == Msg("META", Head(snd[r].rest), 1)   k == Len(Meta) - Len(snd[r].rest) + 1
<1>1. Len(snd[r].rest) \in Nat \ {0} /\ Head(snd[r].rest) = snd[r].rest[1]
  BY EmptySeq DEF RecInv, Types
<1>2. Len(Meta) \in Nat /\ DOMAIN Meta = 1 .. Len(Meta)
  BY LenProperties
<1>3. k \in 1 .. Len(Meta) /\ m = Msg("META", Meta[k], 1)
  <2>1. /\ Len(snd[r].rest) <= Len(Meta)
        /\ \A i \in 1 .. Len(snd[r].rest) : snd[r].rest[i] = Meta[i + (Len(Meta) - Len(snd[r].rest))]
    BY DEF RecInv, Phases
  <2>2. 1 \in 1 .. Len(snd[r].rest) /\ 1 + (Len(Meta) - Len(snd[r].rest)) = k /\ k \in 1 .. Len(Meta)
    BY <1>1, <1>2, <2>1
  <2> QED BY <1>1, <2>1, <2>2
<1>4. m \in MsgsOf(r) \ {End}
  BY <1>2, <1>3 DEF MsgsOf, Saves, MetaFiles, End, Msg
<1>5. ASSUME NEW x, Carried(r, x)
      PROVE  MayPrecede(x, m)
  <2>1. x \in MsgsOf(r) /\ x # End
    BY <1>5, CarriedKinds DEF RecInv, NothingLost, AllSent
  <2>2. CASE x \in DataOf(r)
    BY <2>2 DEF DataOf, MayPrecede, SentAfter, WrittenBefore, Msg
  <2>3. CASE x \in MetaFiles
    <3>1. PICK i \in 1 .. Len(Meta) : x = Msg("META", Meta[i], 1)
      BY <1>2, <2>3 DEF MetaFiles
    <3>2. i < k
      <4>1. i <= Len(Meta) - Len(snd[r].rest)
        BY <1>5, <3>1 DEF RecInv, NothingLost
      <4>2. \A a, b, c \in Int : a <= b - c => a < b - c + 1
        OBVIOUS
      <4>3. i \in Int /\ Len(Meta) \in Int /\ Len(snd[r].rest) \in Int
        BY <1>1, <1>2
      <4> QED BY <4>1, <4>2, <4>3
    <3>3. \A a, b \in 1 .. Len(Meta) : Meta[a] = Meta[b] => a = b
      BY <1>2 DEF IsInjective
    <3> HIDE DEF k, m
    <3>4. x # m
      BY <1>3, <3>1, <3>2, <3>3 DEF Msg
    <3>5. ~ \E a, b \in 1 .. Len(Meta) : a < b /\ Meta[k] = Meta[a] /\ Meta[i] = Meta[b]
      BY <1>2, <1>3, <3>2, <3>3
    <3>6. x.type = "META" /\ m.type = "META" /\ x.key = Meta[i] /\ m.key = Meta[k]
      BY <1>3, <3>1 DEF Msg
    <3>7. ~SentAfter(m, x)
      BY <1>2, <3>5, <3>6 DEF SentAfter, WrittenBefore
    <3> QED BY <3>4, <3>7 DEF MayPrecede
  <2>4. CASE x = DirName
    BY <2>4 DEF MayPrecede, SentAfter, WrittenBefore, Msg, DirName
  <2> QED BY <2>1, <2>2, <2>3, <2>4 DEF MsgsOf, Saves
<1> QED BY <1>3, <1>4, <1>5

\* A recorder that goes on has not sent END, which may be sent last.
LEMMA EndLast ==
    ASSUME NEW r \in Recorders, Shape, RecInv(r), snd[r].pc # "gone"
    PROVE  ~Carried(r, End) /\ r \notin cmds /\ \A x : Carried(r, x) => MayPrecede(x, End)
<1>1. ~Carried(r, End) /\ r \notin cmds
  BY DEF RecInv, NothingLost, AllSent
<1>2. \A x : Carried(r, x) => x \in MsgsOf(r)
  BY CarriedKinds DEF RecInv
<1> QED BY <1>1, <1>2 DEF MayPrecede, SentAfter, WrittenBefore, Msg, End

\* The head the server has read does not matter when it has read the body.
LEMMA AnyHead ==
    ASSUME NEW W, NEW F, NEW h, NEW g, NEW p
    PROVE  /\ Framed(W, "poll", h, p) => Framed(W, "poll", g, p)
           /\ InOrder(W, F, "poll", h) => InOrder(W, F, "poll", g)
           /\ \A x : CarriedBy(W, F, "poll", h, x) <=> CarriedBy(W, F, "poll", g, x)
BY DEF Framed, InOrder, CarriedBy

-----------------------------------------------------------------------------
(* The steps *)

\* A step of one recorder, or of the server for it, leaves the others as they are.
LEMMA Untouched ==
    ASSUME Shape, NEW r \in Recorders, RecInv(r), snd'[r] = snd[r], part'[r] = part[r], wire'[r] = wire[r], files'[r] = files[r],
           r \in cmds' => r \in cmds, AtOf(r)' = AtOf(r), AtOf(r) = "body" => srv'.head = srv.head
    PROVE  RecInv(r)'
<1>1. AtOf(r) \in {"body", "poll"}
  BY DEF AtOf
<1>2. /\ \A p : Framed(wire[r], AtOf(r), srv.head, p) => Framed(wire[r], AtOf(r), srv'.head, p)
      /\ InOrder(wire[r], files[r], AtOf(r), srv.head) => InOrder(wire[r], files[r], AtOf(r), srv'.head)
      /\ \A x : CarriedBy(wire[r], files[r], AtOf(r), srv.head, x) <=> CarriedBy(wire[r], files[r], AtOf(r), srv'.head, x)
  <2>1. CASE AtOf(r) = "body"
    BY <2>1
  <2>2. CASE AtOf(r) = "poll"
    BY <2>2, AnyHead
  <2> QED BY <1>1, <2>1, <2>2
<1>3. Types(r)'
  BY DEF Types, RecInv
<1>4. Stream(r)'
  <2>1. PICK p \in MsgsOf(r) \cup {NoMsg} : InMiddle(r, p) /\ Framed(wire[r], AtOf(r), srv.head, p)
    BY DEF RecInv, Stream
  <2>2. InMiddle(r, p)'
    BY <2>1 DEF InMiddle
  <2>3. Framed(wire[r], AtOf(r), srv.head, p)' /\ InOrder(wire[r], files[r], AtOf(r), srv.head)'
    <3>1. Framed(wire[r], AtOf(r), srv'.head, p) /\ InOrder(wire[r], files[r], AtOf(r), srv'.head)
      BY <1>2, <2>1 DEF RecInv, Stream
    <3> QED BY <3>1
  <2> QED BY <2>2, <2>3 DEF Stream
<1>5. Phases(r)'
  <2>1. Phases(r)
    BY DEF RecInv
  <2> QED BY <2>1 DEF Phases, NoneInMiddle
<1>6. NothingLost(r)'
  <2>1. \A x : Carried(r, x)' <=> Carried(r, x)
    <3>1. \A x : CarriedBy(wire'[r], files'[r], AtOf(r)', srv'.head, x) <=> CarriedBy(wire[r], files[r], AtOf(r), srv.head, x)
      BY <1>2
    <3> QED BY <3>1 DEF Carried
  <2>2. NothingLost(r)
    BY DEF RecInv
  <2> QED BY <2>1, <2>2 DEF NothingLost, AllSent
<1> QED BY <1>3, <1>4, <1>5, <1>6 DEF RecInv

\* The same for a recorder of which nothing is known
LEMMA UntouchedRec ==
    ASSUME Shape, NEW r \in Recorders, Rec(r), snd'[r] = snd[r], part'[r] = part[r], wire'[r] = wire[r], files'[r] = files[r],
           r \in cmds' => r \in cmds, AtOf(r)' = AtOf(r), AtOf(r) = "body" => srv'.head = srv.head,
           r \in mixed' <=> r \in mixed, srv'.up => srv.up
    PROVE  Rec(r)'
<1>1. Orderly(r)' <=> Orderly(r)
  BY DEF Orderly
<1>2. CASE Orderly(r)
  <2>1. RecInv(r)'
    BY <1>2, Untouched DEF Rec
  <2> QED BY <1>1, <1>2, <2>1 DEF Rec
<1>3. CASE ~Orderly(r)
  <2>1. Astray(r)'
    BY <1>3 DEF Rec, Astray
  <2> QED BY <1>1, <1>3, <2>1 DEF Rec
<1> QED BY <1>2, <1>3

\* A thread sends a message that may follow all that was sent.
LEMMA PutStep ==
    ASSUME Shape, NEW r \in Recorders, NEW w \in ThreadsOf(r), NEW m \in MsgsOf(r) \ {End}, Types(r), Stream(r), NoneInMiddle(r),
           ~Carried(r, End), \A x : Carried(r, x) => MayPrecede(x, m), Put(r, w, m), UNCHANGED <<srv, files>>
    PROVE  /\ part'[r] \in [ThreadsOf(r) -> MsgsOf(r) \cup {NoMsg}] /\ wire'[r] \in Seq(Items(MsgsOf(r)))
           /\ \A v \in ThreadsOf(r) \ {w} : part'[r][v] = NoMsg
           /\ Stream(r)' /\ \A x : Carried(r, x)' <=> Carried(r, x) \/ x = m
           /\ part' = [q \in Recorders |-> part'[q]] /\ wire' = [q \in Recorders |-> wire'[q]]
           /\ \A q \in Recorders \ {r} : part'[q] = part[q] /\ wire'[q] = wire[q]
           /\ mixed' = mixed
<1> DEFINE M == MsgsOf(r)   W == wire[r]   F == files[r]   at == AtOf(r)   h == srv.head   V == Append(W, Piece("head", m))
<1>1. NoMsg \notin M
  BY NoMsgNone
<1>2. W \in Seq(Items(M)) /\ F \in Seq(M) /\ at \in {"body", "poll"} /\ (at = "body" => h # NoMsg)
  BY <1>1, CarriedKinds DEF Types
<1>3. Framed(W, at, h, NoMsg) /\ InOrder(W, F, at, h)
  <2>1. PICK p \in M \cup {NoMsg} : InMiddle(r, p) /\ Framed(W, at, h, p)
    BY DEF Stream
  <2>2. p = NoMsg
    BY <2>1 DEF InMiddle, NoneInMiddle
  <2> QED BY <2>1, <2>2 DEF Stream
<1>4. at' = at /\ F' = F /\ h' = h
  BY DEF AtOf
<1>5. /\ V \in Seq(Items(M)) /\ Framed(V, at, h, m) /\ InOrder(V, F, at, h)
      /\ \A x : CarriedBy(V, F, at, h, x) <=> CarriedBy(W, F, at, h, x) \/ x = m
  <2>1. ~CarriedBy(W, F, at, h, End) /\ \A x : CarriedBy(W, F, at, h, x) => MayPrecede(x, m)
    BY DEF Carried
  <2>2. m \in M /\ m # End
    OBVIOUS
  <2>3. /\ W \in Seq(Items(M)) /\ F \in Seq(M) /\ m \in M /\ NoMsg \notin M /\ m # End
        /\ Framed(W, at, h, NoMsg) /\ InOrder(W, F, at, h) /\ ~CarriedBy(W, F, at, h, End)
        /\ at = "body" => h # NoMsg
        /\ \A x : CarriedBy(W, F, at, h, x) => MayPrecede(x, m)
    BY <1>1, <1>2, <1>3, <2>1, <2>2
  <2> HIDE DEF M, W, F, at, h
  <2> QED BY <2>3, PutHead
<1>6. part[r] \in [ThreadsOf(r) -> M \cup {NoMsg}] /\ \A v \in ThreadsOf(r) : part[r][v] = NoMsg
  BY DEF Types, NoneInMiddle
<1>7. /\ mixed' = mixed
      /\ \A x : Carried(r, x) <=> CarriedBy(W, F, at, h, x)
  BY <1>6 DEF Put, ThreadsOf, Carried
<1>8. CASE /\ wire' = [wire EXCEPT ![r] = @ \o <<Piece("head", m), Piece("body", m)>>]
           /\ UNCHANGED part
  <2> DEFINE X == Append(V, Piece("body", m))
  <2>1. /\ X \in Seq(Items(M)) /\ Framed(X, at, h, NoMsg) /\ InOrder(X, F, at, h)
        /\ \A x : CarriedBy(X, F, at, h, x) <=> CarriedBy(V, F, at, h, x)
    <3>1. m \in M /\ m # End
      OBVIOUS
    <3> HIDE DEF M, V, F, at, h
    <3> QED BY <1>1, <1>2, <1>5, <3>1, PutBody
  <2>2. W \o <<Piece("head", m), Piece("body", m)>> = X
    <3>1. Piece("head", m) \in Items(M) /\ Piece("body", m) \in Items(M)
      BY DEF Piece, Items
    <3>2. \A a, b \in Items(M) : W \o <<a, b>> = Append(Append(W, a), b)
      <4> HIDE DEF Items, M, W
      <4> SUFFICES ASSUME NEW a \in Items(M), NEW b \in Items(M)
                   PROVE  W \o <<a, b>> = Append(Append(W, a), b)
        OBVIOUS
      <4> QED BY <1>2
    <3> QED BY <3>1, <3>2 DEF Piece
  <2>3. wire' = [q \in Recorders |-> wire'[q]] /\ wire'[r] = X /\ (\A q \in Recorders \ {r} : wire'[q] = wire[q]) /\ part' = part
    <3>1. wire = [q \in Recorders |-> wire[q]]
      BY DEF Shape
    <3> QED BY <1>8, <2>2, <3>1
  <2>4. Stream(r)'
    <3>1. InMiddle(r, NoMsg)'
      BY <1>6, <2>3 DEF InMiddle
    <3>2. Framed(wire[r], AtOf(r), srv.head, NoMsg)' /\ InOrder(wire[r], files[r], AtOf(r), srv.head)'
      BY <1>4, <2>1, <2>3
    <3> QED BY <3>1, <3>2 DEF Stream
  <2>5. \A x : Carried(r, x)' <=> Carried(r, x) \/ x = m
    <3>1. \A x : Carried(r, x)' <=> CarriedBy(X, F, at, h, x)
      BY <1>4, <2>3 DEF Carried
    <3> QED BY <1>5, <1>7, <2>1, <3>1
  <2>6. part = [q \in Recorders |-> part[q]]
    BY DEF Shape
  <2> QED BY <1>6, <1>7, <2>1, <2>3, <2>4, <2>5, <2>6
<1>9. CASE /\ wire' = [wire EXCEPT ![r] = Append(@, Piece("head", m))]
           /\ part' = [part EXCEPT ![r][w] = m]
  <2>1. wire' = [q \in Recorders |-> wire'[q]] /\ wire'[r] = V /\ (\A q \in Recorders \ {r} : wire'[q] = wire[q])
    <3>1. wire = [q \in Recorders |-> wire[q]]
      BY DEF Shape
    <3> QED BY <1>9, <3>1 DEF Piece
  <2>2. /\ part' = [q \in Recorders |-> part'[q]] /\ \A q \in Recorders \ {r} : part'[q] = part[q]
        /\ part'[r] = [part[r] EXCEPT ![w] = m]
    <3>1. part = [q \in Recorders |-> part[q]]
      BY DEF Shape
    <3> QED BY <1>9, <3>1
  <2>3. part'[r] \in [ThreadsOf(r) -> M \cup {NoMsg}] /\ part'[r][w] = m /\ \A v \in ThreadsOf(r) \ {w} : part'[r][v] = NoMsg
    BY <1>6, <2>2
  <2>4. Stream(r)'
    <3>1. InMiddle(r, m)'
      BY <1>9, <2>3 DEF InMiddle
    <3>2. Framed(wire[r], AtOf(r), srv.head, m)' /\ InOrder(wire[r], files[r], AtOf(r), srv.head)'
      BY <1>4, <1>5, <2>1
    <3> QED BY <3>1, <3>2 DEF Stream
  <2>5. \A x : Carried(r, x)' <=> Carried(r, x) \/ x = m
    <3>1. \A x : Carried(r, x)' <=> CarriedBy(V, F, at, h, x)
      BY <1>4, <2>1 DEF Carried
    <3> QED BY <1>5, <1>7, <3>1
  <2> QED BY <1>5, <1>7, <2>1, <2>2, <2>3, <2>4, <2>5
<1> QED BY <1>8, <1>9 DEF Put

\* A step of a recorder that keeps its own part of the invariant
LEMMA OnlyRecorder ==
    ASSUME NetInv, NEW r \in Recorders, UNCHANGED <<srv, files, cmds>>,
           snd' = [q \in Recorders |-> snd'[q]], part' = [q \in Recorders |-> part'[q]], wire' = [q \in Recorders |-> wire'[q]],
           \A q \in Recorders \ {r} : snd'[q] = snd[q] /\ part'[q] = part[q] /\ wire'[q] = wire[q],
           snd'[r] = [pc |-> snd'[r].pc, left |-> snd'[r].left, rest |-> snd'[r].rest],
           \A q \in Recorders \ {r} : q \in mixed' <=> q \in mixed, Orderly(r)' => Orderly(r), Rec(r)'
    PROVE  NetInv'
<1>1. Shape'
  <2>1. \A q \in Recorders : snd[q] = [pc |-> snd[q].pc, left |-> snd[q].left, rest |-> snd[q].rest]
    BY DEF NetInv, Shape
  <2>2. \A q \in Recorders : snd'[q] = [pc |-> snd'[q].pc, left |-> snd'[q].left, rest |-> snd'[q].rest]
    BY <2>1
  <2>3. snd' = [q \in Recorders |-> [pc |-> snd'[q].pc, left |-> snd'[q].left, rest |-> snd'[q].rest]]
    BY <2>2, Zenon
  <2> QED BY <2>3 DEF NetInv, Shape
<1>2. ServerUp'
  <2>1. \A q \in Recorders : ~Orderly(q) => ~Orderly(q)'
    BY DEF Orderly
  <2> QED BY <2>1 DEF NetInv, ServerUp
<1>3. ASSUME NEW q \in Recorders, q # r
      PROVE  Rec(q)'
  <2>1. Shape /\ Rec(q)
    BY DEF NetInv
  <2>2. snd'[q] = snd[q] /\ part'[q] = part[q] /\ wire'[q] = wire[q] /\ files'[q] = files[q]
    BY <1>3
  <2>3. (q \in cmds' => q \in cmds) /\ AtOf(q)' = AtOf(q) /\ (AtOf(q) = "body" => srv'.head = srv.head)
    BY DEF AtOf
  <2>4. (q \in mixed' <=> q \in mixed) /\ (srv'.up => srv.up)
    BY <1>3
  <2> QED BY <2>1, <2>2, <2>3, <2>4, UntouchedRec
<1> QED BY <1>1, <1>2, <1>3 DEF NetInv

\* A recorder as the invariant describes it
LEMMA SndShape ==
    ASSUME Shape, NEW r \in Recorders
    PROVE  /\ snd = [q \in Recorders |-> snd[q]] /\ snd[r] = [pc |-> snd[r].pc, left |-> snd[r].left, rest |-> snd[r].rest]
           /\ part = [q \in Recorders |-> part[q]] /\ wire = [q \in Recorders |-> wire[q]]
<1>1. snd = [q \in Recorders |-> [pc |-> snd[q].pc, left |-> snd[q].left, rest |-> snd[q].rest]]
  BY DEF Shape
<1>2. \A q \in Recorders : snd[q] = [pc |-> snd[q].pc, left |-> snd[q].left, rest |-> snd[q].rest]
  BY <1>1
<1> QED BY <1>1, <1>2 DEF Shape

\* A step that neither kills the recorder nor mixes its messages up
LEMMA StaysOrderly ==
    ASSUME NEW r \in Recorders, Orderly(r), RecInv(r)', mixed' = mixed, snd'[r].pc # "dead"
    PROVE  Rec(r)' /\ (Orderly(r)' => Orderly(r)) /\ \A q \in Recorders \ {r} : q \in mixed' <=> q \in mixed
<1>1. Orderly(r)'
  BY DEF Orderly
<1> QED BY <1>1 DEF Rec

\* The main thread tells the server the name of its directory.
LEMMA ConnectKeeps ==
    ASSUME NetInv, NEW r \in Recorders, Orderly(r), Connect(r)
    PROVE  NetInv'
<1>1. Shape /\ RecInv(r) /\ snd[r].pc = "start" /\ UNCHANGED <<srv, files, cmds>>
  BY DEF NetInv, Rec, Connect
<1>2. /\ snd = [q \in Recorders |-> snd[q]] /\ snd[r] = [pc |-> snd[r].pc, left |-> snd[r].left, rest |-> snd[r].rest]
      /\ part = [q \in Recorders |-> part[q]] /\ wire = [q \in Recorders |-> wire[q]]
  BY <1>1, SndShape
<1>3. /\ wire[r] = << >> /\ AtOf(r) = "poll" /\ files[r] = << >> /\ NoneInMiddle(r) /\ snd[r].rest = Meta
      /\ \A w \in WritersOf(r) : snd[r].left[w] = MaxData(r)
  BY <1>1 DEF RecInv, Phases
<1>4. ~ \E x : Carried(r, x)
  <2>1. Len(<< >>) = 0 /\ \A i \in 1 .. 0 : FALSE
    OBVIOUS
  <2> QED BY <1>3, <2>1 DEF Carried, CarriedBy
<1>5. r \notin cmds
  BY <1>1 DEF RecInv, NothingLost, AllSent
<1>6. ASSUME srv.up, Put(r, Main, DirName), snd' = [snd EXCEPT ![r].pc = "data"]
      PROVE  NetInv'
  <2>1. /\ part'[r] \in [ThreadsOf(r) -> MsgsOf(r) \cup {NoMsg}] /\ wire'[r] \in Seq(Items(MsgsOf(r)))
        /\ Stream(r)' /\ \A x : Carried(r, x)' <=> Carried(r, x) \/ x = DirName
        /\ part' = [q \in Recorders |-> part'[q]] /\ wire' = [q \in Recorders |-> wire'[q]]
        /\ \A q \in Recorders \ {r} : part'[q] = part[q] /\ wire'[q] = wire[q]
        /\ mixed' = mixed
    <3>1. Main \in ThreadsOf(r) /\ DirName \in MsgsOf(r) \ {End} /\ Types(r) /\ Stream(r)
      BY <1>1, NoMsgNone DEF RecInv, ThreadsOf
    <3> QED BY <1>1, <1>3, <1>4, <1>6, <3>1, PutStep
  <2>2. /\ snd'[r] = [pc |-> "data", left |-> snd[r].left, rest |-> snd[r].rest] /\ snd' = [q \in Recorders |-> snd'[q]]
        /\ \A q \in Recorders \ {r} : snd'[q] = snd[q]
    BY <1>2, <1>6
  <2>3. Types(r)'
    BY <1>1, <2>1, <2>2 DEF RecInv, Types, AtOf
  <2>4. Phases(r)'
    BY <1>1, <2>2 DEF RecInv, Phases
  <2>5. NothingLost(r)'
    <3>1. \A x : Carried(r, x)' <=> x = DirName
      BY <1>4, <2>1
    <3>2. \A w \in WritersOf(r), d \in 1 .. MaxData(r) : ~Carried(r, Msg("DATA", w, d))' /\ ~(d > snd'[r].left[w])
      BY <1>3, <2>2, <3>1 DEF Msg, DirName
    <3>3. \A i \in 1 .. Len(Meta) : ~Carried(r, Msg("META", Meta[i], 1))' /\ ~(i <= Len(Meta) - Len(snd'[r].rest))
      <4>1. Len(Meta) \in Nat /\ snd'[r].rest = Meta
        BY <1>3, <2>2
      <4> QED BY <3>1, <4>1 DEF Msg, DirName
    <3>4. ~Carried(r, End)'
      BY <3>1, NoMsgNone
    <3> QED BY <1>1, <1>5, <3>2, <3>3, <3>4 DEF NothingLost
  <2>6. RecInv(r)'
    BY <2>1, <2>3, <2>4, <2>5 DEF RecInv
  <2>7. Rec(r)' /\ (Orderly(r)' => Orderly(r)) /\ \A q \in Recorders \ {r} : q \in mixed' <=> q \in mixed
    BY <2>1, <2>2, <2>6, StaysOrderly
  <2> QED BY <1>1, <2>1, <2>2, <2>7, OnlyRecorder
<1>7. ASSUME snd' = [snd EXCEPT ![r].pc = "gone"], UNCHANGED <<wire, part, mixed>>
      PROVE  NetInv'
  <2>1. /\ snd'[r] = [pc |-> "gone", left |-> snd[r].left, rest |-> snd[r].rest] /\ snd' = [q \in Recorders |-> snd'[q]]
        /\ \A q \in Recorders \ {r} : snd'[q] = snd[q]
    BY <1>2, <1>7
  <2>2. Types(r)'
    BY <1>1, <1>7, <2>1 DEF RecInv, Types, AtOf
  <2>3. Stream(r)' /\ \A x : Carried(r, x)' <=> Carried(r, x)
    BY <1>1, <1>7 DEF RecInv, Stream, InMiddle, AtOf, Carried
  <2>4. Phases(r)'
    BY <1>1, <1>3, <1>7, <2>1 DEF RecInv, Phases, NoneInMiddle
  <2>5. NothingLost(r)'
    BY <1>1, <1>4, <1>5, <2>1, <2>3 DEF RecInv, NothingLost
  <2>6. RecInv(r)'
    BY <2>2, <2>3, <2>4, <2>5 DEF RecInv
  <2>7. Rec(r)' /\ (Orderly(r)' => Orderly(r)) /\ \A q \in Recorders \ {r} : q \in mixed' <=> q \in mixed
    BY <1>7, <2>1, <2>6, StaysOrderly
  <2> QED BY <1>1, <1>2, <1>7, <2>1, <2>7, OnlyRecorder
<1> QED BY <1>6, <1>7 DEF Connect, DirName

\* A writer sends the next data of its task.
LEMMA SendDataKeeps ==
    ASSUME NetInv, NEW r \in Recorders, Orderly(r), NEW w \in WritersOf(r), SendData(r, w),
           \A v \in WritersOf(r) : part[r][v] = NoMsg
    PROVE  NetInv'
<1> DEFINE m == Msg("DATA", w, snd[r].left[w])
<1>1. /\ Shape /\ RecInv(r) /\ snd[r].pc = "data" /\ snd[r].left[w] > 0 /\ part[r][w] = NoMsg /\ part[r][Main] = NoMsg
      /\ Put(r, w, m) /\ snd' = [snd EXCEPT ![r].left[w] = @ - 1] /\ UNCHANGED <<srv, files, cmds>>
  BY DEF NetInv, Rec, SendData
<1>2. /\ snd = [q \in Recorders |-> snd[q]] /\ snd[r] = [pc |-> snd[r].pc, left |-> snd[r].left, rest |-> snd[r].rest]
      /\ part = [q \in Recorders |-> part[q]] /\ wire = [q \in Recorders |-> wire[q]]
  BY <1>1, SndShape
<1>3. m \in MsgsOf(r) \ {End} /\ snd[r].left[w] \in 1 .. MaxData(r) /\ \A x : Carried(r, x) => MayPrecede(x, m)
  BY <1>1, NextData
<1>4. ~Carried(r, End) /\ r \notin cmds
  BY <1>1, EndLast
<1>5. NoneInMiddle(r)
  BY <1>1 DEF NoneInMiddle, ThreadsOf
<1>6. /\ part'[r] \in [ThreadsOf(r) -> MsgsOf(r) \cup {NoMsg}] /\ wire'[r] \in Seq(Items(MsgsOf(r)))
      /\ Stream(r)' /\ \A x : Carried(r, x)' <=> Carried(r, x) \/ x = m
      /\ part' = [q \in Recorders |-> part'[q]] /\ wire' = [q \in Recorders |-> wire'[q]]
      /\ \A q \in Recorders \ {r} : part'[q] = part[q] /\ wire'[q] = wire[q]
      /\ mixed' = mixed
  <2>1. w \in ThreadsOf(r) /\ Types(r) /\ Stream(r)
    BY <1>1 DEF RecInv, ThreadsOf
  <2> HIDE DEF m
  <2> QED BY <1>1, <1>3, <1>4, <1>5, <2>1, PutStep
<1>7. /\ snd'[r] = [pc |-> "data", left |-> [snd[r].left EXCEPT ![w] = @ - 1], rest |-> snd[r].rest]
      /\ snd' = [q \in Recorders |-> snd'[q]] /\ \A q \in Recorders \ {r} : snd'[q] = snd[q]
  BY <1>1, <1>2
<1>8. /\ snd[r].left \in [WritersOf(r) -> 0 .. MaxData(r)] /\ snd'[r].left \in [WritersOf(r) -> 0 .. MaxData(r)]
      /\ snd'[r].left[w] = snd[r].left[w] - 1 /\ \A v \in WritersOf(r) \ {w} : snd'[r].left[v] = snd[r].left[v]
  <2>1. snd[r].left \in [WritersOf(r) -> 0 .. MaxData(r)]
    BY <1>1 DEF RecInv, Types, AtOf
  <2>2. snd[r].left[w] - 1 \in 0 .. MaxData(r)
    BY <1>3
  <2> QED BY <1>7, <2>1, <2>2
<1>9. Types(r)'
  BY <1>1, <1>6, <1>7, <1>8 DEF RecInv, Types, AtOf
<1>10. Phases(r)'
  BY <1>1, <1>7 DEF RecInv, Phases
<1>11. NothingLost(r)'
  <2>1. \A v \in WritersOf(r), d \in 1 .. MaxData(r) : Carried(r, Msg("DATA", v, d))' <=> d > snd'[r].left[v]
    <3> SUFFICES ASSUME NEW v \in WritersOf(r), NEW d \in 1 .. MaxData(r)
                 PROVE  Carried(r, Msg("DATA", v, d))' <=> d > snd'[r].left[v]
      OBVIOUS
    <3>1. Carried(r, Msg("DATA", v, d))' <=> Carried(r, Msg("DATA", v, d)) \/ Msg("DATA", v, d) = m
      BY <1>6
    <3>2. Carried(r, Msg("DATA", v, d)) <=> d > snd[r].left[v]
      BY <1>1 DEF RecInv, NothingLost
    <3>3. Msg("DATA", v, d) = m <=> v = w /\ d = snd[r].left[w]
      BY DEF Msg
    <3> QED BY <1>3, <1>8, <3>1, <3>2, <3>3
  <2>2. \A i \in 1 .. Len(Meta) : Carried(r, Msg("META", Meta[i], 1))' <=> i <= Len(Meta) - Len(snd'[r].rest)
    <3>1. \A i \in 1 .. Len(Meta) : Carried(r, Msg("META", Meta[i], 1))' <=> Carried(r, Msg("META", Meta[i], 1))
      BY <1>6 DEF Msg
    <3>2. \A i \in 1 .. Len(Meta) : Carried(r, Msg("META", Meta[i], 1)) <=> i <= Len(Meta) - Len(snd[r].rest)
      BY <1>1 DEF RecInv, NothingLost
    <3> QED BY <1>7, <3>1, <3>2
  <2>3. ~Carried(r, End)'
    BY <1>3, <1>4, <1>6
  <2> QED BY <1>1, <1>4, <2>1, <2>2, <2>3 DEF NothingLost
<1>12. RecInv(r)'
  BY <1>6, <1>9, <1>10, <1>11 DEF RecInv
<1>13. Rec(r)' /\ (Orderly(r)' => Orderly(r)) /\ \A q \in Recorders \ {r} : q \in mixed' <=> q \in mixed
  BY <1>1, <1>6, <1>7, <1>12, StaysOrderly
<1> QED BY <1>1, <1>6, <1>7, <1>13, OnlyRecorder

\* A thread in the middle of a message sends the rest of it.
LEMMA PutRestKeeps ==
    ASSUME NetInv, NEW r \in Recorders, Orderly(r), NEW w \in ThreadsOf(r), PutRest(r, w)
    PROVE  NetInv'
<1> DEFINE M == MsgsOf(r)   W == wire[r]   F == files[r]   at == AtOf(r)   h == srv.head
<1>1. /\ Shape /\ RecInv(r) /\ snd[r].pc \notin {"dead", "gone"} /\ part[r][w] # NoMsg
      /\ wire' = [wire EXCEPT ![r] = Append(@, Piece("body", part[r][w]))]
      /\ part' = [part EXCEPT ![r][w] = NoMsg] /\ UNCHANGED <<snd, srv, files, cmds, mixed>>
  BY DEF NetInv, Rec, PutRest
<1>2. /\ snd = [q \in Recorders |-> snd[q]] /\ snd[r] = [pc |-> snd[r].pc, left |-> snd[r].left, rest |-> snd[r].rest]
      /\ part = [q \in Recorders |-> part[q]] /\ wire = [q \in Recorders |-> wire[q]]
  BY <1>1, SndShape
<1>3. PICK p \in MsgsOf(r) \cup {NoMsg} : InMiddle(r, p) /\ Framed(W, at, h, p)
  BY <1>1 DEF RecInv, Stream
<1>4. part[r][w] = p /\ p # NoMsg /\ p \in MsgsOf(r) /\ p # End /\ \A v \in ThreadsOf(r) \ {w} : part[r][v] = NoMsg
  BY <1>1, <1>3 DEF InMiddle
<1> DEFINE V == Append(W, Piece("body", p))
<1>5. /\ V \in Seq(Items(M)) /\ Framed(V, at, h, NoMsg) /\ InOrder(V, F, at, h)
      /\ \A x : CarriedBy(V, F, at, h, x) <=> CarriedBy(W, F, at, h, x)
  <2>1. W \in Seq(Items(M)) /\ F \in Seq(M)
    BY <1>1, CarriedKinds DEF RecInv, Types, AtOf
  <2>2. NoMsg \notin M /\ p \in M /\ InOrder(W, F, at, h)
    BY <1>1, <1>4, NoMsgNone DEF RecInv, Stream
  <2> HIDE DEF M, W, F, at, h
  <2> QED BY ONLY <1>3, <1>4, <2>1, <2>2, PutBody, SMT
<1>6. /\ wire' = [q \in Recorders |-> wire'[q]] /\ wire'[r] = V /\ part' = [q \in Recorders |-> part'[q]]
      /\ part'[r] = [part[r] EXCEPT ![w] = NoMsg] /\ \A q \in Recorders \ {r} : part'[q] = part[q] /\ wire'[q] = wire[q]
  BY <1>1, <1>2, <1>4 DEF Piece
<1>7. part'[r] \in [ThreadsOf(r) -> MsgsOf(r) \cup {NoMsg}] /\ \A v \in ThreadsOf(r) : part'[r][v] = NoMsg
  <2>1. part[r] \in [ThreadsOf(r) -> MsgsOf(r) \cup {NoMsg}]
    BY <1>1 DEF RecInv, Types, AtOf
  <2> QED BY <1>4, <1>6, <2>1
<1>8. at' = at /\ F' = F /\ h' = h
  BY <1>1 DEF AtOf
<1>9. Types(r)'
  BY <1>1, <1>5, <1>6, <1>7 DEF RecInv, Types, AtOf
<1>10. Stream(r)'
  <2>1. InMiddle(r, NoMsg)'
    BY <1>7 DEF InMiddle
  <2>2. Framed(wire[r], AtOf(r), srv.head, NoMsg)' /\ InOrder(wire[r], files[r], AtOf(r), srv.head)'
    BY <1>5, <1>6, <1>8
  <2> QED BY <2>1, <2>2 DEF Stream
<1>11. \A x : Carried(r, x)' <=> Carried(r, x)
  <2>1. \A x : Carried(r, x)' <=> CarriedBy(V, F, at, h, x)
    BY <1>6, <1>8 DEF Carried
  <2> QED BY <1>5, <2>1 DEF Carried
<1>12. Phases(r)'
  <2>1. snd[r].pc \notin {"start", "gone"}
    BY <1>1 DEF RecInv, Phases, NoneInMiddle
  <2>2. \A v \in WritersOf(r) : part'[r][v] = NoMsg
    BY <1>7 DEF ThreadsOf
  <2> QED BY <1>1, <2>1, <2>2 DEF RecInv, Phases
<1>13. NothingLost(r)'
  <2>1. r \notin cmds /\ ~Carried(r, End)
    BY <1>1, EndLast
  <2> QED BY <1>1, <1>11, <2>1 DEF RecInv, NothingLost
<1>14. RecInv(r)'
  BY <1>9, <1>10, <1>12, <1>13 DEF RecInv
<1>15. Rec(r)' /\ (Orderly(r)' => Orderly(r)) /\ \A q \in Recorders \ {r} : q \in mixed' <=> q \in mixed
  BY <1>1, <1>14, StaysOrderly
<1> QED BY <1>1, <1>2, <1>6, <1>15, OnlyRecorder

\* The main thread goes on when the writers are done.
LEMMA JoinKeeps ==
    ASSUME NetInv, NEW r \in Recorders, Orderly(r), Join(r)
    PROVE  NetInv'
<1>0. /\ snd[r].pc = "data" /\ snd' = [snd EXCEPT ![r].pc = "meta"] /\ UNCHANGED <<part, wire, srv, files, cmds, mixed>>
      /\ \A w \in WritersOf(r) : snd[r].left[w] = 0 /\ part[r][w] = NoMsg
  BY DEF Join, Quiet
<1>1. Shape /\ RecInv(r)
  BY DEF NetInv, Rec
<1>2. /\ snd = [q \in Recorders |-> snd[q]] /\ snd[r] = [pc |-> snd[r].pc, left |-> snd[r].left, rest |-> snd[r].rest]
      /\ part = [q \in Recorders |-> part[q]] /\ wire = [q \in Recorders |-> wire[q]]
  BY <1>1, SndShape
<1>3. /\ snd'[r] = [pc |-> "meta", left |-> snd[r].left, rest |-> snd[r].rest] /\ snd' = [q \in Recorders |-> snd'[q]]
      /\ \A q \in Recorders \ {r} : snd'[q] = snd[q]
  BY <1>0, <1>2
<1>4. Types(r)'
  BY <1>0, <1>1, <1>3 DEF RecInv, Types, AtOf
<1>5. Stream(r)' /\ \A x : Carried(r, x)' <=> Carried(r, x)
  BY <1>0, <1>1 DEF RecInv, Stream, InMiddle, AtOf, Carried
<1>6. Phases(r)'
  <2>1. Phases(r)
    BY <1>1 DEF RecInv
  <2> QED BY <1>0, <1>3, <2>1 DEF Phases
<1>7. NothingLost(r)'
  <2>1. r \notin cmds /\ ~Carried(r, End)
    BY <1>0, <1>1, EndLast
  <2> QED BY <1>0, <1>1, <1>3, <1>5, <2>1 DEF RecInv, NothingLost
<1>8. RecInv(r)'
  BY <1>4, <1>5, <1>6, <1>7 DEF RecInv
<1>9. Rec(r)' /\ (Orderly(r)' => Orderly(r)) /\ \A q \in Recorders \ {r} : q \in mixed' <=> q \in mixed
  BY <1>0, <1>3, <1>8, StaysOrderly
<1> QED BY <1>0, <1>2, <1>3, <1>9, OnlyRecorder

\* The main thread sends the next file, or END.
LEMMA SendMetaKeeps ==
    ASSUME NetInv, NEW r \in Recorders, Orderly(r), SendMeta(r)
    PROVE  NetInv'
<1>1. /\ Shape /\ RecInv(r) /\ snd[r].pc = "meta" /\ part[r][Main] = NoMsg /\ UNCHANGED <<srv, files, cmds>>
  BY DEF NetInv, Rec, SendMeta
<1>2. /\ snd = [q \in Recorders |-> snd[q]] /\ snd[r] = [pc |-> snd[r].pc, left |-> snd[r].left, rest |-> snd[r].rest]
      /\ part = [q \in Recorders |-> part[q]] /\ wire = [q \in Recorders |-> wire[q]]
  BY <1>1, SndShape
<1>3. NoneInMiddle(r) /\ \A w \in WritersOf(r) : snd[r].left[w] = 0
  BY <1>1 DEF RecInv, Phases, NoneInMiddle, ThreadsOf
<1>4. ~Carried(r, End) /\ r \notin cmds /\ \A x : Carried(r, x) => MayPrecede(x, End)
  BY <1>1, EndLast
<1>5. Types(r) /\ Stream(r) /\ Phases(r) /\ NothingLost(r)
  BY <1>1 DEF RecInv
<1>6. Len(snd[r].rest) \in Nat /\ snd[r].rest \in Seq(STRING) /\ Len(Meta) \in Nat
  BY <1>5 DEF Types
<1>7. ASSUME snd[r].rest # << >>, Put(r, Main, Msg("META", Head(snd[r].rest), 1)), snd' = [snd EXCEPT ![r].rest = Tail(@)]
      PROVE  NetInv'
  <2> DEFINE m == Msg("META", Head(snd[r].rest), 1)   k == Len(Meta) - Len(snd[r].rest) + 1
  <2>1. /\ m \in MsgsOf(r) \ {End} /\ k \in 1 .. Len(Meta) /\ m = Msg("META", Meta[k], 1)
        /\ \A x : Carried(r, x) => MayPrecede(x, m)
    BY <1>1, <1>7, NextFile
  <2>2. /\ part'[r] \in [ThreadsOf(r) -> MsgsOf(r) \cup {NoMsg}] /\ wire'[r] \in Seq(Items(MsgsOf(r)))
        /\ \A v \in ThreadsOf(r) \ {Main} : part'[r][v] = NoMsg
        /\ Stream(r)' /\ \A x : Carried(r, x)' <=> Carried(r, x) \/ x = m
        /\ part' = [q \in Recorders |-> part'[q]] /\ wire' = [q \in Recorders |-> wire'[q]]
        /\ \A q \in Recorders \ {r} : part'[q] = part[q] /\ wire'[q] = wire[q]
        /\ mixed' = mixed
    <3>1. Main \in ThreadsOf(r) /\ Put(r, Main, m)
      BY <1>7 DEF ThreadsOf
    <3> HIDE DEF m, k
    <3> QED BY <1>1, <1>3, <1>4, <1>5, <2>1, <3>1, PutStep
  <2>3. /\ snd'[r] = [pc |-> "meta", left |-> snd[r].left, rest |-> Tail(snd[r].rest)]
        /\ snd' = [q \in Recorders |-> snd'[q]] /\ \A q \in Recorders \ {r} : snd'[q] = snd[q]
    BY <1>1, <1>2, <1>7
  <2>4. /\ Tail(snd[r].rest) \in Seq(STRING) /\ Len(Tail(snd[r].rest)) = Len(snd[r].rest) - 1 /\ Len(snd[r].rest) > 0
        /\ \A i \in 1 .. Len(snd[r].rest) - 1 : Tail(snd[r].rest)[i] = snd[r].rest[i + 1]
    <3>1. \A s \in Seq(STRING) : s # << >> =>
            /\ Tail(s) \in Seq(STRING) /\ Len(Tail(s)) = Len(s) - 1 /\ Len(s) > 0
            /\ \A i \in 1 .. Len(s) - 1 : Tail(s)[i] = s[i + 1]
      OBVIOUS
    <3> QED BY <1>6, <1>7, <3>1
  <2>5. Types(r)'
    <3>1. snd'[r].pc = "meta" /\ snd'[r].left = snd[r].left /\ snd'[r].rest \in Seq(STRING)
      BY <2>3, <2>4
    <3> QED BY <1>1, <1>5, <2>2, <3>1 DEF Types, AtOf
  <2>6. Phases(r)'
    <3>1. \A i \in 1 .. Len(snd'[r].rest) : snd'[r].rest[i] = Meta[i + (Len(Meta) - Len(snd'[r].rest))]
      <4> SUFFICES ASSUME NEW i \in 1 .. Len(snd'[r].rest)
                   PROVE  snd'[r].rest[i] = Meta[i + (Len(Meta) - Len(snd'[r].rest))]
        OBVIOUS
      <4>1. i + 1 \in 1 .. Len(snd[r].rest) /\ i \in 1 .. Len(snd[r].rest) - 1
        BY <1>6, <2>3, <2>4
      <4>2. snd[r].rest[i + 1] = Meta[i + 1 + (Len(Meta) - Len(snd[r].rest))]
        BY <1>5, <4>1 DEF Phases
      <4>3. i + 1 + (Len(Meta) - Len(snd[r].rest)) = i + (Len(Meta) - (Len(snd[r].rest) - 1))
        BY <1>6
      <4>4. snd'[r].rest[i] = snd[r].rest[i + 1] /\ Len(snd'[r].rest) = Len(snd[r].rest) - 1
        BY <2>3, <2>4, <4>1
      <4> QED BY <4>2, <4>3, <4>4
    <3>2. \A w \in WritersOf(r) : snd'[r].left[w] = 0 /\ part'[r][w] = NoMsg
      <4>1. WritersOf(r) \subseteq ThreadsOf(r) \ {Main}
        BY DEF ThreadsOf
      <4> QED BY <1>3, <2>2, <2>3, <4>1
    <3>3. Len(snd'[r].rest) <= Len(Meta) /\ snd'[r].pc = "meta"
      <4>1. Len(snd[r].rest) <= Len(Meta)
        BY <1>5 DEF Phases
      <4> QED BY <1>6, <2>3, <2>4, <4>1
    <3> QED BY <3>1, <3>2, <3>3 DEF Phases
  <2>7. NothingLost(r)'
    <3>1. \A w \in WritersOf(r), d \in 1 .. MaxData(r) : Carried(r, Msg("DATA", w, d))' <=> d > snd'[r].left[w]
      <4>1. \A w \in WritersOf(r), d \in 1 .. MaxData(r) : Carried(r, Msg("DATA", w, d))' <=> Carried(r, Msg("DATA", w, d))
        BY <2>2 DEF Msg
      <4>2. \A w \in WritersOf(r), d \in 1 .. MaxData(r) : Carried(r, Msg("DATA", w, d)) <=> d > snd[r].left[w]
        BY <1>5 DEF NothingLost
      <4> QED BY <2>3, <4>1, <4>2
    <3>2. \A i \in 1 .. Len(Meta) : Carried(r, Msg("META", Meta[i], 1))' <=> i <= Len(Meta) - Len(snd'[r].rest)
      <4> SUFFICES ASSUME NEW i \in 1 .. Len(Meta)
                   PROVE  Carried(r, Msg("META", Meta[i], 1))' <=> i <= Len(Meta) - Len(snd'[r].rest)
        OBVIOUS
      <4>1. Carried(r, Msg("META", Meta[i], 1))' <=> Carried(r, Msg("META", Meta[i], 1)) \/ i = k
        <5>1. Msg("META", Meta[i], 1) = m <=> Meta[i] = Meta[k]
          <6> HIDE DEF m, k
          <6> QED BY <2>1 DEF Msg
        <5>2. Meta[i] = Meta[k] <=> i = k
          <6>1. DOMAIN Meta = 1 .. Len(Meta)
            BY LenProperties
          <6> HIDE DEF k
          <6> QED BY <2>1, <6>1 DEF IsInjective
        <5> QED BY <2>2, <5>1, <5>2
      <4>2. Carried(r, Msg("META", Meta[i], 1)) <=> i <= Len(Meta) - Len(snd[r].rest)
        BY <1>5 DEF NothingLost
      <4>3. Len(snd'[r].rest) = Len(snd[r].rest) - 1
        BY <2>3, <2>4
      <4>4. \A a, b \in Nat : i = a - b + 1 \/ i <= a - b <=> i <= a - (b - 1)
        OBVIOUS
      <4> QED BY <1>6, <4>1, <4>2, <4>3, <4>4
    <3>3. ~Carried(r, End)'
      BY <1>4, <2>1, <2>2
    <3> QED BY <1>1, <1>4, <3>1, <3>2, <3>3 DEF NothingLost
  <2>8. RecInv(r)'
    BY <2>2, <2>5, <2>6, <2>7 DEF RecInv
  <2>9. Rec(r)' /\ (Orderly(r)' => Orderly(r)) /\ \A q \in Recorders \ {r} : q \in mixed' <=> q \in mixed
    BY <2>2, <2>3, <2>8, StaysOrderly
  <2> QED BY <1>1, <2>2, <2>3, <2>9, OnlyRecorder
<1>8. ASSUME snd[r].rest = << >>, wire' = [wire EXCEPT ![r] = Append(@, Piece("head", End))],
             snd' = [snd EXCEPT ![r].pc = "gone"], UNCHANGED <<part, mixed>>
      PROVE  NetInv'
  <2> DEFINE M == MsgsOf(r)   W == wire[r]   F == files[r]   at == AtOf(r)   h == srv.head   V == Append(W, Piece("head", End))
  <2>1. /\ V \in Seq(Items(M)) /\ Framed(V, at, h, NoMsg) /\ InOrder(V, F, at, h)
        /\ \A x : CarriedBy(V, F, at, h, x) <=> CarriedBy(W, F, at, h, x) \/ x = End
    <3>1. /\ W \in Seq(Items(M)) /\ F \in Seq(M) /\ End \in M /\ NoMsg \notin M /\ (at = "body" => h # NoMsg)
      BY <1>1, <1>5, CarriedKinds, NoMsgNone DEF Types
    <3>2. Framed(W, at, h, NoMsg) /\ InOrder(W, F, at, h)
      <4>1. PICK p \in M \cup {NoMsg} : InMiddle(r, p) /\ Framed(W, at, h, p)
        BY <1>5 DEF Stream
      <4>2. p = NoMsg
        BY <1>3, <4>1 DEF InMiddle, NoneInMiddle
      <4> QED BY <1>5, <4>1, <4>2 DEF Stream
    <3>3. ~CarriedBy(W, F, at, h, End) /\ \A x : CarriedBy(W, F, at, h, x) => MayPrecede(x, End)
      BY <1>4 DEF Carried
    <3> HIDE DEF M, W, F, at, h
    <3> QED BY ONLY <3>1, <3>2, <3>3, PutEnd, SMT
  <2>2. /\ wire' = [q \in Recorders |-> wire'[q]] /\ wire'[r] = V /\ \A q \in Recorders \ {r} : wire'[q] = wire[q]
    BY <1>2, <1>8 DEF Piece
  <2>3. /\ snd'[r] = [pc |-> "gone", left |-> snd[r].left, rest |-> snd[r].rest]
        /\ snd' = [q \in Recorders |-> snd'[q]] /\ \A q \in Recorders \ {r} : snd'[q] = snd[q]
    BY <1>2, <1>8
  <2>4. at' = at /\ F' = F /\ h' = h
    BY <1>1 DEF AtOf
  <2>5. Types(r)'
    <3>1. snd'[r].pc = "gone" /\ snd'[r].left = snd[r].left /\ snd'[r].rest = snd[r].rest
      BY <2>3
    <3>2. part'[r] = part[r] /\ files'[r] = files[r] /\ wire'[r] \in Seq(Items(MsgsOf(r)))
      BY <1>1, <1>8, <2>1, <2>2
    <3> QED BY <1>1, <1>5, <3>1, <3>2 DEF Types, AtOf
  <2>6. Stream(r)'
    <3>1. InMiddle(r, NoMsg)'
      BY <1>3, <1>8 DEF InMiddle, NoneInMiddle
    <3>2. Framed(wire[r], AtOf(r), srv.head, NoMsg)' /\ InOrder(wire[r], files[r], AtOf(r), srv.head)'
      BY <2>1, <2>2, <2>4
    <3> QED BY <3>1, <3>2 DEF Stream
  <2>7. Phases(r)'
    BY <1>3, <1>5, <1>8, <2>3 DEF Phases, NoneInMiddle
  <2>8. NothingLost(r)'
    <3>1. \A x : Carried(r, x)' <=> Carried(r, x) \/ x = End
      <4>1. \A x : Carried(r, x)' <=> CarriedBy(V, F, at, h, x)
        BY <2>2, <2>4 DEF Carried
      <4> QED BY <2>1, <4>1 DEF Carried
    <3>2. \A x : x # End => (Carried(r, x)' <=> Carried(r, x))
      BY <3>1
    <3>3. \A w \in WritersOf(r), d \in 1 .. MaxData(r) : Carried(r, Msg("DATA", w, d))' <=> d > snd'[r].left[w]
      <4>1. \A w \in WritersOf(r), d \in 1 .. MaxData(r) : Msg("DATA", w, d) # End
        BY DEF Msg, End
      <4>2. \A w \in WritersOf(r), d \in 1 .. MaxData(r) : Carried(r, Msg("DATA", w, d)) <=> d > snd[r].left[w]
        BY <1>5 DEF NothingLost
      <4> QED BY <2>3, <3>2, <4>1, <4>2
    <3>4. \A i \in 1 .. Len(Meta) : Carried(r, Msg("META", Meta[i], 1))' <=> i <= Len(Meta) - Len(snd'[r].rest)
      <4>1. \A i \in 1 .. Len(Meta) : Msg("META", Meta[i], 1) # End
        BY DEF Msg, End
      <4>2. \A i \in 1 .. Len(Meta) : Carried(r, Msg("META", Meta[i], 1)) <=> i <= Len(Meta) - Len(snd[r].rest)
        BY <1>5 DEF NothingLost
      <4> QED BY <2>3, <3>2, <4>1, <4>2
    <3>5. AllSent(r)'
      BY <1>3, <1>8, <2>3 DEF AllSent
    <3> QED BY <1>1, <1>4, <3>3, <3>4, <3>5 DEF NothingLost
  <2>9. RecInv(r)'
    BY <2>5, <2>6, <2>7, <2>8 DEF RecInv
  <2>10. Rec(r)' /\ (Orderly(r)' => Orderly(r)) /\ \A q \in Recorders \ {r} : q \in mixed' <=> q \in mixed
    BY <1>8, <2>3, <2>9, StaysOrderly
  <2> QED BY <1>1, <1>2, <1>8, <2>2, <2>3, <2>10, OnlyRecorder
<1> QED BY <1>7, <1>8 DEF SendMeta, End

\* A step of the server for one recorder
LEMMA OnlyServer ==
    ASSUME NetInv, NEW r \in Recorders, UNCHANGED <<snd, part, mixed>>, Shape', Rec(r)', srv'.up = srv.up,
           \A q \in Recorders \ {r} : /\ wire'[q] = wire[q] /\ files'[q] = files[q] /\ (q \in cmds' => q \in cmds)
                                      /\ AtOf(q)' = AtOf(q) /\ (AtOf(q) = "body" => srv'.head = srv.head)
    PROVE  NetInv'
<1>1. ServerUp'
  BY DEF NetInv, ServerUp, Orderly
<1>2. ASSUME NEW q \in Recorders, q # r
      PROVE  Rec(q)'
  <2>1. Shape /\ Rec(q)
    BY DEF NetInv
  <2>2. snd'[q] = snd[q] /\ part'[q] = part[q] /\ wire'[q] = wire[q] /\ files'[q] = files[q]
    BY <1>2
  <2>3. (q \in cmds' => q \in cmds) /\ AtOf(q)' = AtOf(q) /\ (AtOf(q) = "body" => srv'.head = srv.head)
    BY <1>2
  <2>4. (q \in mixed' <=> q \in mixed) /\ (srv'.up => srv.up)
    OBVIOUS
  <2> QED BY <2>1, <2>2, <2>3, <2>4, UntouchedRec
<1> QED BY <1>1, <1>2 DEF NetInv

\* A step of the server that leaves the messages alone
LEMMA OnlyEpoll ==
    ASSUME NetInv, UNCHANGED <<snd, part, wire, files, cmds, mixed>>, srv'.up \in BOOLEAN, srv'.pc = srv.pc, srv'.sock = srv.sock, srv'.head = srv.head,
           srv' = [up |-> srv'.up, pc |-> srv'.pc, sock |-> srv'.sock, head |-> srv'.head, list |-> srv'.list, epoll |-> srv'.epoll],
           srv'.up => srv.up, srv'.up = srv.up \/ \E q \in Recorders : ~Orderly(q)
    PROVE  NetInv'
<1>1. Shape'
  <2>1. snd' = [q \in Recorders |-> [pc |-> snd'[q].pc, left |-> snd'[q].left, rest |-> snd'[q].rest]]
    BY DEF NetInv, Shape
  <2> QED BY <2>1 DEF NetInv, Shape
<1>2. ServerUp'
  BY DEF NetInv, ServerUp, Orderly
<1>3. ASSUME NEW q \in Recorders
      PROVE  Rec(q)'
  <2>1. AtOf(q)' = AtOf(q)
    BY DEF AtOf
  <2> QED BY <2>1, UntouchedRec DEF NetInv
<1> QED BY <1>1, <1>2, <1>3 DEF NetInv

\* The server accepts a recorder.
LEMMA AcceptKeeps ==
    ASSUME NetInv, NEW r \in Recorders, Accept(r)
    PROVE  NetInv'
<1>1. srv = [up |-> srv.up, pc |-> srv.pc, sock |-> srv.sock, head |-> srv.head, list |-> srv.list, epoll |-> srv.epoll]
  BY DEF NetInv, Shape
<1>2. srv.up \in BOOLEAN
  BY DEF NetInv, Shape
<1>3. srv' = [up |-> srv.up, pc |-> srv.pc, sock |-> srv.sock, head |-> srv.head, list |-> srv.list, epoll |-> srv.epoll \cup {r}]
  BY <1>1 DEF Accept
<1> QED BY <1>2, <1>3, OnlyEpoll DEF Accept

\* The server fails when a recorder has died.
LEMMA FailKeeps ==
    ASSUME NetInv, NEW r \in Recorders, ~Orderly(r), Fail, UNCHANGED <<snd, part, mixed>>
    PROVE  NetInv'
<1>1. srv = [up |-> srv.up, pc |-> srv.pc, sock |-> srv.sock, head |-> srv.head, list |-> srv.list, epoll |-> srv.epoll]
  BY DEF NetInv, Shape
<1>2. srv' = [up |-> FALSE, pc |-> srv.pc, sock |-> srv.sock, head |-> srv.head, list |-> srv.list, epoll |-> srv.epoll]
  BY <1>1 DEF Fail
<1>3. srv'.up \in BOOLEAN
  BY <1>2
<1> QED BY <1>2, <1>3, OnlyEpoll DEF Fail

\* The server reads a header.
LEMMA ReadHeadKeeps ==
    ASSUME NetInv, NEW r \in Recorders, Orderly(r), ReadHead(r)
    PROVE  NetInv'
<1> DEFINE M == MsgsOf(r)   W == wire[r]   F == files[r]   h == srv.head
<1>1. Shape /\ Types(r) /\ Stream(r) /\ Phases(r) /\ NothingLost(r) /\ srv.up /\ srv.pc = "poll" /\ UNCHANGED <<snd, part, mixed>>
  BY DEF NetInv, Rec, RecInv, ReadHead
<1>2. AtOf(r) = "poll" /\ \A q \in Recorders : AtOf(q) = "poll"
  BY <1>1 DEF AtOf
<1>3. PICK p \in M \cup {NoMsg} : InMiddle(r, p) /\ Framed(W, "poll", h, p)
  BY <1>1, <1>2 DEF Stream
<1>4. InOrder(W, F, "poll", h)
  BY <1>1, <1>2 DEF Stream
<1>5. W \in Seq(Items(M)) /\ F \in Seq(M)
  BY <1>1, CarriedKinds DEF Types
<1>6. /\ wire = [q \in Recorders |-> wire[q]] /\ files = [q \in Recorders |-> files[q]]
      /\ snd = [q \in Recorders |-> [pc |-> snd[q].pc, left |-> snd[q].left, rest |-> snd[q].rest]]
      /\ part = [q \in Recorders |-> part[q]]
  BY <1>1 DEF Shape
<1>7. srv = [up |-> srv.up, pc |-> srv.pc, sock |-> srv.sock, head |-> srv.head, list |-> srv.list, epoll |-> srv.epoll]
  BY <1>1 DEF Shape
<1>8. snd[r].pc # "dead"
  BY DEF Orderly
<1>9. W # << >> => Head(W).is = "head"
  <2>1. W # << >> => Len(W) > 0 /\ Head(W) = W[1] /\ Head(W) \in Items(M)
    BY <1>5
  <2> QED BY <1>3, <2>1 DEF Framed, Items
<1>10. ASSUME W # << >>, Head(W).m.type = "END", wire' = [wire EXCEPT ![r] = Tail(@)],
              srv' = [srv EXCEPT !.list = @ \ {r}, !.epoll = @ \ {r}], cmds' = cmds \cup {r}, UNCHANGED files
       PROVE  NetInv'
  <2>1. Head(W).m = End
    <3>1. Head(W).m \in M
      <4>1. Head(W) \in Items(M)
        BY <1>5, <1>10
      <4> QED BY <4>1 DEF Items
    <3> QED BY <1>10, <3>1 DEF MsgsOf, Saves, DataOf, MetaFiles, Msg, DirName
  <2>2. /\ srv' = [up |-> srv.up, pc |-> srv.pc, sock |-> srv.sock, head |-> srv.head, list |-> srv.list \ {r}, epoll |-> srv.epoll \ {r}]
        /\ srv'.up = srv.up /\ srv'.pc = srv.pc /\ srv'.sock = srv.sock /\ srv'.head = srv.head
    BY <1>7, <1>10
  <2>3. /\ Tail(W) = << >> /\ p = NoMsg /\ Framed(<< >>, "poll", h, NoMsg) /\ InOrder(<< >>, F, "poll", h)
        /\ CarriedBy(W, F, "poll", h, End)
        /\ \A x : x # End => (CarriedBy(<< >>, F, "poll", h, x) <=> CarriedBy(W, F, "poll", h, x))
    <3>1. W # << >>
      BY <1>10
    <3> HIDE DEF M, W, F, h
    <3> QED BY ONLY <1>3, <1>4, <1>5, <2>1, <3>1, TakeEnd, SMT
  <2>4. wire' = [q \in Recorders |-> wire'[q]] /\ wire'[r] = << >> /\ \A q \in Recorders \ {r} : wire'[q] = wire[q]
    BY <1>6, <1>10, <2>3
  <2>5. AtOf(r)' = "poll" /\ \A q \in Recorders : AtOf(q)' = "poll"
    BY <1>1, <2>2 DEF AtOf
  <2>6. Shape'
    <3>1. snd' = [q \in Recorders |-> [pc |-> snd'[q].pc, left |-> snd'[q].left, rest |-> snd'[q].rest]]
      BY <1>1, <1>6
    <3> QED BY <1>1, <1>10, <2>2, <2>4, <3>1 DEF Shape
  <2>7. AllSent(r) /\ AllSent(r)'
    <3>1. AllSent(r)
      BY <1>1, <1>2, <2>3 DEF NothingLost, Carried
    <3> QED BY <1>1, <3>1 DEF AllSent
  <2>8. Types(r)'
    <3>1. << >> \in Seq(Items(M))
      OBVIOUS
    <3> QED BY <1>1, <1>10, <2>4, <2>5, <3>1 DEF Types
  <2>9. Stream(r)'
    <3>1. InMiddle(r, NoMsg)'
      BY <1>1, <1>3, <2>3 DEF InMiddle
    <3>2. Framed(wire[r], AtOf(r), srv.head, NoMsg)' /\ InOrder(wire[r], files[r], AtOf(r), srv.head)'
      BY <1>10, <2>2, <2>3, <2>4, <2>5
    <3> QED BY <3>1, <3>2 DEF Stream
  <2>10. Phases(r)'
    BY <1>1, <2>7 DEF Phases, NoneInMiddle, AllSent
  <2>11. NothingLost(r)'
    <3>1. \A x : x # End => (Carried(r, x)' <=> Carried(r, x))
      <4>1. \A x : Carried(r, x)' <=> CarriedBy(<< >>, F, "poll", h, x)
        BY <1>10, <2>2, <2>4, <2>5 DEF Carried
      <4> QED BY <1>2, <2>3, <4>1 DEF Carried
    <3>2. \A w \in WritersOf(r), d \in 1 .. MaxData(r) : Carried(r, Msg("DATA", w, d))' <=> d > snd'[r].left[w]
      <4>1. \A w \in WritersOf(r), d \in 1 .. MaxData(r) : Msg("DATA", w, d) # End
        BY DEF Msg, End
      <4> QED BY <1>1, <3>1, <4>1 DEF NothingLost
    <3>3. \A i \in 1 .. Len(Meta) : Carried(r, Msg("META", Meta[i], 1))' <=> i <= Len(Meta) - Len(snd'[r].rest)
      <4>1. \A i \in 1 .. Len(Meta) : Msg("META", Meta[i], 1) # End
        BY DEF Msg, End
      <4> QED BY <1>1, <3>1, <4>1 DEF NothingLost
    <3> QED BY <2>4, <2>5, <2>7, <3>2, <3>3 DEF NothingLost
  <2>12. RecInv(r)'
    BY <2>8, <2>9, <2>10, <2>11 DEF RecInv
  <2>13. \A q \in Recorders \ {r} : /\ wire'[q] = wire[q] /\ files'[q] = files[q] /\ (q \in cmds' => q \in cmds)
                                    /\ AtOf(q)' = AtOf(q) /\ (AtOf(q) = "body" => srv'.head = srv.head)
    BY <1>2, <1>10, <2>4, <2>5
  <2>14. Rec(r)'
    BY <1>1, <1>8, <2>12, StaysOrderly
  <2> QED BY <1>1, <2>2, <2>6, <2>13, <2>14, OnlyServer
<1>11. ASSUME W # << >>, Head(W).m.type # "END", wire' = [wire EXCEPT ![r] = Tail(@)],
              srv' = [srv EXCEPT !.pc = "body", !.sock = r, !.head = Head(wire[r]).m], UNCHANGED <<files, cmds>>
       PROVE  NetInv'
  <2> DEFINE g == Head(W).m
  <2>1. g # End
    BY <1>11 DEF End, Msg
  <2>2. /\ srv' = [up |-> srv.up, pc |-> "body", sock |-> r, head |-> g, list |-> srv.list, epoll |-> srv.epoll]
        /\ srv'.up = srv.up /\ srv'.pc = "body" /\ srv'.sock = r /\ srv'.head = g
    BY <1>7, <1>11
  <2>3. /\ g \in M /\ Tail(W) \in Seq(Items(M)) /\ Framed(Tail(W), "body", g, p) /\ InOrder(Tail(W), F, "body", g)
        /\ \A x : CarriedBy(Tail(W), F, "body", g, x) <=> CarriedBy(W, F, "poll", h, x)
    <3>1. W # << >>
      BY <1>11
    <3> HIDE DEF M, W, F, h
    <3> QED BY ONLY <1>3, <1>4, <1>5, <2>1, <3>1, TakeHead, SMT
  <2>4. wire' = [q \in Recorders |-> wire'[q]] /\ wire'[r] = Tail(W) /\ \A q \in Recorders \ {r} : wire'[q] = wire[q]
    BY <1>6, <1>11
  <2>5. AtOf(r)' = "body" /\ \A q \in Recorders \ {r} : AtOf(q)' = "poll"
    BY <2>2 DEF AtOf
  <2>6. Shape'
    <3>1. snd' = [q \in Recorders |-> [pc |-> snd'[q].pc, left |-> snd'[q].left, rest |-> snd'[q].rest]]
      BY <1>1, <1>6
    <3>2. srv'.pc = "body" => srv'.sock \in Recorders
      BY <2>2
    <3> HIDE DEF g
    <3> QED BY <1>1, <1>11, <2>2, <2>4, <3>1, <3>2 DEF Shape
  <2>7. Types(r)'
    <3> HIDE DEF g
    <3> QED BY <1>1, <1>11, <2>1, <2>2, <2>3, <2>4 DEF Types
  <2>8. Stream(r)'
    <3>1. InMiddle(r, p)'
      BY <1>1, <1>3 DEF InMiddle
    <3>2. Framed(wire[r], AtOf(r), srv.head, p)' /\ InOrder(wire[r], files[r], AtOf(r), srv.head)'
      BY <1>11, <2>2, <2>3, <2>4, <2>5
    <3> QED BY <3>1, <3>2 DEF Stream
  <2>9. Phases(r)'
    <3>1. snd[r].pc # "start"
      BY <1>1, <1>11 DEF Phases
    <3> QED BY <1>1, <3>1 DEF Phases, NoneInMiddle
  <2>10. NothingLost(r)'
    <3>1. \A x : Carried(r, x)' <=> Carried(r, x)
      <4>1. \A x : Carried(r, x)' <=> CarriedBy(Tail(W), F, "body", g, x)
        BY <1>11, <2>2, <2>4, <2>5 DEF Carried
      <4> QED BY <1>2, <2>3, <4>1 DEF Carried
    <3>2. r \notin cmds
      BY <1>1, <1>11 DEF NothingLost
    <3> QED BY <1>1, <1>11, <3>1, <3>2 DEF NothingLost, AllSent
  <2>11. RecInv(r)'
    BY <2>7, <2>8, <2>9, <2>10 DEF RecInv
  <2>12. \A q \in Recorders \ {r} : /\ wire'[q] = wire[q] /\ files'[q] = files[q] /\ (q \in cmds' => q \in cmds)
                                    /\ AtOf(q)' = AtOf(q) /\ (AtOf(q) = "body" => srv'.head = srv.head)
    BY <1>2, <1>11, <2>4, <2>5
  <2>13. Rec(r)'
    BY <1>1, <1>8, <2>11, StaysOrderly
  <2> QED BY <1>1, <2>2, <2>6, <2>12, <2>13, OnlyServer
<1> QED BY <1>8, <1>9, <1>10, <1>11 DEF ReadHead

\* The server reads a body.
LEMMA ReadBodyKeeps ==
    ASSUME NetInv, ReadBody, Orderly(srv.sock)
    PROVE  NetInv'
<1>r. PICK r \in Recorders : r = srv.sock
  BY DEF NetInv, Shape, ReadBody
<1>1. Shape /\ srv.up /\ srv.pc = "body" /\ UNCHANGED <<snd, part, mixed>>
  BY DEF NetInv, ReadBody
<1> DEFINE M == MsgsOf(r)   W == wire[r]   F == files[r]   h == srv.head
<1>2. Types(r) /\ Stream(r) /\ Phases(r) /\ NothingLost(r)
  BY <1>r, <1>1 DEF NetInv, Rec, RecInv
<1>3. AtOf(r) = "body" /\ (\A q \in Recorders \ {r} : AtOf(q) = "poll") /\ h \in M \ {End} /\ r \notin cmds
  BY <1>r, <1>1, <1>2 DEF AtOf, Shape, NothingLost, Types
<1>4. PICK p \in M \cup {NoMsg} : InMiddle(r, p) /\ Framed(W, "body", h, p)
  BY <1>2, <1>3 DEF Stream
<1>5. InOrder(W, F, "body", h)
  BY <1>2, <1>3 DEF Stream
<1>6. W \in Seq(Items(M)) /\ F \in Seq(M) /\ F \in Seq(Saves(r))
  BY <1>1, <1>2, CarriedKinds DEF Types
<1>7. /\ wire = [q \in Recorders |-> wire[q]] /\ files = [q \in Recorders |-> files[q]]
      /\ snd = [q \in Recorders |-> [pc |-> snd[q].pc, left |-> snd[q].left, rest |-> snd[q].rest]]
      /\ part = [q \in Recorders |-> part[q]]
      /\ srv = [up |-> srv.up, pc |-> srv.pc, sock |-> srv.sock, head |-> srv.head, list |-> srv.list, epoll |-> srv.epoll]
  BY <1>1 DEF Shape
<1>8. snd[r].pc # "dead"
  BY <1>r DEF Orderly
<1>9. ASSUME W # << >>, NEW G \in Seq(Saves(r)), (G = F /\ h = DirName) \/ G = Append(F, h), NEW list,
             wire' = [wire EXCEPT ![r] = Tail(@)], files' = [files EXCEPT ![r] = G],
             srv' = [srv EXCEPT !.pc = "poll", !.list = list], UNCHANGED cmds
      PROVE  NetInv'
  <2>1. /\ srv' = [up |-> srv.up, pc |-> "poll", sock |-> srv.sock, head |-> srv.head, list |-> list, epoll |-> srv.epoll]
        /\ srv'.up = srv.up /\ srv'.pc = "poll" /\ srv'.head = srv.head
    BY <1>7, <1>9
  <2>2. /\ Tail(W) \in Seq(Items(M)) /\ Framed(Tail(W), "poll", h, p)
        /\ InOrder(Tail(W), F, "poll", h) /\ InOrder(Tail(W), Append(F, h), "poll", h)
        /\ \A x : x # h => (CarriedBy(Tail(W), F, "poll", h, x) <=> CarriedBy(W, F, "body", h, x))
        /\ \A x : CarriedBy(Tail(W), Append(F, h), "poll", h, x) <=> CarriedBy(W, F, "body", h, x)
    <3>1. W # << >>
      BY <1>9
    <3> HIDE DEF M, W, F, h
    <3> QED BY ONLY <1>4, <1>5, <1>6, <3>1, TakeBody, SMT
  <2>3. InOrder(Tail(W), G, "poll", h) /\ \A x : x # DirName => (CarriedBy(Tail(W), G, "poll", h, x) <=> CarriedBy(W, F, "body", h, x))
    BY <1>9, <2>2
  <2>4. /\ wire' = [q \in Recorders |-> wire'[q]] /\ wire'[r] = Tail(W) /\ \A q \in Recorders \ {r} : wire'[q] = wire[q]
        /\ files' = [q \in Recorders |-> files'[q]] /\ files'[r] = G /\ \A q \in Recorders \ {r} : files'[q] = files[q]
    BY <1>1, <1>7, <1>9
  <2>5. \A q \in Recorders : AtOf(q)' = "poll"
    BY <2>1 DEF AtOf
  <2>6. Shape'
    <3>1. snd' = [q \in Recorders |-> [pc |-> snd'[q].pc, left |-> snd'[q].left, rest |-> snd'[q].rest]]
      BY <1>1, <1>7
    <3>2. srv' = [up |-> srv'.up, pc |-> srv'.pc, sock |-> srv'.sock, head |-> srv'.head, list |-> srv'.list, epoll |-> srv'.epoll]
      BY <2>1
    <3> QED BY <1>1, <1>9, <2>1, <2>4, <3>1, <3>2 DEF Shape
  <2>7. Types(r)'
    BY <1>1, <1>2, <1>9, <2>2, <2>4, <2>5 DEF Types
  <2>8. InMiddle(r, p)'
    BY <1>1, <1>4 DEF InMiddle
  <2>9. Stream(r)'
    <3>1. Framed(Tail(W), AtOf(r)', srv'.head, p) /\ InOrder(Tail(W), G, AtOf(r)', srv'.head)
      BY <1>1, <2>1, <2>2, <2>3, <2>5
    <3> QED BY <1>4, <2>4, <2>8, <3>1 DEF Stream
  <2>10. Phases(r)'
    <3>1. snd[r].pc # "start"
      BY <1>2, <1>3 DEF Phases
    <3> QED BY <1>1, <1>2, <3>1 DEF Phases, NoneInMiddle
  <2>11. NothingLost(r)'
    <3>1. \A x : x # DirName => (Carried(r, x)' <=> Carried(r, x))
      <4>1. \A x : Carried(r, x)' <=> CarriedBy(Tail(W), G, "poll", h, x)
        <5>1. AtOf(r)' = "poll" /\ srv'.head = h /\ wire'[r] = Tail(W) /\ files'[r] = G
          BY <1>1, <2>1, <2>4, <2>5
        <5> QED BY <5>1 DEF Carried
      <4> QED BY <1>3, <2>3, <4>1 DEF Carried
    <3>2. DirName # End /\ \A w, d, i : Msg("DATA", w, d) # DirName /\ Msg("META", i, 1) # DirName
      BY DEF Msg, End, DirName
    <3> QED BY <1>1, <1>2, <1>3, <1>9, <3>1, <3>2 DEF NothingLost, AllSent
  <2>12. RecInv(r)'
    BY <2>7, <2>9, <2>10, <2>11 DEF RecInv
  <2>13. \A q \in Recorders \ {r} : /\ wire'[q] = wire[q] /\ files'[q] = files[q] /\ (q \in cmds' => q \in cmds)
                                    /\ AtOf(q)' = AtOf(q) /\ (AtOf(q) = "body" => srv'.head = srv.head)
    BY <1>3, <1>9, <2>4, <2>5
  <2>14. Rec(r)'
    BY <1>r, <1>1, <1>8, <2>12, StaysOrderly
  <2> QED BY <1>1, <2>1, <2>6, <2>13, <2>14, OnlyServer
<1>10. W # << >> => Head(W).is = "body" /\ Head(W).m = h
  <2>1. W # << >> => Len(W) > 0 /\ Head(W) = W[1]
    BY <1>6
  <2> QED BY <1>4, <2>1 DEF Framed
<1>11. CASE /\ W # << >> /\ wire' = [wire EXCEPT ![r] = Tail(@)] /\ UNCHANGED cmds
            /\ srv' = [srv EXCEPT !.pc = "poll", !.list = IF h.type = "DIR_NAME" THEN @ \cup {r} ELSE @]
            /\ files' = IF h.type = "DIR_NAME" THEN files ELSE [files EXCEPT ![r] = Saved(@, Head(W).m)]
  <2> DEFINE list == IF h.type = "DIR_NAME" THEN srv.list \cup {r} ELSE srv.list
  <2>1. srv' = [srv EXCEPT !.pc = "poll", !.list = list]
    BY <1>7, <1>11
  <2>2. CASE h.type = "DIR_NAME"
    <3>1. h = DirName
      BY <1>3, <2>2 DEF MsgsOf, Saves, DataOf, MetaFiles, Msg, DirName
    <3>2. files' = [files EXCEPT ![r] = F]
      BY <1>7, <1>11, <2>2
    <3> QED BY <1>6, <1>9, <1>11, <2>1, <3>1, <3>2
  <2>3. CASE h.type # "DIR_NAME"
    <3>1. h \in Saves(r)
      BY <1>3, <2>3 DEF MsgsOf, Msg, DirName
    <3>2. files' = [files EXCEPT ![r] = Append(F, h)]
      BY <1>10, <1>11, <2>3 DEF Saved
    <3>3. Append(F, h) \in Seq(Saves(r))
      BY <1>6, <3>1
    <3> QED BY <1>9, <1>11, <2>1, <3>2, <3>3
  <2> QED BY <2>2, <2>3
<1> QED BY <1>r, <1>8, <1>10, <1>11 DEF ReadBody

-----------------------------------------------------------------------------
(* Recorders that die or mix their messages up *)

\* What is sent later does not put a socket in order again.
LEMMA MoreConfused ==
    ASSUME NEW S, NEW W \in Seq(S), NEW T, NEW U \in Seq(T), NEW at, Confused(W, at)
    PROVE  Confused(W \o U, at)
<1>1. Len(W \o U) = Len(W) + Len(U) /\ Len(W) \in Nat /\ Len(U) \in Nat /\ \A i \in 1 .. Len(W) : (W \o U)[i] = W[i]
  OBVIOUS
<1>2. PICK n \in 1 .. Len(W) : /\ \A i \in 1 .. n : W[i].m.type # "END"
                               /\ n = 1 => (W[1].is = "head" <=> at = "body")
                               /\ n # 1 => W[n - 1].is = "head" /\ W[n].is = "head"
  BY DEF Confused
<1>3. n \in 1 .. Len(W \o U) /\ (\A i \in 1 .. n : i \in 1 .. Len(W)) /\ (n # 1 => n - 1 \in 1 .. Len(W)) /\ 1 \in 1 .. Len(W)
  BY <1>1, <1>2
<1>4. /\ \A i \in 1 .. n : (W \o U)[i].m.type # "END"
      /\ n = 1 => ((W \o U)[1].is = "head" <=> at = "body")
      /\ n # 1 => (W \o U)[n - 1].is = "head" /\ (W \o U)[n].is = "head"
  BY <1>1, <1>2, <1>3
<1> QED BY <1>3, <1>4 DEF Confused

\* Neither does the server when it takes a piece for what it is.
LEMMA LessConfused ==
    ASSUME NEW S, NEW W \in Seq(S), W # << >>, NEW at, NEW to, W[1].is = "head" <=> at # "body", to = "body" <=> at # "body",
           Confused(W, at)
    PROVE  Confused(Tail(W), to)
<1>1. /\ Len(Tail(W)) = Len(W) - 1 /\ Len(W) \in Nat /\ Len(W) > 0
      /\ \A i \in 1 .. Len(W) - 1 : Tail(W)[i] = W[i + 1]
  OBVIOUS
<1>2. PICK n \in 1 .. Len(W) : /\ \A i \in 1 .. n : W[i].m.type # "END"
                               /\ n = 1 => (W[1].is = "head" <=> at = "body")
                               /\ n # 1 => W[n - 1].is = "head" /\ W[n].is = "head"
  BY DEF Confused
<1>3. n # 1
  BY <1>2
<1> DEFINE k == n - 1   V == Tail(W)
<1>4. k \in 1 .. Len(V) /\ k + 1 = n
  BY <1>1, <1>3
<1>5. \A i \in 1 .. k : V[i].m.type # "END"
  <2> SUFFICES ASSUME NEW i \in 1 .. k
               PROVE  V[i].m.type # "END"
    OBVIOUS
  <2>1. V[i] = W[i + 1] /\ i + 1 \in 1 .. n
    BY <1>1
  <2> QED BY <1>2, <2>1
<1>6. V[k].is = "head"
  BY <1>1, <1>2, <1>3, <1>4
<1>7. k = 1 => (V[1].is = "head" <=> to = "body")
  <2> SUFFICES ASSUME k = 1
               PROVE  V[1].is = "head" /\ to = "body"
    OBVIOUS
  <2>1. W[1].is = "head"
    BY <1>2, <1>3
  <2> QED BY <1>6, <2>1
<1>8. k # 1 => V[k - 1].is = "head"
  <2> SUFFICES ASSUME k # 1
               PROVE  V[k - 1].is = "head"
    OBVIOUS
  <2>1. k - 1 \in 1 .. Len(W) - 1 /\ k - 1 + 1 = n - 1
    BY <1>1, <1>4
  <2>2. V[k - 1] = W[n - 1]
    BY <1>1, <2>1
  <2> QED BY <1>2, <1>3, <2>2
<1> HIDE DEF k, V
<1>9. Confused(V, to)
  BY <1>4, <1>5, <1>6, <1>7, <1>8 DEF Confused
<1> QED BY <1>9 DEF V

\* What a step of a recorder does, whatever is known about the recorder
LEMMA SenderEffect ==
    ASSUME Shape, NEW r \in Recorders, NEW S, wire[r] \in Seq(S), RecorderStep(r) \/ RecorderDies(r)
    PROVE  /\ UNCHANGED <<srv, files, cmds>> /\ snd[r].pc # "dead"
           /\ snd' = [q \in Recorders |-> snd'[q]] /\ part' = [q \in Recorders |-> part'[q]] /\ wire' = [q \in Recorders |-> wire'[q]]
           /\ \A q \in Recorders \ {r} : snd'[q] = snd[q] /\ part'[q] = part[q] /\ wire'[q] = wire[q]
           /\ snd'[r] = [pc |-> snd'[r].pc, left |-> snd'[r].left, rest |-> snd'[r].rest]
           /\ \E T : \E U \in Seq(T) : wire'[r] = wire[r] \o U
           /\ mixed \subseteq mixed' /\ mixed' \subseteq mixed \cup {r}
<1>1. /\ snd = [q \in Recorders |-> snd[q]] /\ snd[r] = [pc |-> snd[r].pc, left |-> snd[r].left, rest |-> snd[r].rest]
      /\ part = [q \in Recorders |-> part[q]] /\ wire = [q \in Recorders |-> wire[q]]
  BY SndShape
<1> DEFINE OneMore(U) == wire' = [wire EXCEPT ![r] = @ \o U]
<1>2. ASSUME NEW T, NEW U \in Seq(T), OneMore(U)
      PROVE  /\ wire' = [q \in Recorders |-> wire'[q]] /\ \A q \in Recorders \ {r} : wire'[q] = wire[q]
             /\ \E R : \E X \in Seq(R) : wire'[r] = wire[r] \o X
  BY <1>1, <1>2
<1>3. ASSUME wire' = wire
      PROVE  /\ wire' = [q \in Recorders |-> wire'[q]] /\ \A q \in Recorders \ {r} : wire'[q] = wire[q]
             /\ \E R : \E X \in Seq(R) : wire'[r] = wire[r] \o X
  <2>1. << >> \in Seq({}) /\ wire[r] \o << >> = wire[r]
    OBVIOUS
  <2> QED BY <1>1, <1>3, <2>1
<1>4. ASSUME NEW it, wire' = [wire EXCEPT ![r] = Append(@, it)]
      PROVE  /\ wire' = [q \in Recorders |-> wire'[q]] /\ \A q \in Recorders \ {r} : wire'[q] = wire[q]
             /\ \E R : \E X \in Seq(R) : wire'[r] = wire[r] \o X
  <2>1. <<it>> \in Seq({it}) /\ Append(wire[r], it) = wire[r] \o <<it>>
    <3>1. \A W \in Seq(S \cup {it}) : Append(W, it) = W \o <<it>>
      BY AppendIsConcat
    <3>2. wire[r] \in Seq(S \cup {it})
      BY SeqMonotonic
    <3> QED BY <3>1, <3>2
  <2>2. OneMore(<<it>>)
    BY <1>4, <2>1
  <2> QED BY <1>2, <2>1, <2>2
<1>5. ASSUME NEW w \in ThreadsOf(r), NEW m, Put(r, w, m)
      PROVE  /\ wire' = [q \in Recorders |-> wire'[q]] /\ \A q \in Recorders \ {r} : wire'[q] = wire[q]
             /\ \E R : \E X \in Seq(R) : wire'[r] = wire[r] \o X
             /\ part' = [q \in Recorders |-> part'[q]] /\ \A q \in Recorders \ {r} : part'[q] = part[q]
             /\ mixed \subseteq mixed' /\ mixed' \subseteq mixed \cup {r}
  <2>1. mixed \subseteq mixed' /\ mixed' \subseteq mixed \cup {r}
    BY <1>5 DEF Put
  <2>2. CASE wire' = [wire EXCEPT ![r] = @ \o <<Piece("head", m), Piece("body", m)>>] /\ UNCHANGED part
    <3>1. <<Piece("head", m), Piece("body", m)>> \in Seq({Piece("head", m), Piece("body", m)})
      OBVIOUS
    <3>2. OneMore(<<Piece("head", m), Piece("body", m)>>)
      BY <2>2
    <3> HIDE DEF OneMore
    <3> QED BY <1>1, <1>2, <2>1, <2>2, <3>1, <3>2
  <2>3. CASE wire' = [wire EXCEPT ![r] = Append(@, Piece("head", m))] /\ part' = [part EXCEPT ![r][w] = m]
    <3>1. part' = [q \in Recorders |-> part'[q]] /\ \A q \in Recorders \ {r} : part'[q] = part[q]
      BY <1>1, <2>3
    <3> QED BY <1>4, <2>1, <2>3, <3>1
  <2> QED BY <1>5, <2>2, <2>3 DEF Put
<1> HIDE DEF OneMore
<1>6. Main \in ThreadsOf(r) /\ WritersOf(r) \subseteq ThreadsOf(r)
  BY DEF ThreadsOf
<1>7. CASE Connect(r)
  <2>1. snd' = [snd EXCEPT ![r].pc = "data"] \/ snd' = [snd EXCEPT ![r].pc = "gone"]
    BY <1>7 DEF Connect
  <2>2. /\ snd' = [q \in Recorders |-> snd'[q]] /\ \A q \in Recorders \ {r} : snd'[q] = snd[q]
        /\ snd'[r] = [pc |-> snd'[r].pc, left |-> snd'[r].left, rest |-> snd'[r].rest]
    BY <1>1, <2>1
  <2>3. Put(r, Main, Msg("DIR_NAME", Main, 0)) \/ UNCHANGED <<wire, part, mixed>>
    BY <1>7 DEF Connect
  <2> QED BY <1>1, <1>3, <1>5, <1>6, <1>7, <2>2, <2>3 DEF Connect
<1>8. CASE Join(r) \/ SendFails(r) \/ RecorderDies(r)
  <2>1. snd' = [snd EXCEPT ![r].pc = "meta"] \/ snd' = [snd EXCEPT ![r].pc = "dead"]
    BY <1>8 DEF Join, SendFails, RecorderDies
  <2>2. /\ snd' = [q \in Recorders |-> snd'[q]] /\ \A q \in Recorders \ {r} : snd'[q] = snd[q]
        /\ snd'[r] = [pc |-> snd'[r].pc, left |-> snd'[r].left, rest |-> snd'[r].rest]
    BY <1>1, <2>1
  <2>3. UNCHANGED <<part, wire, srv, files, cmds, mixed>> /\ snd[r].pc # "dead"
    BY <1>8 DEF Join, SendFails, RecorderDies
  <2> QED BY <1>1, <1>3, <2>2, <2>3
<1>9. CASE SendMeta(r)
  <2>1. snd' = [snd EXCEPT ![r].rest = Tail(@)] \/ snd' = [snd EXCEPT ![r].pc = "gone"]
    BY <1>9 DEF SendMeta
  <2>2. /\ snd' = [q \in Recorders |-> snd'[q]] /\ \A q \in Recorders \ {r} : snd'[q] = snd[q]
        /\ snd'[r] = [pc |-> snd'[r].pc, left |-> snd'[r].left, rest |-> snd'[r].rest]
    BY <1>1, <2>1
  <2>3. \/ Put(r, Main, Msg("META", Head(snd[r].rest), 1))
        \/ wire' = [wire EXCEPT ![r] = Append(@, Piece("head", Msg("END", Main, 0)))] /\ UNCHANGED <<part, mixed>>
    BY <1>9 DEF SendMeta
  <2>4. snd[r].pc # "dead" /\ UNCHANGED <<srv, files, cmds>>
    BY <1>9 DEF SendMeta
  <2> QED BY <1>1, <1>4, <1>5, <1>6, <2>2, <2>3, <2>4
<1>10. ASSUME NEW w \in WritersOf(r), SendData(r, w)
       PROVE  /\ UNCHANGED <<srv, files, cmds>> /\ snd[r].pc # "dead" /\ Put(r, w, Msg("DATA", w, snd[r].left[w]))
              /\ snd' = [q \in Recorders |-> snd'[q]] /\ \A q \in Recorders \ {r} : snd'[q] = snd[q]
              /\ snd'[r] = [pc |-> snd'[r].pc, left |-> snd'[r].left, rest |-> snd'[r].rest]
  <2>1. snd' = [snd EXCEPT ![r].left[w] = @ - 1]
    BY <1>10 DEF SendData
  <2> QED BY <1>1, <1>10, <2>1 DEF SendData
<1>11. ASSUME NEW w \in ThreadsOf(r), PutRest(r, w)
       PROVE  /\ UNCHANGED <<snd, srv, files, cmds, mixed>> /\ snd[r].pc # "dead"
              /\ wire' = [wire EXCEPT ![r] = Append(@, Piece("body", part[r][w]))]
              /\ part' = [q \in Recorders |-> part'[q]] /\ \A q \in Recorders \ {r} : part'[q] = part[q]
  BY <1>1, <1>11 DEF PutRest
<1>12. CASE \E w \in WritersOf(r) : SendData(r, w)
  <2>1. PICK w \in WritersOf(r) : SendData(r, w)
    BY <1>12
  <2> QED BY <1>5, <1>6, <1>10, <2>1
<1>13. CASE \E w \in WritersOf(r) \cup {Main} : PutRest(r, w)
  <2>1. PICK w \in ThreadsOf(r) : PutRest(r, w)
    BY <1>13 DEF ThreadsOf
  <2> QED BY <1>1, <1>4, <1>11, <2>1
<1> QED BY <1>7, <1>8, <1>9, <1>12, <1>13 DEF RecorderStep

\* A recorder that goes wrong, or has gone wrong, stays so.
LEMMA GoneWrong ==
    ASSUME NetInv, NEW r \in Recorders, RecorderStep(r) \/ RecorderDies(r), ~Orderly(r)', r \notin cmds, NEW S, wire[r] \in Seq(S),
           srv.up => Confused(wire'[r], AtOf(r)) \/ (snd'[r].pc = "dead" /\ NoEnd(wire'[r]))
    PROVE  NetInv'
<1>1. /\ UNCHANGED <<srv, files, cmds>> /\ snd[r].pc # "dead"
      /\ snd' = [q \in Recorders |-> snd'[q]] /\ part' = [q \in Recorders |-> part'[q]] /\ wire' = [q \in Recorders |-> wire'[q]]
      /\ \A q \in Recorders \ {r} : snd'[q] = snd[q] /\ part'[q] = part[q] /\ wire'[q] = wire[q]
      /\ snd'[r] = [pc |-> snd'[r].pc, left |-> snd'[r].left, rest |-> snd'[r].rest]
      /\ \E T : \E U \in Seq(T) : wire'[r] = wire[r] \o U
      /\ mixed \subseteq mixed' /\ mixed' \subseteq mixed \cup {r}
  BY SenderEffect DEF NetInv
<1>2. \E R : wire'[r] \in Seq(R)
  <2>1. PICK T : \E U \in Seq(T) : wire'[r] = wire[r] \o U
    BY <1>1
  <2>2. PICK U \in Seq(T) : wire'[r] = wire[r] \o U
    BY <2>1
  <2>3. wire[r] \in Seq(S \cup T) /\ U \in Seq(S \cup T)
    BY SeqMonotonic
  <2>4. wire[r] \o U \in Seq(S \cup T)
    BY <2>3
  <2> QED BY <2>2, <2>4
<1>3. Astray(r)'
  <2>1. AtOf(r)' = AtOf(r)
    BY <1>1 DEF AtOf
  <2> QED BY <1>1, <1>2, <2>1 DEF Astray
<1>4. Rec(r)' /\ (Orderly(r)' => Orderly(r)) /\ \A q \in Recorders \ {r} : q \in mixed' <=> q \in mixed
  BY <1>1, <1>3 DEF Rec
<1> QED BY <1>1, <1>4, OnlyRecorder

\* A recorder that has mixed its messages up goes on.
LEMMA AstrayRecorder ==
    ASSUME NetInv, NEW r \in Recorders, ~Orderly(r), RecorderStep(r) \/ RecorderDies(r)
    PROVE  NetInv'
<1>1. Astray(r)
  BY DEF NetInv, Rec
<1>2. PICK S : wire[r] \in Seq(S)
  BY <1>1 DEF Astray
<1>3. /\ snd[r].pc # "dead" /\ mixed \subseteq mixed' /\ \E T : \E U \in Seq(T) : wire'[r] = wire[r] \o U
  BY <1>2, SenderEffect DEF NetInv
<1>4. r \in mixed /\ ~Orderly(r)'
  BY <1>3 DEF Orderly
<1>5. srv.up => Confused(wire'[r], AtOf(r))
  <2>1. PICK T : \E U \in Seq(T) : wire'[r] = wire[r] \o U
    BY <1>3
  <2>2. PICK U \in Seq(T) : wire'[r] = wire[r] \o U
    BY <2>1
  <2> QED BY <1>1, <1>2, <1>3, <2>2, MoreConfused DEF Astray
<1>6. r \notin cmds
  BY <1>1 DEF Astray
<1> QED BY <1>2, <1>4, <1>5, <1>6, GoneWrong

\* A writer sends its data when another one is in the middle of a message.
LEMMA SendDataMixes ==
    ASSUME NetInv, NEW r \in Recorders, Orderly(r), NEW w \in WritersOf(r), SendData(r, w),
           NEW v \in WritersOf(r), part[r][v] # NoMsg
    PROVE  NetInv'
<1> DEFINE m == Msg("DATA", w, snd[r].left[w])   W == wire[r]
<1>1. Shape /\ RecInv(r) /\ snd[r].pc = "data" /\ Put(r, w, m)
  BY DEF NetInv, Rec, SendData
<1>2. W \in Seq(Items(MsgsOf(r))) /\ Types(r) /\ \A i \in 1 .. Len(W) : W[i] \in Items(MsgsOf(r))
  BY <1>1, ElementOfSeq DEF RecInv, Types
<1>3. ~Carried(r, End) /\ r \notin cmds
  BY <1>1, EndLast
<1>4. \A i \in 1 .. Len(W) : W[i].m.type # "END"
  <2>1. \A i \in 1 .. Len(W) : W[i].m # End /\ W[i].m \in MsgsOf(r)
    BY <1>2, <1>3 DEF Carried, CarriedBy, Items
  <2>2. \A x \in MsgsOf(r) : x.type = "END" => x = End
    BY DEF MsgsOf, Saves, DataOf, MetaFiles, Msg, DirName
  <2> QED BY <2>1, <2>2
<1>5. IF Len(W) = 0 THEN AtOf(r) = "body" ELSE W[Len(W)].is = "head"
  <2>1. PICK p \in MsgsOf(r) \cup {NoMsg} : InMiddle(r, p) /\ Framed(W, AtOf(r), srv.head, p)
    BY <1>1 DEF RecInv, Stream
  <2>2. p # NoMsg
    BY <2>1 DEF InMiddle, ThreadsOf
  <2> QED BY <2>1, <2>2 DEF Framed, Piece
<1>6. r \in mixed' /\ ~Orderly(r)'
  BY <1>1 DEF Put, Orderly
<1>7. wire = [q \in Recorders |-> wire[q]]
  BY <1>1, SndShape
<1>8. PICK U \in Seq({Piece("head", m), Piece("body", m)}) : wire'[r] = W \o U /\ Len(U) > 0 /\ U[1] = Piece("head", m)
  <2>1. CASE wire' = [wire EXCEPT ![r] = @ \o <<Piece("head", m), Piece("body", m)>>]
    <3> DEFINE U == <<Piece("head", m), Piece("body", m)>>
    <3>1. U \in Seq({Piece("head", m), Piece("body", m)}) /\ Len(U) > 0 /\ U[1] = Piece("head", m)
      OBVIOUS
    <3>2. wire'[r] = W \o U
      BY <1>7, <2>1
    <3> HIDE DEF U
    <3> QED BY <3>1, <3>2
  <2>2. CASE wire' = [wire EXCEPT ![r] = Append(@, Piece("head", m))]
    <3> DEFINE U == <<Piece("head", m)>>
    <3>1. U \in Seq({Piece("head", m), Piece("body", m)}) /\ Len(U) > 0 /\ U[1] = Piece("head", m)
      OBVIOUS
    <3>2. Piece("head", m) \in Items(MsgsOf(r))
      <4>1. m \in MsgsOf(r)
        BY <1>1, NextData DEF SendData
      <4> QED BY <4>1 DEF Piece, Items
    <3>3. wire'[r] = W \o U
      <4>1. wire'[r] = Append(W, Piece("head", m))
        BY <1>7, <2>2
      <4> QED BY <1>2, <3>2, <4>1, AppendIsConcat
    <3> HIDE DEF U
    <3> QED BY <3>1, <3>3
  <2> QED BY <1>1, <2>1, <2>2 DEF Put
<1>9. /\ Len(W) \in Nat /\ Len(W \o U) = Len(W) + Len(U) /\ Len(U) \in Nat
      /\ (\A i \in 1 .. Len(W) : (W \o U)[i] = W[i]) /\ (W \o U)[Len(W) + 1] = U[1]
  BY <1>2, <1>8
<1>10. Confused(wire'[r], AtOf(r))
  <2> DEFINE n == Len(W) + 1   V == W \o U
  <2>1. n \in 1 .. Len(V) /\ V[n].is = "head" /\ V[n].m.type = "DATA"
    BY <1>8, <1>9 DEF Piece, Msg
  <2>2. \A i \in 1 .. n : V[i].m.type # "END"
    <3>1. \A i \in 1 .. n : i = n \/ i \in 1 .. Len(W)
      BY <1>9
    <3> QED BY <1>4, <1>9, <2>1, <3>1
  <2>3. n = 1 => AtOf(r) = "body"
    BY <1>5, <1>9
  <2>4. n # 1 => V[n - 1].is = "head"
    <3>1. n # 1 => Len(W) # 0 /\ n - 1 = Len(W) /\ Len(W) \in 1 .. Len(W)
      BY <1>9
    <3> QED BY <1>5, <1>9, <3>1
  <2> HIDE DEF n, V
  <2>5. Confused(V, AtOf(r))
    BY <2>1, <2>2, <2>3, <2>4 DEF Confused
  <2> QED BY <1>8, <2>5 DEF V
<1>11. RecorderStep(r)
  BY DEF RecorderStep
<1> QED BY <1>2, <1>3, <1>6, <1>10, <1>11, GoneWrong

\* A recorder dies.
LEMMA DiesKeeps ==
    ASSUME NetInv, NEW r \in Recorders, Orderly(r), SendFails(r) \/ RecorderDies(r)
    PROVE  NetInv'
<1>1. /\ Shape /\ RecInv(r) /\ snd[r].pc \in {"data", "meta"}
      /\ snd' = [snd EXCEPT ![r].pc = "dead"] /\ UNCHANGED <<part, wire, srv, files, cmds, mixed>>
  BY DEF NetInv, Rec, SendFails, RecorderDies
<1>2. snd'[r].pc = "dead"
  <2>1. snd = [q \in Recorders |-> snd[q]] /\ snd[r] = [pc |-> snd[r].pc, left |-> snd[r].left, rest |-> snd[r].rest]
    BY <1>1, SndShape
  <2> QED BY <1>1, <2>1
<1>3. wire[r] \in Seq(Items(MsgsOf(r))) /\ Types(r) /\ \A i \in 1 .. Len(wire[r]) : wire[r][i] \in Items(MsgsOf(r))
  BY <1>1, ElementOfSeq DEF RecInv, Types
<1>4. ~Carried(r, End) /\ r \notin cmds
  BY <1>1, EndLast
<1>5. NoEnd(wire[r])
  <2>1. \A i \in 1 .. Len(wire[r]) : wire[r][i].m # End /\ wire[r][i].m \in MsgsOf(r)
    BY <1>3, <1>4 DEF Carried, CarriedBy, Items
  <2>2. \A x \in MsgsOf(r) : x.type = "END" => x = End
    BY DEF MsgsOf, Saves, DataOf, MetaFiles, Msg, DirName
  <2> QED BY <2>1, <2>2 DEF NoEnd
<1>6. ~Orderly(r)'
  BY <1>2 DEF Orderly
<1>7. RecorderStep(r) \/ RecorderDies(r)
  BY DEF RecorderStep
<1>8. wire'[r] = wire[r]
  BY <1>1
<1> QED BY <1>2, <1>3, <1>4, <1>5, <1>6, <1>7, <1>8, GoneWrong

\* The server goes on with the socket of such a recorder.
LEMMA StaysAstray ==
    ASSUME NetInv, NEW r \in Recorders, ~Orderly(r), UNCHANGED <<snd, part, cmds, mixed>>, Shape', srv'.up = srv.up,
           wire' = [wire EXCEPT ![r] = wire'[r]], \A q \in Recorders \ {r} : files'[q] = files[q],
           \A q \in Recorders \ {r} : AtOf(q)' = AtOf(q) /\ (AtOf(q) = "body" => srv'.head = srv.head),
           NEW S, wire'[r] \in Seq(S), Confused(wire'[r], AtOf(r)') \/ (snd[r].pc = "dead" /\ NoEnd(wire'[r]))
    PROVE  NetInv'
<1>1. Astray(r) /\ Shape
  BY DEF NetInv, Rec
<1>2. Astray(r)' /\ ~Orderly(r)'
  BY <1>1 DEF Astray, Orderly
<1>3. Rec(r)'
  BY <1>2 DEF Rec
<1>4. \A q \in Recorders \ {r} : wire'[q] = wire[q]
  <2>1. wire = [q \in Recorders |-> wire[q]]
    BY <1>1 DEF Shape
  <2>2. ASSUME NEW q \in Recorders \ {r}
        PROVE  wire'[q] = wire[q]
    <3>1. [wire EXCEPT ![r] = wire'[r]][q] = wire[q]
      BY <2>1
    <3> QED BY <3>1
  <2> QED BY <2>2
<1> QED BY <1>3, <1>4, OnlyServer

LEMMA AstrayHead ==
    ASSUME NetInv, NEW r \in Recorders, ~Orderly(r), ReadHead(r)
    PROVE  NetInv'
<1> DEFINE W == wire[r]
<1>1. Astray(r) /\ Shape /\ srv.up /\ srv.pc = "poll" /\ UNCHANGED <<snd, part, mixed>>
  BY DEF NetInv, Rec, ReadHead
<1>2. PICK S : W \in Seq(S)
  BY <1>1 DEF Astray
<1>3. \A q \in Recorders : AtOf(q) = "poll"
  BY <1>1 DEF AtOf
<1>4. W # << >> => Len(W) \in Nat /\ Len(W) > 0 /\ Head(W) = W[1] /\ Tail(W) \in Seq(S)
  BY <1>2
<1>5. Confused(W, "poll") \/ (snd[r].pc = "dead" /\ NoEnd(W))
  BY <1>1, <1>3 DEF Astray
<1>6. W # << >> => Head(W).m.type # "END"
  <2>1. ASSUME W # << >>, Confused(W, "poll")
        PROVE  W[1].m.type # "END"
    BY <2>1 DEF Confused
  <2>2. ASSUME W # << >>, NoEnd(W)
        PROVE  W[1].m.type # "END"
    BY <1>4, <2>2 DEF NoEnd
  <2> QED BY <1>4, <1>5, <2>1, <2>2
<1>7. CASE Fail
  BY <1>1, <1>7, FailKeeps
<1>8. ASSUME W # << >>, Head(W).is = "head", wire' = [wire EXCEPT ![r] = Tail(@)],
             srv' = [srv EXCEPT !.pc = "body", !.sock = r, !.head = Head(wire[r]).m], UNCHANGED <<files, cmds>>
      PROVE  NetInv'
  <2>1. /\ wire = [q \in Recorders |-> wire[q]] /\ files = [q \in Recorders |-> files[q]]
        /\ snd = [q \in Recorders |-> [pc |-> snd[q].pc, left |-> snd[q].left, rest |-> snd[q].rest]]
        /\ srv = [up |-> srv.up, pc |-> srv.pc, sock |-> srv.sock, head |-> srv.head, list |-> srv.list, epoll |-> srv.epoll]
    BY <1>1 DEF Shape
  <2>2. /\ srv' = [up |-> srv.up, pc |-> "body", sock |-> r, head |-> Head(W).m, list |-> srv.list, epoll |-> srv.epoll]
        /\ srv'.up = srv.up /\ srv'.pc = "body" /\ srv'.sock = r
    BY <1>8, <2>1
  <2>3. wire' = [q \in Recorders |-> wire'[q]] /\ wire'[r] = Tail(W) /\ wire' = [wire EXCEPT ![r] = wire'[r]]
    BY <1>8, <2>1
  <2>4. AtOf(r)' = "body" /\ \A q \in Recorders \ {r} : AtOf(q)' = AtOf(q) /\ AtOf(q) = "poll"
    BY <1>3, <2>2 DEF AtOf
  <2>5. Shape'
    <3>1. snd' = [q \in Recorders |-> [pc |-> snd'[q].pc, left |-> snd'[q].left, rest |-> snd'[q].rest]]
      BY <1>1, <2>1
    <3>2. srv' = [up |-> srv'.up, pc |-> srv'.pc, sock |-> srv'.sock, head |-> srv'.head, list |-> srv'.list, epoll |-> srv'.epoll]
      BY <2>2
    <3> QED BY <1>1, <1>8, <2>2, <2>3, <3>1, <3>2 DEF Shape
  <2>6. Confused(Tail(W), "body") \/ (snd[r].pc = "dead" /\ NoEnd(Tail(W)))
    <3>1. CASE Confused(W, "poll")
      BY <1>2, <1>4, <1>8, <3>1, LessConfused
    <3>2. CASE snd[r].pc = "dead" /\ NoEnd(W)
      <4>1. Len(Tail(W)) = Len(W) - 1 /\ \A i \in 1 .. Len(W) - 1 : Tail(W)[i] = W[i + 1] /\ i + 1 \in 1 .. Len(W)
        BY <1>2, <1>8
      <4> QED BY <3>2, <4>1 DEF NoEnd
    <3> QED BY <1>5, <3>1, <3>2
  <2>7. wire'[r] \in Seq(S) /\ (Confused(wire'[r], AtOf(r)') \/ (snd[r].pc = "dead" /\ NoEnd(wire'[r])))
    BY <1>4, <1>8, <2>3, <2>4, <2>6
  <2>8. UNCHANGED <<snd, part, cmds, mixed>> /\ srv'.up = srv.up /\ \A q \in Recorders \ {r} : files'[q] = files[q]
    BY <1>1, <1>8, <2>2
  <2>9. \A q \in Recorders \ {r} : AtOf(q)' = AtOf(q) /\ (AtOf(q) = "body" => srv'.head = srv.head)
    BY <2>4
  <2> QED BY <2>3, <2>5, <2>7, <2>8, <2>9, StaysAstray
<1> QED BY <1>6, <1>7, <1>8 DEF ReadHead

LEMMA AstrayBody ==
    ASSUME NetInv, ReadBody, ~Orderly(srv.sock)
    PROVE  NetInv'
<1>r. PICK r \in Recorders : r = srv.sock
  BY DEF NetInv, Shape, ReadBody
<1> DEFINE W == wire[r]
<1>1. Astray(r) /\ Shape /\ srv.up /\ srv.pc = "body" /\ UNCHANGED <<snd, part, mixed>> /\ ~Orderly(r)
  BY <1>r DEF NetInv, Rec, ReadBody
<1>2. PICK S : W \in Seq(S)
  BY <1>1 DEF Astray
<1>3. AtOf(r) = "body" /\ \A q \in Recorders \ {r} : AtOf(q) = "poll"
  BY <1>r, <1>1 DEF AtOf
<1>4. W # << >> => Len(W) \in Nat /\ Len(W) > 0 /\ Head(W) = W[1] /\ Tail(W) \in Seq(S)
  BY <1>2
<1>5. Confused(W, "body") \/ (snd[r].pc = "dead" /\ NoEnd(W))
  BY <1>1, <1>3 DEF Astray
<1>6. CASE Fail
  BY <1>1, <1>6, FailKeeps
<1>7. /\ wire = [q \in Recorders |-> wire[q]] /\ files = [q \in Recorders |-> files[q]]
      /\ snd = [q \in Recorders |-> [pc |-> snd[q].pc, left |-> snd[q].left, rest |-> snd[q].rest]]
      /\ srv = [up |-> srv.up, pc |-> srv.pc, sock |-> srv.sock, head |-> srv.head, list |-> srv.list, epoll |-> srv.epoll]
  BY <1>1 DEF Shape
<1>8. ASSUME NEW R, NEW V \in Seq(R), wire' = [wire EXCEPT ![r] = V], NEW list, srv' = [srv EXCEPT !.pc = "poll", !.list = list],
             NEW G, files' = [files EXCEPT ![r] = G], UNCHANGED cmds,
             Confused(V, "poll") \/ (snd[r].pc = "dead" /\ NoEnd(V))
      PROVE  NetInv'
  <2>1. /\ srv' = [up |-> srv.up, pc |-> "poll", sock |-> srv.sock, head |-> srv.head, list |-> list, epoll |-> srv.epoll]
        /\ srv'.up = srv.up /\ srv'.pc = "poll"
    BY <1>7, <1>8
  <2>2. /\ wire' = [q \in Recorders |-> wire'[q]] /\ wire'[r] = V /\ wire' = [wire EXCEPT ![r] = wire'[r]]
        /\ files' = [q \in Recorders |-> files'[q]] /\ \A q \in Recorders \ {r} : files'[q] = files[q]
    BY <1>7, <1>8
  <2>3. \A q \in Recorders : AtOf(q)' = "poll"
    BY <2>1 DEF AtOf
  <2>4. Shape'
    <3>1. snd' = [q \in Recorders |-> [pc |-> snd'[q].pc, left |-> snd'[q].left, rest |-> snd'[q].rest]]
      BY <1>1, <1>7
    <3>2. srv' = [up |-> srv'.up, pc |-> srv'.pc, sock |-> srv'.sock, head |-> srv'.head, list |-> srv'.list, epoll |-> srv'.epoll]
      BY <2>1
    <3> QED BY <1>1, <1>8, <2>1, <2>2, <3>1, <3>2 DEF Shape
  <2>5. wire'[r] \in Seq(R) /\ (Confused(wire'[r], AtOf(r)') \/ (snd[r].pc = "dead" /\ NoEnd(wire'[r])))
    BY <1>8, <2>2, <2>3
  <2>6. UNCHANGED <<snd, part, cmds, mixed>> /\ srv'.up = srv.up
    BY <1>1, <1>8, <2>1
  <2>7. \A q \in Recorders \ {r} : AtOf(q)' = AtOf(q) /\ (AtOf(q) = "body" => srv'.head = srv.head)
    BY <1>3, <2>3
  <2> QED BY <1>1, <2>2, <2>4, <2>5, <2>6, <2>7, StaysAstray
<1>9. CASE /\ W # << >> /\ Head(W).is = "body" /\ wire' = [wire EXCEPT ![r] = Tail(@)] /\ UNCHANGED cmds
           /\ srv' = [srv EXCEPT !.pc = "poll", !.list = IF srv.head.type = "DIR_NAME" THEN @ \cup {r} ELSE @]
           /\ files' = IF srv.head.type = "DIR_NAME" THEN files ELSE [files EXCEPT ![r] = Saved(@, Head(W).m)]
  <2> DEFINE list == IF srv.head.type = "DIR_NAME" THEN srv.list \cup {r} ELSE srv.list
             G == IF srv.head.type = "DIR_NAME" THEN files[r] ELSE Saved(files[r], Head(W).m)
  <2>1. srv' = [srv EXCEPT !.pc = "poll", !.list = list] /\ files' = [files EXCEPT ![r] = G] /\ wire' = [wire EXCEPT ![r] = Tail(W)]
    BY <1>7, <1>9
  <2>2. Confused(Tail(W), "poll") \/ (snd[r].pc = "dead" /\ NoEnd(Tail(W)))
    <3>1. CASE Confused(W, "body")
      BY <1>2, <1>4, <1>9, <3>1, LessConfused
    <3>2. CASE snd[r].pc = "dead" /\ NoEnd(W)
      <4>1. Len(Tail(W)) = Len(W) - 1 /\ \A i \in 1 .. Len(W) - 1 : Tail(W)[i] = W[i + 1] /\ i + 1 \in 1 .. Len(W)
        BY <1>2, <1>9
      <4> QED BY <3>2, <4>1 DEF NoEnd
    <3> QED BY <1>5, <3>1, <3>2
  <2>3. Tail(W) \in Seq(S)
    BY <1>4, <1>9
  <2> HIDE DEF list, G
  <2> QED BY <1>8, <1>9, <2>1, <2>2, <2>3
<1>10. CASE /\ Len(W) > 1 /\ wire' = [wire EXCEPT ![r] = <<Piece("body", NoMsg)>> \o Tail(Tail(@))] /\ UNCHANGED cmds
            /\ srv' = [srv EXCEPT !.pc = "poll"] /\ files' = [files EXCEPT ![r] = Saved(@, NoMsg)]
  <2> DEFINE V == <<Piece("body", NoMsg)>> \o Tail(Tail(W))
  <2>1. Tail(Tail(W)) \in Seq(S)
    <3>1. \A X \in Seq(S) : Len(X) > 0 => Tail(X) \in Seq(S) /\ Len(Tail(X)) = Len(X) - 1 /\ Len(X) \in Nat
      OBVIOUS
    <3>2. Tail(W) \in Seq(S) /\ Len(Tail(W)) > 0
      BY <1>2, <1>10, <3>1
    <3> QED BY <3>1, <3>2
  <2>2. V \in Seq(S \cup {Piece("body", NoMsg)}) /\ Len(V) > 0 /\ V[1] = Piece("body", NoMsg) /\ Len(V) \in Nat
    <3>1. \A X \in Seq(S) : \A x : <<x>> \o X \in Seq(S \cup {x}) /\ Len(<<x>> \o X) > 0 /\ (<<x>> \o X)[1] = x /\ Len(<<x>> \o X) \in Nat
      <4> SUFFICES ASSUME NEW X \in Seq(S), NEW x
                   PROVE  <<x>> \o X \in Seq(S \cup {x}) /\ Len(<<x>> \o X) > 0 /\ (<<x>> \o X)[1] = x /\ Len(<<x>> \o X) \in Nat
        OBVIOUS
      <4>1. X \in Seq(S \cup {x}) /\ <<x>> \in Seq(S \cup {x})
        BY SeqMonotonic
      <4> QED BY <4>1
    <3> QED BY <2>1, <3>1
  <2>3. Confused(V, "poll")
    <3>1. V[1].is = "body" /\ V[1].m.type = "NONE"
      BY <2>2 DEF Piece, Msg, NoMsg
    <3>2. 1 \in 1 .. Len(V) /\ \A i \in 1 .. 1 : i = 1
      BY <2>2
    <3> HIDE DEF V
    <3> QED BY <3>1, <3>2 DEF Confused
  <2>4. srv' = [srv EXCEPT !.pc = "poll", !.list = srv.list]
    BY <1>7, <1>10
  <2>5. wire' = [wire EXCEPT ![r] = V] /\ files' = [files EXCEPT ![r] = Saved(files[r], NoMsg)]
    BY <1>7, <1>10
  <2> HIDE DEF V
  <2> QED BY <1>8, <1>10, <2>2, <2>3, <2>4, <2>5
<1> QED BY <1>r, <1>6, <1>9, <1>10 DEF ReadBody

\* The server learns that the connection of a recorder was reset.
LEMMA HangUpKeeps ==
    ASSUME NetInv, NEW r \in Recorders, HangUp(r)
    PROVE  NetInv'
<1>1. /\ Shape /\ ~Orderly(r) /\ srv.pc = "poll" /\ snd[r].pc = "dead" /\ UNCHANGED <<snd, part, files, cmds, mixed>>
      /\ srv' = [srv EXCEPT !.list = @ \ {r}, !.epoll = @ \ {r}] /\ wire' = [wire EXCEPT ![r] = << >>]
  BY DEF NetInv, HangUp, Orderly
<1>2. /\ wire = [q \in Recorders |-> wire[q]]
      /\ snd = [q \in Recorders |-> [pc |-> snd[q].pc, left |-> snd[q].left, rest |-> snd[q].rest]]
      /\ srv = [up |-> srv.up, pc |-> srv.pc, sock |-> srv.sock, head |-> srv.head, list |-> srv.list, epoll |-> srv.epoll]
  BY <1>1 DEF Shape
<1>3. /\ srv' = [up |-> srv.up, pc |-> srv.pc, sock |-> srv.sock, head |-> srv.head, list |-> srv.list \ {r}, epoll |-> srv.epoll \ {r}]
      /\ srv'.up = srv.up /\ srv'.pc = "poll" /\ srv'.sock = srv.sock
  BY <1>1, <1>2
<1>4. wire' = [q \in Recorders |-> wire'[q]] /\ wire'[r] = << >> /\ wire' = [wire EXCEPT ![r] = wire'[r]]
  BY <1>1, <1>2
<1>5. \A q \in Recorders : AtOf(q)' = "poll" /\ AtOf(q) = "poll"
  BY <1>1, <1>3 DEF AtOf
<1>6. Shape'
  <2>1. snd' = [q \in Recorders |-> [pc |-> snd'[q].pc, left |-> snd'[q].left, rest |-> snd'[q].rest]]
    BY <1>1, <1>2
  <2>2. srv' = [up |-> srv'.up, pc |-> srv'.pc, sock |-> srv'.sock, head |-> srv'.head, list |-> srv'.list, epoll |-> srv'.epoll]
    BY <1>3
  <2> QED BY <1>1, <1>3, <1>4, <2>1, <2>2 DEF Shape
<1>7. << >> \in Seq({}) /\ NoEnd(<< >>)
  BY DEF NoEnd
<1>8. wire'[r] \in Seq({}) /\ NoEnd(wire'[r])
  BY <1>4, <1>7
<1>9. \A q \in Recorders \ {r} : AtOf(q)' = AtOf(q) /\ (AtOf(q) = "body" => srv'.head = srv.head)
  BY <1>5
<1>10. UNCHANGED <<snd, part, cmds, mixed>> /\ srv'.up = srv.up /\ \A q \in Recorders \ {r} : files'[q] = files[q]
  BY <1>1, <1>3
<1> QED BY <1>1, <1>4, <1>6, <1>8, <1>9, <1>10, StaysAstray

-----------------------------------------------------------------------------
(* The theorem *)

\* The invariant holds at the start.
LEMMA NetInit == Init => NetInv
<1> SUFFICES ASSUME Init
             PROVE  NetInv
  OBVIOUS
<1>1. srv = [up |-> TRUE, pc |-> "poll", sock |-> Main, head |-> NoMsg, list |-> {}, epoll |-> {}] /\ cmds = {}
  BY DEF Init
<1>2. \A r \in Recorders : AtOf(r) = "poll"
  BY <1>1 DEF AtOf
<1>3. Shape
  <2>1. snd = [r \in Recorders |-> [pc |-> snd[r].pc, left |-> snd[r].left, rest |-> snd[r].rest]]
    BY DEF Init
  <2>2. /\ part = [r \in Recorders |-> part[r]] /\ wire = [r \in Recorders |-> wire[r]] /\ files = [r \in Recorders |-> files[r]]
    BY DEF Init
  <2>3. srv = [up |-> srv.up, pc |-> srv.pc, sock |-> srv.sock, head |-> srv.head, list |-> srv.list, epoll |-> srv.epoll]
    BY <1>1
  <2>4. srv.up \in BOOLEAN /\ srv.pc = "poll"
    BY <1>1
  <2> QED BY <1>1, <2>1, <2>2, <2>3, <2>4 DEF Shape
<1>4. ServerUp
  BY <1>1 DEF ServerUp
<1>5. ASSUME NEW r \in Recorders
      PROVE  RecInv(r)
  <2>1. /\ snd[r] = [pc |-> "start", left |-> [w \in WritersOf(r) |-> MaxData(r)], rest |-> Meta]
        /\ part[r] = [w \in ThreadsOf(r) |-> NoMsg] /\ wire[r] = << >> /\ files[r] = << >>
    BY DEF Init, ThreadsOf
  <2>2. snd[r].pc = "start" /\ snd[r].left = [w \in WritersOf(r) |-> MaxData(r)] /\ snd[r].rest = Meta
    BY <2>1
  <2>3. Types(r)
    BY <1>2, <2>1, <2>2 DEF Types
  <2>4. Len(<< >>) = 0 /\ (\A i \in 1 .. 0 : FALSE) /\ \A i \in 1 .. 0 - 1 : FALSE
    OBVIOUS
  <2>5. Stream(r)
    <3>1. InMiddle(r, NoMsg)
      BY <2>1 DEF InMiddle
    <3>2. Framed(wire[r], AtOf(r), srv.head, NoMsg)
      BY <1>2, <2>1, <2>4 DEF Framed
    <3>3. InOrder(wire[r], files[r], AtOf(r), srv.head)
      BY <1>2, <2>1, <2>4 DEF InOrder
    <3> QED BY <3>1, <3>2, <3>3 DEF Stream
  <2>6. Phases(r)
    <3>1. Len(Meta) \in Nat
      OBVIOUS
    <3> QED BY <1>2, <2>1, <2>2, <3>1 DEF Phases, NoneInMiddle
  <2>7. NothingLost(r)
    <3>1. \A x : ~Carried(r, x)
      BY <1>2, <2>1, <2>4 DEF Carried, CarriedBy
    <3>2. \A i \in 1 .. Len(Meta) : ~(i <= Len(Meta) - Len(snd[r].rest))
      <4>1. Len(Meta) \in Nat
        OBVIOUS
      <4> QED BY <2>2, <4>1
    <3>3. \A w \in WritersOf(r), d \in 1 .. MaxData(r) : ~(d > snd[r].left[w])
      BY <2>2
    <3> QED BY <1>1, <3>1, <3>2, <3>3 DEF NothingLost
  <2> QED BY <2>3, <2>5, <2>6, <2>7 DEF RecInv
<1>6. \A r \in Recorders : Orderly(r)
  BY <1>1, <1>5 DEF Orderly, RecInv, Types, Init
<1> QED BY <1>3, <1>4, <1>5, <1>6 DEF NetInv, Rec

\* Every step keeps it.
LEMMA NetStep == NetInv /\ [Next]_vars => NetInv'
<1> SUFFICES ASSUME NetInv, [Next]_vars
             PROVE  NetInv'
  OBVIOUS
<1>1. ASSUME NEW r \in Recorders, Accept(r) \/ HangUp(r)
      PROVE  NetInv'
  BY <1>1, AcceptKeeps, HangUpKeeps
<1>2. ASSUME NEW r \in Recorders, ReadHead(r)
      PROVE  NetInv'
  BY <1>2, ReadHeadKeeps, AstrayHead
<1>3. CASE ReadBody
  BY <1>3, ReadBodyKeeps, AstrayBody
<1>4. ASSUME NEW r \in Recorders, RecorderStep(r) \/ RecorderDies(r), ~Orderly(r)
      PROVE  NetInv'
  BY <1>4, AstrayRecorder
<1>5. ASSUME NEW r \in Recorders, RecorderStep(r) \/ RecorderDies(r), Orderly(r)
      PROVE  NetInv'
  <2>1. CASE Connect(r)
    BY <1>5, <2>1, ConnectKeeps
  <2>2. CASE Join(r)
    BY <1>5, <2>2, JoinKeeps
  <2>3. CASE SendMeta(r)
    BY <1>5, <2>3, SendMetaKeeps
  <2>4. CASE SendFails(r) \/ RecorderDies(r)
    BY <1>5, <2>4, DiesKeeps
  <2>5. ASSUME NEW w \in WritersOf(r), SendData(r, w)
        PROVE  NetInv'
    <3>1. CASE \A v \in WritersOf(r) : part[r][v] = NoMsg
      BY <1>5, <2>5, <3>1, SendDataKeeps
    <3>2. CASE \E v \in WritersOf(r) : part[r][v] # NoMsg
      BY <1>5, <2>5, <3>2, SendDataMixes
    <3> QED BY <3>1, <3>2
  <2>6. ASSUME NEW w \in WritersOf(r) \cup {Main}, PutRest(r, w)
        PROVE  NetInv'
    BY <1>5, <2>6, PutRestKeeps DEF ThreadsOf
  <2> QED BY <1>5, <2>1, <2>2, <2>3, <2>4, <2>5, <2>6 DEF RecorderStep
<1>6. CASE UNCHANGED vars
  BY <1>6, OnlyEpoll DEF vars, NetInv, Shape
<1> QED BY <1>1, <1>2, <1>3, <1>4, <1>5, <1>6 DEF Next, ServerStep

\* What is saved of a recorder that has sent all is all of it, in order.
LEMMA InvKeepsData == NetInv => ServerKeepsData
<1> SUFFICES ASSUME NetInv
             PROVE  ServerKeepsData
  OBVIOUS
<1>1. ASSUME NEW r \in Recorders, Orderly(r)
      PROVE  files[r] \in Seq(Saves(r)) /\ Len(files[r]) \in Nat /\ DOMAIN files[r] = 1 .. Len(files[r])
  BY <1>1, LenProperties DEF NetInv, Rec, RecInv, Types
<1>2. ASSUME NEW r \in cmds
      PROVE  /\ ToSet(files[r]) = DataOf(r) \cup MetaFiles /\ IsInjective(files[r])
             /\ \A i, j \in DOMAIN files[r] : WrittenBefore(files[r][i], files[r][j]) => i < j
  <2>1. r \in Recorders /\ Orderly(r) /\ Types(r) /\ Stream(r) /\ NothingLost(r)
    BY <1>2 DEF NetInv, Shape, Rec, RecInv, Astray
  <2>2. wire[r] = << >> /\ AtOf(r) = "poll" /\ AllSent(r)
    BY <1>2, <2>1 DEF NothingLost
  <2>3. \A x : Carried(r, x) <=> \E i \in 1 .. Len(files[r]) : files[r][i] = x
    <3>1. Len(<< >>) = 0 /\ \A i \in 1 .. 0 : FALSE
      OBVIOUS
    <3> QED BY <2>2, <3>1 DEF Carried, CarriedBy
  <2>4. \A x : x \in ToSet(files[r]) <=> Carried(r, x)
    BY <1>1, <2>1, <2>3 DEF ToSet
  <2>5. \A x \in ToSet(files[r]) : x \in DataOf(r) \cup MetaFiles
    <3>1. \A i \in DOMAIN files[r] : files[r][i] \in Saves(r)
      BY <1>1, <2>1
    <3> QED BY <3>1 DEF ToSet, Saves
  <2>6. \A x \in DataOf(r) : Carried(r, x)
    BY <2>1, <2>2 DEF DataOf, NothingLost, AllSent
  <2>7. \A x \in MetaFiles : Carried(r, x)
    <3>1. DOMAIN Meta = 1 .. Len(Meta) /\ Len(Meta) \in Nat /\ Len(snd[r].rest) = 0
      BY <2>2, LenProperties DEF AllSent
    <3>2. \A i \in 1 .. Len(Meta) : Carried(r, Msg("META", Meta[i], 1))
      BY <2>1, <3>1 DEF NothingLost
    <3> QED BY <3>1, <3>2 DEF MetaFiles
  <2>8. ToSet(files[r]) = DataOf(r) \cup MetaFiles
    BY <2>4, <2>5, <2>6, <2>7
  <2>9. \A i, j \in 1 .. Len(files[r]) : i < j => files[r][i] # files[r][j] /\ ~SentAfter(files[r][j], files[r][i])
    BY <2>1 DEF Stream, InOrder, MayPrecede
  <2>10. IsInjective(files[r])
    <3> SUFFICES ASSUME NEW i \in 1 .. Len(files[r]), NEW j \in 1 .. Len(files[r]), files[r][i] = files[r][j]
                 PROVE  i = j
      BY <1>1, <2>1 DEF IsInjective
    <3> QED BY <1>1, <2>1, <2>9
  <2>11. \A x : ~WrittenBefore(x, x) \/ x \notin Saves(r)
    <3>1. \A x \in DataOf(r) : ~WrittenBefore(x, x)
      BY DEF DataOf, WrittenBefore, Msg
    <3>2. \A x \in MetaFiles : ~WrittenBefore(x, x)
      <4>1. \A i, j \in DOMAIN Meta : Meta[i] = Meta[j] => i = j
        BY DEF IsInjective
      <4>2. \A i, j \in DOMAIN Meta : i < j => i # j
        BY LenProperties
      <4> QED BY <4>1, <4>2 DEF MetaFiles, WrittenBefore, Msg
    <3> QED BY <3>1, <3>2 DEF Saves
  <2>12. ASSUME NEW i \in 1 .. Len(files[r]), NEW j \in 1 .. Len(files[r]), WrittenBefore(files[r][i], files[r][j])
         PROVE  i < j
    <3>1. i # j
      BY <1>1, <2>1, <2>11, <2>12
    <3>2. ~(j < i)
      BY <2>9, <2>12 DEF SentAfter
    <3> QED BY <3>1, <3>2
  <2> QED BY <1>1, <2>1, <2>8, <2>10, <2>12
<1>3. ASSUME NEW r \in Recorders, Orderly(r)
      PROVE  NoMsg \notin ToSet(files[r])
  <2>1. \A i \in DOMAIN files[r] : files[r][i] \in MsgsOf(r)
    BY <1>1, <1>3 DEF MsgsOf
  <2>2. NoMsg \notin MsgsOf(r)
    BY NoMsgNone
  <2> QED BY <2>1, <2>2 DEF ToSet
<1> QED BY <1>2, <1>3 DEF NetInv, ServerUp, ServerKeepsData, WholeData, ServerStays

\* For any recorders with any number of writers that share a socket without a lock, where any message may
\* be stopped in between and another one put into it: what the server has when it runs the command for a
\* recorder is all of that recorder's data, of every task in the order it was written, and every file, nothing
\* twice.  Only a recorder that dies or mixes its messages up takes the server down, and only of such a
\* recorder is anything saved that is not a message of it (handle_client_sock(), recv_trace_end()).
THEOREM DataKept == Spec => []ServerKeepsData
<1>1. Init => NetInv
  BY NetInit
<1>2. NetInv /\ [Next]_vars => NetInv'
  BY NetStep
<1>3. NetInv => ServerKeepsData
  BY InvKeepsData
<1> QED BY <1>1, <1>2, <1>3, PTL DEF Spec

=============================================================================
