----------------------------- MODULE Agent_proofs ------------------------------
(***************************************************************************)
(* Proofs about Agent, for any clients, threads, lists of options and      *)
(* calls of dlopen(): TreesReplaced holds in every reachable state, and    *)
(* the program ends after its agent.                                       *)
(***************************************************************************)
EXTENDS Agent, SequenceTheorems, TLAPS

Messages == Options \cup {"QUERY", "CLOSE"}

AgentPcs == {"init", "loop", "accept", "read", "swap", "gone"}
ProcPcs == {"run", "kill", "send", "wait", "finish", "ended", "killed"}

SwapRecords == [pc : {"none", "new", "cas", "grace"}, new : Nat, old : Nat, wait : SUBSET Threads]

\* The variables that say who has which tree keep their types.
AgentTypes ==
    /\ agent \in [pc : AgentPcs, c : Peers]
    /\ tree \in Seq(SUBSET (Clients \X TreeOptions))
    /\ cur \in 1 .. Len(tree) /\ freed \subseteq 1 .. Len(tree)
    /\ reader \in [Threads -> 0 .. Len(tree)]
    /\ swap \in [Swappers -> SwapRecords] /\ raced \in BOOLEAN
    /\ proc \in [pc : ProcPcs, up : BOOLEAN]

\* The agent has a copy only in a connection of a client, and swaps it only when that is over.
ServerPhase ==
    /\ agent.pc \notin {"read", "swap"} \/ agent.c = Killer => Mine.pc = "none"
    /\ agent.pc = "read" => Mine.pc \in {"none", "new"}

Busy(x) == swap[x].pc # "none"

\* The tree that only the swapper knows: its own, or the one that it took out of use
Own(x) == IF swap[x].pc = "grace" THEN swap[x].old ELSE swap[x].new

OwnIsTree == \A x \in Swappers : Busy(x) => Own(x) \in 1 .. Len(tree) /\ swap[x].new \in 1 .. Len(tree)

\* Every tree that is not freed has one owner: mcount_triggers or a swapper.
TreesOwned ==
    Alive /\ ~raced =>
        /\ \A x \in Swappers : Busy(x) => Own(x) # cur /\ Own(x) \notin freed
        /\ \A x, y \in Swappers : Busy(x) /\ Busy(y) /\ x # y => Own(x) # Own(y)
        /\ cur \notin freed
        /\ \A i \in 1 .. Len(tree) : i \in freed \/ i = cur \/ \E x \in Swappers : Busy(x) /\ Own(x) = i

\* A tree out of use that a swapper will not free before the thread has finished with it
WaitsFor(t) == \E x \in Swappers : swap[x].pc = "grace" /\ reader[t] = swap[x].old /\ t \in swap[x].wait

\* A thread looks into the tree that is in use, or into one that waits for it to finish, and
\* never into the copy of the agent.
ReadersWaitedFor ==
    ~raced =>
        /\ Alive => \A t \in Threads : reader[t] \in {0, cur} \/ WaitsFor(t)
        /\ \A t \in Threads : reader[t] \notin freed /\ (Mine.pc = "new" => reader[t] # Mine.new)

\* The messages of a client that the agent has not answered
Unserved(c) == IF conn[c].resp = << >> THEN client[c].todo ELSE Tail(client[c].todo)

ClientRecords == [pc : {"start", "send", "recv", "done", "dead"}, todo : Seq(Messages),
                  sent : SUBSET Options, acked : SUBSET Messages, ok : BOOLEAN]
ConnRecords == [req : Seq(Messages), resp : {<< >>, <<"OK">>, <<"ERR">>}]

\* The variables that the clients and their sockets use keep their types.
ClientTypes ==
    /\ client \in [Clients -> ClientRecords]
    /\ conn \in [Peers -> ConnRecords]
    /\ sock \in [listen : BOOLEAN, file : BOOLEAN, queue : Seq(Peers)]

\* A client sends different messages one by one, CLOSE as the last.
OneByOne(c) ==
    /\ IsInjective(client[c].todo) /\ client[c].acked \cap ToSet(client[c].todo) = {}
    /\ client[c].todo # << >> => client[c].todo[Len(client[c].todo)] = "CLOSE"
    /\ conn[c].resp # << >> => client[c].todo # << >> /\ conn[c].req = << >>
    /\ conn[c].req # << >> => client[c].todo # << >> /\ conn[c].req = <<Head(client[c].todo)>>
    /\ client[c].pc \in {"start", "send"} => client[c].todo # << >> /\ conn[c].req = << >> /\ conn[c].resp = << >>
    /\ client[c].pc = "recv" => client[c].todo # << >>

ClientShape == ClientTypes /\ (\A c \in Clients : OneByOne(c)) /\ conn[Killer].req \in {<< >>, <<"CLOSE">>}

\* No tree has options of the client.
Absent(c) == \A i \in 1 .. Len(tree), o \in TreeOptions : <<c, o>> \notin tree[i]

\* The agent has not had a message of the client yet.
Unheard(c) == Absent(c) /\ conn[c].resp = << >> /\ client[c].sent \subseteq ToSet(client[c].todo)

QueuedOnce == \A i, j \in DOMAIN sock.queue : sock.queue[i] = sock.queue[j] /\ sock.queue[i] # Killer => i = j

\* A client waits in the queue before the agent has heard of it.
Waiting(c) ==
    /\ client[c].pc = "start" => c \notin ToSet(sock.queue) /\ agent.c # c
    /\ client[c].pc = "start" \/ c \in ToSet(sock.queue) => Unheard(c)
    /\ c \in ToSet(sock.queue) => agent.c # c

Queued == QueuedOnce /\ \A c \in Clients : Waiting(c)

\* The copy has what the agent was sent so far in this connection.
CopyInProgress ==
    agent.c \in Clients /\ agent.pc = "read" =>
        /\ Mine.pc = "none" => Absent(agent.c) /\ client[agent.c].sent \cap TreeOptions \subseteq ToSet(Unserved(agent.c))
        /\ Mine.pc = "new" =>
             \A o \in client[agent.c].sent \cap TreeOptions :
                 (<<agent.c, o>> \in tree[Mine.new]) <=> (o \notin ToSet(Unserved(agent.c)))

\* The copy while options come in
Unfinished(i, c) == agent.pc = "read" /\ Mine.pc = "new" /\ i = Mine.new /\ c = agent.c

\* All other trees have all or none of the options of a client.
TreesWhole == \A i \in 1 .. Len(tree), c \in Clients : Unfinished(i, c) \/ Together(tree[i], c)

\* Who owns which tree
OwnInv == AgentTypes /\ ServerPhase /\ OwnIsTree /\ TreesOwned /\ ReadersWaitedFor

\* What is in the trees
ContentInv == ClientShape /\ Queued /\ CopyInProgress /\ TreesWhole

AgentInv == OwnInv /\ ContentInv

USE AgentAssumption DEF Killer, Peers, AgentPcs

-----------------------------------------------------------------------------
(* Who owns which tree *)

\* Steps that make no tree and touch no swap
LEMMA SameTrees ==
    ASSUME OwnInv, UNCHANGED <<freed, cur, reader, swap, raced>>, tree' \in Seq(SUBSET (Clients \X TreeOptions)), Len(tree') = Len(tree),
           agent' \in [pc : AgentPcs, c : Peers], proc' \in [pc : ProcPcs, up : BOOLEAN],
           ServerPhase', Alive' => Alive
    PROVE  OwnInv'
<1>1. AgentTypes' /\ OwnIsTree'
  BY DEF OwnInv, AgentTypes, OwnIsTree, Busy, Own
<1>2. TreesOwned'
  BY DEF OwnInv, TreesOwned, Busy, Own
<1>3. ReadersWaitedFor'
  BY DEF OwnInv, ReadersWaitedFor, WaitsFor, Mine
<1> QED BY <1>1, <1>2, <1>3 DEF OwnInv

\* uftrace_match_filter() takes the tree in use.
LEMMA LookupOwns ==
    ASSUME OwnInv, NEW t \in Threads, Lookup(t)
    PROVE  OwnInv'
<1>1. /\ Alive /\ reader' = [reader EXCEPT ![t] = cur]
      /\ UNCHANGED <<agent, tree, freed, cur, swap, raced, proc>>
  BY DEF Lookup
<1>2. AgentTypes' /\ OwnIsTree' /\ ServerPhase'
  BY <1>1 DEF OwnInv, AgentTypes, OwnIsTree, Busy, Own, ServerPhase, Mine
<1>3. TreesOwned'
  BY <1>1 DEF OwnInv, TreesOwned, Busy, Own, Alive
<1>4. ReadersWaitedFor'
  <2> SUFFICES ASSUME ~raced, NEW u \in Threads
               PROVE  (reader'[u] \in {0, cur} \/ WaitsFor(u)') /\ reader'[u] \notin freed /\ (Mine.pc = "new" => reader'[u] # Mine.new)
    BY <1>1 DEF ReadersWaitedFor, Mine, Alive
  <2>1. CASE u = t
    <3>1. reader'[u] = cur /\ cur \notin freed
      BY <1>1, <2>1 DEF OwnInv, AgentTypes, TreesOwned
    <3>2. Mine.pc = "new" => cur # Mine.new
      BY <1>1 DEF OwnInv, TreesOwned, Mine, Busy, Own, Swappers
    <3> QED BY <3>1, <3>2
  <2>2. CASE u # t
    <3>1. reader'[u] = reader[u]
      BY <1>1, <2>2 DEF OwnInv, AgentTypes
    <3> QED BY <1>1, <3>1 DEF OwnInv, ReadersWaitedFor, WaitsFor
  <2> QED BY <2>1, <2>2
<1> QED BY <1>2, <1>3, <1>4 DEF OwnInv

\* A lookup ends, and nobody waits for it any longer.
LEMMA LookupDoneOwns ==
    ASSUME OwnInv, NEW t \in Threads, LookupDone(t)
    PROVE  OwnInv'
<1>1. /\ Alive /\ reader' = [reader EXCEPT ![t] = 0]
      /\ swap' = [x \in Swappers |-> [swap[x] EXCEPT !.wait = @ \ {t}]]
      /\ UNCHANGED <<agent, tree, freed, cur, raced, proc>>
  BY DEF LookupDone
<1>2. ASSUME NEW x \in Swappers
      PROVE  /\ swap'[x] \in SwapRecords /\ swap'[x].pc = swap[x].pc /\ swap'[x].new = swap[x].new
             /\ swap'[x].old = swap[x].old /\ swap'[x].wait = swap[x].wait \ {t}
  BY <1>1 DEF OwnInv, AgentTypes, SwapRecords
<1>3. Server \in Swappers
  BY DEF Swappers
<1>4. AgentTypes'
  <2>1. reader' \in [Threads -> 0 .. Len(tree)]
    BY <1>1 DEF OwnInv, AgentTypes
  <2>2. swap' \in [Swappers -> SwapRecords]
    BY <1>1, <1>2
  <2> QED BY <1>1, <2>1, <2>2 DEF OwnInv, AgentTypes
<1>5. OwnIsTree' /\ ServerPhase'
  BY <1>1, <1>2, <1>3 DEF OwnInv, OwnIsTree, Busy, Own, ServerPhase, Mine
<1>6. TreesOwned'
  <2>1. \A x \in Swappers : Busy(x)' = Busy(x) /\ Own(x)' = Own(x)
    BY <1>2 DEF Busy, Own
  <2> QED BY <1>1, <2>1 DEF OwnInv, TreesOwned, Alive
<1>7. ReadersWaitedFor'
  <2> SUFFICES ASSUME ~raced, NEW u \in Threads
               PROVE  (reader'[u] \in {0, cur} \/ WaitsFor(u)') /\ reader'[u] \notin freed /\ (Mine.pc = "new" => reader'[u] # Mine.new)
    BY <1>1, <1>2, <1>3 DEF ReadersWaitedFor, Mine, Alive
  <2>1. CASE u = t
    <3>1. reader'[u] = 0 /\ 0 \notin freed
      BY <1>1, <2>1 DEF OwnInv, AgentTypes
    <3>2. Mine.pc = "new" => Mine.new # 0
      BY <1>3 DEF OwnInv, OwnIsTree, Mine, Busy
    <3> QED BY <3>1, <3>2
  <2>2. CASE u # t
    <3>1. reader'[u] = reader[u]
      BY <1>1, <2>2 DEF OwnInv, AgentTypes
    <3>2. WaitsFor(u) => WaitsFor(u)'
      BY <1>2, <2>2, <3>1 DEF WaitsFor
    <3> QED BY <1>1, <3>1, <3>2 DEF OwnInv, ReadersWaitedFor
  <2> QED BY <2>1, <2>2
<1> QED BY <1>4, <1>5, <1>6, <1>7 DEF OwnInv

\* swap_triggers() reads the pointer.
LEMMA SwapReadOwns ==
    ASSUME OwnInv, NEW x \in Swappers, SwapRead(x)
    PROVE  OwnInv'
<1>1. /\ swap[x].pc = "new" /\ (x = Server => agent.pc = "swap")
      /\ UNCHANGED <<agent, tree, freed, cur, reader, raced, proc>> /\ cur \in Nat
  BY DEF SwapRead, Called, OwnInv, AgentTypes
<1>2. /\ swap' \in [Swappers -> SwapRecords] /\ \A y \in Swappers \ {x} : swap'[y] = swap[y]
      /\ swap'[x].pc = "cas" /\ swap'[x].new = swap[x].new
  <2> DEFINE new == [swap[x] EXCEPT !.pc = "cas", !.old = cur]
  <2>1. swap \in [Swappers -> SwapRecords] /\ swap' = [swap EXCEPT ![x] = new]
    BY DEF SwapRead, OwnInv, AgentTypes
  <2>2. new \in SwapRecords /\ new.pc = "cas" /\ new.new = swap[x].new
    BY <1>1, <2>1 DEF SwapRecords
  <2> HIDE DEF new
  <2> QED BY <2>1, <2>2
<1>3. Server \in Swappers
  BY DEF Swappers
<1>4. \A y \in Swappers : Busy(y)' = Busy(y) /\ Own(y)' = Own(y) /\ swap'[y].new = swap[y].new
  BY <1>1, <1>2 DEF Busy, Own
<1>5. AgentTypes'
  BY <1>1, <1>2 DEF OwnInv, AgentTypes
<1>6. OwnIsTree'
  BY <1>1, <1>4 DEF OwnInv, OwnIsTree
<1>7. ServerPhase'
  BY <1>1, <1>2, <1>3 DEF OwnInv, ServerPhase, Mine
<1>8. TreesOwned'
  BY <1>1, <1>4 DEF OwnInv, TreesOwned, Alive
<1>9. ReadersWaitedFor'
  <2>1. \A t \in Threads : WaitsFor(t) => WaitsFor(t)'
    BY <1>1, <1>2 DEF WaitsFor
  <2>2. Mine'.pc = "new" => Mine.pc = "new" /\ Mine'.new = Mine.new
    BY <1>2, <1>3 DEF Mine
  <2> QED BY <1>1, <2>1, <2>2 DEF OwnInv, ReadersWaitedFor, Alive
<1> QED BY <1>5, <1>6, <1>7, <1>8, <1>9 DEF OwnInv

\* It replaces the pointer, or finds another tree and then nothing is claimed any more.
LEMMA SwapCasOwns ==
    ASSUME OwnInv, NEW x \in Swappers, SwapCas(x)
    PROVE  OwnInv'
<1> DEFINE wait == Grace(cur)
<1>1. /\ Alive /\ swap[x].pc = "cas" /\ cur' = (IF cur = swap[x].old THEN swap[x].new ELSE cur)
      /\ raced' = (raced \/ cur # swap[x].old)
      /\ swap' = [swap EXCEPT ![x].pc = "grace", ![x].old = cur, ![x].wait = wait]
      /\ UNCHANGED <<agent, tree, freed, reader, proc>> /\ cur \in Nat /\ cur \in 1 .. Len(tree)
  BY DEF SwapCas, OwnInv, AgentTypes
<1>2. wait \in SUBSET Threads /\ \A t \in Threads : t \in wait <=> reader[t] = cur
  BY DEF Grace
<1> HIDE DEF wait
<1>3. /\ swap' \in [Swappers -> SwapRecords] /\ \A y \in Swappers \ {x} : swap'[y] = swap[y]
      /\ swap'[x].pc = "grace" /\ swap'[x].new = swap[x].new /\ swap'[x].old = cur /\ swap'[x].wait = wait
  <2> DEFINE new == [swap[x] EXCEPT !.pc = "grace", !.old = cur, !.wait = wait]
  <2>1. swap \in [Swappers -> SwapRecords] /\ swap' = [swap EXCEPT ![x] = new]
    BY <1>1 DEF OwnInv, AgentTypes
  <2>2. new \in SwapRecords /\ new.pc = "grace" /\ new.new = swap[x].new /\ new.old = cur /\ new.wait = wait
    BY <1>1, <1>2, <2>1 DEF SwapRecords
  <2> HIDE DEF new
  <2> QED BY <2>1, <2>2
<1>4. Server \in Swappers
  BY DEF Swappers
<1>5. /\ \A y \in Swappers : Busy(y)' = Busy(y) /\ swap'[y].new = swap[y].new
      /\ \A y \in Swappers \ {x} : Own(y)' = Own(y)
      /\ Own(x)' = cur /\ Own(x) = swap[x].new /\ Busy(x) /\ swap[x].new \in 1 .. Len(tree)
  BY <1>1, <1>3 DEF OwnInv, OwnIsTree, Busy, Own
<1>6. AgentTypes'
  BY <1>1, <1>3, <1>5 DEF OwnInv, AgentTypes
<1>7. OwnIsTree'
  BY <1>1, <1>5 DEF OwnInv, OwnIsTree
<1>8. ServerPhase'
  BY <1>1, <1>3, <1>4 DEF OwnInv, ServerPhase, Mine
<1>9. ASSUME ~raced' PROVE ~raced /\ cur' = Own(x)
  BY <1>1, <1>5, <1>9
<1>10. TreesOwned'
  <2> SUFFICES ASSUME ~raced'
               PROVE  TreesOwned'
    BY DEF TreesOwned
  <2>1. /\ \A y \in Swappers : Busy(y) => Own(y) # cur /\ Own(y) \notin freed
        /\ \A y, z \in Swappers : Busy(y) /\ Busy(z) /\ y # z => Own(y) # Own(z)
        /\ cur \notin freed
        /\ \A i \in 1 .. Len(tree) : i \in freed \/ i = cur \/ \E y \in Swappers : Busy(y) /\ Own(y) = i
    BY <1>1, <1>9 DEF OwnInv, TreesOwned
  <2>2. \A y \in Swappers : Busy(y)' => Own(y)' # cur' /\ Own(y)' \notin freed
    BY <1>5, <1>9, <2>1
  <2>3. \A y, z \in Swappers : Busy(y)' /\ Busy(z)' /\ y # z => Own(y)' # Own(z)'
    BY <1>5, <2>1
  <2>4. \A i \in 1 .. Len(tree) : i \in freed \/ i = cur' \/ \E y \in Swappers : Busy(y)' /\ Own(y)' = i
    <3> SUFFICES ASSUME NEW i \in 1 .. Len(tree), i \notin freed, i # cur'
                 PROVE  \E y \in Swappers : Busy(y)' /\ Own(y)' = i
      OBVIOUS
    <3>1. CASE i = cur
      BY <1>5, <3>1
    <3>2. CASE i # cur
      <4>1. PICK y \in Swappers : Busy(y) /\ Own(y) = i
        BY <2>1, <3>2
      <4> QED BY <1>5, <1>9, <4>1
    <3> QED BY <3>1, <3>2
  <2> QED BY <1>1, <1>5, <1>9, <2>1, <2>2, <2>3, <2>4 DEF TreesOwned
<1>11. ReadersWaitedFor'
  <2> SUFFICES ASSUME ~raced', NEW t \in Threads
               PROVE  (reader[t] \in {0, cur'} \/ WaitsFor(t)') /\ reader[t] \notin freed /\ (Mine'.pc = "new" => reader[t] # Mine'.new)
    BY <1>1 DEF ReadersWaitedFor
  <2>1. (reader[t] \in {0, cur} \/ WaitsFor(t)) /\ reader[t] \notin freed /\ (Mine.pc = "new" => reader[t] # Mine.new)
    BY <1>1, <1>9 DEF OwnInv, ReadersWaitedFor
  <2>2. Mine'.pc = "new" => Mine.pc = "new" /\ Mine'.new = Mine.new
    BY <1>3, <1>4 DEF Mine
  <2>3. CASE reader[t] = cur
    BY <1>1, <1>2, <1>3, <2>1, <2>2, <2>3 DEF WaitsFor
  <2>4. CASE WaitsFor(t)
    <3>1. PICK y \in Swappers : swap[y].pc = "grace" /\ reader[t] = swap[y].old /\ t \in swap[y].wait
      BY <2>4 DEF WaitsFor
    <3>2. swap'[y] = swap[y]
      BY <1>1, <1>3, <3>1
    <3>3. WaitsFor(t)'
      BY <1>1, <3>1, <3>2 DEF WaitsFor
    <3> QED BY <2>1, <2>2, <3>3
  <2> QED BY <2>1, <2>2, <2>3, <2>4
<1> QED BY <1>6, <1>7, <1>8, <1>10, <1>11 DEF OwnInv

\* It frees what was replaced, once nobody looks into that any longer.
LEMMA SwapFreeOwns ==
    ASSUME OwnInv, NEW x \in Swappers, SwapFree(x)
    PROVE  OwnInv'
<1>1. /\ Alive /\ swap[x].pc = "grace" /\ swap[x].wait = {} /\ freed' = freed \cup {Own(x)}
      /\ swap' = [swap EXCEPT ![x] = NoSwap]
      /\ UNCHANGED <<agent, tree, cur, reader, raced, proc>>
  BY DEF SwapFree, Own
<1>2. NoSwap \in SwapRecords /\ NoSwap.pc = "none"
  BY DEF NoSwap, SwapRecords
<1>3. swap' \in [Swappers -> SwapRecords] /\ swap'[x].pc = "none" /\ \A y \in Swappers \ {x} : swap'[y] = swap[y]
  BY <1>1, <1>2 DEF OwnInv, AgentTypes
<1>4. Server \in Swappers
  BY DEF Swappers
<1>5. /\ \A y \in Swappers \ {x} : Busy(y)' = Busy(y) /\ Own(y)' = Own(y)
      /\ ~Busy(x)' /\ Busy(x) /\ Own(x) = swap[x].old /\ Own(x) \in 1 .. Len(tree)
  BY <1>1, <1>3 DEF OwnInv, OwnIsTree, Busy, Own
<1>6. AgentTypes'
  BY <1>1, <1>3, <1>5 DEF OwnInv, AgentTypes
<1>7. OwnIsTree'
  BY <1>1, <1>3, <1>5 DEF OwnInv, OwnIsTree
<1>8. ServerPhase'
  BY <1>1, <1>3, <1>4 DEF OwnInv, ServerPhase, Mine
<1>9. TreesOwned'
  <2> SUFFICES ASSUME ~raced
               PROVE  TreesOwned'
    BY <1>1 DEF TreesOwned
  <2>1. /\ \A y \in Swappers : Busy(y) => Own(y) # cur /\ Own(y) \notin freed
        /\ \A y, z \in Swappers : Busy(y) /\ Busy(z) /\ y # z => Own(y) # Own(z)
        /\ cur \notin freed
        /\ \A i \in 1 .. Len(tree) : i \in freed \/ i = cur \/ \E y \in Swappers : Busy(y) /\ Own(y) = i
    BY <1>1 DEF OwnInv, TreesOwned
  <2>2. \A y \in Swappers : Busy(y)' => Own(y)' # cur /\ Own(y)' \notin freed'
    BY <1>1, <1>5, <2>1
  <2>3. \A y, z \in Swappers : Busy(y)' /\ Busy(z)' /\ y # z => Own(y)' # Own(z)'
    BY <1>5, <2>1
  <2>4. cur \notin freed'
    BY <1>1, <1>5, <2>1
  <2>5. \A i \in 1 .. Len(tree) : i \in freed' \/ i = cur \/ \E y \in Swappers : Busy(y)' /\ Own(y)' = i
    BY <1>1, <1>5, <2>1
  <2> QED BY <1>1, <2>2, <2>3, <2>4, <2>5 DEF TreesOwned
<1>10. ReadersWaitedFor'
  <2> SUFFICES ASSUME ~raced, NEW t \in Threads
               PROVE  (reader[t] \in {0, cur} \/ WaitsFor(t)') /\ reader[t] \notin freed' /\ (Mine'.pc = "new" => reader[t] # Mine'.new)
    BY <1>1 DEF ReadersWaitedFor
  <2>1. (reader[t] \in {0, cur} \/ WaitsFor(t)) /\ reader[t] \notin freed /\ (Mine.pc = "new" => reader[t] # Mine.new)
    BY <1>1 DEF OwnInv, ReadersWaitedFor
  <2>2. Mine'.pc = "new" => Mine.pc = "new" /\ Mine'.new = Mine.new
    BY <1>3, <1>4 DEF Mine
  <2>3. CASE reader[t] \in {0, cur}
    <3>1. reader[t] # Own(x)
      BY <1>1, <1>5, <2>3 DEF OwnInv, TreesOwned
    <3> QED BY <1>1, <2>1, <2>2, <2>3, <3>1
  <2>4. CASE WaitsFor(t)
    <3>1. PICK y \in Swappers : swap[y].pc = "grace" /\ reader[t] = swap[y].old /\ t \in swap[y].wait
      BY <2>4 DEF WaitsFor
    <3>2. y # x /\ swap'[y] = swap[y] /\ Busy(y) /\ Own(y) = reader[t]
      BY <1>1, <1>3, <3>1 DEF Busy, Own
    <3>3. WaitsFor(t)'
      BY <1>1, <3>1, <3>2 DEF WaitsFor
    <3>4. reader[t] # Own(x)
      BY <1>1, <1>5, <3>2 DEF OwnInv, TreesOwned
    <3> QED BY <1>1, <2>1, <2>2, <3>3, <3>4
  <2> QED BY <2>1, <2>3, <2>4
<1> QED BY <1>6, <1>7, <1>8, <1>9, <1>10 DEF OwnInv

\* A swapper gets a new tree: what is left to show is who owns it.
LEMMA NewTreeOwns ==
    ASSUME OwnInv, Alive, NEW x \in Swappers, NEW n, n = Len(tree) + 1, swap[x].pc = "none",
           tree' \in Seq(SUBSET (Clients \X TreeOptions)), Len(tree') = n,
           swap' = [swap EXCEPT ![x].pc = "new", ![x].new = n],
           UNCHANGED <<agent, freed, cur, reader, raced>>, proc' \in [pc : ProcPcs, up : BOOLEAN],
           x = Server => agent.pc = "read" /\ agent.c # Killer
    PROVE  OwnInv'
<1>1. Len(tree) \in Nat /\ n \in Nat /\ n = Len(tree) + 1 /\ n \notin freed /\ n # cur /\ \A t \in Threads : reader[t] # n
  <2>1. Len(tree) \in Nat
    BY DEF OwnInv, AgentTypes
  <2> QED BY <2>1 DEF OwnInv, AgentTypes
<1>2. /\ swap' \in [Swappers -> SwapRecords] /\ \A y \in Swappers \ {x} : swap'[y] = swap[y]
      /\ swap'[x].pc = "new" /\ swap'[x].new = n
  <2> DEFINE new == [swap[x] EXCEPT !.pc = "new", !.new = n]
  <2>1. swap \in [Swappers -> SwapRecords] /\ swap' = [swap EXCEPT ![x] = new]
    BY DEF OwnInv, AgentTypes
  <2>2. new \in SwapRecords /\ new.pc = "new" /\ new.new = n
    <3>1. n \in Nat /\ swap[x] \in SwapRecords
      BY <1>1, <2>1
    <3> QED BY ONLY <3>1 DEF SwapRecords
  <2> HIDE DEF new
  <2> QED BY <2>1, <2>2
<1>3. Server \in Swappers
  BY DEF Swappers
<1>4. /\ \A y \in Swappers \ {x} : Busy(y)' = Busy(y) /\ Own(y)' = Own(y) /\ swap'[y].new = swap[y].new
      /\ Busy(x)' /\ Own(x)' = n
      /\ \A y \in Swappers : Busy(y) => y # x /\ Own(y) # n /\ Own(y) \in 1 .. Len(tree) /\ swap[y].new \in 1 .. Len(tree)
  BY <1>1, <1>2 DEF OwnInv, OwnIsTree, Busy, Own
<1>5. AgentTypes'
  BY <1>1, <1>2 DEF OwnInv, AgentTypes
<1>6. OwnIsTree'
  <2> SUFFICES ASSUME NEW y \in Swappers, Busy(y)'
               PROVE  Own(y)' \in 1 .. n /\ swap'[y].new \in 1 .. n
    BY DEF OwnIsTree
  <2>1. CASE y = x
    BY <1>1, <1>2, <1>4, <2>1
  <2>2. CASE y # x
    <3>1. Own(y)' \in 1 .. Len(tree) /\ swap'[y].new \in 1 .. Len(tree)
      BY <1>4, <2>2
    <3>2. \A i \in 1 .. Len(tree) : i \in 1 .. n
      BY <1>1
    <3> QED BY <3>1, <3>2
  <2> QED BY <2>1, <2>2
<1>7. ServerPhase'
  BY <1>2, <1>3 DEF OwnInv, ServerPhase, Mine
<1>8. TreesOwned'
  <2> SUFFICES ASSUME ~raced
               PROVE  TreesOwned'
    BY DEF TreesOwned
  <2>1. /\ \A y \in Swappers : Busy(y) => Own(y) # cur /\ Own(y) \notin freed
        /\ \A y, z \in Swappers : Busy(y) /\ Busy(z) /\ y # z => Own(y) # Own(z)
        /\ cur \notin freed
        /\ \A i \in 1 .. Len(tree) : i \in freed \/ i = cur \/ \E y \in Swappers : Busy(y) /\ Own(y) = i
    BY DEF OwnInv, TreesOwned
  <2>2. \A y \in Swappers : Busy(y)' => Own(y)' # cur /\ Own(y)' \notin freed
    BY <1>1, <1>4, <2>1
  <2>3. \A y, z \in Swappers : Busy(y)' /\ Busy(z)' /\ y # z => Own(y)' # Own(z)'
    BY <1>4, <2>1
  <2>4. \A i \in 1 .. n : i \in freed \/ i = cur \/ \E y \in Swappers : Busy(y)' /\ Own(y)' = i
    <3> SUFFICES ASSUME NEW i \in 1 .. n, i \notin freed, i # cur
                 PROVE  \E y \in Swappers : Busy(y)' /\ Own(y)' = i
      OBVIOUS
    <3>1. CASE i = n
      BY <1>4, <3>1
    <3>2. CASE i # n
      <4>1. i \in 1 .. Len(tree)
        BY <1>1, <3>2
      <4>2. PICK y \in Swappers : Busy(y) /\ Own(y) = i
        BY <2>1, <4>1
      <4> QED BY <1>4, <4>2
    <3> QED BY <3>1, <3>2
  <2> QED BY <2>1, <2>2, <2>3, <2>4 DEF TreesOwned
<1>9. ReadersWaitedFor'
  <2> SUFFICES ASSUME ~raced, NEW t \in Threads
               PROVE  (reader[t] \in {0, cur} \/ WaitsFor(t)') /\ reader[t] \notin freed /\ (Mine'.pc = "new" => reader[t] # Mine'.new)
    BY DEF ReadersWaitedFor
  <2>1. (reader[t] \in {0, cur} \/ WaitsFor(t)) /\ reader[t] \notin freed /\ (Mine.pc = "new" => reader[t] # Mine.new)
    BY DEF OwnInv, ReadersWaitedFor
  <2>2. WaitsFor(t) => WaitsFor(t)'
    BY <1>2 DEF WaitsFor
  <2>3. Mine'.pc = "new" => reader[t] # Mine'.new
    BY <1>1, <1>2, <1>3, <2>1 DEF Mine
  <2> QED BY <2>1, <2>2, <2>3
<1> QED BY <1>5, <1>6, <1>7, <1>8, <1>9 DEF OwnInv

\* dlopen() makes a tree.
LEMMA DlopenOwns ==
    ASSUME OwnInv, NEW t \in Threads, Dlopen(t)
    PROVE  OwnInv'
<1> DEFINE T == SUBSET (Clients \X TreeOptions)
<1>1. /\ proc.pc = "run" /\ swap[t].pc = "none" /\ tree' = Append(tree, {}) /\ UNCHANGED <<agent, freed, cur, reader, raced, proc>>
      /\ swap' = [swap EXCEPT ![t].pc = "new", ![t].new = Len(tree) + 1]
  BY DEF Dlopen
<1>2. tree \in Seq(T) /\ {} \in T /\ proc \in [pc : ProcPcs, up : BOOLEAN]
  BY DEF OwnInv, AgentTypes
<1>3. tree' \in Seq(T) /\ Len(tree') = Len(tree) + 1
  <2> HIDE DEF T
  <2> QED BY <1>1, <1>2
<1>4. Alive /\ t \in Swappers /\ t # Server /\ proc' = proc
  BY <1>1 DEF Alive, Swappers
<1> QED BY <1>1, <1>2, <1>3, <1>4, NewTreeOwns DEF T

\* mcount_filter_finish(): nobody looks into a tree any longer.
LEMMA FinishOwns ==
    ASSUME OwnInv, Finish
    PROVE  OwnInv'
<1>1. /\ \A t \in Threads : reader[t] = 0
      /\ freed' = freed \cup {cur} /\ proc' = [proc EXCEPT !.pc = "ended"] /\ UNCHANGED <<agent, tree, cur, reader, swap, raced>>
  BY DEF Finish
<1>2. proc' \in [pc : ProcPcs, up : BOOLEAN] /\ ~Alive'
  BY <1>1 DEF OwnInv, AgentTypes, ProcPcs, Alive
<1>3. AgentTypes' /\ OwnIsTree' /\ ServerPhase' /\ TreesOwned'
  BY <1>1, <1>2 DEF OwnInv, AgentTypes, OwnIsTree, Busy, Own, ServerPhase, Mine, TreesOwned
<1>4. ReadersWaitedFor'
  <2>1. 0 \notin freed'
    BY <1>1 DEF OwnInv, AgentTypes
  <2>2. Mine.pc = "new" => Mine.new # 0
    BY DEF OwnInv, OwnIsTree, Mine, Busy, Swappers
  <2> QED BY <1>1, <1>2, <2>1, <2>2 DEF ReadersWaitedFor, Mine
<1> QED BY <1>3, <1>4 DEF OwnInv

\* The copy of the triggers is the one of the connection or a new one with the triggers in use.
LEMMA CopyMade ==
    ASSUME OwnInv
    PROVE  /\ Copy.tree \in Seq(SUBSET (Clients \X TreeOptions)) /\ Copy.id \in 1 .. Len(Copy.tree)
           /\ Mine.pc = "new" => Copy.id = Mine.new /\ Copy.tree = tree /\ Len(Copy.tree) = Len(tree)
           /\ Mine.pc # "new" => Copy.id = Len(tree) + 1 /\ Copy.tree = Append(tree, tree[cur]) /\ Len(Copy.tree) = Len(tree) + 1
<1> DEFINE T == SUBSET (Clients \X TreeOptions)
<1>1. tree \in Seq(T) /\ Len(tree) \in Nat /\ tree[cur] \in T /\ (Mine.pc = "new" => Mine.new \in 1 .. Len(tree))
  BY DEF OwnInv, AgentTypes, OwnIsTree, Mine, Busy, Swappers
<1> HIDE DEF T
<1>2. CASE Mine.pc = "new"
  <2>1. Copy.id = Mine.new /\ Copy.tree = tree
    BY <1>2 DEF Copy
  <2> QED BY <1>1, <1>2, <2>1 DEF T
<1>3. CASE Mine.pc # "new"
  <2>1. Copy.id = Len(tree) + 1 /\ Copy.tree = Append(tree, tree[cur])
    BY <1>3 DEF Copy
  <2>2. Append(tree, tree[cur]) \in Seq(T) /\ Len(Append(tree, tree[cur])) = Len(tree) + 1
    BY <1>1
  <2> QED BY <1>1, <1>3, <2>1, <2>2 DEF T
<1> QED BY <1>2, <1>3 DEF T

\* An answer may cost the program its life.
LEMMA AnswerEnds ==
    ASSUME OwnInv, NEW type, Answer(type)
    PROVE  proc' \in [pc : ProcPcs, up : BOOLEAN] /\ (Alive' => Alive)
BY DEF OwnInv, AgentTypes, Answer, Alive, ProcPcs

\* The cases of a message
LEMMA ServeCases ==
    ASSUME OwnInv, ContentInv, Serve, NEW msg, msg = Head(conn[agent.c].req)
    PROVE  /\ AgentAt("read") /\ agent.c \in Peers /\ (agent.c = Killer => msg = "CLOSE")
           /\ UNCHANGED <<agent_run, sock, client, freed, cur, reader, raced>>
           /\ \/ msg \notin TreeOptions \cup {"CLOSE"} /\ UNCHANGED <<agent, tree, swap>>
              \/ msg = "CLOSE" /\ agent' = [agent EXCEPT !.pc = "swap"] /\ UNCHANGED <<tree, swap>>
              \/ /\ msg \in TreeOptions /\ agent.c \in Clients /\ UNCHANGED agent
                 /\ tree' = [Copy.tree EXCEPT ![Copy.id] = @ \cup {<<agent.c, msg>>}]
                 /\ swap' = [swap EXCEPT ![Server].pc = "new", ![Server].new = Copy.id]
           /\ \E type \in {"OK", "ERR"} : Answer(type)
<1>1. /\ AgentAt("read") /\ agent.c \in Peers /\ conn[agent.c].req # << >>
      /\ UNCHANGED <<agent_run, sock, client, freed, cur, reader, raced>>
  BY DEF Serve, OwnInv, AgentTypes
<1>2. agent.c = Killer => msg = "CLOSE"
  BY <1>1 DEF ContentInv, ClientShape
<1>3. TreeOptions \cap {"QUERY", "CLOSE"} = {} /\ TreeOptions \cap ParamOptions = {} /\ TreeOptions \cap UnknownOptions = {}
      /\ "CLOSE" \notin ParamOptions \cup UnknownOptions /\ "QUERY" # "CLOSE"
  BY DEF TreeOptions, ParamOptions, UnknownOptions
<1>4. CASE msg = "QUERY" /\ Answer("OK") /\ UNCHANGED <<agent, tree, params, swap>>
  BY <1>1, <1>2, <1>3, <1>4
<1>5. CASE msg = "CLOSE" /\ Answer("OK") /\ agent' = [agent EXCEPT !.pc = "swap"] /\ UNCHANGED <<tree, params, swap>>
  BY <1>1, <1>2, <1>3, <1>5
<1>6. CASE SetOption(msg) /\ UNCHANGED agent
  <2>1. CASE msg \in TreeOptions /\ Answer("OK") /\ tree' = [Copy.tree EXCEPT ![Copy.id] = @ \cup {<<agent.c, msg>>}]
             /\ swap' = [swap EXCEPT ![Server].pc = "new", ![Server].new = Copy.id]
    BY <1>1, <1>2, <1>3, <1>6, <2>1
  <2>2. CASE msg \in ParamOptions /\ Answer("OK") /\ UNCHANGED <<tree, swap>>
    BY <1>1, <1>2, <1>3, <1>6, <2>2
  <2>3. CASE msg \in UnknownOptions /\ Answer("ERR") /\ UNCHANGED <<tree, swap>>
    BY <1>1, <1>2, <1>3, <1>6, <2>3
  <2> QED BY <1>6, <2>1, <2>2, <2>3 DEF SetOption
<1> QED BY <1>4, <1>5, <1>6 DEF Serve

\* A message of a connection is served.
LEMMA ServeOwns ==
    ASSUME OwnInv, ContentInv, Serve
    PROVE  OwnInv'
<1> DEFINE msg == Head(conn[agent.c].req)
<1>1. /\ AgentAt("read") /\ agent.c \in Peers
      /\ UNCHANGED <<agent_run, sock, client, freed, cur, reader, raced>>
      /\ \/ msg \notin TreeOptions \cup {"CLOSE"} /\ UNCHANGED <<agent, tree, swap>>
         \/ msg = "CLOSE" /\ agent' = [agent EXCEPT !.pc = "swap"] /\ UNCHANGED <<tree, swap>>
         \/ /\ msg \in TreeOptions /\ agent.c \in Clients /\ UNCHANGED agent
            /\ tree' = [Copy.tree EXCEPT ![Copy.id] = @ \cup {<<agent.c, msg>>}]
            /\ swap' = [swap EXCEPT ![Server].pc = "new", ![Server].new = Copy.id]
  BY ServeCases
<1>2. proc' \in [pc : ProcPcs, up : BOOLEAN] /\ (Alive' => Alive)
  BY ServeCases, AnswerEnds
<1> HIDE DEF msg
<1>3. agent \in [pc : AgentPcs, c : Peers] /\ tree \in Seq(SUBSET (Clients \X TreeOptions)) /\ agent.pc = "read"
  BY <1>1 DEF OwnInv, AgentTypes, AgentAt
<1>4. CASE UNCHANGED <<agent, tree, swap>>
  <2>1. ServerPhase'
    BY <1>4 DEF OwnInv, ServerPhase, Mine
  <2> QED BY <1>1, <1>2, <1>3, <1>4, <2>1, SameTrees
<1>5. CASE agent' = [agent EXCEPT !.pc = "swap"] /\ UNCHANGED <<tree, swap>>
  <2>1. agent' \in [pc : AgentPcs, c : Peers] /\ agent'.pc = "swap" /\ agent'.c = agent.c
    BY <1>3, <1>5
  <2>2. ServerPhase'
    BY <1>5, <2>1 DEF OwnInv, ServerPhase, Mine
  <2> QED BY <1>1, <1>2, <1>3, <1>5, <2>1, <2>2, SameTrees
<1>6. CASE /\ msg \in TreeOptions /\ agent.c \in Clients /\ UNCHANGED agent
           /\ tree' = [Copy.tree EXCEPT ![Copy.id] = @ \cup {<<agent.c, msg>>}]
           /\ swap' = [swap EXCEPT ![Server].pc = "new", ![Server].new = Copy.id]
  <2> DEFINE id == Copy.id   base == Copy.tree   T == SUBSET (Clients \X TreeOptions)
  <2>1. /\ base \in Seq(T) /\ id \in 1 .. Len(base)
        /\ Mine.pc = "new" => id = Mine.new /\ Len(base) = Len(tree)
        /\ Mine.pc # "new" => id = Len(tree) + 1 /\ Len(base) = Len(tree) + 1
    BY CopyMade
  <2>2. tree' = [base EXCEPT ![id] = @ \cup {<<agent.c, msg>>}] /\ swap' = [swap EXCEPT ![Server].pc = "new", ![Server].new = id]
    BY <1>6
  <2> HIDE DEF id, base
  <2>3. base[id] \cup {<<agent.c, msg>>} \in T
    BY <1>6, <2>1
  <2> HIDE DEF T
  <2>4. tree' \in Seq(T) /\ Len(tree') = Len(base)
    BY <2>1, <2>2, <2>3
  <2>5. swap \in [Swappers -> SwapRecords] /\ Server \in Swappers /\ Mine = swap[Server] /\ Mine.pc \in {"none", "new"}
        /\ agent.c # Killer
    BY <1>3, <1>6 DEF OwnInv, AgentTypes, ServerPhase, Mine, Swappers
  <2>6. CASE Mine.pc = "new"
    <3>1. swap' = swap
      BY <2>1, <2>2, <2>5, <2>6 DEF SwapRecords
    <3>2. ServerPhase'
      BY <1>6, <3>1 DEF OwnInv, ServerPhase, Mine
    <3> QED BY <1>1, <1>2, <1>3, <1>6, <2>1, <2>4, <2>6, <3>1, <3>2, SameTrees DEF T
  <2>7. CASE Mine.pc = "none"
    <3>1. Alive
      BY <1>1 DEF AgentAt
    <3>2. swap' = [swap EXCEPT ![Server].pc = "new", ![Server].new = Len(tree) + 1] /\ Len(tree') = Len(tree) + 1
      BY <2>1, <2>2, <2>4, <2>7
    <3> QED BY <1>1, <1>2, <1>3, <1>6, <2>4, <2>5, <2>7, <3>1, <3>2, NewTreeOwns DEF T
  <2> QED BY <2>5, <2>6, <2>7
<1> QED BY <1>1, <1>4, <1>5, <1>6

\* The steps that make no tree and touch no swap: the phases of the agent, the clients, the end
LEMMA OthersOwn ==
    ASSUME OwnInv, ContentInv,
           \/ \E ok \in BOOLEAN : Init_(ok)
           \/ Loop \/ Accept \/ ServeGone \/ CloseConn \/ Fini \/ Kill \/ KillConnect \/ KillSend \/ KillWait
           \/ \E c \in Clients : ClientStep(c) \/ ClientDies(c)
           \/ UNCHANGED vars
    PROVE  OwnInv'
<1>1. /\ UNCHANGED <<freed, cur, reader, swap, raced, tree>> /\ tree' \in Seq(SUBSET (Clients \X TreeOptions)) /\ Len(tree') = Len(tree)
  BY DEF Init_, Loop, Accept, ServeGone, CloseConn, Fini, Kill, KillConnect, KillSend, KillWait, ClientStep, Connect, Send, Receive,
         ClientDies, vars, OwnInv, AgentTypes
<1>2. agent \in [pc : AgentPcs, c : Peers] /\ proc \in [pc : ProcPcs, up : BOOLEAN] /\ sock.queue \in Seq(Peers)
  BY DEF OwnInv, AgentTypes, ContentInv, ClientShape, ClientTypes
<1>3. \/ UNCHANGED agent
      \/ \E pc \in {"loop", "gone", "accept"} : agent' = [agent EXCEPT !.pc = pc] /\ (agent.pc = "swap" => Mine.pc = "none") /\ agent.pc # "read"
      \/ \E c \in Peers : agent.pc = "accept" /\ agent' = [agent EXCEPT !.pc = "read", !.c = c]
  <2>1. CASE Accept
    <3>1. Head(sock.queue) \in Peers
      <4> HIDE DEF Peers
      <4> QED BY <1>2, <2>1 DEF Accept
    <3> QED BY <2>1, <3>1 DEF Accept, AgentAt
  <2>2. CASE ~Accept
    BY <2>2 DEF Init_, Loop, ServeGone, CloseConn, Fini, Kill, KillConnect, KillSend, KillWait, ClientStep, Connect, Send, Receive,
                ClientDies, vars, AgentAt
  <2> QED BY <2>1, <2>2
<1>4. agent' \in [pc : AgentPcs, c : Peers] /\ ServerPhase'
  <2>1. CASE UNCHANGED agent
    BY <1>1, <1>2, <2>1 DEF OwnInv, ServerPhase, Mine
  <2>2. ASSUME NEW pc \in {"loop", "gone", "accept"}, agent' = [agent EXCEPT !.pc = pc], agent.pc = "swap" => Mine.pc = "none", agent.pc # "read"
        PROVE  agent' \in [pc : AgentPcs, c : Peers] /\ ServerPhase'
    <3>1. agent' \in [pc : AgentPcs, c : Peers] /\ agent'.pc = pc
      BY <1>2, <2>2
    <3> QED BY <1>1, <2>2, <3>1 DEF OwnInv, ServerPhase, Mine
  <2>3. ASSUME NEW c \in Peers, agent.pc = "accept", agent' = [agent EXCEPT !.pc = "read", !.c = c]
        PROVE  agent' \in [pc : AgentPcs, c : Peers] /\ ServerPhase'
    <3>1. agent' \in [pc : AgentPcs, c : Peers] /\ Mine'.pc = "none"
      BY <1>1, <1>2, <2>3 DEF OwnInv, ServerPhase, Mine
    <3> QED BY <3>1 DEF ServerPhase
  <2> QED BY <1>3, <2>1, <2>2, <2>3
<1>5. proc' \in [pc : ProcPcs, up : BOOLEAN] /\ (Alive' => Alive)
  <2>1. \/ UNCHANGED proc
        \/ /\ proc.pc \notin {"ended", "killed"}
           /\ \/ proc' = [proc EXCEPT !.pc = "kill", !.up = TRUE]
              \/ \E pc \in ProcPcs : proc' = [proc EXCEPT !.pc = pc]
    BY DEF Init_, Loop, Accept, ServeGone, CloseConn, Fini, Kill, KillConnect, KillSend, KillWait, ClientStep, Connect, Send, Receive,
           ClientDies, vars, AgentAt, Alive, ProcPcs
  <2> QED BY <1>2, <2>1 DEF Alive, ProcPcs
<1> QED BY <1>1, <1>4, <1>5, SameTrees

\* Taking the first message off a sequence of different ones
LEMMA InjectiveTail ==
    ASSUME NEW S, NEW s \in Seq(S), IsInjective(s), s # << >>
    PROVE  /\ Head(s) \in S /\ Head(s) = s[1] /\ Len(s) > 0
           /\ Tail(s) \in Seq(S) /\ Len(Tail(s)) = Len(s) - 1 /\ IsInjective(Tail(s))
           /\ ToSet(Tail(s)) = ToSet(s) \ {Head(s)}
           /\ Tail(s) # << >> => Tail(s)[Len(Tail(s))] = s[Len(s)]
           /\ s[Len(s)] = Head(s) => Tail(s) = << >>
<1>1. /\ Len(s) \in Nat \ {0} /\ Tail(s) \in Seq(S) /\ Len(Tail(s)) = Len(s) - 1
      /\ \A i \in 1 .. Len(s) - 1 : Tail(s)[i] = s[i + 1]
      /\ DOMAIN s = 1 .. Len(s) /\ DOMAIN Tail(s) = 1 .. Len(s) - 1
      /\ Head(s) = s[1] /\ s[1] \in S
  OBVIOUS
<1>2. IsInjective(Tail(s))
  <2> SUFFICES ASSUME NEW i \in 1 .. Len(s) - 1, NEW j \in 1 .. Len(s) - 1, Tail(s)[i] = Tail(s)[j]
               PROVE  i = j
    BY <1>1 DEF IsInjective
  <2>1. i + 1 \in 1 .. Len(s) /\ j + 1 \in 1 .. Len(s) /\ s[i + 1] = s[j + 1]
    BY <1>1
  <2> QED BY <1>1, <2>1 DEF IsInjective
<1>3. ToSet(Tail(s)) = ToSet(s) \ {Head(s)}
  <2>1. ASSUME NEW i \in 1 .. Len(s) - 1
        PROVE  i + 1 \in DOMAIN s /\ Tail(s)[i] = s[i + 1] /\ s[i + 1] # s[1]
    BY <1>1 DEF IsInjective
  <2>2. ASSUME NEW i \in DOMAIN s, s[i] # s[1]
        PROVE  i - 1 \in 1 .. Len(s) - 1 /\ Tail(s)[i - 1] = s[i]
    BY <1>1, <2>2
  <2>3. ToSet(s) = {s[i] : i \in 1 .. Len(s)} /\ ToSet(Tail(s)) = {Tail(s)[i] : i \in 1 .. Len(s) - 1}
    BY <1>1 DEF ToSet
  <2>4. ASSUME NEW x \in ToSet(Tail(s)) PROVE x \in ToSet(s) \ {Head(s)}
    BY <1>1, <2>1, <2>3
  <2>5. ASSUME NEW x \in ToSet(s) \ {Head(s)} PROVE x \in ToSet(Tail(s))
    <3>1. PICK i \in DOMAIN s : s[i] = x
      BY <1>1, <2>3
    <3> QED BY <1>1, <2>2, <2>3, <3>1
  <2> QED BY <2>4, <2>5
<1>4. s[Len(s)] = Head(s) => Tail(s) = << >>
  BY <1>1 DEF IsInjective
<1>5. Tail(s) # << >> => Tail(s)[Len(Tail(s))] = s[Len(s)]
  BY <1>1
<1> QED BY <1>1, <1>2, <1>3, <1>4, <1>5

-----------------------------------------------------------------------------
(* What is in the trees *)

\* With fewer options that were sent, what was whole stays so.
LEMMA FewerTogether ==
    ASSUME NEW content, NEW c \in Clients, Together(content, c), client'[c].sent \subseteq client[c].sent
    PROVE  Together(content, c)'
BY DEF Together

\* Steps that neither exchange a message nor make a tree, and that begin or end no connection
LEMMA QuietContent ==
    ASSUME ContentInv, UNCHANGED <<client, conn, tree>>,
           sock' \in [listen : BOOLEAN, file : BOOLEAN, queue : Seq(Peers)], sock'.queue = sock.queue,
           agent'.c = agent.c, agent'.pc = "read" <=> agent.pc = "read",
           agent.pc = "read" => Mine'.pc = Mine.pc /\ Mine'.new = Mine.new
    PROVE  ContentInv'
<1>1. ClientShape'
  BY DEF ContentInv, ClientShape, ClientTypes, OneByOne
<1>2. Queued'
  BY DEF ContentInv, Queued, QueuedOnce, Waiting, Unheard, Absent
<1>3. CopyInProgress'
  BY DEF ContentInv, CopyInProgress, Absent, Unserved
<1>4. TreesWhole'
  <2>1. \A c \in Clients, i \in 1 .. Len(tree) : Unfinished(i, c) => Unfinished(i, c)'
    BY DEF Unfinished
  <2>2. \A c \in Clients, i \in 1 .. Len(tree) : Together(tree[i], c) => Together(tree[i], c)'
    BY DEF Together
  <2> QED BY <2>1, <2>2 DEF ContentInv, TreesWhole
<1> QED BY <1>1, <1>2, <1>3, <1>4 DEF ContentInv

\* Steps of a client, which leave alone the trees and the other clients
LEMMA ClientContent ==
    ASSUME OwnInv, ContentInv, NEW c \in Clients, UNCHANGED <<agent, tree, swap>>,
           \A d \in Clients \ {c} : client'[d] = client[d] /\ conn'[d] = conn[d] /\ (d \in ToSet(sock'.queue) <=> d \in ToSet(sock.queue)),
           conn'[Killer] = conn[Killer], client'[c].sent \subseteq client[c].sent,
           \A o \in client'[c].sent \cap TreeOptions : o \in ToSet(Unserved(c)') <=> o \in ToSet(Unserved(c)),
           ClientTypes', OneByOne(c)', QueuedOnce', Waiting(c)'
    PROVE  ContentInv'
<1>1. ClientShape'
  BY DEF ContentInv, ClientShape, OneByOne
<1>2. Queued'
  BY DEF ContentInv, Queued, Waiting, Unheard, Absent
<1>3. \A d \in Clients : client'[d].sent \subseteq client[d].sent
  OBVIOUS
<1>4. CopyInProgress'
  <2> SUFFICES ASSUME agent.c \in Clients, agent.pc = "read"
               PROVE  CopyInProgress'
    BY DEF CopyInProgress
  <2>1. \A o \in client'[agent.c].sent \cap TreeOptions : o \in ToSet(Unserved(agent.c)') <=> o \in ToSet(Unserved(agent.c))
    <3>1. CASE agent.c = c
      BY <3>1
    <3>2. CASE agent.c # c
      BY <3>2 DEF Unserved
    <3> QED BY <3>1, <3>2
  <2>2. Mine' = Mine /\ (Absent(agent.c) => Absent(agent.c)')
    BY DEF Mine, Absent
  <2> QED BY <1>3, <2>1, <2>2 DEF ContentInv, CopyInProgress
<1>5. TreesWhole'
  <2> SUFFICES ASSUME NEW i \in 1 .. Len(tree), NEW d \in Clients
               PROVE  Unfinished(i, d)' \/ Together(tree[i], d)'
    BY DEF TreesWhole
  <2>1. Unfinished(i, d) => Unfinished(i, d)'
    BY DEF Unfinished, Mine
  <2>2. Together(tree[i], d) => Together(tree[i], d)'
    BY <1>3, FewerTogether DEF Together
  <2> QED BY <2>1, <2>2 DEF ContentInv, TreesWhole
<1> QED BY <1>1, <1>2, <1>4, <1>5 DEF ContentInv

\* The elements of a sequence to which one is appended
LEMMA AppendedSet ==
    ASSUME NEW S, NEW s \in Seq(S), NEW x \in S
    PROVE  /\ Append(s, x) \in Seq(S) /\ ToSet(Append(s, x)) = ToSet(s) \cup {x}
           /\ Len(Append(s, x)) = Len(s) + 1 /\ Append(s, x)[Len(s) + 1] = x
           /\ \A i \in DOMAIN s : Append(s, x)[i] = s[i] /\ s[i] \in ToSet(s)
           /\ DOMAIN s = 1 .. Len(s) /\ DOMAIN Append(s, x) = 1 .. Len(s) + 1 /\ Len(s) \in Nat
<1>1. /\ Append(s, x) \in Seq(S) /\ Len(Append(s, x)) = Len(s) + 1 /\ Append(s, x)[Len(s) + 1] = x
      /\ \A i \in DOMAIN s : Append(s, x)[i] = s[i]
      /\ DOMAIN s = 1 .. Len(s) /\ DOMAIN Append(s, x) = 1 .. Len(s) + 1 /\ Len(s) \in Nat
  OBVIOUS
<1>2. ToSet(s) = {s[i] : i \in DOMAIN s} /\ ToSet(Append(s, x)) = {Append(s, x)[i] : i \in DOMAIN Append(s, x)}
  BY DEF ToSet
<1>3. ASSUME NEW y \in ToSet(Append(s, x)) PROVE y \in ToSet(s) \cup {x}
  <2>1. PICK i \in DOMAIN Append(s, x) : y = Append(s, x)[i]
    BY <1>2
  <2> QED BY <1>1, <1>2, <2>1
<1>4. ASSUME NEW y \in ToSet(s) \cup {x} PROVE y \in ToSet(Append(s, x))
  <2>1. CASE y = x
    BY <1>1, <1>2, <2>1
  <2>2. CASE y \in ToSet(s)
    <3>1. PICK i \in DOMAIN s : y = s[i]
      BY <1>2, <2>2
    <3> QED BY <1>1, <1>2, <3>1
  <2> QED BY <2>1, <2>2
<1> QED BY <1>1, <1>2, <1>3, <1>4

\* connect()
LEMMA ConnectContent ==
    ASSUME OwnInv, ContentInv, NEW c \in Clients, Connect(c)
    PROVE  ContentInv'
<1>0. client[c] \in ClientRecords /\ conn[c] \in ConnRecords
  BY DEF ContentInv, ClientShape, ClientTypes
<1>1. /\ UNCHANGED <<agent, tree, swap, conn>> /\ client[c].pc = "start"
      /\ ClientTypes /\ OneByOne(c) /\ QueuedOnce /\ Waiting(c) /\ sock.queue \in Seq(Peers) /\ c \in Peers
  BY DEF Connect, ClientAt, ContentInv, ClientShape, Queued, ClientTypes
<1>2. CASE sock' = [sock EXCEPT !.queue = Append(@, c)] /\ client' = [client EXCEPT ![c].pc = "send"]
  <2> DEFINE q == Append(sock.queue, c)
  <2>a. q \in Seq(Peers) /\ ToSet(q) = ToSet(sock.queue) \cup {c}
    <3> HIDE DEF Peers
    <3> QED BY <1>1, AppendedSet
  <2>b. sock' = [sock EXCEPT !.queue = q]
    BY <1>2
  <2> HIDE DEF q
  <2>1. sock'.queue = q /\ q \in Seq(Peers) /\ ToSet(q) = ToSet(sock.queue) \cup {c}
        /\ sock' \in [listen : BOOLEAN, file : BOOLEAN, queue : Seq(Peers)]
    <3> HIDE DEF Peers
    <3> QED BY <1>1, <2>a, <2>b DEF ClientTypes
  <2>2. ClientTypes'
    <3>1. [client[c] EXCEPT !.pc = "send"] \in ClientRecords
      BY <1>0 DEF ClientRecords
    <3> QED BY <1>1, <1>2, <2>1, <3>1 DEF ClientTypes
  <2>3. /\ \A d \in Clients \ {c} : client'[d] = client[d] /\ conn'[d] = conn[d] /\ (d \in ToSet(sock'.queue) <=> d \in ToSet(sock.queue))
        /\ client'[c].todo = client[c].todo /\ client'[c].sent = client[c].sent /\ client'[c].acked = client[c].acked /\ client'[c].pc = "send"
    BY <1>1, <1>2, <2>1 DEF ClientTypes, ClientRecords
  <2>4. OneByOne(c)' /\ Unserved(c)' = Unserved(c)
    BY <1>1, <2>3 DEF OneByOne, Unserved
  <2>5. Waiting(c)'
    BY <1>1, <2>3 DEF Waiting, Unheard, Absent
  <2>6. QueuedOnce'
    <3> HIDE DEF Peers, Killer
    <3>1. c \notin ToSet(sock.queue)
      BY <1>1 DEF Waiting
    <3> QED BY <1>1, <2>1, <3>1, AppendedSet DEF QueuedOnce, q
  <2> QED BY <1>1, <2>1, <2>2, <2>3, <2>4, <2>5, <2>6, ClientContent
<1>3. CASE client' = [client EXCEPT ![c] = [@ EXCEPT !.pc = "done", !.ok = FALSE]] /\ UNCHANGED sock
  <2>1. /\ \A d \in Clients \ {c} : client'[d] = client[d] /\ conn'[d] = conn[d] /\ (d \in ToSet(sock'.queue) <=> d \in ToSet(sock.queue))
        /\ client'[c].todo = client[c].todo /\ client'[c].sent = client[c].sent /\ client'[c].acked = client[c].acked /\ client'[c].pc = "done"
    BY <1>1, <1>3 DEF ClientTypes, ClientRecords
  <2>2. ClientTypes' /\ QueuedOnce'
    <3>1. [client[c] EXCEPT !.pc = "done", !.ok = FALSE] \in ClientRecords
      BY <1>0 DEF ClientRecords
    <3> QED BY <1>1, <1>3, <3>1 DEF ClientTypes, QueuedOnce
  <2>3. OneByOne(c)' /\ Unserved(c)' = Unserved(c)
    BY <1>1, <2>1 DEF OneByOne, Unserved
  <2>4. Waiting(c)'
    BY <1>1, <1>3, <2>1 DEF Waiting, Unheard, Absent
  <2> QED BY <1>1, <2>1, <2>2, <2>3, <2>4, ClientContent
<1> QED BY <1>2, <1>3 DEF Connect

\* write()
LEMMA SendContent ==
    ASSUME OwnInv, ContentInv, NEW c \in Clients, Send(c)
    PROVE  ContentInv'
<1>0. client[c] \in ClientRecords /\ conn[c] \in ConnRecords
  BY DEF ContentInv, ClientShape, ClientTypes
<1>1. /\ UNCHANGED <<agent, tree, swap, sock>> /\ client[c].pc = "send" /\ c # Killer /\ c \in Peers
      /\ ClientTypes /\ OneByOne(c) /\ QueuedOnce' /\ Waiting(c)
  BY DEF Send, ClientAt, ContentInv, ClientShape, Queued, QueuedOnce
<1>2. CASE conn' = [conn EXCEPT ![c].req = <<Head(client[c].todo)>>] /\ client' = [client EXCEPT ![c].pc = "recv"]
  <2>1. client[c].todo # << >> /\ Head(client[c].todo) \in Messages /\ conn[c].resp = << >>
    BY <1>1 DEF OneByOne, ClientTypes, ClientRecords
  <2>2. /\ \A d \in Peers \ {c} : conn'[d] = conn[d]
        /\ \A d \in Clients \ {c} : client'[d] = client[d]
        /\ client'[c].todo = client[c].todo /\ client'[c].sent = client[c].sent /\ client'[c].acked = client[c].acked /\ client'[c].pc = "recv"
        /\ conn'[c].resp = conn[c].resp /\ conn'[c].req = <<Head(client[c].todo)>>
    BY <1>1, <1>2 DEF ClientTypes, ClientRecords
  <2>3. ClientTypes'
    <3>1. [client[c] EXCEPT !.pc = "recv"] \in ClientRecords
      BY <1>0 DEF ClientRecords
    <3>2. [conn[c] EXCEPT !.req = <<Head(client[c].todo)>>] \in ConnRecords
      <4> DEFINE m == Head(client[c].todo)
      <4>1. <<m>> \in Seq(Messages)
        BY <2>1
      <4> HIDE DEF m, Messages
      <4> QED BY <1>0, <4>1 DEF m, ConnRecords
    <3> HIDE DEF Peers
    <3> QED BY <1>1, <1>2, <3>1, <3>2 DEF ClientTypes
  <2>4. OneByOne(c)' /\ Unserved(c)' = Unserved(c)
    BY <1>1, <2>1, <2>2 DEF OneByOne, Unserved
  <2>5. Waiting(c)'
    BY <1>1, <2>2 DEF Waiting, Unheard, Absent
  <2> QED BY <1>1, <2>2, <2>3, <2>4, <2>5, ClientContent
<1>3. CASE client' = [client EXCEPT ![c] = [@ EXCEPT !.pc = "done", !.ok = FALSE]] /\ UNCHANGED conn
  <2>1. /\ \A d \in Clients \ {c} : client'[d] = client[d]
        /\ client'[c].todo = client[c].todo /\ client'[c].sent = client[c].sent /\ client'[c].acked = client[c].acked /\ client'[c].pc = "done"
    BY <1>1, <1>3 DEF ClientTypes, ClientRecords
  <2>2. ClientTypes'
    <3>1. [client[c] EXCEPT !.pc = "done", !.ok = FALSE] \in ClientRecords
      BY <1>0 DEF ClientRecords
    <3> QED BY <1>1, <1>3, <3>1 DEF ClientTypes
  <2>3. OneByOne(c)' /\ Unserved(c)' = Unserved(c)
    BY <1>1, <1>3, <2>1 DEF OneByOne, Unserved
  <2>4. Waiting(c)'
    BY <1>1, <1>3, <2>1 DEF Waiting, Unheard, Absent
  <2> QED BY <1>1, <1>3, <2>1, <2>2, <2>3, <2>4, ClientContent
<1> QED BY <1>2, <1>3 DEF Send

\* read(): what is answered is taken off the messages to send; after a refusal only CLOSE is left.
LEMMA ReceiveContent ==
    ASSUME OwnInv, ContentInv, NEW c \in Clients, Receive(c)
    PROVE  ContentInv'
<1>0. client[c] \in ClientRecords /\ conn[c] \in ConnRecords
  BY DEF ContentInv, ClientShape, ClientTypes
<1>1. /\ UNCHANGED <<agent, tree, swap, sock>> /\ client[c].pc = "recv" /\ c # Killer /\ c \in Peers
      /\ ClientTypes /\ OneByOne(c) /\ QueuedOnce' /\ Waiting(c)
  BY DEF Receive, ClientAt, ContentInv, ClientShape, Queued, QueuedOnce
<1> DEFINE todo == client[c].todo   acked == client[c].acked
<1>2. /\ todo # << >> /\ todo \in Seq(Messages) /\ IsInjective(todo) /\ acked \cap ToSet(todo) = {} /\ todo[Len(todo)] = "CLOSE"
      /\ acked \in SUBSET Messages /\ client[c].sent \in SUBSET Options
  BY <1>0, <1>1 DEF OneByOne, ClientRecords
<1>3. /\ Head(todo) \in Messages /\ Tail(todo) \in Seq(Messages) /\ Len(Tail(todo)) = Len(todo) - 1 /\ Len(todo) > 0 /\ IsInjective(Tail(todo))
      /\ Tail(todo) # << >> => Tail(todo)[Len(Tail(todo))] = todo[Len(todo)]
      /\ ToSet(Tail(todo)) = ToSet(todo) \ {Head(todo)} /\ Len(todo) \in Nat
  <2> HIDE DEF todo, Messages
  <2> QED BY <1>2, InjectiveTail
\* What an answer leaves in the socket
<1>4. ASSUME conn[c].resp # << >>, conn' = [conn EXCEPT ![c].resp = << >>]
      PROVE  /\ conn[c].req = << >> /\ conn' \in [Peers -> ConnRecords] /\ Unserved(c) = Tail(todo)
             /\ \A d \in Peers \ {c} : conn'[d] = conn[d]
             /\ conn'[c].resp = << >> /\ conn'[c].req = << >>
  <2>1. conn[c].req = << >> /\ Unserved(c) = Tail(todo)
    BY <1>1, <1>4 DEF OneByOne, Unserved
  <2>2. [conn[c] EXCEPT !.resp = << >>] \in ConnRecords /\ [conn[c] EXCEPT !.resp = << >>].req = << >>
        /\ [conn[c] EXCEPT !.resp = << >>].resp = << >>
    <3> HIDE DEF Messages
    <3> QED BY <1>0, <2>1 DEF ConnRecords
  <2>3. conn \in [Peers -> ConnRecords]
    BY <1>1 DEF ClientTypes
  <2> HIDE DEF Peers, ConnRecords
  <2> QED BY <1>1, <1>4, <2>1, <2>2, <2>3
\* What is left to show of the new record of the client
<1>5. ASSUME conn[c].resp # << >>, conn' = [conn EXCEPT ![c].resp = << >>], NEW new \in ClientRecords, client' = [client EXCEPT ![c] = new],
             IsInjective(new.todo), new.acked \cap ToSet(new.todo) = {}, new.todo # << >> => new.todo[Len(new.todo)] = "CLOSE",
             new.pc \in {"send", "done"}, new.pc = "send" => new.todo # << >>, new.sent \subseteq client[c].sent,
             \A o \in new.sent \cap TreeOptions : o \in ToSet(new.todo) <=> o \in ToSet(Tail(todo))
      PROVE  ContentInv'
  <2>1. /\ conn[c].req = << >> /\ conn' \in [Peers -> ConnRecords] /\ Unserved(c) = Tail(todo)
        /\ \A d \in Peers \ {c} : conn'[d] = conn[d]
        /\ conn'[c].resp = << >> /\ conn'[c].req = << >>
    BY <1>4, <1>5
  <2>2. client' \in [Clients -> ClientRecords] /\ client'[c] = new /\ \A d \in Clients \ {c} : client'[d] = client[d]
    <3> HIDE DEF ClientRecords
    <3> QED BY <1>1, <1>5 DEF ClientTypes
  <2>3. ClientTypes'
    BY <1>1, <2>1, <2>2 DEF ClientTypes
  <2>4. OneByOne(c)' /\ Unserved(c)' = new.todo
    BY <1>5, <2>1, <2>2 DEF OneByOne, Unserved
  <2>5. Waiting(c)'
    BY <1>1, <1>5, <2>1, <2>2 DEF Waiting, Unheard
  <2>6. \A o \in client'[c].sent \cap TreeOptions : o \in ToSet(Unserved(c)') <=> o \in ToSet(Unserved(c))
    BY <1>5, <2>1, <2>2, <2>4
  <2>7. /\ \A d \in Clients \ {c} : client'[d] = client[d] /\ conn'[d] = conn[d] /\ (d \in ToSet(sock'.queue) <=> d \in ToSet(sock.queue))
        /\ conn'[Killer] = conn[Killer] /\ client'[c].sent \subseteq client[c].sent
    BY <1>1, <1>5, <2>1, <2>2
  <2> QED BY <1>1, <2>3, <2>4, <2>5, <2>6, <2>7, ClientContent
<1>6. CASE /\ conn[c].resp = <<"OK">> /\ conn' = [conn EXCEPT ![c].resp = << >>]
           /\ client' = [client EXCEPT ![c] = [@ EXCEPT !.acked = client[c].acked \cup {Head(client[c].todo)}, !.todo = Tail(client[c].todo),
                                                       !.pc = IF Len(client[c].todo) = 1 THEN "done" ELSE "send"]]
  <2> DEFINE pc == IF Len(todo) = 1 THEN "done" ELSE "send"   more == acked \cup {Head(todo)}
             new == [client[c] EXCEPT !.acked = more, !.todo = Tail(todo), !.pc = pc]
  <2>1. client' = [client EXCEPT ![c] = new]
    BY <1>6
  <2>2. pc \in {"send", "done"} /\ (pc = "send" => Tail(todo) # << >>)
    <3>1. \A q \in Seq(Messages) : q = << >> => Len(q) = 0
      OBVIOUS
    <3>2. Tail(todo) = << >> => Len(Tail(todo)) = 0
      <4> HIDE DEF todo, Messages
      <4> QED BY <1>3, <3>1
    <3>3. pc = "send" => Len(todo) # 1
      OBVIOUS
    <3> HIDE DEF todo
    <3> QED BY <1>3, <3>2, <3>3
  <2>3. more \in SUBSET Messages /\ more \cap ToSet(Tail(todo)) = {}
    BY <1>2, <1>3
  <2> HIDE DEF todo, pc, more, acked
  <2>4. new \in ClientRecords /\ new.todo = Tail(todo) /\ new.sent = client[c].sent /\ new.pc = pc /\ new.acked = more
    <3> HIDE DEF Messages
    <3> QED BY <1>0, <1>3, <2>2, <2>3 DEF ClientRecords
  <2> HIDE DEF new
  <2>5. Tail(todo) # << >> => Tail(todo)[Len(Tail(todo))] = "CLOSE"
    BY <1>2, <1>3
  <2>6. conn[c].resp # << >>
    BY <1>6
  <2> QED BY <1>3, <1>5, <1>6, <2>1, <2>2, <2>3, <2>4, <2>5, <2>6
<1>7. CASE /\ conn[c].resp = <<"ERR">> /\ conn' = [conn EXCEPT ![c].resp = << >>]
           /\ client' = [client EXCEPT ![c] = [@ EXCEPT !.sent = client[c].sent \cap client[c].acked, !.todo = <<"CLOSE">>, !.pc = "send", !.ok = FALSE]]
  <2> DEFINE close == <<"CLOSE">>   kept == client[c].sent \cap acked
             new == [client[c] EXCEPT !.sent = kept, !.todo = close, !.pc = "send", !.ok = FALSE]
  <2>1. client' = [client EXCEPT ![c] = new]
    BY <1>7
  <2>2. close \in Seq(Messages) /\ IsInjective(close) /\ ToSet(close) = {"CLOSE"} /\ close # << >> /\ close[Len(close)] = "CLOSE"
    BY DEF IsInjective, ToSet, Messages
  <2>3. "CLOSE" \in ToSet(todo) /\ "CLOSE" \notin TreeOptions
    <3>1. Len(todo) \in DOMAIN todo
      <4> HIDE DEF todo, Messages
      <4> QED BY <1>2, <1>3
    <3> QED BY <1>2, <3>1 DEF ToSet, TreeOptions
  <2>4. acked \cap ToSet(close) = {} /\ kept \in SUBSET Options /\ kept \subseteq client[c].sent
        /\ \A o \in kept \cap TreeOptions : o \notin ToSet(close) /\ o \notin ToSet(Tail(todo))
    BY <1>2, <1>3, <2>2, <2>3
  <2> HIDE DEF todo, acked, close, kept
  <2>5. new \in ClientRecords /\ new.todo = close /\ new.sent = kept /\ new.pc = "send" /\ new.acked = acked
    <3> HIDE DEF Messages, Options
    <3> QED BY <1>0, <2>2, <2>4 DEF ClientRecords, acked
  <2> HIDE DEF new
  <2>6. conn[c].resp # << >>
    BY <1>7
  <2> QED BY <1>5, <1>7, <2>1, <2>2, <2>4, <2>5, <2>6
<1>8. CASE client' = [client EXCEPT ![c] = [@ EXCEPT !.pc = "done", !.ok = FALSE]] /\ UNCHANGED conn
  <2>1. /\ \A d \in Clients \ {c} : client'[d] = client[d]
        /\ client'[c].todo = todo /\ client'[c].sent = client[c].sent /\ client'[c].acked = acked /\ client'[c].pc = "done"
    BY <1>1, <1>8 DEF ClientTypes, ClientRecords
  <2>2. ClientTypes'
    <3>1. [client[c] EXCEPT !.pc = "done", !.ok = FALSE] \in ClientRecords
      BY <1>0 DEF ClientRecords
    <3> QED BY <1>1, <1>8, <3>1 DEF ClientTypes
  <2>3. OneByOne(c)' /\ Unserved(c)' = Unserved(c)
    BY <1>1, <1>8, <2>1 DEF OneByOne, Unserved
  <2>4. Waiting(c)'
    BY <1>1, <1>8, <2>1 DEF Waiting, Unheard, Absent
  <2> QED BY <1>1, <1>8, <2>1, <2>2, <2>3, <2>4, ClientContent
<1> QED BY <1>6, <1>7, <1>8 DEF Receive

\* The client is killed.
LEMMA ClientDiesContent ==
    ASSUME OwnInv, ContentInv, NEW c \in Clients, ClientDies(c)
    PROVE  ContentInv'
<1>0. client[c] \in ClientRecords /\ conn[c] \in ConnRecords
  BY DEF ContentInv, ClientShape, ClientTypes
<1>1. /\ UNCHANGED <<agent, tree, swap, sock, conn>> /\ client[c].pc \in {"send", "recv"} /\ c # Killer /\ c \in Peers
      /\ ClientTypes /\ OneByOne(c) /\ QueuedOnce' /\ Waiting(c) /\ client' = [client EXCEPT ![c].pc = "dead"]
  BY DEF ClientDies, ContentInv, ClientShape, Queued, QueuedOnce
<1>2. /\ \A d \in Clients \ {c} : client'[d] = client[d]
      /\ client'[c].todo = client[c].todo /\ client'[c].sent = client[c].sent /\ client'[c].acked = client[c].acked /\ client'[c].pc = "dead"
  BY <1>1 DEF ClientTypes, ClientRecords
<1>3. ClientTypes'
  <2>1. [client[c] EXCEPT !.pc = "dead"] \in ClientRecords
    BY <1>0 DEF ClientRecords
  <2> QED BY <1>1, <2>1 DEF ClientTypes
<1>4. OneByOne(c)' /\ Unserved(c)' = Unserved(c)
  BY <1>1, <1>2 DEF OneByOne, Unserved
<1>5. Waiting(c)'
  BY <1>1, <1>2 DEF Waiting, Unheard, Absent
<1> QED BY <1>1, <1>2, <1>3, <1>4, <1>5, ClientContent

\* accept(): the agent has heard nothing of who is next in the queue.
LEMMA AcceptContent ==
    ASSUME OwnInv, ContentInv, Accept
    PROVE  ContentInv'
<1> DEFINE q == sock.queue   c == Head(q)
<1>1. /\ UNCHANGED <<client, conn, tree, swap>> /\ q \in Seq(Peers) /\ q # << >> /\ Mine.pc = "none" /\ agent.pc = "accept"
      /\ agent' = [agent EXCEPT !.pc = "read", !.c = c] /\ sock' = [sock EXCEPT !.queue = Tail(q)]
  BY DEF Accept, AgentAt, ContentInv, ClientShape, ClientTypes, OwnInv, ServerPhase
<1>2. /\ c \in Peers /\ c = q[1] /\ Tail(q) \in Seq(Peers) /\ Len(q) \in Nat \ {0} /\ Len(Tail(q)) = Len(q) - 1
      /\ \A i \in 1 .. Len(q) - 1 : Tail(q)[i] = q[i + 1]
      /\ DOMAIN q = 1 .. Len(q) /\ DOMAIN Tail(q) = 1 .. Len(q) - 1
  <2> HIDE DEF Peers
  <2> QED BY <1>1
<1>3. ToSet(q) = {q[i] : i \in DOMAIN q} /\ ToSet(Tail(q)) = {Tail(q)[i] : i \in DOMAIN Tail(q)}
  BY DEF ToSet
<1>4. QueuedOnce /\ \A d \in Clients : Waiting(d)
  BY DEF ContentInv, Queued
<1> HIDE DEF q, c
<1>5. agent'.pc = "read" /\ agent'.c = c /\ Mine'.pc = "none" /\ sock'.queue = Tail(q)
      /\ sock' \in [listen : BOOLEAN, file : BOOLEAN, queue : Seq(Peers)]
  <2>1. agent \in [pc : AgentPcs, c : Peers] /\ sock \in [listen : BOOLEAN, file : BOOLEAN, queue : Seq(Peers)]
    BY DEF OwnInv, AgentTypes, ContentInv, ClientShape, ClientTypes
  <2>2. Mine'.pc = "none"
    BY <1>1 DEF Mine
  <2> HIDE DEF Peers, AgentPcs, Mine
  <2> QED BY <1>1, <1>2, <2>1, <2>2
<1>6. \A i \in DOMAIN Tail(q) : i + 1 \in DOMAIN q /\ Tail(q)[i] = q[i + 1] /\ i + 1 # 1
  BY <1>2
<1>7. c \in ToSet(q) /\ ToSet(Tail(q)) \subseteq ToSet(q)
  <2>1. 1 \in DOMAIN q
    BY <1>2
  <2> QED BY <1>2, <1>3, <1>6, <2>1
<1>8. c # Killer => c \notin ToSet(Tail(q))
  <2> SUFFICES ASSUME c # Killer, NEW i \in DOMAIN Tail(q), Tail(q)[i] = c
               PROVE  FALSE
    BY <1>3
  <2>1. 1 \in DOMAIN q /\ i + 1 \in DOMAIN q /\ q[1] = q[i + 1] /\ q[1] # Killer /\ i + 1 # 1
    BY <1>2, <1>6
  <2> QED BY <1>4, <2>1 DEF QueuedOnce, q
<1>9. ClientShape'
  BY <1>1, <1>5 DEF ContentInv, ClientShape, ClientTypes, OneByOne
<1>10. Queued'
  <2>1. QueuedOnce'
    <3> SUFFICES ASSUME NEW i \in DOMAIN Tail(q), NEW j \in DOMAIN Tail(q), Tail(q)[i] = Tail(q)[j], Tail(q)[i] # Killer
                 PROVE  i = j
      BY <1>5 DEF QueuedOnce
    <3>1. i + 1 = j + 1
      BY <1>4, <1>6 DEF QueuedOnce, q
    <3> QED BY <1>2, <3>1
  <2>2. ASSUME NEW d \in Clients PROVE Waiting(d)'
    <3>1. d \in ToSet(Tail(q)) => d # c /\ d \in ToSet(q)
      BY <1>7, <1>8
    <3> QED BY <1>1, <1>4, <1>5, <1>7, <3>1 DEF Waiting, Unheard, Absent, q
  <2> QED BY <2>1, <2>2 DEF Queued
<1>11. CopyInProgress'
  <2> SUFFICES ASSUME NEW d \in Clients, d = c
               PROVE  CopyInProgress'
    BY <1>5 DEF CopyInProgress
  <2>1. Unheard(d)
    BY <1>4, <1>7 DEF Waiting, q
  <2>2. Absent(d)' /\ client'[d].sent \subseteq ToSet(Unserved(d)')
    BY <1>1, <2>1 DEF Unheard, Absent, Unserved
  <2> QED BY <1>5, <2>2 DEF CopyInProgress
<1>12. TreesWhole'
  <2>1. \A i \in 1 .. Len(tree), d \in Clients : Together(tree[i], d)
    BY <1>1 DEF ContentInv, TreesWhole, Unfinished
  <2> QED BY <1>1, <2>1 DEF TreesWhole, Together
<1> QED BY <1>9, <1>10, <1>11, <1>12 DEF ContentInv

\* agent_kill() connects like a client that has nothing to send.
LEMMA KillConnectContent ==
    ASSUME OwnInv, ContentInv, KillConnect
    PROVE  ContentInv'
<1>1. UNCHANGED <<agent, client, conn, tree, swap>> /\ sock.queue \in Seq(Peers) /\ Killer \in Peers /\ Mine' = Mine
  BY DEF KillConnect, ContentInv, ClientShape, ClientTypes, Mine
<1>2. CASE sock' = [sock EXCEPT !.file = FALSE]
  <2>1. sock'.queue = sock.queue /\ sock' \in [listen : BOOLEAN, file : BOOLEAN, queue : Seq(Peers)]
    BY <1>2 DEF ContentInv, ClientShape, ClientTypes
  <2> QED BY <1>1, <1>2, <2>1, QuietContent
<1>3. CASE sock' = [sock EXCEPT !.queue = Append(@, Killer)]
  <2> DEFINE q == Append(sock.queue, Killer)
  <2>1. q \in Seq(Peers) /\ ToSet(q) = ToSet(sock.queue) \cup {Killer}
    <3> HIDE DEF Peers, Killer
    <3> QED BY <1>1, AppendedSet
  <2>2. sock' = [sock EXCEPT !.queue = q]
    BY <1>3
  <2>3. QueuedOnce => \A i, j \in DOMAIN q : q[i] = q[j] /\ q[i] # Killer => i = j
    <3>1. \A i \in DOMAIN q : q[i] # Killer => i \in DOMAIN sock.queue /\ q[i] = sock.queue[i]
      <4> HIDE DEF Peers, Killer
      <4> QED BY <1>1, AppendedSet
    <3> QED BY <3>1 DEF QueuedOnce
  <2> HIDE DEF q
  <2>4. sock'.queue = q /\ sock' \in [listen : BOOLEAN, file : BOOLEAN, queue : Seq(Peers)]
    <3> HIDE DEF Peers
    <3> QED BY <2>1, <2>2 DEF ContentInv, ClientShape, ClientTypes
  <2>5. ClientShape'
    BY <1>1, <2>4 DEF ContentInv, ClientShape, ClientTypes, OneByOne
  <2>6. Queued'
    <3>1. \A d \in Clients : d \in ToSet(q) <=> d \in ToSet(sock.queue)
      BY <2>1
    <3>2. QueuedOnce'
      BY <2>3, <2>4 DEF ContentInv, Queued, QueuedOnce
    <3>3. ASSUME NEW d \in Clients PROVE Waiting(d)'
      BY <1>1, <2>4, <3>1 DEF ContentInv, Queued, Waiting, Unheard, Absent
    <3> QED BY <3>2, <3>3 DEF Queued
  <2>7. CopyInProgress'
    BY <1>1 DEF ContentInv, CopyInProgress, Absent, Unserved
  <2>8. TreesWhole'
    BY <1>1 DEF ContentInv, TreesWhole, Together, Unfinished
  <2> QED BY <2>5, <2>6, <2>7, <2>8 DEF ContentInv
<1> QED BY <1>2, <1>3 DEF KillConnect

\* It sends CLOSE.
LEMMA KillSendContent ==
    ASSUME OwnInv, ContentInv, KillSend
    PROVE  ContentInv'
<1>1. UNCHANGED <<agent, client, sock, tree, swap>> /\ Mine' = Mine
  BY DEF KillSend, Mine
<1>2. CASE UNCHANGED conn
  BY <1>1, <1>2, QuietContent DEF ContentInv, ClientShape, ClientTypes
<1>3. CASE conn' = [conn EXCEPT ![Killer].req = <<"CLOSE">>]
  <2>1. /\ \A d \in Clients : conn'[d] = conn[d]
        /\ conn'[Killer].req = <<"CLOSE">>
        /\ conn' \in [Peers -> ConnRecords]
    <3>1. conn \in [Peers -> ConnRecords] /\ Killer \in Peers /\ \A d \in Clients : d # Killer /\ d \in Peers
      BY DEF ContentInv, ClientShape, ClientTypes
    <3>2. <<"CLOSE">> \in Seq(Messages)
      BY DEF Messages
    <3>3. [conn[Killer] EXCEPT !.req = <<"CLOSE">>] \in ConnRecords /\ [conn[Killer] EXCEPT !.req = <<"CLOSE">>].req = <<"CLOSE">>
      <4> HIDE DEF Messages, Peers, Killer
      <4> QED BY <3>1, <3>2 DEF ConnRecords
    <3> HIDE DEF ConnRecords, Peers, Killer
    <3> QED BY <1>3, <3>1, <3>3
  <2>2. ClientShape'
    <3>1. ClientTypes'
      BY <1>1, <2>1 DEF ContentInv, ClientShape, ClientTypes
    <3>2. conn'[Killer].req \in {<< >>, <<"CLOSE">>}
      BY <2>1
    <3>3. \A d \in Clients : OneByOne(d)'
      BY <1>1, <2>1 DEF ContentInv, ClientShape, OneByOne
    <3> QED BY <3>1, <3>2, <3>3 DEF ClientShape
  <2>3. Queued'
    <3>1. ASSUME NEW d \in Clients PROVE Waiting(d)'
      BY <1>1, <2>1 DEF ContentInv, Queued, Waiting, Unheard, Absent
    <3> QED BY <1>1, <3>1 DEF ContentInv, Queued, QueuedOnce
  <2>4. CopyInProgress'
    BY <1>1, <2>1 DEF ContentInv, CopyInProgress, Absent, Unserved
  <2>5. TreesWhole'
    BY <1>1 DEF ContentInv, TreesWhole, Together, Unfinished
  <2> QED BY <2>2, <2>3, <2>4, <2>5 DEF ContentInv
<1> QED BY <1>2, <1>3 DEF KillSend

\* dlopen(): the new tree has no option of a client.
LEMMA DlopenContent ==
    ASSUME OwnInv, ContentInv, NEW t \in Threads, Dlopen(t)
    PROVE  ContentInv'
<1>1. UNCHANGED <<agent, client, conn, sock>> /\ tree' = Append(tree, {}) /\ Mine' = Mine
  BY DEF Dlopen, Mine, OwnInv, AgentTypes, Swappers
<1>2. /\ Len(tree') = Len(tree) + 1 /\ tree'[Len(tree) + 1] = {} /\ Len(tree) \in Nat
      /\ \A i \in 1 .. Len(tree) : tree'[i] = tree[i]
  <2> DEFINE T == SUBSET (Clients \X TreeOptions)
  <2>1. tree \in Seq(T) /\ {} \in T
    BY DEF OwnInv, AgentTypes
  <2> HIDE DEF T
  <2> QED BY <1>1, <2>1
<1>3. \A c \in Clients : Absent(c)' <=> Absent(c)
  BY <1>2 DEF Absent
<1>4. ClientShape'
  BY <1>1 DEF ContentInv, ClientShape, ClientTypes, OneByOne
<1>5. Queued'
  BY <1>1, <1>3 DEF ContentInv, Queued, QueuedOnce, Waiting, Unheard
<1>6. CopyInProgress'
  <2>1. Mine.pc = "new" => Mine.new \in 1 .. Len(tree)
    BY DEF OwnInv, OwnIsTree, Mine, Busy, Swappers
  <2> QED BY <1>1, <1>2, <1>3, <2>1 DEF ContentInv, CopyInProgress, Unserved
<1>7. TreesWhole'
  <2> SUFFICES ASSUME NEW i \in 1 .. Len(tree'), NEW c \in Clients
               PROVE  Unfinished(i, c)' \/ Together(tree[i], c)'
    BY DEF TreesWhole
  <2>1. CASE i \in 1 .. Len(tree)
    <3>1. Unfinished(i, c) \/ Together(tree[i], c)
      BY <2>1 DEF ContentInv, TreesWhole
    <3> QED BY <1>1, <1>2, <2>1, <3>1 DEF Together, Unfinished
  <2>2. CASE i = Len(tree) + 1
    BY <1>2, <2>2 DEF Together
  <2> QED BY <1>2, <2>1, <2>2
<1> QED BY <1>4, <1>5, <1>6, <1>7 DEF ContentInv

\* What Serve changes: the answer, and with an option for the triggers one tree, the copy
Served(c, msg) ==
    /\ conn' \in [Peers -> ConnRecords]
    /\ \A d \in Peers \ {c} : conn'[d] = conn[d]
    /\ conn'[c].req = << >> /\ conn'[c].resp # << >>
    /\ UNCHANGED <<client, sock>> /\ agent'.c = c

\* The sockets after an answer
LEMMA ServedShape ==
    ASSUME OwnInv, ContentInv, Serve, NEW msg, msg = Head(conn[agent.c].req), NEW c, c = agent.c
    PROVE  /\ Served(c, msg) /\ agent.pc = "read" /\ c \in Peers /\ ClientShape'
           /\ c = Killer => msg = "CLOSE"
           /\ c \in Clients => /\ msg \in Messages /\ Unserved(c) = client[c].todo
                               /\ ToSet(Unserved(c)') = ToSet(Unserved(c)) \ {msg} /\ msg \in ToSet(Unserved(c))
                               /\ msg = "CLOSE" => Unserved(c)' = << >>
<1>1. /\ agent.pc = "read" /\ c \in Peers /\ conn[c].req # << >> /\ UNCHANGED <<client, sock>>
      /\ conn \in [Peers -> ConnRecords]
  BY DEF Serve, AgentAt, OwnInv, AgentTypes, ContentInv, ClientShape, ClientTypes
<1>2. PICK type \in {"OK", "ERR"} : conn' = [conn EXCEPT ![c] = [@ EXCEPT !.req = << >>, !.resp = <<type>>]]
  BY ServeCases DEF Answer
<1>3. agent'.c = c
  BY DEF Serve, OwnInv, AgentTypes
<1>4. /\ conn' \in [Peers -> ConnRecords] /\ \A d \in Peers \ {c} : conn'[d] = conn[d]
      /\ conn'[c].req = << >> /\ conn'[c].resp = <<type>>
  <2>1. << >> \in Seq(Messages) /\ <<type>> \in {<< >>, <<"OK">>, <<"ERR">>} /\ conn[c] \in ConnRecords
    BY <1>1
  <2> DEFINE new == [conn[c] EXCEPT !.req = << >>, !.resp = <<type>>]
  <2>2. new \in ConnRecords /\ new.req = << >> /\ new.resp = <<type>>
    <3> HIDE DEF Messages
    <3> QED BY <2>1 DEF ConnRecords
  <2>3. conn' = [conn EXCEPT ![c] = new]
    BY <1>2
  <2> HIDE DEF Peers, ConnRecords, new
  <2> QED BY <1>1, <2>2, <2>3
<1>5. <<type>> # << >>
  OBVIOUS
<1>6. c = Killer => msg = "CLOSE"
  BY <1>1 DEF ContentInv, ClientShape
<1>7. ASSUME c \in Clients
      PROVE  /\ msg \in Messages /\ Unserved(c) = client[c].todo /\ msg \in ToSet(client[c].todo)
             /\ client[c].todo # << >> /\ ToSet(Tail(client[c].todo)) = ToSet(client[c].todo) \ {msg}
             /\ msg = "CLOSE" => Tail(client[c].todo) = << >>
  <2> DEFINE todo == client[c].todo
  <2>1. todo \in Seq(Messages) /\ IsInjective(todo) /\ todo # << >> /\ conn[c].req = <<Head(todo)>> /\ todo[Len(todo)] = "CLOSE"
    BY <1>1, <1>7 DEF ContentInv, ClientShape, ClientTypes, OneByOne, ClientRecords
  <2>2. conn[c].resp = << >>
    BY <1>1, <1>7 DEF ContentInv, ClientShape, OneByOne
  <2> HIDE DEF todo
  <2>3. msg = Head(todo)
    BY <2>1
  <2>4. /\ msg \in Messages /\ msg = todo[1] /\ Len(todo) > 0 /\ ToSet(Tail(todo)) = ToSet(todo) \ {msg}
        /\ todo[Len(todo)] = msg => Tail(todo) = << >>
    <3> HIDE DEF Messages
    <3> QED BY <2>1, <2>3, InjectiveTail
  <2>5. msg \in ToSet(todo)
    <3>1. 1 \in DOMAIN todo
      BY <2>1
    <3> QED BY <2>4, <3>1 DEF ToSet
  <2> QED BY <2>1, <2>2, <2>4, <2>5 DEF Unserved, todo
<1>8. c \in Clients => Unserved(c)' = Tail(client[c].todo)
  BY <1>1, <1>4, <1>5 DEF Unserved
<1>9. ClientShape'
  <2>1. ClientTypes'
    BY <1>1, <1>4 DEF ContentInv, ClientShape, ClientTypes
  <2>2. ASSUME NEW d \in Clients PROVE OneByOne(d)'
    <3>1. CASE d # c
      BY <1>1, <1>4, <3>1 DEF ContentInv, ClientShape, OneByOne
    <3>2. CASE d = c
      <4>1. OneByOne(d) /\ client[d].todo # << >> /\ client[d].pc \notin {"start", "send"}
        BY <1>1, <1>7, <3>2 DEF ContentInv, ClientShape, OneByOne
      <4> QED BY <1>1, <1>4, <3>2, <4>1 DEF OneByOne
    <3> QED BY <3>1, <3>2
  <2>3. conn'[Killer].req \in {<< >>, <<"CLOSE">>}
    BY <1>4 DEF ContentInv, ClientShape
  <2> QED BY <2>1, <2>2, <2>3 DEF ClientShape
<1> QED BY <1>1, <1>3, <1>4, <1>5, <1>6, <1>7, <1>8, <1>9 DEF Served

\* A message that is no option of the triggers
LEMMA OtherServedContent ==
    ASSUME OwnInv, ContentInv, NEW c \in Peers, c = agent.c, agent.pc = "read", NEW msg, Served(c, msg), ClientShape',
           UNCHANGED <<tree, swap>>, msg \notin TreeOptions,
           agent'.pc = "read" \/ (agent'.pc = "swap" /\ msg = "CLOSE"),
           c \in Clients => ToSet(Unserved(c)') = ToSet(Unserved(c)) \ {msg} /\ (msg = "CLOSE" => Unserved(c)' = << >>)
    PROVE  ContentInv'
<1>1. Queued'
  <2>1. ASSUME NEW d \in Clients PROVE Waiting(d)'
    <3>1. Waiting(d) /\ agent'.c = agent.c /\ client'[d] = client[d] /\ sock' = sock /\ (d # c => conn'[d] = conn[d])
      BY DEF ContentInv, Queued, Served
    <3>2. d = c => client[d].pc # "start" /\ d \notin ToSet(sock.queue)
      BY <3>1 DEF Waiting
    <3>3. Absent(d)' <=> Absent(d)
      BY DEF Absent
    <3> QED BY <3>1, <3>2, <3>3 DEF Waiting, Unheard
  <2> QED BY <2>1 DEF ContentInv, Queued, QueuedOnce, Served
<1>2. CopyInProgress'
  <2> SUFFICES ASSUME c \in Clients
               PROVE  CopyInProgress'
    BY DEF CopyInProgress, Served
  <2>1. agent'.c = c /\ client'[c] = client[c] /\ Absent(c)' = Absent(c) /\ Mine' = Mine
    BY DEF Served, Absent, Mine
  <2>2. \A o \in TreeOptions : o \in ToSet(Unserved(c)') <=> o \in ToSet(Unserved(c))
    OBVIOUS
  <2> QED BY <2>1, <2>2 DEF ContentInv, CopyInProgress
\* With CLOSE the copy is complete.
<1>3. TreesWhole'
  <2> SUFFICES ASSUME NEW i \in 1 .. Len(tree), NEW d \in Clients
               PROVE  Unfinished(i, d)' \/ Together(tree[i], d)'
    BY DEF TreesWhole
  <2>1. CASE ~Unfinished(i, d)
    BY <2>1 DEF ContentInv, TreesWhole, Together, Served
  <2>2. CASE Unfinished(i, d)
    <3>1. CASE agent'.pc = "read"
      BY <2>2, <3>1 DEF Unfinished, Served, Mine
    <3>2. CASE msg = "CLOSE"
      <4>1. \A o \in TreeOptions : o \notin ToSet(Unserved(d))
        BY <2>2, <3>2 DEF Unfinished, ToSet
      <4>2. \A o \in client[d].sent \cap TreeOptions : <<d, o>> \in tree[i]
        BY <2>2, <4>1 DEF Unfinished, ContentInv, CopyInProgress
      <4>3. client'[d] = client[d]
        BY DEF Served
      <4> QED BY <4>2, <4>3 DEF Together
    <3> QED BY <3>1, <3>2
  <2> QED BY <2>1, <2>2
<1> QED BY <1>1, <1>2, <1>3 DEF ContentInv


\* Replacing one element of a sequence
LEMMA OneReplaced ==
    ASSUME NEW T, NEW s \in Seq(T), NEW k \in 1 .. Len(s), NEW x \in T, NEW r, r = [s EXCEPT ![k] = x]
    PROVE  Len(r) = Len(s) /\ r[k] = x /\ \A i \in 1 .. Len(s) : i # k => r[i] = s[i]
<1>1. DOMAIN s = 1 .. Len(s) /\ Len(s) \in Nat /\ r \in Seq(T)
  OBVIOUS
<1> QED BY <1>1

\* An option of the triggers goes into the copy.
LEMMA OptionServedContent ==
    ASSUME OwnInv, ContentInv, NEW c \in Clients, c = agent.c, agent.pc = "read", NEW msg \in TreeOptions, Served(c, msg), ClientShape',
           tree' = [Copy.tree EXCEPT ![Copy.id] = @ \cup {<<c, msg>>}], UNCHANGED agent,
           swap' = [swap EXCEPT ![Server].pc = "new", ![Server].new = Copy.id],
           ToSet(Unserved(c)') = ToSet(Unserved(c)) \ {msg}, msg \in ToSet(Unserved(c))
    PROVE  ContentInv'
<1> DEFINE id == Copy.id   base == Copy.tree   had == Mine.pc = "new"   copy == Mine.new
<1>1. /\ tree' = [base EXCEPT ![id] = @ \cup {<<c, msg>>}]
      /\ base \in Seq(SUBSET (Clients \X TreeOptions)) /\ id \in 1 .. Len(base)
      /\ had => id = copy /\ base = tree
      /\ ~had => id = Len(tree) + 1 /\ base = Append(tree, tree[cur]) /\ Len(base) = Len(tree) + 1
  BY CopyMade
<1>2. /\ Len(tree) \in Nat /\ tree \in Seq(SUBSET (Clients \X TreeOptions)) /\ cur \in 1 .. Len(tree)
      /\ had => copy \in 1 .. Len(tree)
      /\ ~had => Mine.pc = "none"
  BY DEF OwnInv, AgentTypes, OwnIsTree, Mine, Busy, Swappers, ServerPhase
<1>3. Mine'.pc = "new" /\ Mine'.new = id
  BY DEF Mine, OwnInv, AgentTypes, SwapRecords, Swappers
<1>4. \A i \in 1 .. Len(tree) : base[i] = tree[i]
  <2> DEFINE T == SUBSET (Clients \X TreeOptions)
  <2>1. tree \in Seq(T) /\ tree[cur] \in T
    BY <1>2
  <2>2. \A i \in 1 .. Len(tree) : Append(tree, tree[cur])[i] = tree[i]
    <3> HIDE DEF T
    <3> QED BY <2>1
  <2> HIDE DEF id, base, had
  <2> QED BY <1>1, <2>2
<1>5. base[id] = IF had THEN tree[copy] ELSE tree[cur]
  <2> DEFINE T == SUBSET (Clients \X TreeOptions)
  <2>1. Append(tree, tree[cur])[Len(tree) + 1] = tree[cur]
    <3>1. tree \in Seq(T) /\ tree[cur] \in T
      BY <1>2
    <3> HIDE DEF T
    <3> QED BY <3>1
  <2> HIDE DEF id, base, had, copy
  <2> QED BY <1>1, <2>1
<1> HIDE DEF id, base, had, copy
<1>6. /\ Len(tree') = Len(base) /\ tree'[id] = base[id] \cup {<<c, msg>>}
      /\ \A i \in 1 .. Len(base) : i # id => tree'[i] = tree[i] /\ i \in 1 .. Len(tree) /\ ~(had /\ i = copy)
  <2>1. Len(tree') = Len(base) /\ tree'[id] = base[id] \cup {<<c, msg>>} /\ \A i \in 1 .. Len(base) : i # id => tree'[i] = base[i]
    <3> DEFINE T == SUBSET (Clients \X TreeOptions)   more == base[id] \cup {<<c, msg>>}
    <3>1. base \in Seq(T) /\ id \in 1 .. Len(base) /\ tree' = [base EXCEPT ![id] = more]
      BY <1>1
    <3>2. more \in T
      BY <1>1
    <3>3. Len(tree') = Len(base) /\ tree'[id] = more /\ \A i \in 1 .. Len(base) : i # id => tree'[i] = base[i]
      <4> HIDE DEF T, more
      <4> QED BY ONLY <3>1, <3>2, OneReplaced
    <3> QED BY <3>3
  <2>2. \A i \in 1 .. Len(base) : i # id => i \in 1 .. Len(tree) /\ ~(had /\ i = copy)
    BY <1>1, <1>2
  <2> QED BY <1>4, <2>1, <2>2
<1>7. \A d \in Clients : d # c => (Absent(d)' <=> Absent(d))
  <2> SUFFICES ASSUME NEW d \in Clients, d # c
               PROVE  Absent(d)' <=> Absent(d)
    OBVIOUS
  <2>1. \A o \in TreeOptions : <<d, o>> \in tree'[id] <=> <<d, o>> \in base[id]
    BY <1>6
  <2>2. PICK k \in 1 .. Len(tree) : base[id] = tree[k]
    BY <1>2, <1>5
  <2>3. \A i \in 1 .. Len(tree) : i \in 1 .. Len(base) /\ (i = id => base[id] = tree[i])
    BY <1>1, <1>2, <1>4
  <2>4. ASSUME Absent(d) PROVE Absent(d)'
    <3> SUFFICES ASSUME NEW i \in 1 .. Len(base), NEW o \in TreeOptions
                 PROVE  <<d, o>> \notin tree'[i]
      BY <1>6 DEF Absent
    <3>1. CASE i = id
      BY <2>1, <2>2, <2>4, <3>1 DEF Absent
    <3>2. CASE i # id
      BY <1>6, <2>4, <3>2 DEF Absent
    <3> QED BY <3>1, <3>2
  <2>5. ASSUME Absent(d)' PROVE Absent(d)
    BY <1>6, <2>1, <2>3, <2>5 DEF Absent
  <2> QED BY <2>4, <2>5
<1>8. Queued'
  <2>1. ASSUME NEW d \in Clients PROVE Waiting(d)'
    <3>1. Waiting(d) /\ agent'.c = agent.c /\ client'[d] = client[d] /\ sock' = sock /\ (d # c => conn'[d] = conn[d])
      BY DEF ContentInv, Queued, Served
    <3>2. d = c => client[d].pc # "start" /\ d \notin ToSet(sock.queue)
      BY <3>1 DEF Waiting
    <3> QED BY <1>7, <3>1, <3>2 DEF Waiting, Unheard
  <2> QED BY <2>1 DEF ContentInv, Queued, QueuedOnce, Served
<1>9. CopyInProgress'
  <2>1. \A o \in client[c].sent \cap TreeOptions : <<c, o>> \in base[id] <=> o \notin ToSet(Unserved(c))
    <3>1. CASE ~had
      <4>1. Absent(c) /\ client[c].sent \cap TreeOptions \subseteq ToSet(Unserved(c))
        BY <1>2, <3>1 DEF ContentInv, CopyInProgress
      <4> QED BY <1>2, <1>5, <3>1, <4>1 DEF Absent
    <3>2. CASE had
      BY <1>5, <3>2 DEF ContentInv, CopyInProgress, had, copy
    <3> QED BY <3>1, <3>2
  <2>2. \A o \in client[c].sent \cap TreeOptions : <<c, o>> \in tree'[id] <=> o \notin ToSet(Unserved(c)')
    BY <1>6, <2>1
  <2> QED BY <1>3, <2>2 DEF CopyInProgress, Served
<1>10. TreesWhole'
  <2> SUFFICES ASSUME NEW i \in 1 .. Len(base), NEW d \in Clients, i # id \/ d # c
               PROVE  Together(tree[i], d)'
    BY <1>3, <1>6 DEF TreesWhole, Unfinished
  <2>1. CASE i # id
    <3>1. ~Unfinished(i, d) /\ i \in 1 .. Len(tree) /\ tree'[i] = tree[i]
      BY <1>6, <2>1 DEF Unfinished, had, copy
    <3> QED BY <3>1 DEF ContentInv, TreesWhole, Together, Served
  <2>2. CASE i = id
    <3>1. d # c /\ Together(base[id], d)
      <4>1. PICK k \in 1 .. Len(tree) : base[id] = tree[k]
        BY <1>2, <1>5
      <4> QED BY <2>2, <4>1 DEF ContentInv, TreesWhole, Unfinished
    <3>2. \A o \in client[d].sent \cap TreeOptions : <<d, o>> \in tree'[id] <=> <<d, o>> \in base[id]
      BY <1>6, <3>1
    <3> QED BY <2>2, <3>1, <3>2 DEF Together, Served
  <2> QED BY <2>1, <2>2
<1> QED BY <1>8, <1>9, <1>10 DEF ContentInv

\* A message of a connection is served.
LEMMA ServeContent ==
    ASSUME OwnInv, ContentInv, Serve
    PROVE  ContentInv'
<1> SUFFICES ASSUME NEW c, c = agent.c, NEW msg, msg = Head(conn[agent.c].req)
             PROVE  ContentInv'
  OBVIOUS
<1>1. /\ Served(c, msg) /\ agent.pc = "read" /\ c \in Peers /\ ClientShape'
      /\ c = Killer => msg = "CLOSE"
      /\ c \in Clients => /\ msg \in Messages /\ Unserved(c) = client[c].todo
                          /\ ToSet(Unserved(c)') = ToSet(Unserved(c)) \ {msg} /\ msg \in ToSet(Unserved(c))
                          /\ msg = "CLOSE" => Unserved(c)' = << >>
  BY ServedShape
<1>2. /\ agent \in [pc : AgentPcs, c : Peers] /\ "CLOSE" \notin TreeOptions
      /\ \/ msg \notin TreeOptions \cup {"CLOSE"} /\ UNCHANGED <<agent, tree, swap>>
         \/ msg = "CLOSE" /\ agent' = [agent EXCEPT !.pc = "swap"] /\ UNCHANGED <<tree, swap>>
         \/ /\ msg \in TreeOptions /\ agent.c \in Clients /\ UNCHANGED agent
            /\ tree' = [Copy.tree EXCEPT ![Copy.id] = @ \cup {<<agent.c, msg>>}]
            /\ swap' = [swap EXCEPT ![Server].pc = "new", ![Server].new = Copy.id]
  BY ServeCases DEF OwnInv, AgentTypes, TreeOptions
<1>3. CASE msg \notin TreeOptions \cup {"CLOSE"} /\ UNCHANGED <<agent, tree, swap>>
  BY <1>1, <1>3, OtherServedContent
<1>4. CASE msg = "CLOSE" /\ agent' = [agent EXCEPT !.pc = "swap"] /\ UNCHANGED <<tree, swap>>
  <2>1. agent'.pc = "swap" /\ msg \notin TreeOptions
    BY <1>2, <1>4
  <2> QED BY <1>1, <1>4, <2>1, OtherServedContent
<1>5. CASE /\ msg \in TreeOptions /\ agent.c \in Clients /\ UNCHANGED agent
           /\ tree' = [Copy.tree EXCEPT ![Copy.id] = @ \cup {<<agent.c, msg>>}]
           /\ swap' = [swap EXCEPT ![Server].pc = "new", ![Server].new = Copy.id]
  BY <1>1, <1>5, OptionServedContent
<1> QED BY <1>2, <1>3, <1>4, <1>5

\* The steps that exchange no message and make no tree
QuietStep ==
    \/ \E ok \in BOOLEAN : Init_(ok)
    \/ Loop \/ ServeGone \/ CloseConn \/ Fini
    \/ \E x \in Swappers : SwapStep(x)
    \/ Kill \/ KillWait \/ Finish
    \/ \E t \in Threads : Lookup(t) \/ LookupDone(t)

LEMMA QuietStepContent ==
    ASSUME OwnInv, ContentInv, QuietStep
    PROVE  ContentInv'
<1>1. /\ agent \in [pc : AgentPcs, c : Peers] /\ swap \in [Swappers -> SwapRecords] /\ Server \in Swappers
      /\ sock \in [listen : BOOLEAN, file : BOOLEAN, queue : Seq(Peers)]
  BY DEF OwnInv, AgentTypes, ContentInv, ClientShape, ClientTypes, Swappers
<1>2. UNCHANGED <<client, conn, tree>>
  BY DEF QuietStep, Init_, Loop, ServeGone, SwapStep, SwapRead, SwapCas, SwapFree, CloseConn, Fini, Kill, KillWait, Finish, Lookup, LookupDone
<1>3. \/ UNCHANGED sock
      \/ sock' = [sock EXCEPT !.listen = TRUE, !.file = TRUE]
      \/ sock' = [sock EXCEPT !.listen = FALSE, !.file = FALSE]
      \/ sock' = [sock EXCEPT !.file = FALSE]
  BY DEF QuietStep, Init_, Loop, ServeGone, SwapStep, SwapRead, SwapCas, SwapFree, CloseConn, Fini, Kill, KillWait, Finish, Lookup, LookupDone
<1>4. sock' \in [listen : BOOLEAN, file : BOOLEAN, queue : Seq(Peers)] /\ sock'.queue = sock.queue
  <2> HIDE DEF Peers
  <2> QED BY <1>1, <1>3
<1>5. UNCHANGED agent \/ \E pc \in {"loop", "gone", "accept"} : agent.pc # "read" /\ agent' = [agent EXCEPT !.pc = pc]
  BY DEF QuietStep, Init_, Loop, ServeGone, SwapStep, SwapRead, SwapCas, SwapFree, CloseConn, Fini, Kill, KillWait, Finish, Lookup, LookupDone,
         AgentAt
<1>6. agent'.c = agent.c /\ (agent'.pc = "read" <=> agent.pc = "read")
  BY <1>1, <1>5
<1>7. ASSUME agent.pc = "read" PROVE Mine'.pc = Mine.pc /\ Mine'.new = Mine.new
  <2>1. Mine.pc \in {"none", "new"}
    BY <1>7 DEF OwnInv, ServerPhase
  <2>2. CASE UNCHANGED swap
    BY <2>2 DEF Mine
  <2>3. ASSUME NEW x \in Swappers, SwapStep(x) PROVE Mine'.pc = Mine.pc /\ Mine'.new = Mine.new
    <3>1. x # Server
      BY <1>7, <2>1, <2>3 DEF SwapStep, SwapRead, SwapCas, SwapFree, Called, Mine
    <3>2. swap'[Server] = swap[Server]
      BY <1>1, <2>3, <3>1 DEF SwapStep, SwapRead, SwapCas, SwapFree
    <3> QED BY <3>2 DEF Mine
  <2>4. ASSUME NEW t \in Threads, LookupDone(t) PROVE Mine'.pc = Mine.pc /\ Mine'.new = Mine.new
    <3>1. swap'[Server] = [swap[Server] EXCEPT !.wait = @ \ {t}] /\ swap[Server] \in SwapRecords
      BY <1>1, <2>4 DEF LookupDone
    <3> QED BY <3>1 DEF Mine, SwapRecords
  <2> QED BY <2>2, <2>3, <2>4 DEF QuietStep, Init_, Loop, ServeGone, CloseConn, Fini, Kill, KillWait, Finish, Lookup
<1> QED BY <1>2, <1>4, <1>6, <1>7, QuietContent

-----------------------------------------------------------------------------
(* All together *)

\* A client's messages are different, CLOSE comes last and the others are the options.
LEMMA MessagesOfClient ==
    ASSUME NEW c \in Clients, NEW s \in OptionLists[c], NEW todo, todo = <<"QUERY">> \o s \o <<"CLOSE">>
    PROVE  /\ todo \in Seq(Messages) /\ IsInjective(todo) /\ todo # << >> /\ todo[Len(todo)] = "CLOSE"
           /\ ToSet(s) \subseteq ToSet(todo) /\ ToSet(s) \subseteq Options
<1> DEFINE O == Options   n == Len(s)
<1>1. s \in Seq(O) /\ IsInjective(s) /\ n \in Nat /\ DOMAIN s = 1 .. n
  <2>1. OptionLists[c] \in SUBSET Seq(O) /\ IsInjective(s)
    OBVIOUS
  <2>2. s \in Seq(O)
    BY <2>1
  <2> HIDE DEF O
  <2> QED BY <2>1, <2>2
<1>2. /\ <<"QUERY">> \in Seq(Messages) /\ <<"CLOSE">> \in Seq(Messages) /\ s \in Seq(Messages)
      /\ \A i \in 1 .. n : s[i] \in O
  BY <1>1 DEF Messages
<1>3. "QUERY" \notin O /\ "CLOSE" \notin O
  BY DEF Options, TreeOptions, ParamOptions, UnknownOptions
<1> HIDE DEF O, Messages
<1>4. /\ todo \in Seq(Messages) /\ Len(todo) = n + 2 /\ DOMAIN todo = 1 .. n + 2
      /\ todo[1] = "QUERY" /\ todo[n + 2] = "CLOSE" /\ \A i \in 2 .. n + 1 : todo[i] = s[i - 1]
  BY <1>1, <1>2
<1>5. IsInjective(todo)
  <2> SUFFICES ASSUME NEW i \in 1 .. n + 2, NEW j \in 1 .. n + 2, todo[i] = todo[j]
               PROVE  i = j
    BY <1>4 DEF IsInjective
  <2> HIDE DEF n
  <2>1. \A k \in 2 .. n + 1 : k - 1 \in 1 .. n /\ todo[k] = s[k - 1] /\ s[k - 1] \in O
    BY <1>1, <1>2, <1>4
  <2>2. \A k \in 1 .. n + 2 : k = 1 \/ k = n + 2 \/ k \in 2 .. n + 1
    BY <1>1
  <2>3. CASE i \in 2 .. n + 1 /\ j \in 2 .. n + 1
    <3>1. i - 1 = j - 1
      BY <1>1, <2>1, <2>3 DEF IsInjective
    <3> QED BY <2>3, <3>1
  <2> QED BY <1>3, <1>4, <2>1, <2>2, <2>3
<1>6. ToSet(s) \subseteq ToSet(todo) /\ ToSet(s) \subseteq O
  <2>1. ToSet(s) = {s[i] : i \in 1 .. n} /\ ToSet(todo) = {todo[i] : i \in 1 .. n + 2}
    BY <1>1, <1>4 DEF ToSet
  <2> HIDE DEF n
  <2>2. \A i \in 1 .. n : i + 1 \in 1 .. n + 2 /\ todo[i + 1] = s[i]
    BY <1>1, <1>4
  <2> QED BY <1>2, <2>1, <2>2
<1>7. todo # << >>
  BY <1>1, <1>4
<1> QED BY <1>4, <1>5, <1>6, <1>7 DEF O

\* mcount_init()
LEMMA InitHolds ==
    ASSUME Init
    PROVE  AgentInv
<1>1. /\ agent = [pc |-> "init", c |-> Killer] /\ sock = [listen |-> FALSE, file |-> FALSE, queue |-> << >>]
      /\ conn = [c \in Peers |-> [req |-> << >>, resp |-> << >>]]
      /\ tree = <<{}>> /\ freed = {} /\ cur = 1 /\ raced = FALSE /\ swap = [x \in Swappers |-> NoSwap]
      /\ reader = [t \in Threads |-> 0] /\ proc = [pc |-> "run", up |-> FALSE]
  BY DEF Init
<1>2. Len(tree) = 1 /\ tree[1] = {} /\ tree \in Seq(SUBSET (Clients \X TreeOptions))
  BY <1>1
<1>3. Server \in Swappers /\ NoSwap \in SwapRecords /\ \A x \in Swappers : swap[x].pc = "none"
  BY <1>1 DEF Swappers, NoSwap, SwapRecords
<1>4. AgentTypes
  <2>1. swap \in [Swappers -> SwapRecords]
    BY <1>1, <1>3
  <2>2. agent \in [pc : AgentPcs, c : Peers] /\ proc \in [pc : ProcPcs, up : BOOLEAN]
    BY <1>1 DEF ProcPcs
  <2>3. cur \in 1 .. Len(tree) /\ freed \subseteq 1 .. Len(tree) /\ reader \in [Threads -> 0 .. Len(tree)]
    BY <1>1, <1>2
  <2> QED BY <1>1, <1>2, <2>1, <2>2, <2>3 DEF AgentTypes
<1>5. ServerPhase /\ OwnIsTree /\ TreesOwned /\ ReadersWaitedFor
  BY <1>1, <1>2, <1>3 DEF ServerPhase, OwnIsTree, TreesOwned, Busy, ReadersWaitedFor, Mine
<1>6. ASSUME NEW c \in Clients
      PROVE  client[c] \in ClientRecords /\ OneByOne(c) /\ client[c].sent \subseteq ToSet(client[c].todo)
  <2>1. PICK s \in OptionLists[c] : client[c] = [pc |-> "start", todo |-> <<"QUERY">> \o s \o <<"CLOSE">>, sent |-> ToSet(s), acked |-> {}, ok |-> TRUE]
    BY DEF Init
  <2> DEFINE todo == <<"QUERY">> \o s \o <<"CLOSE">>
  <2>2. /\ todo \in Seq(Messages) /\ IsInjective(todo) /\ todo # << >> /\ todo[Len(todo)] = "CLOSE"
        /\ ToSet(s) \subseteq ToSet(todo) /\ ToSet(s) \subseteq Options
    BY MessagesOfClient
  <2>3. client[c] = [pc |-> "start", todo |-> todo, sent |-> ToSet(s), acked |-> {}, ok |-> TRUE]
    BY <2>1
  <2> HIDE DEF todo, Messages
  <2>4. conn[c].req = << >> /\ conn[c].resp = << >>
    BY <1>1
  <2> QED BY <2>2, <2>3, <2>4 DEF ClientRecords, OneByOne
<1>7. ClientTypes
  <2>1. client \in [Clients -> ClientRecords]
    <3>1. client = [c \in Clients |-> client[c]]
      BY DEF Init
    <3> QED BY <1>6, <3>1
  <2>2. << >> \in Seq(Messages) /\ << >> \in Seq(Peers)
    OBVIOUS
  <2>3. [req |-> << >>, resp |-> << >>] \in ConnRecords
    BY <2>2 DEF ConnRecords
  <2> HIDE DEF Messages, Peers, ConnRecords, ClientRecords
  <2> QED BY <1>1, <2>1, <2>2, <2>3 DEF ClientTypes
<1>8. ClientShape
  BY <1>1, <1>6, <1>7 DEF ClientShape
<1>9. ToSet(sock.queue) = {}
  BY <1>1 DEF ToSet
<1>10. \A c \in Clients : Absent(c)
  BY <1>2 DEF Absent
<1>11. Queued
  BY <1>1, <1>6, <1>9, <1>10 DEF Queued, QueuedOnce, Waiting, Unheard
<1>12. CopyInProgress /\ TreesWhole
  BY <1>1, <1>2 DEF CopyInProgress, TreesWhole, Together
<1> QED BY <1>4, <1>5, <1>8, <1>11, <1>12 DEF AgentInv, OwnInv, ContentInv

LEMMA StepHolds ==
    ASSUME AgentInv, [Next]_vars
    PROVE  AgentInv'
<1> USE DEF AgentInv
<1>1. CASE QuietStep
  <2>1. OwnInv'
    <3>1. ASSUME NEW x \in Swappers, SwapStep(x) PROVE OwnInv'
      BY <3>1, SwapReadOwns, SwapCasOwns, SwapFreeOwns DEF SwapStep
    <3>2. ASSUME NEW t \in Threads, Lookup(t) \/ LookupDone(t) PROVE OwnInv'
      BY <3>2, LookupOwns, LookupDoneOwns
    <3>3. CASE Finish
      BY <3>3, FinishOwns
    <3>4. CASE (\E ok \in BOOLEAN : Init_(ok)) \/ Loop \/ ServeGone \/ CloseConn \/ Fini \/ Kill \/ KillWait
      BY <3>4, OthersOwn
    <3> QED BY <1>1, <3>1, <3>2, <3>3, <3>4 DEF QuietStep
  <2> QED BY <1>1, <2>1, QuietStepContent
<1>2. CASE Accept
  BY <1>2, OthersOwn, AcceptContent
<1>3. CASE Serve
  BY <1>3, ServeOwns, ServeContent
<1>4. ASSUME NEW t \in Threads, Dlopen(t) PROVE AgentInv'
  BY <1>4, DlopenOwns, DlopenContent
<1>5. CASE KillConnect \/ KillSend
  BY <1>5, OthersOwn, KillConnectContent, KillSendContent
<1>6. ASSUME NEW c \in Clients, ClientStep(c) \/ ClientDies(c)
      PROVE  AgentInv'
  <2>1. OwnInv'
    BY <1>6, OthersOwn
  <2> QED BY <1>6, <2>1, ConnectContent, SendContent, ReceiveContent, ClientDiesContent DEF ClientStep
<1>7. CASE UNCHANGED vars
  <2>1. OwnInv'
    BY <1>7, OthersOwn
  <2>2. ContentInv'
    BY <1>7, QuietContent DEF vars, ContentInv, ClientShape, ClientTypes, Mine
  <2> QED BY <2>1, <2>2
<1>8. ASSUME NEW t \in Threads, Lookup(t) \/ LookupDone(t) \/ SwapStep(t) PROVE QuietStep
  BY <1>8 DEF QuietStep, Swappers
<1>9. AgentStep => QuietStep \/ Accept \/ Serve
  BY DEF AgentStep, QuietStep, Swappers
<1>10. Kill \/ EndStep => QuietStep \/ KillConnect \/ KillSend
  BY DEF EndStep, QuietStep
<1> QED BY <1>1, <1>2, <1>3, <1>4, <1>5, <1>6, <1>7, <1>8, <1>9, <1>10 DEF Next

\* A thread never looks into the copy that is being made, and all other trees are whole.
LEMMA InvImplies ==
    ASSUME AgentInv
    PROVE  TreesReplaced
<1> SUFFICES ASSUME ~raced
             PROVE  NoUseAfterFree /\ AllOrNothing /\ NoTreeLost
  BY DEF TreesReplaced
<1>1. NoUseAfterFree
  BY DEF AgentInv, OwnInv, TreesOwned, ReadersWaitedFor, NoUseAfterFree
<1>2. AllOrNothing
  <2> SUFFICES ASSUME NEW t \in Threads, NEW c \in Clients, reader[t] # 0
               PROVE  Together(tree[reader[t]], c)
    BY DEF AllOrNothing
  <2>1. reader[t] \in 1 .. Len(tree)
    BY DEF AgentInv, OwnInv, AgentTypes
  <2>2. ~Unfinished(reader[t], c)
    BY DEF AgentInv, OwnInv, ReadersWaitedFor, Unfinished
  <2> QED BY <2>1, <2>2 DEF AgentInv, ContentInv, TreesWhole
<1>3. NoTreeLost
  <2>1. DOMAIN tree = 1 .. Len(tree) /\ freed \subseteq 1 .. Len(tree)
    BY DEF AgentInv, OwnInv, AgentTypes
  <2> QED BY <2>1 DEF AgentInv, OwnInv, TreesOwned, Busy, NoTreeLost
<1> QED BY <1>1, <1>2, <1>3

\* Under any number of clients, threads, lists of options and calls of dlopen() at any time, as
\* long as no compare-and-swap found another tree than the one read before it: no thread looks
\* into a freed tree, what one connection sends up to an option that is refused comes into force
\* as a whole, and no tree is lost (swap_triggers(), agent_apply_commands()).
THEOREM TreesSafe == Spec => []TreesReplaced
<1>1. Init => AgentInv
  BY InitHolds
<1>2. AgentInv /\ [Next]_vars => AgentInv'
  BY StepHolds
<1>3. AgentInv => TreesReplaced
  BY InvImplies
<1> QED BY <1>1, <1>2, <1>3, PTL DEF Spec

-----------------------------------------------------------------------------
(* The end of the program *)

EndShape ==
    /\ agent = [pc |-> agent.pc, c |-> agent.c]
    /\ sock = [listen |-> sock.listen, file |-> sock.file, queue |-> sock.queue] /\ sock.listen \in BOOLEAN /\ sock.file \in BOOLEAN
    /\ proc = [pc |-> proc.pc, up |-> proc.up] /\ proc.up \in BOOLEAN /\ agent_run \in BOOLEAN

\* The socket listens as long as the agent runs, and agent_kill() waits only for an agent that did.
EndInv ==
    /\ EndShape
    /\ agent.pc = "init" => ~sock.listen /\ ~sock.file /\ ~agent_run /\ ~proc.up
    /\ proc.pc = "run" => ~proc.up
    /\ agent.pc = "gone" => ~sock.listen /\ ~sock.file
    /\ agent.pc \notin {"init", "gone"} => sock.listen
    /\ proc.pc \in {"kill", "send", "wait"} => proc.up
    /\ CleanEnd

\* When agent_kill() saw the agent running, the program ends after the agent did and without the
\* file of its socket (agent_kill(), agent_fini()).
THEOREM EndsClean == Spec => []CleanEnd
<1>1. Init => EndInv
  <2> SUFFICES ASSUME agent = [pc |-> "init", c |-> Killer], agent_run = FALSE,
                      sock = [listen |-> FALSE, file |-> FALSE, queue |-> << >>], proc = [pc |-> "run", up |-> FALSE]
               PROVE  EndInv
    BY DEF Init
  <2> QED BY DEF EndInv, EndShape, CleanEnd
<1>2. ASSUME EndInv, [Next]_vars PROVE EndInv'
  <2>1. ASSUME NEW ok \in BOOLEAN, Init_(ok) PROVE EndInv'
    <3>1. /\ UNCHANGED proc /\ agent.pc = "init" /\ agent_run' \in BOOLEAN
          /\ \/ sock' = [sock EXCEPT !.listen = TRUE, !.file = TRUE] /\ agent' = [agent EXCEPT !.pc = "loop"]
             \/ UNCHANGED sock /\ agent' = [agent EXCEPT !.pc = "gone"]
      BY <1>2, <2>1 DEF Init_, EndInv, EndShape, AgentAt
    <3>2. proc.pc \notin {"kill", "send", "wait"} /\ ~proc.up
      BY <1>2, <3>1 DEF EndInv
    <3> QED BY <1>2, <3>1, <3>2 DEF EndInv, EndShape, CleanEnd
  <2>2. CASE Loop
    BY <1>2, <2>2 DEF Loop, EndInv, EndShape, CleanEnd, AgentAt
  <2>3. CASE Accept
    BY <1>2, <2>3 DEF Accept, EndInv, EndShape, CleanEnd, AgentAt
  <2>4. CASE Serve \/ ServeGone
    <3>1. /\ agent' = [pc |-> agent'.pc, c |-> agent'.c] /\ agent'.c = agent.c /\ Alive
          /\ agent.pc = "read" /\ agent'.pc \in {"read", "swap"} /\ UNCHANGED <<sock, agent_run>>
          /\ proc' = proc \/ proc' = [proc EXCEPT !.pc = "killed"]
      BY <1>2, <2>4 DEF Serve, ServeGone, SetOption, Answer, EndInv, EndShape, AgentAt
    <3> QED BY <1>2, <3>1 DEF EndInv, EndShape, CleanEnd
  <2>5. CASE CloseConn
    BY <1>2, <2>5 DEF CloseConn, EndInv, EndShape, CleanEnd, AgentAt
  <2>6. CASE Fini
    BY <1>2, <2>6 DEF Fini, EndInv, EndShape, CleanEnd, AgentAt
  <2>7. ASSUME NEW c \in Clients, ClientStep(c) \/ ClientDies(c) PROVE EndInv'
    <3>1. /\ UNCHANGED <<agent, agent_run, proc>> /\ sock' = [listen |-> sock'.listen, file |-> sock'.file, queue |-> sock'.queue]
          /\ sock'.listen = sock.listen /\ sock'.file = sock.file
      BY <1>2, <2>7 DEF ClientStep, Connect, Send, Receive, ClientDies, EndInv, EndShape
    <3> QED BY <1>2, <3>1 DEF EndInv, EndShape, CleanEnd
  <2>8. ASSUME \/ \E x \in Swappers : SwapStep(x)
               \/ \E t \in Threads : Lookup(t) \/ LookupDone(t) \/ Dlopen(t)
               \/ UNCHANGED vars
        PROVE  EndInv'
    <3>1. UNCHANGED <<agent, agent_run, sock, proc>>
      BY <2>8 DEF Dlopen, SwapStep, SwapRead, SwapCas, SwapFree, Lookup, LookupDone, vars
    <3> QED BY <1>2, <3>1 DEF EndInv, EndShape, CleanEnd
  <2>9. CASE Kill
    <3>1. UNCHANGED <<agent, sock>> /\ agent_run' \in BOOLEAN /\ proc.pc = "run"
      BY <1>2, <2>9 DEF Kill, EndInv, EndShape
    <3>2. CASE agent_run /\ agent_run' = FALSE /\ proc' = [proc EXCEPT !.pc = "kill", !.up = TRUE]
      BY <1>2, <3>1, <3>2 DEF EndInv, EndShape, CleanEnd
    <3>3. CASE proc' = [proc EXCEPT !.pc = "finish"] /\ UNCHANGED agent_run
      <4>1. proc.up = FALSE
        BY <1>2, <3>1 DEF EndInv, EndShape
      <4>2. proc' = [pc |-> "finish", up |-> FALSE]
        BY <1>2, <3>3, <4>1 DEF EndInv, EndShape
      <4> QED BY <1>2, <3>1, <3>3, <4>1, <4>2 DEF EndInv, EndShape, CleanEnd
    <3> QED BY <2>9, <3>2, <3>3 DEF Kill
  <2>10. CASE KillConnect
    BY <1>2, <2>10 DEF KillConnect, EndInv, EndShape, CleanEnd
  <2>11. CASE KillSend
    <3>1. UNCHANGED <<agent, sock, agent_run>> /\ proc.pc = "send"
          /\ (proc' = [proc EXCEPT !.pc = "killed"] \/ proc' = [proc EXCEPT !.pc = "wait"])
      BY <2>11 DEF KillSend
    <3> QED BY <1>2, <3>1 DEF EndInv, EndShape, CleanEnd
  <2>12. CASE KillWait
    BY <1>2, <2>12 DEF KillWait, HungUp, Alive, EndInv, EndShape, CleanEnd
  <2>13. CASE Finish
    BY <1>2, <2>13 DEF Finish, EndInv, EndShape, CleanEnd
  <2>14. AgentStep => \/ \E ok \in BOOLEAN : Init_(ok)
                      \/ Loop \/ Accept \/ Serve \/ ServeGone \/ CloseConn \/ Fini \/ \E x \in Swappers : SwapStep(x)
    BY DEF AgentStep, Swappers
  <2>15. ASSUME NEW t \in Threads PROVE SwapStep(t) => \E x \in Swappers : SwapStep(x)
    BY DEF Swappers
  <2> QED BY <1>2, <2>1, <2>2, <2>3, <2>4, <2>5, <2>6, <2>7, <2>8, <2>9, <2>10, <2>11, <2>12, <2>13, <2>14, <2>15
          DEF Next, EndStep
<1>3. EndInv => CleanEnd
  BY DEF EndInv
<1> QED BY <1>1, <1>2, <1>3, PTL DEF Spec

=============================================================================
