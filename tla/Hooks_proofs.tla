----------------------------- MODULE Hooks_proofs ------------------------------
(***************************************************************************)
(* Proofs about the hooks libmcount puts into a traced program.            *)
(*                                                                         *)
(* PltGot, for any threads, any functions and any kinds of functions:      *)
(* PltCallsTraced holds in every reachable state.                          *)
(*                                                                         *)
(* RetAddr, for any number of slots and calls and any supported programs:  *)
(* every function returns to its caller, and slots and shadow stack agree, *)
(* whatever is thrown, jumped, forked, walked or finished meanwhile.  The  *)
(* invariant, RetInv, says of each thing the thread may be doing which     *)
(* slots hold the address of the caller (Unhooked) or the hook of their    *)
(* newest entry (Covers), and which entries know the address that was in   *)
(* their slot (Truthful).                                                  *)
(***************************************************************************)
EXTENDS PltGot, RetAddr, SequenceTheorems, WellFoundedInduction, NaturalsInduction, TLAPS

-----------------------------------------------------------------------------
(* PltGot: the GOT and the dynamic linker *)

Ats == {"out", "hooker", "linker", "in", "update", "check", "restore", "unlock"}

ThreadState == [at : Ats, f : LibFuncs \cup {"none"}, hooked : BOOLEAN, to : {Plt, Real, Ours, Nowhere}]

\* The variables keep their types; an address that is saved is the one of the function.
PltTypes ==
    /\ mode \in [bind : {"lazy", "now", "noplt"}, bindnot : BOOLEAN, estimate : BOOLEAN]
    /\ got \in [LibFuncs -> {Plt, Real, Ours}]
    /\ resolver \in {"ld", "hooker"}
    /\ resolved \in [LibFuncs -> {Nowhere, Real}]
    /\ thr \in [Threads -> ThreadState]
    /\ bailed \subseteq LibFuncs /\ raced \subseteq LibFuncs
    /\ wrong = FALSE

\* Before find_got() no thread makes a call and nothing is saved.
BeforeSetup ==
    resolver = "ld" =>
        /\ \A t \in Threads : thr[t] = Off
        /\ \A f \in LibFuncs : resolved[f] = Nowhere /\ got[f] = (IF mode.bind = "lazy" THEN Plt ELSE Real)

\* A thread that is in a call knows the function, and the calls of libmcount's own functions
\* are not hooked.
CallShape ==
    \A t \in Threads :
        /\ thr[t].at = "out" => thr[t] = Off
        /\ thr[t].at # "out" => thr[t].f \in LibFuncs
        /\ thr[t].at \in {"update", "check", "restore"} => thr[t].hooked /\ ~mode.bindnot
        /\ thr[t].at # "out" /\ Kind(thr[t].f) = "mcount" => thr[t].at = "in" /\ ~thr[t].hooked

\* What an entry of the table may hold.
GotShape ==
    resolver = "hooker" =>
        \A f \in LibFuncs :
            /\ Kind(f) = "mcount" => got[f] = (IF mode.bind = "noplt" THEN Real ELSE Ours)
            /\ Kind(f) # "mcount" => got[f] \in (IF mode.bindnot THEN {Plt} ELSE {Plt, Real})

\* A hooked call that still finds no saved address has been through the linker, and its
\* entry holds what the linker put there.
SavesReal ==
    \A t \in Threads :
        /\ thr[t].at \in {"in", "update", "check"} /\ thr[t].hooked /\ First(thr[t].f) /\ ~mode.bindnot
              => got[thr[t].f] = Real
        /\ thr[t].at = "restore" => ~First(thr[t].f)

\* Two threads are in the same function.
Together(t, u) == thr[t].at # "out" /\ thr[u].at # "out" /\ thr[t].f = thr[u].f

\* Unless the first calls overlapped, only one thread is in a function that is not resolved.
FirstAlone ==
    \A t, u \in Threads :
        t # u /\ Together(t, u) /\ thr[t].f \notin raced => ~First(thr[t].f) /\ thr[t].at # "linker"

\* A thread is in the linker only for a function that is not resolved; the call is hooked if
\* the function is not one of `bailed'.
InLinker ==
    \A t \in Threads :
        thr[t].at = "linker" =>
            /\ thr[t].hooked \/ thr[t].f \in bailed
            /\ First(thr[t].f) \/ thr[t].f \in raced

\* The thread that is going to make the entry of f lead to the PLT again
Restores(t, f) ==
    /\ thr[t].at # "out" /\ thr[t].f = f /\ thr[t].hooked
    /\ (thr[t].at \in {"in", "update", "check"} /\ First(f)) \/ thr[t].at = "restore"

\* An entry that leads to the function has a thread that restores it.
SomeoneRestores ==
    resolver = "hooker" =>
        \A f \in LibFuncs \ (bailed \cup raced) :
            Kind(f) # "mcount" /\ got[f] # Plt => \E t \in Threads : Restores(t, f)

PltInv == PltTypes /\ BeforeSetup /\ CallShape /\ GotShape /\ SavesReal /\ FirstAlone /\ InLinker /\ SomeoneRestores

USE DEF Plt, Real, Ours, Nowhere, Off, Ats

-----------------------------------------------------------------------------

\* find_got() keeps the invariant.
LEMMA SetupKeeps ==
    ASSUME PltInv, Setup
    PROVE  PltInv'
<1>1. PltTypes'
  BY DEF PltInv, PltTypes, ThreadState, RestoreFunction, HookNoPlt, BeforeSetup, Setup
<1>2. BeforeSetup'
  BY DEF PltInv, BeforeSetup, PltTypes, ThreadState, RestoreFunction, HookNoPlt, Setup
<1>3. CallShape'
  BY DEF PltInv, CallShape, PltTypes, ThreadState, RestoreFunction, HookNoPlt, BeforeSetup, Setup
<1>4. GotShape'
  BY DEF PltInv, GotShape, PltTypes, ThreadState, RestoreFunction, HookNoPlt, BeforeSetup, Setup
<1>5. SavesReal'
  BY DEF PltInv, SavesReal, First, PltTypes, ThreadState, RestoreFunction, HookNoPlt, BeforeSetup, Setup
<1>6. FirstAlone'
  BY DEF PltInv, FirstAlone, Together, First, PltTypes, ThreadState, RestoreFunction, HookNoPlt, BeforeSetup, Setup
<1>7. InLinker'
  BY DEF PltInv, InLinker, First, PltTypes, ThreadState, RestoreFunction, HookNoPlt, BeforeSetup, Setup
<1>8. SomeoneRestores'
  BY DEF PltInv, SomeoneRestores, Restores, First, PltTypes, ThreadState, RestoreFunction, HookNoPlt, BeforeSetup, Setup
<1> QED BY <1>1, <1>2, <1>3, <1>4, <1>5, <1>6, <1>7, <1>8 DEF PltInv

\* A call keeps the invariant.
LEMMA CallKeeps ==
    ASSUME PltInv, NEW t \in Threads, NEW f \in LibFuncs, PltCall(t, f)
    PROVE  PltInv'
<1>1. PltTypes'
  BY DEF PltInv, PltTypes, ThreadState, Inside, GotShape, CallShape, BeforeSetup, First, PltCall
<1>2. BeforeSetup'
  BY DEF PltInv, BeforeSetup, PltTypes, ThreadState, Inside, GotShape, CallShape, First, PltCall
<1>3. CallShape'
  BY DEF PltInv, CallShape, PltTypes, ThreadState, Inside, GotShape, BeforeSetup, First, PltCall
<1>4. GotShape'
  BY DEF PltInv, GotShape, PltTypes, ThreadState, Inside, CallShape, BeforeSetup, First, PltCall
<1>5. SavesReal'
  BY DEF PltInv, SavesReal, First, PltTypes, ThreadState, Inside, GotShape, CallShape, BeforeSetup, PltCall
<1>6. FirstAlone'
  <2>1. /\ thr'[t].f = f /\ thr'[t].at \in {"hooker", "in"}
        /\ \A u \in Threads \ {t} : thr'[u] = thr[u]
        /\ resolved' = resolved /\ raced \subseteq raced'
    BY DEF PltInv, PltTypes, ThreadState, PltCall
  <2>2. ASSUME NEW u \in Threads \ {t}, thr[u].at # "out", thr[u].f = f, f \notin raced'
        PROVE  ~First(f) /\ thr[u].at # "linker"
    BY <2>2 DEF PltInv, PltTypes, ThreadState, PltCall, Inside, First, InLinker
  <2> QED BY <2>1, <2>2 DEF PltInv, FirstAlone, Together, First
<1>7. InLinker'
  BY DEF PltInv, InLinker, First, PltTypes, ThreadState, Inside, GotShape, CallShape, BeforeSetup, PltCall
<1>8. SomeoneRestores'
  BY DEF PltInv, SomeoneRestores, Restores, First, PltTypes, ThreadState, Inside, GotShape, CallShape, BeforeSetup, PltCall
<1> QED BY <1>1, <1>2, <1>3, <1>4, <1>5, <1>6, <1>7, <1>8 DEF PltInv

\* plthook_entry() keeps the invariant.
LEMMA EntryKeeps ==
    ASSUME PltInv, NEW t \in Threads, NEW bail \in BOOLEAN, Entry(t, bail)
    PROVE  PltInv'
<1> DEFINE f == thr[t].f
           hook == ~bail /\ Kind(f) # "skip" /\ ~mode.estimate
<1>1. f \in LibFuncs /\ Kind(f) # "mcount" /\ thr[t].at = "hooker" /\ resolver = "hooker"
  BY DEF PltInv, PltTypes, ThreadState, CallShape, BeforeSetup, Entry
<1>2. /\ resolved' \in [LibFuncs -> {Nowhere, Real}]
      /\ \A g \in LibFuncs : resolved'[g] = resolved[g] \/ (g = f /\ resolved'[g] = Real)
  BY <1>1 DEF PltInv, PltTypes, ThreadState, Entry
<1>3. /\ thr' \in [Threads -> ThreadState]
      /\ thr'[t].f = f /\ thr'[t].hooked = hook
      /\ thr'[t].at = IF resolved'[f] = Nowhere THEN "linker" ELSE "in"
      /\ \A u \in Threads \ {t} : thr'[u] = thr[u]
  <2> DEFINE at == IF resolved'[f] = Nowhere THEN "linker" ELSE "in"
             to == IF resolved'[f] = Nowhere THEN thr[t].to ELSE resolved'[f]
             new == [at |-> at, f |-> f, hooked |-> hook, to |-> to]
  <2>1. thr' = [thr EXCEPT ![t] = new]
    BY DEF Entry
  <2>2. thr \in [Threads -> ThreadState] /\ f \in LibFuncs \cup {"none"}
    BY <1>1 DEF PltInv, PltTypes
  <2>3. new \in ThreadState
    BY <1>1, <1>2, <2>2 DEF ThreadState
  <2>4. thr' \in [Threads -> ThreadState] /\ thr'[t] = new /\ \A u \in Threads \ {t} : thr'[u] = thr[u]
    <3> HIDE DEF new
    <3> QED BY <2>1, <2>2, <2>3
  <2> QED BY <2>4
<1>4. /\ bailed \subseteq bailed' /\ bailed' \subseteq LibFuncs /\ (hook \/ f \in bailed')
      /\ wrong' = FALSE /\ UNCHANGED <<mode, got, resolver, lock, raced>>
  BY <1>1, <1>2 DEF PltInv, PltTypes, ThreadState, Entry
<1> HIDE DEF hook
<1>5. PltTypes'
  BY <1>2, <1>3, <1>4 DEF PltInv, PltTypes, ThreadState
<1>6. BeforeSetup' /\ GotShape'
  BY <1>1, <1>4 DEF PltInv, BeforeSetup, GotShape
<1>7. CallShape'
  BY <1>1, <1>3, <1>4 DEF PltInv, CallShape
<1>8. SavesReal'
  BY <1>1, <1>2, <1>3, <1>4 DEF PltInv, SavesReal, First, CallShape, PltTypes, ThreadState
<1>9. FirstAlone'
  <2>1. ASSUME NEW u \in Threads \ {t}, Together(t, u), f \notin raced
        PROVE  ~First(f)
    BY <2>1 DEF PltInv, FirstAlone
  <2> QED BY <1>1, <1>2, <1>3, <1>4, <2>1 DEF PltInv, FirstAlone, Together, First, CallShape
<1>10. InLinker'
  <2>1. ASSUME NEW u \in Threads \ {t}, thr[u].at = "linker", thr[u].f = f
        PROVE  f \in raced
    BY <1>1, <2>1 DEF PltInv, FirstAlone, Together
  <2> QED BY <1>1, <1>2, <1>3, <1>4, <2>1 DEF PltInv, InLinker, First, CallShape
<1>11. SomeoneRestores'
  <2>1. ASSUME NEW g \in LibFuncs \ (bailed \cup raced), NEW u \in Threads, Restores(u, g)
        PROVE  Restores(u, g)'
    <3>1. u # t
      BY <1>1, <2>1 DEF Restores
    <3>2. g = f => ~First(g)
      BY <1>1, <2>1, <3>1 DEF PltInv, FirstAlone, Together, Restores
    <3> QED BY <1>1, <1>2, <1>3, <2>1, <3>1, <3>2 DEF Restores, First
  <2> QED BY <1>4, <1>1, <2>1 DEF PltInv, SomeoneRestores
<1> QED BY <1>5, <1>6, <1>7, <1>8, <1>9, <1>10, <1>11 DEF PltInv

\* The linker keeps the invariant.
LEMMA LinkerKeeps ==
    ASSUME PltInv, NEW t \in Threads, LinkerResolves(t)
    PROVE  PltInv'
<1>0. thr[t].f \in LibFuncs /\ Kind(thr[t].f) # "mcount" /\ resolver = "hooker"
  BY DEF PltInv, PltTypes, ThreadState, CallShape, BeforeSetup, LinkerResolves
<1>1. PltTypes'
  <2>1. got' \in [LibFuncs -> {Plt, Real, Ours}]
    BY <1>0 DEF PltInv, PltTypes, ThreadState, LinkerResolves
  <2>2. thr' \in [Threads -> ThreadState]
    <3>1. thr' = [thr EXCEPT ![t].at = "in", ![t].to = Real] /\ thr \in [Threads -> ThreadState]
      BY DEF LinkerResolves, PltInv, PltTypes
    <3> QED BY ZenonT(60), <3>1 DEF ThreadState
  <2> QED BY <2>1, <2>2 DEF PltInv, PltTypes, ThreadState, LinkerResolves
<1>2. BeforeSetup'
  BY DEF PltInv, BeforeSetup, PltTypes, ThreadState, CallShape, First, FirstAlone, Together, InLinker, LinkerResolves
<1>3. CallShape'
  <2>1. /\ \A u \in Threads \ {t} : thr'[u] = thr[u]
        /\ thr'[t].at = "in" /\ thr'[t].f = thr[t].f /\ thr'[t].hooked = thr[t].hooked
        /\ mode' = mode
    BY DEF PltInv, PltTypes, ThreadState, LinkerResolves
  <2> QED BY <1>0, <2>1 DEF PltInv, CallShape
<1>4. GotShape'
  BY DEF PltInv, GotShape, PltTypes, ThreadState, CallShape, BeforeSetup, First, FirstAlone, Together, InLinker, LinkerResolves
<1>5. SavesReal'
  BY DEF PltInv, SavesReal, First, PltTypes, ThreadState, CallShape, BeforeSetup, FirstAlone, Together, InLinker, LinkerResolves
<1>6. FirstAlone'
  BY DEF PltInv, FirstAlone, Together, First, PltTypes, ThreadState, CallShape, BeforeSetup, InLinker, LinkerResolves
<1>7. InLinker'
  BY DEF PltInv, InLinker, First, PltTypes, ThreadState, CallShape, BeforeSetup, FirstAlone, Together, LinkerResolves
<1>8. SomeoneRestores'
  BY DEF PltInv, SomeoneRestores, Restores, First, PltTypes, ThreadState, CallShape, BeforeSetup, FirstAlone, Together, InLinker, LinkerResolves
<1> QED BY <1>1, <1>2, <1>3, <1>4, <1>5, <1>6, <1>7, <1>8 DEF PltInv

\* A return keeps the invariant.
LEMMA ReturnKeeps ==
    ASSUME PltInv, NEW t \in Threads, PltReturn(t)
    PROVE  PltInv'
<1>1. PltTypes'
  BY DEF PltInv, PltTypes, ThreadState, CallShape, BeforeSetup, First, FirstAlone, Together, SavesReal, PltReturn
<1>2. BeforeSetup'
  BY DEF PltInv, BeforeSetup, PltTypes, ThreadState, CallShape, First, FirstAlone, Together, SavesReal, PltReturn
<1>3. CallShape'
  <2>1. /\ \A u \in Threads \ {t} : thr'[u] = thr[u]
        /\ \/ thr'[t] = Off
           \/ thr'[t].at = "update" /\ thr'[t].f = thr[t].f /\ thr'[t].hooked = thr[t].hooked /\ thr[t].hooked /\ ~mode.bindnot
        /\ thr[t].f \in LibFuncs /\ mode' = mode
    BY ZenonT(60) DEF PltInv, CallShape, PltTypes, ThreadState, PltReturn
  <2>2. ASSUME NEW u \in Threads PROVE CallShape!(u)'
    <3>1. CASE thr'[u] = Off
      BY <3>1
    <3>2. CASE thr'[u] # Off
      BY <2>1, <3>2 DEF PltInv, CallShape, PltReturn
    <3> QED BY <3>1, <3>2
  <2> QED BY <2>2 DEF CallShape
<1>4. GotShape'
  BY DEF PltInv, GotShape, PltTypes, ThreadState, CallShape, BeforeSetup, First, FirstAlone, Together, SavesReal, PltReturn
<1>5. SavesReal'
  BY DEF PltInv, SavesReal, First, PltTypes, ThreadState, CallShape, BeforeSetup, FirstAlone, Together, PltReturn
<1>6. FirstAlone'
  BY DEF PltInv, FirstAlone, Together, First, PltTypes, ThreadState, CallShape, BeforeSetup, SavesReal, PltReturn
<1>7. InLinker'
  BY DEF PltInv, InLinker, First, PltTypes, ThreadState, CallShape, BeforeSetup, FirstAlone, Together, SavesReal, PltReturn
<1>8. SomeoneRestores'
  <2>1. ASSUME NEW f \in LibFuncs, NEW u \in Threads, Restores(u, f), got[f] # Plt, Kind(f) # "mcount", resolver = "hooker"
        PROVE  Restores(u, f)'
    <3>1. ~mode.bindnot
      BY <2>1 DEF PltInv, GotShape
    <3> QED BY <2>1, <3>1 DEF PltInv, PltTypes, ThreadState, Restores, First, PltReturn
  <2>2. UNCHANGED <<got, resolver, bailed, raced>>
    BY DEF PltReturn
  <2> QED BY <2>1, <2>2 DEF PltInv, SomeoneRestores
<1> QED BY <1>1, <1>2, <1>3, <1>4, <1>5, <1>6, <1>7, <1>8 DEF PltInv

\* Taking resolver_mutex keeps the invariant.
LEMMA TakeLockKeeps ==
    ASSUME PltInv, NEW t \in Threads, TakeLock(t)
    PROVE  PltInv'
<1>1. PltTypes'
  BY DEF PltInv, PltTypes, ThreadState, CallShape, BeforeSetup, TakeLock
<1>2. BeforeSetup'
  BY DEF PltInv, BeforeSetup, PltTypes, ThreadState, CallShape, TakeLock
<1>3. CallShape'
  BY DEF PltInv, CallShape, PltTypes, ThreadState, BeforeSetup, TakeLock
<1>4. GotShape'
  BY DEF PltInv, GotShape, PltTypes, ThreadState, CallShape, BeforeSetup, TakeLock
<1>5. SavesReal'
  BY DEF PltInv, SavesReal, First, PltTypes, ThreadState, CallShape, BeforeSetup, TakeLock
<1>6. FirstAlone'
  BY DEF PltInv, FirstAlone, Together, First, PltTypes, ThreadState, CallShape, BeforeSetup, TakeLock
<1>7. InLinker'
  BY DEF PltInv, InLinker, First, PltTypes, ThreadState, CallShape, BeforeSetup, TakeLock
<1>8. SomeoneRestores'
  BY DEF PltInv, SomeoneRestores, Restores, First, PltTypes, ThreadState, CallShape, BeforeSetup, TakeLock
<1> QED BY <1>1, <1>2, <1>3, <1>4, <1>5, <1>6, <1>7, <1>8 DEF PltInv

\* Saving the address keeps the invariant.
LEMMA CheckAgainKeeps ==
    ASSUME PltInv, NEW t \in Threads, CheckAgain(t)
    PROVE  PltInv'
<1>1. PltTypes'
  BY DEF PltInv, PltTypes, ThreadState, CallShape, BeforeSetup, First, FirstAlone, Together, SavesReal, CheckAgain
<1>2. BeforeSetup'
  BY DEF PltInv, BeforeSetup, PltTypes, ThreadState, CallShape, First, FirstAlone, Together, SavesReal, CheckAgain
<1>3. CallShape'
  <2>1. /\ \A u \in Threads \ {t} : thr'[u] = thr[u]
        /\ thr'[t].at \in {"restore", "unlock"} /\ thr'[t].f = thr[t].f /\ thr'[t].hooked = thr[t].hooked
        /\ mode' = mode /\ thr[t].at = "check"
    BY DEF PltInv, PltTypes, ThreadState, CheckAgain
  <2>2. /\ thr'[t].f \in LibFuncs /\ Kind(thr'[t].f) # "mcount" /\ thr'[t].hooked /\ ~mode'.bindnot
    BY <2>1 DEF PltInv, CallShape
  <2>3. ASSUME NEW u \in Threads PROVE CallShape!(u)'
    BY <2>1, <2>2 DEF PltInv, CallShape
  <2> QED BY <2>3 DEF CallShape
<1>4. GotShape'
  BY DEF PltInv, GotShape, PltTypes, ThreadState, CallShape, BeforeSetup, First, FirstAlone, Together, SavesReal, CheckAgain
<1>5. SavesReal'
  BY DEF PltInv, SavesReal, First, PltTypes, ThreadState, CallShape, BeforeSetup, FirstAlone, Together, CheckAgain
<1>6. FirstAlone'
  BY DEF PltInv, FirstAlone, Together, First, PltTypes, ThreadState, CallShape, BeforeSetup, SavesReal, CheckAgain
<1>7. InLinker'
  BY DEF PltInv, InLinker, First, PltTypes, ThreadState, CallShape, BeforeSetup, FirstAlone, Together, SavesReal, CheckAgain
<1>8. SomeoneRestores'
  BY DEF PltInv, SomeoneRestores, Restores, First, PltTypes, ThreadState, CallShape, BeforeSetup, FirstAlone, Together, SavesReal, CheckAgain
<1> QED BY <1>1, <1>2, <1>3, <1>4, <1>5, <1>6, <1>7, <1>8 DEF PltInv

\* Restoring the entry keeps the invariant.
LEMMA RestorePltKeeps ==
    ASSUME PltInv, NEW t \in Threads, RestorePlt(t)
    PROVE  PltInv'
<1>1. PltTypes'
  BY DEF PltInv, PltTypes, ThreadState, CallShape, BeforeSetup, First, FirstAlone, Together, SavesReal, RestorePlt
<1>2. BeforeSetup'
  BY DEF PltInv, BeforeSetup, PltTypes, ThreadState, CallShape, First, FirstAlone, Together, SavesReal, RestorePlt
<1>3. CallShape'
  BY DEF PltInv, CallShape, PltTypes, ThreadState, BeforeSetup, First, FirstAlone, Together, SavesReal, RestorePlt
<1>4. GotShape'
  BY DEF PltInv, GotShape, PltTypes, ThreadState, CallShape, BeforeSetup, First, FirstAlone, Together, SavesReal, RestorePlt
<1>5. SavesReal'
  BY DEF PltInv, SavesReal, First, PltTypes, ThreadState, CallShape, BeforeSetup, FirstAlone, Together, RestorePlt
<1>6. FirstAlone'
  BY DEF PltInv, FirstAlone, Together, First, PltTypes, ThreadState, CallShape, BeforeSetup, SavesReal, RestorePlt
<1>7. InLinker'
  BY DEF PltInv, InLinker, First, PltTypes, ThreadState, CallShape, BeforeSetup, FirstAlone, Together, SavesReal, RestorePlt
<1>8. SomeoneRestores'
  BY DEF PltInv, SomeoneRestores, Restores, First, PltTypes, ThreadState, CallShape, BeforeSetup, FirstAlone, Together, SavesReal, RestorePlt
<1> QED BY <1>1, <1>2, <1>3, <1>4, <1>5, <1>6, <1>7, <1>8 DEF PltInv

\* Releasing resolver_mutex keeps the invariant.
LEMMA UnlockKeeps ==
    ASSUME PltInv, NEW t \in Threads, Unlock(t)
    PROVE  PltInv'
<1>1. PltTypes'
  BY DEF PltInv, PltTypes, ThreadState, CallShape, BeforeSetup, Unlock
<1>2. BeforeSetup'
  BY DEF PltInv, BeforeSetup, PltTypes, ThreadState, CallShape, Unlock
<1>3. CallShape'
  BY DEF PltInv, CallShape, PltTypes, ThreadState, BeforeSetup, Unlock
<1>4. GotShape'
  BY DEF PltInv, GotShape, PltTypes, ThreadState, CallShape, BeforeSetup, Unlock
<1>5. SavesReal'
  BY DEF PltInv, SavesReal, First, PltTypes, ThreadState, CallShape, BeforeSetup, Unlock
<1>6. FirstAlone'
  BY DEF PltInv, FirstAlone, Together, First, PltTypes, ThreadState, CallShape, BeforeSetup, Unlock
<1>7. InLinker'
  BY DEF PltInv, InLinker, First, PltTypes, ThreadState, CallShape, BeforeSetup, Unlock
<1>8. SomeoneRestores'
  BY DEF PltInv, SomeoneRestores, Restores, First, PltTypes, ThreadState, CallShape, BeforeSetup, Unlock
<1> QED BY <1>1, <1>2, <1>3, <1>4, <1>5, <1>6, <1>7, <1>8 DEF PltInv

\* Every step keeps the invariant.
LEMMA StepKeeps == PltInv /\ [PltNext]_pltVars => PltInv'
<1> SUFFICES ASSUME PltInv, [PltNext]_pltVars PROVE PltInv'
  OBVIOUS
<1>1. CASE UNCHANGED pltVars
  BY <1>1 DEF PltInv, PltTypes, ThreadState, BeforeSetup, CallShape, GotShape, SavesReal, FirstAlone, Together, InLinker, SomeoneRestores,
              Restores, First, pltVars
<1>2. CASE PltNext
  BY <1>2, SetupKeeps, CallKeeps, EntryKeeps, LinkerKeeps, ReturnKeeps, TakeLockKeeps, CheckAgainKeeps, RestorePltKeeps,
     UnlockKeeps DEF PltNext
<1> QED BY <1>1, <1>2

\* The invariant holds before find_got().
LEMMA InitHolds == PltInit => PltInv
BY DEF PltInit, PltInv, PltTypes, ThreadState, BeforeSetup, CallShape, GotShape, SavesReal, FirstAlone, Together, InLinker, SomeoneRestores

\* The invariant says what the properties need.
LEMMA InvImplies == PltInv => PltCallsTraced
<1> SUFFICES ASSUME PltInv PROVE PltCallsTraced
  OBVIOUS
<1>1. CallsReachTarget
  BY DEF PltInv, PltTypes, ThreadState, CallShape, CallsReachTarget
<1>2. HookStays
  BY DEF PltInv, SomeoneRestores, Restores, Inside, HookStays
<1> QED BY <1>1, <1>2 DEF PltCallsTraced

\* For any threads and functions: library calls reach the function that was called, and the
\* next call goes through plt_hooker again, also when threads resolve functions at the same time
\* (update_pltgot(), setup_pltgot(), __plthook_exit()).
THEOREM PltTraced == PltSpec => []PltCallsTraced
<1>1. PltSpec => []PltInv
  BY InitHolds, StepKeeps, PTL DEF PltSpec
<1> QED BY <1>1, InvImplies, PTL

-----------------------------------------------------------------------------
(* Shadow stack and slots *)

Rstacks == [loc : 1 .. MaxSlots, ip : Int, plt : BOOLEAN, flag : {"none", "RECOVER", "LONGJMP"}]
Memory == [1 .. MaxSlots -> Int]

\* The first and the last entry of a slot
Oldest(r, j) == j = 1 \/ r[j - 1].loc # r[j].loc
Newest(r, j) == j = Len(r) \/ r[j + 1].loc # r[j].loc

\* Entries are in the order of their slots.
Sorted(r) == \A i, j \in 1 .. Len(r) : i <= j => r[i].loc <= r[j].loc

\* The entries of slots up to n know what was in the slot: the oldest the address the caller
\* pushed, the others the hook of the entry before.
Tells(r, h, n) ==
    \A j \in 1 .. Len(r) : r[j].loc <= n =>
        r[j].ip = IF Oldest(r, j) THEN h[r[j].loc] ELSE HookOf(r[j - 1])

Truthful(r, h, n) == Sorted(r) /\ Tells(r, h, n)

Within(r, n) == \A j \in 1 .. Len(r) : r[j].loc <= n

\* Each slot up to n has its address or the hook of its newest entry.
Covers(r, m, h, n) ==
    \A i \in 1 .. n : m[i] # h[i] =>
        \E j \in 1 .. Len(r) : r[j].loc = i /\ Newest(r, j) /\ m[i] = HookOf(r[j])

\* The last entry's slot is hooked for it.
TopHooked(r, m) == r # << >> => m[Last(r).loc] = HookOf(Last(r))

Good(r, m, h, n) == Truthful(r, h, n) /\ Within(r, n) /\ Covers(r, m, h, n) /\ TopHooked(r, m)

\* The last entry, of slot n + 1, is being left.
Leaving(r, m, h, n) ==
    /\ Truthful(r, h, n + 1) /\ Within(r, n + 1) /\ Covers(r, m, h, n)
    /\ r # << >> /\ Last(r).loc = n + 1

\* No hook is left in the slots up to n.
Unhooked(m, h, n) == \A i \in 1 .. n : m[i] = h[i]

\* What a walk needs to hook slots again: the entries of a slot are of one kind.
Uniform(r) == \A i, j \in 1 .. Len(r) : r[i].loc = r[j].loc => r[i].plt = r[j].plt
NoPlt(r) == \A j \in 1 .. Len(r) : ~r[j].plt

\* The entries below slot n are the first k.
Splits(r, k, n) == k <= Len(r) /\ \A j \in 1 .. Len(r) : r[j].loc < n <=> j <= k

-----------------------------------------------------------------------------
(* The invariant *)

TypeInv ==
    /\ Supported(program)
    /\ sp \in 0 .. MaxSlots /\ ncalls \in Nat
    /\ mem \in Memory /\ home \in [1 .. MaxSlots -> Nat]
    /\ \A i \in 1 .. MaxSlots : home[i] <= ncalls
    /\ rs \in Seq(Rstacks)
    /\ pc \in {"run", "mret", "pret", "walk", "unwind", "exiting"}
    /\ in_exc \in BOOLEAN /\ stop \in BOOLEAN /\ dead \in BOOLEAN
    /\ pad \in 0 .. sp
    /\ jmpbuf \in [rs : Seq(Rstacks), ip : {PRet}, slot : 0 .. MaxSlots, home : Nat, owner : Nat]
    /\ vf \in [idx : Nat, top : [loc : 0 .. MaxSlots, ip : Int, plt : BOOLEAN, flag : {"none"}],
               slot : 0 .. MaxSlots, home : Nat, child : BOOLEAN]

\* The slot of a call that is being left
LeftSlot == pc \in {"mret", "pret"} => sp < MaxSlots

\* What is only in programs that do it
OnlyIf ==
    /\ stop => "finish" \in program
    /\ dead => stop
    /\ in_exc \/ pad > 0 \/ pc = "unwind" => "throw" \in program
    /\ vf.idx > 0 => "vfork" \in program /\ pad = 0
    /\ vf.child => vf.idx > 0 /\ pc # "unwind"
    /\ in_exc => pc \in {"run", "pret", "unwind"} /\ (pc # "unwind" => pad > 0)
    /\ pc = "unwind" => pad = 0 /\ (in_exc \/ dead)
    /\ pc = "walk" => "backtrace" \in program
    /\ vf.idx > 0 /\ ~vf.child => pc = "pret"

\* longjmp() or the parent of vfork() is about to go on: the shadow stack is replaced.
Jumps == pc = "pret" /\ rs # << >> /\ Last(rs).flag = "LONGJMP" /\ vf.idx = 0
Resumes == pc = "pret" /\ vf.idx > 0 /\ ~vf.child

\* The copy of the shadow stack in jmp_buf can be used as long as the frame that called
\* setjmp() is there: up to its slot it is the shadow stack.
Usable == jmpbuf.slot > 0 /\ jmpbuf.slot <= sp + 1 /\ jmpbuf.owner = FrameAt(jmpbuf.slot - 1)

\* Up to the slot of setjmp() and its entry, a shadow stack is the copy.
CopyOf(r, b) ==
    /\ b.rs # << >> /\ Last(b.rs) = Rstack(b.slot, b.home, TRUE)
    /\ Splits(r, Len(b.rs) - 1, b.slot) /\ \A j \in 1 .. Len(b.rs) - 1 : r[j] = b.rs[j]

JmpInv ==
    /\ jmpbuf.owner <= ncalls
    /\ Usable /\ ~dead /\ pc # "exiting" => CopyOf(rs, jmpbuf)

\* The parent of vfork() finds its entries and its frames as they were.
VforkInv ==
    vf.idx > 0 =>
        /\ vf.slot > 0 /\ vf.slot <= sp + 1
        /\ vf.top = Rstack(vf.slot, vf.home, TRUE)
        /\ Splits(rs, vf.idx - 1, vf.slot)

\* What is known of slots and shadow stack, by what the thread does
InCleanup == in_exc /\ pc = "run" /\ sp = pad
CleanupCalls == in_exc /\ pc = "run" /\ sp # pad

Placed ==
    /\ pc = "exiting" => Unhooked(mem, home, sp) /\ ~dead
    /\ dead => pc \in {"run", "unwind"} /\ rs = << >> /\ Unhooked(mem, home, sp)
    /\ pc = "walk" => Truthful(rs, home, sp) /\ Within(rs, sp) /\ Unhooked(mem, home, sp)
    /\ pc = "unwind" \/ InCleanup => Truthful(rs, home, sp) /\ Unhooked(mem, home, sp)
    /\ Jumps => /\ Usable /\ sp = jmpbuf.slot - 1 /\ Last(rs).loc > sp
                /\ Covers(rs, mem, home, sp) /\ Truthful(rs, home, sp)
    /\ Resumes => sp = vf.slot - 1 /\ Covers(rs, mem, home, sp) /\ Truthful(rs, home, sp)
    /\ CleanupCalls =>
          /\ sp = pad + 1 /\ rs # << >> /\ Last(rs) = Rstack(sp, home[sp], TRUE)
          /\ Truthful(Front(rs), home, pad) /\ Unhooked(mem, home, pad) /\ mem[sp] = PRet
    /\ in_exc /\ pc = "pret" =>
          /\ sp = pad /\ rs # << >> /\ Last(rs) = Rstack(sp + 1, home[sp + 1], TRUE)
          /\ Truthful(Front(rs), home, sp) /\ Unhooked(mem, home, sp)
    /\ pc = "run" /\ ~in_exc /\ ~dead => Good(rs, mem, home, sp)
    /\ pc = "mret" => Leaving(rs, mem, home, sp) /\ ~Last(rs).plt
    /\ pc = "pret" /\ ~in_exc /\ ~Jumps /\ ~Resumes => Leaving(rs, mem, home, sp) /\ Last(rs).plt

\* The shadow stack without a PLT call that is about to return
Base ==
    IF (pc = "pret" /\ ~Resumes /\ rs # << >>) \/ CleanupCalls THEN Front(rs) ELSE rs

\* A program that walks its stack has slots of one kind, and hooks them all again at the exit
\* of a function with the `recover' trigger.
Kinds ==
    /\ \A j \in 1 .. Len(rs) : rs[j].flag = "LONGJMP" => j = Len(rs) /\ pc = "pret" /\ vf.idx = 0
    /\ \A j \in 1 .. Len(rs) : rs[j].flag = "RECOVER" => ~rs[j].plt /\ "recover" \in program
    /\ Walks(program) => Uniform(Base) /\ ("tail" \in program => NoPlt(Base))

RetInv == TypeInv /\ LeftSlot /\ OnlyIf /\ JmpInv /\ VforkInv /\ Placed /\ Kinds /\ ReturnsToCaller

-----------------------------------------------------------------------------
(* Sequences and choices *)

Least(S) == CHOOSE j \in S : \A k \in S : j <= k
Greatest(S) == CHOOSE j \in S : \A k \in S : k <= j

\* The least of some positions
LEMMA LeastFacts ==
    ASSUME NEW n \in Nat, NEW S \in SUBSET (1 .. n), S # {}
    PROVE  Least(S) \in S /\ \A j \in S : Least(S) <= j
<1> DEFINE R == OpToRel(<, Nat)
<1>1. IsWellFoundedOn(R, Nat)
  BY NatLessThanWellFounded
<1>2. S \subseteq Nat
  OBVIOUS
<1>3. \A x, y \in Nat : y < x => <<y, x>> \in R
  BY DEF OpToRel
<1> HIDE DEF R
<1>4. PICK x \in S : \A y \in S : ~(<<y, x>> \in R)
  BY <1>1, <1>2, WFMin
<1>5. \A y \in S : x <= y
  <2> TAKE y \in S
  <2>1. x \in Nat /\ y \in Nat
    BY <1>2
  <2>2. ~(y < x)
    BY <2>1, <1>3, <1>4
  <2> QED BY <2>1, <2>2
<1> QED BY <1>5 DEF Least

\* The greatest: n minus the least of the mirrored positions
LEMMA GreatestFacts ==
    ASSUME NEW n \in Nat, NEW S \in SUBSET (1 .. n), S # {}
    PROVE  Greatest(S) \in S /\ \A j \in S : j <= Greatest(S)
<1> DEFINE T == {k \in 1 .. n : n + 1 - k \in S}
<1>1. T \in SUBSET (1 .. n)
  OBVIOUS
<1>2. \A j \in S : n + 1 - j \in T
  OBVIOUS
<1>3. T # {}
  BY <1>2
<1>4. Least(T) \in T /\ \A k \in T : Least(T) <= k
  <2> HIDE DEF T
  <2> QED BY <1>1, <1>3, LeastFacts
<1>5. PICK l \in 1 .. n : n + 1 - l \in S /\ \A k \in T : l <= k
  BY <1>4
<1>6. \A j \in S : l <= n + 1 - j
  <2> HIDE DEF T
  <2> QED BY <1>2, <1>5
<1>7. \A j \in S : j <= n + 1 - l
  <2> TAKE j \in S
  <2>1. j \in 1 .. n /\ l <= n + 1 - j
    BY <1>6
  <2> QED BY <2>1
<1>8. \E g \in S : \A j \in S : j <= g
  BY <1>5, <1>7
<1> QED BY <1>8 DEF Greatest

\* The entries of a shadow stack
LEMMA EntryFacts ==
    ASSUME NEW r \in Seq(Rstacks), NEW j \in 1 .. Len(r)
    PROVE  /\ r[j] \in Rstacks /\ r[j].loc \in 1 .. MaxSlots /\ r[j].ip \in Int
           /\ r[j].plt \in BOOLEAN /\ r[j].flag \in {"none", "RECOVER", "LONGJMP"}
<1>1. r[j] \in Rstacks
  OBVIOUS
<1> QED BY <1>1 DEF Rstacks

\* A prefix of a shadow stack
LEMMA PrefixFacts ==
    ASSUME NEW r \in Seq(Rstacks), NEW k \in 0 .. Len(r)
    PROVE  /\ SubSeq(r, 1, k) \in Seq(Rstacks) /\ Len(SubSeq(r, 1, k)) = k
           /\ \A j \in 1 .. k : SubSeq(r, 1, k)[j] = r[j]
<1>1. k \in Nat /\ Len(r) \in Nat /\ \A j \in 1 .. k : r[j] \in Rstacks
  OBVIOUS
<1>2. /\ SubSeq(r, 1, k) \in Seq(Rstacks)
      /\ Len(SubSeq(r, 1, k)) = IF 1 <= k THEN k - 1 + 1 ELSE 0
      /\ \A j \in 1 .. k - 1 + 1 : SubSeq(r, 1, k)[j] = r[1 + j - 1]
  BY <1>1, SubSeqProperties
<1> QED BY <1>1, <1>2

\* The last entry of a shadow stack, and the others
LEMMA FrontFacts ==
    ASSUME NEW r \in Seq(Rstacks), r # << >>
    PROVE  /\ Len(r) \in Nat \ {0} /\ Last(r) = r[Len(r)] /\ Last(r) \in Rstacks
           /\ Front(r) \in Seq(Rstacks) /\ Len(Front(r)) = Len(r) - 1
           /\ \A j \in 1 .. Len(r) - 1 : Front(r)[j] = r[j]
<1>1. Len(r) \in Nat \ {0}
  OBVIOUS
<1>2. Last(r) = r[Len(r)] /\ r[Len(r)] \in Rstacks
  BY <1>1 DEF Last
<1>3. Front(r) = SubSeq(r, 1, Len(r) - 1) /\ Len(r) - 1 \in 0 .. Len(r)
  BY <1>1 DEF Front
<1>4. PICK k \in 0 .. Len(r) : k = Len(r) - 1
  BY <1>3
<1>5. Front(r) \in Seq(Rstacks) /\ Len(Front(r)) = k /\ \A j \in 1 .. k : Front(r)[j] = r[j]
  BY <1>3, <1>4, PrefixFacts
<1> QED BY <1>1, <1>2, <1>4, <1>5

\* A shadow stack with one more entry
LEMMA PushFacts ==
    ASSUME NEW r \in Seq(Rstacks), NEW e \in Rstacks
    PROVE  /\ Append(r, e) \in Seq(Rstacks) /\ Append(r, e) # << >>
           /\ Len(Append(r, e)) = Len(r) + 1 /\ Append(r, e)[Len(r) + 1] = e
           /\ \A j \in 1 .. Len(r) : Append(r, e)[j] = r[j]
           /\ Last(Append(r, e)) = e /\ Front(Append(r, e)) = r
<1> DEFINE q == Append(r, e)
<1>1. /\ q \in Seq(Rstacks) /\ Len(q) = Len(r) + 1 /\ q[Len(r) + 1] = e
      /\ \A j \in 1 .. Len(r) : q[j] = r[j]
  OBVIOUS
<1>2. q # << >> /\ Len(r) \in Nat
  BY <1>1
<1> HIDE DEF q
<1>3. Last(q) = e
  BY <1>1, <1>2, FrontFacts
<1>4. Front(q) = r
  <2>1. /\ Front(q) \in Seq(Rstacks) /\ Len(Front(q)) = Len(r)
        /\ \A j \in 1 .. Len(r) : Front(q)[j] = r[j]
    BY <1>1, <1>2, FrontFacts
  <2> QED BY <2>1, SeqEqual
<1> QED BY <1>1, <1>2, <1>3, <1>4 DEF q

\* The type of an entry
LEMMA RstackType ==
    ASSUME NEW l \in 1 .. MaxSlots, NEW a \in Int, NEW p \in BOOLEAN
    PROVE  /\ Rstack(l, a, p) \in Rstacks /\ Rstack(l, a, p).loc = l /\ Rstack(l, a, p).ip = a
           /\ Rstack(l, a, p).plt = p /\ Rstack(l, a, p).flag = "none"
  BY DEF Rstack, Rstacks

LEMMA HookFacts ==
    ASSUME NEW e \in Rstacks
    PROVE  /\ HookOf(e) \in Hooks /\ HookOf(e) \in Int /\ HookOf(e) < 0
           /\ (HookOf(e) = MRet <=> ~e.plt) /\ (HookOf(e) = PRet <=> e.plt)
  BY DEF HookOf, Hooks, MRet, PRet, Rstacks

-----------------------------------------------------------------------------
(* mcount_rstack_restore() and mcount_rstack_rehook() *)

Homes == [1 .. MaxSlots -> Nat]

\* A slot keeps its value when all its entries hold hooks, or gets the address of one of them.
LEMMA RestoreEither ==
    ASSUME NEW r \in Seq(Rstacks), NEW m \in Memory, NEW i \in 1 .. MaxSlots
    PROVE  \/ /\ \A j \in 1 .. Len(r) : r[j].loc = i => r[j].ip \in Hooks
              /\ Restore(r, m)[i] = m[i]
           \/ \E j \in 1 .. Len(r) :
                 r[j].loc = i /\ r[j].ip \notin Hooks /\ Restore(r, m)[i] = r[j].ip
<1> DEFINE js == {j \in DOMAIN r : r[j].loc = i /\ r[j].ip \notin Hooks}
<1>1. Restore(r, m)[i] = IF js = {} THEN m[i] ELSE r[Least(js)].ip
  BY DEF Restore, Least, Memory
<1>2. DOMAIN r = 1 .. Len(r) /\ Len(r) \in Nat
  OBVIOUS
<1>3. CASE js = {}
  BY <1>1, <1>2, <1>3
<1>4. CASE js # {}
  <2>1. js \in SUBSET (1 .. Len(r))
    BY <1>2
  <2>2. Least(js) \in js
    <3> HIDE DEF js
    <3> QED BY <1>2, <1>4, <2>1, LeastFacts
  <2>3. PICK j \in 1 .. Len(r) : j = Least(js)
    BY <2>1, <2>2
  <2>4. r[j].loc = i /\ r[j].ip \notin Hooks
    BY <2>2, <2>3
  <2>5. Restore(r, m)[i] = r[j].ip
    <3> HIDE DEF js
    <3> QED BY <1>1, <1>4, <2>3
  <2> QED BY <2>4, <2>5
<1> QED BY <1>3, <1>4

\* A slot without entries keeps its value, another one is hooked for one of its entries.
LEMMA RehookEither ==
    ASSUME NEW r \in Seq(Rstacks), NEW m \in Memory, NEW i \in 1 .. MaxSlots
    PROVE  \/ /\ \A j \in 1 .. Len(r) : r[j].loc # i
              /\ Rehook(r, m)[i] = m[i]
           \/ \E j \in 1 .. Len(r) : r[j].loc = i /\ Rehook(r, m)[i] = HookOf(r[j])
<1> DEFINE js == {j \in DOMAIN r : r[j].loc = i}
<1>1. Rehook(r, m)[i] = IF js = {} THEN m[i] ELSE HookOf(r[Least(js)])
  BY DEF Rehook, Least, Memory
<1>2. DOMAIN r = 1 .. Len(r) /\ Len(r) \in Nat
  OBVIOUS
<1>3. CASE js = {}
  BY <1>1, <1>2, <1>3
<1>4. CASE js # {}
  <2>1. js \in SUBSET (1 .. Len(r))
    BY <1>2
  <2>2. Least(js) \in js
    <3> HIDE DEF js
    <3> QED BY <1>2, <1>4, <2>1, LeastFacts
  <2>3. PICK j \in 1 .. Len(r) : j = Least(js)
    BY <2>1, <2>2
  <2>4. r[j].loc = i
    BY <2>2, <2>3
  <2>5. Rehook(r, m)[i] = HookOf(r[j])
    <3> HIDE DEF js
    <3> QED BY <1>1, <1>4, <2>3
  <2> QED BY <2>4, <2>5
<1> QED BY <1>3, <1>4

LEMMA WriteBackType ==
    ASSUME NEW r \in Seq(Rstacks), NEW m \in Memory
    PROVE  Restore(r, m) \in Memory /\ Rehook(r, m) \in Memory
<1>1. \A i \in 1 .. MaxSlots : m[i] \in Int
  BY DEF Memory
<1>2. ASSUME NEW i \in 1 .. MaxSlots PROVE Restore(r, m)[i] \in Int
  BY <1>1, RestoreEither, EntryFacts
<1>3. ASSUME NEW i \in 1 .. MaxSlots PROVE Rehook(r, m)[i] \in Int
  <2>1. CASE Rehook(r, m)[i] = m[i]
    BY <1>1, <2>1
  <2>2. CASE \E j \in 1 .. Len(r) : Rehook(r, m)[i] = HookOf(r[j])
    BY <2>2, EntryFacts, HookFacts
  <2> QED BY <2>1, <2>2, RehookEither
<1>4. DOMAIN m = 1 .. MaxSlots
  BY DEF Memory
<1>5. Restore(r, m) = [i \in 1 .. MaxSlots |-> Restore(r, m)[i]]
  BY <1>4 DEF Restore
<1>6. Rehook(r, m) = [i \in 1 .. MaxSlots |-> Rehook(r, m)[i]]
  BY <1>4 DEF Rehook
<1> QED BY <1>2, <1>3, <1>5, <1>6 DEF Memory

\* A slot with entries has an oldest and a newest one.
LEMMA OldestExists ==
    ASSUME NEW r \in Seq(Rstacks), NEW i \in 1 .. MaxSlots, \E j \in 1 .. Len(r) : r[j].loc = i
    PROVE  \E j \in 1 .. Len(r) : r[j].loc = i /\ Oldest(r, j)
<1> DEFINE S == {j \in 1 .. Len(r) : r[j].loc = i}
<1>1. Len(r) \in Nat /\ S \in SUBSET (1 .. Len(r)) /\ S # {}
  OBVIOUS
<1>2. Least(S) \in S /\ \A j \in S : Least(S) <= j
  <2> HIDE DEF S
  <2> QED BY <1>1, LeastFacts
<1>3. PICK l \in 1 .. Len(r) : r[l].loc = i /\ \A j \in S : l <= j
  BY <1>2
<1>4. ASSUME l # 1 PROVE r[l - 1].loc # i
  <2>1. l - 1 \in 1 .. Len(r) /\ ~(l <= l - 1)
    BY <1>1, <1>3, <1>4
  <2>2. l - 1 \notin S
    BY <1>3, <2>1
  <2> QED BY <2>1, <2>2
<1> QED BY <1>3, <1>4 DEF Oldest

LEMMA NewestExists ==
    ASSUME NEW r \in Seq(Rstacks), NEW i \in 1 .. MaxSlots, \E j \in 1 .. Len(r) : r[j].loc = i
    PROVE  \E j \in 1 .. Len(r) : r[j].loc = i /\ Newest(r, j)
<1> DEFINE S == {j \in 1 .. Len(r) : r[j].loc = i}
<1>1. Len(r) \in Nat /\ S \in SUBSET (1 .. Len(r)) /\ S # {}
  OBVIOUS
<1>2. Greatest(S) \in S /\ \A j \in S : j <= Greatest(S)
  <2> HIDE DEF S
  <2> QED BY <1>1, GreatestFacts
<1>3. PICK l \in 1 .. Len(r) : r[l].loc = i /\ \A j \in S : j <= l
  BY <1>2
<1>4. ASSUME l # Len(r) PROVE r[l + 1].loc # i
  <2>1. l + 1 \in 1 .. Len(r) /\ ~(l + 1 <= l)
    BY <1>1, <1>3, <1>4
  <2>2. l + 1 \notin S
    BY <1>3, <2>1
  <2> QED BY <2>1, <2>2
<1> QED BY <1>3, <1>4 DEF Newest

\* Restoring puts the address of the caller into a slot with entries.
LEMMA RestoreAt ==
    ASSUME NEW r \in Seq(Rstacks), NEW m \in Memory, NEW h \in Homes, NEW n \in 0 .. MaxSlots,
           Truthful(r, h, n), NEW i \in 1 .. n,
           m[i] = h[i] \/ \E j \in 1 .. Len(r) : r[j].loc = i
    PROVE  Restore(r, m)[i] = h[i]
<1>1. i \in 1 .. MaxSlots /\ h[i] \in Nat /\ h[i] \notin Hooks
  BY RetAddrAssumption DEF Homes, Hooks, MRet, PRet
<1>2. \A j \in 1 .. Len(r) : r[j].loc = i =>
         r[j].ip = IF Oldest(r, j) THEN h[i] ELSE HookOf(r[j - 1])
  BY DEF Truthful, Tells
<1>3. ASSUME NEW j \in 1 .. Len(r), r[j].loc = i, r[j].ip \notin Hooks PROVE r[j].ip = h[i]
  <2>1. CASE Oldest(r, j)
    BY <1>2, <1>3, <2>1
  <2>2. CASE ~Oldest(r, j)
    <3>1. j - 1 \in 1 .. Len(r)
      BY <2>2 DEF Oldest
    <3>2. HookOf(r[j - 1]) \in Hooks
      BY <3>1, EntryFacts, HookFacts
    <3> QED BY <1>2, <1>3, <2>2, <3>2
  <2> QED BY <2>1, <2>2
<1>4. CASE \E j \in 1 .. Len(r) : r[j].loc = i /\ r[j].ip \notin Hooks /\ Restore(r, m)[i] = r[j].ip
  BY <1>3, <1>4
<1>5. CASE /\ \A j \in 1 .. Len(r) : r[j].loc = i => r[j].ip \in Hooks
           /\ Restore(r, m)[i] = m[i]
  <2>1. ~ \E j \in 1 .. Len(r) : r[j].loc = i
    <3>1. SUFFICES ASSUME \E j \in 1 .. Len(r) : r[j].loc = i PROVE FALSE
      OBVIOUS
    <3>2. PICK j \in 1 .. Len(r) : r[j].loc = i /\ Oldest(r, j)
      BY <1>1, <3>1, OldestExists
    <3> QED BY <1>1, <1>2, <1>5, <3>2
  <2> QED BY <1>5, <2>1
<1> QED BY <1>1, <1>4, <1>5, RestoreEither

\* Restoring leaves no hook on the stack.
LEMMA RestoreReal ==
    ASSUME NEW r \in Seq(Rstacks), NEW m \in Memory, NEW h \in Homes, NEW n \in 0 .. MaxSlots,
           Truthful(r, h, n), Covers(r, m, h, n)
    PROVE  Unhooked(Restore(r, m), h, n)
<1>1. ASSUME NEW i \in 1 .. n PROVE Restore(r, m)[i] = h[i]
  <2>1. m[i] = h[i] \/ \E j \in 1 .. Len(r) : r[j].loc = i
    BY DEF Covers
  <2> QED BY <2>1, RestoreAt
<1> QED BY <1>1 DEF Unhooked

LEMMA RealCovers ==
    ASSUME NEW r, NEW m, NEW h, NEW n, Unhooked(m, h, n)
    PROVE  Covers(r, m, h, n)
  BY DEF Unhooked, Covers

\* Hooking again leads back to the hooks when the entries of a slot are of one kind.
LEMMA RehookGood ==
    ASSUME NEW r \in Seq(Rstacks), NEW m \in Memory, NEW h \in Homes, NEW n \in 0 .. MaxSlots,
           Uniform(r), Covers(r, m, h, n)
    PROVE  Covers(r, Rehook(r, m), h, n) /\ TopHooked(r, Rehook(r, m))
<1>1. ASSUME NEW j \in 1 .. Len(r) PROVE Rehook(r, m)[r[j].loc] = HookOf(r[j])
  <2>1. r[j].loc \in 1 .. MaxSlots
    BY EntryFacts
  <2>2. PICK k \in 1 .. Len(r) : r[k].loc = r[j].loc /\ Rehook(r, m)[r[j].loc] = HookOf(r[k])
    BY <2>1, RehookEither
  <2>3. r[k].plt = r[j].plt
    BY <2>2 DEF Uniform
  <2> QED BY <2>2, <2>3 DEF HookOf
<1>2. ASSUME NEW i \in 1 .. n, Rehook(r, m)[i] # h[i]
      PROVE  \E j \in 1 .. Len(r) : r[j].loc = i /\ Newest(r, j) /\ Rehook(r, m)[i] = HookOf(r[j])
  <2>1. i \in 1 .. MaxSlots
    BY RetAddrAssumption
  <2>2. \E j \in 1 .. Len(r) : r[j].loc = i
    <3>1. CASE Rehook(r, m)[i] = m[i]
      BY <1>2, <3>1 DEF Covers
    <3> QED BY <2>1, <3>1, RehookEither
  <2>3. PICK j \in 1 .. Len(r) : r[j].loc = i /\ Newest(r, j)
    BY <2>1, <2>2, NewestExists
  <2> QED BY <1>1, <2>3
<1>3. ASSUME r # << >> PROVE Rehook(r, m)[Last(r).loc] = HookOf(Last(r))
  <2>1. Len(r) \in 1 .. Len(r) /\ Last(r) = r[Len(r)]
    BY <1>3, FrontFacts
  <2> QED BY <1>1, <2>1
<1> QED BY <1>2, <1>3 DEF Covers, TopHooked

-----------------------------------------------------------------------------
(* Shadow stacks that agree *)

\* The first k entries of two shadow stacks agree in all but their flags.
Agree(q, r, k) ==
    /\ k \in Nat /\ k <= Len(q) /\ k <= Len(r)
    /\ \A j \in 1 .. k : q[j].loc = r[j].loc /\ q[j].ip = r[j].ip /\ q[j].plt = r[j].plt

\* The other entries are of slots above n.
Above(r, k, n) == \A j \in 1 .. Len(r) : j > k => r[j].loc > n

LEMMA TellsAgree ==
    ASSUME NEW q \in Seq(Rstacks), NEW r \in Seq(Rstacks), NEW h, NEW n \in 0 .. MaxSlots, NEW k,
           Agree(q, r, k), Above(r, k, n), Tells(q, h, n)
    PROVE  Tells(r, h, n)
<1> SUFFICES ASSUME NEW j \in 1 .. Len(r), r[j].loc <= n
             PROVE  r[j].ip = IF Oldest(r, j) THEN h[r[j].loc] ELSE HookOf(r[j - 1])
  BY DEF Tells
<1>1. j <= k /\ j \in 1 .. Len(q) /\ k \in Nat
  <2>1. r[j].loc \in 1 .. MaxSlots
    BY EntryFacts
  <2>2. k \in Nat /\ k <= Len(q) /\ n \in Int
    BY RetAddrAssumption DEF Agree
  <2>3. ~(j > k)
    BY <2>1, <2>2 DEF Above
  <2> QED BY <2>2, <2>3
<1>2. q[j].loc = r[j].loc /\ q[j].ip = r[j].ip
  BY <1>1 DEF Agree
<1>3. q[j].ip = IF Oldest(q, j) THEN h[q[j].loc] ELSE HookOf(q[j - 1])
  BY <1>1, <1>2 DEF Tells
<1>4. j # 1 => q[j - 1].loc = r[j - 1].loc /\ q[j - 1].plt = r[j - 1].plt
  BY <1>1 DEF Agree
<1>5. Oldest(q, j) <=> Oldest(r, j)
  BY <1>2, <1>4 DEF Oldest
<1>6. CASE j = 1
  BY <1>2, <1>3, <1>5, <1>6 DEF Oldest
<1>7. CASE j # 1
  BY <1>2, <1>3, <1>4, <1>5, <1>7 DEF HookOf
<1> QED BY <1>6, <1>7

LEMMA CoversAgree ==
    ASSUME NEW q \in Seq(Rstacks), NEW r \in Seq(Rstacks), NEW m, NEW h,
           NEW n \in 0 .. MaxSlots, NEW k,
           Agree(q, r, k), Above(q, k, n), Above(r, k, n), Covers(q, m, h, n)
    PROVE  Covers(r, m, h, n)
<1> SUFFICES ASSUME NEW i \in 1 .. n, m[i] # h[i]
             PROVE  \E j \in 1 .. Len(r) : r[j].loc = i /\ Newest(r, j) /\ m[i] = HookOf(r[j])
  BY DEF Covers
<1>1. PICK j \in 1 .. Len(q) : q[j].loc = i /\ Newest(q, j) /\ m[i] = HookOf(q[j])
  BY DEF Covers
<1>2. k \in Nat /\ k <= Len(q) /\ k <= Len(r) /\ Len(q) \in Nat /\ Len(r) \in Nat /\ n \in Nat
  BY RetAddrAssumption DEF Agree
<1>3. j <= k
  <2>1. ~(q[j].loc > n)
    BY <1>1, <1>2
  <2> QED BY <2>1, <1>2 DEF Above
<1>4. j \in 1 .. Len(r) /\ q[j].loc = r[j].loc /\ q[j].plt = r[j].plt
  BY <1>2, <1>3 DEF Agree
<1>5. HookOf(q[j]) = HookOf(r[j])
  BY <1>4 DEF HookOf
<1>6. Newest(r, j)
  <2>1. CASE j = Len(r)
    BY <2>1 DEF Newest
  <2>2. CASE j # Len(r) /\ j = k
    <3>1. j + 1 \in 1 .. Len(r) /\ j + 1 > k
      BY <1>2, <1>4, <2>2
    <3>2. r[j + 1].loc > n
      BY <3>1 DEF Above
    <3>3. r[j + 1].loc # r[j].loc
      BY <1>1, <1>2, <1>4, <3>2
    <3> QED BY <3>3 DEF Newest
  <2>3. CASE j < k
    <3>1. j + 1 \in 1 .. k /\ j # Len(q)
      BY <1>2, <2>3
    <3>2. q[j + 1].loc # q[j].loc
      BY <1>1, <3>1 DEF Newest
    <3>3. q[j + 1].loc = r[j + 1].loc
      BY <3>1 DEF Agree
    <3> QED BY <1>4, <3>2, <3>3 DEF Newest
  <2> QED BY <1>2, <1>3, <2>1, <2>2, <2>3
<1> QED BY <1>1, <1>4, <1>5, <1>6

\* The order and the kinds of entries are those of any longer stack.
LEMMA PrefixKeeps ==
    ASSUME NEW q \in Seq(Rstacks), NEW r \in Seq(Rstacks), Agree(q, r, Len(q))
    PROVE  /\ Sorted(r) => Sorted(q)
           /\ Uniform(r) => Uniform(q)
           /\ NoPlt(r) => NoPlt(q)
<1>1. \A j \in 1 .. Len(q) : j \in 1 .. Len(r) /\ q[j].loc = r[j].loc /\ q[j].plt = r[j].plt
  BY DEF Agree
<1>2. Sorted(r) => Sorted(q)
  BY <1>1 DEF Sorted
<1>3. Uniform(r) => Uniform(q)
  BY <1>1 DEF Uniform
<1>4. NoPlt(r) => NoPlt(q)
  BY <1>1 DEF NoPlt
<1> QED BY <1>2, <1>3, <1>4

\* A prefix of a shadow stack
LEMMA PrefixAgrees ==
    ASSUME NEW r \in Seq(Rstacks), NEW k \in 0 .. Len(r)
    PROVE  Agree(SubSeq(r, 1, k), r, k) /\ Agree(r, SubSeq(r, 1, k), k)
  BY PrefixFacts DEF Agree

LEMMA FrontAgrees ==
    ASSUME NEW r \in Seq(Rstacks), r # << >>
    PROVE  /\ Agree(Front(r), r, Len(Front(r))) /\ Agree(r, Front(r), Len(Front(r)))
<1>1. /\ Len(r) \in Nat \ {0} /\ Len(Front(r)) = Len(r) - 1
      /\ \A j \in 1 .. Len(r) - 1 : Front(r)[j] = r[j]
  BY FrontFacts
<1> QED BY <1>1 DEF Agree

\* What is known up to a slot is known up to any lower one.
LEMMA LowerSlots ==
    ASSUME NEW r \in Seq(Rstacks), NEW m, NEW h, NEW n \in 0 .. MaxSlots, NEW k \in 0 .. n
    PROVE  /\ Tells(r, h, n) => Tells(r, h, k)
           /\ Truthful(r, h, n) => Truthful(r, h, k)
           /\ Covers(r, m, h, n) => Covers(r, m, h, k)
           /\ Unhooked(m, h, n) => Unhooked(m, h, k)
<1>1. n \in Nat /\ k \in Nat /\ k <= n
  BY RetAddrAssumption
<1>2. \A j \in 1 .. Len(r) : r[j].loc \in Nat
  BY EntryFacts
<1>3. Tells(r, h, n) => Tells(r, h, k)
  BY <1>1, <1>2 DEF Tells
<1> QED BY <1>1, <1>3 DEF Truthful, Covers, Unhooked

\* The slots above n do not matter.
LEMMA UpperSlots ==
    ASSUME NEW r \in Seq(Rstacks), NEW m \in Memory, NEW m2 \in Memory, NEW h \in Homes, NEW h2 \in Homes,
           NEW n \in 0 .. MaxSlots,
           \A i \in 1 .. n : m[i] = m2[i] /\ h[i] = h2[i]
    PROVE  /\ Truthful(r, h, n) => Truthful(r, h2, n)
           /\ Covers(r, m, h, n) => Covers(r, m2, h2, n)
           /\ Unhooked(m, h, n) => Unhooked(m2, h2, n)
<1>1. n \in Nat
  BY RetAddrAssumption
<1>2. ASSUME NEW j \in 1 .. Len(r), r[j].loc <= n PROVE h[r[j].loc] = h2[r[j].loc]
  <2>1. r[j].loc \in 1 .. n
    BY <1>1, <1>2, EntryFacts
  <2> QED BY <2>1
<1>3. Truthful(r, h, n) => Truthful(r, h2, n)
  BY <1>2 DEF Truthful, Tells
<1>4. Covers(r, m, h, n) => Covers(r, m2, h2, n)
  BY DEF Covers
<1>5. Unhooked(m, h, n) => Unhooked(m2, h2, n)
  BY DEF Unhooked
<1> QED BY <1>3, <1>4, <1>5

-----------------------------------------------------------------------------
(* Entry and exit *)

\* A hooked slot's last entry is the newest of its slot.
LEMMA LastIsNewest ==
    ASSUME NEW r \in Seq(Rstacks), NEW n \in 1 .. MaxSlots, NEW j \in 1 .. Len(r),
           Sorted(r), Within(r, n), r[j].loc = n, Newest(r, j)
    PROVE  j = Len(r)
<1>1. SUFFICES ASSUME j # Len(r) PROVE FALSE
  OBVIOUS
<1>2. j + 1 \in 1 .. Len(r) /\ j <= j + 1
  BY <1>1
<1>3. r[j + 1].loc # n /\ r[j].loc <= r[j + 1].loc /\ r[j + 1].loc <= n
  BY <1>1, <1>2 DEF Newest, Sorted, Within
<1>4. r[j + 1].loc \in Nat /\ n \in Nat
  BY <1>2, EntryFacts, RetAddrAssumption
<1> QED BY <1>3, <1>4

\* mcount_auto_restore() keeps the slots right.
LEMMA AutoRestoreGood ==
    ASSUME NEW r \in Seq(Rstacks), r # << >>, NEW m \in Memory, NEW h \in Homes,
           NEW n \in 0 .. MaxSlots, Good(r, m, h, n)
    PROVE  AutoRestore(r, m) \in Memory /\ Good(r, AutoRestore(r, m), h, n)
<1> DEFINE real == {j \in 1 .. Len(r) - 1 : r[j].ip \notin Hooks}
<1>1. /\ Len(r) \in Nat \ {0} /\ Last(r) = r[Len(r)] /\ Len(r) \in 1 .. Len(r)
  BY FrontFacts
<1>2. CASE ~AutoApplies(r) \/ real = {}
  BY <1>2 DEF AutoRestore
<1>3. CASE AutoApplies(r) /\ real # {}
  <2>1. real \in SUBSET (1 .. Len(r))
    BY <1>1
  <2>2. Greatest(real) \in real
    <3> HIDE DEF real
    <3> QED BY <1>1, <1>3, <2>1, GreatestFacts
  <2>3. PICK k \in 1 .. Len(r) : k = Greatest(real)
    BY <2>1, <2>2
  <2>4. k <= Len(r) - 1 /\ r[k].ip \notin Hooks
    BY <2>2, <2>3
  <2>5. AutoRestore(r, m) = [m EXCEPT ![r[k].loc] = r[k].ip]
    <3>1. AutoRestore(r, m) = LET e == r[Greatest(real)] IN [m EXCEPT ![e.loc] = e.ip]
      BY <1>3 DEF AutoRestore, Greatest
    <3> HIDE DEF real
    <3> QED BY <2>3, <3>1
  <2>6. r[k].loc \in 1 .. MaxSlots /\ r[k].ip \in Int /\ n \in Nat /\ r[k].loc <= n
    BY EntryFacts, RetAddrAssumption DEF Good, Within
  <2>7. PICK w \in Memory : w = AutoRestore(r, m)
    BY <2>5, <2>6 DEF Memory
  <2>8. Oldest(r, k)
    <3>1. SUFFICES ASSUME ~Oldest(r, k) PROVE FALSE
      OBVIOUS
    <3>2. k - 1 \in 1 .. Len(r) /\ r[k].ip = HookOf(r[k - 1])
      BY <2>6, <3>1 DEF Good, Truthful, Tells, Oldest
    <3> QED BY <2>4, <3>2, EntryFacts, HookFacts
  <2>9. r[k].ip = h[r[k].loc]
    BY <2>6, <2>8 DEF Good, Truthful, Tells
  <2>10. \A i \in 1 .. MaxSlots : w[i] = IF i = r[k].loc THEN h[i] ELSE m[i]
    BY <2>5, <2>6, <2>7, <2>9 DEF Memory
  <2>11. Covers(r, w, h, n)
    BY SMTT(30), <2>10, RetAddrAssumption DEF Good, Covers
  <2>12. r[k].loc # r[Len(r)].loc
    <3>1. Len(r) - 1 \in 1 .. Len(r) /\ r[Len(r)].loc # r[Len(r) - 1].loc
      BY <1>1, <1>3, <2>4 DEF AutoApplies
    <3>2. r[k].loc <= r[Len(r) - 1].loc /\ r[Len(r) - 1].loc <= r[Len(r)].loc
      BY <1>1, <2>4, <3>1 DEF Good, Truthful, Sorted
    <3>3. r[Len(r)].loc \in Nat /\ r[Len(r) - 1].loc \in Nat
      BY <1>1, <3>1, EntryFacts
    <3> QED BY <2>6, <3>1, <3>2, <3>3
  <2>13. TopHooked(r, w)
    <3>1. r[Len(r)].loc \in 1 .. MaxSlots /\ m[r[Len(r)].loc] = HookOf(r[Len(r)])
      BY <1>1, EntryFacts DEF Good, TopHooked
    <3> QED BY <1>1, <2>10, <2>12, <3>1 DEF TopHooked
  <2> QED BY <2>7, <2>11, <2>13 DEF Good
<1> QED BY <1>2, <1>3

StackPairs == [rs : Seq(Rstacks), mem : Memory]

\* Slot n is in use: it has no entry, or it is hooked for the last one.
TopSlot(r, m, h, n) ==
    m[n] = IF r # << >> /\ Last(r).loc = n THEN HookOf(Last(r)) ELSE h[n]

\* What an entry does to shadow stack and slots
LEMMA HijackFacts ==
    ASSUME NEW s \in StackPairs, NEW n \in 1 .. MaxSlots, NEW p \in BOOLEAN
    PROVE  /\ Rstack(n, s.mem[n], p) \in Rstacks
           /\ Hijack(s, n, p).rs = Append(s.rs, Rstack(n, s.mem[n], p))
           /\ Hijack(s, n, p).mem =
                 AutoRestore(Append(s.rs, Rstack(n, s.mem[n], p)),
                             [s.mem EXCEPT ![n] = HookOf(Rstack(n, s.mem[n], p))])
<1>1. s.mem[n] \in Int
  BY DEF StackPairs, Memory
<1>2. Rstack(n, s.mem[n], p) \in Rstacks /\ Rstack(n, s.mem[n], p).plt = p
  BY <1>1, RstackType
<1>3. HookOf(Rstack(n, s.mem[n], p)) = IF p THEN PRet ELSE MRet
  BY <1>2 DEF HookOf
<1> QED BY <1>2, <1>3 DEF Hijack

LEMMA HijackGood ==
    ASSUME NEW s \in StackPairs, NEW h \in Homes, NEW n \in 1 .. MaxSlots, NEW p \in BOOLEAN,
           Truthful(s.rs, h, n), Within(s.rs, n), Covers(s.rs, s.mem, h, n - 1),
           TopSlot(s.rs, s.mem, h, n)
    PROVE  /\ Hijack(s, n, p).mem \in Memory
           /\ Good(Hijack(s, n, p).rs, Hijack(s, n, p).mem, h, n)
<1>1. PICK r \in Seq(Rstacks), m \in Memory : r = s.rs /\ m = s.mem
  BY DEF StackPairs
<1>2. PICK e \in Rstacks : e = Rstack(n, m[n], p)
  BY <1>1, HijackFacts
<1>3. e.loc = n /\ e.ip = m[n] /\ e.plt = p
  BY <1>2 DEF Rstack
<1>4. PICK q \in Seq(Rstacks) : q = Append(r, e)
  BY PushFacts
<1>5. /\ q # << >> /\ Len(q) = Len(r) + 1 /\ q[Len(r) + 1] = e /\ Last(q) = e
      /\ \A j \in 1 .. Len(r) : q[j] = r[j]
  BY <1>4, PushFacts
<1>6. HookOf(e) \in Int
  BY HookFacts
<1>7. PICK w \in Memory : w = [m EXCEPT ![n] = HookOf(e)]
  BY <1>6 DEF Memory
<1>8. \A i \in 1 .. MaxSlots : w[i] = IF i = n THEN HookOf(e) ELSE m[i]
  BY <1>7 DEF Memory
<1>9. /\ Hijack(s, n, p).rs = q
      /\ Hijack(s, n, p).mem = AutoRestore(q, w)
  BY <1>1, <1>2, <1>4, <1>7, HijackFacts
<1>10. Len(r) \in Nat /\ n \in Nat /\ n <= MaxSlots /\ MaxSlots \in Nat
  BY RetAddrAssumption
<1>11. \A j \in 1 .. Len(r) : r[j].loc \in 1 .. MaxSlots /\ r[j].loc <= n
  BY <1>1, EntryFacts DEF Within
<1>12. Sorted(q)
  <2>1. Sorted(r)
    BY <1>1 DEF Truthful
  <2>2. SUFFICES ASSUME NEW i \in 1 .. Len(q), NEW j \in 1 .. Len(q), i <= j
                 PROVE  q[i].loc <= q[j].loc
    BY DEF Sorted
  <2>3. CASE j = Len(r) + 1 /\ i = Len(r) + 1
    BY <1>3, <1>5, <1>10, <2>3
  <2>4. CASE j = Len(r) + 1 /\ i # Len(r) + 1
    <3>1. i \in 1 .. Len(r)
      BY <1>5, <1>10, <2>4
    <3> QED BY <1>3, <1>5, <1>11, <2>4, <3>1
  <2>5. CASE j # Len(r) + 1
    <3>1. i \in 1 .. Len(r) /\ j \in 1 .. Len(r)
      BY <1>5, <1>10, <2>2, <2>5
    <3> QED BY <1>5, <2>1, <2>2, <3>1 DEF Sorted
  <2> QED BY <2>3, <2>4, <2>5
<1>13. Within(q, n)
  <2>1. SUFFICES ASSUME NEW j \in 1 .. Len(q) PROVE q[j].loc <= n
    BY DEF Within
  <2>2. j = Len(r) + 1 \/ j \in 1 .. Len(r)
    BY <1>5, <1>10
  <2> QED BY <1>3, <1>5, <1>10, <1>11, <2>2
<1>14. Tells(q, h, n)
  <2>1. SUFFICES ASSUME NEW j \in 1 .. Len(q)
                 PROVE  q[j].ip = IF Oldest(q, j) THEN h[q[j].loc] ELSE HookOf(q[j - 1])
    BY DEF Tells
  <2>2. CASE j = Len(r) + 1
    <3>1. CASE Len(r) = 0
      <4>1. r = << >> /\ Oldest(q, j)
        BY <2>2, <3>1 DEF Oldest
      <4> QED BY <1>1, <1>3, <1>5, <2>2, <4>1 DEF TopSlot
    <3>2. CASE Len(r) # 0
      <4>1. /\ r # << >> /\ Last(r) = r[Len(r)] /\ Len(r) \in 1 .. Len(r)
            /\ q[j - 1] = r[Len(r)] /\ j # 1
        BY <1>5, <1>10, <2>2, <3>2, FrontFacts
      <4>2. Oldest(q, j) <=> Last(r).loc # n
        BY <1>3, <1>5, <2>2, <4>1 DEF Oldest
      <4> QED BY <1>1, <1>3, <1>5, <2>2, <4>1, <4>2 DEF TopSlot
    <3> QED BY <3>1, <3>2
  <2>3. CASE j # Len(r) + 1
    <3>1. j \in 1 .. Len(r) /\ q[j] = r[j] /\ (j # 1 => q[j - 1] = r[j - 1])
      BY <1>5, <1>10, <2>3
    <3>2. r[j].ip = IF Oldest(r, j) THEN h[r[j].loc] ELSE HookOf(r[j - 1])
      BY <1>1, <1>11, <3>1 DEF Truthful, Tells
    <3>3. Oldest(q, j) <=> Oldest(r, j)
      BY <3>1 DEF Oldest
    <3>4. CASE j = 1
      BY <3>1, <3>2, <3>3, <3>4 DEF Oldest
    <3>5. CASE j # 1
      BY <3>1, <3>2, <3>3, <3>5
    <3> QED BY <3>4, <3>5
  <2> QED BY <2>2, <2>3
<1>15. Covers(q, w, h, n)
  <2>1. SUFFICES ASSUME NEW i \in 1 .. n, w[i] # h[i]
                 PROVE  \E j \in 1 .. Len(q) : q[j].loc = i /\ Newest(q, j) /\ w[i] = HookOf(q[j])
    BY DEF Covers
  <2>2. CASE i = n
    <3>1. Len(q) \in 1 .. Len(q) /\ Newest(q, Len(q))
      BY <1>5, <1>10 DEF Newest
    <3> QED BY <1>3, <1>5, <1>8, <2>2, <3>1
  <2>3. CASE i # n
    <3>1. i \in 1 .. n - 1 /\ i \in 1 .. MaxSlots /\ w[i] = m[i]
      BY <1>8, <1>10, <2>3
    <3>2. PICK j \in 1 .. Len(r) : r[j].loc = i /\ Newest(r, j) /\ m[i] = HookOf(r[j])
      BY <1>1, <2>1, <3>1 DEF Covers
    <3>3. Newest(q, j)
      <4>1. CASE j = Len(r)
        BY <1>3, <1>5, <2>3, <3>2, <4>1 DEF Newest
      <4>2. CASE j # Len(r)
        <5>1. j + 1 \in 1 .. Len(r)
          BY <1>10, <4>2
        <5> QED BY <1>5, <3>2, <4>2, <5>1 DEF Newest
      <4> QED BY <4>1, <4>2
    <3>4. j \in 1 .. Len(q)
      BY <1>5, <1>10
    <3> QED BY <1>5, <3>1, <3>2, <3>3, <3>4
  <2> QED BY <2>2, <2>3
<1>16. TopHooked(q, w)
  BY <1>3, <1>5, <1>8 DEF TopHooked
<1>17. Good(q, w, h, n)
  BY <1>12, <1>13, <1>14, <1>15, <1>16 DEF Good, Truthful
<1> HIDE <1>9
<1>18. AutoRestore(q, w) \in Memory /\ Good(q, AutoRestore(q, w), h, n)
  BY <1>5, <1>10, <1>17, AutoRestoreGood
<1> QED BY <1>9, <1>18

\* mcount_auto_rehook() and the pop: the parent's slot is hooked again, or the entry below
\* the one that is left is of the same slot and is left next.
LEMMA LeaveGood ==
    ASSUME NEW r \in Seq(Rstacks), NEW m \in Memory, NEW h \in Homes, NEW n \in 0 .. MaxSlots,
           n < MaxSlots, Leaving(r, m, h, n), ~in_exc
    PROVE  /\ AutoRehook(r, m) \in Memory /\ Covers(r, AutoRehook(r, m), h, n)
           /\ \/ Last(r).ip = h[n + 1] /\ Good(Front(r), AutoRehook(r, m), h, n)
              \/ /\ Front(r) # << >> /\ Last(r).ip = HookOf(Last(Front(r)))
                 /\ Leaving(Front(r), AutoRehook(r, m), h, n)
<1>1. /\ r # << >> /\ Len(r) \in Nat \ {0} /\ Len(r) \in 1 .. Len(r) /\ Last(r) = r[Len(r)]
      /\ r[Len(r)].loc = n + 1 /\ n \in Nat /\ n + 1 \in 1 .. MaxSlots
  BY FrontFacts, RetAddrAssumption DEF Leaving
<1>2. PICK q \in Seq(Rstacks) : q = Front(r)
  BY <1>1, FrontFacts
<1>3. Len(q) = Len(r) - 1 /\ (\A j \in 1 .. Len(r) - 1 : q[j] = r[j])
  BY <1>1, <1>2, FrontFacts
<1>4. Agree(q, r, Len(q)) /\ Agree(r, q, Len(q))
  BY <1>1, <1>2, FrontAgrees
<1>5. Truthful(q, h, n + 1) /\ Within(q, n + 1)
  <2>1. Above(q, Len(q), n + 1)
    BY DEF Above
  <2>2. Tells(q, h, n + 1)
    BY <1>1, <1>4, <2>1, TellsAgree DEF Leaving, Truthful
  <2>3. Sorted(q)
    BY <1>4, PrefixKeeps DEF Leaving, Truthful
  <2>4. Within(q, n + 1)
    BY <1>1, <1>3 DEF Leaving, Within
  <2> QED BY <2>2, <2>3, <2>4 DEF Truthful
<1>11. Truthful(q, h, n)
  <2>1. \A j \in 1 .. Len(q) : q[j].loc <= n => q[j].loc <= n + 1
    BY <1>1, EntryFacts
  <2> QED BY <1>5, <2>1 DEF Truthful, Tells
<1>6. Above(r, Len(q), n) /\ Above(q, Len(q), n)
  <2>1. ASSUME NEW j \in 1 .. Len(r), j > Len(q) PROVE r[j].loc > n
    <3>1. j = Len(r)
      BY <1>1, <1>3, <2>1
    <3> QED BY <1>1, <3>1
  <2> QED BY <2>1 DEF Above
<1>7. r[Len(r)].ip = IF Oldest(r, Len(r)) THEN h[n + 1] ELSE HookOf(r[Len(r) - 1])
  BY <1>1 DEF Leaving, Truthful, Tells
<1>8. CASE Len(r) = 1
  <2>1. Oldest(r, Len(r)) /\ AutoRehook(r, m) = m
    BY <1>8 DEF Oldest, AutoRehook, AutoApplies
  <2>2. Len(q) = 0 /\ q = << >>
    BY <1>3, <1>8
  <2>3. Covers(q, m, h, n)
    BY <1>4, <1>6, CoversAgree DEF Leaving
  <2>4. Truthful(q, h, n)
    BY <1>11
  <2>5. Within(q, n) /\ TopHooked(q, m)
    BY <2>2 DEF Within, TopHooked
  <2>6. Good(q, m, h, n)
    BY <2>3, <2>4, <2>5 DEF Good
  <2> QED BY <1>1, <1>2, <1>7, <2>1, <2>6 DEF Leaving
<1>9. CASE Len(r) # 1 /\ r[Len(r) - 1].loc = n + 1
  <2>1. ~Oldest(r, Len(r)) /\ AutoRehook(r, m) = m
    BY <1>1, <1>9 DEF Oldest, AutoRehook, AutoApplies
  <2>2. q # << >> /\ Last(q) = r[Len(r) - 1]
    <3>1. Len(q) \in 1 .. Len(r) - 1
      BY <1>1, <1>3, <1>9
    <3>2. q # << >>
      BY <3>1
    <3> QED BY <1>3, <3>1, <3>2, FrontFacts
  <2>3. Covers(q, m, h, n)
    BY <1>4, <1>6, CoversAgree DEF Leaving
  <2>4. Leaving(q, m, h, n)
    BY <1>5, <1>9, <2>2, <2>3 DEF Leaving
  <2> QED BY <1>1, <1>2, <1>7, <2>1, <2>2, <2>4 DEF Leaving
<1>10. CASE Len(r) # 1 /\ r[Len(r) - 1].loc # n + 1
  <2>1. Len(r) - 1 \in 1 .. Len(r) /\ Len(r) >= 2 /\ Len(r) - 1 = Len(q) /\ Len(r) - 1 \in 1 .. Len(q)
    BY <1>1, <1>3, <1>10
  <2>2. PICK e \in Rstacks : e = r[Len(r) - 1]
    BY <2>1, EntryFacts
  <2>3. e.loc \in 1 .. MaxSlots /\ e.loc # n + 1 /\ HookOf(e) \in Int
    BY <1>10, <2>1, <2>2, EntryFacts, HookFacts
  <2>4. e.loc <= n
    <3>1. e.loc <= n + 1
      BY <2>1, <2>2 DEF Leaving, Within
    <3> QED BY <1>1, <2>3, <3>1
  <2>5. q # << >> /\ Last(q) = e
    <3>1. q # << >>
      BY <2>1
    <3> QED BY <1>3, <2>1, <2>2, <3>1, FrontFacts
  <2>6. Oldest(r, Len(r)) /\ AutoApplies(r)
    BY <1>1, <1>10, <2>1 DEF Oldest, AutoApplies
  <2>7. PICK w \in Memory : w = AutoRehook(r, m)
    BY <2>2, <2>3, <2>6 DEF AutoRehook, Memory
  <2>8. \A i \in 1 .. MaxSlots : w[i] = IF i = e.loc THEN HookOf(e) ELSE m[i]
    BY <2>2, <2>3, <2>6, <2>7 DEF AutoRehook, Memory
  <2>9. Within(q, n)
    <3>1. SUFFICES ASSUME NEW j \in 1 .. Len(q) PROVE q[j].loc <= n
      BY DEF Within
    <3>2. j \in 1 .. Len(r) /\ q[j] = r[j] /\ j <= Len(r) - 1
      BY <1>1, <1>3
    <3>3. r[j].loc <= e.loc /\ r[j].loc \in Nat
      <4>1. r[j].loc \in 1 .. MaxSlots
        BY <3>2, EntryFacts
      <4>2. r[j].loc <= e.loc
        BY <2>1, <2>2, <3>2 DEF Leaving, Truthful, Sorted
      <4> QED BY <4>1, <4>2
    <3> QED BY <1>1, <2>3, <2>4, <3>2, <3>3
  <2>10. Covers(q, w, h, n)
    <3>1. Covers(q, m, h, n)
      BY <1>4, <1>6, CoversAgree DEF Leaving
    <3>2. SUFFICES ASSUME NEW i \in 1 .. n, w[i] # h[i]
                   PROVE  \E j \in 1 .. Len(q) : q[j].loc = i /\ Newest(q, j) /\ w[i] = HookOf(q[j])
      BY DEF Covers
    <3>3. CASE i = e.loc
      <4>1. Len(q) \in 1 .. Len(q) /\ q[Len(q)] = e /\ Newest(q, Len(q))
        BY <1>3, <2>1, <2>2 DEF Newest
      <4> QED BY <2>3, <2>8, <3>3, <4>1
    <3>4. CASE i # e.loc
      <4>1. i \in 1 .. MaxSlots /\ w[i] = m[i]
        BY <1>1, <2>8, <3>4, RetAddrAssumption
      <4> QED BY <3>1, <3>2, <4>1 DEF Covers
    <3> QED BY <3>3, <3>4
  <2>11. Covers(r, w, h, n)
    BY <1>4, <1>6, <2>10, CoversAgree
  <2>12. Truthful(q, h, n)
    BY <1>11
  <2>13. TopHooked(q, w)
    BY <2>3, <2>5, <2>8 DEF TopHooked
  <2>14. Good(q, w, h, n)
    BY <2>9, <2>10, <2>12, <2>13 DEF Good
  <2> QED BY <1>1, <1>2, <1>7, <2>6, <2>7, <2>11, <2>14
<1> QED BY <1>8, <1>9, <1>10

\* mcount_rstack_rehook_exception(): the entries of the frames that are left
LEMMA UnwoundGood ==
    ASSUME NEW r \in Seq(Rstacks), NEW m \in Memory, NEW h \in Homes, NEW n \in 0 .. MaxSlots,
           Truthful(r, h, n), Unhooked(m, h, n), Uniform(r)
    PROVE  \E k \in 0 .. Len(r) :
              /\ RehookException(r, m, n) = [rs |-> SubSeq(r, 1, k), mem |-> Rehook(SubSeq(r, 1, k), m)]
              /\ Above(r, k, n) /\ Within(SubSeq(r, 1, k), n)
              /\ Good(SubSeq(r, 1, k), Rehook(SubSeq(r, 1, k), m), h, n)
<1> DEFINE live == {j \in DOMAIN r : r[j].loc <= n}
           k == IF live = {} THEN 0 ELSE Greatest(live)
           same == {j \in 1 .. k : \A i \in j .. k : r[i].loc = r[k].loc}
           kept == IF k = 0 THEN << >>
                   ELSE [SubSeq(r, 1, k) EXCEPT ![Least(same)].ip = m[r[k].loc]]
<1>1. RehookException(r, m, n) = [rs |-> kept, mem |-> Rehook(kept, m)]
  BY DEF RehookException, Greatest, Least
<1>2. DOMAIN r = 1 .. Len(r) /\ Len(r) \in Nat /\ n \in Nat
  BY RetAddrAssumption
<1>3. \A j \in 1 .. Len(r) : r[j].loc \in Nat /\ r[j].loc \in 1 .. MaxSlots
  BY EntryFacts
<1>4. /\ k \in 0 .. Len(r) /\ (k # 0 => r[k].loc <= n) /\ Above(r, k, n)
      /\ \A j \in 1 .. k : r[j].loc <= n
  <2>1. CASE live = {}
    BY <1>2, <1>3, <2>1 DEF Above
  <2>2. CASE live # {}
    <3>1. live \in SUBSET (1 .. Len(r))
      BY <1>2
    <3>2. Greatest(live) \in live /\ \A j \in live : j <= Greatest(live)
      <4> HIDE DEF live
      <4> QED BY <1>2, <2>2, <3>1, GreatestFacts
    <3>3. PICK g \in 1 .. Len(r) : g = Greatest(live)
      BY <3>1, <3>2
    <3>4. g = k /\ r[g].loc <= n /\ \A j \in live : j <= g
      BY <2>2, <3>2, <3>3
    <3>5. Above(r, g, n)
      <4>1. SUFFICES ASSUME NEW j \in 1 .. Len(r), j > g PROVE r[j].loc > n
        BY DEF Above
      <4>2. j \notin live
        <5> HIDE DEF live, k
        <5> QED BY <1>2, <3>4, <4>1
      <4> QED BY <1>2, <1>3, <4>2
    <3>6. \A j \in 1 .. g : r[j].loc <= n
      <4>1. SUFFICES ASSUME NEW j \in 1 .. g PROVE r[j].loc <= n
        OBVIOUS
      <4>2. j \in 1 .. Len(r) /\ j <= g
        OBVIOUS
      <4>3. r[j].loc <= r[g].loc
        BY <4>2 DEF Truthful, Sorted
      <4> QED BY <1>2, <1>3, <3>4, <4>2, <4>3
    <3> HIDE DEF k
    <3> QED BY <1>2, <3>4, <3>5, <3>6
  <2> QED BY <2>1, <2>2
<1>5. PICK c \in 0 .. Len(r) : c = k
  BY <1>4
<1>6. PICK q \in Seq(Rstacks) : q = SubSeq(r, 1, c)
  BY PrefixFacts
<1>7. Len(q) = c /\ (\A j \in 1 .. c : q[j] = r[j]) /\ c \in Nat
  BY <1>2, <1>6, PrefixFacts
<1>8. kept = q
  <2>1. CASE c = 0
    <3>1. k = 0
      BY <1>5, <2>1
    <3>2. kept = << >>
      <4> HIDE DEF k
      <4> QED BY <3>1
    <3>3. q = << >>
      BY <1>7, <2>1
    <3> QED BY <3>2, <3>3
  <2>2. CASE c # 0
    <3>1. c \in 1 .. c /\ c \in 1 .. Len(r) /\ r[c].loc <= n
      BY <1>2, <1>4, <1>5, <1>7, <2>2
    <3>2. same \in SUBSET (1 .. c) /\ same # {}
      <4>1. c \in same
        <5> HIDE DEF k
        <5> QED BY <1>5, <1>7, <3>1
      <4> QED BY <1>5, <4>1
    <3>3. Least(same) \in same /\ \A j \in same : Least(same) <= j
      <4> HIDE DEF same
      <4> QED BY <1>7, <3>2, LeastFacts
    <3>4. PICK l \in 1 .. c : l = Least(same)
      BY <3>2, <3>3
    <3>5. l \in 1 .. Len(r) /\ r[l].loc = r[c].loc /\ (\A i \in l .. c : r[i].loc = r[c].loc)
          /\ (\A j \in same : l <= j)
      <4>1. l \in same
        BY <3>3, <3>4
      <4>2. l \in l .. c /\ l \in 1 .. Len(r)
        BY <1>2, <1>7, <3>1
      <4>3. \A i \in l .. c : r[i].loc = r[c].loc
        BY <1>5, <4>1
      <4>4. \A j \in same : l <= j
        <5> HIDE DEF same
        <5> QED BY <3>3, <3>4
      <4> QED BY <4>2, <4>3, <4>4
    <3>6. Oldest(r, l)
      <4>1. SUFFICES ASSUME l # 1, r[l - 1].loc = r[l].loc PROVE FALSE
        BY DEF Oldest
      <4>2. l - 1 \in 1 .. c /\ ~(l <= l - 1)
        BY <1>7, <4>1
      <4>3. \A i \in (l - 1) .. c : r[i].loc = r[c].loc
        <5>1. SUFFICES ASSUME NEW i \in (l - 1) .. c PROVE r[i].loc = r[c].loc
          OBVIOUS
        <5>2. i = l - 1 \/ i \in l .. c
          BY <1>7
        <5> QED BY <3>5, <4>1, <5>2
      <4>4. l - 1 \in same
        BY <1>5, <4>2, <4>3
      <4> QED BY <3>5, <4>2, <4>4
    <3>7. r[c].loc \in 1 .. n
      BY <1>2, <1>3, <3>1
    <3>8. r[l].ip = m[r[c].loc]
      <4>1. r[l].ip = h[r[l].loc]
        BY <1>2, <3>1, <3>5, <3>6 DEF Truthful, Tells
      <4>2. m[r[c].loc] = h[r[c].loc]
        BY <3>7 DEF Unhooked
      <4> QED BY <3>5, <4>1, <4>2
    <3>9. kept = [q EXCEPT ![l].ip = m[r[c].loc]]
      <4>1. kept = [SubSeq(r, 1, k) EXCEPT ![Least(same)].ip = m[r[k].loc]]
        BY <1>5, <2>2
      <4> HIDE DEF kept, same, k
      <4> QED BY <1>5, <1>6, <3>4, <4>1
    <3>10. q[l] \in Rstacks /\ q[l].ip = m[r[c].loc]
      BY <1>7, <3>8, EntryFacts
    <3>11. [q EXCEPT ![l].ip = m[r[c].loc]] = [q EXCEPT ![l] = q[l]]
      BY <3>10 DEF Rstacks
    <3>12. [q EXCEPT ![l] = q[l]] = q
      OBVIOUS
    <3> QED BY <3>9, <3>11, <3>12
  <2> QED BY <2>1, <2>2
<1> HIDE DEF live, k, same, kept
<1>9. Agree(q, r, c) /\ Agree(r, q, c) /\ Agree(q, r, Len(q))
  BY <1>6, <1>7, PrefixAgrees
<1>10. Sorted(q) /\ Uniform(q)
  BY <1>9, PrefixKeeps DEF Truthful
<1>11. Tells(q, h, n) /\ Above(q, c, n)
  <2>1. Above(q, c, n)
    BY <1>7 DEF Above
  <2> QED BY <1>9, <2>1, TellsAgree DEF Truthful
<1>12. Within(q, n)
  BY <1>4, <1>5, <1>7 DEF Within
<1>13. Covers(q, m, h, n)
  BY RealCovers
<1>14. Covers(q, Rehook(q, m), h, n) /\ TopHooked(q, Rehook(q, m))
  BY <1>10, <1>13, RehookGood
<1>15. Good(q, Rehook(q, m), h, n)
  BY <1>10, <1>11, <1>12, <1>14 DEF Good, Truthful
<1> QED BY <1>1, <1>4, <1>5, <1>6, <1>8, <1>12, <1>15

\* The entries below slot n are the same.
SameBelow(r, q, n) ==
    \A k \in Nat : Splits(r, k, n) => Splits(q, k, n) /\ \A j \in 1 .. k : q[j] = r[j]

LEMMA SameBelowFacts ==
    ASSUME NEW r \in Seq(Rstacks), NEW q \in Seq(Rstacks), NEW n \in Nat, NEW c \in Nat,
           c <= Len(r), c <= Len(q), \A j \in 1 .. c : q[j] = r[j],
           \A j \in 1 .. Len(r) : j > c => r[j].loc >= n,
           \A j \in 1 .. Len(q) : j > c => q[j].loc >= n
    PROVE  SameBelow(r, q, n)
<1> SUFFICES ASSUME NEW k \in Nat, Splits(r, k, n)
             PROVE  Splits(q, k, n) /\ \A j \in 1 .. k : q[j] = r[j]
  BY DEF SameBelow
<1>1. k <= Len(r) /\ \A j \in 1 .. Len(r) : r[j].loc < n <=> j <= k
  BY DEF Splits
<1>2. Len(r) \in Nat /\ Len(q) \in Nat
  OBVIOUS
<1>3. (\A j \in 1 .. Len(r) : r[j].loc \in Nat) /\ (\A j \in 1 .. Len(q) : q[j].loc \in Nat)
  <2>1. \A j \in 1 .. Len(r) : r[j].loc \in 1 .. MaxSlots
    BY EntryFacts
  <2>2. \A j \in 1 .. Len(q) : q[j].loc \in 1 .. MaxSlots
    BY EntryFacts
  <2> QED BY <2>1, <2>2
<1>4. k <= c
  <2>1. SUFFICES ASSUME k > c PROVE FALSE
    BY <1>2
  <2>2. k \in 1 .. Len(r)
    BY <1>1, <1>2, <2>1
  <2> QED BY <1>1, <1>3, <2>1, <2>2
<1>5. \A j \in 1 .. k : q[j] = r[j]
  BY <1>4
<1>6. ASSUME NEW j \in 1 .. Len(q) PROVE q[j].loc < n <=> j <= k
  <2>1. CASE j <= c
    BY <1>1, <1>2, <2>1
  <2>2. CASE j > c
    BY <1>3, <1>4, <2>2
  <2> QED BY <2>1, <2>2
<1> QED BY SMTT(30), <1>2, <1>4, <1>5, <1>6 DEF Splits

LEMMA SameBelowPush ==
    ASSUME NEW r \in Seq(Rstacks), NEW e \in Rstacks, NEW n \in Nat, n <= e.loc
    PROVE  SameBelow(r, Append(r, e), n)
<1>1. /\ Append(r, e) \in Seq(Rstacks) /\ Len(Append(r, e)) = Len(r) + 1 /\ Append(r, e)[Len(r) + 1] = e
      /\ (\A j \in 1 .. Len(r) : Append(r, e)[j] = r[j]) /\ Len(r) \in Nat
  BY PushFacts
<1>2. \A j \in 1 .. Len(Append(r, e)) : j > Len(r) => j = Len(r) + 1
  BY <1>1
<1>3. PICK q \in Seq(Rstacks) : q = Append(r, e)
  BY <1>1
<1>4. e.loc \in Nat
  BY DEF Rstacks
<1>5. /\ Len(r) <= Len(q) /\ (\A j \in 1 .. Len(r) : q[j] = r[j])
      /\ \A j \in 1 .. Len(q) : j > Len(r) => q[j].loc >= n
  BY <1>1, <1>2, <1>3, <1>4
<1>6. SameBelow(r, q, n)
  <2> HIDE <1>3
  <2>1. Len(r) <= Len(r) /\ \A j \in 1 .. Len(r) : j > Len(r) => r[j].loc >= n
    BY <1>1
  <2> QED BY <1>1, <1>5, <2>1, SameBelowFacts
<1> QED BY <1>3, <1>6

LEMMA SameBelowPop ==
    ASSUME NEW r \in Seq(Rstacks), r # << >>, NEW n \in Nat, n <= Last(r).loc
    PROVE  SameBelow(r, Front(r), n)
<1>1. /\ Front(r) \in Seq(Rstacks) /\ Len(Front(r)) = Len(r) - 1 /\ Len(r) \in Nat \ {0}
      /\ (\A j \in 1 .. Len(r) - 1 : Front(r)[j] = r[j]) /\ Last(r) = r[Len(r)]
  BY FrontFacts
<1>2. PICK q \in Seq(Rstacks) : q = Front(r)
  BY <1>1
<1>3. /\ Len(q) \in Nat /\ Len(q) <= Len(r) /\ (\A j \in 1 .. Len(q) : q[j] = r[j])
      /\ \A j \in 1 .. Len(q) : j > Len(q) => q[j].loc >= n
  BY <1>1, <1>2
<1>4. ASSUME NEW j \in 1 .. Len(r), j > Len(q) PROVE r[j].loc >= n
  <2>1. j = Len(r)
    BY <1>1, <1>2, <1>4
  <2>2. r[j].loc \in Nat
    BY EntryFacts
  <2> QED BY <1>1, <2>1, <2>2
<1>5. SameBelow(r, q, n)
  <2>1. PICK c \in Nat : c = Len(q)
    BY <1>3
  <2>2. /\ c <= Len(r) /\ c <= Len(q) /\ (\A j \in 1 .. c : q[j] = r[j])
        /\ (\A j \in 1 .. Len(r) : j > c => r[j].loc >= n)
        /\ (\A j \in 1 .. Len(q) : j > c => q[j].loc >= n)
    BY <1>3, <1>4, <2>1
  <2> QED BY <2>2, SameBelowFacts
<1> QED BY <1>2, <1>5

LEMMA SameBelowPrefix ==
    ASSUME NEW r \in Seq(Rstacks), NEW k \in 0 .. Len(r), NEW l \in Nat, Above(r, k, l),
           NEW n \in Nat, n <= l + 1
    PROVE  SameBelow(r, SubSeq(r, 1, k), n)
<1>1. PICK q \in Seq(Rstacks) : q = SubSeq(r, 1, k)
  BY PrefixFacts
<1>2. Len(q) = k /\ (\A j \in 1 .. k : q[j] = r[j]) /\ k \in Nat /\ k <= Len(r) /\ Len(r) \in Nat
  BY <1>1, PrefixFacts
<1>3. ASSUME NEW j \in 1 .. Len(r), j > k PROVE r[j].loc >= n
  <2>1. r[j].loc \in Nat /\ r[j].loc > l
    BY <1>3, EntryFacts DEF Above
  <2> QED BY <2>1
<1>4. \A j \in 1 .. Len(q) : j > k => q[j].loc >= n
  BY <1>2
<1>5. SameBelow(r, q, n)
  <2>1. /\ k \in Nat /\ k <= Len(r) /\ k <= Len(q) /\ (\A j \in 1 .. k : q[j] = r[j])
        /\ (\A j \in 1 .. Len(r) : j > k => r[j].loc >= n)
        /\ (\A j \in 1 .. Len(q) : j > k => q[j].loc >= n)
    BY <1>2, <1>3, <1>4
  <2> QED BY <2>1, SameBelowFacts
<1> QED BY <1>1, <1>5

LEMMA SameBelowChain ==
    ASSUME NEW r, NEW q, NEW s, NEW n, SameBelow(r, q, n), SameBelow(q, s, n)
    PROVE  SameBelow(r, s, n)
  BY DEF SameBelow

Buffers == [rs : Seq(Rstacks), ip : {PRet}, slot : 0 .. MaxSlots, home : Nat, owner : Nat]

LEMMA CopyStays ==
    ASSUME NEW b \in Buffers, NEW r, NEW q, CopyOf(r, b), SameBelow(r, q, b.slot)
    PROVE  CopyOf(q, b)
<1>1. b.rs \in Seq(Rstacks) /\ b.rs # << >>
  BY DEF Buffers, CopyOf
<1>2. PICK k \in Nat : k = Len(b.rs) - 1
  BY SMTT(30), <1>1
<1>3. Splits(r, k, b.slot) /\ \A j \in 1 .. k : r[j] = b.rs[j]
  BY <1>2 DEF CopyOf
<1>4. Splits(q, k, b.slot) /\ \A j \in 1 .. k : q[j] = b.rs[j]
  BY <1>3 DEF SameBelow
<1> QED BY <1>2, <1>4 DEF CopyOf

-----------------------------------------------------------------------------
(* The steps *)

LEMMA GotoFacts ==
    ASSUME NEW a \in Int, NEW want \in Nat, Goto(a, want), ReturnsToCaller
    PROVE  /\ a = MRet => pc' = "mret" /\ ReturnsToCaller'
           /\ a = PRet => pc' = "pret" /\ ReturnsToCaller'
           /\ a = want => pc' = "run" /\ ReturnsToCaller'
<1>1. want \notin Hooks /\ want # MRet /\ want # PRet
  BY DEF Hooks, MRet, PRet
<1>2. MRet # PRet /\ MRet \in Hooks /\ PRet \in Hooks
  BY DEF Hooks, MRet, PRet
<1> QED BY <1>1, <1>2 DEF Goto, ReturnsToCaller

\* What a program that does not end early does
LEMMA ProgramFacts ==
    ASSUME RetInv
    PROVE  /\ "throw" \in program \/ "vfork" \in program \/ "jmp" \in program => ~stop /\ ~dead
           /\ in_exc \/ pad > 0 \/ pc = "unwind" \/ vf.idx > 0 => ~stop /\ ~dead
           /\ {"throw", "recover", "backtrace"} \cap program # {} => Walks(program) /\ ~Mixes(program)
           /\ "throw" \in program => "plain" \notin program
<1>1. Supported(program) /\ OnlyIf
  BY DEF RetInv, TypeInv
<1> QED BY <1>1 DEF Supported, OnlyIf, Walks, Mixes

\* The kinds of the entries below the last one
LEMMA FrontKinds ==
    ASSUME NEW r \in Seq(Rstacks), r # << >>
    PROVE  /\ Uniform(r) => Uniform(Front(r))
           /\ NoPlt(r) => NoPlt(Front(r))
           /\ \A j \in 1 .. Len(Front(r)) : j \in 1 .. Len(r) /\ Front(r)[j] = r[j]
<1>1. /\ Front(r) \in Seq(Rstacks) /\ Len(Front(r)) = Len(r) - 1 /\ Len(r) \in Nat \ {0}
      /\ \A j \in 1 .. Len(r) - 1 : Front(r)[j] = r[j]
  BY FrontFacts
<1>2. Agree(Front(r), r, Len(Front(r)))
  BY FrontAgrees
<1>3. PICK q \in Seq(Rstacks) : q = Front(r)
  BY <1>1
<1>4. (Uniform(r) => Uniform(q)) /\ (NoPlt(r) => NoPlt(q))
  BY <1>2, <1>3, PrefixKeeps
<1>5. \A j \in 1 .. Len(r) - 1 : j \in 1 .. Len(r)
  BY <1>1
<1> QED BY <1>1, <1>3, <1>4, <1>5

LEMMA FinishKeeps == ASSUME RetInv, Finish PROVE RetInv'
<1>1. TypeInv' /\ LeftSlot' /\ OnlyIf' /\ VforkInv' /\ Kinds' /\ ReturnsToCaller'
  BY ZenonT(60) DEF RetInv, Finish, TypeInv, LeftSlot, OnlyIf, VforkInv, Kinds, Base, Resumes, CleanupCalls, ReturnsToCaller
<1>2. JmpInv'
  BY DEF RetInv, Finish, JmpInv, Usable, FrameAt
<1>3. Placed'
  BY DEF RetInv, Finish, Placed, InCleanup, CleanupCalls, Jumps, Resumes, Usable, FrameAt
<1> QED BY <1>1, <1>2, <1>3 DEF RetInv

LEMMA BacktraceBeginKeeps == ASSUME RetInv, BacktraceBegin PROVE RetInv'
<1>1. /\ Good(rs, mem, home, sp) /\ rs \in Seq(Rstacks) /\ mem \in Memory /\ home \in Homes
      /\ sp \in 0 .. MaxSlots
  BY DEF RetInv, BacktraceBegin, TypeInv, Placed, Homes
<1>2. Unhooked(Restore(rs, mem), home, sp) /\ Restore(rs, mem) \in Memory
  BY <1>1, RestoreReal, WriteBackType DEF Good
<1>3. TypeInv' /\ LeftSlot' /\ OnlyIf' /\ VforkInv' /\ Kinds' /\ ReturnsToCaller'
  BY <1>2 DEF RetInv, BacktraceBegin, progVars, TypeInv, LeftSlot, OnlyIf, VforkInv, Kinds, Base, Resumes, CleanupCalls, ReturnsToCaller
<1>4. JmpInv'
  BY DEF RetInv, BacktraceBegin, progVars, JmpInv, Usable, FrameAt
<1>5. Placed'
  BY <1>1, <1>2 DEF RetInv, BacktraceBegin, progVars, Placed, InCleanup, CleanupCalls, Jumps, Resumes, OnlyIf, Good
<1> QED BY <1>3, <1>4, <1>5 DEF RetInv

LEMMA BacktraceEndKeeps == ASSUME RetInv, BacktraceEnd PROVE RetInv'
<1>1. /\ Truthful(rs, home, sp) /\ Within(rs, sp) /\ Unhooked(mem, home, sp)
      /\ rs \in Seq(Rstacks) /\ mem \in Memory /\ home \in Homes /\ sp \in 0 .. MaxSlots
  BY DEF RetInv, BacktraceEnd, TypeInv, Placed, Homes
<1>2. Uniform(rs)
  BY ProgramFacts DEF RetInv, BacktraceEnd, OnlyIf, Kinds, Base, Resumes, CleanupCalls
<1>3. Good(rs, Rehook(rs, mem), home, sp) /\ Rehook(rs, mem) \in Memory
  BY <1>1, <1>2, RealCovers, RehookGood, WriteBackType DEF Good
<1>4. TypeInv' /\ LeftSlot' /\ OnlyIf' /\ VforkInv' /\ Kinds' /\ ReturnsToCaller'
  BY <1>3 DEF RetInv, BacktraceEnd, progVars, TypeInv, LeftSlot, OnlyIf, VforkInv, Kinds, Base, Resumes, CleanupCalls, ReturnsToCaller
<1>5. JmpInv'
  BY DEF RetInv, BacktraceEnd, progVars, JmpInv, Usable, FrameAt
<1>6. Placed'
  BY <1>1, <1>3 DEF RetInv, BacktraceEnd, progVars, Placed, InCleanup, CleanupCalls, Jumps, Resumes, OnlyIf, Good
<1> QED BY <1>4, <1>5, <1>6 DEF RetInv

LEMMA ThrowKeeps == ASSUME RetInv, Throw PROVE RetInv'
<1>1. ~dead /\ ~stop
  BY ProgramFacts DEF Throw
<1>2. /\ rs \in Seq(Rstacks) /\ mem \in Memory /\ home \in Homes /\ sp \in 0 .. MaxSlots /\ pad \in 0 .. sp
  BY DEF RetInv, TypeInv, Homes
<1>3. Truthful(rs, home, sp) /\ Covers(rs, mem, home, sp) /\ Base = rs
  <2>1. CASE in_exc
    <3>1. InCleanup
      BY <2>1, <1>2 DEF RetInv, Throw, OnlyIf, InCleanup
    <3> QED BY <3>1, RealCovers DEF RetInv, Placed, Base, Resumes, CleanupCalls, InCleanup
  <2>2. CASE ~in_exc
    BY <1>1, <2>2 DEF RetInv, Throw, Placed, Good, Base, Resumes, CleanupCalls
  <2> QED BY <2>1, <2>2
<1>4. Unhooked(Restore(rs, mem), home, sp) /\ Restore(rs, mem) \in Memory
  BY <1>2, <1>3, RestoreReal, WriteBackType
<1>5. TypeInv' /\ LeftSlot' /\ OnlyIf' /\ VforkInv' /\ ReturnsToCaller'
  <2>1. TypeInv'
    BY <1>1, <1>2, <1>4 DEF RetInv, Throw, TypeInv
  <2>2. LeftSlot' /\ OnlyIf' /\ VforkInv' /\ ReturnsToCaller'
    BY <1>1 DEF RetInv, Throw, LeftSlot, OnlyIf, VforkInv, ReturnsToCaller
  <2> QED BY <2>1, <2>2
<1>6. Kinds'
  BY <1>1, <1>3 DEF RetInv, Throw, Kinds, Base, Resumes, CleanupCalls
<1>7. JmpInv'
  BY DEF RetInv, Throw, JmpInv, Usable, FrameAt
<1>8. Placed'
  BY <1>1, <1>3, <1>4 DEF RetInv, Throw, Placed, InCleanup, CleanupCalls, Jumps, Resumes
<1> QED BY <1>5, <1>6, <1>7, <1>8 DEF RetInv

LEMMA LandKeeps == ASSUME RetInv, NEW k \in 1 .. MaxSlots, LandInCleanup(k) PROVE RetInv'
<1>1. ~dead /\ ~stop /\ in_exc /\ pad = 0 /\ ~vf.child /\ vf.idx = 0
  BY ProgramFacts DEF RetInv, LandInCleanup, OnlyIf, TypeInv
<1>2. /\ rs \in Seq(Rstacks) /\ mem \in Memory /\ home \in Homes /\ sp \in 0 .. MaxSlots /\ k \in 0 .. sp
      /\ k \in 0 .. MaxSlots /\ k <= sp /\ k > 0
  BY RetAddrAssumption DEF RetInv, TypeInv, Homes, LandInCleanup
<1>3. Truthful(rs, home, sp) /\ Unhooked(mem, home, sp)
  BY <1>1 DEF RetInv, LandInCleanup, Placed
<1>4. Truthful(rs, home, k) /\ Unhooked(mem, home, k)
  BY <1>2, <1>3, LowerSlots
<1>5. TypeInv' /\ OnlyIf' /\ VforkInv' /\ ReturnsToCaller' /\ Kinds'
  BY <1>1, <1>2 DEF RetInv, LandInCleanup, TypeInv, OnlyIf, VforkInv, ReturnsToCaller, Kinds, Base, Resumes, CleanupCalls
<1>6. LeftSlot'
  BY <1>2 DEF RetInv, LandInCleanup, LeftSlot
<1>7. JmpInv'
  <2>1. Usable' => Usable
    BY <1>2 DEF RetInv, TypeInv, LandInCleanup, Usable, FrameAt
  <2> QED BY <2>1 DEF RetInv, LandInCleanup, JmpInv
<1>8. Placed'
  BY <1>1, <1>4 DEF RetInv, LandInCleanup, Placed, InCleanup, CleanupCalls, Jumps, Resumes
<1> QED BY <1>5, <1>6, <1>7, <1>8 DEF RetInv

LEMMA CatchKeeps == ASSUME RetInv, NEW k \in 1 .. MaxSlots, Catch(k) PROVE RetInv'
<1>1. /\ ~dead /\ ~stop /\ in_exc /\ pad = 0 /\ ~vf.child /\ vf.idx = 0 /\ pc = "unwind"
      /\ "throw" \in program /\ Walks(program)
  BY ProgramFacts DEF RetInv, Catch, OnlyIf, TypeInv
<1>2. /\ rs \in Seq(Rstacks) /\ mem \in Memory /\ home \in Homes /\ sp \in 0 .. MaxSlots /\ k \in 0 .. sp
      /\ k \in 0 .. MaxSlots /\ k <= sp /\ k > 0 /\ k \in Nat
  BY <1>1, RetAddrAssumption DEF RetInv, TypeInv, Homes, Catch
<1>3. Truthful(rs, home, k) /\ Unhooked(mem, home, k)
  <2>1. Truthful(rs, home, sp) /\ Unhooked(mem, home, sp)
    BY <1>1 DEF RetInv, Placed
  <2> QED BY <1>2, <2>1, LowerSlots
<1>4. Uniform(rs) /\ ("tail" \in program => NoPlt(rs))
  BY <1>1 DEF RetInv, Kinds, Base, Resumes, CleanupCalls
<1>5. PICK c \in 0 .. Len(rs) :
              /\ RehookException(rs, mem, k) = [rs |-> SubSeq(rs, 1, c), mem |-> Rehook(SubSeq(rs, 1, c), mem)]
              /\ Above(rs, c, k) /\ Within(SubSeq(rs, 1, c), k)
              /\ Good(SubSeq(rs, 1, c), Rehook(SubSeq(rs, 1, c), mem), home, k)
  BY <1>2, <1>3, <1>4, UnwoundGood
<1>6. PICK q \in Seq(Rstacks) : q = SubSeq(rs, 1, c)
  BY <1>2, PrefixFacts
<1>7. Len(q) = c /\ (\A j \in 1 .. c : q[j] = rs[j]) /\ Agree(q, rs, Len(q))
  BY <1>2, <1>6, PrefixFacts, PrefixAgrees
<1>8. Rehook(q, mem) \in Memory
  BY <1>2, WriteBackType
<1>9. rs' = q /\ mem' = Rehook(q, mem)
  BY <1>1, <1>5, <1>6 DEF Catch, Become
<1>10. TypeInv'
  <2>1. rs' \in Seq(Rstacks) /\ mem' \in Memory /\ sp' \in 0 .. MaxSlots /\ pad' \in 0 .. sp'
    BY <1>1, <1>2, <1>8, <1>9 DEF Catch
  <2> QED BY <2>1 DEF RetInv, Catch, TypeInv
<1>11. OnlyIf' /\ VforkInv' /\ ReturnsToCaller'
  BY <1>1 DEF RetInv, Catch, OnlyIf, VforkInv, ReturnsToCaller
<1>12. LeftSlot'
  BY <1>2 DEF RetInv, Catch, LeftSlot
<1>13. JmpInv'
  <2>1. Usable' => Usable
    BY SMTT(30), <1>2 DEF RetInv, TypeInv, Catch, Usable, FrameAt
  <2>2. SUFFICES ASSUME Usable' PROVE CopyOf(rs', jmpbuf)
    BY DEF RetInv, Catch, JmpInv
  <2>3. CopyOf(rs, jmpbuf) /\ jmpbuf.slot <= k + 1
    BY <1>1, <2>1, <2>2 DEF RetInv, JmpInv, Usable, Catch
  <2>4. jmpbuf \in Buffers /\ jmpbuf.slot \in Nat
    BY RetAddrAssumption DEF RetInv, TypeInv, Buffers
  <2>5. SameBelow(rs, q, jmpbuf.slot)
    BY <1>2, <1>5, <1>6, <2>3, <2>4, SameBelowPrefix
  <2> QED BY <1>9, <2>3, <2>4, <2>5, CopyStays
<1>14. Kinds'
  <2>1. Uniform(q) /\ ("tail" \in program => NoPlt(q))
    BY <1>2, <1>4, <1>7, PrefixKeeps
  <2>2. \A j \in 1 .. Len(q) : j \in 1 .. Len(rs) /\ q[j] = rs[j]
    BY <1>7, <1>2
  <2>3. /\ \A j \in 1 .. Len(q) : q[j].flag # "LONGJMP"
        /\ \A j \in 1 .. Len(q) : q[j].flag = "RECOVER" => ~q[j].plt /\ "recover" \in program
    BY <1>1, <2>2 DEF RetInv, Kinds
  <2> QED BY <1>1, <1>9, <2>1, <2>3 DEF Catch, Kinds, Base, Resumes, CleanupCalls
<1>15. Placed'
  BY <1>1, <1>5, <1>6, <1>9 DEF Catch, Placed, InCleanup, CleanupCalls, Jumps, Resumes
<1> QED BY <1>10, <1>11, <1>12, <1>13, <1>14, <1>15 DEF RetInv

LEMMA PthreadExitKeeps == ASSUME RetInv, PthreadExit PROVE RetInv'
<1>1. /\ pc = "run" /\ ~dead /\ pad = 0 /\ ~in_exc /\ vf.idx = 0 /\ rs # << >>
      /\ rs \in Seq(Rstacks) /\ mem \in Memory /\ home \in Homes /\ sp \in 0 .. MaxSlots
      /\ vf \in [idx : Nat, top : [loc : 0 .. MaxSlots, ip : Int, plt : BOOLEAN, flag : {"none"}],
                 slot : 0 .. MaxSlots, home : Nat, child : BOOLEAN]
  BY DEF RetInv, PthreadExit, OnlyIf, TypeInv, Homes
<1>2. Good(rs, mem, home, sp)
  BY <1>1 DEF RetInv, Placed
<1>3. Unhooked(Restore(rs, mem), home, sp) /\ Restore(rs, mem) \in Memory
  BY <1>1, <1>2, RestoreReal, WriteBackType DEF Good
<1>4. PICK q \in Seq(Rstacks) : q = Front(rs)
  BY <1>1, FrontFacts
<1>5. rs' = q /\ mem' = Restore(rs, mem)
  BY <1>4 DEF PthreadExit
<1>6. TypeInv'
  BY <1>3, <1>5 DEF RetInv, PthreadExit, progVars, TypeInv
<1>7. LeftSlot' /\ OnlyIf' /\ ReturnsToCaller' /\ VforkInv'
  BY <1>1 DEF RetInv, PthreadExit, progVars, LeftSlot, OnlyIf, VforkInv, ReturnsToCaller
<1>8. JmpInv'
  BY DEF RetInv, PthreadExit, progVars, JmpInv
<1>9. Kinds'
  <2>1. \A j \in 1 .. Len(q) : j \in 1 .. Len(rs) /\ q[j] = rs[j]
    BY <1>1, <1>4, FrontKinds
  <2>2. (Uniform(rs) => Uniform(q)) /\ (NoPlt(rs) => NoPlt(q))
    BY <1>1, <1>4, FrontKinds
  <2>3. Walks(program) => Uniform(rs) /\ ("tail" \in program => NoPlt(rs))
    BY <1>1 DEF RetInv, Kinds, Base, Resumes, CleanupCalls
  <2>4. /\ \A j \in 1 .. Len(q) : q[j].flag # "LONGJMP"
        /\ \A j \in 1 .. Len(q) : q[j].flag = "RECOVER" => ~q[j].plt /\ "recover" \in program
    BY <1>1, <2>1 DEF RetInv, Kinds
  <2> QED BY <1>1, <1>5, <2>2, <2>3, <2>4 DEF PthreadExit, progVars, Kinds, Base, Resumes, CleanupCalls
<1>10. Placed'
  BY <1>1, <1>3, <1>5 DEF PthreadExit, progVars, Placed, InCleanup, CleanupCalls, Jumps, Resumes
<1> QED BY <1>6, <1>7, <1>8, <1>9, <1>10 DEF RetInv

LEMMA VforkChildDoneKeeps == ASSUME RetInv, VforkChildDone PROVE RetInv'
<1>1. /\ pc = "run" /\ ~dead /\ ~stop /\ pad = 0 /\ ~in_exc /\ vf.child /\ vf.idx > 0
      /\ rs \in Seq(Rstacks) /\ mem \in Memory /\ home \in Homes /\ sp \in 0 .. MaxSlots
      /\ vf \in [idx : Nat, top : [loc : 0 .. MaxSlots, ip : Int, plt : BOOLEAN, flag : {"none"}],
                 slot : 0 .. MaxSlots, home : Nat, child : BOOLEAN]
  <2>1. pc = "run" /\ vf.child
    BY DEF VforkChildDone
  <2>2. vf.idx > 0 /\ pad = 0
    BY <2>1 DEF RetInv, OnlyIf
  <2>3. pad \in Nat /\ ~(pad > 0)
    BY <2>2
  <2>4. ~in_exc
    BY <2>1, <2>3 DEF RetInv, OnlyIf
  <2>5. ~dead /\ ~stop
    BY <2>2, ProgramFacts
  <2> QED BY <2>1, <2>2, <2>4, <2>5 DEF RetInv, TypeInv, Homes
<1>2. vf.slot > 0 /\ vf.slot <= sp + 1
  BY <1>1 DEF RetInv, VforkInv
<1>3. PICK n \in 0 .. sp : n = vf.slot - 1
  BY <1>1, <1>2, RetAddrAssumption
<1>4. n \in 0 .. MaxSlots /\ sp' = n /\ n <= sp /\ n < MaxSlots
  BY <1>1, <1>3, RetAddrAssumption DEF VforkChildDone
<1>5. Good(rs, mem, home, sp)
  BY <1>1 DEF RetInv, Placed
<1>6. Covers(rs, mem, home, n) /\ Truthful(rs, home, n)
  BY <1>1, <1>3, <1>5, LowerSlots DEF Good
<1>7. vf' = [vf EXCEPT !.child = FALSE] /\ vf'.idx = vf.idx /\ vf'.slot = vf.slot /\ ~vf'.child
      /\ vf'.home = vf.home /\ vf'.top = vf.top
      /\ vf' \in [idx : Nat, top : [loc : 0 .. MaxSlots, ip : Int, plt : BOOLEAN, flag : {"none"}],
                  slot : 0 .. MaxSlots, home : Nat, child : BOOLEAN]
  BY <1>1 DEF VforkChildDone
<1>8. TypeInv'
  BY <1>1, <1>4, <1>7 DEF RetInv, VforkChildDone, TypeInv
<1>9. LeftSlot'
  BY <1>4 DEF LeftSlot
<1>10. OnlyIf' /\ VforkInv' /\ ReturnsToCaller'
  <2>1. OnlyIf'
    BY <1>1, <1>7 DEF RetInv, VforkChildDone, OnlyIf
  <2>2. VforkInv'
    <3>1. rs' = rs /\ vf'.slot <= sp' + 1
      BY <1>1, <1>3, <1>4, <1>7 DEF VforkChildDone
    <3>2. vf.slot > 0 /\ vf.top = Rstack(vf.slot, vf.home, TRUE) /\ Splits(rs, vf.idx - 1, vf.slot)
      BY <1>1 DEF RetInv, VforkInv
    <3> QED BY <1>7, <3>1, <3>2 DEF VforkInv
  <2>3. ReturnsToCaller'
    BY DEF RetInv, VforkChildDone, ReturnsToCaller
  <2> QED BY <2>1, <2>2, <2>3
<1>11. JmpInv'
  <2>1. Usable' => Usable
    BY SMTT(30), <1>1, <1>4 DEF RetInv, TypeInv, VforkChildDone, Usable, FrameAt
  <2> QED BY <1>1, <2>1 DEF RetInv, VforkChildDone, JmpInv
<1>12. rs' = rs /\ pc' = "pret" /\ in_exc' = in_exc /\ program' = program /\ mem' = mem /\ home' = home
       /\ dead' = dead /\ jmpbuf' = jmpbuf /\ pad' = pad
  BY DEF VforkChildDone
<1>13. Kinds'
  <2>1. Walks(program) => Uniform(rs) /\ ("tail" \in program => NoPlt(rs))
    BY <1>1 DEF RetInv, Kinds, Base, Resumes, CleanupCalls
  <2>2. Walks(program) => Uniform(Base') /\ ("tail" \in program => NoPlt(Base'))
    <3>1. Base' = rs
      BY <1>1, <1>7, <1>12 DEF Base, Resumes, CleanupCalls
    <3> QED BY <2>1, <3>1
  <2> QED BY <1>1, <1>12, <2>2 DEF RetInv, Kinds
<1>14. Placed'
  <2>1. ~Jumps' /\ Resumes' /\ ~InCleanup' /\ ~CleanupCalls'
    BY <1>1, <1>7, <1>12 DEF Jumps, Resumes, InCleanup, CleanupCalls
  <2>2. sp' = vf'.slot - 1 /\ Covers(rs', mem', home', sp') /\ Truthful(rs', home', sp')
    BY <1>3, <1>4, <1>6, <1>7, <1>12
  <2> QED BY <1>1, <1>12, <2>1, <2>2 DEF Placed
<1> QED BY <1>8, <1>9, <1>10, <1>11, <1>13, <1>14 DEF RetInv

\* The return instruction finds the address of the caller or a hook for the last entry.
LEMMA ReturnFrom ==
    ASSUME NEW r \in Seq(Rstacks), NEW m \in Memory, NEW h \in Homes, NEW n \in 1 .. MaxSlots,
           Good(r, m, h, n)
    PROVE  \/ m[n] = h[n] /\ Good(r, m, h, n - 1)
           \/ r # << >> /\ m[n] = HookOf(Last(r)) /\ Leaving(r, m, h, n - 1)
<1>1. n \in Nat /\ n - 1 \in 0 .. n /\ n \in 0 .. MaxSlots /\ n \in 1 .. n
  BY RetAddrAssumption
<1>2. PICK k \in 0 .. n : k = n - 1
  BY <1>1
<1>3. Truthful(r, h, k) /\ Covers(r, m, h, k)
  BY <1>1, LowerSlots DEF Good
<1>4. h[n] \in Nat /\ h[n] >= 0
  BY DEF Homes
<1>5. CASE m[n] = h[n]
  <2>1. SUFFICES ASSUME NEW j \in 1 .. Len(r) PROVE r[j].loc <= k
    BY <1>2, <1>3, <1>5 DEF Good, Within
  <2>2. /\ r # << >> /\ Len(r) \in 1 .. Len(r) /\ Last(r) = r[Len(r)] /\ j <= Len(r)
        /\ Last(r) \in Rstacks
    <3>1. r # << >>
      OBVIOUS
    <3> QED BY <3>1, FrontFacts
  <2>3. r[j].loc <= Last(r).loc /\ Last(r).loc <= n /\ r[j].loc \in Nat /\ Last(r).loc \in Nat
    BY <2>2, EntryFacts DEF Good, Truthful, Sorted, Within
  <2>4. Last(r).loc # n
    <3>1. SUFFICES ASSUME Last(r).loc = n PROVE FALSE
      OBVIOUS
    <3>2. m[n] = HookOf(Last(r)) /\ HookOf(Last(r)) < 0 /\ HookOf(Last(r)) \in Int
      BY <2>2, <3>1, HookFacts DEF Good, TopHooked
    <3> QED BY <1>4, <1>5, <3>2
  <2> QED BY <1>1, <1>2, <2>3, <2>4
<1>6. CASE m[n] # h[n]
  <2>1. PICK j \in 1 .. Len(r) : r[j].loc = n /\ Newest(r, j) /\ m[n] = HookOf(r[j])
    BY <1>1, <1>6 DEF Good, Covers
  <2>2. j = Len(r)
    BY <2>1, LastIsNewest DEF Good, Truthful
  <2>3. r # << >> /\ Last(r) = r[j]
    BY <2>2, FrontFacts
  <2>4. k + 1 = n
    BY <1>1, <1>2
  <2> QED BY <1>2, <1>3, <2>1, <2>3, <2>4 DEF Good, Leaving
<1> QED BY <1>5, <1>6

LEMMA RetInsnKeeps == ASSUME RetInv, RetInsn PROVE RetInv'
<1>1. /\ pc = "run" /\ sp > pad /\ sp \in 1 .. MaxSlots /\ sp \in 0 .. MaxSlots /\ pad \in 0 .. sp
      /\ rs \in Seq(Rstacks) /\ mem \in Memory /\ home \in Homes
      /\ UNCHANGED <<program, home, ncalls, in_exc, pad, jmpbuf, vf, stop, mem, rs, dead>>
      /\ sp' = sp - 1 /\ Goto(mem[sp], home[sp]) /\ (vf.child => sp >= vf.slot)
  BY DEF RetInv, TypeInv, RetInsn, Homes, progVars
<1>2. PICK n \in 0 .. sp : n = sp - 1
  BY <1>1, RetAddrAssumption
<1>3. n \in 0 .. MaxSlots /\ sp' = n /\ n <= sp /\ n < MaxSlots /\ pad \in 0 .. n /\ n + 1 = sp
  BY <1>1, <1>2, RetAddrAssumption
<1>4. mem[sp] \in Int /\ home[sp] \in Nat
  BY <1>1 DEF Memory, Homes
<1>5. \A j \in 1 .. Len(rs) : rs[j].flag # "LONGJMP"
  BY <1>1 DEF RetInv, Kinds
<1>6. vf.idx > 0 => vf.child
  BY <1>1 DEF RetInv, OnlyIf
<1>7. \/ pc' = "run" /\ ReturnsToCaller' /\ Unhooked(mem, home, n) /\ dead
      \/ pc' = "run" /\ ReturnsToCaller' /\ Good(rs, mem, home, n) /\ ~dead /\ ~in_exc
      \/ /\ rs # << >> /\ Leaving(rs, mem, home, n) /\ ~dead /\ ReturnsToCaller' /\ ~in_exc
         /\ pc' = IF Last(rs).plt THEN "pret" ELSE "mret"
      \/ pc' = "pret" /\ ReturnsToCaller' /\ CleanupCalls
  <2>0. ReturnsToCaller
    BY DEF RetInv
  <2>1. CASE dead
    <3>1. Unhooked(mem, home, sp)
      BY <2>1 DEF RetInv, Placed
    <3>2. mem[sp] = home[sp]
      BY <1>1, <3>1 DEF Unhooked
    <3>3. Unhooked(mem, home, n)
      BY <1>1, <1>3, <3>1, LowerSlots
    <3> QED BY <1>1, <1>4, <2>0, <2>1, <3>2, <3>3, GotoFacts
  <2>2. CASE ~dead /\ in_exc
    <3>1. CleanupCalls
      BY <1>1, <2>2 DEF CleanupCalls
    <3>2. mem[sp] = PRet
      BY <3>1 DEF RetInv, Placed
    <3> QED BY <1>1, <1>4, <2>0, <3>1, <3>2, GotoFacts
  <2>3. CASE ~dead /\ ~in_exc
    <3>1. Good(rs, mem, home, sp)
      BY <1>1, <2>3 DEF RetInv, Placed
    <3>2. CASE mem[sp] = home[sp] /\ Good(rs, mem, home, n)
      BY <1>1, <1>4, <2>0, <2>3, <3>2, GotoFacts
    <3>3. CASE rs # << >> /\ mem[sp] = HookOf(Last(rs)) /\ Leaving(rs, mem, home, n)
      <4>1. Last(rs) \in Rstacks
        BY <1>1, <3>3, FrontFacts
      <4>2. IF Last(rs).plt THEN mem[sp] = PRet ELSE mem[sp] = MRet
        BY <3>3, <4>1, HookFacts
      <4> QED BY <1>1, <1>4, <2>0, <2>3, <3>3, <4>2, GotoFacts
    <3> QED BY <1>1, <1>2, <3>1, <3>2, <3>3, ReturnFrom
  <2> QED BY <2>1, <2>2, <2>3
<1>8. pc' \in {"run", "mret", "pret"} /\ ReturnsToCaller'
  BY <1>7
<1>9. TypeInv' /\ LeftSlot'
  BY <1>1, <1>3, <1>8 DEF RetInv, TypeInv, LeftSlot
<1>10. OnlyIf'
  BY <1>1, <1>6, <1>7 DEF RetInv, OnlyIf, CleanupCalls
<1>11. VforkInv'
  <2>1. SUFFICES ASSUME vf.idx > 0 PROVE vf.slot <= n + 1
    BY <1>1, <1>3 DEF RetInv, VforkInv
  <2> QED BY <1>1, <1>3, <1>6, <2>1
<1>12. JmpInv'
  <2>1. Usable' => Usable
    BY <1>1, <1>3 DEF RetInv, TypeInv, Usable, FrameAt
  <2> QED BY <1>1, <2>1 DEF RetInv, JmpInv
<1>13. Kinds'
  <2>1. Base = rs \/ (rs # << >> /\ Base = Front(rs) /\ CleanupCalls)
    BY <1>1 DEF RetInv, Placed, Base, Resumes, CleanupCalls, CleanupCalls
  <2>2. Base' = rs \/ (rs # << >> /\ Base' = Front(rs))
    <3>1. in_exc => ~dead
      BY ProgramFacts
    <3> QED BY <1>1, <1>7, <3>1 DEF Base, Resumes, CleanupCalls, CleanupCalls
  <2>3. CleanupCalls => Base' = Front(rs) /\ rs # << >>
    <3>1. SUFFICES ASSUME CleanupCalls PROVE Base' = Front(rs) /\ rs # << >>
      OBVIOUS
    <3>2. rs # << >> /\ in_exc /\ ~dead
      BY <3>1, ProgramFacts DEF RetInv, Placed, CleanupCalls
    <3>3. pc' = "pret"
      BY <1>7, <3>2
    <3> QED BY <1>1, <1>6, <3>2, <3>3 DEF Base, Resumes, CleanupCalls
  <2>4. Walks(program) => Uniform(Base) /\ ("tail" \in program => NoPlt(Base))
    BY DEF RetInv, Kinds
  <2>5. Walks(program) => Uniform(Base') /\ ("tail" \in program => NoPlt(Base'))
    BY <1>1, <2>1, <2>2, <2>3, <2>4, FrontKinds
  <2> QED BY <1>1, <1>5, <2>5 DEF RetInv, Kinds
<1>14. Placed'
  <2>1. ~Jumps' /\ ~Resumes'
    <3>1. rs # << >> => Last(rs).flag # "LONGJMP"
      BY <1>1, <1>5, FrontFacts
    <3>2. ~Jumps'
      BY <1>1, <3>1 DEF Jumps
    <3> QED BY <1>1, <1>6, <3>2 DEF Resumes
  <2>2. CASE pc' = "run" /\ Unhooked(mem, home, n) /\ dead
    <3>1. rs = << >> /\ ~in_exc
      BY <2>2, ProgramFacts DEF RetInv, Placed
    <3> QED BY <1>1, <1>3, <2>1, <2>2, <3>1 DEF Placed, InCleanup, CleanupCalls
  <2>3. CASE pc' = "run" /\ Good(rs, mem, home, n) /\ ~dead /\ ~in_exc
    BY <1>1, <1>3, <2>1, <2>3 DEF Placed, InCleanup, CleanupCalls
  <2>4. CASE /\ rs # << >> /\ Leaving(rs, mem, home, n) /\ ~dead /\ ~in_exc
             /\ pc' = IF Last(rs).plt THEN "pret" ELSE "mret"
    BY <1>1, <1>3, <2>1, <2>4 DEF Placed, InCleanup, CleanupCalls
  <2>5. CASE pc' = "pret" /\ CleanupCalls
    <3>1. /\ sp = pad + 1 /\ rs # << >> /\ Last(rs) = Rstack(sp, home[sp], TRUE)
          /\ Truthful(Front(rs), home, pad) /\ Unhooked(mem, home, pad) /\ in_exc /\ ~dead
      BY <2>5, ProgramFacts DEF RetInv, Placed, CleanupCalls
    <3>2. n = pad
      BY <1>1, <1>3, <3>1
    <3> QED BY <1>1, <1>3, <2>1, <2>5, <3>1, <3>2 DEF Placed, InCleanup, CleanupCalls
  <2> QED BY <1>7, <2>2, <2>3, <2>4, <2>5
<1> QED BY <1>8, <1>9, <1>10, <1>11, <1>12, <1>13, <1>14 DEF RetInv

\* What is left by an exit: q is the shadow stack without the entry of the call.
Left(q, h, n) ==
    /\ mem' \in Memory /\ ReturnsToCaller'
    /\ \/ stop /\ dead' = TRUE /\ pc' = "run" /\ rs' = << >> /\ Unhooked(mem', h, n)
       \/ ~stop /\ dead' = FALSE /\ rs' = q /\ pc' = "run" /\ Good(q, mem', h, n)
       \/ /\ ~stop /\ dead' = FALSE /\ rs' = q /\ q # << >> /\ Leaving(q, mem', h, n)
          /\ pc' = IF Last(q).plt THEN "pret" ELSE "mret"

LEMMA LeaveWithFacts ==
    ASSUME NEW r \in Seq(Rstacks), NEW m \in Memory, NEW h \in Homes, NEW n \in 0 .. MaxSlots,
           n < MaxSlots, Leaving(r, m, h, n), ~in_exc, ReturnsToCaller, stop \in BOOLEAN,
           Last(r).flag = "RECOVER" => Uniform(r), LeaveWith(r, m, h[n + 1])
    PROVE  Left(Front(r), h, n)
<1> DEFINE m1 == IF Last(r).flag = "RECOVER" THEN Rehook(r, m) ELSE m
           m2 == AutoRehook(r, m1)
<1>1. /\ r # << >> /\ Len(r) \in 1 .. Len(r) /\ Last(r) = r[Len(r)] /\ Last(r) \in Rstacks
      /\ Last(r).loc = n + 1 /\ n + 1 \in 1 .. MaxSlots /\ h[n + 1] \in Nat /\ n + 1 \in 0 .. MaxSlots
      /\ n + 1 \in 1 .. n + 1 /\ Front(r) \in Seq(Rstacks)
  BY FrontFacts, RetAddrAssumption DEF Leaving, Homes
<1>2. m1 \in Memory /\ Leaving(r, m1, h, n)
  <2>1. CASE Last(r).flag = "RECOVER"
    <3>1. Covers(r, Rehook(r, m), h, n) /\ Rehook(r, m) \in Memory
      BY <2>1, RehookGood, WriteBackType DEF Leaving
    <3> QED BY <2>1, <3>1 DEF Leaving
  <2>2. CASE Last(r).flag # "RECOVER"
    BY <2>2
  <2> QED BY <2>1, <2>2
<1> HIDE DEF m1
<1>3. /\ m2 \in Memory /\ Covers(r, m2, h, n)
      /\ \/ Last(r).ip = h[n + 1] /\ Good(Front(r), m2, h, n)
         \/ /\ Front(r) # << >> /\ Last(r).ip = HookOf(Last(Front(r)))
            /\ Leaving(Front(r), m2, h, n)
  BY <1>2, LeaveGood
<1>4. /\ dead' = stop
      /\ stop => /\ rs' = << >> /\ mem' = Restore(r, m2)
                 /\ Goto(Restore(r, m2)[n + 1], h[n + 1])
      /\ ~stop => rs' = Front(r) /\ mem' = m2 /\ Goto(Last(r).ip, h[n + 1])
  BY <1>1 DEF LeaveWith, Become, Died, m1
<1> HIDE DEF m2
<1>5. CASE stop
  <2>1. Restore(r, m2) \in Memory
    BY <1>3, WriteBackType
  <2>2. Truthful(r, h, n)
    <3>1. n \in 0 .. n + 1
      OBVIOUS
    <3> QED BY <1>1, <3>1, LowerSlots DEF Leaving
  <2>3. Unhooked(Restore(r, m2), h, n)
    BY <1>3, <2>2, RestoreReal
  <2>4. Restore(r, m2)[n + 1] = h[n + 1]
    <3>1. \E j \in 1 .. Len(r) : r[j].loc = n + 1
      BY <1>1
    <3>2. Truthful(r, h, n + 1)
      BY DEF Leaving
    <3> QED BY <1>1, <1>3, <3>1, <3>2, RestoreAt
  <2>5. pc' = "run" /\ ReturnsToCaller'
    BY <1>1, <1>4, <1>5, <2>4, GotoFacts
  <2> QED BY <1>4, <1>5, <2>1, <2>3, <2>5 DEF Left
<1>6. CASE ~stop
  <2>1. Last(r).ip \in Int
    BY <1>1 DEF Rstacks
  <2>2. CASE Last(r).ip = h[n + 1] /\ Good(Front(r), m2, h, n)
    <3>1. pc' = "run" /\ ReturnsToCaller'
      BY <1>1, <1>4, <1>6, <2>1, <2>2, GotoFacts
    <3> QED BY <1>3, <1>4, <1>6, <2>2, <3>1 DEF Left
  <2>3. CASE /\ Front(r) # << >> /\ Last(r).ip = HookOf(Last(Front(r)))
             /\ Leaving(Front(r), m2, h, n)
    <3>1. Last(Front(r)) \in Rstacks
      BY <1>1, <2>3, FrontFacts
    <3>2. IF Last(Front(r)).plt THEN Last(r).ip = PRet ELSE Last(r).ip = MRet
      BY <2>3, <3>1, HookFacts
    <3>3. ReturnsToCaller' /\ pc' = IF Last(Front(r)).plt THEN "pret" ELSE "mret"
      BY <1>1, <1>4, <1>6, <2>1, <3>2, GotoFacts
    <3> QED BY <1>3, <1>4, <1>6, <2>3, <3>3 DEF Left
  <2> QED BY <1>3, <2>2, <2>3
<1> QED BY <1>5, <1>6

\* The flags of entries that are not about to be left by longjmp()
FlagsOk(r) ==
    \A j \in 1 .. Len(r) : /\ r[j].flag # "LONGJMP"
                           /\ r[j].flag = "RECOVER" => ~r[j].plt /\ "recover" \in program

KindsOk(r) == Walks(program) => Uniform(r) /\ ("tail" \in program => NoPlt(r))

LEMMA FrontOk ==
    ASSUME NEW r \in Seq(Rstacks), r # << >>
    PROVE  (FlagsOk(r) => FlagsOk(Front(r))) /\ (KindsOk(r) => KindsOk(Front(r)))
<1>1. /\ Uniform(r) => Uniform(Front(r))
      /\ NoPlt(r) => NoPlt(Front(r))
      /\ \A j \in 1 .. Len(Front(r)) : j \in 1 .. Len(r) /\ Front(r)[j] = r[j]
  BY FrontKinds
<1> QED BY <1>1 DEF FlagsOk, KindsOk

\* An exit keeps the invariant.
LEMMA LeftKeeps ==
    ASSUME RetInv, ~in_exc, ~dead, pc # "exiting", sp < MaxSlots, vf' \in {vf, NoVfork},
           UNCHANGED <<program, sp, home, ncalls, in_exc, pad, jmpbuf, stop>>,
           NEW q \in Seq(Rstacks), Left(q, home, sp), FlagsOk(q), KindsOk(q),
           vf'.idx > 0 => vf'.child /\ SameBelow(rs, q, vf.slot),
           vf.idx > 0 => ~stop,
           Usable => SameBelow(rs, q, jmpbuf.slot), pc # "unwind", pc # "walk"
    PROVE  RetInv'
<1>1. /\ mem' \in Memory /\ ReturnsToCaller' /\ pc' \in {"run", "mret", "pret"} /\ dead' = stop
      /\ rs' \in {q, << >>} /\ rs' \in Seq(Rstacks) /\ stop \in BOOLEAN /\ (~stop => rs' = q)
  <2>1. stop \in BOOLEAN
    BY DEF RetInv, TypeInv
  <2>2. mem' \in Memory /\ ReturnsToCaller' /\ pc' \in {"run", "mret", "pret"}
    BY DEF Left
  <2>3. rs' \in {q, << >>} /\ (~stop => rs' = q)
    BY DEF Left
  <2>4. rs' \in Seq(Rstacks)
    <3>1. << >> \in Seq(Rstacks)
      OBVIOUS
    <3> QED BY <2>3, <3>1
  <2>5. dead' = stop
    <3>1. CASE stop = TRUE
      BY <3>1 DEF Left
    <3>2. CASE stop = FALSE
      BY <3>2 DEF Left
    <3> QED BY <2>1, <3>1, <3>2
  <2> QED BY <2>1, <2>2, <2>3, <2>4, <2>5
<1>2. vf' = vf \/ (vf'.idx = 0 /\ ~vf'.child)
  <2>1. NoVfork.idx = 0 /\ NoVfork.child = FALSE
    BY DEF NoVfork
  <2>2. vf' = vf \/ vf' = NoVfork
    OBVIOUS
  <2> QED BY <2>1, <2>2
<1>3. vf' \in [idx : Nat, top : [loc : 0 .. MaxSlots, ip : Int, plt : BOOLEAN, flag : {"none"}],
               slot : 0 .. MaxSlots, home : Nat, child : BOOLEAN]
  <2>1. 0 \in 0 .. MaxSlots
    BY RetAddrAssumption
  <2>2. Rstack(0, 0, TRUE) \in [loc : 0 .. MaxSlots, ip : Int, plt : BOOLEAN, flag : {"none"}]
    BY <2>1 DEF Rstack
  <2>3. NoVfork \in [idx : Nat, top : [loc : 0 .. MaxSlots, ip : Int, plt : BOOLEAN, flag : {"none"}],
                     slot : 0 .. MaxSlots, home : Nat, child : BOOLEAN]
    BY <2>1, <2>2 DEF NoVfork
  <2> QED BY <2>3 DEF RetInv, TypeInv
<1>4. TypeInv' /\ LeftSlot'
  BY <1>1, <1>3 DEF RetInv, TypeInv, LeftSlot
<1>5. OnlyIf'
  <2>1. vf'.idx > 0 => vf' = vf /\ vf'.child
    BY <1>2
  <2>2. vf'.child => vf' = vf
    BY <1>2
  <2> QED BY <1>1, <1>2, <2>1, <2>2 DEF RetInv, OnlyIf
<1>6. VforkInv'
  <2>1. SUFFICES ASSUME vf'.idx > 0 PROVE VforkInv'
    BY DEF VforkInv
  <2>2. vf' = vf /\ rs' = q /\ vf.idx > 0
    BY <1>1, <1>2, <2>1
  <2>3. /\ vf.slot > 0 /\ vf.slot <= sp + 1
        /\ vf.top = Rstack(vf.slot, vf.home, TRUE)
        /\ Splits(rs, vf.idx - 1, vf.slot)
    BY <2>2 DEF RetInv, VforkInv
  <2>4. vf.idx - 1 \in Nat
    BY <2>2 DEF RetInv, TypeInv
  <2>5. Splits(q, vf.idx - 1, vf.slot)
    BY <2>1, <2>3, <2>4 DEF SameBelow
  <2> QED BY <2>2, <2>3, <2>5 DEF VforkInv
<1>7. JmpInv'
  <2>1. Usable' => Usable
    BY DEF Usable, FrameAt
  <2>2. SUFFICES ASSUME Usable, ~stop PROVE CopyOf(q, jmpbuf)
    BY <1>1, <2>1 DEF RetInv, JmpInv
  <2>3. CopyOf(rs, jmpbuf)
    BY <2>2 DEF RetInv, JmpInv
  <2>4. jmpbuf \in Buffers
    BY DEF RetInv, TypeInv, Buffers
  <2> QED BY <2>2, <2>3, <2>4, CopyStays
<1>8. Kinds'
  <2>1. CASE stop
    <3>1. rs' = << >> /\ Len(rs') = 0 /\ pc' = "run"
      BY <2>1 DEF Left
    <3>2. Base' = rs'
      BY <3>1 DEF Base, Resumes, CleanupCalls
    <3> QED BY <3>1, <3>2 DEF Kinds, Uniform, NoPlt
  <2>2. CASE ~stop
    <3>1. rs' = q
      BY <1>1, <2>2
    <3>2. Base' = q \/ (q # << >> /\ Base' = Front(q))
      BY <3>1 DEF Base, Resumes, CleanupCalls
    <3>3. KindsOk(Base')
      BY <3>2, FrontOk
    <3> QED BY <3>1, <3>3 DEF KindsOk, FlagsOk, Kinds
  <2> QED BY <2>1, <2>2
<1>9. Placed'
  <2>1. ~Jumps' /\ ~Resumes'
    <3>1. rs' # << >> => Last(rs').flag # "LONGJMP"
      BY <1>1, FrontFacts DEF FlagsOk
    <3>2. ~Jumps'
      BY <3>1 DEF Jumps
    <3>3. ~Resumes'
      BY <1>2 DEF Resumes
    <3> QED BY <3>2, <3>3
  <2> QED BY <1>1, <2>1 DEF Left, Placed, InCleanup, CleanupCalls
<1> QED BY <1>1, <1>4, <1>5, <1>6, <1>7, <1>8, <1>9 DEF RetInv

LEMMA McountExitKeeps == ASSUME RetInv, McountExit PROVE RetInv'
<1>1. /\ pc = "mret" /\ rs \in Seq(Rstacks) /\ mem \in Memory /\ home \in Homes /\ sp \in 0 .. MaxSlots
      /\ sp < MaxSlots /\ stop \in BOOLEAN /\ ReturnsToCaller
      /\ UNCHANGED <<program, sp, home, ncalls, in_exc, pad, jmpbuf, stop, vf>>
      /\ LeaveWith(rs, mem, home[sp + 1])
  BY DEF RetInv, TypeInv, LeftSlot, McountExit, Homes, progVars
<1>2. /\ Leaving(rs, mem, home, sp) /\ ~dead /\ ~in_exc /\ rs # << >> /\ Last(rs).loc = sp + 1
      /\ (vf.idx > 0 => vf.child)
  BY <1>1 DEF RetInv, Placed, Leaving, OnlyIf
<1>3. Len(rs) \in 1 .. Len(rs) /\ Last(rs) = rs[Len(rs)] /\ Front(rs) \in Seq(Rstacks)
  BY <1>1, <1>2, FrontFacts
<1>4. FlagsOk(rs) /\ KindsOk(rs)
  <2>1. Base = rs
    BY <1>1 DEF Base, Resumes, CleanupCalls
  <2> QED BY <1>1, <2>1 DEF RetInv, Kinds, FlagsOk, KindsOk
<1>5. FlagsOk(Front(rs)) /\ KindsOk(Front(rs))
  BY <1>1, <1>2, <1>4, FrontOk
<1>6. Last(rs).flag = "RECOVER" => Uniform(rs)
  <2>1. SUFFICES ASSUME Last(rs).flag = "RECOVER" PROVE Uniform(rs)
    OBVIOUS
  <2>2. "recover" \in program
    BY <1>3, <1>4, <2>1 DEF FlagsOk
  <2> QED BY <1>4, <2>2, ProgramFacts DEF KindsOk
<1>7. Left(Front(rs), home, sp)
  BY <1>1, <1>2, <1>6, LeaveWithFacts
<1>8. \A n \in Nat : n <= sp + 1 => SameBelow(rs, Front(rs), n)
  BY <1>1, <1>2, SameBelowPop
<1>9. Usable => SameBelow(rs, Front(rs), jmpbuf.slot)
  <2>1. jmpbuf.slot \in Nat
    BY RetAddrAssumption DEF RetInv, TypeInv
  <2> QED BY <1>8, <2>1 DEF Usable
<1>10. vf.idx > 0 => vf.child /\ SameBelow(rs, Front(rs), vf.slot) /\ ~stop
  <2>1. vf.slot \in Nat
    BY RetAddrAssumption DEF RetInv, TypeInv
  <2> QED BY <1>2, <1>8, <2>1, ProgramFacts DEF RetInv, VforkInv
<1> QED BY <1>1, <1>2, <1>3, <1>5, <1>7, <1>9, <1>10, LeftKeeps

\* A stack whose last entry is replaced on the way out of setjmp() or vfork(): r is that stack,
\* its first k entries are those of rs and the last one was made in slot sp + 1 for address a.
Rewound(r, k, a) ==
    /\ r \in Seq(Rstacks) /\ Len(r) = k + 1 /\ Last(r) = Rstack(sp + 1, a, TRUE)
    /\ Splits(rs, k, sp + 1) /\ \A j \in 1 .. k : r[j] = rs[j]

LEMMA RewoundFacts ==
    ASSUME RetInv, NEW r, NEW k \in Nat, NEW a \in Nat, Rewound(r, k, a), sp < MaxSlots,
           Covers(rs, mem, home, sp), Truthful(rs, home, sp)
    PROVE  /\ Leaving(r, mem, [home EXCEPT ![sp + 1] = a], sp)
           /\ SameBelow(rs, Front(r), sp + 1)
           /\ \A j \in 1 .. Len(Front(r)) : j \in 1 .. Len(rs) /\ j <= k /\ Front(r)[j] = rs[j]
           /\ Agree(Front(r), rs, Len(Front(r)))
<1>1. /\ r \in Seq(Rstacks) /\ rs \in Seq(Rstacks) /\ mem \in Memory /\ home \in Homes
      /\ sp \in 0 .. MaxSlots /\ sp \in Nat /\ sp + 1 \in 1 .. MaxSlots /\ sp + 1 \in Nat
  <2>1. rs \in Seq(Rstacks) /\ mem \in Memory /\ home \in Homes /\ sp \in 0 .. MaxSlots
    BY DEF RetInv, TypeInv, Homes
  <2>2. r \in Seq(Rstacks)
    BY DEF Rewound
  <2>3. sp \in Nat /\ sp + 1 \in 1 .. MaxSlots /\ sp + 1 \in Nat
    BY <2>1, RetAddrAssumption
  <2> QED BY <2>1, <2>2, <2>3
<1>2. /\ Len(r) = k + 1 /\ k + 1 \in 1 .. Len(r) /\ k <= Len(rs) /\ Len(rs) \in Nat /\ r # << >>
      /\ (\A j \in 1 .. k : r[j] = rs[j])
      /\ \A j \in 1 .. Len(rs) : rs[j].loc < sp + 1 <=> j <= k
  <2>1. k + 1 \in 1 .. k + 1 /\ Len(r) = k + 1
    BY DEF Rewound
  <2>2. r # << >>
    BY <1>1, <2>1
  <2> QED BY <1>1, <2>1, <2>2 DEF Rewound, Splits
<1>3. /\ r[k + 1] = Last(r) /\ r[k + 1].loc = sp + 1 /\ r[k + 1].ip = a
      /\ Front(r) \in Seq(Rstacks) /\ Len(Front(r)) = k /\ \A j \in 1 .. k : Front(r)[j] = r[j]
  <2>1. Last(r).loc = sp + 1 /\ Last(r).ip = a
    BY DEF Rewound, Rstack
  <2>2. r[k + 1] = Last(r)
    BY <1>1, <1>2, FrontFacts
  <2>3. Front(r) \in Seq(Rstacks) /\ Len(Front(r)) = k /\ \A j \in 1 .. k : Front(r)[j] = r[j]
    <3>1. Len(r) - 1 = k
      BY <1>2
    <3>2. /\ Front(r) \in Seq(Rstacks) /\ Len(Front(r)) = Len(r) - 1
          /\ \A j \in 1 .. Len(r) - 1 : Front(r)[j] = r[j]
      BY <1>1, <1>2, FrontFacts
    <3> QED BY <3>1, <3>2
  <2> QED BY <2>1, <2>2, <2>3
<1>4. PICK h \in Homes : h = [home EXCEPT ![sp + 1] = a]
  BY <1>1 DEF Homes
<1>5. h[sp + 1] = a /\ \A i \in 1 .. sp : h[i] = home[i]
  BY <1>1, <1>4, RetAddrAssumption DEF Homes
<1>6. Agree(rs, r, k) /\ Agree(r, rs, k)
  BY <1>2 DEF Agree
<1>7. Above(rs, k, sp)
  <2>1. SUFFICES ASSUME NEW j \in 1 .. Len(rs), j > k PROVE rs[j].loc > sp
    BY DEF Above
  <2>2. ~(rs[j].loc < sp + 1) /\ rs[j].loc \in Nat
    BY <1>1, <1>2, <2>1, EntryFacts
  <2> QED BY <1>1, <2>2
<1>8. \A j \in 1 .. k : r[j].loc <= sp /\ r[j].loc \in Nat /\ j \in 1 .. Len(rs)
  <2>1. SUFFICES ASSUME NEW j \in 1 .. k PROVE r[j].loc <= sp /\ r[j].loc \in Nat /\ j \in 1 .. Len(rs)
    OBVIOUS
  <2>2. j \in 1 .. Len(rs) /\ j <= k
    BY <1>2
  <2>3. rs[j].loc < sp + 1 /\ rs[j].loc \in Nat
    BY <1>1, <1>2, <2>2, EntryFacts
  <2> QED BY <1>1, <1>2, <2>2, <2>3
<1>9. Above(r, k, sp)
  <2>1. SUFFICES ASSUME NEW j \in 1 .. Len(r), j > k PROVE r[j].loc > sp
    BY DEF Above
  <2>2. j = k + 1
    BY <1>2, <2>1
  <2> QED BY <1>1, <1>3, <2>2
<1>10. Covers(r, mem, h, sp)
  <2>1. Covers(r, mem, home, sp)
    BY <1>1, <1>6, <1>7, <1>9, CoversAgree
  <2> QED BY <1>1, <1>5, <2>1, UpperSlots
<1>11. Sorted(r)
  <2>1. SUFFICES ASSUME NEW i \in 1 .. Len(r), NEW j \in 1 .. Len(r), i <= j
                 PROVE  r[i].loc <= r[j].loc
    BY DEF Sorted
  <2>2. CASE j = k + 1 /\ i = k + 1
    BY <1>1, <1>3, <2>2
  <2>3. CASE j = k + 1 /\ i # k + 1
    <3>1. i \in 1 .. k
      BY <1>2, <2>3
    <3> QED BY <1>1, <1>3, <1>8, <2>3, <3>1
  <2>4. CASE j # k + 1
    <3>1. i \in 1 .. k /\ j \in 1 .. k
      BY <1>2, <2>1, <2>4
    <3> QED BY <1>2, <1>8, <2>1, <3>1 DEF Truthful, Sorted
  <2> QED BY <2>2, <2>3, <2>4
<1>12. Tells(r, h, sp + 1)
  <2>1. Tells(r, home, sp)
    BY <1>1, <1>6, <1>9, TellsAgree DEF Truthful
  <2>2. SUFFICES ASSUME NEW j \in 1 .. Len(r)
                 PROVE  r[j].ip = IF Oldest(r, j) THEN h[r[j].loc] ELSE HookOf(r[j - 1])
    BY DEF Tells
  <2>3. CASE j = k + 1
    <3>1. Oldest(r, j)
      <4>1. CASE k = 0
        BY <2>3, <4>1 DEF Oldest
      <4>2. CASE k # 0
        <5>1. j - 1 \in 1 .. k
          BY <2>3, <4>2
        <5> QED BY <1>1, <1>3, <1>8, <2>3, <5>1 DEF Oldest
      <4> QED BY <4>1, <4>2
    <3> QED BY <1>3, <1>5, <2>3, <3>1
  <2>4. CASE j # k + 1
    <3>1. j \in 1 .. k
      BY <1>2, <2>4
    <3>2. r[j].loc <= sp /\ r[j].loc \in 1 .. sp
      BY <1>1, <1>8, <3>1, EntryFacts
    <3>3. h[r[j].loc] = home[r[j].loc]
      BY <1>5, <3>2
    <3> QED BY <2>1, <3>2, <3>3 DEF Tells
  <2> QED BY <2>3, <2>4
<1>13. Within(r, sp + 1)
  <2>1. SUFFICES ASSUME NEW j \in 1 .. Len(r) PROVE r[j].loc <= sp + 1
    BY DEF Within
  <2>2. CASE j = k + 1
    BY <1>1, <1>3, <2>2
  <2>3. CASE j # k + 1
    <3>1. j \in 1 .. k
      BY <1>2, <2>3
    <3> QED BY <1>1, <1>8, <3>1
  <2> QED BY <2>2, <2>3
<1>14. Leaving(r, mem, h, sp)
  BY <1>2, <1>3, <1>10, <1>11, <1>12, <1>13 DEF Leaving, Truthful
<1>15. PICK q \in Seq(Rstacks) : q = Front(r)
  BY <1>3
<1>16. Len(q) = k /\ (\A j \in 1 .. k : q[j] = rs[j])
  BY <1>2, <1>3, <1>15
<1>17. SameBelow(rs, q, sp + 1)
  <2>1. \A j \in 1 .. Len(rs) : j > k => rs[j].loc >= sp + 1
    <3>1. SUFFICES ASSUME NEW j \in 1 .. Len(rs), j > k PROVE rs[j].loc >= sp + 1
      OBVIOUS
    <3>2. rs[j].loc > sp
      BY <1>7, <3>1 DEF Above
    <3>3. rs[j].loc \in 1 .. MaxSlots
      BY <1>1, EntryFacts
    <3>4. rs[j].loc \in Int /\ sp \in Int
      BY <1>1, <3>3
    <3> QED BY <3>2, <3>4
  <2>2. \A j \in 1 .. Len(q) : j > k => q[j].loc >= sp + 1
    BY <1>16
  <2>3. k <= Len(q) /\ k \in Nat
    BY <1>16
  <2> QED BY <1>1, <1>2, <1>16, <2>1, <2>2, <2>3, SameBelowFacts
<1>18. Agree(q, rs, Len(q))
  BY <1>2, <1>16 DEF Agree
<1>19. \A j \in 1 .. Len(q) : j \in 1 .. Len(rs) /\ j <= k /\ q[j] = rs[j]
  BY <1>2, <1>16
<1> QED BY <1>4, <1>14, <1>15, <1>17, <1>18, <1>19

\* What is left when setjmp() or vfork() returns again
LEMMA RewoundLeft ==
    ASSUME RetInv, NEW r, NEW k \in Nat, NEW a \in Nat, Rewound(r, k, a), sp < MaxSlots,
           Covers(rs, mem, home, sp), Truthful(rs, home, sp), ~in_exc, LeaveWith(r, mem, a)
    PROVE  Left(Front(r), home, sp)
<1>1. /\ r \in Seq(Rstacks) /\ rs \in Seq(Rstacks) /\ mem \in Memory /\ home \in Homes
      /\ sp \in 0 .. MaxSlots /\ stop \in BOOLEAN /\ ReturnsToCaller
  BY DEF RetInv, TypeInv, Homes, Rewound
<1>2. sp \in Nat /\ sp + 1 \in 1 .. MaxSlots
  BY <1>1, RetAddrAssumption
<1>3. PICK h \in Homes : h = [home EXCEPT ![sp + 1] = a]
  BY <1>1, <1>2 DEF Homes
<1>4. h[sp + 1] = a /\ \A i \in 1 .. sp : h[i] = home[i]
  BY <1>1, <1>2, <1>3, RetAddrAssumption DEF Homes
<1>5. /\ Leaving(r, mem, h, sp)
      /\ \A j \in 1 .. Len(Front(r)) : j \in 1 .. Len(rs) /\ j <= k /\ Front(r)[j] = rs[j]
  BY <1>3, RewoundFacts
<1>6. r # << >> /\ Last(r).flag = "none" /\ Front(r) \in Seq(Rstacks)
  <2>1. Last(r).flag = "none"
    BY DEF Rewound, Rstack
  <2>2. r # << >>
    BY <1>5 DEF Leaving
  <2> QED BY <1>1, <2>1, <2>2, FrontFacts
<1>7. Left(Front(r), h, sp)
  BY <1>1, <1>4, <1>5, <1>6, LeaveWithFacts
<1>8. PICK q \in Seq(Rstacks) : q = Front(r)
  BY <1>6
<1>9. ~(q # << >> /\ Leaving(q, mem', h, sp))
  <2>1. SUFFICES ASSUME q # << >>, Last(q).loc = sp + 1 PROVE FALSE
    BY DEF Leaving
  <2>2. Len(q) \in 1 .. Len(q) /\ Last(q) = q[Len(q)]
    BY <2>1, FrontFacts
  <2>3. PICK j \in 1 .. Len(rs) : j <= k /\ rs[j].loc = sp + 1
    BY <1>5, <1>8, <2>1, <2>2
  <2>4. rs[j].loc < sp + 1
    BY <2>3 DEF Rewound, Splits
  <2> QED BY <1>2, <2>3, <2>4
<1>10. Good(q, mem', h, sp) => Good(q, mem', home, sp)
  <2>1. PICK w \in Memory : w = mem'
    BY <1>7 DEF Left
  <2>2. (Truthful(q, h, sp) => Truthful(q, home, sp)) /\ (Covers(q, w, h, sp) => Covers(q, w, home, sp))
    BY <1>1, <1>4, UpperSlots
  <2> QED BY <2>1, <2>2 DEF Good
<1>11. Unhooked(mem', h, sp) => Unhooked(mem', home, sp)
  BY <1>4 DEF Unhooked
<1> QED BY <1>7, <1>8, <1>9, <1>10, <1>11 DEF Left

\* The guards of __plthook_exit() never give up.
LEMMA PltExitCases ==
    ASSUME RetInv, PltExit
    PROVE  /\ pc = "pret" /\ ~dead /\ sp < MaxSlots /\ sp \in 0 .. MaxSlots
           /\ UNCHANGED <<program, sp, home, ncalls, in_exc, pad, jmpbuf, stop>>
           /\ \/ /\ Resumes /\ vf' = NoVfork
                 /\ LeaveWith(AfterVfork, mem, vf.home)
              \/ /\ Jumps /\ vf' = vf
                 /\ LeaveWith(jmpbuf.rs, mem, jmpbuf.home)
              \/ /\ ~Resumes /\ ~Jumps /\ vf' = vf /\ rs # << >>
                 /\ LeaveWith(rs, mem, home[sp + 1])
<1>1. pc = "pret"
  BY DEF PltExit
<1>2. ~dead /\ sp < MaxSlots /\ sp \in 0 .. MaxSlots
  BY <1>1 DEF RetInv, Placed, LeftSlot, TypeInv
<1>3. UNCHANGED <<program, sp, home, ncalls, in_exc, pad, jmpbuf, stop>>
  BY DEF PltExit
<1>4. CASE Resumes
  <2>1. vf.idx > 0 /\ ~vf.child
    BY <1>4 DEF Resumes
  <2>2. vf' = NoVfork /\ LeaveWith(AfterVfork, mem, vf.home)
    BY <1>2, <2>1 DEF PltExit, PltStack
  <2> QED BY <1>1, <1>2, <1>3, <1>4, <2>2
<1>5. CASE ~Resumes /\ Jumps
  <2>1. rs # << >> /\ Last(rs).flag = "LONGJMP" /\ vf.idx = 0
    BY <1>5 DEF Jumps
  <2>2. CopyOf(rs, jmpbuf)
    BY <1>1, <1>2, <1>5 DEF RetInv, Placed, JmpInv
  <2>3. Last(jmpbuf.rs).plt = TRUE
    BY <2>2 DEF CopyOf, Rstack
  <2>4. PltStack = jmpbuf.rs
    BY <2>1 DEF PltStack
  <2>5. vf' = vf /\ LeaveWith(jmpbuf.rs, mem, jmpbuf.home)
    BY <2>1, <2>3, <2>4 DEF PltExit
  <2> QED BY <1>1, <1>2, <1>3, <1>5, <2>5
<1>6. CASE ~Resumes /\ ~Jumps
  <2>1. ~(vf.idx > 0 /\ ~vf.child)
    BY <1>1, <1>6 DEF Resumes
  <2>2. rs # << >> /\ Last(rs).plt
    <3>1. CASE in_exc
      <4>1. rs # << >> /\ Last(rs) = Rstack(sp + 1, home[sp + 1], TRUE)
        BY <1>1, <3>1 DEF RetInv, Placed
      <4> QED BY <4>1 DEF Rstack
    <3>2. CASE ~in_exc
      BY <1>1, <1>6, <3>2 DEF RetInv, Placed, Leaving
    <3> QED BY <3>1, <3>2
  <2>3. Last(rs).flag # "LONGJMP"
    <3>1. SUFFICES ASSUME Last(rs).flag = "LONGJMP" PROVE FALSE
      OBVIOUS
    <3>2. Len(rs) \in 1 .. Len(rs) /\ Last(rs) = rs[Len(rs)]
      BY <2>2, FrontFacts DEF RetInv, TypeInv
    <3>3. vf.idx = 0
      BY <3>1, <3>2 DEF RetInv, Kinds
    <3> QED BY <1>1, <1>6, <2>2, <3>1, <3>3 DEF Jumps
  <2>4. PltStack = rs
    BY <2>1, <2>3 DEF PltStack
  <2>5. vf' = vf /\ LeaveWith(rs, mem, home[sp + 1])
    BY <2>1, <2>2, <2>3, <2>4 DEF PltExit
  <2> QED BY <1>1, <1>2, <1>3, <1>6, <2>2, <2>5
<1> QED BY <1>4, <1>5, <1>6

\* A library function called by cleanup code returns.
LEMMA CleanupReturns ==
    ASSUME RetInv, pc = "pret", in_exc, rs # << >>, vf' = vf, sp \in 0 .. MaxSlots, sp < MaxSlots,
           UNCHANGED <<program, sp, home, ncalls, in_exc, pad, jmpbuf, stop>>,
           LeaveWith(rs, mem, home[sp + 1])
    PROVE  RetInv'
<1>1. /\ rs \in Seq(Rstacks) /\ mem \in Memory /\ home \in Homes /\ sp + 1 \in 1 .. MaxSlots
      /\ stop \in BOOLEAN /\ ReturnsToCaller /\ sp \in Nat
  BY SMTT(30), RetAddrAssumption DEF RetInv, TypeInv, Homes
<1>2. /\ ~stop /\ ~dead /\ sp = pad /\ Last(rs) = Rstack(sp + 1, home[sp + 1], TRUE)
      /\ Truthful(Front(rs), home, sp) /\ Unhooked(mem, home, sp)
  BY ProgramFacts DEF RetInv, Placed
<1>3. home[sp + 1] \in Nat
  BY <1>1 DEF Homes
<1>4. Last(rs).flag = "none" /\ Last(rs).ip = home[sp + 1] /\ Last(rs).loc = sp + 1
  BY <1>2 DEF Rstack
<1>5. AutoRehook(rs, mem) = mem
  BY DEF AutoRehook, AutoApplies
<1>6. rs' = Front(rs) /\ mem' = mem /\ dead' = stop /\ Goto(home[sp + 1], home[sp + 1])
  BY <1>2, <1>4, <1>5 DEF LeaveWith
<1>7. pc' = "run" /\ ReturnsToCaller'
  BY <1>1, <1>3, <1>6, GotoFacts
<1>8. PICK q \in Seq(Rstacks) : q = Front(rs)
  BY <1>1, FrontFacts
<1>9. TypeInv' /\ LeftSlot'
  BY <1>1, <1>2, <1>6, <1>7, <1>8 DEF RetInv, TypeInv, LeftSlot
<1>10. OnlyIf' /\ vf.idx = 0
  BY <1>2, <1>6, <1>7 DEF RetInv, OnlyIf, TypeInv
<1>11. VforkInv'
  BY <1>10 DEF VforkInv
<1>12. JmpInv'
  <2>1. Usable' => Usable
    BY DEF Usable, FrameAt
  <2>2. SUFFICES ASSUME Usable PROVE CopyOf(q, jmpbuf)
    BY <1>6, <1>8, <2>1 DEF RetInv, JmpInv
  <2>3. CopyOf(rs, jmpbuf)
    BY <1>2, <2>2 DEF RetInv, JmpInv
  <2>4. jmpbuf \in Buffers /\ jmpbuf.slot \in Nat /\ jmpbuf.slot <= sp + 1
    BY <2>2, RetAddrAssumption DEF RetInv, TypeInv, Buffers, Usable
  <2>5. SameBelow(rs, q, jmpbuf.slot)
    BY <1>1, <1>4, <1>8, <2>4, SameBelowPop
  <2> QED BY <2>3, <2>4, <2>5, CopyStays
<1>13. Kinds'
  <2>1. \A j \in 1 .. Len(q) : q[j] = rs[j] /\ j \in 1 .. Len(rs) /\ j # Len(rs)
    <3>1. Len(rs) \in Nat /\ Len(q) = Len(rs) - 1
      BY <1>1, <1>8, FrontFacts
    <3> QED BY <1>1, <1>8, <3>1, FrontKinds
  <2>2. Base = q /\ Base' = q
    BY <1>2, <1>6, <1>7, <1>8, <1>10 DEF Base, Resumes, CleanupCalls
  <2>3. Walks(program) => Uniform(q) /\ ("tail" \in program => NoPlt(q))
    BY <2>2 DEF RetInv, Kinds
  <2>4. /\ \A j \in 1 .. Len(q) : q[j].flag # "LONGJMP"
        /\ \A j \in 1 .. Len(q) : q[j].flag = "RECOVER" => ~q[j].plt /\ "recover" \in program
    BY <2>1 DEF RetInv, Kinds
  <2> QED BY <1>6, <1>8, <2>2, <2>3, <2>4 DEF Kinds
<1>14. Placed'
  BY <1>2, <1>6, <1>7 DEF Placed, InCleanup, CleanupCalls, Jumps, Resumes
<1> QED BY <1>7, <1>9, <1>10, <1>11, <1>12, <1>13, <1>14 DEF RetInv

LEMMA PltExitKeeps == ASSUME RetInv, PltExit PROVE RetInv'
<1>1. /\ pc = "pret" /\ ~dead /\ sp < MaxSlots /\ sp \in 0 .. MaxSlots
      /\ UNCHANGED <<program, sp, home, ncalls, in_exc, pad, jmpbuf, stop>>
  BY PltExitCases
<1>2. /\ rs \in Seq(Rstacks) /\ mem \in Memory /\ home \in Homes /\ stop \in BOOLEAN /\ sp \in Nat
      /\ sp + 1 \in Nat
  BY <1>1, RetAddrAssumption DEF RetInv, TypeInv, Homes
<1>3. /\ jmpbuf \in Buffers /\ jmpbuf.slot \in Nat /\ jmpbuf.home \in Nat
      /\ vf.idx \in Nat /\ vf.slot \in Nat /\ vf.home \in Nat
  BY RetAddrAssumption DEF RetInv, TypeInv, Buffers
<1>4. (vf.idx > 0 => ~stop) /\ ReturnsToCaller
  BY ProgramFacts DEF RetInv
<1>5. Usable => jmpbuf.slot <= sp + 1
  BY DEF Usable
<1>6. CASE in_exc
  <2>1. Last(rs) = Rstack(sp + 1, home[sp + 1], TRUE) /\ pad > 0
    BY <1>1, <1>6 DEF RetInv, Placed, OnlyIf
  <2>2. ~Jumps /\ ~Resumes
    BY <2>1 DEF RetInv, OnlyIf, Jumps, Resumes, Rstack
  <2>3. rs # << >> /\ vf' = vf /\ LeaveWith(rs, mem, home[sp + 1])
    BY <2>2, PltExitCases
  <2> QED BY <1>1, <1>6, <2>3, CleanupReturns
<1>7. CASE ~in_exc /\ Resumes
  <2>1. /\ vf.idx > 0 /\ ~vf.child /\ ~Jumps /\ sp = vf.slot - 1
        /\ Covers(rs, mem, home, sp) /\ Truthful(rs, home, sp)
        /\ vf.top = Rstack(vf.slot, vf.home, TRUE) /\ Splits(rs, vf.idx - 1, vf.slot)
    <3>1. vf.idx > 0 /\ ~vf.child /\ ~Jumps
      BY <1>3, <1>7 DEF Resumes, Jumps
    <3>2. sp = vf.slot - 1 /\ Covers(rs, mem, home, sp) /\ Truthful(rs, home, sp)
      BY <1>7 DEF RetInv, Placed
    <3>3. vf.top = Rstack(vf.slot, vf.home, TRUE) /\ Splits(rs, vf.idx - 1, vf.slot)
      BY <3>1 DEF RetInv, VforkInv
    <3> QED BY <3>1, <3>2, <3>3
  <2>2. PICK k \in Nat : k = vf.idx - 1
    BY <1>3, <2>1
  <2>3. vf.slot = sp + 1 /\ Splits(rs, k, sp + 1) /\ k <= Len(rs) /\ k \in 0 .. Len(rs)
    BY <1>2, <1>3, <2>1, <2>2 DEF Splits
  <2>4. PICK e \in Rstacks : e = vf.top
    <3>1. sp + 1 \in 1 .. MaxSlots
      BY <1>1, RetAddrAssumption
    <3>2. vf.home \in Int /\ TRUE \in BOOLEAN
      BY <1>3
    <3>3. Rstack(sp + 1, vf.home, TRUE) \in Rstacks
      BY <3>1, <3>2, RstackType
    <3> QED BY <2>1, <2>3, <3>3
  <2>5. PICK q \in Seq(Rstacks) : q = SubSeq(rs, 1, k)
    BY <1>2, <2>3, PrefixFacts
  <2>6. Len(q) = k /\ \A j \in 1 .. k : q[j] = rs[j]
    BY <1>2, <2>3, <2>5, PrefixFacts
  <2>7. PICK r \in Seq(Rstacks) : r = AfterVfork
    <3>1. AfterVfork = Append(q, e)
      BY <2>2, <2>4, <2>5 DEF AfterVfork
    <3> QED BY <3>1, PushFacts
  <2>8. /\ Len(r) = k + 1 /\ Last(r) = e /\ Front(r) = q /\ \A j \in 1 .. k : r[j] = q[j]
    <3>1. r = Append(q, e)
      BY <2>2, <2>4, <2>5, <2>7 DEF AfterVfork
    <3> QED BY <2>6, <3>1, PushFacts
  <2>9. Rewound(r, k, vf.home)
    BY <2>1, <2>3, <2>4, <2>6, <2>8 DEF Rewound
  <2>10. LeaveWith(r, mem, vf.home) /\ vf' = NoVfork
    BY <1>7, <2>1, <2>7, PltExitCases
  <2>11. Left(q, home, sp)
    BY <1>1, <1>3, <1>7, <2>1, <2>8, <2>9, <2>10, RewoundLeft
  <2>12. /\ SameBelow(rs, q, sp + 1) /\ Agree(q, rs, Len(q))
         /\ \A j \in 1 .. Len(q) : j \in 1 .. Len(rs) /\ q[j] = rs[j]
    BY <1>1, <1>3, <2>1, <2>8, <2>9, RewoundFacts
  <2>13. FlagsOk(q)
    BY <2>1, <2>12 DEF RetInv, Kinds, FlagsOk
  <2>14. KindsOk(q)
    <3>1. Base = rs
      BY <1>7 DEF Base, CleanupCalls
    <3>2. KindsOk(rs)
      BY <3>1 DEF RetInv, Kinds, KindsOk
    <3> QED BY <1>2, <2>12, <3>2, PrefixKeeps DEF KindsOk
  <2>15. Usable => SameBelow(rs, q, jmpbuf.slot)
    <3>1. SUFFICES ASSUME Usable PROVE SameBelow(rs, q, jmpbuf.slot)
      OBVIOUS
    <3>2. Above(rs, k, sp)
      <4>1. SUFFICES ASSUME NEW j \in 1 .. Len(rs), j > k PROVE rs[j].loc > sp
        BY DEF Above
      <4>2. rs[j].loc \in Nat /\ ~(rs[j].loc < sp + 1)
        BY <1>2, <2>3, <4>1, EntryFacts DEF Splits
      <4> QED BY <1>2, <4>2
    <3> QED BY <1>2, <1>3, <1>5, <2>3, <2>5, <3>1, <3>2, SameBelowPrefix
  <2>16. ~(vf'.idx > 0) /\ vf' \in {vf, NoVfork}
    BY <2>10 DEF NoVfork
  <2> QED BY <1>1, <1>4, <1>7, <2>11, <2>13, <2>14, <2>15, <2>16, LeftKeeps
<1>8. CASE ~in_exc /\ Jumps
  <2>1. /\ rs # << >> /\ Last(rs).flag = "LONGJMP" /\ vf.idx = 0 /\ Usable /\ sp = jmpbuf.slot - 1
        /\ Last(rs).loc > sp /\ Covers(rs, mem, home, sp) /\ Truthful(rs, home, sp)
        /\ CopyOf(rs, jmpbuf) /\ ~Resumes
    BY <1>1, <1>8 DEF RetInv, Jumps, Resumes, Placed, JmpInv
  <2>2. jmpbuf.rs \in Seq(Rstacks) /\ jmpbuf.rs # << >>
    BY <1>3, <2>1 DEF Buffers, CopyOf
  <2>3. PICK r \in Seq(Rstacks) : r = jmpbuf.rs
    BY <2>2
  <2>4. PICK k \in Nat : k = Len(r) - 1
    <3>1. r # << >>
      BY <2>2, <2>3
    <3>2. Len(r) \in Nat \ {0}
      BY <3>1, FrontFacts
    <3> QED BY <3>2
  <2>5. /\ Len(r) = k + 1 /\ jmpbuf.slot = sp + 1 /\ Last(r) = Rstack(sp + 1, jmpbuf.home, TRUE)
        /\ Splits(rs, k, sp + 1) /\ \A j \in 1 .. k : r[j] = rs[j]
    <3>1. Len(r) = k + 1 /\ jmpbuf.slot = sp + 1
      BY <1>2, <1>3, <2>1, <2>4
    <3> QED BY <2>1, <2>3, <2>4, <3>1 DEF CopyOf
  <2>6. Rewound(r, k, jmpbuf.home)
    BY <2>5 DEF Rewound
  <2>7. LeaveWith(r, mem, jmpbuf.home) /\ vf' = vf
    BY <1>8, <2>1, <2>3, PltExitCases
  <2>8. PICK q \in Seq(Rstacks) : q = Front(r)
    BY <2>2, <2>3, FrontFacts
  <2>9. Left(q, home, sp)
    BY <1>1, <1>3, <1>8, <2>1, <2>6, <2>7, <2>8, RewoundLeft
  <2>10. /\ SameBelow(rs, q, sp + 1) /\ Agree(q, rs, Len(q))
         /\ \A j \in 1 .. Len(q) : j \in 1 .. Len(rs) /\ j <= k /\ q[j] = rs[j]
    BY <1>1, <1>3, <2>1, <2>6, <2>8, RewoundFacts
  <2>11. k < Len(rs)
    <3>1. Len(rs) \in 1 .. Len(rs) /\ Last(rs) = rs[Len(rs)]
      BY <1>2, <2>1, FrontFacts
    <3>2. rs[Len(rs)].loc \in Nat /\ ~(rs[Len(rs)].loc < sp + 1)
      BY <1>2, <2>1, <3>1, EntryFacts
    <3> QED BY <2>5, <3>1, <3>2 DEF Splits
  <2>12. FlagsOk(q)
    <3>1. SUFFICES ASSUME NEW j \in 1 .. Len(q)
                   PROVE  /\ q[j].flag # "LONGJMP"
                          /\ q[j].flag = "RECOVER" => ~q[j].plt /\ "recover" \in program
      BY DEF FlagsOk
    <3>2. j \in 1 .. Len(rs) /\ j # Len(rs) /\ q[j] = rs[j]
      BY <1>2, <2>10, <2>11
    <3> QED BY <3>2 DEF RetInv, Kinds
  <2>13. KindsOk(q)
    <3>1. Base = Front(rs)
      BY <1>1, <2>1 DEF Base
    <3>2. KindsOk(Front(rs))
      BY <3>1 DEF RetInv, Kinds, KindsOk
    <3>3. PICK f \in Seq(Rstacks) : f = Front(rs)
      BY <1>2, <2>1, FrontFacts
    <3>4. Agree(q, f, Len(q))
      <4>1. Len(f) = Len(rs) - 1 /\ \A j \in 1 .. Len(rs) - 1 : f[j] = rs[j]
        BY <1>2, <2>1, <3>3, FrontFacts
      <4>2. Len(q) <= k /\ Len(q) \in Nat
        <5>1. CASE Len(q) = 0
          BY <5>1
        <5>2. CASE Len(q) # 0
          <6>1. Len(q) \in 1 .. Len(q)
            BY <5>2
          <6> QED BY <2>10, <6>1
        <5> QED BY <5>1, <5>2
      <4>3. \A j \in 1 .. Len(q) : j \in 1 .. Len(rs) - 1
        BY <1>2, <2>10, <2>11
      <4> QED BY <1>2, <2>10, <2>11, <4>1, <4>2, <4>3 DEF Agree
    <3> QED BY <3>2, <3>3, <3>4, PrefixKeeps DEF KindsOk
  <2>14. SameBelow(rs, q, jmpbuf.slot)
    BY <2>5, <2>10
  <2>15. ~(vf'.idx > 0) /\ vf' \in {vf, NoVfork}
    BY <2>1, <2>7
  <2> QED BY <1>1, <1>4, <1>8, <2>9, <2>12, <2>13, <2>14, <2>15, LeftKeeps
<1>9. CASE ~in_exc /\ ~Jumps /\ ~Resumes
  <2>1. rs # << >> /\ vf' = vf /\ LeaveWith(rs, mem, home[sp + 1])
    BY <1>9, PltExitCases
  <2>2. Leaving(rs, mem, home, sp) /\ Last(rs).plt /\ Last(rs).loc = sp + 1 /\ (vf.idx > 0 => vf.child)
    BY <1>1, <1>9 DEF RetInv, Placed, Leaving, OnlyIf, Resumes
  <2>3. Len(rs) \in 1 .. Len(rs) /\ Last(rs) = rs[Len(rs)] /\ Front(rs) \in Seq(Rstacks)
    BY <1>2, <2>1, FrontFacts
  <2>4. FlagsOk(rs)
    <3>1. SUFFICES ASSUME NEW j \in 1 .. Len(rs)
                   PROVE  /\ rs[j].flag # "LONGJMP"
                          /\ rs[j].flag = "RECOVER" => ~rs[j].plt /\ "recover" \in program
      BY DEF FlagsOk
    <3>2. rs[j].flag = "LONGJMP" => j = Len(rs) /\ vf.idx = 0
      BY DEF RetInv, Kinds
    <3>3. rs[j].flag # "LONGJMP"
      BY <1>1, <1>9, <2>1, <2>3, <3>2 DEF Jumps
    <3> QED BY <3>3 DEF RetInv, Kinds
  <2>5. Last(rs).flag # "RECOVER" /\ FlagsOk(Front(rs))
    BY <1>2, <2>1, <2>2, <2>3, <2>4, FrontOk DEF FlagsOk
  <2>6. KindsOk(Front(rs))
    <3>1. Base = Front(rs)
      BY <1>1, <1>9, <2>1 DEF Base
    <3> QED BY <3>1 DEF RetInv, Kinds, KindsOk
  <2>7. Left(Front(rs), home, sp)
    BY <1>1, <1>2, <1>4, <1>9, <2>1, <2>2, <2>5, LeaveWithFacts
  <2>8. \A n \in Nat : n <= sp + 1 => SameBelow(rs, Front(rs), n)
    BY <1>2, <2>1, <2>2, SameBelowPop
  <2>9. Usable => SameBelow(rs, Front(rs), jmpbuf.slot)
    BY <1>3, <1>5, <2>8
  <2>10. vf.idx > 0 => SameBelow(rs, Front(rs), vf.slot)
    BY <1>3, <2>8 DEF RetInv, VforkInv
  <2> QED BY <1>1, <1>4, <1>9, <2>1, <2>2, <2>3, <2>5, <2>6, <2>7, <2>9, <2>10, LeftKeeps
<1> QED BY <1>6, <1>7, <1>8, <1>9

-----------------------------------------------------------------------------
(* Calls *)

\* Slot n, in use by the frame that is entered, can be hijacked.
Ready(r, m, h, n) ==
    Truthful(r, h, n) /\ Within(r, n) /\ Covers(r, m, h, n - 1) /\ TopSlot(r, m, h, n)

\* A tail call
LEMMA GoodReady ==
    ASSUME NEW r \in Seq(Rstacks), NEW m \in Memory, NEW h \in Homes, NEW n \in 1 .. MaxSlots,
           Good(r, m, h, n)
    PROVE  Ready(r, m, h, n)
<1>1. n \in 0 .. MaxSlots /\ n - 1 \in 0 .. n /\ n \in 1 .. n /\ n \in Nat
  BY RetAddrAssumption
<1>2. Covers(r, m, h, n - 1)
  BY <1>1, LowerSlots DEF Good
<1>3. TopSlot(r, m, h, n)
  <2>1. CASE r # << >> /\ Last(r).loc = n
    BY <2>1 DEF Good, TopHooked, TopSlot
  <2>2. CASE ~(r # << >> /\ Last(r).loc = n)
    <3>1. m[n] = h[n]
      <4>1. SUFFICES ASSUME m[n] # h[n] PROVE FALSE
        OBVIOUS
      <4>2. PICK j \in 1 .. Len(r) : r[j].loc = n /\ Newest(r, j)
        BY <1>1, <4>1 DEF Good, Covers
      <4>3. j = Len(r)
        BY <4>2, LastIsNewest DEF Good, Truthful
      <4>4. r # << >> /\ Last(r) = r[j]
        BY <4>3, FrontFacts
      <4> QED BY <2>2, <4>2, <4>4
    <3> QED BY <2>2, <3>1 DEF TopSlot
  <2> QED BY <2>1, <2>2
<1> QED BY <1>2, <1>3 DEF Good, Ready

\* A call
LEMMA FreshReady ==
    ASSUME NEW r \in Seq(Rstacks), NEW m \in Memory, NEW h \in Homes, NEW n \in 0 .. MaxSlots,
           n < MaxSlots, Good(r, m, h, n), m[n + 1] = h[n + 1]
    PROVE  Ready(r, m, h, n + 1) /\ Good(r, m, h, n + 1)
<1>1. n \in Nat /\ n + 1 \in Nat /\ n + 1 - 1 = n
  BY RetAddrAssumption
<1>2. \A j \in 1 .. Len(r) : r[j].loc <= n /\ r[j].loc \in Nat
  BY EntryFacts DEF Good, Within
<1>3. Within(r, n + 1)
  BY <1>1, <1>2 DEF Within
<1>4. Truthful(r, h, n + 1)
  BY <1>2 DEF Good, Truthful, Tells
<1>5. Covers(r, m, h, n + 1)
  <2>1. \A i \in 1 .. n + 1 : m[i] # h[i] => i \in 1 .. n
    BY <1>1
  <2> QED BY <2>1 DEF Good, Covers
<1>6. TopSlot(r, m, h, n + 1)
  <2>1. r # << >> => Last(r).loc # n + 1
    <3>1. SUFFICES ASSUME r # << >> PROVE Last(r).loc # n + 1
      OBVIOUS
    <3>2. Len(r) \in 1 .. Len(r) /\ Last(r) = r[Len(r)]
      BY <3>1, FrontFacts
    <3> QED BY <1>1, <1>2, <3>2
  <2> QED BY <2>1 DEF TopSlot
<1> QED BY <1>1, <1>3, <1>4, <1>5, <1>6 DEF Good, Ready

LEMMA HijackKeeps ==
    ASSUME NEW s \in StackPairs, NEW h \in Homes, NEW n \in 1 .. MaxSlots, NEW p \in BOOLEAN,
           NEW t, t = Hijack(s, n, p), Ready(s.rs, s.mem, h, n)
    PROVE  /\ t \in StackPairs /\ Good(t.rs, t.mem, h, n)
           /\ t.rs = Append(s.rs, Rstack(n, s.mem[n], p)) /\ t.rs # << >>
           /\ Last(t.rs) = Rstack(n, s.mem[n], p) /\ Front(t.rs) = s.rs
           /\ \A l \in Nat : l <= n => SameBelow(s.rs, t.rs, l)
           /\ FlagsOk(s.rs) => FlagsOk(t.rs)
<1>1. s.rs \in Seq(Rstacks) /\ s.mem \in Memory
  BY DEF StackPairs
<1>2. PICK e \in Rstacks : e = Rstack(n, s.mem[n], p)
  BY HijackFacts
<1>3. e.loc = n /\ e.flag = "none"
  BY <1>2 DEF Rstack
<1>4. /\ t.rs = Append(s.rs, e)
      /\ t.mem \in Memory /\ Good(t.rs, t.mem, h, n)
  BY <1>2, HijackFacts, HijackGood DEF Ready
<1>5. PICK q \in Seq(Rstacks) : q = Append(s.rs, e)
  BY <1>1, PushFacts
<1>6. /\ q # << >> /\ Len(q) = Len(s.rs) + 1 /\ q[Len(s.rs) + 1] = e
      /\ Last(q) = e /\ Front(q) = s.rs /\ \A j \in 1 .. Len(s.rs) : q[j] = s.rs[j]
  BY <1>1, <1>5, PushFacts
<1>7. t \in StackPairs
  <2>1. t = [rs |-> t.rs, mem |-> t.mem]
    BY DEF Hijack
  <2> QED BY <1>4, <1>5, <2>1 DEF StackPairs
<1>8. \A l \in Nat : l <= n => SameBelow(s.rs, q, l)
  BY <1>1, <1>3, <1>5, SameBelowPush
<1>9. FlagsOk(s.rs) => FlagsOk(q)
  <2>1. SUFFICES ASSUME FlagsOk(s.rs), NEW j \in 1 .. Len(q)
                 PROVE  /\ q[j].flag # "LONGJMP"
                        /\ q[j].flag = "RECOVER" => ~q[j].plt /\ "recover" \in program
    BY DEF FlagsOk
  <2>2. Len(s.rs) \in Nat
    BY <1>1
  <2>3. CASE j = Len(s.rs) + 1
    BY <1>3, <1>6, <2>3
  <2>4. CASE j # Len(s.rs) + 1
    <3>1. j \in 1 .. Len(s.rs)
      BY <1>6, <2>2, <2>4
    <3> QED BY <1>6, <2>1, <3>1 DEF FlagsOk
  <2> QED BY <2>3, <2>4
<1> QED BY <1>2, <1>4, <1>5, <1>6, <1>7, <1>8, <1>9

LEMMA HijackStays ==
    ASSUME NEW s \in StackPairs, NEW h \in Homes, NEW n \in 1 .. MaxSlots, NEW p \in BOOLEAN,
           Ready(s.rs, s.mem, h, n)
    PROVE  Hijack(s, n, p) \in StackPairs
BY HijackKeeps

\* The kinds of entries after one more
LEMMA PushKinds ==
    ASSUME NEW r \in Seq(Rstacks), NEW e \in Rstacks, KindsOk(r), Within(r, e.loc),
           Walks(program) => /\ "tail" \in program => ~e.plt
                             /\ \/ "tail" \in program
                                \/ \A j \in 1 .. Len(r) : r[j].loc # e.loc
    PROVE  KindsOk(Append(r, e))
<1>1. SUFFICES ASSUME Walks(program)
               PROVE  Uniform(Append(r, e)) /\ ("tail" \in program => NoPlt(Append(r, e)))
  BY DEF KindsOk
<1>2. PICK q \in Seq(Rstacks) : q = Append(r, e)
  BY PushFacts
<1>3. /\ Len(q) = Len(r) + 1 /\ q[Len(r) + 1] = e /\ Len(r) \in Nat
      /\ \A j \in 1 .. Len(r) : q[j] = r[j]
  BY <1>2, PushFacts
<1>4. Uniform(r) /\ ("tail" \in program => NoPlt(r))
  BY <1>1 DEF KindsOk
<1>5. \A j \in 1 .. Len(q) : j = Len(r) + 1 \/ j \in 1 .. Len(r)
  BY <1>3
<1>6. "tail" \in program => NoPlt(q)
  BY <1>1, <1>3, <1>4, <1>5 DEF NoPlt
<1>7. Uniform(q)
  <2>1. CASE "tail" \in program
    <3>1. \A j \in 1 .. Len(q) : q[j].plt = FALSE
      <4>1. \A j \in 1 .. Len(q) : q[j].plt \in BOOLEAN /\ ~q[j].plt
        BY <1>6, <2>1, EntryFacts DEF NoPlt
      <4> QED BY <4>1
    <3> QED BY <3>1 DEF Uniform
  <2>2. CASE "tail" \notin program
    <3>1. \A j \in 1 .. Len(r) : r[j].loc # e.loc
      BY <1>1, <2>2
    <3>2. SUFFICES ASSUME NEW i \in 1 .. Len(q), NEW j \in 1 .. Len(q), q[i].loc = q[j].loc
                   PROVE  q[i].plt = q[j].plt
      BY DEF Uniform
    <3>3. CASE i \in 1 .. Len(r) /\ j \in 1 .. Len(r)
      BY <1>3, <1>4, <3>2, <3>3 DEF Uniform
    <3>4. CASE i = Len(r) + 1 /\ j = Len(r) + 1
      BY <3>4
    <3>5. CASE i = Len(r) + 1 /\ j \in 1 .. Len(r)
      BY <1>3, <3>1, <3>2, <3>5
    <3>6. CASE i \in 1 .. Len(r) /\ j = Len(r) + 1
      BY <1>3, <3>1, <3>2, <3>6
    <3> QED BY <1>5, <3>3, <3>4, <3>5, <3>6
  <2> QED BY <2>1, <2>2
<1> QED BY <1>2, <1>6, <1>7

\* The `recover' trigger
LEMMA RecoveredGood ==
    ASSUME NEW s \in StackPairs, NEW h \in Homes, NEW n \in 1 .. MaxSlots, Good(s.rs, s.mem, h, n),
           s.rs # << >>, Last(s.rs).loc = n, ~Last(s.rs).plt, "recover" \in program,
           NEW t, t = Recovered(s, n)
    PROVE  /\ t \in StackPairs /\ Good(t.rs, t.mem, h, n)
           /\ \A l \in Nat : l <= n => SameBelow(s.rs, t.rs, l)
           /\ FlagsOk(s.rs) => FlagsOk(t.rs)
           /\ KindsOk(s.rs) => KindsOk(t.rs)
<1>1. PICK r \in Seq(Rstacks), m \in Memory : r = s.rs /\ m = s.mem
  BY DEF StackPairs
<1>2. /\ r # << >> /\ Len(r) \in 1 .. Len(r) /\ Len(r) \in Nat \ {0} /\ Last(r) = r[Len(r)]
      /\ r[Len(r)].loc = n /\ ~r[Len(r)].plt /\ r[Len(r)] \in Rstacks
  BY <1>1, FrontFacts
<1>3. n \in 0 .. MaxSlots /\ n \in Nat
  BY RetAddrAssumption
<1>4. DEFINE e == [r[Len(r)] EXCEPT !.flag = "RECOVER"]
<1>5. e \in Rstacks /\ e.loc = n /\ e.ip = r[Len(r)].ip /\ e.plt = r[Len(r)].plt /\ e.flag = "RECOVER"
  BY <1>2 DEF Rstacks
<1>6. t.rs = [r EXCEPT ![Len(r)] = e] /\ t.mem = [Restore(r, m) EXCEPT ![n] = MRet]
      /\ t = [rs |-> t.rs, mem |-> t.mem]
  BY <1>1 DEF Recovered
<1> HIDE DEF e
<1>7. PICK q \in Seq(Rstacks) : q = t.rs
  <2>1. [r EXCEPT ![Len(r)] = e] \in Seq(Rstacks)
    BY <1>2, <1>5
  <2> QED BY <1>6, <2>1
<1>8. Len(q) = Len(r) /\ \A j \in 1 .. Len(r) : q[j] = IF j = Len(r) THEN e ELSE r[j]
  BY <1>2, <1>6, <1>7
<1>9. Agree(r, q, Len(r)) /\ Agree(q, r, Len(q)) /\ q # << >>
  <2>1. Len(q) \in Nat \ {0}
    BY <1>2, <1>8
  <2>2. q # << >>
    BY <2>1
  <2> QED BY SMTT(30), <1>2, <1>5, <1>8, <2>1, <2>2 DEF Agree
<1>10. Restore(r, m) \in Memory /\ MRet \in Int
  BY WriteBackType DEF MRet
<1>11. PICK w \in Memory : w = t.mem
  BY <1>6, <1>10 DEF Memory
<1>12. \A i \in 1 .. MaxSlots : w[i] = IF i = n THEN MRet ELSE Restore(r, m)[i]
  BY <1>6, <1>10, <1>11 DEF Memory
<1>13. Unhooked(Restore(r, m), h, n)
  BY <1>1, <1>3, RestoreReal DEF Good
<1>14. HookOf(e) = MRet /\ Last(q) = e
  BY <1>2, <1>5, <1>8, <1>9, FrontFacts DEF HookOf
<1>15. Good(q, w, h, n)
  <2>1. Above(q, Len(r), n)
    BY <1>8 DEF Above
  <2>2. Truthful(q, h, n)
    BY <1>1, <1>3, <1>9, <2>1, TellsAgree, PrefixKeeps DEF Good, Truthful
  <2>3. Within(q, n)
    BY <1>1, <1>5, <1>8 DEF Good, Within
  <2>4. Covers(q, w, h, n)
    <3>1. SUFFICES ASSUME NEW i \in 1 .. n, w[i] # h[i]
                   PROVE  \E j \in 1 .. Len(q) : q[j].loc = i /\ Newest(q, j) /\ w[i] = HookOf(q[j])
      BY DEF Covers
    <3>2. i = n
      <4>1. i # n => w[i] = Restore(r, m)[i] /\ Restore(r, m)[i] = h[i]
        BY <1>12, <1>13, RetAddrAssumption DEF Unhooked
      <4> QED BY <3>1, <4>1
    <3>3. Len(q) \in 1 .. Len(q) /\ q[Len(q)] = e /\ Newest(q, Len(q))
      BY <1>2, <1>8 DEF Newest
    <3> QED BY <1>5, <1>12, <1>14, <3>2, <3>3
  <2>5. TopHooked(q, w)
    BY <1>5, <1>12, <1>14 DEF TopHooked
  <2> QED BY <2>2, <2>3, <2>4, <2>5 DEF Good
<1>16. \A l \in Nat : l <= n => SameBelow(r, q, l)
  <2>1. SUFFICES ASSUME NEW l \in Nat, l <= n PROVE SameBelow(r, q, l)
    OBVIOUS
  <2>2. PICK c \in Nat : c = Len(r) - 1
    BY <1>2
  <2>3. c <= Len(r) /\ c <= Len(q) /\ \A j \in 1 .. c : q[j] = r[j]
    BY <1>2, <1>8, <2>2
  <2>4. (\A j \in 1 .. Len(r) : j > c => j = Len(r)) /\ (\A j \in 1 .. Len(q) : j > c => j = Len(r))
    BY <1>2, <1>8, <2>2
  <2>5. /\ \A j \in 1 .. Len(r) : j > c => r[j].loc >= l
        /\ \A j \in 1 .. Len(q) : j > c => q[j].loc >= l
    BY <1>2, <1>3, <1>5, <1>8, <2>1, <2>4
  <2> QED BY <2>3, <2>5, SameBelowFacts
<1>17. FlagsOk(r) => FlagsOk(q)
  BY <1>2, <1>5, <1>8 DEF FlagsOk
<1>18. KindsOk(r) => KindsOk(q)
  BY <1>9, PrefixKeeps DEF KindsOk
<1>19. t \in StackPairs
  BY <1>6, <1>7, <1>11 DEF StackPairs
<1> QED BY <1>1, <1>7, <1>11, <1>15, <1>16, <1>17, <1>18, <1>19

\* What the entry of a function whose slot is n makes of s
Enters(s, t, h, n) ==
    /\ t \in StackPairs /\ Good(t.rs, t.mem, h, n) /\ FlagsOk(t.rs) /\ KindsOk(t.rs)
    /\ \A l \in Nat : l <= n => SameBelow(s.rs, t.rs, l)

LEMMA EnterOnce ==
    ASSUME NEW s \in StackPairs, NEW h \in Homes, NEW n \in 1 .. MaxSlots, NEW p \in BOOLEAN,
           NEW t, t = Hijack(s, n, p), Ready(s.rs, s.mem, h, n), FlagsOk(s.rs), KindsOk(s.rs),
           Walks(program) => /\ "tail" \in program => ~p
                             /\ "tail" \in program \/ \A j \in 1 .. Len(s.rs) : s.rs[j].loc # n
    PROVE  Enters(s, t, h, n) /\ t.rs # << >> /\ Last(t.rs).loc = n /\ Last(t.rs).plt = p
<1>1. PICK e \in Rstacks : e = Rstack(n, s.mem[n], p)
  BY HijackFacts
<1>2. e.loc = n /\ e.plt = p
  BY <1>1 DEF Rstack
<1>3. /\ t \in StackPairs /\ Good(t.rs, t.mem, h, n) /\ t.rs = Append(s.rs, e) /\ t.rs # << >>
      /\ Last(t.rs) = e /\ FlagsOk(t.rs)
      /\ \A l \in Nat : l <= n => SameBelow(s.rs, t.rs, l)
  BY <1>1, HijackKeeps
<1>4. s.rs \in Seq(Rstacks)
  BY DEF StackPairs
<1>5. Within(s.rs, e.loc)
  BY <1>2 DEF Ready
<1>6. KindsOk(Append(s.rs, e))
  BY <1>2, <1>4, <1>5, PushKinds
<1> QED BY <1>2, <1>3, <1>6 DEF Enters

LEMMA EntersChain ==
    ASSUME NEW s, NEW t, NEW u, NEW h, NEW n, Enters(t, u, h, n),
           \A l \in Nat : l <= n => SameBelow(s.rs, t.rs, l)
    PROVE  Enters(s, u, h, n)
<1>1. \A l \in Nat : l <= n => SameBelow(s.rs, u.rs, l)
  BY SameBelowChain DEF Enters
<1> QED BY <1>1 DEF Enters

LEMMA EnterRecover ==
    ASSUME RetInv, NEW s, NEW t, NEW h \in Homes, NEW n \in 1 .. MaxSlots, Enters(s, t, h, n), t.rs # << >>,
           Last(t.rs).loc = n, ~Last(t.rs).plt, "recover" \in program
    PROVE  Enters(s, Recovered(t, n), h, n)
<1>1. PICK u : u = Recovered(t, n)
  OBVIOUS
<1>2. /\ u \in StackPairs /\ Good(u.rs, u.mem, h, n) /\ FlagsOk(u.rs) /\ KindsOk(u.rs)
      /\ \A l \in Nat : l <= n => SameBelow(t.rs, u.rs, l)
  BY <1>1, RecoveredGood DEF Enters
<1>3. Enters(t, u, h, n)
  BY <1>2 DEF Enters
<1>4. \A l \in Nat : l <= n => SameBelow(s.rs, t.rs, l)
  BY DEF Enters
<1>5. Enters(s, u, h, n)
  BY <1>3, <1>4, EntersChain
<1> QED BY <1>1, <1>5

\* The entries outside exception handling, by the way of the call
LEMMA EnterByEnters ==
    ASSUME RetInv, NEW s \in StackPairs, NEW h \in Homes, NEW n \in 1 .. MaxSlots, ~in_exc,
           Ready(s.rs, s.mem, h, n), FlagsOk(s.rs), KindsOk(s.rs),
           NEW way \in program \cap {"pg", "plt", "pltpg", "recover", "tail", "pltjump"},
           way \in {"tail", "pltjump"} \/ \A j \in 1 .. Len(s.rs) : s.rs[j].loc # n
    PROVE  Enters(s, EnterBy(s, n, way), h, n)
<1>1. Walks(program) => ~Mixes(program)
  BY DEF RetInv, TypeInv, Supported
<1>2. McountEntry(s, n) = Hijack(s, n, FALSE)
  BY DEF McountEntry
<1>3. CASE way \in {"pg", "recover", "tail"}
  <2>1. Walks(program) => "tail" \in program \/ \A j \in 1 .. Len(s.rs) : s.rs[j].loc # n
    BY <1>3
  <2>2. /\ Enters(s, Hijack(s, n, FALSE), h, n) /\ Hijack(s, n, FALSE).rs # << >>
        /\ Last(Hijack(s, n, FALSE).rs).loc = n /\ ~Last(Hijack(s, n, FALSE).rs).plt
    BY ZenonT(60), <2>1, EnterOnce
  <2>3. CASE way # "recover"
    BY <1>2, <1>3, <2>2, <2>3 DEF EnterBy
  <2>4. CASE way = "recover"
    <3>1. EnterBy(s, n, way) = Recovered(Hijack(s, n, FALSE), n)
      BY <1>2, <2>4 DEF EnterBy
    <3> QED BY <2>2, <2>4, <3>1, EnterRecover
  <2> QED BY <2>3, <2>4
<1>4. CASE way \in {"plt", "pltjump"}
  <2>1. Walks(program) => /\ "tail" \notin program
                          /\ \A j \in 1 .. Len(s.rs) : s.rs[j].loc # n
    BY <1>1, <1>4 DEF Mixes
  <2>2. Enters(s, Hijack(s, n, TRUE), h, n)
    BY <2>1, EnterOnce
  <2> QED BY <1>4, <2>2 DEF EnterBy
<1>5. CASE way = "pltpg"
  <2>1. ~Walks(program)
    BY <1>1, <1>5 DEF Mixes
  <2>2. PICK t : t = Hijack(s, n, TRUE)
    OBVIOUS
  <2>3. Enters(s, t, h, n)
    BY <2>1, <2>2, EnterOnce
  <2>4. t.rs \in Seq(Rstacks) /\ t.mem \in Memory
    BY <2>3 DEF Enters, StackPairs
  <2>5. Ready(t.rs, t.mem, h, n)
    BY <2>3, <2>4, GoodReady DEF Enters
  <2>6. Enters(t, Hijack(t, n, FALSE), h, n)
    BY <2>1, <2>3, <2>5, EnterOnce DEF Enters
  <2>7. EnterBy(s, n, way) = Hijack(t, n, FALSE)
    BY <1>5, <2>2 DEF EnterBy, McountEntry
  <2> QED BY <2>3, <2>6, <2>7, EntersChain DEF Enters
<1> QED BY <1>3, <1>4, <1>5

LEMMA EnterTraced ==
    ASSUME NEW s \in StackPairs, NEW h \in Homes, NEW n \in 1 .. MaxSlots,
           NEW t, t = Hijack(s, n, FALSE), Ready(s.rs, s.mem, h, n), FlagsOk(s.rs), KindsOk(s.rs),
           "tail" \in program \/ \A j \in 1 .. Len(s.rs) : s.rs[j].loc # n
    PROVE  Enters(s, t, h, n)
<1>1. PICK p \in BOOLEAN : p = FALSE
  OBVIOUS
<1>2. Walks(program) => /\ "tail" \in program => ~p
                        /\ "tail" \in program \/ \A j \in 1 .. Len(s.rs) : s.rs[j].loc # n
  BY <1>1
<1>3. t = Hijack(s, n, p)
  BY <1>1
<1> QED BY <1>1, <1>2, <1>3, EnterOnce

\* A shadow stack from which entries were dropped, before slot l gets one
Rewinds(s, t, h, l) ==
    /\ Ready(t.rs, t.mem, h, l) /\ FlagsOk(t.rs) /\ KindsOk(t.rs)
    /\ \A j \in 1 .. Len(t.rs) : t.rs[j].loc # l
    /\ \A k \in Nat : k <= l => SameBelow(s.rs, t.rs, k)

LEMMA EnterAfter ==
    ASSUME RetInv, NEW s \in StackPairs, NEW t \in StackPairs, NEW h \in Homes, NEW l \in 1 .. MaxSlots,
           Rewinds(s, t, h, l)
    PROVE  /\ Enters(s, Hijack(t, l, FALSE), h, l)
           /\ "recover" \in program => Enters(s, Recovered(Hijack(t, l, FALSE), l), h, l)
<1>1. PICK u : u = Hijack(t, l, FALSE)
  OBVIOUS
<1>2. Ready(t.rs, t.mem, h, l) /\ FlagsOk(t.rs) /\ KindsOk(t.rs)
  BY DEF Rewinds
<1>3. "tail" \in program \/ \A j \in 1 .. Len(t.rs) : t.rs[j].loc # l
  BY DEF Rewinds
<1>4. Enters(t, u, h, l) /\ u.rs # << >> /\ Last(u.rs).loc = l /\ ~Last(u.rs).plt
  <2>1. Enters(t, u, h, l)
    <3>1. Enters(t, Hijack(t, l, FALSE), h, l)
      BY <1>2, <1>3, EnterTraced
    <3> QED BY <1>1, <3>1
  <2>2. PICK e \in Rstacks : e = Rstack(l, t.mem[l], FALSE)
    BY RstackType DEF StackPairs, Memory
  <2>3. e.loc = l /\ ~e.plt
    BY <2>2 DEF Rstack
  <2>4. u.rs = Append(t.rs, e) /\ t.rs \in Seq(Rstacks)
    BY <1>1, <2>2 DEF Hijack, StackPairs
  <2>5. Append(t.rs, e) # << >> /\ Last(Append(t.rs, e)) = e
    BY <2>4, PushFacts
  <2> QED BY <2>1, <2>3, <2>4, <2>5
<1>5. \A k \in Nat : k <= l => SameBelow(s.rs, t.rs, k)
  BY DEF Rewinds
<1>6. Enters(s, u, h, l)
  BY <1>4, <1>5, EntersChain
<1>7. "recover" \in program => Enters(s, Recovered(u, l), h, l)
  BY <1>4, <1>6, EnterRecover
<1> QED BY <1>1, <1>6, <1>7

\* The first entry of cleanup code drops the entries of the frames that were unwound.
LEMMA EnterUnwound ==
    ASSUME RetInv, NEW s \in StackPairs, NEW h \in Homes, NEW n \in 0 .. MaxSlots, n < MaxSlots,
           NEW l \in 1 .. MaxSlots, l = n + 1,
           in_exc, Truthful(s.rs, h, n), Unhooked(s.mem, h, n), s.mem[l] = h[l],
           FlagsOk(s.rs), KindsOk(s.rs), Walks(program), NEW way \in program \cap {"pg", "recover"}
    PROVE  Enters(s, EnterBy(s, l, way), h, l)
<1>1. PICK r \in Seq(Rstacks), m \in Memory : r = s.rs /\ m = s.mem
  BY DEF StackPairs
<1>2. Uniform(r) /\ n \in Nat /\ n = l - 1 /\ l \in Nat
  BY <1>1, RetAddrAssumption DEF KindsOk
<1>3. PICK c \in 0 .. Len(r) :
         /\ RehookException(r, m, n) = [rs |-> SubSeq(r, 1, c), mem |-> Rehook(SubSeq(r, 1, c), m)]
         /\ Above(r, c, n) /\ Within(SubSeq(r, 1, c), n)
         /\ Good(SubSeq(r, 1, c), Rehook(SubSeq(r, 1, c), m), h, n)
  BY <1>1, <1>2, UnwoundGood
<1>4. PICK q \in Seq(Rstacks) : q = SubSeq(r, 1, c)
  BY PrefixFacts
<1>5. Len(q) = c /\ (\A j \in 1 .. c : q[j] = r[j]) /\ Agree(q, r, Len(q))
  BY <1>4, PrefixFacts, PrefixAgrees
<1>6. PICK w \in Memory : w = Rehook(q, m)
  BY WriteBackType
<1>7. PICK t \in StackPairs : t = [rs |-> q, mem |-> w]
  BY DEF StackPairs
<1>8. t.rs = q /\ t.mem = w /\ RehookException(s.rs, s.mem, n) = t
  BY <1>1, <1>3, <1>4, <1>6, <1>7
<1>9. \A j \in 1 .. Len(q) : q[j].loc # l
  <2>1. SUFFICES ASSUME NEW j \in 1 .. Len(q) PROVE q[j].loc # l
    OBVIOUS
  <2>2. q[j].loc <= n /\ q[j].loc \in Nat
    BY <1>3, <1>4, EntryFacts DEF Within
  <2> QED BY <1>2, <2>2
<1>10. w[l] = h[l]
  BY <1>1, <1>2, <1>6, <1>9, RehookEither
<1>11. Ready(q, w, h, l)
  <2>1. Ready(q, w, h, n + 1)
    BY <1>3, <1>4, <1>6, <1>10, FreshReady
  <2> QED BY <2>1
<1>12. FlagsOk(q)
  <2>1. \A j \in 1 .. Len(q) : j \in 1 .. Len(r) /\ q[j] = r[j]
    BY <1>5
  <2> QED BY <1>1, <2>1 DEF FlagsOk
<1>13. KindsOk(q)
  BY <1>1, <1>5, PrefixKeeps DEF KindsOk
<1>14. \A k \in Nat : k <= l => SameBelow(s.rs, t.rs, k)
  BY <1>1, <1>2, <1>3, <1>4, <1>8, SameBelowPrefix
<1>15. /\ Enters(s, Hijack(t, l, FALSE), h, l)
       /\ "recover" \in program => Enters(s, Recovered(Hijack(t, l, FALSE), l), h, l)
  <2>1. /\ Ready(t.rs, t.mem, h, l) /\ FlagsOk(t.rs) /\ KindsOk(t.rs)
        /\ \A j \in 1 .. Len(t.rs) : t.rs[j].loc # l
    BY <1>8, <1>9, <1>11, <1>12, <1>13
  <2>2. t \in StackPairs
    BY <1>7
  <2>3. Rewinds(s, t, h, l)
    BY <1>14, <2>1 DEF Rewinds
  <2> QED BY <2>2, <2>3, EnterAfter
<1>16. McountEntry(s, l) = Hijack(t, l, FALSE)
  <2>1. McountEntry(s, l) = Hijack(RehookException(s.rs, s.mem, l - 1), l, FALSE)
    BY DEF McountEntry
  <2>2. RehookException(s.rs, s.mem, l - 1) = t
    BY <1>2, <1>8
  <2> QED BY <2>1, <2>2
<1>17. CASE way = "pg"
  BY <1>15, <1>16, <1>17 DEF EnterBy
<1>18. CASE way = "recover"
  BY <1>15, <1>16, <1>18 DEF EnterBy
<1> QED BY <1>17, <1>18

\* The call instruction pushes a new address.
LEMMA PushedSlots ==
    ASSUME RetInv, CanCall
    PROVE  \E l \in 1 .. MaxSlots, m \in Memory, h \in Homes :
              /\ l = sp + 1 /\ m = Pushed(mem) /\ h = [home EXCEPT ![sp + 1] = ncalls + 1]
              /\ m[l] = h[l] /\ h[l] = ncalls + 1
              /\ \A i \in 1 .. sp : m[i] = mem[i] /\ h[i] = home[i]
              /\ \A i \in 1 .. MaxSlots : h[i] <= ncalls + 1
<1>1. /\ sp \in 0 .. MaxSlots /\ sp < MaxSlots /\ ncalls \in Nat /\ mem \in Memory /\ home \in Homes
      /\ \A i \in 1 .. MaxSlots : home[i] <= ncalls
  BY DEF RetInv, TypeInv, CanCall, Homes
<1>2. PICK l \in 1 .. MaxSlots : l = sp + 1
  BY <1>1, RetAddrAssumption
<1>3. PICK c \in Nat : c = ncalls + 1
  BY <1>1
<1>4. Pushed(mem) = [mem EXCEPT ![l] = c]
  BY <1>2, <1>3 DEF Pushed
<1>5. [mem EXCEPT ![l] = c] \in Memory /\ [home EXCEPT ![l] = c] \in Homes
  BY <1>1 DEF Memory, Homes
<1>6. PICK m \in Memory, h \in Homes : m = Pushed(mem) /\ h = [home EXCEPT ![l] = c]
  BY <1>4, <1>5
<1>7. \A i \in 1 .. MaxSlots : /\ m[i] = IF i = l THEN c ELSE mem[i]
                               /\ h[i] = IF i = l THEN c ELSE home[i]
  BY <1>1, <1>4, <1>6 DEF Memory, Homes
<1>8. \A i \in 1 .. sp : i \in 1 .. MaxSlots /\ i # l
  BY <1>1, <1>2, RetAddrAssumption
<1>9. \A i \in 1 .. MaxSlots : h[i] <= c
  BY <1>1, <1>3, <1>7 DEF Homes
<1>10. m[l] = h[l] /\ h[l] = ncalls + 1
  BY <1>3, <1>7
<1>11. h = [home EXCEPT ![sp + 1] = ncalls + 1]
  BY <1>2, <1>3, <1>6
<1>12. \A i \in 1 .. sp : m[i] = mem[i] /\ h[i] = home[i]
  BY <1>7, <1>8
<1>13. \A i \in 1 .. MaxSlots : h[i] <= ncalls + 1
  BY <1>3, <1>9
<1>14. m = Pushed(mem)
  BY <1>6
<1> QED BY ZenonT(60), <1>2, <1>6, <1>10, <1>11, <1>12, <1>13, <1>14

LEMMA PushedFacts ==
    ASSUME RetInv, CanCall, PushAddr
    PROVE  \E l \in 1 .. MaxSlots, m \in Memory, h \in Homes :
              /\ l = sp + 1 /\ m = Pushed(mem) /\ h = home' /\ m[l] = h[l] /\ h[l] = ncalls + 1
              /\ \A i \in 1 .. sp : m[i] = mem[i] /\ h[i] = home[i]
              /\ \A i \in 1 .. MaxSlots : h[i] <= ncalls'
  BY PushedSlots DEF PushAddr

\* A call uses one more slot, a tail call the last one.
Grows ==
    /\ sp' = sp + 1 /\ sp < MaxSlots /\ jmpbuf' = jmpbuf /\ home'[sp + 1] = ncalls + 1
    /\ \A i \in 1 .. sp : home'[i] = home[i]
Stays ==
    /\ sp' = sp /\ home' = home /\ (vf.child => sp >= vf.slot)
    /\ jmpbuf' = IF jmpbuf.slot = sp + 1 THEN NoJmpbuf ELSE jmpbuf

\* jmp_buf and vfork() after a call
LEMMA BuffersKeep ==
    ASSUME RetInv, pc = "run", Grows \/ Stays, ncalls' = ncalls + 1, vf' = vf,
           dead' \/ \A k \in Nat : k <= sp' => SameBelow(rs, rs', k),
           vf.idx > 0 => ~dead', dead => dead'
    PROVE  JmpInv' /\ VforkInv'
<1>1. /\ jmpbuf \in Buffers /\ jmpbuf.slot \in 0 .. MaxSlots /\ jmpbuf.owner \in Nat
      /\ sp \in 0 .. MaxSlots /\ ncalls \in Nat /\ sp \in Nat /\ vf.slot \in 0 .. MaxSlots /\ vf.idx \in Nat
      /\ vf.child \in BOOLEAN /\ home \in Homes
  BY RetAddrAssumption DEF RetInv, TypeInv, Buffers, Homes
<1>2. jmpbuf.owner <= ncalls
  BY DEF RetInv, JmpInv
<1>3. NoJmpbuf.owner = 0 /\ NoJmpbuf.slot = 0
  BY DEF NoJmpbuf
<1>4. jmpbuf' = jmpbuf \/ jmpbuf' = NoJmpbuf
  BY DEF Grows, Stays
<1>5. jmpbuf'.owner <= ncalls'
  BY <1>1, <1>2, <1>3, <1>4
<1>6. ASSUME Usable', ~dead' PROVE CopyOf(rs', jmpbuf')
  <2>1. jmpbuf' = jmpbuf /\ jmpbuf.slot > 0 /\ jmpbuf.slot <= sp' + 1 /\ jmpbuf.owner = FrameAt(jmpbuf.slot - 1)'
    BY <1>3, <1>4, <1>6 DEF Usable
  <2>2. jmpbuf.slot <= sp'
    <3>1. CASE Grows
      <4>1. SUFFICES ASSUME jmpbuf.slot = sp + 2 PROVE FALSE
        BY <1>1, <2>1, <3>1 DEF Grows
      <4>2. FrameAt(jmpbuf.slot - 1)' = ncalls + 1
        BY <1>1, <2>1, <3>1, <4>1 DEF Grows, FrameAt
      <4> QED BY <1>1, <1>2, <2>1, <4>2
    <3>2. CASE Stays
      <4>1. jmpbuf.slot # sp + 1
        BY <1>3, <2>1, <3>2 DEF Stays
      <4> QED BY <1>1, <2>1, <3>2, <4>1 DEF Stays
    <3> QED BY <3>1, <3>2
  <2>3. Usable
    <3>1. jmpbuf.slot <= sp + 1
      BY <1>1, <2>2 DEF Grows, Stays
    <3>2. FrameAt(jmpbuf.slot - 1)' = FrameAt(jmpbuf.slot - 1)
      <4>1. PICK f \in Nat : f = jmpbuf.slot - 1 /\ f <= sp
        BY <1>1, <2>1, <3>1
      <4>2. f # 0 => home'[f] = home[f]
        BY <4>1, <1>1 DEF Grows, Stays
      <4> QED BY <2>1, <4>1, <4>2 DEF FrameAt
    <3> QED BY <2>1, <3>1, <3>2 DEF Usable
  <2>4. CopyOf(rs, jmpbuf)
    BY <1>6, <2>3 DEF RetInv, JmpInv
  <2>5. SameBelow(rs, rs', jmpbuf.slot)
    BY <1>1, <1>6, <2>2
  <2> QED BY <1>1, <2>1, <2>4, <2>5, CopyStays
<1>7. VforkInv'
  <2>1. SUFFICES ASSUME vf.idx > 0 PROVE VforkInv'
    BY DEF VforkInv
  <2>2. /\ vf.slot > 0 /\ vf.slot <= sp + 1
        /\ vf.top = Rstack(vf.slot, vf.home, TRUE)
        /\ Splits(rs, vf.idx - 1, vf.slot)
    BY <2>1 DEF RetInv, VforkInv
  <2>3. vf.child
    BY <2>1 DEF RetInv, OnlyIf
  <2>4. vf.slot <= sp'
    BY <1>1, <2>2, <2>3 DEF Grows, Stays
  <2>5. sp' \in Nat
    BY <1>1 DEF Grows, Stays
  <2>6. SameBelow(rs, rs', vf.slot)
    BY <1>1, <2>1, <2>4
  <2>7. vf.idx - 1 \in Nat
    BY <1>1, <2>1
  <2>8. Splits(rs', vf.idx - 1, vf.slot)
    BY <2>2, <2>6, <2>7 DEF SameBelow
  <2> QED BY <1>1, <2>2, <2>4, <2>5, <2>8 DEF VforkInv
<1> QED BY <1>5, <1>6, <1>7 DEF JmpInv

\* The thread runs, outside exception handling, with its stack in order or none.
Settled ==
    \/ dead' = TRUE /\ stop /\ rs' = << >> /\ Unhooked(mem', home', sp')
    \/ dead' = FALSE /\ Good(rs', mem', home', sp') /\ FlagsOk(rs') /\ KindsOk(rs')

LEMMA RunKeeps ==
    ASSUME RetInv, pc = "run", pc' = "run", in_exc' = FALSE, UNCHANGED <<program, pad, stop, vf, went>>,
           TypeInv', JmpInv', VforkInv', Settled
    PROVE  RetInv'
<1>1. LeftSlot' /\ ReturnsToCaller'
  BY DEF RetInv, LeftSlot, ReturnsToCaller
<1>2. OnlyIf'
  BY DEF RetInv, OnlyIf, Settled
<1>3. Kinds'
  <2>1. Base' = rs'
    BY DEF Base, CleanupCalls, Resumes
  <2>2. CASE rs' = << >>
    BY <2>1, <2>2 DEF Kinds, Uniform, NoPlt
  <2>3. CASE rs' # << >>
    <3>1. FlagsOk(rs') /\ KindsOk(rs')
      BY <2>3 DEF Settled
    <3>2. \A j \in 1 .. Len(rs') : /\ rs'[j].flag # "LONGJMP"
                                   /\ rs'[j].flag = "RECOVER" => ~rs'[j].plt /\ "recover" \in program
      BY <3>1 DEF FlagsOk
    <3>3. Walks(program) => Uniform(rs') /\ ("tail" \in program => NoPlt(rs'))
      BY <3>1 DEF KindsOk
    <3> QED BY <2>1, <3>2, <3>3 DEF Kinds
  <2> QED BY <2>2, <2>3
<1>4. Placed'
  BY DEF Settled, Placed, InCleanup, CleanupCalls, Jumps, Resumes
<1> QED BY <1>1, <1>2, <1>3, <1>4 DEF RetInv

-----------------------------------------------------------------------------
(* The call instruction *)

\* Before a call the stack is in order, or cleanup code runs on top of it.
LEMMA RunFacts ==
    ASSUME RetInv, pc = "run"
    PROVE  /\ rs \in Seq(Rstacks) /\ mem \in Memory /\ home \in Homes /\ sp \in 0 .. MaxSlots /\ sp \in Nat
           /\ pad \in 0 .. sp /\ stop \in BOOLEAN /\ dead \in BOOLEAN /\ in_exc \in BOOLEAN
           /\ FlagsOk(rs) /\ (~CleanupCalls => KindsOk(rs))
           /\ ~in_exc /\ ~dead => Good(rs, mem, home, sp)
           /\ dead => stop /\ rs = << >> /\ Unhooked(mem, home, sp)
           /\ in_exc => "throw" \in program /\ Walks(program) /\ ~Mixes(program) /\ "plain" \notin program /\ ~stop /\ ~dead
           /\ vf.idx > 0 => vf.child /\ ~stop /\ ~dead /\ ~in_exc /\ pad = 0
           /\ InCleanup => Truthful(rs, home, sp) /\ Unhooked(mem, home, sp) /\ sp > 0
<1>1. /\ rs \in Seq(Rstacks) /\ mem \in Memory /\ home \in Homes /\ sp \in 0 .. MaxSlots /\ sp \in Nat
      /\ pad \in 0 .. sp /\ stop \in BOOLEAN /\ dead \in BOOLEAN /\ in_exc \in BOOLEAN
  BY RetAddrAssumption DEF RetInv, TypeInv, Homes
<1>2. FlagsOk(rs)
  BY DEF RetInv, Kinds, FlagsOk
<1>3. ~CleanupCalls => KindsOk(rs)
  BY DEF RetInv, Kinds, KindsOk, Base, Resumes
<1>4. /\ ~in_exc /\ ~dead => Good(rs, mem, home, sp)
      /\ dead => stop /\ rs = << >> /\ Unhooked(mem, home, sp)
      /\ InCleanup => Truthful(rs, home, sp) /\ Unhooked(mem, home, sp)
  BY DEF RetInv, Placed, OnlyIf
<1>5. in_exc => "throw" \in program /\ Walks(program) /\ ~Mixes(program) /\ "plain" \notin program /\ ~stop /\ ~dead
  BY ProgramFacts DEF RetInv, OnlyIf
<1>6. vf.idx > 0 => vf.child /\ ~stop /\ ~dead /\ pad = 0
  BY ProgramFacts DEF RetInv, OnlyIf
<1>7. in_exc => pad > 0
  BY DEF RetInv, OnlyIf
<1>8. vf.idx > 0 => ~in_exc
  <2>1. SUFFICES ASSUME vf.idx > 0, in_exc PROVE FALSE
    OBVIOUS
  <2>2. pad = 0 /\ pad > 0
    BY <1>6, <1>7, <2>1
  <2> QED BY <2>2
<1>9. InCleanup => sp > 0
  BY <1>1, <1>7 DEF InCleanup
<1> QED BY <1>1, <1>2, <1>3, <1>4, <1>5, <1>6, <1>8, <1>9

\* The types after a call
LEMMA CallTypes ==
    ASSUME RetInv, pc' = "run", UNCHANGED <<program, pad, stop, vf>>, sp \in 0 .. MaxSlots,
           ncalls' = ncalls + 1, home' \in Homes, \A i \in 1 .. MaxSlots : home'[i] <= ncalls',
           mem' \in Memory, rs' \in Seq(Rstacks), in_exc' \in BOOLEAN, dead' \in BOOLEAN,
           sp' \in 0 .. MaxSlots, sp <= sp', jmpbuf' = jmpbuf \/ jmpbuf' = NoJmpbuf
    PROVE  TypeInv'
<1>1. NoJmpbuf \in Buffers
  <2>1. << >> \in Seq(Rstacks) /\ 0 \in 0 .. MaxSlots
    BY RetAddrAssumption
  <2> QED BY <2>1 DEF NoJmpbuf, Buffers
<1>2. jmpbuf' \in Buffers
  BY <1>1 DEF RetInv, TypeInv, Buffers
<1>3. pad' \in 0 .. sp'
  BY RetAddrAssumption DEF RetInv, TypeInv
<1>4. ncalls' \in Nat
  BY DEF RetInv, TypeInv
<1> QED BY <1>2, <1>3, <1>4 DEF RetInv, TypeInv, Buffers, Homes

\* A call outside exception handling, or the first one of cleanup code that is traced
LEMMA CallSettled ==
    ASSUME RetInv, CanCall, PushAddr, NEW l \in 1 .. MaxSlots, NEW m \in Memory, NEW h \in Homes,
           l = sp + 1, m = Pushed(mem), h = home', m[l] = h[l], h[l] = ncalls + 1,
           \A i \in 1 .. sp : m[i] = mem[i] /\ h[i] = home[i],
           NEW way \in program \cap {"pg", "plt", "pltpg", "plain", "recover"},
           sp' = sp + 1, Become(EntryDone([rs |-> rs, mem |-> m], l, way)),
           dead' = (dead \/ (stop /\ way # "plain")), ~(in_exc /\ way = "plt")
    PROVE  /\ Settled /\ rs' \in Seq(Rstacks) /\ mem' \in Memory
           /\ dead' \/ \A k \in Nat : k <= sp' => SameBelow(rs, rs', k)
<1>0. pc = "run" /\ sp < MaxSlots
  BY DEF CanCall
<1>1. /\ rs \in Seq(Rstacks) /\ mem \in Memory /\ home \in Homes /\ sp \in 0 .. MaxSlots /\ sp \in Nat
      /\ stop \in BOOLEAN /\ dead \in BOOLEAN /\ in_exc \in BOOLEAN /\ l \in 0 .. MaxSlots /\ l \in Nat
      /\ sp' = l /\ FlagsOk(rs)
  BY <1>0, RunFacts, RetAddrAssumption
<1>2. PICK s \in StackPairs : s = [rs |-> rs, mem |-> m]
  BY <1>1 DEF StackPairs
<1>3. s.rs = rs /\ s.mem = m
  BY <1>2
<1>4. CASE dead
  <2>1. stop /\ rs = << >> /\ Unhooked(mem, home, sp)
    BY <1>0, <1>4, RunFacts
  <2>2. rs' = rs /\ mem' = m /\ dead' = TRUE
    BY <1>2, <1>3, <1>4 DEF EntryDone, Become
  <2>3. Unhooked(m, h, l)
    <3>1. SUFFICES ASSUME NEW i \in 1 .. l PROVE m[i] = h[i]
      BY DEF Unhooked
    <3>2. i = l \/ i \in 1 .. sp
      BY <1>1
    <3> QED BY <2>1, <3>2 DEF Unhooked
  <2> QED BY <1>1, <2>1, <2>2, <2>3 DEF Settled
<1>5. ASSUME ~dead, ~in_exc
      PROVE  /\ Good(rs, m, h, sp) /\ KindsOk(rs) /\ Ready(rs, m, h, l) /\ Good(rs, m, h, l)
             /\ \A j \in 1 .. Len(rs) : rs[j].loc # l
  <2>1. Good(rs, mem, home, sp) /\ KindsOk(rs)
    BY <1>0, <1>5, RunFacts DEF CleanupCalls
  <2>2. Good(rs, m, h, sp)
    <3>1. Truthful(rs, h, sp) /\ Covers(rs, m, h, sp)
      BY <1>1, <2>1, UpperSlots DEF Good
    <3>2. TopHooked(rs, m)
      <4>1. SUFFICES ASSUME rs # << >> PROVE m[Last(rs).loc] = HookOf(Last(rs))
        BY DEF TopHooked
      <4>2. Len(rs) \in 1 .. Len(rs) /\ Last(rs) = rs[Len(rs)]
        BY <1>1, <4>1, FrontFacts
      <4>3. Last(rs).loc \in 1 .. sp
        BY <1>1, <2>1, <4>2, EntryFacts DEF Good, Within
      <4> QED BY <2>1, <4>1, <4>3 DEF Good, TopHooked
    <3> QED BY <2>1, <3>1, <3>2 DEF Good
  <2>3. Ready(rs, m, h, sp + 1) /\ Good(rs, m, h, sp + 1)
    BY <1>0, <1>1, <2>2, FreshReady
  <2>4. \A j \in 1 .. Len(rs) : rs[j].loc <= sp /\ rs[j].loc \in Nat
    BY <1>1, <2>1, EntryFacts DEF Good, Within
  <2> QED BY <1>1, <2>1, <2>2, <2>3, <2>4
<1>6. CASE ~dead /\ stop /\ way # "plain"
  <2>1. ~in_exc
    BY <1>0, <1>6, RunFacts
  <2>2. rs' = << >> /\ mem' = Restore(rs, m) /\ dead' = TRUE
    BY <1>2, <1>3, <1>6 DEF EntryDone, Become, Died
  <2>3. Good(rs, m, h, l)
    BY <1>5, <1>6, <2>1
  <2>4. Unhooked(Restore(rs, m), h, l) /\ Restore(rs, m) \in Memory
    BY <1>1, <2>3, RestoreReal, WriteBackType DEF Good
  <2>5. << >> \in Seq(Rstacks)
    OBVIOUS
  <2> QED BY <1>1, <1>6, <2>2, <2>4, <2>5 DEF Settled
<1>7. CASE ~dead /\ way = "plain"
  <2>1. ~in_exc
    BY <1>0, <1>7, RunFacts
  <2>2. rs' = rs /\ mem' = m /\ dead' = FALSE
    BY <1>2, <1>3, <1>7 DEF EntryDone, Become
  <2>3. Good(rs, m, h, l) /\ KindsOk(rs)
    BY <1>5, <1>7, <2>1
  <2>4. \A k \in Nat : SameBelow(rs, rs, k)
    BY DEF SameBelow
  <2> QED BY <1>1, <2>2, <2>3, <2>4 DEF Settled
<1>8. CASE ~dead /\ ~stop /\ way # "plain"
  <2>1. PICK t : t = EnterBy(s, l, way)
    OBVIOUS
  <2>2. rs' = t.rs /\ mem' = t.mem /\ dead' = FALSE
    BY <1>2, <1>8, <2>1 DEF EntryDone, Become
  <2>3. Enters(s, t, h, l)
    <3>1. CASE ~in_exc
      <4>1. /\ Ready(s.rs, s.mem, h, l) /\ FlagsOk(s.rs) /\ KindsOk(s.rs)
            /\ \A j \in 1 .. Len(s.rs) : s.rs[j].loc # l
        BY <1>1, <1>3, <1>5, <1>8, <3>1
      <4>2. way \in program \cap {"pg", "plt", "pltpg", "recover", "tail", "pltjump"}
        BY <1>8
      <4> QED BY <2>1, <3>1, <4>1, <4>2, EnterByEnters
    <3>2. CASE in_exc
      <4>1. ~Mixes(program) /\ Walks(program)
        BY <1>0, <3>2, RunFacts
      <4>2. way \in program \cap {"pg", "recover"}
        BY <1>8, <3>2, <4>1 DEF Mixes
      <4>3. InCleanup
        <5>1. SUFFICES ASSUME CleanupCalls PROVE FALSE
          BY <1>0, <3>2 DEF CleanupCalls, InCleanup
        <5>2. mem[sp] = PRet /\ sp = pad + 1
          BY <5>1 DEF RetInv, Placed
        <5>3. sp > 0
          BY <1>0, <1>1, <5>2, RunFacts
        <5> QED BY <3>2, <5>2, <5>3 DEF CanCall, QuietCleanup
      <4>4. Truthful(rs, home, sp) /\ Unhooked(mem, home, sp) /\ KindsOk(rs)
        BY <1>0, <4>3, RunFacts DEF InCleanup, CleanupCalls
      <4>5. Truthful(s.rs, h, sp) /\ Unhooked(s.mem, h, sp) /\ FlagsOk(s.rs) /\ KindsOk(s.rs) /\ s.mem[l] = h[l]
        BY <1>1, <1>3, <4>4, UpperSlots
      <4> QED BY <1>0, <1>1, <2>1, <3>2, <4>1, <4>2, <4>5, EnterUnwound
    <3> QED BY <3>1, <3>2
  <2>4. /\ Good(t.rs, t.mem, h, l) /\ FlagsOk(t.rs) /\ KindsOk(t.rs) /\ t.rs \in Seq(Rstacks) /\ t.mem \in Memory
        /\ \A k \in Nat : k <= l => SameBelow(s.rs, t.rs, k)
    BY <2>3 DEF Enters, StackPairs
  <2> QED BY <1>1, <1>3, <2>2, <2>4 DEF Settled
<1> QED BY <1>1, <1>4, <1>6, <1>7, <1>8

\* Cleanup code calls a library function.
LEMMA CleanupPltKeeps ==
    ASSUME RetInv, CallInsn("plt"), in_exc
    PROVE  RetInv'
<1>1. /\ CanCall /\ PushAddr /\ sp' = sp + 1 /\ "plt" \in program /\ pc = "run" /\ pc' = "run"
      /\ UNCHANGED <<program, pad, jmpbuf, vf, stop, went>>
      /\ Become(EntryDone([Stacks EXCEPT !.mem = Pushed(mem)], sp + 1, "plt"))
      /\ dead' = (dead \/ stop) /\ in_exc' = in_exc
  BY DEF CallInsn, CanCall
<1>2. /\ rs \in Seq(Rstacks) /\ mem \in Memory /\ home \in Homes /\ sp \in 0 .. MaxSlots /\ sp \in Nat
      /\ ~stop /\ ~dead /\ FlagsOk(rs) /\ in_exc' = TRUE /\ dead' = FALSE /\ sp < MaxSlots
      /\ "throw" \in program /\ vf.idx \in Nat /\ ~(vf.idx > 0) /\ in_exc \in BOOLEAN
  <2>1. vf.idx \in Nat
    BY DEF RetInv, TypeInv
  <2> QED BY <1>1, <2>1, RunFacts DEF CanCall
<1>3. InCleanup
  <2>1. SUFFICES ASSUME CleanupCalls PROVE FALSE
    BY <1>1 DEF CleanupCalls, InCleanup
  <2>2. mem[sp] = PRet /\ sp = pad + 1
    BY <2>1 DEF RetInv, Placed
  <2>3. sp > 0
    BY <1>1, <1>2, <2>2, RunFacts
  <2> QED BY <1>1, <2>2, <2>3 DEF CanCall, QuietCleanup
<1>4. Truthful(rs, home, sp) /\ Unhooked(mem, home, sp) /\ KindsOk(rs) /\ sp = pad
  BY <1>1, <1>3, RunFacts DEF InCleanup, CleanupCalls
<1>5. PICK l \in 1 .. MaxSlots, m \in Memory, h \in Homes :
              /\ l = sp + 1 /\ m = Pushed(mem) /\ h = home' /\ m[l] = h[l] /\ h[l] = ncalls + 1
              /\ \A i \in 1 .. sp : m[i] = mem[i] /\ h[i] = home[i]
              /\ \A i \in 1 .. MaxSlots : h[i] <= ncalls'
  BY <1>1, PushedFacts
<1>6. PICK e \in Rstacks : e = Rstack(l, m[l], TRUE)
  <2>1. m[l] \in Int
    BY DEF Memory
  <2> QED BY <2>1, RstackType
<1>7. e.loc = l /\ e.plt = TRUE /\ e.flag = "none"
  BY <1>6 DEF Rstack
<1>8. PICK q \in Seq(Rstacks) : q = Append(rs, e)
  BY <1>2, PushFacts
<1>9. /\ q # << >> /\ Len(q) = Len(rs) + 1 /\ q[Len(rs) + 1] = e /\ Last(q) = e /\ Front(q) = rs
      /\ (\A j \in 1 .. Len(rs) : q[j] = rs[j]) /\ Len(rs) \in Nat
  BY <1>2, <1>8, PushFacts
<1>10. rs' = q /\ mem' = [m EXCEPT ![l] = PRet]
  <2>1. Become(Hijack([rs |-> rs, mem |-> m], l, TRUE))
    <3>1. PICK s : s = [rs |-> rs, mem |-> m]
      OBVIOUS
    <3>2. [Stacks EXCEPT !.mem = Pushed(mem)] = s
      BY <1>5, <3>1 DEF Stacks
    <3>3. EntryDone(s, l, "plt") = Hijack(s, l, TRUE)
      BY <1>2 DEF EntryDone, EnterBy
    <3> QED BY <1>1, <1>5, <3>1, <3>2, <3>3
  <2>2. AutoRestore(Append(rs, Rstack(l, m[l], TRUE)), [m EXCEPT ![l] = PRet]) = [m EXCEPT ![l] = PRet]
    BY DEF AutoRestore, AutoApplies
  <2> QED BY <1>6, <1>8, <2>1, <2>2 DEF Hijack, Become
<1>11. PICK w \in Memory : w = mem'
  <2>1. PRet \in Int
    BY DEF PRet
  <2> QED BY <1>10, <2>1 DEF Memory
<1>12. \A i \in 1 .. MaxSlots : w[i] = IF i = l THEN PRet ELSE m[i]
  BY <1>10, <1>11 DEF Memory
<1>13. \A i \in 1 .. sp : w[i] = mem[i] /\ h[i] = home[i]
  BY <1>2, <1>5, <1>12, RetAddrAssumption
<1>14. Truthful(rs, h, sp) /\ Unhooked(w, h, sp)
  BY <1>2, <1>4, <1>13, UpperSlots
<1>15. TypeInv'
  <2>1. sp' \in 0 .. MaxSlots /\ sp <= sp' /\ ncalls' = ncalls + 1
    BY <1>1, <1>2, <1>5, RetAddrAssumption DEF PushAddr
  <2>2. in_exc' \in BOOLEAN /\ dead' \in BOOLEAN
    BY <1>2
  <2> QED BY <1>1, <1>2, <1>5, <1>10, <1>11, <2>1, <2>2, CallTypes
<1>16. JmpInv' /\ VforkInv'
  <2>1. \A k \in Nat : k <= sp' => SameBelow(rs, rs', k)
    <3>1. SUFFICES ASSUME NEW k \in Nat, k <= l PROVE SameBelow(rs, q, k)
      BY <1>1, <1>5, <1>10
    <3> QED BY <1>2, <1>7, <1>8, <3>1, SameBelowPush
  <2>2. Grows
    BY <1>1, <1>2, <1>5 DEF Grows
  <2>3. ncalls' = ncalls + 1
    BY <1>1 DEF PushAddr
  <2> QED BY <1>1, <1>2, <2>1, <2>2, <2>3, BuffersKeep
<1>17. LeftSlot' /\ ReturnsToCaller'
  BY <1>1 DEF RetInv, LeftSlot, ReturnsToCaller
<1>18. OnlyIf'
  BY <1>1, <1>2, ProgramFacts DEF RetInv, OnlyIf
<1>19. CleanupCalls' /\ ~InCleanup'
  BY <1>1, <1>2, <1>4 DEF CleanupCalls, InCleanup
<1>20. Kinds'
  <2>1. Base' = rs
    BY <1>9, <1>10, <1>19 DEF Base
  <2>2. \A j \in 1 .. Len(q) : j = Len(rs) + 1 \/ j \in 1 .. Len(rs)
    BY <1>9
  <2>3. /\ \A j \in 1 .. Len(q) : q[j].flag # "LONGJMP"
        /\ \A j \in 1 .. Len(q) : q[j].flag = "RECOVER" => ~q[j].plt /\ "recover" \in program
    BY <1>2, <1>7, <1>9, <2>2 DEF FlagsOk
  <2> QED BY <1>1, <1>4, <1>10, <2>1, <2>3 DEF Kinds, KindsOk
<1>21. Placed'
  <2>1. sp' = pad' + 1 /\ rs' # << >>
    BY <1>1, <1>4, <1>9, <1>10
  <2>2. Last(rs') = Rstack(sp', home'[sp'], TRUE)
    BY <1>1, <1>5, <1>6, <1>9, <1>10
  <2>3. Truthful(Front(rs'), home', pad') /\ Unhooked(mem', home', pad')
    BY <1>1, <1>4, <1>5, <1>9, <1>10, <1>11, <1>14
  <2>4. mem'[sp'] = PRet
    BY <1>1, <1>5, <1>11, <1>12
  <2>5. pc' = "run" /\ in_exc' = TRUE /\ dead' = FALSE /\ ~InCleanup' /\ ~Jumps' /\ ~Resumes'
    BY <1>1, <1>2, <1>19 DEF Jumps, Resumes
  <2> QED BY <2>1, <2>2, <2>3, <2>4, <2>5 DEF Placed
<1> QED BY <1>15, <1>16, <1>17, <1>18, <1>20, <1>21 DEF RetInv

LEMMA CallInsnKeeps ==
    ASSUME RetInv, NEW way \in Features, CallInsn(way)
    PROVE  RetInv'
<1>1. CASE in_exc /\ way = "plt"
  BY <1>1, CleanupPltKeeps
<1>2. CASE ~(in_exc /\ way = "plt")
  <2>1. /\ CanCall /\ PushAddr /\ sp' = sp + 1 /\ way \in program \cap {"pg", "plt", "pltpg", "plain", "recover"}
        /\ UNCHANGED <<program, pad, jmpbuf, vf, stop, went>> /\ pc = "run" /\ pc' = "run"
        /\ Become(EntryDone([Stacks EXCEPT !.mem = Pushed(mem)], sp + 1, way))
        /\ dead' = (dead \/ (stop /\ way # "plain"))
        /\ in_exc' = (in_exc /\ (way \in {"plt", "plain"} \/ dead'))
    BY DEF CallInsn, CanCall
  <2>2. PICK l \in 1 .. MaxSlots, m \in Memory, h \in Homes :
              /\ l = sp + 1 /\ m = Pushed(mem) /\ h = home' /\ m[l] = h[l] /\ h[l] = ncalls + 1
              /\ \A i \in 1 .. sp : m[i] = mem[i] /\ h[i] = home[i]
              /\ \A i \in 1 .. MaxSlots : h[i] <= ncalls'
    BY <2>1, PushedFacts
  <2>3. Become(EntryDone([rs |-> rs, mem |-> m], l, way))
    BY <2>1, <2>2 DEF Stacks
  <2>4. /\ Settled /\ rs' \in Seq(Rstacks) /\ mem' \in Memory
        /\ dead' \/ \A k \in Nat : k <= sp' => SameBelow(rs, rs', k)
    BY <1>2, <2>1, <2>2, <2>3, CallSettled
  <2>5. in_exc' = FALSE
    <3>1. SUFFICES ASSUME in_exc PROVE ~(way \in {"plt", "plain"} \/ dead')
      BY <2>1
    <3>2. ~stop /\ ~dead /\ "plain" \notin program
      BY <2>1, <3>1, RunFacts
    <3> QED BY <1>2, <2>1, <3>1, <3>2
  <2>6. /\ sp \in 0 .. MaxSlots /\ sp < MaxSlots /\ stop \in BOOLEAN /\ dead \in BOOLEAN
        /\ vf.idx > 0 => ~stop /\ ~dead
    BY <2>1, RunFacts DEF CanCall
  <2>7. dead' \in BOOLEAN /\ (dead => dead') /\ (vf.idx > 0 => ~dead')
    BY <2>1, <2>6
  <2>8. TypeInv'
    <3>1. sp' \in 0 .. MaxSlots /\ sp <= sp' /\ ncalls' = ncalls + 1
      BY <2>1, <2>6, RetAddrAssumption DEF PushAddr
    <3> QED BY <2>1, <2>2, <2>4, <2>5, <2>6, <2>7, <3>1, CallTypes
  <2>9. JmpInv' /\ VforkInv'
    <3>1. Grows
      BY <2>1, <2>2, <2>6 DEF Grows
    <3>2. ncalls' = ncalls + 1
      BY <2>1 DEF PushAddr
    <3> QED BY <2>1, <2>4, <2>7, <3>1, <3>2, BuffersKeep
  <2> QED BY <2>1, <2>4, <2>5, <2>8, <2>9, RunKeeps
<1> QED BY <1>1, <1>2

-----------------------------------------------------------------------------
(* The tail call *)

LEMMA TailCallKeeps ==
    ASSUME RetInv, NEW way \in Features, TailCall(way)
    PROVE  RetInv'
<1>1. /\ pc = "run" /\ pc' = "run" /\ sp > pad /\ (vf.child => sp >= vf.slot) /\ ncalls' = ncalls + 1
      /\ way \in program \cap {"tail", "pltjump"} /\ ~in_exc /\ Become(EntryDone(Stacks, sp, way))
      /\ dead' = (dead \/ stop) /\ jmpbuf' = IF jmpbuf.slot = sp + 1 THEN NoJmpbuf ELSE jmpbuf
      /\ UNCHANGED <<program, sp, home, pc, in_exc, pad, vf, stop, went>>
  BY DEF TailCall
<1>2. /\ rs \in Seq(Rstacks) /\ mem \in Memory /\ home \in Homes /\ sp \in 0 .. MaxSlots /\ sp \in Nat
      /\ pad \in 0 .. sp /\ stop \in BOOLEAN /\ dead \in BOOLEAN /\ FlagsOk(rs) /\ KindsOk(rs)
      /\ (~dead => Good(rs, mem, home, sp)) /\ (dead => stop /\ rs = << >> /\ Unhooked(mem, home, sp))
      /\ (vf.idx > 0 => ~stop /\ ~dead) /\ in_exc \in BOOLEAN
  BY <1>1, RunFacts DEF CleanupCalls
<1>3. sp \in 1 .. MaxSlots /\ in_exc' = FALSE
  BY <1>1, <1>2, RetAddrAssumption
<1>4. PICK n \in 1 .. MaxSlots : n = sp
  BY <1>3
<1>5. PICK s \in StackPairs : s = Stacks
  BY <1>2 DEF Stacks, StackPairs
<1>6. s.rs = rs /\ s.mem = mem
  BY <1>5 DEF Stacks
<1>7. /\ Settled /\ rs' \in Seq(Rstacks) /\ mem' \in Memory
      /\ dead' \/ \A k \in Nat : k <= sp' => SameBelow(rs, rs', k)
  <2>1. CASE dead
    <3>1. rs' = rs /\ mem' = mem /\ dead' = TRUE
      BY <1>1, <1>5, <1>6, <2>1 DEF EntryDone, Become
    <3> QED BY <1>1, <1>2, <2>1, <3>1 DEF Settled
  <2>2. CASE ~dead /\ stop
    <3>1. rs' = << >> /\ mem' = Restore(rs, mem) /\ dead' = TRUE
      BY <1>1, <1>5, <1>6, <2>2 DEF EntryDone, Become, Died
    <3>2. Unhooked(Restore(rs, mem), home, sp) /\ Restore(rs, mem) \in Memory
      BY <1>2, <2>2, RestoreReal, WriteBackType DEF Good
    <3>3. << >> \in Seq(Rstacks)
      OBVIOUS
    <3> QED BY <1>1, <2>2, <3>1, <3>2, <3>3 DEF Settled
  <2>3. CASE ~dead /\ ~stop
    <3>1. PICK t : t = EnterBy(s, n, way)
      OBVIOUS
    <3>2. rs' = t.rs /\ mem' = t.mem /\ dead' = FALSE
      BY <1>1, <1>4, <1>5, <2>3, <3>1 DEF EntryDone, Become
    <3>3. Ready(s.rs, s.mem, home, n) /\ FlagsOk(s.rs) /\ KindsOk(s.rs)
      <4>1. Ready(rs, mem, home, n)
        BY <1>2, <1>4, <2>3, GoodReady
      <4> QED BY <1>2, <1>6, <4>1
    <3>4. way \in program \cap {"pg", "plt", "pltpg", "recover", "tail", "pltjump"} /\ way \in {"tail", "pltjump"}
      BY <1>1
    <3>5. Enters(s, t, home, n)
      BY <1>1, <1>2, <3>1, <3>3, <3>4, EnterByEnters
    <3>6. /\ Good(t.rs, t.mem, home, n) /\ FlagsOk(t.rs) /\ KindsOk(t.rs) /\ t.rs \in Seq(Rstacks)
          /\ t.mem \in Memory /\ \A k \in Nat : k <= n => SameBelow(s.rs, t.rs, k)
      BY <3>5 DEF Enters, StackPairs
    <3> QED BY <1>1, <1>4, <1>6, <3>2, <3>6 DEF Settled
  <2> QED BY <1>2, <2>1, <2>2, <2>3
<1>8. dead' \in BOOLEAN /\ (dead => dead') /\ (vf.idx > 0 => ~dead')
  BY <1>1, <1>2
<1>9. TypeInv'
  <2>1. sp' \in 0 .. MaxSlots /\ sp <= sp' /\ home' \in Homes /\ (jmpbuf' = jmpbuf \/ jmpbuf' = NoJmpbuf)
    BY <1>1, <1>2
  <2>2. \A i \in 1 .. MaxSlots : home'[i] <= ncalls'
    <3>1. ncalls \in Nat /\ \A i \in 1 .. MaxSlots : home[i] <= ncalls /\ home[i] \in Nat
      BY DEF RetInv, TypeInv
    <3> QED BY <1>1, <3>1
  <2> QED BY <1>1, <1>2, <1>3, <1>7, <1>8, <2>1, <2>2, CallTypes
<1>10. JmpInv' /\ VforkInv'
  <2>1. Stays
    BY <1>1 DEF Stays
  <2> QED BY <1>1, <1>7, <1>8, <2>1, BuffersKeep
<1> QED BY <1>1, <1>3, <1>7, <1>9, <1>10, RunKeeps

-----------------------------------------------------------------------------
(* Library calls that play with the stack *)

\* The shadow stack and the slots after the call of a library function
CalledFrom(q, w, e, l, h) ==
    /\ q = Append(rs, e) /\ PltCalled.rs = q /\ PltCalled.mem = w /\ e = Rstack(l, h[l], TRUE)
    /\ Good(q, w, h, l) /\ FlagsOk(q)
    /\ \A k \in Nat : k <= l => SameBelow(rs, q, k)
    /\ Splits(q, Len(rs), l)

LEMMA PltCalledFacts ==
    ASSUME RetInv, CanCall, ~dead, ~stop, ~in_exc,
           NEW l \in 1 .. MaxSlots, NEW m \in Memory, NEW h \in Homes, l = sp + 1, m = Pushed(mem),
           m[l] = h[l], \A i \in 1 .. sp : m[i] = mem[i] /\ h[i] = home[i]
    PROVE  \E q \in Seq(Rstacks), w \in Memory, e \in Rstacks : CalledFrom(q, w, e, l, h)
<1>0. pc = "run" /\ sp < MaxSlots
  BY DEF CanCall
<1>1. /\ rs \in Seq(Rstacks) /\ mem \in Memory /\ home \in Homes /\ sp \in 0 .. MaxSlots /\ sp \in Nat
      /\ Good(rs, mem, home, sp) /\ FlagsOk(rs)
  BY <1>0, RunFacts
<1>2. PICK s \in StackPairs : s = [rs |-> rs, mem |-> m]
  BY <1>1 DEF StackPairs
<1>3. s.rs = rs /\ s.mem = m
  BY <1>2
<1>4. \A j \in 1 .. Len(rs) : rs[j].loc <= sp /\ rs[j].loc \in 1 .. MaxSlots
  BY <1>1, EntryFacts DEF Good, Within
<1>5. Good(rs, m, h, sp)
  <2>1. Truthful(rs, h, sp) /\ Covers(rs, m, h, sp)
    BY <1>1, UpperSlots DEF Good
  <2>2. TopHooked(rs, m)
    <3>1. SUFFICES ASSUME rs # << >> PROVE m[Last(rs).loc] = HookOf(Last(rs))
      BY DEF TopHooked
    <3>2. Len(rs) \in 1 .. Len(rs) /\ Last(rs) = rs[Len(rs)]
      BY <1>1, <3>1, FrontFacts
    <3>3. Last(rs).loc \in 1 .. sp
      BY <1>1, <1>4, <3>2
    <3> QED BY <1>1, <3>1, <3>3 DEF Good, TopHooked
  <2> QED BY <1>1, <2>1, <2>2 DEF Good
<1>6. Ready(rs, m, h, sp + 1)
  BY <1>0, <1>1, <1>5, FreshReady
<1>7. PltCalled = Hijack(s, l, TRUE)
  <2>1. PltCalled = EntryDone([Stacks EXCEPT !.mem = Pushed(mem)], l, "plt")
    BY DEF PltCalled
  <2>2. [Stacks EXCEPT !.mem = Pushed(mem)] = s
    BY <1>2 DEF Stacks
  <2>3. EntryDone(s, l, "plt") = Hijack(s, l, TRUE)
    BY DEF EntryDone, EnterBy
  <2> QED BY <2>1, <2>2, <2>3
<1>8. PICK t \in StackPairs : t = PltCalled
  <2>1. Hijack(s, l, TRUE) \in StackPairs
    <3>1. Ready(s.rs, s.mem, h, l)
      BY <1>3, <1>6
    <3>2. PICK p \in BOOLEAN : p = TRUE
      OBVIOUS
    <3>3. Hijack(s, l, p) \in StackPairs
      BY <3>1, HijackStays
    <3> QED BY <3>2, <3>3
  <2> QED BY <1>7, <2>1
<1>9. PICK e \in Rstacks : e = Rstack(l, h[l], TRUE)
  <2>1. h[l] \in Int
    BY DEF Homes
  <2> QED BY <2>1, RstackType
<1>10. /\ Good(t.rs, t.mem, h, l) /\ t.rs = Append(rs, Rstack(l, m[l], TRUE)) /\ FlagsOk(t.rs)
       /\ \A k \in Nat : k <= l => SameBelow(rs, t.rs, k)
  <2>1. PICK p \in BOOLEAN : p = TRUE
    OBVIOUS
  <2>2. t = Hijack(s, l, p) /\ Ready(s.rs, s.mem, h, l)
    BY <1>3, <1>6, <1>7, <1>8, <2>1
  <2>3. /\ Good(t.rs, t.mem, h, l) /\ t.rs = Append(s.rs, Rstack(l, s.mem[l], p))
        /\ \A k \in Nat : k <= l => SameBelow(s.rs, t.rs, k)
        /\ FlagsOk(s.rs) => FlagsOk(t.rs)
    BY <2>2, HijackKeeps
  <2> QED BY <1>1, <1>3, <2>1, <2>3
<1>11. PICK q \in Seq(Rstacks), w \in Memory : q = t.rs /\ w = t.mem
  BY <1>8 DEF StackPairs
<1>12. q = Append(rs, e)
  BY <1>9, <1>10, <1>11
<1>13. Splits(q, Len(rs), l)
  <2>1. /\ Len(q) = Len(rs) + 1 /\ q[Len(rs) + 1] = e /\ Len(rs) \in Nat
        /\ \A j \in 1 .. Len(rs) : q[j] = rs[j]
    BY <1>1, <1>12, PushFacts
  <2>2. e.loc = l
    BY <1>9 DEF Rstack
  <2>3. \A j \in 1 .. Len(rs) : q[j].loc < l
    BY <1>1, <1>4, <2>1
  <2>4. \A j \in 1 .. Len(q) : j = Len(rs) + 1 \/ j \in 1 .. Len(rs)
    BY <2>1
  <2> QED BY <2>1, <2>2, <2>3, <2>4 DEF Splits
<1>14. CalledFrom(q, w, e, l, h)
  BY <1>8, <1>9, <1>10, <1>11, <1>12, <1>13 DEF CalledFrom
<1> QED BY <1>14

\* The entry of such a call hooks it: the address it goes back to is plthook_return_fn.
LEMMA CalledReturns ==
    ASSUME NEW l \in 1 .. MaxSlots, NEW h \in Homes, NEW q \in Seq(Rstacks), NEW w \in Memory, NEW e \in Rstacks,
           rs \in Seq(Rstacks), CalledFrom(q, w, e, l, h)
    PROVE  w[l] = PRet /\ \A want : Goto(w[l], want) => pc' = "pret" /\ went' = went
<1>1. q = Append(rs, e) /\ e = Rstack(l, h[l], TRUE) /\ TopHooked(q, w)
  BY DEF CalledFrom, Good
<1>2. q # << >> /\ Last(q) = e
  BY <1>1, PushFacts
<1>3. e.loc = l /\ e.plt = TRUE
  BY <1>1 DEF Rstack
<1>4. w[l] = PRet
  BY <1>1, <1>2, <1>3 DEF TopHooked, HookOf
<1>5. PRet \in Hooks /\ PRet # MRet
  BY DEF Hooks, MRet, PRet
<1> QED BY <1>4, <1>5 DEF Goto

\* The return of such a call: what is known but for jmp_buf and vfork()
LEMMA LibraryCallKeeps ==
    ASSUME RetInv, CanCall, PushAddr, ~dead, ~stop, ~in_exc,
           NEW l \in 1 .. MaxSlots, NEW h \in Homes, NEW q \in Seq(Rstacks), NEW w \in Memory, NEW e \in Rstacks,
           l = sp + 1, h = home', CalledFrom(q, w, e, l, h), rs' = q, mem' = w, pc' = "pret",
           UNCHANGED <<program, sp, in_exc, pad, stop, dead, went>>,
           vf' = vf \/ ("vfork" \in program /\ pad = 0), vf'.child \/ vf'.idx = 0, vf'.child => vf'.idx > 0,
           TypeInv', JmpInv', VforkInv', vf.idx = 0
    PROVE  RetInv'
<1>1. /\ pc = "run" /\ sp < MaxSlots /\ rs \in Seq(Rstacks) /\ sp \in 0 .. MaxSlots /\ sp \in Nat /\ KindsOk(rs)
      /\ vf'.idx \in Nat
  <2>1. vf'.idx \in Nat
    BY DEF TypeInv
  <2> QED BY <2>1, RunFacts DEF CanCall, CleanupCalls
<1>2. /\ q # << >> /\ Last(q) = e /\ Front(q) = rs
  <2>1. q = Append(rs, e)
    BY DEF CalledFrom
  <2> QED BY <1>1, <2>1, PushFacts
<1>3. e.loc = l /\ e.plt = TRUE /\ e.flag = "none"
  BY DEF CalledFrom, Rstack
<1>4. ~Jumps' /\ ~Resumes'
  BY <1>1, <1>2, <1>3 DEF Jumps, Resumes
<1>5. LeftSlot' /\ ReturnsToCaller'
  BY <1>1 DEF RetInv, LeftSlot, ReturnsToCaller
<1>6. OnlyIf'
  BY <1>1 DEF RetInv, OnlyIf
<1>7. Kinds'
  <2>1. Base' = rs
    BY <1>2, <1>4 DEF Base
  <2>2. \A j \in 1 .. Len(q) : /\ q[j].flag # "LONGJMP"
                               /\ q[j].flag = "RECOVER" => ~q[j].plt /\ "recover" \in program
    BY DEF CalledFrom, FlagsOk
  <2> QED BY <1>1, <2>1, <2>2 DEF Kinds, KindsOk
<1>8. Placed'
  <2>1. Good(q, w, h, l)
    BY DEF CalledFrom
  <2>2. Covers(q, w, h, sp)
    <3>1. sp \in 0 .. l /\ l \in 0 .. MaxSlots
      BY <1>1, RetAddrAssumption
    <3> QED BY <2>1, <3>1, LowerSlots DEF Good
  <2>3. Leaving(q, w, h, sp)
    BY <1>2, <1>3, <2>1, <2>2 DEF Good, Leaving
  <2> QED BY <1>2, <1>3, <1>4, <2>3 DEF Placed, InCleanup, CleanupCalls
<1> QED BY <1>5, <1>6, <1>7, <1>8 DEF RetInv

LEMMA LibraryTypes ==
    ASSUME RetInv, CanCall, PushAddr, UNCHANGED <<program, in_exc, pad, stop, dead>>, pc' = "pret",
           home' \in Homes, \A i \in 1 .. MaxSlots : home'[i] <= ncalls',
           mem' \in Memory, rs' \in Seq(Rstacks), pad = 0, sp' \in 0 .. MaxSlots, jmpbuf' \in Buffers,
           vf' \in [idx : Nat, top : [loc : 0 .. MaxSlots, ip : Int, plt : BOOLEAN, flag : {"none"}],
                    slot : 0 .. MaxSlots, home : Nat, child : BOOLEAN]
    PROVE  TypeInv'
<1>1. ncalls' \in Nat
  BY DEF RetInv, TypeInv, PushAddr
<1>2. pad' \in 0 .. sp'
  <2>1. sp' \in Nat
    BY RetAddrAssumption
  <2> QED BY <2>1
<1> QED BY <1>1, <1>2 DEF RetInv, TypeInv, Buffers, Homes

LEMMA SetjmpKeeps == ASSUME RetInv, Setjmp PROVE RetInv'
<1>0. ~dead /\ ~stop /\ dead \in BOOLEAN
  BY ProgramFacts DEF Setjmp, RetInv, TypeInv
<1>1. /\ CanCall /\ PushAddr /\ ~dead /\ ~stop /\ ~vf.child /\ pad = 0 /\ ~in_exc /\ Become(PltCalled)
      /\ jmpbuf' = [rs |-> rs', ip |-> mem'[sp + 1], slot |-> sp + 1, home |-> ncalls + 1, owner |-> FrameAt(sp)]
      /\ Goto(mem'[sp + 1], ncalls + 1)
      /\ UNCHANGED <<program, sp, in_exc, pad, vf, stop, dead>> /\ pc = "run" /\ vf' = vf
  BY <1>0 DEF Setjmp, CanCall, Over
<1>2. /\ rs \in Seq(Rstacks) /\ sp \in 0 .. MaxSlots /\ sp \in Nat /\ vf.idx \in Nat /\ vf.idx = 0 /\ home \in Homes
      /\ ncalls \in Nat /\ sp < MaxSlots
  <2>1. vf.idx \in Nat /\ ncalls \in Nat
    BY DEF RetInv, TypeInv
  <2> QED BY <1>1, <2>1, RunFacts DEF CanCall
<1>3. PICK l \in 1 .. MaxSlots, m \in Memory, h \in Homes :
              /\ l = sp + 1 /\ m = Pushed(mem) /\ h = home' /\ m[l] = h[l] /\ h[l] = ncalls + 1
              /\ \A i \in 1 .. sp : m[i] = mem[i] /\ h[i] = home[i]
              /\ \A i \in 1 .. MaxSlots : h[i] <= ncalls'
  BY <1>1, PushedFacts
<1>4. PICK q \in Seq(Rstacks), w \in Memory, e \in Rstacks : CalledFrom(q, w, e, l, h)
  BY <1>1, <1>3, PltCalledFacts
<1>5. rs' = q /\ mem' = w /\ w[l] = PRet /\ pc' = "pret" /\ went' = went
  <2>1. rs' = q /\ mem' = w
    BY <1>1, <1>4 DEF CalledFrom, Become
  <2> QED BY <1>1, <1>2, <1>3, <1>4, <2>1, CalledReturns
<1>6. /\ q # << >> /\ Last(q) = e /\ Front(q) = rs /\ Len(q) = Len(rs) + 1 /\ Len(rs) \in Nat
      /\ \A j \in 1 .. Len(rs) : q[j] = rs[j]
  <2>1. q = Append(rs, e)
    BY <1>4 DEF CalledFrom
  <2> QED BY <1>2, <2>1, PushFacts
<1>7. PICK b \in Buffers : b = jmpbuf'
  <2>1. FrameAt(sp) \in Nat
    BY <1>2, RetAddrAssumption DEF FrameAt, Homes
  <2>2. jmpbuf' = [rs |-> q, ip |-> PRet, slot |-> l, home |-> ncalls + 1, owner |-> FrameAt(sp)]
    BY <1>1, <1>3, <1>5
  <2>3. l \in 0 .. MaxSlots /\ ncalls + 1 \in Nat
    BY <1>2, RetAddrAssumption
  <2> QED BY <2>1, <2>2, <2>3 DEF Buffers
<1>8. b.rs = q /\ b.slot = l /\ b.home = ncalls + 1 /\ b.owner = FrameAt(sp)
  BY <1>1, <1>3, <1>5, <1>7
<1>9. TypeInv'
  <2>1. vf' \in [idx : Nat, top : [loc : 0 .. MaxSlots, ip : Int, plt : BOOLEAN, flag : {"none"}],
                    slot : 0 .. MaxSlots, home : Nat, child : BOOLEAN]
    BY <1>1 DEF RetInv, TypeInv
  <2> QED BY <1>1, <1>2, <1>3, <1>5, <1>7, <2>1, LibraryTypes
<1>10. JmpInv'
  <2>1. b.owner <= ncalls'
    <3>1. FrameAt(sp) <= ncalls
      <4>1. sp # 0 => home[sp] <= ncalls
        BY <1>2 DEF RetInv, TypeInv
      <4> QED BY <1>2, <4>1 DEF FrameAt
    <3>2. FrameAt(sp) \in Int
      BY <1>2 DEF FrameAt, Homes
    <3> QED BY <1>1, <1>2, <1>8, <3>1, <3>2 DEF PushAddr
  <2>2. CopyOf(q, b)
    <3>1. Len(q) - 1 = Len(rs)
      BY <1>6
    <3>2. Splits(q, Len(q) - 1, l)
      BY <1>4, <3>1 DEF CalledFrom
    <3>3. e = Rstack(l, ncalls + 1, TRUE)
      BY <1>3, <1>4 DEF CalledFrom
    <3> QED BY <1>6, <1>8, <3>2, <3>3 DEF CopyOf
  <2> QED BY <1>5, <1>7, <2>1, <2>2 DEF JmpInv
<1>11. VforkInv'
  BY <1>1, <1>2 DEF VforkInv
<1> QED BY <1>1, <1>2, <1>3, <1>4, <1>5, <1>9, <1>10, <1>11, LibraryCallKeeps

LEMMA VforkKeeps == ASSUME RetInv, Vfork PROVE RetInv'
<1>0. ~dead /\ ~stop /\ dead \in BOOLEAN
  BY ProgramFacts DEF Vfork, RetInv, TypeInv
<1>1. /\ CanCall /\ PushAddr /\ ~dead /\ ~stop /\ pad = 0 /\ ~in_exc /\ Become(PltCalled) /\ vf.idx = 0
      /\ vf' = [idx |-> Len(rs'), top |-> Last(rs'), slot |-> sp + 1, home |-> ncalls + 1, child |-> TRUE]
      /\ Goto(mem'[sp + 1], ncalls + 1) /\ "vfork" \in program /\ jmpbuf' = jmpbuf
      /\ UNCHANGED <<program, sp, in_exc, pad, stop, dead>> /\ pc = "run"
  BY <1>0 DEF Vfork, CanCall, Over
<1>2. /\ rs \in Seq(Rstacks) /\ sp \in 0 .. MaxSlots /\ sp \in Nat /\ home \in Homes
      /\ ncalls \in Nat /\ sp < MaxSlots /\ jmpbuf \in Buffers /\ jmpbuf.slot \in 0 .. MaxSlots
  <2>1. jmpbuf \in Buffers /\ ncalls \in Nat
    BY DEF RetInv, TypeInv, Buffers
  <2> QED BY <1>1, <2>1, RunFacts DEF CanCall, Buffers
<1>3. PICK l \in 1 .. MaxSlots, m \in Memory, h \in Homes :
              /\ l = sp + 1 /\ m = Pushed(mem) /\ h = home' /\ m[l] = h[l] /\ h[l] = ncalls + 1
              /\ \A i \in 1 .. sp : m[i] = mem[i] /\ h[i] = home[i]
              /\ \A i \in 1 .. MaxSlots : h[i] <= ncalls'
  BY <1>1, PushedFacts
<1>4. PICK q \in Seq(Rstacks), w \in Memory, e \in Rstacks : CalledFrom(q, w, e, l, h)
  BY <1>1, <1>3, PltCalledFacts
<1>5. rs' = q /\ mem' = w /\ pc' = "pret" /\ went' = went
  <2>1. rs' = q /\ mem' = w
    BY <1>1, <1>4 DEF CalledFrom, Become
  <2> QED BY <1>1, <1>2, <1>3, <1>4, <2>1, CalledReturns
<1>6. /\ q # << >> /\ Last(q) = e /\ Len(q) = Len(rs) + 1 /\ Len(rs) \in Nat
  <2>1. q = Append(rs, e)
    BY <1>4 DEF CalledFrom
  <2> QED BY <1>2, <2>1, PushFacts
<1>7. e = Rstack(l, ncalls + 1, TRUE)
  BY <1>3, <1>4 DEF CalledFrom
<1>8. /\ vf' = [idx |-> Len(q), top |-> e, slot |-> l, home |-> ncalls + 1, child |-> TRUE]
  BY <1>1, <1>3, <1>5, <1>6
<1>9. /\ vf'.idx = Len(rs) + 1 /\ vf'.top = e /\ vf'.slot = l /\ vf'.home = ncalls + 1 /\ vf'.child = TRUE
      /\ vf'.idx - 1 = Len(rs) /\ vf'.idx > 0
  BY <1>6, <1>8
<1>10. vf' \in [idx : Nat, top : [loc : 0 .. MaxSlots, ip : Int, plt : BOOLEAN, flag : {"none"}],
                slot : 0 .. MaxSlots, home : Nat, child : BOOLEAN]
  <2>1. l \in 0 .. MaxSlots /\ ncalls + 1 \in Nat /\ ncalls + 1 \in Int /\ Len(q) \in Nat
    BY <1>2, RetAddrAssumption
  <2>2. e \in [loc : 0 .. MaxSlots, ip : Int, plt : BOOLEAN, flag : {"none"}]
    BY <1>7, <2>1 DEF Rstack
  <2> QED BY <1>8, <2>1, <2>2
<1>11. TypeInv'
  BY <1>1, <1>2, <1>3, <1>5, <1>10, LibraryTypes
<1>12. JmpInv'
  <2>1. Usable' => Usable
    <3>1. SUFFICES ASSUME Usable' PROVE Usable
      OBVIOUS
    <3>2. jmpbuf.slot > 0 /\ jmpbuf.slot <= sp + 1 /\ jmpbuf.owner = FrameAt(jmpbuf.slot - 1)'
      BY <1>1, <3>1 DEF Usable
    <3>3. PICK f \in 0 .. sp : f = jmpbuf.slot - 1
      BY <1>2, <3>2
    <3>4. f # 0 => home'[f] = home[f]
      BY <1>2, <1>3, <3>3
    <3>5. FrameAt(jmpbuf.slot - 1)' = FrameAt(jmpbuf.slot - 1)
      BY <1>1, <3>3, <3>4 DEF FrameAt
    <3> QED BY <3>2, <3>5 DEF Usable
  <2>2. jmpbuf.owner <= ncalls'
    <3>1. jmpbuf.owner <= ncalls /\ jmpbuf.owner \in Nat
      BY <1>2 DEF RetInv, JmpInv, Buffers
    <3> QED BY <1>1, <1>2, <3>1 DEF PushAddr
  <2>3. ASSUME Usable PROVE CopyOf(q, jmpbuf)
    <3>1. CopyOf(rs, jmpbuf)
      BY <1>1, <2>3 DEF RetInv, JmpInv
    <3>2. jmpbuf.slot \in Nat /\ jmpbuf.slot <= l
      BY <1>2, <1>3, <2>3, RetAddrAssumption DEF Usable
    <3>3. SameBelow(rs, q, jmpbuf.slot)
      BY <1>4, <3>2 DEF CalledFrom
    <3> QED BY <1>2, <3>1, <3>3, CopyStays
  <2> QED BY <1>1, <1>5, <2>1, <2>2, <2>3 DEF JmpInv
<1>13. VforkInv'
  <2>1. l > 0 /\ l <= sp' + 1
    BY <1>1, <1>2, <1>3
  <2>2. Splits(q, Len(rs), l)
    BY <1>4 DEF CalledFrom
  <2> QED BY <1>5, <1>7, <1>9, <2>1, <2>2 DEF VforkInv
<1> QED BY <1>1, <1>2, <1>3, <1>4, <1>5, <1>9, <1>11, <1>12, <1>13, LibraryCallKeeps

LEMMA LongjmpKeeps == ASSUME RetInv, Longjmp PROVE RetInv'
<1>0. ~dead /\ ~stop /\ dead \in BOOLEAN /\ jmpbuf.ip = PRet
  BY ProgramFacts DEF Longjmp, RetInv, TypeInv
<1>1. /\ CanCall /\ PushAddr /\ ~dead /\ ~stop /\ ~vf.child /\ pad = 0 /\ ~in_exc /\ pc' = "pret"
      /\ jmpbuf.slot > 0 /\ jmpbuf.slot <= sp + 1 /\ jmpbuf.owner = FrameAt(jmpbuf.slot - 1)
      /\ mem' = PltCalled.mem /\ rs' = [PltCalled.rs EXCEPT ![Len(PltCalled.rs)].flag = "LONGJMP"]
      /\ sp' = jmpbuf.slot - 1 /\ jmpbuf' = jmpbuf /\ vf' = vf
      /\ UNCHANGED <<program, in_exc, pad, stop, dead, went>> /\ pc = "run"
  <2>1. pc' = "pret" /\ went' = went
    BY <1>0 DEF Longjmp, Goto, Hooks, MRet, PRet
  <2> QED BY <1>0, <2>1 DEF Longjmp, CanCall, Over
<1>2. /\ rs \in Seq(Rstacks) /\ sp \in 0 .. MaxSlots /\ sp \in Nat /\ vf.idx \in Nat /\ vf.idx = 0 /\ home \in Homes
      /\ ncalls \in Nat /\ sp < MaxSlots /\ jmpbuf \in Buffers /\ jmpbuf.slot \in 0 .. MaxSlots /\ KindsOk(rs)
  <2>1. jmpbuf \in Buffers /\ ncalls \in Nat /\ vf.idx \in Nat
    BY DEF RetInv, TypeInv, Buffers
  <2> QED BY <1>1, <2>1, RunFacts DEF CanCall, Buffers, CleanupCalls
<1>3. PICK l \in 1 .. MaxSlots, m \in Memory, h \in Homes :
              /\ l = sp + 1 /\ m = Pushed(mem) /\ h = home' /\ m[l] = h[l] /\ h[l] = ncalls + 1
              /\ \A i \in 1 .. sp : m[i] = mem[i] /\ h[i] = home[i]
              /\ \A i \in 1 .. MaxSlots : h[i] <= ncalls'
  BY <1>1, PushedFacts
<1>4. PICK q \in Seq(Rstacks), w \in Memory, e \in Rstacks : CalledFrom(q, w, e, l, h)
  BY <1>1, <1>3, PltCalledFacts
<1>5. /\ q # << >> /\ q[Len(q)] = e /\ Len(q) = Len(rs) + 1 /\ Len(rs) \in Nat
      /\ \A j \in 1 .. Len(rs) : q[j] = rs[j]
  <2>1. q = Append(rs, e)
    BY <1>4 DEF CalledFrom
  <2> QED BY <1>2, <2>1, PushFacts
<1>6. e.loc = l /\ e.plt = TRUE /\ e.flag = "none"
  BY <1>4 DEF CalledFrom, Rstack
<1>7. DEFINE f == [e EXCEPT !.flag = "LONGJMP"]
<1>8. f \in Rstacks /\ f.loc = l /\ f.ip = e.ip /\ f.plt = TRUE /\ f.flag = "LONGJMP"
  BY <1>6 DEF Rstacks
<1>9. rs' = [q EXCEPT ![Len(q)] = f] /\ mem' = w
  BY <1>1, <1>4, <1>5 DEF CalledFrom
<1> HIDE DEF f
<1>10. PICK t \in Seq(Rstacks) : t = rs'
  <2>1. Len(q) \in 1 .. Len(q)
    BY <1>5
  <2>2. [q EXCEPT ![Len(q)] = f] \in Seq(Rstacks)
    BY <1>8, <2>1
  <2> QED BY <1>9, <2>2
<1>11. /\ Len(t) = Len(rs) + 1 /\ t[Len(rs) + 1] = f /\ t # << >>
       /\ \A j \in 1 .. Len(rs) : t[j] = rs[j]
  <2>1. Len(q) \in 1 .. Len(q)
    BY <1>5
  <2>2. Len(t) = Len(q) /\ \A j \in 1 .. Len(q) : t[j] = IF j = Len(q) THEN f ELSE q[j]
    BY <1>9, <1>10, <2>1
  <2>3. Len(t) # 0
    BY <1>5, <2>2
  <2> QED BY <1>5, <2>2, <2>3
<1>12. Last(t) = f /\ Front(t) = rs
  <2>1. /\ Last(t) = t[Len(t)] /\ Front(t) \in Seq(Rstacks) /\ Len(Front(t)) = Len(t) - 1
        /\ \A j \in 1 .. Len(t) - 1 : Front(t)[j] = t[j]
    BY <1>11, FrontFacts
  <2>2. Len(Front(t)) = Len(rs) /\ \A j \in 1 .. Len(rs) : Front(t)[j] = rs[j]
    BY <1>5, <1>11, <2>1
  <2>3. Front(t) = rs
    BY <1>2, <2>1, <2>2, SeqEqual
  <2> QED BY <1>11, <2>1, <2>3
<1>13. PICK n \in 0 .. sp : n = jmpbuf.slot - 1
  BY <1>1, <1>2
<1>14. n \in 0 .. MaxSlots /\ sp' = n /\ n < MaxSlots /\ n \in 0 .. l /\ l \in 0 .. MaxSlots /\ n < l
  BY SMTT(30), <1>1, <1>2, <1>3, <1>13, RetAddrAssumption
<1>15. Covers(t, w, h, n) /\ Truthful(t, h, n)
  <2>1. Good(q, w, h, l)
    BY <1>4 DEF CalledFrom
  <2>2. /\ \A j \in 1 .. Len(q) : q[j].loc = t[j].loc /\ q[j].ip = t[j].ip /\ q[j].plt = t[j].plt
    <3>1. \A j \in 1 .. Len(q) : j = Len(rs) + 1 \/ j \in 1 .. Len(rs)
      BY <1>5
    <3> QED BY <1>5, <1>6, <1>8, <1>11, <3>1
  <2>3. Agree(q, t, Len(t)) /\ Agree(t, q, Len(t)) /\ Len(t) = Len(q)
    BY <1>5, <1>11, <2>2 DEF Agree
  <2>4. Above(q, Len(t), l) /\ Above(t, Len(t), l)
    BY <1>5, <2>3 DEF Above
  <2>5. Covers(t, w, h, l)
    BY <1>14, <2>1, <2>3, <2>4, CoversAgree DEF Good
  <2>6. Sorted(t)
    BY <2>1, <2>3, PrefixKeeps DEF Good, Truthful
  <2>7. Tells(t, h, l)
    BY <1>14, <2>1, <2>3, <2>4, TellsAgree DEF Good, Truthful
  <2>8. Truthful(t, h, l)
    BY <2>6, <2>7 DEF Truthful
  <2> QED BY <1>14, <2>5, <2>8, LowerSlots
<1>16. Usable /\ Usable'
  <2>1. Usable
    BY <1>1 DEF Usable
  <2>2. n # 0 => home'[n] = home[n]
    <3>1. n # 0 => n \in 1 .. sp
      BY <1>2
    <3> QED BY <1>3, <3>1
  <2>3. FrameAt(jmpbuf.slot - 1)' = FrameAt(jmpbuf.slot - 1)
    BY <1>1, <1>13, <2>2 DEF FrameAt
  <2>4. jmpbuf.slot <= sp' + 1
    BY <1>2, <1>13, <1>14
  <2> QED BY <1>1, <2>1, <2>3, <2>4 DEF Usable
<1>17. JmpInv'
  <2>1. jmpbuf.owner <= ncalls'
    <3>1. jmpbuf.owner <= ncalls /\ jmpbuf.owner \in Nat
      BY <1>2 DEF RetInv, JmpInv, Buffers
    <3> QED BY <1>1, <1>2, <3>1 DEF PushAddr
  <2>2. CopyOf(rs, jmpbuf)
    BY <1>1, <1>16 DEF RetInv, JmpInv
  <2>3. SameBelow(rs, t, jmpbuf.slot)
    <3>1. PICK k \in Nat : k = jmpbuf.slot /\ k <= l
      BY <1>2, <1>3, <1>13, <1>14, RetAddrAssumption
    <3>2. PICK c \in Nat : c = Len(rs)
      BY <1>5
    <3>3. c <= Len(rs) /\ c <= Len(t) /\ \A j \in 1 .. c : t[j] = rs[j]
      BY <1>11, <3>2
    <3>4. \A j \in 1 .. Len(rs) : j > c => rs[j].loc >= k
      BY <3>2
    <3>5. \A j \in 1 .. Len(t) : j > c => j = Len(rs) + 1
      BY <1>11, <3>2
    <3>6. \A j \in 1 .. Len(t) : j > c => t[j].loc >= k
      BY <1>8, <1>11, <3>1, <3>5
    <3>7. SameBelow(rs, t, k)
      BY <1>2, <3>3, <3>4, <3>6, SameBelowFacts
    <3> QED BY <3>1, <3>7
  <2>4. CopyOf(t, jmpbuf)
    BY <1>2, <2>2, <2>3, CopyStays
  <2> QED BY <1>1, <1>10, <2>1, <2>4 DEF JmpInv
<1>18. TypeInv'
  <2>1. vf' \in [idx : Nat, top : [loc : 0 .. MaxSlots, ip : Int, plt : BOOLEAN, flag : {"none"}],
                    slot : 0 .. MaxSlots, home : Nat, child : BOOLEAN]
    BY <1>1 DEF RetInv, TypeInv
  <2>2. jmpbuf' \in Buffers /\ sp' \in 0 .. MaxSlots /\ rs' \in Seq(Rstacks) /\ mem' \in Memory
    BY <1>1, <1>2, <1>9, <1>10, <1>14
  <2> QED BY <1>1, <1>3, <2>1, <2>2, LibraryTypes
<1>19. VforkInv' /\ LeftSlot' /\ ReturnsToCaller'
  BY <1>1, <1>2, <1>14 DEF RetInv, VforkInv, LeftSlot, ReturnsToCaller
<1>20. OnlyIf'
  BY <1>1, <1>2 DEF RetInv, OnlyIf
<1>21. Kinds'
  <2>1. Base' = rs
    BY <1>1, <1>2, <1>10, <1>11, <1>12 DEF Base, Resumes
  <2>2. FlagsOk(rs)
    BY <1>1, RunFacts
  <2>3. \A j \in 1 .. Len(t) : j = Len(t) \/ j \in 1 .. Len(rs)
    BY <1>5, <1>11
  <2>4. \A j \in 1 .. Len(t) : t[j].flag = "LONGJMP" => j = Len(t)
    BY <1>11, <2>2, <2>3 DEF FlagsOk
  <2>5. \A j \in 1 .. Len(t) : t[j].flag = "RECOVER" => ~t[j].plt /\ "recover" \in program
    BY <1>8, <1>11, <2>2, <2>3 DEF FlagsOk
  <2> QED BY <1>1, <1>2, <1>10, <2>1, <2>4, <2>5 DEF Kinds, KindsOk
<1>22. Placed'
  <2>1. Jumps' /\ ~Resumes'
    BY <1>1, <1>2, <1>8, <1>10, <1>11, <1>12 DEF Jumps, Resumes
  <2>2. Last(rs').loc > sp'
    BY <1>2, <1>3, <1>8, <1>10, <1>12, <1>14
  <2>3. sp' = jmpbuf'.slot - 1 /\ Covers(rs', mem', home', sp') /\ Truthful(rs', home', sp')
    BY <1>1, <1>3, <1>9, <1>10, <1>14, <1>15
  <2> QED BY <1>1, <1>16, <2>1, <2>2, <2>3 DEF Placed, InCleanup, CleanupCalls
<1> QED BY <1>17, <1>18, <1>19, <1>20, <1>21, <1>22 DEF RetInv

LEMMA DlsymHooked == ASSUME RetInv, DlsymNext, ~Over PROVE RetInv'
<1>0. dead \in BOOLEAN
  BY DEF RetInv, TypeInv
<1>1. /\ CanCall /\ ~dead /\ ~stop /\ ~vf.child /\ ncalls' = ncalls + 1 /\ rs' = rs
      /\ mem' = AutoRehook(PltCalled.rs, [PltCalled.mem EXCEPT ![sp + 1] = Last(PltCalled.rs).ip])
      /\ UNCHANGED <<program, sp, home, pc, in_exc, pad, jmpbuf, vf, stop, dead, went>> /\ pc = "run" /\ pc' = "run"
  BY <1>0 DEF DlsymNext, CanCall, Over
<1>2. /\ rs \in Seq(Rstacks) /\ mem \in Memory /\ sp \in 0 .. MaxSlots /\ sp \in Nat /\ vf.idx \in Nat /\ vf.idx = 0
      /\ home \in Homes /\ ncalls \in Nat /\ sp < MaxSlots /\ in_exc \in BOOLEAN /\ dead \in BOOLEAN
  <2>1. vf.idx \in Nat /\ ncalls \in Nat
    BY DEF RetInv, TypeInv
  <2> QED BY <1>1, <2>1, RunFacts DEF CanCall
<1>3. PICK l \in 1 .. MaxSlots, m \in Memory, h \in Homes :
              /\ l = sp + 1 /\ m = Pushed(mem) /\ h = [home EXCEPT ![sp + 1] = ncalls + 1]
              /\ m[l] = h[l] /\ h[l] = ncalls + 1
              /\ \A i \in 1 .. sp : m[i] = mem[i] /\ h[i] = home[i]
              /\ \A i \in 1 .. MaxSlots : h[i] <= ncalls + 1
  BY <1>1, PushedSlots
<1>4. ASSUME mem' \in Memory PROVE TypeInv' /\ JmpInv' /\ VforkInv'
  <2>1. TypeInv'
    <3>1. \A i \in 1 .. MaxSlots : home'[i] <= ncalls'
      <4>1. \A i \in 1 .. MaxSlots : home[i] <= ncalls /\ home[i] \in Nat
        BY DEF RetInv, TypeInv
      <4> QED BY <1>1, <1>2, <4>1
    <3>2. ncalls' \in Nat
      BY <1>1, <1>2
    <3> QED BY <1>1, <1>4, <3>1, <3>2 DEF RetInv, TypeInv
  <2>2. JmpInv'
    <3>1. Usable' => Usable
      BY <1>1 DEF Usable, FrameAt
    <3>2. jmpbuf.owner <= ncalls /\ jmpbuf.owner \in Nat
      BY DEF RetInv, JmpInv, TypeInv
    <3>3. jmpbuf'.owner <= ncalls'
      BY <1>1, <1>2, <3>2
    <3> QED BY <1>1, <3>1, <3>3 DEF RetInv, JmpInv
  <2>3. VforkInv'
    BY <1>1, <1>2 DEF VforkInv
  <2> QED BY <2>1, <2>2, <2>3
<1>5. CASE ~in_exc
  <2>1. PICK q \in Seq(Rstacks), w \in Memory, e \in Rstacks : CalledFrom(q, w, e, l, h)
    BY <1>1, <1>3, <1>5, PltCalledFacts
  <2>2. q # << >> /\ Last(q) = e /\ Front(q) = rs
    <3>1. q = Append(rs, e)
      BY <2>1 DEF CalledFrom
    <3> QED BY <1>2, <3>1, PushFacts
  <2>3. e.loc = l /\ e.ip = h[l] /\ e.ip \in Int
    <3>1. h[l] \in Int
      BY DEF Homes
    <3> QED BY <2>1, <3>1 DEF CalledFrom, Rstack
  <2>4. PICK x \in Memory : x = [w EXCEPT ![l] = e.ip]
    BY <2>3 DEF Memory
  <2>5. \A i \in 1 .. MaxSlots : i # l => x[i] = w[i]
    BY <2>4 DEF Memory
  <2>6. mem' = AutoRehook(q, x)
    BY <1>1, <1>3, <2>1, <2>2, <2>4 DEF CalledFrom
  <2>7. Leaving(q, x, h, sp)
    <3>1. Good(q, w, h, l) /\ l \in 0 .. MaxSlots /\ sp \in 0 .. l
      <4>1. Good(q, w, h, l)
        BY <2>1 DEF CalledFrom
      <4>2. l \in 0 .. MaxSlots /\ sp \in 0 .. l
        BY <1>2, <1>3, RetAddrAssumption
      <4> QED BY <4>1, <4>2
    <3>2. Covers(q, w, h, sp)
      BY <3>1, LowerSlots DEF Good
    <3>3. \A i \in 1 .. sp : w[i] = x[i]
      BY <1>2, <1>3, <2>5, RetAddrAssumption
    <3>4. Covers(q, x, h, sp)
      BY <1>2, <3>2, <3>3, UpperSlots
    <3> QED BY <1>3, <2>2, <2>3, <3>1, <3>4 DEF Good, Leaving
  <2>8. AutoRehook(q, x) \in Memory /\ Good(rs, AutoRehook(q, x), h, sp)
    <3>1. /\ AutoRehook(q, x) \in Memory
          /\ \/ Good(Front(q), AutoRehook(q, x), h, sp)
             \/ /\ Front(q) # << >> /\ Last(q).ip = HookOf(Last(Front(q)))
      BY <1>2, <1>5, <2>7, LeaveGood
    <3>2. rs # << >> => HookOf(Last(rs)) < 0
      <4>1. SUFFICES ASSUME rs # << >> PROVE HookOf(Last(rs)) < 0
        OBVIOUS
      <4>2. Last(rs) \in Rstacks
        BY <1>2, <4>1, FrontFacts
      <4> QED BY <4>2, HookFacts
    <3>3. e.ip >= 0
      BY <2>3 DEF Homes
    <3>4. rs # << >> => e.ip # HookOf(Last(rs))
      <4>1. SUFFICES ASSUME rs # << >>, e.ip = HookOf(Last(rs)) PROVE FALSE
        OBVIOUS
      <4>2. HookOf(Last(rs)) < 0
        BY <3>2, <4>1
      <4> QED BY <2>3, <3>3, <4>1, <4>2
    <3> QED BY <2>2, <3>1, <3>4
  <2>9. Good(rs, mem', home, sp)
    <3>1. PICK y \in Memory : y = AutoRehook(q, x)
      BY <2>8
    <3>2. \A i \in 1 .. sp : y[i] = y[i] /\ h[i] = home[i]
      BY <1>3
    <3>3. Truthful(rs, home, sp) /\ Covers(rs, y, home, sp)
      BY <1>2, <2>8, <3>1, <3>2, UpperSlots DEF Good
    <3> QED BY <2>6, <2>8, <3>1, <3>3 DEF Good
  <2>10. Settled
    <3>1. FlagsOk(rs) /\ KindsOk(rs) /\ dead' = FALSE
      BY <1>1, <1>2, <1>5, RunFacts DEF CleanupCalls
    <3> QED BY <1>1, <2>9, <3>1 DEF Settled
  <2>11. in_exc' = FALSE
    BY <1>1, <1>2, <1>5
  <2> QED BY <1>1, <1>4, <2>6, <2>8, <2>10, <2>11, RunKeeps
<1>6. CASE in_exc
  <2>1. InCleanup
    <3>1. SUFFICES ASSUME CleanupCalls PROVE FALSE
      BY <1>1, <1>6 DEF CleanupCalls, InCleanup
    <3>2. mem[sp] = PRet /\ sp = pad + 1
      BY <3>1 DEF RetInv, Placed
    <3>3. sp > 0
      BY <1>1, <1>2, <3>2, RunFacts
    <3> QED BY <1>1, <1>6, <3>2, <3>3 DEF CanCall, QuietCleanup
  <2>2. Truthful(rs, home, sp) /\ Unhooked(mem, home, sp)
    BY <1>1, <2>1, RunFacts
  <2>3. PICK e : e = Rstack(l, m[l], TRUE)
    OBVIOUS
  <2>4. e.ip = m[l] /\ m[l] \in Int /\ PRet \in Int
    BY <2>3 DEF Rstack, Memory, PRet
  <2>5. PltCalled.rs = Append(rs, e) /\ PltCalled.mem = [m EXCEPT ![l] = PRet]
    <3>1. PICK s : s = [rs |-> rs, mem |-> m]
      OBVIOUS
    <3>2. [Stacks EXCEPT !.mem = Pushed(mem)] = s
      BY <1>3, <3>1 DEF Stacks
    <3>3. EntryDone(s, l, "plt") = Hijack(s, l, TRUE)
      BY <1>1 DEF EntryDone, EnterBy
    <3>4. PltCalled = Hijack(s, l, TRUE)
      BY <1>3, <3>2, <3>3 DEF PltCalled
    <3>5. AutoRestore(Append(rs, e), [m EXCEPT ![l] = PRet]) = [m EXCEPT ![l] = PRet]
      BY <1>6 DEF AutoRestore, AutoApplies
    <3> QED BY <2>3, <3>1, <3>4, <3>5 DEF Hijack
  <2>6. Last(Append(rs, e)) = e
    <3>1. e \in Rstacks
      BY <2>3, <2>4, RstackType
    <3> QED BY <1>2, <3>1, PushFacts
  <2>7. PICK x \in Memory : x = [[m EXCEPT ![l] = PRet] EXCEPT ![l] = m[l]]
    BY <2>4 DEF Memory
  <2>8. mem' = x
    BY <1>1, <1>3, <1>6, <2>4, <2>5, <2>6, <2>7 DEF AutoRehook, AutoApplies
  <2>9. \A i \in 1 .. sp : mem[i] = x[i]
    <3>1. \A i \in 1 .. MaxSlots : x[i] = m[i]
      BY <2>7 DEF Memory
    <3> QED BY <1>2, <1>3, <3>1, RetAddrAssumption
  <2>10. Unhooked(x, home, sp)
    BY <2>2, <2>9 DEF Unhooked
  <2>11. TypeInv' /\ JmpInv' /\ VforkInv'
    BY <1>4, <2>8
  <2>12. LeftSlot' /\ OnlyIf' /\ ReturnsToCaller'
    BY <1>1 DEF RetInv, LeftSlot, OnlyIf, ReturnsToCaller
  <2>13. Kinds'
    BY <1>1 DEF RetInv, Kinds, Base, Resumes, CleanupCalls
  <2>14. Placed'
    BY <1>1, <1>6, <2>1, <2>2, <2>8, <2>10 DEF Placed, InCleanup, CleanupCalls, Jumps, Resumes
  <2> QED BY <2>11, <2>12, <2>13, <2>14 DEF RetInv
<1> QED BY <1>5, <1>6

\* dlsym() at or after the end of tracing
LEMMA DlsymOff == ASSUME RetInv, DlsymNext, Over PROVE RetInv'
<1>1. /\ CanCall /\ ~vf.child /\ ncalls' = ncalls + 1 /\ Become(PltCalled) /\ dead' = TRUE
      /\ UNCHANGED <<program, sp, home, pc, in_exc, pad, jmpbuf, vf, stop, went>> /\ pc = "run" /\ pc' = "run"
  BY DEF DlsymNext, CanCall, Over, RetInv, TypeInv
<1>2. /\ rs \in Seq(Rstacks) /\ mem \in Memory /\ sp \in 0 .. MaxSlots /\ sp \in Nat /\ vf.idx \in Nat /\ vf.idx = 0
      /\ home \in Homes /\ ncalls \in Nat /\ sp < MaxSlots /\ ~in_exc /\ stop
  <2>1. vf.idx \in Nat /\ ncalls \in Nat
    BY DEF RetInv, TypeInv
  <2>2. stop
    BY <1>1, RunFacts DEF Over
  <2> QED BY <1>1, <2>1, <2>2, RunFacts DEF CanCall
<1>3. PICK l \in 1 .. MaxSlots, m \in Memory, h \in Homes :
              /\ l = sp + 1 /\ m = Pushed(mem) /\ h = [home EXCEPT ![sp + 1] = ncalls + 1]
              /\ m[l] = h[l] /\ h[l] = ncalls + 1
              /\ \A i \in 1 .. sp : m[i] = mem[i] /\ h[i] = home[i]
              /\ \A i \in 1 .. MaxSlots : h[i] <= ncalls + 1
  BY <1>1, PushedSlots
<1>4. PICK s : s = [rs |-> rs, mem |-> m]
  OBVIOUS
<1>5. PltCalled = EntryDone(s, l, "plt") /\ s.rs = rs /\ s.mem = m
  BY <1>3, <1>4 DEF PltCalled, Stacks
<1>6. rs' = << >> /\ mem' \in Memory /\ Unhooked(mem', home, sp)
  <2>1. CASE dead
    <3>1. rs = << >> /\ Unhooked(mem, home, sp)
      BY <1>1, <2>1, RunFacts
    <3>2. rs' = rs /\ mem' = m
      BY <1>1, <1>5, <2>1 DEF EntryDone, Become
    <3> QED BY <1>3, <3>1, <3>2 DEF Unhooked
  <2>2. CASE ~dead
    <3>1. Good(rs, mem, home, sp)
      BY <1>1, <1>2, <2>2, RunFacts
    <3>2. rs' = << >> /\ mem' = Restore(rs, m)
      BY <1>1, <1>2, <1>5, <2>2 DEF EntryDone, Become, Died
    <3>3. Covers(rs, m, home, sp) /\ Truthful(rs, home, sp)
      <4>1. \A i \in 1 .. sp : mem[i] = m[i] /\ home[i] = home[i]
        BY <1>3
      <4> QED BY <1>2, <3>1, <4>1, UpperSlots DEF Good
    <3>4. Unhooked(Restore(rs, m), home, sp) /\ Restore(rs, m) \in Memory
      BY <1>2, <3>3, RestoreReal, WriteBackType
    <3> QED BY <3>2, <3>4
  <2> QED BY <2>1, <2>2
<1>7. Settled
  BY <1>1, <1>2, <1>6 DEF Settled
<1>8. TypeInv' /\ JmpInv' /\ VforkInv'
  <2>1. TypeInv'
    <3>1. \A i \in 1 .. MaxSlots : home'[i] <= ncalls'
      <4>1. \A i \in 1 .. MaxSlots : home[i] <= ncalls /\ home[i] \in Nat
        BY DEF RetInv, TypeInv
      <4> QED BY <1>1, <1>2, <4>1
    <3>2. ncalls' \in Nat /\ << >> \in Seq(Rstacks)
      BY <1>1, <1>2
    <3> QED BY <1>1, <1>6, <3>1, <3>2 DEF RetInv, TypeInv
  <2>2. JmpInv'
    <3>1. jmpbuf.owner <= ncalls /\ jmpbuf.owner \in Nat
      BY DEF RetInv, JmpInv, TypeInv
    <3>2. jmpbuf'.owner <= ncalls'
      BY <1>1, <1>2, <3>1
    <3> QED BY <1>1, <3>2 DEF JmpInv
  <2>3. VforkInv'
    BY <1>1, <1>2 DEF VforkInv
  <2> QED BY <2>1, <2>2, <2>3
<1>9. in_exc' = FALSE
  BY <1>1, <1>2, RunFacts
<1> QED BY <1>1, <1>7, <1>8, <1>9, RunKeeps

LEMMA DlsymNextKeeps == ASSUME RetInv, DlsymNext PROVE RetInv'
  BY DlsymHooked, DlsymOff

-----------------------------------------------------------------------------
(* The invariant holds *)

LEMMA RetInitHolds == ASSUME RetInit PROVE RetInv
<1>1. /\ Supported(program) /\ rs = << >> /\ sp = 0 /\ ncalls = 0 /\ pc = "run" /\ in_exc = FALSE /\ pad = 0
      /\ stop = FALSE /\ dead = FALSE /\ jmpbuf = NoJmpbuf /\ vf = NoVfork
      /\ mem = [i \in 1 .. MaxSlots |-> 0] /\ home = [i \in 1 .. MaxSlots |-> 0]
  BY RetAddrAssumption DEF RetInit
<1>2. 0 \in 0 .. MaxSlots /\ << >> \in Seq(Rstacks) /\ Len(rs) = 0 /\ 0 \in 0 .. sp
  BY <1>1, RetAddrAssumption
<1>3. jmpbuf \in [rs : Seq(Rstacks), ip : {PRet}, slot : 0 .. MaxSlots, home : Nat, owner : Nat]
      /\ jmpbuf.slot = 0 /\ jmpbuf.owner = 0
  BY <1>1, <1>2 DEF NoJmpbuf
<1>4. vf.idx = 0 /\ vf.child = FALSE
      /\ vf \in [idx : Nat, top : [loc : 0 .. MaxSlots, ip : Int, plt : BOOLEAN, flag : {"none"}],
                 slot : 0 .. MaxSlots, home : Nat, child : BOOLEAN]
  <2>1. Rstack(0, 0, TRUE) \in [loc : 0 .. MaxSlots, ip : Int, plt : BOOLEAN, flag : {"none"}]
    BY <1>2 DEF Rstack
  <2> QED BY <1>1, <1>2, <2>1 DEF NoVfork
<1>5. TypeInv
  <2>1. mem \in Memory /\ home \in [1 .. MaxSlots -> Nat] /\ \A i \in 1 .. MaxSlots : home[i] <= ncalls
    BY <1>1 DEF Memory
  <2>2. rs \in Seq(Rstacks) /\ pad \in 0 .. sp /\ sp \in 0 .. MaxSlots /\ ncalls \in Nat
    BY <1>1, <1>2
  <2>3. in_exc \in BOOLEAN /\ stop \in BOOLEAN /\ dead \in BOOLEAN
        /\ pc \in {"run", "mret", "pret", "walk", "unwind", "exiting"}
    BY <1>1
  <2> QED BY <1>1, <1>3, <1>4, <2>1, <2>2, <2>3 DEF TypeInv
<1>6. LeftSlot /\ OnlyIf /\ JmpInv /\ VforkInv
  BY <1>1, <1>3, <1>4 DEF LeftSlot, OnlyIf, JmpInv, Usable, VforkInv
<1>7. Placed
  <2>1. Good(rs, mem, home, sp)
    BY <1>1, <1>2 DEF Good, Truthful, Sorted, Tells, Within, Covers, TopHooked
  <2> QED BY <1>1, <1>4, <2>1 DEF Placed, InCleanup, CleanupCalls, Jumps, Resumes
<1>8. Kinds
  BY <1>1, <1>2 DEF Kinds, Base, CleanupCalls, Resumes, Uniform, NoPlt
<1>9. ReturnsToCaller
  BY DEF RetInit, ReturnsToCaller
<1> QED BY <1>5, <1>6, <1>7, <1>8, <1>9 DEF RetInv

LEMMA RetStutterKeeps == ASSUME RetInv, UNCHANGED retVars PROVE RetInv'
<1>1. TypeInv' /\ LeftSlot' /\ OnlyIf' /\ VforkInv' /\ Kinds' /\ ReturnsToCaller'
  <2>1. TypeInv' /\ LeftSlot' /\ ReturnsToCaller'
    BY DEF RetInv, retVars, TypeInv, LeftSlot, ReturnsToCaller
  <2>2. OnlyIf'
    BY DEF RetInv, retVars, OnlyIf
  <2>3. VforkInv'
    BY DEF RetInv, retVars, VforkInv
  <2>4. Kinds'
    BY DEF RetInv, retVars, Kinds, Base, Resumes, CleanupCalls
  <2> QED BY <2>1, <2>2, <2>3, <2>4
<1>2. JmpInv'
  BY DEF RetInv, retVars, JmpInv, Usable, FrameAt
<1>3. Placed'
  BY ZenonT(60) DEF RetInv, retVars, Placed, InCleanup, CleanupCalls, Jumps, Resumes, Usable, FrameAt
<1> QED BY <1>1, <1>2, <1>3 DEF RetInv

LEMMA RetStepKeeps == ASSUME RetInv, [RetNext]_retVars PROVE RetInv'
<1>1. ASSUME NEW way \in Features, CallInsn(way) PROVE RetInv'
  BY <1>1, CallInsnKeeps
<1>2. ASSUME NEW way \in Features, TailCall(way) PROVE RetInv'
  BY <1>2, TailCallKeeps
<1>3. CASE RetInsn
  BY <1>3, RetInsnKeeps
<1>4. CASE McountExit
  BY <1>4, McountExitKeeps
<1>5. CASE PltExit
  BY <1>5, PltExitKeeps
<1>6. CASE Setjmp
  BY <1>6, SetjmpKeeps
<1>7. CASE Longjmp
  BY <1>7, LongjmpKeeps
<1>8. CASE Vfork
  BY <1>8, VforkKeeps
<1>9. CASE VforkChildDone
  BY <1>9, VforkChildDoneKeeps
<1>10. CASE DlsymNext
  BY <1>10, DlsymNextKeeps
<1>11. CASE BacktraceBegin
  BY <1>11, BacktraceBeginKeeps
<1>12. CASE BacktraceEnd
  BY <1>12, BacktraceEndKeeps
<1>13. CASE Throw
  BY <1>13, ThrowKeeps
<1>14. CASE Finish
  BY <1>14, FinishKeeps
<1>15. CASE PthreadExit
  BY <1>15, PthreadExitKeeps
<1>16. ASSUME NEW k \in 1 .. MaxSlots, LandInCleanup(k) PROVE RetInv'
  BY <1>16, LandKeeps
<1>17. ASSUME NEW k \in 1 .. MaxSlots, Catch(k) PROVE RetInv'
  BY <1>17, CatchKeeps
<1>18. CASE UNCHANGED retVars
  BY <1>18, RetStutterKeeps
<1> QED BY <1>1, <1>2, <1>3, <1>4, <1>5, <1>6, <1>7, <1>8, <1>9, <1>10, <1>11, <1>12, <1>13, <1>14,
           <1>15, <1>16, <1>17, <1>18 DEF RetNext

-----------------------------------------------------------------------------
(* What the invariant says of the stack *)

LEMMA HonestHolds == ASSUME RetInv PROVE StackIsHonest
<1>1. /\ rs \in Seq(Rstacks) /\ mem \in Memory /\ home \in Homes /\ sp \in 0 .. MaxSlots /\ sp \in Nat
      /\ DOMAIN rs = 1 .. Len(rs) /\ Len(rs) \in Nat /\ pad \in 0 .. sp
  BY RetAddrAssumption DEF RetInv, TypeInv, Homes
<1>2. rs \in Seq(Rstacks) /\ Len(rs) \in Nat
  BY <1>1
<1>3. \A i \in 1 .. sp : mem[i] \in Hooks => mem[i] # home[i]
  BY <1>1, RetAddrAssumption DEF Homes, Hooks, MRet, PRet
<1>4. NeverAborted
  BY DEF RetInv, TypeInv, NeverAborted
<1>5. UnwinderSeesTruth
  BY DEF RetInv, Placed, Unhooked, UnwinderSeesTruth
<1>6. DeadLeavesNoHook
  BY DEF RetInv, Placed, Unhooked, DeadLeavesNoHook
<1>7. TrampolineMatches
  <2>1. SUFFICES ASSUME pc = "run", NEW i \in 1 .. sp, mem[i] \in Hooks
                 PROVE  \E j \in 1 .. Len(rs) : /\ rs[j].loc = i /\ HookOf(rs[j]) = mem[i]
                                                /\ \A k \in 1 .. Len(rs) : k > j => rs[k].loc # i
    BY <1>1 DEF TrampolineMatches
  <2>2. mem[i] # home[i]
    BY <1>3, <2>1
  <2>3. ~dead /\ ~InCleanup
    BY <2>1, <2>2 DEF RetInv, Placed, Unhooked
  <2>4. CASE ~in_exc
    <3>1. Good(rs, mem, home, sp)
      BY <2>1, <2>3, <2>4 DEF RetInv, Placed
    <3>2. PICK j \in 1 .. Len(rs) : rs[j].loc = i /\ Newest(rs, j) /\ mem[i] = HookOf(rs[j])
      BY <2>2, <3>1 DEF Good, Covers
    <3>3. ASSUME NEW k \in 1 .. Len(rs), k > j PROVE rs[k].loc # i
      <4>1. j + 1 \in 1 .. Len(rs) /\ j + 1 <= k /\ j <= j + 1
        BY <1>1, <3>3
      <4>2. rs[j].loc <= rs[j + 1].loc /\ rs[j + 1].loc <= rs[k].loc
        BY <3>1, <4>1 DEF Good, Truthful, Sorted
      <4>3. rs[j + 1].loc # rs[j].loc
        <5>1. j # Len(rs)
          BY <1>2, <3>3
        <5> QED BY <3>2, <5>1 DEF Newest
      <4>4. rs[j].loc \in Int /\ rs[j + 1].loc \in Int /\ rs[k].loc \in Int
        BY <1>1, <4>1, EntryFacts
      <4> QED BY <3>2, <4>2, <4>3, <4>4
    <3> QED BY <3>2, <3>3
  <2>5. CASE in_exc
    <3>1. CleanupCalls
      BY <2>1, <2>3, <2>5 DEF CleanupCalls, InCleanup
    <3>2. /\ sp = pad + 1 /\ rs # << >> /\ Last(rs) = Rstack(sp, home[sp], TRUE)
          /\ Unhooked(mem, home, pad) /\ mem[sp] = PRet
      BY <3>1 DEF RetInv, Placed
    <3>3. i = sp
      <4>1. ~(i \in 1 .. pad)
        BY <2>2, <3>2 DEF Unhooked
      <4> QED BY <1>1, <3>2, <4>1
    <3>4. Len(rs) \in 1 .. Len(rs) /\ rs[Len(rs)] = Rstack(sp, home[sp], TRUE)
      <4>1. rs # << >>
        BY <3>2
      <4>2. Len(rs) \in Nat \ {0} /\ Last(rs) = rs[Len(rs)]
        BY <1>2, <4>1, FrontFacts
      <4>3. Last(rs) = Rstack(sp, home[sp], TRUE)
        BY <3>2
      <4>4. Len(rs) \in 1 .. Len(rs)
        BY <4>2
      <4> QED BY <4>2, <4>3, <4>4
    <3>5. rs[Len(rs)].loc = i /\ HookOf(rs[Len(rs)]) = mem[i]
      BY <3>2, <3>3, <3>4 DEF Rstack, HookOf
    <3>6. \A k \in 1 .. Len(rs) : ~(k > Len(rs))
      BY <1>1
    <3> QED BY <3>4, <3>5, <3>6
  <2> QED BY <2>4, <2>5
<1>8. ShadowFollowsStack
  <2>1. SUFFICES ASSUME pc = "run", rs # << >>, ~in_exc
                 PROVE  /\ mem[Last(rs).loc] \in Hooks
                        /\ \A j \in 1 .. Len(rs) : rs[j].loc <= sp /\ (j > 1 => rs[j - 1].loc <= rs[j].loc)
    BY <1>1 DEF ShadowFollowsStack
  <2>2. Good(rs, mem, home, sp)
    BY <2>1 DEF RetInv, Placed
  <2>3. mem[Last(rs).loc] \in Hooks
    BY <2>1, <2>2 DEF Good, TopHooked, HookOf, Hooks
  <2>4. \A j \in 1 .. Len(rs) : j > 1 => j - 1 \in 1 .. Len(rs) /\ j - 1 <= j
    OBVIOUS
  <2> QED BY <2>2, <2>3, <2>4 DEF Good, Within, Truthful, Sorted
<1> QED BY <1>4, <1>5, <1>6, <1>7, <1>8 DEF StackIsHonest

\* For every depth of the stack, every number of calls and every supported program the shadow
\* stack, the slots, setjmp()'s copy and vfork()'s statics stay in agreement.
THEOREM RetInvariant == RetSpec => []RetInv
<1>1. RetInit => RetInv
  BY RetInitHolds
<1>2. RetInv /\ [RetNext]_retVars => RetInv'
  BY RetStepKeeps
<1> QED BY <1>1, <1>2, PTL DEF RetSpec

\* Every function returns to the place it was called from: whatever __mcount_entry(),
\* __plthook_exit(), mcount_rstack_restore() and mcount_rstack_rehook() did to its slot.
THEOREM EveryCallReturns == RetSpec => []ReturnsToCaller
<1>1. RetInv => ReturnsToCaller
  BY DEF RetInv
<1> QED BY <1>1, RetInvariant, PTL

\* Whoever walks the stack sees no hook, each hook is the one its newest entry needs, no entry
\* outlives its frame, no hook outlives the thread, and no exit ends the program.
THEOREM HonestStack == RetSpec => []StackIsHonest
<1>1. RetInv => StackIsHonest
  BY HonestHolds
<1> QED BY <1>1, RetInvariant, PTL

=============================================================================
