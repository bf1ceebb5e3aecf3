-------------------------------- MODULE PltGot ---------------------------------
(***************************************************************************)
(* Library calls through the PLT (libmcount/plthook.c): the GOT entry of a *)
(* function leads to plt_hooker until the dynamic linker resolves it, and  *)
(* uftrace puts the first value back when the call returns, so that the    *)
(* next call is traced too.  The threads of the program share the table.   *)
(*                                                                         *)
(* Kinds of functions: "usual", "resolve" (resolve_syms: exec and the      *)
(* like), "skip" (skip_syms), "mcount" (plt_skip_syms and cygprof, which   *)
(* are libmcount's own).  Left out: the mold linker, the return address    *)
(* and the shadow stack (RetAddr), one module instead of several.          *)
(***************************************************************************)
EXTENDS Naturals, FiniteSets

CONSTANTS
    Threads, LibFuncs,
    Kind(_)         \* the kind of a function

\* What a GOT entry points to
Plt == "plt"            \* the PLT, which goes on to GOT[2]
Real == "real"          \* the function itself
Ours == "own"            \* the function of libmcount
Nowhere == "nowhere"

Off == [at |-> "out", f |-> "none", hooked |-> FALSE, to |-> Nowhere]

VARIABLES
    mode,       \* [bind ("lazy", "now", "noplt"), bindnot (LD_BIND_NOT), estimate]
    got,        \* the GOT entries of the functions
    resolver,   \* GOT[2]
    resolved,   \* resolved_addr[]
    thr,        \* the threads: [at, f, hooked, to]
    lock,       \* the owner of resolver_mutex
    wrong,      \* a call went somewhere else
    bailed,     \* functions with calls that were not hooked
    raced       \* functions whose first calls overlapped

pltVars == <<mode, got, resolver, resolved, thr, lock, wrong, bailed, raced>>

-----------------------------------------------------------------------------
(* mcount_setup_plthook(), before main() *)

\* restore_plt_functions(): entries which are resolved already lead to the PLT again.
RestoreFunction(f) ==
    CASE Kind(f) = "mcount" -> [got |-> Ours, resolved |-> Nowhere]
      [] Kind(f) # "mcount" /\ got[f] # Plt -> [got |-> Plt, resolved |-> got[f]]
      [] Kind(f) # "mcount" /\ got[f] = Plt /\ mode.estimate -> [got |-> Plt, resolved |-> Real]
      [] OTHER -> [got |-> Plt, resolved |-> Nowhere]

\* mcount_arch_hook_no_plt(): the entries lead to a trampoline, which does what the PLT does.
HookNoPlt(f) ==
    IF Kind(f) = "mcount" THEN [got |-> got[f], resolved |-> Nowhere] ELSE [got |-> Plt, resolved |-> got[f]]

\* find_got()
Setup ==
    LET new == [f \in LibFuncs |-> IF mode.bind = "noplt" THEN HookNoPlt(f) ELSE RestoreFunction(f)]
    IN /\ resolver = "ld"
       /\ got' = [f \in LibFuncs |-> new[f].got]
       /\ resolved' = [f \in LibFuncs |-> new[f].resolved]
       /\ resolver' = "hooker"
       /\ UNCHANGED <<mode, thr, lock, wrong, bailed, raced>>

-----------------------------------------------------------------------------
(* A call *)

First(f) == resolved[f] = Nowhere
Inside(f) == {t \in Threads : thr[t].at # "out" /\ thr[t].f = f}

\* The caller jumps to where the GOT entry points.
PltCall(t, f) ==
    /\ resolver = "hooker" /\ thr[t] = Off
    /\ raced' = IF First(f) /\ Inside(f) # {} THEN raced \cup {f} ELSE raced
    /\ thr' = [thr EXCEPT ![t] = [at |-> IF got[f] = Plt THEN "hooker" ELSE "in", f |-> f, hooked |-> FALSE,
                                  to |-> got[f]]]
    /\ wrong' = (wrong \/ got[f] \notin {Plt, IF Kind(f) = "mcount" /\ mode.bind # "noplt" THEN Ours ELSE Real})
    /\ UNCHANGED <<mode, got, resolver, resolved, lock, bailed>>

\* plthook_entry(): `bail' when there is no room in the shadow stack, when libmcount itself makes
\* the call, or when tracing has stopped.  Functions that do not return are resolved now.
Entry(t, bail) ==
    LET f == thr[t].f
        hook == ~bail /\ Kind(f) # "skip" /\ ~mode.estimate
        now == IF hook /\ Kind(f) = "resolve" /\ First(f) THEN [resolved EXCEPT ![f] = Real] ELSE resolved
    IN /\ thr[t].at = "hooker"
       /\ resolved' = now
       /\ thr' = [thr EXCEPT ![t] = [at |-> IF now[f] = Nowhere THEN "linker" ELSE "in", f |-> f, hooked |-> hook,
                                     to |-> IF now[f] = Nowhere THEN thr[t].to ELSE now[f]]]
       /\ wrong' = (wrong \/ now[f] \notin {Nowhere, Real})
       /\ bailed' = IF hook THEN bailed ELSE bailed \cup {f}
       /\ UNCHANGED <<mode, got, resolver, lock, raced>>

\* _dl_runtime_resolve(), which plt_hooker jumps to: the entry is set to the function.
LinkerResolves(t) ==
    LET f == thr[t].f
    IN /\ thr[t].at = "linker"
       /\ got' = IF mode.bindnot THEN got ELSE [got EXCEPT ![f] = Real]
       /\ thr' = [thr EXCEPT ![t].at = "in", ![t].to = Real]
       /\ UNCHANGED <<mode, resolver, resolved, lock, wrong, bailed, raced>>

\* The function returns; __plthook_exit() calls update_pltgot(), which looks at resolved_addr first.
PltReturn(t) ==
    /\ thr[t].at = "in"
    /\ thr' = [thr EXCEPT ![t] = IF thr[t].hooked /\ ~mode.bindnot /\ First(thr[t].f) THEN [@ EXCEPT !.at = "update"] ELSE Off]
    /\ UNCHANGED <<mode, got, resolver, resolved, lock, wrong, bailed, raced>>

TakeLock(t) ==
    /\ thr[t].at = "update" /\ lock = {}
    /\ lock' = {t}
    /\ thr' = [thr EXCEPT ![t].at = "check"]
    /\ UNCHANGED <<mode, got, resolver, resolved, wrong, bailed, raced>>

\* Mutant: what is in the entry is saved again without a second look.
CheckAgainNot(t) ==
    /\ thr[t].at = "check"
    /\ resolved' = [resolved EXCEPT ![thr[t].f] = got[thr[t].f]]
    /\ thr' = [thr EXCEPT ![t].at = "restore"]
    /\ UNCHANGED <<mode, got, resolver, lock, wrong, bailed, raced>>

\* update_pltgot() with the lock, and setup_pltgot(): the address is saved, ...
CheckAgain(t) ==
    /\ thr[t].at = "check"
    /\ IF First(thr[t].f)
       THEN /\ resolved' = [resolved EXCEPT ![thr[t].f] = got[thr[t].f]]
            /\ thr' = [thr EXCEPT ![t].at = "restore"]
       ELSE /\ thr' = [thr EXCEPT ![t].at = "unlock"] /\ UNCHANGED resolved
    /\ UNCHANGED <<mode, got, resolver, lock, wrong, bailed, raced>>

\* Mutant: the entry stays as the linker has left it.
RestorePltNot(t) ==
    /\ thr[t].at = "restore"
    /\ thr' = [thr EXCEPT ![t].at = "unlock"]
    /\ UNCHANGED <<mode, got, resolver, resolved, lock, wrong, bailed, raced>>

\* ... and the entry leads to the PLT again.
RestorePlt(t) ==
    /\ thr[t].at = "restore"
    /\ got' = [got EXCEPT ![thr[t].f] = Plt]
    /\ thr' = [thr EXCEPT ![t].at = "unlock"]
    /\ UNCHANGED <<mode, resolver, resolved, lock, wrong, bailed, raced>>

Unlock(t) ==
    /\ thr[t].at = "unlock"
    /\ lock' = {}
    /\ thr' = [thr EXCEPT ![t] = Off]
    /\ UNCHANGED <<mode, got, resolver, resolved, wrong, bailed, raced>>

-----------------------------------------------------------------------------

PltInit ==
    /\ mode \in [bind : {"lazy", "now", "noplt"}, bindnot : BOOLEAN, estimate : BOOLEAN]
    /\ got = [f \in LibFuncs |-> IF mode.bind = "lazy" THEN Plt ELSE Real]
    /\ resolver = "ld"
    /\ resolved = [f \in LibFuncs |-> Nowhere]
    /\ thr = [t \in Threads |-> Off]
    /\ lock = {} /\ wrong = FALSE /\ bailed = {} /\ raced = {}

PltNext ==
    \/ Setup
    \/ \E t \in Threads :
         \/ \E f \in LibFuncs : PltCall(t, f)
         \/ \E bail \in BOOLEAN : Entry(t, bail)
         \/ LinkerResolves(t) \/ PltReturn(t) \/ TakeLock(t) \/ CheckAgain(t) \/ RestorePlt(t) \/ Unlock(t)

PltSpec == PltInit /\ [][PltNext]_pltVars

-----------------------------------------------------------------------------
(* Properties *)

\* Every call reaches the function that was called: an address that is saved is the one of the
\* function, also when threads resolve the same function at the same time, and calls of mcount
\* itself never go through plt_hooker (except for programs without a PLT).
CallsReachTarget ==
    /\ ~wrong
    /\ \A f \in LibFuncs : resolved[f] \in {Nowhere, Real}
    /\ \A t \in Threads : thr[t].at = "hooker" => Kind(thr[t].f) # "mcount"

\* A function whose calls have all returned leads to plt_hooker again, and so is traced the next
\* time (the comments at mcount_plthook_addr() and in __plthook_exit()), unless its first calls
\* overlapped.
HookStays ==
    resolver = "hooker" =>
        \A f \in LibFuncs \ (bailed \cup raced) : Kind(f) \in {"usual", "resolve"} /\ Inside(f) = {} => got[f] = Plt

\* What the comment in __plthook_exit() says: the entry is restored "so that it can go to
\* plt_hooker again".  It does not hold: the linker may resolve the function for a second thread
\* after the first one has restored the entry, and then resolved_addr is set.
HookAlwaysStays ==
    resolver = "hooker" =>
        \A f \in LibFuncs \ bailed : Kind(f) \in {"usual", "resolve"} /\ Inside(f) = {} => got[f] = Plt

\* Library calls get where they should, and by way of plt_hooker again the next time, also
\* when threads resolve a function at the same time (update_pltgot(), __plthook_exit()).
PltCallsTraced == CallsReachTarget /\ HookStays

=============================================================================
