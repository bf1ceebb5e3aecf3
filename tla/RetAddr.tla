-------------------------------- MODULE RetAddr --------------------------------
(***************************************************************************)
(* How libmcount hijacks the return addresses of a traced thread and gives *)
(* them back (x86_64: mcount_auto_recover, ARCH_CAN_RESTORE_PLTHOOK).       *)
(*                                                                         *)
(* The machine stack is a row of return slots, mem[1..sp].  A call pushes  *)
(* a return address; every call from one frame uses the same slot.  Code   *)
(* that returns to mcount_return_fn (MRet) or plthook_return_fn (PRet)    *)
(* runs __mcount_exit() or __plthook_exit(), which look up the real        *)
(* address on the shadow stack, rs.  The program calls, tail-calls and     *)
(* returns, calls library functions through the PLT, throws and catches,   *)
(* uses setjmp and longjmp, vfork, backtrace() and dlsym(RTLD_NEXT).       *)
(*                                                                         *)
(* Left out: filters and records (module Mcount), frames of                *)
(* -finstrument-functions, which have no slot, __cxa_guard_abort(), and    *)
(* code without frame pointers, where the unwound frames are guessed.      *)
(***************************************************************************)
EXTENDS Integers, Sequences, FiniteSets, SequencesExt

CONSTANTS
    Programs,   \* sets of things the traced program may do
    MaxSlots,   \* bound: depth of the machine stack
    MaxNcalls   \* bound: calls made

Features == {"pg", "plt", "pltpg", "plain", "tail", "pltjump", "recover", "throw", "backtrace",
             "jmp", "vfork", "dlsym", "finish", "thread_exit"}

\* Programs in which all slots are hooked again after a walk, and those in which a PLT call
\* and a traced function may share a slot
Walks(P) == P \cap {"recover", "throw", "backtrace"} # {}
Mixes(P) == "pltpg" \in P \/ "pltjump" \in P \/ {"plt", "tail"} \subseteq P

\* The programs whose stack libmcount keeps right.  mcount_rstack_rehook() hooks a shared slot
\* for its oldest entry; the child of vfork() that notices the end of tracing frees the parent's
\* shadow stack; a jmp_buf filled before the end of tracing leads back to the hook of a thread
\* that is dead, which ends the program; and while an exception is handled, the entries of frames
\* that are gone are still there when tracing ends or untraced functions run between traced ones.
Supported(P) ==
    /\ P \subseteq Features
    /\ Walks(P) => ~Mixes(P)
    /\ "finish" \in P => {"vfork", "throw", "jmp"} \cap P = {}
    /\ "throw" \in P => "plain" \notin P

ASSUME RetAddrAssumption ==
    /\ MaxSlots \in Nat /\ MaxNcalls \in Nat
    /\ \A P \in Programs : Supported(P)

VARIABLES
    program,    \* what this program does
    mem,        \* the value of each slot
    sp,         \* slots in use
    home,       \* history: the address the call instruction pushed into each slot
    ncalls,     \* calls made, which also names return addresses
    rs,         \* mtd.rstack[0..idx-1]
    pc,         \* "run", a hook being executed, or what the runtime is doing
    in_exc,     \* mtd.in_exception
    pad,        \* slot of the frame whose cleanup code runs, or 0
    jmpbuf,     \* the one jmp_buf: the address it returns to, and libmcount's copy of the shadow stack
    vf,         \* the statics of prepare_vfork(), and which process runs
    stop,       \* mcount_should_stop()
    dead,       \* mtd.dead
    went        \* history: the last return, where it went and where it should have

retVars == <<program, mem, sp, home, ncalls, rs, pc, in_exc, pad, jmpbuf, vf, stop, dead, went>>
progVars == <<program, home, ncalls, in_exc, pad, jmpbuf, vf, stop>>

\* mcount_return_fn and plthook_return_fn; other addresses are natural numbers
MRet == -1
PRet == -2
Hooks == {MRet, PRet}
HookOf(e) == IF e.plt THEN PRet ELSE MRet
Rstack(loc, ip, plt) == [loc |-> loc, ip |-> ip, plt |-> plt, flag |-> "none"]
NoJmpbuf == [rs |-> << >>, ip |-> PRet, slot |-> 0, home |-> 0, owner |-> 0]

\* The frame that runs on top of slot i, named by its return address
FrameAt(i) == IF i = 0 THEN 0 ELSE home[i]
NoVfork == [idx |-> 0, top |-> Rstack(0, 0, TRUE), slot |-> 0, home |-> 0, child |-> FALSE]

RetInit ==
    /\ program \in Programs
    /\ mem = [i \in 1..MaxSlots |-> 0] /\ home = [i \in 1..MaxSlots |-> 0]
    /\ sp = 0 /\ ncalls = 0 /\ rs = << >> /\ pc = "run" /\ in_exc = FALSE /\ pad = 0
    /\ jmpbuf = NoJmpbuf /\ vf = NoVfork /\ stop = FALSE /\ dead = FALSE
    /\ went = [to |-> 0, want |-> 0]

-----------------------------------------------------------------------------
(* libmcount/misc.c *)

\* Mutant: the newest entry of a slot decides, which may hold a hook.
RestoreNewest(r, m) ==
    [i \in DOMAIN m |->
        LET js == {j \in DOMAIN r : r[j].loc = i}
        IN IF js = {} THEN m[i] ELSE r[CHOOSE j \in js : \A k \in js : k <= j].ip]

\* mcount_rstack_restore(): of the entries of a slot the oldest one is written last.
Restore(r, m) ==
    [i \in DOMAIN m |->
        LET js == {j \in DOMAIN r : r[j].loc = i /\ r[j].ip \notin Hooks}
        IN IF js = {} THEN m[i] ELSE r[CHOOSE j \in js : \A k \in js : j <= k].ip]

\* mcount_rstack_rehook(), in the same order
Rehook(r, m) ==
    [i \in DOMAIN m |->
        LET js == {j \in DOMAIN r : r[j].loc = i}
        IN IF js = {} THEN m[i] ELSE HookOf(r[CHOOSE j \in js : \A k \in js : j <= k])]

\* auto recovery needs a parent in another slot
AutoApplies(r) ==
    Len(r) >= 2 /\ ~in_exc /\ r[Len(r)].loc # r[Len(r) - 1].loc

\* mcount_auto_restore(): the parent's address is put back while the child runs.
AutoRestore(r, m) ==
    LET real == {j \in 1 .. Len(r) - 1 : r[j].ip \notin Hooks}
    IN IF ~AutoApplies(r) \/ real = {} THEN m
       ELSE LET e == r[CHOOSE j \in real : \A k \in real : k <= j] IN [m EXCEPT ![e.loc] = e.ip]

\* Mutant: a parent that is a PLT call gets the other hook.
AutoRehookMcount(r, m) ==
    IF ~AutoApplies(r) THEN m ELSE [m EXCEPT ![r[Len(r) - 1].loc] = MRet]

\* mcount_auto_rehook()
AutoRehook(r, m) ==
    IF ~AutoApplies(r) THEN m
    ELSE LET e == r[Len(r) - 1] IN [m EXCEPT ![e.loc] = HookOf(e)]

\* Mutant: the entries of unwound frames stay.
UnwoundKept(r, m, k) == [rs |-> r, mem |-> Rehook(r, m)]

\* mcount_rstack_rehook_exception(): drop the entries of frames that were unwound, down
\* to the frame whose slot is k; the oldest entry of that slot takes its address from it.
RehookException(r, m, k) ==
    LET live == {j \in DOMAIN r : r[j].loc <= k}
        n == IF live = {} THEN 0 ELSE CHOOSE j \in live : \A i \in live : i <= j
        same == {j \in 1..n : \A i \in j..n : r[i].loc = r[n].loc}
        kept == IF n = 0 THEN << >>
                ELSE [SubSeq(r, 1, n) EXCEPT ![CHOOSE j \in same : \A i \in same : j <= i].ip = m[r[n].loc]]
    IN [rs |-> kept, mem |-> Rehook(kept, m)]

-----------------------------------------------------------------------------
(* Entry *)

\* The entry is ncalls and the slot hijacked.
Hijack(s, loc, plt) ==
    LET r == Append(s.rs, Rstack(loc, s.mem[loc], plt))
    IN [rs |-> r, mem |-> AutoRestore(r, [s.mem EXCEPT ![loc] = IF plt THEN PRet ELSE MRet])]

\* __mcount_entry() of a function whose slot is loc: the first one after a throw
\* tells how far the stack was unwound.
McountEntry(s, loc) ==
    Hijack(IF in_exc THEN RehookException(s.rs, s.mem, loc - 1) ELSE s, loc, FALSE)

\* The `recover' trigger of mcount_entry_filter_record()
Recovered(s, loc) ==
    [rs |-> [s.rs EXCEPT ![Len(s.rs)].flag = "RECOVER"],
     mem |-> [Restore(s.rs, s.mem) EXCEPT ![loc] = MRet]]

\* What the entry of a function called in a given way does.
EnterBy(s, loc, way) ==
    CASE way \in {"pg", "tail"} -> McountEntry(s, loc)
      [] way \in {"plt", "pltjump"} -> Hijack(s, loc, TRUE)
      [] way = "pltpg" -> McountEntry(Hijack(s, loc, TRUE), loc)
      [] way = "recover" -> Recovered(McountEntry(s, loc), loc)
      [] OTHER -> s

Stacks == [rs |-> rs, mem |-> mem]

\* Mutant: the hooks stay behind.
DiedHooked(s) == [rs |-> << >>, mem |-> s.mem]

\* mtd_dtor()
Died(s) == [rs |-> << >>, mem |-> Restore(s.rs, s.mem)]

EntryDone(s, loc, way) ==
    IF dead \/ way = "plain" THEN s ELSE IF stop THEN Died(s) ELSE EnterBy(s, loc, way)

Become(s) == rs' = s.rs /\ mem' = s.mem

\* Assumed of programs: a library function called by cleanup code does not call back.
QuietCleanup == in_exc /\ sp > 0 => mem[sp] # PRet

\* The call instruction
Pushed(m) == [m EXCEPT ![sp + 1] = ncalls + 1]
CanCall == pc = "run" /\ sp < MaxSlots /\ ncalls < MaxNcalls /\ QuietCleanup
PushAddr == ncalls' = ncalls + 1 /\ home' = [home EXCEPT ![sp + 1] = ncalls + 1]

CallInsn(way) ==
    /\ CanCall /\ way \in program \cap {"pg", "plt", "pltpg", "plain", "recover"}
    /\ PushAddr /\ sp' = sp + 1
    /\ Become(EntryDone([Stacks EXCEPT !.mem = Pushed(mem)], sp + 1, way))
    /\ dead' = (dead \/ (stop /\ way # "plain"))
    /\ in_exc' = (in_exc /\ (way \in {"plt", "plain"} \/ dead'))
    /\ UNCHANGED <<program, pc, pad, jmpbuf, vf, stop, went>>

\* A function ends by jumping to another one, which inherits the slot.
TailCall(way) ==
    /\ pc = "run" /\ sp > pad /\ (vf.child => sp >= vf.slot) /\ ncalls < MaxNcalls
    /\ way \in program \cap {"tail", "pltjump"} /\ ~in_exc
    /\ ncalls' = ncalls + 1
    /\ Become(EntryDone(Stacks, sp, way))
    /\ dead' = (dead \/ stop)
    /\ jmpbuf' = IF jmpbuf.slot = sp + 1 THEN NoJmpbuf ELSE jmpbuf
    /\ UNCHANGED <<program, sp, home, pc, in_exc, pad, vf, stop, went>>

-----------------------------------------------------------------------------
(* Exit *)

\* The return instruction, or the `retq' of a trampoline, goes to address a;
\* `want' is the address the program would have gone to without libmcount.
Goto(a, want) ==
    /\ pc' = CASE a = MRet -> "mret" [] a = PRet -> "pret" [] OTHER -> "run"
    /\ went' = IF a \in Hooks THEN went ELSE [to |-> a, want |-> want]

RetInsn ==
    /\ pc = "run" /\ sp > pad /\ (vf.child => sp >= vf.slot)
    /\ sp' = sp - 1
    /\ Goto(mem[sp], home[sp])
    /\ UNCHANGED <<progVars, mem, rs, dead>>

\* The last part of __mcount_exit() and __plthook_exit(), with shadow stack r
LeaveWith(r, m, want) ==
    LET e == Last(r)
        m1 == IF e.flag = "RECOVER" THEN Rehook(r, m) ELSE m
        m2 == AutoRehook(r, m1)
        gone == Died([rs |-> r, mem |-> m2])
    IN /\ dead' = stop
       /\ IF stop THEN Become(gone) /\ Goto(gone.mem[e.loc], want)
          ELSE rs' = Front(r) /\ mem' = m2 /\ Goto(e.ip, want)

\* __mcount_exit()
McountExit ==
    /\ pc = "mret"
    /\ LeaveWith(rs, mem, home[sp + 1])
    /\ UNCHANGED <<progVars, sp>>

\* restore_vfork(): the parent continues with the entry it had when it called vfork().
AfterVfork == Append(SubSeq(rs, 1, vf.idx - 1), vf.top)

\* Mutant: the shadow stack is not rewound after longjmp().
PltStackAsIs == IF vf.idx > 0 /\ ~vf.child THEN AfterVfork ELSE rs

\* The shadow stack __plthook_exit() works with: restore_vfork(), restore_jmpbuf_rstack()
PltStack ==
    IF vf.idx > 0 /\ ~vf.child THEN AfterVfork
    ELSE IF Last(rs).flag = "LONGJMP" THEN jmpbuf.rs ELSE rs

\* __plthook_exit(): "invalid dynsym idx", or a shadow stack the vfork child freed,
\* ends the program.
PltExit ==
    /\ pc = "pret"
    /\ LET parent == vf.idx > 0 /\ ~vf.child
           want == IF parent THEN vf.home
                   ELSE IF rs # << >> /\ Last(rs).flag = "LONGJMP" THEN jmpbuf.home ELSE home[sp + 1]
       IN IF (parent /\ dead) \/ (~parent /\ (rs = << >> \/ ~Last(PltStack).plt))
          THEN pc' = "aborted" /\ UNCHANGED <<mem, rs, dead, went, vf>>
          ELSE /\ LeaveWith(PltStack, mem, want)
               /\ vf' = IF parent THEN NoVfork ELSE vf
    /\ UNCHANGED <<program, sp, home, ncalls, in_exc, pad, jmpbuf, stop>>

-----------------------------------------------------------------------------
(* Library calls that play with the stack; each goes through the PLT *)

PltCalled == EntryDone([Stacks EXCEPT !.mem = Pushed(mem)], sp + 1, "plt")

\* Tracing is over: the entry hooks nothing (plthook_entry() of a dead thread, or mtd_dtor()).
Over == dead \/ stop

\* setjmp() saves the address it was about to return to; setup_jmpbuf_rstack() copies
\* the shadow stack, setjmp()'s own entry included.
Setjmp ==
    /\ CanCall /\ "jmp" \in program /\ ~vf.child /\ pad = 0 /\ ~in_exc
    /\ PushAddr
    /\ Become(PltCalled)
    /\ jmpbuf' = [rs |-> IF Over THEN jmpbuf.rs ELSE rs', ip |-> mem'[sp + 1],
                  slot |-> sp + 1, home |-> ncalls + 1, owner |-> FrameAt(sp)]
    /\ Goto(mem'[sp + 1], ncalls + 1)
    /\ dead' = Over
    /\ UNCHANGED <<program, sp, in_exc, pad, vf, stop>>

\* longjmp() to a frame that is still there
Longjmp ==
    /\ CanCall /\ "jmp" \in program /\ ~vf.child /\ pad = 0 /\ ~in_exc
    /\ jmpbuf.slot > 0 /\ jmpbuf.slot <= sp + 1 /\ jmpbuf.owner = FrameAt(jmpbuf.slot - 1)
    /\ PushAddr
    /\ LET s == PltCalled
       IN mem' = s.mem /\ rs' = IF Over THEN s.rs ELSE [s.rs EXCEPT ![Len(s.rs)].flag = "LONGJMP"]
    /\ sp' = jmpbuf.slot - 1
    /\ Goto(jmpbuf.ip, jmpbuf.home)
    /\ dead' = Over
    /\ UNCHANGED <<program, in_exc, pad, jmpbuf, vf, stop>>

\* vfork(): the child returns first, on the same stack.
Vfork ==
    /\ CanCall /\ "vfork" \in program /\ vf.idx = 0 /\ pad = 0 /\ ~in_exc
    /\ PushAddr
    /\ Become(PltCalled)
    /\ vf' = IF Over THEN vf
             ELSE [idx |-> Len(rs'), top |-> Last(rs'), slot |-> sp + 1, home |-> ncalls + 1, child |-> TRUE]
    /\ Goto(mem'[sp + 1], ncalls + 1)
    /\ dead' = Over
    /\ UNCHANGED <<program, sp, in_exc, pad, jmpbuf, stop>>

\* The child execs or exits, the parent returns from vfork(): glibc kept the address
\* in a register.
VforkChildDone ==
    /\ pc = "run" /\ vf.child
    /\ vf' = [vf EXCEPT !.child = FALSE]
    /\ sp' = vf.slot - 1
    /\ pc' = "pret"
    /\ UNCHANGED <<program, mem, home, ncalls, rs, in_exc, pad, jmpbuf, stop, dead, went>>

\* dlsym(RTLD_NEXT) from a library: the hook is taken back before the call is made.
DlsymNext ==
    /\ CanCall /\ "dlsym" \in program /\ ~vf.child
    /\ ncalls' = ncalls + 1
    /\ IF Over THEN Become(PltCalled)
       ELSE LET s == PltCalled
            IN mem' = AutoRehook(s.rs, [s.mem EXCEPT ![sp + 1] = Last(s.rs).ip]) /\ rs' = rs
    /\ dead' = Over
    /\ UNCHANGED <<program, sp, home, pc, in_exc, pad, jmpbuf, vf, stop, went>>

\* backtrace() of wrap.c: restore, walk the stack, rehook (a dead thread has nothing to restore).
BacktraceBegin ==
    /\ pc = "run" /\ "backtrace" \in program /\ ~dead /\ sp > 0 /\ ~in_exc
    /\ pc' = "walk"
    /\ mem' = Restore(rs, mem)
    /\ UNCHANGED <<progVars, sp, rs, dead, went>>

BacktraceEnd ==
    /\ pc = "walk"
    /\ pc' = "run"
    /\ mem' = Rehook(rs, mem)
    /\ UNCHANGED <<progVars, sp, rs, dead, went>>

\* __cxa_throw() and __cxa_rethrow(); _Unwind_Resume() at the end of a cleanup.
Throw ==
    /\ pc = "run" /\ "throw" \in program /\ sp > 0 /\ ~vf.child
    /\ pad > 0 => sp = pad
    /\ pad' = 0
    /\ pc' = "unwind"
    /\ in_exc' = ~dead
    /\ mem' = IF dead THEN mem ELSE Restore(rs, mem)
    /\ UNCHANGED <<program, sp, home, ncalls, rs, jmpbuf, vf, stop, dead, went>>

\* The unwinder found cleanup code in the frame of slot k.
LandInCleanup(k) ==
    /\ pc = "unwind" /\ k \in 1..sp
    /\ pc' = "run" /\ sp' = k /\ pad' = k
    /\ UNCHANGED <<program, mem, home, ncalls, rs, in_exc, jmpbuf, vf, stop, dead, went>>

\* ... or a handler, which calls __cxa_begin_catch().
Catch(k) ==
    /\ pc = "unwind" /\ k \in 1..sp
    /\ pc' = "run" /\ sp' = k
    /\ in_exc' = FALSE
    /\ Become(IF in_exc /\ ~dead THEN RehookException(rs, mem, k) ELSE Stacks)
    /\ UNCHANGED <<program, home, ncalls, pad, jmpbuf, vf, stop, dead, went>>

\* The finish trigger or a signal; the thread notices at its next entry or exit.
Finish ==
    /\ "finish" \in program /\ ~stop
    /\ stop' = TRUE
    /\ UNCHANGED <<program, mem, sp, home, ncalls, rs, pc, in_exc, pad, jmpbuf, vf, dead, went>>

\* pthread_exit() of wrap.c: the C library unwinds the whole stack.
PthreadExit ==
    /\ pc = "run" /\ "thread_exit" \in program /\ rs # << >> /\ ~dead /\ pad = 0 /\ ~vf.child
    /\ pc' = "exiting"
    /\ mem' = Restore(rs, mem)
    /\ rs' = Front(rs)
    /\ UNCHANGED <<progVars, sp, dead, went>>

RetNext ==
    \/ \E way \in Features : CallInsn(way) \/ TailCall(way)
    \/ RetInsn \/ McountExit \/ PltExit
    \/ Setjmp \/ Longjmp \/ Vfork \/ VforkChildDone \/ DlsymNext
    \/ BacktraceBegin \/ BacktraceEnd \/ Throw \/ Finish \/ PthreadExit
    \/ \E k \in 1..MaxSlots : LandInCleanup(k) \/ Catch(k)

RetSpec == RetInit /\ [][RetNext]_retVars

-----------------------------------------------------------------------------
(* Properties *)

\* Whatever was hooked, tail-called, unwound or jumped over, every function returns to
\* the place it was called from.
ReturnsToCaller == went.to = went.want

\* While anybody walks the stack (the unwinder of an exception or of pthread_exit(),
\* backtrace()) every slot holds the real address, so no hook is ever seen.
UnwinderSeesTruth ==
    pc \in {"walk", "unwind", "exiting"} => \A i \in 1..sp : mem[i] = home[i]

\* A hook in a slot is the one its newest shadow entry needs: otherwise __plthook_exit()
\* meets an entry that is not a PLT call and gives up.
TrampolineMatches ==
    pc = "run" =>
        \A i \in 1..sp : mem[i] \in Hooks =>
            \E j \in DOMAIN rs : /\ rs[j].loc = i /\ HookOf(rs[j]) = mem[i]
                                 /\ \A k \in DOMAIN rs : k > j => rs[k].loc # i

\* The innermost call on the shadow stack is hooked, so that its exit will be seen, and
\* outside exception handling no entry outlives its frame.
ShadowFollowsStack ==
    pc = "run" /\ rs # << >> /\ ~in_exc =>
        /\ mem[Last(rs).loc] \in Hooks
        /\ \A j \in DOMAIN rs : rs[j].loc <= sp /\ (j > 1 => rs[j - 1].loc <= rs[j].loc)

\* Once a thread is finished no hook is left on its stack: ASSERT(!mtdp->dead).
DeadLeavesNoHook == dead => pc \notin {"mret", "pret"} /\ \A i \in 1..sp : mem[i] = home[i]

\* Hooking the return addresses again after they were restored leads back to the hooks
\* the calls were made with: no exit meets the wrong entry and ends the program.
NeverAborted == pc # "aborted"

\* Slots and shadow stack agree: whoever walks the stack sees no hook, a hook is the one its
\* entry needs, no entry outlives its frame, no hook outlives the thread, and no exit gives up
\* (mcount_rstack_restore(), mcount_rstack_rehook(), mtd_dtor(), __plthook_exit()).
StackIsHonest ==
    UnwinderSeesTruth /\ TrampolineMatches /\ ShadowFollowsStack /\ DeadLeavesNoHook /\ NeverAborted

=============================================================================
