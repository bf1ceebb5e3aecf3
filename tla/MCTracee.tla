------------------------------ MODULE MCTracee -------------------------------
(* What libmcount does inside the traced program, for TLC: the components    *)
(* share no state and are explored side by side in one run: the initial      *)
(* state chooses one.  Mcount, PltGot and RetAddr have variables of their    *)
(* own, the others have theirs in the slots s1, s2, ...; what is not chosen  *)
(* stays.                                                                   *)
EXTENDS Mcount, PltGot, RetAddr

VARIABLES
    comp,   \* the component this behaviour is about
    s1, s2, s3, s4, s5, s6, s7, s8, s9, s10, s11, s12, s13, s14   \* its variables, and 0 in what is left

slots == <<s1, s2, s3, s4, s5, s6, s7, s8, s9, s10, s11, s12, s13, s14>>
traceeVars == <<comp, vars, pltVars, retVars, slots>>

\* The option sets, programs and argument specs that are explored
MS == INSTANCE McountCases
DC == INSTANCE DynamicCases
AC == INSTANCE ArgDataCases
MCSetups == MS!Cases
MCKind(f) == f
Patched == DC!Cases
Specs == AC!Cases

\* What the theorems of Mcount_proofs assume holds of every option set that is explored.
ASSUME McountAssumption

\* A PLT call and a traced function that share a slot ("pltpg", or "plt" followed by "tail")
\* appear without stack walks, which break them (see the README).
MCPrograms ==
    { {"pg", "pltpg", "tail", "pltjump", "finish", "dlsym"},
      {"pg", "tail", "throw", "thread_exit"},
      {"pg", "plt", "throw", "thread_exit"},
      {"pg", "plain", "backtrace", "recover", "tail", "finish"},
      {"pg", "plt", "backtrace", "recover", "finish"},
      {"pg", "plt", "jmp", "throw"},
      {"pg", "pltpg", "vfork", "jmp", "tail"} }

Dy == INSTANCE Dynamic WITH
    prog <- s1, type <- s2, patts <- s3, todo <- s4, phase <- s5, bad <- s6, code <- s7,
    pages <- s8, pc <- s9, opc <- s10, Cases <- Patched, Chunk <- 128

Ar == INSTANCE ArgData WITH
    case <- s1, stack <- s2, sizes <- s3, queue <- s4, inited <- s5, clock <- s6, calls <- s7,
    asyncs <- s8, file <- s9, log <- s10, pos <- s11, got <- s12, lost <- s13, cut <- s14,
    Cases <- Specs, ArgBuf <- 24, EvHdr <- 4, EvData <- 4, StrMax <- 98, MaxDepth <- 2,
    MaxCalls <- 3, MaxAsync <- 1, MaxEvent <- 4, LowHalves <- {0, 1000}

\* Mcount, PltGot and RetAddr in behaviours that are not about them
McountIdle == setup = (CHOOSE c \in Setups : TRUE) /\ Init
PltIdle == mode = [bind |-> "lazy", bindnot |-> FALSE, estimate |-> FALSE] /\ PltInit
RetIdle == program = (CHOOSE P \in Programs : TRUE) /\ RetInit

NoSlots ==
    /\ s1 = 0 /\ s2 = 0 /\ s3 = 0 /\ s4 = 0 /\ s5 = 0 /\ s6 = 0 /\ s7 = 0
    /\ s8 = 0 /\ s9 = 0 /\ s10 = 0 /\ s11 = 0 /\ s12 = 0 /\ s13 = 0 /\ s14 = 0

TraceeInit ==
    \/ comp = "mcount" /\ Init /\ PltIdle /\ RetIdle /\ NoSlots
    \/ comp = "pltgot" /\ PltInit /\ McountIdle /\ RetIdle /\ NoSlots
    \/ comp = "retaddr" /\ RetInit /\ McountIdle /\ PltIdle /\ NoSlots
    \/ comp = "dynamic" /\ Dy!Init /\ McountIdle /\ PltIdle /\ RetIdle /\ s11 = 0 /\ s12 = 0 /\ s13 = 0 /\ s14 = 0
    \/ comp = "argdata" /\ Ar!Init /\ McountIdle /\ PltIdle /\ RetIdle

McStep == comp = "mcount" /\ Next /\ UNCHANGED <<comp, pltVars, retVars, slots>>
PgStep == comp = "pltgot" /\ PltNext /\ UNCHANGED <<comp, vars, retVars, slots>>
RaStep == comp = "retaddr" /\ RetNext /\ UNCHANGED <<comp, vars, pltVars, slots>>
DyStep == comp = "dynamic" /\ Dy!Next /\ UNCHANGED <<comp, vars, pltVars, retVars, s11, s12, s13, s14>>
ArStep == comp = "argdata" /\ Ar!Next /\ UNCHANGED <<comp, vars, pltVars, retVars>>

TraceeNext == McStep \/ PgStep \/ RaStep \/ DyStep \/ ArStep

TraceeSpec == TraceeInit /\ [][TraceeNext]_traceeVars

-----------------------------------------------------------------------------
(* Properties: those of Mcount, PltGot and RetAddr, and of the others in    *)
(* their own behaviours                                                     *)

\* Patching leaves the program as it was: it runs the same instructions, and the code that was
\* moved away stays in one piece (mcount_patch_func(), mcount_save_code()).
PatchKeepsProgram == comp = "dynamic" => Dy!PatchKeepsProgram

\* A function is patched or unpatched as the last pattern that names it says, and left alone when
\* there is none (-P and -U; functions after an endbr64 cannot be unpatched).
PatchedAsAsked == comp = "dynamic" => Dy!PatchedAsAsked

\* The reader finds in the file what was written, record by record with the right arguments,
\* and in the order of time (record_ret_stack(), read_task_args()).
DataReadBack == comp = "argdata" => Ar!DataReadBack

=============================================================================
