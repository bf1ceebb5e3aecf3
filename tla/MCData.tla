------------------------------- MODULE MCData --------------------------------
(* The files of a data directory, from the recorder to the readers, and what *)
(* is set up from options and shown to the user, for TLC.  The components    *)
(* share no state and are explored side by side in one run: the initial      *)
(* state chooses one.  TaskTable and CpuTrace have variables of their own,   *)
(* the others have theirs in the slots s1, s2, ...; what is not chosen stays. *)
EXTENDS Integers, FiniteSets, TaskTable, CpuTrace

VARIABLES
    comp,   \* the component this behaviour is about
    s1, s2, s3, s4, s5, s6, s7, s8, s9, s10, s11   \* its variables, and 0 in what is left

slots == <<s1, s2, s3, s4, s5, s6, s7, s8, s9, s10, s11>>
dataVars == <<comp, vars, cpuVars, slots>>

\* The cases that are explored
FC == INSTANCE FilterCases
TC == INSTANCE TuiCases
CC == INSTANCE CpuTraceCases
SC == INSTANCE SymbolCases
Syms == FC!Syms
Auto == FC!Auto
Items == FC!Items
AgentItems == FC!AgentItems
Graphs == TC!Cases
CpuConfs == CC!Cases
Modules == SC!Cases
\* What a machine may do while CpuRead's files are written
Modes == {{"switch"}, {"event"}, {"event", "stranger"}, {"switch", "sched"}}

Fo == INSTANCE Session WITH
    clock <- s1, task <- s2, proc <- s3, nsid <- s4, file <- s5, recs <- s6, Tids <- 1..3,
    MaxTime <- 7, MaxRecs <- 1, Libs <- {}, Slots <- {1}, Reload <- FALSE

Li == INSTANCE Session WITH
    clock <- s1, task <- s2, proc <- s3, nsid <- s4, file <- s5, recs <- s6, Tids <- 1..2,
    MaxTime <- 7, MaxRecs <- 1, Libs <- {11, 12}, Slots <- {1}, Reload <- FALSE

Sy == INSTANCE Symbol WITH
    case <- s1, phase <- s2, todo <- s3, tabs <- s4, files <- s5, loaded <- s6,
    Cases <- Modules

In == INSTANCE Info WITH
    turn <- s1, file <- s2, off <- s3, mask <- s4, hdr <- s5, wrote <- s6, phase <- s7,
    pos <- s8, info <- s9, Buf <- 4, LongLines <- FALSE

Fi == INSTANCE Filter WITH
    given <- s1, later <- s2, turn <- s3, trig <- s4, spec <- s5, MaxItems <- 3, MaxLater <- 1

Cr == INSTANCE CpuRead WITH
    mode <- s1, phase <- s2, on <- s3, open <- s4, kfile <- s5, pfile <- s6, rd <- s7,
    kfuncs <- s8, out <- s9, ppos <- s10, events <- s11, Tids <- {1, 2}, NrCpu <- 2,
    Funcs <- {1, 2}, Threshold <- 3, MaxRecs <- 5

Tu == INSTANCE Tui WITH
    keys <- s1, win <- s2, at <- s3, graph <- s4, psess <- s5, search <- s6, screen <- s7,
    LINES <- 8, Cases <- Graphs

NoSlots ==
    /\ s1 = 0 /\ s2 = 0 /\ s3 = 0 /\ s4 = 0 /\ s5 = 0 /\ s6 = 0 /\ s7 = 0
    /\ s8 = 0 /\ s9 = 0 /\ s10 = 0 /\ s11 = 0

\* CpuTrace in behaviours that are not about it
CpuIdle == conf = (CHOOSE c \in Confs : TRUE) /\ CpuInit

DataInit ==
    \/ comp = "tids" /\ Init /\ CpuIdle /\ NoSlots
    \/ comp = "forks" /\ Init /\ CpuIdle /\ Fo!Init /\ s7 = 0 /\ s8 = 0 /\ s9 = 0 /\ s10 = 0 /\ s11 = 0
    \/ comp = "libraries" /\ Init /\ CpuIdle /\ Li!Init /\ s7 = 0 /\ s8 = 0 /\ s9 = 0 /\ s10 = 0 /\ s11 = 0
    \/ comp = "symbol" /\ Init /\ CpuIdle /\ Sy!Init /\ s7 = 0 /\ s8 = 0 /\ s9 = 0 /\ s10 = 0 /\ s11 = 0
    \/ comp = "info" /\ Init /\ CpuIdle /\ In!Init /\ s10 = 0 /\ s11 = 0
    \/ comp = "filter" /\ Init /\ CpuIdle /\ Fi!Init /\ s6 = 0 /\ s7 = 0 /\ s8 = 0 /\ s9 = 0 /\ s10 = 0 /\ s11 = 0
    \/ comp = "cputrace" /\ Init /\ CpuInit /\ NoSlots
    \/ comp = "cpuread" /\ Init /\ CpuIdle /\ Cr!Init
    \/ comp = "tui" /\ Init /\ CpuIdle /\ Tu!Init /\ s8 = 0 /\ s9 = 0 /\ s10 = 0 /\ s11 = 0

FoStep == comp = "forks" /\ Fo!Next /\ UNCHANGED <<comp, vars, cpuVars, s7, s8, s9, s10, s11>>
LiStep == comp = "libraries" /\ Li!Next /\ UNCHANGED <<comp, vars, cpuVars, s7, s8, s9, s10, s11>>
TaStep == comp = "tids" /\ Next /\ UNCHANGED <<comp, cpuVars, slots>>
SyStep == comp = "symbol" /\ Sy!Next /\ UNCHANGED <<comp, vars, cpuVars, s7, s8, s9, s10, s11>>
InStep == comp = "info" /\ In!Next /\ UNCHANGED <<comp, vars, cpuVars, s10, s11>>
FiStep == comp = "filter" /\ Fi!Next /\ UNCHANGED <<comp, vars, cpuVars, s6, s7, s8, s9, s10, s11>>
CtStep == comp = "cputrace" /\ CpuNext /\ UNCHANGED <<comp, vars, slots>>
CrStep == comp = "cpuread" /\ Cr!Next /\ UNCHANGED <<comp, vars, cpuVars>>
TuStep == comp = "tui" /\ Tu!Next /\ UNCHANGED <<comp, vars, cpuVars, s8, s9, s10, s11>>

DataNext == FoStep \/ LiStep \/ TaStep \/ SyStep \/ InStep \/ FiStep \/ CtStep \/ CrStep \/ TuStep

DataSpec == DataInit /\ [][DataNext]_dataVars

-----------------------------------------------------------------------------
(* Properties: those of TaskTable and CpuTrace, and of the others in their own *)
(* behaviours                                                                *)

\* Records are given the right functions, and tasks the right names and parents
\* (find_task_session(), create_task()).
TraceIsNamed ==
    /\ comp = "forks" => Fo!TraceIsNamed
    /\ comp = "libraries" => Li!TraceIsNamed

\* An address has the same, right name in the recorder and in the reader, whatever modules
\* share names and files (load_symtab(), save_module_symbol_file()).
SymbolsFound == comp = "symbol" => Sy!SymbolsFound

\* What the handlers wrote is read back, and no failure, at any point, makes the directory
\* unreadable (fill_uftrace_info(), read_uftrace_info()).
InfoKept == comp = "info" => In!InfoKept

\* Options, environment and agent end in the triggers that were asked for, and in specs that
\* the traced program and the reader agree on (update_trigger(), setup_fstack_args()).
SettingsHold == comp = "filter" => Fi!SettingsHold

\* The records of all CPUs come in order, for the right tasks, and what a time filter drops is
\* whole calls and pauses with what belongs to them (read_kernel_stack(), process_perf_event()).
CpuDataRead == comp = "cpuread" => Cr!CpuDataRead

\* What a window knows of its rows in steps, and what it has painted of them, is what counting
\* and painting from the first row would give (tui_window_move_up() and the others).
WindowIsTrue == comp = "tui" => Tu!WindowIsTrue

=============================================================================
