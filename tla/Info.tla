--------------------------------- MODULE Info ----------------------------------
(***************************************************************************)
(* The info file of a data directory: fill_file_header() of cmds/record.c  *)
(* and the fill handlers of cmds/info.c write it at the end of a           *)
(* recording, open_info_file() of utils/data-file.c and the read handlers  *)
(* read it before anything else of the directory.                          *)
(*                                                                         *)
(* A fill handler may fail after it wrote some lines; the file position    *)
(* goes back then and the next handler writes over them.  The bits of the  *)
(* handlers that did not fail go to the header last.  The reader has       *)
(* nothing but these bits to know which lines follow.                      *)
(*                                                                         *)
(* A line is a sequence of cells that ends in a newline; a cell stands for *)
(* a piece of text, the first one for the tag.  Left out: write errors,    *)
(* the version and byte order of the header.                               *)
(***************************************************************************)
EXTENDS Integers, Sequences, SequencesExt, FiniteSets

CONSTANTS
    Buf,        \* cells that fgets() reads at most: PATH_MAX - 1 characters
    LongLines   \* may the text of the command line be longer than that?

VARIABLES
    turn,       \* the handler that is next, in either list
    file,       \* what follows the header
    off,        \* file position of the writer
    mask,       \* hdr.info_mask in the recorder
    hdr,        \* hdr.info_mask in the file
    wrote,      \* what the handlers meant to write, per bit
    phase,      \* "fill"; "read"; "open", "nodata" or "error", the ways open_data_file() ends
    pos,        \* file position of the reader
    info        \* what the reader got, per bit

vars == <<turn, file, off, mask, hdr, wrote, phase, pos, info>>

\* The handlers in the order of fill_handlers[].  A handler writes lines of one of the forms,
\* or fails after a number of lines.  A form with several lines has their number in the first.
\* Lines that fgets() reads have a limited length, the others are read by getline().
H(bit, forms, fails, fgets) == [bit |-> bit, forms |-> forms, fails |-> fails, fgets |-> fgets]
Lines(tag, n) == <<tag>> \o [i \in 1..n |-> tag]
ArgLines == {<<"argspec">> \o a \o <<"argauto", "retauto", "enumauto">> \o b :
                a \in {<<"argspec">>, <<"retspec">>, <<"argspec", "retspec">>},
                b \in {<< >>, <<"auto-args">>}} \union {<<"argspec", "argauto", "retauto", "enumauto", "auto-args">>}
fill_handlers == <<
    H("EXE_NAME", {<<"exename">>}, {}, TRUE),
    H("EXE_BUILD_ID", {<<"build_id">>}, {0}, TRUE),
    H("EXIT_STATUS", {<<"exit_status">>}, {}, TRUE),
    H("CMDLINE", {<<"cmdline">>}, {0}, TRUE),
    H("CPUINFO", {Lines("cpuinfo", 2)}, {2}, TRUE),
    H("MEMINFO", {<<"meminfo">>}, {0}, TRUE),
    H("OSINFO", {Lines("osinfo", 3)}, {3}, TRUE),
    H("TASKINFO", {Lines("taskinfo", 2)}, {0}, FALSE),
    H("USAGEINFO", {Lines("usageinfo", 6)}, {0}, TRUE),
    H("LOADINFO", {<<"loadinfo">>}, {0}, TRUE),
    H("ARG_SPEC", ArgLines, {0}, FALSE),
    H("RECORD_DATE", {<<"record_date", "elapsed_time">>}, {}, TRUE),
    H("PATTERN_TYPE", {<<"pattern_type">>}, {}, TRUE),
    H("VERSION", {<<"uftrace_version">>}, {}, TRUE),
    H("UTC_OFFSET", {<<"utc_offset">>}, {}, TRUE)>>

read_handlers == fill_handlers
Handlers == DOMAIN fill_handlers
Counted(bit) == bit \in {"CPUINFO", "OSINFO", "TASKINFO", "USAGEINFO", "ARG_SPEC"}

\* Characters of a line: the tag, text and a newline
Text(bit) == IF bit = "CMDLINE" /\ LongLines THEN {0, Buf - 2, Buf - 1} ELSE {1}
Cells(h, form, i, len) ==
    <<[tag |-> form[i], n |-> IF i = 1 /\ Counted(h.bit) THEN Len(form) - 1 ELSE 0]>>
    \o [j \in 1..len |-> [tag |-> "text", n |-> 0]] \o <<[tag |-> "newline", n |-> 0]>>
AllCells(h, form, k, len) == FlattenSeq([i \in 1..k |-> Cells(h, form, i, len)])

\* write(2) at the position: over what is there, past it, or both
WriteAt(f, o, c) == SubSeq(f, 1, o) \o c \o SubSeq(f, o + Len(c) + 1, Len(f))

--------------------------------------------------------------------------------
(* Recorder                                                                 *)

Init ==
    /\ turn = 1 /\ file = << >> /\ off = 0 /\ mask = {} /\ hdr = {} /\ wrote = << >>
    /\ phase = "fill" /\ pos = 0 /\ info = << >>

Filled(h, form) == [b \in DOMAIN wrote \union {h.bit} |-> IF b = h.bit THEN form ELSE wrote[b]]

\* Mutant: a handler that returns 0 counts as failed.
FillWellPositive(h) ==
    \E form \in h.forms, len \in Text(h.bit) :
        LET c == AllCells(h, form, Len(form), len)
            ok == h.bit \in {"EXE_NAME", "EXE_BUILD_ID", "EXIT_STATUS", "CMDLINE", "VERSION"}
        IN  /\ file' = WriteAt(file, off, c)
            /\ off' = IF ok THEN off + Len(c) ELSE off
            /\ mask' = IF ok THEN mask \union {h.bit} ELSE mask
            /\ wrote' = Filled(h, form)
FillWell(h) ==
    \E form \in h.forms, len \in Text(h.bit) :
        LET c == AllCells(h, form, Len(form), len) IN
        /\ file' = WriteAt(file, off, c)
        /\ off' = off + Len(c)
        /\ mask' = mask \union {h.bit}
        /\ wrote' = Filled(h, form)

\* Mutant: the lines of a failed handler stay.
FillFailsStays(h) ==
    \E k \in h.fails : \E form \in h.forms :
        LET c == AllCells(h, form, k, 1) IN
        /\ file' = WriteAt(file, off, c)
        /\ off' = off + Len(c)
        /\ UNCHANGED <<mask, wrote>>
\* "ignore failed info"
FillFails(h) ==
    \E k \in h.fails : \E form \in h.forms :
        /\ file' = WriteAt(file, off, AllCells(h, form, k, 1))
        /\ UNCHANGED <<off, mask, wrote>>

\* fill_uftrace_info()
Fill ==
    /\ phase = "fill" /\ turn \in Handlers
    /\ FillWell(fill_handlers[turn]) \/ FillFails(fill_handlers[turn])
    /\ turn' = turn + 1
    /\ UNCHANGED <<hdr, phase, pos, info>>

\* fill_file_header(): the header is written again, with the bits
Finish ==
    /\ phase = "fill" /\ turn \notin Handlers
    /\ hdr' = mask
    /\ turn' = 1 /\ phase' = "read"
    /\ UNCHANGED <<file, off, mask, wrote, pos, info>>

\* The recorder is killed: the header says that there is nothing
Killed ==
    /\ phase = "fill"
    /\ turn' = 1 /\ phase' = "read"
    /\ UNCHANGED <<file, off, mask, hdr, wrote, pos, info>>

--------------------------------------------------------------------------------
(* Reader                                                                   *)

\* A line from p on: fgets() with a buffer, or getline()
LineEnd(p, fgets) ==
    LET nl == SelectInSubSeq(file, p + 1, Len(file), LAMBDA c : c.tag = "newline")
        e == IF nl = 0 THEN Len(file) ELSE nl
    IN  IF fgets /\ e - p > Buf THEN p + Buf ELSE e

\* The tags that a handler takes in its i-th line
Tags(h, i) == {form[i] : form \in {f \in h.forms : Len(f) >= i}}
           \union (IF h.bit = "ARG_SPEC" /\ i > 1 THEN UNION {Range(f) : f \in h.forms} ELSE {})
Most(h) == CHOOSE n \in {Len(f) : f \in h.forms} : \A f \in h.forms : Len(f) <= n

\* One line: s = [ok, pos, got, left]
ReadLine(h, s, i) ==
    IF ~s.ok \/ s.left = 0 THEN s
    ELSE IF s.pos = Len(file) \/ file[s.pos + 1].tag \notin Tags(h, i) THEN [s EXCEPT !.ok = FALSE]
    ELSE LET n == IF i > 1 THEN s.left - 1
                  ELSE IF Counted(h.bit) THEN file[s.pos + 1].n ELSE Len(CHOOSE f \in h.forms : TRUE) - 1
         IN  IF n >= Most(h) THEN [s EXCEPT !.ok = FALSE]
             ELSE [ok |-> TRUE, pos |-> LineEnd(s.pos, h.fgets), left |-> n,
                   got |-> Append(s.got, file[s.pos + 1].tag)]
ReadHandler(h) ==
    LET Step(s, i) == ReadLine(h, s, i)
        s == FoldLeft(Step, [ok |-> TRUE, pos |-> pos, got |-> << >>, left |-> 1], [i \in 1..Most(h) |-> i])
    IN  [s EXCEPT !.ok = @ /\ s.left = 0]

\* read_uftrace_info(): the first handler that fails ends it, and open_info_file() the program
Read ==
    /\ phase = "read" /\ turn \in Handlers
    /\ turn' = turn + 1
    /\ LET h == read_handlers[turn]
           r == ReadHandler(h)
       IN  IF h.bit \notin hdr THEN UNCHANGED <<phase, pos, info>>
           ELSE IF ~r.ok THEN phase' = "error" /\ UNCHANGED <<pos, info>>
           ELSE /\ pos' = r.pos
                /\ info' = [b \in DOMAIN info \union {h.bit} |-> IF b = h.bit THEN r.got ELSE info[b]]
                /\ phase' = phase
    /\ UNCHANGED <<file, off, mask, hdr, wrote>>

\* open_data_file(): without tasks there is nothing to read
Open ==
    /\ phase = "read" /\ turn \notin Handlers
    /\ phase' = IF "TASKINFO" \in DOMAIN info THEN "open" ELSE "nodata"
    /\ UNCHANGED <<turn, file, off, mask, hdr, wrote, pos, info>>

Next == Fill \/ Finish \/ Killed \/ Read \/ Open

Spec == Init /\ [][Next]_vars

--------------------------------------------------------------------------------
(* Properties                                                               *)

\* A directory whose recorder got through its end is read: whichever handlers failed, the
\* read handlers get the lines of the others ("This data can then be inspected later on",
\* doc/uftrace-record.md), and the directory opens if its tasks are known.
InfoReadBack ==
    /\ phase \in {"open", "nodata"} /\ hdr # {} => info = wrote
    /\ phase = "nodata" => "TASKINFO" \notin mask \/ hdr = {}

\* No state in which the recorder stopped, killed or not, leaves an info file that ends the
\* reader with "cannot read uftrace header info!".
NeverUnreadable == phase # "error"

\* What the handlers wrote is read back, and no failure, at any point, makes the directory
\* unreadable (fill_uftrace_info(), read_uftrace_info()).
InfoKept == InfoReadBack /\ NeverUnreadable

================================================================================
