------------------------------- MODULE TraceLog -------------------------------
(***************************************************************************)
(* What recording promises, whatever does it: every task produces a stream *)
(* of items, and its data file is a prefix of that stream that only grows. *)
(* Nothing is written out of order, twice, or into another task's file.    *)
(***************************************************************************)
EXTENDS Naturals, Sequences

CONSTANTS Tasks, Items

VARIABLES
    stream,     \* the items each task has produced so far
    file        \* the items saved for each task

Init ==
    /\ stream = [t \in Tasks |-> << >>]
    /\ file = [t \in Tasks |-> << >>]

\* A task produces one more item.
Produce(t) ==
    /\ \E x \in Items : stream' = [stream EXCEPT ![t] = Append(@, x)]
    /\ UNCHANGED file

\* Some of the items of t that were not saved yet are, in order.
Save(t) ==
    /\ \E n \in Len(file[t]) + 1 .. Len(stream[t]) :
           file' = [file EXCEPT ![t] = SubSeq(stream[t], 1, n)]
    /\ UNCHANGED stream

Next == \E t \in Tasks : Produce(t) \/ Save(t)

Spec == Init /\ [][Next]_<<stream, file>>

=============================================================================
