------------------------------ MODULE MCRecording ------------------------------
(* Recording in three sizes for TLC, explored in one run: `size' is chosen   *)
(* at the start.  Tasks a size does not use are killed before they begin,    *)
(* its other writers never find a kick, and no bound of it is passed.        *)
EXTENDS Recording

VARIABLE size

allVars == <<vars, size>>

Sizes == {"one", "two", "long"}

\* one: a task that loses records, and two writers; two: two tasks that share
\* a writer; long: enough buffers and records for shrink_shmem_buffer()
Bound ==
    [one  |-> [tasks |-> {"t1"}, writers |-> {"w1", "w2"},
               kicks |-> 4, rec |-> 4, bufs |-> 2, pipe |-> 2],
     two  |-> [tasks |-> {"t1", "t2"}, writers |-> {"w1"},
               kicks |-> 4, rec |-> 2, bufs |-> 2, pipe |-> 1],
     long |-> [tasks |-> {"t1"}, writers |-> {"w1"},
               kicks |-> 9, rec |-> 5, bufs |-> 4, pipe |-> 1]]

Unused == Tasks \ Bound[size].tasks

WithinBound ==
    /\ kicks' <= Bound[size].kicks
    /\ Len(pipe') <= Bound[size].pipe
    /\ \A w \in Writers \ Bound[size].writers : wpc'[w] # "read"
    /\ \A t \in Tasks :
         /\ nrBuf'[t] <= Bound[size].bufs
         /\ next'[t] <= Bound[size].rec + 1
         /\ next'[t] = Bound[size].rec + 1 => ppc'[t] \in {"rec", "gone"}

MCInit == Init /\ size \in Sizes

MCNext ==
    /\ IF \A t \in Unused : ppc[t] = "gone"
         THEN Next /\ WithinBound
         ELSE \E t \in Unused : Killed(t) /\ UNCHANGED <<poolVars, recorderVars>>
    /\ UNCHANGED size

MCSpec == MCInit /\ [][MCNext]_allVars

================================================================================
