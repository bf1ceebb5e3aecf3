------------------------------ MODULE McountCases ------------------------------
(* Option sets for TLC: each exercises the filters and triggers together. *)
EXTENDS Integers

Names == {"a", "b"}

Tr(flags) == [flags |-> flags, depth |-> 1, time |-> 0, size |-> 2]

Base ==
    [trig |-> [f \in Names |-> Tr({})], kind |-> [f \in Names |-> "pg"],
     fsize |-> [f \in Names |-> 2], depth |-> 3, threshold |-> 0, minsize |-> 0, max |-> 3,
     on |-> TRUE, signals |-> {}]

Trigs(a, b) == [f \in Names |-> IF f = "a" THEN Tr(a) ELSE Tr(b)]
Mixed == [f \in Names |-> IF f = "a" THEN "pg" ELSE "cygprof"]

Cases ==
    { [Base EXCEPT !.max = 2, !.kind = Mixed],
      [Base EXCEPT !.max = 2, !.kind = [f \in Names |-> "cygprof"], !.depth = 2, !.trig = Trigs({"DEPTH"}, {})],
      [Base EXCEPT !.trig = Trigs({"FILTER_IN", "CONDITION"}, {"FILTER_OUT"}), !.kind = Mixed],
      [Base EXCEPT !.trig = Trigs({"FILTER_OUT", "LOC_IN"}, {"FILTER_IN"}), !.kind = Mixed],
      [Base EXCEPT !.trig = Trigs({"TRACE_OFF"}, {"TRACE_ON"})],
      [Base EXCEPT !.trig = Trigs({"TIME"}, {"TRACE"}), !.threshold = 1, !.signals = {"on", "off"}],
      [Base EXCEPT !.trig = Trigs({"SIZE", "FILTER_IN"}, {"CALLER"}), !.fsize = [f \in Names |-> IF f = "a" THEN 2 ELSE 1]],
      [Base EXCEPT !.trig = Trigs({"LOC_OUT"}, {"FINISH"}), !.on = FALSE, !.signals = {"on", "finish"}],
      [Base EXCEPT !.kind = [f \in Names |-> "xray"], !.depth = 4, !.max = 4, !.minsize = 2,
                   !.fsize = [f \in Names |-> IF f = "a" THEN 2 ELSE 1], !.signals = {"finish"}] }

================================================================================
