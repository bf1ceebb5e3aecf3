------------------------------ MODULE ArgDataCases ------------------------------
(* Argument specs, with the lengths of the strings that are passed           *)
EXTENDS Naturals, Sequences
Val(n) == [str |-> FALSE, size |-> n, ret |-> FALSE]
Str == [str |-> TRUE, size |-> 8, ret |-> FALSE]
Ret(a) == [a EXCEPT !.ret = TRUE]
C(spec, read, lens) == [spec |-> spec, read |-> read, sizes |-> lens]
Cases == {C(<<Val(8), Str, Val(1)>>, FALSE, {5, 90}), C(<<Ret(Str), Str>>, FALSE, {1, 60}),
            C(<<Str, Str, Ret(Val(10))>>, FALSE, {3, 38}), C(<<Val(4), Ret(Val(4))>>, TRUE, {0}), C(<< >>, TRUE, {0})}
=================================================================================
