------------------------------ MODULE MCNetwork -------------------------------
EXTENDS Network
MCWritersOf(r) == IF r = 1 THEN {1} ELSE {1, 2}
\* The recorder with one writer has two messages for a task, the one with two has one for each.
MCMaxData(r) == IF r = 1 THEN 2 ELSE 1
MCMeta == <<"task.txt", "info">>
===============================================================================
