------------------------------- MODULE TuiCases -------------------------------
(* Small call graphs for Tui.  A graph is written as the names of its paths. *)
EXTENDS Integers, Sequences, SequencesExt

Path(names) == [i \in DOMAIN names |-> <<names[i], 0>>]
Graph(paths, times) ==
    LET order == <<<< >>>> \o [i \in DOMAIN paths |-> Path(paths[i])]
    IN [order |-> order,
        time |-> [n \in ToSet(order) |-> IF n = << >> THEN 9
                                         ELSE times[CHOOSE i \in DOMAIN paths : Path(paths[i]) = n]]]

Wide == Graph(<<<<"a">>, <<"a", "b">>, <<"a", "b", "c">>, <<"a", "b", "c", "d">>, <<"a", "b", "e">>,
                <<"a", "d">>, <<"b">>, <<"b", "c">>>>, <<5, 3, 1, 1, 2, 2, 4, 3>>)
Deep == Graph(<<<<"a">>, <<"a", "b">>, <<"a", "b", "a">>, <<"c">>>>, <<5, 4, 2, 1>>)
Short == Graph(<<<<"b">>, <<"b", "a">>>>, <<3, 1>>)

Tiny == Graph(<<<<"a">>>>, <<1>>)

MoveKeys == {"up", "down", "ppage", "npage", "home", "end", "z"}
FoldKeys == {"c", "C", "e", "E", "p", "n", "u", "l", "enter"}

Cases ==
    {[graphs |-> <<Wide>>, keys |-> MoveKeys \union FoldKeys],
     [graphs |-> <<Wide>>, keys |-> {"down", "up", "/", "<", ">", "c", "enter"}],
     [graphs |-> <<Deep>>, keys |-> {"up", "down", "ppage", "npage", "z", "g", "c", "e", "u"}],
     [graphs |-> <<Wide>>, keys |-> {"down", "end", "r", "R", "G", "s", "z", "I"}],
     [graphs |-> <<Short, Tiny>>, keys |-> {"down", "enter", "g", "S"}]}
===============================================================================
