---------------------------------- MODULE Tui ----------------------------------
(***************************************************************************)
(* cmds/tui.c: the windows of "uftrace tui" over call graphs that are      *)
(* already built.  A window keeps the node at the top of the page, the     *)
(* node under the cursor and their row numbers, and updates all of them in *)
(* steps: nothing is ever counted from the first row again.  The page is   *)
(* repainted only where the code thinks that it changed.                   *)
(*                                                                         *)
(* A node is the path that leads to it, of pairs <<name, n>>; << >> is the *)
(* root of a graph.                                                        *)
(*                                                                         *)
(* Left out: the editor, the help and field pop-ups (they only ask for a   *)
(* full repaint), resizing the terminal, the widths of the columns.        *)
(***************************************************************************)
EXTENDS Integers, Sequences, SequencesExt, FiniteSets

CONSTANTS
    Cases,      \* what is looked at: [graphs : one tree per session, keys : the keys in use]
    LINES       \* rows of the terminal: a header, the page and a footer; 7 or more

VARIABLES
    keys,       \* the keys of the case
    win,        \* the windows
    at,         \* win: the window that is shown
    graph,      \* graph: the session whose graph 'G' shows
    psess,      \* partial_graph.ug.sess
    search,     \* tui_search, or "none"
    screen      \* what the rows of the page show

vars == <<keys, win, at, graph, psess, search, screen>>

Page == LINES - 2
None == <<<<"none", 0>>>>
NoRow == [shows |-> None, reverse |-> FALSE, sign |-> FALSE, bars |-> << >>]
Blank == <<<<"blank", 0>>>>
Specials == {<<"=back", 0>>, <<"=call", 0>>}
Up(n) == SubSeq(n, 1, Len(n) - 1)

--------------------------------------------------------------------------------
(* The tree of a graph window: kids of every node, in order.                *)

IsRoot(n) == n = << >>
Kids(W, n) == W.kids[n]
IsFirstChild(W, p, n) == Kids(W, p) # << >> /\ Kids(W, p)[1] = n
IsLastChild(W, p, n) == Kids(W, p) # << >> /\ Last(Kids(W, p)) = n
Singular(W, n) == Len(Kids(W, n)) = 1
Open(W, n) == Kids(W, n) # << >> /\ (IsRoot(n) \/ n \notin W.folded)
Sibling(W, n, d) ==
    LET s == Kids(W, Up(n))
        i == CHOOSE k \in DOMAIN s : s[k] = n
    IN IF IsRoot(n) \/ i + d \notin DOMAIN s THEN None ELSE s[i + d]

\* A place is [n : node, d : depth, m : indent mask]: where a walk over the graph is
Place(n, d, m) == [n |-> n, d |-> d, m |-> m]
Mask(m, d, b) == IF d \in DOMAIN m THEN [m EXCEPT ![d] = b] ELSE m

\* graph_prev_node(): down to the last open descendant of the sibling
RECURSIVE LastOpen(_, _)
LastOpen(W, p) ==
    IF ~(Kids(W, p.n) # << >> /\ p.n \notin W.folded) THEN p
    ELSE LastOpen(W, IF Singular(W, p.n) THEN Place(Last(Kids(W, p.n)), p.d, p.m)
                     ELSE Place(Last(Kids(W, p.n)), p.d + 1, Mask(p.m, p.d, FALSE)))

\* graph_prev_node()
PrevPlace(W, p) ==
    LET up == Up(p.n)
        outer == IF ~Singular(W, up) /\ p.d > 0
                 THEN Place(up, p.d - 1, Mask(p.m, p.d - 1, FALSE)) ELSE Place(up, p.d, p.m)
        q == IF IsFirstChild(W, up, p.n) THEN outer
             ELSE LastOpen(W, Place(Sibling(W, p.n, -1), p.d, p.m))
    IN IF IsRoot(p.n) THEN Place(None, 0, p.m)
       ELSE IF ~IsRoot(q.n) /\ ~Singular(W, Up(q.n)) /\ q.d > 0
            THEN [q EXCEPT !.m = Mask(@, q.d - 1, TRUE)] ELSE q

Special(n) == ~IsRoot(n) /\ Last(n) \in Specials
Enter(p) == IF Special(p.n) THEN [p EXCEPT !.d = 0] ELSE p

\* graph_next_node(): up to the first node that has a next sibling
RECURSIVE NextOut(_, _)
NextOut(W, p) ==
    IF IsRoot(p.n) THEN [p EXCEPT !.n = None]
    ELSE IF ~IsLastChild(W, Up(p.n), p.n) THEN Enter([p EXCEPT !.n = Sibling(W, p.n, 1)])
    ELSE NextOut(W, IF ~Singular(W, Up(p.n)) /\ p.d > 0
                    THEN Place(Up(p.n), p.d - 1, Mask(p.m, p.d - 1, FALSE))
                    ELSE [p EXCEPT !.n = Up(p.n)])

\* graph_next_node()
NextPlace(W, p) ==
    LET n == p.n
        m == IF ~IsRoot(n) /\ ~Singular(W, Up(n)) /\ IsLastChild(W, Up(n), n) /\ p.d > 0
             THEN Mask(p.m, p.d - 1, FALSE) ELSE p.m
        first == Kids(W, n)[1]
    IN IF Open(W, n)
       THEN Enter(IF Singular(W, n) THEN Place(first, p.d, m) ELSE Place(first, p.d + 1, Mask(m, p.d, TRUE)))
       ELSE NextOut(W, [p EXCEPT !.m = m])

--------------------------------------------------------------------------------
(* The operations of a window.  A list window (report, session, info) has   *)
(* rows, a graph window a tree.                                             *)

RowOf(W, n) == CHOOSE i \in DOMAIN W.rows : W.rows[i] = n
TopOf(W) == IF W.kind = "graph" THEN << >> ELSE W.rows[1]
TopPlace(W) == Place(W.top, W.depth, W.mask)

PrevOf(W, n) ==
    IF W.kind = "graph" THEN PrevPlace(W, Place(n, 0, W.mask)).n
    ELSE IF RowOf(W, n) = 1 THEN None ELSE W.rows[RowOf(W, n) - 1]
NextOf(W, n) ==
    IF W.kind = "graph" THEN NextPlace(W, Place(n, 0, W.mask)).n
    ELSE IF RowOf(W, n) = Len(W.rows) THEN None ELSE W.rows[RowOf(W, n) + 1]

\* win->top = prev/next(win, win->top, true): the depth and the mask go with it
SetTop(W, p) == [W EXCEPT !.top = p.n, !.depth = p.d, !.mask = p.m]
TopUp(W) == IF W.kind = "graph" THEN SetTop(W, PrevPlace(W, TopPlace(W))) ELSE [W EXCEPT !.top = PrevOf(W, @)]
TopDown(W) == IF W.kind = "graph" THEN SetTop(W, NextPlace(W, TopPlace(W))) ELSE [W EXCEPT !.top = NextOf(W, @)]

\* the rows from a node to the one shown after it: a blank one between two that do not nest
Gap(W, a, b) == IF W.kind = "graph" /\ ~IsFirstChild(W, a, b) THEN 2 ELSE 1

\* tui_last_index()
RECURSIVE CountOn(_, _, _)
CountOn(W, n, i) ==
    LET b == NextOf(W, n) IN IF b = None THEN i ELSE CountOn(W, b, i + Gap(W, n, b))
LastIndex(W) == CountOn(W, W.curr, W.curri)
Relast(W) == [W EXCEPT !.last = LastIndex(W)]

\* tui_window_init()
WindowInit(W) ==
    Relast([W EXCEPT !.top = TopOf(W), !.curr = TopOf(W), !.topi = 0, !.curri = 0, !.depth = 0])

\* tui_window_move_home()
MoveHome(W) == [W EXCEPT !.top = TopOf(W), !.curr = TopOf(W), !.topi = 0, !.curri = 0, !.depth = 0]

\* mutant: the top moves without its depth and mask
MoveUpTopOnly(W) ==
    LET n == PrevOf(W, W.curr)
        i == W.curri - Gap(W, n, W.curr)
        V == [W EXCEPT !.curr = n, !.curri = i]
    IN IF n = None THEN W
       ELSE IF i < W.topi THEN [V EXCEPT !.top = n, !.topi = i] ELSE V

\* tui_window_move_up()
MoveUp(W) ==
    LET n == PrevOf(W, W.curr)
        i == W.curri - Gap(W, n, W.curr)
        V == [W EXCEPT !.curr = n, !.curri = i]
    IN IF n = None THEN W
       ELSE IF i < W.topi THEN [TopUp(V) EXCEPT !.topi = i] ELSE V

\* mutant: the top moves by one node only
ScrollOnce(W) ==
    IF W.curri - W.topi < LINES - 2 THEN W
    ELSE LET V == TopDown(W) IN [V EXCEPT !.topi = @ + Gap(W, W.top, V.top)]

\* "move top if page was moved"
RECURSIVE Scroll(_)
Scroll(W) ==
    IF W.curri - W.topi < LINES - 2 THEN W
    ELSE LET V == TopDown(W) IN Scroll([V EXCEPT !.topi = @ + Gap(W, W.top, V.top)])

\* tui_window_move_down()
MoveDown(W) ==
    LET n == NextOf(W, W.curr)
    IN IF n = None THEN W
       ELSE Scroll([W EXCEPT !.curr = n, !.curri = @ + Gap(W, W.curr, n)])
RECURSIVE MoveUpTo(_, _)
MoveUpTo(W, n) == IF W.curr = n THEN W ELSE MoveUpTo(MoveUp(W), n)
RECURSIVE MoveDownTo(_, _)
MoveDownTo(W, n) == IF W.curr = n THEN W ELSE MoveDownTo(MoveDown(W), n)

\* tui_window_page_up(): the top moves while it is less than a page away from where it was
RECURSIVE PageBack(_)
PageBack(W) ==
    LET V == TopUp(W)
    IN IF W.topi - W.curri >= LINES - 2 \/ PrevOf(W, W.top) = None THEN W
       ELSE PageBack([V EXCEPT !.curri = @ - Gap(W, V.top, W.top)])
PageUp(W) ==
    LET V == PageBack(W)
    IN IF W.curr # W.top THEN [W EXCEPT !.curr = W.top, !.curri = W.topi]
       ELSE [V EXCEPT !.curr = V.top, !.topi = V.curri]

\* tui_window_page_down(): the cursor to the last row before orig + a page
RECURSIVE ToBottom(_, _, _, _)
ToBottom(W, n, i, orig) ==
    LET V == [W EXCEPT !.curr = n, !.curri = i]
        b == NextOf(V, n)
        j == i + Gap(W, n, b)
    IN IF b = None \/ j - orig >= LINES - 2 THEN V ELSE ToBottom(V, b, j, orig)
PageDown(W) ==
    LET n == NextOf(W, W.curr)
        i == W.curri + Gap(W, W.curr, n)
    IN IF n = None THEN W
       ELSE Scroll(ToBottom(W, n, i, IF i - W.topi >= LINES - 2 THEN i ELSE W.topi))

\* tui_window_move_end()
RECURSIVE ToEnd(_)
ToEnd(W) ==
    LET n == NextOf(W, W.curr)
    IN IF n = None THEN W ELSE ToEnd([W EXCEPT !.curr = n, !.curri = @ + Gap(W, W.curr, n)])
MoveEnd(W) == Scroll(ToEnd(W))

--------------------------------------------------------------------------------
(* Folding                                                                  *)

\* fold_graph_node(): the nodes folded afterwards; a leaf is never folded
RECURSIVE FoldNode(_, _, _, _, _)
FoldNode(W, n, fold, all, depth) ==
    LET here == fold /\ depth <= 0
        S == IF here THEN W.folded \union {n} ELSE W.folded \ {n}
        Below(F, k) == FoldNode([W EXCEPT !.folded = F], k, fold, all, depth - 1)
    IN IF (~all /\ depth < 0) \/ Kids(W, n) = << >> THEN W.folded
       ELSE FoldLeft(Below, S, Kids(W, n))

\* mutant: last_index is not counted again
FoldNoLast(W, fold, all, depth) == [W EXCEPT !.folded = FoldNode(W, W.curr, fold, all, depth)]

\* win_collapse_graph(), win_expand_graph()
Fold(W, fold, all, depth) == Relast([W EXCEPT !.folded = FoldNode(W, W.curr, fold, all, depth)])
\* tui_window_move_prev(), tui_window_move_next()
MovePrev(W) ==
    LET to == Sibling(W, W.curr, -1)
    IN IF W.kind # "graph" \/ to = None THEN W
       ELSE Fold(MoveUpTo(Fold(W, TRUE, FALSE, 0), to), TRUE, FALSE, 1)
MoveNext(W) ==
    LET to == Sibling(W, W.curr, 1)
    IN IF W.kind # "graph" \/ to = None THEN W
       ELSE Fold(MoveDownTo(Fold(W, TRUE, FALSE, 0), to), TRUE, FALSE, 1)

\* tui_window_move_parent()
MoveParent(W) ==
    IF W.kind # "graph" \/ IsRoot(W.curr) THEN W
    ELSE Fold(MoveUpTo(W, Up(W.curr)), TRUE, FALSE, 1)

\* win_longest_child_graph()
LongestChild(W) ==
    LET kids == Kids(W, W.curr)
        inner == {k \in ToSet(kids) : Kids(W, k) # << >>}
        V == [W EXCEPT !.folded = (@ \ {W.curr}) \union inner]
        best == {i \in DOMAIN kids : \A j \in DOMAIN kids :
                    W.time[kids[i]] > W.time[kids[j]] \/ (W.time[kids[i]] = W.time[kids[j]] /\ i <= j)}
        to == kids[CHOOSE i \in best : TRUE]
    IN IF W.kind # "graph" THEN W
       ELSE IF kids = << >> \/ \A k \in ToSet(kids) : W.time[k] = 0 THEN V
       ELSE Relast(MoveDownTo([V EXCEPT !.folded = @ \ {to}], to))

\* win_enter_graph(): neither the root nor a leaf folds
EnterGraph(W) ==
    IF IsRoot(W.curr) \/ Kids(W, W.curr) = << >> THEN W
    ELSE Relast([W EXCEPT !.folded = IF W.curr \in @ THEN @ \ {W.curr} ELSE @ \union {W.curr}])

--------------------------------------------------------------------------------
(* Search and the middle of the page                                        *)

NameOf(W, n) == IF IsRoot(n) THEN "exe" ELSE Last(n)[1]

\* tui_window_set_middle_prev()
RECURSIVE LiftTop(_)
LiftTop(W) ==
    LET V == TopUp(W)
    IN IF W.curri - W.topi >= LINES \div 2 \/ PrevOf(W, W.top) = None THEN W
       ELSE LiftTop([V EXCEPT !.topi = @ - Gap(W, V.top, W.top)])
SetMiddlePrev(W, n) == LiftTop(MoveUpTo(W, n))

\* tui_window_set_middle_next(): to the end of the page, or nothing if that is past the end
RECURSIVE EndOfPage(_, _, _)
EndOfPage(W, n, i) ==
    LET b == NextOf(W, n)
    IN IF i - W.topi >= LINES - 2 THEN n
       ELSE IF b = None THEN None ELSE EndOfPage(W, b, i + Gap(W, n, b))
RECURSIVE DropTop(_, _)
DropTop(W, n) ==
    LET b == NextOf(W, n)
        V == TopDown(W)
    IN IF W.curri - W.topi < LINES \div 2 \/ b = None THEN W
       ELSE DropTop([V EXCEPT !.topi = @ + Gap(W, W.top, V.top)], b)
SetMiddleNext(W, n) ==
    LET V == MoveDownTo(W, n)
        last == EndOfPage(V, V.curr, V.curri)
    IN IF last = None THEN V ELSE DropTop(V, PrevOf(V, last))

\* tui_window_set_middle()
SetMiddle(W) ==
    LET off == W.curri - W.topi
    IN IF off < (LINES \div 2) - 2 THEN SetMiddlePrev(W, W.curr)
       ELSE IF off > (LINES \div 2) + 1 THEN SetMiddleNext(W, W.curr) ELSE W

CanSearch(W) == W.kind # "list"

\* tui_window_search_count()
RECURSIVE Matches(_, _, _)
Matches(W, n, s) ==
    IF n = None THEN 0 ELSE (IF NameOf(W, n) = s THEN 1 ELSE 0) + Matches(W, NextOf(W, n), s)
SearchCount(W, s) ==
    IF s = "none" \/ ~CanSearch(W) \/ W.found # -1 THEN W
    ELSE [W EXCEPT !.found = Matches(W, TopOf(W), s)]

\* tui_window_search_next(), tui_window_search_prev()
RECURSIVE SeekNext(_, _, _)
SeekNext(W, n, s) ==
    LET b == NextOf(W, n) IN IF b = None \/ NameOf(W, b) = s THEN b ELSE SeekNext(W, b, s)
RECURSIVE SeekPrev(_, _, _)
SeekPrev(W, n, s) ==
    LET b == PrevOf(W, n) IN IF b = None \/ NameOf(W, b) = s THEN b ELSE SeekPrev(W, b, s)
SearchNext(W, s) ==
    LET n == SeekNext(W, W.curr, s)
    IN IF s = "none" \/ ~CanSearch(W) \/ n = None THEN W ELSE SetMiddleNext(W, n)
SearchPrev(W, s) ==
    LET n == SeekPrev(W, W.curr, s)
    IN IF s = "none" \/ ~CanSearch(W) \/ n = None THEN W ELSE SetMiddlePrev(W, n)

--------------------------------------------------------------------------------
(* Painting                                                                 *)

\* print_graph_indent()
Bars(W, n, p, single) ==
    [i \in 1..p.d |-> IF ~p.m[i - 1] THEN " "
                      ELSE IF i < p.d \/ single THEN "bar"
                      ELSE IF IsLastChild(W, Up(n), n) THEN "end" ELSE "tee"]

\* win_display_graph(), win_display_report()
NodeRow(W, p) ==
    [shows |-> p.n, reverse |-> p.n = W.curr, sign |-> p.n \in W.folded,
     bars |-> IF W.kind = "graph" THEN Bars(W, p.n, p, ~IsRoot(p.n) /\ Singular(W, Up(p.n))) ELSE << >>]
BlankRow(W, p) == [NoRow EXCEPT !.shows = Blank, !.bars = Bars(W, p.n, p, TRUE)]

NextShown(W, p) == IF W.kind = "graph" THEN NextPlace(W, p) ELSE [p EXCEPT !.n = NextOf(W, @)]
PutRow(s, i, row) == IF i \in DOMAIN s THEN [s EXCEPT ![i] = row] ELSE s

\* tui_window_display(): row c shows node p.n; without a full repaint only the rows of the
\* cursor and of its old place, and the blank ones, are painted
RECURSIVE PaintFrom(_, _, _, _, _)
PaintFrom(W, full, p, c, s) ==
    LET s1 == IF full \/ p.n \in {W.curr, W.old} THEN PutRow(s, c, NodeRow(W, p)) ELSE s
        q == NextShown(W, p)
        s2 == PutRow(s1, c + 1, BlankRow(W, q))
    IN IF c > Page THEN s
       ELSE IF q.n = None THEN s1
       ELSE IF Gap(W, p.n, q.n) = 2 THEN PaintFrom(W, full, q, c + 2, s2)
       ELSE PaintFrom(W, full, q, c + 1, s1)
Cleared == [i \in 1..Page |-> NoRow]
Display(W, full, s) == PaintFrom(W, full, TopPlace(W), 1, IF full THEN Cleared ELSE s)

--------------------------------------------------------------------------------
(* The windows                                                              *)

Depths == 0..7
Window(kind) ==
    [kind |-> kind, top |-> None, curr |-> None, old |-> None, topi |-> 0, curri |-> 0, last |-> 0,
     found |-> 0, depth |-> 0, mask |-> [d \in Depths |-> FALSE], folded |-> {},
     order |-> << >>, kids |-> << >>, time |-> << >>, rows |-> << >>]

\* A graph: its nodes in the order in which they were added
TreeWindow(order, time, folded) ==
    [Window("graph") EXCEPT
        !.order = order, !.time = time, !.folded = folded,
        !.kids = [n \in ToSet(order) |-> SelectSeq(order, LAMBDA k : ~IsRoot(k) /\ Up(k) = n)]]

\* tui_graph_init()
GraphWindow(g) == WindowInit(TreeWindow(g.order, g.time, {}))
NoPartial == WindowInit(TreeWindow(<< << >> >>, [n \in {<< >>} |-> 0], {}))

\* tui_session_init(): the sessions, then the commands
Commands == <<"report", "info", "help", "quit">>
SessionWindow(gs) ==
    WindowInit([Window("list") EXCEPT
        !.rows = [i \in DOMAIN gs |-> <<<<"session", i>>>>] \o [i \in DOMAIN Commands |-> <<<<Commands[i], 0>>>>]])

\* tui_info_init()
InfoWindow == WindowInit([Window("list") EXCEPT !.rows = <<<<<<"version", 0>>>>, <<<<"command", 0>>>>>>])

\* tui_report_init(): the functions of all the graphs, in some order
ReportRows(gs) ==
    LET Add(fs, n) == IF IsRoot(n) \/ <<Last(n)>> \in ToSet(fs) THEN fs ELSE Append(fs, <<Last(n)>>)
    IN FoldLeft(Add, << >>, FlattenSeq([i \in DOMAIN gs |-> gs[i].order]))
ReportWindow(gs) == WindowInit([Window("report") EXCEPT !.rows = ReportRows(gs)])

FullGraph(i) == <<"graph", i>>
Partial == <<"partial", 0>>
Report == <<"report", 0>>
Sessions == <<"session", 0>>
Info == <<"info", 0>>
IsGraph(w) == w[1] \in {"graph", "partial"}

Distinct(s) == FoldLeft(LAMBDA t, x : IF x \in ToSet(t) THEN t ELSE Append(t, x), << >>, s)

\* build_partial_graph(): the callers of every call of the function, then all that is
\* called below them added up by name
Backtrace(n, j) ==
    [k \in 1..Len(n) |-> <<<<"=back", 0>>>> \o [i \in 1..k |-> <<n[Len(n) + 1 - i][1], IF i = 1 THEN j ELSE 0>>]]
PartialGraph(W, f) ==
    LET calls == SelectSeq(W.order, LAMBDA n : ~IsRoot(n) /\ NameOf(W, n) = f)
        call == <<<<"=call", 0>>, <<f, 0>>>>
        Below(n) == SelectSeq(W.order, LAMBDA k : IsPrefix(n, k))
        Moved(n, k) == call \o SubSeq(k, Len(n) + 1, Len(k))
        back == FlattenSeq([j \in DOMAIN calls |-> Backtrace(calls[j], j)])
        down == Distinct(FlattenSeq([j \in DOMAIN calls |->
                    [i \in DOMAIN Below(calls[j]) |-> Moved(calls[j], Below(calls[j])[i])]]))
        order == <<<< >>, <<<<"=back", 0>>>>>> \o back \o <<SubSeq(call, 1, 1), call>>
                 \o SelectSeq(down, LAMBDA n : n # call)
        Sum(n) == FoldLeft(LAMBDA a, c : a + (IF n # << >> /\ \E k \in ToSet(Below(c)) : Moved(c, k) = n
                              THEN W.time[CHOOSE k \in ToSet(Below(c)) : Moved(c, k) = n] ELSE 0), 0, calls)
        Time(n) == IF IsRoot(n) \/ n[1] = <<"=call", 0>> THEN Sum(n)
                   ELSE IF Len(n) = 1 THEN 0 ELSE W.time[calls[n[2][2]]]
        folded == {n \in ToSet(back) : Len(n) = 3 /\ \E j \in DOMAIN calls :
                        Len(calls[j]) > 2 /\ n = Backtrace(calls[j], j)[2]}
    IN WindowInit([TreeWindow(order, [n \in ToSet(order) |-> Time(n)], folded) EXCEPT !.found = win[Partial].found])

Init ==
    \E c \in Cases :
        LET gs == c.graphs
            ws == [w \in {FullGraph(i) : i \in DOMAIN gs} \union {Partial, Report, Sessions, Info} |->
                    CASE w = Partial -> NoPartial
                      [] w = Report -> ReportWindow(gs)
                      [] w = Sessions -> SessionWindow(gs)
                      [] w = Info -> InfoWindow
                      [] OTHER -> GraphWindow(gs[w[2]])]
            first == IF Len(gs) > 1 THEN Sessions ELSE FullGraph(1)
        IN /\ keys = c.keys
           /\ win = [ws EXCEPT ![first].old = ws[first].curr]
           /\ at = first
           /\ graph = 1 /\ psess = 1
           /\ search = "none"
           /\ screen = Display(ws[first], TRUE, Cleared)

--------------------------------------------------------------------------------
(* The keys, each with the repaint that ends a turn of tui_main_loop()      *)

W0 == win[at]

\* the end of tui_main_loop()'s loop
Show(w, W, full) ==
    /\ at' = w
    /\ win' = [win EXCEPT ![w] = [W EXCEPT !.old = W.curr]]
    /\ screen' = Display(W, full \/ w # at \/ W.top # win[at].top, screen)

Pressed(k) == k \in keys

\* the cursor keys; they end a search
MoveKey ==
    /\ \/ Pressed("up") /\ Show(at, MoveUp(W0), FALSE)
       \/ Pressed("down") /\ Show(at, MoveDown(W0), FALSE)
       \/ Pressed("ppage") /\ Show(at, PageUp(W0), FALSE)
       \/ Pressed("npage") /\ Show(at, PageDown(W0), FALSE)
       \/ Pressed("home") /\ Show(at, MoveHome(W0), FALSE)
       \/ Pressed("end") /\ Show(at, MoveEnd(W0), FALSE)
    /\ search' = "none"
    /\ UNCHANGED <<keys, graph, psess>>

Refolded(W) == Show(at, W, W.folded # W0.folded)

\* 'c' 'C' 'e' 'E' 'p' 'n' 'u' 'l' and Enter in a graph
FoldKey ==
    /\ IsGraph(at)
    /\ \/ Pressed("c") /\ Refolded(Fold(W0, TRUE, FALSE, 1))
       \/ Pressed("C") /\ Refolded(Fold(W0, TRUE, TRUE, 1))
       \/ Pressed("e") /\ Refolded(Fold(W0, FALSE, FALSE, 1))
       \/ Pressed("E") /\ Refolded(Fold(W0, FALSE, TRUE, 1))
       \/ Pressed("p") /\ Refolded(MovePrev(W0))
       \/ Pressed("n") /\ Refolded(MoveNext(W0))
       \/ Pressed("u") /\ Refolded(MoveParent(W0))
       \/ Pressed("enter") /\ Refolded(EnterGraph(W0))
       \/ Pressed("l") /\ Show(at, LongestChild(W0), LongestChild(W0).curr # W0.curr)
    /\ UNCHANGED <<keys, graph, psess, search>>

\* 'z' '<' '>'
MiddleKey ==
    /\ \/ Pressed("z") /\ Show(at, SetMiddle(W0), FALSE)
       \/ Pressed("<") /\ Show(at, SearchPrev(W0, search), FALSE)
       \/ Pressed(">") /\ Show(at, SearchNext(W0, search), FALSE)
    /\ UNCHANGED <<keys, graph, psess, search>>

\* '/': tui_search_start() forgets the counts of all windows; an escape leaves no search
SearchKey ==
    /\ Pressed("/") /\ CanSearch(W0)
    /\ \E s \in {NameOf(win[Report], n) : n \in ToSet(win[Report].rows)} \union {"none"} :
        LET forgot == [w \in DOMAIN win |-> IF CanSearch(win[w]) THEN [win[w] EXCEPT !.found = -1] ELSE win[w]]
            W == SearchCount(forgot[at], s)
            V == IF W.found > 0 THEN SearchNext(W, s) ELSE W
        IN /\ search' = s
           /\ win' = [forgot EXCEPT ![at] = [V EXCEPT !.old = V.curr]]
           /\ screen' = Display(V, TRUE, screen)
    /\ UNCHANGED <<keys, at, graph, psess>>

\* 'G' 'R' 'I' 'S'
WindowKey ==
    /\ \/ Pressed("G") /\ at # FullGraph(graph)
          /\ Show(FullGraph(graph), SearchCount(win[FullGraph(graph)], search), TRUE)
       \/ Pressed("R") /\ at # Report /\ Show(Report, MoveHome(SearchCount(win[Report], search)), TRUE)
       \/ Pressed("I") /\ at # Info /\ Show(Info, win[Info], TRUE)
       \/ Pressed("S") /\ at # Sessions /\ Show(Sessions, win[Sessions], TRUE)
    /\ UNCHANGED <<keys, graph, psess, search>>

\* 'g': the partial graph of the function under the cursor
PartialKey ==
    /\ Pressed("g") /\ at \notin {Sessions, Info}
    /\ <<<<NameOf(W0, W0.curr), 0>>>> \in ToSet(win[Report].rows)
    /\ Show(Partial, SearchCount(PartialGraph(win[FullGraph(graph)], NameOf(W0, W0.curr)), search), TRUE)
    /\ psess' = graph
    /\ UNCHANGED <<keys, graph, search>>

\* 'r': the function under the cursor in the report
ReportKey ==
    LET row == <<<<NameOf(W0, W0.curr), 0>>>>
        R == SearchCount(win[Report], search)
    IN /\ Pressed("r") /\ IsGraph(at)
       /\ row \in ToSet(R.rows)
       /\ Show(Report, SetMiddleNext(MoveHome(R), row), TRUE)
       /\ UNCHANGED <<keys, graph, psess, search>>

\* 's' and 'f': another sort key, another order of the rows
SortKey ==
    /\ Pressed("s") /\ at = Report
    /\ Show(Report, MoveHome([W0 EXCEPT !.rows = Reverse(@)]), TRUE)
    /\ UNCHANGED <<keys, graph, psess, search>>

\* win_enter_session(): the partial graph follows the session
EnterPartial(i) ==
    LET P == win[Partial]
        call == P.kids[<< >>][2]
    IN IF i = psess \/ P.kids[<< >>] = << >> THEN P
       ELSE PartialGraph(win[FullGraph(i)], NameOf(P, P.kids[call][1]))

\* Enter in the list of sessions; "quit" ends the program
EnterSession ==
    /\ Pressed("enter") /\ at = Sessions
    /\ LET cmd == W0.curr[1][1]
           i == W0.curr[1][2]
       IN \/ cmd = "report" /\ Show(Report, MoveHome(win[Report]), TRUE) /\ UNCHANGED <<graph, psess>>
          \/ cmd = "info" /\ Show(Info, MoveHome(win[Info]), TRUE) /\ UNCHANGED <<graph, psess>>
          \/ cmd = "help" /\ Show(Sessions, W0, TRUE) /\ UNCHANGED <<graph, psess>>
          \/ /\ cmd = "session"
             /\ graph' = i /\ psess' = i
             /\ at' = FullGraph(i)
             /\ LET W == MoveHome(win[FullGraph(i)])
                IN /\ win' = [win EXCEPT
                        ![FullGraph(i)] = [W EXCEPT !.old = W.curr],
                        ![Partial] = EnterPartial(i)]
                   /\ screen' = Display(W, TRUE, screen)
    /\ UNCHANGED <<keys, search>>

Next ==
    \/ MoveKey \/ FoldKey \/ MiddleKey \/ SearchKey \/ WindowKey
    \/ PartialKey \/ ReportKey \/ SortKey \/ EnterSession

Spec == Init /\ [][Next]_vars

--------------------------------------------------------------------------------
(* Properties                                                               *)

\* The row of a node, counted from the first one
RECURSIVE RowFrom(_, _, _, _)
RowFrom(W, n, i, to) ==
    IF n = to THEN i
    ELSE IF NextOf(W, n) = None THEN -1 ELSE RowFrom(W, NextOf(W, n), i + Gap(W, n, NextOf(W, n)), to)
TrueRow(W, n) == RowFrom(W, TopOf(W), 0, n)
RECURSIVE PlaceFrom(_, _, _)
PlaceFrom(W, p, to) == IF p.n = to THEN p ELSE PlaceFrom(W, NextPlace(W, p), to)

\* The row numbers kept in steps by every key (tui_window_move_up() and the others) are the
\* ones a count from the first row gives, the cursor and the top are on rows that are shown
\* (not below a folded node), and the last index is that of the last row.
IndexesAreRows ==
    \A w \in DOMAIN win :
        LET W == win[w]
        IN /\ W.curri = TrueRow(W, W.curr)
           /\ W.topi = TrueRow(W, W.top)
           /\ W.last = CountOn(W, TopOf(W), 0)

\* The cursor is on the page: whatever moves it or the top (page keys, search, folding)
\* leaves it between the header and the footer.
CursorOnPage ==
    \A w \in DOMAIN win : win[w].topi <= win[w].curri /\ win[w].curri - win[w].topi < Page

\* The page shows what a full repaint from the first row of the window would show there:
\* the depth and the indent mask that graph_prev_node() and graph_next_node() carry along as
\* the top moves are those of a walk from the root, and no row that a key changed is left
\* unpainted (win->old, full_redraw).
PageIsTrue ==
    LET W == W0
        start == IF W.kind = "graph"
                 THEN PlaceFrom(W, Place(<< >>, 0, [d \in Depths |-> FALSE]), W.top) ELSE TopPlace(W)
    IN screen = PaintFrom(W, TRUE, start, 1, Cleared)

\* What a window knows of its rows in steps, and what it has painted of them, is what counting
\* and painting from the first row would give (tui_window_move_up() and the others).
WindowIsTrue == IndexesAreRows /\ CursorOnPage /\ PageIsTrue

================================================================================
