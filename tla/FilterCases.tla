----------------------------- MODULE FilterCases -----------------------------
(* Symbols of a program and the items of options, for TLC                    *)
EXTENDS Integers, Sequences

Options == {"filter", "trigger", "argument", "retval", "location", "caller", "auto"}
Sym(n, s, m, p) == [name |-> n, start |-> s, size |-> 8, mod |-> m, plt |-> p]
\* foo has another name, and bar is also called through the PLT.
Syms == <<Sym("foo", 16, "exe", FALSE), Sym("alias", 16, "exe", FALSE), Sym("bar", 24, "exe", TRUE), Sym("bar", 40, "lib", FALSE)>>
A(i, f, s) == [idx |-> i, fmt |-> f, size |-> s]
Auto == [n \in {"foo"} |-> <<A(1, "s", 8), A(0, "p", 8)>>]
It(ns, ex, mod, out, acts) == [names |-> ns, exact |-> ex, mod |-> mod, out |-> out, acts |-> acts]
Act(n, v) == [n |-> n, v |-> v]
Plain(n, acts) == It({n}, TRUE, "", FALSE, acts)
Patt(acts) == It({"foo", "bar"}, FALSE, "", FALSE, acts)
Filters == {Plain("foo", << >>), It({"foo"}, TRUE, "", TRUE, << >>), It({"bar"}, TRUE, "PLT", FALSE, << >>),
            It({"bar"}, TRUE, "lib", TRUE, << >>), Patt(<<Act("depth", 1)>>), Plain("alias", <<Act("clear", {})>>)}
Triggers == {Plain("foo", <<Act("arg", A(1, "x", 4)), Act("retval", A(0, "d", 8))>>), Plain("bar", <<Act("filter", 0), Act("depth", -1)>>),
             Patt(<<Act("trace_off", 0), Act("arg", A(2, "s", 8))>>), Plain("foo", <<Act("notrace", 0), Act("trace_on", 0)>>),
             It({"bar"}, TRUE, "lib", FALSE, <<Act("filter", 0), Act("if", 1), Act("hide", 0)>>), Plain("alias", <<Act("auto-args", 0)>>)}
Items ==
    [o \in Options |->
        CASE o = "filter" -> Filters
          [] o = "trigger" -> Triggers
          [] o = "argument" -> {Patt(<<Act("arg", A(1, "c", 1))>>), Plain("foo", <<Act("arg", A(1, "i", 8)), Act("retval", A(0, "s", 8))>>), Plain("foo", << >>)}
          [] o = "retval" -> {Plain("foo", <<Act("retval", A(0, "s", 8))>>), Patt(<<Act("retval", A(0, "c", 1))>>), Plain("foo", << >>)}
          [] o = "location" -> {Patt(<<>>)}
          [] o = "caller" -> {Plain("bar", << >>)}
          [] o = "auto" -> {It({"foo", "alias", "bar"}, FALSE, "", FALSE, << >>)}]
AgentItems == [o \in {"filter", "trigger", "caller"} |->
        CASE o = "filter" -> {It({"foo"}, TRUE, "", TRUE, << >>), Plain("alias", <<Act("clear", {})>>), Patt(<< >>)}
          [] o = "trigger" -> {Plain("bar", <<Act("notrace", 0)>>), Patt(<<Act("clear", {"FILTER", "TRACE_ON", "TRACE_OFF"})>>),
                              Plain("foo", <<Act("arg", A(1, "u", 2))>>), It({"bar"}, TRUE, "lib", FALSE, <<Act("auto-args", 0), Act("retval", A(0, "x", 4))>>),
                              Plain("foo", <<Act("auto-args", 0)>>)}
          [] o = "caller" -> {Plain("bar", <<Act("clear", {})>>)}]
==============================================================================
