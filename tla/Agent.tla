--------------------------------- MODULE Agent ---------------------------------
(***************************************************************************)
(* libmcount/agent.c with the client of cmds/live.c and the wrapper of     *)
(* dlopen(): a thread in the traced program takes options from clients and *)
(* installs a new tree of triggers while the other threads look up the old *)
(* one; a thread that calls dlopen() installs a tree in the same way.  The *)
(* tree is replaced through the pointer mcount_triggers, and the old one   *)
(* is freed after a pause that stands for a grace period.                  *)
(*                                                                         *)
(* A client is `uftrace live -p PID'; it may be killed.  The program ends  *)
(* by mcount_cleanup(), which stops the agent first.                       *)
(*                                                                         *)
(* Left out: what a filter string means (module Filter), messages no       *)
(* client sends (AGENT_GET_OPT, unknown types), failing system calls other *)
(* than those of agent_init().                                             *)
(***************************************************************************)
EXTENDS Naturals, Sequences, FiniteSets, SequencesExt

CONSTANTS
    Clients,
    Threads,        \* threads of the program that are traced
    OptionLists,    \* what each client may have to send: sequences of different options
    MaxDlopen       \* bound on the calls of dlopen()

TreeOptions == {"filter", "caller", "trigger"}      \* triggers_needs_copy()
ParamOptions == {"trace", "depth", "threshold", "pattern"}
\* No case of agent_apply_option(): from a client that does not look at the capabilities first, as
\* forward_option() does
UnknownOptions == {"unknown"}
Options == TreeOptions \cup ParamOptions \cup UnknownOptions

Killer == 0     \* the connection of agent_kill()
Server == 0     \* the agent among the threads that replace the tree
Swappers == Threads \cup {Server}

ASSUME AgentAssumption ==
    /\ Killer \notin Clients /\ Server \notin Threads
    /\ OptionLists \in [Clients -> SUBSET Seq(Options)] /\ \A c \in Clients : \A s \in OptionLists[c] : IsInjective(s)
    /\ MaxDlopen \in Nat

VARIABLES
    agent,      \* [pc, c]: the agent thread and whom it serves
    agent_run,
    sock,       \* [listen, file, queue]: the socket of the agent
    client,     \* [pc, todo, sent, acked, ok] of every client
    conn,       \* [req, resp] of every client: what is in the socket
    params,     \* mcount_depth, mcount_threshold and the like: who set them last
    tree,       \* the trees of triggers that were allocated: what is in them
    freed,      \* the ones that were freed
    cur,        \* mcount_triggers
    reader,     \* the tree that a thread is looking into, 0 if none
    swap,       \* [pc, new, old, wait] of every thread that replaces the tree: its own tree, the one
                \* it read or found, the threads it has to wait for
    raced,      \* history: a compare-and-swap found another tree than the one read before it
    opened,     \* how often dlopen() was called
    proc        \* the end of the program: [pc, up]

vars == <<agent, agent_run, sock, client, conn, params, tree, freed, cur, reader, swap, raced, opened, proc>>

Peers == Clients \cup {Killer}

Alive == proc.pc \notin {"killed", "ended"}

-----------------------------------------------------------------------------
(* The traced threads: uftrace_match_filter() *)

\* mcount_guard_recursion() keeps a thread in the wrapper of dlopen() from looking up.
Lookup(t) ==
    /\ Alive /\ reader[t] = 0 /\ swap[t].pc = "none" /\ proc.pc # "finish"
    /\ reader' = [reader EXCEPT ![t] = cur]
    /\ UNCHANGED <<agent, agent_run, sock, client, conn, params, tree, freed, cur, swap, raced, opened, proc>>

LookupDone(t) ==
    /\ Alive /\ reader[t] # 0
    /\ reader' = [reader EXCEPT ![t] = 0]
    /\ swap' = [x \in Swappers |-> [swap[x] EXCEPT !.wait = @ \ {t}]]
    /\ UNCHANGED <<agent, agent_run, sock, client, conn, params, tree, freed, cur, raced, opened, proc>>

-----------------------------------------------------------------------------
(* swap_triggers(), by the agent or by a thread in dlopen() *)

NoSwap == [pc |-> "none", new |-> 0, old |-> 0, wait |-> {}]

Called(x) == Alive /\ swap[x].pc = "new" /\ (x = Server => agent.pc = "swap")

\* *old is read ...
SwapRead(x) ==
    /\ Called(x)
    /\ swap' = [swap EXCEPT ![x].pc = "cas", ![x].old = cur]
    /\ UNCHANGED <<agent, agent_run, sock, client, conn, params, tree, freed, cur, reader, raced, opened, proc>>

\* Mutant: the tree that was replaced is freed at once.
GraceNot(old) == {}

\* sleep(1): who looks into the old tree when it is replaced has time to finish.
Grace(old) == {t \in Threads : reader[t] = old}

\* ... then replaced by __sync_val_compare_and_swap(old, *old, new), which gives back what it finds,
\* be it what was read or not ...
SwapCas(x) ==
    /\ Alive /\ swap[x].pc = "cas"
    /\ cur' = IF cur = swap[x].old THEN swap[x].new ELSE cur
    /\ raced' = (raced \/ cur # swap[x].old)
    /\ swap' = [swap EXCEPT ![x].pc = "grace", ![x].old = cur, ![x].wait = Grace(cur)]
    /\ UNCHANGED <<agent, agent_run, sock, client, conn, params, tree, freed, reader, opened, proc>>

\* ... and what it gave back is freed after the pause.
SwapFree(x) ==
    /\ Alive /\ swap[x].pc = "grace" /\ swap[x].wait = {}
    /\ freed' = freed \cup {swap[x].old}
    /\ swap' = [swap EXCEPT ![x] = NoSwap]
    /\ UNCHANGED <<agent, agent_run, sock, client, conn, params, tree, cur, reader, raced, opened, proc>>

-----------------------------------------------------------------------------
(* The agent: agent_apply_commands() *)

AgentAt(pc) == Alive /\ agent.pc = pc

Init_(ok) ==
    /\ AgentAt("init")
    /\ IF ok THEN /\ sock' = [sock EXCEPT !.listen = TRUE, !.file = TRUE]
                  /\ agent' = [agent EXCEPT !.pc = "loop"] /\ agent_run' = TRUE
       ELSE agent' = [agent EXCEPT !.pc = "gone"] /\ UNCHANGED <<sock, agent_run>>
    /\ UNCHANGED <<client, conn, params, tree, freed, cur, reader, swap, raced, opened, proc>>

\* The loop is left only between two connections: who waits in accept() does not look again.
Loop ==
    /\ AgentAt("loop") /\ agent_run
    /\ agent' = [agent EXCEPT !.pc = "accept"]
    /\ UNCHANGED <<agent_run, sock, client, conn, params, tree, freed, cur, reader, swap, raced, opened, proc>>

Accept ==
    /\ AgentAt("accept") /\ sock.queue # << >>
    /\ agent' = [agent EXCEPT !.pc = "read", !.c = Head(sock.queue)]
    /\ sock' = [sock EXCEPT !.queue = Tail(@)]
    /\ UNCHANGED <<agent_run, client, conn, params, tree, freed, cur, reader, swap, raced, opened, proc>>

Gone(c) == c # Killer /\ client[c].pc = "dead"

\* Writing to a client that is gone raises SIGPIPE, which nobody in the program handles.
Answer(type) ==
    /\ conn' = [conn EXCEPT ![agent.c] = [@ EXCEPT !.req = << >>, !.resp = <<type>>]]
    /\ proc' = IF Gone(agent.c) THEN [proc EXCEPT !.pc = "killed"] ELSE proc

Mine == swap[Server]

\* Mutant: the options go to the tree that is in use.
CopyNot == [id |-> cur, tree |-> tree]

\* Mutant: every option gets a new copy.
CopyAgain == [id |-> Len(tree) + 1, tree |-> Append(tree, tree[cur])]

\* triggers_copy, made with the first option of a connection that needs it
Copy == IF Mine.pc = "new" THEN [id |-> Mine.new, tree |-> tree]
        ELSE [id |-> Len(tree) + 1, tree |-> Append(tree, tree[cur])]

\* agent_apply_option()
SetOption(opt) ==
    \/ /\ opt \in TreeOptions
       /\ tree' = [Copy.tree EXCEPT ![Copy.id] = @ \cup {<<agent.c, opt>>}]
       /\ swap' = [swap EXCEPT ![Server].pc = "new", ![Server].new = Copy.id]
       /\ Answer("OK") /\ UNCHANGED params
    \/ opt \in ParamOptions /\ params' = [params EXCEPT ![opt] = agent.c] /\ Answer("OK") /\ UNCHANGED <<tree, swap>>
    \/ opt \in UnknownOptions /\ Answer("ERR") /\ UNCHANGED <<params, tree, swap>>

\* A message of the connection
Serve ==
    /\ AgentAt("read") /\ conn[agent.c].req # << >>
    /\ LET msg == Head(conn[agent.c].req)
       IN \/ msg = "QUERY" /\ Answer("OK") /\ UNCHANGED <<agent, tree, params, swap>>
          \/ msg = "CLOSE" /\ Answer("OK") /\ agent' = [agent EXCEPT !.pc = "swap"] /\ UNCHANGED <<tree, params, swap>>
          \/ msg \in Options /\ SetOption(msg) /\ UNCHANGED agent
    /\ UNCHANGED <<agent_run, sock, client, freed, cur, reader, raced, opened>>

\* The client is gone, and the agent tells it that nothing could be read.
ServeGone ==
    /\ AgentAt("read") /\ conn[agent.c].req = << >> /\ Gone(agent.c)
    /\ proc' = [proc EXCEPT !.pc = "killed"]
    /\ UNCHANGED <<agent, agent_run, sock, client, conn, params, tree, freed, cur, reader, swap, raced, opened>>

\* The copy, if there is one, was swapped.
CloseConn ==
    /\ AgentAt("swap") /\ Mine.pc = "none"
    /\ agent' = [agent EXCEPT !.pc = "loop"]
    /\ UNCHANGED <<agent_run, sock, client, conn, params, tree, freed, cur, reader, swap, raced, opened, proc>>

\* Mutant: the file of the socket is left behind.
FiniKeepsFile ==
    /\ AgentAt("loop") /\ ~agent_run
    /\ sock' = [sock EXCEPT !.listen = FALSE]
    /\ agent' = [agent EXCEPT !.pc = "gone"]
    /\ UNCHANGED <<agent_run, client, conn, params, tree, freed, cur, reader, swap, raced, opened, proc>>

\* agent_fini()
Fini ==
    /\ AgentAt("loop") /\ ~agent_run
    /\ sock' = [sock EXCEPT !.listen = FALSE, !.file = FALSE]
    /\ agent' = [agent EXCEPT !.pc = "gone"]
    /\ UNCHANGED <<agent_run, client, conn, params, tree, freed, cur, reader, swap, raced, opened, proc>>

-----------------------------------------------------------------------------
(* The client: forward_options() *)

ClientAt(c, pc) == client[c].pc = pc

Connect(c) ==
    /\ ClientAt(c, "start")
    /\ IF Alive /\ sock.listen
       THEN /\ sock' = [sock EXCEPT !.queue = Append(@, c)]
            /\ client' = [client EXCEPT ![c].pc = "send"]
       ELSE client' = [client EXCEPT ![c] = [@ EXCEPT !.pc = "done", !.ok = FALSE]] /\ UNCHANGED sock
    /\ UNCHANGED <<agent, agent_run, conn, params, tree, freed, cur, reader, swap, raced, opened, proc>>

\* The other side is closed.
HungUp(c) == ~Alive \/ (~sock.listen /\ (c # agent.c \/ agent.pc = "gone"))

Send(c) ==
    /\ ClientAt(c, "send")
    /\ IF HungUp(c) THEN client' = [client EXCEPT ![c] = [@ EXCEPT !.pc = "done", !.ok = FALSE]] /\ UNCHANGED conn
       ELSE /\ conn' = [conn EXCEPT ![c].req = <<Head(client[c].todo)>>]
            /\ client' = [client EXCEPT ![c].pc = "recv"]
    /\ UNCHANGED <<agent, agent_run, sock, params, tree, freed, cur, reader, swap, raced, opened, proc>>

\* The response; the last message is CLOSE, and it comes at once after an option that is refused.
Receive(c) ==
    /\ ClientAt(c, "recv")
    /\ \/ /\ conn[c].resp = <<"OK">>
          /\ conn' = [conn EXCEPT ![c].resp = << >>]
          /\ client' = [client EXCEPT ![c] = [@ EXCEPT !.acked = client[c].acked \cup {Head(client[c].todo)},
                                                       !.todo = Tail(client[c].todo),
                                                       !.pc = IF Len(client[c].todo) = 1 THEN "done" ELSE "send"]]
       \/ /\ conn[c].resp = <<"ERR">>
          /\ conn' = [conn EXCEPT ![c].resp = << >>]
          /\ client' = [client EXCEPT ![c] = [@ EXCEPT !.sent = client[c].sent \cap client[c].acked,
                                                       !.todo = <<"CLOSE">>, !.pc = "send", !.ok = FALSE]]
       \/ /\ conn[c].resp = << >> /\ HungUp(c)
          /\ client' = [client EXCEPT ![c] = [@ EXCEPT !.pc = "done", !.ok = FALSE]] /\ UNCHANGED conn
    /\ UNCHANGED <<agent, agent_run, sock, params, tree, freed, cur, reader, swap, raced, opened, proc>>

\* The client is killed.
ClientDies(c) ==
    /\ client[c].pc \in {"send", "recv"}
    /\ client' = [client EXCEPT ![c].pc = "dead"]
    /\ UNCHANGED <<agent, agent_run, sock, conn, params, tree, freed, cur, reader, swap, raced, opened, proc>>

-----------------------------------------------------------------------------
(* dlopen(): a new tree with the triggers for the library from the environment *)

Dlopen(t) ==
    /\ proc.pc = "run" /\ reader[t] = 0 /\ swap[t].pc = "none" /\ opened < MaxDlopen
    /\ tree' = Append(tree, {})
    /\ swap' = [swap EXCEPT ![t].pc = "new", ![t].new = Len(tree) + 1]
    /\ opened' = opened + 1
    /\ UNCHANGED <<agent, agent_run, sock, client, conn, params, freed, cur, reader, raced, proc>>

-----------------------------------------------------------------------------
(* The end of the program: mcount_cleanup() with agent_kill() *)

Kill ==
    /\ proc.pc = "run"
    /\ IF agent_run
       THEN /\ agent_run' = FALSE
            /\ proc' = [proc EXCEPT !.pc = "kill", !.up = TRUE]
       ELSE proc' = [proc EXCEPT !.pc = "finish"] /\ UNCHANGED agent_run
    /\ UNCHANGED <<agent, sock, client, conn, params, tree, freed, cur, reader, swap, raced, opened>>

\* Without a file connect() fails, and so does the write that follows.
KillConnect ==
    /\ proc.pc = "kill"
    /\ IF sock.listen
       THEN /\ sock' = [sock EXCEPT !.queue = Append(@, Killer)]
            /\ proc' = [proc EXCEPT !.pc = "send"]
       ELSE /\ sock' = [sock EXCEPT !.file = FALSE]
            /\ proc' = [proc EXCEPT !.pc = "finish"]
    /\ UNCHANGED <<agent, agent_run, client, conn, params, tree, freed, cur, reader, swap, raced, opened>>

\* The agent may have closed the socket since, and the program gets SIGPIPE.
KillSend ==
    /\ proc.pc = "send"
    /\ IF HungUp(Killer) THEN proc' = [proc EXCEPT !.pc = "killed"] /\ UNCHANGED conn
       ELSE /\ conn' = [conn EXCEPT ![Killer].req = <<"CLOSE">>]
            /\ proc' = [proc EXCEPT !.pc = "wait"]
    /\ UNCHANGED <<agent, agent_run, sock, client, params, tree, freed, cur, reader, swap, raced, opened>>

\* Mutant: only an answer ends the wait.
KillWaitAnswer ==
    /\ proc.pc = "wait" /\ conn[Killer].resp # << >> /\ agent.pc = "gone"
    /\ proc' = [proc EXCEPT !.pc = "finish"]
    /\ UNCHANGED <<agent, agent_run, sock, client, conn, params, tree, freed, cur, reader, swap, raced, opened>>

\* The answer and pthread_join(), or the connection is reset
KillWait ==
    /\ proc.pc = "wait"
    /\ \/ conn[Killer].resp # << >> /\ agent.pc = "gone" /\ UNCHANGED sock
       \/ conn[Killer].resp = << >> /\ HungUp(Killer) /\ sock' = [sock EXCEPT !.file = FALSE]
    /\ proc' = [proc EXCEPT !.pc = "finish"]
    /\ UNCHANGED <<agent, agent_run, client, conn, params, tree, freed, cur, reader, swap, raced, opened>>

\* mcount_filter_finish(): other threads have stopped tracing by now (mcount_finish()).
Finish ==
    /\ proc.pc = "finish" /\ \A t \in Threads : reader[t] = 0
    /\ freed' = freed \cup {cur}
    /\ proc' = [proc EXCEPT !.pc = "ended"]
    /\ UNCHANGED <<agent, agent_run, sock, client, conn, params, tree, cur, reader, swap, raced, opened>>

-----------------------------------------------------------------------------

Init ==
    /\ agent = [pc |-> "init", c |-> Killer]
    /\ agent_run = FALSE
    /\ sock = [listen |-> FALSE, file |-> FALSE, queue |-> << >>]
    /\ \E s \in [Clients -> UNION {OptionLists[c] : c \in Clients}] :
         /\ \A c \in Clients : s[c] \in OptionLists[c]
         /\ client = [c \in Clients |-> [pc |-> "start", todo |-> <<"QUERY">> \o s[c] \o <<"CLOSE">>, sent |-> ToSet(s[c]), acked |-> {}, ok |-> TRUE]]
    /\ conn = [c \in Peers |-> [req |-> << >>, resp |-> << >>]]
    /\ params = [o \in ParamOptions |-> Killer]
    /\ tree = <<{}>> /\ freed = {} /\ cur = 1
    /\ reader = [t \in Threads |-> 0]
    /\ swap = [x \in Swappers |-> NoSwap]
    /\ raced = FALSE /\ opened = 0
    /\ proc = [pc |-> "run", up |-> FALSE]

SwapStep(x) == SwapRead(x) \/ SwapCas(x) \/ SwapFree(x)
AgentStep == (\E ok \in BOOLEAN : Init_(ok)) \/ Loop \/ Accept \/ Serve \/ ServeGone \/ SwapStep(Server) \/ CloseConn \/ Fini
ClientStep(c) == Connect(c) \/ Send(c) \/ Receive(c)
EndStep == KillConnect \/ KillSend \/ KillWait \/ Finish

Next ==
    \/ AgentStep \/ Kill \/ EndStep
    \/ \E c \in Clients : ClientStep(c) \/ ClientDies(c)
    \/ \E t \in Threads : Lookup(t) \/ LookupDone(t) \/ Dlopen(t) \/ SwapStep(t)

\* The scheduler runs every thread; nobody has to start a client, dlopen() or the end.
Fairness ==
    /\ WF_vars(AgentStep) /\ WF_vars(EndStep)
    /\ \A c \in Clients : WF_vars(Send(c) \/ Receive(c))
    /\ \A t \in Threads : WF_vars(LookupDone(t) \/ SwapStep(t))

Spec == Init /\ [][Next]_vars /\ Fairness

-----------------------------------------------------------------------------
(* Properties *)

\* No thread looks into a tree of triggers that was freed (swap_triggers()).
NoUseAfterFree ==
    /\ \A t \in Threads : reader[t] \notin freed
    /\ Alive => cur \notin freed

Together(content, c) ==
    LET tops == {<<c, o>> : o \in client[c].sent \cap TreeOptions}
    IN tops \subseteq content \/ tops \cap content = {}

\* The options of a connection come into force together: whatever tree a thread finds has
\* all or none of what a client sends in one connection, up to the option that is refused
\* (triggers_copy in agent_apply_commands()).
AllOrNothing == \A t \in Threads, c \in Clients : reader[t] # 0 => Together(tree[reader[t]], c)

\* Trees are neither lost nor freed twice: all but the ones in use are freed when nobody swaps.
NoTreeLost ==
    (\A x \in Swappers : swap[x].pc = "none") /\ Alive => freed = DOMAIN tree \ {cur}

\* When agent_kill() saw the agent running, the program ends after the agent did, and the file
\* of the socket is gone, even if a client was connected.
CleanEnd == proc.pc \in {"finish", "ended"} /\ proc.up => agent.pc = "gone" /\ ~sock.file

Acked(c) == client[c].pc = "done" /\ client[c].ok
InForce(c) ==
    \/ {<<c, o>> : o \in client[c].sent \cap TreeOptions} \subseteq tree[cur]
    \/ opened > 0 \/ ~Alive \/ proc.pc # "run"

\* A client that was told that all went well finds its options in force in the end, unless the
\* program ends or dlopen() starts over with the options of the environment.
AckedInForce == \A c \in Clients : Acked(c) ~> InForce(c)

AskedToEnd == proc.pc = "kill"
Ended == proc.pc \in {"ended", "killed"}

\* The program can always end: agent_kill() does not wait forever.
EndsOnceAsked == AskedToEnd ~> Ended

\* The tree of triggers is replaced as a whole under the threads that look into it, and every
\* tree is freed once and only when nobody does, however the agent and threads in dlopen() take
\* turns, until a compare-and-swap of swap_triggers() finds another tree than the one read before
\* it: that swap frees the tree in use (agent_apply_commands()).
TreesReplaced == ~raced => NoUseAfterFree /\ AllOrNothing /\ NoTreeLost

\* The program ends once it is asked to, after its agent and without a socket file left
\* (agent_kill(), agent_fini()).
EndsCleanly == EndsOnceAsked /\ []CleanEnd

=============================================================================
