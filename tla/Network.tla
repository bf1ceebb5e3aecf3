-------------------------------- MODULE Network --------------------------------
(***************************************************************************)
(* record --host and cmds/recv.c: recorders send their data over TCP, and  *)
(* one server saves what they send.  The writer threads of a recorder      *)
(* share its socket without a lock; a message has a header and a body, and *)
(* a thread may be stopped in between when the socket is full: messages of *)
(* several writers can get mixed up.  A server that takes another message  *)
(* for a body is then somewhere inside a message, and what it finds there  *)
(* is taken never to look like a header.                                   *)
(*                                                                         *)
(* Left out: byte order, names of directories (each recorder has its own), *)
(* failures of the file system and of epoll, signals to the server.        *)
(***************************************************************************)
EXTENDS Naturals, Sequences, FiniteSets, SequencesExt

CONSTANTS
    Recorders,
    WritersOf(_),   \* the writer threads of a recorder; each has a task of its own
    MaxData(_),     \* bound on the data messages of each writer of a recorder
    Meta            \* files sent at the end: task.txt, maps, symbols, info, ...

Main == 0       \* the main thread of a recorder

ASSUME NetworkAssumption ==
    /\ \A r \in Recorders : IsFiniteSet(WritersOf(r)) /\ Main \notin WritersOf(r) /\ MaxData(r) \in Nat
    /\ Meta \in Seq(STRING) /\ IsInjective(Meta)

VARIABLES
    snd,        \* the recorders: [pc, left (data to send), rest (metadata to send)]
    part,       \* the message a thread of a recorder is in the middle of
    wire,       \* the sockets: sequences of headers and bodies
    srv,        \* the server: [up, pc, sock, head, list (client_list), epoll]
    files,      \* what the server has saved: sequences of [key, data]
    cmds,       \* the recorders for which run_cmd was started
    mixed       \* (history) the recorders of which a message was put into the middle of another

vars == <<snd, part, wire, srv, files, cmds, mixed>>

\* A message: `key' is the task or the file, `data' what is in it
Msg(type, key, data) == [type |-> type, key |-> key, data |-> data]
NoMsg == Msg("NONE", Main, 0)

Quiet(r) == \A w \in WritersOf(r) : part[r][w] = NoMsg /\ snd[r].left[w] = 0

-----------------------------------------------------------------------------
(* A recorder *)

Piece(is, m) == [is |-> is, m |-> m]

\* writev_all() of a header and a body, which may stop after the header
Put(r, w, m) ==
    /\ \/ wire' = [wire EXCEPT ![r] = @ \o <<Piece("head", m), Piece("body", m)>>] /\ UNCHANGED part
       \/ wire' = [wire EXCEPT ![r] = Append(@, Piece("head", m))] /\ part' = [part EXCEPT ![r][w] = m]
    /\ mixed' = mixed \cup (IF \E v \in WritersOf(r) : part[r][v] # NoMsg THEN {r} ELSE {})

\* Mutant: after a partial send the message is sent again from its start.
PutRestAgain(r, w) ==
    /\ snd[r].pc \notin {"dead", "gone"} /\ part[r][w] # NoMsg
    /\ wire' = [wire EXCEPT ![r] = @ \o <<Piece("head", part[r][w]), Piece("body", part[r][w])>>]
    /\ part' = [part EXCEPT ![r][w] = NoMsg]
    /\ UNCHANGED <<snd, srv, files, cmds, mixed>>

\* writev_all() goes on where the socket was full.
PutRest(r, w) ==
    /\ snd[r].pc \notin {"dead", "gone"} /\ part[r][w] # NoMsg
    /\ wire' = [wire EXCEPT ![r] = Append(@, Piece("body", part[r][w]))]
    /\ part' = [part EXCEPT ![r][w] = NoMsg]
    /\ UNCHANGED <<snd, srv, files, cmds, mixed>>

\* setup_client_socket() and send_trace_dir_name()
Connect(r) ==
    /\ snd[r].pc = "start"
    /\ IF srv.up THEN Put(r, Main, Msg("DIR_NAME", Main, 0)) /\ snd' = [snd EXCEPT ![r].pc = "data"]
       ELSE snd' = [snd EXCEPT ![r].pc = "gone"] /\ UNCHANGED <<wire, part, mixed>>
    /\ UNCHANGED <<srv, files, cmds>>

\* write_buffer() in a writer thread
SendData(r, w) ==
    /\ snd[r].pc = "data" /\ snd[r].left[w] > 0 /\ part[r][w] = NoMsg /\ part[r][Main] = NoMsg /\ srv.up
    /\ Put(r, w, Msg("DATA", w, snd[r].left[w]))
    /\ snd' = [snd EXCEPT ![r].left[w] = @ - 1]
    /\ UNCHANGED <<srv, files, cmds>>

\* Mutant: the main thread does not wait for the writers.
JoinNot(r) ==
    /\ snd[r].pc = "data" /\ part[r][Main] = NoMsg
    /\ snd' = [snd EXCEPT ![r].pc = "meta", ![r].left = [w \in WritersOf(r) |-> 0]]
    /\ UNCHANGED <<part, wire, srv, files, cmds, mixed>>

\* finish_writers() waits for the writer threads.
Join(r) ==
    /\ snd[r].pc = "data" /\ Quiet(r) /\ part[r][Main] = NoMsg
    /\ snd' = [snd EXCEPT ![r].pc = "meta"]
    /\ UNCHANGED <<part, wire, srv, files, cmds, mixed>>

\* Mutant: the recorder closes its socket without END.
SendMetaNoEnd(r) ==
    /\ snd[r].pc = "meta" /\ part[r][Main] = NoMsg /\ srv.up
    /\ IF snd[r].rest # << >>
       THEN /\ Put(r, Main, Msg("META", Head(snd[r].rest), 1))
            /\ snd' = [snd EXCEPT ![r].rest = Tail(@)]
       ELSE snd' = [snd EXCEPT ![r].pc = "gone"] /\ UNCHANGED <<wire, part, mixed>>
    /\ UNCHANGED <<srv, files, cmds>>

\* write_symbol_files(): a file after the other, and END
SendMeta(r) ==
    /\ snd[r].pc = "meta" /\ part[r][Main] = NoMsg /\ srv.up
    /\ IF snd[r].rest # << >>
       THEN /\ Put(r, Main, Msg("META", Head(snd[r].rest), 1))
            /\ snd' = [snd EXCEPT ![r].rest = Tail(@)]
       ELSE /\ wire' = [wire EXCEPT ![r] = Append(@, Piece("head", Msg("END", Main, 0)))]
            /\ snd' = [snd EXCEPT ![r].pc = "gone"] /\ UNCHANGED <<part, mixed>>
    /\ UNCHANGED <<srv, files, cmds>>

\* The server is gone: pr_err().
SendFails(r) ==
    /\ snd[r].pc \in {"data", "meta"} /\ ~srv.up
    /\ snd' = [snd EXCEPT ![r].pc = "dead"]
    /\ UNCHANGED <<part, wire, srv, files, cmds, mixed>>

RecorderDies(r) ==
    /\ snd[r].pc \in {"data", "meta"}
    /\ snd' = [snd EXCEPT ![r].pc = "dead"]
    /\ UNCHANGED <<part, wire, srv, files, cmds, mixed>>

-----------------------------------------------------------------------------
(* The server: the loop of command_recv() *)

\* handle_server_sock()
Accept(r) ==
    /\ srv.up /\ srv.pc = "poll" /\ snd[r].pc # "start" /\ wire[r] # << >> /\ r \notin srv.epoll /\ r \notin cmds
    /\ srv' = [srv EXCEPT !.epoll = @ \cup {r}]
    /\ UNCHANGED <<snd, part, wire, files, cmds, mixed>>

\* handle_client_sock(): the connection of a recorder was reset (EPOLLERR, EPOLLHUP).
HangUp(r) ==
    /\ srv.up /\ srv.pc = "poll" /\ r \in srv.epoll /\ snd[r].pc = "dead"
    /\ srv' = [srv EXCEPT !.list = @ \ {r}, !.epoll = @ \ {r}]
    /\ wire' = [wire EXCEPT ![r] = << >>]
    /\ UNCHANGED <<snd, part, files, cmds, mixed>>

Fail == srv' = [srv EXCEPT !.up = FALSE] /\ UNCHANGED <<wire, files, cmds>>

\* handle_client_sock() reads a header: read_all() waits for it, and fails at the end of the
\* stream of a recorder that has died.
ReadHead(r) ==
    /\ srv.up /\ srv.pc = "poll" /\ r \in srv.epoll
    /\ \/ /\ wire[r] = << >> /\ snd[r].pc = "dead" /\ Fail
       \/ /\ wire[r] # << >> /\ Head(wire[r]).is # "head" /\ Fail      \* invalid message
       \/ /\ wire[r] # << >> /\ Head(wire[r]).is = "head" /\ Head(wire[r]).m.type = "END"
          /\ wire' = [wire EXCEPT ![r] = Tail(@)]
          /\ srv' = [srv EXCEPT !.list = @ \ {r}, !.epoll = @ \ {r}]
          /\ cmds' = cmds \cup {r} /\ UNCHANGED files
       \/ /\ wire[r] # << >> /\ Head(wire[r]).is = "head" /\ Head(wire[r]).m.type # "END"
          /\ wire' = [wire EXCEPT ![r] = Tail(@)]
          /\ srv' = [srv EXCEPT !.pc = "body", !.sock = r, !.head = Head(wire[r]).m]
          /\ UNCHANGED <<files, cmds>>
    /\ UNCHANGED <<snd, part, mixed>>

\* Mutant: every message starts its file again.
SavedOnly(s, m) == <<m>>

\* write_client_file() appends.
Saved(s, m) == Append(s, m)

\* recv_trace_dir_name(), recv_trace_data(), recv_trace_metadata(), recv_trace_info(), ...
ReadBody ==
    LET r == srv.sock
        m == srv.head
    IN /\ srv.up /\ srv.pc = "body"
       /\ \/ /\ wire[r] = << >> \/ (Len(wire[r]) = 1 /\ Head(wire[r]).is # "body")
             /\ snd[r].pc = "dead" /\ Fail
          \/ /\ wire[r] # << >> /\ Head(wire[r]).is = "body"
             /\ wire' = [wire EXCEPT ![r] = Tail(@)]
             /\ srv' = [srv EXCEPT !.pc = "poll", !.list = IF m.type = "DIR_NAME" THEN @ \cup {r} ELSE @]
             /\ files' = IF m.type = "DIR_NAME" THEN files ELSE [files EXCEPT ![r] = Saved(@, Head(wire[r]).m)]
             /\ UNCHANGED cmds
          \/ \* another message instead of the body: it ends somewhere in the piece after this one
             /\ Len(wire[r]) > 1 /\ Head(wire[r]).is # "body"
             /\ wire' = [wire EXCEPT ![r] = <<Piece("body", NoMsg)>> \o Tail(Tail(@))]
             /\ srv' = [srv EXCEPT !.pc = "poll"]
             /\ files' = [files EXCEPT ![r] = Saved(@, NoMsg)]
             /\ UNCHANGED cmds
       /\ UNCHANGED <<snd, part, mixed>>

-----------------------------------------------------------------------------

Init ==
    /\ snd = [r \in Recorders |-> [pc |-> "start", left |-> [w \in WritersOf(r) |-> MaxData(r)], rest |-> Meta]]
    /\ part = [r \in Recorders |-> [w \in WritersOf(r) \cup {Main} |-> NoMsg]]
    /\ wire = [r \in Recorders |-> << >>]
    /\ srv = [up |-> TRUE, pc |-> "poll", sock |-> Main, head |-> NoMsg, list |-> {}, epoll |-> {}]
    /\ files = [r \in Recorders |-> << >>]
    /\ cmds = {}
    /\ mixed = {}

RecorderStep(r) ==
    \/ Connect(r) \/ Join(r) \/ SendMeta(r) \/ SendFails(r)
    \/ \E w \in WritersOf(r) : SendData(r, w)
    \/ \E w \in WritersOf(r) \cup {Main} : PutRest(r, w)

ServerStep == (\E r \in Recorders : Accept(r) \/ ReadHead(r) \/ HangUp(r)) \/ ReadBody

Next == ServerStep \/ \E r \in Recorders : RecorderStep(r) \/ RecorderDies(r)

\* Threads and the server run, and epoll reports every socket in turn.
Fairness ==
    /\ \A r \in Recorders : WF_vars(RecorderStep(r)) /\ WF_vars(Accept(r)) /\ SF_vars(ReadHead(r))
    /\ WF_vars(ReadBody)

Spec == Init /\ [][Next]_vars /\ Fairness

-----------------------------------------------------------------------------
(* Properties *)

\* What a recorder sends to be saved
DataOf(r) == {Msg("DATA", w, d) : w \in WritersOf(r), d \in 1 .. MaxData(r)}
MetaFiles == {Msg("META", Meta[i], 1) : i \in DOMAIN Meta}

\* A task's data counts down, and the files come in the order of Meta.
WrittenBefore(x, y) ==
    \/ x.type = "DATA" /\ y.type = "DATA" /\ x.key = y.key /\ x.data > y.data
    \/ x.type = "META" /\ y.type = "META" /\ \E i, j \in DOMAIN Meta : i < j /\ x.key = Meta[i] /\ y.key = Meta[j]

\* When the command for a recorder is run, all of its data is there and nothing twice: of every
\* task the data in the order it was written, and every file (END is the last message of all threads).
WholeData ==
    \A r \in cmds :
        /\ ToSet(files[r]) = DataOf(r) \cup MetaFiles /\ IsInjective(files[r])
        /\ \A i, j \in DOMAIN files[r] : WrittenBefore(files[r][i], files[r][j]) => i < j

\* Nothing has gone wrong with what a recorder sends.
Orderly(r) == snd[r].pc # "dead" /\ r \notin mixed

\* Only a recorder that dies or mixes its messages up takes the server down, and only of such a
\* recorder is anything saved that is not one of its messages.
ServerStays ==
    /\ (\A r \in Recorders : Orderly(r)) => srv.up
    /\ \A r \in Recorders : Orderly(r) => NoMsg \notin ToSet(files[r])

Finished(r) == snd[r].pc = "gone" /\ srv.up
SavedOrDown(r) == r \in cmds \/ ~srv.up

\* Every recorder that lives gets its data saved, unless another one takes the server down.
AllSaved == \A r \in Recorders : Finished(r) ~> SavedOrDown(r)

\* The server keeps running and the recorders apart, and what it has when it runs the command
\* for a recorder is all of its data (handle_client_sock(), recv_trace_end()).
ServerKeepsData == WholeData /\ ServerStays

=============================================================================
