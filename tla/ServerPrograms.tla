---------------------------- MODULE ServerPrograms ----------------------------
(***************************************************************************)
(* The small servers of the examples and of the tutorial, each with one    *)
(* thread that runs all handlers: those that echo or print what they get,  *)
(* one of them over iostreams, some over TLS, one with a plain TCP echo    *)
(* server on its io_service; those that keep data of each connection; and  *)
(* those that broadcast, choose a subprotocol or exchange a handler.  The  *)
(* library delivers messages of open connections only and calls on_close   *)
(* once.                                                                   *)
(***************************************************************************)
EXTENDS Naturals, Sequences, SequencesExt, FiniteSets

CONSTANTS
  Programs,   \* the servers of this run: descriptions as below
  Clients,    \* connections that may come
  Stops,      \* bound on commands to stop
  Messages    \* bound on messages

\* What tells the programs apart: what on_message does, whether it knows
\* "stop-listening", whether the io_service has other work, whether connections
\* may use TLS, and whether there is an answer to a plain HTTP request.
Plain(does) == [does |-> does, stops |-> FALSE, other_work |-> FALSE, tls |-> FALSE, http |-> FALSE]

EchoServer == [Plain("echo") EXCEPT !.stops = TRUE]
ExternalIoService == [Plain("echo") EXCEPT !.stops = TRUE, !.other_work = TRUE]
TesteeServer == Plain("echo")
DebugServer == Plain("echo")
ScratchServer == Plain("echo")
UtilityServer == Plain("echo")
PrintServer == Plain("echo")
EchoServerTls == [Plain("echo") EXCEPT !.tls = TRUE, !.http = TRUE]
EchoServerBoth == [Plain("echo") EXCEPT !.tls = TRUE, !.other_work = TRUE]
IostreamServer == Plain("stream")
SimpleBroadcast == Plain("broadcast")
AssociativeStorage == Plain("store")
EnrichedStorage == Plain("enrich")
SubprotocolServer == Plain("select")
HandlerSwitch == Plain("switch")

VARIABLES
  program,      \* the server that runs
  con,          \* the library's view of each connection
  listening,    \* whether the acceptor, or the input, is open
  run,          \* running, returned, or how it ended with an exception
  connections,  \* m_connections
  data,         \* of each connection: session id, and name with "" for none;
                \* the name is also the subprotocol or the handler of its own
  next_id,      \* m_next_sessionid
  sent,         \* what was sent to each client or printed of its messages
  told          \* messages so far, with their clients

vars == <<program, con, listening, run, connections, data, next_id, sent, told>>

Init ==
  /\ program \in Programs
  /\ con = [c \in Clients |-> "out"]
  /\ listening = TRUE /\ run = "running"
  /\ connections = {}
  /\ data = [c \in Clients |-> [sessionid |-> 0, name |-> ""]]
  /\ next_id = 1
  /\ sent = [c \in Clients |-> <<>>] /\ told = <<>>

Keeps == program.does \in {"store", "enrich"}

\* Faulty variant: sessions are numbered by how many there are.
NextId_Size == Cardinality({c \in Clients : con[c] \in {"open", "closing"}}) + 1

\* m_next_sessionid++ of on_open.
NextId == next_id

\* on_open: the connection is put into the set or the map.
Registered(c) ==
  IF program.does \in {"store", "broadcast"} THEN connections \cup {c} ELSE connections

\* A client comes; the input of iostream_server is that of one connection.
Comes(c) ==
  /\ run = "running" /\ listening /\ con[c] = "out"
  /\ program.does = "stream" => \A d \in Clients : con[d] = "out"

on_open(c) ==
  /\ Comes(c) /\ program.does # "select"
  /\ con' = [con EXCEPT ![c] = "open"]
  /\ connections' = Registered(c)
  /\ IF Keeps
       THEN /\ data' = [data EXCEPT ![c].sessionid = NextId] /\ next_id' = next_id + 1
       ELSE UNCHANGED <<data, next_id>>
  /\ UNCHANGED <<program, listening, run, sent, told>>

\* subprotocol_server: the first subprotocol that was asked for is selected.
validate(c, requested) ==
  /\ Comes(c) /\ program.does = "select"
  /\ con' = [con EXCEPT ![c] = "open"]
  /\ data' = IF requested = <<>> THEN data ELSE [data EXCEPT ![c].name = Head(requested)]
  /\ UNCHANGED <<program, listening, run, connections, next_id, sent, told>>

\* A plain HTTP request is answered and its connection ends: no other handler
\* hears of it.
on_http(c) ==
  /\ Comes(c)
  /\ con' = [con EXCEPT ![c] = "gone"]
  /\ sent' = IF program.http THEN [sent EXCEPT ![c] = <<"Hello World!">>] ELSE sent
  /\ UNCHANGED <<program, listening, run, connections, data, next_id, told>>

\* A context that did not get its certificate fails the TLS handshake.
on_tls_init(c) ==
  /\ Comes(c) /\ program.tls
  /\ con' = [con EXCEPT ![c] = "gone"]
  /\ UNCHANGED <<program, listening, run, connections, data, next_id, sent, told>>

\* The closing handshake begins; the handlers do not hear of it.
CloseFrame(c) ==
  /\ run = "running" /\ con[c] = "open"
  /\ con' = [con EXCEPT ![c] = "closing"]
  /\ UNCHANGED <<program, listening, run, connections, data, next_id, sent, told>>

\* get_data_from_hdl() throws for a connection that is not in the map.
Unknown(c) == program.does = "store" /\ c \notin connections

on_close(c) ==
  /\ run = "running" /\ con[c] \in {"open", "closing"}
  /\ con' = [con EXCEPT ![c] = "gone"]
  /\ IF Unknown(c)
       THEN run' = "unknown session" /\ UNCHANGED connections
       ELSE connections' = connections \ {c} /\ UNCHANGED run
  /\ UNCHANGED <<program, listening, data, next_id, sent, told>>

\* A message of an open connection.
Message(c, p) ==
  /\ run = "running" /\ con[c] = "open" /\ Len(told) < Messages
  /\ told' = Append(told, <<c, p>>)
  /\ UNCHANGED <<program, con, connections, next_id>>

\* send() of a text, which throws unless the connection is open.
Sent(c, p) == [sent EXCEPT ![c] = Append(@, p)]

\* on_message of the servers that echo or print.  The command is
\* "stop-listening"; stop_listening() throws when it is called again, outside of
\* the try block around send().
echo(c, p) ==
  /\ program.does \in {"echo", "stream"} /\ Message(c, p)
  /\ IF program.stops /\ p = "command"
       THEN /\ Len(SelectSeq(told, LAMBDA t : t[2] = p)) < Stops
            /\ IF listening THEN listening' = FALSE /\ UNCHANGED run
               ELSE run' = "invalid state" /\ UNCHANGED listening
            /\ UNCHANGED sent
       ELSE sent' = Sent(c, p) /\ UNCHANGED <<listening, run>>
  /\ UNCHANGED data

\* on_message of simple_broadcast_server: the connections in some order, up to
\* one that no longer takes messages.
broadcast(c, p) ==
  /\ program.does = "broadcast" /\ Message(c, p)
  /\ LET closing == {d \in connections : con[d] = "closing"}
     IN \E reached \in SUBSET (connections \ closing) :
          /\ closing = {} => reached = connections
          /\ sent' = [d \in Clients |-> IF d \in reached THEN Append(sent[d], p) ELSE sent[d]]
          /\ run' = IF closing = {} THEN run ELSE "invalid state"
  /\ UNCHANGED <<listening, data>>

\* The first message that is not empty names the connection.
Named(d, p) == IF d.name = "" THEN [d EXCEPT !.name = p] ELSE d

\* on_message of the storage servers.
store(c, p) ==
  /\ Keeps /\ Message(c, p)
  /\ IF Unknown(c) THEN run' = "unknown session" /\ UNCHANGED data
     ELSE data' = [data EXCEPT ![c] = Named(@, p)] /\ UNCHANGED run
  /\ UNCHANGED <<listening, sent>>

\* subprotocol_server has no message handler.
ignore(c, p) ==
  /\ program.does = "select" /\ Message(c, p)
  /\ UNCHANGED <<listening, run, data, sent>>

\* set_message_handler() of this connection.
Switched(c) == [data EXCEPT ![c].name = "custom"]

\* handler_switch: the handlers print their names.  The command is "upgrade",
\* which only the default handler knows.
switch(c, p) ==
  /\ program.does = "switch" /\ Message(c, p)
  /\ sent' = Sent(c, IF data[c].name = "custom" THEN "custom" ELSE "default")
  /\ data' = IF data[c].name # "custom" /\ p = "command" THEN Switched(c) ELSE data
  /\ UNCHANGED <<listening, run>>

\* iostream_server: at the end of the input con->eof() ends the connection, and
\* main() returns.
eof ==
  /\ program.does = "stream" /\ run = "running"
  /\ con' = [c \in Clients |-> IF con[c] = "out" THEN "out" ELSE "gone"]
  /\ listening' = FALSE /\ run' = "returned"
  /\ UNCHANGED <<program, connections, data, next_id, sent, told>>

\* What keeps run() from returning: the acceptor, connections, and the TCP
\* echo server, which accepts for ever.
Work ==
  \/ listening \/ \E c \in Clients : con[c] \in {"open", "closing"}
  \/ program.other_work

Returns ==
  /\ run = "running" /\ ~Work
  /\ run' = "returned"
  /\ UNCHANGED <<program, con, listening, connections, data, next_id, sent, told>>

Payloads == {"command", "hello", ""}
Requests == {<<>>, <<"hello">>, <<"command", "hello">>}

Next ==
  \/ Returns \/ eof
  \/ \E c \in Clients :
       \/ on_open(c) \/ on_http(c) \/ on_tls_init(c) \/ CloseFrame(c) \/ on_close(c)
       \/ \E requested \in Requests : validate(c, requested)
       \/ \E p \in Payloads :
            echo(c, p) \/ broadcast(c, p) \/ store(c, p) \/ ignore(c, p) \/ switch(c, p)

\* Every client leaves at last, and run() notices that it has nothing to do.
Fairness == WF_vars(Returns) /\ \A c \in Clients : WF_vars(on_close(c))

Spec == Init /\ [][Next]_vars /\ Fairness

-----------------------------------------------------------------------------
TypeOK ==
  /\ program \in Programs
  /\ con \in [Clients -> {"out", "open", "closing", "gone"}]
  /\ listening \in BOOLEAN
  /\ run \in {"running", "returned", "unknown session", "invalid state"}
  /\ connections \subseteq {c \in Clients : con[c] \in {"open", "closing"}}
  /\ data \in [Clients -> [sessionid : Nat, name : Payloads \cup {"custom"}]]
  /\ next_id \in Nat
  /\ sent \in [Clients -> Seq(Payloads \cup {"default", "custom", "Hello World!"})]
  /\ told \in Seq(Clients \X Payloads)

\* Handlers find the data of their connection however it opens and ends ("This
\* really shouldn't happen and probably means something else is wrong").
SessionsKnown == run # "unknown session"

\* No two sessions have one id, those that are over included: it is what the
\* log of a server names them by.
IdsDistinct ==
  \A c, d \in Clients : c # d /\ data[c].sessionid # 0 => data[c].sessionid # data[d].sessionid

\* Once a connection has a name it keeps it.
NameStays == [][\A c \in Clients : data[c].name # "" => data'[c].name = data[c].name]_vars

\* handler_switch: exactly the messages of a connection after its "upgrade" go to
\* the handler of its own, whatever the other connections were told.
CustomAfterUpgrade ==
  program.does = "switch" =>
    \A c \in Clients :
      LET mine == SelectSeq(told, LAMBDA t : t[1] = c)
      IN sent[c] = [k \in DOMAIN mine |->
           IF \E j \in 1 .. k - 1 : mine[j][2] = "command" THEN "custom" ELSE "default"]

\* A server told to stop ends, after its last client and not before it.
StopEnds == ~listening ~> run = "returned"

\* It leaves by returning, with no client in the middle of its work.
StopsCleanly == run \in {"returned", "invalid state"} => \A c \in Clients : con[c] \in {"out", "gone"}
=============================================================================
