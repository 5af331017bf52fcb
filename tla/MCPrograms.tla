----------------------------- MODULE MCPrograms ------------------------------
(***************************************************************************)
(* Small instances of the programs, for TLC: the clients and servers of    *)
(* the examples and tutorials, the first server prototype and the          *)
(* interactive camera programs. They share no state, so each behaviour is  *)
(* about one of them, its part, and the others stay as they begin.         *)
(***************************************************************************)
EXTENDS TlsClient, PrototypeServer, CameraPrograms, ProgramsProofs

CONSTANT Parts   \* the parts that are checked

VARIABLES
  part,  \* the one this behaviour is about
  \* of UtilityClient
  utility_m_next_id, utility_con, utility_m_status, utility_m_messages,
  utility_sent, utility_replied, utility_io, utility_main, utility_perpetual,
  \* of UtilityClient, one
  one_m_next_id, one_con, one_m_status, one_m_messages, one_sent, one_replied,
  one_io, one_main, one_perpetual,
  \* of TelemetryServer
  counting_con, counting_handler, counting_m_connections, m_count, timer, running,
  got,
  \* of TelemetryClient
  telemetry_con, telemetry_handler, m_open, m_done, telemetry_loop, count,
  telemetry_sent, opened,
  \* of ServerPrograms
  server_program, server_con, listening, run, connections, data, next_id,
  server_sent, told,
  \* of ClientPrograms
  client_program, client_main, stopped, client_con, inbox, client_sent, case_count,
  cases, client_received

------------------------------------------------------------------------------
\* The two clients of the first server and the ids it knows.
Known == [c \in {"c1", "c2"} |-> IF c = "c1" THEN "client1" ELSE "client2"]


\* Two connections of the utility client.
Steps ==
  INSTANCE UtilityClient WITH Program <- {}, MaxConnections <- 0, MaxMessages <- 0,
    m_next_id <- utility_m_next_id, con <- utility_con,
    m_status <- utility_m_status, m_messages <- utility_m_messages,
    sent <- utility_sent, replied <- utility_replied, io <- utility_io,
    main <- utility_main, perpetual <- utility_perpetual
Utility ==
  INSTANCE UtilityClient WITH Program <- Steps!UtilityExample, MaxConnections <- 2,
    MaxMessages <- 1, m_next_id <- utility_m_next_id, con <- utility_con,
    m_status <- utility_m_status, m_messages <- utility_m_messages,
    sent <- utility_sent, replied <- utility_replied, io <- utility_io,
    main <- utility_main, perpetual <- utility_perpetual
\* Its step without messages, which is scratch_client too.
Closing ==
  INSTANCE UtilityClient WITH Program <- Steps!Step5, MaxConnections <- 2,
    MaxMessages <- 0, m_next_id <- utility_m_next_id, con <- utility_con,
    m_status <- utility_m_status, m_messages <- utility_m_messages,
    sent <- utility_sent, replied <- utility_replied, io <- utility_io,
    main <- utility_main, perpetual <- utility_perpetual
\* Its step that only connects.
Opening ==
  INSTANCE UtilityClient WITH Program <- Steps!Step4, MaxConnections <- 2,
    MaxMessages <- 0, m_next_id <- utility_m_next_id, con <- utility_con,
    m_status <- utility_m_status, m_messages <- utility_m_messages,
    sent <- utility_sent, replied <- utility_replied, io <- utility_io,
    main <- utility_main, perpetual <- utility_perpetual

\* One connection with several messages.
Ordering ==
  INSTANCE UtilityClient WITH Program <- Steps!Step6, MaxConnections <- 1,
    MaxMessages <- 3, m_next_id <- one_m_next_id, con <- one_con,
    m_status <- one_m_status, m_messages <- one_m_messages, sent <- one_sent,
    replied <- one_replied, io <- one_io, main <- one_main,
    perpetual <- one_perpetual

\* The server that counts, and its clients.
Counting ==
  INSTANCE TelemetryServer WITH Clients <- {"c1", "c2"}, MaxCount <- 4,
    con <- counting_con, handler <- counting_handler,
    m_connections <- counting_m_connections

\* The client that counts.
Telemetry ==
  INSTANCE TelemetryClient WITH MaxCount <- 12, con <- telemetry_con,
    handler <- telemetry_handler, loop <- telemetry_loop, sent <- telemetry_sent

\* The servers that keep something for each connection, and the one that sends to all.
\* Keeping and Echoing are the programs of this part and of the next.
Stored ==
  INSTANCE ServerPrograms WITH Programs <- {}, Clients <- {}, Stops <- 0, Messages <- 0,
    program <- server_program, con <- server_con, sent <- server_sent
Keeping ==
  {Stored!AssociativeStorage, Stored!EnrichedStorage, Stored!SimpleBroadcast,
   Stored!SubprotocolServer, Stored!HandlerSwitch}
Echoing ==
  {Stored!EchoServer, Stored!TesteeServer, Stored!DebugServer, Stored!ScratchServer,
   Stored!UtilityServer, Stored!PrintServer, Stored!EchoServerTls, Stored!EchoServerBoth,
   Stored!IostreamServer}
Storing ==
  INSTANCE ServerPrograms WITH Programs <- Keeping, Clients <- {"c1", "c2", "c3"},
    Stops <- 0, Messages <- 2, program <- server_program, con <- server_con,
    sent <- server_sent
\* The servers that echo, one of which stops listening when it is told to.
Stopping ==
  INSTANCE ServerPrograms WITH Programs <- Echoing, Clients <- {"c1", "c2"},
    Stops <- 1, Messages <- 2, program <- server_program, con <- server_con,
    sent <- server_sent

\* The clients, with servers that name up to three cases.
Visitors ==
  INSTANCE ClientPrograms WITH Programs <- {}, MaxCases <- 0, Messages <- 0, BadUri <- FALSE,
    program <- client_program, main <- client_main, con <- client_con,
    sent <- client_sent, received <- client_received
Ending == {Visitors!PrintClient, Visitors!EchoClient, Visitors!DebugClient, Visitors!TesteeClient}
AllClients == Ending \cup {Visitors!SipClient}
Visiting ==
  INSTANCE ClientPrograms WITH Programs <- AllClients, MaxCases <- 3,
    Messages <- 2, BadUri <- TRUE, program <- client_program, main <- client_main,
    con <- client_con, sent <- client_sent, received <- client_received



------------------------------------------------------------------------------
\* A part that the behaviour is not about stays in one of its initial states.
Inputs(p, S) == IF part \in p THEN S ELSE {CHOOSE s \in S : TRUE}

MCInit ==
  /\ part \in Parts
  /\ TlsInit
  /\ IF part = "utility_step5" THEN Closing!Init ELSE IF part = "utility_step4" THEN Opening!Init ELSE Utility!Init
  /\ Ordering!Init
  /\ Counting!Init
  /\ Telemetry!Init
  /\ server_program \in Inputs({"storage", "stopping"},
         IF part = "stopping" THEN Echoing ELSE Keeping)
  /\ IF part = "stopping" THEN Stopping!Init ELSE Storing!Init
  /\ client_program \in Inputs({"clients"}, AllClients)
  /\ Visiting!Init
  /\ b \in Inputs({"prototype"}, {"garbage", "null"})
  /\ PrototypeInit
  /\ program \in Inputs({"cameras"}, {"Camera", "Camera2", "CameraLib"})
  /\ g_pcDataBuf \in Inputs({"cameras"}, {"garbage", "null"})
  /\ g_pstImageInfoEx2 \in Inputs({"cameras"}, {"garbage", "null"})
  /\ CamerasInit

UtilityVars == <<utility_m_next_id, utility_con, utility_m_status,
  utility_m_messages, utility_sent, utility_replied, utility_io, utility_main,
  utility_perpetual>>
OneVars == <<one_m_next_id, one_con, one_m_status, one_m_messages, one_sent,
  one_replied, one_io, one_main, one_perpetual>>
CountingVars == <<counting_con, counting_handler, counting_m_connections, m_count,
  timer, running, got>>
TelemetryVars == <<telemetry_con, telemetry_handler, m_open, m_done,
  telemetry_loop, count, telemetry_sent, opened>>
ServerVars == <<server_program, server_con, listening, run, connections, data,
  next_id, server_sent, told>>
ClientVars == <<client_program, client_main, stopped, client_con, inbox,
  client_sent, case_count, cases, client_received>>
MCVars == <<part, tlsVars, UtilityVars, OneVars, CountingVars, TelemetryVars,
           ServerVars, ClientVars, prototypeVars, camerasVars>>

MCNext ==
  /\ UNCHANGED part
  /\ \/ part = "tls" /\ TlsNext
     \/ part # "tls" /\ UNCHANGED tlsVars
  /\ \/ part = "utility" /\ Utility!Next
     \/ part = "utility_step5" /\ Closing!Next
     \/ part = "utility_step4" /\ Opening!Next
     \/ part \notin {"utility", "utility_step5", "utility_step4"} /\ UNCHANGED UtilityVars
  /\ \/ part = "utility_order" /\ Ordering!Next
     \/ part # "utility_order" /\ UNCHANGED OneVars
  /\ \/ part = "counting" /\ Counting!Next
     \/ part # "counting" /\ UNCHANGED CountingVars
  /\ \/ part = "telemetry" /\ Telemetry!Next
     \/ part # "telemetry" /\ UNCHANGED TelemetryVars
  /\ \/ part = "storage" /\ Storing!Next
     \/ part = "stopping" /\ Stopping!Next
     \/ part \notin {"storage", "stopping"} /\ UNCHANGED ServerVars
  /\ \/ part = "clients" /\ Visiting!Next
     \/ part # "clients" /\ UNCHANGED ClientVars
  /\ \/ part = "prototype" /\ PrototypeNext
     \/ part # "prototype" /\ UNCHANGED prototypeVars
  /\ \/ part = "cameras" /\ CamerasNext
     \/ part # "cameras" /\ UNCHANGED camerasVars

\* The fairness of each program (its Fairness or Spec).
MCFairness ==
  /\ WF_UtilityVars(part = "utility" /\ Utility!MainSteps)
  /\ WF_UtilityVars(part = "utility" /\ Utility!Progress)
  /\ WF_UtilityVars(part = "utility" /\ Utility!Attempts)
  /\ WF_CountingVars(part = "counting" /\ (Counting!on_timer \/ Counting!on_timer_throws))
  /\ WF_CountingVars(part = "counting" /\ (Counting!on_open \/ Counting!on_close))
  /\ WF_TelemetryVars(part = "telemetry" /\ (Telemetry!opens \/ Telemetry!fails))
  /\ WF_TelemetryVars(part = "telemetry" /\ (Telemetry!closes))
  /\ WF_TelemetryVars(part = "telemetry" /\ (Telemetry!on_open \/ Telemetry!on_end))
  /\ WF_TelemetryVars(part = "telemetry" /\ (Telemetry!test \/ Telemetry!wait_a_bit \/ Telemetry!send))
  /\ WF_ServerVars(part = "stopping" /\ Stopping!Returns)
  /\ \A c \in {"c1", "c2"} : WF_ServerVars(part = "stopping" /\ Stopping!on_close(c))
  /\ WF_ClientVars(part = "clients" /\ Visiting!Connect)
  /\ WF_ClientVars(part = "clients" /\ Visiting!RunReturns)
  /\ WF_ClientVars(part = "clients" /\ Visiting!Waited)
  /\ WF_ClientVars(part = "clients" /\ (Visiting!on_open \/ Visiting!on_fail))
  /\ WF_ClientVars(part = "clients" /\ Visiting!on_close)

MCSpec == MCInit /\ [][MCNext]_MCVars /\ MCFairness

\* What the components assume of their constants.
ASSUME PartsAssumption ==
  /\ Utility!UtilityAssumption
  /\ Closing!UtilityAssumption
  /\ Opening!UtilityAssumption
  /\ Ordering!UtilityAssumption
  /\ Visiting!ClientAssumption

------------------------------------------------------------------------------
(* Properties, each of the component that its comment names *)

\* Every variable has its type. (What the components' TypeOK add: a TLS handshake that is up
\* has verified the whole chain, the lists of connections are those of the connections that
\* live.)
TypesOK ==
  /\ TlsTypeOK /\ PrototypeTypeOK /\ CamerasTypeOK
  /\ part = "utility" => Utility!TypeOK
  /\ part = "utility_step5" => Closing!TypeOK
  /\ part = "utility_step4" => Opening!TypeOK
  /\ part = "counting" => Counting!TypeOK
  /\ part = "storage" => Storing!TypeOK
  /\ part = "stopping" => Stopping!TypeOK
  /\ part = "clients" => Visiting!TypeOK

\* UtilityClient: the transcript of a connection has what was sent, and what came back, each
\* in its order.
EachInOrder ==
  /\ part = "utility" => Utility!EachInOrder
  /\ part = "utility_order" => Ordering!EachInOrder

\* UtilityClient: the word shown for a connection is the one of its state as soon as the
\* handler that tells has returned.
StatusKeepsUp ==
  /\ part = "utility" => Utility!StatusKeepsUp
  /\ part = "utility_step5" => Closing!StatusKeepsUp

\* UtilityClient: quit ends the program when no connection was still about to open, or about
\* to be closed by its peer.
QuitsWhenSettled ==
  (part = "utility" /\ utility_main = [does |-> "close", next |-> 1] /\ Utility!Settled) ~> (utility_main.does = "ended")

\* TelemetryServer: a client misses no count between its first and its last one, also when
\* the server fails.
NoCountMissed == part = "counting" => Counting!NoCountMissed

\* TelemetryServer: the server counts on whatever its clients do, unless it fails.
CountsOn == (part = "counting") ~> (m_count = 4 \/ ~running)

\* TelemetryClient: a message goes out only after on_open() has said so, and none is skipped.
SendsInOrder == part = "telemetry" => Telemetry!SendsInOrder

\* TelemetryClient: the telemetry ends with the connection and not before.
EndsOnlyWithConnection == part = "telemetry" => Telemetry!EndsOnlyWithConnection

\* TelemetryClient: when the connection is gone both threads end.
ThreadsEnd ==
  (part = "telemetry" /\ telemetry_con = "closed")
    ~> ((Telemetry!IoEnded /\ telemetry_loop = "ended") \/ count = 12)

\* ServerPrograms, associative_storage: a message is never of a connection without its entry,
\* which would end the server.
SessionsKnown == part = "storage" => Storing!SessionsKnown

\* ServerPrograms: two connections never have one session id.
IdsDistinct == part = "storage" => Storing!IdsDistinct

\* ServerPrograms: the first message names the connection, and no other one renames it.
NameStays ==
  [][part = "storage" => \A c \in {"c1", "c2", "c3"} : data[c].name # "" => data'[c].name = data[c].name]_ServerVars

\* ServerPrograms, handler_switch: exactly the messages of a connection after its upgrade go
\* to the handler of its own.
CustomAfterUpgrade == part = "storage" => Storing!CustomAfterUpgrade

\* ServerPrograms, echo_server.cpp:20: after a stop-listening message the server exits as
\* soon as its last client has left.
StopEnds == (part = "stopping" /\ ~listening) ~> (run = "returned")

\* ServerPrograms: run() returns only when no connection is left.
StopsCleanly == part = "stopping" => Stopping!StopsCleanly

\* ClientPrograms: a client that looks at the error of get_connection() never follows a null
\* connection.
NoNullConnection == part = "clients" => Visiting!NoNullConnection

\* ClientPrograms: run() returns only with the connection.
EndsWithConnection == part = "clients" => Visiting!EndsWithConnection

\* ClientPrograms, testee_client: every case that the server named is run, each on a
\* connection of its own.
AllCasesRun == part = "clients" => Visiting!AllCasesRun

\* ClientPrograms: what is echoed is what came, in its order and only for the cases.
EchoesInOrder == part = "clients" => Visiting!EchoesInOrder

\* ClientPrograms: all but sip_client end when their server has served them.
Ends ==
  (part = "clients" /\ client_program \in Ending) ~> (client_main \in {"done", "crashed"})

------------------------------------------------------------------------------
(* What is checked of the components: their properties, by what they promise    *)

\* Through every order of handlers, timers and commands the examples count, record and echo
\* in order, use a connection only while it is there, keep what they store of each apart, and
\* return only when none is left.
ProgramsInOrder ==
  /\ [](TypesOK /\ EachInOrder /\ StatusKeepsUp /\ NoCountMissed
       /\ SendsInOrder /\ EndsOnlyWithConnection /\ SessionsKnown
       /\ IdsDistinct /\ CustomAfterUpgrade /\ StopsCleanly /\ NoNullConnection
       /\ EndsWithConnection /\ AllCasesRun /\ EchoesInOrder)
  /\ NameStays

\* The programs go on while they should and end when they should: on quit, on the end of the
\* connection, after the last case, or when the last client leaves a server that was stopped.
ProgramsEnd ==
  /\ QuitsWhenSettled
  /\ CountsOn
  /\ ThreadsEnd
  /\ StopEnds
  /\ Ends

==============================================================================
