---------------------------- MODULE MCConnection -----------------------------
(***************************************************************************)
(* Small instances of what happens on one connection, for TLC: the opening *)
(* handshake, the end of a session and the handlers that follow it, the    *)
(* pings, the closing handshake of the two ends, and what has to happen    *)
(* before: the accept, the attempt to connect, the transport and its TLS.  *)
(* The components share no state here, so each behaviour is about one of   *)
(* them, its part, and the others stay as they begin: the states of this   *)
(* module are those of the parts side by side.                             *)
(***************************************************************************)
EXTENDS ClosingHandshake, ConnectionHandshake, AsioTransport, Sequences

CONSTANT Parts   \* the parts that are checked

VARIABLES
  part,  \* the one this behaviour is about
  \* of ClosingHandshake, other pairs
  pair_con, pair_queue, pair_wire, pair_sent, pair_reported, pair_asked, pair_calls,
  \* of ConnectionSession
  session_state, stateLock, wasClean, session_ec, session_queue, session_current,
  writeFlag, writes, posted, reads, readFlag, session_timer, strays, session_due,
  shutting, pc, msg, session_calls, frames, pushed, session_wire, lost, closeCalls,
  \* of ConnectionHandshake, any
  opening_isServer, opening_state, opening_istate, opening_httpState,
  opening_isHttp, opening_status, opening_ec, opening_ops, opening_timer,
  opening_due, opening_shutdowns, opening_responder, opening_called,
  opening_responses,
  \* of PingKeepalive
  open, pinger, payload, ping_current, ping_timers, pinged, answered, overdue,
  timedOut,
  \* of AcceptLoop
  accept_m_state, accept_con, work, run, starts, listens,
  \* of ConnectClient
  stage, client_op, client_timer, client_midway, client_calls, blamed,
  \* of SocketPolicy
  Secure, handler, tls_con,
  \* of Hybi13
  frames_sent, frames_wire, buf, frames_m_state, m_bytes_needed, m_cursor, b0, b1,
  ext, m_data_msg, m_control_msg, frames_current, got, frames_ec

------------------------------------------------------------------------------
Fitting == {<<>>, <<"a">>}
AnyFrames == {Empty, Short, Payload(1000, <<"a">>), Payload(1000, <<"lead">>), Payload(1005, <<>>)}


\* The server does not run the library.
OfForeign ==
  INSTANCE ClosingHandshake WITH Codes <- {0, 1000, 1005}, Reasons <- Fitting,
    ForeignFrames <- AnyFrames, ReasonSize <- 2, MaxCalls <- 2,
    Foreign <- {"server"}, Lossy <- FALSE, SilentClose <- FALSE,
    DropOnError <- FALSE, con <- pair_con, queue <- pair_queue, wire <- pair_wire,
    sent <- pair_sent, reported <- pair_reported, asked <- pair_asked,
    calls <- pair_calls
\* The client does not, the transport fails, and errors of the peer end the connection at
\* once.
OfDropping ==
  INSTANCE ClosingHandshake WITH Codes <- {0, 1000}, Reasons <- Fitting,
    ForeignFrames <- AnyFrames, ReasonSize <- 2, MaxCalls <- 2,
    Foreign <- {"client"}, Lossy <- TRUE, SilentClose <- FALSE,
    DropOnError <- TRUE, con <- pair_con, queue <- pair_queue, wire <- pair_wire,
    sent <- pair_sent, reported <- pair_reported, asked <- pair_asked,
    calls <- pair_calls
\* Both ends run the library over a transport that fails, and close silently.
OfLossy ==
  INSTANCE ClosingHandshake WITH Codes <- {0, 1000, 1011, 1016},
    Reasons <- Fitting, ForeignFrames <- {}, ReasonSize <- 2, MaxCalls <- 3,
    Foreign <- {}, Lossy <- TRUE, SilentClose <- TRUE, DropOnError <- FALSE,
    con <- pair_con, queue <- pair_queue, wire <- pair_wire, sent <- pair_sent,
    reported <- pair_reported, asked <- pair_asked, calls <- pair_calls

\* One thread sends or closes, and so may the peer.
Ending ==
  INSTANCE ConnectionSession WITH AppThreads <- {"t1"}, Io <- "io",
    Calls <- {"send", "close"}, IsServer <- TRUE, DropOnError <- FALSE,
    CloseTimer <- TRUE, MaxCalls <- 1, MaxFrames <- 1, state <- session_state,
    ec <- session_ec, queue <- session_queue, current <- session_current,
    timer <- session_timer, due <- session_due, calls <- session_calls,
    wire <- session_wire
\* One thread sends and closes, the peer is silent.
EndingSilent ==
  INSTANCE ConnectionSession WITH AppThreads <- {"t1"}, Io <- "io",
    Calls <- {"send", "close", "pause"}, IsServer <- TRUE, DropOnError <- FALSE,
    CloseTimer <- TRUE, MaxCalls <- 2, MaxFrames <- 0, state <- session_state,
    ec <- session_ec, queue <- session_queue, current <- session_current,
    timer <- session_timer, due <- session_due, calls <- session_calls,
    wire <- session_wire


\* Either end.
AnyHandshake ==
  INSTANCE ConnectionHandshake WITH Roles <- BOOLEAN, OpenTimer <- TRUE,
    HttpHandler <- TRUE, Responders <- {"r1"}, isServer <- opening_isServer,
    state <- opening_state, istate <- opening_istate,
    httpState <- opening_httpState, isHttp <- opening_isHttp,
    status <- opening_status, ec <- opening_ec, ops <- opening_ops,
    timer <- opening_timer, due <- opening_due, shutdowns <- opening_shutdowns,
    responder <- opening_responder, called <- opening_called,
    responses <- opening_responses

\* Two threads that ping in turn.
Pinging ==
  INSTANCE PingKeepalive WITH Threads <- {"t1", "t2"}, MaxPings <- 3,
    Overlap <- FALSE, Unsolicited <- FALSE, current <- ping_current,
    timers <- ping_timers
\* One thread that does not wait for the answer.
Overlapping ==
  INSTANCE PingKeepalive WITH Threads <- {"t1"}, MaxPings <- 3, Overlap <- TRUE,
    Unsolicited <- TRUE, current <- ping_current, timers <- ping_timers

\* One listen() and two calls of start_accept().
Accepting ==
  INSTANCE AcceptLoop WITH Connections <- {"c1", "c2", "c3"}, Loops <- 2,
    Listens <- 1, CreateFails <- FALSE, m_state <- accept_m_state,
    con <- accept_con
\* A server that listens again, and whose create_connection() may fail.
AcceptingAgain ==
  INSTANCE AcceptLoop WITH Connections <- {"c1", "c2"}, Loops <- 1, Listens <- 3,
    CreateFails <- TRUE, m_state <- accept_m_state, con <- accept_con

\* Two connections of a client with one io thread.
Connecting ==
  INSTANCE ConnectClient WITH Connections <- {"c1", "c2"}, Threads <- 1,
    Proxies <- {"no", "valid", "invalid"}, op <- client_op, timer <- client_timer,
    midway <- client_midway, calls <- client_calls


\* The socket below a client's connection.
Policy ==
  INSTANCE SocketPolicy WITH Connections <- {"c1"}, Policies <- BOOLEAN,
    Server <- FALSE, SniFails <- FALSE, SameTypes <- FALSE, con <- tls_con

\* What send(), ping(), pong() and close() make: whole messages, on their way to a server.
Maker ==
  INSTANCE Hybi13 WITH Frames <- {}, BasicSize <- 2, ExtendedSize <- 4, MaxMessageSize <- 8,
    IsServer <- TRUE, MaxFrames <- 1, MaxRead <- 7,
    sent <- frames_sent, wire <- frames_wire, m_state <- frames_m_state,
    current <- frames_current, ec <- frames_ec
Long == <<"ascii", "ascii", "ascii", "ascii", "lead", "cont">>
Whole(opcode, payloads) == {[op |-> opcode, fin |-> TRUE, payload |-> p] : p \in payloads}
PreparedFrames ==
  Maker!PrepareDataFrame(Whole("text", {Long, <<"lead">>}) \cup Whole("binary", {<<>>}))
  \cup Maker!PrepareControl("ping", {<<"ascii">>, Long}) \cup Maker!PrepareClose({<<>>, <<"ascii", "lead", "cont">>})
Framing ==
  INSTANCE Hybi13 WITH Frames <- PreparedFrames, BasicSize <- 2, ExtendedSize <- 4,
    MaxMessageSize <- 8, IsServer <- TRUE, MaxFrames <- 2, MaxRead <- 7,
    sent <- frames_sent, wire <- frames_wire, m_state <- frames_m_state,
    current <- frames_current, ec <- frames_ec

------------------------------------------------------------------------------
\* A part that the behaviour is not about stays in one of its initial states.
Inputs(p, S) == IF part \in p THEN S ELSE {CHOOSE s \in S : TRUE}

MCInit ==
  /\ part \in Parts
  /\ Init
  /\ OfForeign!Init
  /\ IF part = "ending_silent" THEN EndingSilent!SessionInit ELSE Ending!SessionInit
  /\ HandshakeInit
  /\ opening_isServer \in Inputs({"handshake_any"}, BOOLEAN)
  /\ AnyHandshake!HandshakeInit
  /\ IF part = "pings_overlap" THEN Overlapping!PingInit ELSE Pinging!PingInit
  /\ IF part = "accept_again" THEN AcceptingAgain!AcceptInit ELSE Accepting!AcceptInit
  /\ Connecting!ClientInit
  /\ tls \in Inputs({"asio"}, BOOLEAN)
  /\ proxyData \in Inputs({"asio"}, BOOLEAN)
  /\ TransportInit
  /\ Secure \in Inputs({"policy"}, BOOLEAN)
  /\ Policy!PolicyInit
  /\ Framing!Init

PairVars == <<pair_con, pair_queue, pair_wire, pair_sent, pair_reported,
  pair_asked, pair_calls>>
SessionVars == <<session_state, stateLock, wasClean, session_ec, session_queue,
  session_current, writeFlag, writes, posted, reads, readFlag, session_timer,
  strays, session_due, shutting, pc, msg, session_calls, frames, pushed,
  session_wire, lost, closeCalls>>
OpeningVars == <<opening_isServer, opening_state, opening_istate,
  opening_httpState, opening_isHttp, opening_status, opening_ec, opening_ops,
  opening_timer, opening_due, opening_shutdowns, opening_responder, opening_called,
  opening_responses>>
PingVars == <<open, pinger, payload, ping_current, ping_timers, pinged, answered,
  overdue, timedOut>>
AcceptVars == <<accept_m_state, accept_con, work, run, starts, listens>>
ClientVars == <<stage, client_op, client_timer, client_midway, client_calls, blamed>>
TlsVars == <<Secure, handler, tls_con>>
FramesVars == <<frames_sent, frames_wire, buf, frames_m_state, m_bytes_needed,
  m_cursor, b0, b1, ext, m_data_msg, m_control_msg, frames_current, got, frames_ec>>
MCVars == <<part, vars, PairVars, SessionVars, handshakeVars, OpeningVars,
           PingVars, AcceptVars, ClientVars, transportVars, TlsVars, FramesVars>>

MCNext ==
  /\ UNCHANGED part
  /\ \/ part = "closing" /\ Next
     \/ part # "closing" /\ UNCHANGED vars
  /\ \/ part = "foreign" /\ OfForeign!Next
     \/ part = "dropping" /\ OfDropping!Next
     \/ part = "lossy" /\ OfLossy!Next
     \/ part \notin {"foreign", "dropping", "lossy"} /\ UNCHANGED PairVars
  /\ \/ part = "ending" /\ Ending!SessionNext
     \/ part = "ending_silent" /\ EndingSilent!SessionNext
     \/ part \notin {"ending", "ending_silent"} /\ UNCHANGED SessionVars
  /\ \/ part = "handshake" /\ HandshakeNext
     \/ part # "handshake" /\ UNCHANGED handshakeVars
  /\ \/ part = "handshake_any" /\ AnyHandshake!HandshakeNext
     \/ part # "handshake_any" /\ UNCHANGED OpeningVars
  /\ \/ part = "pings" /\ Pinging!PingNext
     \/ part = "pings_overlap" /\ Overlapping!PingNext
     \/ part \notin {"pings", "pings_overlap"} /\ UNCHANGED PingVars
  /\ \/ part = "accept" /\ Accepting!AcceptNext
     \/ part = "accept_again" /\ AcceptingAgain!AcceptNext
     \/ part \notin {"accept", "accept_again"} /\ UNCHANGED AcceptVars
  /\ \/ part = "connect" /\ Connecting!ClientNext
     \/ part # "connect" /\ UNCHANGED ClientVars
  /\ \/ part = "asio" /\ TransportNext
     \/ part # "asio" /\ UNCHANGED transportVars
  /\ \/ part = "policy" /\ Policy!PolicyNext
     \/ part # "policy" /\ UNCHANGED TlsVars
  /\ \/ part = "frames" /\ Framing!Next
     \/ part # "frames" /\ UNCHANGED FramesVars

\* The fairness of each component (its Fairness or FairSpec), in the parts that need it.
MCFairness ==
  /\ \A e \in Ends :
       /\ WF_PairVars(\/ part = "foreign" /\ OfForeign!Write(e)
                      \/ part = "dropping" /\ OfDropping!Write(e)
                      \/ part = "lossy" /\ OfLossy!Write(e))
       /\ WF_PairVars(\/ part = "foreign" /\ OfForeign!Receive(e)
                      \/ part = "dropping" /\ OfDropping!Receive(e)
                      \/ part = "lossy" /\ OfLossy!Receive(e))
       /\ WF_PairVars(\/ part = "foreign" /\ OfForeign!ReadEof(e)
                      \/ part = "dropping" /\ OfDropping!ReadEof(e)
                      \/ part = "lossy" /\ OfLossy!ReadEof(e))
       /\ WF_PairVars(\/ part = "foreign" /\ OfForeign!Timeout(e)
                      \/ part = "dropping" /\ OfDropping!Timeout(e)
                      \/ part = "lossy" /\ OfLossy!Timeout(e))
       /\ WF_PairVars(\/ part = "foreign" /\ OfForeign!HandleTerminate(e)
                      \/ part = "dropping" /\ OfDropping!HandleTerminate(e)
                      \/ part = "lossy" /\ OfLossy!HandleTerminate(e))
  /\ \A c \in Ending!Callers :
       WF_SessionVars(\/ part = "ending" /\ Ending!CallStep(c)
                      \/ part = "ending_silent" /\ EndingSilent!CallStep(c))
  /\ WF_SessionVars(\/ part = "ending" /\ Ending!StrandStep
                    \/ part = "ending_silent" /\ EndingSilent!StrandStep)
  /\ WF_SessionVars(\/ part = "ending" /\ Ending!TimerExpires
                    \/ part = "ending_silent" /\ EndingSilent!TimerExpires)
  /\ WF_SessionVars(\/ part = "ending" /\ Ending!CloseTimeout
                    \/ part = "ending_silent" /\ EndingSilent!CloseTimeout)
  /\ WF_SessionVars(\/ part = "ending" /\ Ending!WriteStep
                    \/ part = "ending_silent" /\ EndingSilent!WriteStep)
  /\ WF_SessionVars(\/ part = "ending" /\ Ending!WriteEnds
                    \/ part = "ending_silent" /\ EndingSilent!WriteEnds)
  /\ WF_SessionVars(\/ part = "ending" /\ Ending!HandleTerminate
                    \/ part = "ending_silent" /\ EndingSilent!HandleTerminate)
  /\ WF_handshakeVars(part = "handshake" /\ (HandleTransportInit \/ FailsIn("init")))
  /\ WF_handshakeVars(part = "handshake" /\ TimerExpires)
  /\ WF_handshakeVars(part = "handshake" /\ OpenTimeout)
  /\ WF_handshakeVars(part = "handshake" /\ Ended)
  /\ WF_OpeningVars(part = "handshake_any" /\ (AnyHandshake!HandleTransportInit \/ AnyHandshake!FailsIn("init")))
  /\ WF_OpeningVars(part = "handshake_any" /\ AnyHandshake!TimerExpires)
  /\ WF_OpeningVars(part = "handshake_any" /\ AnyHandshake!OpenTimeout)
  /\ WF_OpeningVars(part = "handshake_any" /\ AnyHandshake!Ended)
  /\ \A t \in {"t1", "t2"} : WF_PingVars(part = "pings" /\ Pinging!PingStep(t))
  /\ \A p \in Pinging!Pings : WF_PingVars(part = "pings" /\ Pinging!Expires(p))
  /\ \A p \in Pinging!Pings : WF_PingVars(part = "pings" /\ Pinging!PongTimeout(p))
  /\ WF_AcceptVars(part = "accept_again" /\ AcceptingAgain!Run)
  /\ WF_AcceptVars(part = "accept_again" /\ AcceptingAgain!RunReturns)
  /\ \A c \in {"c1", "c2"} : WF_AcceptVars(part = "accept_again" /\ AcceptingAgain!Loop(c))
  /\ \A c \in {"c1", "c2"} :
       /\ \A s \in Connecting!Stages : /\ WF_ClientVars(part = "connect" /\ Connecting!TimePasses(c, s))
                                      /\ WF_ClientVars(part = "connect" /\ Connecting!Queues(c, s))
       /\ WF_ClientVars(part = "connect" /\ Connecting!Handlers(c))
  /\ \A t \in Timers :
       /\ WF_transportVars(part = "asio" /\ TimePasses(t))
       /\ WF_transportVars(part = "asio" /\ Queues(t))
       /\ WF_transportVars(part = "asio" /\ InitTimeout(t))
  /\ \A o \in Ops : WF_transportVars(part = "asio" /\ OpEnds(o))
  /\ WF_transportVars(part = "asio" /\ ShutdownTimeout)
  /\ WF_transportVars(part = "asio" /\ PreInit)
  /\ WF_transportVars(part = "asio" /\ HandleProxyWrite)
  /\ WF_transportVars(part = "asio" /\ HandleProxyRead)
  /\ WF_transportVars(part = "asio" /\ HandlePostInit)
  /\ WF_transportVars(part = "asio" /\ HandleAsyncShutdown)
  /\ \A o \in Policy!Ops : WF_TlsVars(part = "policy" /\ Policy!TimePasses("c1", o))
  /\ WF_TlsVars(part = "policy" /\ Policy!HandleInit("c1"))
  /\ WF_TlsVars(part = "policy" /\ Policy!HandleTimeout("c1"))
  /\ WF_TlsVars(part = "policy" /\ Policy!HandleShutdown("c1"))
  /\ WF_TlsVars(part = "policy" /\ Policy!ShutdownTimeout("c1"))
  /\ WF_FramesVars(part = "frames" /\ Framing!Read)
  /\ WF_FramesVars(part = "frames" /\ Framing!Consume)
  /\ WF_FramesVars(part = "frames" /\ Framing!GetMessage)

MCSpec == MCInit /\ [][MCNext]_MCVars /\ MCFairness

\* What the components assume of their constants.
ASSUME PartsAssumption ==
  /\ Ending!SessionAssumption
  /\ EndingSilent!SessionAssumption
  /\ HandshakeAssumption
  /\ AnyHandshake!HandshakeAssumption
  /\ Pinging!KeepaliveAssumption
  /\ Overlapping!KeepaliveAssumption
  /\ Accepting!AcceptAssumption
  /\ AcceptingAgain!AcceptAssumption
  /\ Connecting!ConnectAssumption
  /\ TransportAssumption
  /\ Policy!PolicyAssumption
  /\ Framing!FramingAssumption

------------------------------------------------------------------------------
(* Properties, each of the component that its comment names *)

\* Every variable has its type, and the queues, flags and operations of a session and of its
\* opening handshake fit together, and so do those of the transport.
TypesOK ==
  /\ TypeOK
  /\ part = "ending" => Ending!IInv
  /\ part = "ending_silent" => EndingSilent!IInv
  /\ part = "handshake" => IInv
  /\ part = "handshake_any" => AnyHandshake!IInv
  /\ part = "accept" => Accepting!AcceptTypeOK
  /\ part = "connect" => Connecting!ClientTypeOK
  /\ part = "asio" => TransportInv
  /\ part = "policy" => Policy!PolicyTypeOK

\* ClosingHandshake: an end that drops the connection on a protocol error writes one close
\* frame at most.
OneCloseFrameDropping == part = "dropping" => OfDropping!OneCloseFrame

\* ClosingHandshake, connection.hpp:791: whatever the other end does, an end of the library
\* that closes is closed at last and its close handler called once.
ClosingReported ==
  \A e \in Ends :
    (part \in {"foreign", "dropping"} /\ e \notin (IF part = "foreign" THEN {"server"} ELSE {"client"}) /\ pair_con[e].m_state = "closing")
      ~> (pair_reported[e] = 1)

\* ClosingHandshake: when both ends run the library the other end learns of it as well, also
\* over a transport that fails.
BothEndsLearn ==
  \A e \in Ends :
    (part = "lossy" /\ pair_con[e].m_state = "closing")
      ~> (\A o \in Ends : pair_reported[o] = 1)

\* ConnectionSession: the closing handshake ends whatever the peer does; the timer sees to
\* it.
ClosingEnds ==
  (part \in {"ending", "ending_silent"} /\ session_state = "closing") ~> (session_state = "closed")

\* ConnectionSession: every message leaves the queue unless the connection ends first.
QueueDrains ==
  (part \in {"ending", "ending_silent"} /\ session_queue # <<>>) ~> (session_queue = <<>> \/ session_state = "closed")

\* ConnectionSession: a connection that ended has its close handler called.
CloseIsReported ==
  (part \in {"ending", "ending_silent"} /\ session_state = "closed") ~> (closeCalls > 0)

\* ConnectionHandshake: a client's request, and one that a single thread answers, gets one
\* response at most as well.
AnyOneAnswer == part = "handshake_any" => AnyHandshake!OneAnswer

\* ConnectionHandshake: a server's connection that ended before it opened is reported to the
\* application, by fail or by http.
ServerFailureReported ==
  (part = "handshake" /\ state = "closed" /\ Count("open") = 0)
    ~> (Count("fail") > 0 \/ Count("http") > 0)

\* ConnectionHandshake: a handshake that was started comes to an end, however silent the
\* peer: the connection opens or fails, or the application took over a plain HTTP request.
HandshakeSettles ==
  /\ (part = "handshake" /\ istate # "USER_INIT") ~> (state # "connecting" \/ httpState # "init")
  /\ (part = "handshake_any" /\ opening_istate # "USER_INIT")
       ~> (opening_state # "connecting" \/ opening_httpState # "init")

\* PingKeepalive: the pong timeout handler is called only for pings whose pong did not come
\* in time.
NoFalseAlarm ==
  /\ part = "pings_overlap" => Overlapping!NoFalseAlarm
  /\ part = "pings" => Pinging!NoFalseAlarm

\* PingKeepalive: while one thread pings, m_ping_timer designates the only timer that runs,
\* so that terminate(), a pong or the next ping can reach it.
OneTimer == part = "pings_overlap" => Overlapping!OneTimer

\* PingKeepalive, connection.hpp:404: every ping is answered, or reported as timed out, or
\* the connection ends.
UnansweredIsReported ==
  \A p \in Pinging!Pings :
    (part = "pings" /\ p \in pinged) ~> (p \in answered \/ p \in timedOut \/ ~open)

\* AcceptLoop, server_endpoint.hpp:107: once begun the loop goes on as long as the endpoint
\* listens: an accept is under way, or its handler about to run.
LoopGoesOn == part = "accept" => Accepting!LoopGoesOn

\* AcceptLoop: there are never more accepts than calls of start_accept() since listen().
OneLoop == part = "accept" => Accepting!OneLoop

\* AcceptLoop, endpoint.hpp:578: stop_listening() ends no connection that was accepted.
StopSparesConnections ==
  [][part = "accept" /\ accept_m_state = "LISTENING" /\ accept_m_state' = "READY" =>
       \A c \in Accepting!In({"accepted", "started"}) : accept_con'[c] = accept_con[c]]_AcceptVars

\* AcceptLoop, docs/faq.dox:37: after stop_listening(), when the sessions end, run() returns
\* unless the endpoint is perpetual.
RunEnds ==
  <>[](part = "accept_again" /\ accept_m_state # "LISTENING" /\ ~work) => <>[](run # "running")

\* ConnectClient, client_endpoint.hpp:160: a connection starts or is terminated, and not both
\* nor twice, whichever of answer and timer comes first.
ConnectToldOnce == part = "connect" => Connecting!ToldOnce

\* ConnectClient: a connection that was given up has nothing under way on the network.
GivenUpIsQuiet == part = "connect" => Connecting!GivenUpIsQuiet

\* ConnectClient: however silent the network, the client learns how the attempt ended.
Told ==
  \A c \in {"c1", "c2"} :
    (part = "connect" /\ stage[c] # "idle")
      ~> (client_calls[c].started + client_calls[c].terminated > 0)

\* AsioTransport: however silent the peer and the proxy, the session hears of the end of the
\* initialisation.
TransportAnswered == (part = "asio" /\ session = "init") ~> (Len(initCalls) > 0)

\* AsioTransport: and of the end of the shutdown it asked for.
TransportShutdown == (part = "asio" /\ session = "ended") ~> (shutdownCalls > 0)

\* AsioTransport: after a timeout nothing is left waiting on the socket.
NothingLeftWaiting ==
  []<>(part = "asio" => \A o \in DOMAIN TimerOf : op[o] = "idle")

\* SocketPolicy: the session hears once of the initialisation, however the answer of the
\* peer, the timer and the cancelled handshake follow each other.
PolicyToldOnce == part = "policy" => Policy!ToldOnce

\* SocketPolicy: the code tells what happened: success only of a handshake that went well, a
\* handshake timeout only before the handshake is done, another code of a timeout only after
\* it.
ToldTruly ==
  [][part = "policy" /\ tls_con'["c1"].told # tls_con["c1"].told /\ Secure /\ tls_con["c1"].stage = "begun" =>
       LET told == tls_con'["c1"].told
           code == told[Len(told)]
           handshake == tls_con["c1"].op["handshake"]
       IN /\ (code = "ok" => handshake = "ok")
          /\ (code = "tls_handshake_timeout" => handshake \in {"pending", "ok", "error"})
          /\ (code = "timeout" => handshake = "idle")
          /\ (code = "tls_handshake_failed" => handshake \in {"idle", "error"})]_TlsVars

\* SocketPolicy: an initialisation that begins is answered, and a shutdown ends, though the
\* peer says nothing.
Answered ==
  /\ (part = "policy" /\ tls_con["c1"].stage = "begun") ~> (tls_con["c1"].told # <<>>)
  /\ (part = "policy" /\ tls_con["c1"].stage = "closing") ~> (tls_con["c1"].stage = "closed")

\* Hybi13: in whatever pieces a header arrives, the frame's length and its masking key are
\* read as they were written.
HeaderUnderstood == part = "frames" => Framing!HeaderUnderstood

\* Hybi13: nothing that one end of the library makes is refused by the other.
SentIsAccepted == part = "frames" => Framing!SentIsAccepted

\* Hybi13: the processor never waits for bytes that were sent: everything is consumed at
\* last, in whatever pieces it came.
AllConsumed ==
  <>[](\/ part # "frames" \/ frames_ec # "none"
       \/ frames_wire = <<>> /\ buf = <<>> /\ frames_m_state = "HEADER_BASIC" /\ m_bytes_needed = 2)

------------------------------------------------------------------------------
(* What is checked of the components: their properties, by what they promise    *)

\* An attempt to connect, the handshake of a socket, a request and a ping have one outcome,
\* and the true one, whatever races; a loop accepts once at a time and a stop of it spares
\* the connections; a frame is read as its header and key say.
ToldOnceAndTruly ==
  /\ [](TypesOK /\ AnyOneAnswer /\ ConnectToldOnce /\ PolicyToldOnce
       /\ NoFalseAlarm /\ OneCloseFrameDropping /\ OneTimer /\ LoopGoesOn
       /\ OneLoop /\ GivenUpIsQuiet /\ HeaderUnderstood /\ SentIsAccepted)
  /\ StopSparesConnections
  /\ ToldTruly

\* A session that closes is closed at last and reported once to each end, however silent or
\* lossy the way between them, and its queue is written unless it ends first.
SessionsEnd ==
  /\ ClosingReported
  /\ BothEndsLearn
  /\ ClosingEnds
  /\ QueueDrains
  /\ CloseIsReported

\* Whatever was begun is answered though the network is silent: handshake, ping, run(),
\* connect, the initialisation and shutdown of the transport and of its socket; and bytes
\* that arrived are consumed.
AttemptsSettle ==
  /\ ServerFailureReported
  /\ HandshakeSettles
  /\ UnansweredIsReported
  /\ RunEnds
  /\ Told
  /\ TransportAnswered
  /\ TransportShutdown
  /\ NothingLeftWaiting
  /\ Answered
  /\ AllConsumed

==============================================================================
