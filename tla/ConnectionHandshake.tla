------------------------- MODULE ConnectionHandshake -------------------------
(***************************************************************************)
(* The opening handshake of websocketpp::connection, from start() to the   *)
(* open state, to plain HTTP responses or to failure, for both roles       *)
(* (impl/connection_impl.hpp).  Handlers of the transport and of the timer *)
(* run on one strand; an application thread may answer a deferred HTTP     *)
(* request.  The open session itself is kept as one step that ends it:     *)
(* module ConnectionSession has its detail.                                *)
(***************************************************************************)
EXTENDS Naturals, Sequences, FiniteSets

CONSTANTS
  Roles,         \* the values m_is_server may have
  OpenTimer,     \* m_open_handshake_timeout_dur > 0
  HttpHandler,   \* m_http_handler is set
  Responders     \* application threads that answer deferred requests

\* What is assumed of the constants.
HandshakeAssumption ==
  Roles \subseteq BOOLEAN /\ OpenTimer \in BOOLEAN /\ HttpHandler \in BOOLEAN

\* What a complete request may be: a websocket handshake or not, of a version
\* that is missing, unknown, 0 or supported, with the bytes after a version 0
\* request, and what validation, the extensions and the URI come to.
Requests ==
  [websocket : BOOLEAN, version : {"missing", "unknown", "00", "13"},
   key3 : BOOLEAN, valid : BOOLEAN, uri : BOOLEAN,
   extensions : {"fine", "malformed", "failed"}]

Statuses == {"uninitialized", "refused", "ok", "switching"}
Errors == {"none", "http_ended", "timeout", "other"}
TerminateStatuses == {"failed", "closed"}   \* terminate_status

VARIABLES
  isServer,     \* m_is_server
  state,        \* m_state: "connecting", "open" or "closed"
  istate,       \* m_internal_state
  httpState,    \* m_http_state
  isHttp,       \* m_is_http
  status,       \* m_response's status code
  ec,           \* m_ec
  ops,          \* operations of the transport in flight, of each kind
  timer,        \* what m_handshake_timer designates: "none" or "waiting"
  due,          \* an expired timer's handler waits on the strand
  shutdowns,    \* async_shutdown() under way, for each terminate_status
  responder,    \* what each application thread does
  called,       \* history: the handlers called, in order
  responses     \* history: HTTP responses handed to the transport

kind == <<isServer, isHttp>>
result == <<kind, status, ec>>
handshakeVars == <<state, istate, httpState, result, ops, timer, due, shutdowns,
          responder, called, responses>>

HandshakeInit ==
  /\ isServer \in Roles
  /\ state = "connecting" /\ istate = "USER_INIT" /\ httpState = "init"
  /\ isHttp = FALSE /\ status = "uninitialized" /\ ec = "none"
  /\ ops = [k \in {"init", "read", "write"} |-> 0]
  /\ timer = "none" /\ due = FALSE
  /\ shutdowns = [e \in TerminateStatuses |-> 0]
  /\ responder = [r \in Responders |-> "idle"]
  /\ called = <<>> /\ responses = 0

Completes(op) == ops[op] > 0
\* The operation of that kind ends, and the next one begins.
Replace(op, next) ==
  LET ended == [ops EXCEPT ![op] = @ - 1]
  IN  ops' = IF next = "none" THEN ended ELSE [ended EXCEPT ![next] = @ + 1]
Call(handler) == called' = Append(called, handler)

------------------------------------------------------------------------------
(* Termination *)

\* Faulty variant: a second call shuts down again.
TerminateAgain(error) ==
  /\ timer' = "none"
  /\ ec' = IF error = "none" THEN ec ELSE error
  /\ httpState' = IF isHttp THEN "closed" ELSE httpState
  /\ state' = "closed"
  /\ shutdowns' = IF state = "connecting"
                    THEN [shutdowns EXCEPT !["failed"] = @ + 1]
                    ELSE [shutdowns EXCEPT !["closed"] = @ + 1]

\* terminate(): the handler that will be called depends on the state it finds;
\* a second call only replaces the error.
Terminate(error) ==
  /\ timer' = "none"
  /\ ec' = IF error = "none" THEN ec ELSE error
  /\ httpState' = IF isHttp THEN "closed" ELSE httpState
  /\ state' = "closed"
  /\ shutdowns' = CASE state = "connecting" -> [shutdowns EXCEPT !["failed"] = @ + 1]
                    [] state = "open" -> [shutdowns EXCEPT !["closed"] = @ + 1]
                    [] OTHER -> shutdowns

\* handle_terminate().
HandleTerminateAs(end) ==
  /\ shutdowns[end] > 0
  /\ shutdowns' = [shutdowns EXCEPT ![end] = @ - 1]
  /\ CASE end = "closed" -> Call("close")
       [] end = "failed" /\ ec # "http_ended" -> Call("fail")
       [] OTHER -> UNCHANGED called
  /\ UNCHANGED <<state, istate, httpState, result, ops, timer, due, responder,
                 responses>>

\* The open handshake timer expires: cancel() can no longer withdraw it.
TimerExpires ==
  /\ timer = "waiting" /\ ~due
  /\ due' = TRUE
  /\ UNCHANGED <<state, istate, httpState, result, ops, timer, shutdowns,
                 responder, called, responses>>

\* handle_open_handshake_timeout().
OpenTimeout ==
  /\ due
  /\ due' = FALSE
  /\ Terminate("timeout")
  /\ UNCHANGED <<istate, kind, status, ops, responder, called, responses>>

\* A completion handler that finds the connection closed, or an error that
\* ends it: an error in the closed state is ignored only when it is eof.
FailsIn(op) ==
  /\ Completes(op)
  /\ Replace(op, "none")
  /\ \/ UNCHANGED <<state, ec, httpState, timer, shutdowns>> /\ state = "closed"
     \/ Terminate("other")
  /\ UNCHANGED <<istate, kind, status, due, responder, called, responses>>

------------------------------------------------------------------------------
(* Both roles *)

\* start(), called once by the endpoint.
Start ==
  /\ istate = "USER_INIT" /\ state = "connecting"
  /\ istate' = "TRANSPORT_INIT"
  /\ ops' = [ops EXCEPT !["init"] = @ + 1]
  /\ UNCHANGED <<state, httpState, result, timer, due, shutdowns, responder,
                 called, responses>>

\* The endpoint gives up before start(): accept, resolve or connect failed.
NeverStarts ==
  /\ istate = "USER_INIT" /\ state = "connecting"
  /\ Terminate("other")
  /\ UNCHANGED <<istate, kind, status, ops, due, responder, called, responses>>

\* handle_transport_init(): a server waits for the request (read_handshake()),
\* a client sends one (send_http_request()); both set the open timer.
HandleTransportInit ==
  /\ Completes("init")
  /\ timer' = IF OpenTimer THEN "waiting" ELSE timer
  /\ istate' = IF isServer THEN "READ_HTTP_REQUEST" ELSE "WRITE_HTTP_REQUEST"
  /\ Replace("init", IF isServer THEN "read" ELSE "write")
  /\ UNCHANGED <<state, httpState, result, due, shutdowns, responder, called,
                 responses>>

\* Entering the open state.
Opens ==
  /\ istate' = "PROCESS_CONNECTION"
  /\ state' = "open"
  /\ Call("open")

\* The session ends: any terminate() of an open connection.
SessionEnds ==
  /\ state = "open"
  /\ \E error \in {"none", "other"} : Terminate(error)
  /\ UNCHANGED <<istate, kind, status, ops, due, responder, called, responses>>

------------------------------------------------------------------------------
(* The server *)

\* initialize_processor() and the key3 test of version 0: "none", or the error
\* for which a response is written before the request is processed.
InitializeProcessor(r) ==
  CASE ~r.websocket -> "none"
    [] r.version = "missing" -> "invalid_version"
    [] r.version = "unknown" -> "unsupported_version"
    [] r.version = "00" /\ ~r.key3 -> "short_key3"
    [] OTHER -> "none"

\* process_handshake_request() of a websocket handshake: the status the
\* response gets.  The application decides in its validate handler, and its
\* refusal may have a status of its own.
Handshake(r, accepts) ==
  CASE ~r.valid \/ r.extensions = "malformed" \/ ~r.uri -> "refused"
    [] ~accepts -> "refused"
    [] OTHER -> "switching"

\* The validate handler is asked only about requests that are in order.
Asked(r) == r.valid /\ r.extensions # "malformed" /\ r.uri

\* write_http_response(): m_ec and the write.  A status nobody set becomes an
\* internal error.
WriteResponse(code, error, op) ==
  /\ status' = IF code = "uninitialized" THEN "refused" ELSE code
  /\ ec' = IF code = "uninitialized" THEN "other" ELSE error
  /\ Replace(op, "write")
  /\ responses' = responses + 1

\* handle_read_handshake() with an incomplete request: it reads on.
ReadMore ==
  /\ Completes("read") /\ state = "connecting" /\ istate = "READ_HTTP_REQUEST"
  /\ UNCHANGED handshakeVars

\* write_http_response_error(): for a malformed request, or for one of a
\* version no processor serves.
ReadRefused ==
  /\ Completes("read") /\ state = "connecting" /\ istate = "READ_HTTP_REQUEST"
  /\ \E malformed \in BOOLEAN, r \in Requests :
       malformed \/ InitializeProcessor(r) # "none"
  /\ istate' = "PROCESS_HTTP_REQUEST"
  /\ WriteResponse("refused", "other", "read")
  /\ UNCHANGED <<state, httpState, kind, timer, due, shutdowns, responder,
                 called>>

\* handle_read_handshake() with a websocket handshake.
ReadHandshake ==
  /\ Completes("read") /\ state = "connecting" /\ istate = "READ_HTTP_REQUEST"
  /\ istate' = "PROCESS_HTTP_REQUEST"
  /\ \E r \in Requests, accepts, processed \in BOOLEAN :
       LET code == Handshake(r, accepts)
           failure == code = "switching" /\ ~processed
       IN  /\ r.websocket /\ InitializeProcessor(r) = "none"
           /\ WriteResponse(IF failure THEN "refused" ELSE code,
                            IF code = "refused" \/ failure THEN "other" ELSE "none",
                            "read")
           /\ IF Asked(r) THEN Call("validate") ELSE UNCHANGED called
  /\ UNCHANGED <<state, httpState, kind, timer, due, shutdowns, responder>>

\* handle_read_handshake() with a plain HTTP request: refused without a
\* handler; the handler may answer, defer the answer, or end the connection.
ReadHttpRefused ==
  /\ Completes("read") /\ state = "connecting" /\ istate = "READ_HTTP_REQUEST"
  /\ ~HttpHandler \/ \E r \in Requests : ~r.uri
  /\ istate' = "PROCESS_HTTP_REQUEST"
  /\ WriteResponse("refused", "other", "read")
  /\ UNCHANGED <<state, httpState, kind, timer, due, shutdowns, responder,
                 called>>

ReadHttp ==
  /\ Completes("read") /\ state = "connecting" /\ istate = "READ_HTTP_REQUEST"
  /\ HttpHandler
  /\ istate' = "PROCESS_HTTP_REQUEST"
  /\ isHttp' = TRUE
  /\ Call("http")
  /\ \/ /\ \E code \in {"uninitialized", "ok"} : WriteResponse(code, "none", "read")
        /\ UNCHANGED <<httpState, timer>>
     \/ /\ httpState' = "deferred" /\ timer' = "none"
        /\ Replace("read", "none")
        /\ UNCHANGED <<status, ec, responses>>
  /\ UNCHANGED <<isServer, state, due, shutdowns, responder>>

\* set_status() and the other setters of a response, for a deferred one.
SetResponse ==
  /\ httpState = "deferred" /\ istate = "PROCESS_HTTP_REQUEST"
  /\ status = "uninitialized" /\ status' = "ok"
  /\ UNCHANGED <<state, istate, httpState, kind, ec, ops, timer, due,
                 shutdowns, responder, called, responses>>

\* Faulty variant: the state is set only after the lock is released.
SendHttpResponseTwice(r) ==
  /\ responder[r] = "idle" /\ httpState = "deferred"
  /\ responder' = [responder EXCEPT ![r] = "responds"]
  /\ UNCHANGED <<state, istate, httpState, result, ops, timer, due, shutdowns,
                 called, responses>>

\* send_http_response(): the test of m_http_state under the lock, ...
SendHttpResponse(r) ==
  /\ responder[r] = "idle" /\ httpState = "deferred"
  /\ httpState' = "body_written"
  /\ responder' = [responder EXCEPT ![r] = "responds"]
  /\ UNCHANGED <<state, istate, result, ops, timer, due, shutdowns, called,
                 responses>>

\* ... then write_http_response() without it.
WriteDeferred(r) ==
  /\ responder[r] = "responds"
  /\ responder' = [responder EXCEPT ![r] = "done"]
  /\ status' = IF status = "uninitialized" THEN "refused" ELSE status
  /\ ec' = IF status = "uninitialized" THEN "other" ELSE "none"
  /\ ops' = [ops EXCEPT !["write"] = @ + 1]
  /\ responses' = responses + 1
  /\ UNCHANGED <<state, istate, httpState, kind, timer, due, shutdowns, called>>

\* handle_write_http_response(): it opens the connection after 101 and ends it
\* after any other response.
ResponseWritten ==
  /\ isServer /\ Completes("write") /\ state = "connecting"
  /\ istate = "PROCESS_HTTP_REQUEST"
  /\ Replace("write", "none")
  /\ IF status = "switching"
       THEN /\ Opens /\ timer' = "none"
            /\ UNCHANGED <<httpState, ec, shutdowns>>
       ELSE /\ Terminate(IF isHttp THEN "http_ended" ELSE ec)
            /\ UNCHANGED <<istate, called>>
  /\ UNCHANGED <<kind, status, due, responder, responses>>

------------------------------------------------------------------------------
(* The client *)

\* handle_send_http_request().
RequestSent ==
  /\ ~isServer /\ Completes("write") /\ state = "connecting"
  /\ istate = "WRITE_HTTP_REQUEST"
  /\ istate' = "READ_HTTP_RESPONSE"
  /\ Replace("write", "read")
  /\ UNCHANGED <<state, httpState, result, timer, due, shutdowns, responder,
                 called, responses>>

\* handle_read_http_response() before the headers are complete.
ResponseMore ==
  /\ Completes("read") /\ state = "connecting" /\ istate = "READ_HTTP_RESPONSE"
  /\ UNCHANGED handshakeVars

\* handle_read_http_response() with a malformed response, or one that does not
\* accept the handshake.
ResponseRefused ==
  /\ Completes("read") /\ state = "connecting" /\ istate = "READ_HTTP_RESPONSE"
  /\ Replace("read", "none")
  /\ Terminate("other")
  /\ UNCHANGED <<istate, kind, status, due, responder, called, responses>>

ResponseAccepted ==
  /\ Completes("read") /\ state = "connecting" /\ istate = "READ_HTTP_RESPONSE"
  /\ Replace("read", "none")
  /\ timer' = "none"
  /\ Opens
  /\ UNCHANGED <<httpState, result, due, shutdowns, responder, responses>>

\* handle_read_http_response() when the extensions cannot be negotiated: it
\* calls terminate() and goes on to open the connection.
ResponseUnnegotiated ==
  /\ Completes("read") /\ state = "connecting" /\ istate = "READ_HTTP_RESPONSE"
  /\ Replace("read", "none")
  /\ timer' = "none" /\ ec' = "other"
  /\ shutdowns' = [shutdowns EXCEPT !["failed"] = @ + 1]
  /\ Opens
  /\ UNCHANGED <<httpState, kind, status, due, responder, responses>>

------------------------------------------------------------------------------
Fails == \E op \in {"init", "read", "write"} : FailsIn(op)
Ended == \E end \in TerminateStatuses : HandleTerminateAs(end)
HandshakeNext ==
  \/ Start \/ NeverStarts \/ HandleTransportInit \/ Fails
  \/ ReadMore \/ ReadRefused \/ ReadHandshake \/ ReadHttpRefused \/ ReadHttp
  \/ SetResponse \/ \E r \in Responders : SendHttpResponse(r) \/ WriteDeferred(r)
  \/ ResponseWritten
  \/ RequestSent \/ ResponseMore \/ ResponseRefused \/ ResponseAccepted
  \/ ResponseUnnegotiated
  \/ SessionEnds \/ TimerExpires \/ OpenTimeout \/ Ended

HandshakeSpec == HandshakeInit /\ [][HandshakeNext]_handshakeVars

\* The transport initialises or fails, timers expire, and the strand runs what
\* is queued; the peer and the application owe nothing.
FairSpec ==
  /\ HandshakeSpec
  /\ WF_handshakeVars(HandleTransportInit \/ FailsIn("init"))
  /\ WF_handshakeVars(TimerExpires) /\ WF_handshakeVars(OpenTimeout) /\ WF_handshakeVars(Ended)

------------------------------------------------------------------------------
(* Properties *)

Count(handler) == Cardinality({i \in DOMAIN called : called[i] = handler})

HandshakeTypeOK ==
  /\ isServer \in BOOLEAN
  /\ state \in {"connecting", "open", "closed"}
  /\ istate \in {"USER_INIT", "TRANSPORT_INIT", "READ_HTTP_REQUEST",
                 "WRITE_HTTP_REQUEST", "READ_HTTP_RESPONSE",
                 "PROCESS_HTTP_REQUEST", "PROCESS_CONNECTION"}
  /\ httpState \in {"init", "deferred", "body_written", "closed"}
  /\ isHttp \in BOOLEAN /\ status \in Statuses /\ ec \in Errors
  /\ ops \in [{"init", "read", "write"} -> Nat]
  /\ timer \in {"none", "waiting"} /\ due \in BOOLEAN
  /\ shutdowns \in [TerminateStatuses -> Nat]
  /\ responder \in [Responders -> {"idle", "responds", "done"}]
  /\ called \in Seq({"http", "validate", "open", "fail", "close"})
  /\ responses \in Nat

\* At most one operation of the handshake is with the transport, and it is the
\* one the internal state waits for; there is none while a response is deferred.
OneOperation ==
  /\ ops["init"] + ops["read"] + ops["write"] <= 1
  /\ ops["init"] > 0 => istate = "TRANSPORT_INIT"
  /\ istate = "USER_INIT" \/ httpState = "deferred"
       \/ (\E r \in Responders : responder[r] = "responds") =>
            ops["init"] = 0 /\ ops["read"] = 0 /\ ops["write"] = 0
  /\ state = "connecting" /\ ops["read"] > 0 =>
        istate \in {"READ_HTTP_REQUEST", "READ_HTTP_RESPONSE"}
  /\ state = "connecting" /\ ops["write"] > 0 =>
        istate \in {"WRITE_HTTP_REQUEST", "PROCESS_HTTP_REQUEST"}

\* Each role has its steps, and only a server answers plain HTTP, which never
\* switches protocols.
RoleDiscipline ==
  /\ istate = "READ_HTTP_REQUEST" => isServer
  /\ istate \in {"WRITE_HTTP_REQUEST", "READ_HTTP_RESPONSE"} => ~isServer
  /\ isHttp => isServer /\ istate = "PROCESS_HTTP_REQUEST" /\ status # "switching"
  /\ httpState # "init" \/ ec = "http_ended" => isHttp

\* The read of a request ends for good before its response can be written, and
\* the test of m_http_state lets one responder through.
ResponseDiscipline ==
  LET answering == {r \in Responders : responder[r] # "idle"}
  IN  /\ istate \in {"USER_INIT", "TRANSPORT_INIT", "READ_HTTP_REQUEST"} =>
            responses = 0 /\ httpState = "init" /\ ~isHttp
      /\ httpState \in {"init", "deferred"} => answering = {}
      /\ httpState = "deferred" => responses = 0
      /\ \A r, q \in answering : r = q
      /\ \A r \in answering : responder[r] = "responds" => responses = 0
      /\ responses <= 1

\* The handlers that were called, in order, and the shutdowns that will call
\* another one, are those of the state of a server's connection.
Before == {<<>>, <<"http">>, <<"validate">>}
Shutting(failed, closed) == shutdowns["failed"] = failed /\ shutdowns["closed"] = closed

HandlersOfState ==
  /\ state = "connecting" => Shutting(0, 0) /\ called \in Before
  /\ state = "open" => Shutting(0, 0) /\ called = <<"validate", "open">>
  /\ state = "closed" =>
       \/ Shutting(1, 0) /\ called \in Before
       \/ Shutting(0, 0) /\ called \in {<<"fail">>, <<"http">>, <<"http", "fail">>,
                                        <<"validate", "fail">>, <<"validate", "open", "close">>}
       \/ Shutting(0, 1) /\ called = <<"validate", "open">>

\* Nothing is called before the request was read; a plain HTTP request is known
\* by the handler it had, an accepted handshake by that it was validated.
HandlersOfRequest ==
  /\ istate \in {"USER_INIT", "TRANSPORT_INIT", "READ_HTTP_REQUEST"} =>
       called \in {<<>>, <<"fail">>}
  /\ isHttp <=> (called # <<>> /\ called[1] = "http")
  /\ status = "switching" => called # <<>> /\ called[1] = "validate"
  /\ Len(called) > 1 /\ called[2] = "open" => status = "switching"

\* The invariant the proofs use.
IInv ==
  /\ HandshakeTypeOK /\ OneOperation /\ RoleDiscipline /\ ResponseDiscipline
  /\ isServer => HandlersOfState /\ HandlersOfRequest

\* A request gets at most one response, whoever sends it.
RespondsOnce == responses <= 1

\* Only the response that switches protocols opens a server's connection, after
\* the application was asked, and never one that answered a plain HTTP request.
OpenMeansAccepted ==
  isServer /\ Count("open") > 0 =>
    status = "switching" /\ Count("validate") = 1 /\ Count("http") = 0

\* However the answers race, there is one: what the theorems and the runs state.
OneAnswer == RespondsOnce /\ OpenMeansAccepted

\* docs/handlers.dox:77: open or fail, never both.
OpenXorFail == ~(Count("open") > 0 /\ Count("fail") > 0)

\* connection.hpp:76: a connection that is not an upgrade triggers the http
\* handler instead of fail or open.
HttpInsteadOfFail == Count("http") > 0 => Count("fail") = 0

\* connection.hpp:488: the open handshake timer only ends connections that
\* have not opened: their fail handler is called.
TimeoutFails == ec = "timeout" => Count("open") = 0

\* docs/handlers.dox: the handlers are called in the order of HandlerOrder.
Phase ==
  IF called = <<>> \/ called[Len(called)] = "http" THEN "none" ELSE called[Len(called)]
Abstract == INSTANCE HandlerOrder WITH phase <- Phase
KeepsHandlerOrder == Abstract!Spec

\* A handshake that was started comes to an end: the connection opens or fails,
\* or the application took over a plain HTTP request.
Settles == istate # "USER_INIT" ~> (state # "connecting" \/ httpState # "init")

\* A connection that ended before it opened is reported to the application, one
\* way or the other.
FailureReported ==
  state = "closed" /\ Count("open") = 0
    ~> Count("fail") > 0 \/ Count("http") > 0
==============================================================================
