----------------------------- MODULE SocketPolicy -----------------------------
(***************************************************************************)
(* The socket policies of the Asio transport (transport/asio/security):    *)
(* basic_socket of none.hpp and tls_socket of tls.hpp, from the handlers   *)
(* an application sets on its endpoint to the end of a connection, with    *)
(* the codes that the session is told.  AsioTransport has the callers;     *)
(* here one thread runs all handlers.                                      *)
(***************************************************************************)
EXTENDS Naturals, Sequences, SequencesExt

CONSTANTS
  Connections, \* connections of the endpoint
  Policies,   \* the socket policies: TRUE for tls_socket, FALSE for basic_socket
  Server,     \* whether the endpoint is a server
  SniFails,   \* whether OpenSSL may refuse the name of the server
  SameTypes   \* whether Asio and the library use one type of error codes

\* What is assumed of the constants.
PolicyAssumption == 
  Policies \cup {Server, SniFails, SameTypes} \subseteq BOOLEAN

\* What the tls_init_handler is: not set, or one that returns a null pointer
\* or a context.
TlsHandlers == {"unset", "null", "ctx1", "ctx2"}

VARIABLES
  Secure,    \* the policy the endpoint is built with
  handler,   \* the endpoint's m_tls_init_handler
  con        \* the socket components of the connections

policyVars == <<Secure, handler, con>>

\* The operations of a TLS socket that wait for the peer, each with its timer.
Ops == {"handshake", "shutdown"}

Absent == [stage |-> "absent", m_tls_init_handler |-> "unset", m_context |-> "unset",
           m_ec |-> "ok", op |-> [o \in Ops |-> "idle"],
           timer |-> [o \in Ops |-> "unset"], told |-> <<>>, end |-> "ok"]

PolicyInit == Secure \in Policies /\ handler = "unset" /\ con = [c \in Connections |-> Absent]

\* endpoint::set_tls_init_handler(): for connections still to be made.
SetTlsInitHandler ==
  /\ Secure
  /\ handler' \in TlsHandlers \ {"unset", handler}
  /\ UNCHANGED <<Secure, con>>

\* init_asio(): what it returns.
InitCode(h) == CASE ~Secure        -> "ok"
                 [] h = "unset"    -> "missing_tls_init_handler"
                 [] h = "null"     -> "invalid_tls_context"
                 [] OTHER          -> "ok"

\* The transport's endpoint makes a connection: init() copies the handlers and
\* init_asio() makes the socket.  A connection that is refused is dropped.
Create(c) ==
  /\ con[c].stage = "absent"
  /\ con' = [con EXCEPT ![c] =
       IF InitCode(handler) = "ok"
       THEN [Absent EXCEPT !.stage = "ready", !.m_tls_init_handler = handler,
                           !.m_context = IF Secure THEN handler ELSE "unset"]
       ELSE [Absent EXCEPT !.stage = "refused", !.told = <<InitCode(handler)>>]]
  /\ UNCHANGED <<Secure, handler>>

\* An asynchronous operation begins under its timer.
Begin(k, o) == [k EXCEPT !.op[o] = "pending", !.timer[o] = "running"]

\* post_init(): the TLS handshake begins; should its timer run out, m_ec is
\* there to say so.
PostInit(k) ==
  IF Secure
  THEN Begin([k EXCEPT !.m_ec = "tls_handshake_timeout"], "handshake")
  ELSE [k EXCEPT !.told = Append(@, "ok")]

\* pre_init(), after which the transport goes on to post_init().  A basic
\* socket does it once, a client's TLS socket names its server; when that
\* fails both the error and the success are reported.
PreInit(c) ==
  /\ con[c].stage = "ready"
  /\ \E refused \in IF Secure /\ ~Server /\ SniFails THEN BOOLEAN ELSE {FALSE} :
       LET k == [con[c] EXCEPT !.stage = "begun"]
       IN con' = [con EXCEPT ![c] = PostInit(
            IF refused THEN [k EXCEPT !.told = <<"tls_failed_sni_hostname">>] ELSE k)]
  /\ UNCHANGED <<Secure, handler>>

\* The peer ends the handshake or the shutdown, well or badly; it may not.
PeerAnswers(c, o) ==
  /\ con[c].op[o] = "pending"
  /\ \E r \in {"ok", "error"} : con' = [con EXCEPT ![c].op[o] = r]
  /\ UNCHANGED <<Secure, handler>>

TimePasses(c, o) ==
  /\ con[c].timer[o] = "running"
  /\ con' = [con EXCEPT ![c].timer[o] = "passed"]
  /\ UNCHANGED <<Secure, handler>>

\* Faulty variant: neither handler looks at the expiry of the timer.
Late_Code(k, o) == FALSE

\* handle_post_init() and handle_async_shutdown() leave the connection to the
\* timer's handler.
Late(k, o) == k.timer[o] \in {"passed", "done"}

\* handle_init() puts the result in m_ec, and the transport tells it unless
\* the timer has run out.
HandleInit(c) ==
  /\ con[c].op["handshake"] \in {"ok", "error", "aborted"}
  /\ LET code == IF con[c].op["handshake"] = "ok" THEN "ok" ELSE "tls_handshake_failed"
         k == [con[c] EXCEPT !.m_ec = code, !.op["handshake"] = "idle"]
     IN con' = [con EXCEPT ![c] =
          IF Late(k, "handshake") THEN k
          ELSE [k EXCEPT !.timer["handshake"] = "cancelled", !.told = Append(@, code)]]
  /\ UNCHANGED <<Secure, handler>>

\* get_ec() of the policy, or a plain timeout.
TimeoutCode(k) == IF k.m_ec # "ok" THEN k.m_ec ELSE "timeout"

\* cancel_socket(): operations under way end with an error.
CancelSocket(k) ==
  [k EXCEPT !.op = [o \in Ops |-> IF @[o] = "pending" THEN "aborted" ELSE @[o]]]

\* handle_post_init_timeout().
HandleTimeout(c) ==
  /\ con[c].timer["handshake"] = "passed"
  /\ LET k == [con[c] EXCEPT !.timer["handshake"] = "done",
                             !.told = Append(@, TimeoutCode(con[c]))]
     IN con' = [con EXCEPT ![c] = CancelSocket(k)]
  /\ UNCHANGED <<Secure, handler>>

\* translate_ec(): the category of an error is all that is left of it, unless
\* the types are the same.
TranslateEc(ec) ==
  IF SameTypes THEN ec
  ELSE IF Secure /\ ec = "ssl_error" THEN "tls_error" ELSE "pass_through"

\* async_shutdown(), when the session has been told: a basic socket is shut at
\* once, a TLS socket takes leave of its peer, while the handler of a cancelled
\* handshake may still be due.
AsyncShutdown(c) ==
  /\ con[c].stage = "begun" /\ con[c].told # <<>>
  /\ con' = [con EXCEPT ![c] = IF Secure
       THEN Begin([@ EXCEPT !.stage = "closing"], "shutdown")
       ELSE [@ EXCEPT !.stage = "closed"]]
  /\ UNCHANGED <<Secure, handler>>

\* handle_async_shutdown(): the error is translated for the session.
HandleShutdown(c) ==
  /\ con[c].op["shutdown"] \in {"ok", "error", "aborted"}
  /\ LET k == [con[c] EXCEPT !.op["shutdown"] = "idle"]
     IN \E ec \in {"ssl_error", "eof"} :
          con' = [con EXCEPT ![c] =
            IF Late(k, "shutdown") THEN k
            ELSE [k EXCEPT !.timer["shutdown"] = "cancelled", !.stage = "closed",
                           !.end = IF con[c].op["shutdown"] = "error" THEN TranslateEc(ec) ELSE "ok"]]
  /\ UNCHANGED <<Secure, handler>>

\* handle_async_shutdown_timeout().
ShutdownTimeout(c) ==
  /\ con[c].timer["shutdown"] = "passed"
  /\ con' = [con EXCEPT ![c] = CancelSocket(
       [@ EXCEPT !.timer["shutdown"] = "done", !.stage = "closed", !.end = "timeout"])]
  /\ UNCHANGED <<Secure, handler>>

PolicyNext ==
  \/ SetTlsInitHandler
  \/ \E c \in Connections :
       \/ Create(c) \/ PreInit(c) \/ HandleInit(c) \/ HandleTimeout(c)
       \/ AsyncShutdown(c) \/ HandleShutdown(c) \/ ShutdownTimeout(c)
       \/ \E o \in Ops : PeerAnswers(c, o) \/ TimePasses(c, o)

\* Time passes and handlers run; the peer need not answer.
PolicyFairness == \A c \in Connections :
  /\ \A o \in Ops : WF_policyVars(TimePasses(c, o))
  /\ WF_policyVars(HandleInit(c)) /\ WF_policyVars(HandleTimeout(c))
  /\ WF_policyVars(HandleShutdown(c)) /\ WF_policyVars(ShutdownTimeout(c))

PolicySpec == PolicyInit /\ [][PolicyNext]_policyVars /\ PolicyFairness

-----------------------------------------------------------------------------
ErrorCodes == {"ok", "timeout", "tls_handshake_timeout", "tls_handshake_failed",
          "tls_failed_sni_hostname", "missing_tls_init_handler", "invalid_tls_context",
          "ssl_error", "eof", "tls_error", "pass_through"}
Sockets == [
  stage : {"absent", "refused", "ready", "begun", "closing", "closed"},
  m_tls_init_handler : TlsHandlers, m_context : {"unset", "ctx1", "ctx2"},
  m_ec : ErrorCodes,
  op : [Ops -> {"idle", "pending", "ok", "error", "aborted"}],
  timer : [Ops -> {"unset", "running", "passed", "done", "cancelled"}],
  end : ErrorCodes,
  told : Seq(ErrorCodes)]
PolicyTypeOK ==
  /\ Secure \in Policies /\ handler \in TlsHandlers
  /\ con \in [Connections -> Sockets]

\* The session hears once of the initialisation, however the answer of the
\* peer, the timer and the cancelled handshake follow each other: the code of
\* a cancelled handshake is not the one that handle_post_init() tests for.
ToldOnce == \A c \in Connections : Len(con[c].told) <= 1

\* The code tells what happened: success only of a handshake that went well,
\* a handshake timeout only before the handshake is done, another code of a
\* timeout only after it.
ToldTruly ==
  [][\A c \in Connections : con'[c].told # con[c].told /\ Secure /\ con[c].stage = "begun" =>
       LET code == Last(con'[c].told)
           answer == con[c].op["handshake"]
       IN /\ (code = "ok" => answer = "ok")
          /\ (code = "tls_handshake_timeout" => answer \in {"pending", "ok", "error"})
          /\ (code = "timeout" => answer = "idle")
          /\ (code = "tls_handshake_failed" => answer \in {"idle", "error"})]_policyVars

\* An initialisation that begins is answered, and a shutdown ends, though the
\* peer says nothing.
Answered ==
  \A c \in Connections :
    /\ (con[c].stage = "begun" ~> con[c].told # <<>>)
    /\ (con[c].stage = "closing" ~> con[c].stage = "closed")
=============================================================================
