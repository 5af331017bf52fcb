---------------------------- MODULE AsioTransport ----------------------------
(***************************************************************************)
(* One connection of the Asio transport (transport/asio/connection.hpp     *)
(* with the socket policies security/none.hpp and security/tls.hpp): the   *)
(* initialisation through proxy and TLS, the reads and writes of the       *)
(* session, the shutdown, and the timers that race them.                   *)
(*                                                                         *)
(* Handlers run one at a time (on the strand, or on the only thread).  A   *)
(* handler that tests a timer and then cancels it does so in two steps:    *)
(* time goes on between them, and with several threads another one may     *)
(* queue the timer's handler in between, out of the reach of cancel().     *)
(***************************************************************************)
EXTENDS Naturals, Sequences

CONSTANTS
  Tls,           \* the socket policies: TRUE for tls_socket, FALSE for basic_socket
  Proxy,         \* whether set_proxy() was called
  Threads,       \* number of threads that run the io_service
  PreInitFails   \* whether pre_init of the socket policy may fail

\* What is assumed of the constants.
TransportAssumption ==
  Tls \subseteq BOOLEAN /\ Proxy \subseteq BOOLEAN /\ PreInitFails \in BOOLEAN /\ Threads \in Nat

Ops == {"proxy_write", "proxy_read", "handshake", "read", "write", "shutdown"}
Timers == {"proxy", "post_init", "shutdown"}
None == "none"

VARIABLES
  tls,           \* the socket policy of the connection
  session,       \* what the session asked for: new, init, up, ending, ended
  op,            \* the asynchronous operations of the socket
  timers,        \* the timers set so far
  midway,        \* the handler that has tested its timer and goes on, or None
  proxyData,     \* m_proxy_data is there
  bufs,          \* buffers in m_bufs
  initCalls,     \* calls of the init handler, with what they said
  shutdownCalls  \* calls of the shutdown handler

transportVars == <<tls, session, op, timers, midway, proxyData, bufs, initCalls, shutdownCalls>>

TransportInit ==
  /\ tls \in Tls
  /\ session = "new"
  /\ op = [o \in Ops |-> "idle"]
  /\ timers = [t \in Timers |-> "unset"]
  /\ midway = None
  /\ proxyData \in Proxy
  /\ bufs = 0
  /\ initCalls = <<>> /\ shutdownCalls = 0

\* The timer each operation races, and is_neg(expires_from_now()) of it.
TimerOf == [proxy_write |-> "proxy", proxy_read |-> "proxy",
            handshake |-> "post_init", shutdown |-> "shutdown"]
TimeOver(t) == timers[t] \in {"passed", "queued", "done"}

\* cancel() of a timer: a handler that is queued already stays.
Cancelled(t) ==
  IF timers[t] \in {"running", "passed"} THEN [timers EXCEPT ![t] = "cancelled"] ELSE timers

\* cancel_socket(): what is under way ends with operation_aborted.
Aborted == [o \in Ops |-> IF op[o] = "pending" THEN "aborted" ELSE op[o]]

\* The init handler: the session goes on, or gives the connection up.
CallInit(results) ==
  /\ initCalls' = initCalls \o results
  /\ session' = IF session # "init" THEN session
                ELSE IF results[1] = "ok" THEN "up" ELSE "ending"

\* post_init(): basic_socket is done at once, tls_socket shakes hands while a
\* timer runs.
PostInit(ops) ==
  IF tls
    THEN /\ op' = [ops EXCEPT !["handshake"] = "pending"]
         /\ timers' = [timers EXCEPT !["post_init"] = "running"]
    ELSE /\ op' = ops
         /\ timers' = [timers EXCEPT !["post_init"] = "cancelled"]

PostInitResults == IF tls THEN <<>> ELSE <<"ok">>

\* proxy_write(): the request goes out with a timer.
ProxyWrite ==
  /\ bufs' = bufs + 1
  /\ op' = [op EXCEPT !["proxy_write"] = "pending"]
  /\ timers' = [timers EXCEPT !["proxy"] = "running"]

\* Where handle_pre_init() goes on, whatever ec was: failed calls of the init
\* handler come first.
HandlePreInit(failed) ==
  IF proxyData
    THEN /\ ProxyWrite
         /\ IF failed = <<>> THEN UNCHANGED <<initCalls, session>> ELSE CallInit(failed)
    ELSE /\ PostInit(op)
         /\ UNCHANGED bufs
         /\ IF failed \o PostInitResults = <<>> THEN UNCHANGED <<initCalls, session>>
            ELSE CallInit(failed \o PostInitResults)

\* init(): pre_init of the socket policy calls back at once.  It can fail for
\* a client's tls_socket, which reports the error and then success: both times
\* handle_pre_init() goes on.  The model follows the second of these runs and
\* keeps of the first one the call of the init handler.
InitCon ==
  /\ session = "new"
  /\ session' = "init"
  /\ UNCHANGED <<tls, op, timers, midway, proxyData, bufs, initCalls, shutdownCalls>>

PreInit ==
  /\ session = "init" /\ midway = None
  /\ \A t \in Timers : timers[t] = "unset"
  /\ \E failed \in {<<>>} \cup (IF tls /\ PreInitFails THEN {<<"error">>} ELSE {}) :
       HandlePreInit(failed)
  /\ UNCHANGED <<tls, midway, proxyData, shutdownCalls>>

\* The network or the peer ends an operation; it may take for ever.
OpCompletes(o) ==
  /\ op[o] = "pending"
  /\ \E r \in {"ok", "error"} : op' = [op EXCEPT ![o] = r]
  /\ UNCHANGED <<tls, session, timers, midway, proxyData, bufs, initCalls, shutdownCalls>>

\* The time of a timer is over, and then a thread in the io_service queues its
\* handler: the only thread does so between handlers.
TimePasses(t) ==
  /\ timers[t] = "running"
  /\ timers' = [timers EXCEPT ![t] = "passed"]
  /\ UNCHANGED <<tls, session, op, midway, proxyData, bufs, initCalls, shutdownCalls>>

Queues(t) ==
  /\ timers[t] = "passed"
  /\ Threads > 1 \/ midway = None
  /\ timers' = [timers EXCEPT ![t] = "queued"]
  /\ UNCHANGED <<tls, session, op, midway, proxyData, bufs, initCalls, shutdownCalls>>

\* What the completion handler of an operation is told: handle_init() of tls_socket
\* turns every error of the handshake into one of its own, a cancellation too.
ResultOf(o) == IF o = "handshake" /\ op[o] = "aborted" THEN "error" ELSE op[o]

\* Faulty variant: an aborted or late operation is reported like any other.
OpEndsAlways(o) ==
  /\ o \in DOMAIN TimerOf /\ midway = None
  /\ op[o] \in {"ok", "error", "aborted"}
  /\ bufs' = IF o = "proxy_write" THEN 0 ELSE bufs
  /\ midway' = o /\ UNCHANGED <<tls, op>>
  /\ UNCHANGED <<session, timers, proxyData, initCalls, shutdownCalls>>

\* The completion handlers of the initialisation and of the shutdown open
\* alike: they leave an aborted or late operation to the timer's handler.  The
\* handshake is known to be aborted only by its timer.
OpEnds(o) ==
  /\ o \in DOMAIN TimerOf /\ midway = None
  /\ op[o] \in {"ok", "error", "aborted"}
  /\ bufs' = IF o = "proxy_write" THEN 0 ELSE bufs
  /\ IF ResultOf(o) = "aborted" \/ TimeOver(TimerOf[o])
       THEN op' = [op EXCEPT ![o] = "idle"] /\ UNCHANGED midway
       ELSE op' = [op EXCEPT ![o] = ResultOf(o)] /\ midway' = o
  /\ UNCHANGED <<tls, session, timers, proxyData, initCalls, shutdownCalls>>

\* handle_proxy_write(): an error is reported, otherwise the answer is read.
HandleProxyWrite ==
  /\ midway = "proxy_write" /\ midway' = None
  /\ IF op["proxy_write"] = "error"
       THEN /\ timers' = Cancelled("proxy")
            /\ op' = [op EXCEPT !["proxy_write"] = "idle"]
            /\ CallInit(<<"error">>)
       ELSE /\ op' = [op EXCEPT !["proxy_write"] = "idle", !["proxy_read"] = "pending"]
            /\ UNCHANGED <<timers, initCalls, session>>
  /\ UNCHANGED <<tls, proxyData, bufs, shutdownCalls>>

\* handle_proxy_read(): an error or a refusal is reported; after "200 OK" the
\* data of the proxy goes and post_init() follows.
HandleProxyRead ==
  /\ midway = "proxy_read" /\ midway' = None
  /\ \/ /\ timers' = Cancelled("proxy")
        /\ op' = [op EXCEPT !["proxy_read"] = "idle"]
        /\ CallInit(<<"error">>)
        /\ UNCHANGED proxyData
     \/ /\ op["proxy_read"] = "ok"
        /\ proxyData' = FALSE
        /\ op' = [op EXCEPT !["proxy_read"] = "idle",
                            !["handshake"] = IF tls THEN "pending" ELSE @]
        /\ timers' = [Cancelled("proxy") EXCEPT
                       !["post_init"] = IF tls THEN "running" ELSE "cancelled"]
        /\ IF tls THEN UNCHANGED <<initCalls, session>> ELSE CallInit(<<"ok">>)
  /\ UNCHANGED <<tls, bufs, shutdownCalls>>

\* handle_post_init() goes on.
HandlePostInit ==
  /\ midway = "handshake" /\ midway' = None
  /\ timers' = Cancelled("post_init")
  /\ CallInit(<<op["handshake"]>>)
  /\ op' = [op EXCEPT !["handshake"] = "idle"]
  /\ UNCHANGED <<tls, proxyData, bufs, shutdownCalls>>

\* handle_proxy_timeout(), handle_post_init_timeout(): the socket's operations
\* are cancelled and the init handler hears of it.
InitTimeout(t) ==
  /\ t \in {"proxy", "post_init"} /\ timers[t] = "queued" /\ midway = None
  /\ timers' = [timers EXCEPT ![t] = "done"]
  /\ op' = Aborted
  /\ CallInit(<<"error">>)
  /\ UNCHANGED <<tls, midway, proxyData, bufs, shutdownCalls>>

\* async_read_at_least() and handle_async_read().
AsyncRead ==
  /\ session = "up" /\ op["read"] = "idle" /\ midway = None
  /\ op' = [op EXCEPT !["read"] = "pending"]
  /\ UNCHANGED <<tls, session, timers, midway, proxyData, bufs, initCalls, shutdownCalls>>

HandleAsyncRead ==
  /\ op["read"] \in {"ok", "error", "aborted"} /\ midway = None
  /\ op' = [op EXCEPT !["read"] = "idle"]
  /\ UNCHANGED <<tls, session, timers, midway, proxyData, bufs, initCalls, shutdownCalls>>

\* async_write(): the buffers join m_bufs; handle_async_write() clears it.
AsyncWrite ==
  /\ session = "up" /\ op["write"] = "idle" /\ midway = None
  /\ bufs' = bufs + 1
  /\ op' = [op EXCEPT !["write"] = "pending"]
  /\ UNCHANGED <<tls, session, timers, midway, proxyData, initCalls, shutdownCalls>>

HandleAsyncWrite ==
  /\ op["write"] \in {"ok", "error", "aborted"} /\ midway = None
  /\ bufs' = 0
  /\ op' = [op EXCEPT !["write"] = "idle"]
  /\ UNCHANGED <<tls, session, timers, midway, proxyData, initCalls, shutdownCalls>>

\* async_shutdown(), which terminate() of the session calls once: basic_socket
\* is done at once, tls_socket waits for the peer while a timer runs.
AsyncShutdown ==
  /\ session \in {"up", "ending"} /\ midway = None
  /\ session' = "ended"
  /\ IF tls
       THEN /\ op' = [op EXCEPT !["shutdown"] = "pending"]
            /\ timers' = [timers EXCEPT !["shutdown"] = "running"]
            /\ UNCHANGED shutdownCalls
       ELSE /\ shutdownCalls' = shutdownCalls + 1
            /\ timers' = [timers EXCEPT !["shutdown"] = "cancelled"]
            /\ UNCHANGED op
  /\ UNCHANGED <<tls, midway, proxyData, bufs, initCalls>>

\* handle_async_shutdown(): errors are translated, and reported like success.
HandleAsyncShutdown ==
  /\ midway = "shutdown" /\ midway' = None
  /\ timers' = Cancelled("shutdown")
  /\ shutdownCalls' = shutdownCalls + 1
  /\ op' = [op EXCEPT !["shutdown"] = "idle"]
  /\ UNCHANGED <<tls, session, proxyData, bufs, initCalls>>

\* handle_async_shutdown_timeout().
ShutdownTimeout ==
  /\ timers["shutdown"] = "queued" /\ midway = None
  /\ timers' = [timers EXCEPT !["shutdown"] = "done"]
  /\ op' = Aborted
  /\ shutdownCalls' = shutdownCalls + 1
  /\ UNCHANGED <<tls, session, midway, proxyData, bufs, initCalls>>

Handler ==
  \/ PreInit \/ HandleProxyWrite \/ HandleProxyRead \/ HandlePostInit
  \/ HandleAsyncShutdown \/ ShutdownTimeout
  \/ HandleAsyncRead \/ HandleAsyncWrite
  \/ \E o \in Ops : OpEnds(o)
  \/ \E t \in Timers : InitTimeout(t)
Environment == InitCon \/ AsyncRead \/ AsyncWrite \/ \E o \in Ops : OpCompletes(o)
TransportNext ==
  \/ Handler \/ Environment \/ AsyncShutdown
  \/ \E t \in Timers : TimePasses(t) \/ Queues(t)

\* Handlers that are ready run and time passes; a session that heard of a
\* failure shuts the transport down.  Nothing is asked of the peer.
TransportFairness ==
  /\ \A t \in Timers : WF_transportVars(TimePasses(t)) /\ WF_transportVars(Queues(t))
  /\ \A t \in Timers : WF_transportVars(InitTimeout(t))
  /\ WF_transportVars(ShutdownTimeout) /\ WF_transportVars(PreInit)
  /\ \A o \in Ops : WF_transportVars(OpEnds(o))
  /\ WF_transportVars(HandleProxyWrite) /\ WF_transportVars(HandleProxyRead)
  /\ WF_transportVars(HandlePostInit) /\ WF_transportVars(HandleAsyncShutdown)

TransportSpec == TransportInit /\ [][TransportNext]_transportVars /\ TransportFairness

------------------------------------------------------------------------------
(* Properties *)

TransportTypeOK ==
  /\ tls \in BOOLEAN /\ session \in {"new", "init", "up", "ending", "ended"}
  /\ op \in [Ops -> {"idle", "pending", "ok", "error", "aborted"}]
  /\ timers \in [Timers -> {"unset", "running", "passed", "queued", "cancelled", "done"}]
  /\ midway \in DOMAIN TimerOf \cup {None}
  /\ proxyData \in BOOLEAN /\ bufs \in 0 .. 1 /\ shutdownCalls \in Nat
  /\ initCalls \in Seq({"ok", "error"})

\* transport/base/connection.hpp:55: the init handler is called once at most,
\* whichever of the operation, its failure and its timer comes first.
InitOnce == Len(initCalls) <= 1

\* The shutdown handler, which ends the session, is called once at most.
ShutdownOnce == shutdownCalls <= 1

\* m_bufs holds the bytes of the write under way and of no other.
BuffersOfOneWrite ==
  bufs = (IF op["proxy_write"] # "idle" /\ midway # "proxy_write" THEN 1 ELSE 0)
         + (IF op["write"] # "idle" THEN 1 ELSE 0)

\* The proxy's answer is read while m_proxy_data is there to hold it.
ProxyDataHeld ==
  \A o \in {"proxy_write", "proxy_read"} : op[o] # "idle" => proxyData

\* One operation of the socket and one timer at a time decide how the
\* initialisation and the shutdown end: each is answered once at most.  Two
\* threads answer twice if a timer is queued between the test of its time and
\* its cancellation, and a failed pre_init is answered before what follows it.
OneAtATime ==
  /\ BuffersOfOneWrite /\ ProxyDataHeld
  /\ Threads <= 1 => ShutdownOnce
  /\ Threads <= 1 /\ ~PreInitFails => InitOnce

\* Before the initialisation began nothing was set; one operation at a time
\* leads through it, and a handler that goes on has the result of its own.
InitOps == {"proxy_write", "proxy_read", "handshake"}
Live(t) == timers[t] \in {"running", "passed", "queued"}
Busy(o) == op[o] # "idle"
Untouched == \A t \in Timers : timers[t] = "unset"

OneOpAtATime ==
  /\ Untouched => /\ session \in {"new", "init"} /\ midway = None
                  /\ initCalls = <<>> /\ \A o \in Ops : ~Busy(o)
  /\ Busy("proxy_write") => ~Busy("proxy_read") /\ ~Busy("handshake") /\ ~Busy("write")
  /\ Busy("proxy_read") => ~Busy("handshake")
  /\ session = "up" => ~Busy("proxy_write")
  /\ midway # None => op[midway] \in {"ok", "error"}

\* With one thread, an operation that is under way is answered by its timer or
\* by its own handler: whichever has answered has taken the other's turn.
ShutdownDecided ==
  /\ session # "ended" =>
       shutdownCalls = 0 /\ ~Busy("shutdown") /\ timers["shutdown"] = "unset"
  /\ shutdownCalls <= 1
  /\ shutdownCalls # 0 => /\ ~Live("shutdown") /\ midway # "shutdown" /\ op["shutdown"] # "pending"
                          /\ op["shutdown"] \in {"ok", "error"} => timers["shutdown"] = "done"
  /\ Busy("shutdown") => Live("shutdown") \/ timers["shutdown"] = "done"
  /\ midway = "shutdown" => timers["shutdown"] \in {"running", "passed"}

InitDecided ==
  /\ Len(initCalls) <= 1
  /\ initCalls # <<>> =>
       /\ ~Live("proxy") /\ ~Live("post_init") /\ midway \notin InitOps
       /\ \A o \in InitOps : /\ op[o] # "pending"
                             /\ op[o] \in {"ok", "error"} => timers[TimerOf[o]] = "done"
  /\ \A o \in InitOps : Busy(o) => Live(TimerOf[o]) \/ timers[TimerOf[o]] = "done"
  /\ midway \in InitOps => timers[TimerOf[midway]] \in {"running", "passed"}
  /\ Busy("proxy_write") \/ Busy("proxy_read") \/ Live("proxy") => timers["post_init"] = "unset"
  /\ Busy("handshake") => ~Live("proxy")
  /\ op["handshake"] = "aborted" => timers["post_init"] = "done"
  /\ session \in {"up", "ending", "ended"} => initCalls # <<>>

\* The inductive invariant.
TransportInv ==
  /\ TransportTypeOK /\ BuffersOfOneWrite /\ ProxyDataHeld /\ OneOpAtATime
  /\ Threads <= 1 => ShutdownDecided
  /\ Threads <= 1 /\ ~PreInitFails => InitDecided

\* However silent the peer, the session hears of the end of the
\* initialisation and of the shutdown it asked for.
InitAnswered == session = "init" ~> Len(initCalls) > 0
ShutdownAnswered == session = "ended" ~> shutdownCalls > 0

\* After a timeout nothing is left waiting on the socket.
NothingLeft == []<>(\A o \in DOMAIN TimerOf : op[o] = "idle")
==============================================================================
