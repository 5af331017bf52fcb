----------------------------- MODULE AcceptLoop -----------------------------
(***************************************************************************)
(* The listening side of an endpoint over Asio: init_asio(), listen(),     *)
(* stop_listening() and run() of transport/asio/endpoint.hpp, the          *)
(* acceptance loop of roles/server_endpoint.hpp, and create_connection()   *)
(* of impl/endpoint_impl.hpp.  The application calls from its own thread   *)
(* while another one runs the io_service.                                  *)
(***************************************************************************)
EXTENDS FiniteSets, Naturals

CONSTANTS
  Connections,  \* connections that exist at one time; one that is gone is used again
  Loops,        \* calls of start_accept() by the application after each listen()
  Listens,      \* bound: calls of listen()
  CreateFails   \* whether the transport's init of a connection may fail

\* What is assumed of the constants.
AcceptAssumption ==
  /\ Loops \in Nat /\ Listens \in Nat /\ CreateFails \in BOOLEAN
  /\ "none" \notin Connections

VARIABLES
  m_state,    \* of the endpoint: UNINITIALIZED, READY, LISTENING
  con,        \* where each connection is
  work,       \* m_work: the endpoint is perpetual
  run,        \* run() of the io_service: no, running, returned
  starts,     \* calls of start_accept() since the last listen()
  listens     \* calls of listen() so far

acceptVars == <<m_state, con, work, run, starts, listens>>

AcceptInit ==
  /\ m_state = "UNINITIALIZED"
  /\ con = [c \in Connections |-> "none"]
  /\ work = FALSE /\ run = "no" /\ starts = 0 /\ listens = 0

In(states) == {c \in Connections : con[c] \in states}

InitAsio ==
  /\ m_state = "UNINITIALIZED"
  /\ m_state' = "READY"
  /\ UNCHANGED <<con, work, run, starts, listens>>

\* listen(): after an error of open, bind or listen the acceptor is closed and
\* the endpoint stays READY.
Listen ==
  /\ m_state = "READY" /\ listens < Listens
  /\ listens' = listens + 1
  /\ \/ m_state' = "LISTENING" /\ starts' = 0
     \/ UNCHANGED <<m_state, starts>>
  /\ UNCHANGED <<con, work, run>>

\* stop_listening(): closing the acceptor cancels the accepts under way.
StopListening ==
  /\ m_state = "LISTENING"
  /\ m_state' = "READY"
  /\ con' = [c \in Connections |-> IF con[c] = "accepting" THEN "cancelled" ELSE con[c]]
  /\ UNCHANGED <<work, run, starts, listens>>

\* start_accept() up to get_connection(): nothing while the endpoint does not
\* listen, otherwise a connection is created, or its creation fails.
Created(cs) ==
  {IF d \in {"none"} THEN cs ELSE [cs EXCEPT ![d] = "created"] :
     d \in IF m_state # "LISTENING" THEN {"none"}
           ELSE {c \in Connections : cs[c] = "none"} \cup
                (IF CreateFails THEN {"none"} ELSE {})}

StartAccept ==
  /\ m_state = "LISTENING" /\ starts < Loops
  /\ con' \in Created(con)
  /\ starts' = IF con' = con THEN starts ELSE starts + 1
  /\ UNCHANGED <<m_state, work, run, listens>>

\* start_accept() from async_accept(): the other thread may have called
\* stop_listening() meanwhile, and then the connection is terminated.
AsyncAccept(c) ==
  /\ con[c] = "created"
  /\ con' = [con EXCEPT ![c] = IF m_state = "LISTENING" THEN "accepting" ELSE "terminated"]
  /\ UNCHANGED <<m_state, work, run, starts, listens>>

\* A client connects, or accepting fails.
Arrives(c) ==
  /\ con[c] = "accepting"
  /\ \E r \in {"accepted", "failed"} : con' = [con EXCEPT ![c] = r]
  /\ UNCHANGED <<m_state, work, run, starts, listens>>

\* handle_accept(): the connection starts or is terminated, and the loop calls
\* start_accept() again, whatever happened.
HandleAccept(c) ==
  /\ run = "running" /\ con[c] \in {"accepted", "failed", "cancelled"}
  /\ LET cs == [con EXCEPT ![c] = IF con[c] = "accepted" THEN "started" ELSE "terminated"]
     IN  con' \in Created(cs)
  /\ UNCHANGED <<m_state, work, run, starts, listens>>

\* A session ends; what is terminated is freed.
ConnectionEnds(c) ==
  /\ run = "running" /\ con[c] = "started"
  /\ con' = [con EXCEPT ![c] = "terminated"]
  /\ UNCHANGED <<m_state, work, run, starts, listens>>

Freed(c) ==
  /\ con[c] = "terminated"
  /\ con' = [con EXCEPT ![c] = "none"]
  /\ UNCHANGED <<m_state, work, run, starts, listens>>

\* start_perpetual() and stop_perpetual().
Perpetual ==
  /\ m_state # "UNINITIALIZED"
  /\ work' = ~work
  /\ UNCHANGED <<m_state, con, run, starts, listens>>

\* run(): it returns when nothing is outstanding and the endpoint is not
\* perpetual.
Outstanding == In({"created", "accepting", "accepted", "failed", "cancelled", "started"})

Run ==
  /\ run = "no" /\ m_state # "UNINITIALIZED" /\ (work \/ Outstanding # {})
  /\ run' = "running"
  /\ UNCHANGED <<m_state, con, work, starts, listens>>

RunReturns ==
  /\ run = "running" /\ ~work /\ Outstanding = {}
  /\ run' = "returned"
  /\ UNCHANGED <<m_state, con, work, starts, listens>>

Loop(c) == AsyncAccept(c) \/ HandleAccept(c) \/ ConnectionEnds(c) \/ Freed(c)
AcceptNext ==
  \/ InitAsio \/ Listen \/ StopListening \/ StartAccept \/ Perpetual
  \/ Run \/ RunReturns
  \/ \E c \in Connections : Arrives(c) \/ Loop(c)

\* Handlers run and sessions end; clients need not come, and the application
\* need not stop.
AcceptFairness ==
  /\ WF_acceptVars(Run) /\ WF_acceptVars(RunReturns)
  /\ \A c \in Connections : WF_acceptVars(Loop(c))

AcceptSpec == AcceptInit /\ [][AcceptNext]_acceptVars /\ AcceptFairness

------------------------------------------------------------------------------
(* Properties *)

AcceptTypeOK ==
  /\ m_state \in {"UNINITIALIZED", "READY", "LISTENING"}
  /\ con \in [Connections -> {"none", "created", "accepting", "accepted", "failed",
                              "cancelled", "started", "terminated"}]
  /\ work \in BOOLEAN /\ run \in {"no", "running", "returned"}
  /\ starts \in 0 .. Loops /\ listens \in 0 .. Listens

InLoop == In({"created", "accepting", "accepted", "failed"})

\* server_endpoint.hpp:107: once it has begun the loop goes on as long as the
\* endpoint listens: an accept is under way, or its handler about to run.
LoopGoesOn == m_state = "LISTENING" /\ starts > 0 => InLoop # {}

\* There are never more accepts than calls of start_accept() since listen().
OneLoop ==
  m_state = "LISTENING" =>
    Cardinality(In({"accepting", "accepted", "failed"})) <= starts

\* endpoint.hpp:578: stop_listening() ends no connection that was accepted.
StopSparesConnections ==
  [][m_state = "LISTENING" /\ m_state' = "READY" =>
       \A c \in In({"accepted", "started"}) : con'[c] = con[c]]_acceptVars

\* docs/faq.dox:37: after stop_listening(), when the sessions end, run()
\* returns unless the endpoint is perpetual.
RunEnds == <>[](m_state # "LISTENING" /\ ~work) => <>[](run # "running")
==============================================================================
