--------------------------- MODULE TelemetryServer ---------------------------
(***************************************************************************)
(* The telemetry server of the examples: one thread runs the handlers and  *)
(* a timer, which sends the count to everything that is in m_connections.  *)
(* A connection is there from on_open() to on_close(), and takes messages  *)
(* only until the closing handshake begins. send() throws when it does not *)
(* take one, and run() ends with the exception. HTTP requests and the      *)
(* documents that answer them do not touch this state.                     *)
(***************************************************************************)
EXTENDS Integers, Sequences, FiniteSets

CONSTANTS
  Clients,
  MaxCount   \* bound on the counts

VARIABLES
  con,            \* state of the connections: "none", "open", "closing", "closed"
  handler,        \* the handlers that are due, called in this order
  m_connections,
  m_count,
  timer,          \* the timer is set
  running,
  got             \* what a client was sent

vars == <<con, handler, m_connections, m_count, timer, running, got>>

\* run(): listen, start_accept, set_timer.
Init ==
  /\ con = [c \in Clients |-> "none"] /\ handler = <<>> /\ m_connections = {}
  /\ m_count = 0 /\ timer = TRUE /\ running = TRUE
  /\ got = [c \in Clients |-> <<>>]

------------------------------------------------------------------------------

\* The library changes the state of a connection and calls the handler right after that.
Changes(c, before, after, call) ==
  /\ running /\ handler = <<>> /\ con[c] = before
  /\ con' = [con EXCEPT ![c] = after]
  /\ handler' = call
  /\ UNCHANGED <<m_connections, m_count, timer, running, got>>

opens(c) == Changes(c, "none", "open", <<"open", c>>)
close_frame(c) == Changes(c, "open", "closing", <<>>)
closes(c) == Changes(c, "closing", "closed", <<"close", c>>)
drops(c) == Changes(c, "open", "closed", <<"close", c>>)

on_open ==
  /\ running /\ handler # <<>> /\ handler[1] = "open"
  /\ m_connections' = m_connections \union {handler[2]}
  /\ handler' = <<>>
  /\ UNCHANGED <<con, m_count, timer, running, got>>

Erased(c) == m_connections \ {c}

on_close ==
  /\ running /\ handler # <<>> /\ handler[1] = "close"
  /\ m_connections' = Erased(handler[2])
  /\ handler' = <<>>
  /\ UNCHANGED <<con, m_count, timer, running, got>>

Sent(to) == got' = [c \in Clients |-> IF c \in to THEN Append(got[c], m_count) ELSE got[c]]

NextCount == m_count + 1

TimerAgain == TRUE

\* on_timer(): everyone gets the count, and the timer is set again.
on_timer ==
  /\ running /\ handler = <<>> /\ timer /\ m_count < MaxCount
  /\ \A c \in m_connections : con[c] = "open"
  /\ m_count' = NextCount
  /\ Sent(m_connections)
  /\ timer' = TimerAgain
  /\ UNCHANGED <<con, handler, m_connections, running>>

\* One that is not open any more: those before it in the set, which is ordered by addresses,
\* get the count; the exception leaves on_timer() and the loop, and run() returns.
on_timer_throws ==
  /\ running /\ handler = <<>> /\ timer /\ m_count < MaxCount
  /\ \E c \in m_connections : con[c] # "open"
  /\ \E before \in SUBSET {c \in m_connections : con[c] = "open"} : Sent(before)
  /\ m_count' = NextCount /\ timer' = FALSE /\ running' = FALSE
  /\ UNCHANGED <<con, handler, m_connections>>

Next ==
  \/ \E c \in Clients : opens(c) \/ close_frame(c) \/ closes(c) \/ drops(c)
  \/ on_open \/ on_close \/ on_timer \/ on_timer_throws

Spec == Init /\ [][Next]_vars /\ WF_vars(on_timer \/ on_timer_throws) /\ WF_vars(on_open \/ on_close)

------------------------------------------------------------------------------
(* Properties *)

\* The list is the set of the connections that live, but for the handler that is due.
TypeOK ==
  /\ m_connections \subseteq Clients /\ m_count \in 0 .. MaxCount
  /\ handler = <<>> => m_connections = {c \in Clients : con[c] \in {"open", "closing"}}

\* A client misses no count between its first and its last one, also when the server fails.
NoCountMissed ==
  \A c \in Clients : \A i \in 1 .. Len(got[c]) - 1 : got[c][i + 1] = got[c][i] + 1

\* The count goes on, with or without clients, up to the bound or until send() throws.
CountsOn == <>(m_count = MaxCount \/ ~running)

\* One client that closes does not take the telemetry from the others.
ServesOn == running
==============================================================================
