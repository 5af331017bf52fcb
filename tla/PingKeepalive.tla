---------------------------- MODULE PingKeepalive ----------------------------
(***************************************************************************)
(* The keepalive of websocketpp::connection: ping(), its timer             *)
(* m_ping_timer, the pongs of the peer and m_pong_timeout_handler          *)
(* (impl/connection_impl.hpp).  Threads of the application ping; the       *)
(* handlers of the transport and of the timers run on one strand.          *)
(***************************************************************************)
EXTENDS Naturals, FiniteSets

CONSTANTS
  Threads,    \* threads that call ping()
  MaxPings,   \* bound: calls of ping()
  Overlap,    \* whether ping() is called again before the last one is answered
  Unsolicited \* whether the peer sends pongs nobody asked for

\* What is assumed of the constants.
KeepaliveAssumption == MaxPings \in Nat /\ Overlap \in BOOLEAN /\ Unsolicited \in BOOLEAN

Pings == 1 .. MaxPings
None == 0

VARIABLES
  open,       \* m_state = open
  pinger,     \* where each thread is in ping()
  payload,    \* the ping each thread is sending
  current,    \* the ping whose timer m_ping_timer designates
  timers,     \* the timer of each ping
  pinged,     \* pings that were queued
  answered,   \* pings whose pong was received
  overdue,    \* history: pings whose timer expired before their pong
  timedOut    \* history: pings m_pong_timeout_handler was called for

pingVars == <<open, pinger, payload, current, timers, pinged, answered,
              overdue, timedOut>>

PingInit ==
  /\ open = TRUE
  /\ pinger = [t \in Threads |-> "idle"] /\ payload = [t \in Threads |-> None]
  /\ current = None
  /\ timers = [p \in Pings |-> "unset"]
  /\ pinged = {} /\ answered = {} /\ overdue = {} /\ timedOut = {}

\* cancel() of a timer: one that has expired keeps its handler.
Cancelled(p) ==
  IF p # None /\ timers[p] = "running"
    THEN [timers EXCEPT ![p] = "cancelled"]
    ELSE timers

Used == {payload[t] : t \in Threads} \cup pinged

\* ping(): the test of m_state under the lock.
Ping(t) ==
  /\ open /\ pinger[t] = "idle"
  /\ Overlap \/ (pinged \subseteq answered /\ \A u \in Threads : pinger[u] = "idle")
  /\ \E p \in Pings :
       /\ p \notin Used /\ \A q \in 1 .. p - 1 : q \in Used
       /\ payload' = [payload EXCEPT ![t] = p]
  /\ pinger' = [pinger EXCEPT ![t] = "cancel"]
  /\ UNCHANGED <<open, current, timers, pinged, answered, overdue, timedOut>>

\* ping(): the timer of an earlier ping is cancelled.
CancelTimer(t) ==
  /\ pinger[t] = "cancel"
  /\ pinger' = [pinger EXCEPT ![t] = "arm"]
  /\ timers' = Cancelled(current)
  /\ UNCHANGED <<open, payload, current, pinged, answered, overdue, timedOut>>

\* Faulty variant: the timer is made but not started.
ArmTimerIdle(t) ==
  /\ pinger[t] = "arm"
  /\ pinger' = [pinger EXCEPT ![t] = "push"]
  /\ current' = payload[t]
  /\ UNCHANGED <<open, payload, timers, pinged, answered, overdue, timedOut>>

\* ping(): the timer of this one takes its place.
ArmTimer(t) ==
  /\ pinger[t] = "arm"
  /\ pinger' = [pinger EXCEPT ![t] = "push"]
  /\ timers' = [timers EXCEPT ![payload[t]] = "running"]
  /\ current' = payload[t]
  /\ UNCHANGED <<open, payload, pinged, answered, overdue, timedOut>>

\* ping(): write_push(); the session writes what is queued.
Push(t) ==
  /\ pinger[t] = "push"
  /\ pinger' = [pinger EXCEPT ![t] = "idle"]
  /\ pinged' = pinged \cup {payload[t]}
  /\ UNCHANGED <<open, payload, current, timers, answered, overdue, timedOut>>

\* process_control_frame() of a pong: it cancels whatever m_ping_timer
\* designates, and does not compare payloads.  The peer answers a ping once;
\* None stands for a pong nobody asked for.
Pong(p) ==
  /\ open /\ p \in (pinged \ answered) \cup (IF Unsolicited THEN {None} ELSE {})
  /\ answered' = IF p = None THEN answered ELSE answered \cup {p}
  /\ timers' = Cancelled(current)
  /\ UNCHANGED <<open, pinger, payload, current, pinged, overdue, timedOut>>

\* The timer of a ping expires.
Expires(p) ==
  /\ timers[p] = "running"
  /\ timers' = [timers EXCEPT ![p] = "expired"]
  /\ overdue' = IF p \in answered THEN overdue ELSE overdue \cup {p}
  /\ UNCHANGED <<open, pinger, payload, current, pinged, answered, timedOut>>

\* handle_pong_timeout(): called in any state of the connection.
PongTimeout(p) ==
  /\ timers[p] = "expired"
  /\ timers' = [timers EXCEPT ![p] = "done"]
  /\ timedOut' = timedOut \cup {p}
  /\ UNCHANGED <<open, pinger, payload, current, pinged, answered, overdue>>

\* terminate(): it leaves m_ping_timer running.
Terminate ==
  /\ open
  /\ open' = FALSE
  /\ UNCHANGED <<pinger, payload, current, timers, pinged, answered, overdue,
                 timedOut>>

PingStep(t) == CancelTimer(t) \/ ArmTimer(t) \/ Push(t)
PingNext ==
  \/ \E t \in Threads : Ping(t) \/ PingStep(t)
  \/ \E p \in Pings : Expires(p) \/ PongTimeout(p)
  \/ \E p \in Pings \cup {None} : Pong(p)
  \/ Terminate

\* Calls go on, and timers expire and are handled; the peer need not answer.
PingFairness ==
  /\ \A t \in Threads : WF_pingVars(PingStep(t))
  /\ \A p \in Pings : WF_pingVars(Expires(p)) /\ WF_pingVars(PongTimeout(p))

PingSpec == PingInit /\ [][PingNext]_pingVars /\ PingFairness

------------------------------------------------------------------------------
(* Properties *)

\* The handler is called only for pings whose pong did not come in time.
NoFalseAlarm == timedOut \subseteq overdue

\* connection.hpp:404: every ping is answered, or reported, or the connection
\* ends.
UnansweredIsReported ==
  \A p \in Pings : p \in pinged ~> (p \in answered \/ p \in timedOut \/ ~open)

\* docs/handlers.dox:102: the handler is called only in the open state.
QuietAfterClose == [][timedOut' # timedOut => open]_pingVars

\* While one thread pings, m_ping_timer designates the only timer that runs:
\* terminate(), a pong or the next ping can reach it.
OneTimer ==
  \A p \in Pings : timers[p] = "running" => p = current
==============================================================================
