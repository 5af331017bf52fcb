---------------------------- MODULE ConnectClient ----------------------------
(***************************************************************************)
(* client::connect() of roles/client_endpoint.hpp over the Asio endpoint   *)
(* (transport/asio/endpoint.hpp): the name of the host is resolved, then   *)
(* the socket connected, each with a timer.  The connections of an         *)
(* endpoint share its resolver m_resolver.                                 *)
(*                                                                         *)
(* A completion handler that tests its timer and then cancels it does so   *)
(* in two steps, and the handlers of one connection run on its strand, as  *)
(* in AsioTransport.                                                       *)
(***************************************************************************)
EXTENDS Naturals, FiniteSets

CONSTANTS
  Connections,  \* connections the application connects
  Threads,      \* number of threads that run the io_service
  Proxies       \* the proxies set: "no", "valid", "invalid" (its uri)

\* What is assumed of the constants.
ConnectAssumption == Threads \in Nat /\ Proxies \subseteq {"no", "valid", "invalid"}

Stages == {"resolve", "connect"}
TimerStates == {"unset", "running", "passed", "queued", "cancelled", "done"}

VARIABLES
  stage,    \* what each connection waits for: idle, resolve, connect, done
  op,       \* the operation under way: idle, pending, ok, error, aborted
  timer,    \* dns_timer and con_timer, each in one of TimerStates
  midway,   \* connections whose handler has tested its timer and goes on
  calls,    \* calls of handle_connect() of the client, with what they said
  blamed    \* history: whose timeout aborted the operation of a connection

clientVars == <<stage, op, timer, midway, calls, blamed>>

ClientInit ==
  /\ stage = [c \in Connections |-> "idle"]
  /\ op = [c \in Connections |-> "idle"]
  /\ timer = [c \in Connections |-> [s \in Stages |-> "unset"]]
  /\ midway = {}
  /\ calls = [c \in Connections |-> [started |-> 0, terminated |-> 0]]
  /\ blamed = [c \in Connections |-> {}]

\* is_neg(expires_from_now()) of a timer, and its cancel().
TimeOver(c, s) == timer[c][s] \in {"passed", "queued", "done"}
Cancelled(c, s) == IF timer[c][s] \in {"running", "passed"}
                     THEN [timer EXCEPT ![c][s] = "cancelled"] ELSE timer

\* handle_connect() of the client: the connection starts or is terminated.
Started(c) == calls' = [calls EXCEPT ![c].started = @ + 1]
Terminated(c) == calls' = [calls EXCEPT ![c].terminated = @ + 1]

\* connect() and async_connect(): an invalid proxy is reported at once,
\* otherwise a name is resolved, the host's or the proxy's.
Connect(c) ==
  /\ stage[c] = "idle"
  /\ \E proxy \in Proxies :
       IF proxy = "invalid"
         THEN /\ stage' = [stage EXCEPT ![c] = "done"]
              /\ Terminated(c)
              /\ UNCHANGED <<op, timer>>
         ELSE /\ stage' = [stage EXCEPT ![c] = "resolve"]
              /\ op' = [op EXCEPT ![c] = "pending"]
              /\ timer' = [timer EXCEPT ![c].resolve = "running"]
              /\ UNCHANGED calls
  /\ UNCHANGED <<midway, blamed>>

\* A name server or the host answers, or never does.
Completes(c) ==
  /\ op[c] = "pending"
  /\ \E r \in {"ok", "error"} : op' = [op EXCEPT ![c] = r]
  /\ UNCHANGED <<stage, timer, midway, calls, blamed>>

TimePasses(c, s) ==
  /\ timer[c][s] = "running"
  /\ timer' = [timer EXCEPT ![c][s] = "passed"]
  /\ UNCHANGED <<stage, op, midway, calls, blamed>>

\* A thread in the io_service queues the handler of a timer: the only thread
\* does so between handlers.
Queues(c, s) ==
  /\ timer[c][s] = "passed" /\ (Threads > 1 \/ midway = {})
  /\ timer' = [timer EXCEPT ![c][s] = "queued"]
  /\ UNCHANGED <<stage, op, midway, calls, blamed>>

\* handle_resolve() and handle_connect() open alike: they leave an aborted or
\* late operation to the handler of the timer.
OpEnds(c) ==
  /\ c \notin midway /\ (Threads > 1 \/ midway = {})
  /\ op[c] \in {"ok", "error", "aborted"}
  /\ IF op[c] = "aborted" \/ TimeOver(c, stage[c])
       THEN op' = [op EXCEPT ![c] = "idle"] /\ UNCHANGED midway
       ELSE midway' = midway \cup {c} /\ UNCHANGED op
  /\ UNCHANGED <<stage, timer, calls, blamed>>

\* handle_resolve(): an error is reported, otherwise the socket connects.
HandleResolve(c) ==
  /\ c \in midway /\ stage[c] = "resolve" /\ midway' = midway \ {c}
  /\ IF op[c] = "error"
       THEN /\ timer' = Cancelled(c, "resolve")
            /\ stage' = [stage EXCEPT ![c] = "done"]
            /\ op' = [op EXCEPT ![c] = "idle"]
            /\ Terminated(c)
       ELSE /\ timer' = [Cancelled(c, "resolve") EXCEPT ![c].connect = "running"]
            /\ stage' = [stage EXCEPT ![c] = "connect"]
            /\ op' = [op EXCEPT ![c] = "pending"]
            /\ UNCHANGED calls
  /\ UNCHANGED blamed

\* handle_connect() of the endpoint.
HandleConnect(c) ==
  /\ c \in midway /\ stage[c] = "connect" /\ midway' = midway \ {c}
  /\ timer' = Cancelled(c, "connect")
  /\ stage' = [stage EXCEPT ![c] = "done"]
  /\ op' = [op EXCEPT ![c] = "idle"]
  /\ IF op[c] = "ok" THEN Started(c) ELSE Terminated(c)
  /\ UNCHANGED blamed

\* handle_resolve_timeout(): cancel() of the resolver aborts every resolution
\* of the endpoint that is under way.
ResolveTimeout(c) ==
  /\ timer[c].resolve = "queued" /\ c \notin midway
  /\ timer' = [timer EXCEPT ![c].resolve = "done"]
  /\ LET hit == {d \in Connections : stage[d] = "resolve" /\ op[d] = "pending"}
     IN  /\ op' = [d \in Connections |-> IF d \in hit THEN "aborted" ELSE op[d]]
         /\ blamed' = [d \in Connections |-> IF d \in hit THEN blamed[d] \cup {c} ELSE blamed[d]]
  /\ Terminated(c)
  /\ UNCHANGED <<stage, midway>>

\* handle_connect_timeout(): the operations of this socket are cancelled.
ConnectTimeout(c) ==
  /\ timer[c].connect = "queued" /\ c \notin midway
  /\ timer' = [timer EXCEPT ![c].connect = "done"]
  /\ op' = [op EXCEPT ![c] = IF @ = "pending" THEN "aborted" ELSE @]
  /\ blamed' = [blamed EXCEPT ![c] = IF op[c] = "pending" THEN @ \cup {c} ELSE @]
  /\ Terminated(c)
  /\ UNCHANGED <<stage, midway>>

Handlers(c) ==
  \/ OpEnds(c) \/ HandleResolve(c) \/ HandleConnect(c)
  \/ ResolveTimeout(c) \/ ConnectTimeout(c)
ClientNext ==
  \E c \in Connections :
    \/ Connect(c) \/ Completes(c) \/ Handlers(c)
    \/ \E s \in Stages : TimePasses(c, s) \/ Queues(c, s)

\* Time passes and handlers run; nobody needs to answer.
ClientFairness ==
  \A c \in Connections :
    /\ \A s \in Stages : WF_clientVars(TimePasses(c, s)) /\ WF_clientVars(Queues(c, s))
    /\ WF_clientVars(Handlers(c))

ClientSpec == ClientInit /\ [][ClientNext]_clientVars /\ ClientFairness

------------------------------------------------------------------------------
(* Properties *)

ClientTypeOK ==
  /\ stage \in [Connections -> {"idle", "resolve", "connect", "done"}]
  /\ op \in [Connections -> {"idle", "pending", "ok", "error", "aborted"}]
  /\ timer \in [Connections -> [Stages -> TimerStates]]
  /\ midway \subseteq {c \in Connections : op[c] \in {"ok", "error"}}
  /\ calls \in [Connections -> [started : Nat, terminated : Nat]]
  /\ blamed \in [Connections -> SUBSET Connections]

\* client_endpoint.hpp:160: a connection starts or is terminated, and not both
\* nor twice, whichever of answer and timer comes first.
ToldOnce == \A c \in Connections : calls[c].started + calls[c].terminated <= 1

\* A connection that was given up has nothing under way on the network.
GivenUpIsQuiet == \A c \in Connections : calls[c].terminated > 0 => op[c] # "pending"

\* docs/config.dox:120: the timeout of an operation aborts that operation alone.
OwnTimeout == \A c \in Connections : blamed[c] \subseteq {c}

\* However silent the network, the client learns how the attempt ended.
Told == \A c \in Connections :
  stage[c] # "idle" ~> calls[c].started + calls[c].terminated > 0
==============================================================================
