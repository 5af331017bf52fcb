--------------------------- MODULE TelemetryClient ---------------------------
(***************************************************************************)
(* The telemetry client of the examples: one thread runs the io_service,   *)
(* whose handlers set m_open and m_done under a lock, and one tests them   *)
(* under the lock, sends a count without it, and sleeps. run() joins both. *)
(***************************************************************************)
EXTENDS Integers, Sequences

CONSTANT MaxCount   \* bound on the messages

VARIABLES
  con,      \* "connecting", "open", "closing", "closed"
  handler,  \* the handler that is due, "none" without one
  m_open,
  m_done,
  loop,     \* telemetry_loop(): "test", "wait", "send", "ended"
  count,
  sent,     \* the counts that the endpoint has taken
  opened    \* on_open() has been called

vars == <<con, handler, m_open, m_done, loop, count, sent, opened>>

Init ==
  /\ con = "connecting" /\ handler = "none" /\ m_open = FALSE /\ m_done = FALSE
  /\ loop = "test" /\ count = 0 /\ sent = <<>> /\ opened = FALSE

------------------------------------------------------------------------------
(* The io thread *)

Changes(before, after, call) ==
  /\ con = before /\ handler = "none"
  /\ con' = after /\ handler' = call
  /\ UNCHANGED <<m_open, m_done, loop, count, sent, opened>>

opens == Changes("connecting", "open", "open")
fails == Changes("connecting", "closed", "fail")
close_frame == Changes("open", "closing", "none")
closes == Changes("closing", "closed", "close")
drops == Changes("open", "closed", "close")

on_open ==
  /\ handler = "open" /\ handler' = "none"
  /\ m_open' = TRUE /\ opened' = TRUE
  /\ UNCHANGED <<con, m_done, loop, count, sent>>

Ending == {"close", "fail"}

\* on_close(), on_fail()
on_end ==
  /\ handler \in {"close", "fail"} /\ handler' = "none"
  /\ m_done' = (m_done \/ handler \in Ending)
  /\ UNCHANGED <<con, m_open, loop, count, sent, opened>>

\* run() of the client returns when the connection has gone.
IoEnded == con = "closed" /\ handler = "none"

------------------------------------------------------------------------------
(* telemetry_loop() *)

Tested == IF m_done THEN "ended" ELSE IF m_open THEN "send" ELSE "wait"

test ==
  /\ loop = "test" /\ loop' = Tested
  /\ UNCHANGED <<con, handler, m_open, m_done, count, sent, opened>>

wait_a_bit ==
  /\ loop = "wait" /\ loop' = "test"
  /\ UNCHANGED <<con, handler, m_open, m_done, count, sent, opened>>

send ==
  /\ loop = "send" /\ count < MaxCount
  /\ count' = count + 1
  /\ IF con = "open" THEN loop' = "wait" /\ sent' = Append(sent, count)
                     ELSE loop' = "ended" /\ UNCHANGED sent
  /\ UNCHANGED <<con, handler, m_open, m_done, opened>>

Next ==
  \/ opens \/ fails \/ close_frame \/ closes \/ drops \/ on_open \/ on_end
  \/ test \/ wait_a_bit \/ send

\* Both threads run, attempts and closing handshakes end; the peer need not close.
Spec ==
  /\ Init /\ [][Next]_vars
  /\ WF_vars(opens \/ fails) /\ WF_vars(closes) /\ WF_vars(on_open \/ on_end)
  /\ WF_vars(test \/ wait_a_bit \/ send)

------------------------------------------------------------------------------
(* Properties *)

\* A message goes out only after on_open() has said so, and none is skipped.
SendsInOrder == sent # <<>> => opened /\ \A i \in DOMAIN sent : sent[i] = i - 1

\* The telemetry ends with the connection and not before.
EndsOnlyWithConnection == loop = "ended" => con \in {"closing", "closed"}

\* Once the connection has gone, both threads end, and with them run(): whichever of the send
\* error and the handler comes first. (Not when the count has reached the bound of the model.)
ThreadsEnd == con = "closed" ~> (IoEnded /\ loop = "ended") \/ count = MaxCount
==============================================================================
