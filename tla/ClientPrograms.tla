---------------------------- MODULE ClientPrograms ----------------------------
(***************************************************************************)
(* The clients of the examples directory that make one connection at a     *)
(* time and run the io_service on the main thread: print_client,           *)
(* echo_client, debug_client (which measures times), sip_client (which     *)
(* waits for one reply) and testee_client (which asks a test server how    *)
(* many cases it has and opens one connection for each).                   *)
(***************************************************************************)
EXTENDS Naturals, Sequences

CONSTANTS
  Programs,   \* the clients of this run: descriptions as below
  MaxCases,   \* bound on the number of cases a server names
  Messages,   \* bound on the messages of one connection
  BadUri      \* whether the argument of the program may be no valid URI

\* What is assumed of the constants.
ClientAssumption ==
  MaxCases \in Nat /\ Messages \in Nat /\ BadUri \in BOOLEAN

\* What on_open and on_message do, and whether main() looks at the error of
\* get_connection().
PrintClient == [does |-> "print", checks |-> TRUE]
EchoClient == [does |-> "echo", checks |-> TRUE]
DebugClient == [does |-> "perf", checks |-> TRUE]
SipClient == [does |-> "sip", checks |-> FALSE]
TesteeClient == [does |-> "testee", checks |-> FALSE]

VARIABLES
  program,     \* the client that runs
  main,        \* where main() is: connect, run, wait (sip_client) or done
  stopped,     \* whether the io_service is stopped: run() would return at once
  con,         \* the connection: none, connecting, open, closing, gone
  inbox,       \* messages of the server on this connection so far
  sent,        \* messages the client sent on it
  case_count,  \* case_count of testee_client
  cases,       \* connections testee_client made for cases, in order
  received     \* received of sip_client

vars == <<program, main, stopped, con, inbox, sent, case_count, cases, received>>

Init ==
  /\ program \in Programs
  /\ main = "connect" /\ stopped = FALSE
  /\ con = "none" /\ inbox = <<>> /\ sent = <<>>
  /\ case_count = 0 /\ cases = <<>> /\ received = FALSE

\* get_connection() and connect(): an invalid URI gives an error and a null
\* pointer, which connect() follows.
Checked(valid) == IF valid THEN "run" ELSE IF program.checks THEN "done" ELSE "crashed"

\* main() up to run().  The first connection of testee_client asks for the
\* number of cases, the others are for one case each.
Connect ==
  /\ main = "connect"
  /\ \E valid \in IF BadUri /\ cases = <<>> THEN BOOLEAN ELSE {TRUE} :
       /\ main' = Checked(valid)
       /\ con' = IF valid THEN "connecting" ELSE con
  /\ inbox' = <<>> /\ sent' = <<>>
  /\ UNCHANGED <<program, stopped, case_count, cases, received>>

Running == main = "run" /\ ~stopped

\* What the two clients that speak first send.
Request == MaxCases + 1

\* on_open: sip_client and debug_client begin to talk.
on_open ==
  /\ Running /\ con = "connecting"
  /\ con' = "open"
  /\ sent' = IF program.does \in {"sip", "perf"} THEN <<Request>> ELSE <<>>
  /\ received' = IF program.does = "sip" THEN FALSE ELSE received
  /\ UNCHANGED <<program, main, stopped, inbox, case_count, cases>>

\* on_fail: the attempt is over.
on_fail ==
  /\ Running /\ con = "connecting"
  /\ con' = "gone"
  /\ UNCHANGED <<program, main, stopped, inbox, sent, case_count, cases, received>>

\* The connection that asks for the number of cases is the first one.
AsksCount == program.does = "testee" /\ cases = <<>>

\* atoi() of the answer to /getCaseCount; the text of a test case is echoed.
Counts(n) == IF AsksCount THEN n ELSE case_count

\* The replies of the handlers: an echo, the closing handshake, or nothing.
Replies(n) == IF program.does = "echo" \/ (program.does = "testee" /\ ~AsksCount)
              THEN Append(sent, n) ELSE sent

\* on_message, for a connection that is open: debug_client closes it, and gets
\* no message after that.
on_message ==
  /\ Running /\ con = "open" /\ Len(inbox) < Messages
  /\ \E n \in 0 .. MaxCases :
       /\ inbox' = Append(inbox, n)
       /\ sent' = Replies(n)
       /\ case_count' = Counts(n)
  /\ con' = IF program.does = "perf" THEN "closing" ELSE con
  /\ received' = (received \/ program.does = "sip")
  /\ UNCHANGED <<program, main, stopped, cases>>

\* The server closes the connection, with or without an answer, or it is
\* lost: on_close.
on_close ==
  /\ Running /\ con \in {"open", "closing"}
  /\ con' = "gone"
  /\ UNCHANGED <<program, main, stopped, inbox, sent, case_count, cases, received>>

\* reset() of testee_client before the next case.
Reset == FALSE

\* The test of the loop of testee_client.
MoreCases == Len(cases) < case_count

\* run() returns: it is out of work, or was stopped before.
RunReturns ==
  /\ main = "run"
  /\ stopped \/ con = "gone"
  /\ IF program.does = "testee" /\ MoreCases
       THEN /\ main' = "connect" /\ stopped' = Reset
            /\ cases' = Append(cases, con)
       ELSE /\ main' = IF program.does = "sip" THEN "wait" ELSE "done"
            /\ stopped' = TRUE
            /\ UNCHANGED cases
  /\ UNCHANGED <<program, con, inbox, sent, case_count, received>>

\* sip_client sleeps until received, which no handler sets any more.
Waited ==
  /\ main = "wait" /\ received
  /\ main' = "done"
  /\ UNCHANGED <<program, stopped, con, inbox, sent, case_count, cases, received>>

Next == Connect \/ on_open \/ on_fail \/ on_message \/ on_close \/ RunReturns \/ Waited

\* The main thread goes on, and servers end what they begin (an attempt to
\* connect has a timeout, and a server closes at last).
Fairness == WF_vars(Connect) /\ WF_vars(RunReturns) /\ WF_vars(Waited)
            /\ WF_vars(on_open \/ on_fail) /\ WF_vars(on_close)

Spec == Init /\ [][Next]_vars /\ Fairness

-----------------------------------------------------------------------------
TypeOK ==
  /\ program \in Programs
  /\ main \in {"connect", "run", "wait", "done", "crashed"}
  /\ stopped \in BOOLEAN
  /\ con \in {"none", "connecting", "open", "closing", "gone"}
  /\ inbox \in Seq(0 .. MaxCases) /\ sent \in Seq(0 .. Request)
  /\ case_count \in 0 .. MaxCases
  /\ cases \in Seq({"gone"}) /\ received \in BOOLEAN

\* A null connection is never followed by a program that looks at ec.
NoNullConnection == program.checks => main # "crashed"

\* main() is through only when its connection is: "c.run() will exit when this
\* connection is closed".
EndsWithConnection == main \in {"wait", "done"} => con \in {"none", "gone"}

\* testee_client runs every case the server named, however earlier cases and
\* their connections ended, and nothing that a case sends changes the number.
AllCasesRun ==
  program.does = "testee" =>
    /\ main = "done" => Len(cases) = case_count
    /\ Len(cases) <= case_count

\* What a program answers is what it was told, once each and in order; only
\* the two that speak first send anything else, and the question for the
\* number of cases is answered by nobody.
EchoesInOrder ==
  /\ (program.does = "echo" => sent = inbox)
  /\ (program.does = "testee" /\ cases = <<>> => sent = <<>>)
  /\ (program.does = "testee" /\ cases # <<>> /\ main # "connect" => sent = inbox)
  /\ (program.does \in {"sip", "perf"} => Len(sent) <= 1)

\* Every program ends once its servers have.
Ends == <>(main \in {"done", "crashed"})
=============================================================================
