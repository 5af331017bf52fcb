---------------------------- MODULE UtilityClient ----------------------------
(***************************************************************************)
(* The command line client of the tutorial (examples/utility_client) and   *)
(* the steps that lead to it: the main thread reads commands, a second     *)
(* thread runs the io_service and calls the handlers, and both work on the *)
(* metadata of the connections without a lock. The peers echo.             *)
(*                                                                         *)
(* push_back() reads the vector and writes it, so that two at once may     *)
(* lose an entry; the other outcomes of that race, and those of a status   *)
(* that is read while it is written, are left out.                         *)
(***************************************************************************)
EXTENDS Integers, Sequences, SequencesExt

CONSTANTS
  Program,         \* one of the programs below
  MaxConnections,  \* bound on the connect commands
  MaxMessages      \* bound on the messages of a connection

\* What is assumed of the constants.
UtilityAssumption == MaxConnections \in Nat \ {0} /\ MaxMessages \in Nat

\* What each step adds: close, with a destructor that closes and joins; send, with a
\* transcript.
Step4 == [closes |-> FALSE, sends |-> FALSE]
Step5 == [Step4 EXCEPT !.closes = TRUE]
Step6 == [Step5 EXCEPT !.sends = TRUE]
ScratchClient == Step5
UtilityExample == Step6

Ids == 1 .. MaxConnections
Out(k) == <<"out", k>>
In(k) == <<"in", k>>
Idle == [does |-> "nothing"]

VARIABLES
  m_next_id,   \* the connections made
  con,         \* state of the library's connections
  m_status,
  m_messages,
  sent,        \* how many messages were sent, per connection
  replied,     \* how many of them have come back
  io,          \* the handler that the io thread is in
  main,        \* what the main thread does
  perpetual

vars == <<m_next_id, con, m_status, m_messages, sent, replied, io, main, perpetual>>

Init ==
  /\ m_next_id = 0 /\ perpetual = TRUE
  /\ con = [c \in Ids |-> "none"] /\ m_status = [c \in Ids |-> "none"]
  /\ m_messages = [c \in Ids |-> <<>>]
  /\ sent = [c \in Ids |-> 0] /\ replied = [c \in Ids |-> 0]
  /\ io = Idle /\ main = [does |-> "prompt"]

------------------------------------------------------------------------------
(* The commands *)

connect ==
  /\ main.does = "prompt" /\ m_next_id < MaxConnections
  /\ m_next_id' = m_next_id + 1
  /\ con' = [con EXCEPT ![m_next_id + 1] = "connecting"]
  /\ m_status' = [m_status EXCEPT ![m_next_id + 1] = "Connecting"]
  /\ UNCHANGED <<m_messages, sent, replied, io, main, perpetual>>

\* send: the endpoint refuses when the connection is not open;
send(c) ==
  /\ main.does = "prompt" /\ Program.sends /\ con[c] = "open" /\ sent[c] < MaxMessages
  /\ sent' = [sent EXCEPT ![c] = @ + 1]
  /\ main' = [does |-> "record", con |-> c]
  /\ UNCHANGED <<m_next_id, con, m_status, m_messages, replied, io, perpetual>>

Pushed(list, message) == Append(list, message)

\* record_sent_message(): push_back() reads the vector,
record_sent_message ==
  /\ main.does = "record"
  /\ main' = [does |-> "push", con |-> main.con,
              list |-> Pushed(m_messages[main.con], Out(sent[main.con]))]
  /\ UNCHANGED <<m_next_id, con, m_status, m_messages, sent, replied, io, perpetual>>

\* and writes it.
message_recorded ==
  /\ main.does = "push"
  /\ m_messages' = [m_messages EXCEPT ![main.con] = main.list]
  /\ main' = [does |-> "prompt"]
  /\ UNCHANGED <<m_next_id, con, m_status, sent, replied, io, perpetual>>

\* close: refused by the endpoint when the connection is not open.
close(c) ==
  /\ main.does = "prompt" /\ Program.closes /\ con[c] = "open"
  /\ con' = [con EXCEPT ![c] = "closing"]
  /\ UNCHANGED <<m_next_id, m_status, m_messages, sent, replied, io, main, perpetual>>

\* quit: the destructor of the endpoint. That of step 4 destroys a thread which was not
\* joined, and the program is terminated.
quit ==
  /\ main.does = "prompt"
  /\ IF Program.closes
       THEN perpetual' = FALSE /\ main' = [does |-> "close", next |-> 1]
       ELSE main' = [does |-> "terminated"] /\ UNCHANGED perpetual
  /\ UNCHANGED <<m_next_id, con, m_status, m_messages, sent, replied, io>>

\* Faulty variant: a connection is closed when it is not open.
ToClose_Others(c) == m_status[c] # "Open"

\* It closes what its metadata call open.
ToClose(c) == m_status[c] = "Open"

close_next ==
  /\ main.does = "close" /\ main.next <= m_next_id
  /\ main' = [main EXCEPT !.next = @ + 1]
  /\ con' = [con EXCEPT ![main.next] = IF ToClose(main.next) /\ @ = "open" THEN "closing" ELSE @]
  /\ UNCHANGED <<m_next_id, m_status, m_messages, sent, replied, io, perpetual>>

all_closed ==
  /\ main.does = "close" /\ main.next > m_next_id
  /\ main' = [does |-> "join"]
  /\ UNCHANGED <<m_next_id, con, m_status, m_messages, sent, replied, io, perpetual>>

\* The io thread has nothing left to do, and no reason to stay.
RunReturns == ~perpetual /\ io = Idle /\ \A c \in Ids : con[c] \in {"none", "closed"}

join ==
  /\ main.does = "join" /\ RunReturns
  /\ main' = [does |-> "ended"]
  /\ UNCHANGED <<m_next_id, con, m_status, m_messages, sent, replied, io, perpetual>>

------------------------------------------------------------------------------
(* The io thread *)

\* The connection changes first, then its handler is called.
Changes(c, before, after, handler) ==
  /\ main.does # "terminated" /\ io = Idle /\ con[c] = before
  /\ con' = [con EXCEPT ![c] = after]
  /\ io' = handler
  /\ UNCHANGED <<m_next_id, m_status, m_messages, sent, replied, main, perpetual>>

opens(c) == Changes(c, "connecting", "open", [does |-> "Open", con |-> c])
fails(c) == Changes(c, "connecting", "closed", [does |-> "Failed", con |-> c])

\* Step 4 has no handler for the end of a connection.
Ended(c) == IF Program.closes THEN [does |-> "Closed", con |-> c] ELSE Idle

closes(c) == Changes(c, "closing", "closed", Ended(c))
peer_closes(c) == Changes(c, "open", "closing", Idle)
drops(c) == Changes(c, "open", "closed", Ended(c))

NewStatus(old, what) == what

\* on_open(), on_fail(), on_close()
set_status ==
  /\ main.does # "terminated" /\ io.does \in {"Open", "Failed", "Closed"}
  /\ m_status' = [m_status EXCEPT ![io.con] = NewStatus(@, io.does)]
  /\ io' = Idle
  /\ UNCHANGED <<m_next_id, con, m_messages, sent, replied, main, perpetual>>

\* on_message(): as for the messages that were sent.
on_message(c) ==
  /\ io = Idle /\ con[c] = "open" /\ replied[c] < sent[c]
  /\ replied' = [replied EXCEPT ![c] = @ + 1]
  /\ io' = [does |-> "push", con |-> c, list |-> Pushed(m_messages[c], In(replied[c] + 1))]
  /\ UNCHANGED <<m_next_id, con, m_status, m_messages, sent, main, perpetual>>

message_received ==
  /\ io.does = "push"
  /\ m_messages' = [m_messages EXCEPT ![io.con] = io.list]
  /\ io' = Idle
  /\ UNCHANGED <<m_next_id, con, m_status, sent, replied, main, perpetual>>

Commands == connect \/ quit \/ \E c \in Ids : send(c) \/ close(c)
MainSteps == record_sent_message \/ message_recorded \/ close_next \/ all_closed \/ join
Peers == \E c \in Ids : peer_closes(c) \/ drops(c) \/ on_message(c)
Progress == set_status \/ message_received \/ \E c \in Ids : closes(c)
Attempts == \E c \in Ids : opens(c) \/ fails(c)

Next == Commands \/ MainSteps \/ Peers \/ Progress \/ Attempts

\* Both threads run. Attempts and closing handshakes end, by a timer if nothing else; users and
\* peers need not do anything.
Spec == Init /\ [][Next]_vars /\ WF_vars(MainSteps) /\ WF_vars(Progress) /\ WF_vars(Attempts)

------------------------------------------------------------------------------
(* Properties *)

Of(c, kind) == SelectSeq(m_messages[c], LAMBDA m : m[1] = kind)
Increasing(s) == \A i, j \in DOMAIN s : i < j => s[i][2] < s[j][2]
Position(c, m) == SelectInSeq(m_messages[c], LAMBDA n : n = m)

\* The states of the connections and the words for them.
TypeOK ==
  /\ m_next_id \in 0 .. MaxConnections /\ perpetual \in BOOLEAN
  /\ con \in [Ids -> {"none", "connecting", "open", "closing", "closed"}]
  /\ m_status \in [Ids -> {"none", "Connecting", "Open", "Failed", "Closed"}]
  /\ \A c \in Ids : replied[c] <= sent[c]

\* The transcript shows no message twice, and those of one direction in their order, however
\* the pushes of the two threads meet.
EachInOrder == \A c \in Ids : Increasing(Of(c, "out")) /\ Increasing(Of(c, "in"))

\* The status is behind the connection by no more than the handler that the io thread is in.
StatusKeepsUp ==
  \A c \in Ids : io = Idle =>
    /\ con[c] = "open" => m_status[c] = "Open"
    /\ con[c] = "closed" => m_status[c] \in {"Failed", "Closed"}

\* The program ends when the user quits while no connection is being made.
Settled == \A c \in Ids : con[c] # "connecting" /\ (con[c] = "open" => m_status[c] = "Open")
QuitsWhenSettled == (main = [does |-> "close", next |-> 1] /\ Settled) ~> (main.does = "ended")

\* The program ends when the user quits: all outstanding connections are closed.
Quits == main.does = "close" ~> main.does = "ended"

\* The transcript has all messages sent and received, once no push is under way.
TranscriptComplete ==
  io.does # "push" /\ main.does \notin {"record", "push"} =>
    \A c \in Ids : Len(m_messages[c]) = sent[c] + replied[c]

\* And has them in order: no reply before the message that it repeats.
TranscriptInOrder ==
  \A c \in Ids : \A k \in 1 .. MaxMessages :
    Position(c, In(k)) # 0 /\ Position(c, Out(k)) # 0 => Position(c, Out(k)) < Position(c, In(k))
==============================================================================
