-------------------------- MODULE ConnectionSession --------------------------
(***************************************************************************)
(* websocketpp::connection once it is open (impl/connection_impl.hpp): the *)
(* write queue, the closing handshake, the read loop and termination.      *)
(* Handlers of the transport run on one strand, Io; application threads    *)
(* call send(), ping(), close(), pause_reading() and resume_reading() at   *)
(* any moment.  A call is split where another thread can come in between:  *)
(* the test of m_state, the store to m_state, the timer, write_push() and  *)
(* dispatch() are steps of their own.                                      *)
(***************************************************************************)
EXTENDS Naturals, Sequences, FiniteSets

CONSTANTS
  AppThreads,    \* threads of the application
  Io,            \* the strand of the transport
  Calls,         \* the kinds of calls the application makes
  IsServer,      \* m_is_server
  DropOnError,   \* config::drop_on_protocol_error
  CloseTimer,    \* m_close_handshake_timeout_dur > 0
  MaxCalls,      \* bound: calls of the application
  MaxFrames      \* bound: frames the peer sends

Callers == AppThreads \cup {Io}
Free == "free"
Errors == {"none", "transport", "protocol", "timeout"}

\* What is assumed of the constants.
SessionAssumption ==
  /\ Io \notin AppThreads /\ Free \notin Callers
  /\ Calls \subseteq {"send", "close", "pause"}
  /\ IsServer \in BOOLEAN /\ DropOnError \in BOOLEAN /\ CloseTimer \in BOOLEAN
  /\ MaxCalls \in Nat /\ MaxFrames \in Nat

\* What an outgoing message_ptr is to the queue: only a close frame is terminal.
Messages ==
  {m \in [op : {"data", "close"}, by : Callers, terminal : BOOLEAN] :
     m.terminal => m.op = "close"}
Data(c) == [op |-> "data", by |-> c, terminal |-> FALSE]
CloseFrame(c, terminal) == [op |-> "close", by |-> c, terminal |-> terminal]

VARIABLES
  state,        \* m_state: "open", "closing" or "closed"
  stateLock,    \* the holder of m_connection_state_lock
  wasClean,     \* m_was_clean
  ec,           \* m_ec
  queue,        \* m_send_queue
  current,      \* m_current_msgs
  writeFlag,    \* m_write_flag
  writes,       \* transport writes in flight
  posted,       \* write_frame() handlers waiting on the strand
  reads,        \* transport reads in flight
  readFlag,     \* m_read_flag
  timer,        \* what m_handshake_timer designates: "none", "waiting" or "due"
  strays,       \* running close timers m_handshake_timer no longer designates
  due,          \* expired timers whose handler waits on the strand
  shutting,     \* async_shutdown() under way
  pc,           \* what each caller does next
  msg,          \* the message each caller is about to push
  calls, frames,              \* how many the application and the peer made
  pushed, wire, lost,         \* history: queued, written, failed messages
  closeCalls                  \* history: calls of m_close_handler

writeVars == <<queue, current, writeFlag, writes, posted, pushed, wire, lost>>
timerVars == <<timer, strays, due>>
endVars == <<shutting, closeCalls>>
readVars == <<reads, readFlag, frames>>
callVars == <<pc, msg, calls>>
sessionVars == <<state, stateLock, wasClean, ec, writeVars, timerVars, endVars,
          readVars, callVars>>

SessionInit ==
  /\ state = "open" /\ stateLock = Free /\ wasClean = FALSE /\ ec = "none"
  /\ queue = <<>> /\ current = <<>> /\ writeFlag = FALSE /\ writes = 0
  /\ posted = 0 /\ pushed = <<>> /\ wire = <<>> /\ lost = <<>>
  /\ reads = 1 /\ readFlag = TRUE /\ frames = 0
  /\ timer = "none" /\ strays = 0 /\ due = 0
  /\ shutting = 0 /\ closeCalls = 0
  /\ pc = [c \in Callers |-> "idle"]
  /\ msg = [c \in Callers |-> Data(c)]
  /\ calls = 0

Goto(c, from, to) == pc[c] = from /\ pc' = [pc EXCEPT ![c] = to]

\* A handler of the transport may start: the previous one has returned.
StrandFree == pc[Io] = "idle"

------------------------------------------------------------------------------
(* Calls of the application, on its threads or in a handler on the strand *)

\* send(), ping() and pong() of a thread: the test of m_state, under its lock.
\* A call from another state returns invalid_state and changes nothing, as one
\* does whose message cannot be prepared.
Submit(c) ==
  /\ "send" \in Calls /\ calls < MaxCalls
  /\ stateLock = Free /\ state = "open"
  /\ Goto(c, "idle", "push")
  /\ msg' = [msg EXCEPT ![c] = Data(c)]
  /\ calls' = calls + 1
  /\ UNCHANGED <<state, stateLock, wasClean, ec, writeVars, timerVars, endVars,
                 readVars>>

\* close(): takes the lock, which it keeps to the end, and tests m_state.
\* The message is terminal for codes after which no answer is awaited.
Close(c) ==
  /\ "close" \in Calls /\ calls < MaxCalls
  /\ stateLock = Free /\ state = "open"
  /\ stateLock' = c
  /\ Goto(c, "idle", "setclosing")
  /\ \E terminal \in BOOLEAN : msg' = [msg EXCEPT ![c] = CloseFrame(c, terminal)]
  /\ calls' = calls + 1
  /\ UNCHANGED <<state, wasClean, ec, writeVars, timerVars, endVars, readVars>>

\* send_close_frame(): the stores to m_state and m_was_clean.  Only close()
\* holds the lock here, and an acknowledgement comes without it.
SetClosing(c) ==
  /\ Goto(c, "setclosing", "arm")
  /\ state' = "closing"
  /\ wasClean' = (wasClean \/ stateLock # c)
  /\ UNCHANGED <<stateLock, ec, writeVars, timerVars, endVars, readVars, msg,
                 calls>>

\* send_close_frame(): a new timer takes the place of the one in
\* m_handshake_timer, which goes on running.
ArmTimer(c) ==
  /\ Goto(c, "arm", "push")
  /\ IF CloseTimer
       THEN /\ timer' = "waiting"
            /\ strays' = strays + (IF timer = "waiting" THEN 1 ELSE 0)
       ELSE UNCHANGED <<timer, strays>>
  /\ UNCHANGED <<state, stateLock, wasClean, ec, writeVars, due, endVars,
                 readVars, msg, calls>>

\* write_push() and the test whether a write must be started, under
\* m_write_lock: the end of send(), ping(), pong() and send_close_frame().
Push(c) ==
  /\ pc[c] = "push"
  /\ queue' = Append(queue, msg[c])
  /\ pushed' = Append(pushed, msg[c])
  /\ pc' = [pc EXCEPT ![c] = IF writeFlag THEN "idle" ELSE "dispatch"]
  /\ stateLock' = IF stateLock = c /\ writeFlag THEN Free ELSE stateLock
  /\ UNCHANGED <<state, wasClean, ec, current, writeFlag, writes, posted, wire,
                 lost, timerVars, endVars, readVars, msg, calls>>

\* transport_con_type::dispatch(write_frame), after m_write_lock is released.
Dispatch(c) ==
  /\ Goto(c, "dispatch", "idle")
  /\ posted' = posted + 1
  /\ stateLock' = IF stateLock = c THEN Free ELSE stateLock
  /\ UNCHANGED <<state, wasClean, ec, queue, current, writeFlag, writes, pushed,
                 wire, lost, timerVars, endVars, readVars, msg, calls>>

\* handle_pause_reading(), posted by pause_reading().
PauseReading ==
  /\ StrandFree /\ "pause" \in Calls /\ calls < MaxCalls
  /\ readFlag' = FALSE
  /\ calls' = calls + 1
  /\ UNCHANGED <<state, stateLock, wasClean, ec, writeVars, timerVars, endVars,
                 reads, frames, pc, msg>>

\* handle_resume_reading(), posted by resume_reading(): it issues a read,
\* whether or not one is in flight.
ResumeReading ==
  /\ StrandFree /\ "pause" \in Calls /\ calls < MaxCalls
  /\ readFlag' = TRUE
  /\ reads' = reads + 1
  /\ calls' = calls + 1
  /\ UNCHANGED <<state, stateLock, wasClean, ec, writeVars, timerVars, endVars,
                 frames, pc, msg>>

------------------------------------------------------------------------------
(* Termination *)

\* terminate(ec): it cancels the handshake timer, which cannot withdraw a
\* handler that is already queued; a second call stores the error only.
Terminate(error) ==
  /\ timer' = "none"
  /\ ec' = IF error = "none" THEN ec ELSE error
  /\ state' = "closed"
  /\ shutting' = IF state = "closed" THEN shutting ELSE shutting + 1

\* handle_terminate(), called by the transport when the socket is shut down.
HandleTerminate ==
  /\ StrandFree /\ shutting > 0
  /\ shutting' = shutting - 1
  /\ closeCalls' = closeCalls + 1
  /\ UNCHANGED <<state, stateLock, wasClean, ec, writeVars, timerVars, readVars,
                 callVars>>

\* A running close timer expires: its handler is queued on the strand.
TimerExpires ==
  /\ \/ timer = "waiting" /\ timer' = "due" /\ UNCHANGED strays
     \/ strays > 0 /\ strays' = strays - 1 /\ UNCHANGED timer
  /\ due' = due + 1
  /\ UNCHANGED <<state, stateLock, wasClean, ec, writeVars, endVars, readVars,
                 callVars>>

\* handle_close_handshake_timeout().
CloseTimeout ==
  /\ StrandFree /\ due > 0
  /\ due' = due - 1
  /\ Terminate("timeout")
  /\ UNCHANGED <<stateLock, wasClean, writeVars, strays, closeCalls, readVars,
                 callVars>>

------------------------------------------------------------------------------
(* The write loop *)

\* The length of the batch write_frame() pops: up to and with the first
\* terminal message.
BatchLength ==
  LET ends == {i \in DOMAIN queue : queue[i].terminal}
  IN  IF ends = {} THEN Len(queue)
      ELSE CHOOSE i \in ends : \A j \in ends : i <= j

\* write_frame() while a write is outstanding, or with nothing to write.
WriteNothing ==
  /\ StrandFree /\ posted > 0
  /\ posted' = posted - 1
  /\ writeFlag \/ queue = <<>>
  /\ UNCHANGED <<state, stateLock, wasClean, ec, queue, current, writeFlag,
                 writes, pushed, wire, lost, timerVars, endVars, readVars,
                 callVars>>

\* Faulty variant: the last message of the batch stays queued.
WriteFrameRepeats ==
  /\ StrandFree /\ posted > 0
  /\ posted' = posted - 1
  /\ ~writeFlag /\ queue # <<>>
  /\ current' = current \o SubSeq(queue, 1, BatchLength)
  /\ queue' = SubSeq(queue, BatchLength, Len(queue))
  /\ writeFlag' = TRUE
  /\ writes' = writes + 1
  /\ UNCHANGED <<state, stateLock, wasClean, ec, pushed, wire, lost, timerVars,
                 endVars, readVars, callVars>>

\* write_frame(): pops a batch, takes the write flag and starts a write.
WriteFrame ==
  /\ StrandFree /\ posted > 0
  /\ posted' = posted - 1
  /\ ~writeFlag /\ queue # <<>>
  /\ current' = current \o SubSeq(queue, 1, BatchLength)
  /\ queue' = SubSeq(queue, BatchLength + 1, Len(queue))
  /\ writeFlag' = TRUE
  /\ writes' = writes + 1
  /\ UNCHANGED <<state, stateLock, wasClean, ec, pushed, wire, lost, timerVars,
                 endVars, readVars, callVars>>

\* handle_write_frame() after a successful write of a batch that does not end
\* the connection: it releases the flag and looks at the queue again.
WriteDone ==
  /\ StrandFree /\ writes > 0
  /\ ~current[Len(current)].terminal
  /\ wire' = wire \o current
  /\ current' = <<>>
  /\ writes' = writes - 1
  /\ writeFlag' = FALSE
  /\ posted' = posted + (IF queue # <<>> THEN 1 ELSE 0)
  /\ UNCHANGED <<state, stateLock, wasClean, ec, queue, pushed, lost, timerVars,
                 endVars, readVars, callVars>>

\* handle_write_frame() after a terminal message was written: it terminates
\* the connection and keeps the write flag.
WriteDoneTerminal ==
  /\ StrandFree /\ writes > 0
  /\ current[Len(current)].terminal
  /\ wire' = wire \o current
  /\ current' = <<>>
  /\ writes' = writes - 1
  /\ Terminate("none")
  /\ UNCHANGED <<stateLock, wasClean, queue, writeFlag, posted, pushed, lost,
                 strays, due, closeCalls, readVars, callVars>>

\* handle_write_frame() with an error: part of the batch may have gone out.
WriteFails ==
  /\ StrandFree /\ writes > 0
  /\ \E k \in 0 .. Len(current) :
       /\ wire' = wire \o SubSeq(current, 1, k)
       /\ lost' = lost \o SubSeq(current, k + 1, Len(current))
  /\ current' = <<>>
  /\ writes' = writes - 1
  /\ Terminate("transport")
  /\ UNCHANGED <<stateLock, wasClean, queue, writeFlag, posted, pushed, strays,
                 due, closeCalls, readVars, callVars>>

------------------------------------------------------------------------------
(* The read loop *)

\* A read that delivers a frame; read_frame() at the end of
\* handle_read_frame() issues the next one unless reading is paused.
Frame ==
  /\ StrandFree /\ reads > 0 /\ frames < MaxFrames
  /\ frames' = frames + 1
  /\ reads' = IF readFlag THEN reads ELSE reads - 1
  /\ UNCHANGED readFlag

\* A frame that leaves the connection as it is: data or a pong, handed to the
\* application in the open state, and whatever is ignored with a warning.
ReadData ==
  /\ Frame
  /\ UNCHANGED <<state, stateLock, wasClean, ec, writeVars, timerVars, endVars,
                 callVars>>

\* process_control_frame() of a ping: it answers in the open state.
ReadPing ==
  /\ Frame
  /\ state = "open"
  /\ Goto(Io, "idle", "pong")
  /\ UNCHANGED <<state, stateLock, wasClean, ec, writeVars, timerVars, endVars,
                 msg, calls>>

\* pong(), called with the payload of a ping: it tests m_state once more.
Pong ==
  /\ stateLock = Free
  /\ Goto(Io, "pong", IF state = "open" THEN "push" ELSE "idle")
  /\ msg' = [msg EXCEPT ![Io] = Data(Io)]
  /\ UNCHANGED <<state, stateLock, wasClean, ec, writeVars, timerVars, endVars,
                 readVars, calls>>

\* send_close_ack(): send_close_frame() without the lock, terminal for servers.
Acknowledge ==
  /\ Goto(Io, "idle", "setclosing")
  /\ msg' = [msg EXCEPT ![Io] = CloseFrame(Io, IsServer)]
  /\ UNCHANGED <<state, stateLock, wasClean, ec, writeVars, timerVars, endVars,
                 calls>>

\* process_control_frame() of a valid close frame.
ReadClose ==
  /\ Frame
  /\ \/ state = "open" /\ Acknowledge
     \/ /\ state = "closing" /\ ~wasClean
        /\ wasClean' = TRUE
        /\ IF IsServer THEN Terminate("none")
           ELSE UNCHANGED <<state, ec, timer, shutting>>
        /\ UNCHANGED <<stateLock, writeVars, strays, due, closeCalls, callVars>>

\* process_control_frame() of a close frame with a bad code or reason.
ReadBadClose ==
  /\ Frame
  /\ state # "closed"
  /\ IF DropOnError
       THEN /\ Terminate("protocol")
            /\ UNCHANGED <<stateLock, wasClean, writeVars, strays, due,
                           closeCalls, callVars>>
       ELSE Acknowledge

\* handle_read_frame() when consume() reports an error: it drops the
\* connection or closes it, and no further read is issued.
ReadViolation ==
  /\ StrandFree /\ reads > 0 /\ frames < MaxFrames
  /\ frames' = frames + 1
  /\ reads' = reads - 1
  /\ UNCHANGED readFlag
  /\ IF DropOnError
       THEN /\ Terminate("protocol")
            /\ UNCHANGED <<stateLock, wasClean, writeVars, strays, due,
                           closeCalls, callVars>>
       ELSE /\ Goto(Io, "idle", "violation")
            /\ UNCHANGED <<state, stateLock, wasClean, ec, writeVars, timerVars,
                           endVars, msg, calls>>

\* close() called by handle_read_frame() for a protocol error, whose codes are
\* all terminal; outside the open state it fails, and the connection is dropped.
CloseForViolation ==
  /\ stateLock = Free
  /\ \/ /\ state = "open"
        /\ Goto(Io, "violation", "setclosing")
        /\ stateLock' = Io
        /\ msg' = [msg EXCEPT ![Io] = CloseFrame(Io, TRUE)]
        /\ UNCHANGED <<state, ec, timer, shutting>>
     \/ /\ state # "open"
        /\ Goto(Io, "violation", "idle")
        /\ Terminate("protocol")
        /\ UNCHANGED <<stateLock, msg>>
  /\ UNCHANGED <<wasClean, writeVars, strays, due, closeCalls, readVars, calls>>

\* A read that ends with an error.  The end of the stream is expected in the
\* closed state, and by a client that has sent its close frame.
ReadFails(eof) ==
  /\ StrandFree /\ reads > 0
  /\ reads' = reads - 1
  /\ CASE eof /\ state = "closed" -> UNCHANGED <<state, ec, timer, shutting>>
       [] eof /\ state = "closing" /\ ~IsServer -> Terminate("none")
       [] OTHER -> Terminate("transport")
  /\ UNCHANGED <<stateLock, wasClean, writeVars, strays, due, closeCalls,
                 readFlag, frames, callVars>>

------------------------------------------------------------------------------
CallStep(c) == SetClosing(c) \/ ArmTimer(c) \/ Push(c) \/ Dispatch(c)
TimerStep == TimerExpires \/ CloseTimeout
WriteStep == WriteNothing \/ WriteFrame
WriteEnds == WriteDone \/ WriteDoneTerminal \/ WriteFails
ReadStep ==
  \/ ReadData \/ ReadPing \/ ReadClose \/ ReadBadClose \/ ReadViolation
  \/ \E eof \in BOOLEAN : ReadFails(eof)
StrandStep == Pong \/ CloseForViolation

SessionNext ==
  \/ \E c \in Callers : Submit(c) \/ Close(c)
  \/ \E c \in Callers : CallStep(c)
  \/ PauseReading \/ ResumeReading
  \/ HandleTerminate \/ TimerStep
  \/ WriteStep \/ WriteEnds
  \/ ReadStep \/ StrandStep

SessionSpec == SessionInit /\ [][SessionNext]_sessionVars

\* Threads go on with the call they are in, the strand runs what is queued on
\* it, timers expire and the transport answers a write (transport/base/
\* connection.hpp); nothing makes the application call or the peer send.
Fairness ==
  /\ \A c \in Callers : WF_sessionVars(CallStep(c))
  /\ WF_sessionVars(StrandStep) /\ WF_sessionVars(TimerExpires) /\ WF_sessionVars(CloseTimeout)
  /\ WF_sessionVars(WriteStep) /\ WF_sessionVars(WriteEnds) /\ WF_sessionVars(HandleTerminate)

FairSpec == SessionSpec /\ Fairness

------------------------------------------------------------------------------
(* Properties *)

WriteTypes ==
  /\ queue \in Seq(Messages) /\ current \in Seq(Messages)
  /\ pushed \in Seq(Messages) /\ wire \in Seq(Messages) /\ lost \in Seq(Messages)
  /\ writeFlag \in BOOLEAN /\ writes \in Nat /\ posted \in Nat

EndTypes ==
  /\ state \in {"open", "closing", "closed"}
  /\ stateLock \in Callers \cup {Free}
  /\ wasClean \in BOOLEAN /\ ec \in Errors
  /\ timer \in {"none", "waiting", "due"} /\ strays \in Nat /\ due \in Nat
  /\ shutting \in Nat /\ closeCalls \in Nat

CallTypes ==
  /\ pc \in [Callers -> {"idle", "setclosing", "arm", "push", "dispatch",
                         "pong", "violation"}]
  /\ msg \in [Callers -> Messages]
  /\ calls \in Nat

ReadTypes == reads \in Nat /\ readFlag \in BOOLEAN /\ frames \in Nat

SessionTypeOK == WriteTypes /\ EndTypes /\ CallTypes /\ ReadTypes

\* The write flag is held as long as a batch is with the transport, and for
\* good after the last one.
WriteDiscipline ==
  /\ writes = 1 <=> current # <<>>
  /\ writes \in {0, 1}
  /\ writes = 1 => writeFlag
  /\ lost # <<>> => writeFlag /\ writes = 0

\* Only the end of a batch can be terminal, and what was written up to a
\* terminal message leaves the flag taken for good.
TerminalEndsBatch ==
  /\ \A i \in DOMAIN current : current[i].terminal => i = Len(current)
  /\ \A i \in DOMAIN wire : wire[i].terminal =>
        i = Len(wire) /\ writeFlag /\ writes = 0

\* No message is lost, duplicated or overtaken between write_push() and the
\* transport, however the threads interleave.
QueueIsFifo == ((wire \o lost) \o current) \o queue = pushed

\* A queued message has somebody who will write it: the write in flight, a
\* queued write_frame(), or a caller about to post one.  needs_writing is
\* computed under the lock and used after it.
NoMessageForgotten ==
  queue # <<>> => writeFlag \/ posted > 0 \/ \E c \in Callers : pc[c] = "dispatch"

\* Unless the application pauses it, reading goes on one read at a time.
ReadsInTurn == "pause" \notin Calls => readFlag /\ reads <= 1

\* The application closes in its handlers, on the strand, if it closes at all.
ClosesOnStrand == "close" \notin Calls \/ AppThreads = {}

\* What has ended is not taken back to the closing state, and so ends once.
EndsOnce ==
  ClosesOnStrand =>
    /\ \A c \in AppThreads : pc[c] \in {"idle", "push", "dispatch"}
    /\ pc[Io] = "setclosing" => state # "closed"
    /\ closeCalls + shutting <= 1
    /\ state # "closed" => closeCalls + shutting = 0

\* A server whose application leaves closing to its peer, and which issues no
\* read after a frame that broke the protocol.
AnswersOnly ==
  IsServer /\ "close" \notin Calls /\ (DropOnError \/ "pause" \notin Calls)

\* Such a server closes by itself for an error of the peer only, whom it hears
\* no more: what ends it without an error is the write of a terminal frame.
EndsFlushed ==
  AnswersOnly =>
    /\ stateLock \in {Free, Io}
    /\ stateLock = Io \/ pc[Io] = "violation" => ~DropOnError /\ reads = 0
    /\ state = "closing" /\ ~wasClean => ~DropOnError /\ reads = 0
    /\ state = "closed" /\ ec = "none" => \E i \in DOMAIN wire : wire[i].terminal

\* connection.hpp:784: no message is sent after a close frame.
NothingAfterClose ==
  \A i, j \in DOMAIN pushed :
    i < j /\ pushed[i].op = "close" => pushed[j].op # "data"

\* With no thread but the strand, the state a call has tested is the state in
\* which its message is pushed.
OneThread ==
  AppThreads = {} =>
    /\ pc[Io] \in {"setclosing", "arm"} => msg[Io].op = "close"
    /\ pc[Io] = "arm" \/ (pc[Io] = "push" /\ msg[Io].op = "close") => state # "open"
    /\ state = "open" \/ (pc[Io] = "push" /\ msg[Io].op = "data") =>
         \A i \in DOMAIN pushed : pushed[i].op = "data"
    /\ NothingAfterClose

\* The invariant the proofs use.
IInv ==
  /\ SessionTypeOK /\ WriteDiscipline /\ TerminalEndsBatch /\ QueueIsFifo
  /\ NoMessageForgotten /\ ReadsInTurn /\ EndsOnce /\ EndsFlushed /\ OneThread

\* The peer receives a prefix of what was queued, in that order.
WireInOrder ==
  Len(wire) <= Len(pushed) /\ wire = SubSeq(pushed, 1, Len(wire))

\* transport/base/connection.hpp:73: one async_write in flight at a time.
OneWriteInFlight == writes <= 1

\* A terminal message is the last thing this endpoint writes.
TerminalIsLast ==
  \A i, j \in DOMAIN wire : i < j => ~wire[i].terminal

\* connection.hpp:66: the close handler is called exactly once.
CloseHandlerOnce == closeCalls + shutting <= 1

\* connection.hpp:785: messages queued before the first close frame are written
\* before the connection is closed, unless an error ended it.
CloseFlushes ==
  state = "closed" /\ ec = "none" =>
    \A i \in DOMAIN pushed :
      (\A j \in 1 .. i : pushed[j].op = "close" <=> j = i) => Len(wire) >= i - 1

\* transport/base/connection.hpp:62: one async_read_at_least in flight at a time.
OneReadInFlight == reads <= 1

\* What the session promises, to which applications: the order of writing to all;
\* one read at a time to those that do not pause; one close handler call to those
\* that close on the strand; a flushed end to those that leave closing to the
\* peer; and silence after a close frame to those without threads.
SessionSerial ==
  /\ WireInOrder /\ OneWriteInFlight /\ TerminalIsLast
  /\ "pause" \notin Calls => OneReadInFlight
  /\ ClosesOnStrand => CloseHandlerOnce
  /\ AnswersOnly => CloseFlushes
  /\ AppThreads = {} => NothingAfterClose

\* The closing handshake ends, whatever the peer does: the timer sees to it.
ClosingEnds == state = "closing" ~> state = "closed"

\* Every message leaves the queue unless the connection ends first.
QueueDrains == queue # <<>> ~> (queue = <<>> \/ state = "closed")

\* A connection that ended has its close handler called.
CloseIsReported == state = "closed" ~> closeCalls > 0
==============================================================================
