-------------------------- MODULE IoStreamTransport --------------------------
(***************************************************************************)
(* The iostream transport (transport/iostream): the application feeds the  *)
(* bytes it got elsewhere into the read that the library has pending, and  *)
(* what the library writes goes to a stream or to a handler that the       *)
(* application has registered with the endpoint, for the connections to    *)
(* come, or with the connection itself.                                    *)
(*                                                                         *)
(* Bytes are numbered in the order in which the application has them. A    *)
(* call of the application holds m_read_mutex from its first to its last   *)
(* step; the read handler of the library runs inside it.                   *)
(***************************************************************************)
EXTENDS Integers, Sequences, SequencesExt

CONSTANTS
  MaxBytes,     \* bytes the application has in all
  Sizes,        \* sizes of buffers and least numbers of bytes to read
  StreamsGoBad, \* an input stream may lose its source in the middle of a read
  Nested,       \* the library's handler leads to another call of the application
  MaxWrites,    \* chunks the library writes in all
  Outputs,      \* what may be registered: "stream", "handler", "vector"
  OutputFails   \* the stream may get into the state fail (not bad)

\* What is assumed of the constants.
StreamAssumption ==
  MaxBytes \in Nat /\ Sizes \subseteq Nat /\ MaxWrites \in Nat /\ OutputFails \in BOOLEAN

VARIABLES
  m_reading, m_len, m_bytes_needed, m_cursor, m_buf,
  m_read_handler,  \* a handler is stored
  call,            \* the call of the application: [op, left, bad]
  pc,              \* "idle", "feed", "again", "return", "handler", "blocked", "threw"
  back,            \* where the handler returns to
  taken,           \* bytes that a read has taken so far
  ended,           \* eof() or fatal_error() was called
  delivered,       \* history: what the handlers were given
  misused,         \* history: complete_read() was called with m_reading false
  answer,          \* what the latest async_read_at_least() told at once
  endpoint,        \* what is registered with the endpoint
  connection,      \* what is registered with the connection
  created,         \* the connection exists
  failed,          \* the stream is in the state fail
  shut,            \* the transport was shut down
  asked, written,  \* history: the chunks of the writes, and those that arrived
  ok               \* history: every write was reported a success

reads == <<m_reading, m_len, m_bytes_needed, m_cursor, m_buf, m_read_handler>>
outputs == <<endpoint, connection, created, failed, shut, asked, written, ok>>
input == <<reads, call, pc, back, taken, ended, delivered, misused, answer>>
vars == <<input, outputs>>

NoCall == [op |-> "none", left |-> 0, bad |-> FALSE]

Init ==
  /\ m_reading = FALSE /\ m_len = 0 /\ m_bytes_needed = 0 /\ m_cursor = 0
  /\ m_buf = <<>> /\ m_read_handler = FALSE
  /\ call = NoCall /\ pc = "idle" /\ back = "return"
  /\ taken = 0 /\ ended = FALSE /\ delivered = <<>> /\ misused = FALSE
  /\ answer = [num_bytes |-> 1, len |-> 1, told |-> "nothing"]
  /\ endpoint = {} /\ connection = {} /\ created = FALSE /\ failed = FALSE
  /\ shut = FALSE /\ asked = <<>> /\ written = <<>> /\ ok = TRUE

------------------------------------------------------------------------------
(* The library's reads *)

Pending(num_bytes, len) ==
  /\ m_reading' = TRUE /\ m_read_handler' = TRUE
  /\ m_len' = len /\ m_bytes_needed' = num_bytes /\ m_cursor' = 0
  /\ m_buf' = [i \in 1 .. len |-> 0]

\* async_read_at_least(num_bytes, buf, len), from the read handler or from
\* outside of a call of the application.
async_read_at_least(num_bytes, len) ==
  /\ created /\ pc \in {"idle", "handler"}
  /\ LET told == CASE num_bytes > len -> "invalid_num_bytes"
                   [] num_bytes <= len /\ m_reading -> "double_read"
                   [] num_bytes <= len /\ ~m_reading /\ num_bytes = 0 -> "success"
                   [] OTHER -> "nothing"
     IN /\ answer' = [num_bytes |-> num_bytes, len |-> len, told |-> told]
        /\ IF told = "nothing" THEN Pending(num_bytes, len) ELSE UNCHANGED reads
  /\ UNCHANGED <<call, pc, back, taken, ended, delivered, misused, outputs>>

\* complete_read(): the stored handler is called, if there is one. (was is
\* m_reading at the call.)
complete_read(was, buf, cursor, after) ==
  /\ m_reading' = FALSE /\ m_read_handler' = FALSE
  /\ misused' = (misused \/ ~was)
  /\ IF m_read_handler
       THEN /\ delivered' = delivered \o SubSeq(buf, 1, cursor)
            /\ pc' = "handler" /\ back' = after
       ELSE pc' = "threw" /\ UNCHANGED <<delivered, back>>

HandlerReturns ==
  /\ pc = "handler" /\ pc' = back
  /\ UNCHANGED <<reads, call, back, taken, ended, delivered, misused, answer, outputs>>

\* What the handler does leads to another call of the application on this
\* connection, which waits for the mutex that its own thread holds.
HandlerCalls ==
  /\ pc = "handler" /\ Nested /\ pc' = "blocked"
  /\ UNCHANGED <<reads, call, back, taken, ended, delivered, misused, answer, outputs>>

------------------------------------------------------------------------------
(* The application's calls *)

\* read_some(), read_all() and operator>> with some of the bytes left.
Call(op, n, bad) ==
  /\ created /\ pc = "idle" /\ taken + n <= MaxBytes
  /\ bad => op = "stream" /\ StreamsGoBad
  /\ call' = [op |-> op, left |-> n, bad |-> bad] /\ pc' = "feed"
  /\ UNCHANGED <<reads, back, taken, ended, delivered, misused, answer, outputs>>

\* The bytes that go into the buffer at once.
Copied(left) == IF left < m_len - m_cursor THEN left ELSE m_len - m_cursor

\* Faulty variant: the bytes go to the beginning of the buffer.
Filled_first(n) == [i \in 1 .. m_len |-> IF i <= n THEN taken + i ELSE m_buf[i]]

\* The buffer with the next n bytes.
Filled(n) ==
  [i \in 1 .. m_len |-> IF i \in m_cursor + 1 .. m_cursor + n
                        THEN taken + (i - m_cursor) ELSE m_buf[i]]

\* The loops of read_all() and read() take another round.
Goes_on(op, left, completes) == op = "stream" \/ (op = "read_all" /\ left > 0)

\* One round: read_some_impl(), or the body of the loop of read() up to the
\* second of its tests. A stream that lost its source completes the read first.
Feed ==
  /\ pc = "feed"
  /\ LET n == Copied(call.left)
         left == call.left - n
         short == call.op = "stream" /\ n < m_len - m_cursor
         next == IF Goes_on(call.op, left, m_cursor + n >= m_bytes_needed)
                 THEN "feed" ELSE "return"
     IN IF ~m_reading \/ (call.op = "stream" /\ call.left = 0)
          THEN /\ pc' = "return"
               /\ UNCHANGED <<reads, call, back, taken, delivered, misused>>
          ELSE /\ m_buf' = Filled(n) /\ m_cursor' = m_cursor + n /\ taken' = taken + n
               /\ call' = [call EXCEPT !.left = left]
               /\ UNCHANGED <<m_len, m_bytes_needed>>
               /\ CASE call.bad -> complete_read(FALSE, m_buf', m_cursor', "again")
                    [] ~call.bad /\ m_cursor' >= m_bytes_needed ->
                         complete_read(call.op # "stream", m_buf', m_cursor',
                                       IF short THEN "return" ELSE next)
                    [] OTHER -> /\ pc' = IF short THEN "return" ELSE next
                                /\ UNCHANGED <<m_reading, m_read_handler, delivered, misused, back>>
  /\ UNCHANGED <<ended, answer, outputs>>

\* The second test, after the handler was called for the stream's failure.
Again ==
  /\ pc = "again"
  /\ IF m_cursor >= m_bytes_needed
       THEN complete_read(FALSE, m_buf, m_cursor, "return")
       ELSE pc' = "return" /\ UNCHANGED <<m_reading, m_read_handler, delivered, misused, back>>
  /\ UNCHANGED <<m_len, m_bytes_needed, m_cursor, m_buf, call, taken, ended, answer, outputs>>

Return ==
  /\ pc = "return" /\ pc' = "idle" /\ call' = NoCall
  /\ UNCHANGED <<reads, back, taken, ended, delivered, misused, answer, outputs>>

\* eof() and fatal_error().
End ==
  /\ created /\ pc = "idle" /\ ended' = TRUE
  /\ IF m_reading
       THEN complete_read(TRUE, m_buf, m_cursor, "return")
       ELSE UNCHANGED <<m_reading, m_read_handler, delivered, misused, pc, back>>
  /\ UNCHANGED <<m_len, m_bytes_needed, m_cursor, m_buf, call, taken, answer, outputs>>

------------------------------------------------------------------------------
(* The output *)

\* register_ostream() and set_write_handler() of the endpoint.
EndpointOutput(to) ==
  /\ endpoint' = endpoint \cup {to}
  /\ UNCHANGED <<connection, created, failed, shut, asked, written, ok, input>>

\* init(): the connection copies what the endpoint has then.
Create ==
  /\ ~created /\ created' = TRUE /\ connection' = endpoint
  /\ UNCHANGED <<endpoint, failed, shut, asked, written, ok, input>>

\* register_ostream(), set_write_handler(), set_vector_write_handler().
ConnectionOutput(to) ==
  /\ created /\ connection' = connection \cup {to}
  /\ UNCHANGED <<endpoint, created, failed, shut, asked, written, ok, input>>

\* Where a chunk, or a list of chunks, goes.
Output(list) ==
  CASE "stream" \in connection -> "stream"
    [] "stream" \notin connection /\ list /\ "vector" \in connection -> "vector"
    [] "stream" \notin connection /\ (list => "vector" \notin connection)
         /\ "handler" \in connection -> "handler"
    [] OTHER -> "none"

\* Writing stops at the first chunk that does not go through.
Written(chunks, bad) == SubSeq(chunks, 1, bad - 1)

\* async_write(): the chunk numbered bad does not go through, none if that is 0;
\* a vector handler takes or refuses them all. A failure ends the connection:
\* the library writes no more.
async_write(chunks, list, bad) ==
  /\ created /\ ok /\ ~shut /\ (Output(list) = "stream" => ~failed)
  /\ Len(asked) + Len(chunks) <= MaxWrites /\ asked' = asked \o chunks
  /\ CASE Output(list) = "none" -> bad = 1
       [] Output(list) = "vector" -> bad \in {0, 1}
       [] OTHER -> bad \in 0 .. Len(chunks)
  /\ ok' = (bad = 0)
  /\ written' = written \o (IF bad = 0 THEN chunks ELSE Written(chunks, bad))
  /\ UNCHANGED <<endpoint, connection, created, failed, shut, input>>

StreamFails ==
  /\ OutputFails /\ "stream" \in connection /\ ~failed /\ failed' = TRUE
  /\ UNCHANGED <<endpoint, connection, created, shut, asked, written, ok, input>>

\* A stream in the state fail takes nothing, and bad() is false.
WriteToFailed(chunks) ==
  /\ Output(TRUE) = "stream" /\ failed /\ ok /\ ~shut
  /\ Len(asked) + Len(chunks) <= MaxWrites /\ asked' = asked \o chunks
  /\ UNCHANGED <<endpoint, connection, created, failed, shut, written, ok, input>>

\* async_shutdown(), by the library when it has finished.
async_shutdown ==
  /\ created /\ ~shut /\ shut' = TRUE
  /\ UNCHANGED <<endpoint, connection, created, failed, asked, written, ok, input>>

Chunks(n) == [i \in 1 .. n |-> Len(asked) + i]

------------------------------------------------------------------------------
Next ==
  \/ \E num_bytes, len \in Sizes : async_read_at_least(num_bytes, len)
  \/ HandlerReturns \/ HandlerCalls
  \/ \E op \in {"read_some", "read_all", "stream"}, n \in 1 .. MaxBytes, bad \in BOOLEAN :
       Call(op, n, bad)
  \/ Feed \/ Again \/ Return \/ End
  \/ \E to \in Outputs \ {"vector"} : EndpointOutput(to)
  \/ Create
  \/ \E to \in Outputs : ConnectionOutput(to)
  \/ \E n \in 1 .. MaxWrites, list \in BOOLEAN : \E bad \in 0 .. n :
       (n > 1 => list) /\ async_write(Chunks(n), list, bad)
  \/ StreamFails
  \/ \E n \in 1 .. MaxWrites : WriteToFailed(Chunks(n))
  \/ async_shutdown

Spec == Init /\ [][Next]_vars
------------------------------------------------------------------------------
\* Every variable has its type, and a read that is pending has room for what
\* it still needs, and somebody to tell.
TypeOK ==
  /\ pc \in {"idle", "feed", "again", "return", "handler", "blocked", "threw"}
  /\ taken \in 0 .. MaxBytes
  /\ m_reading => m_cursor < m_bytes_needed /\ m_bytes_needed <= m_len /\ m_read_handler

\* The handlers are given, in order, every byte that was taken from the
\* application, but those that wait in the buffer of the pending read.
BytesInOrder ==
  delivered \o (IF m_reading THEN SubSeq(m_buf, 1, m_cursor) ELSE <<>>) = [i \in 1 .. taken |-> i]

\* When read_all() or operator>> returns there is no pending read, or there are
\* no bytes left, or the stream was lost.
ReadsAllItCan ==
  [][Return /\ call.op \in {"read_all", "stream"} => ~m_reading \/ call.left = 0 \/ call.bad]_vars

\* No handler is called that is not there, but when a stream lost its source.
ThrowsOnlyForStream == pc = "threw" => call.bad

\* What has arrived is a beginning of what was written, whichever output each
\* write went to and wherever one failed.
WrittenInOrder == IsPrefix(written, asked)

\* connection.hpp:475, of async_write(): "Will return 0 on success."
SuccessMeansWritten == ok => written = asked

\* connection.hpp:661, of complete_read(): "It MUST NOT be called when m_reading
\* is false."
CompletesPendingRead == ~misused

\* connection.hpp:215, of eof(): "no more bytes may be read or written to/from
\* the transport."
NothingAfterEnd == [][ended => taken' = taken]_vars

\* connection.hpp:429: "If num_bytes or len are zero handler will be called back
\* immediately indicating success."
ZeroIsSuccess ==
  (answer.num_bytes = 0 \/ answer.len = 0) => answer.told = "success"

\* connection.hpp:155, of read_some(): "If there are no pending reads read_some
\* will return immediately."
ReturnsWithoutRead == pc = "blocked" => m_reading
==============================================================================
