---------------------------- MODULE DebugTransport ----------------------------
(***************************************************************************)
(* The debug transport of WebSocket++ (transport/debug/connection.hpp),    *)
(* which a test drives by hand: read_all() supplies input, fullfil_write() *)
(* and expire_timer() call the handlers the connection has left.  All of   *)
(* it runs on one thread; a handler may issue the next operation.          *)
(***************************************************************************)
EXTENDS Integers, Sequences, SequencesExt

CONSTANTS
  MaxSize,    \* bound on the sizes of reads and inputs
  MaxSteps    \* bound on the operations issued

\* What is assumed of the constants.
DebugAssumption == MaxSize \in Nat /\ MaxSteps \in Nat

VARIABLES
  read,      \* the read in progress: [on, need, len, cursor]
  answers,   \* history: what the read handlers were called with, in order
  input,     \* read_all(): bytes left of the buffer, or -1 if not running
  total,     \* read_all(): total_read
  supplied,  \* history: bytes read_some_impl() took
  writes,    \* history: for each async_write() how often its handler was called
  timers,    \* history: for each set_timer() how often its handler was called
  steps

vars == <<read, answers, input, total, supplied, writes, timers, steps>>

Off == [on |-> FALSE, need |-> 0, len |-> 0, cursor |-> 0]
Answer(ec, n, num, len) == [ec |-> ec, n |-> n, num |-> num, len |-> len]

Init ==
  /\ read = Off /\ answers = <<>> /\ input = -1 /\ total = 0 /\ supplied = 0
  /\ writes = <<>> /\ timers = <<>> /\ steps = 0

Bounded == steps < MaxSteps /\ steps' = steps + 1
Idle == input = -1

\* The error async_read_at_least() answers with at once, or "none".
ReadError(r, num, len) ==
  IF num > len THEN "invalid_num_bytes" ELSE IF r.on THEN "double_read" ELSE "none"

Immediate(r, num, len) == ReadError(r, num, len) # "none" \/ num = 0 \/ len = 0

\* async_read_at_least() with a read r in progress and the answers so far.
AsyncRead(r, given, num, len) ==
  IF Immediate(r, num, len)
    THEN read' = r /\ answers' = Append(given, Answer(ReadError(r, num, len), 0, num, len))
    ELSE read' = [on |-> TRUE, need |-> num, len |-> len, cursor |-> 0] /\ answers' = given

async_read_at_least ==
  /\ Idle /\ Bounded
  /\ \E num, len \in 0 .. MaxSize : AsyncRead(read, answers, num, len)
  /\ UNCHANGED <<input, total, supplied, writes, timers>>

\* The test calls read_all() with a buffer.
read_all ==
  /\ Idle /\ Bounded
  /\ input' \in 0 .. MaxSize /\ total' = 0
  /\ UNCHANGED <<read, answers, supplied, writes, timers>>

\* The room left in the buffer of the read.
Room(r) == r.len - r.cursor

Enough(r) == r.cursor >= r.need

\* The condition of the loop of read_all(), for n bytes read just now.
Repeats(n) == n # 0 /\ n < input

\* One round of read_all(): read_some_impl(), with complete_read() if there is
\* enough, whose handler may issue the next read.
read_some ==
  /\ input >= 0
  /\ LET n == IF ~read.on THEN 0 ELSE IF input < Room(read) THEN input ELSE Room(read)
         r == [read EXCEPT !.cursor = @ + n]
         given == Append(answers, Answer("none", r.cursor, r.need, r.len))
     IN  /\ IF read.on /\ Enough(r)
              THEN \/ read' = [r EXCEPT !.on = FALSE] /\ answers' = given /\ UNCHANGED steps
                   \/ Bounded /\ \E num, len \in 0 .. MaxSize :
                                   AsyncRead([r EXCEPT !.on = FALSE], given, num, len)
              ELSE read' = r /\ UNCHANGED <<answers, steps>>
         /\ total' = total + n /\ supplied' = supplied + n
         /\ input' = IF Repeats(n) THEN input - n ELSE -1
  /\ UNCHANGED <<writes, timers>>

\* async_write(), both overloads: the handler takes the place of the last one.
async_write ==
  /\ Idle /\ Bounded
  /\ writes' = Append(writes, 0)
  /\ UNCHANGED <<read, answers, input, total, supplied, timers>>

set_timer ==
  /\ Idle /\ Bounded
  /\ timers' = Append(timers, 0)
  /\ UNCHANGED <<read, answers, input, total, supplied, writes>>

\* The test calls the handler that is stored; without one it would throw.
fullfil_write ==
  /\ Idle /\ Bounded /\ writes # <<>>
  /\ writes' = [writes EXCEPT ![Len(writes)] = @ + 1]
  /\ UNCHANGED <<read, answers, input, total, supplied, timers>>

expire_timer ==
  /\ Idle /\ Bounded /\ timers # <<>>
  /\ timers' = [timers EXCEPT ![Len(timers)] = @ + 1]
  /\ UNCHANGED <<read, answers, input, total, supplied, writes>>

Next == async_read_at_least \/ read_all \/ read_some \/ async_write \/ set_timer
        \/ fullfil_write \/ expire_timer

Spec == Init /\ [][Next]_vars

-----------------------------------------------------------------------------
TypeOK ==
  /\ read \in [on : BOOLEAN, need : 0 .. MaxSize, len : 0 .. MaxSize, cursor : 0 .. MaxSize]
  /\ read.on => 0 < read.need /\ read.need <= read.len
  /\ input \in -1 .. MaxSize /\ total \in Nat /\ supplied \in Nat /\ steps \in 0 .. MaxSteps

\* async_read_at_least(): "Don't call handler until at least this many bytes
\* have been read", and "at maximum" len bytes.
AnswerInBounds ==
  \A i \in DOMAIN answers :
    answers[i].ec = "none" => answers[i].num <= answers[i].n /\ answers[i].n <= answers[i].len

\* Every byte that was supplied is in the answer to one read, or in the buffer
\* of the one in progress.
Consumed == FoldSeq(LAMBDA a, sum : a.n + sum, 0, answers)
EveryByteOnce == supplied = Consumed + (IF read.on THEN read.cursor ELSE 0)

\* read_all(): "continues until all bytes have been read or the connection
\* runs out of read requests": when it returns, one of the two is so.
AllOrNoRead ==
  [][input >= 0 /\ input' = -1 => (total' = total + input \/ ~read.on \/ ~read'.on)]_vars

\* set_timer(): "The handler will never be called."
TimerNeverCalled == \A i \in DOMAIN timers : timers[i] = 0

\* async_write(): "Call handler to report success or failure": a handler that
\* can no longer be called has been, once.
WriteReported == \A i \in DOMAIN writes : i < Len(writes) => writes[i] = 1
=============================================================================
