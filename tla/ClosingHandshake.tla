--------------------------- MODULE ClosingHandshake ---------------------------
(***************************************************************************)
(* The closing handshake of WebSocket++ between two endpoints: close()     *)
(* with its codes and reasons (close.hpp), send_close_frame(), the close   *)
(* frame on the wire (prepare_close(), extract_code(), extract_reason()),  *)
(* its handling by the peer, who acknowledges it, and the end of the TCP   *)
(* connection, which the server should begin.  ConnectionSession has the   *)
(* threads and the write loop of one end; here each end is one process.    *)
(***************************************************************************)
EXTENDS Naturals, Sequences

CONSTANTS
  Codes,        \* codes the applications close with
  Reasons,      \* reasons they give: strings of the bytes below
  ForeignFrames,\* close frames of a foreign end
  Foreign,      \* ends that do not run this library
  ReasonSize,   \* frame::limits::close_reason_size
  MaxCalls,     \* bound on the calls of close() and the frames of a foreign end
  Lossy,        \* whether the transport may fail
  SilentClose,  \* config::silent_close
  DropOnError   \* config::drop_on_protocol_error

Ends == {"server", "client"}
Other(e) == CHOOSE o \in Ends : o # e

ASSUME ClosingAssumption ==
  /\ \A code \in Codes : code \in Nat /\ code <= 65535
  /\ Foreign \subseteq Ends
  /\ ReasonSize \in Nat /\ MaxCalls \in Nat
  /\ Lossy \in BOOLEAN /\ SilentClose \in BOOLEAN /\ DropOnError \in BOOLEAN

VARIABLES
  con,      \* the connection of each end, as below
  queue,    \* close frames each end has yet to write
  wire,     \* close frames on their way from each end
  sent,     \* history: close frames each end has written
  reported, \* calls of the close handler of each end
  asked,    \* history: the ends whose application closed
  calls

vars == <<con, queue, wire, sent, reported, asked, calls>>

------------------------------------------------------------------------------
(* close.hpp *)

blank == 0
normal == 1000
protocol_error == 1002
no_status == 1005
abnormal_close == 1006

reserved(code) == code \in 1016 .. 2999 \cup {1004}
invalid(code) == code <= 999 \/ code >= 5000 \/ code \in {no_status, abnormal_close, 1015}
terminal(code) == code \in {protocol_error, 1007, 1008, 1009, 1011}

\* utf8_validator::validate() for bytes that are a character ("a", or "m" in
\* the messages of the library) or the two of one, "lead" and "cont".
validate(s) ==
  \A i \in DOMAIN s : /\ s[i] = "lead" => i < Len(s) /\ s[i + 1] = "cont"
                      /\ s[i] = "cont" => i > 1 /\ s[i - 1] = "lead"

\* Payloads: empty, a single byte, or a code and a reason.
Payload(code, reason) == [kind |-> "code", code |-> code, reason |-> reason]
Empty == [kind |-> "empty", code |-> no_status, reason |-> <<>>]
Short == [kind |-> "short", code |-> protocol_error, reason |-> <<>>]

\* extract_code() and extract_reason(): whether they report no error.
extract_code(p) == p.code
CodeFits(p) == p.kind = "empty" \/ (p.kind = "code" /\ ~invalid(p.code) /\ ~reserved(p.code))
ReasonFits(p) == validate(p.reason)

\* prepare_close(): whether it returns an error, and the payload it makes.
Refused(l) ==
  \/ reserved(l.code)
  \/ invalid(l.code) /\ l.code # no_status
  \/ l.code = no_status /\ l.reason # <<>>
  \/ Len(l.reason) > ReasonSize

prepare_close(l) == IF l.code = no_status THEN Empty ELSE Payload(l.code, l.reason)

------------------------------------------------------------------------------
Said(code, reason) == [code |-> code, reason |-> reason]
Unset == Said(abnormal_close, <<>>)
Message == <<"m">>

Init ==
  /\ con = [e \in Ends |->
       [m_state |-> "open", m_was_clean |-> FALSE, local |-> Unset, remote |-> Unset,
        timer |-> FALSE, ec |-> "none"]]
  /\ queue = [e \in Ends |-> <<>>] /\ wire = [e \in Ends |-> <<>>]
  /\ sent = [e \in Ends |-> <<>>] /\ reported = [e \in Ends |-> 0]
  /\ asked = {} /\ calls = 0

\* What send_close_frame() stores as the local code and reason.
LocalCode(c, code, reason, ack) ==
  IF SilentClose \/ (code = blank /\ ~ack) THEN Said(no_status, <<>>)
  ELSE IF code # blank THEN Said(code, reason)
  ELSE IF c.remote.code = no_status THEN Said(normal, <<>>) ELSE c.remote

\* Faulty variant: no timer is set.
Armed_Never(c) == FALSE

\* The close handshake timer, of the default configuration.
Armed(c) == TRUE

\* send_close_frame() on a connection c of end e.
SendCloseFrame(e, c, code, reason, ack, last) ==
  LET d == [c EXCEPT !.local = LocalCode(c, code, reason, ack)]
  IN  IF Refused(d.local)
        THEN con' = [con EXCEPT ![e] = d] /\ UNCHANGED queue
        ELSE /\ con' = [con EXCEPT ![e] =
                  [d EXCEPT !.m_state = "closing", !.m_was_clean = @ \/ ack, !.timer = Armed(c)]]
             /\ queue' = [queue EXCEPT ![e] =
                  Append(@, [payload |-> prepare_close(d.local), terminal |-> last])]

\* terminate(): with an error, it takes the place of the local code.
Terminated(c, error) ==
  [c EXCEPT !.m_state = "closed", !.timer = FALSE,
            !.ec = IF error = "none" THEN @ ELSE error,
            !.local = IF error = "none" THEN @ ELSE Said(abnormal_close, Message)]

Library(e) == e \notin Foreign
Open(e) == con[e].m_state # "closed"

\* Faulty variant: a connection that closes can be closed again.
MayClose_Closing(e) == con[e].m_state \in {"open", "closing"}

MayClose(e) == con[e].m_state = "open"

Truncated(reason) == SubSeq(reason, 1, IF Len(reason) < ReasonSize THEN Len(reason) ELSE ReasonSize)

\* close(code, reason) of the application.
Close(e, code, reason) ==
  /\ Library(e) /\ MayClose(e) /\ calls < MaxCalls
  /\ SendCloseFrame(e, con[e], code, Truncated(reason), FALSE, terminal(code))
  /\ asked' = asked \cup {e} /\ calls' = calls + 1
  /\ UNCHANGED <<wire, sent, reported>>

\* write_frame() and handle_write_frame(): after a terminal message the
\* connection is dropped.
Write(e) ==
  /\ Library(e) /\ Open(e) /\ queue[e] # <<>>
  /\ wire' = [wire EXCEPT ![e] = Append(@, Head(queue[e]).payload)]
  /\ sent' = [sent EXCEPT ![e] = Append(@, Head(queue[e]).payload)]
  /\ queue' = [queue EXCEPT ![e] = Tail(@)]
  /\ con' = IF Head(queue[e]).terminal
              THEN [con EXCEPT ![e] = Terminated(@, "none")] ELSE con
  /\ UNCHANGED <<reported, asked, calls>>

\* send_close_ack() with a code of its own for a frame that makes no sense, or
\* the drop the configuration asks for.
Reject(e, c) ==
  IF DropOnError
    THEN con' = [con EXCEPT ![e] = Terminated(c, "protocol")] /\ UNCHANGED queue
    ELSE SendCloseFrame(e, c, protocol_error, Message, TRUE, e = "server")

\* The answer to the close frame of this end: a server ends the connection.
Acknowledged(e, c) ==
  LET d == [c EXCEPT !.m_was_clean = TRUE]
  IN  IF e = "server" THEN Terminated(d, "none") ELSE d

\* Faulty variant: the code of a frame that answers one is not kept.
Heard_Once(c, p) ==
  IF c.m_state = "open" THEN [c EXCEPT !.remote = Said(extract_code(p), p.reason)] ELSE c

\* What process_control_frame() keeps of a close frame: with a bad code, only
\* the code.
Heard(c, p) ==
  [c EXCEPT !.remote = Said(extract_code(p), IF CodeFits(p) THEN p.reason ELSE c.remote.reason)]

\* process_control_frame() of the close frame that arrives next.
Receive(e) ==
  /\ Library(e) /\ Open(e) /\ wire[Other(e)] # <<>>
  /\ LET p == Head(wire[Other(e)])
         c == Heard(con[e], p)
     IN  IF ~CodeFits(p) \/ ~ReasonFits(p) THEN Reject(e, c)
         ELSE IF c.m_state = "open"
           THEN SendCloseFrame(e, c, blank, <<>>, TRUE, e = "server")
         ELSE /\ con' = [con EXCEPT ![e] = IF c.m_was_clean THEN c ELSE Acknowledged(e, c)]
              /\ UNCHANGED queue
  /\ wire' = [wire EXCEPT ![Other(e)] = Tail(@)]
  /\ UNCHANGED <<sent, reported, asked, calls>>

\* handle_read_frame() at the end of the stream of the other end.
ReadEof(e) ==
  /\ Library(e) /\ Open(e) /\ ~Open(Other(e)) /\ wire[Other(e)] = <<>>
  /\ con' = [con EXCEPT ![e] =
       Terminated(@, IF @.m_state = "closing" /\ e = "client" THEN "none" ELSE "eof")]
  /\ UNCHANGED <<queue, wire, sent, reported, asked, calls>>

\* handle_close_handshake_timeout().
Timeout(e) ==
  /\ Library(e) /\ Open(e) /\ con[e].timer
  /\ con' = [con EXCEPT ![e] = Terminated(@, "timeout")]
  /\ UNCHANGED <<queue, wire, sent, reported, asked, calls>>

\* A read or a write fails; what is on its way to this end is lost.
TransportFails(e) ==
  /\ Lossy /\ Library(e) /\ Open(e)
  /\ con' = [con EXCEPT ![e] = Terminated(@, "transport")]
  /\ wire' = [wire EXCEPT ![Other(e)] = <<>>]
  /\ UNCHANGED <<queue, sent, reported, asked, calls>>

\* handle_terminate().
HandleTerminate(e) ==
  /\ Library(e) /\ ~Open(e) /\ reported[e] = 0
  /\ reported' = [reported EXCEPT ![e] = 1]
  /\ UNCHANGED <<con, queue, wire, sent, asked, calls>>

\* A foreign end sends any close frame at any time, or drops the connection.
ForeignFrame(e) ==
  /\ e \in Foreign /\ Open(e) /\ calls < MaxCalls
  /\ \E p \in ForeignFrames :
       wire' = [wire EXCEPT ![e] = Append(@, p)] /\ sent' = [sent EXCEPT ![e] = Append(@, p)]
  /\ calls' = calls + 1
  /\ UNCHANGED <<con, queue, reported, asked>>

ForeignDrop(e) ==
  /\ e \in Foreign /\ Open(e)
  /\ con' = [con EXCEPT ![e].m_state = "closed"]
  /\ UNCHANGED <<queue, wire, sent, reported, asked, calls>>

End(e) ==
  \/ \E code \in Codes, reason \in Reasons : Close(e, code, reason)
  \/ Write(e) \/ Receive(e) \/ ReadEof(e) \/ Timeout(e) \/ TransportFails(e)
  \/ HandleTerminate(e) \/ ForeignFrame(e) \/ ForeignDrop(e)

Next == \E e \in Ends : End(e)

\* The io_service of an end of this library goes on: it writes, reads, runs
\* the timer and the handlers.  Nobody has to close.
Fairness ==
  \A e \in Ends : /\ WF_vars(Write(e)) /\ WF_vars(Receive(e)) /\ WF_vars(ReadEof(e))
                  /\ WF_vars(Timeout(e)) /\ WF_vars(HandleTerminate(e))

Spec == Init /\ [][Next]_vars /\ Fairness

------------------------------------------------------------------------------
TypeOK ==
  /\ con \in [Ends -> [m_state : {"open", "closing", "closed"}, m_was_clean : BOOLEAN,
                       local : [code : 0 .. 65535, reason : Seq({"a", "m", "lead", "cont"})],
                       remote : [code : 0 .. 65535, reason : Seq({"a", "m", "lead", "cont"})],
                       timer : BOOLEAN,
                       ec : {"none", "eof", "timeout", "transport", "protocol"}]]
  /\ \A e \in Ends \ Foreign : \A i \in DOMAIN sent[e] :
       sent[e][i] = Empty \/ (sent[e][i].code \in 1000 .. 4999 /\ Len(sent[e][i].reason) <= ReasonSize)
  /\ reported \in [Ends -> 0 .. 1] /\ asked \subseteq Ends /\ calls \in 0 .. MaxCalls

Clean(e) == Library(e) /\ con[e].m_was_clean

\* get_remote_close_code() and get_remote_close_reason() of a connection that
\* was closed cleanly are what the other end wrote first.
HeardTruly ==
  \A e \in Ends : Clean(e) /\ Library(Other(e)) =>
    LET p == sent[Other(e)][1] IN con[e].remote = Said(p.code, p.reason)

\* When one application closes and the other end answers, the answer repeats
\* the code and reason of the request, and is "normal" if it had none.
AnswerEchoes ==
  \A e \in Ends : Clean(e) /\ asked = {e} /\ sent[e] # <<>> =>
    con[e].remote = IF sent[e][1] = Empty THEN Said(normal, <<>>)
                    ELSE Said(sent[e][1].code, sent[e][1].reason)

\* An end writes one close frame at most, also when both close at once.
OneCloseFrame == \A e \in Ends : Library(e) => Len(sent[e]) <= 1

\* connection_impl.hpp:2036: "Clients should leave the connection open to give
\* the server an opportunity to initiate the TCP close."  A client ends the
\* connection first only if it failed, or closed for an unrecoverable error.
ServerEndsFirst ==
  Library("client") /\ con["client"].m_state = "closed" /\ con["client"].ec = "none" =>
    \/ con["server"].m_state = "closed"
    \/ sent["client"] # <<>> /\ terminal(sent["client"][1].code)

\* The frames and the ends of a closing handshake come in order.
ClosesInOrder == OneCloseFrame /\ ServerEndsFirst

\* No close() that was accepted makes the other end answer with a protocol
\* error, or drop the connection for one.
CloseUnderstood ==
  \A e \in Ends : /\ con[e].ec # "protocol"
                  /\ \A i \in DOMAIN sent[e] : sent[e][i] # Payload(protocol_error, Message)

\* Whoever closes first, the ends agree on what was said: what one reports is
\* what the other sent, an acknowledgement repeats it, and none is refused.
CodesAgree == HeardTruly /\ AnswerEchoes /\ CloseUnderstood

\* connection.hpp:791: "The handler's on_close callback will be called once the
\* close handshake is complete": whatever the other end does, an end that
\* closes is closed at last and says so.
ClosingIsReported ==
  \A e \in Ends : (Library(e) /\ con[e].m_state = "closing") ~> (reported[e] = 1)

\* The other end learns of it as well.
BothEndsReport ==
  \A e \in Ends : (Library(e) /\ con[e].m_state = "closing")
                    ~> (\A o \in Ends \ Foreign : reported[o] = 1)

\* connection.hpp:1612: the local code is the "close code that was sent on the
\* wire by this endpoint".
LocalCodeSent ==
  \A e \in Ends \ Foreign : con[e].local # Unset =>
    \/ \E i \in DOMAIN sent[e] : con[e].local = Said(sent[e][i].code, sent[e][i].reason)
    \/ queue[e] # <<>>

\* connection_impl.hpp:2047: a close frame after the handshake is "spurious,
\* ignore".
SpuriousIgnored ==
  [][\A e \in Ends : Receive(e) /\ con[e].m_was_clean => con'[e] = con[e]]_vars

\* close.hpp:54: omit_handshake closes "the connection without a WebSocket
\* close handshake", and force_tcp_drop "with a forced TCP drop".
SpecialCodesClose ==
  [][\A e \in Ends, code \in {1, 2} \cap Codes, reason \in Reasons :
       Close(e, code, reason) => con'[e].m_state # "open"]_vars

\* connection.hpp:794: reasons "will be automatically truncated to the maximum
\* length (123 bytes) if necessary"; a reason that is valid is understood.
ReasonUnderstood ==
  (\A r \in Reasons : validate(r)) => CloseUnderstood
=============================================================================
