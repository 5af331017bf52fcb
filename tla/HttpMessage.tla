---------------------------- MODULE HttpMessage ----------------------------
(***************************************************************************)
(* http::parser::request and http::parser::response as the connection uses *)
(* them: consume() is handed one piece of the bytes received after the     *)
(* other, until the message is ready; what it did not process of the last  *)
(* piece are the first bytes of the WebSocket frames.                      *)
(*                                                                         *)
(* A byte is a symbol: the line delimiter is the two bytes CR LF, a line   *)
(* between delimiters is one byte that stands for what the line says, so   *)
(* that a piece may end in a line, in a delimiter, and in the body.        *)
(***************************************************************************)
EXTENDS Integers, Sequences, SequencesExt, FiniteSets

CONSTANTS
  Kind,             \* "request" or "response"
  Texts,            \* the byte sequences that may arrive
  max_header_size, m_body_bytes_max

\* What is assumed of the constants.
KindAssumption == Kind \in {"request", "response"}

CR == "CR"
LF == "LF"
FirstLines == {"first", "badfirst"}
Lengths == [length0 |-> 0, length1 |-> 1, length2 |-> 2, length9 |-> 9, lengthx |-> 0]
HeaderLines == DOMAIN Lengths \cup {"host", "other", "badheader"}

VARIABLES
  text,          \* the bytes that arrive
  at,            \* how many of them were handed to consume()
  len,           \* length of the piece that consume() works on; 0 between calls
  m_buf, begin,  \* bytes not yet processed, and where the current line begins
  state,         \* "line", "headers", "body", "done", or "threw"
  headers,       \* header lines in order
  m_header_bytes,
  needed,        \* m_body_bytes_needed, m_read of a response
  m_body,
  processed,     \* sum of what consume() returned
  what           \* why it threw

vars == <<text, at, len, m_buf, begin, state, headers, m_header_bytes, needed, m_body,
          processed, what>>

Init ==
  /\ text \in Texts /\ at = 0 /\ len = 0 /\ m_buf = <<>> /\ begin = 1
  /\ state = "line" /\ headers = <<>> /\ m_header_bytes = 0
  /\ needed = 0 /\ m_body = <<>> /\ processed = 0 /\ what = ""

Throw(reason) ==
  /\ state' = "threw" /\ what' = reason
  /\ UNCHANGED <<text, at, len, m_buf, begin, headers, m_header_bytes, needed,
                 m_body, processed>>

------------------------------------------------------------------------------
(* consume() while the headers are read *)

\* A piece is appended to what was left of the previous ones.
Consume ==
  /\ state \in {"line", "headers"} /\ len = 0
  /\ \E n \in 1 .. Len(text) - at :
       /\ len' = n /\ at' = at + n
       /\ m_buf' = m_buf \o SubSeq(text, at + 1, at + n)
  /\ begin' = 1
  /\ UNCHANGED <<text, state, headers, m_header_bytes, needed, m_body, processed, what>>

Delimiters ==
  {i \in begin .. Len(m_buf) - 1 : m_buf[i] = CR /\ m_buf[i + 1] = LF}

\* std::search: the first delimiter, or the end.
End ==
  IF Delimiters = {} THEN Len(m_buf) + 1
  ELSE CHOOSE i \in Delimiters : \A j \in Delimiters : i <= j

\* sizeof(header_delimiter) counts the terminating zero too.
HeaderBytes == m_header_bytes + (End - begin) + 3

Scanning == state \in {"line", "headers"} /\ len > 0

TooLarge ==
  /\ Scanning /\ HeaderBytes > max_header_size
  /\ Throw("Maximum header size exceeded.")

\* Out of bytes: keep the part of a line, and ask for more.
OutOfBytes ==
  /\ Scanning /\ HeaderBytes <= max_header_size /\ Delimiters = {}
  /\ m_buf' = SubSeq(m_buf, begin, Len(m_buf))
  /\ m_header_bytes' = HeaderBytes - Len(m_buf')
  /\ processed' = processed + len /\ len' = 0
  /\ UNCHANGED <<text, at, begin, state, headers, needed, m_body, what>>

Line == SubSeq(m_buf, begin, End - 1)
AtLine == Scanning /\ HeaderBytes <= max_header_size /\ Delimiters # {}

\* process(): the request line or the response line.
process ==
  /\ AtLine /\ Line # <<>> /\ state = "line"
  /\ IF Line = <<"first">>
       THEN /\ state' = "headers" /\ m_header_bytes' = HeaderBytes /\ begin' = End + 2
            /\ UNCHANGED <<text, at, len, m_buf, headers, needed, m_body, processed, what>>
       ELSE Throw("Invalid line")

\* process_header() and append_header().
process_header ==
  /\ AtLine /\ Line # <<>> /\ state = "headers"
  /\ IF Len(Line) = 1 /\ Line[1] \in HeaderLines \ {"badheader"}
       THEN /\ headers' = Append(headers, Line[1])
            /\ m_header_bytes' = HeaderBytes /\ begin' = End + 2
            /\ UNCHANGED <<text, at, len, m_buf, state, needed, m_body, processed, what>>
       ELSE Throw("Invalid header line")

------------------------------------------------------------------------------
(* The blank line, and the body *)

Has(h) == h \in Range(headers)
LengthHeaders == {h \in DOMAIN Lengths : Has(h)}
Length == Lengths[CHOOSE h \in LengthHeaders : TRUE]

\* How much of this piece belongs to the headers.
HeaderShare == len - (Len(m_buf) - (End - 1)) + 2
Rest(from) == SubSeq(text, at - len + from + 1, at)

\* process_body(): as much of the body as there is.
TakeBody(from, need, done) ==
  LET left == Len(Rest(from))
      take == IF left < need THEN left ELSE need IN
  /\ m_body' = m_body \o SubSeq(Rest(from), 1, take)
  /\ needed' = need - take
  /\ processed' = processed + from + take
  /\ state' = IF done /\ needed' = 0 THEN "done" ELSE "body"

AfterBlank ==
  /\ m_buf' = <<>> /\ m_header_bytes' = HeaderBytes /\ len' = 0
  /\ UNCHANGED <<text, at, begin, headers, what>>

AtBlank == AtLine /\ Line = <<>>

\* request: prepare_body() tests the size of the body, and the request is ready
\* once no byte of it is needed. strtoul() of no number is 0.
BlankRequest ==
  /\ Kind = "request" /\ AtBlank
  /\ IF state = "line" \/ ~Has("host") THEN Throw("Incomplete Request")
     ELSE IF LengthHeaders # {} /\ Length > m_body_bytes_max
       THEN Throw("HTTP message body too large")
     ELSE /\ TakeBody(HeaderShare, IF LengthHeaders = {} THEN 0 ELSE Length, TRUE)
          /\ AfterBlank

\* response: without a length m_read is 0, and bytes that follow end it.
BlankResponse ==
  /\ Kind = "response" /\ AtBlank
  /\ IF state = "line" THEN Throw("Incomplete Request")
     ELSE IF Has("lengthx") THEN Throw("Unable to parse Content-Length header")
     ELSE /\ TakeBody(HeaderShare, IF LengthHeaders = {} THEN 0 ELSE Length,
                      HeaderShare < len)
          /\ AfterBlank

\* consume() once the headers are known.
ConsumeBody ==
  /\ state = "body"
  /\ \E n \in 1 .. Len(text) - at :
       LET take == IF n < needed THEN n ELSE needed IN
       /\ at' = at + n
       /\ m_body' = m_body \o SubSeq(text, at + 1, at + take)
       /\ needed' = needed - take /\ processed' = processed + take
       /\ state' = IF needed' = 0 THEN "done" ELSE "body"
  /\ UNCHANGED <<text, len, m_buf, begin, headers, m_header_bytes, what>>

Next ==
  \/ Consume \/ TooLarge \/ OutOfBytes \/ process \/ process_header
  \/ BlankRequest \/ BlankResponse \/ ConsumeBody

Spec == Init /\ [][Next]_vars
------------------------------------------------------------------------------
(* The message that the bytes hold, read at once *)

Blanks ==
  {i \in 3 .. Len(text) - 1 : SubSeq(text, i - 2, i + 1) = <<CR, LF, CR, LF>>}
HeaderEnd == CHOOSE i \in Blanks : \A j \in Blanks : i <= j
AllHeaders == SelectSeq(SubSeq(text, 2, HeaderEnd), LAMBDA s : s \in HeaderLines)
BodyLength ==
  LET ls == {h \in DOMAIN Lengths : h \in Range(AllHeaders)} IN
  IF ls = {} THEN 0 ELSE Lengths[CHOOSE h \in ls : TRUE]
Valid ==
  /\ text[1] = "first" /\ "badheader" \notin Range(AllHeaders)
  /\ Kind = "request" => "host" \in Range(AllHeaders) /\ BodyLength <= m_body_bytes_max
  /\ Kind = "response" => "lengthx" \notin Range(AllHeaders)

TypeOK ==
  /\ state \in {"line", "headers", "body", "done", "threw"}
  /\ at \in 0 .. Len(text) /\ processed \in 0 .. at /\ len \in 0 .. at

\* In whatever pieces the bytes arrive, a message that is ready has taken its
\* headers and its body and not one byte more: the first frame, which may be in
\* the same piece, is left whole.
RestIsFrames ==
  state = "done" =>
    /\ Blanks # {} /\ headers = AllHeaders
    /\ processed = HeaderEnd + 1 + BodyLength
    /\ m_body = SubSeq(text, HeaderEnd + 2, HeaderEnd + 1 + BodyLength)

\* The verdict does not depend on the pieces either: but for its size, a message
\* is refused only if it is not valid, and a valid one is never waited for when
\* all of its bytes are there.
VerdictOfText ==
  /\ state = "threw" /\ what # "Maximum header size exceeded." => Blanks = {} \/ ~Valid
  /\ state = "done" => Valid
  /\ Blanks # {} /\ at >= HeaderEnd + 1 + BodyLength /\ len = 0 /\ Valid =>
       \/ state \in {"done", "threw"}
       \/ Kind = "response" /\ BodyLength = 0 /\ state = "body"

\* request.hpp:69 "If the end of the request was reached during this call to
\* consume the ready flag will be set", as response.hpp says of a response.
ReadyAtTheEnd ==
  (Blanks # {} /\ at >= HeaderEnd + 1 + BodyLength /\ len = 0
   /\ Valid /\ \E h \in DOMAIN Lengths : Has(h)) => state \in {"done", "threw"}

\* constants.hpp:64 "Maximum size in bytes before rejecting an HTTP header as too
\* big": a header of that size is not rejected.
RejectsOnlyTooBig ==
  (state = "threw" /\ what = "Maximum header size exceeded." /\ Blanks # {}) =>
    HeaderEnd + 1 > max_header_size

\* response.hpp:52 "If no Content-Length is present ready() will never return
\* true."
NoLengthNeverReady ==
  Kind = "response" /\ state = "done" => \E h \in DOMAIN Lengths : Has(h)
==============================================================================
