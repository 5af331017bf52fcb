------------------------------- MODULE Hybi13 -------------------------------
(***************************************************************************)
(* The framing of a WebSocket session (processors/hybi13.hpp, frame.hpp):  *)
(* prepare_data_frame(), prepare_control() and prepare_close() of the      *)
(* sender, and consume(), the state machine of the receiver, which gets    *)
(* the bytes of the stream in whatever pieces the network reads them.      *)
(* An action is one round of the loop of consume().                        *)
(*                                                                         *)
(* Bytes are symbolic: a payload byte is a character, with the position of *)
(* the key byte it is masked with.  The sizes that take one, three and     *)
(* nine bytes are told apart by the constants; sizes are below 2^63.       *)
(***************************************************************************)
EXTENDS Integers, Sequences

CONSTANTS
  Frames,          \* frames on the wire
  IsServer,        \* base::m_server of the receiver
  BasicSize,       \* limits::payload_size_basic
  ExtendedSize,    \* limits::payload_size_extended
  MaxMessageSize,  \* m_max_message_size
  MaxFrames,       \* bound: frames sent
  MaxRead          \* bound: bytes of one read

\* What is assumed of the constants.
FramingAssumption ==
  /\ IsServer \in BOOLEAN /\ MaxFrames \in Nat /\ MaxRead \in Nat \ {0}
  /\ BasicSize \in Nat /\ ExtendedSize \in Nat /\ MaxMessageSize \in Nat
  /\ BasicSize < ExtendedSize

VARIABLES
  sent,       \* frames sent so far
  wire,       \* bytes on the way
  buf,        \* bytes read and not yet consumed
  m_state,    \* HEADER_BASIC, HEADER_EXTENDED, APPLICATION, READY
  m_bytes_needed,
  m_cursor,
  b0, b1,     \* m_basic_header
  ext,        \* m_extended_header: what is in each of its bytes
  m_data_msg, m_control_msg,
  current,    \* m_current_msg: which of the two
  got,        \* messages handed to the connection
  ec          \* error that ended consume(), or "none"

header == <<b0, b1, ext, m_cursor>>
vars == <<sent, wire, buf, m_state, m_bytes_needed, header, m_data_msg,
          m_control_msg, current, got, ec>>

Control == {"close", "ping", "pong"}
Reserved == {"rsv3", "control_rsvb"}
is_control(op) == op \in Control \cup {"control_rsvb"}

------------------------------------------------------------------------------
(* The sender *)

\* The size code of a basic_header, and how many bytes of an extended_header
\* each takes: get_masking_key_offset(), get_header_len().
SizeCode(n) == IF n <= BasicSize THEN "basic" ELSE IF n <= ExtendedSize THEN "16bit" ELSE "64bit"
KeyOffset(code) == CASE code = "basic" -> 0 [] code = "16bit" -> 2 [] code = "64bit" -> 8
HeaderLen(h) == KeyOffset(h.code) + (IF h.masked THEN 4 ELSE 0)

Frame(op, fin, masked, payload) ==
  [op |-> op, fin |-> fin, rsv |-> FALSE, masked |-> masked,
   code |-> SizeCode(Len(payload)), payload |-> payload]

Utf8Step(s, b) ==
  IF s = "accept" /\ b = "lead" THEN "more"
  ELSE IF (s = "accept" /\ b = "ascii") \/ (s = "more" /\ b = "cont") THEN "accept"
  ELSE "reject"
Decode(s, p) ==
  LET f[i \in 0 .. Len(p)] == IF i = 0 THEN s ELSE Utf8Step(f[i - 1], p[i])
  IN  f[Len(p)]

\* prepare_data_frame(): the frames it makes of messages, those it refuses left
\* out.  The sender is the receiver's peer.
PrepareDataFrame(messages) ==
  {Frame(m.op, m.fin, IsServer, m.payload) :
     m \in {n \in messages : /\ ~is_control(n.op)
                             /\ n.op = "text" => Decode("accept", n.payload) = "accept"}}

\* prepare_ping(), prepare_pong(), prepare_close() by way of prepare_control().
PrepareControl(op, payloads) ==
  {Frame(op, TRUE, IsServer, p) : p \in {q \in payloads : Len(q) <= BasicSize}}

\* prepare_close(): a code of two bytes and a reason, or nothing.
PrepareClose(reasons) ==
  {Frame("close", TRUE, IsServer, p) :
     p \in {<<>>} \cup {<<"code", "code">> \o r : r \in {q \in reasons : Len(q) + 2 <= BasicSize}}}

\* What of a frame goes over the wire: prepare_header(), then the payload,
\* masked byte by byte with a key that is repeated.
Bytes(f) ==
  <<[kind |-> "b0", op |-> f.op, fin |-> f.fin, rsv |-> f.rsv],
    [kind |-> "b1", masked |-> f.masked, code |-> f.code, size |-> Len(f.payload)]>>
  \o [i \in 1 .. KeyOffset(f.code) |-> [kind |-> "size", at |-> i, size |-> Len(f.payload)]]
  \o [i \in 1 .. (IF f.masked THEN 4 ELSE 0) |-> [kind |-> "key", at |-> i]]
  \o [i \in 1 .. Len(f.payload) |->
        [kind |-> "payload", char |-> f.payload[i],
         mask |-> IF f.masked THEN (i - 1) % 4 ELSE -1]]

------------------------------------------------------------------------------
(* The receiver *)

NoByte == [kind |-> "none"]
NoMsg == [op |-> "none", payload |-> <<>>, key |-> 0, utf8 |-> "accept"]

\* What reset_headers() resets: m_cursor is reset with the basic header.
HeadersReset ==
  /\ m_state' = "HEADER_BASIC" /\ m_bytes_needed' = 2
  /\ b0' = NoByte /\ b1' = NoByte
  /\ ext' = [i \in 1 .. 12 |-> NoByte]

Init ==
  /\ sent = <<>> /\ wire = <<>> /\ buf = <<>>
  /\ m_state = "HEADER_BASIC" /\ m_bytes_needed = 2 /\ m_cursor = 0
  /\ b0 = NoByte /\ b1 = NoByte /\ ext = [i \in 1 .. 12 |-> NoByte]
  /\ m_data_msg = NoMsg /\ m_control_msg = NoMsg /\ current = "data"
  /\ got = <<>> /\ ec = "none"

\* The peer sends a frame.
Send(f) ==
  /\ Len(sent) < MaxFrames /\ Len(wire) < MaxRead
  /\ sent' = Append(sent, f) /\ wire' = wire \o Bytes(f)
  /\ UNCHANGED <<buf, m_state, m_bytes_needed, header, m_data_msg, m_control_msg,
                 current, got, ec>>

\* handle_read_frame(): a read brings any number of bytes.
Read ==
  /\ buf = <<>> /\ ec = "none" /\ m_state # "READY" /\ m_bytes_needed > 0
  /\ \E n \in 1 .. MaxRead :
       /\ n <= Len(wire)
       /\ buf' = SubSeq(wire, 1, n) /\ wire' = SubSeq(wire, n + 1, Len(wire))
  /\ UNCHANGED <<sent, m_state, m_bytes_needed, header, m_data_msg, m_control_msg,
                 current, got, ec>>

\* validate_incoming_basic_header().
BasicError(h0, h1, newMsg) ==
  IF is_control(h0.op) /\ h1.code # "basic" THEN "control_too_big"
  ELSE IF h0.rsv THEN "invalid_rsv_bit"
  ELSE IF h0.op \in Reserved THEN "invalid_opcode"
  ELSE IF is_control(h0.op) /\ ~h0.fin THEN "fragmented_control"
  ELSE IF newMsg /\ h0.op = "continuation" THEN "invalid_continuation"
  ELSE IF ~newMsg /\ ~is_control(h0.op) /\ h0.op # "continuation" THEN "invalid_continuation"
  ELSE IF IsServer /\ ~h1.masked THEN "masking_required"
  ELSE IF ~IsServer /\ h1.masked THEN "masking_forbidden"
  ELSE "none"

\* The basic header is complete: get_header_len() says how much follows.
ExpectExtended(h1) ==
  /\ m_state' = "HEADER_EXTENDED" /\ m_cursor' = 0
  /\ m_bytes_needed' = HeaderLen(h1)

\* HEADER_BASIC: copy_basic_header_bytes(), and validation of the two bytes.
HeaderBasic ==
  /\ m_state = "HEADER_BASIC" /\ buf # <<>> /\ ec = "none"
  /\ LET n == IF Len(buf) > 1 /\ m_bytes_needed = 2 THEN 2 ELSE 1
         h0 == IF m_bytes_needed = 2 THEN buf[1] ELSE b0
         h1 == IF n = 2 THEN buf[2] ELSE buf[1]
     IN  /\ buf' = SubSeq(buf, n + 1, Len(buf))
         /\ b0' = h0
         /\ IF m_bytes_needed - n > 0
              THEN m_bytes_needed' = m_bytes_needed - n /\ UNCHANGED <<b1, m_state, m_cursor, ec>>
              ELSE /\ b1' = h1
                   /\ ec' = BasicError(h0, h1, m_data_msg = NoMsg)
                   /\ IF ec' # "none" THEN m_bytes_needed' = 0 /\ UNCHANGED <<m_state, m_cursor>>
                      ELSE ExpectExtended(h1)
  /\ UNCHANGED <<sent, wire, ext, m_data_msg, m_control_msg, current, got>>

\* HEADER_EXTENDED while bytes of it are missing: copy_extended_header_bytes().
HeaderExtended ==
  /\ m_state = "HEADER_EXTENDED" /\ m_bytes_needed > 0 /\ buf # <<>> /\ ec = "none"
  /\ LET n == IF m_bytes_needed < Len(buf) THEN m_bytes_needed ELSE Len(buf)
     IN  /\ ext' = [i \in 1 .. 12 |->
                      IF i \in m_cursor + 1 .. m_cursor + n THEN buf[i - m_cursor] ELSE ext[i]]
         /\ m_cursor' = m_cursor + n
         /\ m_bytes_needed' = m_bytes_needed - n
         /\ buf' = SubSeq(buf, n + 1, Len(buf))
  /\ UNCHANGED <<sent, wire, m_state, b0, b1, m_data_msg, m_control_msg, current, got, ec>>

\* get_payload_size() and get_masking_key(): what the bytes of the header say,
\* if they are where they belong.
PayloadSize ==
  IF b1.code = "basic" THEN b1.size
  ELSE IF \A i \in 1 .. KeyOffset(b1.code) : ext[i].kind = "size" /\ ext[i].at = i
    THEN ext[1].size ELSE 0
KeyRead ==
  b1.masked => \A i \in 1 .. 4 :
    LET b == ext[KeyOffset(b1.code) + i] IN b.kind = "key" /\ b.at = i

\* validate_incoming_extended_header().
ExtendedError ==
  IF b1.code = "16bit" /\ PayloadSize <= BasicSize THEN "non_minimal_encoding"
  ELSE IF b1.code = "64bit" /\ PayloadSize <= ExtendedSize THEN "non_minimal_encoding"
  ELSE "none"

\* A data message is begun, or continued with the key of this frame.
DataMessage(key) ==
  IF m_data_msg = NoMsg THEN [NoMsg EXCEPT !.op = b0.op, !.key = key]
                        ELSE [m_data_msg EXCEPT !.key = key]

\* HEADER_EXTENDED when it is complete: a control message is set up, or a data
\* message begun or continued with the key of this frame.
SetUpMessage ==
  /\ m_state = "HEADER_EXTENDED" /\ m_bytes_needed = 0 /\ ec = "none"
  /\ LET n == PayloadSize
         key == IF KeyRead THEN 0 ELSE 2  \* another key garbles
         tooBig == Len(m_data_msg.payload) + n > MaxMessageSize
     IN  IF ExtendedError # "none"
           THEN ec' = ExtendedError /\ UNCHANGED <<m_state, m_bytes_needed, m_data_msg, m_control_msg, current>>
         ELSE /\ m_state' = "APPLICATION" /\ m_bytes_needed' = n
              /\ IF is_control(b0.op)
                   THEN /\ m_control_msg' = [NoMsg EXCEPT !.op = b0.op, !.key = key]
                        /\ current' = "control" /\ UNCHANGED <<m_data_msg, ec>>
                 ELSE IF tooBig
                   THEN ec' = "message_too_big" /\ UNCHANGED <<m_data_msg, m_control_msg, current>>
                   ELSE /\ m_data_msg' = DataMessage(key)
                        /\ current' = "data" /\ UNCHANGED <<m_control_msg, ec>>
  /\ UNCHANGED <<sent, wire, buf, header, got>>

\* byte_mask_circ(): bytes are unmasked with a key that is rotated by as many
\* places as bytes were done before; a wrong rotation garbles them.
Unmasked(bytes, key) ==
  [i \in 1 .. Len(bytes) |->
     IF bytes[i].kind = "payload" /\ (b1.masked => bytes[i].mask = (key + i - 1) % 4)
       THEN bytes[i].char ELSE "garbled"]
Current == IF current = "data" THEN m_data_msg ELSE m_control_msg

\* The key for the bytes after the next n: circshift_prepared_key().
NextKey(n) == IF b1.masked THEN (Current.key + n) % 4 ELSE Current.key

\* APPLICATION: process_payload_bytes().
PayloadBytes ==
  /\ m_state = "APPLICATION" /\ m_bytes_needed > 0 /\ buf # <<>> /\ ec = "none"
  /\ LET n == IF m_bytes_needed < Len(buf) THEN m_bytes_needed ELSE Len(buf)
         chars == Unmasked(SubSeq(buf, 1, n), Current.key)
         utf8 == IF Current.op = "text" THEN Decode(Current.utf8, chars) ELSE "accept"
         msg == [Current EXCEPT !.payload = @ \o chars, !.utf8 = utf8, !.key = NextKey(n)]
     IN  /\ IF current = "data" THEN m_data_msg' = msg /\ UNCHANGED m_control_msg
                                ELSE m_control_msg' = msg /\ UNCHANGED m_data_msg
         /\ IF utf8 = "reject" THEN ec' = "invalid_utf8" /\ UNCHANGED <<buf, m_bytes_needed>>
            ELSE /\ buf' = SubSeq(buf, n + 1, Len(buf))
                 /\ m_bytes_needed' = m_bytes_needed - n /\ UNCHANGED ec
  /\ UNCHANGED <<sent, wire, m_state, header, current, got>>

\* Faulty variant: a text is not checked for a character cut off at its end.
TextCutOffNever == FALSE

\* finalize_message() tests that a text is complete where the opcode of its
\* last frame says text.
TextCutOff == b0.op = "text" /\ Current.utf8 # "accept"

\* APPLICATION when the frame is complete.
FinishFrame ==
  /\ m_state = "APPLICATION" /\ m_bytes_needed = 0 /\ ec = "none"
  /\ IF ~b0.fin THEN HeadersReset /\ UNCHANGED ec
     ELSE IF TextCutOff
       THEN ec' = "invalid_utf8" /\ UNCHANGED <<m_state, b0, b1, ext, m_bytes_needed>>
       ELSE m_state' = "READY" /\ UNCHANGED <<b0, b1, ext, m_bytes_needed, ec>>
  /\ UNCHANGED <<sent, wire, buf, m_cursor, m_data_msg, m_control_msg, current, got>>

\* get_message(), which the connection calls when ready().
GetMessage ==
  /\ m_state = "READY"
  /\ got' = Append(got, [op |-> Current.op, payload |-> Current.payload])
  /\ IF current = "control" THEN m_control_msg' = NoMsg /\ UNCHANGED m_data_msg
                            ELSE m_data_msg' = NoMsg /\ UNCHANGED m_control_msg
  /\ HeadersReset
  /\ UNCHANGED <<sent, wire, buf, m_cursor, current, ec>>

Consume ==
  \/ HeaderBasic \/ HeaderExtended \/ SetUpMessage \/ PayloadBytes \/ FinishFrame
Next == (\E f \in Frames : Send(f)) \/ Read \/ Consume \/ GetMessage

\* The bytes that were sent are read and consumed.
Fairness == WF_vars(Read) /\ WF_vars(Consume) /\ WF_vars(GetMessage)

Spec == Init /\ [][Next]_vars /\ Fairness

------------------------------------------------------------------------------
(* Properties *)

TypeOK ==
  /\ Len(sent) <= MaxFrames /\ Len(buf) <= MaxRead
  /\ m_state \in {"HEADER_BASIC", "HEADER_EXTENDED", "APPLICATION", "READY"}
  /\ m_bytes_needed \in Nat /\ m_cursor \in 0 .. 12
  /\ DOMAIN ext = 1 .. 12
  /\ \A m \in {m_data_msg, m_control_msg} : m.key \in 0 .. 3 /\ m.utf8 \in {"accept", "more", "reject"}
  /\ current \in {"data", "control"}

\* The header of a frame is understood however reads cut it: the key and the
\* size are found where the peer put them.
HeaderUnderstood ==
  m_state = "APPLICATION" /\ ec = "none" => KeyRead /\ b1.kind = "b1" /\ PayloadSize = b1.size

\* What is received is what the peer sent: frames made by prepare_data_frame()
\* and prepare_control() are never an error.
SentIsAccepted == ec = "none"

\* hybi13.hpp:545: a text message handed over ends on a whole character.
TextIsComplete ==
  \A i \in 1 .. Len(got) :
    got[i].op = "text" => Decode("accept", got[i].payload) = "accept"

\* No frame is left waiting for bytes of the next one: all that was sent is in
\* the end consumed and handed over, or an error has ended the stream.
AllConsumed ==
  <>[](\/ ec # "none"
       \/ wire = <<>> /\ buf = <<>> /\ m_state = "HEADER_BASIC" /\ m_bytes_needed = 2)

\* Whatever pieces the stream is read in, the receiver does what FrameStream
\* says of whole frames.
Before ==  \* payload of m_data_msg from the frames before this one
  LET failing == IF ec = "invalid_utf8" /\ m_bytes_needed > 0
                   THEN IF m_bytes_needed < Len(buf) THEN m_bytes_needed ELSE Len(buf)
                   ELSE 0
      ofThis == IF m_state = "APPLICATION" /\ current = "data"
                  THEN PayloadSize - m_bytes_needed + failing ELSE 0
  IN  SubSeq(m_data_msg.payload, 1, Len(m_data_msg.payload) - ofThis)
NoFrameYet ==
  \/ m_data_msg = NoMsg
  \/ current = "data" /\ m_state = "READY"
  \/ current = "data" /\ m_state = "APPLICATION" /\ b0.op # "continuation"
Stream == INSTANCE FrameStream WITH
  Frames <- {[op |-> f.op, fin |-> f.fin, rsv |-> f.rsv, masked |-> f.masked,
              minimal |-> f.code = SizeCode(Len(f.payload)), payload |-> f.payload] : f \in Frames},
  MaxControlSize <- BasicSize,
  messages <- IF m_state = "READY"
                THEN Append(got, [op |-> Current.op, payload |-> Current.payload]) ELSE got,
  partial <- IF NoFrameYet THEN [op |-> "none", payload |-> <<>>]
                           ELSE [op |-> m_data_msg.op, payload |-> Before],
  failed <- ec # "none"
StreamPromise == Stream!Spec
==============================================================================
