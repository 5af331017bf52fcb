-------------------------------- MODULE Hybi00 --------------------------------
(***************************************************************************)
(* The frames of the oldest version of the protocol (processors/hybi00.hpp)*)
(* on their way from a peer to a server of this library: a message is its  *)
(* bytes between a byte 0x00 and a byte 0xff. The bytes come in pieces of  *)
(* any size, which handle_read_frame() gives to consume().                 *)
(***************************************************************************)
EXTENDS Integers, Sequences, SequencesExt

CONSTANTS
  MaxWire,  \* bytes the peer sends in all
  Foreign   \* the peer is not of this library: it sends any bytes

\* What is assumed of the constants.
Hybi00Assumption == MaxWire \in Nat /\ Foreign \in BOOLEAN

msg_hdr == 0
msg_ftr == 255
Letter == 97
Invalid == 128  \* stands for bytes that are not UTF-8; so is 255
Bytes == {msg_hdr, msg_ftr, Letter, Invalid}

VARIABLES
  wire,     \* bytes sent and not yet read
  length,   \* bytes sent in all
  sent,     \* history: the messages that the library's peer sent
  closing,  \* the library's peer has sent its closing frame
  buf,      \* what is left of the piece that is being read
  m_state,  \* "HEADER", "PAYLOAD", "READY", "FATAL_ERROR"
  m_msg,    \* the payload of the present message
  got,      \* history: the messages given to the application
  passed    \* history: all bytes consumed

vars == <<wire, length, sent, closing, buf, m_state, m_msg, got, passed>>

Init ==
  /\ wire = <<>> /\ length = 0 /\ sent = <<>> /\ closing = FALSE /\ buf = <<>>
  /\ m_state = "HEADER" /\ m_msg = <<>> /\ got = <<>> /\ passed = <<>>

------------------------------------------------------------------------------
(* The peer *)

Write(bytes) ==
  /\ length + Len(bytes) <= MaxWire
  /\ wire' = wire \o bytes /\ length' = length + Len(bytes)
  /\ UNCHANGED <<buf, m_state, m_msg, got, passed>>

Sendable(opcode, payload) ==
  opcode = "text" /\ \A i \in DOMAIN payload : payload[i] \notin {Invalid, msg_ftr}

\* send(): prepare_data_frame() of the library refuses what it cannot frame.
prepare_data_frame(opcode, payload) ==
  /\ ~Foreign /\ ~closing /\ Sendable(opcode, payload)
  /\ Write(<<msg_hdr>> \o payload \o <<msg_ftr>>)
  /\ sent' = Append(sent, payload) /\ UNCHANGED closing

prepare_close ==
  /\ ~Foreign /\ ~closing /\ closing' = TRUE
  /\ Write(<<msg_ftr, msg_hdr>>) /\ UNCHANGED sent

ForeignByte(byte) == Foreign /\ Write(<<byte>>) /\ UNCHANGED <<sent, closing>>

------------------------------------------------------------------------------
(* The server *)

\* A piece of n bytes arrives.
Read(n) ==
  /\ buf = <<>> /\ m_state # "FATAL_ERROR"
  /\ buf' = SubSeq(wire, 1, n) /\ wire' = SubSeq(wire, n + 1, Len(wire))
  /\ UNCHANGED <<length, sent, closing, m_state, m_msg, got, passed>>

Consume(n) ==
  /\ passed' = passed \o SubSeq(buf, 1, n) /\ buf' = SubSeq(buf, n + 1, Len(buf))

\* consume() expects the first byte of a message.
Header ==
  /\ buf # <<>> /\ m_state = "HEADER"
  /\ IF Head(buf) = msg_hdr
       THEN m_state' = "PAYLOAD" /\ m_msg' = <<>> /\ Consume(1)
       ELSE m_state' = "FATAL_ERROR" /\ UNCHANGED <<m_msg, buf, passed>>
  /\ UNCHANGED <<wire, length, sent, closing, got>>

\* std::find(): the bytes before the footer, all if it is not there.
PayloadLength ==
  LET at == {i \in 1 .. Len(buf) : buf[i] = msg_ftr} IN
  IF at = {} THEN Len(buf) ELSE (CHOOSE i \in at : \A j \in at : i <= j) - 1

Payload ==
  /\ buf # <<>> /\ m_state = "PAYLOAD"
  /\ m_msg' = m_msg \o SubSeq(buf, 1, PayloadLength)
  /\ IF PayloadLength < Len(buf)
       THEN m_state' = "READY" /\ Consume(PayloadLength + 1)
       ELSE UNCHANGED m_state /\ Consume(PayloadLength)
  /\ UNCHANGED <<wire, length, sent, closing, got>>

\* ready() and get_message().
get_message ==
  /\ m_state = "READY"
  /\ got' = Append(got, m_msg) /\ m_msg' = <<>> /\ m_state' = "HEADER"
  /\ UNCHANGED <<wire, length, sent, closing, buf, passed>>

Next ==
  \/ \E opcode \in {"text", "binary"}, n \in 0 .. MaxWire - 2 :
       \E payload \in [1 .. n -> Bytes] : prepare_data_frame(opcode, payload)
  \/ prepare_close
  \/ \E byte \in Bytes : ForeignByte(byte)
  \/ \E n \in 1 .. Len(wire) : Read(n)
  \/ Header \/ Payload \/ get_message

Spec == Init /\ [][Next]_vars
------------------------------------------------------------------------------
Framed(messages) == FlattenSeq([i \in DOMAIN messages |-> <<msg_hdr>> \o messages[i] \o <<msg_ftr>>])

\* What was consumed is exactly the frames of the messages given out and of the
\* one at hand, however the bytes were cut into pieces; no message contains the
\* byte that ends one.
ConsumedAreFrames ==
  /\ passed = Framed(got) \o (CASE m_state = "PAYLOAD" -> <<msg_hdr>> \o m_msg
                                 [] m_state = "READY" -> <<msg_hdr>> \o m_msg \o <<msg_ftr>>
                                 [] OTHER -> <<>>)
  /\ \A m \in ToSet(Append(got, m_msg)) : msg_ftr \notin ToSet(m)

\* The messages of a peer of this library arrive as they were sent, and only its
\* closing frame, after them all, is taken for an error.
ArrivesAsSent ==
  ~Foreign => /\ IsPrefix(got, sent)
              /\ m_state = "FATAL_ERROR" => closing /\ got = sent

\* hybi00.hpp:300: "we are copying bytes into the output message and validating
\* them for UTF8".
DeliversValid == \A m \in ToSet(got) : Invalid \notin ToSet(m)
==============================================================================
