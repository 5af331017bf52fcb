----------------------------- MODULE FrameStream -----------------------------
(***************************************************************************)
(* What the framing layer promises: frames arrive whole, one after the     *)
(* other; a control frame is a message of its own, data frames make up one *)
(* message from the first to the one with FIN, and a frame that the        *)
(* protocol forbids ends the stream.                                       *)
(***************************************************************************)
EXTENDS Naturals, Sequences

CONSTANTS
  Frames,          \* the frames a peer may send
  IsServer,        \* whether the receiver is a server
  MaxControlSize,  \* largest payload of a control frame
  MaxMessageSize   \* largest payload of a message

VARIABLES
  messages,  \* what was delivered: opcode and payload of each message
  partial,   \* the message whose last frame has not come, or NoMessage
  failed     \* whether a forbidden frame came

NoMessage == [op |-> "none", payload |-> <<>>]
Control == {"close", "ping", "pong"}

\* Well-formed text, in an alphabet of one-byte characters and the two bytes
\* of a longer one: prefixes of it, and whole text.
Utf8Step(s, b) ==
  IF s = "accept" /\ b = "lead" THEN "more"
  ELSE IF (s = "accept" /\ b = "ascii") \/ (s = "more" /\ b = "cont") THEN "accept"
  ELSE "reject"
Utf8From(s, p) ==
  LET f[i \in 0 .. Len(p)] == IF i = 0 THEN s ELSE Utf8Step(f[i - 1], p[i])
  IN  f[Len(p)]

MessageOf(f) ==
  IF f.op = "continuation"
    THEN [op |-> partial.op, payload |-> partial.payload \o f.payload]
    ELSE [op |-> f.op, payload |-> f.payload]

Legal(f) ==
  /\ f.op \in {"continuation", "text", "binary"} \cup Control
  /\ ~f.rsv /\ f.minimal /\ f.masked = IsServer
  /\ f.op \in Control => f.fin /\ Len(f.payload) <= MaxControlSize
  /\ f.op = "continuation" => partial # NoMessage
  /\ f.op \in {"text", "binary"} => partial = NoMessage
  /\ f.op \notin Control => Len(MessageOf(f).payload) <= MaxMessageSize
  /\ MessageOf(f).op = "text" =>
       Utf8From("accept", MessageOf(f).payload) \in
         IF f.fin THEN {"accept"} ELSE {"accept", "more"}

Init == messages = <<>> /\ partial = NoMessage /\ failed = FALSE

Accept(f) ==
  /\ ~failed /\ Legal(f)
  /\ messages' = IF f.fin THEN Append(messages, MessageOf(f)) ELSE messages
  /\ partial' = IF f.op \in Control THEN partial
                ELSE IF f.fin THEN NoMessage ELSE MessageOf(f)
  /\ UNCHANGED failed

Refuse(f) ==
  /\ ~failed /\ ~Legal(f)
  /\ failed' = TRUE
  /\ UNCHANGED <<messages, partial>>

Next == \E f \in Frames : Accept(f) \/ Refuse(f)

Spec == Init /\ [][Next]_<<messages, partial, failed>>
==============================================================================
