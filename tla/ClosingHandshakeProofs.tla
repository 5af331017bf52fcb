------------------------ MODULE ClosingHandshakeProofs ------------------------
(***************************************************************************)
(* Two ends of the library write one close frame each at most, and a       *)
(* client ends the connection before the server only after an error: for   *)
(* every set of codes, reasons that are valid when cut, and bounds. And    *)
(* the pings of a connection: a pong timeout is reported only of a ping    *)
(* whose pong did not come in time.                                        *)
(***************************************************************************)
EXTENDS ClosingHandshake, PingKeepalive, TLAPS

Bytes == {"a", "m", "lead", "cont"}
Errors == {"none", "eof", "timeout", "transport", "protocol"}

\* Both ends run the library, close frames are not silent, and the reasons of
\* the applications are still valid when they are cut.
Pair ==
  /\ Foreign = {} /\ SilentClose = FALSE
  /\ \A r \in Reasons : Truncated(r) \in Seq(Bytes) /\ validate(Truncated(r))

States == {"open", "closing", "closed"}
Infos == [code : Nat, reason : Seq(Bytes)]
Connections ==
  [m_state : States, m_was_clean : BOOLEAN, local : Infos, remote : Infos,
   timer : BOOLEAN, ec : Errors]
Payloads == [kind : {"empty", "short", "code"}, code : Nat, reason : Seq(Bytes)]

Messages == [payload : Payloads, terminal : BOOLEAN]

\* A payload the receiver finds no fault with.
Fits(p) == CodeFits(p) /\ ReasonFits(p)

Types ==
  /\ con \in [Ends -> Connections]
  /\ queue \in [Ends -> Seq(Messages)]
  /\ wire \in [Ends -> Seq(Payloads)]
  /\ sent \in [Ends -> Seq(Payloads)]

\* What one end has written, or will write: nothing while it is open, and one
\* close frame the other end understands after that.
OneFrame(e) ==
  /\ Len(sent[e]) + Len(queue[e]) <= 1
  /\ con[e].m_state = "open" => sent[e] = <<>> /\ queue[e] = <<>>
  /\ \A i \in 1 .. Len(queue[e]) : Fits(queue[e][i].payload)
  /\ \A i \in 1 .. Len(wire[e]) : Fits(wire[e][i])

\* A client marks a close frame terminal only for its code.
TerminalByCode ==
  \A i \in 1 .. Len(queue["client"]) :
    queue["client"][i].terminal => terminal(queue["client"][i].payload.code)

PairInv == Types /\ (\A e \in Ends : OneFrame(e)) /\ TerminalByCode /\ ServerEndsFirst

------------------------------------------------------------------------------
LEMMA EndsAre == Ends = {"server", "client"} /\ Other("server") = "client" /\ Other("client") = "server"
  BY DEF Ends, Other

LEMMA EmptySeq ==
  ASSUME NEW S
  PROVE  <<>> \in Seq(S) /\ Len(<<>>) = 0
OBVIOUS

LEMMA SingleSeq ==
  ASSUME NEW S, NEW x \in S
  PROVE  /\ Append(<<>>, x) = <<x>> /\ <<x>> \in Seq(S) /\ Len(<<x>>) = 1
         /\ <<x>> # <<>> /\ <<x>>[1] = x
         /\ \A i \in 1 .. Len(<<x>>) : <<x>>[i] = x
OBVIOUS

LEMMA CodesAreNumbers == ASSUME NEW code \in Codes PROVE code \in Nat
BY ClosingAssumption

LEMMA SmallSum ==
  ASSUME NEW a \in Nat, NEW b \in Nat, a + b <= 1
  PROVE  a <= 1 /\ (b # 0 => b = 1 /\ a = 0) /\ (a # 0 => a = 1)
OBVIOUS

LEMMA NoneLeft == ASSUME NEW S, NEW q \in Seq(S), Len(q) = 0 PROVE q = <<>>
OBVIOUS

LEMMA OneLeft ==
  ASSUME NEW S, NEW q \in Seq(S), NEW T, NEW s \in Seq(T), q # <<>>, Len(s) + Len(q) <= 1
  PROVE  /\ Len(q) = 1 /\ s = <<>>
         /\ q[1] \in S /\ Head(q) = q[1] /\ 1 \in 1 .. Len(q) /\ Tail(q) = <<>>
<1>1. Len(q) \in Nat
  OBVIOUS
<1>2. Len(s) \in Nat
  OBVIOUS
<1>3. Len(q) # 0
  OBVIOUS
<1>4. Len(q) = 1 /\ Len(s) = 0
  BY <1>1, <1>2, <1>3, SmallSum
<1>5. s = <<>>
  BY <1>4, NoneLeft
<1>6. /\ q[1] \in S /\ Head(q) = q[1] /\ 1 \in 1 .. Len(q)
      /\ Tail(q) \in Seq(S) /\ Len(Tail(q)) = 0
  BY <1>4
<1>7. Tail(q) = <<>>
  BY <1>6, NoneLeft
<1> QED BY <1>4, <1>5, <1>6, <1>7

LEMMA Longer ==
  ASSUME NEW S, NEW w \in Seq(S), NEW x \in S
  PROVE  /\ Append(w, x) \in Seq(S)
         /\ \A i \in 1 .. Len(Append(w, x)) :
              (i \in 1 .. Len(w) /\ Append(w, x)[i] = w[i]) \/ Append(w, x)[i] = x
OBVIOUS

\* A payload that prepare_close() makes of a valid reason is one that
\* extract_code() and extract_reason() accept.
LEMMA PreparedFits ==
  ASSUME NEW l \in Infos, ~Refused(l), validate(l.reason)
  PROVE  prepare_close(l) \in Payloads /\ Fits(prepare_close(l))
         /\ (l.code # no_status => prepare_close(l).code = l.code)
<1>1. CASE l.code = no_status
  <2>1. prepare_close(l) = Empty
    BY <1>1 DEF prepare_close
  <2>2. Empty \in Payloads /\ Empty.kind = "empty" /\ Empty.reason = <<>>
    <3>1. <<>> \in Seq(Bytes)
      OBVIOUS
    <3> QED BY <3>1 DEF Empty, Payloads, no_status
  <2>3. validate(<<>>)
    BY DEF validate
  <2> QED BY <1>1, <2>1, <2>2, <2>3 DEF Fits, CodeFits, ReasonFits
<1>2. CASE l.code # no_status
  <2>1. prepare_close(l) = Payload(l.code, l.reason)
    BY <1>2 DEF prepare_close
  <2>2. /\ Payload(l.code, l.reason) \in Payloads
        /\ Payload(l.code, l.reason).kind = "code"
        /\ Payload(l.code, l.reason).code = l.code
        /\ Payload(l.code, l.reason).reason = l.reason
    BY DEF Payload, Payloads, Infos
  <2>3. ~reserved(l.code) /\ ~invalid(l.code)
    BY <1>2 DEF Refused
  <2> QED BY <2>1, <2>2, <2>3 DEF Fits, CodeFits, ReasonFits
<1> QED BY <1>1, <1>2

\* No code a close frame is terminal for is the one that stands for no status.
LEMMA TerminalCodes == \A code : terminal(code) => code # no_status /\ code # blank
  BY DEF terminal, no_status, blank, protocol_error

\* A step of an end that is not closed keeps the invariant when what the end
\* has written or will write, and the state it goes to, are as follows.
LEMMA EndKeeps ==
  ASSUME PairInv, NEW e \in Ends, con[e].m_state # "closed",
         NEW d \in Connections, con' = [con EXCEPT ![e] = d],
         NEW q \in Seq(Messages), queue' = [queue EXCEPT ![e] = q],
         NEW s \in Seq(Payloads), sent' = [sent EXCEPT ![e] = s],
         wire' \in [Ends -> Seq(Payloads)],
         \A o \in Ends : \A i \in 1 .. Len(wire'[o]) : Fits(wire'[o][i]),
         Len(s) + Len(q) <= 1,
         d.m_state = "open" => s = <<>> /\ q = <<>>,
         \A i \in 1 .. Len(q) : Fits(q[i].payload),
         e = "client" => \A i \in 1 .. Len(q) : q[i].terminal => terminal(q[i].payload.code),
         e = "client" /\ d.m_state = "closed" /\ d.ec = "none" =>
           con["server"].m_state = "closed" \/ (s # <<>> /\ terminal(s[1].code))
  PROVE  PairInv'
<1>1. Types'
  BY DEF PairInv, Types
<1>2. con'[e] = d /\ queue'[e] = q /\ sent'[e] = s
  BY DEF PairInv, Types
<1>3. \A o \in Ends : o # e => con'[o] = con[o] /\ queue'[o] = queue[o] /\ sent'[o] = sent[o]
  BY DEF PairInv, Types
<1>4. ASSUME NEW o \in Ends PROVE OneFrame(o)'
  <2>1. CASE o = e
    BY <2>1, <1>2 DEF OneFrame
  <2>2. CASE o # e
    BY <2>2, <1>3 DEF OneFrame, PairInv
  <2> QED BY <2>1, <2>2
<1>5. TerminalByCode'
  <2>1. CASE e = "client"
    BY <2>1, <1>2 DEF TerminalByCode
  <2>2. CASE e # "client"
    <3>1. queue'["client"] = queue["client"]
      BY <2>2, <1>3, EndsAre
    <3> QED BY <3>1 DEF TerminalByCode, PairInv
  <2> QED BY <2>1, <2>2
<1>6. ServerEndsFirst'
  <2>1. CASE e = "client"
    BY <2>1, <1>2, <1>3, EndsAre DEF ServerEndsFirst
  <2>2. CASE e # "client"
    <3>1. e = "server" /\ con'["client"] = con["client"] /\ sent'["client"] = sent["client"]
      BY <2>2, <1>3, EndsAre
    <3> QED BY <3>1 DEF ServerEndsFirst, PairInv, Library
  <2> QED BY <2>1, <2>2
<1> QED BY <1>1, <1>4, <1>5, <1>6 DEF PairInv

\* What send_close_frame() does for a connection that is open.
LEMMA SendCloses ==
  ASSUME Pair, NEW e \in Ends, NEW c \in Connections, c.m_state = "open",
         NEW code \in Nat, NEW reason \in Seq(Bytes), validate(reason),
         NEW ack \in BOOLEAN, NEW last \in BOOLEAN, ack => validate(c.remote.reason),
         e = "client" /\ last => terminal(code),
         SendCloseFrame(e, c, code, reason, ack, last)
  PROVE  \E d \in Connections :
           /\ con' = [con EXCEPT ![e] = d]
           /\ \/ d.m_state = "open" /\ queue' = queue
              \/ /\ d.m_state = "closing"
                 /\ \E m \in Messages :
                      /\ queue' = [queue EXCEPT ![e] = Append(queue[e], m)]
                      /\ Fits(m.payload)
                      /\ e = "client" /\ m.terminal => terminal(m.payload.code)
<1> DEFINE l == LocalCode(c, code, reason, ack)
           d == [c EXCEPT !.local = l]
           dd == [d EXCEPT !.m_state = "closing", !.m_was_clean = @ \/ ack, !.timer = Armed(c)]
           m == [payload |-> prepare_close(l), terminal |-> last]
<1>1. l \in Infos /\ validate(l.reason) /\ (code # blank => l.code = code)
  <2>1. <<>> \in Seq(Bytes) /\ validate(<<>>)
    BY DEF validate
  <2>2. Said(no_status, <<>>) \in Infos /\ Said(normal, <<>>) \in Infos /\ Said(code, reason) \in Infos
    BY <2>1 DEF Said, Infos, no_status, normal
  <2>3. c.remote \in Infos
    BY DEF Connections
  <2> QED BY <2>1, <2>2, <2>3 DEF LocalCode, Said, Pair
<1>2. d \in Connections /\ d.m_state = "open" /\ d.local = l
  BY <1>1 DEF Connections
<1>3. dd \in Connections /\ dd.m_state = "closing"
  BY <1>2 DEF Connections, Armed, States
<1>4. CASE Refused(l)
  BY <1>4, <1>2 DEF SendCloseFrame
<1>5. CASE ~Refused(l)
  <2>1. /\ con' = [con EXCEPT ![e] = dd]
        /\ queue' = [queue EXCEPT ![e] = Append(queue[e], m)]
    BY <1>5, <1>2 DEF SendCloseFrame
  <2>2. m \in Messages /\ Fits(m.payload)
    BY <1>1, <1>5, PreparedFits DEF Messages
  <2>3. e = "client" /\ last => terminal(prepare_close(l).code)
    BY <1>1, <1>5, PreparedFits, TerminalCodes
  <2> QED BY <2>1, <2>2, <2>3, <1>3
<1> QED BY <1>4, <1>5

\* A step that is send_close_frame() of an end that is open.
LEMMA SendKeeps ==
  ASSUME Pair, PairInv, NEW e \in Ends, con[e].m_state = "open", UNCHANGED sent,
         wire' \in [Ends -> Seq(Payloads)],
         \A o \in Ends : \A i \in 1 .. Len(wire'[o]) : Fits(wire'[o][i]),
         NEW c \in Connections, c.m_state = "open",
         NEW code \in Nat, NEW reason \in Seq(Bytes), validate(reason),
         NEW ack \in BOOLEAN, NEW last \in BOOLEAN, ack => validate(c.remote.reason),
         e = "client" /\ last => terminal(code),
         SendCloseFrame(e, c, code, reason, ack, last)
  PROVE  PairInv'
<1>1. PICK d \in Connections :
           /\ con' = [con EXCEPT ![e] = d]
           /\ \/ d.m_state = "open" /\ queue' = queue
              \/ /\ d.m_state = "closing"
                 /\ \E m \in Messages :
                      /\ queue' = [queue EXCEPT ![e] = Append(queue[e], m)]
                      /\ Fits(m.payload)
                      /\ e = "client" /\ m.terminal => terminal(m.payload.code)
  BY SendCloses
<1>2. sent[e] = <<>> /\ queue[e] = <<>>
  BY DEF PairInv, OneFrame
<1>6. /\ <<>> \in Seq(Payloads) /\ <<>> \in Seq(Messages) /\ Len(<<>>) = 0
      /\ \A i \in 1 .. Len(<<>>) : FALSE
  BY EmptySeq
<1>3. sent' = [sent EXCEPT ![e] = <<>>]
  BY <1>2 DEF PairInv, Types
<1>4. CASE d.m_state = "open" /\ queue' = queue
  <2>1. queue' = [queue EXCEPT ![e] = <<>>]
    BY <1>4, <1>2 DEF PairInv, Types
  <2> DEFINE q == <<>>
             s == <<>>
  <2>2. /\ \A i \in 1 .. Len(q) : Fits(q[i].payload)
        /\ \A i \in 1 .. Len(q) : q[i].terminal => terminal(q[i].payload.code)
    BY <1>6
  <2>3. d.m_state # "closed" /\ con[e].m_state # "closed"
    BY <1>4
  <2>4. /\ con' = [con EXCEPT ![e] = d] /\ queue' = [queue EXCEPT ![e] = q]
        /\ sent' = [sent EXCEPT ![e] = s] /\ q \in Seq(Messages) /\ s \in Seq(Payloads)
        /\ s = <<>> /\ q = <<>>
    BY <1>1, <1>3, <1>6, <2>1
  <2>5. Len(s) + Len(q) <= 1
    BY <1>6
  <2> HIDE DEF q, s
  <2> QED BY <2>2, <2>3, <2>4, <2>5, EndKeeps
<1>5. ASSUME d.m_state = "closing", NEW m \in Messages,
             queue' = [queue EXCEPT ![e] = Append(queue[e], m)], Fits(m.payload),
             e = "client" /\ m.terminal => terminal(m.payload.code)
      PROVE  PairInv'
  <2>1. queue' = [queue EXCEPT ![e] = <<m>>]
    BY <1>2, <1>5, SingleSeq
  <2>2. PICK q \in Seq(Messages) : q = <<m>> /\ Len(q) = 1 /\ \A i \in 1 .. Len(q) : q[i] = m
    BY SingleSeq
  <2>3. PICK s \in Seq(Payloads) : s = <<>> /\ Len(s) = 0
    BY <1>6
  <2>4. /\ \A i \in 1 .. Len(q) : Fits(q[i].payload)
        /\ e = "client" => \A i \in 1 .. Len(q) : q[i].terminal => terminal(q[i].payload.code)
    BY <1>5, <2>2
  <2>5. /\ d.m_state # "open" /\ d.m_state # "closed" /\ con[e].m_state # "closed"
        /\ Len(s) + Len(q) <= 1
    BY <1>5, <2>2, <2>3
  <2>6. /\ con' = [con EXCEPT ![e] = d] /\ queue' = [queue EXCEPT ![e] = q]
        /\ sent' = [sent EXCEPT ![e] = s]
    BY <1>1, <1>3, <2>1, <2>2, <2>3
  <2> QED BY <2>4, <2>5, <2>6, EndKeeps
<1> QED BY <1>1, <1>4, <1>5

\* A step in which an end that is not closed goes on to a state other than
\* open and writes nothing.
LEMMA GoesOn ==
  ASSUME PairInv, NEW e \in Ends, con[e].m_state # "closed", UNCHANGED <<queue, sent>>,
         wire' \in [Ends -> Seq(Payloads)],
         \A o \in Ends : \A i \in 1 .. Len(wire'[o]) : Fits(wire'[o][i]),
         NEW d \in Connections, con' = [con EXCEPT ![e] = d], d.m_state # "open",
         e = "client" /\ d.m_state = "closed" /\ d.ec = "none" => con["server"].m_state = "closed"
  PROVE  PairInv'
<1>1. /\ queue' = [queue EXCEPT ![e] = queue[e]] /\ sent' = [sent EXCEPT ![e] = sent[e]]
      /\ queue[e] \in Seq(Messages) /\ sent[e] \in Seq(Payloads)
  BY DEF PairInv, Types
<1>2. OneFrame(e) /\ TerminalByCode
  BY DEF PairInv
<1> QED BY <1>1, <1>2, EndKeeps DEF OneFrame, TerminalByCode

\* What terminate() makes of a connection.
LEMMA TerminatedIs ==
  ASSUME NEW c \in Connections, NEW error \in Errors
  PROVE  /\ Terminated(c, error) \in Connections
         /\ Terminated(c, error).m_state = "closed"
         /\ error # "none" => Terminated(c, error).ec = error
<1>1. Said(abnormal_close, Message) \in Infos
  <2>1. <<"m">> \in Seq(Bytes)
    BY DEF Bytes
  <2> QED BY <2>1 DEF Said, Infos, abnormal_close, Message
<1> QED BY <1>1 DEF Terminated, Connections, States

LEMMA PairInit == ASSUME Pair, Init PROVE PairInv
<1>1. <<>> \in Seq(Bytes) /\ <<>> \in Seq(Payloads) /\ <<>> \in Seq(Messages) /\ Len(<<>>) = 0
  BY EmptySeq
<1>2. Unset \in Infos
  BY <1>1 DEF Unset, Said, Infos, abnormal_close
<1>3. Types
  BY <1>1, <1>2 DEF Init, Types, Connections, States, Errors
<1>4. \A e \in Ends : con[e].m_state = "open" /\ sent[e] = <<>> /\ queue[e] = <<>> /\ wire[e] = <<>>
  BY DEF Init
<1>5. ASSUME NEW e \in Ends PROVE OneFrame(e)
  <2>1. Len(sent[e]) = 0 /\ Len(queue[e]) = 0 /\ Len(wire[e]) = 0
    BY <1>1, <1>4
  <2> QED BY <2>1, <1>4 DEF OneFrame
<1>6. TerminalByCode /\ ServerEndsFirst
  BY <1>1, <1>4, EndsAre DEF TerminalByCode, ServerEndsFirst
<1> QED BY <1>3, <1>5, <1>6 DEF PairInv

\* The wires after one of them has lost its first frame, or all of them.
LEMMA WireShorter ==
  ASSUME PairInv, NEW o \in Ends,
         \/ wire' = [wire EXCEPT ![o] = <<>>]
         \/ wire[o] # <<>> /\ wire' = [wire EXCEPT ![o] = Tail(@)]
  PROVE  /\ wire' \in [Ends -> Seq(Payloads)]
         /\ \A x \in Ends : \A i \in 1 .. Len(wire'[x]) : Fits(wire'[x][i])
<1>1. wire \in [Ends -> Seq(Payloads)] /\ \A x \in Ends : \A i \in 1 .. Len(wire[x]) : Fits(wire[x][i])
  BY DEF PairInv, Types, OneFrame
<1>2. <<>> \in Seq(Payloads) /\ Len(<<>>) = 0
  BY EmptySeq
<1>3. CASE wire' = [wire EXCEPT ![o] = <<>>]
  BY <1>1, <1>2, <1>3
<1>4. CASE wire[o] # <<>> /\ wire' = [wire EXCEPT ![o] = Tail(@)]
  <2> DEFINE t == Tail(wire[o])
  <2>1. wire[o] \in Seq(Payloads) /\ wire[o] # <<>>
    BY <1>1, <1>4
  <2>2. t \in Seq(Payloads) /\ Len(t) = Len(wire[o]) - 1 /\ \A i \in 1 .. Len(t) : t[i] = wire[o][i + 1]
    BY <2>1
  <2>3. \A i \in 1 .. Len(t) : Fits(t[i])
    <3>1. Len(wire[o]) \in Nat
      BY <2>1
    <3>2. \A i \in 1 .. Len(t) : i + 1 \in 1 .. Len(wire[o])
      BY <2>2, <3>1
    <3> QED BY <1>1, <2>2, <3>2
  <2>4. wire' = [wire EXCEPT ![o] = t]
    BY <1>4
  <2> HIDE DEF t
  <2> QED BY <1>1, <2>2, <2>3, <2>4
<1> QED BY <1>3, <1>4

LEMMA WireSame ==
  ASSUME PairInv, UNCHANGED wire
  PROVE  /\ wire' \in [Ends -> Seq(Payloads)]
         /\ \A x \in Ends : \A i \in 1 .. Len(wire'[x]) : Fits(wire'[x][i])
BY DEF PairInv, Types, OneFrame

LEMMA CloseKeeps ==
  ASSUME Pair, PairInv, NEW e \in Ends, NEW code \in Codes, NEW reason \in Reasons,
         Close(e, code, reason)
  PROVE  PairInv'
<1> DEFINE r == Truncated(reason)
           last == terminal(code)
<1>1. /\ con[e].m_state = "open" /\ UNCHANGED <<wire, sent>>
      /\ SendCloseFrame(e, con[e], code, r, FALSE, last)
  BY DEF Close, MayClose
<1>2. code \in Nat
  BY CodesAreNumbers
<1>3. r \in Seq(Bytes) /\ validate(r)
  BY DEF Pair
<1>4. last \in BOOLEAN /\ (e = "client" /\ last => terminal(code))
  BY DEF terminal
<1>5. con[e] \in Connections
  BY DEF PairInv, Types
<1> HIDE DEF r, last
<1> QED BY <1>1, <1>2, <1>3, <1>4, <1>5, WireSame, SendKeeps

\* The frame an end writes is the only one it ever queued.
LEMMA WriteKeeps ==
  ASSUME PairInv, NEW e \in Ends, Write(e)
  PROVE  PairInv'
<1> DEFINE m == queue[e][1]
<1>1. queue[e] \in Seq(Messages) /\ queue[e] # <<>> /\ sent[e] \in Seq(Payloads)
  BY DEF PairInv, Types, Write
<1>2. /\ Len(queue[e]) = 1 /\ sent[e] = <<>> /\ m \in Messages
      /\ 1 \in 1 .. Len(queue[e]) /\ Head(queue[e]) = m /\ Tail(queue[e]) = <<>>
  <2>1. Len(sent[e]) + Len(queue[e]) <= 1
    BY DEF PairInv, OneFrame
  <2>2. Len(queue[e]) = 1 /\ sent[e] = <<>>
    BY <1>1, <2>1, OneLeft
  <2>3. m \in Messages
    BY <1>1, <2>1, OneLeft
  <2>4. Head(queue[e]) = m /\ 1 \in 1 .. Len(queue[e])
    BY <1>1, <2>1, OneLeft
  <2>5. Tail(queue[e]) = <<>>
    BY <1>1, <2>1, OneLeft
  <2> QED BY <2>2, <2>3, <2>4, <2>5
<1>3. Fits(m.payload) /\ (e = "client" /\ m.terminal => terminal(m.payload.code))
  BY <1>2 DEF PairInv, OneFrame, TerminalByCode
<1>4. con[e] \in Connections /\ con[e].m_state # "closed" /\ con[e].m_state # "open"
  BY <1>1 DEF PairInv, Types, OneFrame, Write, Open
<1>5. PICK q \in Seq(Messages) : q = <<>> /\ Len(q) = 0
  BY EmptySeq
<1>6. m.payload \in Payloads
  BY <1>2 DEF Messages
<1>7. PICK s \in Seq(Payloads) : s = <<m.payload>> /\ Len(s) = 1 /\ s # <<>> /\ s[1] = m.payload
  <2>1. /\ <<m.payload>> \in Seq(Payloads) /\ Len(<<m.payload>>) = 1
        /\ <<m.payload>> # <<>> /\ <<m.payload>>[1] = m.payload
    BY <1>6, SingleSeq
  <2> QED BY <2>1
<1>8. queue' = [queue EXCEPT ![e] = q]
  BY <1>2, <1>5 DEF Write
<1>9. sent' = [sent EXCEPT ![e] = s]
  <2>1. sent' = [sent EXCEPT ![e] = Append(sent[e], m.payload)]
    BY <1>2 DEF Write
  <2>2. Append(sent[e], m.payload) = s
    BY <1>2, <1>6, <1>7, SingleSeq
  <2> QED BY <2>1, <2>2
<1>10. /\ wire' \in [Ends -> Seq(Payloads)]
       /\ \A x \in Ends : \A i \in 1 .. Len(wire'[x]) : Fits(wire'[x][i])
  <2>1. /\ wire \in [Ends -> Seq(Payloads)]
        /\ \A x \in Ends : \A i \in 1 .. Len(wire[x]) : Fits(wire[x][i])
    BY DEF PairInv, Types, OneFrame
  <2> DEFINE w == Append(wire[e], m.payload)
  <2>2. /\ w \in Seq(Payloads)
        /\ \A i \in 1 .. Len(w) : (i \in 1 .. Len(wire[e]) /\ w[i] = wire[e][i]) \/ w[i] = m.payload
    <3>1. wire[e] \in Seq(Payloads)
      BY <2>1
    <3> HIDE DEF m
    <3> QED BY <3>1, <1>6, Longer
  <2>3. wire' = [wire EXCEPT ![e] = w]
    BY <1>2 DEF Write
  <2>4. \A i \in 1 .. Len(w) : Fits(w[i])
    BY <2>1, <2>2, <1>3
  <2> HIDE DEF w
  <2> QED BY <2>1, <2>2, <2>3, <2>4
<1>11. PICK d \in Connections :
         /\ con' = [con EXCEPT ![e] = d] /\ d.m_state # "open"
         /\ d.m_state = "closed" => m.terminal
  <2>1. CASE m.terminal
    <3>1. con' = [con EXCEPT ![e] = Terminated(con[e], "none")]
      BY <1>1, <2>1 DEF Write
    <3> QED BY <3>1, <2>1, <1>4, TerminatedIs DEF Errors
  <2>2. CASE ~m.terminal
    <3>1. con' = con
      BY <1>1, <2>2 DEF Write
    <3>2. con = [con EXCEPT ![e] = con[e]]
      BY DEF PairInv, Types
    <3> QED BY <3>1, <3>2, <1>4
  <2> QED BY <2>1, <2>2
<1>12. /\ Len(s) + Len(q) <= 1
       /\ \A i \in 1 .. Len(q) : Fits(q[i].payload)
       /\ e = "client" => \A i \in 1 .. Len(q) : q[i].terminal => terminal(q[i].payload.code)
  BY <1>5, <1>7
<1>13. e = "client" /\ d.m_state = "closed" => s # <<>> /\ terminal(s[1].code)
  BY <1>3, <1>7, <1>11
<1> HIDE DEF m
<1> QED BY <1>4, <1>8, <1>9, <1>10, <1>11, <1>12, <1>13, EndKeeps

LEMMA ReceiveKeeps ==
  ASSUME Pair, PairInv, NEW e \in Ends, Receive(e)
  PROVE  PairInv'
<1> DEFINE o == Other(e)
           p == Head(wire[o])
           c == Heard(con[e], p)
<1>1. o \in Ends /\ wire[o] # <<>> /\ wire' = [wire EXCEPT ![o] = Tail(@)]
      /\ con[e].m_state # "closed" /\ UNCHANGED sent
  BY EndsAre DEF Receive, Open
<1>2. p \in Payloads /\ CodeFits(p) /\ ReasonFits(p)
  <2>1. wire[o] \in Seq(Payloads) /\ \A i \in 1 .. Len(wire[o]) : Fits(wire[o][i])
    BY <1>1 DEF PairInv, Types, OneFrame
  <2>2. p = wire[o][1] /\ 1 \in 1 .. Len(wire[o]) /\ p \in Payloads
    BY <1>1, <2>1
  <2> QED BY <2>1, <2>2 DEF Fits
<1>3. con[e] \in Connections
  BY DEF PairInv, Types
<1>4. c \in Connections /\ c.m_state = con[e].m_state /\ validate(c.remote.reason)
  <2>1. Said(p.code, p.reason) \in Infos
    BY <1>2 DEF Said, Infos, Payloads
  <2>2. c = [con[e] EXCEPT !.remote = Said(p.code, p.reason)]
    BY <1>2 DEF Heard, extract_code
  <2>3. validate(p.reason)
    BY <1>2 DEF ReasonFits
  <2> QED BY <2>1, <2>2, <2>3, <1>3 DEF Connections, Said
<1>5. /\ wire' \in [Ends -> Seq(Payloads)]
      /\ \A x \in Ends : \A i \in 1 .. Len(wire'[x]) : Fits(wire'[x][i])
  BY <1>1, WireShorter
<1>6. IF c.m_state = "open"
        THEN SendCloseFrame(e, c, blank, <<>>, TRUE, e = "server")
        ELSE /\ con' = [con EXCEPT ![e] = IF c.m_was_clean THEN c ELSE Acknowledged(e, c)]
             /\ UNCHANGED queue
  BY <1>2 DEF Receive
<1>7. CASE c.m_state = "open"
  <2>1. blank \in Nat /\ <<>> \in Seq(Bytes) /\ validate(<<>>)
    <3>1. <<>> \in Seq(Bytes)
      BY EmptySeq
    <3> QED BY <3>1 DEF blank, validate
  <2>2. PICK last \in BOOLEAN : last = (e = "server")
    OBVIOUS
  <2>3. SendCloseFrame(e, c, blank, <<>>, TRUE, last) /\ ~(e = "client" /\ last)
    BY <1>6, <1>7, <2>2
  <2> HIDE DEF c, o, p
  <2> QED BY <1>1, <1>4, <1>5, <1>7, <2>1, <2>3, SendKeeps
<1>8. CASE c.m_state # "open"
  <2>1. PICK d \in Connections :
          /\ con' = [con EXCEPT ![e] = d] /\ d.m_state # "open"
          /\ e = "client" => d.m_state # "closed"
    <3>1. c.m_state # "closed"
      BY <1>1, <1>4
    <3>2. CASE c.m_was_clean
      BY <1>4, <1>6, <1>8, <3>1, <3>2
    <3>3. CASE ~c.m_was_clean
      <4> DEFINE cc == [c EXCEPT !.m_was_clean = TRUE]
      <4>1. con' = [con EXCEPT ![e] = Acknowledged(e, c)]
        BY <1>6, <1>8, <3>3
      <4>2. cc \in Connections /\ cc.m_state = c.m_state
        BY <1>4 DEF Connections
      <4>3. CASE e = "server"
        <5>1. Acknowledged(e, c) = Terminated(cc, "none")
          BY <4>3 DEF Acknowledged
        <5> QED BY <4>1, <4>2, <4>3, <5>1, TerminatedIs DEF Errors
      <4>4. CASE e # "server"
        <5>1. Acknowledged(e, c) = cc
          BY <4>4 DEF Acknowledged
        <5> QED BY <4>1, <4>2, <5>1, <3>1, <1>8
      <4> QED BY <4>3, <4>4
    <3> QED BY <3>2, <3>3
  <2>2. UNCHANGED <<queue, sent>>
    BY <1>1, <1>6, <1>8
  <2> HIDE DEF c, o, p
  <2> QED BY <1>1, <1>5, <2>1, <2>2, GoesOn
<1> QED BY <1>7, <1>8

\* terminate() of an end, for any of its reasons, an error or the end of the
\* stream of a server that has ended.
LEMMA EndsKeep ==
  ASSUME PairInv, NEW e \in Ends, con[e].m_state # "closed", UNCHANGED <<queue, sent>>,
         wire' \in [Ends -> Seq(Payloads)],
         \A x \in Ends : \A i \in 1 .. Len(wire'[x]) : Fits(wire'[x][i]),
         NEW error \in Errors, con' = [con EXCEPT ![e] = Terminated(con[e], error)],
         error # "none" \/ con[Other(e)].m_state = "closed"
  PROVE  PairInv'
<1>1. con[e] \in Connections
  BY DEF PairInv, Types
<1>2. PICK d \in Connections : d = Terminated(con[e], error) /\ d.m_state = "closed"
                               /\ (error # "none" => d.ec = error)
  BY <1>1, TerminatedIs
<1>3. e = "client" /\ d.ec = "none" => con["server"].m_state = "closed"
  BY <1>2, EndsAre
<1> QED BY <1>2, <1>3, GoesOn

LEMMA StepKeeps == ASSUME Pair, PairInv, [Next]_vars PROVE PairInv'
<1>1. CASE UNCHANGED vars
  BY <1>1 DEF vars, PairInv, Types, OneFrame, TerminalByCode, ServerEndsFirst
<1>2. ASSUME NEW e \in Ends, End(e) PROVE PairInv'
  <2>1. ASSUME NEW code \in Codes, NEW reason \in Reasons, Close(e, code, reason) PROVE PairInv'
    BY <2>1, CloseKeeps
  <2>2. CASE Write(e)
    BY <2>2, WriteKeeps
  <2>3. CASE Receive(e)
    BY <2>3, ReceiveKeeps
  <2>4. CASE ReadEof(e)
    <3>1. PICK error \in Errors : con' = [con EXCEPT ![e] = Terminated(con[e], error)]
      BY <2>4 DEF ReadEof, Errors
    <3>2. con[Other(e)].m_state = "closed" /\ con[e].m_state # "closed" /\ UNCHANGED <<queue, sent, wire>>
      BY <2>4 DEF ReadEof, Open
    <3> QED BY <3>1, <3>2, WireSame, EndsKeep
  <2>5. CASE Timeout(e)
    <3>1. /\ con' = [con EXCEPT ![e] = Terminated(con[e], "timeout")] /\ con[e].m_state # "closed"
          /\ UNCHANGED <<queue, sent, wire>>
      BY <2>5 DEF Timeout, Open
    <3> QED BY <3>1, WireSame, EndsKeep DEF Errors
  <2>6. CASE TransportFails(e)
    <3>1. /\ con' = [con EXCEPT ![e] = Terminated(con[e], "transport")] /\ con[e].m_state # "closed"
          /\ UNCHANGED <<queue, sent>> /\ wire' = [wire EXCEPT ![Other(e)] = <<>>]
          /\ Other(e) \in Ends
      BY <2>6, EndsAre DEF TransportFails, Open
    <3> QED BY <3>1, WireShorter, EndsKeep DEF Errors
  <2>7. CASE HandleTerminate(e)
    BY <2>7 DEF HandleTerminate, PairInv, Types, OneFrame, TerminalByCode, ServerEndsFirst
  <2>8. CASE ForeignFrame(e) \/ ForeignDrop(e)
    BY <2>8 DEF ForeignFrame, ForeignDrop, Pair
  <2> QED BY <1>2, <2>1, <2>2, <2>3, <2>4, <2>5, <2>6, <2>7, <2>8 DEF End
<1> QED BY <1>1, <1>2 DEF Next

------------------------------------------------------------------------------
\* Between two ends of the library, whatever their applications close with and
\* whenever, also both at once, and whatever fails: each end writes one close
\* frame at most.
THEOREM PairSendsOnce == Pair => (Spec => []OneCloseFrame)
<1> SUFFICES ASSUME Pair PROVE Spec => []OneCloseFrame
  OBVIOUS
<1>1. Init => PairInv
  BY PairInit
<1>2. PairInv /\ [Next]_vars => PairInv'
  BY StepKeeps
<1>3. PairInv => OneCloseFrame
  <2> SUFFICES ASSUME PairInv, NEW e \in Ends PROVE Len(sent[e]) <= 1
    BY DEF OneCloseFrame
  <2>1. Len(sent[e]) + Len(queue[e]) <= 1
    BY DEF PairInv, OneFrame
  <2>2. sent[e] \in Seq(Payloads) /\ queue[e] \in Seq(Messages)
    BY DEF PairInv, Types
  <2>3. Len(sent[e]) \in Nat
    BY <2>2
  <2>4. Len(queue[e]) \in Nat
    BY <2>2
  <2> QED BY <2>1, <2>3, <2>4, SmallSum
<1> QED BY <1>1, <1>2, <1>3, PTL DEF Spec

\* connection_impl.hpp:2036: the client leaves the end of the TCP connection to
\* the server, unless it failed or closed for an unrecoverable error.
THEOREM PairServerEndsFirst == Pair => (Spec => []ServerEndsFirst)
<1> SUFFICES ASSUME Pair PROVE Spec => []ServerEndsFirst
  OBVIOUS
<1>1. Init => PairInv
  BY PairInit
<1>2. PairInv /\ [Next]_vars => PairInv'
  BY StepKeeps
<1>3. PairInv => ServerEndsFirst
  BY DEF PairInv
<1> QED BY <1>1, <1>2, <1>3, PTL DEF Spec

\* Both, as they are checked: the two ends of the library close in order.
THEOREM PairClosesInOrder == Pair => (Spec => []ClosesInOrder)
<1> SUFFICES ASSUME Pair PROVE Spec => []ClosesInOrder
  OBVIOUS
<1>1. Spec => []OneCloseFrame
  BY PairSendsOnce
<1>2. Spec => []ServerEndsFirst
  BY PairServerEndsFirst
<1>3. OneCloseFrame /\ ServerEndsFirst => ClosesInOrder
  BY DEF ClosesInOrder
<1> QED BY <1>1, <1>2, <1>3, PTL

------------------------------------------------------------------------------
(* What the two ends know of each other *)

Content(p) == Said(p.code, p.reason)

\* The payload that acknowledges p.
AnswerTo(p) ==
  IF p.code = no_status THEN Payload(normal, <<>>) ELSE Payload(p.code, p.reason)

\* A payload of an application: never the message of the library.
Proper(p) ==
  /\ p.reason # Message
  /\ \/ p = Empty
     \/ p = Payload(p.code, p.reason) /\ p.code # no_status

\* What an end writes is its application's, or it acknowledges the other's.
Meant(e, p) ==
  /\ Proper(p)
  /\ e \notin asked => sent[Other(e)] # <<>> /\ p = AnswerTo(sent[Other(e)][1])

\* The frame of an end is queued, sent, on its way, and heard by the other, who
\* knows of it only then.
Agree(e) ==
  LET o == Other(e)
  IN  /\ sent[e] # <<>> => Meant(e, sent[e][1])
      /\ queue[e] # <<>> => Meant(e, queue[e][1].payload)
      /\ wire[e] # <<>> => wire[e] = sent[e]
      /\ wire[o] # <<>> \/ sent[o] = <<>> => con[e].remote = Unset /\ ~con[e].m_was_clean
      /\ con[e].remote # Unset \/ con[e].m_was_clean => con[e].remote = Content(sent[o][1])
      /\ con[e].ec # "protocol"

AgreeInv == \A e \in Ends : Agree(e)

\* The applications give reasons of their own.
OwnReasons == \A r \in Reasons : Truncated(r) # Message

LEMMA EmptyIsNotMessage == <<>> # Message
<1>1. Len(<<>>) = 0 /\ Len(Message) = 1
  BY DEF Message
<1> QED BY <1>1

\* The payload that send_close_frame() makes of a code and reason.
LEMMA PreparedProper ==
  ASSUME NEW l \in Infos, l.reason # Message
  PROVE  Proper(prepare_close(l))
<1>1. CASE l.code = no_status
  <2>1. prepare_close(l) = Empty /\ Empty.reason = <<>>
    BY <1>1 DEF prepare_close, Empty
  <2> QED BY <2>1, EmptyIsNotMessage DEF Proper
<1>2. CASE l.code # no_status
  <2>1. /\ prepare_close(l) = Payload(l.code, l.reason)
        /\ Payload(l.code, l.reason).code = l.code /\ Payload(l.code, l.reason).reason = l.reason
    BY <1>2 DEF prepare_close, Payload
  <2> QED BY <1>2, <2>1 DEF Proper
<1> QED BY <1>1, <1>2

\* An acknowledgement is what prepare_close() makes of the frame that was heard.
LEMMA AnswerPrepared ==
  ASSUME Pair, NEW p \in Payloads, Proper(p), NEW c, c.remote = Content(p)
  PROVE  /\ prepare_close(LocalCode(c, blank, <<>>, TRUE)) = AnswerTo(p)
         /\ Proper(AnswerTo(p))
<1>1. c.remote.code = p.code /\ c.remote.reason = p.reason
  BY DEF Content, Said
<1>2. CASE p.code = no_status
  <2>1. LocalCode(c, blank, <<>>, TRUE) = Said(normal, <<>>)
    BY <1>1, <1>2 DEF LocalCode, Pair
  <2>2. /\ Said(normal, <<>>).code = normal /\ Said(normal, <<>>).reason = <<>>
        /\ normal # no_status /\ normal \in Nat
    BY DEF Said, normal, no_status
  <2>3. prepare_close(Said(normal, <<>>)) = Payload(normal, <<>>)
    BY <2>2 DEF prepare_close
  <2>4. Payload(normal, <<>>).code = normal /\ Payload(normal, <<>>).reason = <<>>
    BY DEF Payload
  <2> QED BY <1>2, <2>1, <2>2, <2>3, <2>4, EmptyIsNotMessage DEF AnswerTo, Proper
<1>3. CASE p.code # no_status
  <2>1. LocalCode(c, blank, <<>>, TRUE) = Said(p.code, p.reason)
    BY <1>1, <1>3 DEF LocalCode, Pair, Content
  <2>2. Said(p.code, p.reason).code = p.code /\ Said(p.code, p.reason).reason = p.reason
    BY DEF Said
  <2>3. prepare_close(Said(p.code, p.reason)) = Payload(p.code, p.reason)
    BY <1>3, <2>2 DEF prepare_close
  <2>4. Payload(p.code, p.reason).code = p.code /\ Payload(p.code, p.reason).reason = p.reason
    BY DEF Payload
  <2> QED BY <1>3, <2>1, <2>3, <2>4 DEF AnswerTo, Proper
<1> QED BY <1>2, <1>3

\* What send_close_frame() changes, and what it queues.
LEMMA SendQueues ==
  ASSUME PairInv, NEW e \in Ends, NEW c \in Connections, queue[e] = <<>>,
         NEW code, NEW reason, NEW ack \in BOOLEAN, NEW last \in BOOLEAN,
         LocalCode(c, code, reason, ack) \in Infos,
         SendCloseFrame(e, c, code, reason, ack, last)
  PROVE  /\ con'[e].remote = c.remote /\ con'[e].ec = c.ec
         /\ con'[Other(e)] = con[Other(e)] /\ queue'[Other(e)] = queue[Other(e)]
         /\ \/ queue'[e] = <<>> /\ con'[e].m_was_clean = c.m_was_clean
            \/ /\ queue'[e] # <<>> /\ con'[e].m_was_clean = (c.m_was_clean \/ ack)
               /\ queue'[e][1].payload = prepare_close(LocalCode(c, code, reason, ack))
<1> DEFINE l == LocalCode(c, code, reason, ack)
           d == [c EXCEPT !.local = l]
           dd == [d EXCEPT !.m_state = "closing", !.m_was_clean = @ \/ ack, !.timer = Armed(c)]
           m == [payload |-> prepare_close(l), terminal |-> last]
<1>1. /\ con \in [Ends -> Connections] /\ queue \in [Ends -> Seq(Messages)]
      /\ Other(e) \in Ends /\ Other(e) # e
  BY EndsAre DEF PairInv, Types
<1>2. /\ d.remote = c.remote /\ d.ec = c.ec /\ d.m_was_clean = c.m_was_clean /\ d.local = l
      /\ dd.remote = c.remote /\ dd.ec = c.ec
  BY DEF Connections
<1>3. dd.m_was_clean = (c.m_was_clean \/ ack)
  BY DEF Connections
<1>4. CASE Refused(l)
  <2>1. con' = [con EXCEPT ![e] = d] /\ queue' = queue
    BY <1>2, <1>4 DEF SendCloseFrame
  <2> HIDE DEF d
  <2> QED BY <1>1, <1>2, <2>1
<1>5. CASE ~Refused(l)
  <2>1. con' = [con EXCEPT ![e] = dd] /\ queue' = [queue EXCEPT ![e] = Append(queue[e], m)]
    BY <1>2, <1>5 DEF SendCloseFrame
  <2>2. queue'[e] = Append(<<>>, m) /\ queue'[Other(e)] = queue[Other(e)]
    BY <1>1, <2>1
  <2>3. con'[e] = dd /\ con'[Other(e)] = con[Other(e)]
    BY <1>1, <2>1
  <2>4. Append(<<>>, m) # <<>> /\ Append(<<>>, m)[1] = m /\ m.payload = prepare_close(l)
    <3>1. m.payload = prepare_close(l)
      OBVIOUS
    <3> HIDE DEF m
    <3> QED BY <3>1, SingleSeq
  <2> HIDE DEF m, dd
  <2> QED BY <1>2, <1>3, <2>2, <2>3, <2>4
<1> QED BY <1>4, <1>5

LEMMA OtherEnd ==
  ASSUME NEW e \in Ends
  PROVE  Other(e) \in Ends /\ Other(e) # e /\ Other(Other(e)) = e /\ Ends = {e, Other(e)}
BY EndsAre

\* A step in which an end writes and hears nothing; what was on its way to it
\* may be lost.
LEMMA QuietAgrees ==
  ASSUME PairInv, AgreeInv, NEW e \in Ends, UNCHANGED <<queue, sent, asked>>,
         con'[e].remote = con[e].remote, con'[e].m_was_clean = con[e].m_was_clean,
         con'[e].ec # "protocol", con'[Other(e)] = con[Other(e)],
         wire' = wire \/ wire' = [wire EXCEPT ![Other(e)] = <<>>]
  PROVE  AgreeInv'
<1> SUFFICES ASSUME NEW x \in Ends PROVE Agree(x)'
  BY DEF AgreeInv
<1>1. Agree(x) /\ Other(x) \in Ends
  BY OtherEnd DEF AgreeInv
<1>2. /\ con'[x].remote = con[x].remote /\ con'[x].m_was_clean = con[x].m_was_clean
      /\ con'[x].ec # "protocol"
  BY <1>1, OtherEnd DEF Agree
<1>3. \A y \in Ends : wire'[y] \in {wire[y], <<>>}
  BY DEF PairInv, Types
<1> QED BY <1>1, <1>2, <1>3 DEF Agree, Meant

\* close() of the application.
LEMMA CloseAgrees ==
  ASSUME Pair, OwnReasons, PairInv, AgreeInv, NEW e \in Ends, NEW code \in Codes,
         NEW reason \in Reasons, Close(e, code, reason)
  PROVE  AgreeInv'
<1> DEFINE o == Other(e)
           c == con[e]
           r == Truncated(reason)
           l == LocalCode(c, code, r, FALSE)
<1>1. /\ c.m_state = "open" /\ UNCHANGED <<wire, sent>> /\ asked' = asked \cup {e}
      /\ SendCloseFrame(e, c, code, r, FALSE, terminal(code))
  BY DEF Close, MayClose
<1>2. c \in Connections /\ queue[e] = <<>> /\ sent[e] = <<>>
  BY <1>1 DEF PairInv, Types, OneFrame
<1>3. l \in Infos /\ l.reason # Message
  <2>1. code \in Nat /\ r \in Seq(Bytes) /\ r # Message /\ <<>> \in Seq(Bytes)
    BY CodesAreNumbers, EmptySeq DEF Pair, OwnReasons
  <2>2. l \in {Said(no_status, <<>>), Said(code, r)}
    BY DEF LocalCode, Pair
  <2>3. /\ Said(no_status, <<>>) \in Infos /\ Said(no_status, <<>>).reason = <<>>
        /\ Said(code, r) \in Infos /\ Said(code, r).reason = r
    BY <2>1 DEF Said, Infos, no_status
  <2> QED BY <2>1, <2>2, <2>3, EmptyIsNotMessage
<1>4. terminal(code) \in BOOLEAN
  BY DEF terminal
<1>5. SendCloseFrame(e, c, code, r, FALSE, terminal(code))
  BY <1>1
<1> HIDE DEF l, r, c
<1>6. /\ con'[e].remote = c.remote /\ con'[e].ec = c.ec
      /\ con'[o] = con[o] /\ queue'[o] = queue[o]
      /\ \/ queue'[e] = <<>> /\ con'[e].m_was_clean = c.m_was_clean
         \/ /\ queue'[e] # <<>> /\ con'[e].m_was_clean = (c.m_was_clean \/ FALSE)
            /\ queue'[e][1].payload = prepare_close(l)
  BY <1>2, <1>3, <1>4, <1>5, SendQueues DEF l
<1>7. c.m_was_clean \in BOOLEAN
  BY <1>2 DEF Connections
<1>8. con'[e].m_was_clean = c.m_was_clean
  BY <1>6, <1>7, Zenon
<1>9. Agree(e) /\ Agree(o) /\ o \in Ends /\ o # e /\ Other(o) = e
  BY OtherEnd DEF AgreeInv
<1>10. queue'[e] # <<>> => Proper(queue'[e][1].payload)
  BY <1>3, <1>6, PreparedProper
<1>11. Agree(e)'
  BY <1>1, <1>2, <1>6, <1>8, <1>9, <1>10 DEF Agree, Meant, c
<1>12. Agree(o)'
  BY <1>1, <1>2, <1>6, <1>8, <1>9 DEF Agree, Meant, c
<1> QED BY <1>11, <1>12, OtherEnd DEF AgreeInv

\* An end writes its frame: it is on its way, unheard.
LEMMA WriteAgrees ==
  ASSUME PairInv, AgreeInv, NEW e \in Ends, Write(e)
  PROVE  AgreeInv'
<1> DEFINE o == Other(e)
           m == queue[e][1]
<1>1. /\ queue[e] \in Seq(Messages) /\ queue[e] # <<>> /\ sent[e] \in Seq(Payloads)
      /\ Len(sent[e]) + Len(queue[e]) <= 1
  BY DEF PairInv, Types, OneFrame, Write
<1>2. sent[e] = <<>> /\ m \in Messages /\ Head(queue[e]) = m /\ Tail(queue[e]) = <<>>
  BY <1>1, OneLeft
<1>3. Agree(e) /\ Agree(o) /\ o \in Ends /\ o # e /\ Other(o) = e
  BY OtherEnd DEF AgreeInv
<1>4. wire[e] = <<>>
  BY <1>2, <1>3 DEF Agree
<1>5. /\ con \in [Ends -> Connections] /\ queue \in [Ends -> Seq(Messages)]
      /\ wire \in [Ends -> Seq(Payloads)] /\ sent \in [Ends -> Seq(Payloads)]
  BY DEF PairInv, Types
<1>6. m.payload \in Payloads
  BY <1>2 DEF Messages
<1>7. /\ queue'[e] = <<>> /\ queue'[o] = queue[o] /\ asked' = asked
      /\ sent'[e] = <<m.payload>> /\ sent'[o] = sent[o]
      /\ wire'[e] = <<m.payload>> /\ wire'[o] = wire[o]
  <2>1. /\ wire' = [wire EXCEPT ![e] = Append(wire[e], m.payload)]
        /\ sent' = [sent EXCEPT ![e] = Append(sent[e], m.payload)]
        /\ queue' = [queue EXCEPT ![e] = <<>>] /\ asked' = asked
    BY <1>2 DEF Write
  <2>2. Append(<<>>, m.payload) = <<m.payload>>
    BY <1>6, SingleSeq
  <2> HIDE DEF m
  <2> QED BY <1>2, <1>3, <1>4, <1>5, <2>1, <2>2
<1>8. <<m.payload>> # <<>> /\ <<m.payload>>[1] = m.payload
  BY <1>6, SingleSeq
<1>9. /\ con'[o] = con[o] /\ con'[e].remote = con[e].remote /\ con'[e].ec = con[e].ec
      /\ con'[e].m_was_clean = con[e].m_was_clean
  <2>1. con' = [con EXCEPT ![e] = Terminated(con[e], "none")] \/ con' = con
    BY DEF Write
  <2>2. /\ Terminated(con[e], "none").remote = con[e].remote
        /\ Terminated(con[e], "none").ec = con[e].ec
        /\ Terminated(con[e], "none").m_was_clean = con[e].m_was_clean
    BY <1>5 DEF Terminated, Connections
  <2> QED BY <1>3, <1>5, <2>1, <2>2
<1> HIDE DEF m
<1>10. Meant(e, m.payload)
  BY <1>1, <1>3 DEF Agree, m
<1>11. queue[o] = <<>> \/ o \in asked
  BY <1>2, <1>3 DEF Agree, Meant
<1>12. sent[o] = <<>> \/ o \in asked
  BY <1>2, <1>3 DEF Agree, Meant
<1>13. Agree(e)'
  BY <1>3, <1>7, <1>8, <1>9, <1>10 DEF Agree, Meant
<1>14. con[o].remote = Unset /\ ~con[o].m_was_clean
  BY <1>2, <1>3 DEF Agree
<1>15. Agree(o)'
  BY <1>3, <1>7, <1>8, <1>9, <1>11, <1>12, <1>14 DEF Agree, Meant
<1> QED BY <1>13, <1>15, OtherEnd DEF AgreeInv

\* An end hears the frame of the other, and may acknowledge it.
LEMMA ReceiveAgrees ==
  ASSUME Pair, PairInv, AgreeInv, NEW e \in Ends, Receive(e)
  PROVE  AgreeInv'
<1> DEFINE o == Other(e)
           p == Head(wire[o])
           c == Heard(con[e], p)
<1>1. /\ wire[o] # <<>> /\ wire' = [wire EXCEPT ![o] = Tail(@)]
      /\ UNCHANGED <<sent, asked>>
  BY DEF Receive
<1>2. Agree(e) /\ Agree(o) /\ o \in Ends /\ o # e /\ Other(o) = e
  BY OtherEnd DEF AgreeInv
<1>3. wire[o] = sent[o] /\ sent[o] \in Seq(Payloads) /\ wire[o] \in Seq(Payloads)
  BY <1>1, <1>2 DEF Agree, PairInv, Types
<1>4. /\ Len(wire[o]) = 1 /\ p = sent[o][1] /\ Tail(wire[o]) = <<>> /\ p \in Payloads /\ Fits(p)
  <2>1. Len(sent[o]) + Len(queue[o]) <= 1 /\ queue[o] \in Seq(Messages)
    BY <1>2 DEF PairInv, Types, OneFrame
  <2>2. Len(wire[o]) = 1
    <3>1. Len(queue[o]) \in Nat
      BY <2>1
    <3>2. Len(wire[o]) \in Nat
      BY <1>3
    <3>3. Len(wire[o]) # 0
      BY <1>1, <1>3
    <3>4. Len(wire[o]) + Len(queue[o]) <= 1
      BY <1>3, <2>1
    <3> QED BY <3>1, <3>2, <3>3, <3>4, SmallSum
  <2>3. /\ p = wire[o][1] /\ p \in Payloads /\ 1 \in 1 .. Len(wire[o])
        /\ Tail(wire[o]) \in Seq(Payloads) /\ Len(Tail(wire[o])) = 0
    BY <1>1, <1>3, <2>2
  <2>4. Tail(wire[o]) = <<>>
    BY <2>3, NoneLeft
  <2>5. Fits(p)
    BY <1>2, <2>3 DEF PairInv, OneFrame
  <2> QED BY <1>3, <2>2, <2>3, <2>4, <2>5
<1>5. wire'[o] = <<>> /\ wire'[e] = wire[e]
  BY <1>1, <1>2, <1>4 DEF PairInv, Types
<1>6. con[e] \in Connections /\ con \in [Ends -> Connections] /\ queue \in [Ends -> Seq(Messages)]
  BY DEF PairInv, Types
<1>7. /\ c \in Connections /\ c.remote = Content(p) /\ c.m_state = con[e].m_state
      /\ c.ec = con[e].ec /\ Content(p) \in Infos
  <2>1. Content(p) \in Infos
    BY <1>4 DEF Content, Said, Infos, Payloads
  <2>2. c = [con[e] EXCEPT !.remote = Content(p)]
    BY <1>4 DEF Heard, extract_code, Fits, Content
  <2> QED BY <1>6, <2>1, <2>2 DEF Connections
<1>8. Proper(p) /\ sent[o] # <<>>
  BY <1>1, <1>2, <1>3, <1>4 DEF Agree, Meant
<1>9. IF c.m_state = "open"
        THEN SendCloseFrame(e, c, blank, <<>>, TRUE, e = "server")
        ELSE /\ con' = [con EXCEPT ![e] = IF c.m_was_clean THEN c ELSE Acknowledged(e, c)]
             /\ UNCHANGED queue
  BY <1>4 DEF Receive, Fits
<1> HIDE DEF c, p
<1>10. /\ con'[o] = con[o] /\ queue'[o] = queue[o]
       /\ con'[e].remote = Content(p) /\ con'[e].ec # "protocol"
       /\ queue'[e] # <<>> => queue'[e][1].payload = AnswerTo(p) \/ queue'[e] = queue[e]
  <2>0. c.ec # "protocol"
    BY <1>2, <1>7 DEF Agree
  <2>1. CASE c.m_state = "open"
    <3>1. queue[e] = <<>>
      BY <1>7, <2>1 DEF PairInv, OneFrame
    <3>2. LocalCode(c, blank, <<>>, TRUE) \in Infos
      <4>1. <<>> \in Seq(Bytes)
        BY EmptySeq
      <4>2. Said(normal, <<>>) \in Infos
        BY <4>1 DEF Said, Infos, normal
      <4> QED BY <1>7, <4>2 DEF LocalCode, Pair
    <3> DEFINE last == e = "server"
               none == <<>>
               yes == TRUE
    <3>3. /\ SendCloseFrame(e, c, blank, none, yes, last) /\ yes \in BOOLEAN
          /\ LocalCode(c, blank, none, yes) \in Infos
      BY <1>9, <2>1, <3>2
    <3>4. last \in BOOLEAN
      BY Zenon
    <3> HIDE DEF last, none, yes
    <3>5. /\ con'[e].remote = c.remote /\ con'[e].ec = c.ec
          /\ con'[Other(e)] = con[Other(e)] /\ queue'[Other(e)] = queue[Other(e)]
          /\ \/ queue'[e] = <<>> /\ con'[e].m_was_clean = c.m_was_clean
             \/ /\ queue'[e] # <<>> /\ con'[e].m_was_clean = (c.m_was_clean \/ yes)
                /\ queue'[e][1].payload = prepare_close(LocalCode(c, blank, none, yes))
      BY <1>7, <3>1, <3>3, <3>4, SendQueues
    <3>6. prepare_close(LocalCode(c, blank, <<>>, TRUE)) = AnswerTo(p)
      BY <1>4, <1>7, <1>8, AnswerPrepared
    <3> QED BY <1>7, <2>0, <3>5, <3>6 DEF none, yes
  <2>2. CASE c.m_state # "open"
    <3>1. con' = [con EXCEPT ![e] = IF c.m_was_clean THEN c ELSE Acknowledged(e, c)] /\ queue' = queue
      BY <1>9, <2>2
    <3>2. Acknowledged(e, c).remote = c.remote /\ Acknowledged(e, c).ec = c.ec
      BY <1>7 DEF Acknowledged, Terminated, Connections
    <3> QED BY <1>2, <1>6, <1>7, <2>0, <3>1, <3>2
  <2> QED BY <2>1, <2>2
<1>11. Proper(AnswerTo(p))
  BY <1>4, <1>7, <1>8, AnswerPrepared
<1>12. Agree(e)'
  <2>1. (queue[e] # <<>> => Meant(e, queue[e][1].payload))'
    BY <1>1, <1>2, <1>4, <1>8, <1>10, <1>11 DEF Agree, Meant
  <2>2. (sent[e] # <<>> => Meant(e, sent[e][1]))'
    BY <1>1, <1>2 DEF Agree, Meant
  <2> QED BY <1>1, <1>2, <1>4, <1>5, <1>8, <1>10, <2>1, <2>2 DEF Agree
<1>13. Agree(o)'
  BY <1>1, <1>2, <1>5, <1>10 DEF Agree, Meant
<1> QED BY <1>12, <1>13, OtherEnd DEF AgreeInv

LEMMA AgreeInit == ASSUME Init PROVE AgreeInv
<1> SUFFICES ASSUME NEW e \in Ends PROVE Agree(e)
  BY DEF AgreeInv
<1>1. Other(e) \in Ends
  BY OtherEnd
<1>2. /\ queue[e] = <<>> /\ sent[e] = <<>> /\ wire[e] = <<>>
      /\ con[e].remote = Unset /\ con[e].m_was_clean = FALSE /\ con[e].ec = "none"
  BY DEF Init
<1>3. sent[Other(e)] = <<>>
  BY <1>1 DEF Init
<1> QED BY <1>1, <1>2, <1>3 DEF Agree

\* terminate() of an end, for any reason but the other's close frame.
LEMMA EndAgrees ==
  ASSUME PairInv, AgreeInv, NEW e \in Ends, UNCHANGED <<queue, sent, asked>>,
         NEW error \in Errors \ {"protocol"},
         con' = [con EXCEPT ![e] = Terminated(con[e], error)],
         wire' = wire \/ wire' = [wire EXCEPT ![Other(e)] = <<>>]
  PROVE  AgreeInv'
<1> DEFINE d == Terminated(con[e], error)
<1>1. con \in [Ends -> Connections] /\ con[e].ec # "protocol" /\ Other(e) \in Ends /\ Other(e) # e
  BY OtherEnd DEF PairInv, Types, AgreeInv, Agree
<1>2. /\ d.remote = con[e].remote /\ d.m_was_clean = con[e].m_was_clean
      /\ d.ec # "protocol"
  BY <1>1 DEF Terminated, Connections
<1> HIDE DEF d
<1>3. con'[e] = d /\ con'[Other(e)] = con[Other(e)]
  BY <1>1 DEF d
<1> QED BY <1>2, <1>3, QuietAgrees

LEMMA AgreeKeeps ==
  ASSUME Pair, OwnReasons, PairInv, AgreeInv, [Next]_vars
  PROVE  AgreeInv'
<1>1. CASE UNCHANGED vars
  BY <1>1 DEF vars, AgreeInv, Agree, Meant
<1>2. ASSUME NEW e \in Ends, End(e) PROVE AgreeInv'
  <2>1. ASSUME NEW code \in Codes, NEW reason \in Reasons, Close(e, code, reason)
        PROVE  AgreeInv'
    BY <2>1, CloseAgrees
  <2>2. CASE Write(e)
    BY <2>2, WriteAgrees
  <2>3. CASE Receive(e)
    BY <2>3, ReceiveAgrees
  <2>4. CASE ReadEof(e)
    <3> DEFINE error == IF con[e].m_state = "closing" /\ e = "client" THEN "none" ELSE "eof"
    <3>1. error \in Errors \ {"protocol"} /\ con' = [con EXCEPT ![e] = Terminated(con[e], error)]
      BY <2>4 DEF ReadEof, Errors
    <3>2. UNCHANGED <<queue, sent, asked, wire>>
      BY <2>4 DEF ReadEof
    <3> HIDE DEF error
    <3> QED BY <3>1, <3>2, EndAgrees
  <2>5. CASE Timeout(e)
    <3>1. con' = [con EXCEPT ![e] = Terminated(con[e], "timeout")] /\ UNCHANGED <<queue, sent, asked, wire>>
      BY <2>5 DEF Timeout
    <3> QED BY <3>1, EndAgrees DEF Errors
  <2>6. CASE TransportFails(e)
    <3>1. /\ con' = [con EXCEPT ![e] = Terminated(con[e], "transport")]
          /\ UNCHANGED <<queue, sent, asked>> /\ wire' = [wire EXCEPT ![Other(e)] = <<>>]
      BY <2>6 DEF TransportFails
    <3> QED BY <3>1, EndAgrees DEF Errors
  <2>7. CASE HandleTerminate(e)
    BY <2>7 DEF HandleTerminate, AgreeInv, Agree, Meant
  <2>8. CASE ForeignFrame(e) \/ ForeignDrop(e)
    BY <2>8 DEF ForeignFrame, ForeignDrop, Pair
  <2> QED BY <1>2, <2>1, <2>2, <2>3, <2>4, <2>5, <2>6, <2>7, <2>8 DEF End
<1> QED BY <1>1, <1>2 DEF Next

\* A payload that is proper has a code exactly if it is not empty.
LEMMA ProperCode ==
  ASSUME NEW p, Proper(p)
  PROVE  (p.code = no_status <=> p = Empty) /\ p # Payload(protocol_error, Message)
<1>1. Empty.code = no_status
  BY DEF Empty
<1>2. Payload(protocol_error, Message).reason = Message
  BY DEF Payload
<1> QED BY <1>1, <1>2 DEF Proper

\* What agreement of the ends means for what they report.
LEMMA AgreeIsMutual == ASSUME PairInv, AgreeInv PROVE CodesAgree
<1>1. ASSUME NEW e \in Ends PROVE sent[e] # <<>> => Len(sent[e]) = 1 /\ Meant(e, sent[e][1])
  <2>1. Len(sent[e]) + Len(queue[e]) <= 1 /\ sent[e] \in Seq(Payloads) /\ queue[e] \in Seq(Messages)
    BY DEF PairInv, Types, OneFrame
  <2>2. Len(sent[e]) \in Nat
    BY <2>1
  <2>3. Len(queue[e]) \in Nat
    BY <2>1
  <2>4. sent[e] # <<>> => Len(sent[e]) # 0
    BY <2>1
  <2>5. sent[e] # <<>> => Meant(e, sent[e][1])
    BY DEF AgreeInv, Agree
  <2> QED BY <2>1, <2>2, <2>3, <2>4, <2>5, SmallSum
<1>2. ASSUME NEW e \in Ends, con[e].m_was_clean
      PROVE  con[e].remote = Content(sent[Other(e)][1]) /\ sent[Other(e)] # <<>>
  BY <1>2 DEF AgreeInv, Agree
<1>3. HeardTruly
  BY <1>2 DEF HeardTruly, Clean, Content
<1>4. AnswerEchoes
  <2> SUFFICES ASSUME NEW e \in Ends, con[e].m_was_clean, asked = {e}, sent[e] # <<>>
               PROVE  con[e].remote = IF sent[e][1] = Empty THEN Said(normal, <<>>)
                                      ELSE Said(sent[e][1].code, sent[e][1].reason)
    BY DEF AnswerEchoes, Clean
  <2> DEFINE o == Other(e)
             p == sent[e][1]
  <2>1. o \in Ends /\ o \notin asked /\ Other(o) = e
    BY OtherEnd
  <2>2. Meant(e, p) /\ Meant(o, sent[o][1])
    BY <1>1, <1>2, <2>1
  <2>3. sent[o][1] = AnswerTo(p) /\ Proper(p)
    BY <2>1, <2>2 DEF Meant
  <2>4. con[e].remote = Content(AnswerTo(p))
    BY <1>2, <2>3
  <2> HIDE DEF p
  <2>5. p.code = no_status <=> p = Empty
    BY <2>3, ProperCode
  <2>6. /\ Content(Payload(normal, <<>>)) = Said(normal, <<>>)
        /\ Content(Payload(p.code, p.reason)) = Said(p.code, p.reason)
    BY DEF Content, Payload
  <2> QED BY <2>4, <2>5, <2>6 DEF AnswerTo, p
<1>5. CloseUnderstood
  <2> SUFFICES ASSUME NEW e \in Ends
               PROVE  /\ con[e].ec # "protocol"
                      /\ \A i \in DOMAIN sent[e] : sent[e][i] # Payload(protocol_error, Message)
    BY DEF CloseUnderstood
  <2>1. con[e].ec # "protocol"
    BY DEF AgreeInv, Agree
  <2>2. ASSUME NEW i \in DOMAIN sent[e] PROVE sent[e][i] # Payload(protocol_error, Message)
    <3>1. sent[e] \in Seq(Payloads)
      BY DEF PairInv, Types
    <3>2. i \in 1 .. Len(sent[e]) /\ sent[e] # <<>>
      BY <2>2, <3>1
    <3>3. i = 1 /\ Proper(sent[e][1])
      BY <1>1, <3>2 DEF Meant
    <3> QED BY <3>3, ProperCode
  <2> QED BY <2>1, <2>2
<1> QED BY <1>3, <1>4, <1>5 DEF CodesAgree

\* Between two ends of the library, whoever closes first and whatever fails,
\* what one end reports is what the other sent, an acknowledgement repeats the
\* request, and no end finds fault with the frame of the other.
THEOREM PairCodesAgree == Pair /\ OwnReasons => (Spec => []CodesAgree)
<1> SUFFICES ASSUME Pair, OwnReasons PROVE Spec => []CodesAgree
  OBVIOUS
<1>1. Init => PairInv /\ AgreeInv
  BY PairInit, AgreeInit
<1>2. PairInv /\ AgreeInv /\ [Next]_vars => (PairInv /\ AgreeInv)'
  BY StepKeeps, AgreeKeeps
<1>3. PairInv /\ AgreeInv => CodesAgree
  BY AgreeIsMutual
<1> QED BY <1>1, <1>2, <1>3, PTL DEF Spec

------------------------------------------------------------------------------
(* PingKeepalive: the pings of a connection and their timers *)

\* The application pings from one thread, or waits for the pong of a ping
\* before it sends the next.
OneAtOnce == ~Overlap \/ \A t, u \in Threads : t = u

TimerOfPing == {"unset", "running", "cancelled", "expired", "done"}
KeepaliveTypes ==
  /\ open \in BOOLEAN
  /\ pinger \in [Threads -> {"idle", "cancel", "arm", "push"}]
  /\ payload \in [Threads -> Pings \cup {None}]
  /\ current \in Pings \cup {None}
  /\ timers \in [Pings -> TimerOfPing]
  /\ pinged \subseteq Pings /\ answered \subseteq pinged
  /\ overdue \subseteq Pings

\* One thread at most is in ping().
OnePinger == \A t, u \in Threads : pinger[t] # "idle" /\ pinger[u] # "idle" => t = u

\* A ping under way is new, and no other timer runs when its own is started.
NewPing(t) ==
  /\ pinger[t] # "idle" => payload[t] \in Pings \ pinged
  /\ pinger[t] = "idle" => payload[t] \in pinged \cup {None}
  /\ pinger[t] \in {"cancel", "arm"} => timers[payload[t]] = "unset"
  /\ pinger[t] = "arm" => \A p \in Pings : timers[p] # "running"

\* A timer that runs is the one m_ping_timer designates, and its ping was not
\* answered; one that has expired did so before the pong came.
PingTimer(p) ==
  /\ timers[p] # "unset" => p \in Used
  /\ timers[p] = "running" => p = current /\ p \notin answered
  /\ timers[p] = "expired" => p \in overdue

KeepaliveInv ==
  /\ KeepaliveTypes
  /\ OnePinger
  /\ \A t \in Threads : NewPing(t)
  /\ \A p \in Pings : PingTimer(p)
  /\ NoFalseAlarm

LEMMA NoneIsNoPing == KeepaliveAssumption => None \notin Pings
  BY DEF KeepaliveAssumption, None, Pings

\* What cancel() of the current timer leaves: no timer that runs.
LEMMA CancelledCurrent ==
  ASSUME KeepaliveAssumption, KeepaliveInv
  PROVE  /\ Cancelled(current) \in [Pings -> TimerOfPing]
         /\ \A p \in Pings : Cancelled(current)[p] # "running"
         /\ \A p \in Pings : Cancelled(current)[p] \in {timers[p], "cancelled"}
         /\ \A p \in Pings : timers[p] \in {"unset", "expired"} <=> Cancelled(current)[p] \in {"unset", "expired"}
<1>1. /\ timers \in [Pings -> TimerOfPing] /\ current \in Pings \cup {None}
      /\ \A p \in Pings : timers[p] = "running" => p = current
  BY DEF KeepaliveInv, KeepaliveTypes, PingTimer
<1>2. CASE current # None /\ timers[current] = "running"
  BY <1>1, <1>2 DEF Cancelled, TimerOfPing
<1>3. CASE ~(current # None /\ timers[current] = "running")
  <2>1. Cancelled(current) = timers
    BY <1>3 DEF Cancelled
  <2>2. QED
    BY <1>1, <1>3, <2>1, NoneIsNoPing
<1>4. QED
  BY <1>2, <1>3

LEMMA KeepaliveStart == ASSUME KeepaliveAssumption, PingInit PROVE KeepaliveInv
  BY NoneIsNoPing DEF PingInit, KeepaliveInv, KeepaliveTypes, OnePinger, NewPing, PingTimer, NoFalseAlarm,
     TimerOfPing

LEMMA PingKeeps ==
  ASSUME KeepaliveAssumption, OneAtOnce, KeepaliveInv, NEW t \in Threads, Ping(t)
  PROVE  KeepaliveInv'
<1>1. PICK p \in Pings : p \notin Used /\ payload' = [payload EXCEPT ![t] = p]
  BY DEF Ping
<1>2. /\ pinger[t] = "idle" /\ pinger' = [pinger EXCEPT ![t] = "cancel"]
      /\ UNCHANGED <<open, current, timers, pinged, answered, overdue, timedOut>>
  BY DEF Ping
<1>3. \A u \in Threads : pinger[u] = "idle"
  BY <1>2 DEF Ping, OneAtOnce
<1>4. KeepaliveTypes /\ NoFalseAlarm /\ (\A u \in Threads : NewPing(u)) /\ (\A q \in Pings : PingTimer(q))
  BY DEF KeepaliveInv
<1>5. KeepaliveTypes' /\ NoFalseAlarm'
  BY <1>1, <1>2, <1>4 DEF KeepaliveTypes, NoFalseAlarm
<1>6. OnePinger'
  BY <1>2, <1>3, <1>4 DEF KeepaliveTypes, OnePinger
<1>7. ASSUME NEW u \in Threads PROVE NewPing(u)'
  <2>1. CASE u = t
    <3>1. payload'[t] = p /\ pinger'[t] = "cancel" /\ p \notin pinged /\ timers[p] = "unset"
      BY <1>1, <1>2, <1>4 DEF KeepaliveTypes, Used, PingTimer
    <3>2. QED
      BY <1>2, <2>1, <3>1 DEF NewPing
  <2>2. CASE u # t
    BY <1>1, <1>2, <1>4, <2>2 DEF KeepaliveTypes, NewPing
  <2>3. QED
    BY <2>1, <2>2
<1>8. ASSUME NEW q \in Pings PROVE PingTimer(q)'
  <2>1. q \in Used => q \in Used'
    <3>1. ASSUME NEW u \in Threads, payload[u] = q PROVE q \in Used'
      BY <1>1, <1>2, <1>3, <1>4, <3>1, NoneIsNoPing DEF KeepaliveTypes, NewPing, Used
    <3>2. QED
      BY <1>2, <3>1 DEF Used
  <2>2. QED
    BY <1>2, <1>4, <2>1 DEF PingTimer
<1>9. QED
  BY <1>5, <1>6, <1>7, <1>8 DEF KeepaliveInv

LEMMA CancelTimerKeeps ==
  ASSUME KeepaliveAssumption, KeepaliveInv, NEW t \in Threads, CancelTimer(t)
  PROVE  KeepaliveInv'
<1>1. /\ pinger[t] = "cancel" /\ pinger' = [pinger EXCEPT ![t] = "arm"] /\ timers' = Cancelled(current)
      /\ UNCHANGED <<open, payload, current, pinged, answered, overdue, timedOut>>
  BY DEF CancelTimer
<1>2. KeepaliveTypes /\ OnePinger /\ NoFalseAlarm /\ (\A u \in Threads : NewPing(u)) /\ (\A q \in Pings : PingTimer(q))
  BY DEF KeepaliveInv
<1>3. KeepaliveTypes' /\ NoFalseAlarm' /\ Used' = Used
  BY <1>1, <1>2, CancelledCurrent DEF KeepaliveTypes, NoFalseAlarm, Used
<1>4. OnePinger'
  BY <1>1, <1>2 DEF KeepaliveTypes, OnePinger
<1>5. ASSUME NEW u \in Threads PROVE NewPing(u)'
  <2>1. CASE u = t
    <3>1. pinger'[t] = "arm" /\ payload[t] \in Pings \ pinged /\ timers[payload[t]] = "unset"
      BY <1>1, <1>2 DEF KeepaliveTypes, NewPing
    <3>2. timers'[payload[t]] = "unset"
      BY <1>1, <3>1, CancelledCurrent
    <3>3. QED
      BY <1>1, <2>1, <3>1, <3>2, CancelledCurrent DEF NewPing
  <2>2. CASE u # t
    <3>1. pinger[u] = "idle" /\ pinger'[u] = "idle"
      BY <1>1, <1>2, <2>2 DEF KeepaliveTypes, OnePinger
    <3>2. QED
      BY <1>1, <1>2, <3>1 DEF NewPing
  <2>3. QED
    BY <2>1, <2>2
<1>6. ASSUME NEW q \in Pings PROVE PingTimer(q)'
  BY <1>1, <1>2, <1>3, CancelledCurrent DEF PingTimer
<1>7. QED
  BY <1>3, <1>4, <1>5, <1>6 DEF KeepaliveInv

LEMMA ArmTimerKeeps ==
  ASSUME KeepaliveInv, NEW t \in Threads, ArmTimer(t)
  PROVE  KeepaliveInv'
<1>1. /\ pinger[t] = "arm" /\ pinger' = [pinger EXCEPT ![t] = "push"]
      /\ timers' = [timers EXCEPT ![payload[t]] = "running"] /\ current' = payload[t]
      /\ UNCHANGED <<open, payload, pinged, answered, overdue, timedOut>>
  BY DEF ArmTimer
<1>2. KeepaliveTypes /\ OnePinger /\ NoFalseAlarm /\ (\A u \in Threads : NewPing(u)) /\ (\A q \in Pings : PingTimer(q))
  BY DEF KeepaliveInv
<1>3. /\ payload[t] \in Pings \ pinged /\ timers[payload[t]] = "unset"
      /\ \A p \in Pings : timers[p] # "running"
  BY <1>1, <1>2 DEF NewPing
<1>4. KeepaliveTypes' /\ NoFalseAlarm' /\ Used' = Used
  BY <1>1, <1>2, <1>3 DEF KeepaliveTypes, NoFalseAlarm, Used, TimerOfPing
<1>5. OnePinger'
  BY <1>1, <1>2 DEF KeepaliveTypes, OnePinger
<1>6. ASSUME NEW u \in Threads PROVE NewPing(u)'
  <2>1. CASE u = t
    BY <1>1, <1>2, <1>3, <2>1 DEF KeepaliveTypes, NewPing
  <2>2. CASE u # t
    <3>1. pinger[u] = "idle" /\ pinger'[u] = "idle"
      BY <1>1, <1>2, <2>2 DEF KeepaliveTypes, OnePinger
    <3>2. QED
      BY <1>1, <1>2, <3>1 DEF NewPing
  <2>3. QED
    BY <2>1, <2>2
<1>7. ASSUME NEW q \in Pings PROVE PingTimer(q)'
  <2>1. CASE q = payload[t]
    <3>1. q \in Used
      BY <2>1 DEF Used
    <3>2. q \notin answered /\ timers'[q] = "running"
      BY <1>1, <1>2, <1>3, <2>1 DEF KeepaliveTypes
    <3>3. QED
      BY <1>1, <1>4, <2>1, <3>1, <3>2 DEF PingTimer
  <2>2. CASE q # payload[t]
    <3>1. timers'[q] = timers[q] /\ timers[q] # "running"
      BY <1>1, <1>2, <1>3, <2>2 DEF KeepaliveTypes
    <3>2. QED
      BY <1>1, <1>2, <1>4, <3>1 DEF PingTimer
  <2>3. QED
    BY <2>1, <2>2
<1>8. QED
  BY <1>4, <1>5, <1>6, <1>7 DEF KeepaliveInv

LEMMA PushKeeps ==
  ASSUME KeepaliveInv, NEW t \in Threads, Push(t)
  PROVE  KeepaliveInv'
<1>1. /\ pinger[t] = "push" /\ pinger' = [pinger EXCEPT ![t] = "idle"] /\ pinged' = pinged \cup {payload[t]}
      /\ UNCHANGED <<open, payload, current, timers, answered, overdue, timedOut>>
  BY DEF Push
<1>2. KeepaliveTypes /\ OnePinger /\ NoFalseAlarm /\ (\A u \in Threads : NewPing(u)) /\ (\A q \in Pings : PingTimer(q))
  BY DEF KeepaliveInv
<1>3. payload[t] \in Pings
  BY <1>1, <1>2 DEF NewPing
<1>4. KeepaliveTypes' /\ NoFalseAlarm' /\ Used \subseteq Used'
  BY <1>1, <1>2, <1>3 DEF KeepaliveTypes, NoFalseAlarm, Used
<1>5. OnePinger'
  BY <1>1, <1>2 DEF KeepaliveTypes, OnePinger
<1>6. ASSUME NEW u \in Threads PROVE NewPing(u)'
  <2>1. pinger'[u] = "idle"
    BY <1>1, <1>2 DEF KeepaliveTypes, OnePinger
  <2>2. payload[u] \in pinged' \cup {None}
    BY <1>1, <1>2, <2>1 DEF KeepaliveTypes, OnePinger, NewPing
  <2>3. QED
    BY <1>1, <2>1, <2>2 DEF NewPing
<1>7. ASSUME NEW q \in Pings PROVE PingTimer(q)'
  BY <1>1, <1>2, <1>4 DEF PingTimer
<1>8. QED
  BY <1>4, <1>5, <1>6, <1>7 DEF KeepaliveInv

LEMMA PongKeeps ==
  ASSUME KeepaliveAssumption, KeepaliveInv, NEW p \in Pings \cup {None}, Pong(p)
  PROVE  KeepaliveInv'
<1>1. /\ answered' = IF p = None THEN answered ELSE answered \cup {p}
      /\ timers' = Cancelled(current)
      /\ p = None \/ p \in pinged
      /\ UNCHANGED <<open, pinger, payload, current, pinged, overdue, timedOut>>
  BY DEF Pong
<1>2. KeepaliveTypes /\ OnePinger /\ NoFalseAlarm /\ (\A u \in Threads : NewPing(u)) /\ (\A q \in Pings : PingTimer(q))
  BY DEF KeepaliveInv
<1>3. KeepaliveTypes' /\ NoFalseAlarm' /\ Used' = Used /\ OnePinger'
  BY <1>1, <1>2, CancelledCurrent DEF KeepaliveTypes, NoFalseAlarm, Used, OnePinger
<1>4. ASSUME NEW u \in Threads PROVE NewPing(u)'
  <2>1. ASSUME pinger[u] \in {"cancel", "arm"} PROVE timers'[payload[u]] = "unset"
    <3>1. payload[u] \in Pings /\ timers[payload[u]] = "unset"
      BY <1>2, <2>1 DEF NewPing
    <3>2. QED
      BY <1>1, <3>1, CancelledCurrent
  <2>2. QED
    BY <1>1, <1>2, <2>1, CancelledCurrent DEF NewPing
<1>5. ASSUME NEW q \in Pings PROVE PingTimer(q)'
  BY <1>1, <1>2, <1>3, CancelledCurrent DEF PingTimer
<1>6. QED
  BY <1>3, <1>4, <1>5 DEF KeepaliveInv

LEMMA ExpiryKeeps ==
  ASSUME KeepaliveInv, NEW p \in Pings, Expires(p) \/ PongTimeout(p)
  PROVE  KeepaliveInv'
<1>1. KeepaliveTypes /\ OnePinger /\ NoFalseAlarm /\ (\A u \in Threads : NewPing(u)) /\ (\A q \in Pings : PingTimer(q))
  BY DEF KeepaliveInv
<1>2. /\ timers[p] \in {"running", "expired"} /\ UNCHANGED <<open, pinger, payload, current, pinged, answered>>
      /\ \A q \in Pings : q # p => timers'[q] = timers[q]
      /\ timers'[p] \in {"expired", "done"} /\ overdue \subseteq overdue' /\ overdue' \subseteq overdue \cup {p}
      /\ timers'[p] = "expired" => p \in overdue'
      /\ timers' \in [Pings -> TimerOfPing]
  BY <1>1 DEF KeepaliveTypes, PingTimer, Expires, PongTimeout, TimerOfPing
<1>3. timedOut' \subseteq overdue'
  BY <1>1, <1>2 DEF Expires, PongTimeout, PingTimer, NoFalseAlarm
<1>4. KeepaliveTypes' /\ NoFalseAlarm' /\ Used' = Used /\ OnePinger'
  BY <1>1, <1>2, <1>3 DEF KeepaliveTypes, NoFalseAlarm, Used, OnePinger
<1>5. ASSUME NEW u \in Threads PROVE NewPing(u)'
  BY <1>1, <1>2 DEF NewPing
<1>6. ASSUME NEW q \in Pings PROVE PingTimer(q)'
  BY <1>1, <1>2, <1>4 DEF PingTimer
<1>7. QED
  BY <1>4, <1>5, <1>6 DEF KeepaliveInv

\* PingKeepalive: while pings are made one at once a running timer belongs to
\* the last of them, and to no ping that was answered.
THEOREM PingsHaveTimers == KeepaliveAssumption /\ OneAtOnce => (PingSpec => []KeepaliveInv)
<1> SUFFICES ASSUME KeepaliveAssumption, OneAtOnce PROVE PingSpec => []KeepaliveInv
  OBVIOUS
<1>1. PingInit => KeepaliveInv
  BY KeepaliveStart
<1>2. KeepaliveInv /\ [PingNext]_pingVars => KeepaliveInv'
  <2> SUFFICES ASSUME KeepaliveInv, [PingNext]_pingVars PROVE KeepaliveInv'
    OBVIOUS
  <2>1. CASE Terminate \/ UNCHANGED pingVars
    <3>1. /\ UNCHANGED <<pinger, payload, current, timers, pinged, answered, overdue, timedOut>>
          /\ open' \in BOOLEAN
      BY <2>1 DEF Terminate, pingVars, KeepaliveInv, KeepaliveTypes
    <3>2. KeepaliveTypes' /\ OnePinger' /\ NoFalseAlarm'
      BY <3>1 DEF KeepaliveInv, KeepaliveTypes, OnePinger, NoFalseAlarm
    <3>3. ASSUME NEW t \in Threads PROVE NewPing(t)'
      BY <3>1 DEF KeepaliveInv, NewPing
    <3>4. ASSUME NEW p \in Pings PROVE PingTimer(p)'
      BY <3>1 DEF KeepaliveInv, PingTimer, Used
    <3>5. QED
      BY <3>2, <3>3, <3>4 DEF KeepaliveInv
  <2>2. QED
    BY <2>1, PingKeeps, CancelTimerKeeps, ArmTimerKeeps, PushKeeps, PongKeeps, ExpiryKeeps
       DEF PingNext, PingStep
<1>3. QED
  BY <1>1, <1>2, PTL DEF PingSpec

\* PingKeepalive: however often it pings, and whatever pongs the peer sends, an
\* application that pings from one thread, or one ping at a time, is told of a timeout
\* only for a ping whose pong did not come in time, and m_ping_timer designates the
\* only timer that runs, so that terminate(), a pong or the next ping can reach it.
THEOREM AlarmsAreTrue ==
  KeepaliveAssumption /\ OneAtOnce => (PingSpec => [](NoFalseAlarm /\ OneTimer))
<1> SUFFICES ASSUME KeepaliveAssumption, OneAtOnce PROVE PingSpec => [](NoFalseAlarm /\ OneTimer)
  OBVIOUS
<1>1. KeepaliveInv => NoFalseAlarm /\ OneTimer
  BY DEF KeepaliveInv, PingTimer, OneTimer
<1>2. QED
  BY <1>1, PingsHaveTimers, PTL

=============================================================================
