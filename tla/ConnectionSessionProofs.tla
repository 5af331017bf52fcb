------------------------ MODULE ConnectionSessionProofs ------------------------
(***************************************************************************)
(* What a session promises its application and its transport, for every    *)
(* set of threads, kinds of calls, role, configuration and bound: the      *)
(* queue of messages is written in order, one batch at a time, up to the   *)
(* terminal message; and the promises of SessionSerial to the applications *)
(* they are made to. Below it, the sockets: a session hears once, and      *)
(* truly, how the initialisation of its own ended.                         *)
(***************************************************************************)
EXTENDS ConnectionSession, SocketPolicy, SequenceTheorems, WellFoundedInduction, TLAPS

------------------------------------------------------------------------------
(* Sequences, and what the steps do to the queue *)

\* A set of natural numbers has a least element.
LEMMA Least ==
  ASSUME NEW S \in SUBSET Nat, S # {}
  PROVE  \E i \in S : \A j \in S : i <= j
<1>1. PICK i \in S : \A j \in S : <<j, i>> \notin OpToRel(<, Nat)
  BY NatLessThanWellFounded, WFMin, Zenon
<1>2. \A j \in S : ~(j < i)
  BY <1>1, Zenon DEF OpToRel
<1> QED BY <1>2

\* write_pop() takes at least one message, and none behind a terminal one.
LEMMA BatchLengthFits ==
  ASSUME queue \in Seq(Messages), queue # <<>>
  PROVE  /\ BatchLength \in 1 .. Len(queue)
         /\ \A i \in 1 .. BatchLength : queue[i].terminal => i = BatchLength
<1> DEFINE ends == {i \in DOMAIN queue : queue[i].terminal}
<1>1. DOMAIN queue = 1 .. Len(queue) /\ Len(queue) \in Nat \ {0}
  BY LenProperties, EmptySeq
<1>2. ASSUME NEW i \in 1 .. Len(queue) PROVE queue[i].terminal <=> i \in ends
  BY <1>1
<1>3. ends \subseteq 1 .. Len(queue)
  BY <1>1
<1>4. BatchLength = IF ends = {} THEN Len(queue)
                    ELSE CHOOSE i \in ends : \A j \in ends : i <= j
  BY DEF BatchLength
<1> HIDE DEF ends
<1>5. CASE ends = {}
  <2>1. BatchLength = Len(queue)
    BY <1>4, <1>5
  <2>2. \A i \in 1 .. Len(queue) : ~queue[i].terminal
    BY <1>2, <1>5, Zenon
  <2>3. BatchLength \in 1 .. Len(queue)
    BY <1>1, <2>1
  <2>4. \A i \in 1 .. BatchLength : queue[i].terminal => i = BatchLength
    BY <2>1, <2>2, Zenon
  <2> QED BY <2>3, <2>4
<1>6. CASE ends # {}
  <2>1. \E i \in ends : \A j \in ends : i <= j
    BY <1>1, <1>3, <1>6, Least
  <2>2. BatchLength \in ends /\ \A j \in ends : BatchLength <= j
    BY <1>4, <1>6, <2>1
  <2>3. BatchLength \in 1 .. Len(queue)
    BY <1>3, <2>2
  <2> QED BY <1>1, <1>2, <2>2, <2>3
<1> QED BY <1>5, <1>6

\* A sequence is what is left of it after its first elements, behind these.
LEMMA Cut ==
  ASSUME NEW S, NEW s \in Seq(S), NEW k \in 0 .. Len(s)
  PROVE  /\ SubSeq(s, 1, k) \in Seq(S) /\ SubSeq(s, k + 1, Len(s)) \in Seq(S)
         /\ Len(SubSeq(s, 1, k)) = k
         /\ \A i \in 1 .. k : SubSeq(s, 1, k)[i] = s[i]
         /\ SubSeq(s, 1, k) \o SubSeq(s, k + 1, Len(s)) = s
<1>1. Len(s) \in Nat /\ \A i \in 1 .. Len(s) : s[i] \in S
  BY LenProperties, ElementOfSeq
<1>2. \A i \in 1 .. k : s[i] \in S
  BY <1>1
<1>3. \A i \in k + 1 .. Len(s) : s[i] \in S
  BY <1>1
<1>4. /\ SubSeq(s, 1, k) \in Seq(S) /\ Len(SubSeq(s, 1, k)) = k
      /\ \A i \in 1 .. k : SubSeq(s, 1, k)[i] = s[i]
  <2>1. /\ SubSeq(s, 1, k) \in Seq(S)
        /\ Len(SubSeq(s, 1, k)) = IF 1 <= k THEN k - 1 + 1 ELSE 0
        /\ \A i \in 1 .. k - 1 + 1 : SubSeq(s, 1, k)[i] = s[1 + i - 1]
    BY <1>1, <1>2, SubSeqProperties
  <2> QED BY <1>1, <2>1
<1>5. SubSeq(s, k + 1, Len(s)) \in Seq(S)
  BY <1>1, <1>3, SubSeqProperties
<1>6. SubSeq(s, 1, k) \o SubSeq(s, k + 1, Len(s)) = SubSeq(s, 1, Len(s))
  <2>1. 1 \in 1 .. Len(s) + 1 /\ k \in 1 - 1 .. Len(s) /\ Len(s) \in k .. Len(s)
    BY <1>1
  <2> QED BY <2>1, ConcatAdjacentSubSeq, Zenon
<1>7. SubSeq(s, 1, Len(s)) = s
  BY SubSeqFull
<1> QED BY <1>4, <1>5, <1>6, <1>7

LEMMA Concatenated ==
  ASSUME NEW S, NEW s \in Seq(S), NEW t \in Seq(S)
  PROVE  /\ s \o t \in Seq(S) /\ Len(s \o t) = Len(s) + Len(t)
         /\ DOMAIN s = 1 .. Len(s) /\ DOMAIN t = 1 .. Len(t)
         /\ DOMAIN (s \o t) = 1 .. (Len(s) + Len(t))
         /\ Len(s) \in Nat /\ Len(t) \in Nat
         /\ \A i \in 1 .. Len(s) : (s \o t)[i] = s[i]
         /\ \A i \in DOMAIN (s \o t) :
              (i \in DOMAIN s /\ (s \o t)[i] = s[i])
              \/ (i - Len(s) \in DOMAIN t /\ (s \o t)[i] = t[i - Len(s)])
<1>1. Len(s) \in Nat /\ DOMAIN s = 1 .. Len(s) /\ Len(t) \in Nat /\ DOMAIN t = 1 .. Len(t)
  BY LenProperties
<1>2. /\ s \o t \in Seq(S) /\ Len(s \o t) = Len(s) + Len(t)
      /\ \A i \in 1 .. Len(s) + Len(t) :
           (s \o t)[i] = IF i <= Len(s) THEN s[i] ELSE t[i - Len(s)]
  BY ConcatProperties
<1>3. DOMAIN (s \o t) = 1 .. (Len(s) + Len(t))
  BY <1>2, LenProperties
<1> QED BY <1>1, <1>2, <1>3

------------------------------------------------------------------------------
(* Which steps change what *)

\* The queue, the batches and the flag of the writer.
LEMMA QueueSteps ==
  ASSUME [SessionNext]_sessionVars
  PROVE  \/ UNCHANGED writeVars
         \/ \E c \in Callers : Push(c) \/ Dispatch(c)
         \/ WriteStep \/ WriteEnds
<1>1. CASE UNCHANGED sessionVars
  BY <1>1 DEF sessionVars
<1>2. ASSUME NEW c \in Callers, Submit(c) \/ Close(c) \/ SetClosing(c) \/ ArmTimer(c)
      PROVE  UNCHANGED writeVars
  BY <1>2 DEF Submit, Close, SetClosing, ArmTimer
<1>3. CASE PauseReading \/ ResumeReading \/ HandleTerminate \/ TimerStep
  BY <1>3 DEF PauseReading, ResumeReading, HandleTerminate, TimerStep, TimerExpires, CloseTimeout
<1>4. CASE ReadStep
  BY <1>4 DEF ReadStep, ReadData, ReadPing, ReadClose, ReadBadClose, ReadViolation,
              ReadFails, Acknowledge
<1>5. CASE StrandStep
  BY <1>5 DEF StrandStep, Pong, CloseForViolation
<1> QED BY <1>1, <1>2, <1>3, <1>4, <1>5 DEF SessionNext, CallStep

\* The calls under way.
LEMMA CallSteps ==
  ASSUME [SessionNext]_sessionVars
  PROVE  \/ UNCHANGED <<pc, msg>>
         \/ \E c \in Callers : Submit(c) \/ Close(c) \/ CallStep(c)
         \/ ReadPing \/ (Frame /\ Acknowledge /\ state # "closed")
         \/ ReadViolation \/ StrandStep
<1>1. CASE UNCHANGED sessionVars
  BY <1>1 DEF sessionVars, callVars
<1>2. CASE PauseReading \/ ResumeReading \/ HandleTerminate \/ TimerStep
  BY <1>2 DEF PauseReading, ResumeReading, HandleTerminate, TimerStep, TimerExpires,
              CloseTimeout, callVars
<1>3. CASE WriteStep \/ WriteEnds
  BY <1>3 DEF WriteStep, WriteEnds, WriteNothing, WriteFrame, WriteDone,
              WriteDoneTerminal, WriteFails, callVars
<1>4. CASE ReadStep
  BY <1>4 DEF ReadStep, ReadData, ReadClose, ReadBadClose, ReadFails, callVars
<1> QED BY <1>1, <1>2, <1>3, <1>4 DEF SessionNext

\* A step that terminates the connection, and what it leaves alone.
Terminates ==
  /\ StrandFree
  /\ state' = "closed" /\ closeCalls' = closeCalls
  /\ shutting' = IF state = "closed" THEN shutting ELSE shutting + 1

\* The state of the connection, and who was told of its end.
LEMMA EndSteps ==
  ASSUME [SessionNext]_sessionVars
  PROVE  \/ UNCHANGED <<state, shutting, closeCalls>>
         \/ \E c \in Callers : SetClosing(c)
         \/ HandleTerminate \/ Terminates
         \/ CloseForViolation /\ state # "open"
<1>1. CASE UNCHANGED sessionVars
  BY <1>1 DEF sessionVars, endVars
<1>2. ASSUME NEW c \in Callers, Submit(c) \/ Close(c) \/ ArmTimer(c) \/ Push(c) \/ Dispatch(c)
      PROVE  UNCHANGED <<state, shutting, closeCalls>>
  BY <1>2 DEF Submit, Close, ArmTimer, Push, Dispatch, endVars
<1>3. CASE PauseReading \/ ResumeReading \/ TimerStep
  BY <1>3 DEF PauseReading, ResumeReading, TimerStep, TimerExpires, CloseTimeout,
              Terminate, Terminates, endVars
<1>4. CASE WriteStep \/ WriteEnds
  BY <1>4 DEF WriteStep, WriteEnds, WriteNothing, WriteFrame, WriteDone,
              WriteDoneTerminal, WriteFails, Terminate, Terminates, endVars
<1>5. CASE ReadStep
  BY <1>5 DEF ReadStep, Frame, ReadData, ReadPing, ReadClose, ReadBadClose,
              ReadViolation, ReadFails, Acknowledge, Terminate, Terminates, endVars
<1>6. CASE StrandStep
  BY <1>6 DEF StrandStep, Pong, CloseForViolation, endVars
<1> QED BY <1>1, <1>2, <1>3, <1>4, <1>5, <1>6 DEF SessionNext, CallStep

------------------------------------------------------------------------------
(* Types *)

LEMMA MessageTypes ==
  ASSUME NEW c \in Callers, NEW t \in BOOLEAN
  PROVE  /\ Data(c) \in Messages /\ CloseFrame(c, t) \in Messages
         /\ Data(c).op = "data" /\ CloseFrame(c, t).op = "close"
BY DEF Messages, Data, CloseFrame

LEMMA TypeInit == SessionAssumption /\ SessionInit => SessionTypeOK
<1> SUFFICES ASSUME SessionAssumption, SessionInit PROVE SessionTypeOK
  OBVIOUS
<1>1. WriteTypes
  BY EmptySeq DEF SessionInit, WriteTypes
<1>2. EndTypes /\ ReadTypes
  BY DEF SessionInit, EndTypes, ReadTypes, Errors
<1>3. CallTypes
  BY MessageTypes DEF SessionInit, CallTypes
<1> QED BY <1>1, <1>2, <1>3 DEF SessionTypeOK

LEMMA WriteTypesStep ==
  ASSUME SessionTypeOK, [SessionNext]_sessionVars
  PROVE  WriteTypes'
<1> USE DEF SessionTypeOK, WriteTypes
<1>1. CASE UNCHANGED writeVars
  BY <1>1 DEF writeVars
<1>2. ASSUME NEW c \in Callers, Push(c) PROVE WriteTypes'
  BY <1>2, AppendProperties DEF Push, CallTypes
<1>3. ASSUME NEW c \in Callers, Dispatch(c) PROVE WriteTypes'
  BY <1>3 DEF Dispatch
<1>4. CASE WriteNothing
  BY <1>4 DEF WriteNothing
<1>5. CASE WriteFrame
  <2>1. BatchLength \in 0 .. Len(queue)
    BY <1>5, BatchLengthFits DEF WriteFrame
  <2>2. current' \in Seq(Messages) /\ queue' \in Seq(Messages)
    BY <1>5, <2>1, Cut, ConcatProperties DEF WriteFrame
  <2> QED BY <1>5, <2>2 DEF WriteFrame
<1>6. CASE WriteDone
  <2>1. wire' \in Seq(Messages) /\ current' \in Seq(Messages)
    BY <1>6, ConcatProperties, EmptySeq DEF WriteDone
  <2>2. writeFlag' \in BOOLEAN
    BY <1>6, Zenon DEF WriteDone
  <2>3. writes' \in Nat /\ posted' \in Nat /\ UNCHANGED <<queue, pushed, lost>>
    BY <1>6 DEF WriteDone
  <2> QED BY <2>1, <2>2, <2>3
<1>7. CASE WriteDoneTerminal
  <2>1. wire' \in Seq(Messages) /\ current' \in Seq(Messages)
    BY <1>7, ConcatProperties, EmptySeq DEF WriteDoneTerminal
  <2> QED BY <1>7, <2>1 DEF WriteDoneTerminal
<1>8. CASE WriteFails
  <2>1. PICK k \in 0 .. Len(current) :
          /\ wire' = wire \o SubSeq(current, 1, k)
          /\ lost' = lost \o SubSeq(current, k + 1, Len(current))
    BY <1>8 DEF WriteFails
  <2>2. SubSeq(current, 1, k) \in Seq(Messages) /\ SubSeq(current, k + 1, Len(current)) \in Seq(Messages)
    BY Cut
  <2>3. wire' \in Seq(Messages) /\ lost' \in Seq(Messages)
    BY <2>1, <2>2, ConcatProperties
  <2>4. /\ writes > 0 /\ writes' = writes - 1 /\ current' = <<>>
        /\ UNCHANGED <<queue, writeFlag, posted, pushed>>
    BY <1>8 DEF WriteFails
  <2> QED BY <2>3, <2>4, EmptySeq
<1> QED BY <1>1, <1>2, <1>3, <1>4, <1>5, <1>6, <1>7, <1>8, QueueSteps DEF WriteStep, WriteEnds

LEMMA EndTypesStep ==
  ASSUME SessionTypeOK, [SessionNext]_sessionVars
  PROVE  EndTypes'
<1> USE DEF SessionTypeOK, EndTypes, Errors
<1> Io \in Callers
  BY DEF Callers
<1>1. CASE UNCHANGED sessionVars
  BY <1>1 DEF sessionVars, timerVars, endVars
<1>2. ASSUME NEW c \in Callers, Submit(c) \/ Close(c) PROVE EndTypes'
  BY <1>2 DEF Submit, Close, timerVars, endVars
<1>3. ASSUME NEW c \in Callers, CallStep(c) PROVE EndTypes'
  <2>1. CASE SetClosing(c)
    <3>1. wasClean' \in BOOLEAN
      BY <2>1, Zenon DEF SetClosing
    <3> QED BY <2>1, <3>1 DEF SetClosing, timerVars, endVars
  <2>2. CASE ArmTimer(c) \/ Push(c) \/ Dispatch(c)
    BY <2>2 DEF ArmTimer, Push, Dispatch, timerVars, endVars
  <2> QED BY <1>3, <2>1, <2>2 DEF CallStep
<1>4. CASE PauseReading \/ ResumeReading
  BY <1>4 DEF PauseReading, ResumeReading, timerVars, endVars
<1>5. CASE HandleTerminate \/ TimerStep
  BY <1>5 DEF HandleTerminate, TimerStep, TimerExpires, CloseTimeout, Terminate, timerVars, endVars
<1>6. CASE WriteStep \/ WriteEnds
  BY <1>6 DEF WriteStep, WriteEnds, WriteNothing, WriteFrame, WriteDone, WriteDoneTerminal,
              WriteFails, Terminate, timerVars, endVars
<1>7. CASE ReadData \/ ReadPing \/ Acknowledge
  BY <1>7 DEF ReadData, ReadPing, Acknowledge, timerVars, endVars
<1>8. CASE ReadClose \/ ReadBadClose \/ ReadViolation
  <2>1. CASE ReadClose /\ ~Acknowledge
    <3>1. wasClean' \in BOOLEAN
      BY <2>1, Zenon DEF ReadClose
    <3> QED BY <2>1, <3>1 DEF ReadClose, Terminate
  <2>2. CASE ReadBadClose /\ ~Acknowledge
    BY <2>2 DEF ReadBadClose, Terminate
  <2>3. CASE ReadViolation
    BY <2>3 DEF ReadViolation, Terminate, timerVars, endVars
  <2> QED BY <1>7, <1>8, <2>1, <2>2, <2>3
<1>9. ASSUME NEW eof \in BOOLEAN, ReadFails(eof) PROVE EndTypes'
  BY <1>9 DEF ReadFails, Terminate
<1>10. CASE StrandStep
  <2>1. CASE Pong
    BY <2>1 DEF Pong, timerVars, endVars
  <2>2. CASE CloseForViolation
    <3>1. stateLock' \in Callers \cup {Free}
      BY <2>2 DEF CloseForViolation
    <3>2. CASE state = "open"
      <4>1. UNCHANGED <<state, ec, timer, shutting, wasClean, strays, due, closeCalls>>
        BY <2>2, <3>2 DEF CloseForViolation
      <4> QED BY <3>1, <4>1
    <3>3. CASE state # "open"
      <4>1. Terminate("protocol") /\ UNCHANGED <<wasClean, strays, due, closeCalls>>
        BY <2>2, <3>3, Zenon DEF CloseForViolation
      <4> QED BY <3>1, <4>1 DEF Terminate
    <3> QED BY <3>2, <3>3
  <2> QED BY <1>10, <2>1, <2>2 DEF StrandStep
<1> QED BY <1>1, <1>2, <1>3, <1>4, <1>5, <1>6, <1>7, <1>8, <1>9, <1>10 DEF SessionNext, ReadStep

LEMMA CallTypesStep ==
  ASSUME SessionAssumption, SessionTypeOK, [SessionNext]_sessionVars
  PROVE  CallTypes'
<1> USE DEF SessionTypeOK, CallTypes
<1> Io \in Callers
  BY DEF Callers
<1>1. calls' \in Nat
  <2>1. CASE UNCHANGED sessionVars
    BY <2>1 DEF sessionVars, callVars
  <2>2. CASE \E c \in Callers : Submit(c) \/ Close(c) \/ CallStep(c)
    BY <2>2 DEF Submit, Close, CallStep, SetClosing, ArmTimer, Push, Dispatch
  <2>3. CASE PauseReading \/ ResumeReading \/ HandleTerminate \/ TimerStep
    BY <2>3 DEF PauseReading, ResumeReading, HandleTerminate, TimerStep, TimerExpires,
                CloseTimeout, callVars
  <2>4. CASE WriteStep \/ WriteEnds
    BY <2>4 DEF WriteStep, WriteEnds, WriteNothing, WriteFrame, WriteDone,
                WriteDoneTerminal, WriteFails, callVars
  <2>5. CASE ReadStep \/ StrandStep
    BY <2>5 DEF ReadStep, ReadData, ReadPing, ReadClose, ReadBadClose, ReadViolation,
                ReadFails, Acknowledge, StrandStep, Pong, CloseForViolation, callVars
  <2> QED BY <2>1, <2>2, <2>3, <2>4, <2>5 DEF SessionNext
<1>2. ASSUME pc' \in [Callers -> {"idle", "setclosing", "arm", "push", "dispatch",
                                 "pong", "violation"}],
             msg' \in [Callers -> Messages]
      PROVE  CallTypes'
  BY <1>1, <1>2
<1>3. CASE UNCHANGED <<pc, msg>>
  BY <1>2, <1>3
<1>4. ASSUME NEW c \in Callers, Submit(c) PROVE CallTypes'
  BY <1>2, <1>4, MessageTypes DEF Submit, Goto
<1>5. ASSUME NEW c \in Callers, Close(c) PROVE CallTypes'
  BY <1>2, <1>5, MessageTypes DEF Close, Goto
<1>6. ASSUME NEW c \in Callers, CallStep(c) PROVE CallTypes'
  BY <1>2, <1>6 DEF CallStep, SetClosing, ArmTimer, Push, Dispatch, Goto
<1>7. CASE ReadPing \/ ReadViolation
  BY <1>2, <1>7 DEF ReadPing, ReadViolation, Goto, callVars
<1>8. CASE Acknowledge
  <2>1. CloseFrame(Io, IsServer) \in Messages
    BY MessageTypes DEF SessionAssumption
  <2> QED BY <1>2, <1>8, <2>1 DEF Acknowledge, Goto
<1>9. CASE StrandStep
  BY <1>2, <1>9, MessageTypes DEF StrandStep, Pong, CloseForViolation, Goto
<1> QED BY <1>3, <1>4, <1>5, <1>6, <1>7, <1>8, <1>9, CallSteps

LEMMA ReadTypesStep ==
  ASSUME SessionTypeOK, [SessionNext]_sessionVars
  PROVE  ReadTypes'
<1> USE DEF SessionTypeOK, ReadTypes
<1>1. CASE UNCHANGED sessionVars
  BY <1>1 DEF sessionVars, readVars
<1>2. ASSUME NEW c \in Callers, Submit(c) \/ Close(c) \/ CallStep(c) PROVE ReadTypes'
  BY <1>2 DEF Submit, Close, CallStep, SetClosing, ArmTimer, Push, Dispatch, readVars
<1>3. CASE PauseReading \/ ResumeReading \/ HandleTerminate \/ TimerStep
  <2>1. CASE PauseReading
    <3>1. readFlag' \in BOOLEAN
      BY <2>1, Zenon DEF PauseReading
    <3> QED BY <2>1, <3>1 DEF PauseReading
  <2>2. CASE ResumeReading
    <3>1. readFlag' \in BOOLEAN
      BY <2>2, Zenon DEF ResumeReading
    <3> QED BY <2>2, <3>1 DEF ResumeReading
  <2>3. CASE HandleTerminate \/ TimerStep
    BY <2>3 DEF HandleTerminate, TimerStep, TimerExpires, CloseTimeout, readVars
  <2> QED BY <1>3, <2>1, <2>2, <2>3
<1>4. CASE WriteStep \/ WriteEnds
  BY <1>4 DEF WriteStep, WriteEnds, WriteNothing, WriteFrame, WriteDone,
              WriteDoneTerminal, WriteFails, readVars
<1>5. CASE ReadStep
  BY <1>5 DEF ReadStep, Frame, ReadData, ReadPing, ReadClose, ReadBadClose, ReadViolation,
              ReadFails, Acknowledge
<1>6. CASE StrandStep
  BY <1>6 DEF StrandStep, Pong, CloseForViolation, readVars
<1> QED BY <1>1, <1>2, <1>3, <1>4, <1>5, <1>6 DEF SessionNext

LEMMA TypeStep == SessionAssumption /\ SessionTypeOK /\ [SessionNext]_sessionVars => SessionTypeOK'
BY WriteTypesStep, EndTypesStep, CallTypesStep, ReadTypesStep DEF SessionTypeOK

------------------------------------------------------------------------------
(* The write loop *)

\* The batch that write_frame() takes is not empty, and only its end is terminal.
LEMMA Batch ==
  ASSUME SessionTypeOK, WriteDiscipline, TerminalEndsBatch, WriteFrame
  PROVE  /\ current = <<>> /\ writes = 0 /\ lost = <<>> /\ \A i \in DOMAIN wire : ~wire[i].terminal
         /\ current' = SubSeq(queue, 1, BatchLength)
         /\ current' \in Seq(Messages) /\ current' # <<>>
         /\ \A i \in DOMAIN current' : current'[i].terminal => i = Len(current')
         /\ current' \o queue' = queue /\ queue' \in Seq(Messages)
<1>1. queue \in Seq(Messages) /\ queue # <<>> /\ ~writeFlag
  BY DEF SessionTypeOK, WriteTypes, WriteFrame
<1>2. current = <<>> /\ writes = 0 /\ lost = <<>> /\ \A i \in DOMAIN wire : ~wire[i].terminal
  BY <1>1 DEF WriteDiscipline, TerminalEndsBatch
<1>3. /\ BatchLength \in 1 .. Len(queue)
      /\ \A i \in 1 .. BatchLength : queue[i].terminal => i = BatchLength
  BY <1>1, BatchLengthFits
<1> DEFINE b == SubSeq(queue, 1, BatchLength)
<1>4. /\ b \in Seq(Messages) /\ Len(b) = BatchLength
      /\ \A i \in 1 .. BatchLength : b[i] = queue[i]
      /\ b \o SubSeq(queue, BatchLength + 1, Len(queue)) = queue
      /\ SubSeq(queue, BatchLength + 1, Len(queue)) \in Seq(Messages)
  BY <1>1, <1>3, Cut
<1>5. current' = <<>> \o b /\ queue' = SubSeq(queue, BatchLength + 1, Len(queue))
  BY <1>2 DEF WriteFrame
<1> HIDE DEF b
<1>6. current' = b
  BY <1>4, <1>5, ConcatEmptySeq
<1>7. DOMAIN b = 1 .. BatchLength /\ b # <<>>
  BY <1>3, <1>4, LenProperties
<1>8. \A i \in DOMAIN b : b[i].terminal => i = Len(b)
  BY <1>3, <1>4, <1>7
<1>9. current' = SubSeq(queue, 1, BatchLength)
  BY <1>6 DEF b
<1> QED BY <1>2, <1>4, <1>5, <1>6, <1>7, <1>8, <1>9

\* A write that ends has written the batch, up to an error.
LEMMA Written ==
  ASSUME SessionTypeOK, WriteDiscipline, TerminalEndsBatch, WriteEnds
  PROVE  /\ writes = 1 /\ writeFlag /\ lost = <<>> /\ \A i \in DOMAIN wire : ~wire[i].terminal
         /\ writes' = 0 /\ current' = <<>> /\ UNCHANGED <<queue, pushed>>
         /\ \E k \in 0 .. Len(current) :
              /\ wire' = wire \o SubSeq(current, 1, k)
              /\ lost' = SubSeq(current, k + 1, Len(current))
              /\ ~writeFlag' => lost' = <<>> /\ k = Len(current) /\ ~current[Len(current)].terminal
<1>1. current \in Seq(Messages) /\ Len(current) \in Nat /\ writes > 0
  BY LenProperties DEF SessionTypeOK, WriteTypes, WriteEnds, WriteDone, WriteDoneTerminal, WriteFails
<1>2. writes = 1 /\ writeFlag /\ lost = <<>> /\ \A i \in DOMAIN wire : ~wire[i].terminal
  BY <1>1 DEF WriteDiscipline, TerminalEndsBatch
<1>3. writes' = 0 /\ current' = <<>> /\ UNCHANGED <<queue, pushed>>
  <2>1. writes' = writes - 1 /\ current' = <<>> /\ UNCHANGED <<queue, pushed>>
    BY Zenon DEF WriteEnds, WriteDone, WriteDoneTerminal, WriteFails
  <2> QED BY <1>2, <2>1
<1>4. SubSeq(current, 1, Len(current)) = current
  BY <1>1, SubSeqFull
<1>5. SubSeq(current, Len(current) + 1, Len(current)) = <<>>
  BY <1>1, SubSeqEmpty
<1>6. CASE WriteDone
  <2>1. wire' = wire \o current /\ lost' = lost /\ ~current[Len(current)].terminal
    BY <1>6 DEF WriteDone
  <2>2. Len(current) \in 0 .. Len(current)
    BY <1>1
  <2> QED BY <1>2, <1>3, <1>4, <1>5, <2>1, <2>2, Zenon
<1>7. CASE WriteDoneTerminal
  <2>1. wire' = wire \o current /\ lost' = lost /\ writeFlag' = writeFlag
    BY <1>7 DEF WriteDoneTerminal
  <2> QED BY <1>1, <1>2, <1>3, <1>4, <1>5, <2>1
<1>8. CASE WriteFails
  <2>1. writeFlag' = writeFlag
    BY <1>8 DEF WriteFails
  <2>2. PICK k \in 0 .. Len(current) :
          /\ wire' = wire \o SubSeq(current, 1, k)
          /\ lost' = <<>> \o SubSeq(current, k + 1, Len(current))
    BY <1>2, <1>8 DEF WriteFails
  <2>3. lost' = SubSeq(current, k + 1, Len(current))
    BY <1>1, <2>2, Cut, ConcatEmptySeq
  <2> QED BY <1>2, <1>3, <2>1, <2>2, <2>3
<1> QED BY <1>6, <1>7, <1>8 DEF WriteEnds

\* A batch is with the transport exactly while the write is in flight.
LEMMA DisciplineStep ==
  ASSUME SessionTypeOK, WriteDiscipline, TerminalEndsBatch, [SessionNext]_sessionVars
  PROVE  WriteDiscipline'
<1>1. CASE UNCHANGED writeVars
  BY <1>1 DEF writeVars, WriteDiscipline
<1>2. ASSUME NEW c \in Callers, Push(c) \/ Dispatch(c) PROVE WriteDiscipline'
  BY <1>2 DEF Push, Dispatch, WriteDiscipline
<1>3. CASE WriteNothing
  BY <1>3 DEF WriteNothing, WriteDiscipline
<1>4. CASE WriteFrame
  <2>1. writes = 0 /\ lost = <<>> /\ current' # <<>>
    BY <1>4, Batch
  <2>2. writes' = 1 /\ writeFlag' /\ lost' = <<>>
    BY <1>4, <2>1 DEF WriteFrame
  <2> QED BY <2>1, <2>2 DEF WriteDiscipline
<1>5. CASE WriteEnds
  <2>1. writes' = 0 /\ current' = <<>> /\ (lost' = <<>> \/ writeFlag')
    BY <1>5, Written
  <2> QED BY <2>1 DEF WriteDiscipline
<1> QED BY <1>1, <1>2, <1>3, <1>4, <1>5, QueueSteps DEF WriteStep

\* Only the end of a batch is terminal, and nothing follows it.
LEMMA TerminalStep ==
  ASSUME SessionTypeOK, WriteDiscipline, TerminalEndsBatch, [SessionNext]_sessionVars
  PROVE  TerminalEndsBatch'
<1>1. CASE UNCHANGED writeVars
  BY <1>1 DEF writeVars, TerminalEndsBatch
<1>2. ASSUME NEW c \in Callers, Push(c) \/ Dispatch(c) PROVE TerminalEndsBatch'
  BY <1>2 DEF Push, Dispatch, TerminalEndsBatch
<1>3. CASE WriteNothing
  BY <1>3 DEF WriteNothing, TerminalEndsBatch
<1>4. CASE WriteFrame
  <2>1. wire' = wire
    BY <1>4 DEF WriteFrame
  <2> QED BY <1>4, <2>1, Batch DEF TerminalEndsBatch
<1>5. CASE WriteEnds
  <2>1. wire \in Seq(Messages) /\ current \in Seq(Messages)
    BY DEF SessionTypeOK, WriteTypes
  <2>2. PICK k \in 0 .. Len(current) :
          /\ wire' = wire \o SubSeq(current, 1, k)
          /\ writeFlag' \/ (k = Len(current) /\ ~current[Len(current)].terminal)
    BY <1>5, Written
  <2>3. writes' = 0 /\ \A i \in DOMAIN wire : ~wire[i].terminal
    BY <1>5, Written
  <2>4. /\ SubSeq(current, 1, k) \in Seq(Messages) /\ Len(SubSeq(current, 1, k)) = k
        /\ \A i \in 1 .. k : SubSeq(current, 1, k)[i] = current[i]
    BY <2>1, Cut
  <2>5. DOMAIN current = 1 .. Len(current) /\ Len(current) \in Nat
    BY <2>1, LenProperties
  <2>6. ASSUME NEW i \in DOMAIN wire', wire'[i].terminal
        PROVE  i = Len(wire') /\ writeFlag'
    <3>1. /\ Len(wire') = Len(wire) + k /\ Len(wire) \in Nat /\ i \in 1 .. Len(wire) + k
          /\ DOMAIN SubSeq(current, 1, k) = 1 .. k
          /\ \/ i \in DOMAIN wire /\ wire'[i] = wire[i]
             \/ i - Len(wire) \in 1 .. k /\ wire'[i] = SubSeq(current, 1, k)[i - Len(wire)]
      <4> DEFINE t == SubSeq(current, 1, k)
      <4>1. t \in Seq(Messages) /\ Len(t) = k /\ wire' = wire \o t
        BY <2>2, <2>4
      <4> HIDE DEF t
      <4>2. /\ Len(wire) \in Nat /\ DOMAIN t = 1 .. Len(t)
            /\ Len(wire \o t) = Len(wire) + Len(t)
        BY <2>1, <4>1, LenProperties, ConcatProperties
      <4>3. DOMAIN (wire \o t) = 1 .. (Len(wire) + Len(t))
        BY <2>1, <4>1, <4>2, ConcatProperties, LenProperties
      <4>4. i \in DOMAIN (wire \o t)
        BY <2>6, <4>1
      <4>5. \/ i \in DOMAIN wire /\ (wire \o t)[i] = wire[i]
            \/ i - Len(wire) \in DOMAIN t /\ (wire \o t)[i] = t[i - Len(wire)]
        BY <2>1, <4>1, <4>4, Concatenated
      <4> QED BY <4>1, <4>2, <4>4, <4>5, <4>3 DEF t
    <3>2. i - Len(wire) \in 1 .. k /\ wire'[i] = current[i - Len(wire)]
      BY <2>3, <2>4, <2>6, <3>1
    <3>3. i - Len(wire) \in DOMAIN current /\ current[i - Len(wire)].terminal
      BY <2>5, <2>6, <3>2
    <3>4. i - Len(wire) = Len(current)
      BY <3>3 DEF TerminalEndsBatch
    <3>5. k = Len(current)
      BY <2>5, <3>2, <3>4
    <3>6. writeFlag'
      BY <2>2, <3>3, <3>4
    <3> QED BY <3>1, <3>4, <3>5, <3>6, <2>5
  <2>7. DOMAIN current' = {}
    BY <1>5, Written
  <2> QED BY <2>3, <2>6, <2>7 DEF TerminalEndsBatch
<1> QED BY <1>1, <1>2, <1>3, <1>4, <1>5, QueueSteps DEF WriteStep

\* What is moved from the end of one sequence to the beginning of the next is
\* in the same place in all of them.
LEMMA Moved ==
  ASSUME NEW S, NEW a \in Seq(S), NEW b \in Seq(S), NEW c \in Seq(S), NEW d \in Seq(S)
  PROVE  /\ ((a \o b) \o c) \o d = (a \o b) \o (c \o d)
         /\ (a \o b) \o c = a \o (b \o c)
         /\ a \o b \in Seq(S) /\ (a \o b) \o c \in Seq(S)
         /\ (a \o <<>>) \o <<>> = a
<1>1. a \o b \in Seq(S)
  BY ConcatProperties
<1>2. (a \o b) \o c \in Seq(S)
  BY <1>1, ConcatProperties
<1>3. ((a \o b) \o c) \o d = (a \o b) \o (c \o d)
  BY <1>1, ConcatAssociative
<1>4. (a \o b) \o c = a \o (b \o c)
  BY ConcatAssociative
<1>5. (a \o <<>>) \o <<>> = a
  BY ConcatEmptySeq
<1> QED BY <1>1, <1>2, <1>3, <1>4, <1>5

\* No message is lost, doubled or overtaken.
LEMMA FifoStep ==
  ASSUME SessionTypeOK, SessionTypeOK', WriteDiscipline, TerminalEndsBatch, QueueIsFifo, [SessionNext]_sessionVars
  PROVE  QueueIsFifo'
<1>1. CASE UNCHANGED writeVars
  BY <1>1 DEF writeVars, QueueIsFifo
<1>2. ASSUME NEW c \in Callers, Push(c) PROVE QueueIsFifo'
  <2>1. /\ queue' = Append(queue, msg[c]) /\ pushed' = Append(pushed, msg[c])
        /\ UNCHANGED <<wire, lost, current>>
    BY <1>2 DEF Push
  <2>2. /\ msg[c] \in Messages /\ queue \in Seq(Messages) /\ wire \in Seq(Messages)
        /\ lost \in Seq(Messages) /\ current \in Seq(Messages) /\ pushed \in Seq(Messages)
    BY DEF SessionTypeOK, WriteTypes, CallTypes
  <2> DEFINE before == (wire \o lost) \o current
  <2>3. before \in Seq(Messages) /\ <<msg[c]>> \in Seq(Messages)
    BY <2>2, Moved
  <2>4. queue' = queue \o <<msg[c]>> /\ pushed' = pushed \o <<msg[c]>>
    BY <2>1, <2>2, AppendIsConcat
  <2>5. before' = before
    BY <2>1
  <2>6. before \o queue = pushed
    BY DEF QueueIsFifo
  <2> HIDE DEF before
  <2>7. before \o (queue \o <<msg[c]>>) = pushed \o <<msg[c]>>
    <3>1. (before \o queue) \o <<msg[c]>> = before \o (queue \o <<msg[c]>>)
      <4>1. before \in Seq(Messages) /\ queue \in Seq(Messages) /\ <<msg[c]>> \in Seq(Messages)
        BY <2>2, <2>3
      <4> QED BY ONLY <4>1, ConcatAssociative, SMTT(30)
    <3> QED BY <2>6, <3>1, Zenon
  <2>8. (before \o queue)' = pushed'
    BY <2>4, <2>5, <2>7
  <2> QED BY <2>8 DEF QueueIsFifo, before
<1>3. ASSUME NEW c \in Callers, Dispatch(c) PROVE QueueIsFifo'
  BY <1>3 DEF Dispatch, QueueIsFifo
<1>4. CASE WriteNothing
  BY <1>4 DEF WriteNothing, QueueIsFifo
<1>5. CASE WriteFrame
  <2>1. UNCHANGED <<wire, lost, pushed>> /\ current = <<>> /\ current' \o queue' = queue
    BY <1>5, Batch DEF WriteFrame
  <2>2. /\ queue' \in Seq(Messages) /\ current' \in Seq(Messages)
        /\ wire \in Seq(Messages) /\ lost \in Seq(Messages)
    BY DEF SessionTypeOK, WriteTypes
  <2>3. ((wire \o lost) \o current') \o queue' = (wire \o lost) \o queue
    <3>1. ((wire \o lost) \o current') \o queue' = (wire \o lost) \o (current' \o queue')
      <4>1. /\ wire \o lost \in Seq(Messages)
            /\ current' \in Seq(Messages) /\ queue' \in Seq(Messages)
        BY <2>2, ConcatProperties
      <4> QED BY ONLY <4>1, ConcatAssociative, SMTT(30)
    <3> QED BY <2>1, <3>1, Zenon
  <2>4. (wire \o lost) \o <<>> = wire \o lost
    BY <2>2, Moved, ConcatEmptySeq
  <2> QED BY <2>1, <2>3, <2>4 DEF QueueIsFifo
<1>6. CASE WriteEnds
  <2>1. /\ wire \in Seq(Messages) /\ current \in Seq(Messages) /\ queue \in Seq(Messages)
        /\ wire' \in Seq(Messages) /\ lost' \in Seq(Messages)
    BY DEF SessionTypeOK, WriteTypes
  <2>2. lost = <<>> /\ current' = <<>> /\ UNCHANGED <<queue, pushed>>
    BY <1>6, Written
  <2>3. PICK k \in 0 .. Len(current) :
          wire' = wire \o SubSeq(current, 1, k) /\ lost' = SubSeq(current, k + 1, Len(current))
    BY <1>6, Written
  <2> DEFINE head == SubSeq(current, 1, k)
             tail == SubSeq(current, k + 1, Len(current))
  <2>4. head \in Seq(Messages) /\ tail \in Seq(Messages) /\ head \o tail = current
    BY <2>1, Cut
  <2>5. wire' = wire \o head /\ lost' = tail
    BY <2>3
  <2> HIDE DEF head, tail
  <2>6. (wire' \o lost') \o current' = wire \o current
    <3>1. wire' \o lost' = wire \o (head \o tail)
      <4>1. (wire \o head) \o tail = wire \o (head \o tail)
        <5>1. wire \in Seq(Messages) /\ head \in Seq(Messages) /\ tail \in Seq(Messages)
          BY <2>1, <2>4
        <5> QED BY ONLY <5>1, ConcatAssociative
      <4> QED BY <2>5, <4>1, Zenon
    <3>2. (wire' \o lost') \o <<>> = wire' \o lost'
      BY <2>1, ConcatProperties, ConcatEmptySeq
    <3> QED BY <2>2, <2>4, <3>1, <3>2
  <2>7. (wire \o lost) \o current = wire \o current
    BY <2>1, <2>2, ConcatEmptySeq
  <2> QED BY <2>2, <2>6, <2>7 DEF QueueIsFifo
<1> QED BY <1>1, <1>2, <1>3, <1>4, <1>5, <1>6, QueueSteps DEF WriteStep

\* Whoever leaves a message in the queue sees to it that it is written.
LEMMA ForgottenStep ==
  ASSUME SessionTypeOK, WriteDiscipline, TerminalEndsBatch, NoMessageForgotten, [SessionNext]_sessionVars
  PROVE  NoMessageForgotten'
<1>1. ASSUME UNCHANGED writeVars PROVE NoMessageForgotten'
  <2>1. ASSUME NEW c \in Callers, pc[c] = "dispatch" PROVE pc'[c] = "dispatch"
    <3>1. CASE UNCHANGED <<pc, msg>>
      BY <2>1, <3>1
    <3>2. ASSUME NEW d \in Callers, Submit(d) \/ Close(d) \/ SetClosing(d) \/ ArmTimer(d)
          PROVE  pc'[c] = "dispatch"
      BY <2>1, <3>2 DEF Submit, Close, SetClosing, ArmTimer, Goto, SessionTypeOK, CallTypes
    <3>3. ASSUME NEW d \in Callers, Push(d) PROVE FALSE
      <4>1. Len(queue') = Len(queue) + 1 /\ Len(queue) \in Nat
        BY <3>3, AppendProperties, LenProperties DEF Push, SessionTypeOK, WriteTypes, CallTypes
      <4> QED BY <1>1, <4>1 DEF writeVars
    <3>4. ASSUME NEW d \in Callers, Dispatch(d) PROVE FALSE
      BY <1>1, <3>4 DEF Dispatch, writeVars, SessionTypeOK, WriteTypes
    <3>5. CASE ReadPing \/ Acknowledge \/ ReadViolation \/ StrandStep
      BY <2>1, <3>5 DEF ReadPing, Acknowledge, ReadViolation, StrandStep, Pong,
         CloseForViolation, Goto, SessionTypeOK, CallTypes, callVars
    <3> QED BY <3>1, <3>2, <3>3, <3>4, <3>5, CallSteps DEF CallStep
  <2> QED BY <1>1, <2>1 DEF writeVars, NoMessageForgotten
<1>2. ASSUME NEW c \in Callers, Push(c) PROVE NoMessageForgotten'
  BY <1>2 DEF Push, NoMessageForgotten, SessionTypeOK, CallTypes
<1>3. ASSUME NEW c \in Callers, Dispatch(c) PROVE NoMessageForgotten'
  BY <1>3 DEF Dispatch, NoMessageForgotten, SessionTypeOK, WriteTypes
<1>4. CASE WriteNothing
  BY <1>4 DEF WriteNothing, NoMessageForgotten
<1>5. CASE WriteFrame
  BY <1>5 DEF WriteFrame, NoMessageForgotten
<1>6. CASE WriteDone
  BY <1>6 DEF WriteDone, NoMessageForgotten, SessionTypeOK, WriteTypes
<1>7. CASE WriteDoneTerminal \/ WriteFails
  <2>1. writeFlag
    BY <1>7, Written DEF WriteEnds
  <2> QED BY <1>7, <2>1 DEF WriteDoneTerminal, WriteFails, NoMessageForgotten
<1> QED BY <1>1, <1>2, <1>3, <1>4, <1>5, <1>6, <1>7, QueueSteps DEF WriteStep, WriteEnds

------------------------------------------------------------------------------
(* What the promises to some applications rest on *)

\* Reads are issued by the read loop and by resume_reading().
LEMMA ReadSteps ==
  ASSUME [SessionNext]_sessionVars
  PROVE  \/ UNCHANGED readVars
         \/ PauseReading \/ ResumeReading
         \/ StrandFree /\ reads > 0 /\ UNCHANGED readFlag /\ ReadStep
            /\ reads' = (IF readFlag THEN reads ELSE reads - 1)
         \/ StrandFree /\ reads > 0 /\ UNCHANGED readFlag /\ ReadStep
            /\ reads' = reads - 1
<1>1. CASE UNCHANGED sessionVars
  BY <1>1 DEF sessionVars
<1>2. ASSUME NEW c \in Callers, Submit(c) \/ Close(c) \/ CallStep(c)
      PROVE  UNCHANGED readVars
  BY <1>2 DEF Submit, Close, CallStep, SetClosing, ArmTimer, Push, Dispatch
<1>3. CASE HandleTerminate \/ TimerStep
  BY <1>3 DEF HandleTerminate, TimerStep, TimerExpires, CloseTimeout
<1>4. CASE WriteStep \/ WriteEnds
  BY <1>4 DEF WriteStep, WriteEnds, WriteNothing, WriteFrame, WriteDone,
              WriteDoneTerminal, WriteFails
<1>5. CASE StrandStep
  BY <1>5 DEF StrandStep, Pong, CloseForViolation
<1>6. CASE ReadData \/ ReadPing \/ ReadClose \/ ReadBadClose
  BY <1>6 DEF ReadStep, ReadData, ReadPing, ReadClose, ReadBadClose, Frame
<1>7. CASE ReadViolation \/ \E eof \in BOOLEAN : ReadFails(eof)
  BY <1>7 DEF ReadStep, ReadViolation, ReadFails
<1> QED BY <1>1, <1>2, <1>3, <1>4, <1>5, <1>6, <1>7 DEF SessionNext, ReadStep

LEMMA ReadsStep ==
  ASSUME SessionTypeOK, ReadsInTurn, [SessionNext]_sessionVars
  PROVE  ReadsInTurn'
<1> SUFFICES ASSUME "pause" \notin Calls PROVE readFlag' /\ reads' <= 1
  BY DEF ReadsInTurn
<1>1. readFlag /\ reads <= 1 /\ reads \in Nat
  BY DEF ReadsInTurn, SessionTypeOK, ReadTypes
<1>2. ~PauseReading /\ ~ResumeReading
  BY DEF PauseReading, ResumeReading
<1>3. readFlag' = readFlag /\ (reads' = reads \/ reads' = reads - 1)
  BY <1>1, <1>2, ReadSteps DEF readVars
<1> QED BY <1>1, <1>3

\* With the application on the strand, nothing leads from the end back to the
\* closing state.
LEMMA EndsOnceStep ==
  ASSUME SessionAssumption, SessionTypeOK, EndsOnce, [SessionNext]_sessionVars
  PROVE  EndsOnce'
<1> SUFFICES ASSUME ClosesOnStrand
             PROVE  /\ \A c \in AppThreads : pc'[c] \in {"idle", "push", "dispatch"}
                    /\ pc'[Io] = "setclosing" => state' # "closed"
                    /\ closeCalls' + shutting' <= 1
                    /\ state' # "closed" => closeCalls' + shutting' = 0
  BY DEF EndsOnce, ClosesOnStrand
<1>1. /\ \A c \in AppThreads : pc[c] \in {"idle", "push", "dispatch"}
      /\ pc[Io] = "setclosing" => state # "closed"
      /\ closeCalls + shutting <= 1
      /\ state # "closed" => closeCalls + shutting = 0
      /\ closeCalls \in Nat /\ shutting \in Nat
  BY DEF EndsOnce, SessionTypeOK, EndTypes
<1>2. /\ Io \notin AppThreads /\ Io \in Callers /\ AppThreads \subseteq Callers
      /\ \A c \in Callers : c \in AppThreads \/ c = Io
      /\ DOMAIN pc = Callers
  BY DEF SessionAssumption, Callers, SessionTypeOK, CallTypes
<1>3. ASSUME NEW c \in AppThreads
      PROVE  pc'[c] \in {"idle", "push", "dispatch"}
  <2>1. CASE UNCHANGED <<pc, msg>>
    BY <1>1, <2>1
  <2>2. ASSUME NEW d \in Callers, Submit(d) PROVE pc'[c] \in {"idle", "push", "dispatch"}
    BY <1>1, <1>2, <2>2 DEF Submit, Goto
  <2>3. ASSUME NEW d \in Callers, Close(d) PROVE FALSE
    BY <2>3 DEF Close, ClosesOnStrand
  <2>4. ASSUME NEW d \in Callers, CallStep(d) PROVE pc'[c] \in {"idle", "push", "dispatch"}
    BY <1>1, <1>2, <2>4 DEF CallStep, SetClosing, ArmTimer, Push, Dispatch, Goto
  <2>5. CASE ReadPing \/ Acknowledge \/ ReadViolation \/ StrandStep
    BY <1>1, <1>2, <2>5 DEF ReadPing, Acknowledge, ReadViolation, StrandStep, Pong,
       CloseForViolation, Goto, callVars
  <2> QED BY <2>1, <2>2, <2>3, <2>4, <2>5, CallSteps
<1>4. ASSUME NEW c \in Callers, SetClosing(c) PROVE c = Io /\ state # "closed"
  BY <1>1, <1>2, <1>4 DEF SetClosing, Goto
<1>5. ASSUME pc'[Io] = "setclosing" PROVE state' # "closed"
  <2>1. CASE pc[Io] = "setclosing"
    <3>1. ~StrandFree /\ ~CloseForViolation
      BY <2>1 DEF StrandFree, CloseForViolation, Goto
    <3>2. state' = state \/ state' = "closing"
      BY <3>1, EndSteps DEF SetClosing, HandleTerminate, Terminates
    <3> QED BY <1>1, <2>1, <3>2
  <2>2. CASE pc[Io] # "setclosing"
    <3>1. ASSUME NEW d \in Callers, Submit(d) \/ CallStep(d) PROVE FALSE
      BY <1>2, <1>5, <2>2, <3>1 DEF Submit, CallStep, SetClosing, ArmTimer, Push, Dispatch, Goto
    <3>2. ASSUME NEW d \in Callers, Close(d) PROVE state' # "closed"
      BY <3>2 DEF Close
    <3>3. CASE Frame /\ Acknowledge /\ state # "closed"
      BY <3>3 DEF Acknowledge
    <3>4. ~ReadPing /\ ~ReadViolation /\ ~Pong
      BY <1>2, <1>5, <2>2 DEF ReadPing, ReadViolation, Pong, Goto, callVars
    <3>5. CASE CloseForViolation
      BY <1>2, <1>5, <2>2, <3>5 DEF CloseForViolation, Goto
    <3>6. ~UNCHANGED <<pc, msg>>
      BY <1>5, <2>2
    <3> QED BY <3>1, <3>2, <3>3, <3>4, <3>5, <3>6, CallSteps DEF StrandStep
  <2> QED BY <2>1, <2>2
<1>6. closeCalls' + shutting' <= 1 /\ (state' # "closed" => closeCalls' + shutting' = 0)
  <2>1. CASE UNCHANGED <<state, shutting, closeCalls>>
    BY <1>1, <2>1
  <2>2. ASSUME NEW c \in Callers, SetClosing(c)
        PROVE  closeCalls' + shutting' <= 1 /\ (state' # "closed" => closeCalls' + shutting' = 0)
    <3>1. UNCHANGED <<shutting, closeCalls>>
      BY <2>2 DEF SetClosing, endVars
    <3> QED BY <1>1, <1>4, <2>2, <3>1
  <2>3. CASE HandleTerminate
    BY <1>1, <2>3 DEF HandleTerminate
  <2>4. CASE Terminates
    BY <1>1, <2>4 DEF Terminates
  <2>5. CASE CloseForViolation /\ state # "open"
    <3>1. Terminate("protocol") /\ closeCalls' = closeCalls
      BY <2>5, Zenon DEF CloseForViolation
    <3> QED BY <1>1, <3>1 DEF Terminate
  <2> QED BY <2>1, <2>2, <2>3, <2>4, <2>5, EndSteps
<1> QED BY <1>3, <1>5, <1>6

\* Who takes the lock of the state, who counts the end as clean.
LEMMA LockSteps ==
  ASSUME [SessionNext]_sessionVars
  PROVE  /\ \/ stateLock' \in {stateLock, Free}
            \/ \E c \in Callers : Close(c)
            \/ CloseForViolation /\ stateLock' = Io
         /\ \/ wasClean' = wasClean
            \/ \E c \in Callers : SetClosing(c)
            \/ wasClean'
<1>1. CASE UNCHANGED sessionVars
  BY <1>1 DEF sessionVars
<1>2. ASSUME NEW c \in Callers, Submit(c) \/ ArmTimer(c) \/ Push(c) \/ Dispatch(c)
      PROVE  stateLock' \in {stateLock, Free} /\ wasClean' = wasClean
  BY <1>2 DEF Submit, ArmTimer, Push, Dispatch
<1>3. ASSUME NEW c \in Callers, SetClosing(c) PROVE stateLock' = stateLock
  BY <1>3 DEF SetClosing
<1>4. ASSUME NEW c \in Callers, Close(c) PROVE wasClean' = wasClean
  BY <1>4 DEF Close
<1>5. CASE PauseReading \/ ResumeReading \/ HandleTerminate \/ TimerStep
  BY <1>5 DEF PauseReading, ResumeReading, HandleTerminate, TimerStep, TimerExpires, CloseTimeout
<1>6. CASE WriteStep \/ WriteEnds
  BY <1>6 DEF WriteStep, WriteEnds, WriteNothing, WriteFrame, WriteDone,
              WriteDoneTerminal, WriteFails
<1>7. CASE ReadStep
  BY <1>7 DEF ReadStep, ReadData, ReadPing, ReadClose, ReadBadClose, ReadViolation,
              ReadFails, Acknowledge
<1>8. CASE StrandStep
  BY <1>8 DEF StrandStep, Pong, CloseForViolation
<1> QED BY <1>1, <1>2, <1>3, <1>4, <1>5, <1>6, <1>7, <1>8 DEF SessionNext, CallStep

\* An error is kept, and four steps end a connection without one.
LEMMA ErrorSteps ==
  ASSUME [SessionNext]_sessionVars, ec' = "none"
  PROVE  /\ ec = "none"
         /\ \/ state' # "closed" \/ state' = state
            \/ WriteDoneTerminal
            \/ ReadClose /\ state = "closing" /\ ~wasClean
            \/ ~IsServer
<1>1. CASE UNCHANGED sessionVars
  BY <1>1 DEF sessionVars
<1>2. ASSUME NEW c \in Callers, Submit(c) \/ Close(c) \/ CallStep(c)
      PROVE  ec' = ec /\ (state' = state \/ state' = "closing")
  BY <1>2 DEF Submit, Close, CallStep, SetClosing, ArmTimer, Push, Dispatch
<1>3. CASE PauseReading \/ ResumeReading \/ HandleTerminate \/ TimerStep
  BY <1>3 DEF PauseReading, ResumeReading, HandleTerminate, TimerStep, TimerExpires,
              CloseTimeout, Terminate
<1>4. CASE WriteStep \/ WriteDone
  BY <1>4 DEF WriteStep, WriteNothing, WriteFrame, WriteDone
<1>5. CASE WriteDoneTerminal \/ WriteFails
  BY <1>5 DEF WriteDoneTerminal, WriteFails, Terminate
<1>6. CASE ReadData \/ ReadPing \/ Acknowledge
  BY <1>6 DEF ReadData, ReadPing, Acknowledge
<1>7. CASE ReadClose \/ ReadBadClose \/ ReadViolation
  BY <1>6, <1>7 DEF ReadClose, ReadBadClose, ReadViolation, Terminate
<1>8. ASSUME NEW eof \in BOOLEAN, ReadFails(eof)
      PROVE  ec = "none" /\ (state' = state \/ ~IsServer)
  BY <1>8 DEF ReadFails, Terminate
<1>9. CASE Pong
  BY <1>9 DEF Pong
<1>10. CASE CloseForViolation
  BY <1>10 DEF CloseForViolation, Terminate
<1> QED BY <1>1, <1>2, <1>3, <1>4, <1>5, <1>6, <1>7, <1>8, <1>9, <1>10
        DEF SessionNext, WriteEnds, ReadStep, StrandStep

\* What was written stays written.
LEMMA WireGrows ==
  ASSUME SessionTypeOK, [SessionNext]_sessionVars, \E i \in DOMAIN wire : wire[i].terminal
  PROVE  \E i \in DOMAIN wire' : wire'[i].terminal
<1>1. wire \in Seq(Messages) /\ current \in Seq(Messages)
  BY DEF SessionTypeOK, WriteTypes
<1>2. wire' = wire \/ \E tail \in Seq(Messages) : wire' = wire \o tail
  <2>1. CASE UNCHANGED writeVars
    BY <2>1 DEF writeVars
  <2>2. ASSUME NEW c \in Callers, Push(c) \/ Dispatch(c) PROVE wire' = wire
    BY <2>2 DEF Push, Dispatch
  <2>3. CASE WriteStep
    BY <2>3 DEF WriteStep, WriteNothing, WriteFrame
  <2>4. CASE WriteDone \/ WriteDoneTerminal
    BY <1>1, <2>4 DEF WriteDone, WriteDoneTerminal
  <2>5. CASE WriteFails
    BY <1>1, <2>5, Cut DEF WriteFails
  <2> QED BY <2>1, <2>2, <2>3, <2>4, <2>5, QueueSteps DEF WriteEnds
<1>3. PICK i \in DOMAIN wire : wire[i].terminal
  OBVIOUS
<1>4. ASSUME NEW tail \in Seq(Messages) PROVE i \in DOMAIN (wire \o tail) /\ (wire \o tail)[i].terminal
  BY <1>1, <1>3, Concatenated
<1> QED BY <1>2, <1>3, <1>4

\* A server that only answers ends without an error by writing its last frame.
LEMMA EndsFlushedStep ==
  ASSUME SessionAssumption, SessionTypeOK, SessionTypeOK', WriteDiscipline, ReadsInTurn, EndsFlushed,
         [SessionNext]_sessionVars
  PROVE  EndsFlushed'
<1> SUFFICES ASSUME AnswersOnly
             PROVE  /\ stateLock' \in {Free, Io}
                    /\ stateLock' = Io \/ pc'[Io] = "violation" => ~DropOnError /\ reads' = 0
                    /\ state' = "closing" /\ ~wasClean' => ~DropOnError /\ reads' = 0
                    /\ state' = "closed" /\ ec' = "none" =>
                         \E i \in DOMAIN wire' : wire'[i].terminal
  BY DEF EndsFlushed, AnswersOnly
<1>1. /\ IsServer /\ "close" \notin Calls /\ (DropOnError \/ "pause" \notin Calls)
      /\ stateLock \in {Free, Io}
      /\ stateLock = Io \/ pc[Io] = "violation" => ~DropOnError /\ reads = 0
      /\ state = "closing" /\ ~wasClean => ~DropOnError /\ reads = 0
      /\ state = "closed" /\ ec = "none" => \E i \in DOMAIN wire : wire[i].terminal
  BY DEF EndsFlushed, AnswersOnly
<1>2. /\ Io \in Callers /\ Free \notin Callers /\ DOMAIN pc = Callers
      /\ reads \in Nat /\ wasClean \in BOOLEAN
  BY DEF SessionAssumption, Callers, SessionTypeOK, CallTypes, ReadTypes, EndTypes
<1>3. \A c \in Callers : ~Close(c)
  BY <1>1 DEF Close
<1>4. ASSUME ~DropOnError, reads = 0 PROVE reads' = 0
  <2>1. ~PauseReading /\ ~ResumeReading
    BY <1>1, <1>4 DEF PauseReading, ResumeReading
  <2> QED BY <1>4, <2>1, ReadSteps DEF readVars
<1>5. stateLock' \in {Free, Io} /\ (stateLock' = Io => ~DropOnError /\ reads' = 0)
  <2>1. CASE stateLock' \in {stateLock, Free}
    BY <1>1, <1>2, <1>4, <2>1
  <2>2. CASE CloseForViolation /\ stateLock' = Io
    <3>1. pc[Io] = "violation"
      BY <2>2 DEF CloseForViolation, Goto
    <3> QED BY <1>1, <1>4, <2>2, <3>1
  <2> QED BY <1>3, <2>1, <2>2, LockSteps
<1>6. ASSUME pc'[Io] = "violation" PROVE ~DropOnError /\ reads' = 0
  <2>1. CASE pc[Io] = "violation"
    BY <1>1, <1>4, <2>1
  <2>2. CASE pc[Io] # "violation"
    <3>1. ASSUME NEW c \in Callers, Submit(c) \/ CallStep(c) PROVE FALSE
      BY <1>2, <1>6, <2>2, <3>1 DEF Submit, CallStep, SetClosing, ArmTimer, Push, Dispatch, Goto
    <3>2. ~ReadPing /\ ~Acknowledge /\ ~Pong /\ ~CloseForViolation
      BY <1>2, <1>6, <2>2 DEF ReadPing, Acknowledge, Pong, CloseForViolation, Goto
    <3>3. ReadViolation
      BY <1>3, <1>6, <2>2, <3>1, <3>2, CallSteps DEF StrandStep
    <3>4. ~DropOnError
      BY <1>6, <2>2, <3>3 DEF ReadViolation, callVars
    <3>5. reads > 0 /\ reads' = reads - 1 /\ reads <= 1
      BY <1>1, <3>3, <3>4 DEF ReadViolation, ReadsInTurn
    <3> QED BY <1>2, <3>4, <3>5
  <2> QED BY <2>1, <2>2
<1>7. ASSUME state' = "closing", ~wasClean' PROVE ~DropOnError /\ reads' = 0
  <2>1. ASSUME NEW c \in Callers, SetClosing(c) PROVE ~DropOnError /\ reads' = 0
    <3>1. stateLock = c
      BY <1>7, <2>1, Zenon DEF SetClosing
    <3>2. stateLock = Io
      BY <1>1, <1>2, <3>1
    <3> QED BY <1>1, <1>4, <3>2
  <2>2. CASE ~\E c \in Callers : SetClosing(c)
    <3>1. state = "closing"
      BY <1>7, <2>2, EndSteps DEF HandleTerminate, Terminates, CloseForViolation, Terminate
    <3>2. ~wasClean
      BY <1>7, <2>2, LockSteps, Zenon
    <3> QED BY <1>1, <1>4, <3>1, <3>2
  <2> QED BY <2>1, <2>2
<1>8. ASSUME state' = "closed", ec' = "none" PROVE \E i \in DOMAIN wire' : wire'[i].terminal
  <2>1. CASE WriteDoneTerminal
    <3>1. /\ wire' = wire \o current /\ writes > 0 /\ current[Len(current)].terminal
          /\ wire \in Seq(Messages) /\ current \in Seq(Messages) /\ writes \in {0, 1}
      BY <2>1 DEF WriteDoneTerminal, SessionTypeOK, WriteTypes, WriteDiscipline
    <3>2. current # <<>>
      BY <3>1 DEF WriteDiscipline
    <3>3. /\ Len(current) \in Nat \ {0} /\ Len(wire) \in Nat
          /\ DOMAIN (wire \o current) = 1 .. Len(wire) + Len(current)
          /\ (wire \o current)[Len(wire) + Len(current)] = current[Len(current)]
      BY <3>1, <3>2, EmptySeq, LenProperties, ConcatProperties, Concatenated
    <3>4. Len(wire) + Len(current) \in DOMAIN wire' /\ wire'[Len(wire) + Len(current)].terminal
      BY <3>1, <3>3
    <3> QED BY <3>4
  <2>2. CASE ReadClose /\ state = "closing" /\ ~wasClean
    BY <1>1, <1>2, <2>2 DEF ReadClose, Frame
  <2>3. CASE state' = state
    BY <1>1, <1>8, <2>3, ErrorSteps, WireGrows
  <2> QED BY <1>1, <1>8, <2>1, <2>2, <2>3, ErrorSteps
<1> QED BY <1>5, <1>6, <1>7, <1>8

\* With the strand alone, nothing comes between a test of the state and the
\* message it allowed.
LEMMA OneThreadStep ==
  ASSUME SessionAssumption, SessionTypeOK, SessionTypeOK', OneThread, [SessionNext]_sessionVars
  PROVE  OneThread'
<1> SUFFICES ASSUME AppThreads = {}
             PROVE  /\ pc'[Io] \in {"setclosing", "arm"} => msg'[Io].op = "close"
                    /\ pc'[Io] = "arm" \/ (pc'[Io] = "push" /\ msg'[Io].op = "close") =>
                         state' # "open"
                    /\ state' = "open" \/ (pc'[Io] = "push" /\ msg'[Io].op = "data") =>
                         \A i \in DOMAIN pushed' : pushed'[i].op = "data"
                    /\ NothingAfterClose'
  BY DEF OneThread
<1>1. /\ pc[Io] \in {"setclosing", "arm"} => msg[Io].op = "close"
      /\ pc[Io] = "arm" \/ (pc[Io] = "push" /\ msg[Io].op = "close") => state # "open"
      /\ state = "open" \/ (pc[Io] = "push" /\ msg[Io].op = "data") =>
           \A i \in DOMAIN pushed : pushed[i].op = "data"
      /\ NothingAfterClose
  BY DEF OneThread
<1>2. /\ Callers = {Io} /\ DOMAIN pc = Callers /\ DOMAIN msg = Callers
      /\ Data(Io).op = "data" /\ \A t \in BOOLEAN : CloseFrame(Io, t).op = "close"
      /\ IsServer \in BOOLEAN
  BY MessageTypes DEF SessionAssumption, Callers, SessionTypeOK, CallTypes
<1>3. state' = "open" => state = "open"
  BY EndSteps DEF SetClosing, HandleTerminate, Terminates, CloseForViolation, Terminate
<1>4. pushed' = pushed \/ Push(Io)
  <2>1. CASE UNCHANGED writeVars
    BY <2>1 DEF writeVars
  <2>2. CASE Dispatch(Io) \/ WriteStep \/ WriteEnds
    BY <2>2 DEF Dispatch, WriteStep, WriteEnds, WriteNothing, WriteFrame, WriteDone,
       WriteDoneTerminal, WriteFails
  <2> QED BY <1>2, <2>1, <2>2, QueueSteps
<1>5. CASE Push(Io)
  <2>1. /\ pc[Io] = "push" /\ pushed' = Append(pushed, msg[Io]) /\ msg' = msg
        /\ pc'[Io] \in {"idle", "dispatch"} /\ state' = state
    BY <1>2, <1>5 DEF Push
  <2>2. msg[Io] \in Messages /\ pushed \in Seq(Messages) /\ msg[Io].op \in {"data", "close"}
    BY <1>2 DEF SessionTypeOK, CallTypes, WriteTypes, Messages
  <2>3. /\ DOMAIN pushed = 1 .. Len(pushed) /\ Len(pushed) \in Nat
        /\ DOMAIN pushed' = 1 .. Len(pushed) + 1
        /\ \A i \in 1 .. Len(pushed) : pushed'[i] = pushed[i]
        /\ pushed'[Len(pushed) + 1] = msg[Io]
    BY <2>1, <2>2, AppendProperties, LenProperties
  <2>4. \A i \in DOMAIN pushed' : i \in DOMAIN pushed \/ i = Len(pushed) + 1
    BY <2>3
  <2>5. ASSUME state' = "open" PROVE \A i \in DOMAIN pushed' : pushed'[i].op = "data"
    <3>1. msg[Io].op = "data" /\ \A i \in DOMAIN pushed : pushed[i].op = "data"
      BY <1>1, <2>1, <2>2, <2>5
    <3> QED BY <2>3, <2>4, <3>1
  <2>6. ASSUME NEW i \in DOMAIN pushed', NEW j \in DOMAIN pushed', i < j,
               pushed'[i].op = "close"
        PROVE  pushed'[j].op # "data"
    <3>1. i \in DOMAIN pushed /\ pushed[i].op = "close"
      BY <2>3, <2>6
    <3>2. CASE j \in DOMAIN pushed
      BY <1>1, <2>3, <2>6, <3>1, <3>2 DEF NothingAfterClose
    <3>3. CASE j = Len(pushed) + 1
      BY <1>1, <2>1, <2>2, <2>3, <3>1, <3>3
    <3> QED BY <2>4, <3>2, <3>3
  <2> QED BY <2>1, <2>5, <2>6 DEF NothingAfterClose
<1>6. CASE pushed' = pushed
  <2> NothingAfterClose'
    BY <1>1, <1>6 DEF NothingAfterClose
  <2>1. CASE UNCHANGED <<pc, msg>>
    BY <1>1, <1>3, <1>6, <2>1
  <2>2. CASE Submit(Io)
    BY <1>1, <1>2, <1>6, <2>2 DEF Submit, Goto
  <2>3. CASE Close(Io)
    BY <1>1, <1>2, <1>3, <1>6, <2>3 DEF Close, Goto
  <2>4. CASE SetClosing(Io)
    BY <1>1, <1>2, <1>6, <2>4 DEF SetClosing, Goto
  <2>5. CASE ArmTimer(Io)
    BY <1>1, <1>2, <1>6, <2>5 DEF ArmTimer, Goto
  <2>6. CASE Dispatch(Io)
    BY <1>1, <1>2, <1>6, <2>6 DEF Dispatch, Goto
  <2>7. CASE ReadPing
    BY <1>1, <1>2, <1>6, <2>7 DEF ReadPing, Goto
  <2>8. CASE Acknowledge
    BY <1>1, <1>2, <1>6, <2>8 DEF Acknowledge, Goto
  <2>9. CASE ReadViolation
    BY <1>1, <1>2, <1>3, <1>6, <2>9 DEF ReadViolation, Goto, callVars
  <2>10. CASE Pong
    BY <1>1, <1>2, <1>6, <2>10 DEF Pong, Goto
  <2>11. CASE CloseForViolation
    BY <1>1, <1>2, <1>3, <1>6, <2>11 DEF CloseForViolation, Goto
  <2> QED BY <1>2, <1>5, <2>1, <2>2, <2>3, <2>4, <2>5, <2>6, <2>7, <2>8, <2>9, <2>10,
             <2>11, CallSteps DEF CallStep, StrandStep
<1> QED BY <1>4, <1>5, <1>6

------------------------------------------------------------------------------
(* The inductive invariant *)

LEMMA InvInit == SessionAssumption /\ SessionInit => IInv
<1> SUFFICES ASSUME SessionAssumption, SessionInit PROVE IInv
  OBVIOUS
<1>1. SessionTypeOK
  BY TypeInit
<1>2. Io \in Callers /\ AppThreads \subseteq Callers /\ \A c \in Callers : pc[c] = "idle"
  BY DEF SessionInit, Callers
<1>3. WriteDiscipline /\ TerminalEndsBatch /\ NoMessageForgotten /\ ReadsInTurn
  BY EmptySeq DEF SessionInit, WriteDiscipline, TerminalEndsBatch, NoMessageForgotten, ReadsInTurn
<1>4. QueueIsFifo
  BY <1>1, ConcatEmptySeq DEF SessionInit, QueueIsFifo, SessionTypeOK, WriteTypes
<1>5. EndsOnce
  BY <1>2 DEF SessionInit, EndsOnce
<1>6. EndsFlushed
  BY <1>2 DEF SessionInit, EndsFlushed, SessionAssumption
<1>7. OneThread
  BY <1>2, EmptySeq DEF SessionInit, OneThread, NothingAfterClose
<1> QED BY <1>1, <1>3, <1>4, <1>5, <1>6, <1>7 DEF IInv

LEMMA InvStep == SessionAssumption /\ IInv /\ [SessionNext]_sessionVars => IInv'
<1> SUFFICES ASSUME SessionAssumption, IInv, [SessionNext]_sessionVars PROVE IInv'
  OBVIOUS
<1>1. SessionTypeOK' /\ SessionTypeOK
  BY TypeStep DEF IInv
<1>2. WriteDiscipline' /\ TerminalEndsBatch'
  BY <1>1, DisciplineStep, TerminalStep DEF IInv
<1>3. QueueIsFifo' /\ NoMessageForgotten'
  BY <1>1, FifoStep, ForgottenStep DEF IInv
<1>4. ReadsInTurn' /\ EndsOnce'
  BY <1>1, ReadsStep, EndsOnceStep DEF IInv
<1>5. EndsFlushed' /\ OneThread'
  BY <1>1, EndsFlushedStep, OneThreadStep DEF IInv
<1> QED BY <1>1, <1>2, <1>3, <1>4, <1>5 DEF IInv

\* The bookkeeping of the write queue, the read loop and the end of a session
\* (write_push(), write_frame(), handle_write_frame(), read_frame(),
\* terminate()) is kept by every step, for every application and peer.
THEOREM SessionInvariant == SessionAssumption => (SessionSpec => []IInv)
<1> SUFFICES ASSUME SessionAssumption PROVE SessionSpec => []IInv
  OBVIOUS
<1>1. SessionInit => IInv
  BY InvInit
<1>2. IInv /\ [SessionNext]_sessionVars => IInv'
  BY InvStep
<1> QED BY <1>1, <1>2, PTL DEF SessionSpec

------------------------------------------------------------------------------
(* What it means for the application, the transport and the peer *)

\* What is with the transport is the beginning of what was queued.
LEMMA PrefixOfQueued ==
  ASSUME IInv
  PROVE  /\ Len(wire) <= Len(pushed) /\ wire = SubSeq(pushed, 1, Len(wire))
         /\ \A i \in DOMAIN wire : i \in DOMAIN pushed /\ wire[i] = pushed[i]
<1>1. /\ wire \in Seq(Messages) /\ lost \in Seq(Messages) /\ current \in Seq(Messages)
      /\ queue \in Seq(Messages) /\ pushed \in Seq(Messages)
  BY DEF IInv, SessionTypeOK, WriteTypes
<1> DEFINE rest == (lost \o current) \o queue
<1>2. pushed = wire \o rest
  <2>1. (lost \o current) \in Seq(Messages)
    BY <1>1, ConcatProperties
  <2>2. (wire \o lost) \o current = wire \o (lost \o current)
    BY <1>1, ConcatAssociative
  <2>3. (wire \o (lost \o current)) \o queue = wire \o rest
    BY <1>1, <2>1, ConcatAssociative
  <2> QED BY <2>2, <2>3 DEF IInv, QueueIsFifo
<1>3. rest \in Seq(Messages)
  BY <1>1, ConcatProperties
<1> HIDE DEF rest
<1>4. /\ Len(pushed) = Len(wire) + Len(rest) /\ Len(wire) \in Nat /\ Len(rest) \in Nat
      /\ DOMAIN wire = 1 .. Len(wire) /\ DOMAIN pushed = 1 .. Len(wire) + Len(rest)
      /\ \A i \in 1 .. Len(wire) : pushed[i] = wire[i]
  BY <1>1, <1>2, <1>3, Concatenated
<1>5. /\ Len(SubSeq(pushed, 1, Len(wire))) = Len(wire)
      /\ SubSeq(pushed, 1, Len(wire)) \in Seq(Messages)
      /\ \A i \in 1 .. Len(wire) : SubSeq(pushed, 1, Len(wire))[i] = pushed[i]
  BY <1>1, <1>4, Cut
<1>6. wire = SubSeq(pushed, 1, Len(wire))
  BY <1>1, <1>4, <1>5, SeqEqual
<1> QED BY <1>4, <1>6

LEMMA Promises ==
  ASSUME SessionAssumption, IInv
  PROVE  SessionSerial
<1>1. WireInOrder
  BY PrefixOfQueued DEF WireInOrder
<1>2. OneWriteInFlight
  BY DEF IInv, WriteDiscipline, OneWriteInFlight
<1>3. TerminalIsLast
  <2>1. wire \in Seq(Messages)
    BY DEF IInv, SessionTypeOK, WriteTypes
  <2>2. DOMAIN wire = 1 .. Len(wire) /\ Len(wire) \in Nat
    BY <2>1, LenProperties
  <2> QED BY <2>2 DEF IInv, TerminalEndsBatch, TerminalIsLast
<1>4. "pause" \notin Calls => OneReadInFlight
  BY DEF IInv, ReadsInTurn, OneReadInFlight
<1>5. ClosesOnStrand => CloseHandlerOnce
  BY DEF IInv, EndsOnce, CloseHandlerOnce
<1>6. ASSUME AnswersOnly, state = "closed", ec = "none",
             NEW i \in DOMAIN pushed, \A j \in 1 .. i : pushed[j].op = "close" <=> j = i
      PROVE  Len(wire) >= i - 1
  <2>1. PICK t \in DOMAIN wire : wire[t].terminal
    BY <1>6 DEF IInv, EndsFlushed
  <2>2. wire \in Seq(Messages) /\ pushed \in Seq(Messages)
    BY DEF IInv, SessionTypeOK, WriteTypes
  <2>3. wire[t].op = "close"
    BY <2>1, <2>2, ElementOfSeq, LenProperties DEF Messages
  <2>4. pushed[t].op = "close" /\ t \in 1 .. Len(wire) /\ Len(wire) \in Nat
    BY <2>2, <2>3, PrefixOfQueued, LenProperties
  <2>5. i \in Nat /\ i >= 1
    BY <2>2, LenProperties
  <2>6. t >= i
    BY <1>6, <2>4, <2>5
  <2> QED BY <2>4, <2>5, <2>6
<1>7. AppThreads = {} => NothingAfterClose
  BY DEF IInv, OneThread
<1> QED BY <1>1, <1>2, <1>3, <1>4, <1>5, <1>6, <1>7 DEF SessionSerial, CloseFlushes

\* impl/connection_impl.hpp, write_push() to handle_write_frame(): whatever
\* the application and the peer do, what goes out is what was queued, in order
\* and once, up to the first terminal message; and to the applications that
\* keep to one thread, to one read, or leave closing to their peer, the end is
\* told once, flushed, and followed by silence.
THEOREM SessionIsSerial == SessionAssumption => (SessionSpec => []SessionSerial)
<1> SUFFICES ASSUME SessionAssumption PROVE SessionSpec => []SessionSerial
  OBVIOUS
<1>1. SessionSpec => []IInv
  BY SessionInvariant
<1>2. IInv => SessionSerial
  BY Promises
<1> QED BY <1>1, <1>2, PTL

------------------------------------------------------------------------------
(* SocketPolicy: the sockets below a connection *)

\* The handshake waits for its handler or for that of its timer, and the
\* session has not been told.
Shaking(k) == k.timer["handshake"] \in {"running", "passed"}

\* Until the handler of the handshake has run m_ec says timeout; whether it
\* ran in time is what the timer says.
Handshake(k) ==
  /\ Shaking(k) =>
       /\ k.stage = "begun" /\ k.op["handshake"] # "aborted"
       /\ (k.op["handshake"] = "idle") = (k.m_ec # "tls_handshake_timeout")
       /\ k.m_ec \in {"tls_handshake_timeout", "ok", "tls_handshake_failed"}
  /\ k.timer["handshake"] = "cancelled" => k.op["handshake"] = "idle"
  /\ k.timer["handshake"] = "done" => k.op["handshake"] # "pending"
  /\ k.timer["handshake"] = "unset" => k.op["handshake"] = "idle"

\* What a session has heard follows from where its socket is.
Socket(k) ==
  /\ k.stage \in {"absent", "ready"} => Len(k.told) = 0 /\ k.timer["handshake"] = "unset"
  /\ k.stage = "refused" => Len(k.told) = 1 /\ k.timer["handshake"] = "unset"
  /\ k.stage \in {"begun", "closing", "closed"} => Len(k.told) = IF Shaking(k) THEN 0 ELSE 1
  /\ k.stage = "begun" /\ Secure => k.timer["handshake"] # "unset"
  /\ k.stage \notin {"closing", "closed"} => k.op["shutdown"] = "idle" /\ k.timer["shutdown"] = "unset"
  /\ Handshake(k)

PolicyInv == PolicyTypeOK /\ \A c \in Connections : Socket(con[c])

\* The client's server has a name that OpenSSL takes.
NoRefusal == Server \/ ~SniFails

LEMMA OpsAre == Ops = {"handshake", "shutdown"} /\ "handshake" \in Ops /\ "shutdown" \in Ops
  BY DEF Ops

LEMMA OneSocketChanges ==
  ASSUME PolicyInv, NEW c \in Connections, NEW k \in Sockets, Socket(k),
         con' = [con EXCEPT ![c] = k], UNCHANGED <<Secure, handler>>
  PROVE  PolicyInv'
<1>1. con' \in [Connections -> Sockets] /\ con'[c] = k
      /\ \A d \in Connections : d # c => con'[d] = con[d]
  BY DEF PolicyInv, PolicyTypeOK
<1>2. PolicyTypeOK'
  BY <1>1 DEF PolicyInv, PolicyTypeOK
<1>3. ASSUME NEW d \in Connections PROVE Socket(con[d])'
  <2>1. CASE d = c
    BY <1>1, <2>1 DEF Socket, Shaking, Handshake
  <2>2. CASE d # c
    BY <1>1, <1>3, <2>2 DEF PolicyInv, Socket, Shaking, Handshake
  <2>3. QED
    BY <2>1, <2>2
<1>4. QED
  BY <1>2, <1>3 DEF PolicyInv

\* The session is told one code.
LEMMA TellOne ==
  ASSUME NEW k \in Sockets, NEW code \in ErrorCodes
  PROVE  /\ Append(k.told, code) \in Seq(ErrorCodes)
         /\ Len(Append(k.told, code)) = Len(k.told) + 1
         /\ Append(k.told, code)[Len(k.told) + 1] = code
         /\ Len(k.told) \in Nat
         /\ <<code>> \in Seq(ErrorCodes) /\ Len(<<code>>) = 1
<1>1. k.told \in Seq(ErrorCodes)
  BY DEF Sockets
<1>2. QED
  BY <1>1, AppendProperties, LenProperties

LEMMA AbsentSocket ==
  /\ Absent \in Sockets /\ Socket(Absent)
  /\ Absent.stage = "absent" /\ Len(Absent.told) = 0
<1>1. <<>> \in Seq(ErrorCodes) /\ Len(<<>>) = 0
  OBVIOUS
<1>2. Absent \in Sockets
  BY <1>1 DEF Absent, Sockets, ErrorCodes, TlsHandlers
<1>3. QED
  BY <1>1, <1>2, OpsAre DEF Absent, Socket, Shaking, Handshake

LEMMA CreateKeeps ==
  ASSUME PolicyAssumption, PolicyInv, NEW c \in Connections, Create(c)
  PROVE  PolicyInv'
<1>1. InitCode(handler) \in ErrorCodes
  BY DEF InitCode, ErrorCodes
<1>2. CASE InitCode(handler) = "ok"
  <2> DEFINE k == [Absent EXCEPT !.stage = "ready", !.m_tls_init_handler = handler,
                                 !.m_context = IF Secure THEN handler ELSE "unset"]
  <2>1. handler \in TlsHandlers /\ (Secure => handler \in {"ctx1", "ctx2"})
    BY <1>2 DEF PolicyInv, PolicyTypeOK, InitCode, TlsHandlers
  <2>2. k \in Sockets
    BY <2>1, AbsentSocket DEF Sockets
  <2>3. Socket(k)
    BY OpsAre DEF Absent, Socket, Shaking, Handshake
  <2>4. con' = [con EXCEPT ![c] = k]
    BY <1>2 DEF Create
  <2>5. QED
    BY <2>2, <2>3, <2>4, OneSocketChanges DEF Create
<1>3. CASE InitCode(handler) # "ok"
  <2> DEFINE k == [Absent EXCEPT !.stage = "refused", !.told = <<InitCode(handler)>>]
  <2>1. k \in Sockets /\ Len(<<InitCode(handler)>>) = 1
    BY <1>1, AbsentSocket, TellOne DEF Sockets
  <2>2. Socket(k)
    BY <2>1 DEF Absent, Socket, Shaking, Handshake, Ops
  <2>3. con' = [con EXCEPT ![c] = k]
    BY <1>3 DEF Create
  <2>4. QED
    BY <2>1, <2>2, <2>3, OneSocketChanges DEF Create
<1>4. QED
  BY <1>2, <1>3

LEMMA PreInitKeeps ==
  ASSUME PolicyAssumption, NoRefusal, PolicyInv, NEW c \in Connections, PreInit(c)
  PROVE  PolicyInv'
<1> DEFINE b == [con[c] EXCEPT !.stage = "begun"]
<1> DEFINE k == PostInit(b)
<1>1. con[c] \in Sockets /\ Socket(con[c]) /\ con[c].stage = "ready" /\ UNCHANGED <<Secure, handler>>
  BY DEF PolicyInv, PolicyTypeOK, PreInit
<1>2. con' = [con EXCEPT ![c] = k]
  BY DEF PreInit, NoRefusal
<1>3. b \in Sockets /\ b.stage = "begun" /\ b.told = con[c].told /\ b.timer = con[c].timer /\ b.op = con[c].op
  BY <1>1 DEF Sockets
<1>4. /\ Len(b.told) = 0 /\ b.timer["handshake"] = "unset" /\ b.op["handshake"] = "idle"
      /\ b.timer["shutdown"] = "unset" /\ b.op["shutdown"] = "idle"
  BY <1>1, <1>3 DEF Socket, Handshake
<1> HIDE DEF b
<1>5. k \in Sockets /\ Socket(k)
  <2>1. CASE Secure
    <3> DEFINE l == [b EXCEPT !.m_ec = "tls_handshake_timeout"]
    <3>1. k = [l EXCEPT !.op["handshake"] = "pending", !.timer["handshake"] = "running"]
      BY <2>1 DEF PostInit, Begin
    <3>2. /\ l \in Sockets /\ l.stage = "begun" /\ l.m_ec = "tls_handshake_timeout"
          /\ l.told = b.told /\ l.op = b.op /\ l.timer = b.timer
      BY <1>3 DEF Sockets, ErrorCodes
    <3> HIDE DEF l, k
    <3>3. /\ k \in Sockets
          /\ k.op["handshake"] = "pending" /\ k.timer["handshake"] = "running" /\ k.stage = "begun"
          /\ k.m_ec = "tls_handshake_timeout" /\ k.told = b.told
          /\ k.op["shutdown"] = b.op["shutdown"] /\ k.timer["shutdown"] = b.timer["shutdown"]
      BY <3>1, <3>2, OpsAre DEF Sockets
    <3>4. QED
      BY <1>4, <3>3 DEF Socket, Shaking, Handshake
  <2>2. CASE ~Secure
    <3>1. k = [b EXCEPT !.told = Append(@, "ok")]
      BY <2>2 DEF PostInit
    <3>2. Append(b.told, "ok") \in Seq(ErrorCodes) /\ Len(Append(b.told, "ok")) = 1
      BY <1>3, <1>4, TellOne DEF ErrorCodes
    <3>3. k \in Sockets /\ k.told = Append(b.told, "ok") /\ k.stage = "begun" /\ k.timer = b.timer
          /\ k.op = b.op
      BY <1>3, <3>1, <3>2 DEF Sockets
    <3>4. QED
      BY <1>4, <2>2, <3>2, <3>3 DEF Socket, Shaking, Handshake
  <2>3. QED
    BY <2>1, <2>2
<1>6. QED
  BY <1>1, <1>2, <1>5, OneSocketChanges

LEMMA PeerKeeps ==
  ASSUME PolicyInv, NEW c \in Connections, NEW o \in Ops, PeerAnswers(c, o)
  PROVE  PolicyInv'
<1>1. con[c] \in Sockets /\ Socket(con[c]) /\ con[c].op[o] = "pending"
  BY DEF PolicyInv, PolicyTypeOK, PeerAnswers
<1>2. PICK r \in {"ok", "error"} : con' = [con EXCEPT ![c] = [con[c] EXCEPT !.op[o] = r]]
  BY DEF PeerAnswers, PolicyInv, PolicyTypeOK
<1> DEFINE k == [con[c] EXCEPT !.op[o] = r]
<1>3. k \in Sockets
  BY <1>1 DEF Sockets
<1>4. /\ k.stage = con[c].stage /\ k.told = con[c].told /\ k.timer = con[c].timer /\ k.m_ec = con[c].m_ec
      /\ k.op["handshake"] = IF o = "handshake" THEN r ELSE con[c].op["handshake"]
      /\ k.op["shutdown"] = IF o = "shutdown" THEN r ELSE con[c].op["shutdown"]
  BY <1>1, OpsAre DEF Sockets
<1> HIDE DEF k
<1>5. Socket(k)
  BY <1>1, <1>4, OpsAre DEF Socket, Shaking, Handshake
<1>6. QED
  BY <1>2, <1>3, <1>5, OneSocketChanges DEF PeerAnswers, k

LEMMA TimeKeeps ==
  ASSUME PolicyInv, NEW c \in Connections, NEW o \in Ops, TimePasses(c, o)
  PROVE  PolicyInv'
<1>1. con[c] \in Sockets /\ Socket(con[c]) /\ con[c].timer[o] = "running"
  BY DEF PolicyInv, PolicyTypeOK, TimePasses
<1>2. con' = [con EXCEPT ![c] = [con[c] EXCEPT !.timer[o] = "passed"]]
  BY DEF TimePasses, PolicyInv, PolicyTypeOK
<1> DEFINE k == [con[c] EXCEPT !.timer[o] = "passed"]
<1>3. k \in Sockets
  BY <1>1 DEF Sockets
<1>4. /\ k.stage = con[c].stage /\ k.told = con[c].told /\ k.op = con[c].op /\ k.m_ec = con[c].m_ec
      /\ k.timer["handshake"] = IF o = "handshake" THEN "passed" ELSE con[c].timer["handshake"]
      /\ k.timer["shutdown"] = IF o = "shutdown" THEN "passed" ELSE con[c].timer["shutdown"]
  BY <1>1, OpsAre DEF Sockets
<1> HIDE DEF k
<1>5. Socket(k)
  BY <1>1, <1>4, OpsAre DEF Socket, Shaking, Handshake
<1>6. QED
  BY <1>2, <1>3, <1>5, OneSocketChanges DEF TimePasses, k

\* The handler of the handshake: the code it leaves in m_ec, and what it tells.
LEMMA HandleInitSteps ==
  ASSUME PolicyInv, NEW c \in Connections, HandleInit(c)
  PROVE  \E k \in Sockets, code \in {"ok", "tls_handshake_failed"} :
           /\ con' = [con EXCEPT ![c] = k]
           /\ con[c].op["handshake"] \in {"ok", "error", "aborted"}
           /\ (code = "ok") = (con[c].op["handshake"] = "ok")
           /\ k.stage = con[c].stage /\ k.m_ec = code /\ k.op["handshake"] = "idle"
           /\ k.op["shutdown"] = con[c].op["shutdown"] /\ k.timer["shutdown"] = con[c].timer["shutdown"]
           /\ IF con[c].timer["handshake"] \in {"passed", "done"}
                THEN k.timer["handshake"] = con[c].timer["handshake"] /\ k.told = con[c].told
                ELSE k.timer["handshake"] = "cancelled" /\ k.told = Append(con[c].told, code)
<1> DEFINE code == IF con[c].op["handshake"] = "ok" THEN "ok" ELSE "tls_handshake_failed"
<1> DEFINE b == [con[c] EXCEPT !.m_ec = code, !.op["handshake"] = "idle"]
<1>1. con[c] \in Sockets
  BY DEF PolicyInv, PolicyTypeOK
<1>2. con[c].op["handshake"] \in {"ok", "error", "aborted"}
  BY DEF HandleInit
<1>3. /\ code \in {"ok", "tls_handshake_failed"} /\ code \in ErrorCodes
      /\ (code = "ok") = (con[c].op["handshake"] = "ok")
  BY <1>2 DEF ErrorCodes
<1>4. con' = [con EXCEPT ![c] = IF Late(b, "handshake") THEN b
          ELSE [b EXCEPT !.timer["handshake"] = "cancelled", !.told = Append(@, code)]]
  BY DEF HandleInit
<1> HIDE DEF code
<1>5. /\ b \in Sockets /\ b.stage = con[c].stage /\ b.m_ec = code /\ b.op["handshake"] = "idle"
      /\ b.timer = con[c].timer /\ b.told = con[c].told /\ b.op["shutdown"] = con[c].op["shutdown"]
  BY <1>1, <1>3, OpsAre DEF Sockets
<1> HIDE DEF b
<1>6. CASE Late(b, "handshake")
  BY <1>2, <1>3, <1>4, <1>5, <1>6 DEF Late
<1>7. CASE ~Late(b, "handshake")
  <2> DEFINE k == [b EXCEPT !.timer["handshake"] = "cancelled", !.told = Append(@, code)]
  <2>1. Append(b.told, code) \in Seq(ErrorCodes)
    BY <1>3, <1>5, TellOne
  <2>2. /\ k \in Sockets /\ k.stage = b.stage /\ k.m_ec = code /\ k.op = b.op
        /\ k.timer["handshake"] = "cancelled" /\ k.told = Append(b.told, code)
        /\ k.timer["shutdown"] = b.timer["shutdown"]
    BY <1>3, <1>5, <2>1, OpsAre DEF Sockets
  <2>3. con' = [con EXCEPT ![c] = k] /\ con[c].timer["handshake"] \notin {"passed", "done"}
    BY <1>4, <1>5, <1>7 DEF Late
  <2> HIDE DEF k
  <2>4. QED
    BY <1>2, <1>3, <1>5, <2>2, <2>3
<1>8. QED
  BY <1>6, <1>7

LEMMA HandleInitKeeps ==
  ASSUME PolicyInv, NEW c \in Connections, HandleInit(c)
  PROVE  PolicyInv'
<1>1. PICK k \in Sockets, code \in {"ok", "tls_handshake_failed"} :
        /\ con' = [con EXCEPT ![c] = k]
        /\ con[c].op["handshake"] \in {"ok", "error", "aborted"}
        /\ (code = "ok") = (con[c].op["handshake"] = "ok")
        /\ k.stage = con[c].stage /\ k.m_ec = code /\ k.op["handshake"] = "idle"
        /\ k.op["shutdown"] = con[c].op["shutdown"] /\ k.timer["shutdown"] = con[c].timer["shutdown"]
        /\ IF con[c].timer["handshake"] \in {"passed", "done"}
             THEN k.timer["handshake"] = con[c].timer["handshake"] /\ k.told = con[c].told
             ELSE k.timer["handshake"] = "cancelled" /\ k.told = Append(con[c].told, code)
  BY HandleInitSteps
<1>2. con[c] \in Sockets /\ Socket(con[c])
  BY DEF PolicyInv, PolicyTypeOK
<1>3. Len(Append(con[c].told, code)) = Len(con[c].told) + 1 /\ Len(con[c].told) \in Nat
  BY <1>2, TellOne DEF ErrorCodes
<1>4. con[c].timer["handshake"] \in {"unset", "running", "passed", "done", "cancelled"}
  BY <1>2, OpsAre DEF Sockets
<1>5. Socket(k)
  BY <1>1, <1>2, <1>3, <1>4 DEF Socket, Shaking, Handshake
<1>6. QED
  BY <1>1, <1>5, OneSocketChanges DEF HandleInit

\* cancel_socket() makes the operations end that are under way.
LEMMA CancelSteps ==
  ASSUME NEW k \in Sockets
  PROVE  /\ CancelSocket(k) \in Sockets
         /\ CancelSocket(k).stage = k.stage /\ CancelSocket(k).told = k.told
         /\ CancelSocket(k).m_ec = k.m_ec /\ CancelSocket(k).timer = k.timer
         /\ CancelSocket(k).op["handshake"] =
              IF k.op["handshake"] = "pending" THEN "aborted" ELSE k.op["handshake"]
         /\ k.op["shutdown"] = "idle" => CancelSocket(k).op["shutdown"] = "idle"
<1>1. [o \in Ops |-> IF k.op[o] = "pending" THEN "aborted" ELSE k.op[o]]
        \in [Ops -> {"idle", "pending", "ok", "error", "aborted"}]
  BY DEF Sockets
<1>2. QED
  BY <1>1, OpsAre DEF Sockets, CancelSocket

LEMMA HandleTimeoutSteps ==
  ASSUME PolicyInv, NEW c \in Connections, HandleTimeout(c)
  PROVE  \E k \in Sockets :
           /\ con' = [con EXCEPT ![c] = k]
           /\ con[c].timer["handshake"] = "passed" /\ k.timer["handshake"] = "done"
           /\ k.stage = con[c].stage /\ k.m_ec = con[c].m_ec
           /\ k.told = Append(con[c].told, TimeoutCode(con[c])) /\ TimeoutCode(con[c]) \in ErrorCodes
           /\ k.op["handshake"] =
                IF con[c].op["handshake"] = "pending" THEN "aborted" ELSE con[c].op["handshake"]
           /\ con[c].op["shutdown"] = "idle" => k.op["shutdown"] = "idle"
           /\ k.timer["shutdown"] = con[c].timer["shutdown"]
<1> DEFINE b == [con[c] EXCEPT !.timer["handshake"] = "done",
                               !.told = Append(@, TimeoutCode(con[c]))]
<1>1. con[c] \in Sockets /\ con[c].timer["handshake"] = "passed"
  BY DEF PolicyInv, PolicyTypeOK, HandleTimeout
<1>2. TimeoutCode(con[c]) \in ErrorCodes
  BY <1>1 DEF TimeoutCode, Sockets, ErrorCodes
<1>3. con' = [con EXCEPT ![c] = CancelSocket(b)]
  BY DEF HandleTimeout, PolicyInv, PolicyTypeOK
<1>4. Append(con[c].told, TimeoutCode(con[c])) \in Seq(ErrorCodes)
  BY <1>1, <1>2, TellOne
<1>5. /\ b \in Sockets /\ b.timer["handshake"] = "done" /\ b.stage = con[c].stage /\ b.m_ec = con[c].m_ec
      /\ b.op = con[c].op /\ b.told = Append(con[c].told, TimeoutCode(con[c]))
      /\ b.timer["shutdown"] = con[c].timer["shutdown"]
  BY <1>1, <1>4, OpsAre DEF Sockets
<1> HIDE DEF b
<1>6. CancelSocket(b) \in Sockets
  BY <1>5, CancelSteps
<1>7. /\ CancelSocket(b).stage = con[c].stage /\ CancelSocket(b).timer["handshake"] = "done"
      /\ CancelSocket(b).m_ec = con[c].m_ec
      /\ CancelSocket(b).told = Append(con[c].told, TimeoutCode(con[c]))
      /\ CancelSocket(b).op["handshake"] =
           IF con[c].op["handshake"] = "pending" THEN "aborted" ELSE con[c].op["handshake"]
      /\ con[c].op["shutdown"] = "idle" => CancelSocket(b).op["shutdown"] = "idle"
      /\ CancelSocket(b).timer["shutdown"] = con[c].timer["shutdown"]
  BY <1>5, CancelSteps
<1>8. QED
  BY <1>1, <1>2, <1>3, <1>6, <1>7

LEMMA HandleTimeoutKeeps ==
  ASSUME PolicyInv, NEW c \in Connections, HandleTimeout(c)
  PROVE  PolicyInv'
<1>1. PICK k \in Sockets :
        /\ con' = [con EXCEPT ![c] = k]
        /\ con[c].timer["handshake"] = "passed" /\ k.timer["handshake"] = "done"
        /\ k.stage = con[c].stage /\ k.m_ec = con[c].m_ec
        /\ k.told = Append(con[c].told, TimeoutCode(con[c])) /\ TimeoutCode(con[c]) \in ErrorCodes
        /\ k.op["handshake"] =
             IF con[c].op["handshake"] = "pending" THEN "aborted" ELSE con[c].op["handshake"]
        /\ con[c].op["shutdown"] = "idle" => k.op["shutdown"] = "idle"
        /\ k.timer["shutdown"] = con[c].timer["shutdown"]
  BY HandleTimeoutSteps
<1>2. con[c] \in Sockets /\ Socket(con[c])
  BY DEF PolicyInv, PolicyTypeOK
<1>3. Len(k.told) = Len(con[c].told) + 1
  BY <1>1, <1>2, TellOne
<1>4. Socket(k)
  BY <1>1, <1>2, <1>3 DEF Socket, Shaking, Handshake
<1>5. QED
  BY <1>1, <1>4, OneSocketChanges DEF HandleTimeout

LEMMA ToldIsSome ==
  ASSUME NEW k \in Sockets, k.told # <<>> PROVE Len(k.told) # 0
  BY EmptySeq DEF Sockets

LEMMA AsyncShutdownKeeps ==
  ASSUME PolicyInv, NEW c \in Connections, AsyncShutdown(c)
  PROVE  PolicyInv'
<1> DEFINE k == IF Secure THEN Begin([con[c] EXCEPT !.stage = "closing"], "shutdown")
                ELSE [con[c] EXCEPT !.stage = "closed"]
<1>1. con[c] \in Sockets /\ Socket(con[c]) /\ con[c].stage = "begun" /\ con[c].told # <<>>
  BY DEF PolicyInv, PolicyTypeOK, AsyncShutdown
<1>2. con' = [con EXCEPT ![c] = k]
  BY DEF AsyncShutdown, PolicyInv, PolicyTypeOK
<1>3. /\ k \in Sockets /\ k.stage \in {"closing", "closed"} /\ k.told = con[c].told /\ k.m_ec = con[c].m_ec
      /\ k.op["handshake"] = con[c].op["handshake"] /\ k.timer["handshake"] = con[c].timer["handshake"]
  <2>1. CASE Secure
    <3> DEFINE b == [con[c] EXCEPT !.stage = "closing"]
    <3>1. /\ b \in Sockets /\ b.stage = "closing" /\ b.told = con[c].told /\ b.m_ec = con[c].m_ec
          /\ b.op = con[c].op /\ b.timer = con[c].timer
      BY <1>1 DEF Sockets
    <3>2. k = [b EXCEPT !.op["shutdown"] = "pending", !.timer["shutdown"] = "running"]
      BY <2>1 DEF Begin
    <3> HIDE DEF b, k
    <3>3. QED
      BY <3>1, <3>2, OpsAre DEF Sockets
  <2>2. CASE ~Secure
    BY <1>1, <2>2 DEF Sockets
  <2>3. QED
    BY <2>1, <2>2
<1> HIDE DEF k
<1>4. Len(con[c].told) # 0
  BY <1>1, ToldIsSome
<1>5. Socket(k)
  BY <1>1, <1>3, <1>4 DEF Socket, Shaking, Handshake
<1>6. QED
  BY <1>2, <1>3, <1>5, OneSocketChanges DEF AsyncShutdown


\* What is of the shutdown leaves alone what the handshake left: what is told
\* and the handshake's timer, and its operation, which may be aborted.
LEMMA ShutdownFits ==
  ASSUME NEW k \in Sockets, Socket(k), ~Shaking(k), k.stage \in {"closing", "closed"},
         NEW l \in Sockets, l.stage \in {"closing", "closed"},
         l.told = k.told, l.timer["handshake"] = k.timer["handshake"],
         l.op["handshake"] = k.op["handshake"]
           \/ (k.op["handshake"] = "pending" /\ l.op["handshake"] = "aborted")
  PROVE  Socket(l)
  BY DEF Socket, Shaking, Handshake

LEMMA HandleShutdownKeeps ==
  ASSUME PolicyInv, NEW c \in Connections, HandleShutdown(c)
  PROVE  PolicyInv'
<1> DEFINE k == [con[c] EXCEPT !.op["shutdown"] = "idle"]
<1>1. con[c] \in Sockets /\ Socket(con[c]) /\ con[c].op["shutdown"] # "idle"
  BY DEF PolicyInv, PolicyTypeOK, HandleShutdown
<1>2. con[c].stage \in {"closing", "closed"} /\ ~Shaking(con[c])
  BY <1>1 DEF Socket, Handshake
<1>3. PICK e \in {"ssl_error", "eof"} :
        con' = [con EXCEPT ![c] =
          IF Late(k, "shutdown") THEN k
          ELSE [k EXCEPT !.timer["shutdown"] = "cancelled", !.stage = "closed",
                         !.end = IF con[c].op["shutdown"] = "error" THEN TranslateEc(e) ELSE "ok"]]
  BY DEF HandleShutdown
<1>4. /\ k \in Sockets /\ k.stage = con[c].stage /\ k.told = con[c].told /\ k.timer = con[c].timer
      /\ k.op["handshake"] = con[c].op["handshake"]
  BY <1>1, OpsAre DEF Sockets
<1> HIDE DEF k
<1>5. CASE Late(k, "shutdown")
  <2>1. con' = [con EXCEPT ![c] = k]
    BY <1>3, <1>5
  <2>2. Socket(k)
    BY <1>1, <1>2, <1>4, ShutdownFits
  <2>3. QED
    BY <1>4, <2>1, <2>2, OneSocketChanges DEF HandleShutdown
<1>6. CASE ~Late(k, "shutdown")
  <2> DEFINE end == IF con[c].op["shutdown"] = "error" THEN TranslateEc(e) ELSE "ok"
  <2> DEFINE l == [k EXCEPT !.timer["shutdown"] = "cancelled", !.stage = "closed", !.end = end]
  <2>1. con' = [con EXCEPT ![c] = l]
    BY <1>3, <1>6
  <2>2. end \in ErrorCodes
    BY DEF TranslateEc, ErrorCodes
  <2> HIDE DEF end
  <2>3. /\ l \in Sockets /\ l.stage = "closed" /\ l.told = k.told /\ l.op = k.op
        /\ l.timer["handshake"] = k.timer["handshake"]
    BY <1>4, <2>2, OpsAre DEF Sockets
  <2> HIDE DEF l
  <2>4. Socket(l)
    BY <1>1, <1>2, <1>4, <2>3, ShutdownFits
  <2>5. QED
    BY <2>1, <2>3, <2>4, OneSocketChanges DEF HandleShutdown
<1>7. QED
  BY <1>5, <1>6

LEMMA ShutdownTimeoutKeeps ==
  ASSUME PolicyInv, NEW c \in Connections, ShutdownTimeout(c)
  PROVE  PolicyInv'
<1> DEFINE b == [con[c] EXCEPT !.timer["shutdown"] = "done", !.stage = "closed", !.end = "timeout"]
<1>1. con[c] \in Sockets /\ Socket(con[c]) /\ con[c].timer["shutdown"] # "unset"
  BY DEF PolicyInv, PolicyTypeOK, ShutdownTimeout
<1>2. con[c].stage \in {"closing", "closed"} /\ ~Shaking(con[c])
  BY <1>1 DEF Socket, Handshake
<1>3. con' = [con EXCEPT ![c] = CancelSocket(b)]
  BY DEF ShutdownTimeout, PolicyInv, PolicyTypeOK
<1>4. /\ b \in Sockets /\ b.stage = "closed" /\ b.told = con[c].told /\ b.op = con[c].op
      /\ b.timer["handshake"] = con[c].timer["handshake"]
  BY <1>1, OpsAre DEF Sockets, ErrorCodes
<1> HIDE DEF b
<1>5. /\ CancelSocket(b) \in Sockets /\ CancelSocket(b).stage = "closed"
      /\ CancelSocket(b).told = con[c].told
      /\ CancelSocket(b).timer["handshake"] = con[c].timer["handshake"]
      /\ CancelSocket(b).op["handshake"] =
           IF con[c].op["handshake"] = "pending" THEN "aborted" ELSE con[c].op["handshake"]
  BY <1>4, CancelSteps
<1>6. Socket(CancelSocket(b))
  BY <1>1, <1>2, <1>5, ShutdownFits
<1>7. QED
  BY <1>3, <1>5, <1>6, OneSocketChanges DEF ShutdownTimeout

LEMMA PolicyStep ==
  ASSUME PolicyAssumption, NoRefusal, PolicyInv, [PolicyNext]_policyVars
  PROVE  PolicyInv'
<1>1. CASE SetTlsInitHandler
  BY <1>1 DEF SetTlsInitHandler, PolicyInv, PolicyTypeOK, Socket, Shaking, Handshake
<1>2. CASE UNCHANGED policyVars
  BY <1>2 DEF policyVars, PolicyInv, PolicyTypeOK, Socket, Shaking, Handshake
<1>3. QED
  BY <1>1, <1>2, CreateKeeps, PreInitKeeps, HandleInitKeeps, HandleTimeoutKeeps, AsyncShutdownKeeps,
     HandleShutdownKeeps, ShutdownTimeoutKeeps, PeerKeeps, TimeKeeps DEF PolicyNext

LEMMA PolicyStart == ASSUME PolicyInit PROVE PolicyInv
<1>1. con \in [Connections -> Sockets] /\ \A c \in Connections : con[c] = Absent
  BY AbsentSocket DEF PolicyInit
<1>2. QED
  BY <1>1, AbsentSocket DEF PolicyInit, PolicyInv, PolicyTypeOK, TlsHandlers

\* SocketPolicy: unless OpenSSL refuses the name of a client's server, what a
\* session has been told follows from the stage of its socket and the timer of
\* its handshake, whatever the peer answers and when.
THEOREM SocketsTell == PolicyAssumption /\ NoRefusal => (PolicySpec => []PolicyInv)
<1> SUFFICES ASSUME PolicyAssumption, NoRefusal PROVE PolicySpec => []PolicyInv
  OBVIOUS
<1>1. QED
  BY PolicyStart, PolicyStep, PTL DEF PolicySpec

\* SocketPolicy: the session hears once of the initialisation, whichever of the answer
\* of the peer, the timer and the cancelled handshake comes first.
THEOREM InitialisationToldOnce == PolicyAssumption /\ NoRefusal => (PolicySpec => []ToldOnce)
<1> SUFFICES ASSUME PolicyAssumption, NoRefusal PROVE PolicySpec => []ToldOnce
  OBVIOUS
<1>1. PolicyInv => ToldOnce
  <2> SUFFICES ASSUME PolicyInv, NEW c \in Connections PROVE Len(con[c].told) <= 1
    BY DEF ToldOnce
  <2>1. con[c] \in Sockets /\ Socket(con[c])
    BY DEF PolicyInv, PolicyTypeOK
  <2>2. con[c].stage \in {"absent", "refused", "ready", "begun", "closing", "closed"}
    BY <2>1 DEF Sockets
  <2> DEFINE n == Len(con[c].told)
  <2>3. /\ con[c].stage \in {"absent", "ready"} => n = 0
        /\ con[c].stage = "refused" => n = 1
        /\ con[c].stage \in {"begun", "closing", "closed"} => n = IF Shaking(con[c]) THEN 0 ELSE 1
    BY <2>1 DEF Socket
  <2> HIDE DEF n
  <2>4. n = 0 \/ n = 1
    BY <2>2, <2>3
  <2>5. n <= 1
    BY <2>4
  <2>6. QED
    BY <2>5 DEF n
<1>2. QED
  BY <1>1, SocketsTell, PTL

\* What the session may be told of a handshake in a state of it.
Truly(code, answer) ==
  /\ (code = "ok" => answer = "ok")
  /\ (code = "tls_handshake_timeout" => answer \in {"pending", "ok", "error"})
  /\ (code = "timeout" => answer = "idle")
  /\ (code = "tls_handshake_failed" => answer \in {"idle", "error"})

LEMMA TellTruly ==
  ASSUME PolicyAssumption, NoRefusal, PolicyInv, PolicyNext, NEW c \in Connections,
         con'[c].told # con[c].told, Secure, con[c].stage = "begun"
  PROVE  Truly(Last(con'[c].told), con[c].op["handshake"])
<1>1. con[c] \in Sockets /\ Socket(con[c]) /\ con \in [Connections -> Sockets]
  BY DEF PolicyInv, PolicyTypeOK
<1>2. HandleInit(c) \/ HandleTimeout(c)
  <2>1. ASSUME NEW d \in Connections, d # c, NEW o \in Ops,
               \/ Create(d) \/ PreInit(d) \/ HandleInit(d) \/ HandleTimeout(d) \/ AsyncShutdown(d)
               \/ HandleShutdown(d) \/ ShutdownTimeout(d) \/ PeerAnswers(d, o) \/ TimePasses(d, o)
        PROVE  con'[c] = con[c]
    BY <1>1, <2>1 DEF Create, PreInit, HandleInit, HandleTimeout, AsyncShutdown, HandleShutdown,
       ShutdownTimeout, PeerAnswers, TimePasses
  <2>2. ASSUME AsyncShutdown(c) PROVE con'[c].told = con[c].told
    <3> DEFINE b == [con[c] EXCEPT !.stage = "closing"]
    <3>1. b \in Sockets /\ b.told = con[c].told
      BY <1>1 DEF Sockets
    <3>2. con'[c] = Begin(b, "shutdown") \/ con'[c] = [con[c] EXCEPT !.stage = "closed"]
      BY <1>1, <2>2 DEF AsyncShutdown
    <3> HIDE DEF b
    <3>3. QED
      BY <1>1, <3>1, <3>2 DEF Begin, Sockets
  <2>3. ASSUME HandleShutdown(c) \/ ShutdownTimeout(c) PROVE FALSE
    BY <1>1, <2>3, OpsAre DEF HandleShutdown, ShutdownTimeout, Socket
  <2>4. ASSUME NEW o \in Ops, PeerAnswers(c, o) \/ TimePasses(c, o) PROVE con'[c].told = con[c].told
    <3>1. /\ PeerAnswers(c, o) => \E r \in {"ok", "error"} : con'[c] = [con[c] EXCEPT !.op[o] = r]
          /\ TimePasses(c, o) => con'[c] = [con[c] EXCEPT !.timer[o] = "passed"]
      BY <1>1 DEF PeerAnswers, TimePasses
    <3>2. QED
      BY <1>1, <2>4, <3>1 DEF Sockets
  <2>5. ~Create(c) /\ ~PreInit(c) /\ ~(SetTlsInitHandler)
    BY DEF Create, PreInit, SetTlsInitHandler
  <2>6. QED
    BY <2>1, <2>2, <2>3, <2>4, <2>5, OpsAre DEF PolicyNext
<1>3. Len(con[c].told) \in Nat /\ \A code \in ErrorCodes : Last(Append(con[c].told, code)) = code
  <2>1. ASSUME NEW code \in ErrorCodes PROVE Last(Append(con[c].told, code)) = code
    BY <1>1, TellOne DEF Last
  <2>2. QED
    BY <1>1, <2>1, TellOne DEF ErrorCodes
<1>4. CASE HandleInit(c)
  <2>1. PICK k \in Sockets, code \in {"ok", "tls_handshake_failed"} :
          /\ con' = [con EXCEPT ![c] = k]
          /\ con[c].op["handshake"] \in {"ok", "error", "aborted"}
          /\ (code = "ok") = (con[c].op["handshake"] = "ok")
          /\ IF con[c].timer["handshake"] \in {"passed", "done"}
               THEN k.told = con[c].told
               ELSE k.told = Append(con[c].told, code)
    BY <1>4, HandleInitSteps
  <2>2. con'[c] = k
    BY <1>1, <2>1
  <2>3. k.told = Append(con[c].told, code) /\ con[c].timer["handshake"] \notin {"passed", "done"}
    BY <2>1, <2>2
  <2>4. con[c].op["handshake"] # "aborted"
    BY <1>1, <2>1, <2>3, OpsAre DEF Sockets, Socket, Shaking, Handshake
  <2>5. Last(con'[c].told) = code
    BY <1>3, <2>2, <2>3 DEF ErrorCodes
  <2>6. QED
    BY <2>1, <2>4, <2>5 DEF Truly
<1>5. CASE HandleTimeout(c)
  <2>1. PICK k \in Sockets :
          /\ con' = [con EXCEPT ![c] = k]
          /\ con[c].timer["handshake"] = "passed"
          /\ k.told = Append(con[c].told, TimeoutCode(con[c])) /\ TimeoutCode(con[c]) \in ErrorCodes
    BY <1>5, HandleTimeoutSteps
  <2>2. Last(con'[c].told) = TimeoutCode(con[c])
    BY <1>1, <1>3, <2>1
  <2>3. /\ (con[c].op["handshake"] = "idle") = (con[c].m_ec # "tls_handshake_timeout")
        /\ con[c].m_ec \in {"tls_handshake_timeout", "ok", "tls_handshake_failed"}
        /\ con[c].op["handshake"] \in {"idle", "pending", "ok", "error"}
    BY <1>1, <2>1, OpsAre DEF Sockets, Socket, Shaking, Handshake
  <2>4. QED
    BY <2>2, <2>3 DEF Truly, TimeoutCode
<1>6. QED
  BY <1>2, <1>4, <1>5

\* SocketPolicy: the code that the session is told of a TLS handshake says what
\* happened to it: success only of one that went well, a handshake timeout only before
\* its handler ran, another timeout only after it.
THEOREM HandshakeToldTruly == PolicyAssumption /\ NoRefusal => (PolicySpec => ToldTruly)
<1> SUFFICES ASSUME PolicyAssumption, NoRefusal PROVE PolicySpec => ToldTruly
  OBVIOUS
<1> DEFINE Step == \A c \in Connections :
      con'[c].told # con[c].told /\ Secure /\ con[c].stage = "begun" =>
        Truly(Last(con'[c].told), con[c].op["handshake"])
<1>1. PolicyInv /\ [PolicyNext]_policyVars => [Step]_policyVars
  BY TellTruly
<1>2. PolicySpec => [][Step]_policyVars
  BY <1>1, SocketsTell, PTL DEF PolicySpec
<1>3. QED
  BY <1>2 DEF ToldTruly, Truly

==============================================================================
