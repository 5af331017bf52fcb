------------------------- MODULE BroadcastTestProofs -------------------------
(***************************************************************************)
(* Proofs about the two classes of broadcastTest.cpp.                      *)
(*                                                                         *)
(* BroadcastServer, for every set of connections and addresses and every   *)
(* value of the bounds: IInv is preserved by every step; the safety        *)
(* properties follow from it.  The three threads own disjoint parts of the *)
(* state, so the first lemmas say what each one leaves alone, and the rest *)
(* looks only at the thread that can disturb a conjunct.                   *)
(*                                                                         *)
(* CameraReader, for any number of frames and codes and every buffer       *)
(* length: ReaderInv is inductive; the properties of the life cycle and of *)
(* getImage() follow from it.                                              *)
(***************************************************************************)
EXTENDS BroadcastServer, CameraReader, Integers, SequenceTheorems, WellFoundedInduction, TLAPS

------------------------------------------------------------------------------
(* What each thread leaves alone *)

\* No step of looping() touches the map, the queue, the lock, b, the
\* connections or the other threads.
LEMMA LoopLeaves ==
  ASSUME Loop
  PROVE  UNCHANGED <<m_connections, m_actions, m_action_lock, b, con, addr, ioPc,
                     job, procPc, a, slot, notified, accepted, served, asked,
                     commanders>>
BY DEF Loop, LoopTest, LoopFind, LoopReadStop, LoopReadGet, LoopReadGetAgain,
       LoopQuota, LoopGrab, LoopCopyPtr, LoopCopyCb, LoopSend, LoopSendThrows,
       LoopCount, LoopReset1, LoopReset2, LoopReset3, LoopSleep,
       OthersUnchanged, members, conVars, ioVars, procVars, history

\* No step of process_messages() touches the map, the connections, the io
\* thread or looping().
LEMMA ProcLeaves ==
  ASSUME Proc
  PROVE  UNCHANGED <<m_connections, client2_data_count, con, addr, ioPc, job,
                     loopPc, hdl, what, aborted, accepted, answered, commanders,
                     recipients>>
BY DEF Proc, ProcLock, ProcTest, ProcWake, ProcCopyPtr, ProcCopyCb, ProcHandle,
       ProcRaise, ProcDone, members, conVars, ioVars, loopVars, history

\* No step of the io thread, or of a peer, touches b, the mode flags or the
\* two other threads, except to notify one.
LEMMA IoLeaves ==
  ASSUME Io \/ Peers
  PROVE  UNCHANGED <<b, stop_streaming, get_data, client2_data_count, procPc, a,
                     slot, loopPc, hdl, what, served, framesAfterStop, asked,
                     answered, recipients>>
BY DEF Io, Peers, Run, Connect, Receive, Disconnect, Terminated, IoLock,
       IoCritical, IoNotify, on_open, on_close, on_message, members, conVars,
       procVars, loopVars, history

------------------------------------------------------------------------------
(* Types *)

\* The initial values are of their types.
LEMMA TypeInit == Init => TypeOK
<1> SUFFICES ASSUME Init PROVE TypeOK
  OBVIOUS
<1>1. m_actions \in Seq(Actions)
  BY EmptySeq DEF Init
<1>2. con \in [Conns -> {"none", "open", "closed", "gone"}]
      /\ addr \in [Conns -> Addrs \cup {NoAddr}]
  BY DEF Init
<1>3. slot \in Words /\ hdl \in Words
  BY DEF Init, NoHandle, Words
<1>4. client2_data_count \in 0..MaxData
  BY ServerAssumption DEF Init
<1> QED
  BY <1>1, <1>2, <1>3, <1>4
     DEF Init, TypeOK, NoJob, NoAction, IoPcs, ProcPcs, LoopPcs, Modes

\* A queue that is not empty has an action at its head, and one fewer behind.
LEMMA QueueFront ==
  ASSUME TypeOK, m_actions # <<>>
  PROVE  /\ Head(m_actions) \in Actions /\ Head(m_actions) = m_actions[1]
         /\ Tail(m_actions) \in Seq(Actions)
         /\ Len(m_actions) \in Nat \ {0}
         /\ Len(Tail(m_actions)) = Len(m_actions) - 1
         /\ \A i \in 1..Len(Tail(m_actions)) : Tail(m_actions)[i] = m_actions[i + 1]
BY HeadTailProperties, EmptySeq DEF TypeOK

\* on_message() appends an action of the expected form.
LEMMA QueueBack ==
  ASSUME TypeOK, NEW c \in Conns, NEW m \in Commands, on_message(c, m)
  PROVE  /\ m_actions' \in Seq(Actions)
         /\ Len(m_actions') = Len(m_actions) + 1
         /\ \A i \in 1..Len(m_actions) : m_actions'[i] = m_actions[i]
         /\ m_actions'[Len(m_actions) + 1] = [hdl |-> c, msg |-> m, n |-> accepted + 1]
<1> DEFINE e == [hdl |-> c, msg |-> m, n |-> accepted + 1]
<1>1. e \in Actions
  BY DEF TypeOK, Actions
<1>2. m_actions \in Seq(Actions) /\ m_actions' = Append(m_actions, e)
  BY DEF TypeOK, on_message
<1> QED
  BY <1>1, <1>2

\* The io thread and the peers keep every variable in its type.
LEMMA TypeIo ==
  ASSUME IInv, Io \/ Peers
  PROVE  TypeOK'
<1> USE DEF IInv
<1>1. TypeOK
  OBVIOUS
<1>2. CASE IoCritical
  <2>1. job \in Jobs
    BY <1>2 DEF TypeOK, Control, IoCritical
  <2>2. job.c \in Conns /\ job.msg \in Commands
    BY <2>1 DEF Jobs
  <2>3. m_actions' \in Seq(Actions)
    BY <1>1, <1>2, <2>2, QueueBack DEF IoCritical, TypeOK
  <2>4. m_connections' \subseteq Addrs
    BY <1>2, <2>2 DEF IoCritical, on_open, on_close, TypeOK, AddressInv, Control
  <2> QED
    BY <1>2, <2>3, <2>4
       DEF IoCritical, TypeOK, conVars, procVars, loopVars, IoPcs
<1>3. CASE IoNotify
  <2>1. con' \in [Conns -> {"none", "open", "closed", "gone"}]
    BY <1>3 DEF IoNotify, TypeOK
  <2> QED
    BY <1>3, <2>1
       DEF IoNotify, TypeOK, members, loopVars, history, IoPcs, NoJob
<1>4. CASE Run \/ IoLock
  BY <1>4 DEF Run, IoLock, TypeOK, members, conVars, procVars, loopVars, history,
              IoPcs
<1>5. ASSUME NEW c \in Conns, Terminated(c)
      PROVE  TypeOK'
  BY <1>5 DEF Terminated, TypeOK, members, conVars, procVars, loopVars, history,
              IoPcs, Jobs, Commands
<1>6. ASSUME NEW c \in Conns, Connect(c)
      PROVE  TypeOK'
  BY <1>6 DEF Connect, TypeOK, members, procVars, loopVars, history, IoPcs, Jobs,
              Commands
<1>7. ASSUME NEW c \in Conns, Disconnect(c)
      PROVE  TypeOK'
  BY <1>7 DEF Disconnect, TypeOK, members, ioVars, procVars, loopVars, history
<1>8. ASSUME NEW c \in Conns, NEW m \in Commands, Receive(c, m)
      PROVE  TypeOK'
  BY <1>8 DEF Receive, TypeOK, members, conVars, procVars, loopVars, IoPcs, Jobs
<1> QED
  BY <1>2, <1>3, <1>4, <1>5, <1>6, <1>7, <1>8 DEF Io, Peers

\* process_messages() keeps every variable in its type.
LEMMA TypeProc ==
  ASSUME IInv, Proc
  PROVE  TypeOK'
<1> USE DEF IInv
<1>1. TypeOK /\ Control
  OBVIOUS
<1>2. CASE ProcCopyPtr \/ ProcCopyCb
  <2>1. m_actions # <<>>
    BY <1>1, <1>2 DEF Control, ProcCopyPtr, ProcCopyCb
  <2>2. Head(m_actions) \in Actions /\ Tail(m_actions) \in Seq(Actions)
    BY <1>1, <2>1, QueueFront
  <2>3. addr[Head(m_actions).hdl] \in Addrs \cup {NoAddr}
    BY <1>1, <2>2 DEF TypeOK, Actions
  <2>4. slot' \in Words
    BY <1>1, <1>2, <2>3 DEF TypeOK, Words, ProcCopyPtr, ProcCopyCb
  <2> QED
    BY <1>1, <1>2, <2>2, <2>4
       DEF TypeOK, ProcCopyPtr, ProcCopyCb, members, conVars, ioVars, loopVars,
           history, ProcPcs
<1>3. CASE ProcHandle \/ ProcRaise
  <2>1. stop_streaming' \in BOOLEAN /\ get_data' \in BOOLEAN
    BY <1>1, <1>3 DEF TypeOK, ProcHandle, ProcRaise
  <2>2. framesAfterStop' = framesAfterStop \/ framesAfterStop' = 0
    BY <1>3 DEF ProcHandle, ProcRaise
  <2>3. asked' \in Nat
    BY <1>1, <1>3 DEF TypeOK, ProcHandle, ProcRaise
  <2> QED
    BY <1>1, <1>3, <2>1, <2>2, <2>3
       DEF TypeOK, ProcHandle, ProcRaise, conVars, ioVars, loopVars, ProcPcs
<1>4. CASE ProcDone
  <2>1. a \in Actions
    BY <1>1, <1>4 DEF TypeOK, Control, ActionInScope, ProcDone
  <2>2. a.n \in Nat
    BY <2>1 DEF Actions
  <2> QED
    BY <1>1, <1>4, <2>2
       DEF TypeOK, ProcDone, members, conVars, ioVars, loopVars, ProcPcs
<1>5. CASE ProcLock \/ ProcTest \/ ProcWake
  BY <1>1, <1>5
     DEF TypeOK, ProcLock, ProcTest, ProcWake, conVars, ioVars, loopVars,
         history, ProcPcs
<1> QED
  BY <1>2, <1>3, <1>4, <1>5 DEF Proc

\* looping() keeps every variable in its type; the counter stays within its
\* quota because a string is only sent while it is below.
LEMMA TypeLoop ==
  ASSUME IInv, Loop
  PROVE  TypeOK'
<1> USE DEF IInv, LoopGoto, OthersUnchanged, LoopPcs, Modes
<1>1. TypeOK /\ QuotaInv
  OBVIOUS
<1>2. CASE LoopCopyPtr \/ LoopCopyCb
  <2>1. hdl' \in Words
    BY <1>1, <1>2 DEF TypeOK, Words, LoopCopyPtr, LoopCopyCb
  <2> QED
    BY <1>1, <1>2, <2>1
       DEF TypeOK, LoopCopyPtr, LoopCopyCb, members, conVars, ioVars, procVars,
           history
<1>3. CASE LoopSend
  <2>1. recipients' \subseteq Conns
    BY <1>1, <1>3 DEF TypeOK, LoopSend
  <2>2. hdl' \in Words
    BY <1>3 DEF LoopSend, NoHandle, Words
  <2> QED
    BY <1>1, <1>3, <2>1, <2>2
       DEF TypeOK, LoopSend, members, conVars, ioVars, procVars
<1>4. CASE LoopCount
  <2>1. client2_data_count' \in 0..MaxData
    BY <1>1, <1>4, ServerAssumption DEF TypeOK, QuotaInv, LoopCount
  <2> QED
    BY <1>1, <1>4, <2>1
       DEF TypeOK, LoopCount, conVars, ioVars, procVars, history
<1>5. CASE LoopReset1 \/ LoopReset2 \/ LoopReset3
  <2>1. client2_data_count' \in 0..MaxData
    BY <1>1, <1>5, ServerAssumption
       DEF TypeOK, LoopReset1, LoopReset2, LoopReset3
  <2>2. stop_streaming' \in BOOLEAN /\ get_data' \in BOOLEAN
    BY <1>1, <1>5 DEF TypeOK, LoopReset1, LoopReset2, LoopReset3
  <2>3. framesAfterStop' \in Nat
    BY <1>1, <1>5 DEF TypeOK, LoopReset1, LoopReset2, LoopReset3, history
  <2> QED
    BY <1>1, <1>5, <2>1, <2>2, <2>3
       DEF TypeOK, LoopReset1, LoopReset2, LoopReset3, conVars, ioVars, procVars,
           history
<1>6. CASE \/ LoopTest \/ LoopFind \/ LoopReadStop \/ LoopReadGet
           \/ LoopReadGetAgain \/ LoopQuota \/ LoopGrab \/ LoopSendThrows
           \/ LoopSleep
  <2>1. UNCHANGED <<members, conVars, ioVars, procVars, hdl, history>>
    BY <1>6 DEF LoopTest, LoopFind, LoopReadStop, LoopReadGet, LoopReadGetAgain,
                LoopQuota, LoopGrab, LoopSendThrows, LoopSleep
  <2>2. what' \in Modes /\ aborted' \in BOOLEAN
    <3>1. what' \in {what, "image", "text"} /\ aborted' \in {aborted, TRUE}
      BY <1>6 DEF LoopTest, LoopFind, LoopReadStop, LoopReadGet, LoopReadGetAgain,
                  LoopQuota, LoopGrab, LoopSendThrows, LoopSleep
    <3> QED
      BY <1>1, <3>1 DEF TypeOK
  <2>3. CASE LoopTest \/ LoopReadStop \/ LoopReadGet \/ LoopReadGetAgain
             \/ LoopQuota \/ LoopSendThrows \/ LoopSleep
    <3>1. loopPc' \in LoopPcs
      BY <2>3 DEF LoopTest, LoopReadStop, LoopReadGet, LoopReadGetAgain, LoopQuota,
                  LoopSendThrows, LoopSleep
    <3> QED
      BY <1>1, <2>1, <2>2, <3>1
         DEF TypeOK, members, conVars, ioVars, procVars, history
  <2>4. CASE LoopFind \/ LoopGrab
    <3>1. loopPc' \in LoopPcs
      BY <2>4 DEF LoopFind, LoopGrab
    <3> QED
      BY <1>1, <2>1, <2>2, <3>1
         DEF TypeOK, members, conVars, ioVars, procVars, history
  <2> QED
    BY <1>6, <2>3, <2>4
<1> QED
  BY <1>2, <1>3, <1>4, <1>5, <1>6 DEF Loop

------------------------------------------------------------------------------
(* Control, the wake-up and the queue: the io thread and process_messages() *)

\* Each thread leaves the lock as its control point says.
LEMMA ControlNext ==
  ASSUME IInv, Next
  PROVE  Control'
<1> USE DEF IInv, Control, ActionInScope
<1>1. CASE Loop
  BY <1>1, LoopLeaves
<1>2. CASE Proc
  <2>1. CASE ProcCopyCb
    <3>1. Head(m_actions) \in Actions
      BY <2>1, QueueFront DEF ProcCopyCb
    <3> QED
      BY <2>1, <3>1 DEF ProcCopyCb, conVars, ioVars
  <2>2. CASE Proc /\ ~ProcCopyCb
    BY <2>2 DEF Proc, ProcLock, ProcTest, ProcWake, ProcCopyPtr, ProcHandle,
                ProcRaise, ProcDone, members, conVars, ioVars, TypeOK, ProcPcs
  <2> QED
    BY <1>2, <2>1, <2>2
<1>3. CASE Io \/ Peers
  BY <1>3, IoLeaves DEF Io, Peers, Run, Connect, Receive, Disconnect, Terminated,
     IoLock, IoCritical, IoNotify, on_open, on_close, on_message, members,
     conVars, procVars, NoJob, ioVars
<1> QED
  BY <1>1, <1>2, <1>3 DEF Next

\* notify_one() follows every push, and wait() releases the lock in the step
\* that makes the thread a waiter.
LEMMA WakeupNext ==
  ASSUME IInv, Next
  PROVE  NoLostWakeup'
<1> USE DEF IInv, NoLostWakeup
<1>1. CASE Loop
  BY <1>1, LoopLeaves
<1>2. CASE Proc
  BY <1>2 DEF Proc, ProcLock, ProcTest, ProcWake, ProcCopyPtr, ProcCopyCb,
              ProcHandle, ProcRaise, ProcDone, members, conVars, ioVars
<1>3. CASE Io \/ Peers
  BY <1>3, IoLeaves DEF Io, Peers, Run, Connect, Receive, Disconnect, Terminated,
     IoLock, IoCritical, IoNotify, on_open, on_close, on_message, members,
     conVars, procVars, ioVars
<1> QED
  BY <1>1, <1>2, <1>3 DEF Next

\* Commands enter at the back and leave at the front, so their ordinals are
\* consecutive and follow the one in hand.
LEMMA QueueNext ==
  ASSUME IInv, Next
  PROVE  QueueInv'
<1> USE DEF IInv
<1>0. TypeOK /\ Control /\ QueueInv
  OBVIOUS
<1>1. CASE Loop
  BY <1>0, <1>1, LoopLeaves DEF QueueInv, ActionInScope
<1>2. CASE ProcCopyCb
  <2>1. m_actions # <<>>
    BY <1>0, <1>2 DEF Control, ProcCopyCb
  <2>2. /\ Len(m_actions) \in Nat \ {0}
        /\ Len(m_actions') = Len(m_actions) - 1
        /\ \A i \in 1..Len(m_actions') : m_actions'[i] = m_actions[i + 1]
        /\ a' = m_actions[1]
    BY <1>0, <1>2, <2>1, QueueFront DEF ProcCopyCb
  <2>3. ActionInScope' /\ ~ActionInScope
    BY <1>2 DEF ActionInScope, ProcCopyCb
  <2>4. UNCHANGED <<accepted, served, job, ioPc>>
    BY <1>2 DEF ProcCopyCb, ioVars, history
  <2>5. accepted \in Nat /\ served \in Nat
    BY <1>0 DEF TypeOK
  <2>6. a'.n = served + 1
    BY <1>0, <2>2, <2>3, <2>5 DEF QueueInv
  <2>7. \A i \in 1..Len(m_actions') :
          m_actions'[i].n = accepted' - Len(m_actions') + i
    <3> TAKE i \in 1..Len(m_actions')
    <3>1. i + 1 \in 1..Len(m_actions) /\ m_actions'[i] = m_actions[i + 1]
      BY <2>2
    <3>2. m_actions[i + 1].n = accepted - Len(m_actions) + (i + 1)
      BY <1>0, <3>1 DEF QueueInv
    <3>3. accepted' = accepted /\ Len(m_actions') = Len(m_actions) - 1
      BY <2>2, <2>4
    <3> QED
      BY <2>2, <2>5, <3>1, <3>2, <3>3
  <2> QED
    BY <1>0, <2>2, <2>3, <2>4, <2>5, <2>6, <2>7 DEF QueueInv
<1>3. CASE ProcDone
  <2>1. ActionInScope /\ ~ActionInScope'
    BY <1>3 DEF ActionInScope, ProcDone
  <2>2. served' = served + 1 /\ UNCHANGED <<m_actions, accepted, job, ioPc>>
    BY <1>0, <1>3, <2>1 DEF QueueInv, ProcDone, members, ioVars
  <2>3. accepted \in Nat /\ served \in Nat /\ Len(m_actions) \in Nat
    BY <1>0, LenProperties DEF TypeOK
  <2> QED
    BY <1>0, <2>1, <2>2, <2>3 DEF QueueInv
<1>4. CASE Proc /\ ~ProcCopyCb /\ ~ProcDone
  <2>1. UNCHANGED <<m_actions, accepted, served, job, ioPc, a>>
    BY <1>4 DEF Proc, ProcLock, ProcTest, ProcWake, ProcCopyPtr, ProcHandle,
                ProcRaise, members, ioVars, history
  <2>2. ActionInScope' <=> ActionInScope
    BY <1>4 DEF Proc, ProcLock, ProcTest, ProcWake, ProcCopyPtr, ProcHandle,
                ProcRaise, ActionInScope
  <2> QED
    BY <1>0, <2>1, <2>2 DEF QueueInv
<1>5. CASE IoCritical
  <2>1. job \in Jobs
    BY <1>0, <1>5 DEF TypeOK, Control, IoCritical
  <2>2. ioPc = "critical" /\ ioPc' = "notify"
        /\ UNCHANGED <<job, served, a, procPc>>
    BY <1>5 DEF IoCritical, procVars
  <2>3. accepted \in Nat /\ served \in Nat /\ Len(m_actions) \in Nat
    BY <1>0, LenProperties DEF TypeOK
  <2>4. CASE job.cb = "on_message"
    <3>1. on_message(job.c, job.msg) /\ accepted' = accepted + 1
      BY <1>5, <2>4 DEF IoCritical
    <3>2. /\ Len(m_actions') = Len(m_actions) + 1
          /\ \A i \in 1..Len(m_actions) : m_actions'[i] = m_actions[i]
          /\ m_actions'[Len(m_actions) + 1].n = accepted + 1
      <4>1. job.c \in Conns /\ job.msg \in Commands
        BY <2>1 DEF Jobs
      <4>2. /\ Len(m_actions') = Len(m_actions) + 1
            /\ \A i \in 1..Len(m_actions) : m_actions'[i] = m_actions[i]
            /\ m_actions'[Len(m_actions) + 1]
                 = [hdl |-> job.c, msg |-> job.msg, n |-> accepted + 1]
        BY <1>0, <3>1, <4>1, QueueBack
      <4> QED
        BY <4>2
    <3>3. \A i \in 1..Len(m_actions') :
            m_actions'[i].n = accepted' - Len(m_actions') + i
      <4> TAKE i \in 1..Len(m_actions')
      <4>1. CASE i \in 1..Len(m_actions)
        <5>1. m_actions'[i].n = accepted - Len(m_actions) + i
          BY <1>0, <3>2, <4>1 DEF QueueInv
        <5> QED
          BY <2>3, <3>1, <3>2, <4>1, <5>1
      <4>2. CASE i = Len(m_actions) + 1
        <5>1. m_actions'[i].n = accepted + 1
          BY <3>2, <4>2
        <5> QED
          BY <2>3, <3>1, <3>2, <4>2, <5>1
      <4> QED
        BY <2>3, <3>2, <4>1, <4>2
    <3>4. accepted' <= MaxCommands
      <4>1. accepted < MaxCommands
        BY <1>0, <2>2, <2>4 DEF QueueInv
      <4> QED
        BY <2>3, <3>1, <4>1, ServerAssumption
    <3> QED
      <4>1. (ActionInScope' <=> ActionInScope) /\ ioPc' = "notify"
        BY <2>2 DEF ActionInScope
      <4>2. accepted' = served' + Len(m_actions') + (IF ActionInScope' THEN 1 ELSE 0)
        <5>1. accepted = served + Len(m_actions) + (IF ActionInScope THEN 1 ELSE 0)
          BY <1>0 DEF QueueInv
        <5> QED
          BY <2>2, <2>3, <3>1, <3>2, <4>1, <5>1
      <4>3. ActionInScope' => a'.n = served' + 1
        BY <1>0, <2>2, <4>1 DEF QueueInv
      <4> QED
        BY <3>3, <3>4, <4>1, <4>2, <4>3 DEF QueueInv
  <2>5. CASE job.cb # "on_message"
    <3>1. UNCHANGED <<m_actions, accepted>>
      BY <1>5, <2>5 DEF IoCritical
    <3> QED
      BY <1>0, <2>2, <2>5, <3>1 DEF QueueInv, ActionInScope
  <2> QED
    BY <2>4, <2>5
<1>6. CASE (Io \/ Peers) /\ ~IoCritical
  <2>1. UNCHANGED <<m_actions, accepted, served, a, procPc>>
    BY <1>6 DEF Io, Peers, Run, Connect, Receive, Disconnect, Terminated, IoLock,
                IoNotify, members, procVars, history
  <2>2. job'.cb = "on_message" /\ ioPc' # "notify" => accepted < MaxCommands
    BY <1>0, <1>6 DEF Io, Peers, Run, Connect, Receive, Disconnect, Terminated,
                IoLock, IoNotify, ioVars, NoJob, QueueInv, Control
  <2> QED
    BY <1>0, <2>1, <2>2 DEF QueueInv, ActionInScope
<1> QED
  BY <1>1, <1>2, <1>3, <1>4, <1>5, <1>6 DEF Next

------------------------------------------------------------------------------
(* The flags: process_messages() and looping() *)

\* A frame is only decided on while stop_streaming is false, one at a time.
LEMMA StopNext ==
  ASSUME IInv, Next
  PROVE  StopInv'
<1> USE DEF IInv
<1>0. TypeOK /\ StopInv
  OBVIOUS
<1>1. CASE Io \/ Peers
  BY <1>0, <1>1, IoLeaves DEF StopInv, ImagePending, Sending
<1>2. CASE Proc
  <2>1. ImagePending' <=> ImagePending
    BY <1>2, ProcLeaves DEF ImagePending, Sending
  <2>2. CASE ProcHandle
    <3>1. CASE stop_streaming' <=> stop_streaming
      BY <1>0, <2>1, <2>2, <3>1 DEF StopInv, ProcHandle
    <3>2. CASE ~(stop_streaming' <=> stop_streaming)
      BY <1>0, <2>1, <2>2, <3>2 DEF StopInv, ProcHandle
    <3> QED
      BY <3>1, <3>2
  <2>3. CASE ~ProcHandle
    <3>1. UNCHANGED <<stop_streaming, framesAfterStop>>
      BY <1>2, <2>3 DEF Proc, ProcLock, ProcTest, ProcWake, ProcCopyPtr,
         ProcCopyCb, ProcRaise, ProcDone, members, history
    <3> QED
      BY <1>0, <2>1, <3>1 DEF StopInv
  <2> QED
    BY <2>2, <2>3
<1>3. CASE Loop
  <2> USE DEF LoopGoto, OthersUnchanged, ImagePending, Sending
  <2>1. CASE LoopSend
    BY <1>0, <2>1 DEF StopInv, LoopSend, TypeOK, members
  <2>2. CASE LoopReset1
    BY <1>0, <2>2 DEF StopInv, LoopReset1
  <2>3. CASE ~LoopSend /\ ~LoopReset1
    <3>1. UNCHANGED <<stop_streaming, framesAfterStop>>
      BY <1>3, <2>3 DEF Loop, LoopTest, LoopFind, LoopReadStop, LoopReadGet,
         LoopReadGetAgain, LoopQuota, LoopGrab, LoopCopyPtr, LoopCopyCb,
         LoopSendThrows, LoopCount, LoopReset2, LoopReset3, LoopSleep, members,
         history
    <3>2. stop_streaming => (ImagePending' => ImagePending)
      BY <1>0, <1>3, <2>3 DEF Loop, LoopTest, LoopFind, LoopReadStop, LoopReadGet,
         LoopReadGetAgain, LoopQuota, LoopGrab, LoopCopyPtr, LoopCopyCb,
         LoopSendThrows, LoopCount, LoopReset2, LoopReset3, LoopSleep
    <3> QED
      BY <1>0, <3>1, <3>2 DEF StopInv, TypeOK
  <2> QED
    BY <2>1, <2>2, <2>3
<1> QED
  BY <1>1, <1>2, <1>3 DEF Next

\* Each get_data command adds MaxData strings to what may be sent, each
\* string takes one away, and a reset forfeits the rest.
LEMMA QuotaNext ==
  ASSUME IInv, Next
  PROVE  QuotaInv'
<1> USE DEF IInv
<1>0. TypeOK /\ QuotaInv
  OBVIOUS
<1>1. /\ MaxData \in Nat \ {0} /\ asked \in Nat /\ answered \in Nat
      /\ client2_data_count \in 0..MaxData
  BY <1>0, ServerAssumption DEF TypeOK
<1>2. CASE Io \/ Peers
  BY <1>0, <1>2, IoLeaves DEF QuotaInv, Credit, Sending
<1>3. CASE Proc
  <2>1. UNCHANGED <<loopPc, what, client2_data_count, answered>>
    BY <1>3, ProcLeaves
  <2>2. CASE ProcRaise
    <3>1. get_data' /\ asked' = asked + 1
      BY <2>2 DEF ProcRaise
    <3>2. MaxData * asked' = MaxData * asked + MaxData
      BY <1>1, <3>1
    <3>3. MaxData * asked \in Nat
      BY <1>1
    <3>4. Credit' <= Credit + MaxData /\ Credit' \in Nat /\ Credit \in Nat
      BY <1>0, <1>1, <2>1, <3>1 DEF Credit, QuotaInv
    <3>5. answered' + Credit' <= MaxData * asked'
      BY <1>0, <1>1, <2>1, <3>2, <3>3, <3>4 DEF QuotaInv
    <3> QED
      BY <1>0, <2>1, <3>1, <3>5 DEF QuotaInv, Sending
  <2>3. CASE ~ProcRaise
    <3>1. UNCHANGED <<get_data, asked>>
      BY <1>3, <2>3 DEF Proc, ProcLock, ProcTest, ProcWake, ProcCopyPtr,
         ProcCopyCb, ProcHandle, ProcDone, members, history
    <3> QED
      BY <1>0, <2>1, <3>1 DEF QuotaInv, Credit, Sending
  <2> QED
    BY <2>2, <2>3
<1>4. CASE Loop
  <2> USE DEF LoopGoto, OthersUnchanged, QuotaInv, Credit, Sending
  <2>1. UNCHANGED asked
    BY <1>4, LoopLeaves
  <2>2. MaxData * asked \in Nat
    BY <1>1
  <2>3. CASE LoopSend
    <3>1. UNCHANGED <<get_data, client2_data_count>>
      BY <2>3 DEF LoopSend, members
    <3>2. CASE what = "text"
      <4>1. loopPc = "send" /\ loopPc' = "count" /\ answered' = answered + 1
        BY <2>3, <3>2 DEF LoopSend
      <4> QED
        BY <1>0, <1>1, <2>1, <2>2, <3>1, <3>2, <4>1
    <3>3. CASE what = "image"
      <4>1. loopPc = "send" /\ loopPc' = "sleep" /\ answered' = answered
        BY <2>3, <3>3 DEF LoopSend
      <4> QED
        BY <1>0, <1>1, <2>1, <2>2, <3>1, <3>3, <4>1
    <3> QED
      BY <1>0, <3>2, <3>3 DEF TypeOK, Modes
  <2>4. CASE LoopCount
    BY <1>0, <1>1, <2>1, <2>2, <2>4 DEF LoopCount, history
  <2>5. CASE LoopReset1 \/ LoopReset2 \/ LoopReset3
    BY <1>0, <1>1, <2>1, <2>2, <2>5 DEF LoopReset1, LoopReset2, LoopReset3, history
  <2>6. CASE LoopQuota
    BY <1>0, <1>1, <2>1, <2>2, <2>6 DEF LoopQuota, members, history
  <2>7. CASE Loop /\ ~LoopSend /\ ~LoopCount /\ ~LoopQuota
             /\ ~(LoopReset1 \/ LoopReset2 \/ LoopReset3)
    <3>1. UNCHANGED <<get_data, client2_data_count, answered>>
      BY <2>7 DEF Loop, LoopTest, LoopFind, LoopReadStop, LoopReadGet,
         LoopReadGetAgain, LoopGrab, LoopCopyPtr, LoopCopyCb, LoopSendThrows,
         LoopSleep, members, history
    <3>2. /\ loopPc' = "quota" => get_data
          /\ loopPc \notin {"count", "reset1", "reset2", "reset3"}
          /\ loopPc' \notin {"count", "reset1", "reset2", "reset3"}
          /\ Sending' /\ what' = "text" => Sending /\ what = "text"
      BY <2>7 DEF Loop, LoopTest, LoopFind, LoopReadStop, LoopReadGet,
         LoopReadGetAgain, LoopGrab, LoopCopyPtr, LoopCopyCb, LoopSendThrows,
         LoopSleep
    <3> QED
      BY <1>0, <2>1, <3>1, <3>2
  <2> QED
    BY <1>4, <2>3, <2>4, <2>5, <2>6, <2>7
<1> QED
  BY <1>2, <1>3, <1>4 DEF Next

------------------------------------------------------------------------------
(* Addresses and handles *)

\* An address is reused only when nothing refers to its block any more, and
\* the map refers to the block of every connection that was ever opened.
LEMMA AddressNext ==
  ASSUME IInv, Next
  PROVE  AddressInv'
<1> USE DEF IInv
<1>0. TypeOK /\ Control /\ AddressInv
  OBVIOUS
<1>1. CASE Loop
  BY <1>0, <1>1, LoopLeaves DEF AddressInv
<1>2. CASE Proc
  BY <1>0, <1>2, ProcLeaves DEF AddressInv
<1>3. ASSUME NEW c \in Conns, Connect(c)
      PROVE  AddressInv'
  <2>1. PICK x \in Addrs : /\ Free(x)
                           /\ con' = [con EXCEPT ![c] = "open"]
                           /\ addr' = [addr EXCEPT ![c] = x]
    BY <1>3 DEF Connect
  <2>2. /\ con[c] = "none" /\ ioPc = "idle" /\ ioPc' = "lock"
        /\ job' = [cb |-> "on_open", c |-> c, msg |-> "other"]
        /\ m_connections' = m_connections
    BY <1>3 DEF Connect, members
  <2>3. job = NoJob
    BY <1>0, <2>2 DEF Control
  <2>4. x \notin m_connections /\ x # NoAddr
    BY <2>1, ServerAssumption DEF Free, WeaklyHeld
  <2>5. \A d \in Conns : con[d] # "none" => addr[d] \in m_connections
    BY <1>0, <2>3 DEF AddressInv
  <2>6. /\ con'[c] = "open" /\ addr'[c] = x
        /\ \A d \in Conns \ {c} : con'[d] = con[d] /\ addr'[d] = addr[d]
    BY <1>0, <2>1 DEF TypeOK
  <2>7. \A d \in Conns : con'[d] = "none" <=> addr'[d] = NoAddr
    BY <1>0, <2>4, <2>6 DEF AddressInv
  <2>8. \A d \in Conns : con'[d] # "none" =>
          \/ addr'[d] \in m_connections'
          \/ job' # NoJob /\ job'.cb = "on_open" /\ job'.c = d /\ ioPc' # "notify"
    BY <2>2, <2>5, <2>6 DEF NoJob
  <2>9. \A d, e \in Conns : con'[d] # "none" /\ addr'[d] = addr'[e] => d = e
    BY <1>0, <2>2, <2>4, <2>5, <2>6 DEF AddressInv
  <2> QED
    BY <2>2, <2>6, <2>7, <2>8, <2>9 DEF AddressInv
<1>4. ASSUME NEW c \in Conns, Disconnect(c)
      PROVE  AddressInv'
  BY <1>0, <1>4 DEF AddressInv, Disconnect, TypeOK, members, ioVars
<1>5. ASSUME NEW c \in Conns, Terminated(c) \/ \E m \in Commands : Receive(c, m)
      PROVE  AddressInv'
  <2>1. /\ job = NoJob /\ job'.c = c /\ con[c] # "none" /\ ioPc' = "lock"
        /\ UNCHANGED <<con, addr, m_connections>>
    BY <1>0, <1>5 DEF Terminated, Receive, conVars, members, Control
  <2> QED
    BY <1>0, <2>1 DEF AddressInv
<1>6. CASE IoCritical
  <2>1. /\ ioPc = "critical" /\ ioPc' = "notify" /\ job # NoJob
        /\ UNCHANGED <<con, addr, job>>
    BY <1>0, <1>6 DEF IoCritical, conVars, Control
  <2>2. m_connections \subseteq m_connections'
    BY <1>6 DEF IoCritical, on_open, on_close
  <2>3. job.cb = "on_open" => addr[job.c] \in m_connections'
    BY <1>6 DEF IoCritical, on_open
  <2> QED
    BY <1>0, <2>1, <2>2, <2>3 DEF AddressInv
<1>7. CASE IoNotify
  <2>1. /\ job # NoJob /\ job' = NoJob /\ ioPc = "notify" /\ ioPc' = "idle"
        /\ UNCHANGED <<addr, m_connections>>
    BY <1>0, <1>7 DEF IoNotify, members, Control
  <2>2. \A d \in Conns : con'[d] = "none" <=> con[d] = "none"
    BY <1>0, <1>7, <2>1 DEF IoNotify, TypeOK, AddressInv
  <2> QED
    BY <1>0, <2>1, <2>2 DEF AddressInv
<1>8. CASE Run \/ IoLock
  BY <1>0, <1>8 DEF AddressInv, Run, IoLock, members, conVars, Control
<1> QED
  BY <1>1, <1>2, <1>3, <1>4, <1>5, <1>6, <1>7, <1>8 DEF Next, Io, Peers

\* Addresses of commanders stay addresses of commanders.
LEMMA CommandersStay ==
  ASSUME IInv, Next
  PROVE  /\ CommanderAddrs \subseteq CommanderAddrs'
         /\ \A c \in commanders : con'[c] # "none"
         /\ commanders \subseteq commanders'
<1> USE DEF IInv
<1>0. TypeOK /\ AddressInv /\ HandleInv
  OBVIOUS
<1>1. \A c \in commanders : c \in Conns /\ con[c] # "none"
  BY <1>0 DEF HandleInv, TypeOK
<1>2. CASE Loop
  BY <1>1, <1>2, LoopLeaves DEF CommanderAddrs
<1>3. CASE Proc
  BY <1>1, <1>3, ProcLeaves DEF CommanderAddrs
<1>4. ASSUME NEW c \in Conns, Connect(c)
      PROVE  /\ \A d \in commanders : addr'[d] = addr[d] /\ con'[d] # "none"
             /\ UNCHANGED commanders
  BY <1>0, <1>1, <1>4 DEF Connect, TypeOK, history
<1>5. ASSUME NEW c \in Conns,
             Disconnect(c) \/ Terminated(c) \/ \E m \in Commands : Receive(c, m)
      PROVE  /\ \A d \in commanders : addr'[d] = addr[d] /\ con'[d] # "none"
             /\ commanders \subseteq commanders'
  BY <1>0, <1>1, <1>5 DEF Disconnect, Terminated, Receive, TypeOK, history, conVars
<1>6. ASSUME Run \/ IoLock \/ IoCritical \/ IoNotify
      PROVE  /\ \A d \in commanders : addr'[d] = addr[d] /\ con'[d] # "none"
             /\ UNCHANGED commanders
  BY <1>0, <1>1, <1>6
     DEF Run, IoLock, IoCritical, IoNotify, TypeOK, history, conVars
<1>7. CASE Io \/ Peers
  <2>1. /\ \A d \in commanders : addr'[d] = addr[d] /\ con'[d] # "none"
        /\ commanders \subseteq commanders'
    BY <1>4, <1>5, <1>6, <1>7 DEF Io, Peers
  <2> QED
    BY <2>1 DEF CommanderAddrs
<1> QED
  BY <1>2, <1>3, <1>7 DEF Next

\* Every handle in use stays made of words of commanders' handles.
LEMMA HandleNext ==
  ASSUME IInv, Next
  PROVE  HandleInv'
<1> USE DEF IInv
<1>0. TypeOK /\ Control /\ HandleInv
  OBVIOUS
<1>1. CASE Loop
  <2>1. UNCHANGED <<job, commanders, con, addr, m_actions, procPc, b, slot>>
    BY <1>1, LoopLeaves
  <2>2. CommanderAddrs' = CommanderAddrs
    BY <2>1 DEF CommanderAddrs
  <2>3. loopPc' \notin {"test", "find", "sleep"} => b = "slot"
    BY <1>0, <1>1 DEF Loop, LoopTest, LoopFind, LoopReadStop, LoopReadGet,
       LoopReadGetAgain, LoopQuota, LoopGrab, LoopCopyPtr, LoopCopyCb, LoopSend,
       LoopSendThrows, LoopCount, LoopReset1, LoopReset2, LoopReset3, LoopSleep,
       LoopGoto, HandleInv
  <2>4. CASE LoopCopyPtr
    BY <1>0, <2>1, <2>2, <2>3, <2>4 DEF LoopCopyPtr, LoopGoto, HandleInv, TypeOK, Words
  <2>5. CASE LoopCopyCb
    BY <1>0, <2>1, <2>2, <2>3, <2>5 DEF LoopCopyCb, LoopGoto, HandleInv, TypeOK, Words
  <2>6. CASE ~LoopCopyPtr /\ ~LoopCopyCb
    <3>1. loopPc' = "copyCb" => loopPc = "copyCb" /\ UNCHANGED hdl
      BY <1>1, <2>6 DEF Loop, LoopTest, LoopFind, LoopReadStop, LoopReadGet,
         LoopReadGetAgain, LoopQuota, LoopGrab, LoopSend, LoopSendThrows,
         LoopCount, LoopReset1, LoopReset2, LoopReset3, LoopSleep, LoopGoto
    <3>2. loopPc' = "send" => loopPc = "send" /\ UNCHANGED hdl
      BY <1>1, <2>6 DEF Loop, LoopTest, LoopFind, LoopReadStop, LoopReadGet,
         LoopReadGetAgain, LoopQuota, LoopGrab, LoopSend, LoopSendThrows,
         LoopCount, LoopReset1, LoopReset2, LoopReset3, LoopSleep, LoopGoto
    <3> QED
      BY <1>0, <2>1, <2>2, <2>3, <3>1, <3>2 DEF HandleInv
  <2> QED
    BY <2>4, <2>5, <2>6
<1>2. CASE Proc
  <2>1. UNCHANGED <<job, commanders, con, addr, loopPc, hdl>>
    BY <1>2, ProcLeaves
  <2>2. CommanderAddrs' = CommanderAddrs
    BY <2>1 DEF CommanderAddrs
  <2>3. CASE ProcCopyPtr \/ ProcCopyCb
    <3>1. m_actions # <<>>
      BY <1>0, <2>3 DEF Control, ProcCopyPtr, ProcCopyCb
    <3>2. Head(m_actions).hdl \in commanders
      BY <1>0, <3>1, QueueFront DEF HandleInv
    <3>3. addr[Head(m_actions).hdl] \in CommanderAddrs
      BY <3>2 DEF CommanderAddrs
    <3>4. CASE ProcCopyPtr
      BY <1>0, <2>1, <2>2, <3>3, <3>4
         DEF ProcCopyPtr, HandleInv, TypeOK, Words, members
    <3>5. CASE ProcCopyCb
      <4>1. \A i \in 1..Len(m_actions') : m_actions'[i].hdl \in commanders
        BY <1>0, <3>1, <3>5, QueueFront DEF ProcCopyCb, HandleInv
      <4> QED
        BY <1>0, <2>1, <2>2, <3>3, <3>5, <4>1
           DEF ProcCopyCb, HandleInv, TypeOK, Words
    <3> QED
      BY <2>3, <3>4, <3>5
  <2>4. CASE ~ProcCopyPtr /\ ~ProcCopyCb
    <3>1. UNCHANGED <<m_actions, b, slot>> /\ procPc' # "copyCb"
      BY <1>2, <2>4 DEF Proc, ProcLock, ProcTest, ProcWake, ProcHandle, ProcRaise,
         ProcDone, members
    <3> QED
      BY <1>0, <2>1, <2>2, <3>1 DEF HandleInv
  <2> QED
    BY <2>3, <2>4
<1>3. CASE Io \/ Peers
  <2>1. UNCHANGED <<b, slot, procPc, loopPc, hdl>>
    BY <1>3, IoLeaves
  <2>2. /\ CommanderAddrs \subseteq CommanderAddrs'
        /\ \A c \in commanders : con'[c] # "none"
        /\ commanders \subseteq commanders'
    BY <1>3, CommandersStay DEF Next
  <2>3. /\ \A c \in commanders' : con'[c] # "none"
        /\ job'.cb = "on_message" => job'.c \in commanders'
    BY <1>0, <1>3, <2>2 DEF Io, Peers, Run, Connect, Receive, Disconnect,
       Terminated, IoLock, IoCritical, IoNotify, HandleInv, NoJob, ioVars, conVars,
       history
  <2>4. \A i \in 1..Len(m_actions') : m_actions'[i].hdl \in commanders'
    <3>1. CASE IoCritical /\ job.cb = "on_message"
      <4>1. job \in Jobs /\ job.c \in commanders
        BY <1>0, <3>1 DEF IoCritical, Control, HandleInv, TypeOK
      <4>2. job.c \in Conns /\ job.msg \in Commands
        BY <4>1 DEF Jobs
      <4>3. on_message(job.c, job.msg)
        BY <3>1 DEF IoCritical
      <4>4. Len(m_actions) \in Nat
        BY <1>0, LenProperties DEF TypeOK
      <4>5. /\ Len(m_actions') = Len(m_actions) + 1
            /\ \A i \in 1..Len(m_actions) : m_actions'[i] = m_actions[i]
            /\ m_actions'[Len(m_actions) + 1]
                 = [hdl |-> job.c, msg |-> job.msg, n |-> accepted + 1]
        BY <1>0, <4>2, <4>3, QueueBack
      <4>6. m_actions'[Len(m_actions) + 1].hdl \in commanders
        BY <4>1, <4>5
      <4>7. \A i \in 1..Len(m_actions) : m_actions[i].hdl \in commanders
        BY <1>0 DEF HandleInv
      <4> QED
        BY <2>2, <4>4, <4>5, <4>6, <4>7
    <3>2. CASE ~(IoCritical /\ job.cb = "on_message")
      <4>1. UNCHANGED m_actions
        BY <1>3, <3>2 DEF Io, Peers, Run, Connect, Receive, Disconnect,
           Terminated, IoLock, IoCritical, IoNotify, members
      <4> QED
        BY <1>0, <2>2, <4>1 DEF HandleInv
    <3> QED
      BY <3>1, <3>2
  <2> QED
    BY <1>0, <2>1, <2>2, <2>3, <2>4 DEF HandleInv
<1> QED
  BY <1>1, <1>2, <1>3 DEF Next

\* The connection a payload is delivered to is the commander whose address
\* the handle holds, because no other connection ever had that address.
LEMMA StreamsNext ==
  ASSUME IInv, Next
  PROVE  StreamsOnlyToCommanders'
<1> USE DEF IInv, StreamsOnlyToCommanders
<1>1. commanders \subseteq commanders'
  BY CommandersStay
<1>2. CASE LoopSend
  <2>1. CASE UNCHANGED recipients
    BY <1>1, <2>1
  <2>2. ASSUME NEW c \in Conns, Reached(c), recipients' = recipients \cup {c}
        PROVE  c \in commanders
    <3>1. addr[c] \in CommanderAddrs /\ con[c] # "none"
      BY <1>2, <2>2 DEF LoopSend, LoopGoto, Reached, Alive, HandleInv
    <3>2. PICK d \in commanders : addr[c] = addr[d]
      BY <3>1 DEF CommanderAddrs
    <3>3. c = d
      BY <3>1, <3>2 DEF AddressInv, TypeOK
    <3> QED
      BY <3>2, <3>3
  <2> QED
    BY <1>1, <1>2, <2>1, <2>2 DEF LoopSend
<1>3. CASE ~LoopSend
  <2>1. UNCHANGED recipients
    <3>1. CASE Loop
      BY <1>3, <3>1 DEF Loop, LoopTest, LoopFind, LoopReadStop, LoopReadGet,
         LoopReadGetAgain, LoopQuota, LoopGrab, LoopCopyPtr, LoopCopyCb,
         LoopSendThrows, LoopCount, LoopReset1, LoopReset2, LoopReset3, LoopSleep,
         history
    <3>2. CASE Proc
      BY <3>2, ProcLeaves
    <3>3. CASE Io \/ Peers
      BY <3>3, IoLeaves
    <3> QED
      BY <3>1, <3>2, <3>3 DEF Next
  <2> QED
    BY <1>1, <2>1
<1> QED
  BY <1>2, <1>3

------------------------------------------------------------------------------
(* The theorems *)

\* The server starts in the inductive invariant.
LEMMA InvInit == Init => IInv
<1> SUFFICES ASSUME Init PROVE IInv
  OBVIOUS
<1>1. TypeOK
  BY TypeInit
<1>2. Control
  BY DEF Init, Control, ActionInScope, NoJob
<1>3. NoLostWakeup /\ StopInv /\ StreamsOnlyToCommanders
  BY DEF Init, NoLostWakeup, StopInv, ImagePending, Sending, StreamsOnlyToCommanders
<1>4. QuotaInv
  BY ServerAssumption DEF Init, QuotaInv, Credit, Sending
<1>5. Len(m_actions) = 0
  BY EmptySeq DEF Init
<1>6. QueueInv
  BY <1>5, ServerAssumption DEF Init, QueueInv, ActionInScope, NoJob
<1>7. AddressInv
  BY DEF Init, AddressInv, NoJob
<1>8. HandleInv
  BY <1>5 DEF Init, HandleInv, NoJob
<1> QED
  BY <1>1, <1>2, <1>3, <1>4, <1>6, <1>7, <1>8 DEF IInv

\* A step that changes nothing preserves it.
LEMMA InvStutter ==
  ASSUME IInv, UNCHANGED vars
  PROVE  IInv'
<1> USE DEF vars, members, conVars, ioVars, procVars, loopVars, history
<1>1. TypeOK' /\ Control' /\ NoLostWakeup' /\ StreamsOnlyToCommanders'
  BY DEF IInv, TypeOK, Control, NoLostWakeup, StreamsOnlyToCommanders, ActionInScope
<1>2. StopInv' /\ QuotaInv'
  BY DEF IInv, StopInv, ImagePending, Sending, QuotaInv, Credit
<1>3. QueueInv' /\ AddressInv'
  BY DEF IInv, QueueInv, ActionInScope, AddressInv
<1>4. HandleInv'
  BY DEF IInv, HandleInv, CommanderAddrs
<1> QED
  BY <1>1, <1>2, <1>3, <1>4 DEF IInv

\* IInv holds in every state the server reaches, however its threads, peers
\* and callbacks interleave.
THEOREM InductiveInvariant == Spec => []IInv
<1>1. Init => IInv
  BY InvInit
<1>2. IInv /\ [Next]_vars => IInv'
  <2> SUFFICES ASSUME IInv, [Next]_vars PROVE IInv'
    OBVIOUS
  <2>1. CASE Next
    <3>1. Io \/ Peers \/ Proc \/ Loop
      BY <2>1 DEF Next
    <3>2. TypeOK'
      BY <3>1, TypeIo, TypeProc, TypeLoop
    <3> QED
      BY <2>1, <3>2, ControlNext, WakeupNext, StopNext, QuotaNext, QueueNext,
         AddressNext, HandleNext, StreamsNext DEF IInv
  <2>2. CASE UNCHANGED vars
    BY <2>2, InvStutter
  <2> QED
    BY <2>1, <2>2
<1> QED
  BY <1>1, <1>2, PTL DEF Spec

\* Every variable always has its type: looping(), which reads what the other
\* two threads are writing, never takes a value that is none of theirs.
THEOREM TypeCorrect == Spec => []TypeOK
<1>1. IInv => TypeOK
  BY DEF IInv
<1> QED
  BY <1>1, InductiveInvariant, PTL

\* process_messages() never sleeps on a queue that holds an action with no
\* notification under way.
THEOREM WakeupsKept == Spec => []NoLostWakeup
<1>1. IInv => NoLostWakeup
  BY DEF IInv
<1> QED
  BY <1>1, InductiveInvariant, PTL

\* At most one frame follows the moment stop_streaming becomes true.
THEOREM StopIsPrompt == Spec => []StopBoundsFrames
<1>1. IInv => StopBoundsFrames
  BY DEF IInv, StopInv, StopBoundsFrames, TypeOK
<1> QED
  BY <1>1, InductiveInvariant, PTL

\* No request is answered with more strings than max_client2_data_count.
THEOREM QuotaKept == Spec => []StringsWithinQuota
<1>1. IInv => StringsWithinQuota
  <2> SUFFICES ASSUME IInv PROVE StringsWithinQuota
    OBVIOUS
  <2>1. /\ MaxData \in Nat \ {0} /\ asked \in Nat /\ answered \in Nat
        /\ client2_data_count \in 0..MaxData
    BY ServerAssumption DEF IInv, TypeOK
  <2>2. Credit \in Nat
    BY <2>1 DEF IInv, QuotaInv, Credit
  <2>3. MaxData * asked \in Nat
    BY <2>1
  <2> QED
    BY <2>1, <2>2, <2>3 DEF IInv, QuotaInv, StringsWithinQuota
<1> QED
  BY <1>1, InductiveInvariant, PTL

\* Payloads reach only connections that sent a command: the stale handle is
\* safe from reuse of its address.
THEOREM NoAliasing == Spec => []StreamsOnlyToCommanders
<1>1. IInv => StreamsOnlyToCommanders
  BY DEF IInv
<1> QED
  BY <1>1, InductiveInvariant, PTL

\* When send() throws, one of the connections that the words of the handle
\* name has been lost: with both of them open it would have been delivered.
THEOREM SendFailure == Spec => SendFailsOnlyForLostPeer
<1>1. IInv /\ [Next]_vars =>
        [ loopPc = "send" /\ loopPc' = "send" /\ aborted' /\ ~aborted
            => \E c \in Conns : /\ con[c] \in {"closed", "gone"}
                                /\ addr[c] \in {hdl.ptr, hdl.cb} ]_vars
  <2> SUFFICES ASSUME IInv, Next, loopPc = "send", loopPc' = "send", aborted', ~aborted
               PROVE  \E c \in Conns : /\ con[c] \in {"closed", "gone"}
                                       /\ addr[c] \in {hdl.ptr, hdl.cb}
    OBVIOUS
  <2>1. LoopSendThrows \/ Run
    BY DEF Next, Io, Peers, Connect, Receive, Disconnect, Terminated, IoLock,
       IoCritical, IoNotify, Proc, ProcLock, ProcTest, ProcWake, ProcCopyPtr,
       ProcCopyCb, ProcHandle, ProcRaise, ProcDone, Loop, LoopTest, LoopFind,
       LoopReadStop, LoopReadGet, LoopReadGetAgain, LoopQuota, LoopGrab,
       LoopCopyPtr, LoopCopyCb, LoopSend, LoopCount, LoopReset1, LoopReset2,
       LoopReset3, LoopSleep, LoopGoto
  <2>2. PICK p, q \in commanders : addr[p] = hdl.ptr /\ addr[q] = hdl.cb
    BY DEF IInv, HandleInv, CommanderAddrs
  <2>3. p \in Conns /\ q \in Conns /\ con[p] # "none" /\ con[q] # "none"
    BY <2>2 DEF IInv, HandleInv, TypeOK
  <2>4. con[p] \in {"none", "open", "closed", "gone"}
        /\ con[q] \in {"none", "open", "closed", "gone"}
    BY <2>3 DEF IInv, TypeOK
  <2>5. CASE LoopSendThrows
    <3>1. ~(con[p] = "open" /\ con[q] = "open")
      BY <2>2, <2>3, <2>5 DEF LoopSendThrows, Reached, Occupied, Alive
    <3> QED
      BY <2>2, <2>3, <2>4, <3>1
  <2>6. CASE Run
    BY <2>3, <2>6 DEF Run, IInv, AddressInv
  <2> QED
    BY <2>1, <2>5, <2>6
<1> QED
  BY <1>1, InductiveInvariant, PTL DEF Spec, SendFailsOnlyForLostPeer

\* on_message() and process_messages() handle each accepted command once and
\* in order: each step of the server is a step of the mailbox or none.
THEOREM ServesInOrder == Spec => HandledOnceInOrder
<1>1. Init => Mailbox!MailboxInit
  BY DEF Init, Mailbox!MailboxInit, NoAction
<1>2. IInv /\ [Next]_vars => [Mailbox!MailboxNext]_(Mailbox!mailbox)
  <2> SUFFICES ASSUME IInv, [Next]_vars
               PROVE  Mailbox!MailboxNext \/ UNCHANGED Mailbox!mailbox
    OBVIOUS
  <2> USE DEF Mailbox!mailbox, Mailbox!MailboxNext
  <2>0. TypeOK /\ Control /\ QueueInv
    BY DEF IInv
  <2>1. CASE ProcCopyCb
    <3>1. m_actions # <<>> /\ ~ActionInScope /\ a = NoAction /\ ~aborted
      BY <2>0, <2>1 DEF Control, ProcCopyCb, ActionInScope
    <3>2. a' = m_actions[1] /\ Len(m_actions) \in Nat \ {0}
      BY <2>0, <2>1, <3>1, QueueFront DEF ProcCopyCb
    <3>3. accepted \in Nat /\ served \in Nat
      BY <2>0 DEF TypeOK
    <3>4. a'.n = served + 1 /\ served < accepted
      BY <2>0, <3>1, <3>2, <3>3 DEF QueueInv
    <3>5. UNCHANGED <<accepted, served, aborted>>
      BY <2>1 DEF ProcCopyCb, history
    <3> QED
      BY <3>1, <3>4, <3>5 DEF Mailbox!Take, NoAction
  <2>2. CASE ProcDone
    <3>1. ActionInScope /\ a.n = served + 1 /\ served \in Nat
      BY <2>0, <2>2 DEF ProcDone, ActionInScope, QueueInv, TypeOK
    <3> QED
      BY <2>2, <3>1 DEF ProcDone, Mailbox!Finish, NoAction, history
  <2>3. CASE IoCritical
    <3>1. UNCHANGED <<a, served, aborted>> /\ ~aborted /\ ioPc = "critical"
      BY <2>3 DEF IoCritical, procVars
    <3>2. CASE job.cb = "on_message"
      BY <2>0, <2>3, <3>1, <3>2 DEF IoCritical, QueueInv, Mailbox!Accept
    <3>3. CASE job.cb # "on_message"
      BY <2>3, <3>1, <3>3 DEF IoCritical
    <3> QED
      BY <3>2, <3>3
  <2>4. CASE Proc /\ ~ProcCopyCb /\ ~ProcDone
    BY <2>4 DEF Proc, ProcLock, ProcTest, ProcWake, ProcCopyPtr, ProcHandle,
       ProcRaise, history
  <2>5. CASE Loop
    <3>1. UNCHANGED <<accepted, a, served>>
      BY <2>5, LoopLeaves
    <3>2. ~aborted /\ (aborted' = aborted \/ aborted' = TRUE)
      BY <2>5 DEF Loop, LoopTest, LoopFind, LoopReadStop, LoopReadGet,
         LoopReadGetAgain, LoopQuota, LoopGrab, LoopCopyPtr, LoopCopyCb, LoopSend,
         LoopSendThrows, LoopCount, LoopReset1, LoopReset2, LoopReset3, LoopSleep,
         LoopGoto
    <3> QED
      BY <3>1, <3>2 DEF Mailbox!Die
  <2>6. CASE (Io \/ Peers) /\ ~IoCritical
    <3>1. UNCHANGED <<accepted, a, served>>
      BY <2>6 DEF Io, Peers, Run, Connect, Receive, Disconnect, Terminated,
         IoLock, IoNotify, procVars, history
    <3>2. ~aborted /\ (aborted' = aborted \/ aborted' = TRUE)
      BY <2>6 DEF Io, Peers, Run, Connect, Receive, Disconnect, Terminated,
         IoLock, IoNotify
    <3> QED
      BY <3>1, <3>2 DEF Mailbox!Die
  <2>7. CASE UNCHANGED vars
    BY <2>7 DEF vars, procVars, history
  <2> QED
    BY <2>1, <2>2, <2>3, <2>4, <2>5, <2>6, <2>7 DEF Next
<1> QED
  BY <1>1, <1>2, InductiveInvariant, PTL
     DEF Spec, HandledOnceInOrder, Mailbox!MailboxOrder

------------------------------------------------------------------------------
(* CameraReader *)

USE DEF readerVars, buffers, mainVars, sdkVars, imageVars, stringVars, Goto,
        InitReturns, OnlySdk, OnlyBuffers, OnlyRelease, OnlyServing, OnlyString,
        Throw, Refuse, DeInitReturns

\* A list of codes is a sequence of at most MaxCodes lengths.
LEMMA CodesBounded ==
  ASSUME NEW codes \in CodeLists
  PROVE  Len(codes) \in 0..MaxCodes /\ \A k \in 1..Len(codes) : codes[k] \in Lengths
<1>1. PICK n \in 0..MaxCodes : codes \in [1..n -> Lengths]
  BY DEF CodeLists
<1>2. Len(codes) = n
  BY <1>1, CameraAssumption
<1> QED
  BY <1>1, <1>2

\* A u_int8_t holds less than its modulus.
LEMMA ModBounded ==
  ASSUME NEW n \in Nat, NEW m \in Nat \ {0}
  PROVE  n % m \in 0..(m - 1)
OBVIOUS

\* A frame just delivered is newer than those before, and of its type.
LEMMA NextFrameTyped ==
  ASSUME stImageInfo \in Frames, NextFrame
  PROVE  stImageInfo' \in Frames /\ device = "grabbing"
BY CameraAssumption DEF NextFrame, Frames

\* Every set of natural numbers has a least element: what induction over the
\* data below rests on.
LEMMA Least ==
  ASSUME NEW T, T \subseteq Nat, T # {}
  PROVE  \E m \in T : \A n \in T : m <= n
<1> DEFINE L == {p \in Nat \X Nat : p[1] < p[2]}
<1>1. OpToRel(<, Nat) = L
  BY DEF OpToRel
<1>2. IsWellFoundedOn(L, Nat)
  BY <1>1, NatLessThanWellFounded
<1> HIDE DEF L
<1>3. PICK m \in T : \A n \in T : ~(<<n, m>> \in L)
  BY <1>2, WFMin
<1>4. ASSUME NEW n \in T PROVE m <= n
  <2>1. m \in Nat /\ n \in Nat /\ <<n, m>> \notin L
    BY <1>3
  <2>2. <<n, m>> \in Nat \X Nat /\ <<n, m>>[1] = n /\ <<n, m>>[2] = m
    BY <2>1
  <2>3. ~(n < m)
    BY <2>1, <2>2 DEF L
  <2> QED BY <2>1, <2>3
<1> QED BY <1>3, <1>4

\* f is the function that TextLength() chooses, of the first n entries of s.
IsLength(f, s, n) == f = [k \in 0..n |-> IF k = 0 THEN 0 ELSE f[k - 1] + s[k].len]

LEMMA TextLengthIs == ASSUME NEW s PROVE TextLength(s) = (CHOOSE f : IsLength(f, s, Len(s)))[Len(s)]
BY DEF TextLength, IsLength

\* There is such a function, whatever n: otherwise there were a least n
\* without one.
LEMMA LengthExists ==
  ASSUME NEW s, NEW n \in Nat
  PROVE  \E f : IsLength(f, s, n)
<1> DEFINE T == {m \in Nat : ~ \E f : IsLength(f, s, m)}
<1>1. CASE T = {}
  BY <1>1
<1>2. CASE T # {}
  <2>1. PICK m \in T : \A k \in T : m <= k
    BY <1>2, Least
  <2>2. CASE m = 0
    <3>1. [k \in 0..0 |-> 0] = [k \in 0..0 |-> IF k = 0 THEN 0 ELSE [x \in 0..0 |-> 0][k - 1] + s[k].len]
      OBVIOUS
    <3>2. IsLength([k \in 0..0 |-> 0], s, 0)
      BY <3>1 DEF IsLength
    <3> QED BY <2>2, <3>2
  <2>3. CASE m # 0
    <3>1. m - 1 \in Nat /\ m - 1 \notin T
      BY <2>1, <2>3
    <3>2. PICK f : IsLength(f, s, m - 1)
      BY <3>1
    <3> DEFINE g == [k \in 0..m |-> IF k = m THEN f[m - 1] + s[m].len ELSE f[k]]
    <3>3. \A k \in 0..m : g[k] = IF k = 0 THEN 0 ELSE g[k - 1] + s[k].len
      BY <2>3, <3>1, <3>2 DEF IsLength
    <3>4. IsLength(g, s, m)
      <4> DEFINE h == [k \in 0..m |-> IF k = 0 THEN 0 ELSE g[k - 1] + s[k].len]
      <4>1. g = h
        BY <3>3
      <4> QED BY <4>1 DEF IsLength
    <3> QED BY <3>4
  <2> QED BY <2>2, <2>3
<1> QED BY <1>1, <1>2

\* Two of them agree: otherwise there were a least index where they differ.
LEMMA LengthUnique ==
  ASSUME NEW s, NEW n \in Nat, NEW p \in Nat, n <= p, NEW f, NEW g, IsLength(f, s, n), IsLength(g, s, p)
  PROVE  \A k \in 0..n : f[k] = g[k]
<1> DEFINE T == {k \in 0..n : f[k] # g[k]}
<1>0. T \subseteq Nat
  OBVIOUS
<1>1. CASE T # {}
  <2> HIDE DEF T
  <2>1. PICK m \in T : \A k \in T : m <= k
    BY <1>0, <1>1, Least
  <2> USE DEF T
  <2>2. f[0] = 0 /\ g[0] = 0
    BY DEF IsLength
  <2>3. m - 1 \in 0..n /\ m - 1 \notin T /\ m # 0
    BY <2>1, <2>2
  <2>4. f[m] = f[m - 1] + s[m].len /\ g[m] = g[m - 1] + s[m].len
    BY <2>1, <2>3 DEF IsLength
  <2> QED BY <2>1, <2>3, <2>4
<1> QED BY <1>1

LEMMA TextOfNothing == TextLength(<<>>) = 0
<1> DEFINE f == CHOOSE f : IsLength(f, <<>>, 0)
<1>1. IsLength(f, <<>>, 0)
  BY LengthExists
<1>2. TextLength(<<>>) = f[0]
  BY TextLengthIs
<1> HIDE DEF f
<1> QED BY <1>1, <1>2 DEF IsLength

\* What strcat() of an entry does to the length.
LEMMA TextAppended ==
  ASSUME NEW S, NEW s \in Seq(S), NEW e \in S, NEW t, t = Append(s, e)
  PROVE  TextLength(t) = TextLength(s) + e.len
<1> DEFINE n == Len(s)
           f == CHOOSE f : IsLength(f, s, Len(s))
           g == CHOOSE g : IsLength(g, t, Len(t))
<1>1. n \in Nat /\ Len(t) = n + 1 /\ t[n + 1] = e /\ \A k \in 1..n : t[k] = s[k]
  OBVIOUS
<1>2. IsLength(f, s, n) /\ IsLength(g, t, n + 1)
  <2>1. (\E x : IsLength(x, s, Len(s))) /\ Len(s) = n
    BY <1>1, LengthExists
  <2>2. Len(t) = n + 1 /\ n + 1 \in Nat
    BY <1>1
  <2>3. \E x : IsLength(x, t, n + 1)
    BY <2>2, LengthExists
  <2> QED BY <2>1, <2>2, <2>3
<1>3. TextLength(s) = f[n] /\ TextLength(t) = g[n + 1]
  BY <1>1, TextLengthIs
<1> HIDE DEF f, g, n
<1>4. IsLength(f, t, n)
  <2>1. \A k \in 0..n : (IF k = 0 THEN 0 ELSE f[k - 1] + s[k].len) = (IF k = 0 THEN 0 ELSE f[k - 1] + t[k].len)
    BY <1>1
  <2>2. [k \in 0..n |-> IF k = 0 THEN 0 ELSE f[k - 1] + s[k].len] = [k \in 0..n |-> IF k = 0 THEN 0 ELSE f[k - 1] + t[k].len]
    BY <2>1
  <2> QED BY <1>2, <2>2 DEF IsLength
<1>5. f[n] = g[n]
  <2>1. n + 1 \in Nat /\ n <= n + 1 /\ n \in 0..n
    BY <1>1
  <2>2. \A k \in 0..n : f[k] = g[k]
    BY <1>1, <1>2, <1>4, <2>1, LengthUnique
  <2> QED BY <2>1, <2>2
<1>6. g[n + 1] = g[n] + e.len
  BY <1>1, <1>2 DEF IsLength
<1> QED BY <1>3, <1>5, <1>6
\* Every step keeps every variable in its type.
LEMMA TypeNext ==
  ASSUME ReaderInv, ReaderNext
  PROVE  ReaderTypeOK'
<1>0. ReaderTypeOK
  BY DEF ReaderInv
<1>t. /\ InitPcs \cup ServePcs \cup DeInitPcs \subseteq Pcs
      /\ {"construct", "aborted", "exited"} \subseteq Pcs
      /\ 0 \in 0..MaxFrames
  BY CameraAssumption DEF Pcs
<1> USE <1>0, <1>t DEF ReaderTypeOK, InitPcs, ServePcs, DeInitPcs
<1>1. CASE Startup
  <2>1. CASE EnumDevices \/ CreateHandle \/ OpenDevice \/ SetTriggerMode
             \/ StartGrabbing
    <3>1. /\ pc' \in Pcs /\ initResult' \in 0..2
          /\ device' \in {"none", "created", "open", "grabbing"}
      BY <2>1 DEF EnumDevices, CreateHandle, OpenDevice, SetTriggerMode, StartGrabbing
    <3>b. handle' \in {TRUE, handle}
      BY <2>1, Zenon DEF EnumDevices, CreateHandle, OpenDevice, SetTriggerMode,
         StartGrabbing
    <3>2. UNCHANGED <<buffers, caller, stImageInfo, imageVars, stringVars, refused>>
      BY <2>1 DEF EnumDevices, CreateHandle, OpenDevice, SetTriggerMode, StartGrabbing
    <3> QED
      BY <3>1, <3>b, <3>2
  <2>2. CASE GetSize \/ Construct
    <3>1. pc' \in Pcs /\ caller' \in {"init", "catch", "end"}
      BY <2>2 DEF GetSize, Construct
    <3>2. UNCHANGED <<buffers, initResult, stImageInfo, imageVars, stringVars, sdkVars>>
      BY <2>2 DEF GetSize, Construct
    <3> QED
      BY <3>1, <3>2
  <2>3. CASE AllocData \/ AllocInfo
    <3>1. g_pstImageInfoEx2' \subseteq 0..MaxFrames /\ g_pcDataBuf' \subseteq 0..MaxFrames
      <4>1. /\ g_pstImageInfoEx2' \in {{0}, g_pstImageInfoEx2}
            /\ g_pcDataBuf' \in {{0}, g_pcDataBuf}
        BY <2>3 DEF AllocData, AllocInfo
      <4> QED
        BY <4>1
    <3>2. pc' \in Pcs /\ caller' \in {"init", "catch", "end"}
      BY <2>3 DEF AllocData, AllocInfo
    <3>3. UNCHANGED <<initResult, stImageInfo, imageVars, stringVars, sdkVars>>
      BY <2>3 DEF AllocData, AllocInfo
    <3> QED
      BY <3>1, <3>2, <3>3
  <2> QED
    BY <1>1, <2>1, <2>2, <2>3 DEF Startup
<1>2. CASE DeInit
  <2>1. pc' \in Pcs /\ caller' \in {"init", "catch", "end"} /\ initResult' \in 0..2
    BY <1>2 DEF DeInit, StopGrabbing, CloseDevice, DestroyHandle, FreeBuffers
  <2>2. /\ handle' \in BOOLEAN /\ refused' \in BOOLEAN
        /\ device' \in {"none", "created", "open", "grabbing"}
    BY <1>2 DEF DeInit, StopGrabbing, CloseDevice, DestroyHandle, FreeBuffers
  <2>3. /\ g_pstImageInfoEx2' \subseteq 0..MaxFrames
        /\ g_pcDataBuf' \subseteq 0..MaxFrames
    BY <1>2 DEF DeInit, StopGrabbing, CloseDevice, DestroyHandle, FreeBuffers
  <2>4. UNCHANGED <<stImageInfo, imageVars, stringVars>>
    BY <1>2 DEF DeInit, StopGrabbing, CloseDevice, DestroyHandle, FreeBuffers
  <2> QED
    BY <2>1, <2>2, <2>3, <2>4
<1>3. CASE GetImage
  <2>1. stImageInfo.id \in 0..MaxFrames
    BY DEF Frames
  <2>2. CASE CallGetImage
    BY <2>2 DEF CallGetImage
  <2>3. CASE WaitImage
    BY <2>3, NextFrameTyped DEF WaitImage
  <2>4. CASE CopyInfo \/ CopyData
    BY <2>1, <2>4 DEF CopyInfo, CopyData
  <2>5. CASE Decode
    <3>1. picture' \subseteq [info : 0..MaxFrames, pixels : 0..MaxFrames]
      BY <2>5 DEF Decode
    <3> QED
      BY <2>5, <3>1 DEF Decode
  <2>6. CASE GetData
    <3>1. Len(stImageInfo.codes) \in 0..MaxCodes
      BY CodesBounded DEF Frames
    <3>2. Len(stImageInfo.codes) % CountMod \in 0..(CountMod - 1)
      <4>1. Len(stImageInfo.codes) \in Nat /\ CountMod \in Nat \ {0}
        BY <3>1, CameraAssumption
      <4> QED
        BY <4>1, ModBounded, Zenon
    <3>3. count' \in 0..(CountMod - 1)
      <4>1. CASE Len(stImageInfo.codes) = 0
        BY <2>6, <4>1 DEF GetData
      <4>2. CASE Len(stImageInfo.codes) # 0
        BY <2>6, <3>2, <4>2 DEF GetData
      <4> QED
        BY <4>1, <4>2
    <3> QED
      BY <2>6, <3>3 DEF GetData
  <2>7. CASE Draw
    <3>1. drawn' \subseteq 0..(CountMod - 1)
      BY <2>7 DEF Draw
    <3> QED
      BY <2>7, <3>1 DEF Draw
  <2> QED
    BY <1>3, <2>2, <2>3, <2>4, <2>5, <2>6, <2>7 DEF GetImage
<1>4. CASE GetString
  <2> USE CameraAssumption
  <2>1. Len(stImageInfo.codes) \in 0..MaxCodes
    BY CodesBounded DEF Frames
  <2>2. More => Piece \in Nat /\ nth + 1 \in 0..MaxCodes
    <3>1. nth \in Nat
      BY DEF ReaderTypeOK
    <3>2. More => nth + 1 \in 1..Len(stImageInfo.codes)
      BY <2>1, <3>1 DEF More
    <3> QED
      BY <2>1, <3>1, <3>2, CodesBounded DEF Frames, Lengths, Piece, More
  <2>3. CASE CallGetString
    BY <2>3 DEF CallGetString
  <2>4. CASE WaitString
    BY <2>4, NextFrameTyped DEF WaitString
  <2>5. CASE SkipTruncated \/ SkipUnallocated
    BY <2>2, <2>5 DEF SkipTruncated, SkipUnallocated
  <2>6. CASE AppendEntry
    <3>1. [index |-> nth, len |-> Piece] \in Entries
      BY <2>2, <2>6 DEF Entries, AppendEntry
    <3>2. temp_string' \in Seq(Entries)
      BY <2>6, <3>1 DEF AppendEntry
    <3>3. total_length' \in 0..(MaxLen - 1) /\ nth' \in 0..MaxCodes
      BY <2>2, <2>6 DEF AppendEntry
    <3> QED
      BY <2>6, <3>2, <3>3 DEF AppendEntry
  <2>7. CASE AllAppended \/ ReturnString
    BY <2>7 DEF AllAppended, ReturnString
  <2> QED
    BY <1>4, <2>3, <2>4, <2>5, <2>6, <2>7 DEF GetString
<1> QED
  BY <1>1, <1>2, <1>3, <1>4 DEF ReaderNext

\* The states of the device, the handle and the buffers along init(), the
\* calls of looping(), and DeInitResources().
LEMMA LifeNext ==
  ASSUME ReaderInv, ReaderNext
  PROVE  (ReaderControl /\ HandleOwnsBuffers /\ RefusalInv /\ StartedMeansGrabbing)'
<1>0. ReaderTypeOK /\ ReaderControl /\ HandleOwnsBuffers /\ RefusalInv /\ StartedMeansGrabbing
  BY DEF ReaderInv
<1>b. handle \in BOOLEAN /\ refused \in BOOLEAN
  BY <1>0 DEF ReaderTypeOK
<1> USE <1>0, <1>b DEF ReaderControl, HandleOwnsBuffers, RefusalInv, StartedMeansGrabbing,
                 InitPcs, DeInitPcs
<1>1. CASE Startup
  <2>1. CASE EnumDevices \/ CreateHandle \/ OpenDevice
    BY <2>1 DEF EnumDevices, CreateHandle, OpenDevice
  <2>2. CASE GetSize
    BY <2>2 DEF GetSize
  <2>3. CASE AllocData
    BY <2>3 DEF AllocData
  <2>4. CASE AllocInfo
    BY <2>4 DEF AllocInfo
  <2>5. CASE SetTriggerMode \/ StartGrabbing
    BY <2>5 DEF SetTriggerMode, StartGrabbing
  <2>6. CASE Construct
    BY <2>6 DEF Construct
  <2> QED
    BY <1>1, <2>1, <2>2, <2>3, <2>4, <2>5, <2>6 DEF Startup
<1>2. CASE DeInit
  <2>1. CASE StopGrabbing
    BY <2>1 DEF StopGrabbing
  <2>2. CASE CloseDevice
    BY <2>2 DEF CloseDevice
  <2>3. CASE DestroyHandle
    BY <2>3 DEF DestroyHandle
  <2>4. CASE FreeBuffers
    BY <2>4 DEF FreeBuffers
  <2> QED
    BY <1>2, <2>1, <2>2, <2>3, <2>4 DEF DeInit
<1>3. CASE GetImage
  <2>1. CASE CallGetImage
    BY <2>1 DEF CallGetImage
  <2>2. CASE WaitImage
    BY <2>2 DEF WaitImage, NextFrame
  <2>3. CASE CopyInfo \/ CopyData
    <3>1. /\ g_pstImageInfoEx2' = {} <=> g_pstImageInfoEx2 = {}
          /\ g_pcDataBuf' = {} <=> g_pcDataBuf = {}
      BY <2>3 DEF CopyInfo, CopyData
    <3>2. UNCHANGED <<mainVars, sdkVars>> /\ pc' \in {"copyData", "decode"}
          /\ pc \in {"copyInfo", "copyData"}
      BY <2>3 DEF CopyInfo, CopyData
    <3> QED
      BY <3>1, <3>2
  <2>4. CASE Decode \/ GetData \/ Draw
    BY <2>4 DEF Decode, GetData, Draw
  <2> QED
    BY <1>3, <2>1, <2>2, <2>3, <2>4 DEF GetImage
<1>4. CASE GetString
  <2>1. UNCHANGED <<mainVars, sdkVars, buffers>>
    BY <1>4 DEF GetString, CallGetString, WaitString, SkipTruncated,
       SkipUnallocated, AppendEntry, AllAppended, ReturnString
  <2>2. /\ pc \in {"idle", "waitString", "append", "result"}
        /\ pc' \in {"idle", "waitString", "append", "result", "aborted"}
    BY <1>4 DEF GetString, CallGetString, WaitString, SkipTruncated,
       SkipUnallocated, AppendEntry, AllAppended, ReturnString
  <2> QED
    BY <2>1, <2>2
<1> QED
  BY <1>1, <1>2, <1>3, <1>4 DEF ReaderNext

\* getImage() decodes the frame whose info and pixels it has copied.
LEMMA PictureNext ==
  ASSUME ReaderInv, ReaderNext
  PROVE  (PictureInv /\ PictureOfFrame)'
<1>0. ReaderTypeOK /\ ReaderControl /\ PictureInv /\ PictureOfFrame
  BY DEF ReaderInv
<1>1. stImageInfo.id \in Nat /\ stImageInfo.fits \in BOOLEAN
  BY <1>0, CameraAssumption DEF ReaderTypeOK, Frames
<1> USE <1>0, <1>1 DEF PictureInv, PictureOfFrame
<1>2. CASE Startup
  <2>1. /\ UNCHANGED <<stImageInfo, picture>>
        /\ pc' \notin {"waitImage", "copyInfo", "copyData", "decode"}
        /\ g_pstImageInfoEx2' \in {{0}, g_pstImageInfoEx2}
    BY <1>2 DEF Startup, EnumDevices, CreateHandle, OpenDevice, GetSize, AllocData,
       AllocInfo, SetTriggerMode, StartGrabbing, Construct
  <2> QED
    BY <2>1
<1>3. CASE DeInit
  BY <1>3 DEF DeInit, StopGrabbing, CloseDevice, DestroyHandle, FreeBuffers
<1>4. CASE WaitImage \/ WaitString
  <2>1. /\ UNCHANGED <<buffers, picture>>
        /\ pc' \notin {"copyData", "decode"}
        /\ pc' \in {"waitImage", "copyInfo"} => pc = "waitImage"
    BY <1>4 DEF WaitImage, WaitString
  <2>2. CASE UNCHANGED stImageInfo
    BY <2>1, <2>2
  <2>3. CASE NextFrame
    <3>1. stImageInfo'.id = stImageInfo.id + 1
      BY <2>3 DEF NextFrame
    <3>2. /\ \A n \in g_pstImageInfoEx2 : n \in Nat
          /\ \A p \in picture : p.info \in Nat
      BY CameraAssumption DEF ReaderTypeOK
    <3> QED
      BY <2>1, <3>1, <3>2
  <2> QED
    BY <1>4, <2>2, <2>3 DEF WaitImage, WaitString
<1>5. CASE CallGetImage
  BY <1>5 DEF CallGetImage
<1>6. CASE CopyInfo
  BY <1>6 DEF CopyInfo, ReaderControl
<1>7. CASE CopyData
  BY <1>7 DEF CopyData, ReaderControl
<1>8. CASE Decode
  BY <1>8 DEF Decode
<1>9. CASE GetData \/ Draw
  BY <1>9 DEF GetData, Draw
<1>10. CASE CallGetString \/ SkipTruncated \/ SkipUnallocated \/ AppendEntry
            \/ AllAppended \/ ReturnString
  BY <1>10 DEF CallGetString, SkipTruncated, SkipUnallocated, AppendEntry,
     AllAppended, ReturnString
<1> QED
  BY <1>2, <1>3, <1>4, <1>5, <1>6, <1>7, <1>8, <1>9, <1>10
     DEF ReaderNext, GetImage, GetString

\* getString() lists what it has come past, and counts its length.
LEMMA StringNext ==
  ASSUME ReaderInv, ReaderNext
  PROVE  StringInv'
<1>0. ReaderTypeOK /\ StringInv
  BY DEF ReaderInv
<1>1. /\ nth \in Nat /\ nth <= MaxCodes /\ temp_string \in Seq(Entries) /\ total_length \in Nat
      /\ Len(stImageInfo.codes) \in Nat /\ Len(stImageInfo.codes) <= MaxCodes
  BY <1>0, CodesBounded, CameraAssumption DEF ReaderTypeOK, Frames
<1>2. CASE Startup \/ DeInit \/ GetImage
  <2>1. pc' \notin {"waitString", "append", "result"}
    BY <1>2 DEF Startup, EnumDevices, CreateHandle, OpenDevice, GetSize, AllocData,
       AllocInfo, SetTriggerMode, StartGrabbing, Construct, DeInit, StopGrabbing,
       CloseDevice, DestroyHandle, FreeBuffers, GetImage, CallGetImage, WaitImage,
       CopyInfo, CopyData, Decode, GetData, Draw
  <2> QED
    BY <2>1 DEF StringInv, ResultExact
<1>3. CASE CallGetString
  BY <1>3 DEF CallGetString, StringInv, ResultExact
<1>4. CASE WaitString
  <2>1. /\ nth' = 0 /\ temp_string' = <<>> /\ total_length' = 0 /\ lost' = {}
        /\ pc' \in {"append", "result"}
    BY <1>0, <1>4 DEF WaitString, StringInv
  <2>2. stImageInfo' \in Frames
    BY <1>0, <1>4, NextFrameTyped DEF WaitString, ReaderTypeOK
  <2>3. Len(stImageInfo'.codes) \in Nat
    BY <2>2, CodesBounded, CameraAssumption DEF Frames
  <2>4. ListsAll'
    <3>1. DOMAIN temp_string' = {}
      BY <2>1
    <3> QED
      BY <2>1, <3>1 DEF ListsAll
  <2>5. TextLength(temp_string)' = 0
    BY <2>1, TextOfNothing
  <2> QED
    BY <2>1, <2>3, <2>4, <2>5 DEF StringInv, ResultExact
<1>5. CASE SkipTruncated \/ SkipUnallocated
  <2>1. /\ pc = "append" /\ pc' = "append" /\ nth' = nth + 1 /\ nth < Len(stImageInfo.codes)
        /\ UNCHANGED <<temp_string, total_length, stImageInfo>>
        /\ \/ lost' = lost /\ stImageInfo.codes[nth + 1] >= MaxLen
           \/ lost' = lost \cup {nth}
    BY <1>5 DEF SkipTruncated, SkipUnallocated, More, Piece
  <2>2. ListsAll /\ total_length = TextLength(temp_string) /\ \A k \in lost : k < nth
    BY <1>0, <2>1 DEF StringInv
  <2>3. {k \in 0..MaxCodes : k < nth' /\ stImageInfo.codes[k + 1] < MaxLen /\ k \notin lost'} =
        {k \in 0..MaxCodes : k < nth /\ stImageInfo.codes[k + 1] < MaxLen /\ k \notin lost}
    <3>1. stImageInfo.codes[nth + 1] \in Nat
      BY <1>0, <1>1, <2>1, CodesBounded, CameraAssumption DEF ReaderTypeOK, Frames, Lengths
    <3>2. ASSUME NEW k \in 0..MaxCodes
          PROVE  /\ k < nth' <=> k < nth \/ k = nth
                 /\ k # nth => (k \in lost' <=> k \in lost)
                 /\ nth \in lost' \/ ~(stImageInfo.codes[nth + 1] < MaxLen)
      BY <1>1, <2>1, <3>1, CameraAssumption, SMTT(30)
    <3> QED
      BY <1>1, <3>2
  <2>4. ListsAll'
    <3>1. stImageInfo' = stImageInfo /\ temp_string' = temp_string
      BY <2>1
    <3>2. \A k \in DOMAIN temp_string' :
            temp_string'[k].len = stImageInfo'.codes[temp_string'[k].index + 1]
      BY <2>2, <3>1 DEF ListsAll
    <3>3. \A j, k \in DOMAIN temp_string' : j < k => temp_string'[j].index < temp_string'[k].index
      BY <2>2, <3>1 DEF ListsAll
    <3>4. {temp_string'[k].index : k \in DOMAIN temp_string'} =
            {k \in 0..MaxCodes : k < nth' /\ stImageInfo'.codes[k + 1] < MaxLen /\ k \notin lost'}
      <4>1. {temp_string[k].index : k \in DOMAIN temp_string} =
              {k \in 0..MaxCodes : k < nth /\ stImageInfo.codes[k + 1] < MaxLen /\ k \notin lost}
        BY <2>2 DEF ListsAll
      <4> QED
        BY <2>3, <3>1, <4>1
    <3> QED
      BY <3>2, <3>3, <3>4 DEF ListsAll
  <2>5. \A k \in lost' : k < nth'
    <3>1. \A k \in lost' : k \in lost \/ k = nth
      BY <2>1
    <3>2. \A k \in lost : k \in 0..MaxCodes /\ k < nth
      BY <1>0, <2>2 DEF ReaderTypeOK
    <3> QED
      BY <1>1, <2>1, <3>1, <3>2, CameraAssumption
  <2>6. nth' <= Len(stImageInfo'.codes)
    BY <1>1, <2>1
  <2> QED
    BY <2>1, <2>2, <2>4, <2>5, <2>6 DEF StringInv, ResultExact
<1>6. CASE AppendEntry
  <2>1. CASE pc' = "append"
    <3> DEFINE e == [index |-> nth, len |-> Piece]
    <3>1. /\ pc = "append" /\ nth' = nth + 1 /\ nth < Len(stImageInfo.codes) /\ Piece < MaxLen
          /\ temp_string' = Append(temp_string, e) /\ total_length' = total_length + Piece
          /\ UNCHANGED <<stImageInfo, lost>>
      BY <1>6, <2>1 DEF AppendEntry, More
    <3>2. ListsAll /\ total_length = TextLength(temp_string) /\ \A k \in lost : k < nth
      BY <1>0, <3>1 DEF StringInv
    <3>3. Piece \in Nat /\ Piece = stImageInfo.codes[nth + 1] /\ e \in Entries /\ e.index = nth /\ e.len = Piece
      BY <1>0, <1>1, <3>1, CodesBounded, CameraAssumption DEF ReaderTypeOK, Frames, Lengths, Piece, Entries
    <3> HIDE DEF e
    <3> DEFINE n == Len(temp_string)
    <3>4. /\ n \in Nat /\ DOMAIN temp_string = 1..n /\ DOMAIN temp_string' = 1..(n + 1)
          /\ temp_string'[n + 1] = e /\ \A k \in 1..n : temp_string'[k] = temp_string[k]
      BY <1>1, <3>1, <3>3
    <3> HIDE DEF n
    <3>5. total_length' = TextLength(temp_string)'
      BY <1>1, <3>1, <3>2, <3>3, TextAppended
    <3>6. \A k \in DOMAIN temp_string : temp_string[k].index < nth /\ temp_string[k].index \in Nat
      BY <3>2 DEF ListsAll
    <3>7. \A k \in DOMAIN temp_string' :
            temp_string'[k].len = stImageInfo'.codes[temp_string'[k].index + 1]
      BY <3>1, <3>2, <3>3, <3>4 DEF ListsAll
    <3>8. \A j, k \in DOMAIN temp_string' : j < k => temp_string'[j].index < temp_string'[k].index
      <4> SUFFICES ASSUME NEW j \in 1..(n + 1), NEW k \in 1..(n + 1), j < k
                   PROVE  temp_string'[j].index < temp_string'[k].index
        BY <3>4
      <4>1. j \in 1..n
        BY <3>4
      <4>2. CASE k \in 1..n
        BY <3>2, <3>4, <4>1, <4>2 DEF ListsAll
      <4>3. CASE k = n + 1
        BY <3>3, <3>4, <3>6, <4>1, <4>3
      <4> QED
        BY <3>4, <4>2, <4>3
    <3>9. {temp_string'[k].index : k \in DOMAIN temp_string'} =
            {k \in 0..MaxCodes : k < nth' /\ stImageInfo'.codes[k + 1] < MaxLen /\ k \notin lost'}
      <4>1. {temp_string'[k].index : k \in DOMAIN temp_string'} =
              {temp_string[k].index : k \in DOMAIN temp_string} \cup {nth}
        BY <3>3, <3>4
      <4>2. {k \in 0..MaxCodes : k < nth' /\ stImageInfo'.codes[k + 1] < MaxLen /\ k \notin lost'} =
              {k \in 0..MaxCodes : k < nth /\ stImageInfo.codes[k + 1] < MaxLen /\ k \notin lost} \cup {nth}
        <5>1. nth \in 0..MaxCodes /\ nth \notin lost
          BY <1>1, <3>2
        <5>2. \A k \in 0..MaxCodes : k < nth' <=> k < nth \/ k = nth
          BY <1>1, <3>1
        <5> QED
          BY <3>1, <3>3, <5>1, <5>2
      <4> QED
        BY <3>2, <4>1, <4>2 DEF ListsAll
    <3>10. ListsAll'
      BY <3>7, <3>8, <3>9 DEF ListsAll
    <3>11. nth' <= Len(stImageInfo'.codes) /\ \A k \in lost' : k < nth'
      BY <1>0, <1>1, <3>1, <3>2, CameraAssumption DEF ReaderTypeOK
    <3> QED
      BY <2>1, <3>5, <3>10, <3>11 DEF StringInv, ResultExact
  <2>2. CASE pc' # "append"
    BY <1>6, <2>2 DEF AppendEntry, StringInv, ResultExact
  <2> QED
    BY <2>1, <2>2
<1>7. CASE AllAppended
  <2>1. /\ pc = "append" /\ pc' = "result" /\ ~(nth < Len(stImageInfo.codes))
        /\ UNCHANGED <<stImageInfo, nth, temp_string, total_length, lost>>
    BY <1>7 DEF AllAppended, More
  <2>2. nth = Len(stImageInfo.codes)
    BY <1>0, <1>1, <2>1 DEF StringInv
  <2> QED
    BY <1>0, <2>1, <2>2 DEF StringInv, ResultExact, ListsAll
<1>8. CASE ReturnString
  BY <1>8 DEF ReturnString, StringInv, ResultExact
<1> QED
  BY <1>2, <1>3, <1>4, <1>5, <1>6, <1>7, <1>8 DEF ReaderNext, GetString

\* The invariant behind the properties below: it holds in every reachable
\* state, for every value of the constants.
THEOREM CameraInvariant == ReaderSpec => []ReaderInv
<1>1. ReaderInit => ReaderInv
  <2> SUFFICES ASSUME ReaderInit PROVE ReaderInv
    OBVIOUS
  <2>1. ZeroFrame \in Frames
    <3>1. <<>> \in [1..0 -> Lengths]
      OBVIOUS
    <3>2. <<>> \in CodeLists
      BY <3>1, CameraAssumption DEF CodeLists
    <3> QED
      BY <3>2, CameraAssumption DEF ZeroFrame, Frames
  <2>2. /\ 0 \in 0..(CountMod - 1) /\ 0 \in 0..(MaxLen - 1) /\ 0 \in 0..MaxCodes
        /\ "enumerate" \in Pcs /\ <<>> \in Seq(Entries)
    BY CameraAssumption DEF Pcs, InitPcs
  <2>3. ReaderTypeOK
    <3>1. /\ handle \in BOOLEAN /\ refused \in BOOLEAN
          /\ device \in {"none", "created", "open", "grabbing"}
          /\ g_pstImageInfoEx2 \subseteq 0..MaxFrames
          /\ g_pcDataBuf \subseteq 0..MaxFrames
          /\ pc \in Pcs /\ caller \in {"init", "catch", "end"}
      BY <2>2 DEF ReaderInit
    <3>2. /\ initResult \in 0..2 /\ stImageInfo \in Frames /\ count \in 0..(CountMod - 1)
          /\ nth \in 0..MaxCodes /\ total_length \in 0..(MaxLen - 1)
          /\ temp_string \in Seq(Entries)
      BY <2>1, <2>2 DEF ReaderInit
    <3>3. /\ picture = {} /\ drawn = {} /\ lost = {}
      BY DEF ReaderInit
    <3> QED
      BY <3>1, <3>2, <3>3 DEF ReaderTypeOK
  <2> QED
    BY <2>3 DEF ReaderInit, ReaderInv, ReaderControl, HandleOwnsBuffers, RefusalInv, PictureInv,
       StartedMeansGrabbing, PictureOfFrame, StringInv, ResultExact, InitPcs, DeInitPcs
<1>2. ReaderInv /\ [ReaderNext]_readerVars => ReaderInv'
  <2> SUFFICES ASSUME ReaderInv, [ReaderNext]_readerVars PROVE ReaderInv'
    OBVIOUS
  <2>1. CASE ReaderNext
    BY <2>1, TypeNext, LifeNext, PictureNext, StringNext DEF ReaderInv
  <2>2. CASE UNCHANGED readerVars
    BY <2>2 DEF ReaderInv, ReaderTypeOK, ReaderControl, HandleOwnsBuffers, RefusalInv, PictureInv,
       StartedMeansGrabbing, PictureOfFrame, StringInv, ResultExact, ListsAll
  <2> QED
    BY <2>1, <2>2
<1> QED
  BY <1>1, <1>2, PTL DEF ReaderSpec

\* init() reports success only for a camera that is grabbing into buffers that
\* exist, although it goes on after a failed OpenDevice().
THEOREM StartedCamera == ReaderSpec => []StartedMeansGrabbing
<1>1. ReaderInv => StartedMeansGrabbing
  BY DEF ReaderInv
<1> QED
  BY <1>1, CameraInvariant, PTL

\* getImage() never dereferences a NULL g_pstImageInfoEx2.
THEOREM BuffersExist == ReaderSpec => []FramesHaveBuffers
<1>1. ReaderInv => FramesHaveBuffers
  BY DEF ReaderInv, ReaderControl, FramesHaveBuffers
<1> QED
  BY <1>1, CameraInvariant, PTL

\* A picture shows the frame its polygons belong to.
THEOREM PictureMatches == ReaderSpec => []PictureOfFrame
<1>1. ReaderInv => PictureOfFrame
  BY DEF ReaderInv
<1> QED
  BY <1>1, CameraInvariant, PTL

\* The two calls of DeInitResources() release everything the SDK lets go.
THEOREM CameraReleased == ReaderSpec => []ReleasedAtReturn
<1>1. ReaderInv => ReleasedAtReturn
  BY DEF ReaderInv, ReaderTypeOK, ReaderControl, HandleOwnsBuffers, RefusalInv, ReleasedAtReturn
<1> QED
  BY <1>1, CameraInvariant, PTL

\* getString() returns every code that could be listed, once and in order, and
\* has counted its length right, by which the result is allocated.
THEOREM StringIsExact == ReaderSpec => []ResultExact
<1>1. ReaderInv => ResultExact
  BY DEF ReaderInv, StringInv
<1> QED
  BY <1>1, CameraInvariant, PTL
==============================================================================
