--------------------------- MODULE ProgramsProofs ---------------------------
(***************************************************************************)
(* Proofs about three programs that share nothing: the TLS client of the   *)
(* examples, the first server, and the other programs of class Camera.     *)
(* Each has an inductive invariant of its own.                             *)
(***************************************************************************)
EXTENDS TlsClient, PrototypeServer, CameraPrograms, SequenceTheorems, TLAPS

-----------------------------------------------------------------------------
(* What is shown is of a server that is trusted and whose certificate names  *)
(* the host: for chains and lists of names of any length, in whatever order  *)
(* trust and names are found wanting.                                        *)

\* The server's own certificate names the host.
Named ==
  verify_subject_alternative_name(cert.san) \/ verify_common_name(cert.cn)

\* A handshake under way has failed no certificate, one that is up has seen
\* them all, the server's own too; messages come after it.
TInv ==
  /\ tls \in {"none", "context", "verifying", "up", "failed"}
  /\ left \in Nat /\ shown \in Nat
  /\ ctx.verify_peer \in BOOLEAN /\ ctx.knows_ca \in BOOLEAN /\ trusted \in BOOLEAN
  /\ tls # "none" => ctx.verify_peer
  /\ tls \in {"none", "context"} => trusted
  /\ tls = "verifying" => trusted /\ left > 0
  /\ tls = "up" => trusted /\ ctx.knows_ca /\ Named
  /\ shown > 0 => tls = "up"

LEMMA NamedHasHost ==
  Named => cert.cn = "host" \/ \E i \in DOMAIN cert.san : cert.san[i] = "host"
BY DEF Named, verify_subject_alternative_name, verify_common_name, Compared

LEMMA VerifyKeeps == ASSUME TInv, Verify PROVE TInv'
<1>1. PICK preverified \in BOOLEAN :
        /\ preverified => ctx.knows_ca
        /\ trusted' = (trusted /\ preverified)
        /\ tls' = IF ctx.verify_peer /\ ~verify_certificate(left - 1, preverified) THEN "failed"
                  ELSE IF Complete(left) THEN "up" ELSE "verifying"
  BY DEF Verify, TInv
<1>2. /\ tls = "verifying" /\ left \in Nat /\ left > 0 /\ left' = left - 1 /\ shown = 0
      /\ UNCHANGED <<tls_main, ctx, cert, shown>> /\ ctx.verify_peer /\ trusted
  BY DEF Verify, TInv
<1>3. left' \in Nat /\ (left # 1 => left' > 0) /\ (left = 1 => left - 1 = 0)
  BY <1>2
<1>4. CASE ~verify_certificate(left - 1, preverified)
  BY <1>1, <1>2, <1>3, <1>4 DEF TInv
<1>5. CASE verify_certificate(left - 1, preverified)
  <2>1. preverified /\ (left = 1 => Named)
    BY <1>3, <1>5 DEF verify_certificate, Named
  <2>2. trusted' /\ ctx.knows_ca /\ tls' = IF left = 1 THEN "up" ELSE "verifying"
    BY <1>1, <1>2, <1>5, <2>1 DEF Complete
  <2>3. Named' <=> Named
    BY <1>2 DEF Named
  <2> QED BY <1>2, <1>3, <2>1, <2>2, <2>3 DEF TInv
<1> QED BY <1>4, <1>5

LEMMA TInvStep == ASSUME TInv, [TlsNext]_tlsVars PROVE TInv'
<1>1. CASE UNCHANGED tlsVars
  BY <1>1 DEF tlsVars, TInv, Named
<1>2. CASE Start
  BY <1>2 DEF Start, TInv, Named
<1>3. CASE on_tls_init
  BY <1>3 DEF on_tls_init, Context, TInv, Named
<1>4. CASE Present
  <2>1. left' \in Nat /\ left' > 0
    BY <1>4, TlsClientAssumption DEF Present
  <2> QED BY <1>4, <2>1 DEF Present, TInv
<1>5. CASE Verify
  BY <1>5, VerifyKeeps
<1>6. CASE on_message_tls
  BY <1>6 DEF on_message_tls, TInv, Named
<1>7. CASE RunReturns
  BY <1>7 DEF RunReturns, TInv, Named
<1> QED BY <1>1, <1>2, <1>3, <1>4, <1>5, <1>6, <1>7 DEF TlsNext

\* print_client_tls.cpp:160: "Load trusted CA certificates and verify the
\* server cert is trusted": nothing is shown of a server one of whose
\* certificates is not, also when the file of the authorities did not load.
THEOREM ShowsTheTrusted == TlsSpec => []ShownIsTrusted
<1>1. TlsInit => TInv
  BY DEF TlsInit, TInv
<1>2. TInv /\ [TlsNext]_tlsVars => TInv'
  BY TInvStep
<1>3. TInv => ShownIsTrusted
  BY DEF TInv, ShownIsTrusted
<1> QED BY <1>1, <1>2, <1>3, PTL DEF TlsSpec

\* Nothing is shown of a server whose own certificate names another host,
\* however many names it has and whatever they are.
THEOREM ShowsTheNamed == TlsSpec => []ShownIsNamed
<1>1. TlsInit => TInv
  BY DEF TlsInit, TInv
<1>2. TInv /\ [TlsNext]_tlsVars => TInv'
  BY TInvStep
<1>3. TInv => ShownIsNamed
  BY NamedHasHost DEF TInv, ShownIsNamed
<1> QED BY <1>1, <1>2, <1>3, PTL DEF TlsSpec

\* Both, as they are checked: what is shown is of the host, and trusted.
THEOREM ShowsTheHost == TlsSpec => []ShownIsOfHost
<1>1. ShownIsTrusted /\ ShownIsNamed => ShownIsOfHost
  BY DEF ShownIsOfHost
<1> QED BY <1>1, ShowsTheTrusted, ShowsTheNamed, PTL

-----------------------------------------------------------------------------
(* The first server: a request is answered with no more strings than it is  *)
(* entitled to, and an id is found only for a connection that is registered. *)

ClientActions == [hdl : Clients, msg : Commands]

\* Every action that waits is of a client, and so is the handle in the slot.
ActionInv ==
  /\ m_actions \in Seq(ClientActions)
  /\ b \in {"garbage", "null", "slot"}
  /\ b = "slot" => slot \in Clients
  /\ loop.pc \in {"find", "sendA", "quota", "sendB"} => slot \in Clients

\* A closed connection stays a key, with an empty id.
KeyInv ==
  \A c \in Clients : con[c] \in {"closing", "gone"} =>
    c \in DOMAIN m_connections /\ m_connections[c] = NoId

\* The ids of the keys, and what looping() keeps.
Ids == {NoId} \cup {ClientID[c] : c \in Clients}

LoopPcs ==
  {"sleep", "pointer", "find", "sendA", "quota", "sendB", "load", "store", "end1", "end2",
   "reset1", "reset2", "reset3", "fault", "terminate"}

LoopShape ==
  /\ DOMAIN m_connections \subseteq Clients
  /\ \A c \in DOMAIN m_connections : m_connections[c] \in Ids
  /\ loop \in [pc : LoopPcs, id : Ids \cup {None}, count : Nat]

\* The strings sent are counted, but for the one whose count is on its way; and
\* looping() passed the test of the quota with a count that only a reset lowers.
CountInv ==
  /\ answered \in Nat /\ loop.count \in Nat
  /\ loop.pc \notin {"load", "store"} => answered <= client2_data_count
  /\ loop.pc \in {"sendB", "load"} => client2_data_count < max_client2_data_count
  /\ loop.pc = "load" => answered <= client2_data_count + 1
  /\ loop.pc = "store" =>
       loop.count < max_client2_data_count /\ answered <= loop.count + 1

PrototypeInv == PrototypeTypeOK /\ LoopShape /\ ActionInv /\ KeyInv /\ CountInv

\* The steps of a connection, of process_messages() and of looping().
ConnectionStep(c) == on_open(c) \/ Lose(c) \/ on_close(c) \/ Release(c) \/ on_message(c)
ProcessStep == Take \/ HandleStop \/ HandleGetData \/ HandleStart
LoopStep ==
  LoopTest \/ LoopPointer \/ LoopFind \/ LoopSendImage \/ LoopQuota
    \/ LoopSendString \/ LoopLoad \/ LoopStore \/ LoopEnd \/ LoopReset

LEMMA NoIdIsNone == NoId \notin {"client1", "client2"}
BY Zenon DEF NoId

LEMMA PrototypeCases ==
  PrototypeNext => (\E c \in Clients : ConnectionStep(c)) \/ ProcessStep \/ LoopStep
BY DEF PrototypeNext, ConnectionStep, ProcessStep, LoopStep

LEMMA PrototypeInitInv == PrototypeInit => PrototypeInv
<1> SUFFICES ASSUME PrototypeInit PROVE PrototypeInv
  OBVIOUS
<1>1. PrototypeTypeOK
  BY CountAssumption DEF PrototypeInit, PrototypeTypeOK, None
<1>2. ActionInv
  BY DEF PrototypeInit, ActionInv
<1>3. KeyInv
  BY DEF PrototypeInit, PrototypeTypeOK, KeyInv
<1>4. CountInv
  BY CountAssumption DEF PrototypeInit, CountInv
<1>5. LoopShape
  <2>1. NoId \in Ids
    BY DEF Ids
  <2>2. loop \in [pc : LoopPcs, id : Ids \cup {None}, count : Nat]
    BY <2>1 DEF PrototypeInit, LoopPcs
  <2>3. DOMAIN m_connections = {}
    BY DEF PrototypeInit
  <2> QED BY <2>2, <2>3 DEF LoopShape
<1> QED BY <1>1, <1>2, <1>3, <1>4, <1>5 DEF PrototypeInv

LEMMA ConnectionKeeps ==
  ASSUME PrototypeInv, NEW c \in Clients, ConnectionStep(c) PROVE PrototypeInv'
<1> USE DEF ConnectionStep
<1>1. UNCHANGED <<b, slot, flags, loop, answered>>
  BY DEF on_open, Lose, on_close, Release, on_message
<1>2. con' \in [Clients -> {"new", "open", "lost", "closing", "gone"}]
  BY DEF on_open, Lose, on_close, Release, on_message, PrototypeInv, PrototypeTypeOK
<1>3. PrototypeTypeOK'
  BY <1>1, <1>2 DEF PrototypeInv, PrototypeTypeOK, flags
<1>4. m_actions' \in Seq(ClientActions)
  <2>1. m_actions' = m_actions \/ \E msg \in Commands : m_actions' = Append(m_actions, [hdl |-> c, msg |-> msg])
    BY DEF on_open, Lose, on_close, Release, on_message
  <2>2. m_actions \in Seq(ClientActions)
    BY DEF PrototypeInv, ActionInv
  <2>3. ASSUME NEW msg \in Commands, m_actions' = Append(m_actions, [hdl |-> c, msg |-> msg])
        PROVE  m_actions' \in Seq(ClientActions)
    <3>1. [hdl |-> c, msg |-> msg] \in ClientActions
      BY DEF ClientActions
    <3> QED BY <2>2, <2>3, <3>1, AppendProperties
  <2> QED BY <2>1, <2>2, <2>3
<1>5. ActionInv'
  BY <1>1, <1>4 DEF PrototypeInv, ActionInv
<1>6. KeyInv'
  BY DEF on_open, Lose, on_close, Release, on_message, With, PrototypeInv, PrototypeTypeOK, KeyInv
<1>7. CountInv'
  BY <1>1 DEF PrototypeInv, CountInv, LoopShape, flags
<1>8. LoopShape'
  BY <1>1 DEF on_open, Lose, on_close, Release, on_message, With, PrototypeInv, LoopShape, Ids
<1> QED BY <1>3, <1>5, <1>6, <1>7, <1>8 DEF PrototypeInv

LEMMA ProcessKeeps == ASSUME PrototypeInv, ProcessStep PROVE PrototypeInv'
<1>1. UNCHANGED <<con, m_connections, loop>>
  BY DEF ProcessStep, Take, HandleStop, HandleGetData, HandleStart, network
<1>2. \/ UNCHANGED <<m_actions, b, slot>>
      \/ /\ m_actions # <<>> /\ slot' = Head(m_actions).hdl /\ b' = "slot"
         /\ m_actions' = Tail(m_actions)
  BY DEF ProcessStep, Take, HandleStop, HandleGetData, HandleStart, network
<1>3. \/ UNCHANGED <<client2_data_count, answered>>
      \/ client2_data_count' = 0 /\ answered' = 0
  BY DEF ProcessStep, Take, HandleStop, HandleGetData, HandleStart, flags
<1>4. ActionInv' /\ (slot' \in Clients \/ slot' = slot)
  <2>1. CASE UNCHANGED <<m_actions, b, slot>>
    BY <1>1, <2>1 DEF PrototypeInv, ActionInv
  <2>2. CASE /\ m_actions # <<>> /\ slot' = Head(m_actions).hdl /\ b' = "slot"
             /\ m_actions' = Tail(m_actions)
    <3>1. m_actions \in Seq(ClientActions)
      BY DEF PrototypeInv, ActionInv
    <3>2. /\ Head(m_actions) \in ClientActions
          /\ m_actions' \in Seq(ClientActions)
      BY <2>2, <3>1, HeadTailProperties
    <3> QED BY <2>2, <3>1, <3>2 DEF ActionInv, ClientActions
  <2> QED BY <1>2, <2>1, <2>2
<1>5. PrototypeTypeOK'
  BY <1>1, <1>3, <1>4, CountAssumption DEF PrototypeInv, PrototypeTypeOK
<1>6. KeyInv'
  BY <1>1 DEF PrototypeInv, KeyInv
<1>7. CountInv' /\ LoopShape'
  BY <1>1, <1>3, CountAssumption DEF PrototypeInv, PrototypeTypeOK, CountInv, LoopShape
<1> QED BY <1>4, <1>5, <1>6, <1>7 DEF PrototypeInv

LEMMA LoopKeeps == ASSUME PrototypeInv, LoopStep PROVE PrototypeInv'
<1>1. UNCHANGED <<con, m_connections, m_actions, b, slot>>
  BY DEF LoopStep, LoopTest, LoopPointer, LoopFind, LoopSendImage, LoopQuota, LoopSendString,
     LoopLoad, LoopStore, LoopEnd, LoopReset, Quiet, network
<1>2. LoopShape'
  <2>1. Found \in Ids \cup {None}
    BY DEF Found, PrototypeInv, LoopShape
  <2>2. client2_data_count \in Nat /\ loop \in [pc : LoopPcs, id : Ids \cup {None}, count : Nat]
    BY CountAssumption DEF PrototypeInv, PrototypeTypeOK, LoopShape
  <2>3. \/ \E step \in LoopPcs :
             \/ loop' = [loop EXCEPT !.pc = step]
             \/ loop' = [loop EXCEPT !.id = Found, !.pc = step]
             \/ loop' = [loop EXCEPT !.pc = step, !.count = client2_data_count]
             \/ loop' = [loop EXCEPT !.pc = step, !.count = 0]
        \/ loop' = loop
    BY DEF LoopStep, LoopTest, LoopPointer, LoopFind, LoopSendImage, LoopQuota,
       LoopSendString, LoopLoad, LoopStore, LoopEnd, LoopReset, SendAndGoto, Goto, LoopPcs
  <2>4. ASSUME NEW step \in LoopPcs PROVE
          /\ [loop EXCEPT !.pc = step] \in [pc : LoopPcs, id : Ids \cup {None}, count : Nat]
          /\ [loop EXCEPT !.id = Found, !.pc = step]
               \in [pc : LoopPcs, id : Ids \cup {None}, count : Nat]
          /\ [loop EXCEPT !.pc = step, !.count = client2_data_count]
               \in [pc : LoopPcs, id : Ids \cup {None}, count : Nat]
          /\ [loop EXCEPT !.pc = step, !.count = 0]
               \in [pc : LoopPcs, id : Ids \cup {None}, count : Nat]
    BY <2>1, <2>2
  <2>5. loop' \in [pc : LoopPcs, id : Ids \cup {None}, count : Nat]
    BY <2>2, <2>3, <2>4
  <2> QED BY <1>1, <2>5 DEF PrototypeInv, LoopShape
<1>3. ActionInv'
  <2>1. loop'.pc \in {"find", "sendA", "quota", "sendB"} => slot \in Clients
    BY DEF LoopStep, LoopTest, LoopPointer, LoopFind, LoopSendImage, LoopQuota, LoopSendString,
       LoopLoad, LoopStore, LoopEnd, LoopReset, At, Goto, SendAndGoto, PrototypeInv, ActionInv, LoopShape
  <2> QED BY <1>1, <2>1 DEF PrototypeInv, ActionInv
<1>4. KeyInv'
  BY <1>1 DEF PrototypeInv, KeyInv
<1>5. client2_data_count \in Nat /\ answered \in Nat /\ loop.count \in Nat
      /\ client2_data_count <= max_client2_data_count /\ max_client2_data_count \in Nat
  BY CountAssumption DEF PrototypeInv, PrototypeTypeOK, CountInv
<1>6. ASSUME LoopTest \/ LoopPointer \/ LoopFind \/ LoopSendImage \/ LoopQuota \/ LoopEnd \/ LoopReset
      PROVE  CountInv'
  <2>1. UNCHANGED <<client2_data_count, answered>> /\ loop'.count = loop.count
    BY <1>6 DEF LoopTest, LoopPointer, LoopFind, LoopSendImage, LoopQuota, LoopEnd, LoopReset,
       Goto, SendAndGoto, flags, PrototypeInv, LoopShape
  <2>2. loop.pc \notin {"load", "store"} /\ loop'.pc \notin {"load", "store"}
    BY <1>6 DEF LoopTest, LoopPointer, LoopFind, LoopSendImage, LoopQuota, LoopEnd, LoopReset,
       At, Goto, SendAndGoto, PrototypeInv, LoopShape
  <2>3. loop'.pc = "sendB" => client2_data_count < max_client2_data_count
    BY <1>6 DEF LoopTest, LoopPointer, LoopFind, LoopSendImage, LoopQuota, LoopEnd, LoopReset,
       At, Goto, SendAndGoto, PrototypeInv, LoopShape, CountInv
  <2> QED BY <1>5, <2>1, <2>2, <2>3 DEF PrototypeInv, PrototypeTypeOK, CountInv
<1>7. ASSUME LoopSendString PROVE CountInv'
  <2>1. /\ loop.pc = "sendB" /\ loop'.pc \in {"load", "terminate"} /\ loop'.count = loop.count
        /\ loop'.pc = "terminate" => answered' = answered
        /\ answered' \in {answered, answered + 1} /\ UNCHANGED client2_data_count
    BY <1>7 DEF LoopSendString, At, Goto, SendAndGoto, flags, PrototypeInv, LoopShape
  <2> QED BY <1>5, <2>1 DEF PrototypeInv, PrototypeTypeOK, CountInv
<1>8. ASSUME LoopLoad PROVE CountInv'
  <2>1. /\ loop.pc = "load" /\ loop'.pc = "store" /\ loop'.count = client2_data_count
        /\ UNCHANGED <<client2_data_count, answered>>
    BY <1>8 DEF LoopLoad, At, flags, PrototypeInv, LoopShape
  <2> QED BY <1>5, <2>1 DEF PrototypeInv, PrototypeTypeOK, CountInv
<1>9. ASSUME LoopStore PROVE CountInv'
  <2>1. /\ loop.pc = "store" /\ loop'.pc = "sleep" /\ loop'.count = 0
        /\ client2_data_count' = loop.count + 1 /\ UNCHANGED answered
    BY <1>9 DEF LoopStore, At, PrototypeInv, LoopShape
  <2> QED BY <1>5, <2>1 DEF PrototypeInv, PrototypeTypeOK, CountInv
<1>10. CountInv' /\ client2_data_count' \in 0 .. max_client2_data_count
  <2>1. CountInv'
    BY <1>6, <1>7, <1>8, <1>9 DEF LoopStep
  <2>2. CASE LoopStore
    BY <1>5, <2>1, <2>2 DEF LoopStore, At, PrototypeInv, CountInv
  <2>3. CASE ~LoopStore
    <3>1. UNCHANGED client2_data_count
      BY <2>3 DEF LoopStep, LoopTest, LoopPointer, LoopFind, LoopSendImage, LoopQuota,
         LoopSendString, LoopLoad, LoopEnd, LoopReset, flags
    <3> QED BY <2>1, <3>1 DEF PrototypeInv, PrototypeTypeOK
  <2> QED BY <2>1, <2>2, <2>3
<1>11. PrototypeTypeOK'
  BY <1>1, <1>10 DEF PrototypeInv, PrototypeTypeOK
<1> QED BY <1>2, <1>3, <1>4, <1>10, <1>11 DEF PrototypeInv

LEMMA PrototypeStep == ASSUME PrototypeInv, [PrototypeNext]_prototypeVars PROVE PrototypeInv'
<1>1. CASE UNCHANGED prototypeVars
  BY <1>1 DEF prototypeVars, network, flags, PrototypeInv, PrototypeTypeOK, LoopShape, ActionInv, KeyInv, CountInv
<1>2. CASE PrototypeNext
  BY <1>2, PrototypeCases, ConnectionKeeps, ProcessKeeps, LoopKeeps
<1> QED BY <1>1, <1>2

\* The invariant of the first server, for any clients, quota and commands.
THEOREM PrototypeInvariant == PrototypeSpec => []PrototypeInv
<1>1. PrototypeInv /\ [PrototypeNext]_prototypeVars => PrototypeInv'
  BY PrototypeStep
<1> QED BY <1>1, PrototypeInitInv, PTL DEF PrototypeSpec

\* However the reset of the counter, its increment in two steps and the sends
\* interleave, a get_data is followed by max_client2_data_count strings at most.
THEOREM StringsBounded == PrototypeSpec => []StringsWithinQuota
<1>1. PrototypeInv => StringsWithinQuota
  BY CountAssumption DEF PrototypeInv, PrototypeTypeOK, CountInv, StringsWithinQuota
<1> QED BY <1>1, PrototypeInvariant, PTL

\* An id is found only for a connection that has not closed, though the keys of
\* closed connections stay.
THEOREM IdsOfRegistered == PrototypeSpec => IdOfRegistered
<1>1. PrototypeInv /\ [PrototypeNext]_prototypeVars =>
        [LoopFind /\ loop'.pc # "sleep" => con[slot] \notin {"closing", "gone"}]_prototypeVars
  <2> SUFFICES ASSUME PrototypeInv, LoopFind, loop'.pc # "sleep"
               PROVE con[slot] \notin {"closing", "gone"}
    OBVIOUS
  <2>1. slot \in Clients
    BY DEF LoopFind, At, PrototypeInv, ActionInv
  <2>2. loop'.pc = CASE Found = "client1" /\ streaming_to_client1 -> "sendA"
                     [] Found = "client2" /\ streaming_to_client2 -> "quota"
                     [] OTHER -> "sleep"
    BY DEF LoopFind, PrototypeInv, LoopShape
  <2>3. Found \in {"client1", "client2"}
    BY <2>2
  <2>4. slot \in DOMAIN m_connections /\ m_connections[slot] # NoId
    BY <2>3, NoIdIsNone DEF Found, None
  <2> QED BY <2>1, <2>4 DEF PrototypeInv, KeyInv
<1> QED BY <1>1, PrototypeInvariant, PTL DEF PrototypeSpec, IdOfRegistered

-----------------------------------------------------------------------------
(* The programs of class Camera: what DeInitResources() releases exists, and *)
(* nothing is left, though every call may fail and main() ignores it.       *)

CameraSteps ==
  {"enumerate", "create", "open", "size", "allocData", "allocInfo", "trigger", "start",
   "ready", "frame", "stop", "close", "destroy", "free", "end", "aborted"}

CamerasTypes ==
  /\ CamerasTypeOK
  /\ program \in {"Camera", "Camera2", "CameraLib"} /\ pc \in CameraSteps
  /\ program = "Camera2" => pc \notin {"start", "stop", "close", "destroy"}
  /\ caller # "main" => failed
  /\ handle \in BOOLEAN /\ failed \in BOOLEAN /\ refused \in BOOLEAN /\ lost \in BOOLEAN

\* Both buffers are there, and the mutex.
Filled ==
  g_pcDataBuf = "memory" /\ g_pstImageInfoEx2 = "memory" /\ mutex = "ready"

\* What the device and the buffers are at each step. In Camera2.cpp a start-up that
\* failed goes on, and nothing of this holds.
StepInv ==
  (program # "Camera2" \/ ~failed) =>
    /\ pc = "open" => device = "created"
    /\ pc = "size" => device \in {"created", "open"}
    /\ pc \in {"allocData", "allocInfo", "trigger", "start"} => device = "open"
    /\ pc = "allocInfo" => g_pcDataBuf = "memory"
    /\ pc \in {"trigger", "start", "frame", "close", "destroy", "free"} => Filled
    /\ program = "Camera2" /\ pc = "ready" => Filled
    /\ program # "Camera2" =>
         /\ device = "grabbing" => Filled
         /\ pc = "close" => device = "open"
         /\ pc = "destroy" => device = "created"
         /\ pc = "free" => device = "none"
    /\ pc # "aborted"

\* The program has nothing, before it begins and after it ended.
Nothing ==
  /\ g_pcDataBuf # "memory" /\ g_pstImageInfoEx2 # "memory"
  /\ program # "Camera2" => ~handle /\ device = "none"

\* While nothing failed and the SDK refused nothing, a program has what its step says.
CleanInv ==
  (~failed /\ ~refused) =>
    /\ ~lost
    /\ pc \in {"enumerate", "create"} => Nothing /\ ~handle
    /\ pc \in {"open", "size", "allocData"} =>
         handle /\ g_pcDataBuf # "memory" /\ g_pstImageInfoEx2 # "memory"
    /\ pc = "size" => device = "open"
    /\ pc = "allocInfo" => handle /\ g_pstImageInfoEx2 # "memory"
    /\ pc \in {"trigger", "start"} => handle
    /\ pc \in {"ready", "frame", "stop", "close", "destroy", "free", "end"} => nRet = 1
    /\ pc \in {"ready", "frame", "stop"} /\ program # "Camera2" => device = "grabbing"
    /\ pc = "free" /\ program # "Camera2" => ~handle
    /\ pc = "end" =>
         Nothing /\ g_pcDataBuf = "null" /\ g_pstImageInfoEx2 = "null" /\ mutex = "destroyed"

CamerasInv == CamerasTypes /\ StepInv /\ CleanInv

\* The order of the steps of init().
After(step) ==
  IF step = "enumerate" THEN "create" ELSE IF step = "create" THEN "open"
  ELSE IF step = "open" THEN "size" ELSE IF step = "trigger" /\ program # "Camera2" THEN "start"
  ELSE "ready"

LEMMA StartUpIs ==
  /\ Len(StartUp) = IF program = "Camera2" THEN 8 ELSE 9
  /\ StartUp[1] = "enumerate" /\ StartUp[2] = "create" /\ StartUp[3] = "open"
  /\ StartUp[4] = "size" /\ StartUp[5] = "allocData" /\ StartUp[6] = "allocInfo"
  /\ StartUp[7] = "trigger"
  /\ program = "Camera2" => StartUp[8] = "ready"
  /\ program # "Camera2" => StartUp[8] = "start" /\ StartUp[9] = "ready"
<1>1. CASE program = "Camera2"
  BY <1>1 DEF StartUp
<1>2. CASE program # "Camera2"
  BY <1>2 DEF StartUp
<1> QED BY <1>1, <1>2

LEMMA FollowingIs ==
  ASSUME NEW step \in Called, step = "start" => program # "Camera2"
  PROVE  Following(step) = After(step)
<1>1. \E j \in 1 .. Len(StartUp) : StartUp[j] = step
  BY StartUpIs DEF Called
<1>2. ASSUME NEW j \in 1 .. Len(StartUp), StartUp[j] = step
      PROVE  StartUp[j + 1] = After(step)
  <2>1. j \in 1 .. 9
    BY StartUpIs
  <2>2. CASE program = "Camera2"
    BY <1>2, <2>1, <2>2, StartUpIs DEF After, Called
  <2>3. CASE program # "Camera2"
    BY <1>2, <2>1, <2>3, StartUpIs DEF After, Called
  <2> QED BY <2>2, <2>3
<1> QED BY <1>1, <1>2 DEF Following

LEMMA CamerasInitInv == CamerasInit => CamerasInv
<1> SUFFICES ASSUME CamerasInit PROVE CamerasInv
  OBVIOUS
<1>1. CamerasTypes
  <2>1. CamerasTypeOK
    BY DEF CamerasInit, CamerasTypeOK, Pointers
  <2> QED BY <2>1 DEF CamerasInit, CamerasTypes, CameraSteps
<1>2. StepInv /\ CleanInv
  BY DEF CamerasInit, StepInv, CleanInv, Nothing, Filled, Pointers
<1> QED BY <1>1, <1>2 DEF CamerasInv

LEMMA SucceedsKeeps ==
  ASSUME CamerasInv, Succeeds, UNCHANGED program PROVE CamerasInv'
<1>1. pc \in Called /\ (pc = "start" => program # "Camera2")
  BY DEF Succeeds, CamerasInv, CamerasTypes
<1>2. pc' = After(pc)
  BY <1>1, FollowingIs DEF Succeeds
<1>3. CamerasTypes'
  BY <1>1, <1>2 DEF Succeeds, After, Called, CameraSteps, buffers, CamerasInv, CamerasTypes, CamerasTypeOK
<1>4. StepInv'
  BY <1>1, <1>2 DEF Succeeds, After, Called, buffers, CamerasInv, CamerasTypes, StepInv, Filled
<1>5. CleanInv'
  BY <1>1, <1>2 DEF Succeeds, After, Called, buffers, CamerasInv, CamerasTypes, StepInv, CleanInv, Filled, Nothing
<1> QED BY <1>3, <1>4, <1>5 DEF CamerasInv

LEMMA FailsKeeps ==
  ASSUME CamerasInv, Fails, UNCHANGED program PROVE CamerasInv'
<1>1. pc \in Called /\ (pc = "start" => program # "Camera2")
  BY DEF Fails, CamerasInv, CamerasTypes
<1>2. pc' = After(pc) \/ (pc' \in {"size", "ready"} /\ (pc' = "size" => pc = "open"))
  BY <1>1, FollowingIs DEF Fails, AfterFailure, AfterFailure_Camera, AfterFailure_Camera2, AfterFailure_CameraLib
<1>3. nRet' \in {nRet, 0, 1} /\ failed' /\ failed' = TRUE /\ UNCHANGED <<caller, sdk, buffers, refused, lost>>
  BY DEF Fails, AfterFailure, AfterFailure_Camera, AfterFailure_Camera2, AfterFailure_CameraLib
<1>4. program # "Camera2" => pc' \in {"size", "ready"} /\ (pc' = "size" => pc = "open")
  BY DEF Fails, AfterFailure, AfterFailure_Camera, AfterFailure_Camera2, AfterFailure_CameraLib
<1>5. CamerasTypes'
  BY <1>1, <1>2, <1>3 DEF After, Called, CameraSteps, sdk, buffers, CamerasInv, CamerasTypes, CamerasTypeOK
<1>6. StepInv'
  BY <1>1, <1>3, <1>4 DEF sdk, buffers, CamerasInv, CamerasTypes, StepInv, Filled
<1>7. CleanInv'
  BY <1>3 DEF CleanInv
<1> QED BY <1>5, <1>6, <1>7 DEF CamerasInv

LEMMA InitResourceKeeps ==
  ASSUME CamerasInv, InitResource, UNCHANGED program PROVE CamerasInv'
<1>1. InitResource_Camera /\ UNCHANGED <<caller, nRet, sdk, failed, refused>>
  BY DEF InitResource, InitResource_Camera2, InitResource_CameraLib
<1>2. CamerasTypes'
  BY <1>1 DEF InitResource_Camera, CameraSteps, sdk, buffers, CamerasInv, CamerasTypes, CamerasTypeOK
<1>3. StepInv'
  BY <1>1 DEF InitResource_Camera, sdk, buffers, CamerasInv, CamerasTypes, StepInv, Filled
<1>4. CleanInv'
  BY <1>1 DEF InitResource_Camera, sdk, buffers, CamerasInv, CamerasTypes, StepInv, CleanInv, Filled, Nothing
<1> QED BY <1>2, <1>3, <1>4 DEF CamerasInv

LEMMA InitResourceThrowsKeeps ==
  ASSUME CamerasInv, InitResourceThrows, UNCHANGED program PROVE CamerasInv'
<1>1. CamerasTypes'
  BY DEF InitResourceThrows, CameraSteps, sdk, Pointers, CamerasInv, CamerasTypes, CamerasTypeOK
<1>2. StepInv'
  BY DEF InitResourceThrows, sdk, CamerasInv, CamerasTypes, StepInv, Filled
<1>3. CleanInv'
  BY DEF InitResourceThrows, CleanInv
<1> QED BY <1>1, <1>2, <1>3 DEF CamerasInv

\* A failure is behind a call of DeInitResources() by InitResource().
LEMMA ReturnGoes ==
  ASSUME CamerasInv, Return
  PROVE  /\ caller' = "main" /\ nRet' \in {nRet, 0}
         /\ \/ pc' \in {"ready", "trigger"} /\ failed
               /\ (pc' = "trigger" <=> program = "Camera2")
               /\ (pc' = "ready" => nRet' = 0)
            \/ pc' = "end" /\ UNCHANGED nRet
BY DEF Return, CamerasInv, CamerasTypes, CamerasTypeOK

LEMMA ReleasedKeeps ==
  ASSUME CamerasInv, Released_Camera, program # "Camera2", UNCHANGED program PROVE CamerasInv'
<1>1. \/ pc = "stop" /\ device = "grabbing" /\ device' = "open" /\ pc' = "close" /\ handle'
      \/ pc = "close" /\ device = "open" /\ device' = "created" /\ pc' = "destroy" /\ handle'
      \/ pc = "destroy" /\ device = "created" /\ device' = "none" /\ pc' = "free" /\ ~handle'
  <2>1. pc \in {"stop", "close", "destroy"}
    BY DEF Released_Camera, ReleaseNeeds
  <2>2. CASE pc = "stop"
    BY <2>2 DEF Released_Camera, ReleaseNeeds, ReleaseLeaves, ReleaseNext
  <2>3. CASE pc = "close"
    BY <2>3 DEF Released_Camera, ReleaseNeeds, ReleaseLeaves, ReleaseNext
  <2>4. CASE pc = "destroy"
    BY <2>4 DEF Released_Camera, ReleaseNeeds, ReleaseLeaves, ReleaseNext
  <2> QED BY <2>1, <2>2, <2>3, <2>4
<1>2. handle' \in BOOLEAN /\ UNCHANGED <<caller, nRet, buffers, history>>
  BY DEF Released_Camera
<1>3. CamerasTypes'
  BY <1>1, <1>2 DEF CameraSteps, buffers, history, CamerasInv, CamerasTypes, CamerasTypeOK
<1>4. StepInv'
  BY <1>1, <1>2 DEF buffers, history, CamerasInv, CamerasTypes, StepInv, Filled
<1>5. CleanInv'
  BY <1>1, <1>2 DEF buffers, history, CamerasInv, CamerasTypes, StepInv, CleanInv, Filled, Nothing
<1> QED BY <1>3, <1>4, <1>5 DEF CamerasInv

LEMMA RefusedKeeps ==
  ASSUME CamerasInv, Refused_Camera, program # "Camera2", UNCHANGED program PROVE CamerasInv'
<1>1. /\ pc \in {"stop", "close", "destroy"} /\ refused' \in BOOLEAN
      /\ refused' = (refused \/ device = ReleaseNeeds[pc])
      /\ UNCHANGED <<sdk, buffers, failed, lost>>
  BY DEF Refused_Camera, ReleaseNeeds, CamerasInv, CamerasTypes
<1>2. /\ caller' = "main" /\ nRet' \in {nRet, 0} /\ pc' \in {"ready", "end"}
  BY ReturnGoes DEF Refused_Camera
<1>3. CamerasTypes'
  BY <1>1, <1>2 DEF CameraSteps, sdk, buffers, CamerasInv, CamerasTypes, CamerasTypeOK
<1>4. StepInv'
  BY <1>1, <1>2 DEF sdk, buffers, CamerasInv, CamerasTypes, StepInv, Filled
<1>5. ~failed => refused'
  <2>1. ~failed /\ ~refused => device = ReleaseNeeds[pc]
    BY <1>1 DEF ReleaseNeeds, CamerasInv, CamerasTypes, StepInv, CleanInv
  <2> QED BY <1>1, <2>1
<1>6. CleanInv'
  BY <1>1, <1>5 DEF CamerasInv, CamerasTypes, CleanInv
<1> QED BY <1>3, <1>4, <1>6 DEF CamerasInv

LEMMA FreeKeeps ==
  ASSUME CamerasInv, Free, UNCHANGED program PROVE CamerasInv'
<1>1. pc = "free" /\ mutex' = "destroyed" /\ UNCHANGED <<sdk, history>>
  BY DEF Free
<1>2. CASE "garbage" \in {g_pcDataBuf, g_pstImageInfoEx2}
  <2>1. failed /\ program = "Camera2" /\ pc' = "aborted"
    BY <1>1, <1>2 DEF Free, CamerasInv, CamerasTypes, StepInv, Filled
  <2>2. UNCHANGED <<caller, nRet, g_pcDataBuf, g_pstImageInfoEx2>>
    BY <1>2 DEF Free
  <2>3. CamerasTypes'
    BY <1>1, <2>1, <2>2 DEF CameraSteps, sdk, history, CamerasInv, CamerasTypes, CamerasTypeOK
  <2>4. StepInv' /\ CleanInv'
    BY <1>1, <2>1 DEF history, StepInv, CleanInv
  <2> QED BY <2>3, <2>4 DEF CamerasInv
<1>3. CASE "garbage" \notin {g_pcDataBuf, g_pstImageInfoEx2}
  <2>1. g_pcDataBuf' = "null" /\ g_pstImageInfoEx2' = "null" /\ Return
    BY <1>3 DEF Free
  <2>2. /\ caller' = "main" /\ nRet' \in {nRet, 0}
        /\ \/ pc' \in {"ready", "trigger"} /\ failed
              /\ (pc' = "trigger" <=> program = "Camera2")
              /\ (pc' = "ready" => nRet' = 0)
           \/ pc' = "end" /\ UNCHANGED nRet
    BY <2>1, ReturnGoes
  <2>3. CamerasTypes'
    BY <1>1, <2>1, <2>2 DEF CameraSteps, Pointers, sdk, history, CamerasInv, CamerasTypes, CamerasTypeOK
  <2>4. StepInv'
    BY <1>1, <2>1, <2>2 DEF sdk, history, CamerasInv, CamerasTypes, StepInv, Filled
  <2>5. CleanInv'
    BY <1>1, <2>1, <2>2 DEF sdk, history, CamerasInv, CamerasTypes, StepInv, CleanInv, Filled, Nothing
  <2> QED BY <2>3, <2>4, <2>5 DEF CamerasInv
<1> QED BY <1>2, <1>3

LEMMA DeInitResourcesKeeps ==
  ASSUME CamerasInv, DeInitResources, UNCHANGED program PROVE CamerasInv'
BY ReleasedKeeps, RefusedKeeps, FreeKeeps DEF DeInitResources, DeInitResources_Camera2,
   Released_CameraLib, Refused_CameraLib

LEMMA GetImageKeeps ==
  ASSUME CamerasInv, getImageStarts_Camera2 \/ getImage, UNCHANGED program PROVE CamerasInv'
<1>1. /\ pc = "ready" /\ UNCHANGED <<caller, nRet, handle, buffers, history>>
      /\ \/ program = "Camera2" /\ device = "open" /\ device' = "grabbing" /\ pc' = pc
         \/ device = "grabbing" /\ device' = device /\ pc' = "frame"
  BY DEF getImageStarts_Camera2, getImage, getImage_Camera, getImage_Camera2, getImage_CameraLib, sdk
<1>2. CamerasTypes'
  BY <1>1 DEF CameraSteps, buffers, history, CamerasInv, CamerasTypes, CamerasTypeOK
<1>3. StepInv'
  BY <1>1 DEF buffers, history, CamerasInv, CamerasTypes, StepInv, Filled
<1>4. CleanInv'
  BY <1>1 DEF buffers, history, CamerasInv, CamerasTypes, StepInv, CleanInv, Filled, Nothing
<1> QED BY <1>2, <1>3, <1>4 DEF CamerasInv

LEMMA MainKeeps ==
  ASSUME CamerasInv, main, UNCHANGED program PROVE CamerasInv'
<1>1. CASE \/ program # "Camera2" /\ main_Camera
           \/ program = "Camera2" /\ main_Camera2
           \/ pc = "frame" /\ pc' = "ready" /\ UNCHANGED <<caller, nRet, sdk, buffers, written, history>>
              /\ program # "Camera2"
  <2>1. /\ pc \in {"ready", "frame"} /\ pc' \in {"stop", "free", "ready"} /\ caller' \in {"main", caller}
        /\ (pc' = "ready" => pc = "frame") /\ (pc' = "free" <=> program = "Camera2")
        /\ UNCHANGED <<nRet, sdk, buffers, history>>
    BY <1>1 DEF main_Camera, main_Camera2, CamerasInv, CamerasTypes
  <2>2. CamerasTypes'
    BY <2>1 DEF CameraSteps, sdk, buffers, history, CamerasInv, CamerasTypes, CamerasTypeOK
  <2>3. StepInv'
    BY <2>1 DEF sdk, buffers, history, CamerasInv, CamerasTypes, StepInv, Filled
  <2>4. CleanInv'
    BY <2>1 DEF sdk, buffers, history, CamerasInv, CamerasTypes, StepInv, CleanInv, Filled, Nothing
  <2> QED BY <2>2, <2>3, <2>4 DEF CamerasInv
<1>2. CASE /\ program = "CameraLib" /\ pc = "end" /\ pc' = "enumerate" /\ nRet' = 2
           /\ UNCHANGED <<caller, sdk, buffers, failed, refused, lost>>
  <2>1. CamerasTypes'
    BY <1>2 DEF CameraSteps, sdk, buffers, CamerasInv, CamerasTypes, CamerasTypeOK
  <2>2. StepInv'
    BY <1>2 DEF sdk, buffers, CamerasInv, CamerasTypes, StepInv, Filled
  <2>3. CleanInv'
    BY <1>2 DEF sdk, buffers, CamerasInv, CamerasTypes, CleanInv, Nothing
  <2> QED BY <2>1, <2>2, <2>3 DEF CamerasInv
<1> QED BY <1>1, <1>2 DEF main, user_CameraLib

LEMMA CamerasStep == ASSUME CamerasInv, [CamerasNext]_camerasVars PROVE CamerasInv'
<1>1. CASE UNCHANGED camerasVars
  <2>1. UNCHANGED <<program, pc, caller, nRet, handle, device, g_pcDataBuf, g_pstImageInfoEx2,
                    mutex, failed, refused, lost>>
    BY <1>1 DEF camerasVars, sdk, buffers, history
  <2> QED BY <2>1 DEF CamerasInv, CamerasTypes, CamerasTypeOK, StepInv, CleanInv, Filled, Nothing
<1>2. CASE CamerasNext
  BY <1>2, SucceedsKeeps, FailsKeeps, InitResourceKeeps, InitResourceThrowsKeeps,
     DeInitResourcesKeeps, GetImageKeeps, MainKeeps DEF CamerasNext
<1> QED BY <1>1, <1>2

\* The invariant of the programs of class Camera: whichever calls fail, a step finds
\* the device and the buffers it works on; and while none failed, what it has.
THEOREM CamerasInvariant == CamerasSpec => []CamerasInv
<1>1. CamerasInv /\ [CamerasNext]_camerasVars => CamerasInv'
  BY CamerasStep
<1> QED BY <1>1, CamerasInitInv, PTL DEF CamerasSpec

\* A frame is copied to buffers that exist, and no pointer is freed that was never
\* assigned, though main() ignores the result of init(). (Camera2.cpp after a failure
\* is the exception.)
THEOREM UsedSafely == CamerasSpec => []SafeUse
<1>1. CamerasInv => SafeUse
  BY DEF CamerasInv, CamerasTypes, StepInv, SafeUse, Filled
<1> QED BY <1>1, CamerasInvariant, PTL

\* A program in which nothing failed has released all that it had when it ends.
THEOREM AllReleased == CamerasSpec => []ReleasedAtExit
<1>1. CamerasInv => ReleasedAtExit
  BY DEF CamerasInv, CamerasTypes, CleanInv, Nothing, ReleasedAtExit
<1> QED BY <1>1, CamerasInvariant, PTL

\* Nothing is overwritten that was not released, unless a call failed before, however
\* often a user of the library begins again.
THEOREM LostAfterFailure == CamerasSpec => []LostOnlyAfterFailure
<1>1. CamerasInv => LostOnlyAfterFailure
  BY DEF CamerasInv, CamerasTypes, CleanInv, LostOnlyAfterFailure
<1> QED BY <1>1, CamerasInvariant, PTL

-----------------------------------------------------------------------------
(* What is checked of the first server and of the programs of class Camera. *)

\* The first server sends no more strings than were asked for, and looks up
\* registered connections only; the camera programs use what exists and release
\* what they got, unless the SDK failed.
CamerasAndStrings ==
  /\ [](StringsWithinQuota /\ SafeUse /\ ReleasedAtExit /\ LostOnlyAfterFailure)
  /\ IdOfRegistered

\* All of it, for any clients and quota, and however often the library is begun with.
THEOREM CamerasAndStringsHold == PrototypeSpec /\ CamerasSpec => CamerasAndStrings
BY StringsBounded, IdsOfRegistered, UsedSafely, AllReleased, LostAfterFailure, PTL
   DEF CamerasAndStrings
=============================================================================
