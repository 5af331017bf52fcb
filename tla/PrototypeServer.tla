-------------------------- MODULE PrototypeServer --------------------------
(***************************************************************************)
(* The first server, "broadcastTest copy.cpp": it has no camera, knows its *)
(* clients by the Client-ID header of their request, streams to "client1", *)
(* and answers get_data of "client2" with max_client2_data_count strings.  *)
(*                                                                         *)
(* looping() reads the handle in the slot of the latest action once to     *)
(* test it, once to find its id and once to send, without a lock, while    *)
(* process_messages() may write the next action there; the flags and the   *)
(* counter are shared in the same way. A step is one of these accesses.    *)
(***************************************************************************)
EXTENDS Integers, Sequences

CONSTANTS
  Clients,
  ClientID,      \* the header of each client
  max_client2_data_count,
  MaxCommands    \* bound: messages received

ASSUME CountAssumption ==
  max_client2_data_count \in Nat /\ MaxCommands \in Nat

Commands == {"stop_streaming", "get_data", "start_streaming"}
None == "none"
NoId == ""

VARIABLES
  con,            \* of each client: "new", "open", "lost", "closing", "gone"
  m_connections,  \* handle -> id, over the handles that are keys
  m_actions,
  b,              \* "garbage", "null", or "slot": the place of the action a
  slot,           \* the handle that lies there
  a,              \* the command being handled, and how far: [msg, step]
  stop_streaming, streaming_to_client1, streaming_to_client2,
  client2_data_count,
  loop,           \* looping(): [pc, id, count]
  received,       \* number of messages received
  answered        \* history: strings sent since the latest get_data

flags == <<stop_streaming, streaming_to_client1, streaming_to_client2,
           client2_data_count>>
network == <<con, m_connections, m_actions, received>>
prototypeVars == <<network, b, slot, a, flags, loop, answered>>

Idle == [msg |-> None, step |-> 0]

\* The object is on the stack of main(): b holds anything.
PrototypeInit ==
  /\ con = [c \in Clients |-> "new"]
  /\ m_connections = [c \in {} |-> NoId]
  /\ m_actions = <<>>
  /\ b \in {"garbage", "null"} /\ slot = None /\ a = Idle
  /\ stop_streaming = FALSE
  /\ streaming_to_client1 = TRUE /\ streaming_to_client2 = FALSE
  /\ client2_data_count = 0
  /\ loop = [pc |-> "sleep", id |-> NoId, count |-> 0]
  /\ received = 0 /\ answered = 0

------------------------------------------------------------------------------
(* The callbacks, under m_action_lock *)

With(c, id) ==
  [k \in DOMAIN m_connections \cup {c} |-> IF k = c THEN id ELSE m_connections[k]]

on_open(c) ==
  /\ con[c] = "new" /\ con' = [con EXCEPT ![c] = "open"]
  /\ m_connections' = With(c, ClientID[c])
  /\ UNCHANGED <<m_actions, received, b, slot, a, flags, loop, answered>>

\* The peer is lost: from here on send() refuses.
Lose(c) ==
  /\ con[c] = "open" /\ con' = [con EXCEPT ![c] = "lost"]
  /\ UNCHANGED <<m_connections, m_actions, received, b, slot, a, flags, loop, answered>>

\* The key is erased, and inserted again with an empty id by the log line.
on_close(c) ==
  /\ con[c] = "lost" /\ con' = [con EXCEPT ![c] = "closing"]
  /\ m_connections' = With(c, NoId)
  /\ UNCHANGED <<m_actions, received, b, slot, a, flags, loop, answered>>

\* The last shared_ptr goes: from here on the handle is expired.
Release(c) ==
  /\ con[c] = "closing" /\ con' = [con EXCEPT ![c] = "gone"]
  /\ UNCHANGED <<m_connections, m_actions, received, b, slot, a, flags, loop, answered>>

on_message(c) ==
  /\ con[c] = "open" /\ received < MaxCommands /\ received' = received + 1
  /\ \E msg \in Commands : m_actions' = Append(m_actions, [hdl |-> c, msg |-> msg])
  /\ UNCHANGED <<con, m_connections, b, slot, a, flags, loop, answered>>

------------------------------------------------------------------------------
(* process_messages() *)

\* The action is copied to the slot, where its handle stays when it is destroyed.
Take ==
  /\ a = Idle /\ m_actions # <<>>
  /\ slot' = Head(m_actions).hdl /\ b' = "slot"
  /\ a' = [msg |-> Head(m_actions).msg, step |-> 1]
  /\ m_actions' = Tail(m_actions)
  /\ UNCHANGED <<con, m_connections, received, flags, loop, answered>>

HandleStop ==
  /\ a.msg = "stop_streaming"
  /\ stop_streaming' = TRUE /\ a' = Idle
  /\ UNCHANGED <<network, b, slot, streaming_to_client1, streaming_to_client2,
                 client2_data_count, loop, answered>>

\* The three assignments of the branch, one by one.
HandleGetData ==
  /\ a.msg = "get_data"
  /\ \/ a.step = 1 /\ streaming_to_client1' = FALSE
        /\ a' = [a EXCEPT !.step = 2]
        /\ UNCHANGED <<streaming_to_client2, client2_data_count, answered>>
     \/ a.step = 2 /\ streaming_to_client2' = TRUE
        /\ a' = [a EXCEPT !.step = 3]
        /\ UNCHANGED <<streaming_to_client1, client2_data_count, answered>>
     \/ a.step = 3 /\ client2_data_count' = 0 /\ a' = Idle /\ answered' = 0
        /\ UNCHANGED <<streaming_to_client1, streaming_to_client2>>
  /\ UNCHANGED <<network, b, slot, stop_streaming, loop>>

HandleStart ==
  /\ a.msg = "start_streaming"
  /\ \/ a.step = 1 /\ stop_streaming' = FALSE
        /\ a' = [a EXCEPT !.step = 2] /\ UNCHANGED streaming_to_client1
     \/ a.step = 2 /\ streaming_to_client1' = TRUE
        /\ a' = Idle /\ UNCHANGED stop_streaming
  /\ UNCHANGED <<network, b, slot, streaming_to_client2, client2_data_count, loop, answered>>

------------------------------------------------------------------------------
(* looping() *)

At(pc) == loop.pc = pc
Goto(pc) == loop' = [loop EXCEPT !.pc = pc]
Quiet == UNCHANGED <<network, b, slot, a>>

\* while (1): the test of stop_streaming.
LoopTest ==
  /\ At("sleep") /\ (stop_streaming \/ Goto("pointer"))
  /\ stop_streaming => UNCHANGED loop
  /\ Quiet /\ UNCHANGED <<flags, answered>>

\* b != NULL && !b->hdl.expired(), with a b that may never have been assigned.
LoopPointer ==
  /\ At("pointer")
  /\ Goto(CASE b = "garbage" -> "fault"
            [] b = "null" -> "reset1"
            [] OTHER -> IF con[slot] = "gone" THEN "reset1" ELSE "find")
  /\ Quiet /\ UNCHANGED <<flags, answered>>

Found == IF slot \in DOMAIN m_connections THEN m_connections[slot] ELSE None

LoopFind ==
  /\ At("find")
  /\ loop' = [loop EXCEPT !.id = Found,
                !.pc = CASE Found = "client1" /\ streaming_to_client1 -> "sendA"
                         [] Found = "client2" /\ streaming_to_client2 -> "quota"
                         [] OTHER -> "sleep"]
  /\ Quiet /\ UNCHANGED <<flags, answered>>

\* m_server.send() throws for an expired handle and outside the open state, and
\* no handler of the thread catches it.
SendAndGoto(pc) ==
  Goto(IF con[slot] = "open" THEN pc ELSE "terminate")

LoopSendImage ==
  /\ At("sendA") /\ SendAndGoto("sleep")
  /\ Quiet /\ UNCHANGED <<flags, answered>>

\* Faulty variant: the test lets one more through.
LoopQuotaOneMore ==
  /\ At("quota")
  /\ Goto(IF client2_data_count <= max_client2_data_count THEN "sendB" ELSE "end1")
  /\ Quiet /\ UNCHANGED <<flags, answered>>

LoopQuota ==
  /\ At("quota")
  /\ Goto(IF client2_data_count < max_client2_data_count THEN "sendB" ELSE "end1")
  /\ Quiet /\ UNCHANGED <<flags, answered>>

LoopSendString ==
  /\ At("sendB") /\ SendAndGoto("load")
  /\ answered' = IF con[slot] = "open" THEN answered + 1 ELSE answered
  /\ Quiet /\ UNCHANGED flags

\* client2_data_count++ reads and writes.
LoopLoad ==
  /\ At("load") /\ loop' = [loop EXCEPT !.pc = "store", !.count = client2_data_count]
  /\ Quiet /\ UNCHANGED <<flags, answered>>

LoopStore ==
  /\ At("store") /\ client2_data_count' = loop.count + 1
  /\ loop' = [loop EXCEPT !.pc = "sleep", !.count = 0]
  /\ Quiet
  /\ UNCHANGED <<stop_streaming, streaming_to_client1, streaming_to_client2, answered>>

\* The end of an exchange: back to images.
LoopEnd ==
  /\ \/ At("end1") /\ streaming_to_client2' = FALSE /\ Goto("end2")
        /\ UNCHANGED streaming_to_client1
     \/ At("end2") /\ streaming_to_client1' = TRUE /\ Goto("sleep")
        /\ UNCHANGED streaming_to_client2
  /\ Quiet /\ UNCHANGED <<stop_streaming, client2_data_count, answered>>

\* Nobody to serve: the three flags are reset, one by one.
LoopReset ==
  /\ \/ At("reset1") /\ streaming_to_client1' = FALSE /\ Goto("reset2")
        /\ UNCHANGED <<streaming_to_client2, stop_streaming>>
     \/ At("reset2") /\ streaming_to_client2' = FALSE /\ Goto("reset3")
        /\ UNCHANGED <<streaming_to_client1, stop_streaming>>
     \/ At("reset3") /\ stop_streaming' = FALSE /\ Goto("sleep")
        /\ UNCHANGED <<streaming_to_client1, streaming_to_client2>>
  /\ Quiet /\ UNCHANGED <<client2_data_count, answered>>

Crashed == loop.pc \in {"fault", "terminate"}

PrototypeNext ==
  /\ ~Crashed
  /\ \/ \E c \in Clients : on_open(c) \/ Lose(c) \/ on_close(c) \/ Release(c) \/ on_message(c)
     \/ Take \/ HandleStop \/ HandleGetData \/ HandleStart
     \/ LoopTest \/ LoopPointer \/ LoopFind \/ LoopSendImage \/ LoopQuota
     \/ LoopSendString \/ LoopLoad \/ LoopStore \/ LoopEnd \/ LoopReset

PrototypeSpec == PrototypeInit /\ [][PrototypeNext]_prototypeVars
------------------------------------------------------------------------------
PrototypeTypeOK ==
  /\ con \in [Clients -> {"new", "open", "lost", "closing", "gone"}]
  /\ slot \in Clients \cup {None}
  /\ client2_data_count \in 0 .. max_client2_data_count

\* However the reset of the counter, its increment and the sends interleave, a
\* get_data is followed by at most max_client2_data_count strings.
StringsWithinQuota == answered <= max_client2_data_count

\* An id is found only for a handle whose connection was still registered when
\* looping() looked: what is sent to a connection that is gone was meant for one
\* that closed after the look-up, although closed connections stay keys.
IdOfRegistered ==
  [][LoopFind /\ loop'.pc # "sleep" => con[slot] \notin {"closing", "gone"}]_prototypeVars

\* What the comment at line 25 says: "on_close remove connection_hdl from
\* channel".
ClosedLeaveChannel ==
  \A c \in Clients : con[c] \in {"closing", "gone"} => c \notin DOMAIN m_connections
==============================================================================
