--------------------------- MODULE BroadcastServer ---------------------------
(***************************************************************************)
(* The streaming server of broadcastTest.cpp: one camera, any number of    *)
(* WebSocket clients, and three threads that share the members of          *)
(* broadcast_server.                                                       *)
(*                                                                         *)
(*   io    the main thread, inside m_server.run(): it runs the callbacks   *)
(*         on_open, on_close and on_message, one at a time;                *)
(*   proc  process_messages(): takes actions off m_actions, publishes the  *)
(*         address of its local copy in b, and sets the mode flags;        *)
(*   loop  looping(): every 100 ms sends a frame, or a string, to the      *)
(*         connection whose handle it finds through b.                     *)
(*                                                                         *)
(* Only io and proc take m_action_lock.  loop reads m_connections, b, *b   *)
(* and the flags without it, so every one of its accesses is a step of its *)
(* own.  The Makefile builds this program without optimisation: accesses   *)
(* happen in program order, and a weak_ptr is copied as two words.         *)
(***************************************************************************)
EXTENDS Naturals, Sequences, FiniteSets, TLC

CONSTANTS
  Conns,         \* the connections that are ever accepted
  Addrs,         \* addresses the allocator can give to a connection object
  NoAddr,        \* contents of a handle that was never written
  MaxCommands,   \* bound: commands the clients send altogether
  MaxData        \* max_client2_data_count

ASSUME ServerAssumption ==
  /\ NoAddr \notin Addrs
  /\ MaxCommands \in Nat
  /\ MaxData \in Nat \ {0}

\* The payloads process_messages tells apart; "other" is any other text.
Commands == {"stop_streaming", "start_stream", "get_data", "other"}

Modes == {"image", "text"}

VARIABLES
  \* Members of broadcast_server.
  m_connections,       \* keys of the map: control-block addresses
  m_actions,           \* the queue of actions
  m_action_lock,       \* holder of the mutex: "io", "proc" or "none"
  b,                   \* "null" or "wild" (uninitialised), or "slot": &a
  stop_streaming,
  get_data,
  client2_data_count,
  \* Connections, as websocketpp and the allocator keep them.
  con,                 \* "none", "open", "closed" (send fails), "gone" (freed)
  addr,                \* address of the connection object
  \* The three threads.
  ioPc, job,           \* callback that io is running
  procPc, a, slot,     \* a: local action; slot: the two words of a.hdl
  notified,            \* proc, if waiting, has been woken
  loopPc, hdl, what,   \* handle copied for send, and the kind of payload
  aborted,             \* std::terminate or a fault has ended the process
  \* History, read by no step of the program.
  accepted,            \* commands pushed by on_message
  served,              \* commands handled to the end by process_messages
  framesAfterStop,     \* frames sent since stop_streaming last became true
  asked, answered,     \* get_data raised by a command, strings sent
  commanders,          \* connections that sent a command
  recipients           \* connections that were sent a payload

members == <<m_connections, m_actions, m_action_lock, b,
             stop_streaming, get_data, client2_data_count>>
conVars == <<con, addr>>
ioVars == <<ioPc, job>>
procVars == <<procPc, a, slot, notified>>
loopVars == <<loopPc, hdl, what>>
history == <<accepted, served, framesAfterStop, asked, answered,
             commanders, recipients>>
vars == <<members, conVars, ioVars, procVars, loopVars, aborted, history>>

Words == [ptr : Addrs \cup {NoAddr}, cb : Addrs \cup {NoAddr}]
Actions == [hdl : Conns, msg : Commands, n : Nat]
Jobs == [cb : {"on_open", "on_close", "on_message"}, c : Conns, msg : Commands]

IoPcs == {"boot", "idle", "lock", "critical", "notify"}
ProcPcs == {"lock", "test", "waiting", "copyPtr", "copyCb",
            "handle", "raise", "done"}
LoopPcs == {"test", "find", "stop", "get", "getAgain", "grab", "quota",
            "copyPtr", "copyCb", "send", "count",
            "reset1", "reset2", "reset3", "sleep"}

NoHandle == [ptr |-> NoAddr, cb |-> NoAddr]
NoJob == [cb |-> "none"]
NoAction == [n |-> 0]

------------------------------------------------------------------------------
(* Memory: an object and its control block are one make_shared allocation. *)

\* The connection object at address x still exists (use count above zero).
Alive(c, x) == addr[c] = x /\ con[c] \in {"open", "closed"}
Occupied(x) == \E c \in Conns : Alive(c, x)

\* The thread proc has its local action in scope, which holds a weak count.
ActionInScope == procPc \in {"handle", "raise", "done"}

\* Addresses whose block a weak count keeps allocated.
WeaklyHeld(x) ==
  \/ x \in m_connections
  \/ \E i \in DOMAIN m_actions : addr[m_actions[i].hdl] = x
  \/ ActionInScope /\ addr[a.hdl] = x
  \/ loopPc = "send" /\ hdl.cb = x

Free(x) == ~Occupied(x) /\ ~WeaklyHeld(x)

------------------------------------------------------------------------------
(* main() and the io thread *)

Init ==
  /\ m_connections = {}
  /\ m_actions = <<>>
  /\ m_action_lock = "none"
  /\ b \in {"null", "wild"}
  /\ stop_streaming = FALSE
  /\ get_data = FALSE
  /\ client2_data_count = 0
  /\ con = [c \in Conns |-> "none"]
  /\ addr = [c \in Conns |-> NoAddr]
  /\ ioPc = "boot"
  /\ job = NoJob
  /\ procPc = "lock"
  /\ a = NoAction
  /\ slot = NoHandle
  /\ notified = FALSE
  /\ loopPc = "test"
  /\ hdl = NoHandle
  /\ what = "image"
  /\ aborted = FALSE
  /\ accepted = 0
  /\ served = 0
  /\ framesAfterStop = 0
  /\ asked = 0
  /\ answered = 0
  /\ commanders = {}
  /\ recipients = {}

\* run(): listen() and start_accept().  If listen throws, unwinding main
\* destroys two joinable threads, which terminates the process.
Run ==
  /\ ~aborted /\ ioPc = "boot"
  /\ \/ ioPc' = "idle" /\ UNCHANGED aborted
     \/ aborted' = TRUE /\ UNCHANGED ioPc
  /\ UNCHANGED <<members, conVars, job, procVars, loopVars, history>>

\* websocketpp completes the handshake of a new connection, then calls on_open.
Connect(c) ==
  /\ ~aborted /\ ioPc = "idle" /\ con[c] = "none"
  /\ \E x \in {y \in Addrs : Free(y)} :
       /\ con' = [con EXCEPT ![c] = "open"]
       /\ addr' = [addr EXCEPT ![c] = x]
  /\ ioPc' = "lock"
  /\ job' = [cb |-> "on_open", c |-> c, msg |-> "other"]
  /\ UNCHANGED <<members, procVars, loopVars, aborted, history>>

\* websocketpp delivers a text message of an open connection to on_message.
Receive(c, m) ==
  /\ ~aborted /\ ioPc = "idle" /\ con[c] = "open"
  /\ accepted < MaxCommands
  /\ ioPc' = "lock"
  /\ job' = [cb |-> "on_message", c |-> c, msg |-> m]
  /\ commanders' = commanders \cup {c}
  /\ UNCHANGED <<members, conVars, procVars, loopVars, aborted, accepted,
                 served, framesAfterStop, asked, answered, recipients>>

\* The peer closes, or the transport fails: from here on send() is refused,
\* though on_close has not been called yet.
Disconnect(c) ==
  /\ ~aborted /\ ioPc = "idle" /\ con[c] = "open"
  /\ con' = [con EXCEPT ![c] = "closed"]
  /\ UNCHANGED <<members, addr, ioVars, procVars, loopVars, aborted, history>>

\* The shutdown completes and websocketpp calls on_close.
Terminated(c) ==
  /\ ~aborted /\ ioPc = "idle" /\ con[c] = "closed"
  /\ ioPc' = "lock"
  /\ job' = [cb |-> "on_close", c |-> c, msg |-> "other"]
  /\ UNCHANGED <<members, conVars, procVars, loopVars, aborted, history>>

\* lock_guard of the callback.
IoLock ==
  /\ ~aborted /\ ioPc = "lock" /\ m_action_lock = "none"
  /\ m_action_lock' = "io"
  /\ ioPc' = "critical"
  /\ UNCHANGED <<m_connections, m_actions, b, stop_streaming, get_data,
                 client2_data_count, conVars, job, procVars, loopVars,
                 aborted, history>>

\* on_open: m_connections[hdl] = client_id.
on_open(c) == m_connections' = m_connections \cup {addr[c]}

\* Faulty variant: on_close logs before it erases, so the key goes away.
on_closeErases(c) == m_connections' = m_connections \ {addr[c]}

\* on_close: m_connections.erase(hdl), and then m_connections[hdl] is read for
\* the log line, which inserts the key again.
on_close(c) == m_connections' = (m_connections \ {addr[c]}) \cup {addr[c]}

\* on_message: m_actions.push(action(MESSAGE, hdl, msg)).
on_message(c, m) ==
  m_actions' = Append(m_actions, [hdl |-> c, msg |-> m, n |-> accepted + 1])

\* The body of the callback, and the release of the lock at the end of it.
IoCritical ==
  /\ ~aborted /\ ioPc = "critical"
  /\ \/ /\ job.cb = "on_open" /\ on_open(job.c)
        /\ UNCHANGED <<m_actions, accepted>>
     \/ /\ job.cb = "on_close" /\ on_close(job.c)
        /\ UNCHANGED <<m_actions, accepted>>
     \/ /\ job.cb = "on_message" /\ on_message(job.c, job.msg)
        /\ accepted' = accepted + 1
        /\ UNCHANGED m_connections
  /\ m_action_lock' = "none"
  /\ ioPc' = "notify"
  /\ UNCHANGED <<b, stop_streaming, get_data, client2_data_count, conVars, job,
                 procVars, loopVars, aborted, served, framesAfterStop, asked,
                 answered, commanders, recipients>>

\* Faulty variant: no notify_one() after the unlock.
IoSilent ==
  /\ ~aborted /\ ioPc = "notify"
  /\ con' = IF job.cb = "on_close" THEN [con EXCEPT ![job.c] = "gone"] ELSE con
  /\ ioPc' = "idle"
  /\ job' = NoJob
  /\ UNCHANGED <<members, addr, procVars, loopVars, aborted, history>>

\* m_action_cond.notify_one(), then the callback returns to websocketpp; after
\* on_close the endpoint drops its last reference and the object is destroyed.
IoNotify ==
  /\ ~aborted /\ ioPc = "notify"
  /\ notified' = (notified \/ procPc = "waiting")
  /\ con' = IF job.cb = "on_close" THEN [con EXCEPT ![job.c] = "gone"] ELSE con
  /\ ioPc' = "idle"
  /\ job' = NoJob
  /\ UNCHANGED <<members, addr, procPc, a, slot, loopVars, aborted, history>>

Io == Run \/ IoLock \/ IoCritical \/ IoNotify \/ \E c \in Conns : Terminated(c)

Peers == \E c \in Conns :
  Connect(c) \/ Disconnect(c) \/ \E m \in Commands : Receive(c, m)

------------------------------------------------------------------------------
(* process_messages() *)

\* unique_lock<mutex> lock(m_action_lock).
ProcLock ==
  /\ ~aborted /\ procPc = "lock" /\ m_action_lock = "none"
  /\ m_action_lock' = "proc"
  /\ procPc' = "test"
  /\ UNCHANGED <<m_connections, m_actions, b, stop_streaming, get_data,
                 client2_data_count, conVars, ioVars, a, slot, notified,
                 loopVars, aborted, history>>

\* while (m_actions.empty()) m_action_cond.wait(lock): the wait releases the
\* lock and blocks in one step.
ProcTest ==
  /\ ~aborted /\ procPc = "test"
  /\ \/ /\ m_actions = <<>>
        /\ m_action_lock' = "none"
        /\ procPc' = "waiting"
        /\ notified' = FALSE
     \/ /\ m_actions # <<>>
        /\ procPc' = "copyPtr"
        /\ UNCHANGED <<m_action_lock, notified>>
  /\ UNCHANGED <<m_connections, m_actions, b, stop_streaming, get_data,
                 client2_data_count, conVars, ioVars, a, slot, loopVars,
                 aborted, history>>

\* wait() returns, after a notification, with the lock taken again.
ProcWake ==
  /\ ~aborted /\ procPc = "waiting" /\ notified /\ m_action_lock = "none"
  /\ m_action_lock' = "proc"
  /\ procPc' = "test"
  /\ notified' = FALSE
  /\ UNCHANGED <<m_connections, m_actions, b, stop_streaming, get_data,
                 client2_data_count, conVars, ioVars, a, slot, loopVars,
                 aborted, history>>

\* action a = m_actions.front(): the first word of a.hdl is written.
ProcCopyPtr ==
  /\ ~aborted /\ procPc = "copyPtr"
  /\ slot' = [slot EXCEPT !.ptr = addr[Head(m_actions).hdl]]
  /\ procPc' = "copyCb"
  /\ UNCHANGED <<members, conVars, ioVars, a, notified, loopVars, aborted,
                 history>>

\* Faulty variant: the action is copied but not popped.
ProcCopyCbNoPop ==
  /\ ~aborted /\ procPc = "copyCb"
  /\ a' = Head(m_actions)
  /\ slot' = [slot EXCEPT !.cb = addr[Head(m_actions).hdl]]
  /\ b' = "slot"
  /\ m_action_lock' = "none"
  /\ procPc' = "handle"
  /\ UNCHANGED <<m_connections, m_actions, stop_streaming, get_data,
                 client2_data_count, conVars, ioVars, notified, loopVars,
                 aborted, history>>

\* ... and the second; then m_actions.pop(), b = &a and lock.unlock().
ProcCopyCb ==
  /\ ~aborted /\ procPc = "copyCb"
  /\ a' = Head(m_actions)
  /\ slot' = [slot EXCEPT !.cb = addr[Head(m_actions).hdl]]
  /\ m_actions' = Tail(m_actions)
  /\ b' = "slot"
  /\ m_action_lock' = "none"
  /\ procPc' = "handle"
  /\ UNCHANGED <<m_connections, stop_streaming, get_data, client2_data_count,
                 conVars, ioVars, notified, loopVars, aborted, history>>

\* The if-chain over the payload; for get_data, the first of its two writes.
ProcHandle ==
  /\ ~aborted /\ procPc = "handle"
  /\ \/ /\ a.msg = "stop_streaming"
        /\ stop_streaming' = TRUE /\ procPc' = "done"
     \/ /\ a.msg = "start_stream"
        /\ stop_streaming' = FALSE /\ procPc' = "done"
     \/ /\ a.msg = "get_data"
        /\ stop_streaming' = TRUE /\ procPc' = "raise"
     \/ /\ a.msg = "other"
        /\ UNCHANGED stop_streaming /\ procPc' = "done"
  /\ framesAfterStop' = IF stop_streaming' <=> stop_streaming
                        THEN framesAfterStop ELSE 0
  /\ UNCHANGED <<m_connections, m_actions, m_action_lock, b, get_data,
                 client2_data_count, conVars, ioVars, a, slot, notified,
                 loopVars, aborted, accepted, served, asked, answered,
                 commanders, recipients>>

\* get_data = true.
ProcRaise ==
  /\ ~aborted /\ procPc = "raise"
  /\ get_data' = TRUE
  /\ asked' = asked + 1
  /\ procPc' = "done"
  /\ UNCHANGED <<m_connections, m_actions, m_action_lock, b, stop_streaming,
                 client2_data_count, conVars, ioVars, a, slot, notified,
                 loopVars, aborted, accepted, served, framesAfterStop,
                 answered, commanders, recipients>>

\* The iteration ends: a is destroyed, but its words stay where b points.
ProcDone ==
  /\ ~aborted /\ procPc = "done"
  /\ a' = NoAction
  /\ served' = a.n
  /\ procPc' = "lock"
  /\ UNCHANGED <<members, conVars, ioVars, slot, notified, loopVars, aborted,
                 accepted, framesAfterStop, asked, answered, commanders,
                 recipients>>

Proc == \/ ProcLock \/ ProcTest \/ ProcWake \/ ProcCopyPtr \/ ProcCopyCb
        \/ ProcHandle \/ ProcRaise \/ ProcDone

------------------------------------------------------------------------------
(* looping() *)

\* A step of loop from one control point to another.
LoopGoto(from, to) == ~aborted /\ loopPc = from /\ loopPc' = to

OthersUnchanged == UNCHANGED <<members, conVars, ioVars, procVars>>

\* Faulty variant: b is used without the test and the look-up.
LoopTestUnchecked ==
  /\ LoopGoto("test", "stop")
  /\ OthersUnchanged /\ UNCHANGED <<hdl, what, aborted, history>>

\* if (b != NULL).
LoopTest ==
  /\ LoopGoto("test", IF b = "null" THEN "sleep" ELSE "find")
  /\ OthersUnchanged /\ UNCHANGED <<hdl, what, aborted, history>>

\* A callback is changing the map at this moment, under a lock loop ignores.
MapBeingWritten == ioPc = "critical" /\ job.cb \in {"on_open", "on_close"}

\* m_connections.find(b->hdl), the comparison with end() and the copy of the
\* client id.  A callback that changes the map leaves every outcome open, a
\* fault included.  A wild b, which a search of an empty map does not follow,
\* leads to a fault or to words that are the handle of no connection.
LoopFind ==
  /\ LET found == b = "slot" /\ slot.cb \in m_connections
         wild == b = "wild" /\ (m_connections # {} \/ MapBeingWritten)
     IN \/ LoopGoto("find", IF found THEN "stop" ELSE "sleep") /\ UNCHANGED aborted
        \/ /\ MapBeingWritten /\ b = "slot"
           /\ LoopGoto("find", IF found THEN "sleep" ELSE "stop")
           /\ UNCHANGED aborted
        \/ /\ MapBeingWritten \/ wild
           /\ LoopGoto("find", "find") /\ aborted' = TRUE
  /\ OthersUnchanged /\ UNCHANGED <<hdl, what, history>>

\* if (stop_streaming == false && ...
LoopReadStop ==
  /\ LoopGoto("stop", IF stop_streaming THEN "getAgain" ELSE "get")
  /\ OthersUnchanged /\ UNCHANGED <<hdl, what, aborted, history>>

\* ... get_data == false): an image is due.
LoopReadGet ==
  /\ LoopGoto("get", IF get_data THEN "getAgain" ELSE "grab")
  /\ what' = "image"
  /\ OthersUnchanged /\ UNCHANGED <<hdl, aborted, history>>

\* else if (get_data == true): get_data is read a second time.
LoopReadGetAgain ==
  /\ LoopGoto("getAgain", IF get_data THEN "quota" ELSE "sleep")
  /\ OthersUnchanged /\ UNCHANGED <<hdl, what, aborted, history>>

\* Faulty variants: one string too many, one too few, and no reset after them.
LoopQuotaLoose ==
  /\ LoopGoto("quota", IF client2_data_count <= MaxData THEN "grab" ELSE "reset1")
  /\ what' = "text"
  /\ OthersUnchanged /\ UNCHANGED <<hdl, aborted, history>>

LoopQuotaTight ==
  /\ LoopGoto("quota", IF client2_data_count + 1 < MaxData THEN "grab" ELSE "reset1")
  /\ what' = "text"
  /\ OthersUnchanged /\ UNCHANGED <<hdl, aborted, history>>

LoopQuotaNoReset ==
  /\ LoopGoto("quota", IF client2_data_count < MaxData THEN "grab" ELSE "sleep")
  /\ what' = "text"
  /\ OthersUnchanged /\ UNCHANGED <<hdl, aborted, history>>

\* if (client2_data_count < max_client2_data_count).
LoopQuota ==
  /\ LoopGoto("quota", IF client2_data_count < MaxData THEN "grab" ELSE "reset1")
  /\ what' = "text"
  /\ OthersUnchanged /\ UNCHANGED <<hdl, aborted, history>>

\* cam1.getImage() and imencode, or cam1.getString().  An image that did not
\* come in time is empty and imencode throws (or yields nothing); a string
\* that could not be allocated is NULL and std::string's constructor throws.
\* C++ may copy b->hdl before it calls getString(); since this step touches
\* nothing shared, that is the order below with a delay before send.
LoopGrab ==
  /\ \/ LoopGoto("grab", "copyPtr") /\ UNCHANGED aborted
     \/ LoopGoto("grab", "grab") /\ aborted' = TRUE
  /\ OthersUnchanged /\ UNCHANGED <<hdl, what, history>>

\* The argument b->hdl is copied, word by word.
LoopCopyPtr ==
  /\ LoopGoto("copyPtr", "copyCb")
  /\ hdl' = [hdl EXCEPT !.ptr = slot.ptr]
  /\ OthersUnchanged /\ UNCHANGED <<what, aborted, history>>

LoopCopyCb ==
  /\ LoopGoto("copyCb", "send")
  /\ hdl' = [hdl EXCEPT !.cb = slot.cb]
  /\ OthersUnchanged /\ UNCHANGED <<what, aborted, history>>

\* The connection that hdl reaches: lock() asks the control block hdl.cb
\* whether its object is alive, and then follows hdl.ptr.
Reached(c) == Occupied(hdl.cb) /\ Alive(c, hdl.ptr)

\* m_server.send() queues the payload on an open connection.
LoopSend ==
  /\ LoopGoto("send", IF what = "image" THEN "sleep" ELSE "count")
  /\ \/ \E c \in Conns : /\ Reached(c) /\ con[c] = "open"
                         /\ recipients' = recipients \cup {c}
     \* A torn handle: the object at hdl.ptr was destroyed and its memory is
     \* still there, so send() may find any state in it.
     \/ /\ Occupied(hdl.cb) /\ ~Occupied(hdl.ptr)
        /\ UNCHANGED recipients
  /\ framesAfterStop' = IF what = "image" /\ stop_streaming
                        THEN framesAfterStop + 1 ELSE framesAfterStop
  /\ answered' = IF what = "text" THEN answered + 1 ELSE answered
  /\ hdl' = NoHandle
  /\ OthersUnchanged
  /\ UNCHANGED <<what, aborted, accepted, served, asked, commanders>>

\* send() throws bad_connection or invalid_state, and no frame of the thread
\* catches it: std::terminate.
LoopSendThrows ==
  /\ LoopGoto("send", "send")
  /\ ~\E c \in Conns : Reached(c) /\ con[c] = "open"
  /\ aborted' = TRUE
  /\ OthersUnchanged /\ UNCHANGED <<hdl, what, history>>

\* client2_data_count++.
LoopCount ==
  /\ LoopGoto("count", "sleep")
  /\ client2_data_count' = client2_data_count + 1
  /\ UNCHANGED <<m_connections, m_actions, m_action_lock, b, stop_streaming,
                 get_data, conVars, ioVars, procVars, hdl, what, aborted, history>>

\* stop_streaming = false; get_data = false; client2_data_count = 0.
LoopReset1 ==
  /\ LoopGoto("reset1", "reset2")
  /\ stop_streaming' = FALSE
  /\ framesAfterStop' = 0
  /\ UNCHANGED <<m_connections, m_actions, m_action_lock, b, get_data,
                 client2_data_count, conVars, ioVars, procVars, hdl, what,
                 aborted, accepted, served, asked, answered, commanders,
                 recipients>>

LoopReset2 ==
  /\ LoopGoto("reset2", "reset3")
  /\ get_data' = FALSE
  /\ UNCHANGED <<m_connections, m_actions, m_action_lock, b, stop_streaming,
                 client2_data_count, conVars, ioVars, procVars, hdl, what,
                 aborted, history>>

\* Faulty variant: the count is left for the next request.
LoopReset3Kept ==
  /\ LoopGoto("reset3", "sleep")
  /\ OthersUnchanged /\ UNCHANGED <<hdl, what, aborted, history>>

LoopReset3 ==
  /\ LoopGoto("reset3", "sleep")
  /\ client2_data_count' = 0
  /\ UNCHANGED <<m_connections, m_actions, m_action_lock, b, stop_streaming,
                 get_data, conVars, ioVars, procVars, hdl, what, aborted, history>>

\* Faulty variant: stop_streaming is read once and kept while frames flow.
LoopSleepCached ==
  /\ LoopGoto("sleep", IF what = "image" /\ b = "slot" THEN "get" ELSE "test")
  /\ OthersUnchanged /\ UNCHANGED <<hdl, what, aborted, history>>

\* usleep(100000), and the next iteration.
LoopSleep ==
  /\ LoopGoto("sleep", "test")
  /\ OthersUnchanged /\ UNCHANGED <<hdl, what, aborted, history>>

Loop == \/ LoopTest \/ LoopFind \/ LoopReadStop \/ LoopReadGet
        \/ LoopReadGetAgain \/ LoopQuota \/ LoopGrab \/ LoopCopyPtr
        \/ LoopCopyCb \/ LoopSend \/ LoopSendThrows \/ LoopCount
        \/ LoopReset1 \/ LoopReset2 \/ LoopReset3 \/ LoopSleep

------------------------------------------------------------------------------

Next == Io \/ Peers \/ Proc \/ Loop

\* Each thread keeps running while it can; no peer has to do anything.
Fairness == WF_vars(Io) /\ WF_vars(Proc) /\ WF_vars(Loop)

Spec == Init /\ [][Next]_vars /\ Fairness

\* The behaviours of Spec without its fairness, in which safety properties do
\* not tell connections, or addresses, apart.
SafetySpec == Init /\ [][Next]_vars
Symmetry == Permutations(Conns) \cup Permutations(Addrs)

------------------------------------------------------------------------------
(* Correctness *)

\* Every variable of the model has its type.
TypeOK ==
  /\ m_connections \subseteq Addrs
  /\ m_actions \in Seq(Actions)
  /\ m_action_lock \in {"none", "io", "proc"}
  /\ b \in {"null", "wild", "slot"}
  /\ stop_streaming \in BOOLEAN /\ get_data \in BOOLEAN
  /\ client2_data_count \in 0..MaxData
  /\ con \in [Conns -> {"none", "open", "closed", "gone"}]
  /\ addr \in [Conns -> Addrs \cup {NoAddr}]
  /\ ioPc \in IoPcs /\ job \in Jobs \cup {NoJob}
  /\ procPc \in ProcPcs /\ a \in Actions \cup {NoAction}
  /\ slot \in Words /\ notified \in BOOLEAN
  /\ loopPc \in LoopPcs /\ hdl \in Words /\ what \in Modes
  /\ aborted \in BOOLEAN
  /\ accepted \in Nat /\ served \in Nat
  /\ framesAfterStop \in Nat
  /\ asked \in Nat /\ answered \in Nat
  /\ commanders \subseteq Conns /\ recipients \subseteq Conns

\* While process_messages() sleeps on the condition variable with nobody on
\* the way to wake it, no action is queued: notify_one() after the unlock (in
\* on_message) and the re-check of the queue under the lock lose no wake-up.
NoLostWakeup ==
  procPc = "waiting" /\ ~notified => m_actions = <<>> \/ ioPc = "notify"

\* Once stop_streaming is true, at most the one frame that looping() had
\* already decided on is still sent, until the flag is cleared again.
StopBoundsFrames == stop_streaming => framesAfterStop <= 1

\* No get_data command is answered with more than max_client2_data_count
\* strings, whatever the interleaving of looping() with process_messages().
StringsWithinQuota == answered <= MaxData * asked

\* A payload only ever reaches a connection that sent a command itself: the
\* stale handle that b leads to never names a later connection whose object
\* took the same address.
StreamsOnlyToCommanders == recipients \subseteq commanders

\* send() takes the process down only over a connection that was lost: of the
\* two connections a (perhaps torn) handle mixes, one is closing or gone.
SendFailsOnlyForLostPeer ==
  [][ loopPc = "send" /\ loopPc' = "send" /\ aborted' /\ ~aborted
        => \E c \in Conns : /\ con[c] \in {"closed", "gone"}
                            /\ addr[c] \in {hdl.ptr, hdl.cb} ]_vars

\* The abstract server: a.n is the ordinal of the command being handled.
Mailbox == INSTANCE CommandMailbox WITH current <- a.n, dead <- aborted

\* on_message() and process_messages() never handle a command twice, out of
\* the order of acceptance, or before the previous one is finished.
HandledOnceInOrder == Mailbox!MailboxOrder

\* ... and they leave none behind while the process lives, whatever looping()
\* and the connections do meanwhile.
ImplementsMailbox == Mailbox!MailboxSpec

\* A get_data mode that was entered is left again, and the server goes back
\* to its stream or to its silence.
RequestCompletes == get_data ~> ~get_data \/ aborted

\* A request raised while no earlier one is being finished gets its string.
RequestHonoured ==
  get_data /\ client2_data_count = 0 /\ loopPc \notin {"reset2", "reset3"}
    ~> client2_data_count > 0 \/ aborted

\* Whatever requests and resets crossed before it, a start_stream that is the
\* last command leaves the server streaming for good: the silence a get_data
\* between two writes of the reset may cause lasts until then.
StartResumes ==
  procPc = "done" /\ a.msg = "start_stream" /\ accepted = MaxCommands /\ m_actions = <<>>
    ~> [](aborted \/ (~stop_streaming /\ ~get_data))

------------------------------------------------------------------------------
(* The inductive invariant behind the safety properties *)

\* Who holds the lock, and what each control point of io and proc implies.
Control ==
  /\ m_action_lock = "proc" <=> procPc \in {"test", "copyPtr", "copyCb"}
  /\ m_action_lock = "io" <=> ioPc = "critical"
  /\ job # NoJob <=> ioPc \in {"lock", "critical", "notify"}
  /\ IF ActionInScope THEN a \in Actions ELSE a = NoAction
  /\ procPc \in {"copyPtr", "copyCb"} => m_actions # <<>>

\* Where looping() is between the choice of a payload and its send().
Sending == loopPc \in {"grab", "copyPtr", "copyCb", "send"}

ImagePending == loopPc = "get" \/ (Sending /\ what = "image")

StopInv ==
  stop_streaming => framesAfterStop + (IF ImagePending THEN 1 ELSE 0) <= 1

\* Strings that may still be sent before get_data is lowered.
Credit ==
  CASE loopPc \in {"reset1", "reset2"} -> 0
    [] loopPc = "reset3" -> IF get_data THEN MaxData ELSE 0
    [] loopPc = "count" -> MaxData - client2_data_count - 1
    [] OTHER -> IF get_data THEN MaxData - client2_data_count ELSE 0

QuotaInv ==
  /\ loopPc \in {"quota", "count", "reset1", "reset2"} => get_data
  /\ Sending /\ what = "text" => get_data
  /\ loopPc = "count" \/ (Sending /\ what = "text") => client2_data_count < MaxData
  /\ ~get_data /\ loopPc # "reset3" => client2_data_count = 0
  /\ answered + Credit <= MaxData * asked

\* The queue holds the accepted commands that are neither served nor in hand.
QueueInv ==
  /\ accepted = served + Len(m_actions) + (IF ActionInScope THEN 1 ELSE 0)
  /\ \A i \in 1..Len(m_actions) : m_actions[i].n = accepted - Len(m_actions) + i
  /\ ActionInScope => a.n = served + 1
  /\ accepted <= MaxCommands
  /\ job.cb = "on_message" /\ ioPc # "notify" => accepted < MaxCommands

\* Keys are never removed, so no two connections ever have the same address.
AddressInv ==
  /\ \A c \in Conns : con[c] = "none" <=> addr[c] = NoAddr
  /\ \A c \in Conns : con[c] # "none" =>
       \/ addr[c] \in m_connections
       \/ job # NoJob /\ job.cb = "on_open" /\ job.c = c /\ ioPc # "notify"
  /\ \A c, d \in Conns : con[c] # "none" /\ addr[c] = addr[d] => c = d
  /\ job # NoJob => con[job.c] # "none"
  /\ ioPc = "boot" => \A c \in Conns : con[c] = "none"

\* Every handle that process_messages() or looping() holds was copied from
\* handles of commanders, each of its words from one.
CommanderAddrs == {addr[c] : c \in commanders}

HandleInv ==
  /\ \A c \in commanders : con[c] # "none"
  /\ job.cb = "on_message" => job.c \in commanders
  /\ \A i \in 1..Len(m_actions) : m_actions[i].hdl \in commanders
  /\ procPc = "copyCb" \/ b = "slot" => slot.ptr \in CommanderAddrs
  /\ b = "slot" => slot.cb \in CommanderAddrs
  /\ loopPc \notin {"test", "find", "sleep"} => b = "slot"
  /\ loopPc \in {"copyCb", "send"} => hdl.ptr \in CommanderAddrs
  /\ loopPc = "send" => hdl.cb \in CommanderAddrs

\* All of the above: every step of the server preserves it.
IInv ==
  /\ TypeOK /\ Control /\ NoLostWakeup /\ StopInv /\ QuotaInv
  /\ QueueInv /\ AddressInv /\ HandleInv /\ StreamsOnlyToCommanders

------------------------------------------------------------------------------
(* What the comment above the server class (lines 505-508) says of it *)

\* "on_close remove connection_hdl from channel": once on_close has run, the
\* handle of a connection that is gone is no key of the map, unless another
\* connection has come to live at its address.
ClosedLeaveChannel ==
  \A c \in Conns : con[c] = "gone" /\ ~Occupied(addr[c])
                     => addr[c] \notin m_connections

\* "on_message queue send to all channels": while frames keep flowing, a
\* connection that is open and in the map for good is sent one eventually.
AllChannelsServed ==
  \A c \in Conns :
    <>[](con[c] = "open" /\ addr[c] \in m_connections)
      /\ []<>(loopPc = "send" /\ what = "image" /\ ~aborted)
    => <>(c \in recipients)

=============================================================================
