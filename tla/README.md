# Verification of the aggregation programs

The repository holds small C++ programs around a barcode-reading camera: a
WebSocket server that streams its images (`broadcastTest.cpp`), a viewer that
saves images on a key press (`SaveImage.cpp`), earlier or partial forms of both,
and the library the server stands on, websocketpp, with its examples. This
directory models them in TLA+, checks small instances with TLC, and proves the
main safety properties with TLAPS for all values of the constants.

Paths below `src/websocketcpp/websocketpp/` are written `W/...`.

## 1. Inventory

| Component | State it keeps | Operations | Interacts with |
|---|---|---|---|
| Streaming server, `broadcast_server` (`broadcastTest.cpp` 527-764) | `m_connections`, `m_actions`, `m_action_lock`, `m_action_cond`, `b`, `stop_streaming`, `get_data`, `client2_data_count` | `on_open`, `on_close`, `on_message` (io thread), `process_messages` (its own thread), `looping` (its own thread), `run` | websocketpp callbacks and `send`; `Camera::getImage`, `Camera::getString` |
| Code reader, class `Camera` (`broadcastTest.cpp` 37-477, the same in `CameraLib.cpp`) | SDK handle, frame buffer and frame info, mutex | `init`, `InitResource`, `DeInitResources`, `getImage`, `getData`, `getString` | camera SDK, OpenCV, iconv |
| Image viewer (`SaveImage.cpp`) | `g_bExit`, last frame, mutex, handle | start-up chain, `HandleKeyPress`, three save functions, `GrabImageThread`, shutdown chain | camera SDK, standard input, files |
| Other camera programs (`Camera.cpp`, `Camera2.cpp`, `CameraLib.cpp`, `camera.py`) | as class `Camera`, on the stack or behind C functions | start-up, image, release | camera SDK |
| First server (`broadcastTest copy.cpp`) | actions, ids of the clients, flags, counter | callbacks, `process_messages`, `looping` | websocketpp |
| WebSocket connection (`W/connection.hpp`, `W/impl/connection_impl.hpp`) | session and internal state, write queue, timers, close codes, request and response | `start`, handshake handlers, `send`, `ping`, `close`, `pause_reading`, `resume_reading`, read loop, `terminate` | endpoint, processor, transport, handlers of the application |
| WebSocket endpoint (`W/endpoint.hpp`, `W/impl/endpoint_impl.hpp`, `W/roles`) | settings, handlers, acceptance loop | setters, `create_connection`, `start_accept`, `connect` | transport, connections |
| Asio transport (`W/transport/asio`) | io_service and its owner, acceptor, resolver, work; per connection socket, timers, proxy data | `init_asio`, `listen`, `run`, move, `async_connect`; init, reads, writes, shutdown | Asio, socket policies |
| Other transports (`W/transport/iostream`, `debug`, `stub`) | pending read, output | `read_some`, `read_all`, `operator>>`, writes | application |
| Framing (`W/frame.hpp`, `W/processors/hybi13.hpp`, `hybi00.hpp`, `W/utf8_validator.hpp`) | header, masking key, message, validator state | prepare, `consume` | connection |
| Contents of the handshake (`W/processors`, `W/http`, `W/extensions`, `W/uri.hpp`) | request, response, negotiated attributes, address | parse, validate, negotiate | connection |
| Examples (`src/websocketcpp/examples`) | per program | per program | library |
| Camera SDK, support code, Python demonstration | see section 7 | | |

What is hard here, and what makes each component correct:

* **Server.** Three threads share the members, and only two of them take the
  lock. `b` points at a local variable of `process_messages()` that has ended;
  `looping()` reads it, the map and the flags without a lock, in several steps
  per decision, while connections are closed and their memory is reused.
  Correct means: no accepted command is lost, repeated or overtaken; no wake-up
  is lost; a stop takes effect after at most the frame already decided on; a
  `get_data` request ends, and is answered as often as it should; a payload
  never reaches a connection that only happens to live at an old address;
  `send()` does not end the process while everybody is connected.
* **Code reader and its other forms.** Start-up is a chain of calls of which one
  failure is not returned; release stops at the first refusal and is called
  twice; buffers are tested for NULL in one place and dereferenced without a
  test in the next. Correct means: a successful `init()` left a grabbing camera
  with its buffers; an image shows the frame its polygons belong to; a string
  lists each code once; what can be released is.
* **Viewer.** Two threads share the last frame under a mutex, with many early
  returns that must unlock it. Correct means: no file mixes two frames; nothing
  is released under the running thread; everything is released at the end; a
  save ends; Enter ends the program.
* **Connection.** Application threads call `send()`, `close()`, `ping()` while
  the handlers of the transport run on a strand; locks are released between the
  test of a state and the action taken for it; timers expire while their answer
  is queued. Correct means: what was sent arrives in order; one write and one
  read at a time; a handshake gets one response and ends in exactly one of its
  outcomes; the two ends of a closing handshake learn of it, with the right
  codes; each handler is called as often, and in the order, that the docs say.
* **Endpoint and transports.** An acceptance loop that renews itself, timers that
  race completions, buffers that belong to one operation, an io_service that
  exactly one object must delete. Correct means: one answer per operation, a loop
  that goes on until it is stopped and no longer, no leak and no double delete.
* **Formats.** Parsers are fed pieces of any size; encodings change at
  boundaries. Correct means: the result does not depend on the pieces, the two
  ends agree, and what one writes the other reads.
* **Examples.** Small programs with one or two threads. Correct means: nothing
  counted is skipped, nothing sent to a connection that has none, and the
  program ends.

The hazards behind these are listed, with their lines and the properties that
cover each one, in `PROJECT.json`. Those without a property say why, and so do
those of which the code fails in one case that a property leaves out; section 4
has that case.

## 2. Modules

| Module | What it models |
|---|---|
| `BroadcastServer` | the server: io thread, `process_messages()`, `looping()`, connections and their addresses |
| `CommandMailbox` | the abstract server: commands are accepted, taken and finished one at a time in order |
| `CameraReader` | class `Camera` as the server uses it |
| `SaveImage` | the viewer |
| `CameraPrograms` | `Camera.cpp`, `Camera2.cpp`, `CameraLib.cpp` with `camera.py` |
| `PrototypeServer` | `broadcastTest copy.cpp` |
| `ConnectionSession` | an open connection: threads that send, close, pause; write queue, read loop, closing, termination |
| `ConnectionHandshake` | from `start()` to open, to a plain HTTP response, or to failure |
| `HandlerOrder` | the abstract order of handlers of `docs/handlers.dox` |
| `PingKeepalive` | `ping()`, its timer, the pongs |
| `ClosingHandshake` | both ends of a closing handshake and the wire between them |
| `EndpointSettings` | settings of the endpoint and their copies in the connections |
| `EndpointLifetime` | who owns the io_service: `init_asio`, moves, destructors |
| `AcceptLoop`, `ConnectClient` | the acceptance loop; `connect()` with resolver and timers |
| `AsioTransport`, `SocketPolicy` | one connection of the transport with proxy and TLS; the plain and the TLS socket |
| `IoStreamTransport`, `DebugTransport` | reads and writes of the other transports |
| `Hybi13`, `FrameStream` | framing of RFC 6455 and the abstract stream of frames it implements |
| `Hybi00` | framing of the oldest version |
| `FrameMask`, `FrameHeader`, `Utf8Validator` | masking, bits of a header, the table of the validator |
| `OpeningHandshake`, `HttpMessage`, `HttpParameters`, `DeflateNegotiation`, `Uri` | what the handshake says and how it is read |
| `UtilityClient`, `TelemetryServer`, `TelemetryClient`, `ServerPrograms`, `ClientPrograms`, `TlsClient` | example programs |
| `MCConnection`, `MCEndpoint`, `MCPrograms` | instances for TLC |
| `BroadcastTestProofs` | proofs about `BroadcastServer` and `CameraReader` |
| `ClosingHandshakeProofs` | proofs about `ClosingHandshake` and `PingKeepalive` |
| `ConnectionSessionProofs` | proofs about `ConnectionSession` and `SocketPolicy` |
| `ConnectionHandshakeProofs` | proofs about `ConnectionHandshake`, `AsioTransport` below it, and `AcceptLoop` |
| `EndpointLifetimeProofs` | proofs about `EndpointLifetime`, `EndpointSettings` and `ConnectClient` |
| `FramingProofs` | proofs about `Hybi13`, and that it implements `FrameStream` |
| `ProgramsProofs` | proofs about `TlsClient`, `PrototypeServer` and `CameraPrograms` |
| `SaveImage` | holds its own proofs |

Definitions with a comment "Faulty variant" are deliberate mistakes, one for
each property that a run checks; none is used by a specification. Substituted
for the definition they precede, each makes its property fail, which shows that
the property depends on the code.

### How the instances are put together

A component is checked alone: the components of the library call each other
through handlers, and the module of a caller keeps of its callee what the callee
may answer (`ConnectionSession` lets a transport operation succeed or fail at any
time, `AsioTransport` models when it does). So that one run can check many
components, `MCConnection`, `MCEndpoint` and `MCPrograms` put them side by side.
The components with theorems are extended (`ClosingHandshake`,
`ConnectionHandshake` and `AsioTransport`; `EndpointLifetime`,
`ConnectionSession` and `EndpointSettings`; `TlsClient`, `PrototypeServer` and
`CameraPrograms`), so that what a run checks is the very definition that a theorem names, under the constants of the
configuration; that is why their specifications bear the component's name
(`SessionSpec`, `HandshakeNext`). Further instances of them, with constants no
theorem covers, and the other components are brought in by `INSTANCE`. Their variable `part` names the component, and its constants, that a
behaviour is about; it never changes. `MCInit` lets that part begin in any of its
initial states and holds every other one at a fixed one; `MCNext` is the
disjunction of the parts' next-state relations, each under `part = "..."`. The
reachable states are therefore the disjoint union of those of the parts, and a
property `part = "x" => X!P` says of the component exactly what `P` says in a
module of its own. Fairness is conjoined per action as `WF(part = "x" /\ X!A)`,
which is `WF(X!A)` for the behaviours of the part. Variables of an instance
carry the component's prefix where two components name them alike. At the end of each of these modules the
properties of the components are gathered by what they promise; those are what
the configurations name, and their conjuncts, each with its own comment, say
which component promises what.

What one end does is composed with the other end where that is the question:
`ClosingHandshake` and `OpeningHandshake` hold a client, a server and what is
between them, `Hybi13`, `Hybi00`, `FrameHeader` and `Uri` a writer and a reader,
and `BroadcastServer` its three threads with the connections below them.

### BroadcastServer

One variable per member of the class, plus a program counter and the locals of
each thread. A step is one access to what the threads share.

* *io*: websocketpp runs callbacks one at a time. `Connect`, `Receive` and
  `Terminated` choose the callback (`job`); `IoLock`, `IoCritical` and
  `IoNotify` are its `lock_guard`, its body, and `notify_one()` after the
  unlock. `Disconnect` is the moment from which `send()` is refused although
  `on_close()` has not been called yet. `on_close` keeps the key in the map:
  the log line after the `erase` reads `m_connections[hdl]`.
* *proc*: `ProcLock`, `ProcTest`, `ProcWake` are the wait loop, with the wait
  atomic as the standard defines it. `ProcCopyPtr` and `ProcCopyCb` copy the
  front action; its handle is a `weak_ptr`, two words, and they are written into
  the stack slot that `b` keeps pointing to (`slot`). `ProcHandle` and
  `ProcRaise` are the writes of the flags. `ProcDone` ends the iteration.
* *loop*: one action per read or write of a shared member, from the test of `b`
  to the sleep. `LoopCopyPtr` and `LoopCopyCb` copy the handle for `send()`, so
  a copy may be torn. `LoopSend` follows it as `weak_ptr::lock()` does: the
  control block decides whether the object lives, the pointer says which
  object is used.

Memory is modelled as far as the handles need it: a connection and its control
block are one allocation; an address is free again when no connection lives
there and no weak count (a map key, a queued action, a local) holds its block.
That is what decides whether a stale handle may come to name a new connection.
What is undefined in C++ is a choice over outcomes: `b` is null or wild at first
(`Init`), and a search of the map during a write to it may find, miss or fault
(`LoopFind`). An uncaught exception of a thread ends the process (`aborted`).

`CommandMailbox` is implemented under the mapping *current* = the ordinal of
the action in `process_messages()`'s hands, *dead* = `aborted`.

### CameraReader

The calls of the class never overlap: `main()` calls `init()` before the threads
exist, afterwards only `looping()` calls `getImage()` and `getString()`, and
`main()` reaches `DeInitResources()` only when the constructor of the server
throws, before the threads exist. So the module has one program counter, and its
difficulty is failure: each SDK call and each allocation has a disjunct that
fails. The SDK is a device state and these assumptions: parameters and
`StartGrabbing` need an open device, frames need a grabbing one, a null handle is
refused. `CallGetImage` and `CallGetString` start the two calls; the copy of the
info, the copy of the pixels, decoding, counting and drawing are steps. A frame
is its number, whether its pixels fit, and the text length of each of its codes.
`getString()` keeps the entries by index and length, the loop variable and the
length it will allocate.

### SaveImage

One program counter for `main()` with the functions it calls, one for
`GrabImageThread()`; the globals; the SDK's state of the device; and, as
history, the files written. The three save functions run the same steps
(`SaveLock`, `SaveGivesUp`, `SaveAccepts`, `SaveWrite`, `SaveUnlock`) and differ
by the pixel types they accept and by the one path that goes past the unlock:
`SaveWrite` of a JPEG frame as JPEG.

### CameraPrograms and PrototypeServer

`CameraPrograms` runs the three other forms of class `Camera` from `main()` (or
`camera.py`) to the end, one step per SDK call or allocation; `program` says
which form it is, and pointers without an initialiser are "garbage" or "null" at
first. `PrototypeServer` has the steps of `BroadcastServer`'s `looping()` with
the slot, the flags and the counter it shares with `process_messages()`; a
search for the id of a handle is a step of its own.

### The connection

* `ConnectionSession`: `m_state`, `m_send_queue`, `m_current_msgs`,
  `m_write_flag`, `m_reading` and the close timer are variables. A call of an
  application thread is cut where it releases a lock and another thread can come
  in: `send()` tests the state, queues, and dispatches `write_frame()` in three
  steps; `close()` tests, stores, sets the timer, queues, dispatches. The strand
  runs one handler at a time. The transport may succeed or fail at any time.
  Payloads are the ordinals of the messages.
* `ConnectionHandshake`: `m_state`, `m_internal_state` and the HTTP state are
  variables, each handler of the transport one action with all its returns; a
  timer that has expired may be queued before `cancel()` comes. The handlers that
  were called, in order, are a history; under the mapping "the last one called"
  it implements `HandlerOrder`.
* `PingKeepalive`: `ping()` in the steps between which another thread or handler
  may run; every ping has its own timer, and `m_ping_timer` names the last.
* `ClosingHandshake`: the two ends as processes, two channels, and what each end
  reports. A foreign end writes any frame of a small set. The reason is a sequence
  of bytes of which some lead a character, so that a cut may fall inside one.

### Endpoint and transports

* `EndpointSettings`: a setting is the number of changes it has seen; a copy is
  read in one step for a machine word and may be torn otherwise.
* `EndpointLifetime`: objects with `m_state`, `m_io_service`,
  `m_external_io_service` and what they hold on the service; one action per
  overload, move and destructor.
* `AcceptLoop`, `ConnectClient`, `AsioTransport`, `SocketPolicy`: an asynchronous
  operation is idle, pending, then ok, error or aborted until its handler runs; a
  timer is running, passed, queued or cancelled. `cancel()` reaches an operation
  or a timer only before its handler is queued. A handler that tests a timer's
  time and cancels it later does so in two steps. With `Threads = 1` nothing comes
  in between; with two it may.
* `IoStreamTransport`, `DebugTransport`: bytes are numbered, a
  read is a cursor and a buffer; handlers run inside the call that feeds them.

### Formats and contents

`Hybi13` is the loop of `consume()`, one round per action, over symbolic bytes: a
payload byte is a kind of character and the position of the key byte it was
masked with, and the limits 125 and 65535 are constants. It implements
`FrameStream`, under which frames arrive whole. The true bits and limits are in
`FrameHeader`, the arithmetic of masks in `FrameMask` (bytes of 2 bits, words of
4 and 8 bytes in both orders), the table in `Utf8Validator`. `HttpMessage` reads
symbols that stand for whole lines except that a piece may end in any of them;
`HttpParameters` and `Uri` read characters. `DeflateNegotiation` and
`OpeningHandshake` keep what the checks of the code tell apart.

### Examples

`ServerPrograms` and `ClientPrograms` are each one model of several programs: a
record says what tells them apart (what `on_message` does, whether it knows
"stop-listening", what keeps the io_service busy). The others have a module
each, with their two threads where they have two.

## 3. Runs

| Run | Instance | Shows |
|---|---|---|
| `broadcast_safety` | 2 connections, 2 addresses, 2 commands, 1 string per request, symmetric; 768,324 states | inductive invariant, `NoLostWakeup`, `StopBoundsFrames`, `StringsWithinQuota`, `StreamsOnlyToCommanders`, `SendFailsOnlyForLostPeer`, `HandledOnceInOrder` |
| `broadcast_liveness` | 1 connection, 1 address, 3 commands, fair threads | `ImplementsMailbox`, `RequestCompletes`, `RequestHonoured`, `StartResumes` |
| `broadcast_channel` | 2 connections, 1 command | `ClosedLeaveChannel` fails (finding) |
| `broadcast_all` | 2 connections, 1 command, fair threads | `AllChannelsServed` fails (finding) |
| `camera_safety` | 2 frames, up to 2 codes each, buffers of 4, all failures; 43,436 states | inductive invariant, `StartedMeansGrabbing`, `FramesHaveBuffers`, `PictureOfFrame`, `ReleasedAtReturn`, `ResultExact` |
| `camera_count` | 1 frame, at most 1 code | `CountKeepsTrack` fails (finding) |
| `viewer_safety` | 3 frames of every pixel type, all failures; 101,274 states | inductive invariant, `SavedFramesWhole`, `ThreadOutlived`, `ReleasedAtExit` |
| `viewer_exit` | 2 frames, none JPEG, fair threads | `EnterExits`, `KeyServed` |
| `viewer_jpeg` | 2 frames, Mono8 or JPEG, fair threads | `EnterExits` fails (finding) |
| `connections` | 16 parts; 43,173 states | `ClosesInOrder`, `CodesAgree`, `OneAnswer`, `OneAtATime`, `KeepsHandlerOrder`, `ToldOnceAndTruly`, `SessionsEnd`, `AttemptsSettle` |
| `endpoints` | 23 parts; 569,700 states | `OwnedAndLive`, `SessionSerial`, `SettingsHold`, `ContentsAgree`, `BytesArrive` |
| `programs` | 12 parts; 257,728 states | `ShownIsOfHost`, `ProgramsInOrder`, `CamerasAndStrings`, `ProgramsEnd` |

What the last three check, by promise. Those with a module in brackets are also
proved (section 5).

* `ClosesInOrder`, `CodesAgree` (`ClosingHandshake`): each end of a closing
  handshake writes one close frame at most, and a client leaves the end of the TCP
  connection to the server; the code and reason an end reports are those the
  other one sent, also when both close at once. Parts `foreign`, `dropping` and
  `lossy` have an end of another make or a lossy wire.
* `OneAnswer`, `KeepsHandlerOrder` (`ConnectionHandshake`): a request gets one
  response, whichever thread answers it, and a server opens only after it
  accepted; a server's connection implements `HandlerOrder`.
* `OneAtATime` (`AsioTransport`): the buffers are those of one write, the proxy's
  data are there while they are read, initialisation and shutdown are answered
  once.
* `ToldOnceAndTruly`: an attempt to connect and the handshake of a socket are
  answered once, and truly; no pong timeout is reported for a ping that was
  answered; there is one ping timer and one accept; `stop_listening()` spares the
  connections that were accepted. Its `TypesOK` has the inductive invariants of
  sessions, handshakes and the transport, as a check of what the proofs use.
* `SessionsEnd`, `AttemptsSettle` (liveness): closing ends and is reported at
  both ends; the queue drains; handshake, ping, connect, init, shutdown and
  `run()` come to their end though the network is silent; bytes are consumed.

* `OwnedAndLive` (`EndpointLifetime`): an io_service has one owner, and what an
  endpoint holds is on one that lives.
* `SessionSerial` (`ConnectionSession`): one write in flight, bytes on the wire in
  the order of the queue and none after a terminal message; and, for the
  applications that keep to what it asks of them, one read in flight, one close
  handler, a flushed end, and nothing queued after a close.
* `SettingsHold` (`EndpointSettings`): a connection gets settings that are at most
  one client old, and of one moment when one thread sets them.
* `ContentsAgree`: the two ends agree on address, protocol and windows, and
  messages parse alike in all pieces (but for the size limit, whose count depends
  on them, see `RejectsOnlyTooBig`); a session that two threads close and pause,
  or handlers, and settings that another thread changes, keep what is proved of
  them (`CallsSerial`, `ThreadSettingsHold`).
* `BytesArrive`: every byte is read once; frames, masks, headers and texts are
  read as written, and `Hybi13` implements `FrameStream`.
* `ShownIsOfHost` (`TlsClient`, proved), `CamerasAndStrings` (`PrototypeServer` and
  `CameraPrograms`, proved), `ProgramsInOrder`, `ProgramsEnd`: see the conjuncts in `MCPrograms`.

**Bounds.** Two connections and two commands are enough for a stale handle, a
torn copy of two handles, the reuse of an address, and a command that arrives
while another is handled; two addresses for two connections make reuse the only
way for a third life to begin. The mailbox and the request properties need a
request, its end and a command after it: three commands of one client. Frames in
`SaveImage` and `CameraReader` matter only as "the last one" and "the one
before", so two or three suffice. The lengths in `camera_safety` include those
just below, at and above the buffer's size. `CountMod` is 4 instead of 256: only
its being larger than the number of codes matters. What is proved (section 5) is
free of these bounds.

In the library, the races are between two calls, or a call and one timer or one
completion: two threads with one or two calls each, and one or two frames of the
peer, reach each pair of steps in both orders. Three pings are needed for a timer
that is overwritten while an older one runs, three `listen()` for a loop that was
stopped and begun again twice, three endpoints for a move after a move. Formats
are cut into pieces of every size at every place for texts a little longer than
their longest part; sizes and ports are those on both sides of each limit. The
Utf8 parts take every byte at a border of the table's rows, and texts of two
characters; masks take 19 bytes, two words and a remainder. Counters that only
grow (`MaxCount`, `MaxMessages`, `MaxCases`) are stopped a little above the number
at which behaviour repeats.

**Deadlock** is not checked: the server may end by `std::terminate`, the
programs return, nobody need connect or call, and the counters are bounded.

**Fairness.** Only weak fairness of single actions is used.

* `BroadcastServer`: each of its three threads: a thread that can run does,
  `usleep` and the camera's one-second timeout end, and a mutex that is free is
  eventually taken. The io thread's fairness covers callbacks and the completion
  of a shutdown that has begun (websocketpp bounds it by a timeout), not the
  peers: no client has to connect, send or leave.
* `SaveImage`: both threads, not the user; its thread need not receive frames, as
  the wait for one times out.
* `ConnectionSession`, `ConnectionHandshake`, `PingKeepalive`,
  `ClosingHandshake`: a call that a thread has begun goes on, the strand runs its
  handlers, timers that were set expire, a transport operation of our own (a
  write, an initialisation) succeeds or fails, bytes in flight arrive or the wire
  fails. The peer owes nothing: it need not answer a ping, a request or a close.
* `AcceptLoop`, `ConnectClient`, `AsioTransport`, `SocketPolicy`: time passes, an
  io thread runs what is queued; resolver, TCP, proxy and TLS may stay silent for
  ever, but an operation that was cancelled ends.
* `Hybi13`: bytes that are there are read and consumed.
* `UtilityClient`, `TelemetryServer`, `TelemetryClient`, `ClientPrograms`: both
  threads run, timers fire, attempts to connect end (the library's timers, see
  `AttemptsSettle`). `ServerPrograms` assumes for `StopEnds`, and only there, that
  every client leaves at last, as the comment in the source does.

## 4. Findings

Shown by a run of their own:

1. `on_close()` puts the key it erased back into `m_connections` (line 581), so
   closed connections never leave the map, against the comment at line 506. The
   leak also has an effect in the other direction: since the key keeps the
   control block allocated, no later connection can take the address that a
   stale handle names. `StreamsOnlyToCommanders` rests on it: its faulty variant
   is exactly the `on_close()` that erases and leaves the map.
2. Frames go to the latest commander only, not to all channels as the comment at
   line 507 has it.
3. `getData()` does not set the count of a frame without codes (line 113).
4. `SaveJPEGImage()` does not unlock the mutex after it saved a JPEG frame
   (lines 197-214); after that Enter does not end the program.

In the library and the examples the models disagree with a doc or a comment in
the places below. Each states what is documented as a property of the module;
the configurations above do not check it, or exclude the case by a constant, since
it does not hold. TLC finds it violated when a configuration of the module names
it with the constants in brackets (sets of one or two elements where none are
given). Where the property is checked elsewhere under constants that exclude the
case, this is said.

*ConnectionSession*

* `CloseHandlerOnce` (`Calls = {"close"}`, one frame of the peer; holds when
  nobody calls `close()` but handlers), W/impl/connection_impl.hpp:2124: close()
  tests m_state under its lock, terminate() sets closed without it, and
  send_close_frame() then stores closing over closed: the close timer, or any
  later end, terminates the connection a second time and m_close_handler is
  called again. The doc at W/connection.hpp:66 says "The close handler will be
  called exactly once for every connection for which the open handler was
  called".
* `CloseFlushes` (`Calls = {"send", "close"}`, two calls; holds for a server
  that leaves closing to its peer, if it drops the connection on errors or is
  not paused), W/impl/connection_impl.hpp:2041: A server in the closing state
  takes any close frame of the peer for the acknowledgement of its own and
  terminates at once, with its own frame and messages sent before it still
  queued. The doc at W/connection.hpp:785 says "All messages sent prior to
  calling close will be written out before the connection is closed".
* `NothingAfterClose` (`Calls = {"send", "close"}`, two calls; holds without
  threads, `AppThreads = {}`), W/impl/connection_impl.hpp:115: send() releases
  m_connection_state_lock before it queues the message, so a message whose state
  test came first is queued, and written, after the close frame. The doc at
  W/connection.hpp:784 says "If close returns successfully the connection will
  be in the closing state and no additional messages may be sent".
* `OneReadInFlight` (`Calls = {"pause"}`; holds without pauses),
  W/impl/connection_impl.hpp:392: handle_resume_reading() calls read_frame()
  unconditionally: when reading was not paused, or the read from before the
  pause is still outstanding, two reads are in flight. The doc at
  W/transport/base/connection.hpp:62 says "WebSocket++ promises to have only one
  async_read_at_least in flight at a time".

*ConnectionHandshake*

* `OpenXorFail` (`Roles = {FALSE}`; a server keeps it, see `KeepsHandlerOrder`),
  W/impl/connection_impl.hpp:1629: handle_read_http_response() calls terminate()
  when the extensions cannot be negotiated and goes on without a return: m_state
  becomes open again, the open handler is called, and the shutdown under way
  calls the fail handler. docs/handlers.dox says at docs/handlers.dox:77 "Either
  open or fail will be called for each connection. Never both."
* `HttpInsteadOfFail` (`Roles = {TRUE}`, `HttpHandler = TRUE`),
  W/impl/connection_impl.hpp:1765: handle_terminate() spares only
  http_connection_ended: a plain HTTP request whose response fails, or meets the
  open timer, has its fail handler called after its http handler. The doc at
  W/connection.hpp:76 says "HTTP Connections that did not attempt to upgrade the
  connection to the WebSocket protocol will trigger the http handler instead of
  fail/open".
* `TimeoutFails` (`OpenTimer = TRUE`), W/impl/connection_impl.hpp:1677: cancel()
  does not withdraw the handler of an expired timer, and
  handle_open_handshake_timeout() does not look at m_state: a connection that
  opened in between is terminated and its close handler is called. The doc at
  W/connection.hpp:488 says "Connections that time out will have their fail
  handlers called with the open_handshake_timeout error code".

*PingKeepalive*

* `UnansweredIsReported` (`Unsolicited = TRUE`; holds for a peer that answers
  once), W/impl/connection_impl.hpp:1975: process_control_frame() cancels
  m_ping_timer for every pong, whatever its payload: one that answers an earlier
  ping, or none, silences the timer of the ping under way. The doc at
  W/connection.hpp:404 says "the pong timeout handler is called whenever a pong
  control frame is not received with the configured timeout period after the
  application sends a ping".
* `QuietAfterClose` (one ping), W/impl/connection_impl.hpp:1704: terminate()
  cancels the handshake timer only; m_ping_timer goes on and
  handle_pong_timeout() calls the handler without looking at m_state.
  docs/handlers.dox says of the message handlers, this one among them, at
  docs/handlers.dox:102 "They only will be called while the connection is in the
  open state."

*AsioTransport*

* `InitOnce` (`Threads = 2`; holds for one thread),
  W/transport/asio/connection.hpp:583: handle_post_init() tests the timer's time
  and cancels it later: with several threads in the io_service the expiry can be
  queued in between, cancel() does not reach it, and handle_post_init_timeout()
  cancels the socket and calls the handler again. The doc at
  W/transport/base/connection.hpp:55 says "The transport must call `handler`
  exactly once."
* `InitOnce` (`PreInitFails = TRUE`; holds otherwise),
  W/transport/asio/connection.hpp:483: handle_pre_init() calls the handler with
  an error and goes on without a return (and so does tls_socket's pre_init at
  security/tls.hpp:246): the handler is called again when the initialisation
  ends. The doc at W/transport/base/connection.hpp:55 says "The transport must
  call `handler` exactly once."

*AcceptLoop*

* `LoopGoesOn` (`CreateFails = TRUE`; holds otherwise),
  W/roles/server_endpoint.hpp:180: handle_accept() logs the failure of
  start_accept() and returns: when create_connection() fails once (a TLS init
  handler that returns no context, for one) nothing accepts any more, while
  is_listening() holds. The doc at W/roles/server_endpoint.hpp:117 says "Refer
  to documentation for the transport policy you are using for instructions on
  how to stop this acceptance loop.", and that of the transport names
  stop_listening() only.
* `OneLoop` (`Listens = 2`; holds for one), W/roles/server_endpoint.hpp:180: The
  handler of an accept that stop_listening() cancelled calls start_accept()
  again whatever its error: if the application listens again before it runs, the
  loop that was stopped goes on beside the new one. The doc at
  W/transport/asio/endpoint.hpp:598 says "Stop listening and accepting new
  connections."

*ConnectClient*

* `ToldOnce` (`Threads = 2`; holds for one thread),
  W/transport/asio/endpoint.hpp:1080: handle_connect() and handle_resolve() test
  the timer's time and cancel it later: with several threads in the io_service
  the expiry can be queued in between, and the client's handler is called twice,
  to start and to terminate the connection. The doc at
  W/roles/server_endpoint.hpp:101 says of a connection that it "must either be
  started or terminated".
* `OwnTimeout` (two connections), W/transport/asio/endpoint.hpp:963:
  handle_resolve_timeout() calls m_resolver->cancel(), and m_resolver is one for
  the endpoint: the resolutions of all other connections are aborted too, and
  handle_resolve() leaves those to their own timers. The doc at
  docs/config.dox:120 says "These represent the length of time (in ms) before
  the given operation is aborted", the one of each resolution.

*Hybi13*

* `TextIsComplete` (`Frames` a text in two frames, cut inside a character,
  without the rest; holds for the frames of part `stream_frames`),
  W/processors/hybi13.hpp:537: finalize_message() tests the opcode of the last
  frame, which for a message in fragments is CONTINUATION: the completeness of
  such a text is never tested. The comment at W/processors/hybi13.hpp:536 says
  "ensure that text messages end on a valid UTF8 code point".

*CameraPrograms*

* `PixelsInPlace` (`MaxSide = 2`), Camera2.cpp:239: image.at<cv::Vec3b>(y, x)[c]
  on a Mat of CV_8UC(1) writes to byte y*width + 3*x: for width 2 it skips byte
  1 and writes past the end of the Mat. The comment at Camera2.cpp:238 says "Set
  the pixel value in the Mat object".

*PrototypeServer*

* `ClosedLeaveChannel` (one command), broadcastTest copy.cpp:100: on_close()
  erases the key and then logs m_connections[hdl], which inserts it again with
  an empty id. The comment at broadcastTest copy.cpp:25 says "on_close remove
  connection_hdl from channel".

*HttpMessage*

* `RejectsOnlyTooBig` (a request of less than `max_header_size` bytes in several
  lines), W/http/impl/request.hpp:70: m_header_bytes grows by
  sizeof(header_delimiter), which is 3, for each line and again for each piece
  that ends inside a line, so a header smaller than max_header_size is rejected,
  the sooner the smaller the pieces it arrives in. W/http/constants.hpp:64 says
  "Maximum size in bytes before rejecting an HTTP header as too big."
* `ReadyAtTheEnd` (a response with `Content-Length: 0`),
  W/http/impl/response.hpp:118: With Content-Length: 0 and no byte after the
  headers, consume() leaves the state BODY, so ready() is false at the end of
  the response. W/http/response.hpp:76 says "If the end of the response was
  reached during this call to consume the ready flag will be set."
* `NoLengthNeverReady` (a response without `Content-Length`),
  W/http/impl/response.hpp:240: Without Content-Length m_read is 0, and
  process_body() then sets the state DONE, which is what ready() tests.
  W/http/response.hpp:52 says "If no Content-Length is present ready() will
  never return true."

*HttpParameters*

* `ReturnsValidity` (any input), W/http/impl/parser.hpp:116:
  parse_parameter_list() returns (it == in.begin()), which is true exactly when
  nothing could be read; its callers take true for an error.
  W/http/parser.hpp:550 says "@return Whether or not the input was a valid
  parameter list."

*DeflateNegotiation*

* `LimitsSupportingClients` (a server with client bits below 15, and an offer
  without attributes), W/extensions/permessage_deflate/enabled.hpp:638:
  generate_response() names client_max_window_bits whenever the member is below
  15, also when the client's offer had no such attribute.
  W/extensions/permessage_deflate/enabled.hpp:445 says "A server may only limit
  the client's window size if the remote client supports that feature."
* `FailedOfferDoesNothing` (two offers of which the first fails at its last
  attribute), W/extensions/permessage_deflate/enabled.hpp:513: negotiate() sets
  the members attribute by attribute and leaves those it set before one that
  fails, so they hold for the next offer. W/processors/hybi13.hpp:149 says
  "negotiation offer failed. Do nothing."
* `FailedInitDisables` (`ZlibMayFail = TRUE`),
  W/extensions/permessage_deflate/enabled.hpp:533: negotiate() sets m_enabled
  before init(), and nothing clears it when zlib fails: compressed messages of
  this side end with an error and frames of the peer with RSV1 are let through.
  W/impl/connection_impl.hpp:1230 says "Consider extension negotiation to have
  failed and continue as if extensions were not supported"
* `WindowsFit` (a client with server bits below 15, or with server mode
  `"smallest"`, or client mode `"decline"`; holds for the clients of part
  `deflate`, which limit the window they deflate with or none),
  W/extensions/permessage_deflate/enabled.hpp:485: generate_offer() is a fixed
  string: the limit that a client set with set_server_max_window_bits() is not
  in it, while init() inflates with that limit.
  W/extensions/permessage_deflate/enabled.hpp:387 says "The bits setting is the
  base 2 logarithm of the maximum window size that the server must use to
  compress outgoing messages."

*IoStreamTransport*

* `CompletesPendingRead` (any), W/transport/iostream/connection.hpp:628: read()
  sets m_reading to false and then calls complete_read(); after a bad stream it
  may do so twice, and the second time no handler is stored.
  W/transport/iostream/connection.hpp:661 says "It MUST NOT be called when
  m_reading is false."
* `NothingAfterEnd` (any), W/transport/iostream/connection.hpp:222: eof() and
  fatal_error() do nothing but complete a pending read, and leave no trace:
  reads go on after them. W/transport/iostream/connection.hpp:215 says "no more
  bytes may be read or written to/from the transport."
* `ZeroIsSuccess` (any), W/transport/iostream/connection.hpp:447: The test for
  more bytes than the buffer holds, and that for a second read, come before the
  one for no bytes. W/transport/iostream/connection.hpp:429 says "If num_bytes
  or len are zero handler will be called back immediately" (and :430 "indicating
  success.").
* `ReturnsWithoutRead` (`Nested = TRUE`),
  W/transport/iostream/connection.hpp:164: The handlers run under m_read_mutex,
  so a call that one of them leads to on the same connection waits for ever,
  whether a read is pending or not. W/transport/iostream/connection.hpp:155 says
  "If there are no pending reads read_some will return immediately."
* `SuccessMeansWritten` (`OutputFails = TRUE`),
  W/transport/iostream/connection.hpp:493: Only bad() is looked at after the
  write: a stream that was in the state fail (an ofstream whose open() failed)
  takes nothing, and the handler is told of no error.
  W/transport/iostream/connection.hpp:475 says "Will return 0 on success."

*OpeningHandshake*

* `ClientLearnsSubprotocol` (one subprotocol), W/impl/connection_impl.hpp:448:
  Only select_subprotocol() sets m_subprotocol, which a client must not call;
  the header of the response is never read. W/connection.hpp:890 says "If so, it
  will return it in it's handshake reponse and the value will be available via
  get_subprotocol()."

*Hybi00*

* `DeliversValid` (`Foreign = TRUE`), W/processors/hybi00.hpp:290: consume()
  looks for the footer and hands out what is before it; the member m_validator
  is never used. W/processors/hybi00.hpp:300 says "we are copying bytes into the
  output message and validating them for UTF8 until we hit a 0xff byte"

*Uri*

* `ServerReadsTheClients` (a text with an IPv6 literal; holds for names and
  IPv4), W/uri.hpp:108: The parser keeps an IPv6 literal without its brackets
  and get_host_port() does not add them, so a client for ws://[::1]/ sends Host
  "::1", which a server takes for host ":" and port 1; str() does not parse back
  either. W/processors/processor.hpp:143 says "last : before ] = ipv6 literal
  with no port"
* `QueryFound` (a text with a query after the host or the port), W/uri.hpp:127:
  A host ends at "/" or ":" only: the query of ws://a?b is part of the host,
  that of ws://a:80?b is dropped with the rest of the port. W/uri.hpp:289 says
  "Returns the query portion (after the ?) of the URI or an empty string if"

*EndpointSettings*

* `NoTornHandler` (`OtherThread = TRUE`), W/impl/endpoint_impl.hpp:44: The
  setters of the endpoint lock m_mutex, but create_connection() copies the
  members with its scoped_lock commented out, so a std::function or string may
  be copied while it is assigned. readme.md:20 says "Thread-safe"
* `LimitTakesEffect` (`OtherThread = TRUE`; holds when the setting is changed
  from the io thread), W/connection.hpp:577: set_max_message_size() tests
  m_processor between get_processor()'s reading of m_max_message_size and the
  assignment of m_processor: the connection keeps the old limit while
  get_max_message_size() returns the new one. W/connection.hpp:567 says "This
  value may be changed during the connection."

*UtilityClient*

* `Quits` (two connections), examples/utility_client/utility_client.cpp:148: The
  destructor closes only what its metadata call "Open"; a connection that is
  still connecting opens afterwards and nobody closes it.
  tutorials/utility_client/utility_client.md:533 says "adjusts the quit command
  so that it cleanly closes all outstanding connections before quitting."
* `TranscriptComplete` (two messages),
  examples/utility_client/utility_client.cpp:103: The main thread and the io
  thread push into m_messages without a lock.
  tutorials/utility_client/utility_client.md:741 says "to keep track of all
  messages sent and received"
* `TranscriptInOrder` (two messages),
  examples/utility_client/utility_client.cpp:240: A message is recorded after
  endpoint::send() has handed it to the other thread, so the reply may come
  first. tutorials/utility_client/utility_client.md:766 says "to collect all
  messages sent and received and to print them in order"

*TelemetryServer*

* `ServesOn` (two clients), examples/telemetry_server/telemetry_server.cpp:102:
  on_timer() calls the send() that throws for every connection between on_open()
  and on_close(); for one whose closing handshake is under way the exception
  ends run(). examples/telemetry_server/telemetry_server.cpp:12 says "sends a
  message every second to"

*EndpointLifetime*

* `OneOwner` (`Overloads` with `"internal_ec"` and `"external_ec"`; proved
  without), W/transport/asio/endpoint.hpp:239: init_asio(ec) clears
  m_external_io_service also when it was called from the wrong state, and the
  destructor then deletes an io_service of the application.
  W/transport/asio/endpoint.hpp:106 says "clean up our io_service if we were
  initialized with an internal one."
* `HeldOnLiveService` (`MovesBusy = TRUE`; proved otherwise),
  W/transport/asio/endpoint.hpp:148: The move constructor takes over the
  io_service but leaves m_work and m_resolver in the source, which is no longer
  perpetual for the new endpoint and refers to an io_service it deletes.
  W/transport/asio/endpoint.hpp:117 says "transport::asio objects are moveable
  but not copyable or assignable."
* `ListenExceptionFree` (any), W/transport/asio/endpoint.hpp:562:
  r.resolve(query) is the overload that throws.
  W/transport/asio/endpoint.hpp:540 says "Set up endpoint for listening on a
  host and service (exception free)"

*ServerPrograms*

* `StopsCleanly` (`EchoServer`, `Stops = 2`; holds for one),
  examples/echo_server/echo_server.cpp:25: stop_listening() throws when the
  server no longer listens, outside of the try block: a second command ends
  run() with clients connected. examples/echo_server/echo_server.cpp:22 says
  "check for a special command to instruct the server to stop listening so", :23
  "it can be cleanly exited."
* `StopEnds` (`ExternalIoService`; holds for `EchoServer`),
  examples/external_io_service/tcp_echo_server.hpp:91: The io_service is shared
  with a TCP echo server that always waits for a next connection: service.run()
  never returns. examples/external_io_service/external_io_service.cpp:46 says
  "check for a special command to instruct the server to stop listening so", :47
  "it can be cleanly exited."

*ClosingHandshake*

* `LocalCodeSent` (codes 1000 and 1016), W/impl/connection_impl.hpp:2084:
  send_close_frame() stores the code before prepare_close() may refuse it, and
  terminate() replaces it by abnormal_close, so get_local_close_code() may
  return a code that was never sent; W/connection.hpp:1612 says "Close code that
  was sent on the wire by this endpoint".
* `SpuriousIgnored` (a foreign server, three calls),
  W/impl/connection_impl.hpp:1981: The remote code and reason are stored before
  the state is looked at, and a frame with a bad code is answered in any state,
  so a close frame after the handshake changes get_remote_close_code() or makes
  the end write a second one; W/impl/connection_impl.hpp:2047 says "spurious,
  ignore".
* `SpecialCodesClose` (codes 1 and 2), W/processors/hybi13.hpp:703:
  prepare_close() refuses every code below 1000 and nothing handles
  omit_handshake or force_tcp_drop: close() fails and the connection stays open;
  W/close.hpp:54 says "Close the connection without a WebSocket close
  handshake."
* `ReasonUnderstood` (a reason longer than `ReasonSize`),
  W/impl/connection_impl.hpp:312: close() cuts the reason after 123 bytes, which
  may fall inside a UTF-8 character: the peer's extract_reason() reports
  invalid_utf8 and answers with a protocol error; W/connection.hpp:794 says
  "Reasons will be automatically truncated to the maximum length (123 bytes) if
  necessary." and W/close.hpp:326 "The string should be a valid UTF8 message."

*TlsClient*

* `AnyNameCounts` (`MaxNames = 3`),
  examples/print_client_tls/print_client_tls.cpp:71: Each comparison overwrites
  result and the loop goes on, so only the last DNS name counts;
  examples/print_client_tls/print_client_tls.cpp:44 says "Verify that one of the
  subject alternative names matches the given hostname".

*DebugTransport*

* `TimerNeverCalled` (any), W/transport/debug/connection.hpp:170: set_timer()
  stores the handler and expire_timer() calls it;
  W/transport/debug/connection.hpp:161 says "The handler will never be called."
* `WriteReported` (any), W/transport/debug/connection.hpp:290: async_write()
  overwrites m_write_handler, so of two writes only the last is reported;
  W/transport/debug/connection.hpp:278 says "Write len bytes in buf to the
  output stream. Call handler to report" success or failure.

## 5. Proofs

All proofs are free of the runs' bounds: any set of connections, addresses,
endpoints and services, any number of commands, frames, codes, strings per
request and names, frames and messages of any length. They assume the named
`ASSUME`s of the modules and, where a theorem says so, a hypothesis about the
environment, without which the property fails (section 4); each is met by parts of
the runs.

*BroadcastServer.* None of the safety properties is inductive alone. `IInv`
adds: who holds the lock and what each control point implies (`Control`); how
many frames may still follow a stop, counting the one decided on (`StopInv`); how
many strings may still be sent, as a credit that each control point of
`looping()` holds against `MaxData * asked` (`QuotaInv`); that the queue holds
exactly the ordinals between the command in hand and the last accepted one
(`QueueInv`); that no two connections ever have the same address, because keys
stay in the map (`AddressInv`); and that every handle in any thread's hands was
copied from commanders, each of its words from one (`HandleInv`). Each part is a
lemma over all actions; `InductiveInvariant` combines them. From it follow
`WakeupsKept`, `StopIsPrompt`, `QuotaKept`, `NoAliasing`, the action property
`SendFailure`, and `ServesInOrder`: every step of the server is a step or a
stutter of `CommandMailbox`.

*CameraReader.* `ReaderInv` ties control points to the device's state and the
buffers, states that without a handle there are no buffers left
(`HandleOwnsBuffers`, which is why the second `DeInitResources()` may give up at
once), and that nothing stored is newer than the last frame (`PictureInv`). Of
`getString()` it says how far the list has come (`StringInv`): the entries are the
codes before the loop variable that could be listed, in order, and the length
that was counted is that of their text. `StringIsExact` follows. The text's length
is a recursive function over the list; that an appended entry adds its own length
(`TextAppended`) is an induction, done without an induction theorem: if the
property failed for some length there would be a least one (`Least`, from the
well-foundedness of the naturals), and the length before it contradicts that.

*SaveImage.* `IInv` says who holds the mutex where, that info and pixels are of
one frame except between the two copies, and what `main()` has acquired at each
control point.

*ClosingHandshake*, when both ends are of the library, do not close silently, and the reasons of the applications are still valid text after they are
cut (`Pair`). `PairInv` says that what an end has written and queued is one frame
at most, and none while it is open; that every such frame has a code and a reason
the other end finds no fault with; and that a frame of the client is terminal for
its code only. From it follow `PairSendsOnce`, `PairServerEndsFirst` and,
together, `PairClosesInOrder`. `PairCodesAgree` needs `AgreeInv` besides: what an
end writes is its application's, or acknowledges the frame the other wrote; it
knows of the other's frame only when that has arrived, and then what it says; and
no end has found fault with one. Its further hypothesis
`OwnReasons` is that no application closes with the very text the library
itself puts into a close frame, by which `CodesAgree` tells them apart.

*ConnectionSession*, for any number of threads, messages, frames and pauses, any
set of calls, either role, with and without the timer. `IInv` adds to the types:
who holds the write flag, by the state of the batch with the transport and of
the batch that was the last (`WriteDiscipline`); that a batch ends at its terminal
message and nothing follows on the wire (`TerminalEndsBatch`); that wire, lost
bytes, batch and queue together are what was pushed (`QueueIsFifo`); and that a
queued message has somebody who will write it (`NoMessageForgotten`), although
`needs_writing` is used after the lock was released. `SessionIsSerial` concludes
that one write is in flight and that the wire is a prefix of what was pushed and
ends at the first terminal message. The rest of `SessionSerial` is promised to
applications that keep to something, which is part of its statement, since the
code does not hold without it (section 4): one read in flight, unless the
application pauses; one close handler, if nobody closes but in a handler
(`ClosesOnStrand`, invariant `EndsOnce`: nothing takes a closed connection back to
closing); everything before the close frame is flushed, for a server that leaves
closing to its peer (`AnswersOnly`, invariant `EndsFlushed`); no data after a close
frame, without threads (`OneThread`). Configurations for each of these are parts of
the runs, `ending`, `sending`, `calling` and `handlers`, so no hypothesis is empty.

*ConnectionHandshake*, for every role and configuration and any number of threads
that respond. `IInv` says that one operation or response is under way at a time,
that one thread at most is past the test in `send_http_response()`, and what a
server's internal and HTTP state imply for the handlers that were called so far.
`AnswersOnce` follows from it, and, for servers, `HandlersKeepOrder`: every step is
a step or a stutter of `HandlerOrder`, whose state is the last handler that was
called. A client is excluded because it does not implement the order: extensions
it cannot negotiate make it fail and then open (section 4).

*AsioTransport*, for either policy, with or without a proxy, and any number of
threads. `TransportInv` says that one operation leads through the initialisation at
a time and, for one thread, that an operation under way has its timer running,
expired or done, and that whichever of the two answered has taken the other's turn
(`ShutdownDecided`, `InitDecided`). The timer is all that tells a TLS handshake
that was cancelled from one that failed, since `handle_init()` gives both the same
error (`ResultOf`): for one thread, it is over by then. `TransportAnswersOnce` concludes that `m_bufs`
and the proxy's data are there while they are used and, for one thread, that
initialisation and shutdown are answered once. With a second thread, and for the
initialisation with a `pre_init` that fails, they are not (section 4).

*AcceptLoop*, for any number of calls of `listen()` and `stop_listening()`. That
somebody accepts while the endpoint listens (`AcceptsGoOn`) is inductive with the
types as long as connections can be created. That accepts do not multiply
(`AcceptsDoNotMultiply`) needs an account: the accepts in the loop are no more than
the calls of `start_accept()` (`LoopCounted`). It is about the first `listen()`;
the pending accept of an earlier one may come back into a second. `AcceptedAreSpared`
(`stop_listening()` ends no accepted connection) needs neither.

*SocketPolicy*, plain or TLS, any number of threads. `PolicyInv` says what the
session has heard from where its socket is, and what `m_ec` means while the
handshake's timer runs. `InitialisationToldOnce` and the action property
`HandshakeToldTruly` follow: whichever of answer, expiry and cancelled handshake
comes first, the session hears once, and what it hears is what happened. The
hypothesis `NoRefusal` excludes a name that OpenSSL refuses.

*PingKeepalive*, any pings, any pongs. `KeepaliveInv`: while pings are made one at a
time a running timer belongs to the last of them, and to no ping that was answered,
in each of the steps of `ping()`. `AlarmsAreTrue` concludes that no timeout is
reported for a ping that was answered in time, and that one timer runs. Two threads
that ping at once overwrite `m_ping_timer`, hence `OneAtOnce`.

*EndpointLifetime.* `LInv` adds to the types that an endpoint has a service from
its initialisation to its end or its move and knows whose it is, that a service
in anybody's hands is live, that two endpoints never have the same service of
the library and that a live one is in somebody's hands; unless endpoints are
moved while they hold something, what they hold is on their own service.
`ServicesHaveOneOwner` needs that `init_asio(ec)` is not called, and
`HeldIsLive` both; without these, both fail (section 4). `LivesAreOwned` joins
them.

*EndpointSettings*, for any settings in any order of copying and any number of
changes and clients. `SettingsInv` says that every setting that was copied has a value the endpoint had
since the connection began to be made, or a torn one of several words, and that with one thread nothing changes while a copy is
under way; in `SettingsReachConnections` the order of copying need not be that of
`create_connection()`.

*ConnectClient*, for one thread and any number of connections. `ClientInv` says
which timer an attempt has in each of its stages and how often the client's
handler was called, down to the two steps of a handler that tests the timer's time
and cancels it later. From it, `AttemptsEndOnce`: the client is told once, and an
attempt that was given up has nothing under way. With two threads it may be told twice.

*Hybi13*, for any frames that a peer may send (`FramesFit`: the size fits the size
code; header bits, opcode, mask and order are free, allowed or not), read in
pieces of any size. `FramingInv` says that `consume()` stands between two
frames, or at a place it knows in a frame it knows (`Reading`): the bytes that were
read and those on the way are the rest of that frame and then whole frames; the
header bytes that came are where they belong; the payload that came is, unmasked, at
the end of the message, whose validator has seen exactly it. `FramesTrack` proves it
step by step, on lemmas about the bytes of a frame, a key that turns with the
position (`KeyTurns`) and a validator that is fed in pieces (`DecodeInPieces`; an
induction over the length, by the least counterexample as for `getString()`). From it:
`HeadersUnderstood` (size and key are what the peer wrote); `ImplementsStream`, the
refinement of `FrameStream`: every step delivers what the next frame says, ends the
stream at a frame that is forbidden, or is a stutter; `TextsComplete`; and
`PreparedAccepted`: what the library itself makes of whole messages that are not too
big (`Prepared`) is never an error to the other end. The refinement and
`TextsComplete` need `FragmentsEnd`, since `finalize_message()` tests
completeness by the opcode of the last frame, which in a fragmented text is
"continuation".

*TlsClient.* `TInv` says what has been concluded at each point of the TLS
handshake: it is verifying only while every certificate so far was trusted, and
it is up only if all were, the authority is known, and the check of the names
succeeded on the last one. From it follow `ShowsTheTrusted` (what is shown came
over a connection whose chain is trusted), `ShowsTheNamed` (the certificate bears
the host's name), and `ShowsTheHost`, both together.

*PrototypeServer*, any clients, ids, commands and quota. `PrototypeInv`: every
action that waits is of a client, and so is the handle in the slot where
`looping()` uses it (`ActionInv`); a connection that closed stays a key, with an
empty id (`KeyInv`); the strings sent are counted but for one whose count is on its
way, and `looping()` passed its test with a count that only a reset lowers
(`CountInv`), though it is incremented in two steps without a lock.
`StringsBounded` and `IdsOfRegistered` follow.

*CameraPrograms.* `CamerasInv`: what device and buffers are at each step
(`StepInv`; nothing of it holds for `Camera2.cpp` after a failure, which goes on),
and what a program has in which nothing failed (`CleanInv`). From it `UsedSafely`,
`AllReleased` and `LostAfterFailure`; `CamerasAndStringsHold` joins these and the two
of the first server.

**Model-checked only**: the liveness properties (`RequestCompletes`,
`RequestHonoured`, `StartResumes`, `EnterExits`, `KeyServed`, `SessionsEnd`,
`AttemptsSettle`, `ProgramsEnd`) and the liveness half of the refinement
`ImplementsMailbox`, which the proof system does not handle; `ProgramsInOrder`, of
many small examples; and of the groups `ToldOnceAndTruly`, `BytesArrive` and
`ContentsAgree` what no theorem is about. A theorem is about a component with its
own constants; these groups are about all parts of an instance module, and gather
further instances too. Of `ToldOnceAndTruly` the theorems above state `LoopGoesOn`,
`OneLoop`, `StopSparesConnections`, `ConnectToldOnce` and `GivenUpIsQuiet`,
`PolicyToldOnce` and `ToldTruly`, `NoFalseAlarm` and `OneTimer`, `HeaderUnderstood`
and `SentIsAccepted`; of `BytesArrive`, `StreamPromise` and `TextIsComplete`. The
rest of `BytesArrive`, and `ContentsAgree`, are about parsers and encodings whose
reference definitions are recursive over sequences, partly by `RECURSIVE`
operators. What those compute for every input is an induction over data, out of the
provers' reach except where, as for `getString()` and the validator of texts, a
recursive function over a length can be followed to its least counterexample.
Every other safety property that a run checks is proved.

## 6. Plan

Done: `BroadcastServer` with `CommandMailbox`, `SaveImage`, `CameraReader` and
their proofs; the other camera programs and the first server; the connection,
the endpoint and the transports of websocketpp; framing and the contents of
handshakes; the examples; proofs for `ClosingHandshake`, `PingKeepalive`,
`ConnectionSession`, `SocketPolicy`, `ConnectionHandshake`, `AsioTransport`,
`AcceptLoop`, `EndpointLifetime`, `EndpointSettings`, `ConnectClient`, `Hybi13` with
its refinement of `FrameStream`, `TlsClient`, `PrototypeServer` and `CameraPrograms`.

Next: `BroadcastServer` composed with `ConnectionSession` in place of its variable
`con`, with one abstract life cycle that both implement; and an invariant of
`ClosingHandshake` for a library end whose peer is foreign, of which
`OneCloseFrame` is still model-checked only.

## 7. Not modelled

* Contents of images and texts, character conversion, compression of data and
  logging are left out. `getString()` results that do not fit its buffer,
  frames with more codes than `BcrInfo` has room for, and a write through the NULL
  of a failed allocation in `getData()`, are undefined behaviour at which the
  model stops.
* `CameraLib.hpp` is a stub that nothing includes usefully; `CameraLib.cpp`
  repeats class `Camera`, and `SaveImage copy.cpp` the viewer with other lines
  commented out.
* `Camera.cpp`, `Camera2.cpp` and `CameraLib.cpp` also define `capture()` or
  `getString()`, which nothing in them calls; `getString()` of two of them is the
  text that `CameraReader` models.
* The camera SDK, OpenCV, iconv, OpenSSL, zlib and Asio are external. They are
  represented by the possible results of the calls that the sources make.
* Library: the `stub` transport does nothing by design; `hybi07` and `hybi08`
  inherit `hybi13` but for the version, the header that names the origin, and
  that they refuse to be a client; the message pool, loggers, random numbers, lock
  policies, base64, SHA-1 and MD5 are support code whose results are values here.
* Examples: `broadcast_server` does not compile (the constructor `action()` has
  neither a body nor a semicolon); `dev` is a scratch file of benchmarks.
* `websocket.py` is a demonstration of another library.
