----------------------------- MODULE MCEndpoint ------------------------------
(***************************************************************************)
(* Small instances of what an endpoint does with its connections and with  *)
(* their bytes, for TLC: the io_service it owns, its settings, the calls   *)
(* of several threads, the transports other than Asio's, what the two ends *)
(* agree on when a connection opens, and the formats that they read and    *)
(* write. The components share no state here, so each behaviour is about   *)
(* one of them, its part, and the others stay as they begin.               *)
(***************************************************************************)
EXTENDS EndpointLifetime, ConnectionSession, EndpointSettings, Integers, Sequences

CONSTANT Parts   \* the parts that are checked

VARIABLES
  part,  \* the one this behaviour is about
  \* of EndpointLifetime, internal
  own_object, own_service, own_host,
  \* of EndpointSettings, thread
  settings_endpoint, settings_writing, settings_copied, settings_next,
  settings_accepted, settings_returned, settings_bounds, settings_limit,
  settings_processor, settings_made, settings_changing,
  \* of IoStreamTransport
  m_reading, m_len, stream_m_bytes_needed, stream_m_cursor, stream_m_buf,
  m_read_handler, call, stream_pc, back, stream_taken, ended, delivered, misused,
  answer, stream_endpoint, connection, stream_created, failed, shut, asked,
  written, ok,
  \* of DebugTransport
  debug_read, answers, debug_input, total, supplied, debug_writes, timers, steps,
  \* of Uri
  given, location, header, resource, address,
  \* of OpeningHandshake
  requested, request, agree_processor, agree_read, selected, status,
  agree_response, received, agree_server, agree_client,
  \* of ConnectionSession, calls
  session_state, session_stateLock, session_wasClean, session_ec, session_queue,
  session_current, session_writeFlag, session_writes, session_posted,
  session_reads, session_readFlag, session_timer, session_strays, session_due,
  session_shutting, session_pc, session_msg, session_calls, session_frames,
  session_pushed, session_wire, session_lost, session_closeCalls,
  \* of DeflateNegotiation
  deflate_server, deflate_client, deflate_pc, offers, offer, deflate_taken, before,
  deflate_response, failedInit,
  \* of HttpMessage
  text, at, len, http_m_buf, begin, http_state, headers, m_header_bytes, needed,
  m_body, processed, what,
  \* of HttpParameters
  header_input, more,
  \* of Hybi13
  frames_sent, frames_wire, frames_buf, frames_m_state, frames_m_bytes_needed,
  frames_m_cursor, frames_b0, frames_b1, ext, m_data_msg, m_control_msg,
  frames_current, frames_got, frames_ec,
  \* of Hybi00
  old_wire, length, old_sent, closing, old_buf, old_m_state, m_msg, old_got, passed,
  \* of FrameMask, little
  mask_key, mask_prepared_key, mask_input, mask_output,
  \* of FrameMask, big
  bigmask_key, bigmask_prepared_key, bigmask_input, bigmask_output,
  \* of FrameHeader
  want, fields_b0, fields_b1, bytes,
  \* of Utf8Validator
  utf8_m_state, m_codepoint, char, chars

------------------------------------------------------------------------------
\* Settings: one of each kind, in the order of create_connection().
SomeSettings == <<"message_handler", "pong_timeout", "max_message_size">>
SomeWords == {"pong_timeout", "max_message_size"}


\* Endpoints with a service of their own, one of which may be moved while it is in use.
OfInternal ==
  INSTANCE EndpointLifetime WITH Endpoints <- {"e1", "e2"},
    Services <- {"s1", "s2"}, External <- "app",
    Overloads <- {"internal_ec", "internal"}, MovesBusy <- TRUE,
    object <- own_object, service <- own_service, host <- own_host


\* Settings that another thread changes.
FromThread ==
  INSTANCE EndpointSettings WITH
    CopyOrder <- <<"message_handler", "max_message_size">>,
    WordSettings <- {"max_message_size"}, KeptSettings <- {"max_message_size"},
    Limit <- "max_message_size", OtherThread <- TRUE, MaxChanges <- 1,
    MaxClients <- 2, endpoint <- settings_endpoint, writing <- settings_writing,
    copied <- settings_copied, next <- settings_next,
    accepted <- settings_accepted, returned <- settings_returned,
    bounds <- settings_bounds, limit <- settings_limit,
    processor <- settings_processor, made <- settings_made,
    changing <- settings_changing

\* Reads of up to three bytes, from calls that nest.
Reading ==
  INSTANCE IoStreamTransport WITH MaxBytes <- 3, Sizes <- {0, 1, 2},
    StreamsGoBad <- TRUE, Nested <- TRUE, MaxWrites <- 0, Outputs <- {},
    OutputFails <- FALSE, m_bytes_needed <- stream_m_bytes_needed,
    m_cursor <- stream_m_cursor, m_buf <- stream_m_buf, pc <- stream_pc,
    taken <- stream_taken, endpoint <- stream_endpoint, created <- stream_created
\* Four writes, to outputs that may fail.
Writing ==
  INSTANCE IoStreamTransport WITH MaxBytes <- 0, Sizes <- {},
    StreamsGoBad <- FALSE, Nested <- FALSE, MaxWrites <- 4,
    Outputs <- {"stream", "handler", "vector"}, OutputFails <- TRUE,
    m_bytes_needed <- stream_m_bytes_needed, m_cursor <- stream_m_cursor,
    m_buf <- stream_m_buf, pc <- stream_pc, taken <- stream_taken,
    endpoint <- stream_endpoint, created <- stream_created

\* Reads of up to three bytes from the test transport.
Debugging ==
  INSTANCE DebugTransport WITH MaxSize <- 3, MaxSteps <- 3, read <- debug_read,
    input <- debug_input, writes <- debug_writes

\* Texts put together from hosts, ports around the limits, and paths.
Of(schemes, hosts, ports, paths) ==
  {[scheme |-> s, host |-> h, port |-> p, path |-> q] :
     s \in schemes, h \in hosts, p \in ports, q \in paths}
Hosts == {<<>>, <<"a">>, <<"a", "]">>, <<"1", ".", "2">>}
Ports == {<<>>, <<":">>, <<":", "0">>, <<":", "8", "0">>, <<":", "0", "8", "0">>,
          <<":", "4", "4", "3">>, <<":", "9", "0">>, <<":", "6", "5", "5", "3", "5">>,
          <<":", "6", "5", "5", "3", "6">>, <<":", "6", "5", "6", "1", "6">>,
          <<":", "8", "a">>, <<":", "a">>, <<":", ":", "1">>}
Paths == {<<>>, <<"/">>, <<"/", "a">>, <<"/", "/", ":", "1">>, <<"/", "a", "?", "b", "?">>}
NamedTexts == Of({"ws", "wss", "http", "https", "ftp"}, Hosts, Ports, Paths)
ForeignHeaders == {<<>>, <<"a">>, <<"a", ":">>, <<"a", ":", "9">>, <<"a", ":", "0">>,
                   <<"[", ":", ":", "1", "]">>, <<"[", ":", ":", "1", "]", ":", "9">>,
                   <<":", ":", "1">>}
Locating ==
  INSTANCE Uri WITH Texts <- NamedTexts, Headers <- ForeignHeaders

\* Two keys, two subprotocols, and the requests of clients of every kind.
SomeRequests ==
  {[method |-> m, http |-> h, upgrade |-> u, connection |-> c, version |-> v,
    key |-> k, keys00 |-> k00, key3 |-> k00, protocols |-> p, wellformed |-> w,
    uri |-> w, foreign |-> TRUE] :
     m \in {"GET", "POST"}, h \in {"HTTP/1.1", "HTTP/1.0"},
     u \in {"absent", "token", "among", "other"}, c \in {"absent", "token", "within"},
     v \in {-3, -1, 0, 13, 14}, k \in {"k1", None},
     k00 \in BOOLEAN, p \in {<<>>, <<"chat">>}, w \in BOOLEAN}
Agreeing ==
  INSTANCE OpeningHandshake WITH Keys <- {"k1", "k2"},
    Protocols <- {"chat", "log"}, ForeignRequests <- SomeRequests,
    processor <- agree_processor, read <- agree_read, response <- agree_response,
    server <- agree_server, client <- agree_client


\* Two threads send, close and pause a connection of a client that drops it on errors.
Calling ==
  INSTANCE ConnectionSession WITH AppThreads <- {"t1", "t2"}, Io <- "io",
    Calls <- {"send", "close", "pause"}, IsServer <- FALSE, DropOnError <- TRUE,
    CloseTimer <- TRUE, MaxCalls <- 1, MaxFrames <- 1, state <- session_state,
    stateLock <- session_stateLock, wasClean <- session_wasClean, ec <- session_ec,
    queue <- session_queue, current <- session_current,
    writeFlag <- session_writeFlag, writes <- session_writes,
    posted <- session_posted, reads <- session_reads, readFlag <- session_readFlag,
    timer <- session_timer, strays <- session_strays, due <- session_due,
    shutting <- session_shutting, pc <- session_pc, msg <- session_msg,
    calls <- session_calls, frames <- session_frames, pushed <- session_pushed,
    wire <- session_wire, lost <- session_lost, closeCalls <- session_closeCalls
\* A server that sends, closes and pauses in its handlers only.
Handlers ==
  INSTANCE ConnectionSession WITH AppThreads <- {}, Io <- "io",
    Calls <- {"send", "close", "pause"}, IsServer <- TRUE, DropOnError <- FALSE,
    CloseTimer <- TRUE, MaxCalls <- 2, MaxFrames <- 2, state <- session_state,
    stateLock <- session_stateLock, wasClean <- session_wasClean, ec <- session_ec,
    queue <- session_queue, current <- session_current,
    writeFlag <- session_writeFlag, writes <- session_writes,
    posted <- session_posted, reads <- session_reads, readFlag <- session_readFlag,
    timer <- session_timer, strays <- session_strays, due <- session_due,
    shutting <- session_shutting, pc <- session_pc, msg <- session_msg,
    calls <- session_calls, frames <- session_frames, pushed <- session_pushed,
    wire <- session_wire, lost <- session_lost, closeCalls <- session_closeCalls

\* Settings around the limits of the windows, clients that limit the window they deflate
\* with, and single offers.
Set(s, c, sm, cm) == [s |-> s, c |-> c, sm |-> sm, cm |-> cm]
FourModes == {"accept", "decline", "largest", "smallest"}
AllServers == {Set(s, c, sm, cm) : s \in {8, 15}, c \in {8, 10}, sm \in FourModes, cm \in {"accept", "largest"}}
SomeClients ==
  {Set(15, 15, "accept", "accept"), Set(15, 9, "accept", "accept"),
   Set(15, 10, "decline", "largest"), Set(15, 10, "largest", "smallest")}
SingleOffers ==
  {<<[n \in names |-> IF n \in {"serverBits", "clientBits"} THEN v ELSE w]>> :
     names \in SUBSET {"clientBits", "clientNoTakeover", "serverBits", "serverNoTakeover"},
     v \in {-1, 7, 8, 9, 15, 16, 264}, w \in {-1, 1}}
Zlib ==
  INSTANCE DeflateNegotiation WITH ServerSettings <- AllServers,
    ClientSettings <- SomeClients, OfferLists <- SingleOffers, ZlibMayFail <- TRUE,
    server <- deflate_server, client <- deflate_client, pc <- deflate_pc,
    taken <- deflate_taken, response <- deflate_response

\* The request lines, headers and bodies that come in pieces.
Reader ==
  INSTANCE HttpMessage WITH Texts <- {}, Kind <- "request", max_header_size <- 24,
    m_body_bytes_max <- 2,
    m_buf <- http_m_buf, state <- http_state
OneLine(s) == <<s, "CR", "LF">>
HeaderSets ==
  {<<>>} \cup {OneLine(h) : h \in Reader!HeaderLines}
  \cup {OneLine("host") \o OneLine(h) : h \in Reader!HeaderLines}
Texts ==
  {OneLine(f) \o h \o <<"CR", "LF">> \o t : f \in Reader!FirstLines, h \in HeaderSets,
     t \in {<<>>, <<"d", "e", "f">>, <<"d", "CR", "LF", "CR", "LF">>}}
Request ==
  INSTANCE HttpMessage WITH Texts <- Texts, Kind <- "request",
    max_header_size <- 24, m_body_bytes_max <- 2, m_buf <- http_m_buf,
    state <- http_state
\* Responses, of which a client reads the body as well.
Response ==
  INSTANCE HttpMessage WITH Texts <- Texts, Kind <- "response",
    max_header_size <- 60, m_body_bytes_max <- 2, m_buf <- http_m_buf,
    state <- http_state

\* Every text of four symbols, and of four after the beginning of a parameter.
Reads ==
  INSTANCE HttpParameters WITH
    Beginnings <- {<<>>, <<"b", ";", "a", "=">>, <<"b", ";", "b", "=", "b", ";", "a", "=", "QUOTE">>},
    MaxMore <- 4, input <- header_input

\* Messages cut into frames, control frames between them, and frames the protocol forbids.
Sender ==
  INSTANCE Hybi13 WITH Frames <- {}, BasicSize <- 2, ExtendedSize <- 4, MaxMessageSize <- 8,
    IsServer <- TRUE, MaxFrames <- 1, MaxRead <- 2,
    sent <- frames_sent, wire <- frames_wire, buf <- frames_buf,
    m_state <- frames_m_state, m_bytes_needed <- frames_m_bytes_needed,
    m_cursor <- frames_m_cursor, b0 <- frames_b0, b1 <- frames_b1,
    current <- frames_current, got <- frames_got, ec <- frames_ec
Framed(code, fin, payload) == Sender!Frame(code, fin, TRUE, payload)
Long == <<"ascii", "ascii", "ascii", "ascii", "lead", "cont">>
AllFrames ==
  {Framed("text", FALSE, <<"ascii", "lead">>), Framed("binary", FALSE, <<"lead", "cont", "cont">>),
   Framed("continuation", FALSE, <<>>), Framed("continuation", TRUE, <<"cont">>),
   Framed("continuation", TRUE, Long), Framed("ping", TRUE, <<"ascii">>),
   \* and forbidden ones
   [Framed("text", TRUE, <<"ascii">>) EXCEPT !.rsv = TRUE],
   Sender!Frame("text", TRUE, FALSE, <<"ascii">>), Framed("text", TRUE, <<"ascii", "cont", "ascii">>),
   Framed("text", TRUE, <<"lead">>), Framed("rsv3", TRUE, <<>>), Framed("control_rsvb", TRUE, <<>>),
   Framed("ping", FALSE, <<>>), Framed("ping", TRUE, Long),
   [Framed("binary", TRUE, <<"ascii">>) EXCEPT !.code = "16bit"],
   [Framed("binary", TRUE, <<"ascii", "lead", "cont">>) EXCEPT !.code = "64bit"]}
Incoming ==
  INSTANCE Hybi13 WITH Frames <- AllFrames, BasicSize <- 2, ExtendedSize <- 4,
    MaxMessageSize <- 8, IsServer <- TRUE, MaxFrames <- 3, MaxRead <- 2,
    sent <- frames_sent, wire <- frames_wire, buf <- frames_buf,
    m_state <- frames_m_state, m_bytes_needed <- frames_m_bytes_needed,
    m_cursor <- frames_m_cursor, b0 <- frames_b0, b1 <- frames_b1,
    current <- frames_current, got <- frames_got, ec <- frames_ec

\* The first protocol, between two ends of the library.
OldPeer ==
  INSTANCE Hybi00 WITH MaxWire <- 7, Foreign <- FALSE, wire <- old_wire,
    sent <- old_sent, buf <- old_buf, m_state <- old_m_state, got <- old_got
\* And with a peer that may send any bytes.
AnyPeer ==
  INSTANCE Hybi00 WITH MaxWire <- 4, Foreign <- TRUE, wire <- old_wire,
    sent <- old_sent, buf <- old_buf, m_state <- old_m_state, got <- old_got

\* Payloads of up to nineteen bytes, masked in any pieces, by words of eight bytes.
MaskingKeys == {<<0, 1, 2, 3>>, <<3, 1, 0, 0>>, <<0, 0, 0, 2>>, <<1, 3, 1, 3>>, <<1, 0, 0, 0>>}
MaskedData == [i \in 1 .. 19 |-> ((i * i) + (i \div 3)) % 4]
Masking ==
  INSTANCE FrameMask WITH Keys <- MaskingKeys, Content <- MaskedData, Base <- 4,
    Word <- 8, LittleEndian <- TRUE, key <- mask_key,
    prepared_key <- mask_prepared_key, input <- mask_input, output <- mask_output

\* The same with words of four bytes, the highest first.
MaskingBig ==
  INSTANCE FrameMask WITH Keys <- MaskingKeys, Content <- MaskedData, Base <- 4,
    Word <- 4, LittleEndian <- FALSE, key <- bigmask_key,
    prepared_key <- bigmask_prepared_key, input <- bigmask_input,
    output <- bigmask_output

\* The sizes around the limits of the three encodings.
Headers ==
  INSTANCE FrameHeader WITH Opcodes <- {0, 1, 2, 8, 10, 15},
    Sizes <- {0, 1, 124, 125, 126, 127, 128, 255, 256, 65534, 65535, 65536, 16777217, 2147483647},
    MaskingKeys <- {<<0, 0, 0, 1>>, <<255, 1, 128, 7>>}, b0 <- fields_b0,
    b1 <- fields_b1

\* The bytes at the borders of the rows of the table.
Boundaries ==
  {0, 127, 128, 143, 144, 159, 160, 191, 192, 193, 194, 223, 224, 225, 236, 237, 238, 239,
   240, 241, 243, 244, 245, 255}
Validating ==
  INSTANCE Utf8Validator WITH SampleBytes <- Boundaries, MaxChars <- 2,
    m_state <- utf8_m_state

------------------------------------------------------------------------------
\* A part that the behaviour is not about stays in one of its initial states.
Inputs(p, S) == IF part \in p THEN S ELSE {CHOOSE s \in S : TRUE}

MCInit ==
  /\ part \in Parts
  /\ Init
  /\ OfInternal!Init
  /\ SettingsInit
  /\ FromThread!SettingsInit
  /\ IF part = "output" THEN Writing!Init ELSE Reading!Init
  /\ Debugging!Init
  /\ Locating!Init
  /\ requested \in Inputs({"agree"}, {<<>>, <<"chat">>, <<"log">>, <<"chat", "log">>, <<"log", "chat">>})
  /\ Agreeing!Init
  /\ SessionInit
  /\ IF part = "handlers" THEN Handlers!SessionInit ELSE Calling!SessionInit
  /\ deflate_server \in Inputs({"deflate"}, {Zlib!Endpoint(set) : set \in AllServers})
  /\ deflate_client \in Inputs({"deflate"}, {Zlib!Endpoint(set) : set \in SomeClients})
  /\ offers \in Inputs({"deflate"}, SingleOffers)
  /\ Zlib!Init
  /\ text \in Inputs({"request", "response"},
         IF part = "response" THEN Texts ELSE Texts)
  /\ IF part = "response" THEN Response!Init ELSE Request!Init
  /\ header_input \in Inputs({"parameters"}, {<<>>, <<"b", ";", "a", "=">>, <<"b", ";", "b", "=", "b", ";", "a", "=", "QUOTE">>})
  /\ Reads!Init
  /\ Incoming!Init
  /\ OldPeer!Init
  /\ mask_key \in Inputs({"mask"}, MaskingKeys)
  /\ Masking!Init
  /\ bigmask_key \in Inputs({"bigmask"}, MaskingKeys)
  /\ MaskingBig!Init
  /\ want \in Inputs({"fields"}, {w \in Headers!Fields : ~w.rsv2 /\ ~w.rsv3 /\ (w.op >= 8 => w.fin /\ ~w.rsv1)})
  /\ Headers!Init
  /\ Validating!Init

OwnVars == <<own_object, own_service, own_host>>
ThreadVars == <<settings_endpoint, settings_writing, settings_copied,
  settings_next, settings_accepted, settings_returned, settings_bounds,
  settings_limit, settings_processor, settings_made, settings_changing>>
StreamVars == <<m_reading, m_len, stream_m_bytes_needed, stream_m_cursor,
  stream_m_buf, m_read_handler, call, stream_pc, back, stream_taken, ended,
  delivered, misused, answer, stream_endpoint, connection, stream_created, failed,
  shut, asked, written, ok>>
DebugVars == <<debug_read, answers, debug_input, total, supplied, debug_writes,
  timers, steps>>
UriVars == <<given, location, header, resource, address>>
AgreeVars == <<requested, request, agree_processor, agree_read, selected, status,
  agree_response, received, agree_server, agree_client>>
CallsVars == <<session_state, session_stateLock, session_wasClean, session_ec,
  session_queue, session_current, session_writeFlag, session_writes,
  session_posted, session_reads, session_readFlag, session_timer, session_strays,
  session_due, session_shutting, session_pc, session_msg, session_calls,
  session_frames, session_pushed, session_wire, session_lost, session_closeCalls>>
DeflateVars == <<deflate_server, deflate_client, deflate_pc, offers, offer,
  deflate_taken, before, deflate_response, failedInit>>
HttpVars == <<text, at, len, http_m_buf, begin, http_state, headers,
  m_header_bytes, needed, m_body, processed, what>>
ParametersVars == <<header_input, more>>
FramesVars == <<frames_sent, frames_wire, frames_buf, frames_m_state,
  frames_m_bytes_needed, frames_m_cursor, frames_b0, frames_b1, ext, m_data_msg,
  m_control_msg, frames_current, frames_got, frames_ec>>
OldVars == <<old_wire, length, old_sent, closing, old_buf, old_m_state, m_msg,
  old_got, passed>>
MaskVars == <<mask_key, mask_prepared_key, mask_input, mask_output>>
BigMaskVars == <<bigmask_key, bigmask_prepared_key, bigmask_input, bigmask_output>>
FieldsVars == <<want, fields_b0, fields_b1, bytes>>
Utf8Vars == <<utf8_m_state, m_codepoint, char, chars>>
MCVars == <<part, vars, OwnVars, settingsVars, ThreadVars, StreamVars, DebugVars,
           UriVars, AgreeVars, sessionVars, CallsVars, DeflateVars, HttpVars,
           ParametersVars, FramesVars, OldVars, MaskVars, BigMaskVars, FieldsVars,
           Utf8Vars>>

MCNext ==
  /\ UNCHANGED part
  /\ \/ part = "lifetime" /\ Next
     \/ part # "lifetime" /\ UNCHANGED vars
  /\ \/ part = "lifetime_own" /\ OfInternal!Next
     \/ part # "lifetime_own" /\ UNCHANGED OwnVars
  /\ \/ part = "settings" /\ SettingsNext
     \/ part # "settings" /\ UNCHANGED settingsVars
  /\ \/ part = "settings_thread" /\ FromThread!SettingsNext
     \/ part # "settings_thread" /\ UNCHANGED ThreadVars
  /\ \/ part = "stream" /\ Reading!Next
     \/ part = "output" /\ Writing!Next
     \/ part \notin {"stream", "output"} /\ UNCHANGED StreamVars
  /\ \/ part = "debug" /\ Debugging!Next
     \/ part # "debug" /\ UNCHANGED DebugVars
  /\ \/ part = "uri" /\ Locating!Next
     \/ part # "uri" /\ UNCHANGED UriVars
  /\ \/ part = "agree" /\ Agreeing!Next
     \/ part # "agree" /\ UNCHANGED AgreeVars
  /\ \/ part = "sending" /\ SessionNext
     \/ part # "sending" /\ UNCHANGED sessionVars
  /\ \/ part = "calling" /\ Calling!SessionNext
     \/ part = "handlers" /\ Handlers!SessionNext
     \/ part \notin {"calling", "handlers"} /\ UNCHANGED CallsVars
  /\ \/ part = "deflate" /\ Zlib!Next
     \/ part # "deflate" /\ UNCHANGED DeflateVars
  /\ \/ part = "request" /\ Request!Next
     \/ part = "response" /\ Response!Next
     \/ part \notin {"request", "response"} /\ UNCHANGED HttpVars
  /\ \/ part = "parameters" /\ Reads!Next
     \/ part # "parameters" /\ UNCHANGED ParametersVars
  /\ \/ part = "stream_frames" /\ Incoming!Next
     \/ part # "stream_frames" /\ UNCHANGED FramesVars
  /\ \/ part = "library00" /\ OldPeer!Next
     \/ part = "foreign00" /\ AnyPeer!Next
     \/ part \notin {"library00", "foreign00"} /\ UNCHANGED OldVars
  /\ \/ part = "mask" /\ Masking!Next
     \/ part # "mask" /\ UNCHANGED MaskVars
  /\ \/ part = "bigmask" /\ MaskingBig!Next
     \/ part # "bigmask" /\ UNCHANGED BigMaskVars
  /\ \/ part = "fields" /\ Headers!Next
     \/ part # "fields" /\ UNCHANGED FieldsVars
  /\ \/ part = "utf8" /\ Validating!Next
     \/ part # "utf8" /\ UNCHANGED Utf8Vars

MCSpec == MCInit /\ [][MCNext]_MCVars

\* What the components assume of their constants.
ASSUME PartsAssumption ==
  /\ Reading!StreamAssumption
  /\ Writing!StreamAssumption
  /\ Debugging!DebugAssumption
  /\ Locating!TextsAssumption
  /\ Agreeing!HandshakeAssumption
  /\ SessionAssumption
  /\ Calling!SessionAssumption
  /\ Handlers!SessionAssumption
  /\ Zlib!ZlibAssumption
  /\ Request!KindAssumption
  /\ Response!KindAssumption
  /\ Reads!InputAssumption
  /\ Incoming!FramingAssumption
  /\ OldPeer!Hybi00Assumption
  /\ AnyPeer!Hybi00Assumption
  /\ Masking!MaskAssumption
  /\ MaskingBig!MaskAssumption

------------------------------------------------------------------------------
(* Properties, each of the component that its comment names *)

\* Every variable has its type. (What the components' TypeOK add: a pending read has room for
\* what it needs, a status 101 and an open server go together, zlib is set up with windows it
\* takes.)
TypesOK ==
  /\ TypeOK /\ IInv /\ SettingsTypeOK
  /\ part = "calling" => Calling!IInv
  /\ part = "handlers" => Handlers!IInv
  /\ part = "settings_thread" => FromThread!SettingsTypeOK
  /\ part = "stream" => Reading!TypeOK
  /\ part = "debug" => Debugging!TypeOK
  /\ part = "uri" => Locating!TypeOK
  /\ part = "agree" => Agreeing!TypeOK
  /\ part = "deflate" => Zlib!TypeOK

\* EndpointLifetime: a live io_service has exactly one endpoint to delete it, also when an
\* endpoint is moved while it is in use or when init_asio(ec) reports an error.
OneOwnerThroughMoves == part = "lifetime_own" => OfInternal!OneOwner

\* EndpointSettings: a change of a setting by another thread holds for the next client but
\* one at the latest.
ThreadSettingsHold == part = "settings_thread" => FromThread!SettingsHold

\* IoStreamTransport: the bytes given to the connection are those of the stream, once each
\* and in their order, however calls nest.
BytesInOrder == part = "stream" => Reading!BytesInOrder

\* IoStreamTransport: operator>> throws only for a stream that has gone bad.
ThrowsOnlyForStream == part = "stream" => Reading!ThrowsOnlyForStream

\* IoStreamTransport: read_all() and operator>> return only when nobody asks for bytes any
\* more, or there are none, or the stream has gone bad.
ReadsAllItCan ==
  [][part = "stream" /\ Reading!Return /\ call.op \in {"read_all", "stream"} =>
       ~m_reading \/ call.left = 0 \/ call.bad]_StreamVars

\* IoStreamTransport: what has arrived is a beginning of what was written, whichever output
\* each write went to and wherever one failed.
WrittenInOrder == part = "output" => Writing!WrittenInOrder

\* DebugTransport: every byte of the input is in one read, and in one only.
EveryByteOnce == part = "debug" => Debugging!EveryByteOnce

\* DebugTransport, async_read_at_least(): the handler is called with no less than it asked
\* for and no more than it has room for.
AnswerInBounds == part = "debug" => Debugging!AnswerInBounds

\* DebugTransport, read_all(): it continues until all bytes have been read or the connection
\* runs out of read requests.
AllOrNoRead ==
  [][part = "debug" /\ debug_input >= 0 /\ debug_input' = -1 =>
       total' = total + debug_input \/ ~debug_read.on \/ ~debug_read'.on]_DebugVars

\* Uri: a text of the grammar is parsed to its scheme, host, port and path, and refused
\* exactly for a port that is none.
ParsesGrammar == part = "uri" => Locating!ParsesGrammar

\* Uri: the text of an address is parsed to the same address again.
StringParsesBack == part = "uri" => Locating!StringParsesBack

\* Uri: the server ends up with the client's address, though only the header, the request
\* line and the kind of transport reach it.
ServerReadsTheClients == part = "uri" => Locating!ServerReadsTheClients

\* OpeningHandshake: a client opens only when its server did, and with the subprotocol that
\* the server selected.
OpensTogether == part = "agree" => Agreeing!OpensTogether

\* OpeningHandshake: a server opens only for a complete request: upgrade tokens, method,
\* versions and key.
UpgradesOnRequest == part = "agree" => Agreeing!UpgradesOnRequest

\* OpeningHandshake: a subprotocol is selected only from those the client requested.
SelectedWasRequested == part = "agree" => Agreeing!SelectedWasRequested

\* DeflateNegotiation: what one end compresses fits the window the other end inflates with.
WindowsFit == part = "deflate" => Zlib!WindowsFit

\* DeflateNegotiation: the server's window is no larger than the client offered to hold.
OfferRespected == part = "deflate" => Zlib!OfferRespected

\* ConnectionSession: what a session keeps when the threads, or the handlers of the io
\* thread, close and pause as well.
CallsSerial ==
  /\ part = "calling" => Calling!SessionSerial
  /\ part = "handlers" => Handlers!SessionSerial

\* HttpMessage: in whatever pieces it comes, a message is refused, but for its size, exactly
\* for what its text says, and taken as soon as it is whole. Its size is left out: the count
\* that is compared with the limit depends on the pieces.
VerdictOfText ==
  /\ part = "request" => Request!VerdictOfText
  /\ part = "response" => Response!VerdictOfText

\* HttpMessage: the parser takes the bytes of the message and leaves all others to the
\* processor of the frames.
RestIsFrames ==
  /\ part = "request" => Request!RestIsFrames
  /\ part = "response" => Response!RestIsFrames

\* HttpParameters: whatever follows the grammar is read, to the values it means.
GrammarRead == part = "parameters" => Reads!GrammarRead

\* HttpParameters: what is read to the end follows the grammar of the documentation.
OnlyGrammarRead == part = "parameters" => Reads!OnlyGrammarRead

\* Hybi13: a text message that is delivered is whole UTF-8, though its frames cut characters
\* in two.
TextIsComplete == part = "stream_frames" => Incoming!TextIsComplete

\* Hybi13 implements FrameStream: the messages delivered are those of the frames that were
\* sent, and the connection fails on the first frame that the protocol forbids and on no
\* other.
StreamPromise == Incoming!StreamPromise

\* Hybi00: what was consumed is the frames of the messages delivered and of the one that is
\* being read.
ConsumedAreFrames ==
  /\ part = "library00" => OldPeer!ConsumedAreFrames
  /\ part = "foreign00" => AnyPeer!ConsumedAreFrames

\* Hybi00: between two ends of the library every message arrives as it was sent, and the
\* closing frame after all of them.
ArrivesAsSent == part = "library00" => OldPeer!ArrivesAsSent

\* FrameMask: in whatever pieces a payload is masked, and whether byte by byte or word by
\* word, it is masked as a whole.
PiecesAgree ==
  /\ part = "mask" => Masking!PiecesAgree
  /\ part = "mask" => Masking!KeyInPlace
  /\ part = "mask" => Masking!WordsAgree
  /\ part = "bigmask" => MaskingBig!PiecesAgree

\* FrameHeader: the size of a payload is read as it was written, at every limit of its
\* encodings, and so are the key and the flags, whatever was set in between.
SizeReadBack ==
  /\ part = "fields" => Headers!SizeReadBack
  /\ part = "fields" => Headers!KeyReadBack
  /\ part = "fields" => Headers!FieldsApart

\* FrameHeader: the shortest encoding is used, which RFC6455 5.2 demands and the reader
\* checks.
EncodingMinimal == part = "fields" => Headers!EncodingMinimal

\* Utf8Validator: a byte sequence is refused at the first byte after which no character is
\* possible, and not before.
RefusesAtOnce == part = "utf8" => Validating!RefusesAtOnce

\* Utf8Validator: what is accepted is exactly the characters of UTF-8, without surrogates and
\* overlong forms, with their code points.
AcceptsCharacters == part = "utf8" => Validating!AcceptsCharacters

------------------------------------------------------------------------------
(* What is checked of the components: their properties, by what they promise    *)

\* The components' variables have their types, and what is handed on stays the same: an
\* io_service has one owner however endpoints are moved; the two sides of an opening
\* handshake end up with the same address, protocol and windows or do not open; and what is
\* read depends on the text and not on the pieces it comes in, but that the size at which an
\* HTTP header is refused counts the pieces too.
ContentsAgree ==
  /\ TypesOK
  /\ CallsSerial
  /\ ThreadSettingsHold
  /\ OneOwnerThroughMoves
  /\ ParsesGrammar
  /\ StringParsesBack
  /\ ServerReadsTheClients
  /\ OpensTogether
  /\ UpgradesOnRequest
  /\ SelectedWasRequested
  /\ WindowsFit
  /\ OfferRespected
  /\ VerdictOfText
  /\ RestIsFrames
  /\ GrammarRead
  /\ OnlyGrammarRead

\* What is delivered is what was sent: the transports without a socket hand over every byte
\* once and in order, however the calls nest and wherever a stream fails; and headers, masks,
\* texts and messages are read as they were framed, in whatever pieces, and refused at the
\* first byte that cannot be right.
BytesArrive ==
  /\ [](BytesInOrder /\ ThrowsOnlyForStream /\ WrittenInOrder /\ EveryByteOnce
       /\ AnswerInBounds /\ TextIsComplete /\ ConsumedAreFrames
       /\ ArrivesAsSent /\ PiecesAgree /\ SizeReadBack /\ EncodingMinimal
       /\ RefusesAtOnce /\ AcceptsCharacters)
  /\ ReadsAllItCan
  /\ AllOrNoRead
  /\ StreamPromise

==============================================================================
