--------------------------- MODULE OpeningHandshake ---------------------------
(***************************************************************************)
(* What the two sides of the opening handshake say to each other, and what *)
(* they make of it: the request of a client of this library or of another  *)
(* one, the choice of a processor by the server, the checks of the         *)
(* processors (processors/processor.hpp, hybi13.hpp, hybi00.hpp), the      *)
(* validate handler, and the check of the response, which need not be the  *)
(* one to this request.                                                    *)
(*                                                                         *)
(* A header is abstracted to what the checks tell apart. SHA-1 and MD5     *)
(* are taken to be free of collisions.                                     *)
(***************************************************************************)
EXTENDS Integers, Sequences, FiniteSets, SequencesExt

CONSTANTS
  None,             \* no header, or nothing yet
  Keys,             \* values of Sec-WebSocket-Key
  Protocols,        \* names of subprotocols
  ForeignRequests   \* requests of other clients

\* What is assumed of the constants.
HandshakeAssumption == Keys # {} /\ IsFiniteSet(Protocols)

NoProcessor == -1
Absent == -3  \* no version header
Text == -2    \* one that is no number
versions_supported == {0, 7, 8, 13}
TokenValues == {"token", "among", "within"}  \* the token alone, in a list, in a word
Answer(kind, key) == <<kind, key>>           \* of SHA-1 or MD5

VARIABLES
  requested,   \* the subprotocols that the client added
  request,     \* what was sent, None before
  processor,   \* the version of the server's processor
  read,        \* the subprotocols that the server has read
  selected,    \* the subprotocol of the server's connection
  status,      \* of the response, 0 before
  response,    \* what the server has sent, None before
  received,    \* the response that the client has checked
  server,      \* "reading", "processing", "validating", "opened", "refused", "http"
  client       \* "idle", "waiting", "opened", "failed"

vars == <<requested, request, processor, read, selected, status, response, received, server, client>>

Init ==
  /\ requested \in {p \in UNION {[1 .. n -> Protocols] : n \in 0 .. Cardinality(Protocols)} :
                      \A i, j \in DOMAIN p : p[i] = p[j] => i = j}
  /\ request = None /\ processor = NoProcessor /\ read = <<>> /\ selected = None
  /\ status = 0 /\ response = None /\ received = None /\ server = "reading" /\ client = "idle"

------------------------------------------------------------------------------
(* The request *)

Own(key) ==
  [method |-> "GET", http |-> "HTTP/1.1", upgrade |-> "token", connection |-> "token",
   version |-> 13, key |-> key, keys00 |-> FALSE, key3 |-> FALSE,
   protocols |-> requested, wellformed |-> TRUE, uri |-> TRUE, foreign |-> FALSE]

client_handshake_request ==
  /\ client = "idle" /\ client' = "waiting"
  /\ \E key \in Keys : request' = Own(key)
  /\ UNCHANGED <<requested, processor, read, selected, status, response, server, received>>

\* A client that is not of this library; it has no state here.
ForeignRequest ==
  /\ client = "idle" /\ client' = "failed" /\ request' \in ForeignRequests
  /\ UNCHANGED <<requested, processor, read, selected, status, response, server, received>>

------------------------------------------------------------------------------
(* The server *)

is_websocket_handshake(r) == r.upgrade \in TokenValues /\ r.connection \in TokenValues

\* -1 if there is a value that is no number.
get_websocket_version(r) ==
  CASE r.version = Absent -> 0
    [] r.version = Text -> -1
    [] OTHER -> r.version

Refuse(code) ==
  /\ status' = code /\ server' = "refused"
  /\ response' = [status |-> code, accept |-> None, protocol |-> None,
                  upgrade |-> FALSE, connection |-> FALSE]
  /\ UNCHANGED <<requested, request, read, selected, client, received>>

\* initialize_processor(), and after it, for version 0, the eight bytes that
\* must have come with the request.
initialize_processor ==
  LET version == get_websocket_version(request) IN
  /\ server = "reading" /\ request # None /\ is_websocket_handshake(request)
  /\ \/ /\ version < 0 /\ processor' = NoProcessor /\ Refuse(400)
     \/ /\ version >= 0 /\ version \notin versions_supported
        /\ processor' = NoProcessor /\ Refuse(400)
     \/ /\ version = 0 /\ ~request.key3 /\ processor' = version /\ Refuse(500)
     \/ /\ version \in versions_supported /\ (version = 0 => request.key3)
        /\ processor' = version /\ server' = "processing"
        /\ UNCHANGED <<requested, request, read, selected, status, response, client, received>>

\* A plain request: has says whether the server has a handler for it.
ProcessHttp(has) ==
  /\ server = "reading" /\ request # None /\ ~is_websocket_handshake(request)
  /\ UNCHANGED processor
  /\ \/ ~request.uri /\ Refuse(400)
     \/ request.uri /\ ~has /\ Refuse(426)
     \/ /\ request.uri /\ has /\ server' = "http"
        /\ UNCHANGED <<requested, request, read, selected, status, response, client, received>>

\* validate_handshake() of the processor.
validate_handshake(version, r) ==
  /\ r.method = "GET" /\ r.http = "HTTP/1.1"
  /\ IF version = 0 THEN r.keys00 ELSE r.key # None

\* extract_subprotocols(): a header that cannot be read is passed over.
extract_subprotocols(r) == IF r.wellformed THEN r.protocols ELSE <<>>

process_handshake_request ==
  /\ server = "processing" /\ UNCHANGED processor
  /\ \/ ~(validate_handshake(processor, request) /\ request.uri) /\ Refuse(400)
     \/ /\ validate_handshake(processor, request) /\ request.uri
        /\ read' = extract_subprotocols(request) /\ server' = "validating"
        /\ UNCHANGED <<requested, request, selected, status, response, client, received>>

Selectable(p) == p \in ToSet(read)

\* select_subprotocol(), in the validate handler; the last selection holds.
select_subprotocol(p) ==
  /\ server = "validating" /\ Selectable(p)
  /\ selected' = p
  /\ UNCHANGED <<requested, request, processor, read, status, response, server, client, received>>

\* The validate handler rejects, with the status it set or with 400.
Reject(code) == server = "validating" /\ UNCHANGED processor /\ Refuse(code)

Accept(key) ==
  [status |-> 101, accept |-> key, protocol |-> selected,
   upgrade |-> TRUE, connection |-> TRUE]

\* process_handshake(), when the handler accepts, or there is none.
process_handshake ==
  /\ server = "validating" /\ server' = "opened" /\ status' = 101
  /\ response' = Accept(Answer(IF processor = 0 THEN "md5" ELSE "sha1", request.key))
  /\ UNCHANGED <<requested, request, processor, read, selected, client, received>>

------------------------------------------------------------------------------
(* The client's side *)

\* The response of some server to another request, which a cache had kept.
OtherResponses ==
  {[status |-> code, accept |-> Answer("sha1", key), protocol |-> p,
    upgrade |-> TRUE, connection |-> TRUE] :
     key \in Keys \ {request.key}, p \in Protocols \cup {None}, code \in {101, 200}}

\* Faulty variant: the accept value is not compared.
Valid_unkeyed(r) == r.status = 101 /\ r.upgrade /\ r.connection

Valid(r) ==
  r.status = 101 /\ r.upgrade /\ r.connection /\ r.accept = Answer("sha1", request.key)

\* validate_server_handshake_response(), of the response or of another one.
validate_server_handshake_response ==
  /\ client = "waiting" /\ response # None
  /\ received' \in {response} \cup OtherResponses
  /\ client' = IF Valid(received') THEN "opened" ELSE "failed"
  /\ UNCHANGED <<requested, request, processor, read, selected, status, response, server>>

\* m_subprotocol of the client's connection: nothing in the library sets it.
ClientSubprotocol == None

Next ==
  \/ client_handshake_request \/ ForeignRequest
  \/ initialize_processor \/ process_handshake_request
  \/ \E has \in BOOLEAN : ProcessHttp(has)
  \/ \E p \in Protocols : select_subprotocol(p)
  \/ \E code \in {400, 403} : Reject(code)
  \/ process_handshake \/ validate_server_handshake_response

Spec == Init /\ [][Next]_vars
------------------------------------------------------------------------------
\* Every variable has its type; the status says 101 exactly when the connection
\* is upgraded.
TypeOK ==
  /\ status \in {0, 101, 400, 403, 426, 500}
  /\ server \in {"reading", "processing", "validating", "opened", "refused", "http"}
  /\ server = "opened" <=> status = 101

\* A client that opens has got the response to its own request, from a server
\* that has opened the connection too, and which uses the subprotocol that the
\* response names: no response to another request opens a connection.
OpensTogether ==
  client = "opened" => server = "opened" /\ received = response /\ received.protocol = selected

\* The server upgrades a connection only for a request that asked for it in
\* every way there is: both headers, the method, HTTP/1.1 and the key, of a
\* version it has a processor for.
UpgradesOnRequest ==
  server = "opened" =>
    /\ request.upgrade \in TokenValues /\ request.connection \in TokenValues
    /\ request.method = "GET" /\ request.http = "HTTP/1.1"
    /\ get_websocket_version(request) \in versions_supported
    /\ request.key # None \/ request.keys00

\* The subprotocol that the server uses is one of those that the request names.
SelectedWasRequested ==
  server = "opened" => selected \in {None} \cup ToSet(request.protocols)

\* connection.hpp:890: "If so, it will return it in it's handshake reponse and the value
\* will be available via get_subprotocol()".
ClientLearnsSubprotocol ==
  client = "opened" => ClientSubprotocol = received.protocol
==============================================================================
