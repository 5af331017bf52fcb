--------------------------------- MODULE Uri ---------------------------------
(***************************************************************************)
(* The address of a connection (uri.hpp) on its way: the text that a       *)
(* client is given is parsed, its host and port become the Host header and *)
(* its resource the request line, and the server makes an address of its   *)
(* own from those two (processors/processor.hpp, hybi00.hpp). Requests of  *)
(* other clients bring Host headers of other forms.                        *)
(*                                                                         *)
(* A text is a sequence of characters. Letters are alike; a port has few   *)
(* enough digits for the int of atoi(). A sign before the digits leads to  *)
(* a port out of range there, and to port 0, refused as well, here.        *)
(***************************************************************************)
EXTENDS Integers, Sequences, SequencesExt

CONSTANTS
  None,      \* no address yet
  Texts,     \* the parts of the texts that clients are given
  Headers    \* Host headers of other clients

Digits == <<"0", "1", "2", "3", "4", "5", "6", "7", "8", "9">>
Schemes == {"ws", "wss", "http", "https"}
uri_default_port == 80
uri_default_secure_port == 443
DefaultPort(secure) == IF secure THEN uri_default_secure_port ELSE uri_default_port
Separate(part) == \A i \in DOMAIN part : part[i] \notin {"/", ":", "["}

\* What is assumed of the constants.
TextsAssumption ==
  \A t \in Texts : DOMAIN t = {"scheme", "host", "port", "path"}

VARIABLES
  given,      \* the text of the client, in its parts
  location,   \* the uri that the client made of it
  header,     \* Host
  resource,   \* of the request line
  address     \* the uri that the server made

vars == <<given, location, header, resource, address>>

Init == given = None /\ location = None /\ header = None /\ resource = None /\ address = None

------------------------------------------------------------------------------
(* class uri *)

Until(s, marks) ==
  LET k == SelectInSeq(s, LAMBDA c : c \in marks) IN IF k = 0 THEN s ELSE SubSeq(s, 1, k - 1)
After(s, n) == SubSeq(s, n + 1, Len(s))

atoi(s) ==
  LET digits == Until(s, {s[i] : i \in DOMAIN s} \ ToSet(Digits))
  IN FoldLeft(LAMBDA n, d : (10 * n) + (SelectInSeq(Digits, LAMBDA c : c = d) - 1), 0, digits)

\* The number in decimal, as a stream writes it.
decimal(n) ==
  LET of[k \in Nat] ==
        IF k < 10 THEN <<Digits[k + 1]>> ELSE Append(of[k \div 10], Digits[(k % 10) + 1])
  IN of[n]

Invalid == [valid |-> FALSE]
get_port_from_string(port, secure) == IF port = <<>> THEN DefaultPort(secure) ELSE atoi(port)
PortValid(n) == n # 0 /\ n <= 65535

\* The constructors that take parts.
Made(secure, host, port, path) ==
  IF PortValid(port)
  THEN [valid |-> TRUE, secure |-> secure, host |-> host, port |-> port,
        resource |-> IF path = <<>> THEN <<"/">> ELSE path]
  ELSE Invalid

\* What follows the host: a port up to the path, and the path without its "/".
PortAndPath(secure, host, tail) ==
  LET marked == tail # <<>> /\ tail[1] = ":"
      port == IF marked THEN Until(After(tail, 1), {"/"}) ELSE <<>>
      path == After(tail, IF marked THEN Len(port) + 1 ELSE 0)
  IN Made(secure, host, get_port_from_string(port, secure), <<"/">> \o After(path, 1))

\* "[" and an address up to "]".
Literal(secure, rest) ==
  LET end == SelectInSeq(rest, LAMBDA c : c = "]")
      tail == After(rest, end)
  IN IF end = 0 \/ (tail # <<>> /\ tail[1] \notin {"/", ":"})
     THEN Invalid
     ELSE PortAndPath(secure, SubSeq(rest, 2, end - 1), tail)

Named(secure, rest) ==
  LET host == Until(rest, {"/", ":"}) IN PortAndPath(secure, host, After(rest, Len(host)))

uri(scheme, rest) ==
  CASE scheme \notin Schemes \/ rest = <<>> -> Invalid
    [] scheme \in Schemes /\ rest # <<>> /\ rest[1] = "[" ->
         Literal(scheme \in {"wss", "https"}, rest)
    [] OTHER -> Named(scheme \in {"wss", "https"}, rest)

\* Without a port where it is the default one.
get_host_port(u) ==
  IF u.port = DefaultPort(u.secure) THEN u.host ELSE u.host \o <<":">> \o decimal(u.port)

\* str() without the scheme.
str(u) ==
  (IF u.port = DefaultPort(u.secure) THEN u.host ELSE u.host \o <<":">> \o decimal(u.port))
    \o u.resource

get_query(u) == LET k == SelectInSeq(u.resource, LAMBDA c : c = "?")
                IN IF k = 0 THEN <<>> ELSE After(u.resource, k)

\* The server's uri: the last ":" of the Host header begins a port unless a "]" follows it.
get_uri_from_host(h, secure, path) ==
  LET colon == SelectLastInSeq(h, LAMBDA c : c = ":")
      brace == SelectLastInSeq(h, LAMBDA c : c = "]")
  IN IF colon = 0 \/ brace > colon
     THEN Made(secure, h, DefaultPort(secure), path)
     ELSE Made(secure, SubSeq(h, 1, colon - 1),
               get_port_from_string(After(h, colon), secure), path)

------------------------------------------------------------------------------
(* The way of an address *)

Written(t) == t.host \o t.port \o t.path

\* get_connection() of the client parses the text.
get_connection ==
  /\ given = None /\ header = None
  /\ \E t \in Texts : given' = t /\ location' = uri(t.scheme, Written(t))
  /\ UNCHANGED <<header, resource, address>>

client_handshake_request ==
  /\ header = None /\ location # None /\ location.valid
  /\ header' = get_host_port(location) /\ resource' = location.resource
  /\ UNCHANGED <<given, location, address>>

foreign_request ==
  /\ given = None /\ header = None
  /\ \E h \in Headers : header' = h
  /\ resource' = <<"/">>
  /\ UNCHANGED <<given, location, address>>

\* The processor's get_uri(): the transport of the server knows whether it is secure.
get_uri ==
  /\ header # None /\ address = None
  /\ \E secure \in IF location = None THEN BOOLEAN ELSE {location.secure} :
       address' = get_uri_from_host(header, secure, resource)
  /\ UNCHANGED <<given, location, header, resource>>

Next == get_connection \/ client_handshake_request \/ foreign_request \/ get_uri
Spec == Init /\ [][Next]_vars

------------------------------------------------------------------------------
(* Properties *)

Wellformed(u) == u.valid => (u.port \in 1 .. 65535 /\ u.resource # <<>>)

\* Every address that counts as valid has a port that sixteen bits hold, not 0, and a resource.
TypeOK ==
  /\ location # None => Wellformed(location)
  /\ address # None => Wellformed(address)

\* The parser takes a text apart as it was put together: for a host without separators, a port
\* of digits or none, and a path.
ParsesGrammar ==
  given # None /\ given.scheme \in Schemes /\ Separate(given.host) /\ Written(given) # <<>> =>
    LET digits == After(given.port, 1)
        n == IF digits = <<>> THEN DefaultPort(given.scheme \in {"wss", "https"}) ELSE atoi(digits)
    IN (ToSet(digits) \subseteq ToSet(Digits) /\ (given.path # <<>> => given.path[1] = "/")) =>
         /\ location.valid <=> n \in 1 .. 65535
         /\ location.valid => /\ location.host = given.host /\ location.port = n
                              /\ location.resource =
                                   IF given.path = <<>> THEN <<"/">> ELSE given.path

\* The text of an address is parsed to the same address again: what the server sends as
\* Sec-WebSocket-Location, or an application stores and connects to later, leads to this place.
StringParsesBack ==
  location # None /\ location.valid =>
    uri(IF location.secure THEN "wss" ELSE "ws", str(location)) = location

\* The server ends up with the client's address, though only the header, the request line and
\* the kind of transport reach it.
ServerReadsTheClients == address # None /\ location # None => address = location

\* get_query() returns what the text has behind its first question mark.
QueryFound ==
  location # None /\ location.valid =>
    LET text == Written(given)
        k == SelectInSeq(text, LAMBDA c : c = "?")
    IN get_query(location) = IF k = 0 THEN <<>> ELSE After(text, k)
==============================================================================
