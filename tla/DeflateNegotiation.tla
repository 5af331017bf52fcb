-------------------------- MODULE DeflateNegotiation --------------------------
(***************************************************************************)
(* The negotiation of permessage-deflate between a client and a server     *)
(* (extensions/permessage_deflate/enabled.hpp, called by                   *)
(* hybi13::negotiate_extensions_helper): the client's offers, which the    *)
(* server takes attribute by attribute until one succeeds, zlib set up,    *)
(* the response, and what the client makes of it.                          *)
(*                                                                         *)
(* An endpoint is the record of the members of class enabled, with the     *)
(* windows that zlib was set up with. An offer is a function from names to *)
(* values; a value is -1 if absent, or the number that atoi() reads.       *)
(***************************************************************************)
EXTENDS Integers, Sequences, FiniteSets

CONSTANTS
  ServerSettings, ClientSettings,  \* sets of [s, c, sm, cm]: bits and modes set
  OfferLists,                      \* what the client may offer
  ZlibMayFail

\* What is assumed of the constants.
ZlibAssumption == ZlibMayFail \in BOOLEAN

Default == 15
Minimum == 8
Maximum == 15
Blank == -1
Modes == {"accept", "decline", "largest", "smallest"}
InRange(bits) == bits \in Minimum .. Maximum

VARIABLES
  server, client,  \* the two endpoints
  pc,              \* "choose", "negotiate", "init", "respond", "agree", "done"
  offers,          \* offers not looked at yet
  offer,           \* what is left of the present one, or the response
  taken,           \* history: the offer that is being negotiated, as it came
  before,          \* history: the server when it began
  response,        \* the attributes of the response, once there is one
  failedInit       \* what init() of the server returned was an error

vars == <<server, client, pc, offers, offer, taken, before, response, failedInit>>

\* enabled(), then set_server_max_window_bits() and set_client_max_window_bits().
Kept(bits) == IF bits = 8 THEN 9 ELSE bits

Endpoint(set) ==
  [enabled |-> FALSE, initialized |-> FALSE,
   serverNoTakeover |-> FALSE, clientNoTakeover |-> FALSE,
   serverBits |-> Kept(set.s), clientBits |-> Kept(set.c),
   serverMode |-> set.sm, clientMode |-> set.cm, deflate |-> 0, inflate |-> 0]

NoAttributes == [n \in {} |-> 0]

\* generate_offer(): the same for every setting: what a client of the library sends.
generate_offer ==
  [n \in {"clientNoTakeover", "clientBits"} |-> Blank]

Init ==
  /\ server \in {Endpoint(set) : set \in ServerSettings}
  /\ client \in {Endpoint(set) : set \in ClientSettings}
  /\ offers \in OfferLists \cup {<<generate_offer>>} /\ offer = NoAttributes /\ taken = NoAttributes
  /\ before = server /\ pc = "choose" /\ response = {} /\ failedInit = FALSE

------------------------------------------------------------------------------
(* negotiate(): one attribute, on one endpoint *)

\* The window of a direction, by the mode of this endpoint.
ChosenBits(mode, bits, own, default) ==
  Kept(CASE mode = "decline" -> default
         [] mode = "accept" -> bits
         [] mode = "largest" -> (IF bits < own THEN bits ELSE own)
         [] mode = "smallest" -> Minimum)

Byte(n) == n % 256

Result(e, ok) == [endpoint |-> e, ok |-> ok]

server_max_window_bits(e, value) ==
  LET bits == IF value = Blank THEN 0 ELSE Byte(value) IN
  IF ~InRange(bits) THEN Result([e EXCEPT !.serverBits = Default], FALSE)
  ELSE Result([e EXCEPT !.serverBits = ChosenBits(e.serverMode, bits, @, Default)], TRUE)

\* A client may offer its attribute without a value.
client_max_window_bits(e, value) ==
  LET bits == IF value = Blank THEN Default ELSE Byte(value) IN
  IF ~InRange(bits) THEN Result([e EXCEPT !.clientBits = Default], FALSE)
  ELSE Result([e EXCEPT !.clientBits = ChosenBits(e.clientMode, bits, @, Default)], TRUE)

no_context_takeover(e, name, value) ==
  IF value = Blank THEN Result([e EXCEPT ![name] = TRUE], TRUE) ELSE Result(e, FALSE)

negotiate(e, name, value) ==
  CASE name = "serverBits" -> server_max_window_bits(e, value)
    [] name = "clientBits" -> client_max_window_bits(e, value)
    [] name \in {"serverNoTakeover", "clientNoTakeover"} ->
         no_context_takeover(e, name, value)
    [] OTHER -> Result(e, FALSE)

\* std::map iterates in the order of the names.
Order == <<"clientBits", "clientNoTakeover", "other", "serverBits", "serverNoTakeover">>
FirstOf(attributes) ==
  Order[CHOOSE i \in DOMAIN Order : Order[i] \in DOMAIN attributes
          /\ \A j \in 1 .. i - 1 : Order[j] \notin DOMAIN attributes]
Without(attributes, name) ==
  [n \in DOMAIN attributes \ {name} |-> attributes[n]]

------------------------------------------------------------------------------
(* The server: negotiate_extensions_helper() *)

\* The next offer; those of other extensions are passed over (they are not in
\* the list). With no offer left there is no extension.
Choose ==
  /\ pc = "choose"
  /\ IF offers = <<>>
       THEN pc' = "done" /\ UNCHANGED <<offers, offer, taken, before>>
       ELSE /\ offer' = Head(offers) /\ taken' = Head(offers) /\ offers' = Tail(offers)
            /\ before' = server /\ pc' = "negotiate"
  /\ UNCHANGED <<server, client, response, failedInit>>

\* An attribute that fails ends the offer: the search goes on with the next one.
Negotiate ==
  /\ pc = "negotiate" /\ DOMAIN offer # {}
  /\ LET name == FirstOf(offer)
         r == negotiate(server, name, offer[name])
     IN /\ server' = r.endpoint
        /\ offer' = IF r.ok THEN Without(offer, name) ELSE NoAttributes
        /\ pc' = IF r.ok THEN "negotiate" ELSE "choose"
  /\ UNCHANGED <<client, offers, taken, before, response, failedInit>>

Negotiated ==
  /\ pc = "negotiate" /\ DOMAIN offer = {}
  /\ server' = [server EXCEPT !.enabled = TRUE] /\ pc' = "init"
  /\ UNCHANGED <<client, offers, offer, taken, before, response, failedInit>>

\* init(is_server): each end deflates with its own window and inflates with the
\* window of the other.
Windows(e, is_server) ==
  [e EXCEPT !.initialized = TRUE,
            !.deflate = IF is_server THEN e.serverBits ELSE e.clientBits,
            !.inflate = IF is_server THEN e.clientBits ELSE e.serverBits]

init ==
  /\ pc = "init"
  /\ server' = Windows(server, TRUE) /\ pc' = "respond"
  /\ UNCHANGED <<client, offers, offer, taken, before, response, failedInit>>

\* zlib fails: the reason is returned, and the response has no extension.
InitFails ==
  /\ pc = "init" /\ ZlibMayFail
  /\ failedInit' = TRUE /\ pc' = "done"
  /\ UNCHANGED <<server, client, offers, offer, taken, before, response>>

\* generate_response().
generate_response ==
  [n \in {m \in {"serverNoTakeover", "clientNoTakeover"} : server[m]}
         \cup {m \in {"serverBits", "clientBits"} : server[m] < Default}
     |-> IF n \in {"serverBits", "clientBits"} THEN server[n] ELSE Blank]

Respond ==
  /\ pc = "respond"
  /\ response' = {generate_response} /\ offer' = generate_response /\ pc' = "agree"
  /\ UNCHANGED <<server, client, offers, taken, before, failedInit>>

------------------------------------------------------------------------------
(* The client: the same function, on the response *)

ClientNegotiate ==
  /\ pc = "agree" /\ DOMAIN offer # {}
  /\ LET name == FirstOf(offer)
         r == negotiate(client, name, offer[name])
     IN /\ client' = r.endpoint
        /\ offer' = Without(offer, name)
        /\ pc' = IF r.ok THEN "agree" ELSE "done"
  /\ UNCHANGED <<server, offers, taken, before, response, failedInit>>

ClientInit ==
  /\ pc = "agree" /\ DOMAIN offer = {}
  /\ client' = [Windows(client, FALSE) EXCEPT !.enabled = TRUE] /\ pc' = "done"
  /\ UNCHANGED <<server, offers, offer, taken, before, response, failedInit>>

Next ==
  \/ Choose \/ Negotiate \/ Negotiated \/ init \/ InitFails \/ Respond
  \/ ClientNegotiate \/ ClientInit

Spec == Init /\ [][Next]_vars
------------------------------------------------------------------------------
\* zlib takes windows of 9 to 15 bits only, and an endpoint that has set it up
\* has negotiated.
TypeOK ==
  /\ \A e \in {server, client} :
       /\ e.serverBits \in 9 .. 15 /\ e.clientBits \in 9 .. 15
       /\ e.initialized => e.enabled /\ e.deflate \in 9 .. 15 /\ e.inflate \in 9 .. 15
  /\ Cardinality(response) <= 1

\* What one end compresses with a window, the other can decompress: at the end
\* of the negotiation no end deflates with a larger window than its peer
\* inflates with.
WindowsFit ==
  (pc = "done" /\ client.initialized) =>
    server.deflate <= client.inflate /\ client.deflate <= server.inflate

\* The window the server announces for itself is not larger than the one that
\* was asked of it, but that 9 stands for 8, unless it declines; and in the mode
\* "largest" not larger than its own limit either.
OfferRespected ==
  (pc = "respond" /\ "serverBits" \in DOMAIN taken /\ server.serverMode # "decline") =>
    /\ server.serverBits <= Kept(Byte(taken["serverBits"]))
    /\ server.serverMode = "largest" => server.serverBits <= before.serverBits

\* enabled.hpp:445: "A server may only limit the client's window size if the
\* remote client supports that feature."
LimitsSupportingClients ==
  \A r \in response : "clientBits" \in DOMAIN r => "clientBits" \in DOMAIN taken

\* hybi13.hpp:149: "negotiation offer failed. Do nothing."
FailedOfferDoesNothing ==
  [][Negotiate /\ pc' = "choose" => server' = before]_vars

\* connection_impl.hpp:1230: "Consider extension negotiation to have failed and
\* continue as if extensions were not supported".
FailedInitDisables == failedInit => ~server.enabled
==============================================================================
