--------------------------- MODULE EndpointLifetime ---------------------------
(***************************************************************************)
(* Who owns the io_service: endpoints of the Asio transport                *)
(* (transport/asio/endpoint.hpp, endpoint.hpp) from their construction to  *)
(* their destruction, with the four overloads of init_asio(), the move     *)
(* constructor and what an endpoint makes on its io_service: the acceptor, *)
(* the resolver and the work object of a perpetual endpoint.               *)
(***************************************************************************)
EXTENDS Naturals, FiniteSets

CONSTANTS
  Endpoints,   \* the endpoint objects of the program
  Services,    \* the io_services the library may make
  External,    \* the io_service the application makes and keeps
  None,        \* the null pointer
  Overloads,   \* the overloads of init_asio() the application calls
  MovesBusy    \* whether endpoints that connect or are perpetual are moved

ASSUME LifetimeAssumption ==
  /\ External \notin Services /\ None \notin Services \cup {External}
  /\ Overloads \subseteq {"external_ec", "external", "internal_ec", "internal"}
  /\ MovesBusy \in BOOLEAN

VARIABLES
  object,   \* the endpoint objects
  service,  \* whether each io_service is unborn, live or deleted
  host      \* how listen(host, service, ec) ended: "none", "ec" or "threw"

vars == <<object, service, host>>

\* What the pointers of an object refer to.
Held == {"m_acceptor", "m_resolver", "m_work"}

NoObject == [alive |-> FALSE, m_state |-> "UNINITIALIZED", m_io_service |-> None,
             m_external |-> FALSE, held |-> [h \in Held |-> None]]

Init ==
  /\ object = [e \in Endpoints |-> NoObject]
  /\ service = [s \in Services \cup {External} |-> IF s = External THEN "live" ELSE "unborn"]
  /\ host = "none"

Alive(e) == object[e].alive

\* endpoint(): m_io_service points nowhere.
Construct(e) ==
  /\ object[e] = NoObject
  /\ object' = [object EXCEPT ![e].alive = TRUE]
  /\ UNCHANGED <<service, host>>

Initialised(e, s) ==
  [object[e] EXCEPT !.m_state = "READY", !.m_io_service = s, !.m_external = TRUE,
                    !.held["m_acceptor"] = s]

\* init_asio(ptr, ec) and init_asio(ptr): an error or an exception if called
\* from the wrong state.
InitExternal(e) ==
  /\ Alive(e) /\ {"external_ec", "external"} \cap Overloads # {}
  /\ object[e].m_state = "UNINITIALIZED"
  /\ object' = [object EXCEPT ![e] = Initialised(e, External)]
  /\ UNCHANGED <<service, host>>

\* The smart pointer of init_asio() lets go of the service, or deletes it.
Released(ok) == IF ok THEN "live" ELSE "deleted"

\* init_asio(): the exception of a wrong state leaves before the last lines.
InitInternal(e, s) ==
  /\ Alive(e) /\ "internal" \in Overloads /\ service[s] = "unborn"
  /\ LET ok == object[e].m_state = "UNINITIALIZED"
     IN /\ service' = [service EXCEPT ![s] = Released(ok)]
        /\ object' = IF ok
             THEN [object EXCEPT ![e] = [Initialised(e, s) EXCEPT !.m_external = FALSE]]
             ELSE object
  /\ UNCHANGED host

\* init_asio(ec): m_external_io_service is cleared whatever ec says.
InitInternalEc(e, s) ==
  /\ Alive(e) /\ "internal_ec" \in Overloads /\ service[s] = "unborn"
  /\ LET ok == object[e].m_state = "UNINITIALIZED"
     IN /\ service' = [service EXCEPT ![s] = Released(ok)]
        /\ object' = [object EXCEPT ![e] =
             [(IF ok THEN Initialised(e, s) ELSE @) EXCEPT !.m_external = FALSE]]
  /\ UNCHANGED host

\* listen(host, service, ec): a READY endpoint listens, or ec says why not;
\* resolve() throws when the host is not found.
Listen(e) ==
  /\ Alive(e) /\ object[e].m_state # "UNINITIALIZED"
  /\ \/ /\ object[e].m_state = "READY"
        /\ object' = [object EXCEPT ![e].m_state = "LISTENING"] /\ host' = "ec"
     \/ host' \in {"ec", "threw"} /\ UNCHANGED object
  /\ UNCHANGED service

\* stop_listening(): the acceptor stays, closed.
StopListening(e) ==
  /\ Alive(e) /\ object[e].m_state = "LISTENING"
  /\ object' = [object EXCEPT ![e].m_state = "READY"]
  /\ UNCHANGED <<service, host>>

\* async_connect() makes a resolver, once.
AsyncConnect(e) ==
  /\ Alive(e) /\ object[e].m_state = "READY" /\ object[e].held["m_resolver"] = None
  /\ object' = [object EXCEPT ![e].held["m_resolver"] = object[e].m_io_service]
  /\ UNCHANGED <<service, host>>

StartPerpetual(e) ==
  /\ Alive(e) /\ object[e].m_state # "UNINITIALIZED"
  /\ object' = [object EXCEPT ![e].held["m_work"] = object[e].m_io_service]
  /\ UNCHANGED <<service, host>>

StopPerpetual(e) ==
  /\ Alive(e) /\ object' = [object EXCEPT ![e].held["m_work"] = None]
  /\ UNCHANGED <<service, host>>

\* Faulty variant: the source keeps its state, and its claim.
MovedFrom_State(src) == [src EXCEPT !.held["m_acceptor"] = None]

\* What the move constructor leaves of its source: resolver and work stay.
MovedFrom(src) ==
  [src EXCEPT !.m_io_service = None, !.m_external = FALSE, !.m_state = "UNINITIALIZED",
              !.held["m_acceptor"] = None]

\* What it makes: an endpoint without resolver and work.
MovedTo(src) == [src EXCEPT !.held["m_resolver"] = None, !.held["m_work"] = None]

Busy(e) == object[e].held["m_resolver"] # None \/ object[e].held["m_work"] # None

Move(e, f) ==
  /\ Alive(e) /\ object[f] = NoObject
  /\ MovesBusy \/ ~Busy(e)
  /\ object' = [object EXCEPT ![e] = MovedFrom(@), ![f] = MovedTo(object[e])]
  /\ UNCHANGED <<service, host>>

Owns(e) == object[e].m_state # "UNINITIALIZED" /\ ~object[e].m_external

\* ~endpoint(): what the object holds goes first, then its own service.
Destroy(e) ==
  /\ Alive(e)
  /\ service' = IF Owns(e) THEN [service EXCEPT ![object[e].m_io_service] = "deleted"]
                ELSE service
  /\ object' = [object EXCEPT ![e] = [NoObject EXCEPT !.m_state = "gone"]]
  /\ UNCHANGED host

Next ==
  \E e \in Endpoints :
    \/ Construct(e) \/ InitExternal(e) \/ Listen(e) \/ StopListening(e)
    \/ AsyncConnect(e) \/ StartPerpetual(e) \/ StopPerpetual(e) \/ Destroy(e)
    \/ \E s \in Services : InitInternal(e, s) \/ InitInternalEc(e, s)
    \/ \E f \in Endpoints \ {e} : Move(e, f)

Spec == Init /\ [][Next]_vars

-----------------------------------------------------------------------------
TypeOK ==
  /\ object \in [Endpoints -> [alive : BOOLEAN,
       m_state : {"UNINITIALIZED", "READY", "LISTENING", "gone"},
       m_io_service : Services \cup {External, None}, m_external : BOOLEAN,
       held : [Held -> Services \cup {External, None}]]]
  /\ service \in [Services \cup {External} -> {"unborn", "live", "deleted"}]
  /\ host \in {"none", "ec", "threw"}

\* A live service of the library has exactly one endpoint to delete it, and
\* nobody deletes the application's: through every order of initialisations,
\* moves and destructions nothing leaks and nothing is deleted twice
\* ("clean up our io_service if we were initialized with an internal one").
OneOwner ==
  /\ \A s \in Services :
       /\ service[s] = "live" =>
            Cardinality({e \in Endpoints : Owns(e) /\ object[e].m_io_service = s}) = 1
       /\ service[s] # "live" => \A e \in Endpoints : object[e].m_io_service # s
  /\ \A e \in Endpoints : Owns(e) => object[e].m_io_service # External

\* What an endpoint holds is on a service that still exists: its destructor
\* would use it.
HeldOnLiveService ==
  \A e \in Endpoints, h \in Held :
    object[e].held[h] # None => service[object[e].held[h]] = "live"

\* What there is has one owner, and is there while it is used.
OwnedAndLive == OneOwner /\ HeldOnLiveService

\* listen() with an error code is documented as exception free.
ListenExceptionFree == host # "threw"
=============================================================================
