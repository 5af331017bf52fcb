------------------------ MODULE EndpointLifetimeProofs ------------------------
(***************************************************************************)
(* Who deletes the io_service, for any number of endpoints and services:   *)
(* without init_asio(ec) every service of the library has one owner, and   *)
(* if no endpoint that connects or is perpetual is moved, whatever an      *)
(* endpoint holds is on a service that still exists. Further below: the    *)
(* settings that connections are given, and the attempts of a client to    *)
(* connect, of which its endpoint hears once.                              *)
(***************************************************************************)
EXTENDS EndpointLifetime, EndpointSettings, ConnectClient, FiniteSetTheorems, TLAPS

\* The overload that clears m_external whatever the error is not called.
NoErrorCode == "internal_ec" \notin Overloads

Handles == Services \cup {External, None}
States == {"UNINITIALIZED", "READY", "LISTENING", "gone"}
Objects ==
  [alive : BOOLEAN, m_state : States, m_io_service : Handles, m_external : BOOLEAN,
   held : [Held -> Handles]]

\* An endpoint has a service from its initialisation to its end or its move,
\* and knows whose it is; what it holds is on that service.
Sound(o) ==
  /\ o \in Objects
  /\ o.alive => o.m_state # "gone"
  /\ o.m_state \in {"UNINITIALIZED", "gone"} => o.m_io_service = None
  /\ o.m_state \in {"READY", "LISTENING"} =>
       /\ o.m_io_service # None
       /\ o.m_external <=> o.m_io_service = External
  /\ ~MovesBusy => \A h \in Held : o.held[h] # None => o.held[h] = o.m_io_service

LInv ==
  /\ object \in [Endpoints -> Objects] /\ \A e \in Endpoints : Sound(object[e])
  /\ service \in [Services \cup {External} -> {"unborn", "live", "deleted"}]
  /\ service[External] = "live"
  /\ \A e \in Endpoints :
       object[e].m_io_service # None => service[object[e].m_io_service] = "live"
  /\ \A e, f \in Endpoints :
       object[e].m_io_service \in Services /\ object[e].m_io_service = object[f].m_io_service => e = f
  /\ \A s \in Services :
       service[s] = "live" => \E e \in Endpoints : object[e].m_io_service = s

-----------------------------------------------------------------------------
LEMMA NoObjectIsSound ==
  /\ Sound(NoObject) /\ Sound([NoObject EXCEPT !.alive = TRUE])
  /\ Sound([NoObject EXCEPT !.m_state = "gone"]) /\ NoObject.m_io_service = None
BY DEF Sound, NoObject, Objects, States, Handles, Held

LEMMA LInvInit == ASSUME Init PROVE LInv
<1>1. \A e \in Endpoints : object[e] = NoObject
  BY DEF Init
<1>2. NoObject \in Objects
  BY NoObjectIsSound DEF Sound
<1>3. object \in [Endpoints -> Objects]
  BY <1>2 DEF Init
<1>4. /\ service \in [Services \cup {External} -> {"unborn", "live", "deleted"}]
      /\ service[External] = "live" /\ \A s \in Services : service[s] = "unborn"
  BY LifetimeAssumption DEF Init
<1> QED BY <1>1, <1>3, <1>4, NoObjectIsSound, LifetimeAssumption DEF LInv

\* One endpoint changes, and keeps its service or takes the application's.
LEMMA OneChanges ==
  ASSUME LInv, NEW e \in Endpoints, NEW o, Sound(o), UNCHANGED service,
         object' = [object EXCEPT ![e] = o],
         \/ o.m_io_service = object[e].m_io_service
         \/ o.m_io_service = External /\ object[e].m_io_service = None
  PROVE  LInv'
<1>1. o \in Objects /\ object \in [Endpoints -> Objects]
  BY DEF Sound, LInv
<1>2. object' \in [Endpoints -> Objects] /\ object'[e] = o
  BY <1>1
<1>3. \A f \in Endpoints : f # e => object'[f] = object[f]
  BY <1>1
<1>4. \A f \in Endpoints : Sound(object'[f])
  BY <1>2, <1>3 DEF LInv
<1>5. \A f \in Endpoints :
        object'[f].m_io_service # None => service[object'[f].m_io_service] = "live"
  BY <1>2, <1>3 DEF LInv
<1>6. \A f \in Endpoints :
        object'[f].m_io_service = object[f].m_io_service \/ object'[f].m_io_service = External
  BY <1>2, <1>3
<1>7. \A f, g \in Endpoints :
        object'[f].m_io_service \in Services /\ object'[f].m_io_service = object'[g].m_io_service
          => f = g
  BY <1>6, LifetimeAssumption DEF LInv
<1>8. \A s \in Services : service[s] = "live" => \E f \in Endpoints : object'[f].m_io_service = s
  <2>1. \A f \in Endpoints :
          object[f].m_io_service \in Services => object'[f].m_io_service = object[f].m_io_service
    BY <1>2, <1>3, LifetimeAssumption
  <2> QED BY <2>1 DEF LInv
<1> QED BY <1>2, <1>4, <1>5, <1>7, <1>8 DEF LInv

\* What init_asio() makes of an endpoint that was not initialised.
LEMMA InitialisedIsSound ==
  ASSUME LInv, NEW e \in Endpoints, object[e].m_state = "UNINITIALIZED", Alive(e),
         NEW s \in Services \cup {External}
  PROVE  /\ s = External => Sound(Initialised(e, s))
         /\ s # External => Sound([Initialised(e, s) EXCEPT !.m_external = FALSE])
         /\ Initialised(e, s).m_io_service = s
<1>1. Sound(object[e]) /\ object[e].m_io_service = None
  BY DEF LInv, Sound
<1> DEFINE k == Initialised(e, s)
<1>2. /\ k.alive = object[e].alive /\ k.m_state = "READY" /\ k.m_io_service = s /\ k.m_external = TRUE
      /\ k.held = [object[e].held EXCEPT !["m_acceptor"] = s]
      /\ k \in Objects
  BY <1>1 DEF Sound, Objects, Initialised, States, Handles, Held
<1>3. s # None
  BY LifetimeAssumption
<1>4. ~MovesBusy => \A h \in Held : k.held[h] # None => k.held[h] = s
  BY <1>1, <1>2 DEF Sound, Objects
<1> HIDE DEF k
<1>5. s = External => Sound(k)
  BY <1>2, <1>3, <1>4 DEF Sound
<1>6. s # External => Sound([k EXCEPT !.m_external = FALSE])
  BY <1>2, <1>3, <1>4 DEF Sound, Objects
<1> QED BY <1>2, <1>5, <1>6 DEF k

LEMMA InitInternalKeeps ==
  ASSUME LInv, NEW e \in Endpoints, NEW s \in Services, InitInternal(e, s)
  PROVE  LInv'
<1>1. /\ object \in [Endpoints -> Objects] /\ service[s] = "unborn" /\ s # External /\ s # None
      /\ service \in [Services \cup {External} -> {"unborn", "live", "deleted"}]
  BY LifetimeAssumption DEF LInv, InitInternal
<1>2. \A f \in Endpoints : object[f].m_io_service # s
  BY <1>1 DEF LInv
<1>3. CASE object[e].m_state = "UNINITIALIZED"
  <2>1. PICK o \in Objects :
          object' = [object EXCEPT ![e] = o] /\ Sound(o) /\ o.m_io_service = s
    <3> DEFINE o == [Initialised(e, s) EXCEPT !.m_external = FALSE]
    <3>1. object' = [object EXCEPT ![e] = o]
      BY <1>3 DEF InitInternal
    <3>2. Sound(o)
      BY <1>1, <1>3, InitialisedIsSound DEF InitInternal
    <3>3. o.m_io_service = s
      BY DEF Initialised
    <3> QED BY <3>1, <3>2, <3>3 DEF Sound
  <2>2. service' = [service EXCEPT ![s] = "live"]
    BY <1>3 DEF InitInternal, Released
  <2>3. object' \in [Endpoints -> Objects] /\ object'[e] = o
    BY <1>1, <2>1
  <2>4. \A f \in Endpoints : f # e => object'[f] = object[f]
    BY <1>1, <2>1
  <2>5. /\ service' \in [Services \cup {External} -> {"unborn", "live", "deleted"}]
        /\ service'[s] = "live" /\ \A t \in Services \cup {External} : t # s => service'[t] = service[t]
    BY <1>1, <2>2
  <2>6. object[e].m_io_service = None
    BY <1>3 DEF LInv, Sound
  <2>7. \A f \in Endpoints : Sound(object'[f])
    BY <2>1, <2>3, <2>4 DEF LInv
  <2>8. \A f \in Endpoints :
          object'[f].m_io_service # None => service'[object'[f].m_io_service] = "live"
    <3>1. \A f \in Endpoints : object[f].m_io_service \in Handles
      BY <1>1 DEF Objects
    <3> QED BY <1>2, <2>1, <2>3, <2>4, <2>5, <3>1 DEF LInv, Handles
  <2>9. \A f, g \in Endpoints :
          object'[f].m_io_service \in Services /\ object'[f].m_io_service = object'[g].m_io_service
            => f = g
    BY <1>2, <2>1, <2>3, <2>4 DEF LInv
  <2>10. \A t \in Services : service'[t] = "live" => \E f \in Endpoints : object'[f].m_io_service = t
    <3> SUFFICES ASSUME NEW t \in Services, service'[t] = "live"
                 PROVE  \E f \in Endpoints : object'[f].m_io_service = t
      OBVIOUS
    <3>1. CASE t = s
      BY <3>1, <2>1, <2>3
    <3>2. CASE t # s
      <4>1. PICK f \in Endpoints : object[f].m_io_service = t
        BY <3>2, <2>5 DEF LInv
      <4>2. f # e
        BY <4>1, <2>6, LifetimeAssumption
      <4> QED BY <4>1, <4>2, <2>4
    <3> QED BY <3>1, <3>2
  <2>11. service'[External] = "live"
    BY <1>1, <2>5 DEF LInv
  <2> QED BY <2>3, <2>5, <2>7, <2>8, <2>9, <2>10, <2>11 DEF LInv
<1>4. CASE object[e].m_state # "UNINITIALIZED"
  <2>1. UNCHANGED object /\ service' = [service EXCEPT ![s] = "deleted"]
    BY <1>4 DEF InitInternal, Released
  <2>2. /\ service' \in [Services \cup {External} -> {"unborn", "live", "deleted"}]
        /\ service'[s] = "deleted" /\ \A t \in Services \cup {External} : t # s => service'[t] = service[t]
    BY <1>1, <2>1
  <2>3. \A f \in Endpoints :
          object'[f].m_io_service # None => service'[object'[f].m_io_service] = "live"
    <3>1. \A f \in Endpoints : object[f].m_io_service \in Handles
      BY <1>1 DEF Objects
    <3> QED BY <1>2, <2>1, <2>2, <3>1 DEF LInv, Handles
  <2>4. service'[External] = "live" /\ \A t \in Services : service'[t] = "live" => service[t] = "live"
    BY <1>1, <2>2 DEF LInv
  <2> QED BY <2>1, <2>2, <2>3, <2>4 DEF LInv
<1> QED BY <1>3, <1>4

LEMMA MoveKeeps ==
  ASSUME LInv, NEW e \in Endpoints, NEW f \in Endpoints \ {e}, Move(e, f)
  PROVE  LInv'
<1> DEFINE src == MovedFrom(object[e])
           dst == MovedTo(object[e])
<1>1. /\ object \in [Endpoints -> Objects] /\ Sound(object[e]) /\ object[f].m_io_service = None
      /\ object' = [object EXCEPT ![e] = src, ![f] = dst] /\ UNCHANGED service
      /\ MovesBusy \/ ~Busy(e)
  BY NoObjectIsSound DEF LInv, Move
<1>2. Sound(src) /\ src.m_io_service = None
  BY <1>1 DEF Sound, Objects, MovedFrom, States, Handles, Held, Busy
<1>3. Sound(dst) /\ dst.m_io_service = object[e].m_io_service
  BY <1>1 DEF Sound, Objects, MovedTo, States, Handles, Held
<1> HIDE DEF src, dst
<1>4. src \in Objects /\ dst \in Objects
  BY <1>2, <1>3 DEF Sound
<1>5. object' \in [Endpoints -> Objects] /\ object'[e] = src /\ object'[f] = dst
  BY <1>1, <1>4
<1>6. \A g \in Endpoints : g \notin {e, f} => object'[g] = object[g]
  BY <1>1, <1>4
<1>7. \A g \in Endpoints : Sound(object'[g])
  BY <1>2, <1>3, <1>5, <1>6 DEF LInv
<1>8. \A g \in Endpoints :
        object'[g].m_io_service # None => service[object'[g].m_io_service] = "live"
  BY <1>2, <1>3, <1>5, <1>6 DEF LInv
<1>9. ASSUME NEW g \in Endpoints, NEW h \in Endpoints, object'[g].m_io_service \in Services,
             object'[g].m_io_service = object'[h].m_io_service
      PROVE  g = h
  <2>1. g # e /\ h # e
    BY <1>2, <1>5, <1>9, LifetimeAssumption
  <2>2. CASE g = f /\ h # f
    BY <2>1, <2>2, <1>3, <1>5, <1>6, <1>9 DEF LInv
  <2>3. CASE g # f /\ h = f
    BY <2>1, <2>3, <1>3, <1>5, <1>6, <1>9 DEF LInv
  <2>4. CASE g # f /\ h # f
    BY <2>1, <2>4, <1>6, <1>9 DEF LInv
  <2> QED BY <2>2, <2>3, <2>4
<1>10. ASSUME NEW s \in Services, service[s] = "live"
       PROVE  \E g \in Endpoints : object'[g].m_io_service = s
  <2>1. PICK g \in Endpoints : object[g].m_io_service = s
    BY <1>10 DEF LInv
  <2>2. g # f
    BY <2>1, <1>1, LifetimeAssumption
  <2> QED BY <2>1, <2>2, <1>3, <1>5, <1>6
<1> QED BY <1>1, <1>5, <1>7, <1>8, <1>9, <1>10 DEF LInv

LEMMA DestroyKeeps ==
  ASSUME LInv, NEW e \in Endpoints, Destroy(e)
  PROVE  LInv'
<1> DEFINE o == [NoObject EXCEPT !.m_state = "gone"]
<1>1. Sound(o) /\ o \in Objects /\ o.m_io_service = None
  BY NoObjectIsSound DEF Sound
<1>2. /\ object \in [Endpoints -> Objects] /\ object' = [object EXCEPT ![e] = o]
      /\ service \in [Services \cup {External} -> {"unborn", "live", "deleted"}]
      /\ service' = IF Owns(e) THEN [service EXCEPT ![object[e].m_io_service] = "deleted"] ELSE service
  BY DEF LInv, Destroy
<1> HIDE DEF o
<1>3. object' \in [Endpoints -> Objects] /\ object'[e] = o
  BY <1>1, <1>2
<1>4. \A f \in Endpoints : f # e => object'[f] = object[f]
  BY <1>2
<1>5. \A f \in Endpoints : Sound(object'[f])
  BY <1>1, <1>3, <1>4 DEF LInv
<1>6. \A f, g \in Endpoints :
        object'[f].m_io_service \in Services /\ object'[f].m_io_service = object'[g].m_io_service
          => f = g
  BY <1>1, <1>3, <1>4, LifetimeAssumption DEF LInv
<1>7. /\ Sound(object[e]) /\ object[e].alive
      /\ \/ object[e].m_state \in {"READY", "LISTENING"}
         \/ ~Owns(e) /\ object[e].m_io_service = None
  BY DEF LInv, Sound, Objects, States, Owns, Destroy, Alive
<1>8. CASE Owns(e)
  <2>1. PICK s \in Services : s = object[e].m_io_service
    BY <1>7, <1>8 DEF Sound, Objects, Handles, Owns
  <2>2. /\ service' \in [Services \cup {External} -> {"unborn", "live", "deleted"}]
        /\ service'[s] = "deleted"
        /\ \A t \in Services \cup {External} : t # s => service'[t] = service[t]
    BY <1>2, <1>8, <2>1
  <2>3. \A f \in Endpoints : f # e => object[f].m_io_service # s
    BY <2>1 DEF LInv
  <2>4. \A f \in Endpoints :
          object'[f].m_io_service # None => service'[object'[f].m_io_service] = "live"
    <3>1. \A f \in Endpoints : object'[f].m_io_service \in Handles
      BY <1>3 DEF Objects
    <3> QED BY <1>1, <1>3, <1>4, <2>2, <2>3, <3>1 DEF LInv, Handles
  <2>5. ASSUME NEW t \in Services, service'[t] = "live"
        PROVE  \E f \in Endpoints : object'[f].m_io_service = t
    <3>1. t # s
      BY <2>2, <2>5
    <3>2. PICK f \in Endpoints : object[f].m_io_service = t
      BY <2>2, <2>5, <3>1 DEF LInv
    <3> QED BY <2>1, <3>1, <3>2, <1>4
  <2>6. service'[External] = "live"
    BY <2>2, LifetimeAssumption DEF LInv
  <2> QED BY <1>3, <1>5, <1>6, <2>2, <2>4, <2>5, <2>6 DEF LInv
<1>9. CASE ~Owns(e)
  <2>1. service' = service
    BY <1>2, <1>9
  <2>2. object[e].m_io_service \notin Services
    BY <1>7, <1>9, LifetimeAssumption DEF Sound, Objects, Owns
  <2>3. \A f \in Endpoints :
          object'[f].m_io_service # None => service[object'[f].m_io_service] = "live"
    BY <1>1, <1>3, <1>4 DEF LInv
  <2>4. ASSUME NEW t \in Services, service[t] = "live"
        PROVE  \E f \in Endpoints : object'[f].m_io_service = t
    <3>1. PICK f \in Endpoints : object[f].m_io_service = t
      BY <2>4 DEF LInv
    <3> QED BY <3>1, <2>2, <1>4
  <2> QED BY <1>3, <1>5, <1>6, <2>1, <2>3, <2>4 DEF LInv
<1> QED BY <1>8, <1>9

LEMMA LInvStep == ASSUME NoErrorCode, LInv, [Next]_vars PROVE LInv'
<1>1. CASE UNCHANGED vars
  BY <1>1 DEF vars, LInv
<1>2. ASSUME NEW e \in Endpoints PROVE object[e] \in Objects /\ Sound(object[e]) /\ object \in [Endpoints -> Objects]
  BY DEF LInv
<1>3. ASSUME NEW e \in Endpoints, Construct(e) PROVE LInv'
  <2>1. object' = [object EXCEPT ![e] = [NoObject EXCEPT !.alive = TRUE]] /\ UNCHANGED service
    BY <1>3 DEF Construct
  <2>2. [NoObject EXCEPT !.alive = TRUE].m_io_service = object[e].m_io_service
    BY <1>3 DEF Construct, NoObject
  <2> QED BY <2>1, <2>2, NoObjectIsSound, OneChanges
<1>4. ASSUME NEW e \in Endpoints, InitExternal(e) PROVE LInv'
  <2>1. /\ object' = [object EXCEPT ![e] = Initialised(e, External)] /\ UNCHANGED service
        /\ object[e].m_io_service = None
    BY <1>2, <1>4 DEF InitExternal, Sound
  <2>2. Sound(Initialised(e, External)) /\ Initialised(e, External).m_io_service = External
    BY <1>4, InitialisedIsSound DEF InitExternal
  <2> QED BY <2>1, <2>2, OneChanges
<1>5. ASSUME NEW e \in Endpoints, Listen(e) \/ StopListening(e) PROVE LInv'
  <2>1. PICK st \in {"READY", "LISTENING"} :
          /\ object[e].m_state \in {"READY", "LISTENING"} /\ UNCHANGED service
          /\ object' = [object EXCEPT ![e] = [object[e] EXCEPT !.m_state = st]]
          \/ UNCHANGED <<object, service>>
    BY <1>5 DEF Listen, StopListening
  <2> DEFINE o == [object[e] EXCEPT !.m_state = st]
  <2>2. CASE UNCHANGED <<object, service>>
    BY <2>2 DEF LInv
  <2>3. CASE /\ object[e].m_state \in {"READY", "LISTENING"} /\ UNCHANGED service
             /\ object' = [object EXCEPT ![e] = o]
    <3>1. Sound(o) /\ o.m_io_service = object[e].m_io_service
      BY <1>2, <2>3 DEF Sound, Objects, States
    <3> HIDE DEF o
    <3> QED BY <2>3, <3>1, OneChanges
  <2> QED BY <2>1, <2>2, <2>3
<1>6. ASSUME NEW e \in Endpoints, AsyncConnect(e) \/ StartPerpetual(e) \/ StopPerpetual(e) PROVE LInv'
  <2>1. PICK x \in Held, to \in {None, object[e].m_io_service} :
          object' = [object EXCEPT ![e] = [object[e] EXCEPT !.held[x] = to]] /\ UNCHANGED service
    BY <1>6 DEF AsyncConnect, StartPerpetual, StopPerpetual, Held
  <2> DEFINE o == [object[e] EXCEPT !.held[x] = to]
  <2>2. to \in Handles
    BY <1>2 DEF Objects, Handles
  <2>3. /\ o \in Objects /\ o.held = [object[e].held EXCEPT ![x] = to] /\ o.alive = object[e].alive
        /\ o.m_io_service = object[e].m_io_service /\ o.m_state = object[e].m_state
        /\ o.m_external = object[e].m_external
    BY <1>2, <2>2 DEF Objects
  <2> HIDE DEF o
  <2>4. Sound(o)
    BY <1>2, <2>3 DEF Sound, Objects
  <2> QED BY <2>1, <2>3, <2>4, OneChanges DEF o
<1>7. ASSUME NEW e \in Endpoints, NEW s \in Services, InitInternal(e, s) \/ InitInternalEc(e, s)
      PROVE  LInv'
  BY <1>7, InitInternalKeeps DEF InitInternalEc, NoErrorCode
<1>8. ASSUME NEW e \in Endpoints, NEW f \in Endpoints \ {e}, Move(e, f) PROVE LInv'
  BY <1>8, MoveKeeps
<1>9. ASSUME NEW e \in Endpoints, Destroy(e) PROVE LInv'
  BY <1>9, DestroyKeeps
<1> QED BY <1>1, <1>3, <1>4, <1>5, <1>6, <1>7, <1>8, <1>9 DEF Next

-----------------------------------------------------------------------------
\* Without init_asio(ec), a service of the library that is live has exactly one
\* endpoint that deletes it, none refers to one that is not, and no endpoint
\* deletes the application's, however endpoints are made, initialised, moved
\* and destroyed.
THEOREM ServicesHaveOneOwner == NoErrorCode => (Spec => []OneOwner)
<1> SUFFICES ASSUME NoErrorCode PROVE Spec => []OneOwner
  OBVIOUS
<1>1. Init => LInv
  BY LInvInit
<1>2. LInv /\ [Next]_vars => LInv'
  BY LInvStep
<1>3. LInv => OneOwner
  <2> SUFFICES ASSUME LInv PROVE OneOwner
    OBVIOUS
  <2>1. ASSUME NEW s \in Services, service[s] = "live"
        PROVE  Cardinality({e \in Endpoints : Owns(e) /\ object[e].m_io_service = s}) = 1
    <3>1. PICK e \in Endpoints : object[e].m_io_service = s
      BY <2>1 DEF LInv
    <3>2. Owns(e)
      BY <3>1, LifetimeAssumption DEF LInv, Sound, Objects, States, Owns
    <3>3. {f \in Endpoints : Owns(f) /\ object[f].m_io_service = s} = {e}
      BY <3>1, <3>2 DEF LInv
    <3> QED BY <3>3, FS_Singleton
  <2>2. ASSUME NEW s \in Services, service[s] # "live", NEW e \in Endpoints
        PROVE  object[e].m_io_service # s
    BY <2>2, LifetimeAssumption DEF LInv
  <2>3. ASSUME NEW e \in Endpoints, Owns(e) PROVE object[e].m_io_service # External
    BY <2>3, LifetimeAssumption DEF LInv, Sound, Objects, States, Owns
  <2> QED BY <2>1, <2>2, <2>3 DEF OneOwner
<1> QED BY <1>1, <1>2, <1>3, PTL DEF Spec

\* If, besides, no endpoint that connects or is perpetual is moved, acceptor,
\* resolver and work object are on a service that still exists.
THEOREM HeldIsLive == NoErrorCode /\ ~MovesBusy => (Spec => []HeldOnLiveService)
<1> SUFFICES ASSUME NoErrorCode, ~MovesBusy PROVE Spec => []HeldOnLiveService
  OBVIOUS
<1>1. Init => LInv
  BY LInvInit
<1>2. LInv /\ [Next]_vars => LInv'
  BY LInvStep
<1>3. LInv => HeldOnLiveService
  BY DEF LInv, Sound, HeldOnLiveService
<1> QED BY <1>1, <1>2, <1>3, PTL DEF Spec

\* Both, as they are checked: an io_service has one owner, and what an endpoint
\* holds is on one that lives.
THEOREM LivesAreOwned == NoErrorCode /\ ~MovesBusy => (Spec => []OwnedAndLive)
<1> SUFFICES ASSUME NoErrorCode, ~MovesBusy PROVE Spec => []OwnedAndLive
  OBVIOUS
<1>1. Spec => []OneOwner
  BY ServicesHaveOneOwner
<1>2. Spec => []HeldOnLiveService
  BY HeldIsLive
<1>3. OneOwner /\ HeldOnLiveService => OwnedAndLive
  BY DEF OwnedAndLive
<1> QED BY <1>1, <1>2, <1>3, PTL
------------------------------------------------------------------------------
(* The settings of an endpoint (EndpointSettings) *)

SettingTypes ==
  /\ endpoint \in [Settings -> Nat] /\ returned \in [Settings -> Nat]
  /\ next \in [Settings -> Int] /\ writing \in Settings \cup {Nothing}
  /\ copied \in (0 .. Len(CopyOrder)) \cup {Unset}
  /\ accepted \in Seq([Settings -> Int])
  /\ bounds \in Seq([Settings -> Nat] \X [Settings -> Nat])
  /\ Len(bounds) = Len(accepted) /\ limit \in Nat \cup {Unset}

\* The settings that are copied: all of them, once the connection is there.
Copied == {CopyOrder[j] : j \in {k \in 1 .. Len(CopyOrder) : copied = Unset \/ k <= copied}}

\* A value that the endpoint had since the connection began to be created, or,
\* of more than one machine word, a torn one.
Current(s) ==
  \/ next[s] = Torn /\ s \notin WordSettings
  \/ returned[s] <= next[s] /\ next[s] <= Coming[s]

\* What the endpoint has given the next connection, and the ones that were
\* accepted.
PassedOn ==
  /\ \A s \in Settings : returned[s] <= endpoint[s]
  /\ \A s \in Settings : Current(s) \/ (s \notin Copied /\ next[s] = 0)
  /\ OneClientBehind

\* The same with one thread: it does not set while it copies.
OneThread ==
  /\ copied # Unset => writing = Nothing /\ endpoint = returned
  /\ \A s \in Settings : next[s] = returned[s] \/ (s \notin Copied /\ next[s] = 0)
  /\ SettingsOfOneMoment

\* Limit, processor and a change on its way, with one thread.
OneLimit ==
  /\ made # Unset => made = limit /\ changing = Unset
  /\ changing # Unset => changing = limit
  /\ LimitTakesEffect

SettingsInv == SettingTypes /\ PassedOn /\ (~OtherThread => OneThread /\ OneLimit)


LEMMA Placed ==
  /\ Len(CopyOrder) \in Nat /\ \A j \in 1 .. Len(CopyOrder) : CopyOrder[j] \in Settings
  /\ Settings = {CopyOrder[j] : j \in 1 .. Len(CopyOrder)} /\ Limit \in Settings
  /\ Unset \notin Nat /\ Unset = -2 /\ Torn = -1
<1>1. Settings = {CopyOrder[j] : j \in DOMAIN CopyOrder}
  BY DEF Settings, ToSet
<1>2. Len(CopyOrder) \in Nat /\ DOMAIN CopyOrder = 1 .. Len(CopyOrder)
  BY SettingsAssumption
<1> QED BY <1>1, <1>2, SettingsAssumption DEF Unset, Torn

LEMMA InitialSettings == ASSUME SettingsInit PROVE SettingsInv
<1>1. Configured \in [Settings -> Nat] /\ \A s \in Settings : Configured[s] = 0
  BY DEF Configured
<1>2. SettingTypes
  <2>1. <<>> \in Seq([Settings -> Int]) /\ Len(<<>>) = 0
    OBVIOUS
  <2>2. <<>> \in Seq([Settings -> Nat] \X [Settings -> Nat])
    OBVIOUS
  <2>3. 0 \in 0 .. Len(CopyOrder)
    BY Placed
  <2> QED BY <1>1, <2>1, <2>2, <2>3 DEF SettingsInit, SettingTypes
<1>3. \A s \in Settings : next[s] = 0 /\ endpoint[s] = 0 /\ returned[s] = 0 /\ Coming[s] = 0
  BY <1>1 DEF SettingsInit, Coming
<1>4. DOMAIN accepted = {} /\ Unset # 0
  BY Placed DEF SettingsInit
<1>5. PassedOn
  BY <1>3, <1>4 DEF PassedOn, Current, OneClientBehind
<1>6. OneThread /\ OneLimit
  BY <1>3, <1>4 DEF OneThread, OneLimit, SettingsInit, SettingsOfOneMoment, LimitTakesEffect
<1> QED BY <1>2, <1>5, <1>6 DEF SettingsInv


\* The endpoint's members, with the change that is being made.
LEMMA ComingFrom ==
  ASSUME NEW e \in [Settings -> Nat], NEW w \in Settings \cup {Nothing}, Nothing \notin Settings,
         NEW c, c = IF w = Nothing THEN e ELSE [e EXCEPT ![w] = @ + 1]
  PROVE  /\ c \in [Settings -> Nat]
         /\ \A s \in Settings : IF w = s THEN c[s] = e[s] + 1 ELSE c[s] = e[s]
         /\ \A s \in Settings : e[s] <= c[s]
<1>1. CASE w = Nothing
  BY <1>1
<1>2. CASE w # Nothing
  <2>1. c = [e EXCEPT ![w] = e[w] + 1]
    BY <1>2
  <2> QED BY <1>2, <2>1
<1> QED BY <1>1, <1>2

LEMMA ComingIs ==
  ASSUME SettingTypes
  PROVE  /\ Coming \in [Settings -> Nat]
         /\ \A s \in Settings : IF writing = s THEN Coming[s] = endpoint[s] + 1
                                  ELSE Coming[s] = endpoint[s]
         /\ \A s \in Settings : endpoint[s] <= Coming[s]
<1>1. Coming = IF writing = Nothing THEN endpoint ELSE [endpoint EXCEPT ![writing] = @ + 1]
  BY DEF Coming
<1> QED BY <1>1, ComingFrom, SettingsAssumption DEF SettingTypes

\* A setter of the endpoint begins or ends.
LEMMA SetKeeps ==
  ASSUME SettingsInv, (\E s \in Settings : set_begin(s)) \/ set_end
  PROVE  SettingsInv'
<1>1. SettingTypes
  BY DEF SettingsInv
<1>2. /\ UNCHANGED <<copied, next, accepted, returned, bounds, limit, processor, made, changing>>
      /\ ~OtherThread => copied = Unset
  <2>1. CASE \E s \in Settings : set_begin(s)
    BY <2>1 DEF set_begin, serverVars, limitVars, MayCall
  <2>2. CASE set_end
    BY <2>2 DEF set_end, serverVars, limitVars, SettingsInv, OneThread
  <2> QED BY <2>1, <2>2
<1>3. /\ endpoint' \in {endpoint, Coming} /\ writing' \in Settings \cup {Nothing}
      /\ Coming = endpoint \/ Coming' = Coming
  <2>1. CASE \E s \in Settings : set_begin(s)
    BY <2>1 DEF set_begin, Coming
  <2>2. CASE set_end
    BY <2>2 DEF set_end, Coming
  <2> QED BY <2>1, <2>2
<1>4. SettingTypes'
  BY <1>1, <1>2, <1>3, ComingIs DEF SettingTypes
<1>5. \A s \in Settings : endpoint[s] <= endpoint'[s]
  <2> SUFFICES ASSUME NEW s \in Settings PROVE endpoint[s] <= endpoint'[s]
    OBVIOUS
  <2>1. endpoint[s] \in Nat /\ endpoint[s] <= Coming[s]
    BY <1>1, ComingIs DEF SettingTypes
  <2> QED BY <1>3, <2>1
<1>6. \A s \in Settings : Coming[s] <= Coming'[s] /\ Coming'[s] \in Nat
  <2>1. Coming' = IF writing' = Nothing THEN endpoint' ELSE [endpoint' EXCEPT ![writing'] = @ + 1]
    BY DEF Coming
  <2>2. Coming' \in [Settings -> Nat] /\ \A s \in Settings : endpoint'[s] <= Coming'[s]
    BY <1>4, <2>1, ComingFrom DEF SettingTypes
  <2> SUFFICES ASSUME NEW s \in Settings PROVE Coming[s] <= Coming'[s]
    BY <2>2
  <2>3. CASE Coming = endpoint
    <3>1. endpoint[s] \in Nat /\ endpoint'[s] \in Nat /\ Coming'[s] \in Nat
      BY <1>1, <1>4, <2>2 DEF SettingTypes
    <3> QED BY <1>5, <2>2, <2>3, <3>1
  <2>4. CASE Coming' = Coming
    BY <2>2, <2>4
  <2> QED BY <1>3, <2>3, <2>4
<1>7. PassedOn'
  <2>1. ASSUME NEW s \in Settings PROVE returned'[s] <= endpoint'[s]
    <3>1. returned[s] \in Nat /\ endpoint[s] \in Nat /\ endpoint'[s] \in Nat
      BY <1>1, <1>4 DEF SettingTypes
    <3>2. returned[s] <= endpoint[s]
      BY DEF SettingsInv, PassedOn
    <3> QED BY <1>2, <1>5, <3>1, <3>2
  <2>2. ASSUME NEW s \in Settings PROVE Current(s)' \/ (s \notin Copied' /\ next'[s] = 0)
    <3>1. Current(s) \/ (s \notin Copied /\ next[s] = 0)
      BY DEF SettingsInv, PassedOn
    <3>2. Copied' = Copied
      BY <1>2 DEF Copied
    <3>3. Coming[s] \in Nat /\ Coming'[s] \in Nat /\ Coming[s] <= Coming'[s]
      BY <1>1, <1>6, ComingIs
    <3>4. next[s] \in Int /\ next'[s] = next[s] /\ returned'[s] = returned[s]
      BY <1>1, <1>2 DEF SettingTypes
    <3> QED BY <3>1, <3>2, <3>3, <3>4 DEF Current
  <2>3. OneClientBehind'
    BY <1>2 DEF SettingsInv, PassedOn, OneClientBehind
  <2> QED BY <2>1, <2>2, <2>3 DEF PassedOn
<1>8. ASSUME ~OtherThread PROVE OneThread' /\ OneLimit'
  <2>1. Copied' = Copied
    BY <1>2 DEF Copied
  <2> QED BY <1>2, <1>8, <2>1 DEF SettingsInv, OneThread, OneLimit, SettingsOfOneMoment, LimitTakesEffect
<1> QED BY <1>4, <1>7, <1>8 DEF SettingsInv

\* create_connection() copies one setting more.
LEMMA CopyKeeps ==
  ASSUME SettingsInv, copy_setting
  PROVE  SettingsInv'
<1>0. SettingTypes /\ copied \in Nat /\ copied # Unset /\ copied + 1 \in 1 .. Len(CopyOrder)
  BY Placed DEF SettingsInv, copy_setting
<1>1. PICK s \in Settings : s = CopyOrder[copied + 1]
  BY <1>0, Placed
<1>2. PICK v \in Readable(s) : next' = [next EXCEPT ![s] = Taken(s, v, next[s])]
  BY <1>1 DEF copy_setting, Stored
<1>3. /\ UNCHANGED <<endpoint, writing, accepted, returned, bounds, limit, processor, made, changing>>
      /\ copied' = copied + 1 /\ Coming' = Coming
  BY DEF copy_setting, limitVars, Coming
<1>4. /\ endpoint[s] \in Nat /\ returned[s] \in Nat /\ next[s] \in Int /\ Coming[s] \in Nat
      /\ returned[s] <= endpoint[s]
  BY <1>0, <1>1, ComingIs DEF SettingTypes, SettingsInv, PassedOn
<1>5. v \in Int /\ ((v = Torn /\ s \notin WordSettings) \/ (returned[s] <= v /\ v <= Coming[s]))
  <2>1. CASE writing = s
    <3>1. Coming[s] = endpoint[s] + 1
      BY <1>0, <1>1, <2>1, ComingIs
    <3>2. v \in (IF s \in WordSettings THEN {endpoint[s], endpoint[s] + 1} ELSE {Torn})
      BY <2>1 DEF Readable
    <3>3. CASE s \in WordSettings
      BY <1>4, <3>1, <3>2, <3>3
    <3>4. CASE s \notin WordSettings
      BY <3>2, <3>4, Placed
    <3> QED BY <3>3, <3>4
  <2>2. CASE writing # s
    <3>1. Coming[s] = endpoint[s] /\ v = endpoint[s]
      BY <1>0, <1>1, <2>2, ComingIs DEF Readable
    <3> QED BY <1>4, <3>1
  <2> QED BY <2>1, <2>2
<1>6. Taken(s, v, next[s]) = v \/ (Taken(s, v, next[s]) = next[s] /\ v = 0)
  BY DEF Taken
<1>7. copied' # Unset /\ copied' \in 0 .. Len(CopyOrder) /\ Copied' = Copied \cup {s}
  <2>1. copied + 1 # Unset /\ copied + 1 \in 0 .. Len(CopyOrder)
    BY <1>0, <1>1, Placed
  <2>2. {k \in 1 .. Len(CopyOrder) : k <= copied + 1} = {k \in 1 .. Len(CopyOrder) : k <= copied} \cup {copied + 1}
    BY <1>0, <1>1, Placed
  <2>3. Copied = {CopyOrder[j] : j \in {k \in 1 .. Len(CopyOrder) : k <= copied}}
    BY <1>0, <1>1 DEF Copied
  <2>4. Copied' = {CopyOrder[j] : j \in {k \in 1 .. Len(CopyOrder) : k <= copied + 1}}
    BY <1>3, <2>1 DEF Copied
  <2> QED BY <1>1, <1>3, <2>1, <2>2, <2>3, <2>4
<1>8. next'[s] = Taken(s, v, next[s]) /\ next' \in [Settings -> Int]
      /\ \A r \in Settings \ {s} : next'[r] = next[r]
  BY <1>0, <1>1, <1>2, <1>4, <1>5, <1>6 DEF SettingTypes
<1>9. SettingTypes'
  BY <1>0, <1>1, <1>3, <1>7, <1>8 DEF SettingTypes
<1>10. PassedOn'
  <2>1. Current(s)'
    <3>1. CASE next'[s] = v
      BY <1>3, <1>5, <3>1 DEF Current
    <3>2. CASE next'[s] = next[s] /\ v = 0
      <4>1. Current(s) \/ next[s] = 0
        BY <1>0, <1>1 DEF SettingsInv, PassedOn
      <4>2. CASE Current(s)
        BY <1>3, <3>2, <4>2 DEF Current
      <4>3. CASE next[s] = 0
        BY <1>3, <1>5, <3>2, <4>3 DEF Current
      <4> QED BY <4>1, <4>2, <4>3
    <3> QED BY <1>6, <1>8, <3>1, <3>2
  <2>2. ASSUME NEW r \in Settings \ {s} PROVE Current(r)' \/ (r \notin Copied' /\ next'[r] = 0)
    BY <1>3, <1>7, <1>8 DEF SettingsInv, PassedOn, Current
  <2>3. OneClientBehind' /\ \A r \in Settings : returned'[r] <= endpoint'[r]
    BY <1>3 DEF SettingsInv, PassedOn, OneClientBehind
  <2> QED BY <2>1, <2>2, <2>3 DEF PassedOn
<1>11. ASSUME ~OtherThread PROVE OneThread' /\ OneLimit'
  <2>1. OneThread /\ OneLimit
    BY <1>11 DEF SettingsInv
  <2>2. writing = Nothing /\ endpoint = returned
    BY <1>0, <1>1, <2>1 DEF OneThread
  <2>3. v = returned[s]
    BY <1>0, <1>1, <2>2, SettingsAssumption DEF Readable
  <2>4. next'[s] = returned[s]
    BY <1>0, <1>1, <1>6, <1>8, <2>1, <2>3 DEF OneThread
  <2>5. OneThread'
    BY <1>3, <1>7, <1>8, <2>1, <2>2, <2>4 DEF OneThread, SettingsOfOneMoment
  <2> QED BY <1>3, <2>1, <2>5 DEF OneLimit, LimitTakesEffect
<1> QED BY <1>9, <1>10, <1>11 DEF SettingsInv

\* create_connection() returns: every setting has been copied.
LEMMA CreatedKeeps ==
  ASSUME SettingsInv, created
  PROVE  SettingsInv'
<1>1. /\ UNCHANGED <<endpoint, writing, next, accepted, returned, bounds, limit, processor, made, changing>>
      /\ copied = Len(CopyOrder) /\ copied' = Unset /\ copied # Unset /\ Coming' = Coming
  BY Placed DEF created, limitVars, Coming
<1>2. SettingTypes /\ SettingTypes'
  BY <1>1 DEF SettingsInv, SettingTypes
<1>3. Copied = Settings /\ Copied' = Settings
  <2>1. {k \in 1 .. Len(CopyOrder) : copied = Unset \/ k <= copied} = 1 .. Len(CopyOrder)
    BY <1>1, Placed
  <2>2. {k \in 1 .. Len(CopyOrder) : copied' = Unset \/ k <= copied'} = 1 .. Len(CopyOrder)
    BY <1>1
  <2> QED BY <2>1, <2>2, Placed DEF Copied
<1>4. PassedOn'
  BY <1>1, <1>3 DEF SettingsInv, PassedOn, Current, OneClientBehind
<1>5. ASSUME ~OtherThread PROVE OneThread' /\ OneLimit'
  BY <1>1, <1>3, <1>5 DEF SettingsInv, OneThread, OneLimit, SettingsOfOneMoment, LimitTakesEffect
<1> QED BY <1>2, <1>4, <1>5 DEF SettingsInv

\* The connection that was waiting has its client, and the next one begins.
LEMMA AcceptKeeps ==
  ASSUME SettingsInv, handle_accept
  PROVE  SettingsInv'
<1> DEFINE b == <<returned, Coming>>
<1>1. /\ copied = Unset /\ made = Unset /\ changing = Unset
      /\ accepted' = Append(accepted, next) /\ bounds' = Append(bounds, b)
      /\ next' = Configured /\ copied' = 0 /\ returned' = endpoint
      /\ limit' = next[Limit] /\ processor' = Unset
      /\ UNCHANGED <<endpoint, writing, made, changing>>
      /\ OtherThread \/ writing = Nothing
  BY DEF handle_accept, Ready
<1>2. SettingTypes /\ Coming \in [Settings -> Nat]
  BY ComingIs DEF SettingsInv
<1>3. Copied = Settings /\ Copied' = {}
  <2>1. {k \in 1 .. Len(CopyOrder) : copied = Unset \/ k <= copied} = 1 .. Len(CopyOrder)
    BY <1>1
  <2>2. {k \in 1 .. Len(CopyOrder) : copied' = Unset \/ k <= copied'} = {}
    BY <1>1, Placed
  <2> QED BY <2>1, <2>2, Placed DEF Copied
<1>4. \A s \in Settings : Current(s)
  BY <1>3 DEF SettingsInv, PassedOn
<1>5. next[Limit] \in Nat
  <2>1. returned[Limit] \in Nat /\ next[Limit] \in Int /\ returned[Limit] <= next[Limit]
    BY <1>2, <1>4, Placed, SettingsAssumption DEF SettingTypes, Current
  <2> QED BY <2>1
<1>6. Configured \in [Settings -> Int] /\ \A s \in Settings : Configured[s] = 0
  BY DEF Configured
<1>7. b \in [Settings -> Nat] \X [Settings -> Nat] /\ b[1] = returned /\ b[2] = Coming
  BY <1>2 DEF SettingTypes
<1> HIDE DEF b
<1>8. /\ accepted' \in Seq([Settings -> Int]) /\ Len(accepted') = Len(accepted) + 1
      /\ accepted'[Len(accepted) + 1] = next /\ Len(accepted) \in Nat
      /\ \A i \in 1 .. Len(accepted) : accepted'[i] = accepted[i]
  BY <1>1, <1>2 DEF SettingTypes
<1>9. /\ bounds' \in Seq([Settings -> Nat] \X [Settings -> Nat]) /\ Len(bounds') = Len(bounds) + 1
      /\ bounds'[Len(bounds) + 1] = b
      /\ \A i \in 1 .. Len(bounds) : bounds'[i] = bounds[i]
  BY <1>1, <1>2, <1>7 DEF SettingTypes
<1>10. Len(bounds) = Len(accepted)
  BY <1>2 DEF SettingTypes
<1>11. 0 \in 0 .. Len(CopyOrder)
  BY Placed
<1>12. SettingTypes'
  BY <1>1, <1>2, <1>5, <1>6, <1>8, <1>9, <1>10, <1>11 DEF SettingTypes
<1>13. \A i \in DOMAIN accepted' : (i \in 1 .. Len(accepted) /\ i \in DOMAIN accepted) \/ i = Len(accepted) + 1
  <2>1. DOMAIN accepted' = 1 .. Len(accepted')
    BY <1>8
  <2>2. DOMAIN accepted = 1 .. Len(accepted)
    BY <1>2 DEF SettingTypes
  <2> QED BY <1>8, <2>1, <2>2
<1>14. OneClientBehind'
  <2> SUFFICES ASSUME NEW i \in DOMAIN accepted', NEW s \in Settings, accepted'[i][s] # Torn
               PROVE  accepted'[i][s] \in bounds'[i][1][s] .. bounds'[i][2][s]
    BY DEF OneClientBehind
  <2>1. CASE i \in 1 .. Len(accepted) /\ i \in DOMAIN accepted
    BY <1>8, <1>9, <1>10, <2>1 DEF SettingsInv, PassedOn, OneClientBehind
  <2>2. CASE i = Len(accepted) + 1
    <3>1. accepted'[i] = next /\ bounds'[i] = b
      BY <1>8, <1>9, <1>10, <2>2
    <3>2. next[s] \in Int /\ returned[s] \in Nat /\ Coming[s] \in Nat
      BY <1>2 DEF SettingTypes
    <3> QED BY <1>4, <1>7, <3>1, <3>2 DEF Current
  <2> QED BY <1>13, <2>1, <2>2
<1>15. PassedOn'
  <2>1. \A s \in Settings : returned'[s] <= endpoint'[s]
    BY <1>1, <1>2 DEF SettingTypes
  <2>2. \A s \in Settings : s \notin Copied' /\ next'[s] = 0
    BY <1>1, <1>3, <1>6
  <2> QED BY <1>14, <2>1, <2>2 DEF PassedOn
<1>16. ASSUME ~OtherThread PROVE OneThread' /\ OneLimit'
  <2>1. OneThread
    BY <1>16 DEF SettingsInv
  <2>2. next = returned
    BY <1>2, <1>3, <2>1 DEF OneThread, SettingTypes
  <2>3. SettingsOfOneMoment'
    <3> SUFFICES ASSUME NEW i \in DOMAIN accepted' PROVE accepted'[i] = bounds'[i][1]
      BY DEF SettingsOfOneMoment
    <3>1. CASE i \in 1 .. Len(accepted) /\ i \in DOMAIN accepted
      BY <1>8, <1>9, <1>10, <2>1, <3>1 DEF OneThread, SettingsOfOneMoment
    <3>2. CASE i = Len(accepted) + 1
      BY <1>7, <1>8, <1>9, <1>10, <2>2, <3>2
    <3> QED BY <1>13, <3>1, <3>2
  <2>4. OneThread'
    BY <1>1, <1>3, <1>6, <1>16, <2>3 DEF OneThread
  <2>5. OneLimit'
    BY <1>1 DEF OneLimit, LimitTakesEffect
  <2> QED BY <2>4, <2>5
<1> QED BY <1>12, <1>15, <1>16 DEF SettingsInv

\* What the limit of the last connection goes through.
LEMMA LimitKeeps ==
  ASSUME SettingsInv,
         get_processor \/ initialize_processor \/ change_limit \/ pass_limit
  PROVE  SettingsInv'
<1>1. UNCHANGED <<endpoint, writing, copied, next, accepted, returned, bounds>>
  BY DEF get_processor, initialize_processor, change_limit, pass_limit, serverVars
<1>2. limit \in Nat \cup {Unset} /\ Unset \notin Nat
  BY Placed DEF SettingsInv, SettingTypes
<1>3. limit' \in Nat \cup {Unset}
  BY <1>2 DEF get_processor, initialize_processor, change_limit, pass_limit
<1>4. Copied' = Copied /\ Coming' = Coming
  BY <1>1 DEF Copied, Coming
<1>5. SettingTypes' /\ PassedOn'
  BY <1>1, <1>3, <1>4 DEF SettingsInv, SettingTypes, PassedOn, Current, OneClientBehind
<1>6. ASSUME ~OtherThread PROVE OneThread'
  BY <1>1, <1>4, <1>6 DEF SettingsInv, OneThread, SettingsOfOneMoment
<1>7. ASSUME ~OtherThread PROVE OneLimit'
  <2>1. OneLimit
    BY <1>7 DEF SettingsInv
  <2>2. CASE get_processor
    BY <1>7, <2>1, <2>2 DEF get_processor, OneLimit, LimitTakesEffect
  <2>3. CASE initialize_processor
    BY <2>1, <2>3 DEF initialize_processor, OneLimit, LimitTakesEffect
  <2>4. CASE change_limit
    <3>1. limit' = limit + 1 /\ changing' = limit + 1 /\ limit # Unset /\ made = Unset /\ UNCHANGED <<processor, made>>
      BY <1>7, <2>4 DEF change_limit, MayCall
    <3>2. changing' # Unset
      BY <1>2, <3>1
    <3> QED BY <3>1, <3>2 DEF OneLimit, LimitTakesEffect
  <2>5. CASE pass_limit
    BY <2>1, <2>5 DEF pass_limit, ProcessorLimit, OneLimit, LimitTakesEffect
  <2> QED BY <2>2, <2>3, <2>4, <2>5
<1> QED BY <1>5, <1>6, <1>7 DEF SettingsInv

\* Whatever is set while a connection is made or waits, it has for every setting a
\* value that the endpoint had since the client before it came, unless it was read
\* torn; and an application that sets from the io thread alone gives it those of one
\* moment, and finds its limit in force when set_max_message_size() returns.
THEOREM SettingsReachConnections == SettingsSpec => []SettingsHold
<1>1. SettingsInit => SettingsInv
  BY InitialSettings
<1>2. SettingsInv /\ [SettingsNext]_settingsVars => SettingsInv'
  <2>1. CASE UNCHANGED settingsVars
    BY <2>1 DEF settingsVars, SettingsInv, SettingTypes, PassedOn, Current, Copied, Coming, OneThread,
       OneLimit, OneClientBehind, SettingsOfOneMoment, LimitTakesEffect
  <2>2. ASSUME SettingsInv, SettingsNext PROVE SettingsInv'
    BY <2>2, SetKeeps, CopyKeeps, CreatedKeeps, AcceptKeeps, LimitKeeps DEF SettingsNext
  <2> QED BY <2>1, <2>2
<1>3. SettingsInv => SettingsHold
  BY DEF SettingsInv, PassedOn, OneThread, OneLimit, SettingsHold
<1> QED BY <1>1, <1>2, <1>3, PTL DEF SettingsSpec

------------------------------------------------------------------------------
(* ConnectClient: a client's attempt to connect *)

\* While an attempt waits in a stage its timer runs, has passed, has its
\* handler queued, or has given the attempt up; that is when the client is
\* told, and from then on nothing is under way.
Waits(c, s) ==
  /\ timer[c][s] \in {"running", "passed", "queued", "done"}
  /\ calls[c].started = 0
  /\ calls[c].terminated = IF timer[c][s] = "done" THEN 1 ELSE 0
  /\ timer[c][s] = "done" => op[c] # "pending"

\* An attempt has the timer of its stage only, and the only thread leaves no
\* timer's handler queued behind a handler that has tested its time.
Attempt(c) ==
  /\ stage[c] = "idle" =>
       /\ op[c] = "idle" /\ \A s \in Stages : timer[c][s] = "unset"
       /\ calls[c].started = 0 /\ calls[c].terminated = 0
  /\ stage[c] = "resolve" => Waits(c, "resolve") /\ timer[c].connect = "unset"
  /\ stage[c] = "connect" => Waits(c, "connect") /\ timer[c].resolve = "cancelled"
  /\ stage[c] = "done" =>
       /\ op[c] = "idle" /\ \A s \in Stages : timer[c][s] \in {"unset", "cancelled"}
       /\ calls[c].started + calls[c].terminated = 1
  /\ c \in midway => stage[c] \in Stages /\ timer[c][stage[c]] \in {"running", "passed"}

\* The inductive invariant.
ClientInv == ClientTypeOK /\ \A c \in Connections : Attempt(c)

LEMMA ClientStart == ASSUME ClientInit PROVE ClientInv
<1>1. ClientTypeOK
  <2>1. /\ timer \in [Connections -> [Stages -> TimerStates]] /\ midway = {}
        /\ stage \in [Connections -> {"idle"}] /\ op \in [Connections -> {"idle"}]
        /\ blamed \in [Connections -> {{}}]
    BY DEF ClientInit, TimerStates
  <2>2. calls \in [Connections -> [started : Nat, terminated : Nat]]
    BY DEF ClientInit
  <2>3. QED
    BY <2>1, <2>2 DEF ClientTypeOK
<1>2. ASSUME NEW c \in Connections PROVE Attempt(c)
  BY DEF ClientInit, Attempt, Stages
<1>3. QED
  BY <1>1, <1>2 DEF ClientInv

\* One timer is set, and one call is counted.
LEMMA TimerSet ==
  ASSUME NEW T \in [Connections -> [Stages -> TimerStates]], NEW c \in Connections,
         NEW s \in Stages, NEW v \in TimerStates
  PROVE  /\ [T EXCEPT ![c][s] = v] \in [Connections -> [Stages -> TimerStates]]
         /\ [T EXCEPT ![c][s] = v][c][s] = v
         /\ \A u \in Stages : u # s => [T EXCEPT ![c][s] = v][c][u] = T[c][u]
         /\ \A d \in Connections : d # c => [T EXCEPT ![c][s] = v][d] = T[d]
  OBVIOUS

Called == [started : Nat, terminated : Nat]
LEMMA CallCounted ==
  ASSUME ClientTypeOK, NEW c \in Connections
  PROVE  /\ Started(c) =>
              /\ calls' \in [Connections -> Called]
              /\ calls'[c].started = calls[c].started + 1
              /\ calls'[c].terminated = calls[c].terminated
              /\ \A d \in Connections : d # c => calls'[d] = calls[d]
         /\ Terminated(c) =>
              /\ calls' \in [Connections -> Called]
              /\ calls'[c].terminated = calls[c].terminated + 1
              /\ calls'[c].started = calls[c].started
              /\ \A d \in Connections : d # c => calls'[d] = calls[d]
<1>1. calls \in [Connections -> Called] /\ calls[c] \in Called
  BY DEF ClientTypeOK, Called
<1>2. /\ calls[c].started \in Nat /\ calls[c].terminated \in Nat
      /\ [calls[c] EXCEPT !.started = @ + 1] \in Called
      /\ [calls[c] EXCEPT !.started = @ + 1].started = calls[c].started + 1
      /\ [calls[c] EXCEPT !.started = @ + 1].terminated = calls[c].terminated
      /\ [calls[c] EXCEPT !.terminated = @ + 1] \in Called
      /\ [calls[c] EXCEPT !.terminated = @ + 1].started = calls[c].started
      /\ [calls[c] EXCEPT !.terminated = @ + 1].terminated = calls[c].terminated + 1
  BY <1>1 DEF Called
<1> HIDE DEF Called
<1>3. ASSUME Started(c)
      PROVE  /\ calls' \in [Connections -> Called]
             /\ calls'[c] = [calls[c] EXCEPT !.started = @ + 1]
             /\ \A d \in Connections : d # c => calls'[d] = calls[d]
  BY <1>1, <1>2, <1>3 DEF Started
<1>4. ASSUME Terminated(c)
      PROVE  /\ calls' \in [Connections -> Called]
             /\ calls'[c] = [calls[c] EXCEPT !.terminated = @ + 1]
             /\ \A d \in Connections : d # c => calls'[d] = calls[d]
  BY <1>1, <1>2, <1>4 DEF Terminated
<1>5. QED
  BY <1>2, <1>3, <1>4

\* What cancel() does to the timers.
LEMMA CancelledTimer ==
  ASSUME ClientTypeOK, NEW c \in Connections, NEW s \in Stages
  PROVE  /\ Cancelled(c, s) \in [Connections -> [Stages -> TimerStates]]
         /\ \A d \in Connections : d # c => Cancelled(c, s)[d] = timer[d]
         /\ \A u \in Stages : u # s => Cancelled(c, s)[c][u] = timer[c][u]
         /\ Cancelled(c, s)[c][s] =
              IF timer[c][s] \in {"running", "passed"} THEN "cancelled" ELSE timer[c][s]
<1>1. timer \in [Connections -> [Stages -> TimerStates]] /\ "cancelled" \in TimerStates
  BY DEF ClientTypeOK, TimerStates
<1>2. CASE timer[c][s] \in {"running", "passed"}
  BY <1>1, <1>2, TimerSet DEF Cancelled
<1>3. CASE timer[c][s] \notin {"running", "passed"}
  BY <1>1, <1>3 DEF Cancelled
<1>4. QED
  BY <1>2, <1>3

\* A step that changes nothing of an attempt keeps what is known of it.
LEMMA OthersKeep ==
  ASSUME NEW c, Attempt(c), stage'[c] = stage[c], op'[c] = op[c], timer'[c] = timer[c],
         calls'[c] = calls[c], c \in midway' => c \in midway
  PROVE  Attempt(c)'
  BY DEF Attempt, Waits, Stages

LEMMA ConnectKeeps ==
  ASSUME ConnectAssumption, ClientInv, NEW c \in Connections, Connect(c)
  PROVE  ClientInv'
<1> USE DEF Stages
<1>1. PICK proxy \in Proxies :
       IF proxy = "invalid"
         THEN /\ stage' = [stage EXCEPT ![c] = "done"]
              /\ Terminated(c)
              /\ UNCHANGED <<op, timer>>
         ELSE /\ stage' = [stage EXCEPT ![c] = "resolve"]
              /\ op' = [op EXCEPT ![c] = "pending"]
              /\ timer' = [timer EXCEPT ![c].resolve = "running"]
              /\ UNCHANGED calls
  BY DEF Connect
<1>2. stage[c] = "idle" /\ UNCHANGED <<midway, blamed>>
  BY DEF Connect
<1>3. op[c] = "idle" /\ c \notin midway
  BY <1>2 DEF ClientInv, ClientTypeOK, Attempt
<1>4. ClientTypeOK'
  <2>1. /\ timer \in [Connections -> [Stages -> TimerStates]]
        /\ "running" \in TimerStates /\ "resolve" \in Stages
        /\ [timer EXCEPT ![c]["resolve"] = "running"] \in [Connections -> [Stages -> TimerStates]]
    BY TimerSet DEF ClientInv, ClientTypeOK, TimerStates
  <2>2. timer' \in [Connections -> [Stages -> TimerStates]]
    BY <1>1, <2>1
  <2>3. calls' \in [Connections -> Called]
    BY <1>1, CallCounted DEF ClientInv, ClientTypeOK, Called
  <2>4. /\ stage' \in [Connections -> {"idle", "resolve", "connect", "done"}]
        /\ op' \in [Connections -> {"idle", "pending", "ok", "error", "aborted"}]
        /\ \A d \in Connections : d # c => op'[d] = op[d]
    BY <1>1, <1>2 DEF ClientInv, ClientTypeOK
  <2>5. midway' \subseteq {d \in Connections : op'[d] \in {"ok", "error"}}
    BY <1>2, <2>4, <1>3 DEF ClientInv, ClientTypeOK
  <2>6. QED
    BY <1>2, <2>2, <2>3, <2>4, <2>5 DEF ClientInv, ClientTypeOK, Called
<1>5. Attempt(c)'
  <2>1. /\ stage \in [Connections -> {"idle", "resolve", "connect", "done"}]
        /\ op \in [Connections -> {"idle", "pending", "ok", "error", "aborted"}]
        /\ timer \in [Connections -> [Stages -> TimerStates]] /\ Attempt(c) /\ c \notin midway
    BY <1>3 DEF ClientInv, ClientTypeOK
  <2>2. CASE Terminated(c) /\ UNCHANGED <<op, timer>> /\ stage' = [stage EXCEPT ![c] = "done"]
    BY <1>2, <2>1, <2>2, CallCounted DEF ClientInv, Attempt
  <2>3. CASE /\ stage' = [stage EXCEPT ![c] = "resolve"] /\ op' = [op EXCEPT ![c] = "pending"]
             /\ timer' = [timer EXCEPT ![c].resolve = "running"] /\ UNCHANGED calls
    BY <1>2, <2>1, <2>3 DEF Attempt, Waits
  <2>4. QED
    BY <1>1, <2>2, <2>3
<1>6. ASSUME NEW d \in Connections, d # c PROVE Attempt(d)'
  BY <1>1, <1>2, <1>6, OthersKeep DEF ClientInv, ClientTypeOK, Terminated
<1>7. QED
  BY <1>4, <1>5, <1>6 DEF ClientInv

LEMMA CompletesKeeps ==
  ASSUME ClientInv, NEW c \in Connections, Completes(c)
  PROVE  ClientInv'
<1>1. ClientTypeOK'
  BY DEF ClientInv, ClientTypeOK, Completes
<1>2. Attempt(c)'
  BY DEF ClientInv, ClientTypeOK, Completes, Attempt, Waits, Stages
<1>3. ASSUME NEW d \in Connections, d # c PROVE Attempt(d)'
  BY <1>3, OthersKeep DEF ClientInv, ClientTypeOK, Completes
<1>4. QED
  BY <1>1, <1>2, <1>3 DEF ClientInv

LEMMA TimeKeeps ==
  ASSUME ClientInv, Threads = 1, NEW c \in Connections, NEW s \in Stages,
         TimePasses(c, s) \/ Queues(c, s)
  PROVE  ClientInv'
<1>1. ClientTypeOK'
  <2>1. /\ timer \in [Connections -> [Stages -> TimerStates]]
        /\ "passed" \in TimerStates /\ "queued" \in TimerStates
    BY DEF ClientInv, ClientTypeOK, TimerStates
  <2>2. /\ [timer EXCEPT ![c][s] = "passed"] \in [Connections -> [Stages -> TimerStates]]
        /\ [timer EXCEPT ![c][s] = "queued"] \in [Connections -> [Stages -> TimerStates]]
    BY <2>1, TimerSet
  <2>3. QED
    BY <2>2 DEF ClientInv, ClientTypeOK, TimePasses, Queues
<1>2. Attempt(c)'
  <2>1. CASE TimePasses(c, s)
    BY <2>1 DEF ClientInv, ClientTypeOK, TimePasses, Attempt, Waits, Stages
  <2>2. CASE Queues(c, s)
    BY <2>2 DEF ClientInv, ClientTypeOK, Queues, Attempt, Waits, Stages
  <2>3. QED
    BY <2>1, <2>2
<1>3. ASSUME NEW d \in Connections, d # c PROVE Attempt(d)'
  BY <1>3, OthersKeep DEF ClientInv, ClientTypeOK, TimePasses, Queues
<1>4. QED
  BY <1>1, <1>2, <1>3 DEF ClientInv

LEMMA OpEndsKeeps ==
  ASSUME ClientInv, NEW c \in Connections, OpEnds(c)
  PROVE  ClientInv'
<1>1. stage[c] \in Stages
  BY DEF ClientInv, ClientTypeOK, OpEnds, Attempt, Stages
<1>2. ClientTypeOK'
  BY DEF ClientInv, ClientTypeOK, OpEnds
<1>3. Attempt(c)'
  BY <1>1 DEF ClientInv, ClientTypeOK, OpEnds, TimeOver, Attempt, Waits, Stages
<1>4. ASSUME NEW d \in Connections, d # c PROVE Attempt(d)'
  BY <1>4, OthersKeep DEF ClientInv, ClientTypeOK, OpEnds
<1>5. QED
  BY <1>2, <1>3, <1>4 DEF ClientInv

LEMMA HandleResolveKeeps ==
  ASSUME ClientInv, NEW c \in Connections, HandleResolve(c)
  PROVE  ClientInv'
<1> DEFINE T == Cancelled(c, "resolve")
<1>1. /\ T \in [Connections -> [Stages -> TimerStates]]
      /\ \A d \in Connections : d # c => T[d] = timer[d]
      /\ \A u \in Stages : u # "resolve" => T[c][u] = timer[c][u]
      /\ T[c]["resolve"] = IF timer[c]["resolve"] \in {"running", "passed"}
                             THEN "cancelled" ELSE timer[c]["resolve"]
  BY CancelledTimer DEF ClientInv, Stages
<1>2. /\ c \in midway /\ stage[c] = "resolve" /\ midway' = midway \ {c} /\ UNCHANGED blamed
      /\ IF op[c] = "error"
           THEN /\ timer' = T
                /\ stage' = [stage EXCEPT ![c] = "done"]
                /\ op' = [op EXCEPT ![c] = "idle"]
                /\ Terminated(c)
           ELSE /\ timer' = [T EXCEPT ![c].connect = "running"]
                /\ stage' = [stage EXCEPT ![c] = "connect"]
                /\ op' = [op EXCEPT ![c] = "pending"]
                /\ UNCHANGED calls
  BY DEF HandleResolve
<1> HIDE DEF T
<1>3. ClientTypeOK'
  <2>1. /\ "running" \in TimerStates /\ "connect" \in Stages
        /\ [T EXCEPT ![c]["connect"] = "running"] \in [Connections -> [Stages -> TimerStates]]
    BY <1>1, TimerSet DEF TimerStates, Stages
  <2>2. timer' \in [Connections -> [Stages -> TimerStates]]
    BY <1>1, <1>2, <2>1
  <2>3. calls' \in [Connections -> Called]
    BY <1>2, CallCounted DEF ClientInv, ClientTypeOK, Called
  <2>4. /\ stage' \in [Connections -> {"idle", "resolve", "connect", "done"}]
        /\ op' \in [Connections -> {"idle", "pending", "ok", "error", "aborted"}]
        /\ midway' \subseteq {d \in Connections : op'[d] \in {"ok", "error"}}
    BY <1>2 DEF ClientInv, ClientTypeOK
  <2>5. QED
    BY <1>2, <2>2, <2>3, <2>4 DEF ClientInv, ClientTypeOK, Called
<1>4. Attempt(c)'
  <2>1. /\ stage \in [Connections -> {"idle", "resolve", "connect", "done"}]
        /\ op \in [Connections -> {"idle", "pending", "ok", "error", "aborted"}]
        /\ calls[c].started \in Nat /\ calls[c].terminated \in Nat
        /\ calls[c].started = 0 /\ calls[c].terminated = 0 /\ timer[c]["connect"] = "unset"
        /\ timer[c]["resolve"] \in {"running", "passed"}
    BY <1>2 DEF ClientInv, ClientTypeOK, Attempt, Waits
  <2>2. T[c]["resolve"] = "cancelled" /\ T[c]["connect"] = "unset" /\ c \notin midway'
    BY <1>1, <1>2, <2>1 DEF Stages
  <2>3. CASE op[c] = "error"
    <3>1. /\ stage'[c] = "done" /\ op'[c] = "idle" /\ timer' = T
          /\ calls'[c].started + calls'[c].terminated = 1
      BY <1>2, <2>1, <2>3, CallCounted DEF ClientInv
    <3>2. QED
      BY <2>2, <3>1 DEF Attempt, Stages
  <2>4. CASE op[c] # "error"
    <3>1. stage'[c] = "connect" /\ op'[c] = "pending" /\ calls' = calls
      BY <1>2, <2>1, <2>4
    <3>2. timer'[c]["connect"] = "running" /\ timer'[c]["resolve"] = "cancelled"
      BY <1>1, <1>2, <2>2, <2>4 DEF Stages
    <3>3. QED
      BY <2>1, <2>2, <3>1, <3>2 DEF Attempt, Waits
  <2>5. QED
    BY <2>3, <2>4
<1>5. ASSUME NEW d \in Connections, d # c PROVE Attempt(d)'
  <2>1. timer'[d] = timer[d] /\ calls'[d] = calls[d]
    BY <1>1, <1>2, <1>5, CallCounted DEF ClientInv
  <2>2. QED
    BY <1>2, <1>5, <2>1, OthersKeep DEF ClientInv, ClientTypeOK
<1>6. QED
  BY <1>3, <1>4, <1>5 DEF ClientInv

LEMMA HandleConnectKeeps ==
  ASSUME ClientInv, NEW c \in Connections, HandleConnect(c)
  PROVE  ClientInv'
<1> DEFINE T == Cancelled(c, "connect")
<1>1. /\ T \in [Connections -> [Stages -> TimerStates]]
      /\ \A d \in Connections : d # c => T[d] = timer[d]
      /\ \A u \in Stages : u # "connect" => T[c][u] = timer[c][u]
      /\ T[c]["connect"] = IF timer[c]["connect"] \in {"running", "passed"}
                             THEN "cancelled" ELSE timer[c]["connect"]
  BY CancelledTimer DEF ClientInv, Stages
<1>2. /\ c \in midway /\ stage[c] = "connect" /\ midway' = midway \ {c} /\ UNCHANGED blamed
      /\ timer' = T
      /\ stage' = [stage EXCEPT ![c] = "done"]
      /\ op' = [op EXCEPT ![c] = "idle"]
      /\ Started(c) \/ Terminated(c)
  BY DEF HandleConnect
<1> HIDE DEF T
<1>3. ClientTypeOK'
  <2>1. calls' \in [Connections -> Called]
    BY <1>2, CallCounted DEF ClientInv
  <2>2. QED
    BY <1>1, <1>2, <2>1 DEF ClientInv, ClientTypeOK, Called
<1>4. Attempt(c)'
  <2>1. /\ calls[c].started \in Nat /\ calls[c].terminated \in Nat
        /\ calls[c].started = 0 /\ calls[c].terminated = 0 /\ timer[c]["resolve"] = "cancelled"
        /\ timer[c]["connect"] \in {"running", "passed"}
    BY <1>2 DEF ClientInv, ClientTypeOK, Attempt, Waits
  <2>2. calls'[c].started + calls'[c].terminated = 1
    BY <1>2, <2>1, CallCounted DEF ClientInv
  <2>3. /\ stage'[c] = "done" /\ op'[c] = "idle" /\ c \notin midway'
        /\ timer'[c]["resolve"] = "cancelled" /\ timer'[c]["connect"] = "cancelled"
    BY <1>1, <1>2, <2>1 DEF ClientInv, ClientTypeOK, Stages
  <2>4. QED
    BY <2>2, <2>3 DEF Attempt, Stages
<1>5. ASSUME NEW d \in Connections, d # c PROVE Attempt(d)'
  <2>1. timer'[d] = timer[d] /\ calls'[d] = calls[d]
    BY <1>1, <1>2, <1>5, CallCounted DEF ClientInv
  <2>2. QED
    BY <1>2, <1>5, <2>1, OthersKeep DEF ClientInv, ClientTypeOK
<1>6. QED
  BY <1>3, <1>4, <1>5 DEF ClientInv

LEMMA ResolveTimeoutKeeps ==
  ASSUME ClientInv, NEW c \in Connections, ResolveTimeout(c)
  PROVE  ClientInv'
<1>1. ClientTypeOK'
  <2>1. /\ timer \in [Connections -> [Stages -> TimerStates]]
        /\ "done" \in TimerStates /\ "resolve" \in Stages
    BY DEF ClientInv, ClientTypeOK, TimerStates, Stages
  <2>2. timer' \in [Connections -> [Stages -> TimerStates]]
    BY <2>1, TimerSet DEF ResolveTimeout
  <2>3. calls' \in [Connections -> Called]
    BY CallCounted DEF ClientInv, ResolveTimeout
  <2>4. /\ op' \in [Connections -> {"idle", "pending", "ok", "error", "aborted"}]
        /\ blamed' \in [Connections -> SUBSET Connections]
        /\ midway' \subseteq {d \in Connections : op'[d] \in {"ok", "error"}}
    BY DEF ClientInv, ClientTypeOK, ResolveTimeout
  <2>5. QED
    BY <2>2, <2>3, <2>4 DEF ClientInv, ClientTypeOK, Called, ResolveTimeout
<1>2. stage[c] = "resolve"
  BY DEF ClientInv, ClientTypeOK, ResolveTimeout, Attempt, Stages
<1>3. Attempt(c)'
  BY <1>2 DEF ClientInv, ClientTypeOK, ResolveTimeout, Terminated, Attempt, Waits, Stages
<1>4. ASSUME NEW d \in Connections, d # c PROVE Attempt(d)'
  <2>1. stage'[d] = stage[d] /\ timer'[d] = timer[d] /\ midway' = midway
    BY <1>4 DEF ClientInv, ClientTypeOK, ResolveTimeout
  <2>2. calls'[d] = calls[d]
    BY <1>4, CallCounted DEF ClientInv, ResolveTimeout
  <2>3. op'[d] = op[d] \/ (stage[d] = "resolve" /\ op'[d] = "aborted")
    BY <1>4 DEF ResolveTimeout
  <2>4. QED
    BY <2>1, <2>2, <2>3 DEF ClientInv, Attempt, Waits, Stages
<1>5. QED
  BY <1>1, <1>3, <1>4 DEF ClientInv

LEMMA ConnectTimeoutKeeps ==
  ASSUME ClientInv, NEW c \in Connections, ConnectTimeout(c)
  PROVE  ClientInv'
<1>1. ClientTypeOK'
  <2>1. /\ timer \in [Connections -> [Stages -> TimerStates]]
        /\ "done" \in TimerStates /\ "connect" \in Stages
    BY DEF ClientInv, ClientTypeOK, TimerStates, Stages
  <2>2. timer' \in [Connections -> [Stages -> TimerStates]]
    BY <2>1, TimerSet DEF ConnectTimeout
  <2>3. calls' \in [Connections -> Called]
    BY CallCounted DEF ClientInv, ConnectTimeout
  <2>4. /\ op' \in [Connections -> {"idle", "pending", "ok", "error", "aborted"}]
        /\ blamed' \in [Connections -> SUBSET Connections]
        /\ midway' \subseteq {d \in Connections : op'[d] \in {"ok", "error"}}
    BY DEF ClientInv, ClientTypeOK, ConnectTimeout
  <2>5. QED
    BY <2>2, <2>3, <2>4 DEF ClientInv, ClientTypeOK, Called, ConnectTimeout
<1>2. stage[c] = "connect"
  BY DEF ClientInv, ClientTypeOK, ConnectTimeout, Attempt, Waits, Stages
<1>3. Attempt(c)'
  BY <1>2 DEF ClientInv, ClientTypeOK, ConnectTimeout, Terminated, Attempt, Waits, Stages
<1>4. ASSUME NEW d \in Connections, d # c PROVE Attempt(d)'
  BY <1>4, OthersKeep DEF ClientInv, ClientTypeOK, ConnectTimeout, Terminated
<1>5. QED
  BY <1>1, <1>3, <1>4 DEF ClientInv

\* ConnectClient: with one thread in the io_service the attempt, its timers and
\* the calls of the client's handler fit together in every state.
THEOREM AttemptsFit == ConnectAssumption /\ Threads = 1 => (ClientSpec => []ClientInv)
<1> SUFFICES ASSUME ConnectAssumption, Threads = 1 PROVE ClientSpec => []ClientInv
  OBVIOUS
<1>1. ClientInit => ClientInv
  BY ClientStart
<1>2. ClientInv /\ [ClientNext]_clientVars => ClientInv'
  <2> SUFFICES ASSUME ClientInv, [ClientNext]_clientVars PROVE ClientInv'
    OBVIOUS
  <2>1. CASE ClientNext
    <3>1. PICK c \in Connections :
            \/ Connect(c) \/ Completes(c) \/ Handlers(c)
            \/ \E s \in Stages : TimePasses(c, s) \/ Queues(c, s)
      BY <2>1 DEF ClientNext
    <3>2. QED
      BY <3>1, ConnectKeeps, CompletesKeeps, TimeKeeps, OpEndsKeeps, HandleResolveKeeps,
         HandleConnectKeeps, ResolveTimeoutKeeps, ConnectTimeoutKeeps DEF Handlers
  <2>2. CASE UNCHANGED clientVars
    BY <2>2 DEF clientVars, ClientInv, ClientTypeOK, Attempt, Waits, Stages
  <2>3. QED
    BY <2>1, <2>2
<1>3. QED
  BY <1>1, <1>2, PTL DEF ClientSpec

\* ConnectClient, client_endpoint.hpp:160: an attempt ends with one call of the
\* client's handler at most, whichever of the answer and the timer comes first,
\* and an attempt that was given up has nothing under way on the network.
THEOREM AttemptsEndOnce ==
  ConnectAssumption /\ Threads = 1 => (ClientSpec => [](ToldOnce /\ GivenUpIsQuiet))
<1> SUFFICES ASSUME ConnectAssumption, Threads = 1
             PROVE  ClientSpec => [](ToldOnce /\ GivenUpIsQuiet)
  OBVIOUS
<1>1. ClientInv => ToldOnce /\ GivenUpIsQuiet
  <2> SUFFICES ASSUME ClientInv, NEW c \in Connections
               PROVE  /\ calls[c].started + calls[c].terminated <= 1
                      /\ calls[c].terminated > 0 => op[c] # "pending"
    BY DEF ToldOnce, GivenUpIsQuiet
  <2>1. QED
    BY DEF ClientInv, ClientTypeOK, Attempt, Waits, Stages
<1>2. QED
  BY <1>1, AttemptsFit, PTL

==============================================================================
