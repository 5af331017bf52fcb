--------------------------- MODULE EndpointSettings ---------------------------
(***************************************************************************)
(* The settings of an endpoint and what becomes of them in its             *)
(* connections: handlers and timeouts are set on the endpoint under its    *)
(* mutex, limits without it (endpoint.hpp), and create_connection() copies *)
(* them one by one, without the mutex, when the server waits for its next  *)
(* client (impl/endpoint_impl.hpp, roles/server_endpoint.hpp). The limit   *)
(* of the messages is also kept by the processor of a connection, and may  *)
(* be changed later (connection.hpp).                                      *)
(*                                                                         *)
(* A value is the number of changes its setting has seen, 0 the one of the *)
(* configuration, Torn one that was read while it was written.             *)
(***************************************************************************)
EXTENDS Integers, Sequences, FiniteSets, SequencesExt

CONSTANTS
  CopyOrder,    \* the settings in the order of create_connection()
  WordSettings, \* those of one machine word, never torn: timeouts and limits
  KeptSettings, \* those copied only when they are not the configuration's
  Limit,        \* the limit of the messages
  OtherThread,  \* the application calls from a thread of its own
  MaxChanges,   \* bound on the changes of one setting
  MaxClients    \* bound on the connections

Settings == ToSet(CopyOrder)
Torn == -1
Unset == -2
Nothing == "nothing"  \* is being written
Configured == [s \in Settings |-> 0]

\* What is assumed of the constants.
ASSUME SettingsAssumption ==
  /\ CopyOrder \in Seq(Settings) /\ Limit \in WordSettings
  /\ WordSettings \subseteq Settings /\ KeptSettings \subseteq Settings
  /\ OtherThread \in BOOLEAN /\ Cardinality(Settings) = Len(CopyOrder) /\ Nothing \notin Settings

VARIABLES
  endpoint,   \* the members of the endpoint
  writing,    \* the setting that is being changed, or Nothing
  copied,     \* how many settings create_connection() has copied, Unset outside of it
  next,       \* the members of the connection that is created or waits for a client
  accepted,   \* the members of the connections that have a client
  returned,   \* the endpoint's members when the connection of next began to be created
  bounds,     \* for every accepted connection: returned, and the endpoint when its client came
  limit,      \* m_max_message_size of the last connection
  processor,  \* the limit that its processor has, Unset without one
  made,       \* the limit of a processor that get_processor() has yet to return, or Unset
  changing    \* set_max_message_size() of the connection: the value, before it asks for m_processor

settingsVars == <<endpoint, writing, copied, next, accepted, returned, bounds, limit, processor, made, changing>>
serverVars == <<copied, next, accepted, returned, bounds>>
limitVars == <<limit, processor, made, changing>>

SettingsInit ==
  /\ endpoint = Configured /\ writing = Nothing
  /\ copied = 0 /\ next = Configured /\ accepted = <<>> /\ returned = Configured /\ bounds = <<>>
  /\ limit = Unset /\ processor = Unset /\ made = Unset /\ changing = Unset

------------------------------------------------------------------------------
(* The endpoint *)

\* Between two handlers of the io thread, or at any time from another one.
MayCall == OtherThread \/ (copied = Unset /\ made = Unset)

\* set_*_handler(), set_*_timeout(), set_max_message_size(), set_user_agent(): they exclude each other
\* by the mutex or, the limits without one, by being called from one thread.
set_begin(s) ==
  /\ MayCall /\ writing = Nothing /\ endpoint[s] < MaxChanges
  /\ writing' = s
  /\ UNCHANGED <<endpoint, serverVars, limitVars>>

set_end ==
  /\ writing # Nothing
  /\ endpoint' = [endpoint EXCEPT ![writing] = @ + 1]
  /\ writing' = Nothing
  /\ UNCHANGED <<serverVars, limitVars>>

\* What a reader without the mutex finds.
Readable(s) ==
  IF writing = s THEN (IF s \in WordSettings THEN {endpoint[s], endpoint[s] + 1} ELSE {Torn})
                 ELSE {endpoint[s]}

\* A value is left alone when it is the configuration's, which the connection has already.
Taken(s, v, own) == IF s \in KeptSettings /\ v = 0 THEN own ELSE v

\* The setters of the connection, without a mutex.
Stored(members, s, v) == [members EXCEPT ![s] = v]

\* create_connection(): one setting after the other.
copy_setting ==
  /\ copied \in 0 .. Len(CopyOrder) - 1 /\ (OtherThread \/ writing = Nothing)
  /\ copied' = copied + 1
  /\ LET s == CopyOrder[copied + 1] IN
       \E v \in Readable(s) : next' = Stored(next, s, Taken(s, v, next[s]))
  /\ UNCHANGED <<endpoint, writing, accepted, returned, bounds, limitVars>>

created ==
  /\ copied = Len(CopyOrder) /\ copied' = Unset
  /\ UNCHANGED <<endpoint, writing, next, accepted, returned, bounds, limitVars>>

\* Faulty variant: the connection can be accepted before its last setting is copied.
Ready_Early == copied \in {Len(CopyOrder) - 1, Unset}

\* With the change that is being made.
Coming == IF writing = Nothing THEN endpoint ELSE [endpoint EXCEPT ![writing] = @ + 1]

\* async_accept() comes after get_connection().
Ready == copied = Unset

\* A client: its connection starts, and start_accept() creates the next one.
handle_accept ==
  /\ Ready /\ made = Unset /\ Len(accepted) < MaxClients
  /\ changing = Unset /\ (OtherThread \/ writing = Nothing)
  /\ accepted' = Append(accepted, next)
  /\ bounds' = Append(bounds, <<returned, Coming>>)
  /\ next' = Configured /\ copied' = 0 /\ returned' = endpoint
  /\ limit' = next[Limit] /\ processor' = Unset
  /\ UNCHANGED <<endpoint, writing, made, changing>>

------------------------------------------------------------------------------
(* The limit of the last connection *)

\* get_processor(): a processor is made and given the limit,
get_processor ==
  /\ copied = Unset /\ limit # Unset /\ processor = Unset /\ made = Unset
  /\ (OtherThread \/ changing = Unset)
  /\ made' = limit
  /\ UNCHANGED <<endpoint, writing, serverVars, limit, processor, changing>>

\* and becomes m_processor.
initialize_processor ==
  /\ made # Unset
  /\ processor' = made /\ made' = Unset
  /\ UNCHANGED <<endpoint, writing, serverVars, limit, changing>>

\* A processor that is there is given the new value.
ProcessorLimit(v) == IF processor = Unset THEN processor ELSE v

\* set_max_message_size() of the connection: the member,
change_limit ==
  /\ MayCall /\ limit # Unset /\ limit < 2 * MaxChanges /\ changing = Unset
  /\ limit' = limit + 1 /\ changing' = limit + 1
  /\ UNCHANGED <<endpoint, writing, serverVars, processor, made>>

\* and then the processor.
pass_limit ==
  /\ changing # Unset
  /\ processor' = ProcessorLimit(changing) /\ changing' = Unset
  /\ UNCHANGED <<endpoint, writing, serverVars, limit, made>>

SettingsNext ==
  \/ \E s \in Settings : set_begin(s)
  \/ set_end \/ copy_setting \/ created \/ handle_accept
  \/ get_processor \/ initialize_processor \/ change_limit \/ pass_limit

SettingsSpec == SettingsInit /\ [][SettingsNext]_settingsVars

------------------------------------------------------------------------------
(* Properties *)

\* Values come from the configuration, from a change or from a race.
SettingsTypeOK ==
  /\ endpoint \in [Settings -> 0 .. MaxChanges] /\ writing \in Settings \union {Nothing}
  /\ copied \in (0 .. Len(CopyOrder)) \union {Unset}
  /\ next \in [Settings -> Torn .. MaxChanges]
  /\ \A i \in DOMAIN accepted : accepted[i] \in [Settings -> Torn .. MaxChanges]
  /\ Len(accepted) <= MaxClients /\ Len(bounds) = Len(accepted)
  /\ limit \in (0 .. 2 * MaxChanges) \union {Unset} /\ processor \in (0 .. 2 * MaxChanges) \union {Unset}

\* A change made before the previous client came holds for this one; one made after that may or
\* may not, since the connection was there already. Nothing older, nothing from the future.
OneClientBehind ==
  \A i \in DOMAIN accepted : \A s \in Settings :
    accepted[i][s] # Torn => accepted[i][s] \in bounds[i][1][s] .. bounds[i][2][s]

\* With calls from the io thread, the settings of a connection are those of one moment.
SettingsOfOneMoment == \A i \in DOMAIN accepted : accepted[i] = bounds[i][1]

\* The library is said to be thread-safe: no handler is read while another thread writes it.
NoTornHandler == \A i \in DOMAIN accepted : \A s \in Settings : accepted[i][s] # Torn

\* After set_max_message_size() has returned, the processor that judges the frames has the limit.
LimitTakesEffect == changing = Unset /\ processor # Unset => processor = limit

\* A connection is one client behind its endpoint at most; and where one thread does everything,
\* its settings are whole and its limit takes effect.
SettingsHold ==
  /\ OneClientBehind
  /\ ~OtherThread => SettingsOfOneMoment /\ LimitTakesEffect
==============================================================================
