----------------------- MODULE ConnectionHandshakeProofs -----------------------
(***************************************************************************)
(* What the opening handshake promises, for every role, configuration and  *)
(* set of threads that respond: one operation at a time, one response to a *)
(* request, an open connection only after an accepted handshake, and, for  *)
(* a server, the handlers in the order of HandlerOrder; below it, that the *)
(* transport answers its initialisation and its shutdown once; and before  *)
(* it, that the acceptance loop goes on and does not multiply.             *)
(***************************************************************************)
EXTENDS ConnectionHandshake, AsioTransport, AcceptLoop, FiniteSetTheorems, SequenceTheorems, TLAPS

Operations == {"init", "read", "write"}
Handlers == {"http", "validate", "open", "fail", "close"}

------------------------------------------------------------------------------
(* What the steps have in common *)

\* terminate() keeps the types, and the shutdown it starts is that of the state.
LEMMA TerminateSteps ==
  ASSUME HandshakeTypeOK, NEW error \in Errors, Terminate(error)
  PROVE  /\ state' = "closed" /\ timer' = "none"
         /\ ec' \in Errors /\ ec' \in {ec, error}
         /\ httpState' = (IF isHttp THEN "closed" ELSE httpState)
         /\ shutdowns' \in [TerminateStatuses -> Nat]
         /\ state = "connecting" => /\ shutdowns'["failed"] = shutdowns["failed"] + 1
                                    /\ shutdowns'["closed"] = shutdowns["closed"]
         /\ state = "open" => /\ shutdowns'["failed"] = shutdowns["failed"]
                              /\ shutdowns'["closed"] = shutdowns["closed"] + 1
         /\ state = "closed" => shutdowns' = shutdowns
<1>1. state \in {"connecting", "open", "closed"} /\ ec \in Errors /\ shutdowns \in [TerminateStatuses -> Nat]
  BY DEF HandshakeTypeOK
<1>2. /\ state' = "closed" /\ timer' = "none"
      /\ ec' = (IF error = "none" THEN ec ELSE error)
      /\ httpState' = (IF isHttp THEN "closed" ELSE httpState)
      /\ shutdowns' = CASE state = "connecting" -> [shutdowns EXCEPT !["failed"] = @ + 1]
                        [] state = "open" -> [shutdowns EXCEPT !["closed"] = @ + 1]
                        [] OTHER -> shutdowns
  BY DEF Terminate
<1>3. ec' \in Errors /\ ec' \in {ec, error}
  BY <1>1, <1>2
<1>4. CASE state = "connecting"
  BY <1>1, <1>2, <1>3, <1>4 DEF TerminateStatuses
<1>5. CASE state = "open"
  BY <1>1, <1>2, <1>3, <1>5 DEF TerminateStatuses
<1>6. CASE state = "closed"
  BY <1>1, <1>2, <1>3, <1>6 DEF TerminateStatuses
<1> QED BY <1>1, <1>4, <1>5, <1>6

\* An operation ends, and another one may begin.
LEMMA ReplaceSteps ==
  ASSUME HandshakeTypeOK, NEW done \in Operations, NEW next \in Operations \cup {"none"},
         Completes(done), Replace(done, next)
  PROVE  /\ ops' \in [Operations -> Nat]
         /\ \A o \in Operations :
              ops'[o] = ops[o] - (IF o = done THEN 1 ELSE 0) + (IF o = next THEN 1 ELSE 0)
<1>1. ops \in [Operations -> Nat] /\ ops[done] > 0
  BY DEF HandshakeTypeOK, Completes, Operations
<1> DEFINE ended == [ops EXCEPT ![done] = @ - 1]
<1>2. /\ ended \in [Operations -> Nat]
      /\ \A o \in Operations : ended[o] = ops[o] - (IF o = done THEN 1 ELSE 0)
  BY <1>1
<1>3. ops' = IF next = "none" THEN ended ELSE [ended EXCEPT ![next] = @ + 1]
  BY DEF Replace
<1> HIDE DEF ended
<1>4. CASE next = "none"
  BY <1>2, <1>3, <1>4 DEF Operations
<1>5. CASE next # "none"
  BY <1>2, <1>3, <1>5 DEF Operations
<1> QED BY <1>4, <1>5

\* An operation ends, and none follows.
LEMMA EndSteps ==
  ASSUME HandshakeTypeOK, NEW done \in Operations, Completes(done), Replace(done, "none")
  PROVE  /\ ops' \in [Operations -> Nat]
         /\ \A o \in Operations : ops'[o] = ops[o] - (IF o = done THEN 1 ELSE 0)
<1>1. ops \in [Operations -> Nat] /\ ops[done] > 0
  BY DEF HandshakeTypeOK, Completes, Operations
<1>2. ops' = [ops EXCEPT ![done] = @ - 1]
  BY DEF Replace
<1> QED BY <1>1, <1>2

\* A handler is called after those before it.
LEMMA CallAfterOne ==
  ASSUME NEW a \in Handlers, NEW b \in Handlers
  PROVE  Append(<<a>>, b) = <<a, b>>
<1> DEFINE s == Append(<<a>>, b)
           t == <<a, b>>
<1>1. /\ <<a>> \in Seq(Handlers) /\ Len(<<a>>) = 1
      /\ t \in Seq(Handlers) /\ Len(t) = 2 /\ t[1] = a /\ t[2] = b
  OBVIOUS
<1>2. s \in Seq(Handlers) /\ Len(s) = 2 /\ s[1] = a /\ s[2] = b
  BY <1>1, AppendProperties
<1> HIDE DEF s, t
<1>3. Len(s) = Len(t) /\ \A i \in 1 .. Len(s) : s[i] = t[i]
  BY <1>1, <1>2
<1>4. s = t
  BY <1>1, <1>2, <1>3, SeqEqual
<1> QED BY <1>4 DEF s, t

LEMMA CallAfterTwo ==
  ASSUME NEW a \in Handlers, NEW b \in Handlers, NEW c \in Handlers
  PROVE  Append(<<a, b>>, c) = <<a, b, c>>
<1> DEFINE s == Append(<<a, b>>, c)
           t == <<a, b, c>>
<1>1. /\ <<a, b>> \in Seq(Handlers) /\ Len(<<a, b>>) = 2
      /\ t \in Seq(Handlers) /\ Len(t) = 3 /\ t[1] = a /\ t[2] = b /\ t[3] = c
  OBVIOUS
<1>2. s \in Seq(Handlers) /\ Len(s) = 3 /\ s[1] = a /\ s[2] = b /\ s[3] = c
  BY <1>1, AppendProperties
<1> HIDE DEF s, t
<1>3. Len(s) = Len(t) /\ \A i \in 1 .. Len(s) : s[i] = t[i]
  BY <1>1, <1>2
<1>4. s = t
  BY <1>1, <1>2, <1>3, SeqEqual
<1> QED BY <1>4 DEF s, t

\* What a response does to its status, and to the operation that led to it.
LEMMA ResponseSteps ==
  ASSUME HandshakeTypeOK, NEW code \in Statuses, NEW error \in Errors, NEW done \in Operations,
         Completes(done), WriteResponse(code, error, done)
  PROVE  /\ status' \in Statuses /\ ec' \in Errors /\ responses' = responses + 1
         /\ status' = "switching" <=> code = "switching"
         /\ ec' = "http_ended" => error = "http_ended"
         /\ ops' \in [Operations -> Nat]
         /\ \A o \in Operations :
              ops'[o] = ops[o] - (IF o = done THEN 1 ELSE 0) + (IF o = "write" THEN 1 ELSE 0)
<1>1. Replace(done, "write") /\ "write" \in Operations
  BY DEF WriteResponse, Operations
<1>2. /\ ops' \in [Operations -> Nat]
      /\ \A o \in Operations :
           ops'[o] = ops[o] - (IF o = done THEN 1 ELSE 0) + (IF o = "write" THEN 1 ELSE 0)
  BY <1>1, ReplaceSteps
<1> QED BY <1>2 DEF WriteResponse, Statuses, Errors

\* A request is read by a connecting server, which processes it then.
Reading == Completes("read") /\ state = "connecting" /\ istate = "READ_HTTP_REQUEST"

LEMMA ReadSteps ==
  ASSUME HandshakeTypeOK, ReadRefused \/ ReadHandshake \/ ReadHttpRefused \/ ReadHttp
  PROVE  /\ Reading /\ istate' = "PROCESS_HTTP_REQUEST" /\ isServer' = isServer
         /\ state' = state /\ due' = due /\ shutdowns' = shutdowns /\ responder' = responder
         /\ status' \in Statuses /\ ec' \in Errors
         /\ ec' = "http_ended" => ec = "http_ended"
         /\ ops' \in [Operations -> Nat] /\ called' \in Seq(Handlers)
         /\ \/ /\ httpState' = httpState /\ timer' = timer /\ responses' = responses + 1
               /\ ops'["init"] = ops["init"] /\ ops'["read"] = ops["read"] - 1
               /\ ops'["write"] = ops["write"] + 1
            \/ /\ httpState' = "deferred" /\ timer' = "none" /\ responses' = responses
               /\ ops'["init"] = ops["init"] /\ ops'["read"] = ops["read"] - 1
               /\ ops'["write"] = ops["write"] /\ isHttp'
         /\ \/ isHttp' = isHttp /\ called' = called /\ status' # "switching"
            \/ isHttp' = isHttp /\ called' = Append(called, "validate") /\ httpState' = httpState
            \/ isHttp' = TRUE /\ called' = Append(called, "http")
                 /\ (status' # "switching" \/ status' = status)
<1> DEFINE Wrote == /\ httpState' = httpState /\ timer' = timer /\ responses' = responses + 1
                    /\ ops'["init"] = ops["init"] /\ ops'["read"] = ops["read"] - 1
                    /\ ops'["write"] = ops["write"] + 1
<1>0. /\ called \in Seq(Handlers) /\ status \in Statuses /\ ec \in Errors
      /\ isHttp \in BOOLEAN /\ ops \in [Operations -> Nat]
      /\ {"refused", "uninitialized", "ok", "switching"} = Statuses
      /\ "read" \in Operations /\ "write" \in Operations /\ "init" \in Operations
      /\ {"none", "other"} \subseteq Errors
  BY DEF HandshakeTypeOK, Handlers, Operations, Statuses, Errors
<1>1. ASSUME NEW code \in Statuses, NEW error \in {"none", "other"}, Completes("read"),
             WriteResponse(code, error, "read"), UNCHANGED <<httpState, timer>>
      PROVE  /\ Wrote /\ status' \in Statuses /\ ec' \in Errors /\ ec' # "http_ended"
             /\ ops' \in [Operations -> Nat] /\ (status' = "switching" <=> code = "switching")
  <2>1. error \in Errors /\ "read" \in Operations
    BY <1>0
  <2>2. /\ status' \in Statuses /\ ec' \in Errors /\ responses' = responses + 1
        /\ status' = "switching" <=> code = "switching"
        /\ ec' = "http_ended" => error = "http_ended"
        /\ ops' \in [Operations -> Nat]
        /\ \A o \in Operations :
             ops'[o] = ops[o] - (IF o = "read" THEN 1 ELSE 0) + (IF o = "write" THEN 1 ELSE 0)
    BY <1>1, <2>1, ResponseSteps
  <2>3. ec' # "http_ended"
    BY <1>1, <2>2
  <2>4. /\ ops'["init"] = ops["init"] /\ ops'["read"] = ops["read"] - 1
        /\ ops'["write"] = ops["write"] + 1
    BY <1>0, <2>2
  <2>5. Wrote
    BY <1>1, <2>2, <2>4
  <2> QED BY <2>2, <2>3, <2>5
<1> HIDE DEF Wrote
<1>2. CASE ReadRefused \/ ReadHttpRefused
  <2>1. /\ Reading /\ istate' = "PROCESS_HTTP_REQUEST" /\ WriteResponse("refused", "other", "read")
        /\ UNCHANGED <<state, httpState, isServer, isHttp, timer, due, shutdowns, responder, called>>
    BY <1>2, Zenon DEF ReadRefused, ReadHttpRefused, Reading, kind
  <2>2. /\ Wrote /\ status' \in Statuses /\ ec' \in Errors /\ ec' # "http_ended"
        /\ ops' \in [Operations -> Nat] /\ status' # "switching"
    BY <1>0, <1>1, <2>1 DEF Reading
  <2> QED BY <1>0, <2>1, <2>2 DEF Wrote
<1>3. CASE ReadHandshake
  <2>1. /\ Reading /\ istate' = "PROCESS_HTTP_REQUEST"
        /\ UNCHANGED <<state, httpState, isServer, isHttp, timer, due, shutdowns, responder>>
    BY <1>3, Zenon DEF ReadHandshake, Reading, kind
  <2>2. PICK r \in Requests, accepts \in BOOLEAN, processed \in BOOLEAN :
          LET code == Handshake(r, accepts)
              failure == code = "switching" /\ ~processed
          IN  /\ WriteResponse(IF failure THEN "refused" ELSE code,
                               IF code = "refused" \/ failure THEN "other" ELSE "none", "read")
              /\ IF Asked(r) THEN Call("validate") ELSE UNCHANGED called
    BY <1>3, Zenon DEF ReadHandshake
  <2> DEFINE code == Handshake(r, accepts)
             failure == code = "switching" /\ ~processed
             sent == IF failure THEN "refused" ELSE code
  <2>3. /\ code \in {"refused", "switching"}
        /\ code = "switching" => Asked(r)
    BY DEF Handshake, Asked
  <2>4. sent \in Statuses /\ (sent = "switching" => Asked(r))
    BY <1>0, <2>3
  <2>5. (IF code = "refused" \/ failure THEN "other" ELSE "none") \in {"none", "other"}
    OBVIOUS
  <2>6. WriteResponse(sent, IF code = "refused" \/ failure THEN "other" ELSE "none", "read")
    BY <2>2
  <2>7. IF Asked(r) THEN called' = Append(called, "validate") ELSE called' = called
    BY <2>2 DEF Call
  <2> HIDE DEF sent, code, failure
  <2>8. /\ Wrote /\ status' \in Statuses /\ ec' \in Errors /\ ec' # "http_ended"
        /\ ops' \in [Operations -> Nat] /\ (status' = "switching" <=> sent = "switching")
    BY <1>1, <2>1, <2>4, <2>5, <2>6, Zenon DEF Reading
  <2>9. called' \in Seq(Handlers)
    BY <1>0, <2>7 DEF Handlers
  <2> QED BY <2>1, <2>4, <2>7, <2>8, <2>9 DEF Wrote
<1>4. CASE ReadHttp
  <2>1. /\ Reading /\ istate' = "PROCESS_HTTP_REQUEST" /\ isHttp' = TRUE
        /\ called' = Append(called, "http")
        /\ UNCHANGED <<state, isServer, due, shutdowns, responder>>
        /\ \/ /\ \E code \in {"uninitialized", "ok"} : WriteResponse(code, "none", "read")
              /\ UNCHANGED <<httpState, timer>>
           \/ /\ httpState' = "deferred" /\ timer' = "none"
              /\ Replace("read", "none")
              /\ UNCHANGED <<status, ec, responses>>
    BY <1>4, Zenon DEF ReadHttp, Reading, Call
  <2>2. called' \in Seq(Handlers)
    BY <1>0, <2>1 DEF Handlers
  <2>3. ASSUME NEW code \in {"uninitialized", "ok"}, WriteResponse(code, "none", "read"),
               UNCHANGED <<httpState, timer>>
        PROVE  /\ Wrote /\ status' \in Statuses /\ ec' \in Errors /\ ec' # "http_ended"
               /\ ops' \in [Operations -> Nat] /\ status' # "switching"
    BY <1>0, <1>1, <2>1, <2>3 DEF Reading
  <2>4. ASSUME Replace("read", "none")
        PROVE  /\ ops' \in [Operations -> Nat] /\ ops'["init"] = ops["init"]
               /\ ops'["read"] = ops["read"] - 1 /\ ops'["write"] = ops["write"]
    <3>1. Completes("read") /\ "read" \in Operations
      BY <1>0, <2>1 DEF Reading
    <3>2. /\ ops' \in [Operations -> Nat]
          /\ \A o \in Operations : ops'[o] = ops[o] - (IF o = "read" THEN 1 ELSE 0)
      BY <2>4, <3>1, EndSteps
    <3> QED BY <1>0, <3>1, <3>2
  <2> QED BY <1>0, <2>1, <2>2, <2>3, <2>4 DEF Wrote
<1> QED BY <1>2, <1>3, <1>4

------------------------------------------------------------------------------
(* The invariant is kept *)

\* Facts of IInv that most steps need.
LEMMA Known ==
  ASSUME IInv
  PROVE  /\ HandshakeTypeOK /\ OneOperation /\ RoleDiscipline /\ ResponseDiscipline
         /\ isServer => HandlersOfState /\ HandlersOfRequest
         /\ isServer \in BOOLEAN /\ isHttp \in BOOLEAN /\ due \in BOOLEAN
         /\ ops \in [Operations -> Nat] /\ shutdowns \in [TerminateStatuses -> Nat]
         /\ responses \in Nat /\ called \in Seq(Handlers)
         /\ responder \in [Responders -> {"idle", "responds", "done"}]
BY DEF IInv, HandshakeTypeOK, Operations, Handlers

\* A step that ends the connection: an operation may have ended too.
LEMMA TerminateKeeps ==
  ASSUME IInv, NEW error \in Errors, Terminate(error), error = "http_ended" => isHttp,
         UNCHANGED <<isServer, isHttp, status, istate, responder, called, responses>>,
         due' \in BOOLEAN, ops' \in [Operations -> Nat],
         \A o \in Operations : ops'[o] <= ops[o]
  PROVE  IInv'
<1>1. /\ state' = "closed" /\ timer' = "none"
      /\ ec' \in Errors /\ ec' \in {ec, error}
      /\ httpState' = (IF isHttp THEN "closed" ELSE httpState)
      /\ shutdowns' \in [TerminateStatuses -> Nat]
      /\ state = "connecting" => /\ shutdowns'["failed"] = shutdowns["failed"] + 1
                                 /\ shutdowns'["closed"] = shutdowns["closed"]
      /\ state = "open" => /\ shutdowns'["failed"] = shutdowns["failed"]
                           /\ shutdowns'["closed"] = shutdowns["closed"] + 1
      /\ state = "closed" => shutdowns' = shutdowns
  BY Known, TerminateSteps
<1>2. HandshakeTypeOK'
  BY Known, <1>1 DEF HandshakeTypeOK, Operations, Handlers
<1>3. OneOperation'
  <2>1. /\ ops'["init"] <= ops["init"] /\ ops'["read"] <= ops["read"] /\ ops'["write"] <= ops["write"]
        /\ ops'["init"] \in Nat /\ ops'["read"] \in Nat /\ ops'["write"] \in Nat
        /\ ops["init"] \in Nat /\ ops["read"] \in Nat /\ ops["write"] \in Nat
    BY Known DEF Operations
  <2>2. /\ OneOperation /\ istate' = istate /\ state' = "closed" /\ responder' = responder
        /\ httpState' = "deferred" => httpState = "deferred"
    BY Known, <1>1
  <2>3. ops'["init"] + ops'["read"] + ops'["write"] <= 1
    <3>1. ops["init"] + ops["read"] + ops["write"] <= 1
      BY <2>2 DEF OneOperation
    <3> QED BY <2>1, <3>1
  <2> QED BY <2>1, <2>2, <2>3 DEF OneOperation
<1>4. RoleDiscipline'
  BY Known, <1>1 DEF RoleDiscipline
<1>5. ResponseDiscipline'
  BY Known, <1>1 DEF ResponseDiscipline, RoleDiscipline
<1>6. isServer' => HandlersOfState' /\ HandlersOfRequest'
  <2>1. state \in {"connecting", "open", "closed"}
    BY Known DEF HandshakeTypeOK
  <2>2. isServer => HandlersOfRequest'
    BY Known, Zenon DEF HandlersOfRequest
  <2>3. ASSUME isServer PROVE HandlersOfState'
    <3>1. CASE state = "connecting"
      BY Known, <1>1, <2>3, <3>1 DEF HandlersOfState, Before, Shutting
    <3>2. CASE state = "open"
      BY Known, <1>1, <2>3, <3>2 DEF HandlersOfState, Before, Shutting
    <3>3. CASE state = "closed"
      BY Known, <1>1, <2>3, <3>3 DEF HandlersOfState, Before, Shutting
    <3> QED BY <2>1, <3>1, <3>2, <3>3
  <2> QED BY <2>2, <2>3
<1> QED BY <1>2, <1>3, <1>4, <1>5, <1>6 DEF IInv

\* The request is read, and processed.
LEMMA ReadKeeps ==
  ASSUME IInv, ReadRefused \/ ReadHandshake \/ ReadHttpRefused \/ ReadHttp
  PROVE  IInv'
<1>1. /\ Reading /\ istate' = "PROCESS_HTTP_REQUEST" /\ isServer' = isServer
      /\ state' = state /\ due' = due /\ shutdowns' = shutdowns /\ responder' = responder
      /\ status' \in Statuses /\ ec' \in Errors
      /\ ec' = "http_ended" => ec = "http_ended"
      /\ ops' \in [Operations -> Nat] /\ called' \in Seq(Handlers)
      /\ \/ /\ httpState' = httpState /\ timer' = timer /\ responses' = responses + 1
            /\ ops'["init"] = ops["init"] /\ ops'["read"] = ops["read"] - 1
            /\ ops'["write"] = ops["write"] + 1
         \/ /\ httpState' = "deferred" /\ timer' = "none" /\ responses' = responses
            /\ ops'["init"] = ops["init"] /\ ops'["read"] = ops["read"] - 1
            /\ ops'["write"] = ops["write"] /\ isHttp'
      /\ \/ isHttp' = isHttp /\ called' = called /\ status' # "switching"
         \/ isHttp' = isHttp /\ called' = Append(called, "validate") /\ httpState' = httpState
         \/ isHttp' = TRUE /\ called' = Append(called, "http")
              /\ (status' # "switching" \/ status' = status)
  BY Known, ReadSteps
<1>2. /\ state = "connecting" /\ istate = "READ_HTTP_REQUEST" /\ isServer /\ ops["read"] > 0
      /\ responses = 0 /\ httpState = "init" /\ ~isHttp /\ ec # "http_ended"
      /\ \A r \in Responders : responder[r] = "idle"
  <2>1. state = "connecting" /\ istate = "READ_HTTP_REQUEST" /\ ops["read"] > 0
    BY <1>1 DEF Reading, Completes
  <2>2. isServer /\ responses = 0 /\ httpState = "init" /\ ~isHttp
    BY Known, <2>1 DEF RoleDiscipline, ResponseDiscipline
  <2>3. ec # "http_ended" /\ \A r \in Responders : responder[r] = "idle"
    BY Known, <2>2 DEF RoleDiscipline, ResponseDiscipline
  <2> QED BY <2>1, <2>2, <2>3
<1>3. called = <<>> /\ status # "switching" /\ shutdowns["failed"] = 0 /\ shutdowns["closed"] = 0
  BY Known, <1>2 DEF HandlersOfState, HandlersOfRequest, Before, Shutting
<1>4. ops["init"] = 0 /\ ops["read"] = 1 /\ ops["write"] = 0
  BY Known, <1>2 DEF OneOperation, Operations
<1>5. HandshakeTypeOK'
  <2>1. isHttp' \in BOOLEAN
    BY Known, <1>1, Zenon
  <2>2. httpState' \in {"init", "deferred"} /\ timer' \in {timer, "none"}
    BY <1>1, <1>2
  <2>3. /\ isServer' \in BOOLEAN /\ state' = "connecting" /\ istate' = "PROCESS_HTTP_REQUEST"
        /\ status' \in Statuses /\ ec' \in Errors /\ due' \in BOOLEAN
        /\ ops' \in [Operations -> Nat] /\ called' \in Seq(Handlers)
        /\ shutdowns' \in [TerminateStatuses -> Nat]
        /\ responder' \in [Responders -> {"idle", "responds", "done"}]
        /\ responses' \in Nat
    BY Known, <1>1, <1>2
  <2>4. timer \in {"none", "waiting"}
    BY Known DEF HandshakeTypeOK
  <2> QED BY <2>1, <2>2, <2>3, <2>4 DEF HandshakeTypeOK, Operations, Handlers
<1>6. OneOperation'
  <2>1. ops'["init"] = 0 /\ ops'["read"] = 0 /\ ops'["write"] \in {0, 1}
    BY <1>1, <1>4
  <2>2. httpState' = "deferred" => ops'["write"] = 0
    BY <1>1, <1>2, <1>4
  <2>3. \A r \in Responders : responder'[r] # "responds"
    BY <1>1, <1>2
  <2> QED BY <1>1, <2>1, <2>2, <2>3 DEF OneOperation
<1>7. RoleDiscipline'
  <2>1. isHttp' => status' # "switching"
    BY <1>1, <1>2, <1>3
  <2> QED BY <1>1, <1>2, <2>1 DEF RoleDiscipline
<1>8. ResponseDiscipline'
  BY <1>1, <1>2 DEF ResponseDiscipline
<1>9. /\ called' \in Before
      /\ isHttp' <=> (called' # <<>> /\ called'[1] = "http")
      /\ status' = "switching" => called' # <<>> /\ called'[1] = "validate"
      /\ Len(called') <= 1
  <2>1. CASE isHttp' = isHttp /\ called' = called /\ status' # "switching"
    BY <1>2, <1>3, <2>1 DEF Before
  <2>2. CASE isHttp' = isHttp /\ called' = Append(called, "validate")
    BY <1>2, <1>3, <2>2 DEF Before
  <2>3. CASE isHttp' = TRUE /\ called' = Append(called, "http") /\ (status' # "switching" \/ status' = status)
    BY <1>2, <1>3, <2>3 DEF Before
  <2> QED BY <1>1, <2>1, <2>2, <2>3
<1>10. HandlersOfState' /\ HandlersOfRequest'
  <2>1. HandlersOfState'
    BY <1>1, <1>2, <1>3, <1>9 DEF HandlersOfState, Shutting
  <2>2. HandlersOfRequest'
    BY <1>1, <1>9 DEF HandlersOfRequest
  <2> QED BY <2>1, <2>2
<1> QED BY <1>5, <1>6, <1>7, <1>8, <1>10 DEF IInv

\* A deferred response is sent by one thread.
LEMMA DeferredKeeps ==
  ASSUME IInv, SetResponse \/ \E r \in Responders : SendHttpResponse(r) \/ WriteDeferred(r)
  PROVE  IInv'
<1>1. CASE SetResponse
  <2>1. /\ httpState = "deferred" /\ status' = "ok"
        /\ UNCHANGED <<state, istate, httpState, isServer, isHttp, ec, ops, timer, due,
                       shutdowns, responder, called, responses>>
    BY <1>1 DEF SetResponse, kind
  <2>2. HandshakeTypeOK'
    BY Known, <2>1 DEF HandshakeTypeOK, Statuses
  <2>3. OneOperation' /\ RoleDiscipline' /\ ResponseDiscipline'
    BY Known, <2>1 DEF OneOperation, RoleDiscipline, ResponseDiscipline
  <2>4. isHttp
    BY Known, <2>1 DEF RoleDiscipline
  <2>5. isServer => HandlersOfState' /\ HandlersOfRequest'
    <3>1. isServer => HandlersOfState'
      BY Known, <2>1, Zenon DEF HandlersOfState, Shutting, Before
    <3>2. isServer => ~(Len(called) > 1 /\ called[2] = "open")
      BY Known, <2>4 DEF HandlersOfRequest, HandlersOfState, Before, HandshakeTypeOK
    <3>3. isServer => HandlersOfRequest'
      BY Known, <2>1, <3>2 DEF HandlersOfRequest
    <3> QED BY <3>1, <3>3
  <2> QED BY <2>1, <2>2, <2>3, <2>5 DEF IInv
<1>2. ASSUME NEW r \in Responders, SendHttpResponse(r) PROVE IInv'
  <2>1. /\ responder[r] = "idle" /\ httpState = "deferred" /\ httpState' = "body_written"
        /\ responder' = [responder EXCEPT ![r] = "responds"]
        /\ UNCHANGED <<state, istate, isServer, isHttp, status, ec, ops, timer, due,
                       shutdowns, called, responses>>
    BY <1>2 DEF SendHttpResponse, result, kind
  <2>2. HandshakeTypeOK'
    BY Known, <2>1 DEF HandshakeTypeOK
  <2>3. /\ ops["init"] = 0 /\ ops["read"] = 0 /\ ops["write"] = 0 /\ responses = 0
        /\ isHttp /\ istate = "PROCESS_HTTP_REQUEST"
        /\ \A q \in Responders : responder[q] = "idle"
    BY Known, <2>1 DEF OneOperation, ResponseDiscipline, RoleDiscipline
  <2>4. \A q \in Responders : responder'[q] = IF q = r THEN "responds" ELSE "idle"
    BY Known, <2>1, <2>3
  <2>5. OneOperation' /\ RoleDiscipline'
    BY Known, <2>1, <2>3 DEF OneOperation, RoleDiscipline
  <2>6. ResponseDiscipline'
    BY <2>1, <2>3, <2>4 DEF ResponseDiscipline
  <2>7. isServer => HandlersOfState' /\ HandlersOfRequest'
    BY Known, <2>1, Zenon DEF HandlersOfState, HandlersOfRequest, Shutting, Before
  <2> QED BY <2>1, <2>2, <2>5, <2>6, <2>7 DEF IInv
<1>3. ASSUME NEW r \in Responders, WriteDeferred(r) PROVE IInv'
  <2>1. /\ responder[r] = "responds" /\ responder' = [responder EXCEPT ![r] = "done"]
        /\ status' = IF status = "uninitialized" THEN "refused" ELSE status
        /\ ec' = IF status = "uninitialized" THEN "other" ELSE "none"
        /\ ops' = [ops EXCEPT !["write"] = @ + 1]
        /\ responses' = responses + 1
        /\ UNCHANGED <<state, istate, httpState, isServer, isHttp, timer, due, shutdowns, called>>
    BY <1>3 DEF WriteDeferred, kind
  <2>2. /\ ops["init"] = 0 /\ ops["read"] = 0 /\ ops["write"] = 0 /\ responses = 0
        /\ httpState \notin {"init", "deferred"} /\ isHttp
        /\ isServer /\ istate = "PROCESS_HTTP_REQUEST" /\ status # "switching"
        /\ \A q \in Responders : responder[q] # "idle" => q = r
    <3>1. ops["init"] = 0 /\ ops["read"] = 0 /\ ops["write"] = 0 /\ responses = 0
      BY Known, <2>1 DEF OneOperation, ResponseDiscipline
    <3>2. httpState \notin {"init", "deferred"} /\ \A q \in Responders : responder[q] # "idle" => q = r
      BY Known, <2>1 DEF ResponseDiscipline
    <3> QED BY Known, <3>1, <3>2 DEF RoleDiscipline
  <2>3. /\ ops' \in [Operations -> Nat]
        /\ ops'["init"] = 0 /\ ops'["read"] = 0 /\ ops'["write"] = 1
    BY Known, <2>1, <2>2 DEF Operations
  <2>4. /\ responder' \in [Responders -> {"idle", "responds", "done"}]
        /\ \A q \in Responders : responder'[q] # "responds" /\ (responder'[q] # "idle" => q = r)
    BY Known, <2>1, <2>2
  <2>5. status' \in Statuses \ {"switching"} /\ ec' \in Errors /\ ec' # "http_ended"
    BY Known, <2>1, <2>2 DEF HandshakeTypeOK, Statuses, Errors
  <2>6. HandshakeTypeOK'
    BY Known, <2>1, <2>3, <2>4, <2>5 DEF HandshakeTypeOK, Operations, Handlers
  <2>7. OneOperation'
    BY <2>1, <2>2, <2>3, <2>4 DEF OneOperation
  <2>8. RoleDiscipline'
    BY <2>1, <2>2, <2>5 DEF RoleDiscipline
  <2>9. ResponseDiscipline'
    BY <2>1, <2>2, <2>4 DEF ResponseDiscipline
  <2>10. isServer => HandlersOfState' /\ HandlersOfRequest'
    <3>1. HandlersOfState'
      BY Known, <2>1, <2>2, Zenon DEF HandlersOfState, Shutting, Before
    <3>2. ~(Len(called) > 1 /\ called[2] = "open")
      BY Known, <2>2 DEF HandlersOfRequest
    <3>3. HandlersOfRequest'
      BY Known, <2>1, <2>2, <2>5, <3>2 DEF HandlersOfRequest
    <3> QED BY <3>1, <3>3
  <2> QED BY <2>1, <2>6, <2>7, <2>8, <2>9, <2>10 DEF IInv
<1> QED BY <1>1, <1>2, <1>3

\* An operation ends and the next one begins, the connection still being made;
\* or a transport that was given up completes.
LEMMA ProgressKeeps ==
  ASSUME IInv, Start \/ HandleTransportInit \/ RequestSent
  PROVE  IInv'
<1>1. CASE Start
  <2>1. /\ istate = "USER_INIT" /\ state = "connecting" /\ istate' = "TRANSPORT_INIT"
        /\ ops' = [ops EXCEPT !["init"] = @ + 1]
        /\ UNCHANGED <<state, httpState, isServer, isHttp, status, ec, timer, due, shutdowns,
                       responder, called, responses>>
    BY <1>1 DEF Start, result, kind
  <2>2. /\ ops["init"] = 0 /\ ops["read"] = 0 /\ ops["write"] = 0
        /\ ~isHttp /\ httpState = "init" /\ \A r \in Responders : responder[r] = "idle"
    BY Known, <2>1 DEF OneOperation, ResponseDiscipline
  <2>3. /\ ops' \in [Operations -> Nat]
        /\ ops'["init"] = 1 /\ ops'["read"] = 0 /\ ops'["write"] = 0
    BY Known, <2>1, <2>2 DEF Operations
  <2>4. HandshakeTypeOK'
    BY Known, <2>1, <2>3 DEF HandshakeTypeOK, Operations, Handlers
  <2>5. OneOperation' /\ RoleDiscipline'
    BY Known, <2>1, <2>2, <2>3 DEF OneOperation, RoleDiscipline
  <2>6. ResponseDiscipline'
    BY Known, <2>1 DEF ResponseDiscipline
  <2>7. isServer => HandlersOfState' /\ HandlersOfRequest'
    <3>1. isServer => HandlersOfState'
      BY Known, <2>1, Zenon DEF HandlersOfState, Shutting, Before
    <3>2. isServer => HandlersOfRequest'
      BY Known, <2>1 DEF HandlersOfRequest
    <3> QED BY <3>1, <3>2
  <2> QED BY <2>1, <2>4, <2>5, <2>6, <2>7 DEF IInv
<1>2. CASE HandleTransportInit
  <2>1. /\ Completes("init") /\ timer' \in {"waiting", timer}
        /\ istate' = IF isServer THEN "READ_HTTP_REQUEST" ELSE "WRITE_HTTP_REQUEST"
        /\ Replace("init", IF isServer THEN "read" ELSE "write")
        /\ UNCHANGED <<state, httpState, isServer, isHttp, status, ec, due, shutdowns,
                       responder, called, responses>>
    BY <1>2 DEF HandleTransportInit, result, kind
  <2>2. /\ ops["init"] = 1 /\ ops["read"] = 0 /\ ops["write"] = 0
        /\ istate = "TRANSPORT_INIT" /\ ~isHttp /\ httpState = "init" /\ responses = 0
        /\ \A r \in Responders : responder[r] = "idle"
    BY Known, <2>1 DEF OneOperation, ResponseDiscipline, Completes, Operations
  <2>3. /\ ops' \in [Operations -> Nat]
        /\ \A o \in Operations :
             ops'[o] = ops[o] - (IF o = "init" THEN 1 ELSE 0)
                              + (IF o = (IF isServer THEN "read" ELSE "write") THEN 1 ELSE 0)
    <3>1. (IF isServer THEN "read" ELSE "write") \in Operations /\ "init" \in Operations
      BY DEF Operations
    <3> QED BY Known, <2>1, <3>1, ReplaceSteps
  <2>4. /\ ops'["init"] = 0 /\ ops'["read"] = (IF isServer THEN 1 ELSE 0)
        /\ ops'["write"] = (IF isServer THEN 0 ELSE 1)
    BY <2>2, <2>3 DEF Operations
  <2>5. HandshakeTypeOK'
    <3>1. istate' \in {"READ_HTTP_REQUEST", "WRITE_HTTP_REQUEST"}
      BY <2>1
    <3> QED BY Known, <2>1, <2>3, <3>1 DEF HandshakeTypeOK, Operations, Handlers
  <2>6. OneOperation' /\ RoleDiscipline'
    BY Known, <2>1, <2>2, <2>4 DEF OneOperation, RoleDiscipline
  <2>7. ResponseDiscipline'
    BY Known, <2>1, <2>2 DEF ResponseDiscipline
  <2>8. isServer => HandlersOfState' /\ HandlersOfRequest'
    <3>1. isServer => HandlersOfState'
      BY Known, <2>1, Zenon DEF HandlersOfState, Shutting, Before
    <3>2. isServer => HandlersOfRequest'
      BY Known, <2>1, <2>2 DEF HandlersOfRequest
    <3> QED BY <3>1, <3>2
  <2> QED BY <2>1, <2>5, <2>6, <2>7, <2>8 DEF IInv
<1>3. CASE RequestSent
  <2>1. /\ ~isServer /\ Completes("write") /\ state = "connecting"
        /\ istate = "WRITE_HTTP_REQUEST" /\ istate' = "READ_HTTP_RESPONSE"
        /\ Replace("write", "read")
        /\ UNCHANGED <<state, httpState, isServer, isHttp, status, ec, timer, due, shutdowns,
                       responder, called, responses>>
    BY <1>3 DEF RequestSent, result, kind
  <2>2. /\ ops["init"] = 0 /\ ops["read"] = 0 /\ ops["write"] = 1
        /\ ~isHttp /\ httpState = "init" /\ \A r \in Responders : responder[r] = "idle"
    BY Known, <2>1 DEF OneOperation, ResponseDiscipline, RoleDiscipline, Completes, Operations
  <2>3. /\ ops' \in [Operations -> Nat]
        /\ ops'["init"] = 0 /\ ops'["read"] = 1 /\ ops'["write"] = 0
    <3>1. "read" \in Operations /\ "write" \in Operations /\ "init" \in Operations
      BY DEF Operations
    <3>2. /\ ops' \in [Operations -> Nat]
          /\ \A o \in Operations :
               ops'[o] = ops[o] - (IF o = "write" THEN 1 ELSE 0) + (IF o = "read" THEN 1 ELSE 0)
      BY Known, <2>1, <3>1, ReplaceSteps
    <3> QED BY <2>2, <3>1, <3>2
  <2>4. HandshakeTypeOK'
    BY Known, <2>1, <2>3 DEF HandshakeTypeOK, Operations, Handlers
  <2>5. OneOperation' /\ RoleDiscipline'
    BY Known, <2>1, <2>2, <2>3 DEF OneOperation, RoleDiscipline
  <2>6. ResponseDiscipline'
    BY Known, <2>1, <2>2 DEF ResponseDiscipline
  <2> QED BY <2>1, <2>4, <2>5, <2>6 DEF IInv
<1> QED BY <1>1, <1>2, <1>3

\* The connection opens.
LEMMA OpenKeeps ==
  ASSUME IInv, NEW done \in {"read", "write"}, Completes(done), Replace(done, "none"),
         state = "connecting", istate \in {"PROCESS_HTTP_REQUEST", "READ_HTTP_RESPONSE"},
         Opens, timer' = "none", ec' \in {ec, "other"}, shutdowns' \in [TerminateStatuses -> Nat],
         isServer => status = "switching" /\ shutdowns' = shutdowns,
         ~isServer => istate = "READ_HTTP_RESPONSE",
         UNCHANGED <<isServer, isHttp, status, httpState, due, responder, responses>>
  PROVE  IInv'
<1>1. /\ istate' = "PROCESS_CONNECTION" /\ state' = "open" /\ called' = Append(called, "open")
  BY DEF Opens, Call
<1>2. /\ ops' \in [Operations -> Nat]
      /\ ops'["init"] = 0 /\ ops'["read"] = 0 /\ ops'["write"] = 0
  <2>1. done \in Operations /\ {"init", "read", "write"} = Operations
    BY DEF Operations
  <2>2. /\ ops' \in [Operations -> Nat]
        /\ \A o \in Operations :
             ops'[o] = ops[o] - (IF o = done THEN 1 ELSE 0) + (IF o = "none" THEN 1 ELSE 0)
    BY Known, <2>1, ReplaceSteps
  <2>3. \A o \in Operations : ops[o] = IF o = done THEN 1 ELSE 0
    BY Known DEF Completes, OneOperation, Operations
  <2> QED BY <2>1, <2>2, <2>3
<1>3. ~isHttp /\ httpState = "init" /\ ec # "http_ended" /\ \A r \in Responders : responder[r] = "idle"
  <2>1. ~isHttp
    BY Known DEF RoleDiscipline
  <2> QED BY Known, <2>1 DEF RoleDiscipline, ResponseDiscipline
<1>4. HandshakeTypeOK'
  <2>1. called' \in Seq(Handlers)
    BY Known, <1>1 DEF Handlers
  <2>2. ec' \in Errors
    BY Known DEF HandshakeTypeOK, Errors
  <2> QED BY Known, <1>1, <1>2, <2>1, <2>2 DEF HandshakeTypeOK, Operations, Handlers
<1>5. OneOperation' /\ RoleDiscipline'
  BY <1>1, <1>2, <1>3 DEF OneOperation, RoleDiscipline
<1>6. ResponseDiscipline'
  BY Known, <1>1, <1>3 DEF ResponseDiscipline
<1>7. isServer => HandlersOfState' /\ HandlersOfRequest'
  <2>1. isServer => called = <<"validate">> /\ Shutting(0, 0)
    BY Known DEF HandlersOfState, HandlersOfRequest, Before
  <2>2. isServer => called' = <<"validate", "open">> /\ shutdowns' = shutdowns
    <3>1. Append(<<"validate">>, "open") = <<"validate", "open">>
      BY CallAfterOne DEF Handlers
    <3> QED BY <1>1, <2>1, <3>1
  <2>3. isServer => HandlersOfState'
    BY <1>1, <2>1, <2>2 DEF HandlersOfState, Shutting
  <2>4. isServer => called' # <<>> /\ called'[1] = "validate"
    <3> DEFINE both == <<"validate", "open">>
    <3>1. both # <<>> /\ both[1] = "validate"
      OBVIOUS
    <3> HIDE DEF both
    <3>2. isServer => called' = both
      BY <2>2 DEF both
    <3> QED BY <3>1, <3>2, Zenon
  <2>5. isServer => HandlersOfRequest'
    <3>1. ~isHttp' /\ status' = status
      BY <1>3, Zenon
    <3> QED BY <1>1, <2>4, <3>1 DEF HandlersOfRequest
  <2> QED BY <2>3, <2>5
<1> QED BY <1>4, <1>5, <1>6, <1>7 DEF IInv

\* handle_terminate() calls the handler that its shutdown was for.
LEMMA EndedKeeps ==
  ASSUME IInv, NEW end \in TerminateStatuses, HandleTerminateAs(end)
  PROVE  IInv'
<1>1. /\ shutdowns[end] > 0 /\ shutdowns' = [shutdowns EXCEPT ![end] = @ - 1]
      /\ end = "closed" => called' = Append(called, "close")
      /\ end = "failed" /\ ec # "http_ended" => called' = Append(called, "fail")
      /\ end = "failed" /\ ec = "http_ended" => called' = called
      /\ UNCHANGED <<state, istate, httpState, isServer, isHttp, status, ec, ops, timer, due,
                     responder, responses>>
  BY DEF HandleTerminateAs, Call, TerminateStatuses, result, kind
<1>2. /\ end \in {"failed", "closed"} /\ shutdowns' \in [TerminateStatuses -> Nat]
      /\ shutdowns'[end] = shutdowns[end] - 1
      /\ \A e \in TerminateStatuses \ {end} : shutdowns'[e] = shutdowns[e]
  BY Known, <1>1 DEF TerminateStatuses
<1>3. called' \in Seq(Handlers)
  <2>1. "close" \in Handlers /\ "fail" \in Handlers
    BY DEF Handlers
  <2>2. Append(called, "close") \in Seq(Handlers) /\ Append(called, "fail") \in Seq(Handlers)
    BY Known, <2>1, AppendProperties
  <2>3. called' \in {called, Append(called, "close"), Append(called, "fail")}
    BY <1>1, <1>2
  <2> QED BY Known, <2>2, <2>3
<1>4. HandshakeTypeOK'
  BY Known, <1>1, <1>2, <1>3 DEF HandshakeTypeOK, Handlers
<1>5. OneOperation' /\ RoleDiscipline' /\ ResponseDiscipline'
  BY Known, <1>1 DEF OneOperation, RoleDiscipline, ResponseDiscipline
<1>6. ASSUME isServer PROVE HandlersOfState' /\ HandlersOfRequest'
  <2>1. /\ state \in {"connecting", "open", "closed"}
        /\ HandlersOfState /\ HandlersOfRequest
    BY Known, <1>6 DEF HandshakeTypeOK
  <2>2. state = "closed"
    BY <1>1, <1>2, <2>1 DEF HandlersOfState, Shutting, TerminateStatuses
  <2>3. CASE end = "failed"
    <3>1. Shutting(1, 0) /\ called \in Before
      BY Known, <1>1, <2>1, <2>2, <2>3 DEF HandlersOfState, Shutting
    <3>2. Shutting(0, 0)'
      BY Known, <1>2, <2>3, <3>1 DEF Shutting, TerminateStatuses
    <3>3. ec = "http_ended" => called = <<"http">>
      BY Known, <2>1, <3>1 DEF RoleDiscipline, HandlersOfRequest, Before
    <3>4. called' \in {<<"fail">>, <<"http">>, <<"http", "fail">>, <<"validate", "fail">>}
      <4>1. /\ Append(<<>>, "fail") = <<"fail">>
            /\ Append(<<"http">>, "fail") = <<"http", "fail">>
            /\ Append(<<"validate">>, "fail") = <<"validate", "fail">>
        BY CallAfterOne DEF Handlers
      <4> QED BY <1>1, <2>3, <3>1, <3>3, <4>1 DEF Before
    <3>5. HandlersOfState'
      BY <1>1, <2>2, <3>2, <3>4 DEF HandlersOfState
    <3>6. /\ called' # <<>> /\ called'[1] \in {called[1], "fail"}
          /\ called = <<>> => called' \in {<<>>, <<"fail">>}
          /\ called # <<>> => called'[1] = called[1]
          /\ Len(called') > 1 => called'[2] = "fail"
      <4>1. CASE called = <<>>
        <5>1. called' = <<"fail">>
          BY <1>1, <2>3, <3>3, <4>1
        <5> QED BY <4>1, <5>1
      <4>2. CASE called = <<"http">>
        <5>1. called' \in {<<"http">>, <<"http", "fail">>}
          BY <1>1, <2>3, <4>2, CallAfterOne DEF Handlers
        <5> QED BY <4>2, <5>1
      <4>3. CASE called = <<"validate">>
        <5>1. called' = <<"validate", "fail">>
          BY <1>1, <2>3, <3>3, <4>3, CallAfterOne DEF Handlers
        <5> QED BY <4>3, <5>1
      <4> QED BY <3>1, <4>1, <4>2, <4>3 DEF Before
    <3>7. HandlersOfRequest'
      BY <1>1, <2>1, <3>1, <3>6 DEF HandlersOfRequest, Before
    <3> QED BY <3>5, <3>7
  <2>4. CASE end = "closed"
    <3>1. Shutting(0, 1) /\ called = <<"validate", "open">>
      BY Known, <1>1, <2>1, <2>2, <2>4 DEF HandlersOfState, Shutting
    <3>2. Shutting(0, 0)'
      BY Known, <1>2, <2>4, <3>1 DEF Shutting, TerminateStatuses
    <3>3. called' = <<"validate", "open", "close">>
      BY <1>1, <2>4, <3>1, CallAfterTwo DEF Handlers
    <3>4. HandlersOfState'
      BY <1>1, <2>2, <3>2, <3>3 DEF HandlersOfState
    <3>5. HandlersOfRequest'
      BY <1>1, <2>1, <3>1, <3>3 DEF HandlersOfRequest
    <3> QED BY <3>4, <3>5
  <2> QED BY <1>2, <2>3, <2>4
<1> QED BY <1>1, <1>4, <1>5, <1>6 DEF IInv

\* A completion handler that finds the connection closed or broken.
LEMMA FailsKeeps ==
  ASSUME IInv, NEW done \in Operations, FailsIn(done)
  PROVE  IInv'
<1>1. /\ ops' \in [Operations -> Nat]
      /\ \A o \in Operations : ops'[o] <= ops[o]
  <2>1. Completes(done) /\ Replace(done, "none")
    BY DEF FailsIn
  <2>2. /\ ops' \in [Operations -> Nat]
        /\ \A o \in Operations :
             ops'[o] = ops[o] - (IF o = done THEN 1 ELSE 0) + (IF o = "none" THEN 1 ELSE 0)
    BY Known, <2>1, ReplaceSteps
  <2>3. "none" \notin Operations /\ ops \in [Operations -> Nat]
    BY Known DEF Operations
  <2> QED BY <2>2, <2>3
<1>2. UNCHANGED <<isServer, isHttp, status, istate, due, responder, called, responses>>
  BY DEF FailsIn, kind
<1>3. CASE Terminate("other")
  <2>1. "other" \in Errors /\ due' \in BOOLEAN
    BY Known, <1>2 DEF Errors
  <2> QED BY <1>1, <1>2, <1>3, <2>1, TerminateKeeps
<1>4. CASE UNCHANGED <<state, ec, httpState, timer, shutdowns>>
  <2>1. /\ ops'["init"] <= ops["init"] /\ ops'["read"] <= ops["read"] /\ ops'["write"] <= ops["write"]
        /\ ops'["init"] \in Nat /\ ops'["read"] \in Nat /\ ops'["write"] \in Nat
        /\ ops["init"] \in Nat /\ ops["read"] \in Nat /\ ops["write"] \in Nat
    BY Known, <1>1 DEF Operations
  <2>2. HandshakeTypeOK'
    BY Known, <1>1, <1>2, <1>4 DEF HandshakeTypeOK, Operations
  <2>3. OneOperation'
    <3>1. state' = state /\ istate' = istate /\ httpState' = httpState /\ responder' = responder
      BY <1>2, <1>4
    <3>2. ops["init"] + ops["read"] + ops["write"] <= 1
      BY Known DEF OneOperation
    <3>3. ops'["init"] + ops'["read"] + ops'["write"] <= 1
      BY <2>1, <3>2
    <3>4. /\ ops'["init"] > 0 => ops["init"] > 0
          /\ ops'["read"] > 0 => ops["read"] > 0
          /\ ops'["write"] > 0 => ops["write"] > 0
      BY <2>1
    <3>5. ops["init"] = 0 /\ ops["read"] = 0 /\ ops["write"] = 0 =>
            ops'["init"] = 0 /\ ops'["read"] = 0 /\ ops'["write"] = 0
      BY <2>1
    <3> QED BY Known, <3>1, <3>3, <3>4, <3>5 DEF OneOperation
  <2>4. RoleDiscipline' /\ ResponseDiscipline'
    BY Known, <1>2, <1>4 DEF RoleDiscipline, ResponseDiscipline
  <2>5. isServer => HandlersOfState' /\ HandlersOfRequest'
    BY Known, <1>2, <1>4, Zenon DEF HandlersOfState, HandlersOfRequest, Shutting, Before
  <2> QED BY <1>2, <2>2, <2>3, <2>4, <2>5 DEF IInv
<1> QED BY <1>3, <1>4 DEF FailsIn

\* The response is written: it opens the connection or ends it.
LEMMA WrittenKeeps ==
  ASSUME IInv, ResponseWritten
  PROVE  IInv'
<1>1. /\ isServer /\ Completes("write") /\ state = "connecting"
      /\ istate = "PROCESS_HTTP_REQUEST" /\ Replace("write", "none")
      /\ UNCHANGED <<isServer, isHttp, status, due, responder, responses>>
  BY DEF ResponseWritten, kind
<1>2. "write" \in Operations /\ "none" \notin Operations
  BY DEF Operations
<1>3. CASE status = "switching"
  <2>1. Opens /\ timer' = "none" /\ UNCHANGED <<httpState, ec, shutdowns>>
    BY <1>3 DEF ResponseWritten
  <2>2. ec' \in {ec, "other"} /\ shutdowns' \in [TerminateStatuses -> Nat]
    BY Known, <2>1
  <2> QED BY <1>1, <1>3, <2>1, <2>2, OpenKeeps
<1>4. CASE status # "switching"
  <2> DEFINE error == IF isHttp THEN "http_ended" ELSE ec
  <2>1. Terminate(error) /\ UNCHANGED <<istate, called>>
    BY <1>4 DEF ResponseWritten
  <2>2. error \in Errors /\ (error = "http_ended" => isHttp)
    BY Known DEF HandshakeTypeOK, Errors, RoleDiscipline
  <2>3. /\ ops' \in [Operations -> Nat]
        /\ \A o \in Operations : ops'[o] = ops[o] - (IF o = "write" THEN 1 ELSE 0)
    BY Known, <1>1, <1>2, EndSteps
  <2>4. \A o \in Operations : ops'[o] <= ops[o]
    BY Known, <1>2, <2>3
  <2>5. due' \in BOOLEAN
    BY Known, <1>1
  <2> HIDE DEF error
  <2> QED BY <1>1, <2>1, <2>2, <2>3, <2>4, <2>5, TerminateKeeps
<1> QED BY <1>3, <1>4

\* A client's response arrives: the connection opens, or ends.
LEMMA AnsweredKeeps ==
  ASSUME IInv, ResponseRefused \/ ResponseAccepted \/ ResponseUnnegotiated
  PROVE  IInv'
<1>1. /\ Completes("read") /\ state = "connecting"
      /\ istate = "READ_HTTP_RESPONSE" /\ Replace("read", "none")
      /\ UNCHANGED <<isServer, isHttp, status, due, responder, responses>>
  BY DEF ResponseRefused, ResponseAccepted, ResponseUnnegotiated, result, kind
<1>2. ~isServer
  BY Known, <1>1 DEF RoleDiscipline
<1>3. "read" \in Operations /\ "none" \notin Operations
  BY DEF Operations
<1>4. CASE ResponseRefused
  <2>1. Terminate("other") /\ UNCHANGED <<istate, called>>
    BY <1>4 DEF ResponseRefused
  <2>2. /\ ops' \in [Operations -> Nat]
        /\ \A o \in Operations :
             ops'[o] = ops[o] - (IF o = "read" THEN 1 ELSE 0) + (IF o = "none" THEN 1 ELSE 0)
    BY Known, <1>1, <1>3, ReplaceSteps
  <2>3. \A o \in Operations : ops'[o] <= ops[o]
    <3>1. ASSUME NEW o \in Operations PROVE ops'[o] <= ops[o]
      <4>1. ops[o] \in Nat /\ o # "none"
        BY Known, <1>3
      <4> QED BY <2>2, <4>1
    <3> QED BY <3>1
  <2>4. due' \in BOOLEAN /\ "other" \in Errors
    BY Known, <1>1 DEF Errors
  <2> QED BY <1>1, <2>1, <2>2, <2>3, <2>4, TerminateKeeps
<1>5. CASE ResponseAccepted \/ ResponseUnnegotiated
  <2>1. /\ Opens /\ timer' = "none" /\ ec' \in {ec, "other"} /\ httpState' = httpState
        /\ shutdowns' \in {shutdowns, [shutdowns EXCEPT !["failed"] = @ + 1]}
    BY <1>5 DEF ResponseAccepted, ResponseUnnegotiated, result
  <2>2. shutdowns' \in [TerminateStatuses -> Nat]
    BY Known, <2>1 DEF TerminateStatuses
  <2> QED BY <1>1, <1>2, <2>1, <2>2, OpenKeeps
<1> QED BY <1>4, <1>5

\* The connection is ended from outside the handshake.
LEMMA EndsKeeps ==
  ASSUME IInv, NeverStarts \/ SessionEnds \/ OpenTimeout
  PROVE  IInv'
<1>1. /\ UNCHANGED <<isServer, isHttp, status, istate, responder, called, responses, ops>>
      /\ due' \in {due, FALSE}
      /\ \E error \in {"none", "other", "timeout"} : Terminate(error)
  BY DEF NeverStarts, SessionEnds, OpenTimeout, kind
<1>2. PICK error \in {"none", "other", "timeout"} : Terminate(error)
  BY <1>1
<1>3. error \in Errors /\ error # "http_ended" /\ due' \in BOOLEAN
  BY Known, <1>1 DEF Errors
<1>4. ops' \in [Operations -> Nat] /\ \A o \in Operations : ops'[o] <= ops[o]
  BY Known, <1>1
<1> QED BY <1>1, <1>2, <1>3, <1>4, TerminateKeeps

------------------------------------------------------------------------------
(* The theorems *)

\* Every connection starts with nothing under way, and every step keeps it so.
LEMMA InitInvariant ==
  ASSUME HandshakeAssumption, HandshakeInit
  PROVE  IInv
<1>1. HandshakeTypeOK
  <2>1. isServer \in BOOLEAN /\ isHttp \in BOOLEAN /\ due \in BOOLEAN
    BY Zenon DEF HandshakeAssumption, HandshakeInit
  <2>2. /\ ops \in [{"init", "read", "write"} -> Nat] /\ shutdowns \in [TerminateStatuses -> Nat]
        /\ responder \in [Responders -> {"idle", "responds", "done"}]
        /\ called \in Seq({"http", "validate", "open", "fail", "close"})
        /\ responses \in Nat
    BY DEF HandshakeInit, TerminateStatuses
  <2>3. /\ state \in {"connecting", "open", "closed"} /\ istate = "USER_INIT"
        /\ httpState = "init" /\ status \in Statuses /\ ec \in Errors
        /\ timer \in {"none", "waiting"}
    BY DEF HandshakeInit, Statuses, Errors
  <2> QED BY <2>1, <2>2, <2>3 DEF HandshakeTypeOK
<1>2. OneOperation /\ RoleDiscipline /\ ResponseDiscipline
  BY DEF HandshakeInit, OneOperation, RoleDiscipline, ResponseDiscipline
<1>3. HandlersOfState /\ HandlersOfRequest
  BY DEF HandshakeInit, HandlersOfState, HandlersOfRequest, Before, Shutting, TerminateStatuses
<1> QED BY <1>1, <1>2, <1>3 DEF IInv

LEMMA NextInvariant ==
  ASSUME IInv, [HandshakeNext]_handshakeVars
  PROVE  IInv'
<1>1. CASE UNCHANGED handshakeVars
  <2>1. UNCHANGED <<state, istate, httpState, isServer, isHttp, status, ec, ops, timer, due,
                    shutdowns, responder, called, responses>>
    BY <1>1 DEF handshakeVars, result, kind
  <2>2. HandshakeTypeOK' /\ OneOperation' /\ RoleDiscipline' /\ ResponseDiscipline'
    BY Known, <2>1 DEF HandshakeTypeOK, OneOperation, RoleDiscipline, ResponseDiscipline
  <2>3. isServer => HandlersOfState' /\ HandlersOfRequest'
    BY Known, <2>1, Zenon DEF HandlersOfState, HandlersOfRequest, Shutting, Before
  <2> QED BY <2>1, <2>2, <2>3 DEF IInv
<1>2. CASE TimerExpires
  <2>1. /\ due' = TRUE
        /\ UNCHANGED <<state, istate, httpState, isServer, isHttp, status, ec, ops, timer,
                       shutdowns, responder, called, responses>>
    BY <1>2 DEF TimerExpires, result, kind
  <2>2. HandshakeTypeOK' /\ OneOperation' /\ RoleDiscipline' /\ ResponseDiscipline'
    BY Known, <2>1 DEF HandshakeTypeOK, OneOperation, RoleDiscipline, ResponseDiscipline
  <2>3. isServer => HandlersOfState' /\ HandlersOfRequest'
    BY Known, <2>1, Zenon DEF HandlersOfState, HandlersOfRequest, Shutting, Before
  <2> QED BY <2>1, <2>2, <2>3 DEF IInv
<1>3. CASE ReadMore \/ ResponseMore
  BY <1>1, <1>3 DEF ReadMore, ResponseMore
<1>4. CASE ReadRefused \/ ReadHandshake \/ ReadHttpRefused \/ ReadHttp
  BY <1>4, ReadKeeps
<1>5. CASE SetResponse \/ \E r \in Responders : SendHttpResponse(r) \/ WriteDeferred(r)
  BY <1>5, DeferredKeeps
<1>6. CASE Start \/ HandleTransportInit \/ RequestSent
  BY <1>6, ProgressKeeps
<1>7. CASE Fails
  <2>1. PICK done \in Operations : FailsIn(done)
    BY <1>7 DEF Fails, Operations
  <2> QED BY <2>1, FailsKeeps
<1>8. CASE ResponseWritten
  BY <1>8, WrittenKeeps
<1>9. CASE ResponseRefused \/ ResponseAccepted \/ ResponseUnnegotiated
  BY <1>9, AnsweredKeeps
<1>10. CASE NeverStarts \/ SessionEnds \/ OpenTimeout
  BY <1>10, EndsKeeps
<1>11. CASE Ended
  BY <1>11, EndedKeeps DEF Ended
<1> QED
  BY <1>1, <1>2, <1>3, <1>4, <1>5, <1>6, <1>7, <1>8, <1>9, <1>10, <1>11 DEF HandshakeNext

\* The inductive invariant, for every role, configuration and set of threads:
\* one operation at a time, one thread that responds, and, for a server, the
\* handlers that belong to the state and to the request.
THEOREM HandshakeInvariant == HandshakeAssumption => (HandshakeSpec => []IInv)
<1> SUFFICES ASSUME HandshakeAssumption PROVE HandshakeSpec => []IInv
  OBVIOUS
<1>1. HandshakeInit => IInv
  BY InitInvariant
<1>2. IInv /\ [HandshakeNext]_handshakeVars => IInv'
  BY NextInvariant
<1> QED BY <1>1, <1>2, PTL DEF HandshakeSpec

\* The sequences of handlers a server's connection may have called.
Orders == {<<>>, <<"fail">>, <<"http">>, <<"validate">>, <<"http", "fail">>,
           <<"validate", "fail">>, <<"validate", "open">>, <<"validate", "open", "close">>}

\* Each of them, by its length and its elements.
Elements(s) ==
  \/ s = <<>> /\ Len(s) = 0
  \/ s # <<>> /\ Len(s) = 1 /\ s[1] \in {"fail", "http", "validate"}
  \/ s # <<>> /\ Len(s) = 2 /\ s[1] \in {"http", "validate"} /\ s[2] = "fail"
  \/ s # <<>> /\ Len(s) = 2 /\ s[1] = "validate" /\ s[2] = "open"
  \/ s # <<>> /\ Len(s) = 3 /\ s[1] = "validate" /\ s[2] = "open" /\ s[3] = "close"

LEMMA OrderElements ==
  ASSUME NEW s \in Orders
  PROVE  s \in Seq(Handlers) /\ Elements(s)
<1>1. CASE s = <<>>
  BY <1>1 DEF Handlers, Elements
<1>2. CASE s = <<"fail">>
  BY <1>2 DEF Handlers, Elements
<1>3. CASE s = <<"http">>
  BY <1>3 DEF Handlers, Elements
<1>4. CASE s = <<"validate">>
  BY <1>4 DEF Handlers, Elements
<1>5. CASE s = <<"http", "fail">>
  BY <1>5 DEF Handlers, Elements
<1>6. CASE s = <<"validate", "fail">>
  BY <1>6 DEF Handlers, Elements
<1>7. CASE s = <<"validate", "open">>
  BY <1>7 DEF Handlers, Elements
<1>8. CASE s = <<"validate", "open", "close">>
  BY <1>8 DEF Handlers, Elements
<1> QED BY <1>1, <1>2, <1>3, <1>4, <1>5, <1>6, <1>7, <1>8 DEF Orders

\* What a server's handlers amount to, counted.
LEMMA Counting ==
  ASSUME called \in Orders
  PROVE  Count("open") > 0 =>
           /\ Len(called) > 1 /\ called[2] = "open"
           /\ Count("validate") = 1 /\ Count("http") = 0
<1> DEFINE Places(handler) == {i \in DOMAIN called : called[i] = handler}
<1>1. CASE called \notin {<<"validate", "open">>, <<"validate", "open", "close">>}
  <2>1. Places("open") = {}
    <3> SUFFICES ASSUME NEW i \in DOMAIN called PROVE called[i] # "open"
      OBVIOUS
    <3>1. CASE called = <<>>
      BY <3>1
    <3>2. CASE called \in {<<"fail">>, <<"http">>, <<"validate">>}
      BY <3>2
    <3>3. CASE called \in {<<"http", "fail">>, <<"validate", "fail">>}
      BY <3>3
    <3> QED BY <1>1, <3>1, <3>2, <3>3 DEF Orders
  <2>2. Count("open") = 0
    BY <2>1, FS_EmptySet DEF Count
  <2> QED BY <2>2
<1>2. CASE called \in {<<"validate", "open">>, <<"validate", "open", "close">>}
  <2>1. Places("validate") = {1} /\ Places("http") = {} /\ Len(called) > 1 /\ called[2] = "open"
    BY <1>2
  <2>2. Count("validate") = 1 /\ Count("http") = 0
    BY <2>1, FS_EmptySet, FS_Singleton DEF Count
  <2> QED BY <2>1, <2>2
<1> QED BY <1>1, <1>2

\* However the answers to a request race, there is one, and only the one that
\* switches protocols opens a server's connection, after the application was
\* asked and never for plain HTTP.
THEOREM AnswersOnce == HandshakeAssumption => (HandshakeSpec => []OneAnswer)
<1> SUFFICES ASSUME HandshakeAssumption PROVE HandshakeSpec => []OneAnswer
  OBVIOUS
<1>1. IInv => OneAnswer
  <2> SUFFICES ASSUME IInv PROVE OneAnswer
    OBVIOUS
  <2>1. RespondsOnce
    BY Known DEF ResponseDiscipline, RespondsOnce
  <2>2. OpenMeansAccepted
    <3> SUFFICES ASSUME isServer, Count("open") > 0
                 PROVE  status = "switching" /\ Count("validate") = 1 /\ Count("http") = 0
      BY DEF OpenMeansAccepted
    <3>1. called \in Orders
      BY Known DEF HandlersOfState, Before, HandshakeTypeOK, Orders
    <3> QED BY Known, <3>1, Counting DEF HandlersOfRequest
  <2> QED BY <2>1, <2>2 DEF OneAnswer
<1> QED BY <1>1, HandshakeInvariant, PTL

------------------------------------------------------------------------------
(* The order of the handlers *)

\* A step calls one handler, or none.
LEMMA OneCall ==
  ASSUME [HandshakeNext]_handshakeVars
  PROVE  /\ isServer' = isServer
         /\ \/ called' = called
            \/ \E handler \in Handlers : called' = Append(called, handler)
<1>1. isServer' = isServer
  <2>1. CASE UNCHANGED handshakeVars
    BY <2>1 DEF handshakeVars, result, kind
  <2>2. CASE HandshakeNext
    BY <2>2 DEF HandshakeNext, Start, NeverStarts, HandleTransportInit, Fails, FailsIn, ReadMore,
       ReadRefused, ReadHandshake, ReadHttpRefused, ReadHttp, SetResponse, SendHttpResponse,
       WriteDeferred, ResponseWritten, RequestSent, ResponseMore, ResponseRefused,
       ResponseAccepted, ResponseUnnegotiated, SessionEnds, TimerExpires, OpenTimeout, Ended,
       HandleTerminateAs, handshakeVars, result, kind
  <2> QED BY <2>1, <2>2
<1>2. called' = called \/ \E handler \in Handlers : Call(handler)
  <2>1. CASE UNCHANGED called
    BY <2>1
  <2>2. CASE ReadHandshake \/ ReadHttp \/ ResponseWritten \/ ResponseAccepted
               \/ ResponseUnnegotiated \/ Ended
    BY <2>2 DEF ReadHandshake, ReadHttp, ResponseWritten, ResponseAccepted,
       ResponseUnnegotiated, Ended, HandleTerminateAs, Opens, Handlers, TerminateStatuses
  <2>3. CASE ~(ReadHandshake \/ ReadHttp \/ ResponseWritten \/ ResponseAccepted
                 \/ ResponseUnnegotiated \/ Ended)
    BY <2>3 DEF HandshakeNext, Start, NeverStarts, HandleTransportInit, Fails, FailsIn, ReadMore,
       ReadRefused, ReadHttpRefused, SetResponse, SendHttpResponse, WriteDeferred,
       RequestSent, ResponseMore, ResponseRefused, SessionEnds, TimerExpires, OpenTimeout,
       handshakeVars
  <2> QED BY <2>2, <2>3
<1> QED BY <1>1, <1>2 DEF Call

\* Of those sequences, one is followed by another by a step of HandlerOrder.
LEMMA OrdersKeepOrder ==
  ASSUME called \in Orders, called' \in Orders, NEW handler \in Handlers,
         called' = Append(called, handler)
  PROVE  [Abstract!Next]_Phase
<1>1. /\ Len(called') = Len(called) + 1 /\ called'[Len(called) + 1] = handler
      /\ Len(called) > 0 => called'[1] = called[1]
      /\ Len(called) > 1 => called'[2] = called[2]
  <2>1. called \in Seq(Handlers) /\ Len(called) \in Nat
    BY OrderElements
  <2> QED BY <2>1, AppendProperties
<1>2. Elements(called) /\ Elements(called')
  BY OrderElements
<1>3. CASE Len(called) = 0
  <2>1. called' # <<>> /\ Len(called') = 1 /\ called'[1] \in {"fail", "http", "validate"}
    BY <1>1, <1>2, <1>3 DEF Elements
  <2>2. Phase = "none" /\ Phase' \in {"none", "fail", "validate"}
    BY <1>2, <1>3, <2>1 DEF Phase, Elements
  <2> QED BY <2>2 DEF Abstract!Next, Abstract!Validate, Abstract!Fail
<1>4. CASE Len(called) = 1
  <2>1. called # <<>> /\ called' # <<>> /\ Len(called') = 2
    BY <1>1, <1>2, <1>4 DEF Elements
  <2>2. /\ called[1] \in {"http", "validate"} /\ called'[2] \in {"fail", "open"}
        /\ called[1] = "http" => called'[2] = "fail"
    BY <1>1, <1>2, <1>4, <2>1 DEF Elements
  <2>3. /\ Phase \in {"none", "validate"} /\ Phase' \in {"fail", "open"}
        /\ Phase = "none" => Phase' = "fail"
    BY <1>4, <2>1, <2>2 DEF Phase
  <2> QED BY <2>3 DEF Abstract!Next, Abstract!Open, Abstract!Fail
<1>5. CASE Len(called) = 2
  <2>1. called # <<>> /\ called' # <<>> /\ Len(called') = 3
    BY <1>1, <1>2, <1>5 DEF Elements
  <2>2. called[2] = "open" /\ called'[3] = "close"
    BY <1>1, <1>2, <1>5, <2>1 DEF Elements
  <2>3. Phase = "open" /\ Phase' = "close"
    BY <1>5, <2>1, <2>2 DEF Phase
  <2> QED BY <2>3 DEF Abstract!Next, Abstract!Close
<1>6. CASE Len(called) = 3
  BY <1>1, <1>2, <1>6 DEF Elements
<1> QED BY <1>2, <1>3, <1>4, <1>5, <1>6 DEF Elements

\* A server's connection calls its handlers in the order docs/handlers.dox
\* gives, whatever the peer sends and whichever threads respond.  (A client's
\* does not: extensions that cannot be negotiated make it fail and open.)
THEOREM HandlersKeepOrder ==
  HandshakeAssumption /\ Roles \subseteq {TRUE} => (HandshakeSpec => KeepsHandlerOrder)
<1> SUFFICES ASSUME HandshakeAssumption, Roles \subseteq {TRUE}
             PROVE  HandshakeSpec => KeepsHandlerOrder
  OBVIOUS
<1>1. HandshakeInit => Abstract!Init /\ isServer
  BY DEF HandshakeInit, Abstract!Init, Phase
<1>2. isServer /\ [HandshakeNext]_handshakeVars => isServer'
  BY OneCall
<1>3. IInv /\ IInv' /\ isServer /\ isServer' /\ [HandshakeNext]_handshakeVars => [Abstract!Next]_Phase
  <2> SUFFICES ASSUME IInv, IInv', isServer, isServer', [HandshakeNext]_handshakeVars
               PROVE  [Abstract!Next]_Phase
    OBVIOUS
  <2>1. called \in Orders /\ called' \in Orders
    BY DEF IInv, HandlersOfState, Before, HandshakeTypeOK, Orders
  <2>2. CASE called' = called
    BY <2>2 DEF Phase
  <2>3. ASSUME NEW handler \in Handlers, called' = Append(called, handler)
        PROVE  [Abstract!Next]_Phase
    BY <2>1, <2>3, OrdersKeepOrder
  <2> QED BY <2>2, <2>3, OneCall
<1> QED BY <1>1, <1>2, <1>3, HandshakeInvariant, PTL DEF HandshakeSpec, KeepsHandlerOrder, Abstract!Spec

------------------------------------------------------------------------------
(* The transport below it (AsioTransport)                                      *)

\* The init handler is told an outcome, or two.
LEMMA InitCalled ==
  ASSUME TransportTypeOK, NEW results \in Seq({"ok", "error"}), CallInit(results)
  PROVE  initCalls' \in Seq({"ok", "error"})
BY ConcatProperties DEF TransportTypeOK, CallInit

LEMMA InitConKeeps ==
  ASSUME TransportAssumption, TransportInv, InitCon PROVE TransportInv'
<1>0. TransportTypeOK /\ BuffersOfOneWrite /\ ProxyDataHeld /\ OneOpAtATime
  BY DEF TransportInv
<1>1. TransportTypeOK'
  BY <1>0 DEF InitCon, TransportTypeOK, TimerOf, Ops, Timers, None
<1>2. BuffersOfOneWrite'
  BY <1>0 DEF InitCon, TransportTypeOK, BuffersOfOneWrite, OneOpAtATime, Busy, Untouched,
     TimerOf, Ops, Timers, None
<1>3. ProxyDataHeld'
  BY <1>0 DEF InitCon, TransportTypeOK, ProxyDataHeld, OneOpAtATime, Busy, TimerOf, Ops,
     Timers, None
<1>4. OneOpAtATime'
  BY <1>0 DEF InitCon, TransportTypeOK, ProxyDataHeld, OneOpAtATime, Busy, Untouched,
     TimerOf, Ops, Timers, None
<1>5. ASSUME Threads <= 1 PROVE ShutdownDecided'
  <2>1. ShutdownDecided
    BY <1>5 DEF TransportInv
  <2> QED BY <1>0, <1>5, <2>1 DEF InitCon, TransportTypeOK, TransportAssumption,
     OneOpAtATime, Untouched, ShutdownDecided, Live, Busy, TimerOf, Ops, Timers, None
<1>6. ASSUME Threads <= 1, ~PreInitFails PROVE InitDecided'
  <2>1. InitDecided
    BY <1>6 DEF TransportInv
  <2> QED BY <1>0, <1>6, <2>1 DEF InitCon, TransportTypeOK, TransportAssumption,
     OneOpAtATime, Untouched, InitDecided, InitOps, Live, Busy, TimerOf, Ops, Timers, None
<1> QED BY <1>1, <1>2, <1>3, <1>4, <1>5, <1>6 DEF TransportInv

LEMMA PreInitKeeps ==
  ASSUME TransportAssumption, TransportInv, PreInit PROVE TransportInv'
<1>0. TransportTypeOK /\ BuffersOfOneWrite /\ ProxyDataHeld /\ OneOpAtATime
  BY DEF TransportInv
<1>1. TransportTypeOK'
  <2>1. /\ bufs = 0 /\ session = "init" /\ UNCHANGED <<tls, midway, proxyData, shutdownCalls>>
    BY <1>0 DEF PreInit, TransportTypeOK, BuffersOfOneWrite, OneOpAtATime, Untouched, Busy,
       Ops
  <2>2. PICK failed \in {<<>>, <<"error">>} : HandlePreInit(failed)
    BY DEF PreInit
  <2>3. bufs' \in 0 .. 1
    BY <2>1, <2>2 DEF HandlePreInit, ProxyWrite
  <2>4. /\ op' \in [Ops -> {"idle", "pending", "ok", "error", "aborted"}]
        /\ timers' \in [Timers -> {"unset", "running", "passed", "queued", "cancelled", "done"}]
    BY <1>0, <2>2 DEF HandlePreInit, ProxyWrite, PostInit, TransportTypeOK, Ops, Timers
  <2>5. PostInitResults \in Seq({"ok", "error"}) /\ failed \in Seq({"ok", "error"})
    <3>1. /\ <<>> \in Seq({"ok", "error"}) /\ <<"ok">> \in Seq({"ok", "error"})
          /\ <<"error">> \in Seq({"ok", "error"})
      OBVIOUS
    <3> QED BY <3>1, <2>2, Zenon DEF PostInitResults
  <2>6. failed \o PostInitResults \in Seq({"ok", "error"})
    BY <2>5, ConcatProperties
  <2>7. initCalls' \in Seq({"ok", "error"})
    BY <1>0, <2>2, <2>5, <2>6, InitCalled DEF HandlePreInit, TransportTypeOK
  <2>8. session' \in {"init", "up", "ending"}
    BY <2>1, <2>2 DEF HandlePreInit, CallInit
  <2> QED BY <1>0, <2>1, <2>3, <2>4, <2>7, <2>8 DEF TransportTypeOK
<1>2. BuffersOfOneWrite'
  BY <1>0 DEF PreInit, HandlePreInit, ProxyWrite, PostInit, PostInitResults, CallInit,
     TransportTypeOK, BuffersOfOneWrite, OneOpAtATime, Busy, Untouched, TimerOf, Ops, Timers,
     None
<1>3. ProxyDataHeld'
  BY <1>0 DEF PreInit, HandlePreInit, ProxyWrite, PostInit, PostInitResults, CallInit,
     TransportTypeOK, ProxyDataHeld, OneOpAtATime, Busy, TimerOf, Ops, Timers, None
<1>4. OneOpAtATime'
  BY <1>0 DEF PreInit, HandlePreInit, ProxyWrite, PostInit, PostInitResults, CallInit,
     TransportTypeOK, ProxyDataHeld, OneOpAtATime, Busy, Untouched, TimerOf, Ops, Timers, None
<1>5. ASSUME Threads <= 1 PROVE ShutdownDecided'
  <2>1. ShutdownDecided
    BY <1>5 DEF TransportInv
  <2> QED BY <1>0, <1>5, <2>1 DEF PreInit, HandlePreInit, ProxyWrite, PostInit,
     PostInitResults, CallInit, TransportTypeOK, TransportAssumption, OneOpAtATime, Untouched,
     ShutdownDecided, Live, Busy, TimerOf, Ops, Timers, None
<1>6. ASSUME Threads <= 1, ~PreInitFails PROVE InitDecided'
  <2>1. InitDecided
    BY <1>6 DEF TransportInv
  <2> QED BY <1>0, <1>6, <2>1 DEF PreInit, HandlePreInit, ProxyWrite, PostInit,
     PostInitResults, CallInit, TransportTypeOK, TransportAssumption, OneOpAtATime, Untouched,
     InitDecided, InitOps, Live, Busy, TimerOf, Ops, Timers, None
<1> QED BY <1>1, <1>2, <1>3, <1>4, <1>5, <1>6 DEF TransportInv

LEMMA OpCompletesKeeps ==
  ASSUME TransportAssumption, TransportInv, NEW o \in Ops, OpCompletes(o) PROVE TransportInv'
<1>0. TransportTypeOK /\ BuffersOfOneWrite /\ ProxyDataHeld /\ OneOpAtATime
  BY DEF TransportInv
<1>1. TransportTypeOK'
  BY <1>0 DEF OpCompletes, TransportTypeOK, TimerOf, Ops, Timers, None
<1>2. BuffersOfOneWrite'
  BY <1>0 DEF OpCompletes, TransportTypeOK, BuffersOfOneWrite, OneOpAtATime, Busy,
     Untouched, TimerOf, Ops, Timers, None
<1>3. ProxyDataHeld'
  BY <1>0 DEF OpCompletes, TransportTypeOK, ProxyDataHeld, OneOpAtATime, Busy, TimerOf, Ops,
     Timers, None
<1>4. OneOpAtATime'
  BY <1>0 DEF OpCompletes, TransportTypeOK, ProxyDataHeld, OneOpAtATime, Busy, Untouched,
     TimerOf, Ops, Timers, None
<1>5. ASSUME Threads <= 1 PROVE ShutdownDecided'
  <2>1. ShutdownDecided
    BY <1>5 DEF TransportInv
  <2> QED BY <1>0, <1>5, <2>1 DEF OpCompletes, TransportTypeOK, TransportAssumption,
     OneOpAtATime, Untouched, ShutdownDecided, Live, Busy, TimerOf, Ops, Timers, None
<1>6. ASSUME Threads <= 1, ~PreInitFails PROVE InitDecided'
  <2>1. InitDecided
    BY <1>6 DEF TransportInv
  <2> QED BY <1>0, <1>6, <2>1 DEF OpCompletes, TransportTypeOK, TransportAssumption,
     OneOpAtATime, Untouched, InitDecided, InitOps, Live, Busy, TimerOf, Ops, Timers, None
<1> QED BY <1>1, <1>2, <1>3, <1>4, <1>5, <1>6 DEF TransportInv

LEMMA TimePassesKeeps ==
  ASSUME TransportAssumption, TransportInv, NEW t \in Timers, TimePasses(t) PROVE TransportInv'
<1>0. TransportTypeOK /\ BuffersOfOneWrite /\ ProxyDataHeld /\ OneOpAtATime
  BY DEF TransportInv
<1>1. TransportTypeOK'
  BY <1>0 DEF TimePasses, TransportTypeOK, TimerOf, Ops, Timers, None
<1>2. BuffersOfOneWrite'
  BY <1>0 DEF TimePasses, TransportTypeOK, BuffersOfOneWrite, OneOpAtATime, Busy, Untouched,
     TimerOf, Ops, Timers, None
<1>3. ProxyDataHeld'
  BY <1>0 DEF TimePasses, TransportTypeOK, ProxyDataHeld, OneOpAtATime, Busy, TimerOf, Ops,
     Timers, None
<1>4. OneOpAtATime'
  BY <1>0 DEF TimePasses, TransportTypeOK, ProxyDataHeld, OneOpAtATime, Busy, Untouched,
     TimerOf, Ops, Timers, None
<1>5. ASSUME Threads <= 1 PROVE ShutdownDecided'
  <2>1. ShutdownDecided
    BY <1>5 DEF TransportInv
  <2> QED BY <1>0, <1>5, <2>1 DEF TimePasses, TransportTypeOK, TransportAssumption,
     OneOpAtATime, Untouched, ShutdownDecided, Live, Busy, TimerOf, Ops, Timers, None
<1>6. ASSUME Threads <= 1, ~PreInitFails PROVE InitDecided'
  <2>1. InitDecided
    BY <1>6 DEF TransportInv
  <2> QED BY <1>0, <1>6, <2>1 DEF TimePasses, TransportTypeOK, TransportAssumption,
     OneOpAtATime, Untouched, InitDecided, InitOps, Live, Busy, TimerOf, Ops, Timers, None
<1> QED BY <1>1, <1>2, <1>3, <1>4, <1>5, <1>6 DEF TransportInv

LEMMA QueuesKeeps ==
  ASSUME TransportAssumption, TransportInv, NEW t \in Timers, Queues(t) PROVE TransportInv'
<1>0. TransportTypeOK /\ BuffersOfOneWrite /\ ProxyDataHeld /\ OneOpAtATime
  BY DEF TransportInv
<1>1. TransportTypeOK'
  BY <1>0 DEF Queues, TransportTypeOK, TimerOf, Ops, Timers, None
<1>2. BuffersOfOneWrite'
  BY <1>0 DEF Queues, TransportTypeOK, BuffersOfOneWrite, OneOpAtATime, Busy, Untouched,
     TimerOf, Ops, Timers, None
<1>3. ProxyDataHeld'
  BY <1>0 DEF Queues, TransportTypeOK, ProxyDataHeld, OneOpAtATime, Busy, TimerOf, Ops,
     Timers, None
<1>4. OneOpAtATime'
  BY <1>0 DEF Queues, TransportTypeOK, ProxyDataHeld, OneOpAtATime, Busy, Untouched,
     TimerOf, Ops, Timers, None
<1>5. ASSUME Threads <= 1 PROVE ShutdownDecided'
  <2>1. ShutdownDecided
    BY <1>5 DEF TransportInv
  <2> QED BY <1>0, <1>5, <2>1 DEF Queues, TransportTypeOK, TransportAssumption,
     OneOpAtATime, Untouched, ShutdownDecided, Live, Busy, TimerOf, Ops, Timers, None
<1>6. ASSUME Threads <= 1, ~PreInitFails PROVE InitDecided'
  <2>1. InitDecided
    BY <1>6 DEF TransportInv
  <2> QED BY <1>0, <1>6, <2>1 DEF Queues, TransportTypeOK, TransportAssumption,
     OneOpAtATime, Untouched, InitDecided, InitOps, Live, Busy, TimerOf, Ops, Timers, None
<1> QED BY <1>1, <1>2, <1>3, <1>4, <1>5, <1>6 DEF TransportInv

LEMMA OpEndsKeeps ==
  ASSUME TransportAssumption, TransportInv, NEW o \in Ops, OpEnds(o) PROVE TransportInv'
<1>0. TransportTypeOK /\ BuffersOfOneWrite /\ ProxyDataHeld /\ OneOpAtATime
  BY DEF TransportInv
<1>1. TransportTypeOK'
  BY <1>0 DEF OpEnds, ResultOf, TimeOver, TransportTypeOK, TimerOf, Ops, Timers, None
<1>2. BuffersOfOneWrite'
  BY <1>0 DEF OpEnds, ResultOf, TimeOver, TransportTypeOK, BuffersOfOneWrite, OneOpAtATime, Busy,
     Untouched, TimerOf, Ops, Timers, None
<1>3. ProxyDataHeld'
  BY <1>0 DEF OpEnds, ResultOf, TimeOver, TransportTypeOK, ProxyDataHeld, OneOpAtATime, Busy, TimerOf,
     Ops, Timers, None
<1>4. OneOpAtATime'
  BY <1>0 DEF OpEnds, ResultOf, TimeOver, TransportTypeOK, ProxyDataHeld, OneOpAtATime, Busy,
     Untouched, TimerOf, Ops, Timers, None
<1>5. ASSUME Threads <= 1 PROVE ShutdownDecided'
  <2>1. ShutdownDecided
    BY <1>5 DEF TransportInv
  <2> QED BY <1>0, <1>5, <2>1 DEF OpEnds, ResultOf, TimeOver, TransportTypeOK, TransportAssumption,
     OneOpAtATime, Untouched, ShutdownDecided, Live, Busy, TimerOf, Ops, Timers, None
<1>6. ASSUME Threads <= 1, ~PreInitFails PROVE InitDecided'
  <2>1. InitDecided
    BY <1>6 DEF TransportInv
  <2> QED BY <1>0, <1>6, <2>1 DEF OpEnds, ResultOf, TimeOver, TransportTypeOK, TransportAssumption,
     OneOpAtATime, Untouched, InitDecided, InitOps, Live, Busy, TimerOf, Ops, Timers, None
<1> QED BY <1>1, <1>2, <1>3, <1>4, <1>5, <1>6 DEF TransportInv

LEMMA HandleProxyWriteKeeps ==
  ASSUME TransportAssumption, TransportInv, HandleProxyWrite PROVE TransportInv'
<1>0. TransportTypeOK /\ BuffersOfOneWrite /\ ProxyDataHeld /\ OneOpAtATime
  BY DEF TransportInv
<1>1. TransportTypeOK'
  <2>1. <<"error">> \in Seq({"ok", "error"})
    BY <1>0 DEF HandleProxyWrite, TransportTypeOK, OneOpAtATime, None, Ops
  <2>2. initCalls' \in Seq({"ok", "error"})
    BY <1>0, <2>1, InitCalled DEF HandleProxyWrite, TransportTypeOK
  <2>3. session' \in {"new", "init", "up", "ending", "ended"}
    BY <1>0 DEF HandleProxyWrite, CallInit, TransportTypeOK
  <2>4. /\ op' \in [Ops -> {"idle", "pending", "ok", "error", "aborted"}]
        /\ timers' \in [Timers -> {"unset", "running", "passed", "queued", "cancelled", "done"}]
    BY <1>0 DEF HandleProxyWrite, Cancelled, TransportTypeOK, Ops, Timers
  <2>5. tls' = tls /\ proxyData' \in BOOLEAN /\ UNCHANGED <<bufs, shutdownCalls>> /\ midway' = None
    BY <1>0, Zenon DEF HandleProxyWrite, TransportTypeOK
  <2> QED BY <1>0, <2>2, <2>3, <2>4, <2>5 DEF TransportTypeOK
<1>2. BuffersOfOneWrite'
  BY <1>0 DEF HandleProxyWrite, Cancelled, CallInit, TransportTypeOK, BuffersOfOneWrite,
     OneOpAtATime, Busy, Untouched, TimerOf, Ops, Timers, None
<1>3. ProxyDataHeld'
  BY <1>0 DEF HandleProxyWrite, Cancelled, CallInit, TransportTypeOK, ProxyDataHeld,
     OneOpAtATime, Busy, TimerOf, Ops, Timers, None
<1>4. OneOpAtATime'
  BY <1>0 DEF HandleProxyWrite, Cancelled, CallInit, TransportTypeOK, ProxyDataHeld,
     OneOpAtATime, Busy, Untouched, TimerOf, Ops, Timers, None
<1>5. ASSUME Threads <= 1 PROVE ShutdownDecided'
  <2>1. ShutdownDecided
    BY <1>5 DEF TransportInv
  <2> QED BY <1>0, <1>5, <2>1 DEF HandleProxyWrite, Cancelled, CallInit, TransportTypeOK,
     TransportAssumption, OneOpAtATime, Untouched, ShutdownDecided, Live, Busy, TimerOf, Ops,
     Timers, None
<1>6. ASSUME Threads <= 1, ~PreInitFails PROVE InitDecided'
  <2>1. InitDecided
    BY <1>6 DEF TransportInv
  <2> QED BY <1>0, <1>6, <2>1 DEF HandleProxyWrite, Cancelled, CallInit, TransportTypeOK,
     TransportAssumption, OneOpAtATime, Untouched, InitDecided, InitOps, Live, Busy, TimerOf,
     Ops, Timers, None
<1> QED BY <1>1, <1>2, <1>3, <1>4, <1>5, <1>6 DEF TransportInv

LEMMA HandleProxyReadKeeps ==
  ASSUME TransportAssumption, TransportInv, HandleProxyRead PROVE TransportInv'
<1>0. TransportTypeOK /\ BuffersOfOneWrite /\ ProxyDataHeld /\ OneOpAtATime
  BY DEF TransportInv
<1>1. TransportTypeOK'
  <2>1. <<"error">> \in Seq({"ok", "error"}) /\ <<"ok">> \in Seq({"ok", "error"})
    BY <1>0 DEF HandleProxyRead, TransportTypeOK, OneOpAtATime, None, Ops
  <2>2. initCalls' \in Seq({"ok", "error"})
    BY <1>0, <2>1, InitCalled DEF HandleProxyRead, TransportTypeOK
  <2>3. session' \in {"new", "init", "up", "ending", "ended"}
    BY <1>0 DEF HandleProxyRead, CallInit, TransportTypeOK
  <2>4. /\ op' \in [Ops -> {"idle", "pending", "ok", "error", "aborted"}]
        /\ timers' \in [Timers -> {"unset", "running", "passed", "queued", "cancelled", "done"}]
    BY <1>0 DEF HandleProxyRead, Cancelled, TransportTypeOK, Ops, Timers
  <2>5. tls' = tls /\ proxyData' \in BOOLEAN /\ UNCHANGED <<bufs, shutdownCalls>> /\ midway' = None
    BY <1>0, Zenon DEF HandleProxyRead, TransportTypeOK
  <2> QED BY <1>0, <2>2, <2>3, <2>4, <2>5 DEF TransportTypeOK
<1>2. BuffersOfOneWrite'
  BY <1>0 DEF HandleProxyRead, Cancelled, CallInit, TransportTypeOK, BuffersOfOneWrite,
     OneOpAtATime, Busy, Untouched, TimerOf, Ops, Timers, None
<1>3. ProxyDataHeld'
  BY <1>0 DEF HandleProxyRead, Cancelled, CallInit, TransportTypeOK, ProxyDataHeld,
     OneOpAtATime, Busy, TimerOf, Ops, Timers, None
<1>4. OneOpAtATime'
  BY <1>0 DEF HandleProxyRead, Cancelled, CallInit, TransportTypeOK, ProxyDataHeld,
     OneOpAtATime, Busy, Untouched, TimerOf, Ops, Timers, None
<1>5. ASSUME Threads <= 1 PROVE ShutdownDecided'
  <2>1. ShutdownDecided
    BY <1>5 DEF TransportInv
  <2> QED BY <1>0, <1>5, <2>1 DEF HandleProxyRead, Cancelled, CallInit, TransportTypeOK,
     TransportAssumption, OneOpAtATime, Untouched, ShutdownDecided, Live, Busy, TimerOf, Ops,
     Timers, None
<1>6. ASSUME Threads <= 1, ~PreInitFails PROVE InitDecided'
  <2>1. InitDecided
    BY <1>6 DEF TransportInv
  <2> QED BY <1>0, <1>6, <2>1 DEF HandleProxyRead, Cancelled, CallInit, TransportTypeOK,
     TransportAssumption, OneOpAtATime, Untouched, InitDecided, InitOps, Live, Busy, TimerOf,
     Ops, Timers, None
<1> QED BY <1>1, <1>2, <1>3, <1>4, <1>5, <1>6 DEF TransportInv

LEMMA HandlePostInitKeeps ==
  ASSUME TransportAssumption, TransportInv, HandlePostInit PROVE TransportInv'
<1>0. TransportTypeOK /\ BuffersOfOneWrite /\ ProxyDataHeld /\ OneOpAtATime
  BY DEF TransportInv
<1>1. TransportTypeOK'
  <2>1. <<op["handshake"]>> \in Seq({"ok", "error"})
    BY <1>0 DEF HandlePostInit, TransportTypeOK, OneOpAtATime, None, Ops
  <2>2. initCalls' \in Seq({"ok", "error"})
    BY <1>0, <2>1, InitCalled DEF HandlePostInit, TransportTypeOK
  <2>3. session' \in {"new", "init", "up", "ending", "ended"}
    BY <1>0 DEF HandlePostInit, CallInit, TransportTypeOK
  <2>4. /\ op' \in [Ops -> {"idle", "pending", "ok", "error", "aborted"}]
        /\ timers' \in [Timers -> {"unset", "running", "passed", "queued", "cancelled", "done"}]
    BY <1>0 DEF HandlePostInit, Cancelled, TransportTypeOK, Ops, Timers
  <2>5. tls' = tls /\ proxyData' \in BOOLEAN /\ UNCHANGED <<bufs, shutdownCalls>> /\ midway' = None
    BY <1>0, Zenon DEF HandlePostInit, TransportTypeOK
  <2> QED BY <1>0, <2>2, <2>3, <2>4, <2>5 DEF TransportTypeOK
<1>2. BuffersOfOneWrite'
  BY <1>0 DEF HandlePostInit, Cancelled, CallInit, TransportTypeOK, BuffersOfOneWrite,
     OneOpAtATime, Busy, Untouched, TimerOf, Ops, Timers, None
<1>3. ProxyDataHeld'
  BY <1>0 DEF HandlePostInit, Cancelled, CallInit, TransportTypeOK, ProxyDataHeld,
     OneOpAtATime, Busy, TimerOf, Ops, Timers, None
<1>4. OneOpAtATime'
  BY <1>0 DEF HandlePostInit, Cancelled, CallInit, TransportTypeOK, ProxyDataHeld,
     OneOpAtATime, Busy, Untouched, TimerOf, Ops, Timers, None
<1>5. ASSUME Threads <= 1 PROVE ShutdownDecided'
  <2>1. ShutdownDecided
    BY <1>5 DEF TransportInv
  <2> QED BY <1>0, <1>5, <2>1 DEF HandlePostInit, Cancelled, CallInit, TransportTypeOK,
     TransportAssumption, OneOpAtATime, Untouched, ShutdownDecided, Live, Busy, TimerOf, Ops,
     Timers, None
<1>6. ASSUME Threads <= 1, ~PreInitFails PROVE InitDecided'
  <2>1. InitDecided
    BY <1>6 DEF TransportInv
  <2> QED BY <1>0, <1>6, <2>1 DEF HandlePostInit, Cancelled, CallInit, TransportTypeOK,
     TransportAssumption, OneOpAtATime, Untouched, InitDecided, InitOps, Live, Busy, TimerOf,
     Ops, Timers, None
<1> QED BY <1>1, <1>2, <1>3, <1>4, <1>5, <1>6 DEF TransportInv

LEMMA InitTimeoutKeeps ==
  ASSUME TransportAssumption, TransportInv, NEW t \in Timers, InitTimeout(t) PROVE TransportInv'
<1>0. TransportTypeOK /\ BuffersOfOneWrite /\ ProxyDataHeld /\ OneOpAtATime
  BY DEF TransportInv
<1>1. TransportTypeOK'
  BY <1>0 DEF InitTimeout, Aborted, CallInit, TransportTypeOK, TimerOf, Ops, Timers, None
<1>2. BuffersOfOneWrite'
  BY <1>0 DEF InitTimeout, Aborted, CallInit, TransportTypeOK, BuffersOfOneWrite,
     OneOpAtATime, Busy, Untouched, TimerOf, Ops, Timers, None
<1>3. ProxyDataHeld'
  BY <1>0 DEF InitTimeout, Aborted, CallInit, TransportTypeOK, ProxyDataHeld, OneOpAtATime,
     Busy, TimerOf, Ops, Timers, None
<1>4. OneOpAtATime'
  BY <1>0 DEF InitTimeout, Aborted, CallInit, TransportTypeOK, ProxyDataHeld, OneOpAtATime,
     Busy, Untouched, TimerOf, Ops, Timers, None
<1>5. ASSUME Threads <= 1 PROVE ShutdownDecided'
  <2>1. ShutdownDecided
    BY <1>5 DEF TransportInv
  <2> QED BY <1>0, <1>5, <2>1 DEF InitTimeout, Aborted, CallInit, TransportTypeOK,
     TransportAssumption, OneOpAtATime, Untouched, ShutdownDecided, Live, Busy, TimerOf, Ops,
     Timers, None
<1>6. ASSUME Threads <= 1, ~PreInitFails PROVE InitDecided'
  <2>1. InitDecided
    BY <1>6 DEF TransportInv
  <2> QED BY <1>0, <1>6, <2>1 DEF InitTimeout, Aborted, CallInit, TransportTypeOK,
     TransportAssumption, OneOpAtATime, Untouched, InitDecided, InitOps, Live, Busy, TimerOf,
     Ops, Timers, None
<1> QED BY <1>1, <1>2, <1>3, <1>4, <1>5, <1>6 DEF TransportInv

LEMMA AsyncReadKeeps ==
  ASSUME TransportAssumption, TransportInv, AsyncRead PROVE TransportInv'
<1>0. TransportTypeOK /\ BuffersOfOneWrite /\ ProxyDataHeld /\ OneOpAtATime
  BY DEF TransportInv
<1>1. TransportTypeOK'
  BY <1>0 DEF AsyncRead, TransportTypeOK, TimerOf, Ops, Timers, None
<1>2. BuffersOfOneWrite'
  BY <1>0 DEF AsyncRead, TransportTypeOK, BuffersOfOneWrite, OneOpAtATime, Busy, Untouched,
     TimerOf, Ops, Timers, None
<1>3. ProxyDataHeld'
  BY <1>0 DEF AsyncRead, TransportTypeOK, ProxyDataHeld, OneOpAtATime, Busy, TimerOf, Ops,
     Timers, None
<1>4. OneOpAtATime'
  BY <1>0 DEF AsyncRead, TransportTypeOK, ProxyDataHeld, OneOpAtATime, Busy, Untouched,
     TimerOf, Ops, Timers, None
<1>5. ASSUME Threads <= 1 PROVE ShutdownDecided'
  <2>1. ShutdownDecided
    BY <1>5 DEF TransportInv
  <2> QED BY <1>0, <1>5, <2>1 DEF AsyncRead, TransportTypeOK, TransportAssumption,
     OneOpAtATime, Untouched, ShutdownDecided, Live, Busy, TimerOf, Ops, Timers, None
<1>6. ASSUME Threads <= 1, ~PreInitFails PROVE InitDecided'
  <2>1. InitDecided
    BY <1>6 DEF TransportInv
  <2> QED BY <1>0, <1>6, <2>1 DEF AsyncRead, TransportTypeOK, TransportAssumption,
     OneOpAtATime, Untouched, InitDecided, InitOps, Live, Busy, TimerOf, Ops, Timers, None
<1> QED BY <1>1, <1>2, <1>3, <1>4, <1>5, <1>6 DEF TransportInv

LEMMA HandleAsyncReadKeeps ==
  ASSUME TransportAssumption, TransportInv, HandleAsyncRead PROVE TransportInv'
<1>0. TransportTypeOK /\ BuffersOfOneWrite /\ ProxyDataHeld /\ OneOpAtATime
  BY DEF TransportInv
<1>1. TransportTypeOK'
  BY <1>0 DEF HandleAsyncRead, TransportTypeOK, TimerOf, Ops, Timers, None
<1>2. BuffersOfOneWrite'
  BY <1>0 DEF HandleAsyncRead, TransportTypeOK, BuffersOfOneWrite, OneOpAtATime, Busy,
     Untouched, TimerOf, Ops, Timers, None
<1>3. ProxyDataHeld'
  BY <1>0 DEF HandleAsyncRead, TransportTypeOK, ProxyDataHeld, OneOpAtATime, Busy, TimerOf,
     Ops, Timers, None
<1>4. OneOpAtATime'
  BY <1>0 DEF HandleAsyncRead, TransportTypeOK, ProxyDataHeld, OneOpAtATime, Busy,
     Untouched, TimerOf, Ops, Timers, None
<1>5. ASSUME Threads <= 1 PROVE ShutdownDecided'
  <2>1. ShutdownDecided
    BY <1>5 DEF TransportInv
  <2> QED BY <1>0, <1>5, <2>1 DEF HandleAsyncRead, TransportTypeOK, TransportAssumption,
     OneOpAtATime, Untouched, ShutdownDecided, Live, Busy, TimerOf, Ops, Timers, None
<1>6. ASSUME Threads <= 1, ~PreInitFails PROVE InitDecided'
  <2>1. InitDecided
    BY <1>6 DEF TransportInv
  <2> QED BY <1>0, <1>6, <2>1 DEF HandleAsyncRead, TransportTypeOK, TransportAssumption,
     OneOpAtATime, Untouched, InitDecided, InitOps, Live, Busy, TimerOf, Ops, Timers, None
<1> QED BY <1>1, <1>2, <1>3, <1>4, <1>5, <1>6 DEF TransportInv

LEMMA AsyncWriteKeeps ==
  ASSUME TransportAssumption, TransportInv, AsyncWrite PROVE TransportInv'
<1>0. TransportTypeOK /\ BuffersOfOneWrite /\ ProxyDataHeld /\ OneOpAtATime
  BY DEF TransportInv
<1>1. TransportTypeOK'
  <2>1. bufs = 0
    BY <1>0 DEF AsyncWrite, BuffersOfOneWrite, OneOpAtATime, Busy
  <2> QED BY <1>0, <2>1 DEF AsyncWrite, TransportTypeOK, Ops
<1>2. BuffersOfOneWrite'
  BY <1>0 DEF AsyncWrite, TransportTypeOK, BuffersOfOneWrite, OneOpAtATime, Busy, Untouched,
     TimerOf, Ops, Timers, None
<1>3. ProxyDataHeld'
  BY <1>0 DEF AsyncWrite, TransportTypeOK, ProxyDataHeld, OneOpAtATime, Busy, TimerOf, Ops,
     Timers, None
<1>4. OneOpAtATime'
  BY <1>0 DEF AsyncWrite, TransportTypeOK, ProxyDataHeld, OneOpAtATime, Busy, Untouched,
     TimerOf, Ops, Timers, None
<1>5. ASSUME Threads <= 1 PROVE ShutdownDecided'
  <2>1. ShutdownDecided
    BY <1>5 DEF TransportInv
  <2> QED BY <1>0, <1>5, <2>1 DEF AsyncWrite, TransportTypeOK, TransportAssumption,
     OneOpAtATime, Untouched, ShutdownDecided, Live, Busy, TimerOf, Ops, Timers, None
<1>6. ASSUME Threads <= 1, ~PreInitFails PROVE InitDecided'
  <2>1. InitDecided
    BY <1>6 DEF TransportInv
  <2> QED BY <1>0, <1>6, <2>1 DEF AsyncWrite, TransportTypeOK, TransportAssumption,
     OneOpAtATime, Untouched, InitDecided, InitOps, Live, Busy, TimerOf, Ops, Timers, None
<1> QED BY <1>1, <1>2, <1>3, <1>4, <1>5, <1>6 DEF TransportInv

LEMMA HandleAsyncWriteKeeps ==
  ASSUME TransportAssumption, TransportInv, HandleAsyncWrite PROVE TransportInv'
<1>0. TransportTypeOK /\ BuffersOfOneWrite /\ ProxyDataHeld /\ OneOpAtATime
  BY DEF TransportInv
<1>1. TransportTypeOK'
  BY <1>0 DEF HandleAsyncWrite, TransportTypeOK, TimerOf, Ops, Timers, None
<1>2. BuffersOfOneWrite'
  BY <1>0 DEF HandleAsyncWrite, TransportTypeOK, BuffersOfOneWrite, OneOpAtATime, Busy,
     Untouched, TimerOf, Ops, Timers, None
<1>3. ProxyDataHeld'
  BY <1>0 DEF HandleAsyncWrite, TransportTypeOK, ProxyDataHeld, OneOpAtATime, Busy, TimerOf,
     Ops, Timers, None
<1>4. OneOpAtATime'
  BY <1>0 DEF HandleAsyncWrite, TransportTypeOK, ProxyDataHeld, OneOpAtATime, Busy,
     Untouched, TimerOf, Ops, Timers, None
<1>5. ASSUME Threads <= 1 PROVE ShutdownDecided'
  <2>1. ShutdownDecided
    BY <1>5 DEF TransportInv
  <2> QED BY <1>0, <1>5, <2>1 DEF HandleAsyncWrite, TransportTypeOK, TransportAssumption,
     OneOpAtATime, Untouched, ShutdownDecided, Live, Busy, TimerOf, Ops, Timers, None
<1>6. ASSUME Threads <= 1, ~PreInitFails PROVE InitDecided'
  <2>1. InitDecided
    BY <1>6 DEF TransportInv
  <2> QED BY <1>0, <1>6, <2>1 DEF HandleAsyncWrite, TransportTypeOK, TransportAssumption,
     OneOpAtATime, Untouched, InitDecided, InitOps, Live, Busy, TimerOf, Ops, Timers, None
<1> QED BY <1>1, <1>2, <1>3, <1>4, <1>5, <1>6 DEF TransportInv

LEMMA AsyncShutdownKeeps ==
  ASSUME TransportAssumption, TransportInv, AsyncShutdown PROVE TransportInv'
<1>0. TransportTypeOK /\ BuffersOfOneWrite /\ ProxyDataHeld /\ OneOpAtATime
  BY DEF TransportInv
<1>1. TransportTypeOK'
  BY <1>0 DEF AsyncShutdown, TransportTypeOK, TimerOf, Ops, Timers, None
<1>2. BuffersOfOneWrite'
  BY <1>0 DEF AsyncShutdown, TransportTypeOK, BuffersOfOneWrite, OneOpAtATime, Busy,
     Untouched, TimerOf, Ops, Timers, None
<1>3. ProxyDataHeld'
  BY <1>0 DEF AsyncShutdown, TransportTypeOK, ProxyDataHeld, OneOpAtATime, Busy, TimerOf,
     Ops, Timers, None
<1>4. OneOpAtATime'
  BY <1>0 DEF AsyncShutdown, TransportTypeOK, ProxyDataHeld, OneOpAtATime, Busy, Untouched,
     TimerOf, Ops, Timers, None
<1>5. ASSUME Threads <= 1 PROVE ShutdownDecided'
  <2>1. ShutdownDecided
    BY <1>5 DEF TransportInv
  <2> QED BY <1>0, <1>5, <2>1 DEF AsyncShutdown, TransportTypeOK, TransportAssumption,
     OneOpAtATime, Untouched, ShutdownDecided, Live, Busy, TimerOf, Ops, Timers, None
<1>6. ASSUME Threads <= 1, ~PreInitFails PROVE InitDecided'
  <2>1. InitDecided
    BY <1>6 DEF TransportInv
  <2> QED BY <1>0, <1>6, <2>1 DEF AsyncShutdown, TransportTypeOK, TransportAssumption,
     OneOpAtATime, Untouched, InitDecided, InitOps, Live, Busy, TimerOf, Ops, Timers, None
<1> QED BY <1>1, <1>2, <1>3, <1>4, <1>5, <1>6 DEF TransportInv

LEMMA HandleAsyncShutdownKeeps ==
  ASSUME TransportAssumption, TransportInv, HandleAsyncShutdown PROVE TransportInv'
<1>0. TransportTypeOK /\ BuffersOfOneWrite /\ ProxyDataHeld /\ OneOpAtATime
  BY DEF TransportInv
<1>1. TransportTypeOK'
  BY <1>0 DEF HandleAsyncShutdown, Cancelled, TransportTypeOK, TimerOf, Ops, Timers, None
<1>2. BuffersOfOneWrite'
  BY <1>0 DEF HandleAsyncShutdown, Cancelled, TransportTypeOK, BuffersOfOneWrite,
     OneOpAtATime, Busy, Untouched, TimerOf, Ops, Timers, None
<1>3. ProxyDataHeld'
  BY <1>0 DEF HandleAsyncShutdown, Cancelled, TransportTypeOK, ProxyDataHeld, OneOpAtATime,
     Busy, TimerOf, Ops, Timers, None
<1>4. OneOpAtATime'
  BY <1>0 DEF HandleAsyncShutdown, Cancelled, TransportTypeOK, ProxyDataHeld, OneOpAtATime,
     Busy, Untouched, TimerOf, Ops, Timers, None
<1>5. ASSUME Threads <= 1 PROVE ShutdownDecided'
  <2>1. ShutdownDecided
    BY <1>5 DEF TransportInv
  <2> QED BY <1>0, <1>5, <2>1 DEF HandleAsyncShutdown, Cancelled, TransportTypeOK,
     TransportAssumption, OneOpAtATime, Untouched, ShutdownDecided, Live, Busy, TimerOf, Ops,
     Timers, None
<1>6. ASSUME Threads <= 1, ~PreInitFails PROVE InitDecided'
  <2>1. InitDecided
    BY <1>6 DEF TransportInv
  <2> QED BY <1>0, <1>6, <2>1 DEF HandleAsyncShutdown, Cancelled, TransportTypeOK,
     TransportAssumption, OneOpAtATime, Untouched, InitDecided, InitOps, Live, Busy, TimerOf,
     Ops, Timers, None
<1> QED BY <1>1, <1>2, <1>3, <1>4, <1>5, <1>6 DEF TransportInv

LEMMA ShutdownTimeoutKeeps ==
  ASSUME TransportAssumption, TransportInv, ShutdownTimeout PROVE TransportInv'
<1>0. TransportTypeOK /\ BuffersOfOneWrite /\ ProxyDataHeld /\ OneOpAtATime
  BY DEF TransportInv
<1>1. TransportTypeOK'
  BY <1>0 DEF ShutdownTimeout, Aborted, TransportTypeOK, TimerOf, Ops, Timers, None
<1>2. BuffersOfOneWrite'
  BY <1>0 DEF ShutdownTimeout, Aborted, TransportTypeOK, BuffersOfOneWrite, OneOpAtATime,
     Busy, Untouched, TimerOf, Ops, Timers, None
<1>3. ProxyDataHeld'
  BY <1>0 DEF ShutdownTimeout, Aborted, TransportTypeOK, ProxyDataHeld, OneOpAtATime, Busy,
     TimerOf, Ops, Timers, None
<1>4. OneOpAtATime'
  BY <1>0 DEF ShutdownTimeout, Aborted, TransportTypeOK, ProxyDataHeld, OneOpAtATime, Busy,
     Untouched, TimerOf, Ops, Timers, None
<1>5. ASSUME Threads <= 1 PROVE ShutdownDecided'
  <2>1. ShutdownDecided
    BY <1>5 DEF TransportInv
  <2> QED BY <1>0, <1>5, <2>1 DEF ShutdownTimeout, Aborted, TransportTypeOK,
     TransportAssumption, OneOpAtATime, Untouched, ShutdownDecided, Live, Busy, TimerOf, Ops,
     Timers, None
<1>6. ASSUME Threads <= 1, ~PreInitFails PROVE InitDecided'
  <2>1. InitDecided /\ ShutdownDecided
    BY <1>6 DEF TransportInv
  <2> QED BY <1>0, <1>6, <2>1 DEF ShutdownTimeout, Aborted, TransportTypeOK,
     TransportAssumption, OneOpAtATime, Untouched, ShutdownDecided, InitDecided, InitOps, Live, Busy, TimerOf,
     Ops, Timers, None
<1> QED BY <1>1, <1>2, <1>3, <1>4, <1>5, <1>6 DEF TransportInv

LEMMA TransportStep ==
  ASSUME TransportAssumption, TransportInv, [TransportNext]_transportVars PROVE TransportInv'
<1>1. CASE UNCHANGED transportVars
  BY <1>1 DEF transportVars, TransportInv, TransportTypeOK, BuffersOfOneWrite,
     ProxyDataHeld,
     OneOpAtATime, Untouched, ShutdownDecided, InitDecided, Live, Busy
<1>2. CASE Handler
  BY <1>2, PreInitKeeps, HandleProxyWriteKeeps, HandleProxyReadKeeps, HandlePostInitKeeps,
     HandleAsyncShutdownKeeps, ShutdownTimeoutKeeps, HandleAsyncReadKeeps, HandleAsyncWriteKeeps,
     OpEndsKeeps, InitTimeoutKeeps DEF Handler
<1>3. CASE Environment
  BY <1>3, InitConKeeps, AsyncReadKeeps, AsyncWriteKeeps, OpCompletesKeeps DEF Environment
<1>4. CASE AsyncShutdown \/ \E t \in Timers : TimePasses(t) \/ Queues(t)
  BY <1>4, AsyncShutdownKeeps, TimePassesKeeps, QueuesKeeps
<1> QED BY <1>1, <1>2, <1>3, <1>4 DEF TransportNext

\* The transport's operations, timers and answers fit together, whatever the
\* network does and however many threads run it.
THEOREM TransportInvariant == TransportAssumption => (TransportSpec => []TransportInv)
<1> SUFFICES ASSUME TransportAssumption PROVE TransportSpec => []TransportInv
  OBVIOUS
<1>1. TransportInit => TransportInv
  <2> SUFFICES ASSUME TransportInit PROVE TransportInv
    OBVIOUS
  <2>1. tls \in BOOLEAN /\ proxyData \in BOOLEAN
    BY Zenon DEF TransportInit, TransportAssumption
  <2>2. TransportTypeOK
    BY <2>1 DEF TransportInit, TransportTypeOK
  <2>3. BuffersOfOneWrite /\ ProxyDataHeld /\ OneOpAtATime
    BY DEF TransportInit, BuffersOfOneWrite, ProxyDataHeld, OneOpAtATime, Untouched, Busy,
       Ops, Timers, None
  <2>4. ShutdownDecided /\ InitDecided
    BY DEF TransportInit, ShutdownDecided, InitDecided, InitOps, Live, Busy, TimerOf, Ops,
       Timers, None
  <2> QED BY <2>2, <2>3, <2>4 DEF TransportInv
<1>2. TransportInv /\ [TransportNext]_transportVars => TransportInv'
  BY TransportStep
<1> QED BY <1>1, <1>2, PTL DEF TransportSpec

\* m_bufs is the write's, the proxy's data is there while it is needed, and
\* with one thread initialisation and shutdown are answered once, whichever of
\* operation, failure and timer comes first.
THEOREM TransportAnswersOnce == TransportAssumption => (TransportSpec => []OneAtATime)
<1> SUFFICES ASSUME TransportAssumption PROVE TransportSpec => []OneAtATime
  OBVIOUS
<1>1. TransportInv => OneAtATime
  BY DEF TransportInv, OneAtATime, ShutdownDecided, InitDecided, ShutdownOnce, InitOnce
<1> QED BY <1>1, TransportInvariant, PTL

------------------------------------------------------------------------------
(* AcceptLoop: the acceptance loop of a server *)

Places == {"none", "created", "accepting", "accepted", "failed", "cancelled",
           "started", "terminated"}
Looping == {"created", "accepting", "accepted", "failed"}

\* What start_accept() makes of the connections it finds: it leaves them alone,
\* which while the endpoint listens means that creating one failed, or it
\* creates one.
LEMMA CreatedOne ==
  ASSUME AcceptAssumption, NEW cs \in [Connections -> Places], NEW ds \in Created(cs)
  PROVE  \/ ds = cs /\ (m_state = "LISTENING" => CreateFails)
         \/ /\ m_state = "LISTENING"
            /\ \E d \in Connections :
                 /\ cs[d] = "none" /\ ds[d] = "created"
                 /\ ds \in [Connections -> Places]
                 /\ \A c \in Connections : c # d => ds[c] = cs[c]
<1>1. PICK d \in IF m_state # "LISTENING" THEN {"none"}
                 ELSE {c \in Connections : cs[c] = "none"} \cup
                      (IF CreateFails THEN {"none"} ELSE {}) :
        ds = IF d \in {"none"} THEN cs ELSE [cs EXCEPT ![d] = "created"]
  BY DEF Created
<1>2. CASE d = "none"
  BY <1>1, <1>2 DEF AcceptAssumption
<1>3. CASE d # "none"
  <2>1. m_state = "LISTENING" /\ d \in Connections /\ cs[d] = "none"
    BY <1>1, <1>3
  <2>2. ds = [cs EXCEPT ![d] = "created"]
    BY <1>1, <1>3
  <2>3. "created" \in Places
    BY DEF Places
  <2>4. QED
    BY <2>1, <2>2, <2>3
<1>4. QED
  BY <1>2, <1>3

LEMMA AcceptTypesStart ==
  ASSUME AcceptAssumption, AcceptInit PROVE AcceptTypeOK
<1>1. 0 \in 0 .. Loops /\ 0 \in 0 .. Listens
  BY DEF AcceptAssumption
<1>2. con \in [Connections -> Places]
  BY DEF AcceptInit, Places
<1>3. QED
  BY <1>1, <1>2 DEF AcceptInit, AcceptTypeOK, Places

LEMMA HandleAcceptSteps ==
  ASSUME AcceptAssumption, AcceptTypeOK, NEW c \in Connections, HandleAccept(c)
  PROVE  \E cs \in [Connections -> Places] :
           /\ cs[c] \in {"started", "terminated"}
           /\ \A d \in Connections : d # c => cs[d] = con[d]
           /\ con' \in Created(cs)
<1> DEFINE cs == [con EXCEPT ![c] = IF con[c] = "accepted" THEN "started" ELSE "terminated"]
<1>1. cs \in [Connections -> Places]
  BY DEF AcceptTypeOK, Places
<1>2. /\ cs[c] \in {"started", "terminated"} /\ con' \in Created(cs)
      /\ \A d \in Connections : d # c => cs[d] = con[d]
  BY DEF AcceptTypeOK, HandleAccept
<1>3. QED
  BY <1>1, <1>2

LEMMA AcceptTypesStep ==
  ASSUME AcceptAssumption, AcceptTypeOK, [AcceptNext]_acceptVars
  PROVE  AcceptTypeOK'
<1>1. con \in [Connections -> Places]
  BY DEF AcceptTypeOK, Places
<1>2. CASE InitAsio \/ Listen \/ StopListening \/ Perpetual \/ Run \/ RunReturns
  <2>1. CASE Listen
    <3>1. starts' \in 0 .. Loops /\ listens' \in 0 .. Listens
      BY <2>1 DEF Listen, AcceptTypeOK, AcceptAssumption
    <3>2. QED
      BY <2>1, <3>1 DEF Listen, AcceptTypeOK
  <2>2. CASE StopListening
    <3>1. con' \in [Connections -> Places]
      BY <1>1, <2>2 DEF StopListening, Places
    <3>2. QED
      BY <2>2, <3>1 DEF StopListening, AcceptTypeOK, Places
  <2>3. CASE InitAsio \/ Perpetual \/ Run \/ RunReturns
    BY <2>3 DEF AcceptTypeOK, InitAsio, Perpetual, Run, RunReturns
  <2>4. QED
    BY <1>2, <2>1, <2>2, <2>3
<1>3. CASE StartAccept
  <2>1. con' \in [Connections -> Places]
    BY <1>1, <1>3, CreatedOne DEF StartAccept
  <2>2. starts' \in 0 .. Loops
    BY <1>3 DEF StartAccept, AcceptTypeOK, AcceptAssumption
  <2>3. QED
    BY <1>3, <2>1, <2>2 DEF StartAccept, AcceptTypeOK, Places
<1>4. ASSUME NEW c \in Connections, Arrives(c) \/ AsyncAccept(c) \/ ConnectionEnds(c) \/ Freed(c)
      PROVE  AcceptTypeOK'
  BY <1>4 DEF AcceptTypeOK, Arrives, AsyncAccept, ConnectionEnds, Freed
<1>5. ASSUME NEW c \in Connections, HandleAccept(c)
      PROVE  AcceptTypeOK'
  <2>1. con' \in [Connections -> Places]
    BY <1>5, HandleAcceptSteps, CreatedOne
  <2>2. QED
    BY <1>5, <2>1 DEF HandleAccept, AcceptTypeOK, Places
<1>6. CASE UNCHANGED acceptVars
  BY <1>6 DEF acceptVars, AcceptTypeOK
<1>7. QED
  BY <1>2, <1>3, <1>4, <1>5, <1>6 DEF AcceptNext, Loop

\* Where the loop of an endpoint that listens may go: a connection that is in
\* it stays in it, or one that takes its place does.
LEMMA LoopStep ==
  ASSUME AcceptAssumption, ~CreateFails, AcceptTypeOK, LoopGoesOn, [AcceptNext]_acceptVars
  PROVE  LoopGoesOn'
<1>1. con \in [Connections -> Places]
  BY DEF AcceptTypeOK, Places
<1> SUFFICES ASSUME m_state' = "LISTENING", starts' > 0
             PROVE  \E d \in Connections : con'[d] \in Looping
  BY DEF LoopGoesOn, InLoop, In, Looping
<1>2. CASE InitAsio \/ Listen \/ StopListening \/ Perpetual \/ Run \/ RunReturns
  BY <1>2 DEF LoopGoesOn, InLoop, In, Looping, InitAsio, Listen, StopListening, Perpetual, Run, RunReturns
<1>3. CASE StartAccept
  BY <1>1, <1>3, CreatedOne DEF StartAccept, Looping
<1>4. ASSUME NEW c \in Connections, Arrives(c) \/ AsyncAccept(c) \/ ConnectionEnds(c) \/ Freed(c)
      PROVE  \E d \in Connections : con'[d] \in Looping
  <2>1. m_state = "LISTENING" /\ starts > 0
    BY <1>4 DEF Arrives, AsyncAccept, ConnectionEnds, Freed
  <2>2. PICK d \in Connections : con[d] \in Looping
    BY <2>1 DEF LoopGoesOn, InLoop, In, Looping
  <2>3. con'[d] \in Looping
    BY <1>1, <1>4, <2>1, <2>2 DEF Arrives, AsyncAccept, ConnectionEnds, Freed, Looping
  <2>4. QED
    BY <2>3
<1>5. ASSUME NEW c \in Connections, HandleAccept(c)
      PROVE  \E d \in Connections : con'[d] \in Looping
  BY <1>5, HandleAcceptSteps, CreatedOne DEF HandleAccept, Looping
<1>6. CASE UNCHANGED acceptVars
  BY <1>6 DEF acceptVars, LoopGoesOn, InLoop, In, Looping
<1>7. QED
  BY <1>2, <1>3, <1>4, <1>5, <1>6 DEF AcceptNext, Loop

\* AcceptLoop, server_endpoint.hpp:107: as long as connections can be created the loop
\* goes on while the endpoint listens, whichever accepts fail and however often the
\* application stops listening and listens again.
THEOREM AcceptsGoOn == AcceptAssumption /\ ~CreateFails => (AcceptSpec => []LoopGoesOn)
<1> SUFFICES ASSUME AcceptAssumption, ~CreateFails PROVE AcceptSpec => []LoopGoesOn
  OBVIOUS
<1>1. AcceptInit => AcceptTypeOK /\ LoopGoesOn
  BY AcceptTypesStart DEF AcceptInit, LoopGoesOn
<1>2. AcceptTypeOK /\ LoopGoesOn /\ [AcceptNext]_acceptVars => AcceptTypeOK' /\ LoopGoesOn'
  BY AcceptTypesStep, LoopStep
<1>3. QED
  BY <1>1, <1>2, PTL DEF AcceptSpec

\* Before listen() there is nothing; while the endpoint listens for the first
\* time no accept was cancelled, and every one in the loop has its start_accept().
LoopCounted ==
  /\ listens = 0 => m_state # "LISTENING" /\ starts = 0 /\ \A c \in Connections : con[c] = "none"
  /\ m_state = "LISTENING" => In({"cancelled"}) = {} /\ Cardinality(InLoop) <= starts

LEMMA LoopSets ==
  ASSUME IsFiniteSet(Connections)
  PROVE  /\ IsFiniteSet(InLoop) /\ Cardinality(InLoop) \in Nat
         /\ Cardinality(In({"accepting", "accepted", "failed"})) <= Cardinality(InLoop)
<1>1. InLoop \subseteq Connections /\ In({"accepting", "accepted", "failed"}) \subseteq InLoop
  BY DEF In, InLoop
<1>2. QED
  BY <1>1, FS_Subset, FS_CardinalityType

LEMMA CountedStep ==
  ASSUME AcceptAssumption, IsFiniteSet(Connections), Listens <= 1, AcceptTypeOK, LoopCounted,
         [AcceptNext]_acceptVars
  PROVE  LoopCounted'
<1>0. con \in [Connections -> Places] /\ starts \in Nat /\ listens \in Nat /\ Listens \in Nat
  BY DEF AcceptTypeOK, AcceptAssumption, Places
<1>1. AcceptTypeOK'
  BY AcceptTypesStep
<1>2. CASE InitAsio \/ StopListening \/ Perpetual \/ Run \/ RunReturns
  BY <1>2 DEF LoopCounted, In, InLoop, InitAsio, StopListening, Perpetual, Run, RunReturns
<1>3. CASE Listen
  <2>1. listens = 0 /\ listens' = 1 /\ con' = con /\ \A c \in Connections : con[c] = "none"
    BY <1>0, <1>3 DEF Listen, LoopCounted
  <2>2. InLoop' = {} /\ In({"cancelled"})' = {} /\ starts' = 0
    BY <1>3, <2>1 DEF Listen, LoopCounted, In, InLoop
  <2>3. QED
    BY <2>1, <2>2, FS_EmptySet DEF LoopCounted
<1>4. CASE StartAccept
  <2>1. /\ m_state = "LISTENING" /\ UNCHANGED <<m_state, listens>> /\ con' \in Created(con)
        /\ starts' = IF con' = con THEN starts ELSE starts + 1
    BY <1>4 DEF StartAccept
  <2>2. listens # 0
    BY <2>1 DEF LoopCounted
  <2>3. CASE con' = con
    BY <2>1, <2>2, <2>3 DEF LoopCounted, In, InLoop
  <2>4. CASE con' # con
    <3>1. PICK d \in Connections :
            con[d] = "none" /\ con'[d] = "created" /\ \A c \in Connections : c # d => con'[c] = con[c]
      BY <1>0, <2>1, <2>4, CreatedOne
    <3>2. InLoop' = InLoop \cup {d} /\ d \notin InLoop
      BY <3>1 DEF In, InLoop
    <3>3. Cardinality(InLoop') = Cardinality(InLoop) + 1
      BY <3>2, LoopSets, FS_AddElement
    <3>4. In({"cancelled"})' = {}
      BY <2>1, <3>1 DEF LoopCounted, In
    <3>5. QED
      BY <1>0, <2>1, <2>2, <2>4, <3>3, <3>4, LoopSets DEF LoopCounted
  <2>5. QED
    BY <2>3, <2>4
<1>5. ASSUME NEW c \in Connections, Arrives(c) \/ AsyncAccept(c) \/ ConnectionEnds(c) \/ Freed(c)
      PROVE  LoopCounted'
  <2>1. UNCHANGED <<m_state, starts, listens>> /\ con[c] # "none"
    BY <1>5 DEF Arrives, AsyncAccept, ConnectionEnds, Freed
  <2>2. listens # 0
    BY <2>1 DEF LoopCounted
  <2>3. CASE m_state = "LISTENING"
    <3>1. InLoop' = InLoop /\ In({"cancelled"})' = In({"cancelled"})
      BY <1>0, <1>5, <2>3 DEF Arrives, AsyncAccept, ConnectionEnds, Freed, In, InLoop
    <3>2. QED
      BY <2>1, <2>2, <3>1 DEF LoopCounted
  <2>4. QED
    BY <2>1, <2>2, <2>3 DEF LoopCounted
<1>6. ASSUME NEW c \in Connections, HandleAccept(c)
      PROVE  LoopCounted'
  <2>1. /\ UNCHANGED <<m_state, starts, listens>>
        /\ con[c] \in {"accepted", "failed", "cancelled"}
    BY <1>6 DEF HandleAccept
  <2>2. listens # 0
    BY <2>1 DEF LoopCounted
  <2>3. CASE m_state = "LISTENING"
    <3>1. PICK cs \in [Connections -> Places] :
            /\ cs[c] \in {"started", "terminated"}
            /\ \A d \in Connections : d # c => cs[d] = con[d]
            /\ con' \in Created(cs)
      BY <1>6, HandleAcceptSteps
    <3>2. c \in InLoop
      BY <2>1, <2>3 DEF LoopCounted, In, InLoop
    <3>3. Cardinality(InLoop \ {c}) = Cardinality(InLoop) - 1 /\ IsFiniteSet(InLoop \ {c})
      BY <3>2, LoopSets, FS_RemoveElement
    <3>4. CASE con' = cs
      <4>1. InLoop' = InLoop \ {c} /\ In({"cancelled"})' \subseteq In({"cancelled"})
        BY <3>1, <3>4 DEF In, InLoop
      <4>2. QED
        BY <1>0, <2>1, <2>2, <2>3, <3>3, <4>1, LoopSets DEF LoopCounted
    <3>5. CASE con' # cs
      <4>1. PICK d \in Connections :
              cs[d] = "none" /\ con'[d] = "created" /\ \A e \in Connections : e # d => con'[e] = cs[e]
        BY <3>1, <3>5, CreatedOne
      <4>2. InLoop' = (InLoop \ {c}) \cup {d} /\ d \notin InLoop \ {c}
        BY <3>1, <4>1 DEF In, InLoop
      <4>3. Cardinality(InLoop') = Cardinality(InLoop)
        <5> DEFINE rest == InLoop \ {c}
        <5>1. Cardinality(rest \cup {d}) = Cardinality(rest) + 1
          BY <3>3, <4>2, FS_AddElement
        <5>2. QED
          BY <3>3, <4>2, <5>1, LoopSets
      <4>4. In({"cancelled"})' \subseteq In({"cancelled"})
        BY <3>1, <4>1 DEF In
      <4>5. QED
        BY <2>1, <2>2, <2>3, <4>3, <4>4 DEF LoopCounted
    <3>6. QED
      BY <3>4, <3>5
  <2>4. QED
    BY <2>1, <2>2, <2>3 DEF LoopCounted
<1>7. CASE UNCHANGED acceptVars
  BY <1>7 DEF acceptVars, LoopCounted, In, InLoop
<1>8. QED
  BY <1>2, <1>3, <1>4, <1>5, <1>6, <1>7 DEF AcceptNext, Loop

\* AcceptLoop: until the application listens a second time there are never more accepts
\* than calls of start_accept(), whatever fails and whenever it stops listening.
THEOREM AcceptsDoNotMultiply ==
  AcceptAssumption /\ IsFiniteSet(Connections) /\ Listens <= 1 => (AcceptSpec => []OneLoop)
<1> SUFFICES ASSUME AcceptAssumption, IsFiniteSet(Connections), Listens <= 1
             PROVE  AcceptSpec => []OneLoop
  OBVIOUS
<1>1. AcceptInit => AcceptTypeOK /\ LoopCounted
  BY AcceptTypesStart DEF AcceptInit, LoopCounted
<1>2. AcceptTypeOK /\ LoopCounted /\ [AcceptNext]_acceptVars => AcceptTypeOK' /\ LoopCounted'
  BY AcceptTypesStep, CountedStep
<1>3. AcceptTypeOK /\ LoopCounted => OneLoop
  <2> SUFFICES ASSUME AcceptTypeOK, LoopCounted, m_state = "LISTENING"
               PROVE  Cardinality(In({"accepting", "accepted", "failed"})) <= starts
    BY DEF OneLoop
  <2>1. starts \in Nat /\ Cardinality(InLoop) <= starts /\ In({"accepting", "accepted", "failed"}) \subseteq InLoop
    BY DEF AcceptTypeOK, AcceptAssumption, LoopCounted, In, InLoop
  <2>2. Cardinality(In({"accepting", "accepted", "failed"})) \in Nat
    BY <2>1, LoopSets, FS_Subset, FS_CardinalityType
  <2>3. QED
    BY <2>1, <2>2, LoopSets
<1>4. QED
  BY <1>1, <1>2, <1>3, PTL DEF AcceptSpec

\* AcceptLoop, endpoint.hpp:578: stop_listening() ends no connection that was accepted.
THEOREM AcceptedAreSpared == AcceptAssumption => (AcceptSpec => StopSparesConnections)
<1> SUFFICES ASSUME AcceptAssumption PROVE AcceptSpec => StopSparesConnections
  OBVIOUS
<1>1. ASSUME AcceptNext, m_state = "LISTENING", m_state' = "READY",
             NEW c \in In({"accepted", "started"})
      PROVE  con'[c] = con[c]
  <2>1. StopListening
    BY <1>1 DEF AcceptNext, InitAsio, Listen, StopListening, StartAccept, Perpetual, Run, RunReturns,
                Arrives, Loop, AsyncAccept, HandleAccept, ConnectionEnds, Freed
  <2>2. QED
    BY <1>1, <2>1 DEF StopListening, In
<1>2. [AcceptNext]_acceptVars =>
        [m_state = "LISTENING" /\ m_state' = "READY" =>
           \A c \in In({"accepted", "started"}) : con'[c] = con[c]]_acceptVars
  BY <1>1
<1>3. QED
  BY <1>2, PTL DEF AcceptSpec, StopSparesConnections

==============================================================================
