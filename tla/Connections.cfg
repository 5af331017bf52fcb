\* What happens on one connection. Every part may stop: a connection that nobody
\* uses any more.
SPECIFICATION MCSpec
CONSTANTS
  Parts = {"closing", "foreign", "dropping", "lossy", "ending", "ending_silent",
           "handshake", "handshake_any", "pings", "pings_overlap", "accept",
           "accept_again", "connect", "asio", "policy", "frames"}
  Codes = {0, 1, 999, 1000, 1005, 1011, 1016, 5000}
  Reasons <- Fitting
  ForeignFrames = {}
  Foreign = {}
  ReasonSize = 2
  MaxCalls = 3
  Lossy = FALSE
  SilentClose = FALSE
  DropOnError = FALSE
  Roles = {TRUE}
  OpenTimer = TRUE
  HttpHandler = TRUE
  Responders = {"r1", "r2"}
  Tls = {TRUE, FALSE}
  Proxy = {TRUE, FALSE}
  Threads = 1
  PreInitFails = FALSE
INVARIANTS
  ClosesInOrder
  CodesAgree
  OneAnswer
  OneAtATime
PROPERTIES
  KeepsHandlerOrder
  ToldOnceAndTruly
  SessionsEnd
  AttemptsSettle
CHECK_DEADLOCK FALSE
