\* What an endpoint does with its connections and with their bytes. Every part may
\* stop: nobody connects, or nobody calls.
SPECIFICATION MCSpec
CONSTANTS
  Parts = {"lifetime", "lifetime_own", "settings", "settings_thread", "stream",
           "output", "debug", "uri", "agree", "sending", "calling", "handlers",
           "deflate", "request", "response", "parameters", "stream_frames",
           "library00", "foreign00", "mask", "bigmask", "fields", "utf8"}
  Endpoints = {e1, e2, e3}
  Services = {s1}
  External = app
  None = None
  AppThreads = {"t1", "t2"}
  Io = "io"
  Calls = {"send"}
  IsServer = TRUE
  DropOnError = FALSE
  CloseTimer = TRUE
  MaxCalls = 2
  MaxFrames = 1
  CopyOrder <- SomeSettings
  WordSettings <- SomeWords
  KeptSettings <- SomeWords
  Limit = "max_message_size"
  OtherThread = FALSE
  MaxChanges = 2
  MaxClients = 2
  Overloads = {"external_ec", "external", "internal"}
  MovesBusy = FALSE
INVARIANTS
  OwnedAndLive
  SessionSerial
  SettingsHold
  ContentsAgree
PROPERTIES
  BytesArrive
CHECK_DEADLOCK FALSE
