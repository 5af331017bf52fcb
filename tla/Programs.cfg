\* The programs of the examples and tutorials, the first server and the camera
\* programs. Every one of them may end.
SPECIFICATION MCSpec
CONSTANTS
  Parts = {"tls", "utility", "utility_step5", "utility_step4", "utility_order",
           "counting", "telemetry", "storage", "stopping", "clients", "prototype",
           "cameras"}
  MaxNames = 2
  MaxChain = 3
  MaxShown = 1
  Clients = {"c1", "c2"}
  ClientID <- Known
  max_client2_data_count = 1
  MaxCommands = 2
  MaxRounds = 2
  MaxSide = 2
INVARIANTS
  ShownIsOfHost
PROPERTIES
  ProgramsInOrder
  CamerasAndStrings
  ProgramsEnd
CHECK_DEADLOCK FALSE
