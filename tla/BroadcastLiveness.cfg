SPECIFICATION Spec
CONSTANTS
  Conns = {c1}
  Addrs = {x1}
  NoAddr = NoAddr
  MaxCommands = 3
  MaxData = 1
PROPERTIES
  ImplementsMailbox
  RequestCompletes
  RequestHonoured
  StartResumes
CHECK_DEADLOCK FALSE
