SPECIFICATION SafetySpec
CONSTANTS
  Conns = {c1, c2}
  Addrs = {x1, x2}
  NoAddr = NoAddr
  MaxCommands = 1
  MaxData = 1
INVARIANT ClosedLeaveChannel
CHECK_DEADLOCK FALSE
