SPECIFICATION SafetySpec
CONSTANTS
  Conns = {c1, c2}
  Addrs = {x1, x2}
  NoAddr = NoAddr
  MaxCommands = 2
  MaxData = 1
SYMMETRY Symmetry
INVARIANTS
  IInv
  NoLostWakeup
  StopBoundsFrames
  StringsWithinQuota
  StreamsOnlyToCommanders
PROPERTIES
  SendFailsOnlyForLostPeer
  HandledOnceInOrder
CHECK_DEADLOCK FALSE
