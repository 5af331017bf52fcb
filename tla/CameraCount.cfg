SPECIFICATION ReaderSpec
CONSTANTS
  MaxFrames = 1
  MaxCodes = 1
  CountMod = 4
  MaxLen = 2
INVARIANT CountKeepsTrack
CHECK_DEADLOCK FALSE
