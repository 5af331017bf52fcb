SPECIFICATION ReaderSpec
CONSTANTS
  MaxFrames = 2
  MaxCodes = 2
  CountMod = 4
  MaxLen = 4
INVARIANTS
  ReaderInv
  StartedMeansGrabbing
  FramesHaveBuffers
  PictureOfFrame
  ReleasedAtReturn
  ResultExact
CHECK_DEADLOCK FALSE
