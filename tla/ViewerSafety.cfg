SPECIFICATION Spec
CONSTANTS
  PixelTypes = {"Mono8", "Jpeg", "other"}
  MaxFrames = 3
INVARIANTS
  IInv
  SavedFramesWhole
  ThreadOutlived
  ReleasedAtExit
CHECK_DEADLOCK FALSE
