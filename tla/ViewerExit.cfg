SPECIFICATION Spec
CONSTANTS
  PixelTypes = {"Mono8", "other"}
  MaxFrames = 2
PROPERTIES
  EnterExits
  KeyServed
CHECK_DEADLOCK FALSE
