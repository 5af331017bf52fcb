SPECIFICATION Spec
CONSTANTS
  PixelTypes = {"Mono8", "Jpeg"}
  MaxFrames = 2
PROPERTY EnterExits
CHECK_DEADLOCK FALSE
