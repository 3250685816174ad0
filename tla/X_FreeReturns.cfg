SPECIFICATION Spec
CONSTANTS
  BufFrames = 16
  VecSizes = {2}
  WRITFRAMES = 4
  SignalsPerBuffer = 4
  MaxFrames = 4
  Trouble = {"freed any time"}
PROPERTIES
  FreeReturns
CHECK_DEADLOCK FALSE
