SPECIFICATION Spec
CONSTANTS
  BufFrames = 18
  VecSizes = {4}
  READFRAMES = 4
  SignalsPerBuffer = 4
  Files = {0, 4, 22}
  Onsets = {2, 30}
  Positions = {0}
  Trouble = {"read fails"}
INVARIANTS
  TypeOK
  PlaysInOrder
  LoadsFileAskedFor
  ClosedBetweenRequests
PROPERTIES
  PlaysToTheEnd
  ImplementsFifo
  PlaybackEnds
  FreeReturns
CHECK_DEADLOCK FALSE
