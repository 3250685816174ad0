SPECIFICATION Spec
CONSTANTS
  BufFrames = 18
  VecSizes = {2, 4}
  WRITFRAMES = 4
  SignalsPerBuffer = 4
  MaxFrames = 40
  Trouble = {"open fails", "write fails", "freed any time"}
INVARIANTS
  TypeOK
  FileIsRecording
  OpensOnlyWhenClosed
PROPERTIES
  BlockUndisturbed
  ImplementsFifo
  CallsReturn
  StopFlushes
CHECK_DEADLOCK FALSE
