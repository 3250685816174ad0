SPECIFICATION Spec
CONSTANTS
  BufferFrames = 4
  RingFrames = 7
  MinimalFrames = 2
  Timers = {0, 5}
  Periods = {1, 3, 4}
  PipeBytes = 4
  MaxFrames = 14
  MainIsLate = TRUE
INVARIANTS
  TypeOK
  EveryFrameAccounted
  NoPokeLost
PROPERTIES
  TimerKept
  RecordingEnds
  ImplementsFifo
CHECK_DEADLOCK FALSE
