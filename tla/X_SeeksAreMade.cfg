SPECIFICATION Spec
CONSTANTS
  FileFrames = 5
  BufferFrames = 3
  RingFrames = 4
  MinimalFrames = 2
  RequestFrames = 2
  Options = {{"transport_aware"}}
  Ratios = {0, 2}
  Seeks = {0, 3, 9}
  Periods = {2, 4}
  PipeBytes = 3
  MaxSeeks = 1
  SeekAnytime = TRUE
PROPERTIES
  SeeksAreMade
CHECK_DEADLOCK FALSE
