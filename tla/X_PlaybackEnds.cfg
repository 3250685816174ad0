SPECIFICATION Spec
CONSTANTS
  BufFrames = 18
  VecSizes = {4}
  READFRAMES = 4
  SignalsPerBuffer = 4
  Files = {7}
  Onsets = {0}
  Positions = {}
  Trouble = {}
PROPERTIES
  PlaybackEnds
