SPECIFICATION Spec
CONSTANTS
  Counts = {0, 2, 3, 4}
  Contents <- SomeContents
  Matrices <- SomeMatrices
  Singular <- SomeSingular
  Labels = {"l1", "l2"}
  Files <- SomeFiles
  ItemSizes = {2, 8}
  Blocks = {0, 2}
  BufferFrames = 1
  MaxLabels = 1
  MaxFrames = 2
  MaxFaults = 1
  Documented = TRUE
INVARIANTS
  TypeOK
  WrittenFramesFillFile
  ReadFramesMatchInfo
  HeadersBeforeData
PROPERTIES
  BufferHoldsTransfer
  ChunksFinalAfterData
