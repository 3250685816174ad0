SPECIFICATION Spec
CONSTANTS
  Counts = {0, 1, 3, 4}
  Contents <- SomeContents
  Matrices <- FewMatrices
  Singular = {}
  Labels = {"l1", "l2"}
  Files <- SomeFiles
  ItemSizes = {4}
  Blocks = {0, 1}
  BufferFrames = 1
  MaxLabels = 2
  MaxFrames = 1
  MaxFaults = 0
  Documented = TRUE
PROPERTIES
  ImplementsFile
