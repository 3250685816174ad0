SPECIFICATION Spec
CONSTANTS
  Counts = {0, 3, 4}
  Contents <- SomeContents
  Matrices <- FewMatrices
  Singular = {}
  Labels = {"l1", "l2"}
  Files <- SomeFiles
  ItemSizes = {4}
  Blocks = {1}
  BufferFrames = 1
  MaxLabels = 1
  MaxFrames = 1
  MaxFaults = 0
  Documented = FALSE
INVARIANTS
  MatrixBeforeData
