SPECIFICATION Spec
CONSTANTS
  Sounds <- SomeSounds
  MaxIns = 2
  Orders <- SomeOrders
  MatrixFiles <- SomeMatrices
  Blocksizes = {1, 2, 3}
  Foreign <- SomeForeign
INVARIANTS
  TypeOK
  WrittenInPlace
  ReadsBack
  SplitInPlace
  BlocksFit
CHECK_DEADLOCK FALSE
