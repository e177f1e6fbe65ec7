SPECIFICATION Spec
CONSTANTS
  n1 = n1
  n2 = n2
  n3 = n3
  n4 = n4
  NumInodes = 5
  NumData = 3
  EntriesPerBlock = 2
  DirectPtrs = 3
  InodesPerBlock = 2
  Names <- FourNames
  LongName = LongName
  FileCells <- OneText
  HeapCells <- MCZeroHeap
  StackNames = {""}
  Asan = TRUE
  StackInodes <- CleanStack
  Sizes = {}
SYMMETRY SwapFour
PROPERTIES
  OtherNamesStay
