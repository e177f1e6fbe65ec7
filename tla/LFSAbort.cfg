SPECIFICATION Spec
CONSTANTS
  n1 = n1
  n2 = n2
  n3 = n3
  n4 = n4
  NumInodes = 3
  NumData = 4
  EntriesPerBlock = 3
  DirectPtrs = 2
  InodesPerBlock = 2
  Names <- TwoNames
  LongName = LongName
  FileCells <- OneText
  HeapCells <- MCZeroHeap
  StackNames = {""}
  Asan = TRUE
  StackInodes <- CleanStack
  Sizes = {0, 1, 4}
SYMMETRY SwapTwo
INVARIANTS
  UnlinkReturns
