SPECIFICATION DfsSpec
CONSTANTS
  n1 = n1
  n2 = n2
  NumInodes = 4
  NumData = 4
  EntriesPerBlock = 3
  DirectPtrs = 2
  InodesPerBlock = 2
  Names <- TwoNames
  LongName = LongName
  FileCells <- OneText
  HeapCells <- ZeroHeap
  StackNames = {""}
  Asan = TRUE
  StackInodes <- CleanStack
  Sizes = {0, 1, 4}
  Paths <- PlainPaths
PROPERTIES
  StoredWhenOk
