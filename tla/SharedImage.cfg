SPECIFICATION SharedSpec
CONSTANTS
  n0 = n0
  n1 = n1
  NumInodes = 4
  NumData = 4
  EntriesPerBlock = 3
  DirectPtrs = 2
  InodesPerBlock = 2
  Names <- TwoNames
  LongName = LongName
  FileCells <- OneText
  HeapCells <- BothHeaps
  StackNames = {""}
  Asan = FALSE
  StackInodes <- CleanStack
  Sizes = {4}
  Bystander = n0
  MaxCalls = 2
  MaxTotal = 3
CHECK_DEADLOCK FALSE
INVARIANTS
  BystanderKept
PROPERTIES
  AloneAsLFS
