SPECIFICATION Spec
CONSTANTS
  n1 = n1
  NumInodes = 3
  NumData = 3
  EntriesPerBlock = 3
  DirectPtrs = 2
  InodesPerBlock = 2
  Names <- OneName
  LongName = LongName
  FileCells <- OneText
  HeapCells <- ZeroHeap
  StackNames = {"", "old"}
  Asan = TRUE
  StackInodes <- DirtyStack
  Sizes = {1}
  Requests <- MCRequests
  MinCount = 2
  BlockBytes = 8
  InodeBytes = 4
  SuperBytes = 1
  BitsPerBlock = 4
  IntBound = 128
CHECK_DEADLOCK FALSE
INVARIANTS
  MadeIsInit
  MadeIsRoomy
  UnfinishedIsSound
