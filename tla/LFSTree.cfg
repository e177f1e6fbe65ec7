SPECIFICATION NameSpaceSpec
CONSTANTS
  n1 = n1
  n2 = n2
  n3 = n3
  n4 = n4
  NumInodes = 4
  NumData = 5
  EntriesPerBlock = 3
  DirectPtrs = 2
  InodesPerBlock = 2
  Names <- TwoNames
  LongName = LongName
  FileCells <- OneText
  HeapCells <- MCZeroHeap
  StackNames <- TwoNamesOrNone
  Asan = TRUE
  StackInodes <- CleanStack
  Sizes = {0, 4}
SYMMETRY SwapTwo
INVARIANTS
  TypeOK
  TreeShape
  AbsentForUnlink
  NoLostBlock
PROPERTIES
  OtherNamesStay
  CreatedIsFound
  UnlinkedIsGone
  ImplementsNameSpace
