SPECIFICATION DamageSpec
CONSTANTS
  n1 = n1
  n2 = n2
  n3 = n3
  n4 = n4
  NumInodes = 3
  NumData = 3
  EntriesPerBlock = 3
  DirectPtrs = 2
  InodesPerBlock = 2
  Names <- OneName
  LongName = LongName
  FileCells <- OneText
  HeapCells <- MCBothHeaps
  StackNames = {""}
  Asan = FALSE
  StackInodes <- CleanStack
  Sizes = {4}
INVARIANTS
  NoSharedBlock
  FreeOnlyWhileGivenBack
  Kept
  DamageConfined
