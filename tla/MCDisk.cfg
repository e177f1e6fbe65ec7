SPECIFICATION FairSpec
CONSTANTS
  d1 = d1
  d2 = d2
  d3 = d3
  Data <- MCData
  NumBlocks = 2
  MaxUndo = 4
INVARIANTS
  TypeOK
  UndoCovers
PROPERTIES
  RollbackRestores
  CrashConfined
  ImplementsTxDisk
  RollbackReturns
