SPECIFICATION GunrockFairSpec
CONSTANTS
  ds3 = ds3
  a = a
  b = b
  Tokens <- MCTokens
  Requests <- MCRequests
  StorePrefix = ds3
  MaxFds = 3
INVARIANTS
  ReadAsSent
  DescriptorsAccounted
  SuccessIsForTheStore
PROPERTIES
  
  ClientsLeave
