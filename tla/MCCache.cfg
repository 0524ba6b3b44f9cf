SPECIFICATION MCSpec
CONSTANTS
  MemSize = 8
  MaxLineBytes = 4
  MaxLines = 4
  WordMod = 256
  Byte = {0, 1}
  ClockMod = 2
  UsedAddr = {0, 3, 4}
  Requests <- MCRequests
  InitRequests <- MCInitRequests
  Policies <- MCPolicies
INVARIANTS TypeOK OneCopy Placed CleanIsMemory
PROPERTY KeepsPromise
