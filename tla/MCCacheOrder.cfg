SPECIFICATION StatSpec
CONSTANTS
  MemSize = 4
  MaxLineBytes = 1
  MaxLines = 2
  WordMod = 256
  Byte = {0}
  ClockMod = 5
  UsedAddr = {0, 1, 2}
  Requests <- MCRequests
  InitRequests <- MCRequests
  Policies <- MCPolicies
  MaxMiss = 2
  MaxOut = 1
INVARIANTS Conserved OnceOut
PROPERTY FollowsRecency
