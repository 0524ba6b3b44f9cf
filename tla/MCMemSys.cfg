SPECIFICATION MCCareSpec
CONSTANTS
  MemSize = 4
  MaxLineBytes = 1
  MaxLines = 2
  WordMod = 256
  Byte = {0, 1}
  ClockMod = 1
  IOPage = {1, 2, 3}
  CleanReg = 2
  InvalidateReg = 3
  InputRegs = {1}
  OutputRegs = {1}
  CodeAddr = {0}
  DataAddr = {0, 1, 2, 3}
  ModesUsed = {"vn", "harvard", "modified"}
  Geometry <- OneCell
  Requests <- OneCellRequests
  Policies <- OneCellPolicies
  Images <- ZeroCell
INVARIANTS TypeOK DevicesUncached IdleCachesEmpty CodeNeverDirty
PROPERTY KeepsModel
