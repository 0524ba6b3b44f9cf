SPECIFICATION MCSnoopSpec
CONSTANTS
  MemSize = 4
  MaxLineBytes = 2
  MaxLines = 2
  WordMod = 256
  Byte = {0, 1}
  ClockMod = 1
  IOPage = {2, 3}
  CleanReg = 2
  InvalidateReg = 3
  InputRegs = {}
  OutputRegs = {}
  CodeAddr = {0, 1}
  DataAddr = {0, 1, 2, 3}
  ModesUsed = {"modified"}
  Geometry <- WideI
  Requests <- NoRequests
  Policies <- WideIPolicies
  Images <- NoImages
INVARIANT SnoopIsCoherent
