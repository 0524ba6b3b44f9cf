SPECIFICATION MCSpec
CONSTANTS
  PROG = 768
  LIMIT = 784
  TooLong = 3
  ENTRIES = 8
  DEPTH = 8
  Letters = {"A"}
  Table <- MCTable
  Numbers = {1, 255, 256}
  Texts <- MCTexts
  Typed <- MCTyped
  Inputs = {0, 1}
  MaxEntered = 3
  MaxEdited = 5
  Calculations <- MCCalculations
INVARIANTS
  TypeOK
  RecordsHold
  ValueIsMeant
  ThreeForEachLevel
PROPERTIES
  KeepsProgram
  BreakStops
