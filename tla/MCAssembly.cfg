SPECIFICATION Spec
CONSTANTS
  Programs <- MCPrograms
INVARIANTS TypeOK LabelsLand
PROPERTIES ReadsBack AssemblersAgree
CHECK_DEADLOCK FALSE
