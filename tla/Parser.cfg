SPECIFICATION Spec
CONSTANTS
  Inputs <- MCInputs
  GenericCap = 20
  FunctionCap = 40
  ScanCap = 60
INVARIANTS
    LoopsAdvance
    StructureKept
PROPERTIES
    EndsOrStalls
CHECK_DEADLOCK FALSE
