SPECIFICATION Spec
CONSTANTS
  Inputs <- Enums
  GenericCap = 20
  FunctionCap = 40
  ScanCap = 60
PROPERTY
  Ends
CHECK_DEADLOCK FALSE
