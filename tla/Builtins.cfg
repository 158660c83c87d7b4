SPECIFICATION Spec
CONSTANTS
  Word = 8
  Inputs <- MCInputs
  TypeArgs <- MCTypeArgs
  Samples <- MCSamples
  Strays <- MCStrays
  Floats <- MCFloats
  Functions <- MCFunctions
  Apply <- MCApply
  MaxCalls = 2
INVARIANTS
    DeclaredTypeKept
    
    
    NumberLaws
CHECK_DEADLOCK FALSE
