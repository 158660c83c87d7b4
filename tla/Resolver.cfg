SPECIFICATION Spec
CONSTANTS
  Words <- Segments
  Programs <- SmallPrograms
  Prelude <- PreludeNames
  Modules <- ModuleNames
  BuiltinTypes <- TypeNames
  Ignored <- IgnoredNames
  Stdlib = {"std"}
INVARIANTS
    
    TopLevelNames
CHECK_DEADLOCK FALSE
